--------------------------- MODULE CreateChargeInv ---------------------------
(***************************************************************************)
(* The inductive invariant of CreateCharge, in named parts: the safety     *)
(* invariants strengthened with what the code relies on between its steps. *)
(***************************************************************************)
EXTENDS CreateCharge

\* The request r was told "new": it runs, or has run, the handler.  (One that
\* the process lost before tx A leaves no trace but its key.)
Claimant(r) == Executing(r) \/ pc[r] = "saving" \/ Exists(r)

\* The charge in memory is that of r, with the given status and pending events.
Holds(r, status, pending) ==
  /\ mem[r] \in Copies /\ mem[r].id = r
  /\ mem[r].tenant = req[r].tenant /\ mem[r].amount = req[r].body
  /\ mem[r].version = 0 /\ mem[r].status = status /\ mem[r].pending = pending

\* The stored charge of r is CREATED, as tx A left it.
StoredCreated(r) == Exists(r) /\ charges[r].status = "CREATED" /\ charges[r].version = 0

\* A request has a tenant, a key and a body once it has arrived, and a key
\* once it is past Reserve.
RequestsKnown ==
  \A r \in Requests :
    /\ pc[r] = "idle" \/ req[r] \in RequestType
    /\ (Claimant(r) \/ AnsweredByHandler(r)) =>
         /\ pc[r] \notin {"idle", "arrived"} /\ req[r].key \in Keys
         /\ keys[KeyOf(r)] # NoRow /\ keys[KeyOf(r)].fingerprint = req[r].body

\* What the use case holds and what the database holds, step by step.
MemoryMatchesRow ==
  \A r \in Requests :
    /\ pc[r] \in {"idle", "arrived", "reserved"} => ~Exists(r)
    /\ pc[r] \in {"created", "calling"} => Holds(r, "CREATED", << >>) /\ StoredCreated(r)
    /\ pc[r] = "activating" =>
         Holds(r, "ACTIVE", <<"activated">>) /\ StoredCreated(r) /\ r \in cobs
    /\ pc[r] = "failing" => Holds(r, "FAILED", <<"failed">>) /\ StoredCreated(r)
    /\ pc[r] = "saving" => AnsweredByHandler(r)

\* The rows carry the tenant and the amount of the request that minted them,
\* and an ACTIVE one is payable at EFi.
RowIsTrue(x) ==
  Exists(x) =>
    /\ charges[x].tenant = req[x].tenant /\ charges[x].amount = req[x].body
    /\ charges[x].status = "ACTIVE" => x \in cobs

RowsAreTrue == \A x \in Requests : RowIsTrue(x)

\* At most one request of a key ever becomes its claimant.
OneClaimant ==
  \A p, q \in Requests :
    Claimant(p) /\ Claimant(q) /\ KeyOf(p) = KeyOf(q) => p = q

\* While a key is being executed nobody has an answer of its handler.
NoAnswerBeforeTheEnd ==
  \A p, q \in Requests :
    Executing(p) /\ AnsweredByHandler(q) => KeyOf(p) # KeyOf(q)

\* A stored result is an answer that the handler gave, and is the one that
\* every answered request of its key was given.
StoredIsDecided ==
  \A tk \in Tenants \X Keys :
    keys[tk] # NoRow /\ keys[tk].status > 0 =>
      /\ keys[tk].status = keys[tk].response.status
      /\ \E r \in Requests :
           AnsweredByHandler(r) /\ KeyOf(r) = tk /\ resp[r] = keys[tk].response

\* The inductive invariant.
Inv ==
  /\ TypeOK /\ RequestsKnown /\ MemoryMatchesRow /\ RowsAreTrue
  /\ OneClaimant /\ NoAnswerBeforeTheEnd /\ StoredIsDecided
  /\ PersistFirst /\ RecordsAgree /\ CreatedIsActive /\ FailureIsRecorded
  /\ OneOutcomePerKey
=============================================================================
