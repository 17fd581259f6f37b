------------------------- MODULE CreateCharge_proofs -------------------------
(***************************************************************************)
(* Proofs about CreateCharge for any sets of requests, tenants, keys and   *)
(* bodies, any faults and any number of crashes.  Inv is inductive.  The   *)
(* actions fall into few shapes: those that leave the keys, the tables and *)
(* the answers alone (Quiet), those by which the middleware refuses a      *)
(* request (Refusal) and those by which the handler returns (Return); a    *)
(* lemma per shape carries the parts of Inv that the shape cannot disturb, *)
(* and a lemma per action the rest.  The second part is about what holds   *)
(* as long as no client has left, no transaction has failed and the        *)
(* process has not died: MCCreateChargeFaults remembers it.  The third     *)
(* part is about the promise of IdempotentRequests: every step of the code *)
(* is a step of it or leaves its state alone.  Reserve claims or replays,  *)
(* tx A mints, the return of the handler decides, a crash abandons, and    *)
(* SaveResult is not seen at all.                                          *)
(***************************************************************************)
EXTENDS MCCreateChargeFaults, CreateChargeRefinement, SequenceTheorems, TLAPS

\* Nothing has been sent, claimed or recorded when the server starts.
LEMMA InitInv == Init => Inv
  <1> SUFFICES ASSUME Init PROVE Inv
    OBVIOUS
  <1>1. TypeOK
    BY CreateChargeAssumption
    DEF Init, KeysInit, RepoInit, EfiInit, TypeOK, KeysTypeOK, EfiTypeOK, PCs
  <1>2. \A r \in Requests : ~Exists(r) /\ ~Claimant(r) /\ ~AnsweredByHandler(r)
    BY DEF Init, RepoInit, Exists, Claimant, Executing, AnsweredByHandler
  <1>3. RequestsKnown /\ MemoryMatchesRow /\ RowsAreTrue
    BY <1>2 DEF Init, RequestsKnown, MemoryMatchesRow, RowsAreTrue, RowIsTrue
  <1>4. OneClaimant /\ NoAnswerBeforeTheEnd /\ StoredIsDecided
    BY <1>2 DEF Init, KeysInit, OneClaimant, NoAnswerBeforeTheEnd, StoredIsDecided
  <1>5. PersistFirst /\ RecordsAgree /\ CreatedIsActive /\ FailureIsRecorded
        /\ OneOutcomePerKey
    BY <1>2 DEF Init, RepoInit, EfiInit, PersistFirst, RecordsAgree, RecordAgrees,
                CreatedIsActive, FailureIsRecorded, OneOutcomePerKey
  <1> QED
    BY <1>1, <1>3, <1>4, <1>5 DEF Inv

\* An answer names only charges that are requests' own.
LEMMA AnswersNameRequests ==
  ASSUME TypeOK, NEW r \in Requests, AnsweredByHandler(r), resp[r].charge # NoCharge
  PROVE  resp[r].charge \in Requests
  BY DEF TypeOK, AnsweredByHandler, Responses

\* The key of a request that carries one is a key of the table.
LEMMA KeyOfType ==
  ASSUME NEW r \in Requests, req[r] \in RequestType, req[r].key \in Keys
  PROVE  KeyOf(r) \in Tenants \X Keys
  BY DEF RequestType, KeyOf

\* What makes a copy of a charge.
LEMMA CopyType ==
  ASSUME NEW r \in Requests, NEW t \in Tenants, NEW b \in Bodies, NEW st \in Statuses,
         NEW qr \in BOOLEAN, NEW p \in Seq(EventTypes)
  PROVE  [id |-> r, tenant |-> t, amount |-> b, status |-> st, version |-> 0,
          qr |-> qr, pending |-> p] \in Copies
  BY DEF Copies

-----------------------------------------------------------------------------
\* A client sends a request.
LEMMA ArriveInv ==
  ASSUME Inv, NEW r \in Requests, NEW t \in Tenants, NEW k \in Keys \cup {NoKey},
         NEW b \in Bodies, Arrive(r, t, k, b)
  PROVE  Inv'
  <1> USE DEF Inv, Arrive
  <1>0. /\ \A q \in Requests \ {r} : req'[q] = req[q] /\ pc'[q] = pc[q]
        /\ pc'[r] = "arrived" /\ req'[r] = [tenant |-> t, key |-> k, body |-> b]
        /\ req'[r] \in RequestType /\ pc[r] = "idle"
    BY DEF TypeOK, RequestType
  <1>1. TypeOK'
    BY <1>0 DEF TypeOK, KeysTypeOK, EfiTypeOK, repoVars, efiVars, PCs
  <1>2. ~Claimant(r) /\ ~AnsweredByHandler(r) /\ ~Exists(r)
    BY DEF RequestsKnown, MemoryMatchesRow, Claimant
  <1>3. \A q \in Requests : /\ Claimant(q)' <=> Claimant(q)
                            /\ AnsweredByHandler(q)' <=> AnsweredByHandler(q)
                            /\ Executing(q)' <=> Executing(q)
                            /\ Exists(q)' <=> Exists(q)
                            /\ Claimant(q) \/ AnsweredByHandler(q) \/ Exists(q) => q # r
    BY <1>0, <1>2 DEF Claimant, AnsweredByHandler, Executing, Exists, repoVars
  <1>4. \A q \in Requests \ {r} : KeyOf(q)' = KeyOf(q)
    BY <1>0 DEF KeyOf
  <1>5. RequestsKnown'
    BY <1>0, <1>3, <1>4 DEF RequestsKnown
  <1>6. OneClaimant'
    BY <1>3, <1>4 DEF OneClaimant
  <1>7. NoAnswerBeforeTheEnd'
    BY <1>3, <1>4 DEF NoAnswerBeforeTheEnd, Claimant
  <1>8. OneOutcomePerKey'
    BY <1>0, <1>3, <1>4 DEF OneOutcomePerKey
  <1>9. MemoryMatchesRow'
    BY <1>0, <1>3 DEF MemoryMatchesRow, Holds, StoredCreated, repoVars, efiVars
  <1>10. RowsAreTrue'
    BY <1>0, <1>3 DEF RowsAreTrue, RowIsTrue, repoVars, efiVars
  <1>11. PersistFirst'
    BY <1>3 DEF PersistFirst, TypeOK, EfiTypeOK, efiVars
  <1>12. RecordsAgree'
    BY DEF RecordsAgree, RecordAgrees, Exists, repoVars
  <1>13. StoredIsDecided'
    BY <1>3, <1>4 DEF StoredIsDecided
  <1>14. CreatedIsActive'
    BY <1>0, <1>3, <1>4 DEF CreatedIsActive, Exists, repoVars, efiVars
  <1>15. FailureIsRecorded'
    <2> SUFFICES ASSUME NEW q \in Requests, AnsweredByHandler(q)', resp'[q].status = 502
                 PROVE  \E x \in Requests : FailureOnRecord(x, q)'
      BY DEF FailureIsRecorded
    <2>1. PICK x \in Requests : FailureOnRecord(x, q)
      BY <1>3 DEF FailureIsRecorded
    <2>2. x # r /\ q # r
      BY <1>3, <2>1 DEF FailureOnRecord
    <2> QED
      BY <1>0, <1>3, <1>4, <2>1, <2>2 DEF FailureOnRecord, repoVars
  <1> QED
    BY <1>1, <1>5, <1>6, <1>7, <1>8, <1>9, <1>10, <1>11, <1>12, <1>13, <1>14, <1>15

-----------------------------------------------------------------------------
\* Quiet steps: the keys, the tables, the requests and their answers stay,
\* cobs are not lost, and no request starts to execute or to save.
Quiet ==
  /\ UNCHANGED <<keys, charges, events, outbox, req, resp>>
  /\ cobs \subseteq cobs'
  /\ \A q \in Requests :
       /\ Executing(q)' => Executing(q)
       /\ pc'[q] = "saving" => pc[q] = "saving"
       /\ pc'[q] \in {"idle", "arrived"} => pc[q] \in {"idle", "arrived"}
       /\ pc'[q] = "idle" <=> pc[q] = "idle"

\* A step that touches neither the records nor the keys keeps Inv.
LEMMA QuietInv ==
  ASSUME Inv, Quiet, TypeOK', MemoryMatchesRow', PersistFirst'
  PROVE  Inv'
  <1> USE DEF Inv, Quiet
  <1>1. \A q \in Requests : /\ Claimant(q)' => Claimant(q)
                            /\ AnsweredByHandler(q)' <=> AnsweredByHandler(q)
                            /\ Exists(q)' <=> Exists(q)
                            /\ KeyOf(q)' = KeyOf(q)
    BY DEF Claimant, AnsweredByHandler, Exists, KeyOf
  <1>2. RequestsKnown'
    BY <1>1 DEF RequestsKnown
  <1>3. OneClaimant' /\ NoAnswerBeforeTheEnd'
    BY <1>1 DEF OneClaimant, NoAnswerBeforeTheEnd
  <1>4. StoredIsDecided'
    BY <1>1 DEF StoredIsDecided
  <1>5. OneOutcomePerKey'
    BY <1>1 DEF OneOutcomePerKey
  <1>6. RowsAreTrue'
    BY DEF RowsAreTrue, RowIsTrue, Exists
  <1>7. RecordsAgree'
    BY DEF RecordsAgree, RecordAgrees, Exists
  <1>8. CreatedIsActive'
    BY <1>1 DEF CreatedIsActive, Exists
  <1>9. FailureIsRecorded'
    <2> SUFFICES ASSUME NEW q \in Requests, AnsweredByHandler(q)', resp'[q].status = 502
                 PROVE  \E x \in Requests : FailureOnRecord(x, q)'
      BY DEF FailureIsRecorded
    <2>1. PICK x \in Requests : FailureOnRecord(x, q)
      BY <1>1 DEF FailureIsRecorded
    <2> QED
      BY <1>1, <2>1 DEF FailureOnRecord
  <1> QED
    BY <1>2, <1>3, <1>4, <1>5, <1>6, <1>7, <1>8, <1>9

\* A client hangs up, or is answered.
LEMMA ClientInv ==
  ASSUME Inv, NEW r \in Requests, Disconnect(r) \/ Receive(r)
  PROVE  Inv'
  <1> USE DEF Inv, Disconnect, Receive
  <1>1. Quiet
    BY DEF Quiet, repoVars, efiVars, Executing
  <1>2. TypeOK'
    BY DEF TypeOK, KeysTypeOK, EfiTypeOK, repoVars, efiVars
  <1>3. MemoryMatchesRow'
    BY DEF MemoryMatchesRow, Holds, StoredCreated, Exists, AnsweredByHandler, repoVars, efiVars
  <1>4. PersistFirst'
    BY DEF PersistFirst, Exists, repoVars, efiVars
  <1> QED
    BY <1>1, <1>2, <1>3, <1>4, QuietInv

\* The PUT leaves: the charge has been recorded by then.
LEMMA CallProviderInv ==
  ASSUME Inv, NEW r \in Requests, CallProvider(r)
  PROVE  Inv'
  <1> USE DEF Inv, CallProvider, SendPut
  <1>0. pc'[r] = "calling" /\ \A q \in Requests \ {r} : pc'[q] = pc[q]
    BY DEF TypeOK
  <1>1. Quiet
    BY <1>0 DEF Quiet, repoVars, Executing
  <1>2. TypeOK'
    BY DEF TypeOK, KeysTypeOK, EfiTypeOK, repoVars, PCs
  <1>3. MemoryMatchesRow'
    BY <1>0 DEF MemoryMatchesRow, Holds, StoredCreated, Exists, AnsweredByHandler, repoVars
  <1>4. PersistFirst'
    BY DEF PersistFirst, MemoryMatchesRow, StoredCreated, Exists, repoVars
  <1> QED
    BY <1>1, <1>2, <1>3, <1>4, QuietInv

\* EFi answers that the cob exists.
LEMMA ProviderAnswersInv ==
  ASSUME Inv, NEW r \in Requests, NEW qr \in BOOLEAN, ProviderAnswers(r, qr)
  PROVE  Inv'
  <1> USE DEF Inv, ProviderAnswers
  <1>0. /\ pc'[r] = "activating" /\ \A q \in Requests \ {r} : pc'[q] = pc[q]
        /\ mem'[r] = MarkActive(mem[r], qr) /\ \A q \in Requests \ {r} : mem'[q] = mem[q]
    BY DEF TypeOK
  <1>1. Quiet
    BY <1>0 DEF Quiet, repoVars, efiVars, Executing
  <1>2. Holds(r, "CREATED", << >>) /\ StoredCreated(r)
    BY DEF MemoryMatchesRow
  <1>3. /\ mem'[r] = [id |-> r, tenant |-> mem[r].tenant, amount |-> mem[r].amount,
                   status |-> "ACTIVE", version |-> 0, qr |-> qr, pending |-> <<"activated">>]
        /\ mem'[r] \in Copies
    <2>1. Append(<< >>, "activated") = <<"activated">>
      OBVIOUS
    <2>2. mem'[r] = [id |-> r, tenant |-> mem[r].tenant, amount |-> mem[r].amount,
                   status |-> "ACTIVE", version |-> 0, qr |-> qr, pending |-> <<"activated">>]
      BY <1>0, <1>2, <2>1 DEF MarkActive, CanMark, Holds, Copies
    <2>3. <<"activated">> \in Seq(EventTypes)
      BY DEF EventTypes
    <2>4. mem[r].tenant \in Tenants /\ mem[r].amount \in Bodies /\ 0 \in Nat
      BY <1>2 DEF Holds, Copies
    <2>5. "ACTIVE" \in Statuses
      BY DEF Statuses
    <2>6. [id |-> r, tenant |-> mem[r].tenant, amount |-> mem[r].amount,
           status |-> "ACTIVE", version |-> 0, qr |-> qr, pending |-> <<"activated">>] \in Copies
      BY <2>3, <2>4, <2>5, CopyType
    <2> QED
      BY <2>2, <2>6
  <1>4. Holds(r, "ACTIVE", <<"activated">>)'
    BY <1>2, <1>3 DEF Holds, Copies
  <1>5. TypeOK'
    BY <1>3 DEF TypeOK, KeysTypeOK, EfiTypeOK, repoVars, efiVars, PCs
  <1>6. MemoryMatchesRow'
    <2> SUFFICES ASSUME NEW q \in Requests \ {r}
                 PROVE  /\ Holds(q, "CREATED", << >>)' <=> Holds(q, "CREATED", << >>)
                        /\ Holds(q, "ACTIVE", <<"activated">>)' <=> Holds(q, "ACTIVE", <<"activated">>)
                        /\ Holds(q, "FAILED", <<"failed">>)' <=> Holds(q, "FAILED", <<"failed">>)
      BY <1>0, <1>2, <1>4
      DEF MemoryMatchesRow, StoredCreated, Exists, AnsweredByHandler, repoVars, efiVars
    <2> QED
      BY <1>0 DEF Holds
  <1>7. PersistFirst'
    BY DEF PersistFirst, Exists, repoVars, efiVars
  <1> QED
    BY <1>1, <1>5, <1>6, <1>7, QuietInv

\* The provider call fails.
LEMMA ProviderFailsInv ==
  ASSUME Inv, NEW r \in Requests, ProviderFails(r)
  PROVE  Inv'
  <1> USE DEF Inv, ProviderFails
  <1>0. /\ pc'[r] = "failing" /\ \A q \in Requests \ {r} : pc'[q] = pc[q]
        /\ mem'[r] = MarkFailed(mem[r]) /\ \A q \in Requests \ {r} : mem'[q] = mem[q]
    BY DEF TypeOK
  <1>1. Quiet
    BY <1>0 DEF Quiet, repoVars, efiVars, Executing
  <1>2. Holds(r, "CREATED", << >>) /\ StoredCreated(r)
    BY DEF MemoryMatchesRow
  <1>3. /\ mem'[r] = [id |-> r, tenant |-> mem[r].tenant, amount |-> mem[r].amount,
                   status |-> "FAILED", version |-> 0, qr |-> mem[r].qr, pending |-> <<"failed">>]
        /\ mem'[r] \in Copies
    <2>1. Append(<< >>, "failed") = <<"failed">>
      OBVIOUS
    <2>2. mem'[r] = [id |-> r, tenant |-> mem[r].tenant, amount |-> mem[r].amount,
                   status |-> "FAILED", version |-> 0, qr |-> mem[r].qr, pending |-> <<"failed">>]
      BY <1>0, <1>2, <2>1 DEF MarkFailed, CanMark, Holds, Copies
    <2>3. <<"failed">> \in Seq(EventTypes)
      BY DEF EventTypes
    <2>4. /\ mem[r].tenant \in Tenants /\ mem[r].amount \in Bodies /\ 0 \in Nat
          /\ mem[r].qr \in BOOLEAN
      BY <1>2 DEF Holds, Copies
    <2>5. "FAILED" \in Statuses
      BY DEF Statuses
    <2>6. [id |-> r, tenant |-> mem[r].tenant, amount |-> mem[r].amount,
           status |-> "FAILED", version |-> 0, qr |-> mem[r].qr, pending |-> <<"failed">>] \in Copies
      BY <2>3, <2>4, <2>5, CopyType
    <2> QED
      BY <2>2, <2>6
  <1>4. Holds(r, "FAILED", <<"failed">>)'
    BY <1>2, <1>3 DEF Holds, Copies
  <1>5. TypeOK'
    BY <1>3 DEF TypeOK, KeysTypeOK, EfiTypeOK, repoVars, efiVars, PCs
  <1>6. MemoryMatchesRow'
    <2> SUFFICES ASSUME NEW q \in Requests \ {r}
                 PROVE  /\ Holds(q, "CREATED", << >>)' <=> Holds(q, "CREATED", << >>)
                        /\ Holds(q, "ACTIVE", <<"activated">>)' <=> Holds(q, "ACTIVE", <<"activated">>)
                        /\ Holds(q, "FAILED", <<"failed">>)' <=> Holds(q, "FAILED", <<"failed">>)
      BY <1>0, <1>2, <1>4
      DEF MemoryMatchesRow, StoredCreated, Exists, AnsweredByHandler, repoVars, efiVars
    <2> QED
      BY <1>0 DEF Holds
  <1>7. PersistFirst'
    BY DEF PersistFirst, Exists, repoVars, efiVars
  <1> QED
    BY <1>1, <1>5, <1>6, <1>7, QuietInv

\* EFi applies or drops a PUT.
LEMMA ProviderStepInv ==
  ASSUME Inv, NEW x \in Requests, ProviderStep(x)
  PROVE  Inv'
  <1> USE DEF Inv, ProviderStep, EfiApply, EfiDrop
  <1>1. Quiet
    BY DEF Quiet, repoVars, httpVars, Executing
  <1>2. TypeOK'
    BY DEF TypeOK, KeysTypeOK, EfiTypeOK, repoVars, httpVars
  <1>3. MemoryMatchesRow'
    BY DEF MemoryMatchesRow, Holds, StoredCreated, Exists, AnsweredByHandler, repoVars, httpVars
  <1>4. PersistFirst'
    BY DEF PersistFirst, Exists, repoVars
  <1> QED
    BY <1>1, <1>2, <1>3, <1>4, QuietInv

\* The process dies.
LEMMA CrashInv ==
  ASSUME Inv, Crash
  PROVE  Inv'
  <1> USE DEF Inv, Crash
  <1>0. \A q \in Requests : pc'[q] = IF InFlight(q) THEN "killed" ELSE pc[q]
    OBVIOUS
  <1>1. Quiet
    BY <1>0 DEF Quiet, repoVars, efiVars, InFlight, Executing, TypeOK
  <1>2. TypeOK'
    BY CreateChargeAssumption DEF TypeOK, KeysTypeOK, EfiTypeOK, repoVars, efiVars, PCs
  <1>3. MemoryMatchesRow'
    BY <1>0 DEF MemoryMatchesRow, Exists, AnsweredByHandler, repoVars, efiVars,
       InFlight, Executing
  <1>4. PersistFirst'
    BY DEF PersistFirst, Exists, repoVars, efiVars
  <1> QED
    BY <1>1, <1>2, <1>3, <1>4, QuietInv

-----------------------------------------------------------------------------
\* What Reserve may do to the table: nothing, or claim the free key of r.
ClaimsKey(r) ==
  /\ req[r].key \in Keys /\ keys[KeyOf(r)] = NoRow
  /\ keys' = [keys EXCEPT ![KeyOf(r)] =
                [fingerprint |-> req[r].body, status |-> 0, response |-> NoRow]]

\* Reserve writes at most the row of the request's own key.
LEMMA ReservingKeys ==
  ASSUME Inv, NEW r \in Requests, NEW o, Reserving(r, o)
  PROVE  /\ UNCHANGED keys \/ ClaimsKey(r)
         /\ o = "ok" /\ ReservationOf(r) = "new" => ClaimsKey(r)
         /\ req[r] \in RequestType /\ req[r].key \in Keys
  <1>1. req[r] \in RequestType /\ req[r].key \in Keys
    BY DEF Inv, RequestsKnown, Reserving, RequestType
  <1>2. KeyOf(r) \in Tenants \X Keys
    BY <1>1, KeyOfType
  <1>3. UNCHANGED keys \/ ClaimsKey(r)
    BY <1>1 DEF Reserving, InsertKey, ClaimsKey, KeyOf
  <1>4. o = "ok" /\ ReservationOf(r) = "new" => ClaimsKey(r)
    BY <1>1 DEF Reserving, InsertKey, ClaimsKey, KeyOf, ReservationOf, Reservation, Durable
  <1> QED
    BY <1>1, <1>3, <1>4

\* A claim keeps every row there is, and its own has no result.
LEMMA ClaimKeepsRows ==
  ASSUME Inv, NEW r \in Requests, req[r] \in RequestType,
         UNCHANGED keys \/ ClaimsKey(r)
  PROVE  /\ KeysTypeOK'
         /\ \A tk \in Tenants \X Keys :
              /\ keys[tk] # NoRow => keys'[tk] = keys[tk]
              /\ keys[tk] = NoRow /\ keys'[tk] # NoRow => keys'[tk].status = 0
         /\ ClaimsKey(r) => /\ keys'[KeyOf(r)] # NoRow
                            /\ keys'[KeyOf(r)].fingerprint = req[r].body
  <1>1. CASE ~ClaimsKey(r)
    BY <1>1, CreateChargeAssumption DEF Inv, TypeOK, KeysTypeOK, ClaimsKey
  <1>2. CASE ClaimsKey(r)
    <2> DEFINE row == [fingerprint |-> req[r].body, status |-> 0, response |-> NoRow]
    <2>1. KeyOf(r) \in Tenants \X Keys
      BY <1>2, KeyOfType DEF ClaimsKey
    <2>2. row \in KeyRows
      BY DEF KeyRows, RequestType
    <2>3. row # NoRow
      BY <2>2, CreateChargeAssumption
    <2>4. keys \in [Tenants \X Keys -> KeyRows \cup {NoRow}]
      BY DEF Inv, TypeOK, KeysTypeOK
    <2> HIDE DEF row
    <2>5. keys' = [keys EXCEPT ![KeyOf(r)] = row] /\ keys[KeyOf(r)] = NoRow
      BY <1>2 DEF ClaimsKey, row
    <2>6. row.status = 0 /\ row.fingerprint = req[r].body
      BY DEF row
    <2>7. KeysTypeOK'
      BY <2>1, <2>2, <2>4, <2>5 DEF KeysTypeOK
    <2> QED
      BY <2>1, <2>3, <2>4, <2>5, <2>6, <2>7
  <1> QED
    BY <1>1, <1>2

-----------------------------------------------------------------------------
\* The middleware refuses r: the handler has not run and will not.
LEMMA RefusalInv ==
  ASSUME Inv, NEW r \in Requests, NEW a \in Responses, a.by = "middleware",
         pc[r] = "arrived", Abort(r, a), UNCHANGED keys \/ ClaimsKey(r)
  PROVE  Inv'
  <1> USE DEF Inv, Abort
  <1>0. /\ pc'[r] = "done" /\ \A q \in Requests \ {r} : pc'[q] = pc[q]
        /\ resp'[r] = a /\ \A q \in Requests \ {r} : resp'[q] = resp[q]
        /\ req[r] \in RequestType /\ req' = req
    BY DEF TypeOK, RequestsKnown
  <1>1. /\ KeysTypeOK'
        /\ \A tk \in Tenants \X Keys :
              /\ keys[tk] # NoRow => keys'[tk] = keys[tk]
              /\ keys[tk] = NoRow /\ keys'[tk] # NoRow => keys'[tk].status = 0
    BY <1>0, ClaimKeepsRows
  <1>2. ~Claimant(r) /\ ~AnsweredByHandler(r) /\ ~Exists(r)
    BY DEF RequestsKnown, MemoryMatchesRow, Claimant, Executing
  <1>3. \A q \in Requests : /\ Claimant(q)' <=> Claimant(q)
                            /\ AnsweredByHandler(q)' <=> AnsweredByHandler(q)
                            /\ Executing(q)' <=> Executing(q)
                            /\ Exists(q)' <=> Exists(q)
                            /\ Claimant(q) \/ AnsweredByHandler(q) \/ Exists(q) => q # r
                            /\ KeyOf(q)' = KeyOf(q)
    BY <1>0, <1>2 DEF Claimant, AnsweredByHandler, Executing, Exists, KeyOf, repoVars
  <1>4. TypeOK'
    BY <1>1 DEF TypeOK, EfiTypeOK, repoVars, efiVars, PCs
  <1>5. RequestsKnown'
    <2>1. \A q \in Requests : Claimant(q) \/ AnsweredByHandler(q) => KeyOf(q) \in Tenants \X Keys
      BY KeyOfType DEF RequestsKnown
    <2> QED
      BY <1>0, <1>1, <1>3, <2>1 DEF RequestsKnown
  <1>6. OneClaimant' /\ NoAnswerBeforeTheEnd'
    BY <1>3 DEF OneClaimant, NoAnswerBeforeTheEnd
  <1>7. OneOutcomePerKey'
    BY <1>0, <1>3 DEF OneOutcomePerKey
  <1>8. MemoryMatchesRow'
    BY <1>0, <1>3 DEF MemoryMatchesRow, Holds, StoredCreated, repoVars, efiVars
  <1>9. RowsAreTrue' /\ RecordsAgree'
    BY DEF RowsAreTrue, RowIsTrue, RecordsAgree, RecordAgrees, Exists, repoVars, efiVars
  <1>10. PersistFirst'
    BY DEF PersistFirst, Exists, repoVars, efiVars
  <1>11. StoredIsDecided'
    <2> SUFFICES ASSUME NEW tk \in Tenants \X Keys, keys'[tk] # NoRow, keys'[tk].status > 0
                 PROVE  /\ keys'[tk].status = keys'[tk].response.status
                        /\ \E q \in Requests :
                             (AnsweredByHandler(q) /\ KeyOf(q) = tk /\ resp[q] = keys[tk].response)'
      BY DEF StoredIsDecided
    <2>1. keys'[tk] = keys[tk] /\ keys[tk] # NoRow
      BY <1>1
    <2>2. PICK q \in Requests : AnsweredByHandler(q) /\ KeyOf(q) = tk /\ resp[q] = keys[tk].response
      BY <2>1 DEF StoredIsDecided
    <2> QED
      BY <1>0, <1>3, <2>1, <2>2 DEF StoredIsDecided
  <1>12. CreatedIsActive'
    BY <1>0, <1>3 DEF CreatedIsActive, Exists, repoVars, efiVars
  <1>13. FailureIsRecorded'
    <2> SUFFICES ASSUME NEW q \in Requests, AnsweredByHandler(q)', resp'[q].status = 502
                 PROVE  \E x \in Requests : FailureOnRecord(x, q)'
      BY DEF FailureIsRecorded
    <2>1. PICK x \in Requests : FailureOnRecord(x, q)
      BY <1>0, <1>3 DEF FailureIsRecorded
    <2> QED
      BY <1>0, <1>3, <2>1 DEF FailureOnRecord, repoVars
  <1> QED
    BY <1>4, <1>5, <1>6, <1>7, <1>8, <1>9, <1>10, <1>11, <1>12, <1>13

\* The answers of the middleware itself.
LEMMA RefuseInv ==
  ASSUME Inv, NEW r \in Requests,
         \/ MissingKey(r) \/ UnreadableBody(r) \/ ReserveError(r)
         \/ ReserveConflict(r) \/ ReserveInflight(r)
  PROVE  Inv'
  <1>1. \A status \in Nat : /\ MiddlewareResponse(status) \in Responses
                            /\ MiddlewareResponse(status).by = "middleware"
    BY DEF MiddlewareResponse, Responses
  <1>2. CASE MissingKey(r)
    BY <1>1, <1>2, RefusalInv DEF MissingKey, KeyMissing
  <1>3. CASE UnreadableBody(r)
    BY <1>1, <1>3, RefusalInv DEF UnreadableBody, InvalidBody
  <1>4. CASE ReserveError(r)
    <2>1. PICK o \in AllTxFaults : Reserving(r, o) /\ Abort(r, ReserveFailed)
      BY <1>4 DEF ReserveError
    <2>2. UNCHANGED keys \/ ClaimsKey(r)
      BY <2>1, ReservingKeys
    <2> QED
      BY <1>1, <2>1, <2>2, RefusalInv DEF Reserving, ReserveFailed
  <1>5. CASE ReserveConflict(r)
    <2>1. UNCHANGED keys \/ ClaimsKey(r)
      BY <1>5, ReservingKeys DEF ReserveConflict
    <2> QED
      BY <1>1, <1>5, <2>1, RefusalInv DEF ReserveConflict, Reserving, KeyReused
  <1>6. CASE ReserveInflight(r)
    <2>1. UNCHANGED keys \/ ClaimsKey(r)
      BY <1>6, ReservingKeys DEF ReserveInflight
    <2> QED
      BY <1>1, <1>6, <2>1, RefusalInv DEF ReserveInflight, Reserving, InProgress
  <1> QED
    BY <1>2, <1>3, <1>4, <1>5, <1>6

\* Reserve tells r that it is the first of its key.
LEMMA ReserveNewInv ==
  ASSUME Inv, NEW r \in Requests, ReserveNew(r)
  PROVE  Inv'
  <1> USE DEF Inv
  <1>0. /\ pc'[r] = "reserved" /\ \A q \in Requests \ {r} : pc'[q] = pc[q]
        /\ pc[r] = "arrived" /\ UNCHANGED <<repoVars, efiVars, req, mem, resp, client, crashes>>
    BY DEF ReserveNew, Reserving, TypeOK
  <1>1. ClaimsKey(r) /\ req[r] \in RequestType /\ req[r].key \in Keys
    BY ReservingKeys DEF ReserveNew
  <1>2. /\ KeysTypeOK'
        /\ \A tk \in Tenants \X Keys :
              /\ keys[tk] # NoRow => keys'[tk] = keys[tk]
              /\ keys[tk] = NoRow /\ keys'[tk] # NoRow => keys'[tk].status = 0
        /\ keys'[KeyOf(r)] # NoRow /\ keys'[KeyOf(r)].fingerprint = req[r].body
    BY <1>1, ClaimKeepsRows
  <1>3. /\ ~AnsweredByHandler(r) /\ ~Exists(r)
        /\ \A q \in Requests : Claimant(q) \/ AnsweredByHandler(q) =>
             KeyOf(q) # KeyOf(r) /\ KeyOf(q) \in Tenants \X Keys
    BY <1>0, <1>1, KeyOfType DEF RequestsKnown, MemoryMatchesRow, ClaimsKey
  <1>4. \A q \in Requests : /\ q # r => /\ Claimant(q)' <=> Claimant(q)
                                        /\ Executing(q)' <=> Executing(q)
                            /\ AnsweredByHandler(q)' <=> AnsweredByHandler(q)
                            /\ Exists(q)' <=> Exists(q)
                            /\ KeyOf(q)' = KeyOf(q)
    BY <1>0 DEF Claimant, AnsweredByHandler, Executing, Exists, KeyOf, repoVars
  <1>5. TypeOK'
    BY <1>0, <1>2 DEF TypeOK, EfiTypeOK, repoVars, efiVars, PCs, ReserveNew
  <1>6. RequestsKnown'
    BY <1>0, <1>1, <1>2, <1>3, <1>4 DEF RequestsKnown
  <1>7. OneClaimant'
    BY <1>3, <1>4 DEF OneClaimant
  <1>8. NoAnswerBeforeTheEnd'
    BY <1>3, <1>4 DEF NoAnswerBeforeTheEnd
  <1>9. OneOutcomePerKey'
    BY <1>0, <1>4 DEF OneOutcomePerKey
  <1>10. MemoryMatchesRow'
    BY <1>0, <1>3, <1>4 DEF MemoryMatchesRow, Holds, StoredCreated, repoVars, efiVars
  <1>11. RowsAreTrue' /\ RecordsAgree'
    BY <1>0 DEF RowsAreTrue, RowIsTrue, RecordsAgree, RecordAgrees, Exists, repoVars, efiVars
  <1>12. PersistFirst'
    BY <1>0 DEF PersistFirst, Exists, repoVars, efiVars
  <1>13. StoredIsDecided'
    <2> SUFFICES ASSUME NEW tk \in Tenants \X Keys, keys'[tk] # NoRow, keys'[tk].status > 0
                 PROVE  /\ keys'[tk].status = keys'[tk].response.status
                        /\ \E q \in Requests :
                             (AnsweredByHandler(q) /\ KeyOf(q) = tk /\ resp[q] = keys[tk].response)'
      BY DEF StoredIsDecided
    <2>1. keys'[tk] = keys[tk] /\ keys[tk] # NoRow
      BY <1>2
    <2>2. PICK q \in Requests : AnsweredByHandler(q) /\ KeyOf(q) = tk /\ resp[q] = keys[tk].response
      BY <2>1 DEF StoredIsDecided
    <2> QED
      BY <1>0, <1>4, <2>1, <2>2 DEF StoredIsDecided
  <1>14. CreatedIsActive'
    BY <1>0, <1>4 DEF CreatedIsActive, Exists, repoVars, efiVars
  <1>15. FailureIsRecorded'
    <2> SUFFICES ASSUME NEW q \in Requests, AnsweredByHandler(q)', resp'[q].status = 502
                 PROVE  \E x \in Requests : FailureOnRecord(x, q)'
      BY DEF FailureIsRecorded
    <2>1. PICK x \in Requests : FailureOnRecord(x, q)
      BY <1>0, <1>4 DEF FailureIsRecorded
    <2> QED
      BY <1>0, <1>4, <2>1 DEF FailureOnRecord, repoVars
  <1> QED
    BY <1>5, <1>6, <1>7, <1>8, <1>9, <1>10, <1>11, <1>12, <1>13, <1>14, <1>15

\* The stored answer of the key is replayed to r.
LEMMA ReserveReplayInv ==
  ASSUME Inv, NEW r \in Requests, ReserveReplay(r)
  PROVE  Inv'
  <1> USE DEF Inv
  <1> DEFINE a == keys[KeyOf(r)].response
  <1>0. /\ pc[r] = "arrived" /\ req[r] \in RequestType /\ req[r].key \in Keys
        /\ KeyOf(r) \in Tenants \X Keys
    BY ReservingKeys, KeyOfType DEF ReserveReplay, Reserving
  <1>1. /\ keys[KeyOf(r)] # NoRow /\ keys[KeyOf(r)].status > 0
        /\ keys[KeyOf(r)].fingerprint = req[r].body /\ UNCHANGED keys
    BY <1>0 DEF ReserveReplay, ReservationOf, Reservation, Reserving, InsertKey, KeyOf
  <1>2. PICK p \in Requests : AnsweredByHandler(p) /\ KeyOf(p) = KeyOf(r) /\ resp[p] = a
    BY <1>0, <1>1 DEF StoredIsDecided
  <1>3. a \in Responses /\ a.by = "handler" /\ req[p].body = req[r].body
    BY <1>1, <1>2 DEF TypeOK, AnsweredByHandler, RequestsKnown
  <1>4. /\ pc'[r] = "done" /\ \A q \in Requests \ {r} : pc'[q] = pc[q]
        /\ resp'[r] = a /\ \A q \in Requests \ {r} : resp'[q] = resp[q]
        /\ UNCHANGED <<repoVars, efiVars, req, mem, client, crashes>>
    BY DEF ReserveReplay, Abort, TypeOK
  <1>5. ~Claimant(r) /\ ~Exists(r) /\ ~AnsweredByHandler(r) /\ p # r
    BY <1>0, <1>2 DEF RequestsKnown, MemoryMatchesRow, Claimant, Executing
  <1>6. AnsweredByHandler(r)'
    BY <1>3, <1>4, CreateChargeAssumption DEF AnsweredByHandler
  <1>7. \A q \in Requests : /\ Claimant(q)' <=> Claimant(q)
                            /\ q # r => (AnsweredByHandler(q)' <=> AnsweredByHandler(q))
                            /\ Executing(q)' <=> Executing(q)
                            /\ Exists(q)' <=> Exists(q)
                            /\ KeyOf(q)' = KeyOf(q)
    BY <1>0, <1>4, <1>5 DEF Claimant, AnsweredByHandler, Executing, Exists, KeyOf, repoVars
  <1> HIDE DEF a
  <1>8. TypeOK'
    BY <1>1, <1>3, <1>4 DEF TypeOK, KeysTypeOK, EfiTypeOK, repoVars, efiVars, PCs, ReserveReplay, Abort
  <1>9. RequestsKnown'
    BY <1>0, <1>1, <1>4, <1>7 DEF RequestsKnown
  <1>10. OneClaimant'
    BY <1>7 DEF OneClaimant
  <1>11. NoAnswerBeforeTheEnd'
    BY <1>2, <1>7 DEF NoAnswerBeforeTheEnd
  <1>12. OneOutcomePerKey'
    BY <1>2, <1>3, <1>4, <1>7 DEF OneOutcomePerKey
  <1>13. MemoryMatchesRow'
    BY <1>0, <1>4, <1>5, <1>7 DEF MemoryMatchesRow, Holds, StoredCreated, repoVars, efiVars
  <1>14. RowsAreTrue' /\ RecordsAgree'
    BY <1>4 DEF RowsAreTrue, RowIsTrue, RecordsAgree, RecordAgrees, Exists, repoVars, efiVars
  <1>15. PersistFirst'
    BY <1>4 DEF PersistFirst, Exists, repoVars, efiVars
  <1>16. StoredIsDecided'
    <2> SUFFICES ASSUME NEW tk \in Tenants \X Keys, keys[tk] # NoRow, keys[tk].status > 0
                 PROVE  /\ keys[tk].status = keys[tk].response.status
                        /\ \E q \in Requests :
                             (AnsweredByHandler(q) /\ KeyOf(q) = tk /\ resp[q] = keys[tk].response)'
      BY <1>1 DEF StoredIsDecided
    <2>1. PICK q \in Requests : AnsweredByHandler(q) /\ KeyOf(q) = tk /\ resp[q] = keys[tk].response
      BY DEF StoredIsDecided
    <2> QED
      BY <1>1, <1>4, <1>5, <1>7, <2>1 DEF StoredIsDecided
  <1>17. CreatedIsActive'
    <2>1. ASSUME a.charge # NoCharge
          PROVE  /\ Exists(a.charge) /\ a.charge \in cobs
                 /\ charges[a.charge].status = "ACTIVE"
                 /\ charges[a.charge].tenant = req[r].tenant
                 /\ charges[a.charge].amount = req[r].body
      BY <1>2, <1>3, <2>1 DEF CreatedIsActive, KeyOf
    <2> QED
      BY <1>4, <1>7, <2>1 DEF CreatedIsActive, Exists, repoVars, efiVars
  <1>18. FailureIsRecorded'
    <2> SUFFICES ASSUME NEW q \in Requests, AnsweredByHandler(q)', resp'[q].status = 502
                 PROVE  \E x \in Requests : FailureOnRecord(x, q)'
      BY DEF FailureIsRecorded
    <2>1. CASE q = r
      <3>1. PICK x \in Requests : FailureOnRecord(x, p)
        BY <1>2, <1>4, <2>1 DEF FailureIsRecorded
      <3>2. FailureOnRecord(x, r)
        BY <1>2, <1>3, <3>1 DEF FailureOnRecord
      <3> QED
        BY <1>4, <1>7, <2>1, <3>2 DEF FailureOnRecord, repoVars
    <2>2. CASE q # r
      <3>1. PICK x \in Requests : FailureOnRecord(x, q)
        BY <1>4, <1>7, <2>2 DEF FailureIsRecorded
      <3> QED
        BY <1>4, <1>7, <3>1 DEF FailureOnRecord, repoVars
    <2> QED
      BY <2>1, <2>2
  <1> QED
    BY <1>8, <1>9, <1>10, <1>11, <1>12, <1>13, <1>14, <1>15, <1>16, <1>17, <1>18

-----------------------------------------------------------------------------
\* The transactions of r write the records of r and of no other charge.
OnlyRecordsOf(r) ==
  /\ charges' \in [Requests -> Rows \cup {NoCharge}]
  /\ events' \in [Requests -> Seq(EventTypes)]
  /\ outbox' \in [Requests -> Nat]
  /\ \A x \in Requests \ {r} :
       charges'[x] = charges[x] /\ events'[x] = events[x] /\ outbox'[x] = outbox[x]
  /\ Exists(r) => Exists(r)'
  /\ RowIsTrue(r)' /\ RecordAgrees(r)'

\* The handler of r returns the answer a, its last transaction included.
LEMMA ReturnInv ==
  ASSUME Inv, NEW r \in Requests, NEW a \in Responses, Executing(r), Return(r, a),
         a.by = "handler", OnlyRecordsOf(r),
         a.charge # NoCharge => /\ a.charge = r /\ Exists(r)' /\ r \in cobs
                                /\ charges'[r].status = "ACTIVE",
         a.status = 502 => FailureOnRecord(r, r)'
  PROVE  Inv'
  <1> USE DEF Inv
  <1>0. /\ pc'[r] = "saving" /\ \A q \in Requests \ {r} : pc'[q] = pc[q]
        /\ resp'[r] = a /\ \A q \in Requests \ {r} : resp'[q] = resp[q]
        /\ \A q \in Requests \ {r} : mem'[q] = mem[q]
        /\ UNCHANGED <<keys, efiVars, req, client, crashes>>
    BY DEF Return, TypeOK
  <1>1. /\ Claimant(r) /\ ~AnsweredByHandler(r)
        /\ \A q \in Requests : AnsweredByHandler(q) => KeyOf(q) # KeyOf(r)
        /\ \A q \in Requests : Claimant(q) /\ q # r => KeyOf(q) # KeyOf(r)
    BY DEF Claimant, NoAnswerBeforeTheEnd, OneClaimant
  <1>2. AnsweredByHandler(r)'
    BY <1>0, CreateChargeAssumption DEF AnsweredByHandler
  <1>3. \A q \in Requests : /\ Claimant(q)' <=> Claimant(q)
                            /\ q # r => /\ AnsweredByHandler(q)' <=> AnsweredByHandler(q)
                                        /\ Executing(q)' <=> Executing(q)
                                        /\ Exists(q)' <=> Exists(q)
                            /\ KeyOf(q)' = KeyOf(q)
    BY <1>0, <1>1 DEF Claimant, AnsweredByHandler, Executing, Exists, KeyOf, OnlyRecordsOf
  <1>4. ~Executing(r)'
    BY <1>0 DEF Executing
  <1>5. TypeOK'
    BY <1>0 DEF TypeOK, KeysTypeOK, EfiTypeOK, OnlyRecordsOf, efiVars, PCs, Return
  <1>6. RequestsKnown'
    BY <1>0, <1>1, <1>3 DEF RequestsKnown
  <1>7. OneClaimant'
    BY <1>3 DEF OneClaimant
  <1>8. NoAnswerBeforeTheEnd'
    BY <1>1, <1>3, <1>4 DEF NoAnswerBeforeTheEnd, Claimant
  <1>9. OneOutcomePerKey'
    BY <1>0, <1>1, <1>3 DEF OneOutcomePerKey
  <1>10. MemoryMatchesRow'
    <2> SUFFICES ASSUME NEW q \in Requests \ {r}
                 PROVE  /\ Holds(q, "CREATED", << >>)' <=> Holds(q, "CREATED", << >>)
                        /\ Holds(q, "ACTIVE", <<"activated">>)' <=> Holds(q, "ACTIVE", <<"activated">>)
                        /\ Holds(q, "FAILED", <<"failed">>)' <=> Holds(q, "FAILED", <<"failed">>)
                        /\ StoredCreated(q)' <=> StoredCreated(q)
      BY <1>0, <1>2, <1>3 DEF MemoryMatchesRow, efiVars
    <2> QED
      BY <1>0 DEF Holds, StoredCreated, Exists, OnlyRecordsOf
  <1>11. RowsAreTrue' /\ RecordsAgree'
    <2>1. ASSUME NEW q \in Requests \ {r}
          PROVE  RowIsTrue(q)' /\ RecordAgrees(q)'
      <3>1. charges'[q] = charges[q] /\ events'[q] = events[q] /\ outbox'[q] = outbox[q]
        BY DEF OnlyRecordsOf
      <3>2. RowIsTrue(q) /\ RecordAgrees(q)
        BY DEF RowsAreTrue, RecordsAgree
      <3> QED
        BY <1>0, <3>1, <3>2 DEF RowIsTrue, RecordAgrees, Exists, efiVars
    <2>2. RowIsTrue(r)' /\ RecordAgrees(r)'
      BY DEF OnlyRecordsOf
    <2> QED
      BY <2>1, <2>2 DEF RowsAreTrue, RecordsAgree
  <1>12. PersistFirst'
    BY <1>0, <1>3 DEF PersistFirst, OnlyRecordsOf, efiVars, TypeOK, EfiTypeOK
  <1>13. StoredIsDecided'
    <2> SUFFICES ASSUME NEW tk \in Tenants \X Keys, keys[tk] # NoRow, keys[tk].status > 0
                 PROVE  /\ keys[tk].status = keys[tk].response.status
                        /\ \E q \in Requests :
                             (AnsweredByHandler(q) /\ KeyOf(q) = tk /\ resp[q] = keys[tk].response)'
      BY <1>0 DEF StoredIsDecided
    <2>1. PICK q \in Requests : AnsweredByHandler(q) /\ KeyOf(q) = tk /\ resp[q] = keys[tk].response
      BY DEF StoredIsDecided
    <2> QED
      BY <1>0, <1>1, <1>3, <2>1 DEF StoredIsDecided
  <1>14. Exists(r) => charges[r].status = "CREATED"
    BY DEF Executing, MemoryMatchesRow, StoredCreated
  <1>15. CreatedIsActive'
    <2> SUFFICES ASSUME NEW q \in Requests, AnsweredByHandler(q)', resp'[q].charge # NoCharge,
                        NEW x, x = resp'[q].charge
                 PROVE  /\ Exists(x)' /\ x \in cobs' /\ charges'[x].status = "ACTIVE"
                        /\ charges'[x].tenant = req'[q].tenant
                        /\ charges'[x].amount = req'[q].body
      BY DEF CreatedIsActive
    <2>1. CASE q = r
      BY <1>0, <2>1 DEF OnlyRecordsOf, RowIsTrue, efiVars
    <2>2. CASE q # r
      <3>1. /\ Exists(x) /\ x \in cobs /\ charges[x].status = "ACTIVE"
            /\ charges[x].tenant = req[q].tenant /\ charges[x].amount = req[q].body
        BY <1>0, <1>3, <2>2 DEF CreatedIsActive
      <3>2. x \in Requests /\ x # r
        BY <1>0, <1>3, <1>14, <2>2, <3>1, AnswersNameRequests
      <3> QED
        BY <1>0, <1>3, <3>1, <3>2 DEF OnlyRecordsOf, efiVars
    <2> QED
      BY <2>1, <2>2
  <1>16. FailureIsRecorded'
    <2> SUFFICES ASSUME NEW q \in Requests, AnsweredByHandler(q)', resp'[q].status = 502
                 PROVE  \E x \in Requests : FailureOnRecord(x, q)'
      BY DEF FailureIsRecorded
    <2>1. CASE q = r
      BY <1>0, <2>1
    <2>2. CASE q # r
      <3>1. PICK x \in Requests : FailureOnRecord(x, q)
        BY <1>0, <1>3, <2>2 DEF FailureIsRecorded
      <3>2. x # r
        BY <1>14, <3>1 DEF FailureOnRecord
      <3>3. charges'[x] = charges[x] /\ events'[x] = events[x] /\ outbox'[x] = outbox[x]
        BY <3>2 DEF OnlyRecordsOf
      <3> QED
        BY <1>0, <1>3, <3>1, <3>2, <3>3 DEF FailureOnRecord
    <2> QED
      BY <2>1, <2>2
  <1> QED
    BY <1>5, <1>6, <1>7, <1>8, <1>9, <1>10, <1>11, <1>12, <1>13, <1>15, <1>16

\* The body is refused before anything is recorded.
LEMMA RejectBodyInv ==
  ASSUME Inv, NEW r \in Requests, RejectBody(r)
  PROVE  Inv'
  <1>1. InvalidAmount \in Responses /\ InvalidAmount.by = "handler"
        /\ InvalidAmount.charge = NoCharge /\ InvalidAmount.status # 502
    BY DEF InvalidAmount, HandlerError, Responses
  <1>2. Executing(r) /\ Return(r, InvalidAmount)
    BY DEF RejectBody, Executing
  <1>3. OnlyRecordsOf(r)
    BY <1>2 DEF RejectBody, Return, OnlyRecordsOf, repoVars, efiVars, Inv, TypeOK, RowsAreTrue,
       RowIsTrue, RecordsAgree, RecordAgrees, Exists
  <1> QED
    BY <1>1, <1>2, <1>3, ReturnInv

\* Statuses of the answers to a failed transaction.
LEMMA TxErrorStatus ==
  ASSUME NEW c, NEW o
  PROVE  /\ StatusFor(CreateErrorKind(o)) \in {409, 500}
         /\ StatusFor(SaveErrorKind(c, o)) \in {409, 500}
         /\ StatusFor("Provider") = 502
  BY DEF StatusFor, CreateErrorKind, SaveErrorKind

\* tx A writes the charge of r, CREATED, or nothing.
LEMMA InsertRecords ==
  ASSUME Inv, NEW r \in Requests, NEW o, pc[r] = "reserved",
         Insert(NewImmediate(r, req[r].tenant, req[r].body), o), UNCHANGED <<req, cobs>>
  PROVE  /\ OnlyRecordsOf(r)
         /\ Succeeded(o) => StoredCreated(r)'
  <1> USE DEF Inv
  <1> DEFINE row == [tenant |-> req[r].tenant, amount |-> req[r].body, status |-> "CREATED",
                     version |-> 0, qr |-> FALSE]
  <1>0. ~Exists(r) /\ req[r] \in RequestType /\ events[r] = << >> /\ outbox[r] = 0
    BY DEF MemoryMatchesRow, RequestsKnown, RecordsAgree, RecordAgrees
  <1>1. row \in Rows /\ row # NoCharge
    <2>1. row \in Rows
      BY <1>0 DEF Rows, Statuses, RequestType
    <2> QED
      BY <2>1, CreateChargeAssumption
  <1>2. << >> \o <<"created">> = <<"created">> /\ <<"created">> \in Seq(EventTypes)
        /\ Len(<<"created">>) = 1
    BY DEF EventTypes
  <1>3. CASE Durable(o)
    <2>1. /\ charges' = [charges EXCEPT ![r] = row]
          /\ events' = [events EXCEPT ![r] = <<"created">>] /\ UNCHANGED outbox
      BY <1>0, <1>2, <1>3 DEF Insert, NewImmediate, RowOf, TypeOK
    <2>2. row.status = "CREATED" /\ row.version = 0 /\ row.tenant = req[r].tenant
          /\ row.amount = req[r].body
      OBVIOUS
    <2> HIDE DEF row
    <2>3. /\ charges'[r] = row /\ events'[r] = <<"created">> /\ outbox'[r] = 0
          /\ charges' \in [Requests -> Rows \cup {NoCharge}]
          /\ events' \in [Requests -> Seq(EventTypes)]
          /\ outbox' \in [Requests -> Nat]
          /\ \A x \in Requests \ {r} :
               charges'[x] = charges[x] /\ events'[x] = events[x] /\ outbox'[x] = outbox[x]
      BY <1>0, <1>1, <1>2, <2>1 DEF TypeOK
    <2>4. Exists(r)' /\ StoredCreated(r)' /\ RowIsTrue(r)'
      BY <1>1, <2>2, <2>3 DEF Exists, StoredCreated, RowIsTrue
    <2>5. RecordAgrees(r)'
      BY <1>2, <2>2, <2>3, <2>4 DEF RecordAgrees, AuditTrail
    <2> QED
      BY <2>3, <2>4, <2>5 DEF OnlyRecordsOf
  <1>4. CASE ~Durable(o)
    <2>1. UNCHANGED <<charges, events, outbox>>
      BY <1>4 DEF Insert
    <2> QED
      BY <1>4, <2>1 DEF OnlyRecordsOf, TypeOK, RowsAreTrue, RowIsTrue, RecordsAgree, RecordAgrees,
         Exists, Succeeded, Durable
  <1> QED
    BY <1>3, <1>4

\* A second audit event after a first.
LEMMA PairOfEvents ==
  ASSUME NEW S, NEW d \in S, NEW e \in S
  PROVE  /\ <<d>> \o <<e>> = <<d, e>>
         /\ <<d, e>> \in Seq(S) /\ Len(<<d, e>>) = 2
  <1>1. <<d>> \in Seq(S) /\ <<e>> \in Seq(S) /\ <<d, e>> \in Seq(S)
    OBVIOUS
  <1>2. Len(<<d>>) = 1 /\ Len(<<e>>) = 1 /\ Len(<<d, e>>) = 2
    OBVIOUS
  <1>3. /\ Len(<<d>> \o <<e>>) = 2 /\ <<d>> \o <<e>> \in Seq(S)
        /\ \A i \in 1 .. 2 : (<<d>> \o <<e>>)[i] = <<d, e>>[i]
    BY <1>1, <1>2, ConcatProperties
  <1>4. <<d>> \o <<e>> = <<d, e>>
    BY <1>1, <1>2, <1>3, SeqEqual
  <1> QED
    BY <1>1, <1>2, <1>4

\* A charge whose pending events have been taken by insertEvents.
LEMMA TakenEvents ==
  ASSUME NEW c \in Copies, NEW p
  PROVE  [c EXCEPT !.pending = p] =
           [id |-> c.id, tenant |-> c.tenant, amount |-> c.amount, status |-> c.status,
            version |-> c.version, qr |-> c.qr, pending |-> p]
  BY DEF Copies

\* tx A.
LEMMA TxAInv ==
  ASSUME Inv, NEW r \in Requests, TxA(r)
  PROVE  Inv'
  <1> USE DEF Inv
  <1> DEFINE c == NewImmediate(r, req[r].tenant, req[r].body)
             m == [c EXCEPT !.pending = << >>]
  <1>1. PICK o \in TxOutcomes(Cancelled(r)) :
          /\ Insert(c, o)
          /\ IF Succeeded(o)
             THEN /\ pc'  = [pc EXCEPT ![r] = "created"]
                  /\ mem' = [mem EXCEPT ![r] = m]
                  /\ UNCHANGED <<keys, efiVars, req, resp, client, crashes>>
             ELSE Return(r, HandlerError(StatusFor(CreateErrorKind(o))))
    BY DEF TxA
  <1>2. pc[r] = "reserved" /\ Executing(r) /\ UNCHANGED <<req, cobs>> /\ req[r] \in RequestType
    BY <1>1 DEF TxA, Executing, Return, efiVars, RequestsKnown
  <1>3. OnlyRecordsOf(r) /\ (Succeeded(o) => StoredCreated(r)')
    BY <1>1, <1>2, InsertRecords
  <1>4. CASE ~Succeeded(o)
    <2> DEFINE a == HandlerError(StatusFor(CreateErrorKind(o)))
    <2>1. a \in Responses /\ a.by = "handler" /\ a.charge = NoCharge /\ a.status # 502
      BY TxErrorStatus DEF HandlerError, Responses
    <2>2. Return(r, a)
      BY <1>1, <1>4
    <2> HIDE DEF a
    <2> QED
      BY <1>2, <1>3, <2>1, <2>2, ReturnInv
  <1>5. CASE Succeeded(o)
    <2>0. /\ pc'[r] = "created" /\ \A q \in Requests \ {r} : pc'[q] = pc[q]
          /\ mem'[r] = m /\ \A q \in Requests \ {r} : mem'[q] = mem[q]
          /\ UNCHANGED <<keys, efiVars, req, resp, client, crashes>>
          /\ StoredCreated(r)' /\ Exists(r)'
      BY <1>1, <1>3, <1>5 DEF TypeOK, StoredCreated
    <2>1. /\ req[r].tenant \in Tenants /\ req[r].body \in Bodies
          /\ "CREATED" \in Statuses /\ FALSE \in BOOLEAN
          /\ << >> \in Seq(EventTypes) /\ <<"created">> \in Seq(EventTypes)
      BY <1>2 DEF RequestType, Statuses, EventTypes
    <2>2. /\ m = [id |-> r, tenant |-> req[r].tenant, amount |-> req[r].body,
                  status |-> "CREATED", version |-> 0, qr |-> FALSE, pending |-> << >>]
          /\ m \in Copies
      <3>1. c = [id |-> r, tenant |-> req[r].tenant, amount |-> req[r].body,
                 status |-> "CREATED", version |-> 0, qr |-> FALSE, pending |-> <<"created">>]
        BY DEF NewImmediate
      <3> HIDE DEF c
      <3>2. c \in Copies
        BY <2>1, <3>1, CopyType
      <3>3. m = [id |-> c.id, tenant |-> c.tenant, amount |-> c.amount, status |-> c.status,
                 version |-> c.version, qr |-> c.qr, pending |-> << >>]
        BY <3>2, TakenEvents
      <3>4. m = [id |-> r, tenant |-> req[r].tenant, amount |-> req[r].body,
                 status |-> "CREATED", version |-> 0, qr |-> FALSE, pending |-> << >>]
        BY <3>1, <3>3
      <3> HIDE DEF m
      <3> QED
        BY <2>1, <3>4, CopyType
    <2>3. Holds(r, "CREATED", << >>)'
      BY <2>0, <2>2 DEF Holds
    <2>4. /\ Claimant(r) /\ Executing(r)' /\ ~Exists(r)
          /\ \A q \in Requests : /\ Claimant(q)' <=> Claimant(q)
                                 /\ AnsweredByHandler(q)' <=> AnsweredByHandler(q)
                                 /\ Executing(q)' <=> Executing(q)
                                 /\ q # r => (Exists(q)' <=> Exists(q))
                                 /\ KeyOf(q)' = KeyOf(q)
      BY <1>2, <1>3, <2>0 DEF Claimant, AnsweredByHandler, Executing, Exists, KeyOf, OnlyRecordsOf,
         MemoryMatchesRow
    <2>5. TypeOK'
      <3>1. /\ pc' = [pc EXCEPT ![r] = "created"] /\ mem' = [mem EXCEPT ![r] = m]
            /\ m \in Copies
        BY <1>1, <1>5, <2>2
      <3> HIDE DEF m
      <3>2. pc' \in [Requests -> PCs] /\ mem' \in [Requests -> Copies \cup {NoCharge}]
        BY <3>1 DEF TypeOK, PCs
      <3> QED
        BY <1>3, <2>0, <3>2 DEF TypeOK, KeysTypeOK, EfiTypeOK, OnlyRecordsOf, efiVars
    <2> HIDE DEF m, c
    <2>6. RequestsKnown'
      BY <1>2, <2>0, <2>4 DEF RequestsKnown
    <2>7. OneClaimant' /\ NoAnswerBeforeTheEnd'
      BY <2>4 DEF OneClaimant, NoAnswerBeforeTheEnd
    <2>8. OneOutcomePerKey' /\ StoredIsDecided'
      BY <2>0, <2>4 DEF OneOutcomePerKey, StoredIsDecided
    <2>9. MemoryMatchesRow'
      <3> SUFFICES ASSUME NEW q \in Requests \ {r}
                   PROVE  /\ Holds(q, "CREATED", << >>)' <=> Holds(q, "CREATED", << >>)
                          /\ Holds(q, "ACTIVE", <<"activated">>)' <=> Holds(q, "ACTIVE", <<"activated">>)
                          /\ Holds(q, "FAILED", <<"failed">>)' <=> Holds(q, "FAILED", <<"failed">>)
                          /\ StoredCreated(q)' <=> StoredCreated(q)
        BY <2>0, <2>3, <2>4 DEF MemoryMatchesRow, efiVars
      <3> QED
        BY <1>3, <2>0 DEF Holds, StoredCreated, Exists, OnlyRecordsOf
    <2>10. \A q \in Requests \ {r} :
             charges'[q] = charges[q] /\ events'[q] = events[q] /\ outbox'[q] = outbox[q]
      BY <1>3 DEF OnlyRecordsOf
    <2>11. RowsAreTrue' /\ RecordsAgree'
      <3>1. ASSUME NEW q \in Requests \ {r}
            PROVE  RowIsTrue(q)' /\ RecordAgrees(q)'
        BY <2>0, <2>10 DEF RowsAreTrue, RowIsTrue, RecordsAgree, RecordAgrees, Exists, efiVars
      <3> QED
        BY <1>3, <3>1 DEF RowsAreTrue, RecordsAgree, OnlyRecordsOf
    <2>12. PersistFirst'
      BY <2>0, <2>4 DEF PersistFirst, efiVars, TypeOK, EfiTypeOK
    <2>13. CreatedIsActive'
      <3> SUFFICES ASSUME NEW q \in Requests, AnsweredByHandler(q), resp[q].charge # NoCharge,
                          NEW x, x = resp[q].charge
                   PROVE  /\ Exists(x)' /\ x \in cobs' /\ charges'[x].status = "ACTIVE"
                          /\ charges'[x].tenant = req'[q].tenant
                          /\ charges'[x].amount = req'[q].body
        BY <2>0, <2>4 DEF CreatedIsActive
      <3>1. /\ Exists(x) /\ x \in cobs /\ charges[x].status = "ACTIVE"
            /\ charges[x].tenant = req[q].tenant /\ charges[x].amount = req[q].body
        BY DEF CreatedIsActive
      <3>2. x \in Requests /\ x # r
        BY <2>4, <3>1, AnswersNameRequests
      <3> QED
        BY <2>0, <2>4, <2>10, <3>1, <3>2 DEF efiVars
    <2>14. FailureIsRecorded'
      <3> SUFFICES ASSUME NEW q \in Requests, AnsweredByHandler(q), resp[q].status = 502
                   PROVE  \E x \in Requests : FailureOnRecord(x, q)'
        BY <2>0, <2>4 DEF FailureIsRecorded
      <3>1. PICK x \in Requests : FailureOnRecord(x, q)
        BY DEF FailureIsRecorded
      <3>2. x # r
        BY <2>4, <3>1 DEF FailureOnRecord
      <3> QED
        BY <2>0, <2>4, <2>10, <3>1, <3>2 DEF FailureOnRecord
    <2> QED
      BY <2>5, <2>6, <2>7, <2>8, <2>9, <2>11, <2>12, <2>13, <2>14
  <1> QED
    BY <1>4, <1>5

-----------------------------------------------------------------------------
\* tx B always finds the version it read; it completes the record of r with
\* the status and the event it was given, or leaves it.
LEMMA UpdateRecords ==
  ASSUME Inv, NEW r \in Requests, NEW o, NEW st \in Statuses, NEW e \in EventTypes,
         NEW n \in Nat, Holds(r, st, <<e>>), StoredCreated(r), Update(mem[r], n, o),
         UNCHANGED <<req, cobs>>, AuditTrail(st) = <<"created", e>>,
         n = (IF st = "ACTIVE" THEN 1 ELSE 0), st = "ACTIVE" => r \in cobs
  PROVE  /\ OnlyRecordsOf(r) /\ Matches(mem[r])
         /\ Durable(o) => /\ Exists(r)' /\ charges'[r].status = st
                          /\ charges'[r].amount = req[r].body
                          /\ events'[r] = <<"created", e>> /\ outbox'[r] = n
  <1> USE DEF Inv
  <1> DEFINE row == RowOf(mem[r], mem[r].version + 1)
  <1>1. /\ row.tenant = req[r].tenant /\ row.amount = req[r].body /\ row.status = st
        /\ row.version = 1 /\ row \in Rows
    BY DEF Holds, RowOf, Copies, Rows
  <1>2. mem[r].id = r /\ mem[r].pending = <<e>> /\ Exists(r) /\ row # NoCharge
    BY <1>1, CreateChargeAssumption DEF Holds, StoredCreated
  <1>3. Matches(mem[r])
    BY DEF Matches, Holds, StoredCreated, RowsAreTrue, RowIsTrue
  <1>4. events[r] = <<"created">> /\ outbox[r] = 0
    BY <1>2 DEF StoredCreated, RecordsAgree, RecordAgrees, AuditTrail
  <1>5. CASE Durable(o)
    <2>1. /\ charges' = [charges EXCEPT ![r] = row]
          /\ events' = [events EXCEPT ![r] = @ \o <<e>>]
          /\ outbox' = [outbox EXCEPT ![r] = @ + n]
      BY <1>2, <1>3, <1>5 DEF Update
    <2> HIDE DEF row
    <2>2. /\ <<"created">> \o <<e>> = <<"created", e>> /\ <<"created", e>> \in Seq(EventTypes)
          /\ Len(<<"created", e>>) = 2
      <3>1. "created" \in EventTypes
        BY DEF EventTypes
      <3> QED
        BY <3>1, PairOfEvents
    <2>3. /\ charges'[r] = row /\ events'[r] = <<"created", e>> /\ outbox'[r] = n
          /\ charges' \in [Requests -> Rows \cup {NoCharge}]
          /\ events' \in [Requests -> Seq(EventTypes)]
          /\ outbox' \in [Requests -> Nat]
          /\ \A x \in Requests \ {r} :
               charges'[x] = charges[x] /\ events'[x] = events[x] /\ outbox'[x] = outbox[x]
      BY <1>1, <1>4, <2>1, <2>2 DEF TypeOK
    <2>4. Exists(r)' /\ RowIsTrue(r)'
      BY <1>1, <1>2, <2>3 DEF Exists, RowIsTrue
    <2>5. RecordAgrees(r)'
      <3>1. AuditTrail(charges[r].status)' = <<"created", e>>
        BY <1>1, <2>3 DEF AuditTrail
      <3> QED
        BY <1>1, <2>2, <2>3, <2>4, <3>1 DEF RecordAgrees
    <2> QED
      BY <1>1, <1>3, <2>3, <2>4, <2>5 DEF OnlyRecordsOf
  <1>6. CASE ~Durable(o)
    <2>1. UNCHANGED <<charges, events, outbox>>
      BY <1>6 DEF Update
    <2> QED
      BY <1>3, <1>6, <2>1 DEF OnlyRecordsOf, TypeOK, RowsAreTrue, RowIsTrue, RecordsAgree,
         RecordAgrees, Exists
  <1> QED
    BY <1>5, <1>6

\* tx B after the provider's success.
LEMMA TxBActiveInv ==
  ASSUME Inv, NEW r \in Requests, TxBActive(r)
  PROVE  Inv'
  <1> DEFINE a(o) == IF SaveSucceeds(mem[r], o) THEN ChargeResponse(mem[r])
                     ELSE HandlerError(StatusFor(SaveErrorKind(mem[r], o)))
  <1>1. PICK o \in TxOutcomes(Cancelled(r)) : Update(mem[r], 1, o) /\ Return(r, a(o))
    BY DEF TxBActive
  <1>2. /\ Executing(r) /\ Holds(r, "ACTIVE", <<"activated">>) /\ StoredCreated(r) /\ r \in cobs
        /\ UNCHANGED <<req, cobs>>
    BY <1>1 DEF TxBActive, Executing, Inv, MemoryMatchesRow, Return, efiVars
  <1>3. /\ "ACTIVE" \in Statuses /\ "activated" \in EventTypes
        /\ AuditTrail("ACTIVE") = <<"created", "activated">>
    BY DEF Statuses, EventTypes, AuditTrail
  <1>4. /\ OnlyRecordsOf(r) /\ Matches(mem[r])
        /\ Durable(o) => Exists(r)' /\ charges'[r].status = "ACTIVE"
    BY <1>1, <1>2, <1>3, UpdateRecords
  <1>5. CASE Succeeded(o)
    <2>1. a(o) = ChargeResponse(mem[r]) /\ mem[r].id = r
      BY <1>2, <1>4, <1>5 DEF SaveSucceeds, Holds
    <2>2. /\ a(o) \in Responses /\ a(o).by = "handler" /\ a(o).charge = r /\ a(o).status = 201
      BY <2>1 DEF ChargeResponse, Responses
    <2>3. Durable(o)
      BY <1>5 DEF Durable, Succeeded
    <2> HIDE DEF a
    <2> QED
      BY <1>1, <1>2, <1>4, <2>2, <2>3, ReturnInv
  <1>6. CASE ~Succeeded(o)
    <2>1. a(o) = HandlerError(StatusFor(SaveErrorKind(mem[r], o)))
      BY <1>6 DEF SaveSucceeds
    <2>2. a(o) \in Responses /\ a(o).by = "handler" /\ a(o).charge = NoCharge /\ a(o).status # 502
      BY <2>1, TxErrorStatus DEF HandlerError, Responses
    <2> HIDE DEF a
    <2> QED
      BY <1>1, <1>2, <1>4, <2>2, ReturnInv
  <1> QED
    BY <1>5, <1>6

\* tx B after the provider's failure.
LEMMA TxBFailedInv ==
  ASSUME Inv, NEW r \in Requests, TxBFailed(r)
  PROVE  Inv'
  <1> DEFINE a(o) == HandlerError(StatusFor(IF SaveSucceeds(mem[r], o) THEN "Provider"
                                            ELSE SaveErrorKind(mem[r], o)))
  <1>1. PICK o \in TxOutcomes(Cancelled(r)) : Update(mem[r], 0, o) /\ Return(r, a(o))
    BY DEF TxBFailed
  <1>2. /\ Executing(r) /\ Holds(r, "FAILED", <<"failed">>) /\ StoredCreated(r)
        /\ UNCHANGED <<req, cobs>> /\ KeyOf(r)' = KeyOf(r)
    BY <1>1 DEF TxBFailed, Executing, Inv, MemoryMatchesRow, Return, efiVars, KeyOf
  <1>3. /\ "FAILED" \in Statuses /\ "failed" \in EventTypes
        /\ AuditTrail("FAILED") = <<"created", "failed">>
    BY DEF Statuses, EventTypes, AuditTrail
  <1>4. /\ OnlyRecordsOf(r) /\ Matches(mem[r])
        /\ Durable(o) => /\ Exists(r)' /\ charges'[r].status = "FAILED"
                         /\ charges'[r].amount = req[r].body
                         /\ events'[r] = <<"created", "failed">> /\ outbox'[r] = 0
    BY <1>1, <1>2, <1>3, UpdateRecords
  <1>5. a(o) \in Responses /\ a(o).by = "handler" /\ a(o).charge = NoCharge
        /\ (a(o).status = 502 => Succeeded(o))
    BY TxErrorStatus DEF HandlerError, Responses, SaveSucceeds
  <1>6. Succeeded(o) => FailureOnRecord(r, r)'
    BY <1>2, <1>4 DEF FailureOnRecord, Succeeded, Durable
  <1> HIDE DEF a
  <1> QED
    BY <1>1, <1>2, <1>4, <1>5, <1>6, ReturnInv

-----------------------------------------------------------------------------
\* SaveResult completes the row of r's key with r's answer, or leaves it.
LEMMA StoreRow ==
  ASSUME Inv, NEW r \in Requests, NEW o, pc[r] = "saving",
         StoreResult(req[r].tenant, req[r].key, resp[r].status, resp[r], o)
  PROVE  /\ keys' \in [Tenants \X Keys -> KeyRows \cup {NoRow}]
         /\ \A tk \in Tenants \X Keys : tk # KeyOf(r) => keys'[tk] = keys[tk]
         /\ \A tk \in Tenants \X Keys :
              keys[tk] # NoRow => /\ keys'[tk] # NoRow
                                  /\ keys'[tk].fingerprint = keys[tk].fingerprint
         /\ \/ keys' = keys
            \/ /\ keys'[KeyOf(r)].status = resp[r].status
               /\ keys'[KeyOf(r)].response = resp[r]
  <1> USE DEF Inv
  <1> DEFINE tk == KeyOf(r)
             row == [keys[tk] EXCEPT !.status = resp[r].status, !.response = resp[r]]
  <1>1. /\ AnsweredByHandler(r) /\ resp[r] \in Responses /\ tk \in Tenants \X Keys
        /\ keys[tk] # NoRow /\ keys[tk] \in KeyRows
    <2>1. AnsweredByHandler(r)
      BY DEF MemoryMatchesRow
    <2>2. resp[r] \in Responses
      BY <2>1 DEF AnsweredByHandler, TypeOK
    <2>3. tk \in Tenants \X Keys /\ keys[tk] # NoRow
      BY <2>1, KeyOfType DEF RequestsKnown
    <2> QED
      BY <2>1, <2>2, <2>3 DEF TypeOK, KeysTypeOK
  <1>2. /\ row \in KeyRows /\ row.fingerprint = keys[tk].fingerprint
        /\ row.status = resp[r].status /\ row.response = resp[r]
    BY <1>1 DEF KeyRows, Responses
  <1>3. row # NoRow
    BY <1>2, CreateChargeAssumption
  <1>4. keys' = keys \/ keys' = [keys EXCEPT ![tk] = row]
    BY <1>1 DEF StoreResult, KeyOf, TypeOK, KeysTypeOK
  <1> HIDE DEF row, tk
  <1>5. CASE keys' = keys
    BY <1>5 DEF TypeOK, KeysTypeOK, tk
  <1>6. CASE keys' = [keys EXCEPT ![tk] = row]
    <2>1. /\ keys' \in [Tenants \X Keys -> KeyRows \cup {NoRow}] /\ keys'[tk] = row
          /\ \A x \in Tenants \X Keys : x # tk => keys'[x] = keys[x]
      BY <1>1, <1>2, <1>6 DEF TypeOK, KeysTypeOK
    <2> QED
      BY <1>2, <1>3, <2>1 DEF tk
  <1> QED
    BY <1>4, <1>5, <1>6

\* The result is stored, or its transaction fails.
LEMMA SaveResultInv ==
  ASSUME Inv, NEW r \in Requests, SaveResult(r)
  PROVE  Inv'
  <1> USE DEF Inv
  <1>0. /\ pc[r] = "saving" /\ pc'[r] = "done" /\ \A q \in Requests \ {r} : pc'[q] = pc[q]
        /\ pc' \in [Requests -> PCs]
        /\ UNCHANGED <<charges, events, outbox, puts, cobs, req, mem, resp, client, crashes>>
        /\ AnsweredByHandler(r)
    BY DEF SaveResult, TypeOK, PCs, repoVars, efiVars, MemoryMatchesRow
  <1>1. PICK o \in TxOutcomes(Cancelled(r)) :
          StoreResult(req[r].tenant, req[r].key, resp[r].status, resp[r], o)
    BY DEF SaveResult
  <1>2. /\ keys' \in [Tenants \X Keys -> KeyRows \cup {NoRow}]
        /\ \A tk \in Tenants \X Keys : tk # KeyOf(r) => keys'[tk] = keys[tk]
        /\ \A tk \in Tenants \X Keys :
             keys[tk] # NoRow => /\ keys'[tk] # NoRow
                                 /\ keys'[tk].fingerprint = keys[tk].fingerprint
        /\ \/ keys' = keys
           \/ /\ keys'[KeyOf(r)].status = resp[r].status
              /\ keys'[KeyOf(r)].response = resp[r]
    BY <1>0, <1>1, StoreRow
  <1>3. \A q \in Requests : /\ Claimant(q)' => Claimant(q)
                            /\ AnsweredByHandler(q)' <=> AnsweredByHandler(q)
                            /\ Executing(q)' <=> Executing(q)
                            /\ Exists(q)' <=> Exists(q)
                            /\ KeyOf(q)' = KeyOf(q)
    BY <1>0 DEF Claimant, AnsweredByHandler, Executing, Exists, KeyOf
  <1>4. TypeOK'
    BY <1>0, <1>2 DEF TypeOK, KeysTypeOK, EfiTypeOK
  <1>5. RequestsKnown'
    <2> SUFFICES ASSUME NEW q \in Requests
                 PROVE  /\ pc'[q] = "idle" \/ req'[q] \in RequestType
                        /\ (Claimant(q) \/ AnsweredByHandler(q)) =>
                             /\ pc'[q] \notin {"idle", "arrived"} /\ req'[q].key \in Keys
                             /\ keys'[KeyOf(q)] # NoRow
                             /\ keys'[KeyOf(q)].fingerprint = req'[q].body
      BY <1>3 DEF RequestsKnown
    <2>1. pc'[q] = "idle" <=> pc[q] = "idle"
      BY <1>0
    <2>2. pc'[q] \in {"idle", "arrived"} => pc[q] \in {"idle", "arrived"}
      BY <1>0
    <2>3. CASE Claimant(q) \/ AnsweredByHandler(q)
      <3>1. KeyOf(q) \in Tenants \X Keys
        BY <2>3, KeyOfType DEF RequestsKnown
      <3> QED
        BY <1>0, <1>2, <2>1, <2>2, <2>3, <3>1 DEF RequestsKnown
    <2> QED
      BY <1>0, <2>1, <2>3 DEF RequestsKnown
  <1>6. OneClaimant' /\ NoAnswerBeforeTheEnd'
    BY <1>3 DEF OneClaimant, NoAnswerBeforeTheEnd
  <1>7. OneOutcomePerKey'
    BY <1>0, <1>3 DEF OneOutcomePerKey
  <1>8. MemoryMatchesRow'
    <2>1. \A q \in Requests : /\ Holds(q, "CREATED", << >>)' <=> Holds(q, "CREATED", << >>)
                              /\ Holds(q, "ACTIVE", <<"activated">>)' <=> Holds(q, "ACTIVE", <<"activated">>)
                              /\ Holds(q, "FAILED", <<"failed">>)' <=> Holds(q, "FAILED", <<"failed">>)
                              /\ StoredCreated(q)' <=> StoredCreated(q)
      BY <1>0, <1>3 DEF Holds, StoredCreated
    <2> QED
      BY <1>0, <1>3, <2>1 DEF MemoryMatchesRow
  <1>9. RowsAreTrue' /\ RecordsAgree'
    BY <1>0, <1>3 DEF RowsAreTrue, RowIsTrue, RecordsAgree, RecordAgrees
  <1>10. PersistFirst'
    BY <1>0, <1>3 DEF PersistFirst, Exists
  <1>11. CreatedIsActive'
    BY <1>0, <1>3 DEF CreatedIsActive, Exists
  <1>12. FailureIsRecorded'
    <2> SUFFICES ASSUME NEW q \in Requests, AnsweredByHandler(q), resp[q].status = 502
                 PROVE  \E x \in Requests : FailureOnRecord(x, q)'
      BY <1>0, <1>3 DEF FailureIsRecorded
    <2>1. PICK x \in Requests : FailureOnRecord(x, q)
      BY DEF FailureIsRecorded
    <2> QED
      BY <1>0, <1>3, <2>1 DEF FailureOnRecord
  <1>13. StoredIsDecided'
    <2> SUFFICES ASSUME NEW tk \in Tenants \X Keys, keys'[tk] # NoRow, keys'[tk].status > 0
                 PROVE  /\ keys'[tk].status = keys'[tk].response.status
                        /\ \E q \in Requests :
                             AnsweredByHandler(q) /\ KeyOf(q) = tk /\ resp[q] = keys'[tk].response
      BY <1>0, <1>3 DEF StoredIsDecided
    <2>1. CASE keys'[tk] = keys[tk]
      BY <2>1 DEF StoredIsDecided
    <2>2. CASE keys'[tk] # keys[tk]
      BY <1>0, <1>2, <2>2
    <2> QED
      BY <2>1, <2>2
  <1> QED
    BY <1>4, <1>5, <1>6, <1>7, <1>8, <1>9, <1>10, <1>11, <1>12, <1>13

-----------------------------------------------------------------------------
\* Every action keeps the inductive invariant.
LEMMA NextInv == Inv /\ [Next]_vars => Inv'
  <1> SUFFICES ASSUME Inv, [Next]_vars PROVE Inv'
    OBVIOUS
  <1>1. CASE UNCHANGED vars
    <2>1. Quiet
      BY <1>1 DEF Quiet, Executing, vars, httpVars
    <2>2. TypeOK' /\ MemoryMatchesRow' /\ PersistFirst'
      BY <1>1 DEF Inv, vars, httpVars, TypeOK, KeysTypeOK, EfiTypeOK, MemoryMatchesRow, Holds,
         StoredCreated, Exists, AnsweredByHandler, PersistFirst
    <2> QED
      BY <2>1, <2>2, QuietInv
  <1>2. ASSUME NEW r \in Requests, NEW t \in Tenants, NEW k \in Keys \cup {NoKey},
               NEW b \in Bodies, Arrive(r, t, k, b)
        PROVE  Inv'
    BY <1>2, ArriveInv
  <1>3. ASSUME NEW r \in Requests, Serve(r)
        PROVE  Inv'
    <2>1. CASE MissingKey(r) \/ UnreadableBody(r) \/ ReserveError(r)
               \/ ReserveConflict(r) \/ ReserveInflight(r)
      BY <2>1, RefuseInv
    <2>2. CASE ReserveNew(r)
      BY <2>2, ReserveNewInv
    <2>3. CASE ReserveReplay(r)
      BY <2>3, ReserveReplayInv
    <2>4. CASE RejectBody(r)
      BY <2>4, RejectBodyInv
    <2>5. CASE TxA(r)
      BY <2>5, TxAInv
    <2>6. CASE CallProvider(r)
      BY <2>6, CallProviderInv
    <2>7. CASE \E qr \in BOOLEAN : ProviderAnswers(r, qr)
      BY <2>7, ProviderAnswersInv
    <2>8. CASE ProviderFails(r)
      BY <2>8, ProviderFailsInv
    <2>9. CASE TxBActive(r)
      BY <2>9, TxBActiveInv
    <2>10. CASE TxBFailed(r)
      BY <2>10, TxBFailedInv
    <2>11. CASE SaveResult(r)
      BY <2>11, SaveResultInv
    <2> QED
      BY <1>3, <2>1, <2>2, <2>3, <2>4, <2>5, <2>6, <2>7, <2>8, <2>9, <2>10, <2>11
      DEF Serve, Reserve
  <1>4. ASSUME NEW r \in Requests, Disconnect(r) \/ Receive(r)
        PROVE  Inv'
    BY <1>4, ClientInv
  <1>5. ASSUME NEW r \in Requests, ProviderStep(r)
        PROVE  Inv'
    BY <1>5, ProviderStepInv
  <1>6. CASE Crash
    BY <1>6, CrashInv
  <1> QED
    BY <1>1, <1>2, <1>3, <1>4, <1>5, <1>6 DEF Next

-----------------------------------------------------------------------------
\* Every reachable state satisfies the inductive invariant.
THEOREM Invariance == Spec => []Inv
  BY InitInv, NextInv, PTL DEF Spec

\* However many requests, clients that leave, failing transactions and crashes
\* there are, the variables keep their types.
THEOREM TypeCorrectness == Spec => []TypeOK
  <1>1. Inv => TypeOK
    BY DEF Inv
  <1> QED
    BY <1>1, Invariance, PTL

\* The requests of one tenant and Idempotency-Key mint at most one charge.
THEOREM AtMostOneCharge == Spec => []OneChargePerKey
  <1>1. Inv => OneChargePerKey
    BY DEF Inv, OneClaimant, OneChargePerKey, Claimant
  <1> QED
    BY <1>1, Invariance, PTL

\* EFi never hears of a charge that the database does not hold.
THEOREM PersistedFirst == Spec => []PersistFirst
  <1>1. Inv => PersistFirst
    BY DEF Inv
  <1> QED
    BY <1>1, Invariance, PTL

\* Row, version, audit trail and outbox agree in every state.
THEOREM RecordsConsistency == Spec => []RecordsAgree
  <1>1. Inv => RecordsAgree
    BY DEF Inv
  <1> QED
    BY <1>1, Invariance, PTL

\* A 201, first answer or replay, is backed by an ACTIVE charge of the asker.
THEOREM CreatedIsBacked == Spec => []CreatedIsActive
  <1>1. Inv => CreatedIsActive
    BY DEF Inv
  <1> QED
    BY <1>1, Invariance, PTL

\* A 502, first answer or replay, is backed by a FAILED charge of its key.
THEOREM FailureIsBacked == Spec => []FailureIsRecorded
  <1>1. Inv => FailureIsRecorded
    BY DEF Inv
  <1> QED
    BY <1>1, Invariance, PTL

\* All the answers of the handler under one key are one answer to one body.
THEOREM SingleOutcome == Spec => []OneOutcomePerKey
  <1>1. Inv => OneOutcomePerKey
    BY DEF Inv
  <1> QED
    BY <1>1, Invariance, PTL

-----------------------------------------------------------------------------
\* A step of the server touches the keys by a claim or by SaveResult only.
LEMMA KeySteps ==
  ASSUME Inv, [Next]_vars
  PROVE  \/ UNCHANGED keys
         \/ \E r \in Requests : req[r] \in RequestType /\ ClaimsKey(r)
         \/ \E r \in Requests : SaveResult(r)
  <1>1. ASSUME NEW r \in Requests, Reserve(r)
        PROVE  UNCHANGED keys \/ (req[r] \in RequestType /\ ClaimsKey(r))
    <2>1. PICK o : Reserving(r, o)
      BY <1>1 DEF Reserve, ReserveError, ReserveNew, ReserveReplay, ReserveConflict, ReserveInflight
    <2> QED
      BY <2>1, ReservingKeys
  <1>2. ASSUME NEW r \in Requests, Serve(r), ~Reserve(r), ~SaveResult(r)
        PROVE  UNCHANGED keys
    BY <1>2 DEF Serve, MissingKey, UnreadableBody, RejectBody, TxA, CallProvider, ProviderAnswers,
       ProviderFails, TxBActive, TxBFailed, Return
  <1>3. ASSUME NEW r \in Requests,
               \/ \E t \in Tenants, k \in Keys \cup {NoKey}, b \in Bodies : Arrive(r, t, k, b)
               \/ Disconnect(r) \/ Receive(r) \/ ProviderStep(r)
        PROVE  UNCHANGED keys
    BY <1>3 DEF Arrive, Disconnect, Receive, ProviderStep
  <1>4. CASE Crash \/ UNCHANGED vars
    BY <1>4 DEF Crash, vars
  <1> QED
    BY <1>1, <1>2, <1>3, <1>4 DEF Next

\* A result, once stored, is what every later replay will find.
THEOREM ResultsAreFinal == Spec => ResultIsFinal
  <1>1. ASSUME Inv, [Next]_vars, NEW tk \in Tenants \X Keys, keys[tk] # NoRow
        PROVE  /\ keys'[tk] # NoRow /\ keys'[tk].fingerprint = keys[tk].fingerprint
               /\ keys[tk].status > 0 => keys'[tk] = keys[tk]
    <2>1. CASE UNCHANGED keys
      BY <1>1, <2>1
    <2>2. ASSUME NEW r \in Requests, req[r] \in RequestType, ClaimsKey(r)
          PROVE  keys'[tk] = keys[tk]
      BY <1>1, <2>2, ClaimKeepsRows
    <2>3. ASSUME NEW r \in Requests, SaveResult(r)
          PROVE  /\ keys'[tk] # NoRow /\ keys'[tk].fingerprint = keys[tk].fingerprint
                 /\ keys[tk].status > 0 => keys'[tk] = keys[tk]
      <3>1. PICK o \in TxOutcomes(Cancelled(r)) :
              StoreResult(req[r].tenant, req[r].key, resp[r].status, resp[r], o)
        BY <2>3 DEF SaveResult
      <3>2. /\ tk # KeyOf(r) => keys'[tk] = keys[tk]
            /\ keys'[tk] # NoRow /\ keys'[tk].fingerprint = keys[tk].fingerprint
        BY <1>1, <2>3, <3>1, StoreRow DEF SaveResult
      <3>3. ASSUME tk = KeyOf(r), keys[tk].status > 0
            PROVE  keys'[tk] = keys[tk]
        <4>1. PICK q \in Requests :
                AnsweredByHandler(q) /\ KeyOf(q) = tk /\ resp[q] = keys[tk].response
          BY <1>1, <3>3 DEF Inv, StoredIsDecided
        <4>2. AnsweredByHandler(r)
          BY <1>1, <2>3 DEF SaveResult, Inv, MemoryMatchesRow
        <4>3. resp[r] = keys[tk].response /\ resp[r].status = keys[tk].status
          BY <1>1, <3>3, <4>1, <4>2 DEF Inv, OneOutcomePerKey, StoredIsDecided
        <4>4. keys[tk] \in KeyRows
          BY <1>1 DEF Inv, TypeOK, KeysTypeOK
        <4>5. [keys[tk] EXCEPT !.status = resp[r].status, !.response = resp[r]] = keys[tk]
          BY <4>3, <4>4 DEF KeyRows
        <4>6. tk = <<req[r].tenant, req[r].key>> /\ keys \in [Tenants \X Keys -> KeyRows \cup {NoRow}]
          BY <1>1, <3>3 DEF KeyOf, Inv, TypeOK, KeysTypeOK
        <4> QED
          BY <3>1, <4>5, <4>6 DEF StoreResult
      <3> QED
        BY <3>2, <3>3
    <2> QED
      BY <1>1, <2>1, <2>2, <2>3, KeySteps
  <1>2. Inv /\ [Next]_vars =>
          [\A tk \in Tenants \X Keys : keys[tk] # NoRow =>
             /\ keys'[tk] # NoRow /\ keys'[tk].fingerprint = keys[tk].fingerprint
             /\ keys[tk].status > 0 => keys'[tk] = keys[tk]]_vars
    BY <1>1
  <1> QED
    BY <1>2, Invariance, PTL DEF Spec, ResultIsFinal

\* A charge leaves CREATED once and for good, with the next version.
THEOREM StatusesAreFinal == Spec => StatusIsFinal
  <1>1. ASSUME Inv, [Next]_vars, NEW x \in Requests, Exists(x), charges'[x] # charges[x]
        PROVE  /\ charges'[x] # NoCharge /\ charges[x].status = "CREATED"
               /\ charges'[x].status \in {"ACTIVE", "FAILED"}
               /\ charges'[x].version = charges[x].version + 1
    <2>1. \E r \in Requests : TxA(r) \/ TxBActive(r) \/ TxBFailed(r)
      <3>1. CASE \E r \in Requests : Serve(r)
        BY <1>1, <3>1 DEF Serve, MissingKey, UnreadableBody, Reserve, ReserveError, ReserveNew,
           ReserveReplay, ReserveConflict, ReserveInflight, Abort, SaveResult, RejectBody,
           CallProvider, ProviderAnswers, ProviderFails, repoVars
      <3>2. CASE ~\E r \in Requests : Serve(r)
        BY <1>1, <3>2 DEF Next, Arrive, Disconnect, Receive, ProviderStep, Crash, vars, repoVars
      <3> QED
        BY <3>1, <3>2
    <2>2. PICK r \in Requests : TxA(r) \/ TxBActive(r) \/ TxBFailed(r)
      BY <2>1
    <2>3. UNCHANGED <<req, cobs>>
      BY <2>2 DEF TxA, TxBActive, TxBFailed, Return, efiVars
    <2>4. ~TxA(r)
      <3> SUFFICES ASSUME TxA(r) PROVE FALSE
        OBVIOUS
      <3>1. PICK o : Insert(NewImmediate(r, req[r].tenant, req[r].body), o)
        BY DEF TxA
      <3>2. OnlyRecordsOf(r) /\ ~Exists(r)
        BY <1>1, <2>3, <3>1, InsertRecords DEF TxA, Inv, MemoryMatchesRow
      <3> QED
        BY <1>1, <3>2 DEF OnlyRecordsOf
    <2>5. PICK st \in {"ACTIVE", "FAILED"}, e \in {"activated", "failed"}, n \in {0, 1},
                o \in TxOutcomes(Cancelled(r)) :
            /\ Holds(r, st, <<e>>) /\ StoredCreated(r) /\ Update(mem[r], n, o)
            /\ AuditTrail(st) = <<"created", e>> /\ n = (IF st = "ACTIVE" THEN 1 ELSE 0)
            /\ st = "ACTIVE" => r \in cobs
      <3>1. CASE TxBActive(r)
        <4>1. PICK o \in TxOutcomes(Cancelled(r)) : Update(mem[r], 1, o)
          BY <3>1 DEF TxBActive
        <4> QED
          BY <1>1, <3>1, <4>1 DEF TxBActive, Inv, MemoryMatchesRow, AuditTrail
      <3>2. CASE TxBFailed(r)
        <4>1. PICK o \in TxOutcomes(Cancelled(r)) : Update(mem[r], 0, o)
          BY <3>2 DEF TxBFailed
        <4> QED
          BY <1>1, <3>2, <4>1 DEF TxBFailed, Inv, MemoryMatchesRow, AuditTrail
      <3> QED
        BY <2>2, <2>4, <3>1, <3>2
    <2>6. st \in Statuses /\ e \in EventTypes /\ n \in Nat
      BY DEF Statuses, EventTypes
    <2>7. Durable(o) => /\ Exists(r)' /\ charges'[r].status = st
                        /\ events'[r] = <<"created", e>>
      BY <1>1, <2>3, <2>5, <2>6, UpdateRecords
    <2>8. OnlyRecordsOf(r)
      BY <1>1, <2>3, <2>5, <2>6, UpdateRecords
    <2>9. x = r /\ Durable(o)
      BY <1>1, <2>5, <2>8 DEF OnlyRecordsOf, Update
    <2>10. charges'[r].version = 1
      <3>1. Len(events'[r]) = 2
        BY <2>7, <2>8, <2>9
      <3> QED
        BY <2>7, <2>8, <2>9, <3>1 DEF OnlyRecordsOf, RecordAgrees, Rows
    <2> QED
      BY <2>5, <2>7, <2>8, <2>9, <2>10 DEF StoredCreated, Exists
  <1>2. Inv /\ [Next]_vars =>
          [\A x \in Requests : Exists(x) /\ charges'[x] # charges[x] =>
             /\ charges'[x] # NoCharge /\ charges[x].status = "CREATED"
             /\ charges'[x].status \in {"ACTIVE", "FAILED"}
             /\ charges'[x].version = charges[x].version + 1]_vars
    BY <1>1
  <1> QED
    BY <1>2, Invariance, PTL DEF Spec, StatusIsFinal

-----------------------------------------------------------------------------
\* A row without a result has a request that is being handled.
PendingIsHandled ==
  \A tk \in Tenants \X Keys :
    keys[tk] # NoRow /\ keys[tk].status = 0 => \E p \in Requests : Handling(p, tk)

\* Nobody has left, and the handler's answers have a status.
NobodyLeft ==
  \A r \in Requests : /\ client[r] # "gone"
                      /\ AnsweredByHandler(r) => resp[r].status > 0

\* With Inv, the inductive invariant of behaviours without a fault.
FaultFreeInv == ~faulted => PendingIsHandled /\ NobodyLeft

\* The server is at r, and goes on handling it if it was.
HandlesOn(r) ==
  /\ keys' = keys /\ req' = req /\ client' = client
  /\ pc' \in [Requests -> PCs] /\ \A q \in Requests \ {r} : pc'[q] = pc[q]
  /\ Executing(r) \/ pc[r] = "saving" => Executing(r)' \/ pc'[r] = "saving"
  /\ resp' = [q \in Requests |-> resp'[q]] /\ \A q \in Requests \ {r} : resp'[q] = resp[q]
  /\ AnsweredByHandler(r)' => resp'[r].status > 0

-----------------------------------------------------------------------------
\* A request that goes on being handled leaves nothing pending without a handler.
LEMMA HandlesOnInv ==
  ASSUME Inv, PendingIsHandled, NobodyLeft, NEW r \in Requests, HandlesOn(r)
  PROVE  PendingIsHandled' /\ NobodyLeft'
  <1>1. \A q \in Requests : \A tk : Handling(q, tk) => Handling(q, tk)'
    BY DEF HandlesOn, Handling, Executing, KeyOf
  <1>2. PendingIsHandled'
    BY <1>1 DEF PendingIsHandled, HandlesOn
  <1>3. NobodyLeft'
    BY DEF NobodyLeft, HandlesOn, AnsweredByHandler
  <1> QED
    BY <1>2, <1>3

\* Every answer of the handler has a status.
LEMMA AnswersHaveStatus ==
  /\ \A kind : WithoutFaults!HandlerError(WithoutFaults!StatusFor(kind)).status > 0
  /\ WithoutFaults!InvalidAmount.status > 0
  /\ \A c : WithoutFaults!ChargeResponse(c).status > 0
  BY DEF WithoutFaults!HandlerError, WithoutFaults!StatusFor, WithoutFaults!InvalidAmount,
         WithoutFaults!ChargeResponse

\* Between Reserve and SaveResult each step goes on handling its request.
LEMMA HandlerHandlesOn ==
  ASSUME Inv, NobodyLeft, NEW r \in Requests,
         \/ WithoutFaults!RejectBody(r) \/ WithoutFaults!TxA(r) \/ WithoutFaults!CallProvider(r)
         \/ (\E qr \in BOOLEAN : WithoutFaults!ProviderAnswers(r, qr))
         \/ WithoutFaults!ProviderFails(r) \/ WithoutFaults!TxBActive(r) \/ WithoutFaults!TxBFailed(r)
  PROVE  HandlesOn(r)
  <1>0. /\ pc \in [Requests -> PCs]
        /\ resp = [q \in Requests |-> resp[q]]
        /\ \A label \in PCs : [pc EXCEPT ![r] = label] \in [Requests -> PCs]
        /\ AnsweredByHandler(r) => resp[r].status > 0
    BY DEF Inv, TypeOK, NobodyLeft
  <1>1. ASSUME NEW a, WithoutFaults!Return(r, a), a.status > 0 PROVE HandlesOn(r)
    BY <1>0, <1>1 DEF WithoutFaults!Return, HandlesOn, Executing, PCs, AnsweredByHandler
  <1>2. ASSUME NEW label \in {"created", "calling", "activating", "failing"},
               pc' = [pc EXCEPT ![r] = label], UNCHANGED <<keys, req, resp, client>>
        PROVE  HandlesOn(r)
    <2>1. label \in PCs
      BY DEF PCs
    <2> QED
      BY <1>0, <1>2, <2>1 DEF HandlesOn, Executing, AnsweredByHandler
  <1>3. CASE WithoutFaults!RejectBody(r)
    BY <1>1, <1>3, AnswersHaveStatus DEF WithoutFaults!RejectBody
  <1>4. CASE WithoutFaults!TxA(r)
    <2>1. CASE \E kind : WithoutFaults!Return(r, WithoutFaults!HandlerError(WithoutFaults!StatusFor(kind)))
      BY <1>1, <2>1, AnswersHaveStatus
    <2>2. CASE pc' = [pc EXCEPT ![r] = "created"] /\ UNCHANGED <<keys, req, resp, client>>
      BY <1>2, <2>2
    <2> QED
      BY <1>4, <2>1, <2>2 DEF WithoutFaults!TxA
  <1>5. CASE \/ WithoutFaults!CallProvider(r) \/ WithoutFaults!ProviderFails(r)
             \/ \E qr \in BOOLEAN : WithoutFaults!ProviderAnswers(r, qr)
    BY <1>2, <1>5 DEF WithoutFaults!CallProvider, WithoutFaults!ProviderFails,
       WithoutFaults!ProviderAnswers
  <1>6. CASE WithoutFaults!TxBActive(r) \/ WithoutFaults!TxBFailed(r)
    BY <1>1, <1>6, AnswersHaveStatus DEF WithoutFaults!TxBActive, WithoutFaults!TxBFailed
  <1> QED
    BY <1>3, <1>4, <1>5, <1>6

-----------------------------------------------------------------------------
\* The middleware answers r by itself, or lets it pass with a row of its own.
LEMMA ReserveKeepsHandled ==
  ASSUME Inv, PendingIsHandled, NobodyLeft, NEW r \in Requests,
         WithoutFaults!MissingKey(r) \/ WithoutFaults!UnreadableBody(r) \/ WithoutFaults!Reserve(r)
  PROVE  PendingIsHandled' /\ NobodyLeft'
  <1>0. /\ pc[r] = "arrived" /\ ~ Executing(r)
        /\ pc \in [Requests -> PCs] /\ resp = [q \in Requests |-> resp[q]]
        /\ UNCHANGED <<req, client>>
    BY DEF Inv, TypeOK, Executing, WithoutFaults!MissingKey, WithoutFaults!UnreadableBody,
       WithoutFaults!Reserve, WithoutFaults!ReserveError, WithoutFaults!ReserveNew,
       WithoutFaults!ReserveReplay, WithoutFaults!ReserveConflict, WithoutFaults!ReserveInflight,
       WithoutFaults!Reserving, WithoutFaults!Abort
  <1>1. ASSUME NEW a, WithoutFaults!Abort(r, a), UNCHANGED keys, a.by = "middleware" \/ a.status > 0
        PROVE  PendingIsHandled' /\ NobodyLeft'
    <2>1. pc' = [pc EXCEPT ![r] = "done"] /\ resp' = [resp EXCEPT ![r] = a]
      BY <1>1 DEF WithoutFaults!Abort
    <2>2. \A q \in Requests : (Executing(q) \/ pc[q] = "saving") => q # r /\ pc'[q] = pc[q]
      BY <1>0, <2>1
    <2>3. PendingIsHandled'
      BY <1>0, <1>1, <2>2 DEF PendingIsHandled, Handling, Executing, KeyOf
    <2>4. NobodyLeft'
      BY <1>0, <1>1, <2>1 DEF NobodyLeft, AnsweredByHandler
    <2> QED
      BY <2>3, <2>4
  <1>2. CASE WithoutFaults!MissingKey(r)
    BY <1>1, <1>2 DEF WithoutFaults!MissingKey, WithoutFaults!KeyMissing,
       WithoutFaults!MiddlewareResponse
  <1>3. CASE WithoutFaults!UnreadableBody(r)
    BY <1>3 DEF WithoutFaults!UnreadableBody, WithoutFaults!Cancelled, NobodyLeft
  <1>4. CASE WithoutFaults!ReserveError(r)
    BY <1>4 DEF WithoutFaults!ReserveError, WithoutFaults!Reserving, WithoutFaults!TxOutcomes,
       WithoutFaults!Cancelled, WithoutFaults!AllTxFaults, NobodyLeft
  <1>5. ASSUME \E o : WithoutFaults!Reserving(r, o)
        PROVE  /\ req[r] \in RequestType /\ req[r].key \in Keys
               /\ KeyOf(r) \in Tenants \X Keys
               /\ WithoutFaults!KeyOf(r) = KeyOf(r) /\ KeyOf(r) = <<req[r].tenant, req[r].key>>
    <2>1. req[r] \in RequestType /\ req[r].key # NoKey
      BY <1>0, <1>5 DEF WithoutFaults!Reserving, Inv, RequestsKnown
    <2>2. req[r].key \in Keys
      BY <2>1 DEF RequestType
    <2> QED
      BY <2>1, <2>2, KeyOfType DEF KeyOf, WithoutFaults!KeyOf
  <1>6. CASE WithoutFaults!ReserveNew(r)
    <2> DEFINE row == [fingerprint |-> req[r].body, status |-> 0, response |-> NoRow]
    <2>1. KeyOf(r) \in Tenants \X Keys /\ KeyOf(r) = <<req[r].tenant, req[r].key>>
      BY <1>5, <1>6 DEF WithoutFaults!ReserveNew
    <2>2. keys' = [keys EXCEPT ![KeyOf(r)] = row] \/ keys' = keys
      BY <1>6, <2>1 DEF WithoutFaults!ReserveNew, WithoutFaults!Reserving, WithoutFaults!InsertKey
    <2>3. pc' = [pc EXCEPT ![r] = "reserved"] /\ UNCHANGED resp
      BY <1>6 DEF WithoutFaults!ReserveNew
    <2>4. \A q \in Requests : (Executing(q) \/ pc[q] = "saving") => q # r /\ pc'[q] = pc[q]
      BY <1>0, <2>3
    <2>5. Handling(r, KeyOf(r))'
      BY <1>0, <2>3 DEF Handling, Executing, KeyOf
    <2>6. keys \in [Tenants \X Keys -> KeyRows \cup {NoRow}]
      BY DEF Inv, TypeOK, KeysTypeOK
    <2>7. \A q \in Requests, tk \in Tenants \X Keys : Handling(q, tk) => Handling(q, tk)'
      BY <1>0, <2>4 DEF Handling, Executing, KeyOf
    <2>8. \A tk \in (Tenants \X Keys) \ {KeyOf(r)} : keys'[tk] = keys[tk]
      BY <2>2, <2>6
    <2>9. PendingIsHandled'
      <3> SUFFICES ASSUME NEW tk \in Tenants \X Keys, keys'[tk] # NoRow, keys'[tk].status = 0
                   PROVE  \E p \in Requests : Handling(p, tk)'
        BY DEF PendingIsHandled
      <3>1. CASE tk = KeyOf(r)
        BY <1>0, <2>5, <3>1 DEF KeyOf
      <3>2. CASE tk # KeyOf(r)
        BY <2>7, <2>8, <3>2 DEF PendingIsHandled
      <3> QED
        BY <3>1, <3>2
    <2>10. NobodyLeft'
      BY <1>0, <2>3 DEF NobodyLeft, AnsweredByHandler
    <2> QED
      BY <2>9, <2>10
  <1>7. ASSUME WithoutFaults!Reserving(r, "ok"), WithoutFaults!ReservationOf(r) # "new"
        PROVE  UNCHANGED keys /\ keys[KeyOf(r)] # NoRow
    BY <1>5, <1>7 DEF WithoutFaults!Reserving, WithoutFaults!ReservationOf,
       WithoutFaults!Reservation, WithoutFaults!InsertKey
  <1>8. CASE WithoutFaults!ReserveReplay(r)
    <2>1. UNCHANGED keys /\ keys[KeyOf(r)] # NoRow /\ KeyOf(r) \in Tenants \X Keys
      BY <1>5, <1>7, <1>8 DEF WithoutFaults!ReserveReplay
    <2>2. keys[KeyOf(r)].status > 0
      BY <1>5, <1>8 DEF WithoutFaults!ReserveReplay, WithoutFaults!ReservationOf, WithoutFaults!Reservation
    <2>3. keys[KeyOf(r)].response.status > 0
      BY <2>1, <2>2 DEF Inv, StoredIsDecided
    <2> QED
      BY <1>1, <1>5, <1>8, <2>1, <2>3 DEF WithoutFaults!ReserveReplay
  <1>9. CASE WithoutFaults!ReserveConflict(r) \/ WithoutFaults!ReserveInflight(r)
    BY <1>1, <1>7, <1>9 DEF WithoutFaults!ReserveConflict, WithoutFaults!ReserveInflight,
       WithoutFaults!KeyReused, WithoutFaults!InProgress, WithoutFaults!MiddlewareResponse
  <1> QED
    BY <1>2, <1>3, <1>4, <1>6, <1>8, <1>9 DEF WithoutFaults!Reserve

\* Without a fault the result is stored.
LEMMA SaveKeepsHandled ==
  ASSUME Inv, PendingIsHandled, NobodyLeft, NEW r \in Requests, WithoutFaults!SaveResult(r)
  PROVE  PendingIsHandled' /\ NobodyLeft'
  <1>1. /\ pc[r] = "saving" /\ AnsweredByHandler(r) /\ resp[r].status > 0
        /\ req[r] \in RequestType /\ req[r].key \in Keys /\ KeyOf(r) \in Tenants \X Keys
        /\ keys[KeyOf(r)] # NoRow
    BY KeyOfType DEF Inv, MemoryMatchesRow, NobodyLeft, WithoutFaults!SaveResult, RequestsKnown
  <1>2. keys' = [keys EXCEPT ![KeyOf(r)].status = resp[r].status, ![KeyOf(r)].response = resp[r]]
    BY <1>1 DEF WithoutFaults!SaveResult, WithoutFaults!TxOutcomes, WithoutFaults!StoreResult,
                WithoutFaults!Durable, WithoutFaults!Cancelled, NobodyLeft, KeyOf
  <1>3. keys \in [Tenants \X Keys -> KeyRows \cup {NoRow}]
    BY DEF Inv, TypeOK, KeysTypeOK
  <1>4. keys[KeyOf(r)] \in KeyRows
    BY <1>1, <1>3
  <1>5. keys'[KeyOf(r)].status # 0
    BY <1>1, <1>2, <1>3, <1>4 DEF KeyRows
  <1>6. \A tk \in (Tenants \X Keys) \ {KeyOf(r)} : keys'[tk] = keys[tk]
    BY <1>2, <1>3
  <1>7. \A q \in Requests \ {r} : pc'[q] = pc[q]
    BY DEF WithoutFaults!SaveResult, Inv, TypeOK
  <1>8. UNCHANGED <<req, resp, client>>
    BY DEF WithoutFaults!SaveResult
  <1>9. PendingIsHandled'
    BY <1>5, <1>6, <1>7, <1>8 DEF PendingIsHandled, Handling, Executing, KeyOf
  <1>10. NobodyLeft'
    BY <1>8 DEF NobodyLeft, AnsweredByHandler
  <1> QED
    BY <1>9, <1>10

-----------------------------------------------------------------------------
\* Every step without a fault keeps what is pending in somebody's hands.
LEMMA FaultFreeStep ==
  ASSUME Inv, PendingIsHandled, NobodyLeft, WithoutFaults!Next
  PROVE  PendingIsHandled' /\ NobodyLeft'
  <1>0. /\ crashes \in Nat
        /\ pc \in [Requests -> PCs] /\ client \in [Requests -> {"waiting", "answered", "gone"}]
    BY CreateChargeAssumption DEF Inv, TypeOK
  <1>1. ~ WithoutFaults!Crash
    BY <1>0 DEF WithoutFaults!Crash
  <1>2. PICK r \in Requests :
          \/ \E t \in Tenants, k \in Keys \cup {NoKey}, b \in Bodies : WithoutFaults!Arrive(r, t, k, b)
          \/ WithoutFaults!Serve(r) \/ WithoutFaults!Disconnect(r) \/ WithoutFaults!Receive(r)
          \/ WithoutFaults!ProviderStep(r)
    BY <1>1 DEF WithoutFaults!Next
  <1>3. CASE WithoutFaults!Serve(r)
    BY <1>3, ReserveKeepsHandled, HandlerHandlesOn, HandlesOnInv, SaveKeepsHandled
       DEF WithoutFaults!Serve
  <1>4. CASE \E t \in Tenants, k \in Keys \cup {NoKey}, b \in Bodies : WithoutFaults!Arrive(r, t, k, b)
    <2>1. /\ pc[r] = "idle" /\ pc' = [pc EXCEPT ![r] = "arrived"] /\ UNCHANGED <<keys, resp, client>>
          /\ \A q \in Requests \ {r} : pc'[q] = pc[q] /\ req'[q] = req[q]
      BY <1>0, <1>4 DEF WithoutFaults!Arrive, Inv, TypeOK
    <2>2. \A q \in Requests, tk \in Tenants \X Keys : Handling(q, tk) => Handling(q, tk)'
      BY <2>1 DEF Handling, Executing, KeyOf
    <2> QED
      BY <2>1, <2>2 DEF PendingIsHandled, NobodyLeft, AnsweredByHandler
  <1>5. CASE WithoutFaults!Disconnect(r)
    BY <1>5 DEF WithoutFaults!Disconnect
  <1>6. CASE WithoutFaults!Receive(r) \/ WithoutFaults!ProviderStep(r)
    <2>1. UNCHANGED <<keys, pc, req, resp>> /\ client' \in {client, [client EXCEPT ![r] = "answered"]}
      BY <1>6 DEF WithoutFaults!Receive, WithoutFaults!ProviderStep, WithoutFaults!httpVars
    <2>2. PendingIsHandled'
      BY <2>1 DEF PendingIsHandled, Handling, Executing, KeyOf
    <2>3. NobodyLeft'
      BY <1>0, <2>1 DEF NobodyLeft, AnsweredByHandler
    <2> QED
      BY <2>2, <2>3
  <1> QED
    BY <1>2, <1>3, <1>4, <1>5, <1>6

\* So no behaviour leaves a key pending without a handler before its first fault.
LEMMA FaultFreeNext ==
  Inv /\ FaultFreeInv /\ [FaultsNext]_<<vars, faulted>> => FaultFreeInv'
  <1>1. ASSUME Inv, FaultFreeInv, FaultsNext PROVE FaultFreeInv'
    BY <1>1, FaultFreeStep DEF FaultsNext, FaultFreeInv
  <1>2. ASSUME FaultFreeInv, UNCHANGED <<vars, faulted>> PROVE FaultFreeInv'
    BY <1>2 DEF FaultFreeInv, vars, httpVars, PendingIsHandled, NobodyLeft, Handling, Executing,
       KeyOf, AnsweredByHandler
  <1> QED
    BY <1>1, <1>2

\* The specification with the memory of faults has the invariant of the one
\* without, and that of behaviours without a fault.
THEOREM FaultFreeInvariance == FaultsSpec => [](Inv /\ FaultFreeInv)
  <1>1. FaultsInit => Init /\ FaultFreeInv
    BY DEF FaultsInit, Init, KeysInit, FaultFreeInv, PendingIsHandled, NobodyLeft, AnsweredByHandler
  <1>2. [FaultsNext]_<<vars, faulted>> => [Next]_vars
    BY DEF FaultsNext
  <1>3. FaultsSpec => []Inv
    BY <1>1, <1>2, Invariance, PTL DEF FaultsSpec, Spec
  <1> QED
    BY <1>1, <1>3, FaultFreeNext, PTL DEF FaultsSpec

\* Only Reserve says so, of a key with a row that has no result.
LEMMA ToldByReserve ==
  ASSUME Inv, NobodyLeft, WithoutFaults!Next, NEW r \in Requests,
         pc[r] = "arrived", resp'[r] = InProgress, resp[r] # InProgress
  PROVE  KeyOf(r) \in Tenants \X Keys /\ keys[KeyOf(r)] # NoRow /\ keys[KeyOf(r)].status = 0
  <1>0. crashes \in Nat /\ resp = [q \in Requests |-> resp[q]]
    BY CreateChargeAssumption DEF Inv, TypeOK
  <1>1. ASSUME NEW q \in Requests, NEW a, WithoutFaults!Abort(q, a) \/ WithoutFaults!Return(q, a)
        PROVE  q = r /\ a = InProgress
    BY <1>0, <1>1 DEF WithoutFaults!Abort, WithoutFaults!Return
  <1>2. ~ UNCHANGED resp
    OBVIOUS
  <1>3. PICK q \in Requests : WithoutFaults!Serve(q)
    BY <1>0, <1>2 DEF WithoutFaults!Next, WithoutFaults!Crash, WithoutFaults!Arrive,
       WithoutFaults!Disconnect, WithoutFaults!Receive, WithoutFaults!ProviderStep,
       WithoutFaults!httpVars
  <1>4. q = r
    BY <1>1, <1>2, <1>3 DEF WithoutFaults!Serve, WithoutFaults!MissingKey, WithoutFaults!UnreadableBody,
       WithoutFaults!Reserve, WithoutFaults!ReserveError, WithoutFaults!ReserveNew,
       WithoutFaults!ReserveReplay, WithoutFaults!ReserveConflict, WithoutFaults!ReserveInflight,
       WithoutFaults!RejectBody, WithoutFaults!TxA, WithoutFaults!CallProvider,
       WithoutFaults!ProviderAnswers, WithoutFaults!ProviderFails, WithoutFaults!TxBActive,
       WithoutFaults!TxBFailed, WithoutFaults!SaveResult
  <1>5. WithoutFaults!MissingKey(r) \/ WithoutFaults!UnreadableBody(r) \/ WithoutFaults!Reserve(r)
    BY <1>3, <1>4 DEF WithoutFaults!Serve, WithoutFaults!RejectBody, WithoutFaults!TxA,
       WithoutFaults!CallProvider, WithoutFaults!ProviderAnswers, WithoutFaults!ProviderFails,
       WithoutFaults!TxBActive, WithoutFaults!TxBFailed, WithoutFaults!SaveResult
  <1>6. InProgress.by = "middleware" /\ InProgress.status = 409
    BY DEF InProgress, MiddlewareResponse
  <1>7. ~ WithoutFaults!MissingKey(r) /\ ~ WithoutFaults!UnreadableBody(r)
        /\ ~ WithoutFaults!ReserveConflict(r) /\ ~ WithoutFaults!ReserveError(r)
    BY <1>1, <1>6 DEF WithoutFaults!MissingKey, WithoutFaults!UnreadableBody,
       WithoutFaults!ReserveConflict, WithoutFaults!ReserveError, WithoutFaults!KeyMissing,
       WithoutFaults!InvalidBody, WithoutFaults!KeyReused, WithoutFaults!ReserveFailed,
       WithoutFaults!MiddlewareResponse
  <1>8. WithoutFaults!ReserveReplay(r) \/ WithoutFaults!ReserveInflight(r)
    BY <1>2, <1>5, <1>7 DEF WithoutFaults!Reserve, WithoutFaults!ReserveNew
  <1>9. /\ KeyOf(r) \in Tenants \X Keys /\ KeyOf(r) = <<req[r].tenant, req[r].key>>
        /\ WithoutFaults!KeyOf(r) = KeyOf(r)
        /\ keys[KeyOf(r)] \in KeyRows \cup {NoRow}
    <2>1. req[r] \in RequestType /\ req[r].key # NoKey
      BY <1>8 DEF WithoutFaults!ReserveReplay, WithoutFaults!ReserveInflight,
         WithoutFaults!Reserving, Inv, RequestsKnown
    <2>2. req[r].key \in Keys
      BY <2>1 DEF RequestType
    <2> QED
      BY <2>1, <2>2, KeyOfType DEF KeyOf, WithoutFaults!KeyOf, Inv, TypeOK, KeysTypeOK
  <1>10. ~ WithoutFaults!ReserveReplay(r)
    <2> SUFFICES ASSUME WithoutFaults!ReserveReplay(r) PROVE FALSE
      OBVIOUS
    <2>1. keys[KeyOf(r)].response = InProgress
      BY <1>1, <1>9 DEF WithoutFaults!ReserveReplay
    <2>2. keys[KeyOf(r)] # NoRow /\ keys[KeyOf(r)].status > 0
      BY <1>9 DEF WithoutFaults!ReserveReplay, WithoutFaults!ReservationOf, WithoutFaults!Reservation
    <2>3. keys[KeyOf(r)].response.by = "handler"
      BY <1>9, <2>2 DEF Inv, StoredIsDecided, AnsweredByHandler
    <2> QED
      BY <1>6, <2>1, <2>3
  <1>11. keys[KeyOf(r)] # NoRow /\ ~ (keys[KeyOf(r)].status > 0)
    BY <1>8, <1>9, <1>10 DEF WithoutFaults!ReserveInflight, WithoutFaults!ReservationOf,
       WithoutFaults!Reservation
  <1> QED
    BY <1>9, <1>11 DEF KeyRows

\* A client that is told "request in progress" before any fault is told the truth.
THEOREM InProgressIsTrueBeforeFault == FaultsSpec => InProgressTrueBeforeFault
  <1>1. ASSUME Inv, FaultFreeInv, FaultsNext, ~faulted', NEW r \in Requests,
               pc[r] = "arrived", resp'[r] = InProgress, resp[r] # InProgress
        PROVE  \E p \in Requests : Handling(p, KeyOf(r))
    <2>1. WithoutFaults!Next /\ ~faulted /\ PendingIsHandled /\ NobodyLeft
      BY <1>1 DEF FaultsNext, FaultFreeInv
    <2> QED
      BY <1>1, <2>1, ToldByReserve DEF PendingIsHandled
  <1>2. Inv /\ FaultFreeInv /\ [FaultsNext]_<<vars, faulted>> =>
          [~faulted' => \A r \in Requests :
             pc[r] = "arrived" /\ resp'[r] = InProgress /\ resp[r] # InProgress =>
               \E p \in Requests : Handling(p, KeyOf(r))]_vars
    BY <1>1
  <1> QED
    BY <1>2, FaultFreeInvariance, PTL DEF FaultsSpec, InProgressTrueBeforeFault

-----------------------------------------------------------------------------
\* A request that has not arrived asks nothing.
IdleAsksNothing == \A r \in Requests : pc[r] = "idle" => req[r] = NoRequest

\* A request arrives once.
LEMMA IdleStep == Inv /\ IdleAsksNothing /\ [Next]_vars => IdleAsksNothing'
  <1> SUFFICES ASSUME Inv, IdleAsksNothing, [Next]_vars PROVE IdleAsksNothing'
    OBVIOUS
  <1>0. pc \in [Requests -> PCs]
    BY DEF Inv, TypeOK
  <1>1. ASSUME NEW r \in Requests, Serve(r)
        PROVE  req' = req /\ \A q \in Requests : pc'[q] = "idle" => pc[q] = "idle"
    BY <1>0, <1>1 DEF Serve, MissingKey, UnreadableBody, Reserve, ReserveError, ReserveNew, ReserveReplay,
       ReserveConflict, ReserveInflight, Abort, SaveResult, RejectBody, TxA, CallProvider,
       ProviderAnswers, ProviderFails, TxBActive, TxBFailed, Return
  <1>2. ASSUME NEW r \in Requests, NEW t \in Tenants, NEW k \in Keys \cup {NoKey}, NEW b \in Bodies,
               Arrive(r, t, k, b)
        PROVE  IdleAsksNothing'
    <2>1. pc'[r] = "arrived" /\ \A q \in Requests \ {r} : pc'[q] = pc[q] /\ req'[q] = req[q]
      <3>1. \A q \in Requests \ {r} : req'[q] = req[q]
        BY <1>2 DEF Arrive, Inv, TypeOK
      <3> QED
        BY <1>0, <1>2, <3>1 DEF Arrive
    <2> QED
      BY <2>1 DEF IdleAsksNothing
  <1>3. CASE \E r \in Requests : Disconnect(r) \/ Receive(r) \/ ProviderStep(r)
    BY <1>3 DEF Disconnect, Receive, ProviderStep, httpVars, IdleAsksNothing
  <1>4. CASE Crash
    BY <1>4 DEF Crash, InFlight, Executing, IdleAsksNothing
  <1>5. CASE UNCHANGED vars
    BY <1>5 DEF vars, httpVars, IdleAsksNothing
  <1> QED
    BY <1>1, <1>2, <1>3, <1>4, <1>5 DEF Next, IdleAsksNothing

-----------------------------------------------------------------------------
\* What is decided for a key is what anyone was answered under it.
DecidedIsGiven ==
  \A tk \in Tenants \X Keys :
    /\ \A r \in Requests : AnsweredByHandler(r) /\ KeyOf(r) = tk => Decided[tk] = resp[r]
    /\ (\A r \in Requests : ~(AnsweredByHandler(r) /\ KeyOf(r) = tk)) => Decided[tk] = NoRow

\* The answers under one key are one answer, whoever is chosen to tell it.
LEMMA WhatIsDecided == Inv => DecidedIsGiven
  <1> SUFFICES ASSUME Inv, NEW tk \in Tenants \X Keys
               PROVE  /\ \A r \in Requests :
                           AnsweredByHandler(r) /\ KeyOf(r) = tk => DecidedFor(tk) = resp[r]
                      /\ (\A r \in Requests : ~(AnsweredByHandler(r) /\ KeyOf(r) = tk))
                           => DecidedFor(tk) = NoRow
    BY DEF DecidedIsGiven, Decided
  <1>1. ASSUME NEW r \in Requests, AnsweredByHandler(r), KeyOf(r) = tk
        PROVE  DecidedFor(tk) = resp[r]
    <2> DEFINE q == CHOOSE x \in Requests : AnsweredByHandler(x) /\ KeyOf(x) = tk
    <2>1. q \in Requests /\ AnsweredByHandler(q) /\ KeyOf(q) = tk
      BY <1>1
    <2>2. DecidedFor(tk) = resp[q]
      BY <1>1 DEF DecidedFor
    <2> HIDE DEF q
    <2> QED
      BY <1>1, <2>1, <2>2 DEF Inv, OneOutcomePerKey
  <1>2. (\A r \in Requests : ~(AnsweredByHandler(r) /\ KeyOf(r) = tk)) => DecidedFor(tk) = NoRow
    BY DEF DecidedFor
  <1> QED
    BY <1>1, <1>2

\* ... in the next state as well.
LEMMA WhatIsDecidedNext == Inv' => DecidedIsGiven'
  BY WhatIsDecided, PTL

\* The requests stay as they are.
LEMMA SameAsks ==
  ASSUME UNCHANGED req
  PROVE  Asks' = Asks
  BY DEF Asks

\* No key is claimed or released.
LEMMA SameClaims ==
  ASSUME \A tk \in Tenants \X Keys :
           /\ keys[tk] = NoRow <=> keys'[tk] = NoRow
           /\ keys[tk] # NoRow => keys'[tk].fingerprint = keys[tk].fingerprint
  PROVE  Claims' = Claims
  BY DEF Claims

\* Nobody is given an answer of the handler.
LEMMA SameAnswers ==
  ASSUME Inv, Inv',
         \A q \in Requests : /\ AnsweredByHandler(q)' <=> AnsweredByHandler(q)
                             /\ AnsweredByHandler(q) => resp'[q] = resp[q] /\ KeyOf(q)' = KeyOf(q)
  PROVE  Decided' = Decided /\ Given' = Given
  <1>1. Given' = Given
    BY DEF Given
  <1>2. DecidedIsGiven /\ DecidedIsGiven'
    BY WhatIsDecided, WhatIsDecidedNext
  <1>3. ASSUME NEW tk \in Tenants \X Keys
        PROVE  Decided'[tk] = Decided[tk]
    <2>1. CASE \E r \in Requests : AnsweredByHandler(r) /\ KeyOf(r) = tk
      <3>1. PICK r \in Requests : AnsweredByHandler(r) /\ KeyOf(r) = tk
        BY <2>1
      <3>2. AnsweredByHandler(r)' /\ KeyOf(r)' = tk /\ resp'[r] = resp[r]
        BY <3>1
      <3>3. Decided[tk] = resp[r] /\ Decided'[tk] = resp'[r]
        BY <1>2, <3>1, <3>2 DEF DecidedIsGiven
      <3> QED
        BY <3>2, <3>3
    <2>2. CASE \A r \in Requests : ~(AnsweredByHandler(r) /\ KeyOf(r) = tk)
      <3>1. \A r \in Requests : ~(AnsweredByHandler(r)' /\ KeyOf(r)' = tk)
        BY <2>2
      <3> QED
        BY <1>2, <2>2, <3>1 DEF DecidedIsGiven
    <2> QED
      BY <2>1, <2>2
  <1>4. /\ Decided  = [tk \in Tenants \X Keys |-> Decided[tk]]
        /\ Decided' = [tk \in Tenants \X Keys |-> Decided'[tk]]
    BY DEF Decided
  <1> QED
    BY <1>1, <1>3, <1>4

-----------------------------------------------------------------------------
\* A client sends a request: it asks.
LEMMA ArriveAsks ==
  ASSUME Inv, Inv', IdleAsksNothing, NEW r \in Requests, NEW t \in Tenants,
         NEW k \in Keys \cup {NoKey}, NEW b \in Bodies, Arrive(r, t, k, b)
  PROVE  Promise!Ask(r, t, k, b)
  <1> DEFINE a == [tenant |-> t, key |-> k, body |-> b]
  <1>1. /\ pc[r] = "idle" /\ req[r] = NoRequest /\ req' = [req EXCEPT ![r] = a]
        /\ pc' = [pc EXCEPT ![r] = "arrived"]
        /\ UNCHANGED <<keys, charges, resp>> /\ a \in RequestType
        /\ req \in [Requests -> RequestType \cup {NoRequest}] /\ pc \in [Requests -> PCs]
    BY DEF Arrive, IdleAsksNothing, repoVars, RequestType, Inv, TypeOK
  <1>2. Asks[r] = NoRow /\ Asks' = [Asks EXCEPT ![r] = a]
    BY <1>1, RefinementAssumption DEF Asks
  <1>3. Claims' = Claims /\ Minted' = Minted
    BY <1>1 DEF Claims, Minted, Exists
  <1>4. Running' = Running
    BY <1>1 DEF Running, Executing
  <1>5. Decided' = Decided /\ Given' = Given
    <2>1. ~AnsweredByHandler(r)
      BY <1>1 DEF Inv, RequestsKnown
    <2>2. \A q \in Requests : /\ AnsweredByHandler(q)' <=> AnsweredByHandler(q)
                              /\ resp'[q] = resp[q]
                              /\ q # r => KeyOf(q)' = KeyOf(q)
      BY <1>1 DEF AnsweredByHandler, KeyOf
    <2> QED
      BY <2>1, <2>2, SameAnswers
  <1> QED
    BY <1>2, <1>3, <1>4, <1>5 DEF Promise!Ask

\* Steps that touch neither requests, keys, tables nor answers: the promise
\* sees no more of them than the executions they end.
LEMMA QuietAbandons ==
  ASSUME Inv, Inv', Quiet
  PROVE  [Promise!Next]_(Promise!vars)
  <1>1. Asks' = Asks /\ Claims' = Claims /\ Minted' = Minted
    BY DEF Quiet, Asks, Claims, Minted, Exists
  <1>2. Decided' = Decided /\ Given' = Given
    <2>1. \A q \in Requests : /\ AnsweredByHandler(q)' <=> AnsweredByHandler(q)
                              /\ resp'[q] = resp[q] /\ KeyOf(q)' = KeyOf(q)
      BY DEF Quiet, AnsweredByHandler, KeyOf
    <2> QED
      BY <2>1, SameAnswers
  <1>3. Running' \subseteq Running
    BY DEF Running, Quiet
  <1>4. CASE Running' = Running
    BY <1>1, <1>2, <1>4 DEF Promise!vars
  <1>5. CASE Running' # Running
    <2> DEFINE S == Running \ Running'
    <2>1. S # {} /\ S \in SUBSET Running /\ Running' = Running \ S
      BY <1>3, <1>5
    <2>2. Promise!Abandon(S)
      BY <1>1, <1>2, <2>1 DEF Promise!Abandon
    <2> QED
      BY <2>1, <2>2 DEF Promise!Next
  <1> QED
    BY <1>4, <1>5

\* What a claim of the code is to the promise.
LEMMA ClaimsClaim ==
  ASSUME Inv, NEW r \in Requests, req[r] \in RequestType, ClaimsKey(r)
  PROVE  /\ Asks[r] = req[r] /\ Promise!KeyOf(r) = KeyOf(r) /\ Claims[KeyOf(r)] = NoRow
         /\ Asks[r] # NoRow /\ Asks[r].key # NoKey
         /\ Claims' = [Claims EXCEPT ![KeyOf(r)] = Asks[r].body]
  <1>1. /\ Asks[r] = req[r] /\ req[r] # NoRow /\ req[r].key \in Keys
        /\ KeyOf(r) \in Tenants \X Keys /\ req[r].key # NoKey
    BY RefinementAssumption, CreateChargeAssumption, KeyOfType DEF Asks, ClaimsKey
  <1>2. Promise!KeyOf(r) = KeyOf(r)
    BY <1>1 DEF Promise!KeyOf, KeyOf
  <1> DEFINE row == [fingerprint |-> req[r].body, status |-> 0, response |-> NoRow]
  <1>3. row # NoRow /\ row.fingerprint = req[r].body
    BY CreateChargeAssumption DEF KeyRows, RequestType
  <1>4. /\ keys \in [Tenants \X Keys -> KeyRows \cup {NoRow}]
        /\ keys[KeyOf(r)] = NoRow /\ keys' = [keys EXCEPT ![KeyOf(r)] = row]
    BY DEF Inv, TypeOK, KeysTypeOK, ClaimsKey
  <1> HIDE DEF row
  <1>5. Claims' = [Claims EXCEPT ![KeyOf(r)] = req[r].body]
    BY <1>1, <1>3, <1>4 DEF Claims
  <1> QED
    BY <1>1, <1>2, <1>4, <1>5 DEF Claims

\* The middleware refuses a request: nothing happens, or its key is claimed by
\* a transaction whose answer was lost.
LEMMA RefusalClaims ==
  ASSUME Inv, Inv', NEW r \in Requests, NEW a \in Responses, a.by = "middleware",
         pc[r] = "arrived", Abort(r, a), UNCHANGED keys \/ ClaimsKey(r)
  PROVE  Promise!Claim(r) \/ UNCHANGED Promise!vars
  <1>1. /\ pc'[r] = "done" /\ \A q \in Requests \ {r} : pc'[q] = pc[q] /\ resp'[q] = resp[q]
        /\ resp'[r] = a /\ UNCHANGED <<req, charges>> /\ req[r] \in RequestType
    BY DEF Abort, repoVars, Inv, TypeOK, RequestsKnown
  <1>2. Asks' = Asks /\ Minted' = Minted /\ Running' = Running
    BY <1>1 DEF Asks, Minted, Exists, Running, Executing
  <1>3. Decided' = Decided /\ Given' = Given
    <2>1. ~AnsweredByHandler(r) /\ ~AnsweredByHandler(r)'
      BY <1>1 DEF Inv, RequestsKnown, AnsweredByHandler
    <2>2. \A q \in Requests \ {r} : AnsweredByHandler(q)' <=> AnsweredByHandler(q)
      BY <1>1 DEF AnsweredByHandler
    <2>3. \A q \in Requests : KeyOf(q)' = KeyOf(q)
      BY <1>1 DEF KeyOf
    <2> QED
      BY <1>1, <2>1, <2>2, <2>3, SameAnswers
  <1>4. CASE UNCHANGED keys
    BY <1>2, <1>3, <1>4 DEF Claims, Promise!vars
  <1>5. CASE ClaimsKey(r)
    BY <1>1, <1>2, <1>3, <1>5, ClaimsClaim DEF Promise!Claim
  <1> QED
    BY <1>4, <1>5

\* Reserve tells r that it is the first of its key: a claim and an execution.
LEMMA ReserveNewClaims ==
  ASSUME Inv, Inv', NEW r \in Requests, ReserveNew(r)
  PROVE  Promise!Claim(r)
  <1>1. /\ pc'[r] = "reserved" /\ \A q \in Requests \ {r} : pc'[q] = pc[q]
        /\ UNCHANGED <<req, resp, charges>>
    BY DEF ReserveNew, Reserving, repoVars, Inv, TypeOK
  <1>2. ClaimsKey(r) /\ req[r] \in RequestType
    BY ReservingKeys DEF ReserveNew
  <1>3. Asks' = Asks /\ Minted' = Minted
    BY <1>1 DEF Asks, Minted, Exists
  <1>4. Running' = Running \cup {r}
    BY <1>1 DEF Running, Executing
  <1>5. Decided' = Decided /\ Given' = Given
    <2>1. \A q \in Requests : /\ AnsweredByHandler(q)' <=> AnsweredByHandler(q)
                              /\ resp'[q] = resp[q] /\ KeyOf(q)' = KeyOf(q)
      BY <1>1 DEF AnsweredByHandler, KeyOf
    <2> QED
      BY <2>1, SameAnswers
  <1> QED
    BY <1>2, <1>3, <1>4, <1>5, ClaimsClaim DEF Promise!Claim

\* Reserve finds the stored result: r is given what was decided.
LEMMA ReserveReplays ==
  ASSUME Inv, Inv', NEW r \in Requests, ReserveReplay(r)
  PROVE  Promise!Replay(r)
  <1> DEFINE a == keys[KeyOf(r)].response
  <1>1. /\ pc[r] = "arrived" /\ req[r] \in RequestType /\ req[r].key \in Keys
        /\ KeyOf(r) \in Tenants \X Keys
    BY ReservingKeys, KeyOfType DEF ReserveReplay, Reserving
  <1>2. /\ keys[KeyOf(r)] # NoRow /\ keys[KeyOf(r)].status > 0
        /\ keys[KeyOf(r)].fingerprint = req[r].body /\ UNCHANGED keys
    BY <1>1 DEF ReserveReplay, ReservationOf, Reservation, Reserving, InsertKey, KeyOf
  <1>3. PICK p \in Requests : AnsweredByHandler(p) /\ KeyOf(p) = KeyOf(r) /\ resp[p] = a
    BY <1>1, <1>2 DEF Inv, StoredIsDecided
  <1>4. /\ pc'[r] = "done" /\ \A q \in Requests \ {r} : pc'[q] = pc[q] /\ resp'[q] = resp[q]
        /\ resp'[r] = a /\ UNCHANGED <<req, charges>>
    BY DEF ReserveReplay, Abort, repoVars, Inv, TypeOK
  <1>5. /\ ~AnsweredByHandler(r) /\ AnsweredByHandler(r)' /\ a # NoRow
        /\ \A q \in Requests \ {r} : AnsweredByHandler(q)' <=> AnsweredByHandler(q)
        /\ \A q \in Requests : KeyOf(q)' = KeyOf(q)
    <2>1. a \in Responses /\ a.by = "handler" /\ a # NoRow /\ a # NoResponse
      BY <1>3, CreateChargeAssumption DEF AnsweredByHandler, Inv, TypeOK
    <2>2. ~AnsweredByHandler(r)
      BY <1>1 DEF Inv, RequestsKnown
    <2> HIDE DEF a
    <2> QED
      BY <1>4, <2>1, <2>2 DEF AnsweredByHandler, KeyOf
  <1>6. Asks' = Asks /\ Claims' = Claims /\ Minted' = Minted /\ Running' = Running
    BY <1>1, <1>2, <1>4 DEF Asks, Claims, Minted, Exists, Running, Executing
  <1>7. DecidedIsGiven /\ DecidedIsGiven' /\ Decided[KeyOf(r)] = a
    BY <1>1, <1>3, WhatIsDecided, WhatIsDecidedNext DEF DecidedIsGiven
  <1>8. Decided' = Decided
    <2>1. ASSUME NEW tk \in Tenants \X Keys, tk # KeyOf(r)
          PROVE  Decided'[tk] = Decided[tk]
      <3>1. CASE \E q \in Requests : AnsweredByHandler(q) /\ KeyOf(q) = tk
        <4>1. PICK q \in Requests : AnsweredByHandler(q) /\ KeyOf(q) = tk
          BY <3>1
        <4>2. AnsweredByHandler(q)' /\ KeyOf(q)' = tk /\ resp'[q] = resp[q]
          BY <1>4, <1>5, <2>1, <4>1
        <4> QED
          BY <1>7, <4>1, <4>2 DEF DecidedIsGiven
      <3>2. CASE \A q \in Requests : ~(AnsweredByHandler(q) /\ KeyOf(q) = tk)
        <4>1. \A q \in Requests : ~(AnsweredByHandler(q)' /\ KeyOf(q)' = tk)
          BY <1>5, <2>1, <3>2
        <4> QED
          BY <1>7, <3>2, <4>1 DEF DecidedIsGiven
      <3> QED
        BY <3>1, <3>2
    <2>2. Decided'[KeyOf(r)] = a
      BY <1>1, <1>4, <1>5, <1>7 DEF DecidedIsGiven
    <2>3. /\ Decided  = [tk \in Tenants \X Keys |-> Decided[tk]]
          /\ Decided' = [tk \in Tenants \X Keys |-> Decided'[tk]]
      BY DEF Decided
    <2> QED
      BY <1>7, <2>1, <2>2, <2>3
  <1>9. Given[r] = NoRow /\ Given' = [Given EXCEPT ![r] = a]
    BY <1>4, <1>5 DEF Given
  <1>10. /\ Asks[r] = req[r] /\ req[r] # NoRow /\ req[r].key # NoKey
         /\ Promise!KeyOf(r) = KeyOf(r) /\ Claims[KeyOf(r)] = req[r].body
    BY <1>1, <1>2, RefinementAssumption, CreateChargeAssumption
    DEF Asks, Claims, Promise!KeyOf, KeyOf
  <1> HIDE DEF a
  <1> QED
    BY <1>5, <1>6, <1>7, <1>8, <1>9, <1>10 DEF Promise!Replay

-----------------------------------------------------------------------------
\* The handler of r returns the answer a: it is decided.
LEMMA ReturnDecides ==
  ASSUME Inv, Inv', NEW r \in Requests, NEW a \in DecidedAnswers, Executing(r), Return(r, a),
         OnlyRecordsOf(r), a.charge = r => Exists(r)'
  PROVE  Promise!Decide(r, a)
  <1>1. /\ pc'[r] = "saving" /\ \A q \in Requests \ {r} : pc'[q] = pc[q] /\ resp'[q] = resp[q]
        /\ resp'[r] = a /\ UNCHANGED <<keys, req>>
        /\ req[r] \in RequestType /\ req[r].key \in Keys /\ KeyOf(r) \in Tenants \X Keys
    BY KeyOfType DEF Return, Inv, TypeOK, RequestsKnown, Executing, Claimant
  <1>2. a \in Responses /\ a.by = "handler"
    BY DEF DecidedAnswers, DecidedStatuses, Responses
  <1>3. /\ AnsweredByHandler(r)'
        /\ \A q \in Requests \ {r} : AnsweredByHandler(q)' <=> AnsweredByHandler(q)
        /\ \A q \in Requests : KeyOf(q)' = KeyOf(q)
        /\ \A q \in Requests : AnsweredByHandler(q) => KeyOf(q) # KeyOf(r)
    BY <1>1, <1>2, CreateChargeAssumption
    DEF AnsweredByHandler, KeyOf, Inv, NoAnswerBeforeTheEnd
  <1>4. Asks' = Asks /\ Claims' = Claims
    BY <1>1 DEF Asks, Claims
  <1>5. Running' = Running \ {r} /\ r \in Running
    BY <1>1 DEF Running, Executing
  <1>6. /\ Minted' \in {Minted, Minted \cup {r}}
        /\ a.charge = r => r \in Minted'
    BY DEF Minted, Exists, OnlyRecordsOf
  <1>7. Given' = [Given EXCEPT ![r] = a]
    BY <1>1, <1>3 DEF Given
  <1>8. Decided' = [Decided EXCEPT ![KeyOf(r)] = a]
    <2>1. DecidedIsGiven /\ DecidedIsGiven'
      BY WhatIsDecided, WhatIsDecidedNext
    <2>2. ASSUME NEW tk \in Tenants \X Keys, tk # KeyOf(r)
          PROVE  Decided'[tk] = Decided[tk]
      <3>1. CASE \E q \in Requests : AnsweredByHandler(q) /\ KeyOf(q) = tk
        <4>1. PICK q \in Requests : AnsweredByHandler(q) /\ KeyOf(q) = tk
          BY <3>1
        <4>2. AnsweredByHandler(q)' /\ KeyOf(q)' = tk /\ resp'[q] = resp[q]
          BY <1>1, <1>3, <2>2, <4>1
        <4> QED
          BY <2>1, <4>1, <4>2 DEF DecidedIsGiven
      <3>2. CASE \A q \in Requests : ~(AnsweredByHandler(q) /\ KeyOf(q) = tk)
        <4>1. \A q \in Requests : ~(AnsweredByHandler(q)' /\ KeyOf(q)' = tk)
          BY <1>3, <2>2, <3>2
        <4> QED
          BY <2>1, <3>2, <4>1 DEF DecidedIsGiven
      <3> QED
        BY <3>1, <3>2
    <2>3. Decided'[KeyOf(r)] = a
      BY <1>1, <1>3, <2>1 DEF DecidedIsGiven
    <2>4. /\ Decided  = [tk \in Tenants \X Keys |-> Decided[tk]]
          /\ Decided' = [tk \in Tenants \X Keys |-> Decided'[tk]]
      BY DEF Decided
    <2> QED
      BY <1>1, <2>2, <2>3, <2>4
  <1>9. Promise!KeyOf(r) = KeyOf(r)
    BY <1>1, RefinementAssumption DEF Promise!KeyOf, KeyOf, Asks
  <1> QED
    BY <1>4, <1>5, <1>6, <1>7, <1>8, <1>9 DEF Promise!Decide

\* The answers of the handler are among those it may decide.
LEMMA ErrorIsDecided ==
  ASSUME NEW status \in DecidedStatuses
  PROVE  HandlerError(status) \in DecidedAnswers /\ HandlerError(status).charge = NoCharge
  BY DEF HandlerError, DecidedAnswers

\* A body that is refused is decided without a charge.
LEMMA RejectBodyDecides ==
  ASSUME Inv, Inv', NEW r \in Requests, RejectBody(r)
  PROVE  \E a \in DecidedAnswers : Promise!Decide(r, a)
  <1>1. InvalidAmount \in DecidedAnswers /\ InvalidAmount.charge = NoCharge
    BY ErrorIsDecided DEF InvalidAmount, DecidedStatuses
  <1>2. Executing(r) /\ Return(r, InvalidAmount)
    BY DEF RejectBody, Executing
  <1>3. OnlyRecordsOf(r)
    BY <1>2 DEF RejectBody, Return, OnlyRecordsOf, repoVars, efiVars, Inv, TypeOK, RowsAreTrue,
       RecordsAgree, RowIsTrue, RecordAgrees, Exists
  <1> QED
    BY <1>1, <1>2, <1>3, ReturnDecides, CreateChargeAssumption

\* tx A mints the charge; if it is not known to have, its failure is decided.
LEMMA TxAMints ==
  ASSUME Inv, Inv', NEW r \in Requests, TxA(r)
  PROVE  Promise!Mint(r) \/ \E a \in DecidedAnswers : Promise!Decide(r, a)
  <1> DEFINE c == NewImmediate(r, req[r].tenant, req[r].body)
             a(o) == HandlerError(StatusFor(CreateErrorKind(o)))
  <1>1. PICK o \in TxOutcomes(Cancelled(r)) :
          /\ Insert(c, o)
          /\ IF Succeeded(o)
             THEN /\ pc'  = [pc EXCEPT ![r] = "created"]
                  /\ mem' = [mem EXCEPT ![r] = [c EXCEPT !.pending = << >>]]
                  /\ UNCHANGED <<keys, efiVars, req, resp, client, crashes>>
             ELSE Return(r, a(o))
    BY DEF TxA
  <1>2. pc[r] = "reserved" /\ Executing(r) /\ UNCHANGED <<req, cobs>> /\ ~Exists(r)
    BY <1>1 DEF TxA, Executing, Return, efiVars, Inv, MemoryMatchesRow
  <1>3. OnlyRecordsOf(r) /\ (Succeeded(o) => StoredCreated(r)')
    BY <1>1, <1>2, InsertRecords
  <1>4. CASE ~Succeeded(o)
    <2>1. a(o) \in DecidedAnswers /\ a(o).charge = NoCharge
      BY TxErrorStatus, ErrorIsDecided DEF DecidedStatuses
    <2>2. Return(r, a(o))
      BY <1>1, <1>4
    <2> HIDE DEF a
    <2> QED
      BY <1>2, <1>3, <2>1, <2>2, ReturnDecides, CreateChargeAssumption
  <1>5. CASE Succeeded(o)
    <2>1. /\ pc'[r] = "created" /\ \A q \in Requests \ {r} : pc'[q] = pc[q]
          /\ UNCHANGED <<keys, req, resp>>
      BY <1>1, <1>5 DEF Inv, TypeOK
    <2>2. Asks' = Asks /\ Claims' = Claims
      BY <2>1 DEF Asks, Claims
    <2>3. Running' = Running /\ r \in Running
      BY <1>2, <2>1 DEF Running, Executing
    <2>4. Minted' = Minted \cup {r} /\ r \notin Minted
      BY <1>2, <1>3, <1>5 DEF Minted, Exists, OnlyRecordsOf, StoredCreated
    <2>5. Decided' = Decided /\ Given' = Given
      <3>1. \A q \in Requests : /\ AnsweredByHandler(q)' <=> AnsweredByHandler(q)
                                /\ resp'[q] = resp[q] /\ KeyOf(q)' = KeyOf(q)
        BY <2>1 DEF AnsweredByHandler, KeyOf
      <3> QED
        BY <3>1, SameAnswers
    <2>6. Promise!Mint(r)
      BY <2>2, <2>3, <2>4, <2>5 DEF Promise!Mint
    <2> QED
      BY <2>6
  <1> QED
    BY <1>4, <1>5

\* tx B is not seen, the answer it leads to is decided.
LEMMA TxBDecides ==
  ASSUME Inv, Inv', NEW r \in Requests, TxBActive(r) \/ TxBFailed(r)
  PROVE  \E a \in DecidedAnswers : Promise!Decide(r, a)
  <1>1. PICK st \in Statuses, e \in EventTypes, n \in Nat, o \in AllTxFaults \cup {"ok"},
             a \in DecidedAnswers :
          /\ Holds(r, st, <<e>>) /\ StoredCreated(r) /\ Update(mem[r], n, o)
          /\ AuditTrail(st) = <<"created", e>> /\ n = (IF st = "ACTIVE" THEN 1 ELSE 0)
          /\ st = "ACTIVE" => r \in cobs
          /\ Return(r, a) /\ Executing(r)
    <2>1. AllTxFaults \cup {"ok"} = {"begin", "exec", "commit", "unacked", "ok"}
          /\ \A x \in BOOLEAN : TxOutcomes(x) \subseteq AllTxFaults \cup {"ok"}
          /\ Cancelled(r) \in BOOLEAN
      BY TxFaultsAssumption DEF AllTxFaults, TxOutcomes, Cancelled
    <2>2. CASE TxBActive(r)
      <3> DEFINE a(o) == IF SaveSucceeds(mem[r], o) THEN ChargeResponse(mem[r])
                         ELSE HandlerError(StatusFor(SaveErrorKind(mem[r], o)))
      <3>1. PICK o \in TxOutcomes(Cancelled(r)) : Update(mem[r], 1, o) /\ Return(r, a(o))
        BY <2>2 DEF TxBActive
      <3>2. /\ Holds(r, "ACTIVE", <<"activated">>) /\ StoredCreated(r) /\ r \in cobs /\ Executing(r)
        BY <2>2 DEF TxBActive, Inv, MemoryMatchesRow, Executing
      <3>3. a(o) \in DecidedAnswers
        <4>1. ChargeResponse(mem[r]) \in DecidedAnswers
          BY <3>2 DEF Holds, ChargeResponse, DecidedAnswers, DecidedStatuses
        <4>2. HandlerError(StatusFor(SaveErrorKind(mem[r], o))) \in DecidedAnswers
          BY TxErrorStatus, ErrorIsDecided DEF DecidedStatuses
        <4> QED
          BY <4>1, <4>2
      <3>4. "ACTIVE" \in Statuses /\ "activated" \in EventTypes
            /\ AuditTrail("ACTIVE") = <<"created", "activated">> /\ o \in AllTxFaults \cup {"ok"}
        BY <2>1, <3>1 DEF Statuses, EventTypes, AuditTrail
      <3> HIDE DEF a
      <3> QED
        BY <3>1, <3>2, <3>3, <3>4
    <2>3. CASE TxBFailed(r)
      <3> DEFINE a(o) == HandlerError(StatusFor(IF SaveSucceeds(mem[r], o) THEN "Provider"
                                                ELSE SaveErrorKind(mem[r], o)))
      <3>1. PICK o \in TxOutcomes(Cancelled(r)) : Update(mem[r], 0, o) /\ Return(r, a(o))
        BY <2>3 DEF TxBFailed
      <3>2. Holds(r, "FAILED", <<"failed">>) /\ StoredCreated(r) /\ Executing(r)
        BY <2>3 DEF TxBFailed, Inv, MemoryMatchesRow, Executing
      <3>3. a(o) \in DecidedAnswers
        BY TxErrorStatus, ErrorIsDecided DEF DecidedStatuses
      <3>4. "FAILED" \in Statuses /\ "failed" \in EventTypes
            /\ AuditTrail("FAILED") = <<"created", "failed">> /\ o \in AllTxFaults \cup {"ok"}
        BY <2>1, <3>1 DEF Statuses, EventTypes, AuditTrail
      <3> HIDE DEF a
      <3> QED
        BY <3>1, <3>2, <3>3, <3>4
    <2> QED
      BY <2>2, <2>3
  <1>2. UNCHANGED <<req, cobs>>
    BY <1>1 DEF Return, efiVars, TxBActive, TxBFailed
  <1>3. OnlyRecordsOf(r)
    BY <1>1, <1>2, UpdateRecords
  <1>4. a.charge = r => Exists(r)'
    BY <1>1, <1>3 DEF StoredCreated, OnlyRecordsOf
  <1> QED
    BY <1>1, <1>3, <1>4, ReturnDecides

\* SaveResult stores what is decided already.
LEMMA SaveResultUnseen ==
  ASSUME Inv, Inv', NEW r \in Requests, SaveResult(r)
  PROVE  UNCHANGED Promise!vars
  <1>1. PICK o \in TxOutcomes(Cancelled(r)) :
          StoreResult(req[r].tenant, req[r].key, resp[r].status, resp[r], o)
    BY DEF SaveResult
  <1>2. /\ pc[r] = "saving" /\ pc'[r] = "done" /\ \A q \in Requests \ {r} : pc'[q] = pc[q]
        /\ UNCHANGED <<charges, req, resp>>
    BY DEF SaveResult, repoVars, Inv, TypeOK
  <1>3. Claims' = Claims
    <2>1. ASSUME NEW tk \in Tenants \X Keys
          PROVE  /\ keys[tk] = NoRow <=> keys'[tk] = NoRow
                 /\ keys[tk] # NoRow => keys'[tk].fingerprint = keys[tk].fingerprint
      <3>1. /\ keys[tk] # NoRow => /\ keys'[tk] # NoRow
                                   /\ keys'[tk].fingerprint = keys[tk].fingerprint
            /\ tk # KeyOf(r) => keys'[tk] = keys[tk]
        BY <1>1, <1>2, StoreRow
      <3>2. keys[KeyOf(r)] # NoRow
        BY <1>2 DEF Inv, RequestsKnown, Claimant
      <3> QED
        BY <3>1, <3>2
    <2> QED
      BY <2>1, SameClaims
  <1>4. Asks' = Asks /\ Minted' = Minted /\ Running' = Running
    BY <1>2 DEF Asks, Minted, Exists, Running, Executing
  <1>5. Decided' = Decided /\ Given' = Given
    <2>1. \A q \in Requests : /\ AnsweredByHandler(q)' <=> AnsweredByHandler(q)
                              /\ resp'[q] = resp[q] /\ KeyOf(q)' = KeyOf(q)
      BY <1>2 DEF AnsweredByHandler, KeyOf
    <2> QED
      BY <2>1, SameAnswers
  <1> QED
    BY <1>3, <1>4, <1>5 DEF Promise!vars

-----------------------------------------------------------------------------
\* The answers of the middleware itself claim a key at most.
LEMMA RefuseMaps ==
  ASSUME Inv, Inv', NEW r \in Requests,
         \/ MissingKey(r) \/ UnreadableBody(r) \/ ReserveError(r)
         \/ ReserveConflict(r) \/ ReserveInflight(r)
  PROVE  Promise!Claim(r) \/ UNCHANGED Promise!vars
  <1>1. \A status \in Nat : /\ MiddlewareResponse(status) \in Responses
                            /\ MiddlewareResponse(status).by = "middleware"
    BY DEF MiddlewareResponse, Responses
  <1>2. PICK a \in Responses :
          /\ a.by = "middleware" /\ pc[r] = "arrived" /\ Abort(r, a)
          /\ UNCHANGED keys \/ ClaimsKey(r)
    <2>1. CASE MissingKey(r) \/ UnreadableBody(r)
      BY <1>1, <2>1 DEF MissingKey, UnreadableBody, KeyMissing, InvalidBody
    <2>2. CASE ReserveError(r)
      <3>1. PICK o \in AllTxFaults : Reserving(r, o) /\ Abort(r, ReserveFailed)
        BY <2>2 DEF ReserveError
      <3> QED
        BY <1>1, <3>1, ReservingKeys DEF Reserving, ReserveFailed
    <2>3. CASE ReserveConflict(r)
      BY <1>1, <2>3, ReservingKeys DEF ReserveConflict, Reserving, KeyReused
    <2>4. CASE ReserveInflight(r)
      BY <1>1, <2>4, ReservingKeys DEF ReserveInflight, Reserving, InProgress
    <2> QED
      BY <2>1, <2>2, <2>3, <2>4
  <1> QED
    BY <1>2, RefusalClaims

\* Nothing has been asked when the server starts.
LEMMA InitMaps == Init => Promise!Init /\ IdleAsksNothing
  <1> SUFFICES ASSUME Init PROVE Promise!Init /\ IdleAsksNothing
    OBVIOUS
  <1>1. \A r \in Requests : /\ ~Exists(r) /\ ~Executing(r) /\ ~AnsweredByHandler(r)
                            /\ req[r] = NoRequest
    BY DEF Init, RepoInit, Exists, Executing, AnsweredByHandler
  <1>2. \A tk \in Tenants \X Keys : keys[tk] = NoRow /\ DecidedFor(tk) = NoRow
    BY <1>1 DEF Init, KeysInit, DecidedFor
  <1> QED
    BY <1>1, <1>2
    DEF Promise!Init, IdleAsksNothing, Asks, Claims, Running, Minted, Decided, Given

\* Every step of the code maps to a step of the promise or to none.
LEMMA NextMaps == Inv /\ Inv' /\ IdleAsksNothing /\ [Next]_vars => [Promise!Next]_(Promise!vars)
  <1> SUFFICES ASSUME Inv, Inv', IdleAsksNothing, [Next]_vars
               PROVE  [Promise!Next]_(Promise!vars)
    OBVIOUS
  <1>1. ASSUME NEW r \in Requests, Serve(r)
        PROVE  [Promise!Next]_(Promise!vars)
    <2>1. CASE \/ MissingKey(r) \/ UnreadableBody(r) \/ ReserveError(r)
               \/ ReserveConflict(r) \/ ReserveInflight(r)
      BY <2>1, RefuseMaps DEF Promise!Next
    <2>2. CASE ReserveNew(r)
      BY <2>2, ReserveNewClaims DEF Promise!Next
    <2>3. CASE ReserveReplay(r)
      BY <2>3, ReserveReplays DEF Promise!Next
    <2>4. CASE RejectBody(r)
      BY <2>4, RejectBodyDecides DEF Promise!Next
    <2>5. CASE TxA(r)
      BY <2>5, TxAMints DEF Promise!Next
    <2>6. CASE TxBActive(r) \/ TxBFailed(r)
      BY <2>6, TxBDecides DEF Promise!Next
    <2>7. CASE SaveResult(r)
      BY <2>7, SaveResultUnseen
    <2>8. CASE CallProvider(r) \/ ProviderFails(r) \/ \E qr \in BOOLEAN : ProviderAnswers(r, qr)
      <3>1. Quiet
        BY <2>8 DEF CallProvider, ProviderFails, ProviderAnswers, SendPut, Quiet, repoVars, efiVars,
           Executing, Inv, TypeOK
      <3> QED
        BY <3>1, QuietAbandons
    <2> QED
      BY <1>1, <2>1, <2>2, <2>3, <2>4, <2>5, <2>6, <2>7, <2>8 DEF Serve, Reserve
  <1>2. ASSUME NEW r \in Requests, NEW t \in Tenants, NEW k \in Keys \cup {NoKey}, NEW b \in Bodies,
               Arrive(r, t, k, b)
        PROVE  [Promise!Next]_(Promise!vars)
    BY <1>2, ArriveAsks DEF Promise!Next
  <1>3. CASE \/ \E r \in Requests : Disconnect(r) \/ Receive(r) \/ ProviderStep(r)
             \/ Crash \/ UNCHANGED vars
    <2>1. CASE \E r \in Requests : Disconnect(r) \/ Receive(r) \/ ProviderStep(r)
      BY <2>1, QuietAbandons DEF Disconnect, Receive, ProviderStep, EfiApply, EfiDrop, Quiet,
         repoVars, efiVars, httpVars, Executing
    <2>2. CASE Crash
      <3>1. Quiet
        BY <2>2 DEF Crash, InFlight, Executing, Quiet, repoVars, efiVars, Inv, TypeOK
      <3> QED
        BY <3>1, QuietAbandons
    <2>3. CASE UNCHANGED vars
      BY <2>3, QuietAbandons DEF vars, httpVars, Quiet, Executing
    <2> QED
      BY <1>3, <2>1, <2>2, <2>3
  <1> QED
    BY <1>1, <1>2, <1>3 DEF Next

\* However many requests race, retry, fail or die, what the code does is what
\* the promise of the endpoint allows: one execution, one charge at most and
\* one answer under each Idempotency-Key.
THEOREM Refinement == Spec => ImplementsPromise
  <1>1. Inv /\ [Next]_vars => Inv'
    BY NextInv
  <1> QED
    BY <1>1, InitInv, InitMaps, IdleStep, NextMaps, PTL DEF Spec, ImplementsPromise, Promise!Spec
=============================================================================
