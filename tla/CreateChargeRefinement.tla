------------------------ MODULE CreateChargeRefinement ------------------------
(***************************************************************************)
(* CreateCharge implements IdempotentRequests.  A key is claimed by its    *)
(* row in idempotency_keys; an answer is decided when the handler writes   *)
(* it, whether or not SaveResult gets to store it.                         *)
(***************************************************************************)
EXTENDS CreateCharge

\* The absent row is told apart from what the promise puts beside it.
ASSUME RefinementAssumption ==
  NoRequest \notin RequestType /\ NoRow \notin RequestType /\ NoRow \notin Bodies

\* The statuses the handler can decide.
DecidedStatuses == {201, 409, 422, 500, 502}

DecidedAnswers ==
  [by : {"handler"}, status : DecidedStatuses, charge : Requests \cup {NoCharge}]

\* The answer the handler wrote for a key, from whoever was given it.
DecidedFor(tk) ==
  IF \E r \in Requests : AnsweredByHandler(r) /\ KeyOf(r) = tk
  THEN resp[CHOOSE r \in Requests : AnsweredByHandler(r) /\ KeyOf(r) = tk]
  ELSE NoRow

\* The state of the promise, read off the state of the code.
Asks    == [r \in Requests |-> IF req[r] = NoRequest THEN NoRow ELSE req[r]]
Claims  == [tk \in Tenants \X Keys |-> IF keys[tk] = NoRow THEN NoRow ELSE keys[tk].fingerprint]
Running == {r \in Requests : Executing(r)}
Minted  == {r \in Requests : Exists(r)}
Decided == [tk \in Tenants \X Keys |-> DecidedFor(tk)]
Given   == [r \in Requests |-> IF AnsweredByHandler(r) THEN resp[r] ELSE NoRow]

Promise == INSTANCE IdempotentRequests WITH
  Answers <- DecidedAnswers, None <- NoRow,
  ask <- Asks, table <- Claims, running <- Running,
  minted <- Minted, decided <- Decided, answer <- Given

\* Every behaviour of the code is one that the promise allows.
ImplementsPromise == Promise!Spec
=============================================================================
