-------------------------- MODULE IdempotencyStore --------------------------
(***************************************************************************)
(* The idempotency store (internal/platform/idempotency/idempotency.go and *)
(* the table idempotency_keys): one row per tenant and key, inserted by    *)
(* Reserve with status 0 and completed by SaveResult.                      *)
(***************************************************************************)
EXTENDS Db, Http

CONSTANTS Keys, NoRow

VARIABLE keys   \* [Tenants \X Keys -> row or NoRow]

\* A row of idempotency_keys; "response" is a member of Responses once the
\* status is positive, NoRow (a NULL response) before.
KeyRows == [fingerprint : Bodies, status : Nat, response : Responses \cup {NoRow}]

KeysInit == keys = [tk \in Tenants \X Keys |-> NoRow]

KeysTypeOK == keys \in [Tenants \X Keys -> KeyRows \cup {NoRow}]

\* Mutants of Reservation.  A row with a result missing is taken over by the
\* retry; is replayed as it is; the body of the retry is not compared.
ReservationTakingOver(t, k, fp) ==
  CASE keys[<<t, k>>] = NoRow \/ keys[<<t, k>>].status = 0 -> "new"
    [] OTHER -> IF keys[<<t, k>>].fingerprint = fp THEN "replay" ELSE "conflict"

ReservationReplayingNull(t, k, fp) ==
  CASE keys[<<t, k>>] = NoRow -> "new"
    [] OTHER -> IF keys[<<t, k>>].fingerprint = fp THEN "replay" ELSE "conflict"

ReservationOfAnyBody(t, k, fp) ==
  CASE keys[<<t, k>>] = NoRow -> "new"
    [] OTHER -> IF keys[<<t, k>>].status > 0 THEN "replay" ELSE "inflight"

\* What Reserve answers about a key in the table as it stands.
Reservation(t, k, fp) ==
  CASE keys[<<t, k>>] = NoRow             -> "new"
    [] keys[<<t, k>>] # NoRow /\ keys[<<t, k>>].fingerprint # fp -> "conflict"
    [] keys[<<t, k>>] # NoRow /\ keys[<<t, k>>].fingerprint = fp /\ keys[<<t, k>>].status > 0 -> "replay"
    [] OTHER                          -> "inflight"

\* Mutant of InsertKey: ON CONFLICT DO UPDATE resets the row.
InsertKeyUpserting(t, k, fp, o) ==
  keys' = IF Durable(o)
          THEN [keys EXCEPT ![<<t, k>>] = [fingerprint |-> fp, status |-> 0, response |-> NoRow]]
          ELSE keys

\* INSERT ... ON CONFLICT DO NOTHING, inside the transaction of outcome o.
InsertKey(t, k, fp, o) ==
  keys' = IF Durable(o) /\ keys[<<t, k>>] = NoRow
          THEN [keys EXCEPT ![<<t, k>>] = [fingerprint |-> fp, status |-> 0, response |-> NoRow]]
          ELSE keys

\* Mutant of StoreResult: only a success is worth storing.
StoreResultOfSuccess(t, k, status, response, o) ==
  keys' = IF Durable(o) /\ keys[<<t, k>>] # NoRow /\ status = 201
          THEN [keys EXCEPT ![<<t, k>>].status = status, ![<<t, k>>].response = response]
          ELSE keys

\* UPDATE ... SET status, response WHERE tenant_id AND key, outcome o; an
\* absent row is not an error.
StoreResult(t, k, status, response, o) ==
  keys' = IF Durable(o) /\ keys[<<t, k>>] # NoRow
          THEN [keys EXCEPT ![<<t, k>>].status = status, ![<<t, k>>].response = response]
          ELSE keys
=============================================================================
