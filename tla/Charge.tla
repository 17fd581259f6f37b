------------------------------- MODULE Charge -------------------------------
(***************************************************************************)
(* The charge aggregate (internal/charge/domain/charge.go) as pure         *)
(* operators on the in-memory charge.                                      *)
(*                                                                         *)
(* A charge keeps the fields that the rest of the system tells apart: its  *)
(* identity (the id and the txid are minted together and stand for one     *)
(* value), tenant and amount, its status, the optimistic-lock version,     *)
(* whether a QR image was obtained, and the audit events not yet stored.   *)
(* A request mints at most one charge, with fresh uuids, so the charge is  *)
(* named after the request that minted it.                                 *)
(***************************************************************************)
EXTENDS Integers, Sequences

CONSTANTS
  Tenants,
  Bodies,     \* the request bodies; an amount is named after the body it is in
  Requests,   \* the HTTP requests, and so the charges they may mint
  NoCharge    \* no charge: a nil pointer or an absent row

Statuses   == {"CREATED", "ACTIVE", "FAILED"}       \* those phase 1 reaches
EventTypes == {"created", "activated", "failed"}

\* A charge as the use case holds it in memory.
Copies == [id : Requests, tenant : Tenants, amount : Bodies, status : Statuses,
           version : Nat, qr : BOOLEAN, pending : Seq(EventTypes)]

\* NewImmediate: a fresh charge in CREATED with its first audit event.
NewImmediate(id, tenant, amount) ==
  [id |-> id, tenant |-> tenant, amount |-> amount, status |-> "CREATED",
   version |-> 0, qr |-> FALSE, pending |-> <<"created">>]

\* MarkActive and MarkFailed share their guard: both refuse to leave any
\* status but CREATED.
CanMark(c) == c.status = "CREATED"

MarkActive(c, qr) ==
  IF CanMark(c)
  THEN [c EXCEPT !.status = "ACTIVE", !.qr = qr, !.pending = Append(@, "activated")]
  ELSE c

\* Mutant of MarkFailed: the event is recorded but the status is left alone.
MarkFailedEventOnly(c) == [c EXCEPT !.pending = Append(@, "failed")]

MarkFailed(c) ==
  IF CanMark(c)
  THEN [c EXCEPT !.status = "FAILED", !.pending = Append(@, "failed")]
  ELSE c
=============================================================================
