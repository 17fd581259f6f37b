-------------------------- MODULE ChargeRepository --------------------------
(***************************************************************************)
(* The charge repository (internal/charge/infra/repository.go) and its     *)
(* tables: charges, payment_events and outbox.  Create and Save each run   *)
(* in one transaction; Save is guarded by the version the caller read.     *)
(***************************************************************************)
EXTENDS Db, Charge

VARIABLES
  charges,   \* [Requests -> stored row or NoCharge]
  events,    \* [Requests -> sequence of audit events of that charge]
  outbox     \* [Requests -> number of ChargeCreated rows of that aggregate]

repoVars == <<charges, events, outbox>>

RepoInit ==
  /\ charges = [x \in Requests |-> NoCharge]
  /\ events  = [x \in Requests |-> << >>]
  /\ outbox  = [x \in Requests |-> 0]

\* A row of charges for the amount parsed from the body it is named after.
Rows == [tenant : Tenants, amount : Bodies, status : Statuses, version : Nat,
         qr : BOOLEAN]

Exists(x) == charges[x] # NoCharge

\* The columns of a row are the fields of the charge but the pending events.
RowOf(c, version) ==
  [tenant |-> c.tenant, amount |-> c.amount, status |-> c.status,
   version |-> version, qr |-> c.qr]

\* Create (tx A): insert the row and the pending events together.
Insert(c, o) ==
  /\ charges' = IF Durable(o) THEN [charges EXCEPT ![c.id] = RowOf(c, c.version)] ELSE charges
  /\ events'  = IF Durable(o) THEN [events EXCEPT ![c.id] = @ \o c.pending] ELSE events
  /\ UNCHANGED outbox

\* The error Create returns: any failure of the INSERT is classified as a
\* conflict.  A failed insert of an event is not, which makes it the same
\* outcome as a refused commit: rolled back, unclassified.
CreateErrorKind(o) == IF o = "exec" THEN "Conflict" ELSE "Unknown"

\* Save (tx B): optimistic update of the row the caller read, its pending
\* events and nOut outbox rows.
Matches(c) ==
  /\ Exists(c.id)
  /\ charges[c.id].tenant = c.tenant
  /\ charges[c.id].version = c.version

\* Mutants of Update.  The events are inserted outside the transaction; the
\* version is not incremented.
UpdateWithLooseEvents(c, nOut, o) ==
  LET effective == Durable(o) /\ Matches(c) IN
  /\ charges' = IF effective THEN [charges EXCEPT ![c.id] = RowOf(c, c.version + 1)] ELSE charges
  /\ events'  = [events EXCEPT ![c.id] = @ \o c.pending]
  /\ outbox'  = IF effective THEN [outbox EXCEPT ![c.id] = @ + nOut] ELSE outbox

UpdateKeepingVersion(c, nOut, o) ==
  LET effective == Durable(o) /\ Matches(c) IN
  /\ charges' = IF effective THEN [charges EXCEPT ![c.id] = RowOf(c, c.version)] ELSE charges
  /\ events'  = IF effective THEN [events EXCEPT ![c.id] = @ \o c.pending] ELSE events
  /\ outbox'  = IF effective THEN [outbox EXCEPT ![c.id] = @ + nOut] ELSE outbox

Update(c, nOut, o) ==
  LET effective == Durable(o) /\ Matches(c) IN
  /\ charges' = IF effective THEN [charges EXCEPT ![c.id] = RowOf(c, c.version + 1)] ELSE charges
  /\ events'  = IF effective THEN [events EXCEPT ![c.id] = @ \o c.pending] ELSE events
  /\ outbox'  = IF effective THEN [outbox EXCEPT ![c.id] = @ + nOut] ELSE outbox

\* Mutant of SaveSucceeds: the error of Save is dropped.
SaveAlwaysSucceeds(c, o) == TRUE

SaveSucceeds(c, o) == Succeeded(o) /\ Matches(c)

\* A version that moved is a conflict whatever the outcome would have been.
SaveErrorKind(c, o) ==
  IF o \notin {"begin", "exec"} /\ ~Matches(c) THEN "Conflict" ELSE "Unknown"
=============================================================================
