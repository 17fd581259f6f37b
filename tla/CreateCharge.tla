----------------------------- MODULE CreateCharge -----------------------------
(***************************************************************************)
(* POST /api/v1/charges, from the idempotency middleware to the answer:    *)
(* the composition of the idempotency store, the charge aggregate and its  *)
(* repository, and the payment service provider.                           *)
(*                                                                         *)
(* Requests run concurrently, each in its own goroutine:                   *)
(*                                                                         *)
(*   idle -> arrived -> reserved -> created -> calling -> activating       *)
(*                |         |          |          |            |           *)
(*                |         |          +----------+-> failing  |           *)
(*                |         |                           |      |           *)
(*                |         +---------------------------+------+-> saving  *)
(*                +------------------------------------------------> done  *)
(*                                                                         *)
(* "arrived" precedes Reserve, "reserved" tx A, "created" the provider     *)
(* call, "calling" its answer, "activating" and "failing" tx B, "saving"   *)
(* SaveResult.  The process may die, taking every running request with it  *)
(* ("killed"); a client may hang up, which cancels the context of its      *)
(* request; any transaction may fail, or commit without its caller         *)
(* learning of it; and EFi may apply a PUT whose caller was told it failed.*)
(***************************************************************************)
EXTENDS IdempotencyStore, ChargeRepository, EfiProvider, FiniteSets

CONSTANTS
  ValidBodies,      \* the bodies that process() accepts, the others get 422
  NoKey,            \* a request without an Idempotency-Key header
  NoRequest, NoResponse,
  ClientsMayLeave,  \* whether clients hang up before they are answered
  MaxCrashes        \* bound: how often the process dies

ASSUME CreateChargeAssumption ==
  /\ ValidBodies \subseteq Bodies
  /\ NoKey \notin Keys
  /\ NoCharge \notin Requests /\ NoCharge \notin Rows /\ NoCharge \notin Copies
  /\ NoRow \notin KeyRows
  /\ NoRow \notin Responses
  /\ NoResponse \notin Responses
  /\ ClientsMayLeave \in BOOLEAN
  /\ MaxCrashes \in Nat

VARIABLES
  pc,       \* where each request is
  req,      \* what its client sent
  mem,      \* the charge the use case holds in memory
  resp,     \* the response written for it
  client,   \* "waiting" for it, "answered", or "gone"
  crashes   \* how often the process has died

httpVars == <<pc, req, mem, resp, client, crashes>>
vars == <<keys, charges, events, outbox, puts, cobs, httpVars>>

PCs == {"idle", "arrived", "reserved", "created", "calling", "activating",
        "failing", "saving", "done", "killed"}

RequestType == [tenant : Tenants, key : Keys \cup {NoKey}, body : Bodies]

\* The row of idempotency_keys that r is about.
KeyOf(r) == <<req[r].tenant, req[r].key>>

\* Between Reserve and the return of the handler.
Executing(r) == pc[r] \in {"reserved", "created", "calling", "activating", "failing"}

\* In the hands of the process.
InFlight(r) == Executing(r) \/ pc[r] \in {"arrived", "saving"}

\* The request context is cancelled when its client hangs up.
Cancelled(r) == client[r] = "gone"

KeyMissing    == MiddlewareResponse(400)
InvalidBody   == MiddlewareResponse(400)
ReserveFailed == MiddlewareResponse(500)
KeyReused     == MiddlewareResponse(422)
InProgress    == MiddlewareResponse(409)
InvalidAmount == HandlerError(422)

Init ==
  /\ KeysInit /\ RepoInit /\ EfiInit
  /\ pc      = [r \in Requests |-> "idle"]
  /\ req     = [r \in Requests |-> NoRequest]
  /\ mem     = [r \in Requests |-> NoCharge]
  /\ resp    = [r \in Requests |-> NoResponse]
  /\ client  = [r \in Requests |-> "waiting"]
  /\ crashes = 0

-----------------------------------------------------------------------------
(* The client.                                                             *)

\* An authenticated client sends a request; a retry is another request.
Arrive(r, t, k, b) ==
  /\ pc[r] = "idle"
  /\ pc'  = [pc EXCEPT ![r] = "arrived"]
  /\ req' = [req EXCEPT ![r] = [tenant |-> t, key |-> k, body |-> b]]
  /\ UNCHANGED <<keys, repoVars, efiVars, mem, resp, client, crashes>>

\* The client hangs up before it has its answer.
Disconnect(r) ==
  /\ ClientsMayLeave
  /\ InFlight(r) /\ client[r] = "waiting"
  /\ client' = [client EXCEPT ![r] = "gone"]
  /\ UNCHANGED <<keys, repoVars, efiVars, pc, req, mem, resp, crashes>>

\* The answer reaches the client.  A body that overflows the writer's buffer
\* leaves as soon as the handler writes it, before SaveResult has run.
Receive(r) ==
  /\ pc[r] \in {"saving", "done"} /\ client[r] = "waiting"
  /\ client' = [client EXCEPT ![r] = "answered"]
  /\ UNCHANGED <<keys, repoVars, efiVars, pc, req, mem, resp, crashes>>

-----------------------------------------------------------------------------
(* The idempotency middleware.                                             *)

\* The middleware answers by itself and the handler does not run.
Abort(r, response) ==
  /\ pc'   = [pc EXCEPT ![r] = "done"]
  /\ resp' = [resp EXCEPT ![r] = response]
  /\ UNCHANGED <<repoVars, efiVars, req, mem, client, crashes>>

MissingKey(r) ==
  /\ pc[r] = "arrived" /\ req[r].key = NoKey
  /\ Abort(r, KeyMissing)
  /\ UNCHANGED keys

\* Reading the body fails because the client is gone.
UnreadableBody(r) ==
  /\ pc[r] = "arrived" /\ req[r].key # NoKey /\ Cancelled(r)
  /\ Abort(r, InvalidBody)
  /\ UNCHANGED keys

\* Reserve runs its transaction with outcome o.
Reserving(r, o) ==
  /\ pc[r] = "arrived" /\ req[r].key # NoKey
  /\ o \in TxOutcomes(Cancelled(r))
  /\ InsertKey(req[r].tenant, req[r].key, req[r].body, o)

ReservationOf(r) == Reservation(req[r].tenant, req[r].key, req[r].body)

ReserveError(r) ==
  \E o \in AllTxFaults : Reserving(r, o) /\ Abort(r, ReserveFailed)

ReserveNew(r) ==
  /\ Reserving(r, "ok") /\ ReservationOf(r) = "new"
  /\ pc' = [pc EXCEPT ![r] = "reserved"]
  /\ UNCHANGED <<repoVars, efiVars, req, mem, resp, client, crashes>>

ReserveReplay(r) ==
  /\ Reserving(r, "ok") /\ ReservationOf(r) = "replay"
  /\ Abort(r, keys[KeyOf(r)].response)

ReserveConflict(r) ==
  /\ Reserving(r, "ok") /\ ReservationOf(r) = "conflict"
  /\ Abort(r, KeyReused)

ReserveInflight(r) ==
  /\ Reserving(r, "ok") /\ ReservationOf(r) = "inflight"
  /\ Abort(r, InProgress)

Reserve(r) ==
  \/ ReserveError(r) \/ ReserveNew(r) \/ ReserveReplay(r)
  \/ ReserveConflict(r) \/ ReserveInflight(r)

\* The handler has returned: its captured response is stored under the key.
\* A failure is logged and changes nothing else.
SaveResult(r) ==
  /\ pc[r] = "saving"
  /\ \E o \in TxOutcomes(Cancelled(r)) :
       StoreResult(req[r].tenant, req[r].key, resp[r].status, resp[r], o)
  /\ pc' = [pc EXCEPT ![r] = "done"]
  /\ UNCHANGED <<repoVars, efiVars, req, mem, resp, client, crashes>>

-----------------------------------------------------------------------------
(* The handler and the use case.                                           *)

\* The handler writes its response and drops the charge it held.
Return(r, response) ==
  /\ pc'   = [pc EXCEPT ![r] = "saving"]
  /\ resp' = [resp EXCEPT ![r] = response]
  /\ mem'  = [mem EXCEPT ![r] = NoCharge]
  /\ UNCHANGED <<keys, efiVars, req, client, crashes>>

RejectBody(r) ==
  /\ pc[r] = "reserved" /\ req[r].body \notin ValidBodies
  /\ Return(r, InvalidAmount)
  /\ UNCHANGED repoVars

\* tx A: the charge is recorded before the provider hears of it.
TxA(r) ==
  LET c == NewImmediate(r, req[r].tenant, req[r].body) IN
  /\ pc[r] = "reserved" /\ req[r].body \in ValidBodies
  /\ \E o \in TxOutcomes(Cancelled(r)) :
       /\ Insert(c, o)
       /\ IF Succeeded(o)
          THEN /\ pc'  = [pc EXCEPT ![r] = "created"]
               /\ mem' = [mem EXCEPT ![r] = [c EXCEPT !.pending = << >>]]
               /\ UNCHANGED <<keys, efiVars, req, resp, client, crashes>>
          ELSE Return(r, HandlerError(StatusFor(CreateErrorKind(o))))

\* The PUT leaves for EFi.  The SDK does not look at the request context.
CallProvider(r) ==
  /\ pc[r] = "created"
  /\ pc' = [pc EXCEPT ![r] = "calling"]
  /\ SendPut(r)
  /\ UNCHANGED <<keys, repoVars, req, mem, resp, client, crashes>>

\* EFi's answer is read: the cob exists, with or without its QR image.
ProviderAnswers(r, qr) ==
  /\ pc[r] = "calling" /\ r \in cobs
  /\ CanMark(mem[r])
  /\ mem' = [mem EXCEPT ![r] = MarkActive(@, qr)]
  /\ pc'  = [pc EXCEPT ![r] = "activating"]
  /\ UNCHANGED <<keys, repoVars, efiVars, req, resp, client, crashes>>

\* Mutants of ProviderFails.  The SDK has no timeout, so a PUT that EFi keeps
\* never fails; the failure is answered without tx B.
ProviderFailsUntimed(r) ==
  /\ pc[r] \in {"created", "calling"} /\ r \notin puts
  /\ mem' = [mem EXCEPT ![r] = MarkFailed(@)]
  /\ pc'  = [pc EXCEPT ![r] = "failing"]
  /\ UNCHANGED <<keys, repoVars, efiVars, req, resp, client, crashes>>

ProviderFailsUnsaved(r) ==
  /\ pc[r] \in {"created", "calling"}
  /\ Return(r, HandlerError(502))
  /\ UNCHANGED repoVars

\* The call fails: no client for the account (nothing was sent), or a
\* refusal, a timeout or an unreadable answer, whatever EFi made of the PUT.
ProviderFails(r) ==
  /\ pc[r] \in {"created", "calling"}
  /\ mem' = [mem EXCEPT ![r] = MarkFailed(@)]
  /\ pc'  = [pc EXCEPT ![r] = "failing"]
  /\ UNCHANGED <<keys, repoVars, efiVars, req, resp, client, crashes>>

\* tx B after success: ACTIVE, its audit event and ChargeCreated together.
TxBActive(r) ==
  /\ pc[r] = "activating"
  /\ \E o \in TxOutcomes(Cancelled(r)) :
       /\ Update(mem[r], 1, o)
       /\ Return(r, IF SaveSucceeds(mem[r], o)
                    THEN ChargeResponse(mem[r])
                    ELSE HandlerError(StatusFor(SaveErrorKind(mem[r], o))))

\* tx B after a failure: FAILED and its audit event, then 502.
TxBFailed(r) ==
  /\ pc[r] = "failing"
  /\ \E o \in TxOutcomes(Cancelled(r)) :
       /\ Update(mem[r], 0, o)
       /\ Return(r, HandlerError(
                      StatusFor(IF SaveSucceeds(mem[r], o) THEN "Provider"
                                ELSE SaveErrorKind(mem[r], o))))

-----------------------------------------------------------------------------
(* The process and the provider.                                           *)

\* The process dies, or its shutdown deadline passes with requests running.
\* It keeps nothing that outlives it; the next one starts empty.
Crash ==
  /\ crashes < MaxCrashes
  /\ \E r \in Requests : InFlight(r)
  /\ crashes' = crashes + 1
  /\ pc'  = [r \in Requests |-> IF InFlight(r) THEN "killed" ELSE pc[r]]
  /\ mem' = [r \in Requests |-> NoCharge]
  /\ client' = [r \in Requests |->
                  IF pc[r] # "idle" /\ client[r] = "waiting" THEN "gone" ELSE client[r]]
  /\ UNCHANGED <<keys, repoVars, efiVars, req, resp>>

ProviderStep(x) ==
  /\ EfiApply(x) \/ EfiDrop(x)
  /\ UNCHANGED <<keys, repoVars, httpVars>>

\* What the server does for r.
Serve(r) ==
  \/ MissingKey(r) \/ UnreadableBody(r) \/ Reserve(r)
  \/ RejectBody(r) \/ TxA(r) \/ CallProvider(r)
  \/ (\E qr \in BOOLEAN : ProviderAnswers(r, qr)) \/ ProviderFails(r)
  \/ TxBActive(r) \/ TxBFailed(r) \/ SaveResult(r)

Next ==
  \/ \E r \in Requests :
       \/ \E t \in Tenants, k \in Keys \cup {NoKey}, b \in Bodies : Arrive(r, t, k, b)
       \/ Serve(r) \/ Disconnect(r) \/ Receive(r) \/ ProviderStep(r)
  \/ Crash

Spec == Init /\ [][Next]_vars

\* The runtime schedules every goroutine; each of its steps ends, the
\* provider call by the SDK's 30 s timeout.  Nothing is assumed of clients,
\* of EFi, or of crashes.
FairSpec == Spec /\ \A r \in Requests : WF_vars(Serve(r))

-----------------------------------------------------------------------------
(* Properties.                                                             *)

\* The values every variable ranges over.
TypeOK ==
  /\ KeysTypeOK
  /\ charges \in [Requests -> Rows \cup {NoCharge}]
  /\ events \in [Requests -> Seq(EventTypes)]
  /\ outbox \in [Requests -> Nat]
  /\ EfiTypeOK
  /\ pc \in [Requests -> PCs]
  /\ req \in [Requests -> RequestType \cup {NoRequest}]
  /\ mem \in [Requests -> Copies \cup {NoCharge}]
  /\ resp \in [Requests -> Responses \cup {NoResponse}]
  /\ client \in [Requests -> {"waiting", "answered", "gone"}]
  /\ crashes \in 0 .. MaxCrashes

\* The handler answered r, or a stored answer of the handler was replayed.
AnsweredByHandler(r) == resp[r] # NoResponse /\ resp[r].by = "handler"

\* However requests race, retry, fail or outlive a crash, the requests of one
\* tenant that carry one Idempotency-Key mint at most one charge (ADR-0002).
OneChargePerKey ==
  \A p, q \in Requests :
    Exists(p) /\ Exists(q) /\ KeyOf(p) = KeyOf(q) => p = q

\* EFi never hears of a txid that the database has no charge for: tx A is
\* durable before the PUT leaves (persist-first, create.go).
PersistFirst == \A x \in puts \cup cobs : Exists(x)

\* Row, version, audit trail and outbox always tell the same story, because
\* each of tx A and tx B writes them in one transaction.
AuditTrail(status) ==
  CASE status = "CREATED" -> <<"created">>
    [] status = "ACTIVE"  -> <<"created", "activated">>
    [] status = "FAILED"  -> <<"created", "failed">>

RecordAgrees(x) ==
  IF Exists(x)
  THEN /\ events[x] = AuditTrail(charges[x].status)
       /\ charges[x].version = Len(events[x]) - 1
       /\ outbox[x] = (IF charges[x].status = "ACTIVE" THEN 1 ELSE 0)
  ELSE events[x] = << >> /\ outbox[x] = 0

RecordsAgree == \A x \in Requests : RecordAgrees(x)

\* A client told 201, by the handler or by a replay, holds a charge of its
\* own tenant for the amount it asked, ACTIVE here and payable at EFi.
CreatedIsActive ==
  \A r \in Requests :
    AnsweredByHandler(r) /\ resp[r].charge # NoCharge =>
      LET x == resp[r].charge IN
      /\ Exists(x) /\ x \in cobs
      /\ charges[x].status = "ACTIVE"
      /\ charges[x].tenant = req[r].tenant /\ charges[x].amount = req[r].body

\* A client told 502 can rely on the failure being on record: the charge of
\* its key is FAILED with its audit event, and was never announced.
FailureOnRecord(x, r) ==
  /\ Exists(x) /\ KeyOf(x) = KeyOf(r)
  /\ charges[x].status = "FAILED" /\ charges[x].amount = req[r].body
  /\ events[x] = <<"created", "failed">> /\ outbox[x] = 0

FailureIsRecorded ==
  \A r \in Requests :
    AnsweredByHandler(r) /\ resp[r].status = 502 =>
      \E x \in Requests : FailureOnRecord(x, r)

\* Whatever the handler's answer is, all requests of one key that get one get
\* the same one, and they sent the same body.
OneOutcomePerKey ==
  \A p, q \in Requests :
    AnsweredByHandler(p) /\ AnsweredByHandler(q) /\ KeyOf(p) = KeyOf(q) =>
      resp[p] = resp[q] /\ req[p].body = req[q].body

\* A stored result is never overwritten, and a key never changes its body.
ResultIsFinal ==
  [][\A tk \in Tenants \X Keys : keys[tk] # NoRow =>
       /\ keys'[tk] # NoRow /\ keys'[tk].fingerprint = keys[tk].fingerprint
       /\ keys[tk].status > 0 => keys'[tk] = keys[tk]]_vars

\* A charge leaves CREATED once and for good, and only with a newer version.
StatusIsFinal ==
  [][\A x \in Requests : Exists(x) /\ charges'[x] # charges[x] =>
       /\ charges'[x] # NoCharge /\ charges[x].status = "CREATED"
       /\ charges'[x].status \in {"ACTIVE", "FAILED"}
       /\ charges'[x].version = charges[x].version + 1]_vars

\* Every request the server takes is brought to an end, even when EFi never
\* answers: no goroutine waits for ever on another or on the provider.
EveryRequestEnds ==
  \A r \in Requests : pc[r] = "arrived" ~> pc[r] \in {"done", "killed"}

-----------------------------------------------------------------------------
(* Properties of runs without faults.                                      *)

Handling(r, tk) == (Executing(r) \/ pc[r] = "saving") /\ KeyOf(r) = tk

\* "request in progress" (middleware.go): a client is told so only while some
\* other request of its key is still being handled.
InProgressIsTrue ==
  [][\A r \in Requests :
       pc[r] = "arrived" /\ resp'[r] = InProgress /\ resp[r] # InProgress =>
         \E p \in Requests : Handling(p, KeyOf(r))]_vars

\* Every reserved key comes to hold the answer its retries will be given.
EveryKeySettles ==
  \A tk \in Tenants \X Keys :
    keys[tk] # NoRow ~> (keys[tk] # NoRow /\ keys[tk].status > 0)

\* Every charge leaves CREATED.
EveryChargeSettles ==
  \A x \in Requests : Exists(x) ~> (Exists(x) /\ charges[x].status # "CREATED")

-----------------------------------------------------------------------------
(* What the documents say of faulty runs.                                  *)

\* ADR-0001: FAILED means that the creation at the provider failed, so no
\* FAILED charge is a payable cob.
FailedIsNotPayable ==
  \A x \in cobs : charges[x].status # "FAILED"
=============================================================================
