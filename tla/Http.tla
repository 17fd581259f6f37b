-------------------------------- MODULE Http --------------------------------
(***************************************************************************)
(* HTTP answers: the mapping of error kinds to statuses                    *)
(* (internal/platform/httpx/errors.go) and the responses of POST /charges. *)
(***************************************************************************)
EXTENDS Charge

StatusFor(kind) ==
  CASE kind = "NotFound"     -> 404
    [] kind = "Conflict"     -> 409
    [] kind = "Validation"   -> 422
    [] kind = "Unauthorized" -> 401
    [] kind = "Provider"     -> 502
    [] OTHER                 -> 500

\* A response is told by its writer: the middleware's own answers, which are
\* never stored, and the handler's, which SaveResult captures.  A charge in a
\* handler's response is the snapshot of it that dto.go renders.
Responses == [by : {"middleware", "handler"}, status : Nat,
              charge : Requests \cup {NoCharge}]

MiddlewareResponse(status) == [by |-> "middleware", status |-> status, charge |-> NoCharge]
HandlerError(status)       == [by |-> "handler", status |-> status, charge |-> NoCharge]
ChargeResponse(c)          == [by |-> "handler", status |-> 201, charge |-> c.id]
=============================================================================
