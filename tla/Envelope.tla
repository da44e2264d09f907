------------------------------ MODULE Envelope ------------------------------
(***************************************************************************)
(* What a client gets to see of a request: { success, data } from the      *)
(* ResponseInterceptor for what a handler returns, and { success, error }  *)
(* from the HttpExceptionFilter for what a guard, a pipe, a service or the *)
(* database throws.  Messages and data are left out.                       *)
(***************************************************************************)
EXTENDS Integers

NoCode == "none"

StatusToCode(status) ==
    CASE status = 400 -> "VALIDATION_ERROR"
      [] status = 401 -> "UNAUTHORIZED"
      [] status = 403 -> "FORBIDDEN"
      [] status = 404 -> "NOT_FOUND"
      [] status = 409 -> "ORDER_STATE_CONFLICT"
      [] status = 429 -> "RATE_LIMITED"
      [] status = 503 -> "SERVICE_UNAVAILABLE"
      [] OTHER        -> "INTERNAL_ERROR"

\* An HttpException without a code of its own.
Caught(status) ==
    [success |-> FALSE, status |-> status, code |-> StatusToCode(status)]

\* Anything else that is thrown: the errors of TypeORM and of PostgreSQL.
CaughtError == [success |-> FALSE, status |-> 500, code |-> "INTERNAL_ERROR"]

Intercepted(status) ==
    [success |-> 200 <= status /\ status < 400, status |-> status, code |-> NoCode]
=============================================================================
