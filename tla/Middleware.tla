------------------------------ MODULE Middleware ------------------------------
(***************************************************************************)
(* The HTTP middleware of pkg/middleware, pkg/ratelimit and pkg/metrics,   *)
(* each as what it makes of the outcome of the handler it wraps: what was  *)
(* written to the response, how the handler ended, and what was recorded.  *)
(* The response recorders and the status writer keep the first status that *)
(* passes through them, which is the status the outcome carries.           *)
(***************************************************************************)
EXTENDS Integers

(* A request: where it comes from, whether it is an OPTIONS that asks for  *)
(* a method, which route it takes, and whether its X-Request-ID may be     *)
(* adopted.                                                                *)
Origins == {"none", "trusted", "foreign"}
Shapes == [origin : Origins, preflight : BOOLEAN, route : {"order", "unknown"},
           id : {"missing", "valid", "invalid"}]

(* status 0: nothing written.  panic: none, a value, or ErrAbortHandler.   *)
Outcome(status, panic) ==
    [status |-> status, panic |-> panic, idHeader |-> "none", allow |-> "none", vary |-> FALSE,
     counted |-> 0, logged |-> 0, lineId |-> "none", panicLine |-> FALSE]

(* What net/http sends when nothing was written.                           *)
Status(o) == IF o.status = 0 THEN 200 ELSE o.status

-----------------------------------------------------------------------------
(* Cors, preflight and actual, under the service's configuration: one      *)
(* trusted origin and no credentials.                                      *)

IsPreflight(req) == req.origin # "none" /\ req.preflight
Allowed(req) == IF req.origin = "trusted" THEN "trusted" ELSE "none"

preflight(req) == [Outcome(204, "no") EXCEPT !.allow = Allowed(req), !.vary = TRUE]

actual(req, o) == [o EXCEPT !.allow = Allowed(req), !.vary = Allowed(req) # "none"]

Cors(req, o) ==
    IF req.origin = "none" THEN o ELSE IF IsPreflight(req) THEN preflight(req) ELSE actual(req, o)

(* Limiter.Middleware                                                      *)
RateLimit(granted, o) == IF granted THEN o ELSE Outcome(429, "no")

(* Recorder.Middleware observes after the handler, and not deferred.       *)
Metrics(o) == IF o.panic = "no" THEN [o EXCEPT !.counted = Status(o)] ELSE o

(* Logger logs from a deferred call, with the id of its request's context. *)
Logger(id, o) == [o EXCEPT !.logged = Status(o), !.lineId = id]

(* RequestID adopts a valid id and generates one otherwise.                *)
ResolvedID(req) == IF req.id = "valid" THEN "adopted" ELSE "generated"
RequestID(req, o) == [o EXCEPT !.idHeader = ResolvedID(req)]

(* Recoverer turns a panic into a 500 if nothing was written; it lets      *)
(* ErrAbortHandler through, and net/http drops the connection.             *)
Recoverer(o) ==
    IF o.panic # "value" THEN o
    ELSE [o EXCEPT !.panic = "no", !.panicLine = TRUE,
                   !.status = IF o.status = 0 THEN 500 ELSE o.status]

-----------------------------------------------------------------------------
(* handler's application chain, outermost first.                           *)
Bug_NoIdYet(req, granted, o) ==
    Recoverer(Logger("none", RequestID(req, Metrics(RateLimit(granted, Cors(req, o))))))

Chain(req, granted, o) ==
    Recoverer(RequestID(req, Logger(ResolvedID(req), Metrics(RateLimit(granted, Cors(req, o))))))
=============================================================================
