------------------------------- MODULE Service -------------------------------
(***************************************************************************)
(* examples/service: what newService, handler, readiness, createOrder and  *)
(* main make of the library's parts.  The worker pool and the lifecycle    *)
(* coordinator are the modules WorkerPool and Lifecycle; the HTTP chain is *)
(* Middleware.  net/http's server is external: it serves each request on a *)
(* goroutine of its own, and Shutdown stops the listener and then waits    *)
(* for the active requests or its context.                                 *)
(*                                                                         *)
(* A task of the pool is named after the request, or the readiness probe,  *)
(* that submits it.  The process ends when main's WaitForSignals returns,  *)
(* or when a probe panics on its goroutine.                                *)
(***************************************************************************)
EXTENDS Middleware, Sequences, FiniteSets

CONSTANTS Requests,       \* requests behind the application chain
          Probes,         \* requests for /readyz
          Workers, QueueSize,
          Traffic,        \* the shapes the requests may have, together
          PanicRequests,  \* requests whose handler may panic
          PanicProbes     \* probes that may panic

ASSUME ShapeAssumption == Traffic \subseteq [Requests -> Shapes]
ASSUME DisjointAssumption == Requests \cap Probes = {}

(* The pool's assumptions, for these constants.                            *)
ASSUME PoolAssumption ==
    /\ Workers # {}
    /\ QueueSize \in Nat
    /\ (Requests \cup Probes) \cap {"idle", "parked", "exited"} = {}

VARIABLES task, queue, worker, closer, closed, hardStop, expired, poolFault,  \* the pool
          hooks, started, finished, result, triggered,       \* the coordinator
          reg, pc, snap, idx, errs, signaled, done, ret, ran, failed, lifeFault,
          srv,      \* the HTTP server's listener
          shape,    \* the shape of each request
          stage,    \* where each request or probe is
          out,      \* the outcome of each request, once its chain has returned
          crashed   \* a panic on a probe's goroutine ended the process

poolVars == <<task, queue, worker, closer, closed, hardStop, expired, poolFault>>
lifeVars == <<hooks, started, finished, result, triggered, reg, pc, snap, idx, errs, signaled,
              done, ret, ran, failed, lifeFault>>
httpVars == <<srv, shape, stage, out, crashed>>
vars == <<poolVars, lifeVars, httpVars>>

(* newService: non-blocking Submit and a panic handler.                    *)
Pool == INSTANCE WorkerPool WITH
    Tasks <- Requests \cup Probes, Closers <- {"main"}, NonBlock <- TRUE, PanicHandler <- TRUE,
    LongTasks <- {}, PanicTasks <- PanicRequests, done <- expired, fault <- poolFault

(* Two hooks, and main as the only caller.                                 *)
Life == INSTANCE Lifecycle WITH
    Hooks <- {"pool", "server"}, Direct <- {}, Waiters <- {"main"}, HasTimeout <- TRUE,
    LongHooks <- {}, PanicHooks <- {}, fault <- lifeFault

Incoming == Requests \cup Probes

Init ==
    /\ Pool!Init
    /\ Life!Init
    /\ srv = "new"
    /\ shape \in Traffic
    /\ stage = [r \in Incoming |-> "new"]
    /\ out = [r \in Incoming |-> Outcome(0, "no")]
    /\ crashed = FALSE

Stopped == pc["main"] = "returned"
Alive == ~crashed /\ ~Stopped
Active == {r \in Incoming : stage[r] \notin {"new", "answered"}}

-----------------------------------------------------------------------------
(* main: registration, the listener, WaitForSignals.                       *)

Bug_Registration == <<"server", "pool">>
Registration == <<"pool", "server">>

MainRegisters ==
    /\ Alive
    /\ Len(hooks) < Len(Registration)
    /\ Life!register(Registration[Len(hooks) + 1])
    /\ UNCHANGED <<poolVars, httpVars>>

Wired == Len(hooks) = Len(Registration)

Listens ==
    /\ Alive /\ Wired
    /\ srv = "new"
    /\ srv' = "serving"
    /\ UNCHANGED <<poolVars, lifeVars, shape, stage, out, crashed>>

(* ListenAndServe fails for another reason than Shutdown.                  *)
ListenFails ==
    /\ Alive /\ Wired
    /\ srv \in {"new", "serving"}
    /\ srv' = "failed"
    /\ Life!trigger
    /\ UNCHANGED <<poolVars, shape, stage, out, crashed>>

MainWaits ==
    /\ Alive /\ Wired
    /\ Life!WaitEnters("main") \/ Life!WaitWakes("main")
    /\ UNCHANGED <<poolVars, httpVars>>

SignalArrives ==
    /\ Alive
    /\ Life!Signal
    /\ UNCHANGED <<poolVars, httpVars>>

(* One context carries the grace period to both hooks.                     *)
GraceExpires ==
    /\ Alive
    /\ Life!Expires("main")
    /\ Pool!ExpireClose("main")
    /\ UNCHANGED httpVars

-----------------------------------------------------------------------------
(* The hooks, run by WaitForSignals.                                       *)

Hook == Life!NextHook("main")

MainShutsDown ==
    /\ Alive
    /\ Life!ShutdownStarts("main") \/ Life!ShutdownPublishes("main") \/ Life!ShutdownFinishes("main")
    /\ UNCHANGED <<poolVars, httpVars>>

(* Server.Shutdown closes the listener at once.                            *)
HookStarts ==
    /\ Alive
    /\ Life!HookStarts("main")
    /\ srv' = IF Hook = "server" THEN "closed" ELSE srv
    /\ UNCHANGED <<poolVars, shape, stage, out, crashed>>

Bug_ServerDone == TRUE
ServerDone == Active = {}

HookSucceeds ==
    /\ Alive
    /\ Life!HookSucceeds("main")
    /\ Hook = "server" => ServerDone
    /\ Hook = "pool" => closer["main"] = "nil"
    /\ UNCHANGED <<poolVars, httpVars>>

HookFails ==
    /\ Alive
    /\ Life!HookFails("main")
    /\ Hook = "server" => "main" \in done
    /\ Hook = "pool" => closer["main"] = "ctxErr"
    /\ UNCHANGED <<poolVars, httpVars>>

PoolCloses ==
    /\ Alive
    /\ pc["main"] = "inHook" /\ Hook = "pool"
    /\ Pool!CloseLock("main") \/ Pool!Close("main")
    /\ UNCHANGED <<lifeVars, httpVars>>

-----------------------------------------------------------------------------
(* The pool at work *)

PoolAdmits(t) ==
    /\ Alive
    /\ Pool!Submit(t)
    /\ UNCHANGED <<lifeVars, httpVars>>

PoolLoops(w) ==
    /\ Alive
    /\ Pool!WorkerTake(w) \/ Pool!WorkerPark(w) \/ Pool!WorkerExit(w)
    /\ UNCHANGED <<lifeVars, httpVars>>

PoolRuns(w) ==
    /\ Alive
    /\ Pool!TaskReturns(w) \/ Pool!TaskPanics(w)
    /\ UNCHANGED <<lifeVars, httpVars>>

-----------------------------------------------------------------------------
(* Requests *)

Arrives(r) ==
    /\ Alive
    /\ srv = "serving"
    /\ stage[r] = "new"
    /\ stage' = [stage EXCEPT ![r] = "arrived"]
    /\ UNCHANGED <<poolVars, lifeVars, srv, shape, out, crashed>>

Answer(r, o) ==
    /\ stage' = [stage EXCEPT ![r] = "answered"]
    /\ out' = [out EXCEPT ![r] = o]
    /\ UNCHANGED <<lifeVars, srv, shape, crashed>>

(* The mux knows POST /orders only.                                        *)
Routed(req) == ~req.preflight /\ req.route = "order"
MuxStatus(req) == IF req.route = "order" THEN 405 ELSE 404

(* What the limiter, Cors and the mux answer without the handler.          *)
Shed(r) ==
    /\ Alive
    /\ r \in Requests /\ stage[r] = "arrived"
    /\ Answer(r, Chain(shape[r], FALSE, Outcome(0, "no")))
    /\ UNCHANGED poolVars

NotRouted(r) ==
    /\ Alive
    /\ r \in Requests /\ stage[r] = "arrived"
    /\ ~Routed(shape[r])
    /\ Answer(r, Chain(shape[r], TRUE, Outcome(MuxStatus(shape[r]), "no")))
    /\ UNCHANGED poolVars

(* createOrder and the readiness probe submit to the pool.                 *)
Submits(r) ==
    /\ Alive
    /\ stage[r] = "arrived"
    /\ r \in Requests => Routed(shape[r])
    /\ stage' = [stage EXCEPT ![r] = "submitted"]
    /\ Pool!SubmitCalled(r)
    /\ UNCHANGED <<lifeVars, srv, shape, out, crashed>>

Settled(r) == stage[r] = "submitted" /\ task[r] \notin Pool!Submitting

OrderStatus(r) == IF task[r] \in Pool!Accepted THEN 202 ELSE 503

OrderAnswered(r) ==
    /\ Alive
    /\ r \in Requests /\ Settled(r)
    /\ Answer(r, Chain(shape[r], TRUE, Outcome(OrderStatus(r), "no")))
    /\ UNCHANGED poolVars

(* The handler panics, before or after it has written.                     *)
HandlerPanics(r) ==
    /\ Alive
    /\ r \in PanicRequests /\ Settled(r)
    /\ \E status \in {0, OrderStatus(r)}, panic \in {"value", "abort"} :
          Answer(r, Chain(shape[r], TRUE, Outcome(status, panic)))
    /\ UNCHANGED poolVars

(* health.Handler waits for its one check; only Recoverer is around it.    *)
ProbeStatus(p) == IF task[p] \in Pool!Accepted THEN 200 ELSE 503

ProbeAnswered(p) ==
    /\ Alive
    /\ p \in Probes /\ Settled(p)
    /\ Answer(p, Recoverer(Outcome(ProbeStatus(p), "no")))
    /\ UNCHANGED poolVars

(* The check runs on a goroutine of its own, out of Recoverer's reach.     *)
ProbePanics(p) ==
    /\ Alive
    /\ p \in PanicProbes /\ Settled(p)
    /\ crashed' = TRUE
    /\ UNCHANGED <<poolVars, lifeVars, srv, shape, stage, out>>

-----------------------------------------------------------------------------
Main == MainRegisters \/ MainShutsDown \/ HookStarts \/ HookSucceeds \/ HookFails \/ PoolCloses

Next ==
    \/ Main \/ MainWaits \/ Listens \/ ListenFails \/ SignalArrives \/ GraceExpires
    \/ \E w \in Workers : PoolLoops(w) \/ PoolRuns(w)
    \/ \E r \in Incoming :
          \/ PoolAdmits(r) \/ Arrives(r) \/ Shed(r) \/ NotRouted(r) \/ Submits(r)
          \/ OrderAnswered(r) \/ HandlerPanics(r) \/ ProbeAnswered(r) \/ ProbePanics(r)

Spec == Init /\ [][Next]_vars

(* Goroutines of the library are scheduled and the grace period runs out;  *)
(* neither a request's goroutine nor a task has to get anywhere.           *)
Fairness ==
    /\ WF_vars(Main) /\ WF_vars(MainWaits) /\ WF_vars(GraceExpires)
    /\ \A r \in Incoming : WF_vars(PoolAdmits(r))
    /\ \A w \in Workers : WF_vars(PoolLoops(w))

FairSpec == Spec /\ Fairness

-----------------------------------------------------------------------------
Failed(h) == \E i \in 1..Len(failed) : failed[i] = h

(* "Stopping the server first means no new request can enqueue work while  *)
(* the pool drains": an order or a probe meets the closed pool only if the *)
(* server's Shutdown gave up on it when the grace period ended.            *)
NoRequestMeetsClosedPool ==
    \A r \in Incoming : task[r] = "ErrClosed" => Failed("server")

(* "By here the listener is closed and the pool is drained": true when no  *)
(* hook failed.  Every request that arrived was answered, and every order  *)
(* that was accepted, with a 202 or with a panic after it, has been run.   *)
StoppedClean ==
    Stopped /\ failed = <<>> =>
        /\ srv = "closed" /\ Active = {}
        /\ \A r \in Incoming : task[r] \in {"new", "done", "ErrQueueFull"}
        /\ Pool!AllExited

(* The access log and the metrics agree with what the client was sent,     *)
(* 429s, 404s, 405s and preflights included, unless the handler panicked.  *)
(* Such a request is not counted, though the recorder's comment says "for  *)
(* every request", and its line comes before the 500, though Recoverer's   *)
(* asks to be innermost: nothing is claimed of either.  Every request has  *)
(* its line, and it carries the id that was echoed to the client.          *)
RecordsAgree ==
    \A r \in Requests : stage[r] = "answered" =>
        LET o == out[r] IN
        /\ ~o.panicLine /\ o.panic = "no" => o.logged = o.status /\ o.counted = o.status
        /\ o.logged # 0 /\ o.lineId = o.idHeader

(* "The first argument bounds the entire shutdown sequence", and "Trigger  *)
(* unblocks WaitForSignals exactly as a signal would": a signal or a       *)
(* listener that fails ends the process, though requests and tasks hang.   *)
StopRequestStops == ("main" \in signaled \/ srv = "failed") ~> ~Alive
=============================================================================
