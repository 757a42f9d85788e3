---------------------------- MODULE ServiceProofs ----------------------------
(***************************************************************************)
(* For any number of requests, probes, workers and any queue size.  Inside *)
(* the service the pool and the coordinator behave as WorkerPool and       *)
(* Lifecycle specify, so the invariants proved of those modules hold here; *)
(* what the service adds is the order of its two hooks and the chain its   *)
(* responses go through.                                                   *)
(***************************************************************************)
EXTENDS Service, SequenceTheorems, TLAPS

(* The two components once more, with their proofs.                        *)
P == INSTANCE WorkerPoolProofs WITH
    Tasks <- Requests \cup Probes, Closers <- {"main"}, NonBlock <- TRUE, PanicHandler <- TRUE,
    LongTasks <- {}, PanicTasks <- PanicRequests, done <- expired, fault <- poolFault

L == INSTANCE LifecycleProofs WITH
    Hooks <- {"pool", "server"}, Direct <- {}, Waiters <- {"main"}, HasTimeout <- TRUE,
    LongHooks <- {}, PanicHooks <- {}, fault <- lifeFault

-----------------------------------------------------------------------------
(* The instances with and without proofs are the same specifications, and  *)
(* the assumptions of the components hold of the service.                  *)

LEMMA SamePool ==
    /\ Pool!Init => P!Init
    /\ [Pool!Next]_(Pool!vars) => [P!Next]_(P!vars)
  <1>1. Pool!Init => P!Init
    BY DEF Pool!Init, P!Init
  <1>2. [Pool!Next]_(Pool!vars) => [P!Next]_(P!vars)
    BY DEF
         Pool!Next, Pool!SubmitCalled, Pool!Submit, Pool!SubmitRLock, Pool!SubmitSend,
         Pool!SubmitRefused, Pool!CancelSubmit, Pool!CloseLock, Pool!Close, Pool!CloseQueue,
         Pool!CloseDrained, Pool!CloseExpired, Pool!ExpireClose, Pool!Worker,
         Pool!WorkerTake, Pool!WorkerPark, Pool!WorkerExit, Pool!TaskReturns,
         Pool!TaskPanics, Pool!Ends, Pool!Up, Pool!WriterPending, Pool!Admission,
         Pool!CanSend, Pool!Parked, Pool!NoSend, Pool!NoReaders, Pool!Readers,
         Pool!AllExited, Pool!Drained, Pool!Submitting, Pool!vars, P!Next, P!SubmitCalled,
         P!Submit, P!SubmitRLock, P!SubmitSend, P!SubmitRefused, P!CancelSubmit,
         P!CloseLock, P!Close, P!CloseQueue, P!CloseDrained, P!CloseExpired, P!ExpireClose,
         P!Worker, P!WorkerTake, P!WorkerPark, P!WorkerExit, P!TaskReturns, P!TaskPanics,
         P!Ends, P!Up, P!WriterPending, P!Admission, P!CanSend, P!Parked, P!NoSend,
         P!NoReaders, P!Readers, P!AllExited, P!Drained, P!Submitting, P!vars
  <1> QED
    BY <1>1, <1>2

LEMMA SameLife ==
    /\ Life!Init => L!Init
    /\ [Life!Next]_(Life!vars) => [L!Next]_(L!vars)
  <1>1. Life!Init => L!Init
    BY DEF Life!Init, L!Init, Life!Callers, L!Callers
  <1>2. [Life!Next]_(Life!vars) => [L!Next]_(L!vars)
    BY DEF
         Life!Next, Life!register, Life!registerPanics, Life!trigger, Life!WaitEnters,
         Life!Signal, Life!WaitWakes, Life!Woken, Life!ShutdownCalled, Life!shutdown,
         Life!ShutdownStarts, Life!ShutdownJoins, Life!First, Life!MayRegister,
         Life!HookStarts, Life!NextHook, Life!MayReturn, Life!HookReturns,
         Life!HookSucceeds, Life!HookFails, Life!AfterFailure, Life!HookPanics,
         Life!ShutdownPublishes, Life!ShutdownFinishes, Life!closeFinished,
         Life!JoinReturns, Life!Cancel, Life!Expires, Life!Callers, Life!Up,
         Life!coordinator, Life!locals, Life!vars, L!Next, L!register, L!registerPanics,
         L!trigger, L!WaitEnters, L!Signal, L!WaitWakes, L!Woken, L!ShutdownCalled,
         L!shutdown, L!ShutdownStarts, L!ShutdownJoins, L!First, L!MayRegister,
         L!HookStarts, L!NextHook, L!MayReturn, L!HookReturns, L!HookSucceeds, L!HookFails,
         L!AfterFailure, L!HookPanics, L!ShutdownPublishes, L!ShutdownFinishes,
         L!closeFinished, L!JoinReturns, L!Cancel, L!Expires, L!Callers, L!Up,
         L!coordinator, L!locals, L!vars
  <1> QED
    BY <1>1, <1>2

LEMMA PoolInductive ==
    /\ Pool!Init => P!Inv
    /\ P!Inv /\ [Pool!Next]_(Pool!vars) => P!Inv'
  <1>1. /\ Workers # {} /\ QueueSize \in Nat
        /\ TRUE \in BOOLEAN /\ TRUE \in BOOLEAN
        /\ (Requests \cup Probes) \cap {"idle", "parked", "exited"} = {}
    BY PoolAssumption
  <1>2. P!Init => P!Inv
    BY <1>1, P!InitInv
  <1>3. P!Inv /\ [P!Next]_(P!vars) => P!Inv'
    BY <1>1, P!NextInv
  <1> QED
    BY <1>2, <1>3, SamePool

LEMMA LifeInductive ==
    /\ Life!Init => L!Inv
    /\ L!Inv /\ [Life!Next]_(Life!vars) => L!Inv'
  <1>1. TRUE \in BOOLEAN /\ {} \cap {"main"} = {}
    OBVIOUS
  <1>2. L!Init => L!Inv
    BY <1>1, L!InitInv
  <1>3. L!Inv /\ [L!Next]_(L!vars) => L!Inv'
    BY <1>1, L!NextInv
  <1> QED
    BY <1>2, <1>3, SameLife

-----------------------------------------------------------------------------
(* The service implements its components *)

LEMMA PoolStep == [Next]_vars => [Pool!Next]_(Pool!vars)
  <1> SUFFICES ASSUME [Next]_vars PROVE [Pool!Next]_(Pool!vars)
    OBVIOUS
  <1>0. UNCHANGED poolVars => UNCHANGED Pool!vars
    BY DEF poolVars, Pool!vars
  <1>1. ASSUME MainRegisters \/ MainShutsDown \/ HookStarts \/ HookSucceeds \/ HookFails
               \/ MainWaits \/ Listens \/ ListenFails \/ SignalArrives
        PROVE  UNCHANGED poolVars
    BY <1>1 DEF MainRegisters, MainShutsDown, HookStarts, HookSucceeds, HookFails, MainWaits,
       Listens, ListenFails, SignalArrives
  <1>2. PoolCloses => Pool!Next
    BY DEF PoolCloses, Pool!Next
  <1>3. GraceExpires => Pool!Next
    BY DEF GraceExpires, Pool!Next
  <1>4. ASSUME NEW w \in Workers, PoolLoops(w) \/ PoolRuns(w) PROVE Pool!Next
    BY <1>4 DEF PoolLoops, PoolRuns, Pool!Next, Pool!Worker
  <1>5. ASSUME NEW r \in Incoming, PoolAdmits(r) \/ Submits(r) PROVE Pool!Next
    BY <1>5 DEF PoolAdmits, Submits, Pool!Next, Incoming
  <1>6. ASSUME NEW r \in Incoming, Arrives(r) \/ Shed(r) \/ NotRouted(r) \/ OrderAnswered(r)
                                   \/ HandlerPanics(r) \/ ProbeAnswered(r) \/ ProbePanics(r)
        PROVE  UNCHANGED poolVars
    BY <1>6 DEF Arrives, Shed, NotRouted, OrderAnswered, HandlerPanics, ProbeAnswered, ProbePanics
  <1>7. UNCHANGED vars => UNCHANGED poolVars
    BY DEF vars
  <1> QED
    BY <1>0, <1>1, <1>2, <1>3, <1>4, <1>5, <1>6, <1>7 DEF Next, Main

LEMMA LifeStep == L!Inv /\ [Next]_vars => [Life!Next]_(Life!vars)
  <1> SUFFICES ASSUME L!Inv, [Next]_vars PROVE [Life!Next]_(Life!vars)
    OBVIOUS
  <1>0. UNCHANGED lifeVars => UNCHANGED Life!vars
    BY DEF lifeVars, Life!vars, Life!coordinator, Life!locals
  <1>1. MainRegisters => Life!Next
    <2> SUFFICES ASSUME MainRegisters PROVE Life!Next
      OBVIOUS
    <2>1. Life!register(Registration[Len(hooks) + 1]) /\ Len(hooks) < 2
      BY DEF MainRegisters, Registration
    <2>2. Len(hooks) \in Nat
      BY LenProperties DEF L!Inv, L!TypeOK
    <2>3. Registration[Len(hooks) + 1] \in {"pool", "server"}
      BY <2>1, <2>2 DEF Registration
    <2> QED
      BY <2>1, <2>3 DEF Life!Next
  <1>2. MainWaits => Life!Next
    BY DEF MainWaits, Life!Next
  <1>3. SignalArrives => Life!Next
    BY DEF SignalArrives, Life!Next
  <1>4. GraceExpires => Life!Next
    BY DEF GraceExpires, Life!Next
  <1>5. ListenFails => Life!Next
    BY DEF ListenFails, Life!Next
  <1>6. Life!shutdown("main") => Life!Next
    BY DEF Life!Next, Life!Callers
  <1>7. MainShutsDown \/ HookStarts \/ HookSucceeds \/ HookFails => Life!shutdown("main")
    BY DEF MainShutsDown, HookStarts, HookSucceeds, HookFails, Life!shutdown, Life!HookReturns
  <1>8. Listens \/ PoolCloses => UNCHANGED lifeVars
    BY DEF Listens, PoolCloses
  <1>9. ASSUME NEW w \in Workers, PoolLoops(w) \/ PoolRuns(w) PROVE UNCHANGED lifeVars
    BY <1>9 DEF PoolLoops, PoolRuns
  <1>10. ASSUME NEW r \in Incoming, PoolAdmits(r) \/ Submits(r) \/ Arrives(r) \/ Shed(r) \/ NotRouted(r)
                       \/ OrderAnswered(r) \/ HandlerPanics(r) \/ ProbeAnswered(r) \/ ProbePanics(r)
        PROVE  UNCHANGED lifeVars
    BY <1>10 DEF PoolAdmits, Submits, Arrives, Shed, NotRouted, OrderAnswered, HandlerPanics,
       ProbeAnswered, ProbePanics, Answer
  <1>11. UNCHANGED vars => UNCHANGED lifeVars
    BY DEF vars
  <1> QED
    BY <1>0, <1>1, <1>2, <1>3, <1>4, <1>5, <1>6, <1>7, <1>8, <1>9, <1>10, <1>11 DEF Next, Main

(* The invariants of the components hold in the service.                   *)
LEMMA SpecComponents == Spec => [](P!Inv /\ L!Inv)
  <1>1. Init => P!Inv /\ L!Inv
    BY PoolInductive, LifeInductive DEF Init
  <1>2. P!Inv /\ L!Inv /\ [Next]_vars => P!Inv' /\ L!Inv'
    BY PoolInductive, LifeInductive, PoolStep, LifeStep
  <1> QED
    BY <1>1, <1>2, PTL DEF Spec

(* The pool the handlers, the probes and the shutdown hook share is driven *)
(* only through Submit and Close: it behaves as WorkerPool specifies.      *)
THEOREM ServiceRunsWorkerPool == Spec => Pool!Spec
  <1>1. Init => Pool!Init
    BY DEF Init
  <1> QED
    BY <1>1, PoolStep, PTL DEF Spec, Pool!Spec

(* main drives the coordinator only through Register, Trigger and          *)
(* WaitForSignals: it behaves as Lifecycle specifies.                      *)
THEOREM ServiceRunsLifecycle == Spec => Life!Spec
  <1>1. Init => Life!Init
    BY DEF Init
  <1> QED
    BY <1>1, LifeStep, SpecComponents, PTL DEF Spec, Life!Spec

-----------------------------------------------------------------------------
(* Requests and tasks *)

Stages == {"new", "arrived", "submitted", "answered"}

(* A task exists once its request has submitted it, and its Submit call    *)
(* returns before the request is answered.  Submit does not block, so it   *)
(* never returns a context's error.                                        *)
TaskStage ==
    /\ stage \in [Incoming -> Stages]
    /\ \A r \in Incoming :
          /\ task[r] # "new" => stage[r] \in {"submitted", "answered"}
          /\ task[r] \in {"calling", "admitting"} => stage[r] = "submitted"
          /\ task[r] # "ctxErr"

(* What a step of the pool does to a task that is not being submitted.     *)
LEMMA TaskMoves ==
    ASSUME P!Inv, NEW r \in Incoming,
           \/ \E t \in Incoming : PoolAdmits(t)
           \/ \E w \in Workers : PoolLoops(w) \/ PoolRuns(w)
           \/ PoolCloses
    PROVE  \/ task'[r] = task[r]
           \/ task[r] \in {"calling", "admitting"} /\ task'[r] = "admitting"
           \/ task[r] = "calling" /\ closed /\ task'[r] = "ErrClosed"
           \/ task[r] # "new" /\ task'[r] \in {"queued", "running", "done", "ErrQueueFull"}
  <1>0. /\ task \in [Incoming -> P!TaskStates]
        /\ \A i \in 1..Len(queue) : queue[i] \in Incoming /\ task[queue[i]] = "queued"
        /\ \A w \in Workers : worker[w] \in Incoming => task[worker[w]] = "running"
        /\ queue \in Seq(Incoming)
    <2>1. task \in [Incoming -> P!TaskStates] /\ queue \in Seq(Incoming)
      BY DEF P!Inv, P!TypeOK, Incoming
    <2>2. \A i \in 1..Len(queue) : queue[i] \in Incoming
      BY <2>1, ElementOfSeq
    <2>3. \A i \in 1..Len(queue) : task[queue[i]] = "queued"
      BY <2>2 DEF P!Inv, P!OneHome, P!QueuedOnce, Incoming
    <2>4. \A w \in Workers : worker[w] \in Incoming => task[worker[w]] = "running"
      BY DEF P!Inv, P!OneHome, P!RunningOnce, Incoming
    <2> QED
      BY <2>1, <2>2, <2>3, <2>4
  <1>1. ASSUME NEW t \in Incoming, PoolAdmits(t)
        PROVE  \/ task'[r] = task[r]
               \/ task[r] \in {"calling", "admitting"} /\ task'[r] = "admitting"
               \/ task[r] = "calling" /\ closed /\ task'[r] = "ErrClosed"
               \/ task[r] # "new" /\ task'[r] \in {"queued", "running", "done", "ErrQueueFull"}
    <2>1. CASE Pool!SubmitRLock(t)
      BY <1>0, <2>1 DEF Pool!SubmitRLock, Pool!Admission
    <2>2. CASE Pool!SubmitSend(t)
      BY <1>0, <2>2 DEF Pool!SubmitSend
    <2>3. CASE Pool!SubmitRefused(t)
      BY <1>0, <2>3 DEF Pool!SubmitRefused
    <2> QED
      BY <1>1, <2>1, <2>2, <2>3 DEF PoolAdmits, Pool!Submit
  <1>2. ASSUME NEW w \in Workers, PoolLoops(w)
        PROVE  \/ task'[r] = task[r]
               \/ task[r] # "new" /\ task'[r] = "running"
    <2>1. CASE Pool!WorkerTake(w)
      <3>1. queue # <<>> /\ task' = [task EXCEPT ![Head(queue)] = "running"]
        BY <2>1 DEF Pool!WorkerTake
      <3>2. Head(queue) = queue[1] /\ 1 \in 1..Len(queue)
        BY <1>0, <3>1, LenProperties, EmptySeq, HeadTailProperties
      <3> QED
        BY <1>0, <3>1, <3>2
    <2>2. CASE Pool!WorkerPark(w) \/ Pool!WorkerExit(w)
      BY <2>2 DEF Pool!WorkerPark, Pool!WorkerExit
    <2> QED
      BY <1>2, <2>1, <2>2 DEF PoolLoops
  <1>3. ASSUME NEW w \in Workers, PoolRuns(w)
        PROVE  \/ task'[r] = task[r]
               \/ task[r] # "new" /\ task'[r] = "done"
    <2>1. worker[w] \in Incoming /\ task' = [task EXCEPT ![worker[w]] = "done"]
      BY <1>3 DEF PoolRuns, Pool!TaskReturns, Pool!TaskPanics, Pool!Ends, Incoming
    <2> QED
      BY <1>0, <2>1
  <1>4. PoolCloses => UNCHANGED task
    BY DEF PoolCloses, Pool!CloseLock, Pool!Close, Pool!CloseQueue, Pool!CloseDrained, Pool!CloseExpired
  <1> QED
    BY <1>1, <1>2, <1>3, <1>4

(* The steps by what they do to requests and tasks.                        *)
Quiet == UNCHANGED <<task, stage>>
PoolMoves ==
    /\ UNCHANGED stage
    /\ \/ \E t \in Incoming : PoolAdmits(t)
       \/ \E w \in Workers : PoolLoops(w) \/ PoolRuns(w)
       \/ PoolCloses
Answers(r) ==
    /\ UNCHANGED task
    /\ stage[r] = "arrived" \/ Settled(r)
    /\ stage' = [stage EXCEPT ![r] = "answered"]

LEMMA RequestSteps ==
    ASSUME [Next]_vars
    PROVE  \/ Quiet \/ PoolMoves
           \/ \E r \in Incoming : Arrives(r) \/ Submits(r) \/ Answers(r)
  <1>1. MainRegisters \/ MainShutsDown \/ HookStarts \/ HookSucceeds \/ HookFails \/ MainWaits
            \/ Listens \/ ListenFails \/ SignalArrives \/ UNCHANGED vars => Quiet
    BY DEF MainRegisters, MainShutsDown, HookStarts, HookSucceeds, HookFails, MainWaits,
       Listens, ListenFails, SignalArrives, vars, poolVars, httpVars, Quiet
  <1>2. PoolCloses => PoolMoves
    BY DEF PoolCloses, PoolMoves, httpVars
  <1>3. GraceExpires => Quiet
    BY DEF GraceExpires, Pool!ExpireClose, httpVars, Quiet
  <1>4. ASSUME NEW w \in Workers, PoolLoops(w) \/ PoolRuns(w) PROVE PoolMoves
    BY <1>4 DEF PoolLoops, PoolRuns, PoolMoves, httpVars
  <1>5. ASSUME NEW r \in Incoming, PoolAdmits(r) PROVE PoolMoves
    BY <1>5 DEF PoolAdmits, PoolMoves, httpVars
  <1>6. ASSUME NEW r \in Incoming, Shed(r) \/ NotRouted(r) \/ OrderAnswered(r) \/ HandlerPanics(r)
                                   \/ ProbeAnswered(r)
        PROVE  Answers(r)
    BY <1>6 DEF Shed, NotRouted, OrderAnswered, HandlerPanics, ProbeAnswered, Answer, Answers, poolVars
  <1>7. ASSUME NEW r \in Incoming, ProbePanics(r) PROVE Quiet
    BY <1>7 DEF ProbePanics, poolVars, Quiet
  <1> QED
    BY <1>1, <1>2, <1>3, <1>4, <1>5, <1>6, <1>7 DEF Next, Main

LEMMA NextTaskStage == P!Inv /\ TaskStage /\ [Next]_vars => TaskStage'
  <1> SUFFICES ASSUME P!Inv, TaskStage, [Next]_vars PROVE TaskStage'
    OBVIOUS
  <1>0. stage \in [Incoming -> Stages] /\ task \in [Incoming -> P!TaskStates]
    BY DEF TaskStage, P!Inv, P!TypeOK, Incoming
  <1>1. CASE Quiet
    BY <1>1 DEF Quiet, TaskStage
  <1>2. CASE PoolMoves
    <2>1. UNCHANGED stage
      BY <1>2 DEF PoolMoves
    <2>2. ASSUME NEW r \in Incoming
          PROVE  \/ task'[r] = task[r]
                 \/ task[r] \in {"calling", "admitting"} /\ task'[r] = "admitting"
                 \/ task[r] = "calling" /\ closed /\ task'[r] = "ErrClosed"
                 \/ task[r] # "new" /\ task'[r] \in {"queued", "running", "done", "ErrQueueFull"}
      BY <1>2, TaskMoves DEF PoolMoves
    <2> QED
      BY <2>1, <2>2 DEF TaskStage
  <1>3. ASSUME NEW r \in Incoming, Arrives(r) PROVE TaskStage'
    <2>1. /\ stage[r] = "new" /\ stage' = [stage EXCEPT ![r] = "arrived"] /\ UNCHANGED task
      BY <1>3 DEF Arrives, poolVars
    <2>2. stage' \in [Incoming -> Stages] /\ stage'[r] = "arrived"
          /\ \A q \in Incoming \ {r} : stage'[q] = stage[q]
      BY <1>0, <2>1 DEF Stages
    <2> QED
      BY <2>1, <2>2 DEF TaskStage
  <1>4. ASSUME NEW r \in Incoming, Submits(r) PROVE TaskStage'
    <2>1. /\ stage' = [stage EXCEPT ![r] = "submitted"] /\ task' = [task EXCEPT ![r] = "calling"]
      BY <1>4 DEF Submits, Pool!SubmitCalled
    <2>2. stage' \in [Incoming -> Stages] /\ stage'[r] = "submitted" /\ task'[r] = "calling"
          /\ \A q \in Incoming \ {r} : stage'[q] = stage[q] /\ task'[q] = task[q]
      BY <1>0, <2>1 DEF Stages
    <2> QED
      BY <2>2 DEF TaskStage
  <1>5. ASSUME NEW r \in Incoming, Answers(r) PROVE TaskStage'
    <2>1. stage' = [stage EXCEPT ![r] = "answered"] /\ UNCHANGED task
      BY <1>5 DEF Answers
    <2>2. task[r] \notin {"calling", "admitting"}
      BY <1>5 DEF Answers, Settled, Pool!Submitting, TaskStage
    <2>3. stage' \in [Incoming -> Stages] /\ stage'[r] = "answered"
          /\ \A q \in Incoming \ {r} : stage'[q] = stage[q]
      BY <1>0, <2>1 DEF Stages
    <2> QED
      BY <2>1, <2>2, <2>3 DEF TaskStage
  <1> QED
    BY <1>1, <1>2, <1>3, <1>4, <1>5, RequestSteps

-----------------------------------------------------------------------------
(* The order of the shutdown *)

(* main registers the pool before the server, and waits after both.        *)
HooksWired ==
    /\ Len(hooks) <= 2
    /\ \A i \in 1..Len(hooks) : hooks[i] = Registration[i]
    /\ pc["main"] # "idle" => Len(hooks) = 2

(* The server's hook, the first to run, has returned; the pool's has, too. *)
ServerOver == Len(ran) = 2 \/ (Len(ran) = 1 /\ pc["main"] # "inHook")
PoolOver == Len(ran) = 2 /\ pc["main"] # "inHook"

(* Shutdown closes the listener before it waits, and returns nil only when *)
(* no request is left; the pool is not closed before its own hook runs.    *)
StopOrder ==
    /\ Len(ran) >= 1 => srv = "closed"
    /\ ServerOver => Active = {} \/ Failed("server")
    /\ Len(ran) < 2 => closer["main"] = "idle"
    /\ PoolOver => closer["main"] = "nil" \/ Failed("pool")
    /\ closed => closer["main"] # "idle"

(* TypeOK of the two components, as far as the argument needs it.          *)
LEMMA LifeTypes ==
    ASSUME L!Inv
    PROVE  /\ hooks \in Seq({"pool", "server"}) /\ Len(hooks) \in Nat
           /\ ran \in Seq({"pool", "server"}) /\ Len(ran) \in Nat /\ Len(ran) <= Len(hooks)
           /\ failed \in Seq({"pool", "server"})
           /\ DOMAIN pc = {"main"} /\ idx["main"] \in Nat
  <1>1. /\ hooks \in Seq({"pool", "server"}) /\ ran \in Seq({"pool", "server"})
        /\ failed \in Seq({"pool", "server"}) /\ DOMAIN pc = {"main"} /\ idx["main"] \in Nat
    BY DEF L!Inv, L!TypeOK, L!Callers
  <1>2. Len(ran) <= Len(hooks)
    BY DEF L!Inv, L!ReverseOrder
  <1> QED
    BY <1>1, <1>2, LenProperties

LEMMA TwoHooks ==
    ASSUME NEW n \in Nat, NEW i \in Nat
    PROVE  /\ n + i = 2 /\ i > 0 => (n = 0 /\ i = 2) \/ (n = 1 /\ i = 1)
           /\ n + i = 2 + 1 /\ i \in 1..2 => (n = 1 /\ i = 2) \/ (n = 2 /\ i = 1)
  OBVIOUS

(* Which hook the index of the coordinator stands at.                      *)
LEMMA HookFacts ==
    ASSUME L!Inv, HooksWired
    PROVE  /\ pc["main"] = "running" /\ idx["main"] > 0 =>
                 /\ Len(ran) \in {0, 1}
                 /\ Hook = IF Len(ran) = 0 THEN "server" ELSE "pool"
           /\ pc["main"] = "inHook" =>
                 /\ Len(ran) \in {1, 2}
                 /\ Hook = IF Len(ran) = 1 THEN "server" ELSE "pool"
  <1>1. "main" \in L!Callers
    BY DEF L!Callers
  <1>2. /\ pc["main"] \in {"running", "inHook"} => snap["main"] = hooks
        /\ pc["main"] = "running" => Len(ran) + idx["main"] = Len(hooks)
        /\ pc["main"] = "inHook" =>
              Len(ran) + idx["main"] = Len(hooks) + 1 /\ idx["main"] \in 1..Len(hooks)
    BY <1>1 DEF L!Inv, L!RunnerIndex, L!Active
  <1>3. pc["main"] \in {"running", "inHook"} =>
            /\ Len(hooks) = 2 /\ 1 \in 1..Len(hooks) /\ 2 \in 1..Len(hooks)
            /\ hooks[1] = "pool" /\ hooks[2] = "server"
    BY DEF HooksWired, Registration
  <1>4. Hook = snap["main"][idx["main"]]
    BY DEF Hook, Life!NextHook
  <1>5. ASSUME pc["main"] = "running", idx["main"] > 0
        PROVE  (Len(ran) = 0 /\ idx["main"] = 2) \/ (Len(ran) = 1 /\ idx["main"] = 1)
    <2>1. Len(ran) \in Nat /\ idx["main"] \in Nat
      BY LifeTypes
    <2>2. Len(ran) + idx["main"] = 2
      BY <1>2, <1>3, <1>5
    <2> QED
      BY <1>5, <2>1, <2>2, TwoHooks
  <1>6. ASSUME pc["main"] = "inHook"
        PROVE  (Len(ran) = 1 /\ idx["main"] = 2) \/ (Len(ran) = 2 /\ idx["main"] = 1)
    <2>1. Len(ran) \in Nat /\ idx["main"] \in Nat
      BY LifeTypes
    <2>2. Len(ran) + idx["main"] = 2 + 1 /\ idx["main"] \in 1..2
      BY <1>2, <1>3, <1>6, Zenon
    <2> QED
      BY <2>1, <2>2, TwoHooks
  <1> QED
    BY <1>2, <1>3, <1>4, <1>5, <1>6

(* An error that was returned stays returned.                              *)
LEMMA FailedKept ==
    ASSUME failed \in Seq({"pool", "server"}), NEW x \in {"pool", "server"}, failed' = Append(failed, x)
    PROVE  Failed(x)' /\ \A h : Failed(h) => Failed(h)'
  <1>1. /\ Len(failed) \in Nat /\ Len(failed') = Len(failed) + 1 /\ failed'[Len(failed) + 1] = x
        /\ \A i \in 1..Len(failed) : failed'[i] = failed[i]
    BY AppendProperties, LenProperties
  <1> QED
    BY <1>1 DEF Failed

LEMMA NextHooksWired == L!Inv /\ HooksWired /\ [Next]_vars => HooksWired'
  <1> SUFFICES ASSUME L!Inv, HooksWired, [Next]_vars PROVE HooksWired'
    OBVIOUS
  <1>1. CASE MainRegisters
    <2>1. /\ Len(hooks) < 2 /\ hooks' = Append(hooks, Registration[Len(hooks) + 1]) /\ UNCHANGED pc
      BY <1>1 DEF MainRegisters, Registration, Life!register
    <2>2. Registration[Len(hooks) + 1] \in {"pool", "server"}
      BY <2>1, LifeTypes DEF Registration
    <2>3. /\ Len(hooks') = Len(hooks) + 1 /\ \A i \in 1..Len(hooks) : hooks'[i] = hooks[i]
          /\ hooks'[Len(hooks) + 1] = Registration[Len(hooks) + 1]
      BY <2>1, <2>2, LifeTypes, AppendProperties
    <2>4. pc["main"] = "idle"
      BY <2>1 DEF HooksWired
    <2>5. \A i \in 1..(Len(hooks) + 1) : hooks'[i] = Registration[i]
      BY <2>3, LifeTypes DEF HooksWired
    <2> QED
      BY <2>1, <2>3, <2>4, <2>5, LifeTypes DEF HooksWired
  <1>2. CASE MainWaits
    <2>1. Len(hooks) = 2 /\ UNCHANGED hooks
      BY <1>2 DEF MainWaits, Wired, Registration, Life!WaitEnters, Life!WaitWakes, Life!coordinator
    <2> QED
      BY <2>1 DEF HooksWired
  <1>3. ASSUME UNCHANGED hooks, pc["main"] # "idle" \/ UNCHANGED pc PROVE HooksWired'
    BY <1>3 DEF HooksWired
  <1>4. CASE MainShutsDown
    BY <1>3, <1>4 DEF MainShutsDown, Life!ShutdownStarts, Life!ShutdownPublishes,
       Life!ShutdownFinishes
  <1>5. CASE HookStarts
    BY <1>3, <1>5 DEF HookStarts, Life!HookStarts, Life!coordinator
  <1>6. CASE HookSucceeds \/ HookFails
    BY <1>3, <1>6 DEF HookSucceeds, HookFails, Life!HookSucceeds, Life!HookFails, Life!coordinator
  <1>7. ASSUME UNCHANGED <<hooks, pc>> PROVE HooksWired'
    BY <1>3, <1>7
  <1>8. CASE PoolCloses \/ Listens
    BY <1>7, <1>8 DEF PoolCloses, Listens, lifeVars
  <1>9. CASE ListenFails \/ SignalArrives \/ GraceExpires
    BY <1>7, <1>9 DEF ListenFails, SignalArrives, GraceExpires, Life!trigger, Life!Signal,
       Life!Expires, Life!coordinator
  <1>10. ASSUME NEW w \in Workers, PoolLoops(w) \/ PoolRuns(w) PROVE HooksWired'
    BY <1>7, <1>10 DEF PoolLoops, PoolRuns, lifeVars
  <1>11. ASSUME NEW r \in Incoming, PoolAdmits(r) \/ Submits(r) \/ Arrives(r) \/ Shed(r) \/ NotRouted(r)
                       \/ OrderAnswered(r) \/ HandlerPanics(r) \/ ProbeAnswered(r) \/ ProbePanics(r)
         PROVE  HooksWired'
    BY <1>7, <1>11 DEF PoolAdmits, Submits, Arrives, Shed, NotRouted, OrderAnswered, HandlerPanics,
       ProbeAnswered, ProbePanics, Answer, lifeVars
  <1>12. UNCHANGED vars => HooksWired'
    BY <1>7 DEF vars, lifeVars
  <1> QED
    BY <1>1, <1>2, <1>4, <1>5, <1>6, <1>8, <1>9, <1>10, <1>11, <1>12 DEF Next, Main

(* A step of neither hook nor the pool's Close.                            *)
LEMMA StopFrame ==
    ASSUME StopOrder, UNCHANGED <<ran, failed, closer, closed>>,
           srv = "closed" => srv' = "closed" /\ (Active = {} => Active' = {}),
           pc'["main"] = "inHook" <=> pc["main"] = "inHook"
    PROVE  StopOrder'
  <1>1. UNCHANGED <<ServerOver, PoolOver>> /\ \A h : UNCHANGED Failed(h)
    BY DEF ServerOver, PoolOver, Failed
  <1>2. ServerOver => srv = "closed"
    BY DEF StopOrder, ServerOver
  <1> QED
    BY <1>1, <1>2 DEF StopOrder

LEMMA NextStopOrder == P!Inv /\ L!Inv /\ HooksWired /\ TaskStage /\ StopOrder /\ [Next]_vars => StopOrder'
  <1> SUFFICES ASSUME P!Inv, L!Inv, HooksWired, TaskStage, StopOrder, [Next]_vars PROVE StopOrder'
    OBVIOUS
  <1>0. stage \in [Incoming -> Stages]
    BY DEF TaskStage
  <1>1. ASSUME UNCHANGED <<pc, ran, failed, closer, closed, stage, srv>> PROVE StopOrder'
    BY <1>1, StopFrame DEF Active
  <1>2. CASE MainRegisters
    BY <1>1, <1>2 DEF MainRegisters, Life!register, poolVars, httpVars
  <1>3. CASE SignalArrives \/ GraceExpires
    BY <1>1, <1>3 DEF SignalArrives, GraceExpires, Life!Signal, Life!Expires, Pool!ExpireClose,
       poolVars, httpVars
  <1>4. CASE MainWaits \/ MainShutsDown
    <2>1. UNCHANGED <<ran, failed, closer, closed, stage, srv>>
      BY <1>4 DEF MainWaits, MainShutsDown, Life!WaitEnters, Life!WaitWakes, Life!ShutdownStarts,
         Life!ShutdownPublishes, Life!ShutdownFinishes, poolVars, httpVars
    <2>2. /\ pc["main"] \in {"idle", "selecting", "calling", "running", "publishing"}
          /\ \E l \in {"selecting", "calling", "running", "publishing", "returned"} :
                pc' = [pc EXCEPT !["main"] = l]
      BY <1>4 DEF MainWaits, MainShutsDown, Life!WaitEnters, Life!WaitWakes, Life!ShutdownStarts,
         Life!ShutdownPublishes, Life!ShutdownFinishes
    <2>3. pc["main"] # "inHook" /\ pc'["main"] # "inHook"
      BY <2>2, LifeTypes
    <2> QED
      BY <2>1, <2>3, StopFrame DEF Active
  <1>5. CASE Listens \/ ListenFails
    <2>1. srv # "closed" /\ UNCHANGED <<pc, ran, failed, closer, closed>>
      BY <1>5 DEF Listens, ListenFails, Life!trigger, poolVars, lifeVars
    <2> QED
      BY <2>1, StopFrame
  <1>6. CASE HookStarts
    <2>1. /\ pc["main"] = "running" /\ idx["main"] > 0 /\ pc' = [pc EXCEPT !["main"] = "inHook"]
          /\ ran' = Append(ran, Hook) /\ UNCHANGED <<failed, closer, closed, stage>>
          /\ srv' = IF Hook = "server" THEN "closed" ELSE srv
      BY <1>6 DEF HookStarts, Hook, Life!HookStarts, poolVars
    <2>2. Len(ran) \in {0, 1} /\ Hook = IF Len(ran) = 0 THEN "server" ELSE "pool"
      BY <2>1, HookFacts
    <2>3. Len(ran') = Len(ran) + 1 /\ pc'["main"] = "inHook"
      BY <2>1, <2>2, LifeTypes, AppendProperties
    <2>4. UNCHANGED Active /\ \A h : UNCHANGED Failed(h)
      BY <2>1 DEF Active, Failed
    <2>5. CASE Len(ran) = 0
      BY <2>1, <2>2, <2>3, <2>4, <2>5 DEF StopOrder, ServerOver, PoolOver
    <2>6. CASE Len(ran) = 1
      BY <2>1, <2>2, <2>3, <2>4, <2>6 DEF StopOrder, ServerOver, PoolOver
    <2> QED
      BY <2>2, <2>5, <2>6
  <1>7. CASE HookSucceeds \/ HookFails
    <2>1. /\ pc["main"] = "inHook" /\ pc' = [pc EXCEPT !["main"] = "running"]
          /\ UNCHANGED <<ran, closer, closed, stage, srv>>
      BY <1>7 DEF HookSucceeds, HookFails, Life!HookSucceeds, Life!HookFails, poolVars, httpVars
    <2>2. Len(ran) \in {1, 2} /\ Hook = IF Len(ran) = 1 THEN "server" ELSE "pool"
      BY <2>1, HookFacts
    <2>3. HookFails => /\ Len(ran) = 1 => Failed("server")'
                       /\ Len(ran) = 2 => Failed("pool")'
      <3>1. HookFails => failed' = Append(failed, Hook)
        BY DEF HookFails, Hook, Life!HookFails
      <3>2. failed \in Seq({"pool", "server"})
        BY LifeTypes
      <3> QED
        BY <2>2, <3>1, <3>2, FailedKept
    <2>4. \A h : Failed(h) => Failed(h)'
      <3>1. HookFails => failed' = Append(failed, Hook)
        BY DEF HookFails, Hook, Life!HookFails
      <3>2. HookSucceeds => UNCHANGED failed
        BY DEF HookSucceeds, Life!HookSucceeds
      <3>3. UNCHANGED failed => \A h : Failed(h) => Failed(h)'
        BY DEF Failed
      <3>4. failed \in Seq({"pool", "server"}) /\ Hook \in {"pool", "server"}
        BY <2>2, LifeTypes
      <3> QED
        BY <1>7, <2>2, <3>1, <3>2, <3>3, <3>4, FailedKept
    <2>5. HookSucceeds => /\ Hook = "server" => Active = {}
                          /\ Hook = "pool" => closer["main"] = "nil"
      BY DEF HookSucceeds, ServerDone
    <2>6. UNCHANGED Active /\ pc'["main"] = "running"
      BY <2>1, LifeTypes DEF Active
    <2>7. CASE Len(ran) = 1
      BY <1>7, <2>1, <2>2, <2>3, <2>4, <2>5, <2>6, <2>7 DEF StopOrder, ServerOver, PoolOver
    <2>8. CASE Len(ran) = 2
      BY <1>7, <2>1, <2>2, <2>3, <2>4, <2>5, <2>6, <2>8 DEF StopOrder, ServerOver, PoolOver
    <2> QED
      BY <2>2, <2>7, <2>8
  <1>8. CASE PoolCloses
    <2>1. /\ pc["main"] = "inHook" /\ Hook = "pool" /\ UNCHANGED <<pc, ran, failed, stage, srv>>
          /\ \E l \in {"locking", "draining", "nil", "ctxErr"} : closer' = [closer EXCEPT !["main"] = l]
      BY <1>8 DEF PoolCloses, Pool!CloseLock, Pool!Close, Pool!CloseQueue, Pool!CloseDrained,
         Pool!CloseExpired, lifeVars, httpVars
    <2>2. Len(ran) = 2
      BY <2>1, HookFacts
    <2>3. DOMAIN closer = {"main"}
      BY DEF P!Inv, P!TypeOK
    <2>4. closer'["main"] # "idle"
      BY <2>1, <2>3
    <2>5. UNCHANGED Active /\ \A h : UNCHANGED Failed(h)
      BY <2>1 DEF Active, Failed
    <2> QED
      BY <2>1, <2>2, <2>4, <2>5 DEF StopOrder, ServerOver, PoolOver
  <1>9. ASSUME NEW w \in Workers, PoolLoops(w) \/ PoolRuns(w) PROVE StopOrder'
    <2>1. UNCHANGED <<closer, closed>>
      BY <1>9 DEF PoolLoops, PoolRuns, Pool!WorkerTake, Pool!WorkerPark, Pool!WorkerExit,
         Pool!TaskReturns, Pool!TaskPanics
    <2> QED
      BY <1>1, <1>9, <2>1 DEF PoolLoops, PoolRuns, lifeVars, httpVars
  <1>10. ASSUME NEW r \in Incoming, PoolAdmits(r) PROVE StopOrder'
    <2>1. UNCHANGED <<closer, closed>>
      BY <1>10 DEF PoolAdmits, Pool!Submit, Pool!SubmitRLock, Pool!SubmitSend, Pool!SubmitRefused
    <2> QED
      BY <1>1, <1>10, <2>1 DEF PoolAdmits, lifeVars, httpVars
  <1>11. ASSUME NEW r \in Incoming, Arrives(r) PROVE StopOrder'
    <2>1. srv # "closed" /\ UNCHANGED <<pc, ran, failed, closer, closed, srv>>
      BY <1>11 DEF Arrives, poolVars, lifeVars
    <2> QED
      BY <2>1, StopFrame
  <1>12. ASSUME NEW r \in Incoming, Submits(r) \/ Shed(r) \/ NotRouted(r) \/ OrderAnswered(r)
                                    \/ HandlerPanics(r) \/ ProbeAnswered(r)
         PROVE  StopOrder'
    <2>1. UNCHANGED <<pc, ran, failed, srv>>
      BY <1>12 DEF Submits, Shed, NotRouted, OrderAnswered, HandlerPanics, ProbeAnswered, Answer, lifeVars
    <2>2. UNCHANGED <<closer, closed>>
      BY <1>12 DEF Submits, Shed, NotRouted, OrderAnswered, HandlerPanics, ProbeAnswered,
         Pool!SubmitCalled, poolVars
    <2>3. r \in Active
      BY <1>12 DEF Submits, Shed, NotRouted, OrderAnswered, HandlerPanics, ProbeAnswered, Settled, Active
    <2> QED
      BY <2>1, <2>2, <2>3, StopFrame
  <1>13. ASSUME NEW r \in Incoming, ProbePanics(r) PROVE StopOrder'
    BY <1>1, <1>13 DEF ProbePanics, poolVars, lifeVars
  <1>14. UNCHANGED vars => StopOrder'
    BY <1>1 DEF vars, poolVars, lifeVars, httpVars
  <1> QED
    BY <1>2, <1>3, <1>4, <1>5, <1>6, <1>7, <1>8, <1>9, <1>10, <1>11, <1>12, <1>13, <1>14 DEF Next, Main

(* Only a failing hook reports an error.                                   *)
LEMMA LifeFailed == ASSUME [Next]_vars PROVE UNCHANGED failed \/ HookFails
  <1>1. MainRegisters \/ MainWaits \/ SignalArrives \/ GraceExpires \/ ListenFails => UNCHANGED failed
    BY DEF MainRegisters, MainWaits, SignalArrives, GraceExpires, ListenFails, Life!register,
       Life!WaitEnters, Life!WaitWakes, Life!Signal, Life!Expires, Life!trigger
  <1>2. MainShutsDown \/ HookStarts \/ HookSucceeds => UNCHANGED failed
    BY DEF MainShutsDown, HookStarts, HookSucceeds, Life!ShutdownStarts, Life!ShutdownPublishes,
       Life!ShutdownFinishes, Life!HookStarts, Life!HookSucceeds
  <1>3. Listens \/ PoolCloses \/ UNCHANGED vars => UNCHANGED failed
    BY DEF Listens, PoolCloses, vars, lifeVars
  <1>4. ASSUME NEW w \in Workers, PoolLoops(w) \/ PoolRuns(w) PROVE UNCHANGED failed
    BY <1>4 DEF PoolLoops, PoolRuns, lifeVars
  <1>5. ASSUME NEW r \in Incoming, PoolAdmits(r) \/ Submits(r) \/ Arrives(r) \/ Shed(r) \/ NotRouted(r)
                       \/ OrderAnswered(r) \/ HandlerPanics(r) \/ ProbeAnswered(r) \/ ProbePanics(r)
        PROVE  UNCHANGED failed
    BY <1>5 DEF PoolAdmits, Submits, Arrives, Shed, NotRouted, OrderAnswered, HandlerPanics,
       ProbeAnswered, ProbePanics, Answer, lifeVars
  <1> QED
    BY <1>1, <1>2, <1>3, <1>4, <1>5 DEF Next, Main

LEMMA BothHooks ==
    ASSUME NEW n \in Nat, NEW m \in Nat, ~(n < 2), n <= m, m <= 2 PROVE n = 2
  OBVIOUS

LEMMA NextMeetsClosed ==
    P!Inv /\ L!Inv /\ HooksWired /\ TaskStage /\ StopOrder /\ NoRequestMeetsClosedPool /\ [Next]_vars
        => NoRequestMeetsClosedPool'
  <1> SUFFICES ASSUME P!Inv, L!Inv, HooksWired, TaskStage, StopOrder, NoRequestMeetsClosedPool,
                      [Next]_vars, NEW r \in Incoming, task'[r] = "ErrClosed"
               PROVE  Failed("server")'
    BY DEF NoRequestMeetsClosedPool
  <1>2. Failed("server") => Failed("server")'
    <2>1. CASE UNCHANGED failed
      BY <2>1 DEF Failed
    <2>2. CASE HookFails
      <3>1. pc["main"] = "inHook" /\ failed' = Append(failed, Hook)
        BY <2>2 DEF HookFails, Hook, Life!HookFails
      <3>2. Hook \in {"pool", "server"} /\ failed \in Seq({"pool", "server"})
        BY <3>1, HookFacts, LifeTypes
      <3> QED
        BY <3>1, <3>2, FailedKept
    <2> QED
      BY <2>1, <2>2, LifeFailed
  <1>3. CASE task[r] = "ErrClosed"
    BY <1>2, <1>3 DEF NoRequestMeetsClosedPool
  <1>4. CASE task[r] # "ErrClosed"
    (* A Submit that finds the pool closed: the server has been stopped,   *)
    (* and this request has not been answered.                             *)
    <2>1. PoolMoves
      <3>1. Quiet => UNCHANGED task
        BY DEF Quiet
      <3>2. ASSUME NEW q \in Incoming, Arrives(q) \/ Answers(q) PROVE UNCHANGED task
        BY <3>2 DEF Arrives, Answers, poolVars
      <3>3. ASSUME NEW q \in Incoming, Submits(q) PROVE task'[r] \in {task[r], "calling"}
        <4>1. task' = [task EXCEPT ![q] = "calling"] /\ DOMAIN task = Incoming
          BY <3>3 DEF Submits, Pool!SubmitCalled, P!Inv, P!TypeOK, Incoming
        <4> QED
          BY <4>1
      <3> QED
        BY <1>4, <3>1, <3>2, <3>3, RequestSteps
    <2>2. task[r] = "calling" /\ closed
      BY <1>4, <2>1, TaskMoves DEF PoolMoves
    <2>3. Len(ran) = 2
      <3>1. ~(Len(ran) < 2)
        BY <2>2 DEF StopOrder
      <3>2. Len(ran) \in Nat /\ Len(hooks) \in Nat /\ Len(ran) <= Len(hooks) /\ Len(hooks) <= 2
        BY LifeTypes DEF HooksWired
      <3> QED
        BY <3>1, <3>2, BothHooks
    <2>4. Active = {} \/ Failed("server")
      BY <2>3 DEF StopOrder, ServerOver
    <2>5. r \in Active
      BY <2>2 DEF TaskStage, Active
    <2> QED
      BY <1>2, <2>4, <2>5
  <1> QED
    BY <1>3, <1>4

-----------------------------------------------------------------------------
(* Responses *)

HttpTypes == shape \in [Requests -> Shapes] /\ DOMAIN out = Incoming

(* What each middleware makes of an outcome.                               *)
Ids == {"none", "adopted", "generated"}
Outcomes ==
    [status : Nat, panic : {"no", "value", "abort"}, idHeader : Ids, allow : {"none", "trusted"},
     vary : BOOLEAN, counted : Nat, logged : Nat, lineId : Ids, panicLine : BOOLEAN]

LEMMA MetricsFacts ==
    ASSUME NEW o \in Outcomes
    PROVE  /\ Metrics(o) \in Outcomes
           /\ Metrics(o).status = o.status /\ Metrics(o).panic = o.panic
           /\ Metrics(o).panicLine = o.panicLine
           /\ Metrics(o).counted = IF o.panic = "no" THEN Status(o) ELSE o.counted
  <1>1. Status(o) \in Nat
    BY DEF Status, Outcomes
  <1> QED
    BY <1>1 DEF Metrics, Outcomes, Ids

LEMMA LoggerFacts ==
    ASSUME NEW o \in Outcomes, NEW id \in Ids
    PROVE  /\ Logger(id, o) \in Outcomes
           /\ Logger(id, o).status = o.status /\ Logger(id, o).panic = o.panic
           /\ Logger(id, o).panicLine = o.panicLine /\ Logger(id, o).counted = o.counted
           /\ Logger(id, o).logged = Status(o) /\ Logger(id, o).lineId = id
  <1>1. Status(o) \in Nat
    BY DEF Status, Outcomes
  <1> QED
    BY <1>1 DEF Logger, Outcomes, Ids

LEMMA RequestIDFacts ==
    ASSUME NEW o \in Outcomes, NEW req
    PROVE  /\ RequestID(req, o) \in Outcomes
           /\ RequestID(req, o).status = o.status /\ RequestID(req, o).panic = o.panic
           /\ RequestID(req, o).panicLine = o.panicLine /\ RequestID(req, o).counted = o.counted
           /\ RequestID(req, o).logged = o.logged /\ RequestID(req, o).lineId = o.lineId
           /\ RequestID(req, o).idHeader = ResolvedID(req)
  <1>1. ResolvedID(req) \in Ids
    BY DEF ResolvedID, Ids
  <1> QED
    BY <1>1 DEF RequestID, Outcomes, Ids

LEMMA RecovererFacts ==
    ASSUME NEW o \in Outcomes, o.panic = "value"
    PROVE  /\ Recoverer(o).panicLine = TRUE /\ Recoverer(o).status = (IF o.status = 0 THEN 500 ELSE o.status)
           /\ Recoverer(o).counted = o.counted /\ Recoverer(o).logged = o.logged
           /\ Recoverer(o).lineId = o.lineId /\ Recoverer(o).idHeader = o.idHeader
  BY DEF Recoverer, Outcomes, Ids

(* What the limiter lets through to the recording middleware.              *)
Limited(g) ==
    /\ g \in Outcomes /\ g.counted = 0 /\ g.panicLine = FALSE
    /\ g.status \in {0, 202, 204, 404, 405, 429, 503}
    /\ g.panic = "no" => g.status # 0

(* What the chain outside the limiter makes of it: the client's response   *)
(* and the records of it.                                                  *)
Recorded(req, g) == Recoverer(RequestID(req, Logger(ResolvedID(req), Metrics(g))))

IsResponse(req, o) == \E g : Limited(g) /\ o = Recorded(req, g)

Responded == \A r \in Requests : stage[r] = "answered" => IsResponse(shape[r], out[r])

(* The header fields of Cors, written to an outcome.                       *)
Permitted(o, a) == [o EXCEPT !.allow = a, !.vary = TRUE]
Withheld(o) == [o EXCEPT !.allow = "none", !.vary = FALSE]

LEMMA PermittedFacts ==
    ASSUME NEW o \in Outcomes, NEW a \in {"none", "trusted"}, NEW w, w = Permitted(o, a)
    PROVE  /\ w \in Outcomes
           /\ w.status = o.status /\ w.panic = o.panic
           /\ w.counted = o.counted /\ w.panicLine = o.panicLine
  BY DEF Permitted, Outcomes, Ids

LEMMA WithheldFacts ==
    ASSUME NEW o \in Outcomes, NEW w, w = Withheld(o)
    PROVE  /\ w \in Outcomes
           /\ w.status = o.status /\ w.panic = o.panic
           /\ w.counted = o.counted /\ w.panicLine = o.panicLine
  BY DEF Withheld, Outcomes, Ids

(* What Cors makes of an outcome: a preflight, or what it was but for the  *)
(* fields of the header.                                                   *)
CorsOf(h, c) ==
    /\ c \in Outcomes /\ c.counted = 0 /\ c.panicLine = FALSE
    /\ \/ c.status = 204 /\ c.panic = "no"
       \/ c.status = h.status /\ c.panic = h.panic

LEMMA CorsFacts ==
    ASSUME NEW req, NEW h \in Outcomes, NEW c, c = Cors(req, h),
           h.counted = 0, h.panicLine = FALSE
    PROVE  CorsOf(h, c)
  <1>1. CASE req.origin = "none"
    <2>1. c = h
      BY <1>1 DEF Cors
    <2> QED
      BY <2>1 DEF CorsOf
  <1>2. CASE IsPreflight(req)
    <2>1. PICK p : p = Outcome(204, "no")
      OBVIOUS
    <2>2. /\ p \in Outcomes /\ p.status = 204 /\ p.panic = "no" /\ p.counted = 0
          /\ p.panicLine = FALSE
      BY <2>1 DEF Outcome, Outcomes, Ids
    <2>6. p \in Outcomes
      BY <2>2
    <2>3. c = Permitted(p, Allowed(req))
      BY <1>2, <2>1 DEF Cors, preflight, IsPreflight, Permitted
    <2>4. c = Permitted(p, "none") \/ c = Permitted(p, "trusted")
      BY <2>3 DEF Allowed
    <2>5. /\ c \in Outcomes /\ c.status = p.status /\ c.panic = p.panic
          /\ c.counted = p.counted /\ c.panicLine = p.panicLine
      <3>1. CASE c = Permitted(p, "none")
        BY <2>6, <3>1, PermittedFacts
      <3>2. CASE c = Permitted(p, "trusted")
        BY <2>6, <3>2, PermittedFacts
      <3> QED
        BY <2>4, <3>1, <3>2
    <2> QED
      BY <2>2, <2>5 DEF CorsOf
  <1>3. CASE req.origin # "none" /\ ~IsPreflight(req)
    <2>1. c = [h EXCEPT !.allow = Allowed(req), !.vary = Allowed(req) # "none"]
      BY <1>3 DEF Cors, actual
    <2>2. CASE req.origin = "trusted"
      <3>1. c = Permitted(h, "trusted") /\ "trusted" \in {"none", "trusted"}
        BY <2>1, <2>2 DEF Allowed, Permitted
      <3>2. /\ c \in Outcomes /\ c.status = h.status /\ c.panic = h.panic
            /\ c.counted = h.counted /\ c.panicLine = h.panicLine
        BY <3>1, PermittedFacts
      <3> QED
        BY <1>3, <3>2 DEF CorsOf
    <2>3. CASE req.origin # "trusted"
      <3>1. c = Withheld(h)
        BY <2>1, <2>3 DEF Allowed, Withheld
      <3>2. /\ c \in Outcomes /\ c.status = h.status /\ c.panic = h.panic
            /\ c.counted = h.counted /\ c.panicLine = h.panicLine
        BY <3>1, WithheldFacts
      <3> QED
        BY <1>3, <3>2 DEF CorsOf
    <2> QED
      BY <2>2, <2>3
  <1> QED
    BY <1>1, <1>2, <1>3 DEF IsPreflight

(* What a handler can do: write a status, or panic before or after that.   *)
CanDo(st, pn) ==
    /\ st \in {0, 202, 404, 405, 503} /\ pn \in {"no", "value", "abort"}
    /\ pn = "no" => st # 0

LEMMA HandledIsResponse ==
    ASSUME NEW req, NEW st, NEW pn, CanDo(st, pn)
    PROVE  IsResponse(req, Chain(req, TRUE, Outcome(st, pn)))
  <1>1. PICK h : h = Outcome(st, pn)
    OBVIOUS
  <1>2. /\ h \in Outcomes /\ h.status = st /\ h.panic = pn
        /\ h.counted = 0 /\ h.panicLine = FALSE
    BY <1>1 DEF Outcome, Outcomes, Ids, CanDo
  <1>3. PICK c : c = Cors(req, h)
    OBVIOUS
  <1>4. CorsOf(h, c)
    BY <1>2, <1>3, CorsFacts
  <1>5. Limited(c)
    BY <1>2, <1>4 DEF Limited, CorsOf, CanDo
  <1>6. Chain(req, TRUE, Outcome(st, pn)) = Recorded(req, c)
    BY <1>1, <1>3 DEF Chain, RateLimit, Recorded
  <1> QED
    BY <1>5, <1>6, Zenon DEF IsResponse

LEMMA ShedIsResponse == ASSUME NEW req PROVE IsResponse(req, Chain(req, FALSE, Outcome(0, "no")))
  <1>1. PICK g : g = Outcome(429, "no")
    OBVIOUS
  <1>2. Limited(g)
    BY <1>1 DEF Outcome, Outcomes, Ids, Limited
  <1>3. Chain(req, FALSE, Outcome(0, "no")) = Recorded(req, g)
    BY <1>1 DEF Chain, RateLimit, Recorded
  <1> QED
    BY <1>2, <1>3, Zenon DEF IsResponse

(* Which records agree with the response.                                  *)
RecordsMatch(o) ==
    /\ o.panicLine = FALSE /\ o.panic = "no" => o.logged = o.status /\ o.counted = o.status
    /\ o.logged # 0 /\ o.lineId = o.idHeader
    /\ o.panicLine \in BOOLEAN

LEMMA ChainFacts ==
    ASSUME NEW req, NEW o, IsResponse(req, o)
    PROVE  RecordsMatch(o)
  <1>1. PICK g : Limited(g) /\ o = Recorded(req, g)
    BY DEF IsResponse
  <1>4. /\ g \in Outcomes /\ g.counted = 0 /\ g.panicLine = FALSE
        /\ g.status \in {0, 202, 204, 404, 405, 429, 503}
        /\ g.panic = "no" => g.status # 0
    BY <1>1 DEF Limited
  <1> DEFINE m == Metrics(g)
             l == Logger(ResolvedID(req), m)
             i == RequestID(req, l)
  <1>5. /\ m \in Outcomes
        /\ m.status = g.status /\ m.panic = g.panic
        /\ m.panicLine = FALSE
        /\ m.counted = IF g.panic = "no" THEN g.status ELSE 0
    <2>1. g.panic = "no" => Status(g) = g.status
      BY <1>4 DEF Status
    <2> QED
      BY <1>4, <2>1, MetricsFacts
  <1> HIDE DEF m
  <1>6. ResolvedID(req) \in Ids
    BY DEF ResolvedID, Ids
  <1>7. /\ l \in Outcomes
        /\ l.status = g.status /\ l.panic = g.panic
        /\ l.panicLine = FALSE /\ l.counted = m.counted
        /\ l.logged = (IF g.status = 0 THEN 200 ELSE g.status) /\ l.lineId = ResolvedID(req)
    <2>1. Status(m) = IF g.status = 0 THEN 200 ELSE g.status
      BY <1>5 DEF Status
    <2> QED
      BY <1>5, <1>6, <2>1, LoggerFacts
  <1> HIDE DEF l
  <1>8. /\ i \in Outcomes
        /\ i.status = g.status /\ i.panic = g.panic
        /\ i.panicLine = FALSE /\ i.counted = m.counted /\ i.logged = l.logged
        /\ i.lineId = ResolvedID(req) /\ i.idHeader = ResolvedID(req)
    BY <1>7, RequestIDFacts
  <1>9. o = Recoverer(i)
    BY <1>1 DEF Recorded, i, l, m
  <1> HIDE DEF i
  <1>10. CASE i.panic # "value"
    <2>1. o = i
      BY <1>9, <1>10 DEF Recoverer
    <2>2. o.panic = "no" => o.logged = o.status /\ o.counted = o.status
      BY <1>4, <1>5, <1>7, <1>8, <2>1
    <2>4. o.panicLine = FALSE /\ o.logged # 0 /\ o.lineId = o.idHeader
      BY <1>4, <1>7, <1>8, <2>1
    <2> QED
      BY <2>2, <2>4 DEF RecordsMatch
  <1>11. CASE i.panic = "value"
    <2>1. /\ o.panicLine = TRUE /\ o.status = (IF i.status = 0 THEN 500 ELSE i.status)
          /\ o.counted = i.counted /\ o.logged = i.logged
          /\ o.lineId = i.lineId /\ o.idHeader = i.idHeader
      BY <1>8, <1>9, <1>11, RecovererFacts
    <2>3. o.logged # 0 /\ o.lineId = o.idHeader
      BY <1>4, <1>7, <1>8, <2>1
    <2> QED
      BY <2>1, <2>3 DEF RecordsMatch
  <1> QED
    BY <1>10, <1>11

LEMMA NextResponded == TaskStage /\ HttpTypes /\ Responded /\ [Next]_vars => HttpTypes' /\ Responded'
  <1> SUFFICES ASSUME TaskStage, HttpTypes, Responded, [Next]_vars PROVE HttpTypes' /\ Responded'
    OBVIOUS
  <1>0. Requests \subseteq Incoming /\ stage \in [Incoming -> Stages]
    BY DEF Incoming, TaskStage
  <1>1. ASSUME UNCHANGED <<shape, stage, out>> PROVE HttpTypes' /\ Responded'
    BY <1>1 DEF HttpTypes, Responded
  <1>2. ASSUME NEW r \in Incoming, NEW s, s # "answered", stage' = [stage EXCEPT ![r] = s],
               UNCHANGED <<shape, out>>
        PROVE  HttpTypes' /\ Responded'
    <2>1. \A q \in Requests : stage'[q] = "answered" => stage[q] = "answered"
      BY <1>0, <1>2
    <2> QED
      BY <1>2, <2>1 DEF HttpTypes, Responded
  <1>3. ASSUME NEW r \in Incoming, NEW o, Answer(r, o), r \in Requests => IsResponse(shape[r], o)
        PROVE  HttpTypes' /\ Responded'
    <2>1. /\ stage' = [stage EXCEPT ![r] = "answered"] /\ out' = [out EXCEPT ![r] = o]
          /\ UNCHANGED shape
      BY <1>3 DEF Answer
    <2>2. out'[r] = o /\ \A q \in Incoming \ {r} : out'[q] = out[q] /\ stage'[q] = stage[q]
      BY <1>0, <2>1 DEF HttpTypes
    <2>3. HttpTypes'
      BY <2>1 DEF HttpTypes
    <2>4. Responded'
      BY <1>0, <1>3, <2>1, <2>2 DEF Responded
    <2> QED
      BY <2>3, <2>4
  <1>5. ASSUME NEW r \in Incoming, Shed(r) PROVE HttpTypes' /\ Responded'
    <2>1. Answer(r, Chain(shape[r], FALSE, Outcome(0, "no")))
      BY <1>5 DEF Shed
    <2>2. IsResponse(shape[r], Chain(shape[r], FALSE, Outcome(0, "no")))
      BY ShedIsResponse
    <2> QED
      BY <1>3, <2>1, <2>2
  <1>6. ASSUME NEW r \in Incoming, NotRouted(r) PROVE HttpTypes' /\ Responded'
    <2>1. Answer(r, Chain(shape[r], TRUE, Outcome(MuxStatus(shape[r]), "no")))
      BY <1>6 DEF NotRouted
    <2>2. IsResponse(shape[r], Chain(shape[r], TRUE, Outcome(MuxStatus(shape[r]), "no")))
      <3>1. CanDo(MuxStatus(shape[r]), "no")
        BY DEF CanDo, MuxStatus
      <3> QED
        BY <3>1, HandledIsResponse, Zenon
    <2> QED
      BY <1>3, <2>1, <2>2
  <1>7. ASSUME NEW r \in Incoming, OrderAnswered(r) PROVE HttpTypes' /\ Responded'
    <2>1. OrderStatus(r) \in {202, 503}
      BY DEF OrderStatus
    <2>2. Answer(r, Chain(shape[r], TRUE, Outcome(OrderStatus(r), "no")))
      BY <1>7 DEF OrderAnswered
    <2>3. IsResponse(shape[r], Chain(shape[r], TRUE, Outcome(OrderStatus(r), "no")))
      <3>1. CanDo(OrderStatus(r), "no")
        BY <2>1 DEF CanDo
      <3> QED
        BY <3>1, HandledIsResponse, Zenon
    <2> QED
      BY <1>3, <2>2, <2>3
  <1>8. ASSUME NEW r \in Incoming, HandlerPanics(r) PROVE HttpTypes' /\ Responded'
    <2>1. OrderStatus(r) \in {202, 503}
      BY DEF OrderStatus
    <2>2. PICK st \in {0, OrderStatus(r)}, pn \in {"value", "abort"} :
             Answer(r, Chain(shape[r], TRUE, Outcome(st, pn)))
      BY <1>8 DEF HandlerPanics
    <2>3. IsResponse(shape[r], Chain(shape[r], TRUE, Outcome(st, pn)))
      <3>1. CanDo(st, pn)
        BY <2>1, <2>2 DEF CanDo
      <3> QED
        BY <3>1, HandledIsResponse, Zenon
    <2> QED
      BY <1>3, <2>2, <2>3
  <1>9. ASSUME NEW r \in Incoming, ProbeAnswered(r) PROVE HttpTypes' /\ Responded'
    <2>1. r \notin Requests
      BY <1>9, DisjointAssumption DEF ProbeAnswered
    <2> QED
      BY <1>3, <1>9, <2>1 DEF ProbeAnswered
  <1>10. ASSUME NEW r \in Incoming, Arrives(r) \/ Submits(r) PROVE HttpTypes' /\ Responded'
    <2>1. UNCHANGED <<shape, out>> /\ \E s \in {"arrived", "submitted"} : stage' = [stage EXCEPT ![r] = s]
      BY <1>10 DEF Arrives, Submits
    <2> QED
      BY <1>2, <2>1
  <1>11. ASSUME NEW r \in Incoming, PoolAdmits(r) \/ ProbePanics(r) PROVE HttpTypes' /\ Responded'
    BY <1>1, <1>11 DEF PoolAdmits, ProbePanics, httpVars
  <1>12. ASSUME NEW w \in Workers, PoolLoops(w) \/ PoolRuns(w) PROVE HttpTypes' /\ Responded'
    BY <1>1, <1>12 DEF PoolLoops, PoolRuns, httpVars
  <1>13. MainRegisters \/ MainShutsDown \/ HookStarts \/ HookSucceeds \/ HookFails \/ MainWaits
             \/ PoolCloses \/ Listens \/ ListenFails \/ SignalArrives \/ GraceExpires \/ UNCHANGED vars
         => UNCHANGED <<shape, stage, out>>
    BY DEF MainRegisters, MainShutsDown, HookStarts, HookSucceeds, HookFails, MainWaits, PoolCloses,
       Listens, ListenFails, SignalArrives, GraceExpires, vars, httpVars
  <1> QED
    BY <1>1, <1>5, <1>6, <1>7, <1>8, <1>9, <1>10, <1>11, <1>12, <1>13 DEF Next, Main

-----------------------------------------------------------------------------
(* The inductive invariant of the service, over those of its components.   *)
SInv ==
    /\ TaskStage
    /\ HooksWired
    /\ StopOrder
    /\ NoRequestMeetsClosedPool
    /\ HttpTypes
    /\ Responded

LEMMA InitSInv == Init => SInv
  <1> SUFFICES ASSUME Init PROVE SInv
    OBVIOUS
  <1>1. /\ task = [t \in Incoming |-> "new"] /\ stage = [r \in Incoming |-> "new"]
        /\ DOMAIN out = Incoming /\ shape \in Traffic
    BY DEF Init, Pool!Init, Incoming
  <1>2. TaskStage /\ NoRequestMeetsClosedPool
    BY <1>1 DEF TaskStage, Stages, NoRequestMeetsClosedPool
  <1>3. HttpTypes /\ Responded
    <2>1. shape \in [Requests -> Shapes]
      BY <1>1, ShapeAssumption
    <2>2. \A r \in Requests : stage[r] = "new"
      BY <1>1 DEF Incoming
    <2> QED
      BY <1>1, <2>1, <2>2 DEF HttpTypes, Responded
  <1>4. hooks = <<>> /\ ran = <<>> /\ pc["main"] = "idle" /\ closer["main"] = "idle" /\ closed = FALSE
    BY DEF Init, Life!Init, Pool!Init, Life!Callers
  <1>5. Len(hooks) = 0 /\ Len(ran) = 0
    BY <1>4
  <1>6. HooksWired
    BY <1>4, <1>5 DEF HooksWired
  <1>7. StopOrder
    BY <1>4, <1>5 DEF StopOrder, ServerOver, PoolOver
  <1> QED
    BY <1>2, <1>3, <1>6, <1>7 DEF SInv

LEMMA SpecSInv == Spec => [](P!Inv /\ L!Inv /\ SInv)
  <1>1. P!Inv /\ L!Inv /\ SInv /\ [Next]_vars => SInv'
    BY NextTaskStage, NextHooksWired, NextStopOrder, NextMeetsClosed, NextResponded DEF SInv
  <1> QED
    BY <1>1, InitSInv, SpecComponents, PTL DEF Spec

(* Stopping the server first keeps work out of the draining pool: for any  *)
(* traffic, a request or a probe meets the closed pool only if the         *)
(* server's Shutdown gave up on it when the grace period ended.            *)
THEOREM StopOrderProtectsThePool == Spec => []NoRequestMeetsClosedPool
  <1>1. SInv => NoRequestMeetsClosedPool
    BY DEF SInv
  <1> QED
    BY <1>1, SpecSInv, PTL

(* When main returns and no hook failed, the listener is closed, every     *)
(* request is answered, every accepted order has run and the workers are   *)
(* gone.                                                                   *)
THEOREM CleanStopLeavesNothing == Spec => []StoppedClean
  <1>1. P!Inv /\ L!Inv /\ SInv => StoppedClean
    <2> SUFFICES ASSUME P!Inv, L!Inv, SInv, Stopped, failed = <<>>
                 PROVE  /\ srv = "closed" /\ Active = {}
                        /\ \A r \in Incoming : task[r] \in {"new", "done", "ErrQueueFull"}
                        /\ Pool!AllExited
      BY DEF StoppedClean
    <2>1. pc["main"] = "returned" /\ Len(ran) = 2
      <3>1. pc["main"] = "returned"
        BY DEF Stopped
      <3>2. finished
        BY <3>1 DEF L!Inv, L!Returned, L!Callers
      <3>3. Len(ran) = Len(hooks)
        BY <3>2 DEF L!Inv, L!FinalResult
      <3>4. Len(hooks) = 2
        BY <3>1 DEF SInv, HooksWired
      <3> QED
        BY <3>1, <3>3, <3>4
    <2>2. \A h : ~Failed(h)
      <3>1. Len(failed) = 0
        OBVIOUS
      <3> QED
        BY <3>1 DEF Failed
    <2>3. srv = "closed"
      BY <2>1 DEF SInv, StopOrder
    <2>4. Active = {}
      BY <2>1, <2>2 DEF SInv, StopOrder, ServerOver
    <2>5. closer["main"] = "nil"
      BY <2>1, <2>2 DEF SInv, StopOrder, PoolOver
    <2>6. /\ \A t \in Incoming : task[t] \notin {"queued", "running", "admitting"}
          /\ Pool!AllExited
      <3>1. P!DrainedOnNil
        <4>1. /\ Workers # {} /\ QueueSize \in Nat
              /\ TRUE \in BOOLEAN /\ TRUE \in BOOLEAN
              /\ (Requests \cup Probes) \cap {"idle", "parked", "exited"} = {}
          BY PoolAssumption
        <4> QED
          BY <4>1, P!InvDrained
      <3> QED
        BY <2>5, <3>1 DEF P!DrainedOnNil, P!AllExited, Pool!AllExited, Incoming
    <2>7. ASSUME NEW r \in Incoming PROVE task[r] \in {"new", "done", "ErrQueueFull"}
      <3>1. task[r] \in P!TaskStates
        BY DEF P!Inv, P!TypeOK, Incoming
      <3>2. task[r] # "calling"
        BY <2>4 DEF SInv, TaskStage, Active
      <3>3. task[r] # "ctxErr"
        BY DEF SInv, TaskStage
      <3>4. task[r] # "ErrClosed"
        BY <2>2 DEF SInv, NoRequestMeetsClosedPool
      <3> QED
        BY <2>6, <3>1, <3>2, <3>3, <3>4 DEF P!TaskStates, P!Submitting, P!Accepted, P!Refused
    <2> QED
      BY <2>3, <2>4, <2>6, <2>7
  <1> QED
    BY <1>1, SpecSInv, PTL

(* The access log and the metrics tell of every answered request what its  *)
(* client was sent, unless its handler panicked; and every request has its *)
(* log line, with the id its client was sent.                              *)
THEOREM RecordsMatchResponses == Spec => []RecordsAgree
  <1>1. SInv => RecordsAgree
    <2> SUFFICES ASSUME SInv, NEW r \in Requests, stage[r] = "answered", NEW o, o = out[r]
                 PROVE  /\ ~o.panicLine /\ o.panic = "no" => o.logged = o.status /\ o.counted = o.status
                        /\ o.logged # 0 /\ o.lineId = o.idHeader
      BY DEF RecordsAgree
    <2>1. IsResponse(shape[r], o)
      BY DEF SInv, Responded
    <2>2. RecordsMatch(o)
      BY <2>1, ChainFacts
    <2> QED
      BY <2>2 DEF RecordsMatch
  <1> QED
    BY <1>1, SpecSInv, PTL
=============================================================================
