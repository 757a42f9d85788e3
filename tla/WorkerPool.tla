------------------------------ MODULE WorkerPool ------------------------------
(***************************************************************************)
(* pkg/workerpool: Pool, with New, Submit, Close, worker and run.          *)
(*                                                                         *)
(* A task stands for itself and for the one Submit call that offers it.    *)
(* The pool's RWMutex is explicit: Submit holds it for reading across its  *)
(* select, Close takes it for writing to flip closed and close the queue,  *)
(* and a writer that waits for readers keeps new readers out.  closed is   *)
(* both the flag and the closed channel, which change together under the   *)
(* write lock.                                                             *)
(***************************************************************************)
EXTENDS Integers, Sequences, FiniteSets

CONSTANTS Tasks, Workers,
          Closers,       \* calls of Close
          QueueSize,     \* capacity of the queue channel; 0 is direct hand-off
          NonBlock,      \* WithNonBlockingSubmit
          PanicHandler,  \* WithPanicHandler is installed
          LongTasks,     \* tasks that return only once their context is canceled
          PanicTasks     \* tasks that may panic

(* New panics on any other sizes.                                          *)
ASSUME SizeAssumption == Workers # {} /\ QueueSize \in Nat

ASSUME OptionAssumption == NonBlock \in BOOLEAN /\ PanicHandler \in BOOLEAN

ASSUME NameAssumption == Tasks \cap {"idle", "parked", "exited"} = {}

VARIABLES task,      \* where each task (and its Submit call) is
          queue,     \* contents of the queue channel
          worker,    \* idle, parked in the receive, exited, or the task it runs
          closer,    \* where each Close call is
          closed,    \* Pool.closed and the closed queue channel
          hardStop,  \* execCtx is canceled
          done,      \* contexts (of Submit and Close calls) that are done
          fault      \* the panic that ended the process, if any

vars == <<task, queue, worker, closer, closed, hardStop, done, fault>>

(* "calling" is on its way to RLock; "admitting" holds the read lock.      *)
Submitting == {"calling", "admitting"}
Accepted == {"queued", "running", "done"}
Refused == {"ErrClosed", "ErrQueueFull", "ctxErr"}
TaskStates == {"new"} \cup Submitting \cup Accepted \cup Refused

(* "locking" has announced itself to the RWMutex and keeps new readers     *)
(* out; "draining" is in the select on the workers and the context.        *)
CloserStates == {"idle", "locking", "draining", "nil", "ctxErr"}

Init ==
    /\ task = [t \in Tasks |-> "new"]
    /\ queue = <<>>
    /\ worker = [w \in Workers |-> "idle"]
    /\ closer = [k \in Closers |-> "idle"]
    /\ closed = FALSE
    /\ hardStop = FALSE
    /\ done = {}
    /\ fault = "none"

(* A panic nobody recovers ends the process.                               *)
Up == fault = "none"

-----------------------------------------------------------------------------
(* sync.RWMutex *)

Readers == {t \in Tasks : task[t] = "admitting"}
WriterPending == \E k \in Closers : closer[k] = "locking"

Bug_NoReaders == TRUE
NoReaders == Readers = {}

-----------------------------------------------------------------------------
(* Submit *)

SubmitCalled(t) ==
    /\ Up
    /\ task[t] = "new"
    /\ task' = [task EXCEPT ![t] = "calling"]
    /\ UNCHANGED <<queue, worker, closer, closed, hardStop, done, fault>>

Admission == IF closed THEN "ErrClosed" ELSE "admitting"

SubmitRLock(t) ==
    /\ Up
    /\ task[t] = "calling"
    /\ ~WriterPending
    /\ task' = [task EXCEPT ![t] = Admission]
    /\ UNCHANGED <<queue, worker, closer, closed, hardStop, done, fault>>

Parked == {w \in Workers : worker[w] = "parked"}

CanSend == closed \/ Parked # {} \/ Len(queue) < QueueSize

(* The send case of either select: a worker parked in the receive gets the *)
(* task itself; on a closed channel the send panics.                       *)
SubmitSend(t) ==
    /\ Up
    /\ task[t] = "admitting"
    /\ CanSend
    /\ IF closed
       THEN /\ fault' = "send on closed channel"
            /\ UNCHANGED <<task, queue, worker>>
       ELSE /\ \/ \E w \in Parked :
                     /\ worker' = [worker EXCEPT ![w] = t]
                     /\ task' = [task EXCEPT ![t] = "running"]
                     /\ UNCHANGED queue
               \/ /\ Parked = {}
                  /\ queue' = Append(queue, t)
                  /\ task' = [task EXCEPT ![t] = "queued"]
                  /\ UNCHANGED worker
            /\ UNCHANGED fault
    /\ UNCHANGED <<closer, closed, hardStop, done>>

(* The other case of the select: default for a non-blocking Submit,        *)
(* ctx.Done for a blocking one.                                            *)
NoSend(t) == IF NonBlock THEN ~CanSend ELSE t \in done

SubmitRefused(t) ==
    /\ Up
    /\ task[t] = "admitting"
    /\ NoSend(t)
    /\ task' = [task EXCEPT ![t] = IF NonBlock THEN "ErrQueueFull" ELSE "ctxErr"]
    /\ UNCHANGED <<queue, worker, closer, closed, hardStop, done, fault>>

-----------------------------------------------------------------------------
(* Close *)

CloseLock(k) ==
    /\ Up
    /\ closer[k] = "idle"
    /\ ~WriterPending
    /\ closer' = [closer EXCEPT ![k] = "locking"]
    /\ UNCHANGED <<task, queue, worker, closed, hardStop, done, fault>>

(* The critical section and Unlock; a second Close finds closed set.       *)
CloseQueue(k) ==
    /\ Up
    /\ closer[k] = "locking"
    /\ NoReaders
    /\ closer' = [closer EXCEPT ![k] = "draining"]
    /\ closed' = TRUE
    /\ UNCHANGED <<task, queue, worker, hardStop, done, fault>>

AllExited == \A w \in Workers : worker[w] = "exited"

CloseDrained(k) ==
    /\ Up
    /\ closer[k] = "draining"
    /\ AllExited
    /\ closer' = [closer EXCEPT ![k] = "nil"]
    /\ hardStop' = TRUE
    /\ UNCHANGED <<task, queue, worker, closed, done, fault>>

Bug_CloseExpired(k) ==
    /\ closer[k] = "draining"
    /\ k \in done
    /\ AllExited
    /\ closer' = [closer EXCEPT ![k] = "ctxErr"]
    /\ hardStop' = TRUE
    /\ UNCHANGED <<task, queue, worker, closed, done, fault>>

CloseExpired(k) ==
    /\ Up
    /\ closer[k] = "draining"
    /\ k \in done
    /\ closer' = [closer EXCEPT ![k] = "ctxErr"]
    /\ hardStop' = TRUE
    /\ UNCHANGED <<task, queue, worker, closed, done, fault>>

-----------------------------------------------------------------------------
(* worker and run *)

WorkerTake(w) ==
    /\ Up
    /\ worker[w] = "idle"
    /\ queue # <<>>
    /\ worker' = [worker EXCEPT ![w] = Head(queue)]
    /\ task' = [task EXCEPT ![Head(queue)] = "running"]
    /\ queue' = Tail(queue)
    /\ UNCHANGED <<closer, closed, hardStop, done, fault>>

WorkerPark(w) ==
    /\ Up
    /\ worker[w] = "idle"
    /\ queue = <<>>
    /\ ~closed
    /\ worker' = [worker EXCEPT ![w] = "parked"]
    /\ UNCHANGED <<task, queue, closer, closed, hardStop, done, fault>>

Bug_Drained == closed
Bug_ExitsOnHardStop == hardStop /\ queue = <<>>
Drained == closed /\ queue = <<>>

(* The range loop ends, and the deferred workers.Done runs.                *)
WorkerExit(w) ==
    /\ Up
    /\ worker[w] \in {"idle", "parked"}
    /\ Drained
    /\ worker' = [worker EXCEPT ![w] = "exited"]
    /\ UNCHANGED <<task, queue, closer, closed, hardStop, done, fault>>

Bug_Ends(w) ==
    /\ task' = [task EXCEPT ![worker[w]] = "done"]
    /\ UNCHANGED <<worker, fault>>

Ends(w) ==
    /\ task' = [task EXCEPT ![worker[w]] = "done"]
    /\ worker' = [worker EXCEPT ![w] = "idle"]
    /\ UNCHANGED fault

(* The task returns; a long task does so only after the hard stop.  That a *)
(* task may leave by runtime.Goexit, and take its worker along, is left    *)
(* out.                                                                    *)
TaskReturns(w) ==
    /\ Up
    /\ worker[w] \in Tasks
    /\ worker[w] \in LongTasks => hardStop
    /\ Ends(w)
    /\ UNCHANGED <<queue, closer, closed, hardStop, done>>

(* A panicking task ends like any other under a handler, and otherwise     *)
(* ends the process.                                                       *)
TaskPanics(w) ==
    /\ Up
    /\ worker[w] \in Tasks \cap PanicTasks
    /\ IF PanicHandler
       THEN Ends(w)
       ELSE fault' = "task panic" /\ UNCHANGED <<task, worker>>
    /\ UNCHANGED <<queue, closer, closed, hardStop, done>>

-----------------------------------------------------------------------------
(* The callers' contexts; a non-blocking Submit never looks at its own.    *)

CancelSubmit(t) ==
    /\ Up
    /\ ~NonBlock
    /\ task[t] \in {"new"} \cup Submitting
    /\ t \notin done
    /\ done' = done \cup {t}
    /\ UNCHANGED <<task, queue, worker, closer, closed, hardStop, fault>>

ExpireClose(k) ==
    /\ Up
    /\ k \notin done
    /\ done' = done \cup {k}
    /\ UNCHANGED <<task, queue, worker, closer, closed, hardStop, fault>>

-----------------------------------------------------------------------------
Submit(t) == SubmitRLock(t) \/ SubmitSend(t) \/ SubmitRefused(t)

Close(k) == CloseQueue(k) \/ CloseDrained(k) \/ CloseExpired(k)

Worker(w) == WorkerTake(w) \/ WorkerPark(w) \/ WorkerExit(w) \/ TaskReturns(w)

Next ==
    \/ \E t \in Tasks : SubmitCalled(t) \/ Submit(t) \/ CancelSubmit(t)
    \/ \E k \in Closers : CloseLock(k) \/ Close(k) \/ ExpireClose(k)
    \/ \E w \in Workers : Worker(w) \/ TaskPanics(w)

Spec == Init /\ [][Next]_vars

(* Goroutines are scheduled and tasks return; nobody has to call Submit or *)
(* Close, to cancel, or to panic.                                          *)
Fairness ==
    /\ \A t \in Tasks : WF_vars(Submit(t))
    /\ \A k \in Closers : WF_vars(Close(k))
    /\ \A w \in Workers : WF_vars(Worker(w))

FairSpec == Spec /\ Fairness

-----------------------------------------------------------------------------
TypeOK ==
    /\ task \in [Tasks -> TaskStates]
    /\ queue \in Seq(Tasks)
    /\ Len(queue) <= QueueSize
    /\ worker \in [Workers -> {"idle", "parked", "exited"} \cup Tasks]
    /\ closer \in [Closers -> CloserStates]
    /\ closed \in BOOLEAN
    /\ hardStop \in BOOLEAN
    /\ done \subseteq Tasks \cup Closers
    /\ fault \in {"none", "task panic", "send on closed channel"}

(* "Closing the channel is provably race-free": no Submit is mid-send when *)
(* Close closes the queue, so the only panic is a task's own.              *)
NoSendOnClosed == fault # "send on closed channel"

(* An accepted task is in exactly one place: one queue slot, or one        *)
(* worker.  None is lost between Submit and a worker, none runs twice.     *)
QueuedOnce ==
    /\ \A t \in Tasks : task[t] = "queued" <=> \E i \in 1..Len(queue) : queue[i] = t
    /\ \A i, j \in 1..Len(queue) : queue[i] = queue[j] => i = j

RunningOnce ==
    /\ \A t \in Tasks : task[t] = "running" <=> \E w \in Workers : worker[w] = t
    /\ \A v, w \in Workers : worker[v] \in Tasks /\ worker[v] = worker[w] => v = w

OneHome == QueuedOnce /\ RunningOnce

(* A Close that returned nil has drained the pool: no accepted task is     *)
(* unfinished, no Submit can still slip one in, every worker has exited.   *)
DrainedOnNil ==
    (\E k \in Closers : closer[k] = "nil") =>
        /\ \A t \in Tasks : task[t] \notin {"queued", "running", "admitting"}
        /\ AllExited

(* The execution context "is canceled only when Close's deadline expires": *)
(* a task that runs sees it canceled only if some Close gave up.           *)
HardStopOnlyOnExpiry ==
    hardStop /\ (\E t \in Tasks : task[t] \in {"queued", "running"}) =>
        \E k \in Closers : closer[k] = "ctxErr"

(* A task that waits for the hard stop occupies a worker until one comes.  *)
Held == ~hardStop /\ \E w \in Workers : worker[w] \in LongTasks

(* Every accepted task is run to its end, also when Close comes first and  *)
(* also when Close gives up, unless it finds a worker held by such a task; *)
(* and the hard stop ends every task, the ones that wait for it included.  *)
AcceptedTasksFinish ==
    /\ \A t \in Tasks : task[t] \in {"queued", "running"} ~> (task[t] = "done" \/ Held \/ ~Up)
    /\ hardStop ~> (AllExited \/ ~Up)

(* "A Submit already blocked on a full queue when Close is invoked         *)
(* completes its admission": blocked Submits and a waiting Close never     *)
(* hold each other up for ever, and every Close returns.                   *)
NobodyWaitsForever ==
    /\ \A t \in Tasks : task[t] \in Submitting ~> (task[t] \notin Submitting \/ Held \/ ~Up)
    /\ \A k \in Closers :
          closer[k] \in {"locking", "draining"} ~> (closer[k] \in {"nil", "ctxErr"} \/ Held \/ ~Up)

(* Close "honoring its context as a deadline": it returns once its context *)
(* is done, whatever the tasks do.                                         *)
CloseHonoursDeadline ==
    \A k \in Closers :
        (k \in done /\ closer[k] # "idle") ~> (closer[k] \in {"nil", "ctxErr"} \/ ~Up)
=============================================================================
