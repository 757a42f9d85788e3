-------------------------- MODULE WorkerPoolProofs --------------------------
(***************************************************************************)
(* For any number of tasks, workers and Close calls and any queue size:    *)
(* no send hits the closed queue, no accepted task is lost or run twice,   *)
(* and a Close that returns nil has drained the pool.                      *)
(***************************************************************************)
EXTENDS WorkerPool, SequenceTheorems, TLAPS

(* Once closed, no Submit is past its closed check: the write lock waited  *)
(* for the readers, and later readers see the flag.                        *)
NoReaderOnceClosed == closed => Readers = {}

ClosersClosed ==
    \A k \in Closers : closer[k] \in {"draining", "nil", "ctxErr"} => closed

(* A worker leaves its loop only behind the last task.                     *)
ExitedAfterDrain == \A w \in Workers : worker[w] = "exited" => closed /\ queue = <<>>

NilAfterExit == \A k \in Closers : closer[k] = "nil" => AllExited

HardStopCause == hardStop => AllExited \/ \E k \in Closers : closer[k] = "ctxErr"

Inv ==
    /\ TypeOK
    /\ NoSendOnClosed
    /\ OneHome
    /\ NoReaderOnceClosed
    /\ ClosersClosed
    /\ ExitedAfterDrain
    /\ NilAfterExit
    /\ HardStopCause

(* Appending to and taking from the queue, index by index.                 *)
LEMMA AppendFacts ==
    ASSUME NEW S, NEW q \in Seq(S), NEW x \in S
    PROVE  /\ Append(q, x) \in Seq(S)
           /\ Len(q) \in Nat
           /\ Len(Append(q, x)) = Len(q) + 1
           /\ Append(q, x)[Len(q) + 1] = x
           /\ \A i \in 1..Len(q) : Append(q, x)[i] = q[i]
           /\ \A i \in 1..Len(q) : q[i] \in S
  BY AppendProperties, LenProperties, ElementOfSeq

LEMMA TailFacts ==
    ASSUME NEW S, NEW q \in Seq(S), q # <<>>
    PROVE  /\ Len(q) \in Nat /\ Len(q) > 0
           /\ Head(q) = q[1] /\ Head(q) \in S
           /\ Tail(q) \in Seq(S) /\ Len(Tail(q)) = Len(q) - 1
           /\ \A i \in 1..(Len(q) - 1) : Tail(q)[i] = q[i + 1]
           /\ \A i \in 1..Len(q) : q[i] \in S
  BY HeadTailProperties, LenProperties, ElementOfSeq, EmptySeq

USE SizeAssumption, NameAssumption

-----------------------------------------------------------------------------
(* Inv holds of a new Pool.                                                *)
LEMMA InitInv == Init => Inv
  <1> SUFFICES ASSUME Init PROVE Inv
    OBVIOUS
  <1>1. TypeOK
    <2>1. closed \in BOOLEAN /\ hardStop \in BOOLEAN
      BY DEF Init
    <2>2. queue \in Seq(Tasks) /\ Len(queue) <= QueueSize
      BY DEF Init
    <2> QED
      BY <2>1, <2>2 DEF Init, TypeOK, TaskStates, CloserStates
  <1>2. OneHome
    BY DEF Init, OneHome, QueuedOnce, RunningOnce
  <1> QED
    BY <1>1, <1>2 DEF Init, Inv, NoSendOnClosed, NoReaderOnceClosed, ClosersClosed,
           ExitedAfterDrain, NilAfterExit, HardStopCause, AllExited

(* What an action that leaves the queue, the workers and the tasks inside  *)
(* the pool alone preserves.                                               *)
LEMMA OneHomeFrame ==
    ASSUME OneHome, UNCHANGED <<queue, worker>>,
           \A t \in Tasks : task'[t] # task[t] =>
               {task[t], task'[t]} \cap {"queued", "running"} = {}
    PROVE  OneHome'
  BY DEF OneHome, QueuedOnce, RunningOnce

(* The same for the queue and for the workers alone.                       *)
LEMMA QueuedOnceFrame ==
    ASSUME QueuedOnce, UNCHANGED queue,
           \A t \in Tasks : (task[t] = "queued") <=> (task'[t] = "queued")
    PROVE  QueuedOnce'
  BY DEF QueuedOnce

LEMMA RunningOnceFrame ==
    ASSUME RunningOnce, UNCHANGED worker,
           \A t \in Tasks : (task[t] = "running") <=> (task'[t] = "running")
    PROVE  RunningOnce'
  BY DEF RunningOnce

(* A worker without a task is given one that no worker runs.               *)
LEMMA WorkerStarts ==
    ASSUME TypeOK, RunningOnce, NEW w \in Workers, NEW t \in Tasks,
           worker[w] \in {"idle", "parked"}, task[t] # "running",
           worker' = [worker EXCEPT ![w] = t], task' = [task EXCEPT ![t] = "running"]
    PROVE  RunningOnce'
  <1>1. \A v \in Workers : worker[v] # t
    BY DEF RunningOnce
  <1>2. \A x \in Tasks : task'[x] = "running" <=> \E v \in Workers : worker'[v] = x
    <2> TAKE x \in Tasks
    <2>1. CASE x = t
      BY <2>1 DEF TypeOK
    <2>2. CASE x # t
      <3>1. task'[x] = task[x]
        BY <2>2 DEF TypeOK
      <3>2. \A v \in Workers : worker'[v] = x <=> worker[v] = x
        BY <2>2 DEF TypeOK
      <3> QED
        BY <3>1, <3>2 DEF RunningOnce
    <2> QED
      BY <2>1, <2>2
  <1>3. \A u, v \in Workers : worker'[u] \in Tasks /\ worker'[u] = worker'[v] => u = v
    BY <1>1 DEF TypeOK, RunningOnce
  <1> QED
    BY <1>2, <1>3 DEF RunningOnce

(* A worker without a task moves on without one.                           *)
LEMMA WorkerIdles ==
    ASSUME TypeOK, RunningOnce, NEW w \in Workers, NEW s \in {"idle", "parked", "exited"},
           worker[w] \notin Tasks, worker' = [worker EXCEPT ![w] = s], UNCHANGED task
    PROVE  RunningOnce'
  <1>1. \A v \in Workers, x \in Tasks : worker'[v] = x <=> worker[v] = x
    BY DEF TypeOK
  <1> QED
    <2>1. \A u \in Workers : worker'[u] \in Tasks => worker[u] = worker'[u]
      BY <1>1
    <2>2. \A u, v \in Workers : worker'[u] \in Tasks /\ worker'[u] = worker'[v] => u = v
      BY <2>1 DEF RunningOnce
    <2> QED
      BY <1>1, <2>2 DEF RunningOnce

(* A Submit call that moves between states outside the pool.               *)
LEMMA SubmitMoves ==
    ASSUME Inv, NEW t \in Tasks, NEW s \in TaskStates,
           task[t] \in {"new", "calling", "admitting"},
           s \in {"calling"} \cup Refused \/ (s = "admitting" /\ ~closed),
           task' = [task EXCEPT ![t] = s],
           UNCHANGED <<queue, worker, closer, closed, hardStop, done, fault>>
    PROVE  Inv'
  <1>1. TypeOK'
    BY DEF Inv, TypeOK
  <1>2. OneHome'
    BY OneHomeFrame DEF Inv, TypeOK, Refused
  <1> QED
    BY <1>1, <1>2 DEF Inv, TypeOK, NoSendOnClosed, NoReaderOnceClosed, Readers, ClosersClosed,
           ExitedAfterDrain, NilAfterExit, HardStopCause, AllExited, Refused

(* Every step of the pool preserves Inv.                                   *)
LEMMA NextInv == Inv /\ [Next]_vars => Inv'
  <1> SUFFICES ASSUME Inv, [Next]_vars PROVE Inv'
    OBVIOUS
  <1>0. queue \in Seq(Tasks) /\ Len(queue) \in Nat /\ Len(queue) <= QueueSize
    BY LenProperties DEF Inv, TypeOK
  <1> USE DEF TaskStates, CloserStates, Submitting, Accepted, Refused
  <1>1. ASSUME NEW t \in Tasks, SubmitCalled(t) PROVE Inv'
    BY <1>1, SubmitMoves DEF SubmitCalled
  <1>2. ASSUME NEW t \in Tasks, SubmitRLock(t) PROVE Inv'
    BY <1>2, SubmitMoves DEF SubmitRLock, Admission
  <1>3. ASSUME NEW t \in Tasks, SubmitSend(t) PROVE Inv'
    <2> USE DEF Inv
    <2>1. ~closed /\ t \in Readers
      BY <1>3 DEF SubmitSend, NoReaderOnceClosed, Readers
    <2>2. UNCHANGED <<closer, closed, hardStop, done, fault>>
      BY <1>3, <2>1 DEF SubmitSend
    <2>3. CASE \E w \in Parked :
                  /\ worker' = [worker EXCEPT ![w] = t]
                  /\ task' = [task EXCEPT ![t] = "running"]
                  /\ UNCHANGED queue
      <3> PICK w \in Workers : /\ worker[w] = "parked"
                               /\ worker' = [worker EXCEPT ![w] = t]
                               /\ task' = [task EXCEPT ![t] = "running"]
                               /\ UNCHANGED queue
        BY <2>3 DEF Parked
      <3>1. TypeOK'
        BY <2>2 DEF TypeOK
      <3>2. QueuedOnce'
        BY <2>1, QueuedOnceFrame DEF OneHome, TypeOK, Readers
      <3>3. RunningOnce'
        BY <2>1, WorkerStarts DEF OneHome, Readers
      <3> QED
        BY <2>1, <2>2, <3>1, <3>2, <3>3 DEF OneHome, TypeOK, NoSendOnClosed, NoReaderOnceClosed, Readers,
               ClosersClosed, ExitedAfterDrain, NilAfterExit, HardStopCause, AllExited
    <2>4. CASE /\ Parked = {}
               /\ queue' = Append(queue, t)
               /\ task' = [task EXCEPT ![t] = "queued"]
               /\ UNCHANGED worker
      <3>1. Len(queue) < QueueSize
        BY <1>3, <2>1, <2>4 DEF SubmitSend, CanSend
      <3>2. /\ Len(queue) \in Nat /\ Len(queue') = Len(queue) + 1
            /\ queue' \in Seq(Tasks) /\ queue'[Len(queue) + 1] = t
            /\ \A i \in 1..Len(queue) : queue'[i] = queue[i] /\ queue[i] \in Tasks
        <4> HIDE DEF Inv
        <4> QED
          BY <1>0, <2>4, AppendFacts
      <3>3. TypeOK'
        <4>1. Len(queue') <= QueueSize
          BY <3>1, <3>2
        <4> QED
          BY <2>2, <2>4, <3>2, <4>1 DEF TypeOK
      <3>4. QueuedOnce'
        <4>1. \A i \in 1..Len(queue) : queue[i] # t
          BY <2>1 DEF OneHome, QueuedOnce, Readers
        <4>2. ASSUME NEW x \in Tasks
              PROVE  task'[x] = "queued" <=> \E i \in 1..Len(queue') : queue'[i] = x
          <5>1. CASE x = t
            <6>1. task'[x] = "queued"
              BY <2>4, <5>1 DEF TypeOK
            <6>2. Len(queue) + 1 \in 1..Len(queue') /\ queue'[Len(queue) + 1] = x
              BY <3>2, <5>1
            <6> QED
              BY <6>1, <6>2
          <5>2. CASE x # t
            <6>1. task'[x] = task[x]
              BY <2>4, <5>2 DEF TypeOK
            <6>2. (\E i \in 1..Len(queue) : queue[i] = x)
                    <=> (\E i \in 1..Len(queue') : queue'[i] = x)
              BY <3>2, <5>2
            <6> QED
              BY <6>1, <6>2 DEF OneHome, QueuedOnce
          <5> QED
            BY <5>1, <5>2
        <4>3. \A i, j \in 1..Len(queue') : queue'[i] = queue'[j] => i = j
          BY <3>2, <4>1 DEF OneHome, QueuedOnce
        <4> QED
          BY <4>2, <4>3 DEF QueuedOnce
      <3>5. RunningOnce'
        BY <2>1, <2>4, RunningOnceFrame DEF OneHome, TypeOK, Readers
      <3> QED
        BY <2>1, <2>2, <2>4, <3>3, <3>4, <3>5 DEF OneHome, TypeOK, NoSendOnClosed, NoReaderOnceClosed, Readers,
               ClosersClosed, ExitedAfterDrain, NilAfterExit, HardStopCause, AllExited
    <2> QED
      BY <1>3, <2>1, <2>3, <2>4 DEF SubmitSend
  <1>4. ASSUME NEW t \in Tasks, SubmitRefused(t) PROVE Inv'
    BY <1>4, SubmitMoves DEF SubmitRefused
  <1>6. ASSUME NEW k \in Closers, CloseLock(k) PROVE Inv'
    BY <1>6, OneHomeFrame DEF CloseLock, Inv, TypeOK, NoSendOnClosed, NoReaderOnceClosed,
           Readers, ClosersClosed, ExitedAfterDrain, NilAfterExit, HardStopCause, AllExited
  <1>7. ASSUME NEW k \in Closers, CloseQueue(k) PROVE Inv'
    BY <1>7, OneHomeFrame DEF CloseQueue, NoReaders, Inv, TypeOK, NoSendOnClosed,
           NoReaderOnceClosed, Readers, ClosersClosed, ExitedAfterDrain, NilAfterExit,
           HardStopCause, AllExited
  <1>8. ASSUME NEW k \in Closers, CloseDrained(k) PROVE Inv'
    BY <1>8, OneHomeFrame DEF CloseDrained, Inv, TypeOK, NoSendOnClosed, NoReaderOnceClosed,
           Readers, ClosersClosed, ExitedAfterDrain, NilAfterExit, HardStopCause, AllExited
  <1>9. ASSUME NEW k \in Closers, CloseExpired(k) PROVE Inv'
    BY <1>9, OneHomeFrame DEF CloseExpired, Inv, TypeOK, NoSendOnClosed, NoReaderOnceClosed,
           Readers, ClosersClosed, ExitedAfterDrain, NilAfterExit, HardStopCause, AllExited
  <1>10. ASSUME NEW w \in Workers, WorkerTake(w) PROVE Inv'
    <2> USE DEF Inv
    <2>1. /\ Len(queue) \in Nat /\ Len(queue) > 0 /\ Head(queue) = queue[1]
          /\ Tail(queue) \in Seq(Tasks) /\ Len(Tail(queue)) = Len(queue) - 1
          /\ \A i \in 1..(Len(queue) - 1) : Tail(queue)[i] = queue[i + 1]
          /\ \A i \in 1..Len(queue) : queue[i] \in Tasks
      <3> HIDE DEF Inv
      <3> queue # <<>>
        BY <1>10 DEF WorkerTake
      <3> QED
        BY <1>0, TailFacts
    <2>2. PICK t \in Tasks : t = Head(queue)
      BY <2>1
    <2>3. /\ queue[1] = t /\ queue' = Tail(queue) /\ worker[w] = "idle"
          /\ worker' = [worker EXCEPT ![w] = t] /\ task' = [task EXCEPT ![t] = "running"]
          /\ UNCHANGED <<closer, closed, hardStop, done, fault>> /\ queue # <<>>
      BY <1>10, <2>1, <2>2 DEF WorkerTake
    <2>4. task[t] = "queued"
      BY <2>1, <2>3 DEF OneHome, QueuedOnce
    <2>5. TypeOK'
      <3>1. Len(queue') <= QueueSize /\ queue' \in Seq(Tasks)
        <4> HIDE DEF Inv
        <4> QED
          BY <1>0, <2>1, <2>3
      <3> QED
        BY <2>3, <3>1 DEF TypeOK
    <2>6. QueuedOnce'
      <3>1. ASSUME NEW x \in Tasks
            PROVE  task'[x] = "queued" <=> \E i \in 1..Len(queue') : queue'[i] = x
        <4>1. CASE x = t
          <5>1. task'[x] # "queued"
            BY <2>3, <4>1 DEF TypeOK
          <5>2. \A i \in 1..Len(queue') : queue'[i] # t
            BY <2>1, <2>3 DEF OneHome, QueuedOnce
          <5> QED
            BY <4>1, <5>1, <5>2
        <4>2. CASE x # t
          <5>1. task'[x] = task[x]
            BY <2>3, <4>2 DEF TypeOK
          <5>2. ASSUME NEW i \in 1..Len(queue), queue[i] = x
                PROVE  \E j \in 1..Len(queue') : queue'[j] = x
            <6>1. i - 1 \in 1..Len(queue') /\ queue'[i - 1] = x
              BY <2>1, <2>3, <4>2, <5>2
            <6> QED
              BY <6>1
          <5>3. ASSUME NEW i \in 1..Len(queue'), queue'[i] = x
                PROVE  \E j \in 1..Len(queue) : queue[j] = x
            BY <2>1, <2>3, <5>3
          <5> QED
            BY <5>1, <5>2, <5>3 DEF OneHome, QueuedOnce
        <4> QED
          BY <4>1, <4>2
      <3>2. \A i, j \in 1..Len(queue') : queue'[i] = queue'[j] => i = j
        BY <2>1, <2>3 DEF OneHome, QueuedOnce
      <3> QED
        BY <3>1, <3>2 DEF QueuedOnce
    <2>7. RunningOnce'
      BY <2>3, <2>4, WorkerStarts DEF OneHome
    <2>8. ~AllExited /\ ~AllExited' /\ \A v \in Workers : worker[v] # "exited"
      BY <2>3 DEF AllExited, ExitedAfterDrain, TypeOK
    <2>9. Readers' = Readers
      BY <2>3, <2>4 DEF Readers, TypeOK
    <2> QED
      BY <2>3, <2>5, <2>6, <2>7, <2>8, <2>9 DEF OneHome, TypeOK, NoSendOnClosed,
             NoReaderOnceClosed, ClosersClosed, ExitedAfterDrain, NilAfterExit, HardStopCause
  <1>11. ASSUME NEW w \in Workers, WorkerPark(w) PROVE Inv'
    <2>1. TypeOK'
      BY <1>11 DEF WorkerPark, Inv, TypeOK
    <2>2. OneHome'
      BY <1>11, WorkerIdles, QueuedOnceFrame DEF WorkerPark, Inv, OneHome
    <2>3. ~AllExited
      BY <1>11 DEF WorkerPark, AllExited
    <2> QED
      BY <1>11, <2>1, <2>2, <2>3 DEF WorkerPark, Inv, TypeOK, NoSendOnClosed,
             NoReaderOnceClosed, Readers, ClosersClosed, ExitedAfterDrain, NilAfterExit,
             HardStopCause
  <1>12. ASSUME NEW w \in Workers, WorkerExit(w) PROVE Inv'
    <2>1. TypeOK'
      BY <1>12 DEF WorkerExit, Inv, TypeOK
    <2>2. OneHome'
      BY <1>12, WorkerIdles, QueuedOnceFrame DEF WorkerExit, Inv, OneHome
    <2>3. ~AllExited
      BY <1>12 DEF WorkerExit, AllExited
    <2> QED
      BY <1>12, <2>1, <2>2, <2>3 DEF WorkerExit, Drained, Inv, TypeOK, NoSendOnClosed,
             NoReaderOnceClosed, Readers, ClosersClosed, ExitedAfterDrain, NilAfterExit,
             HardStopCause
  <1>13. ASSUME NEW w \in Workers, worker[w] \in Tasks, Ends(w),
                UNCHANGED <<queue, closer, closed, hardStop, done>>
         PROVE  Inv'
    <2> USE DEF Inv
    <2>1. task[worker[w]] = "running"
      BY <1>13 DEF OneHome, RunningOnce
    <2>2. TypeOK'
      BY <1>13 DEF Ends, TypeOK
    <2>3. QueuedOnce'
      BY <1>13, <2>1, QueuedOnceFrame DEF Ends, TypeOK, OneHome
    <2>4. RunningOnce'
      <3> PICK t \in Tasks : t = worker[w]
        BY <1>13
      <3>1. \A v \in Workers, x \in Tasks : worker'[v] = x <=> (worker[v] = x /\ x # t)
        BY <1>13 DEF Ends, TypeOK, OneHome, RunningOnce
      <3>2. \A x \in Tasks : task'[x] = "running" <=> (task[x] = "running" /\ x # t)
        BY <1>13 DEF Ends, TypeOK
      <3>3. \A u, v \in Workers : worker[u] \in Tasks /\ worker[u] = worker[v] => u = v
        BY DEF OneHome, RunningOnce
      <3>4. \A u, v \in Workers : worker'[u] \in Tasks /\ worker'[u] = worker'[v] => u = v
        BY <3>1, <3>3
      <3> QED
        BY <3>1, <3>2, <3>4 DEF RunningOnce, OneHome
    <2> QED
      BY <1>13, <2>1, <2>2, <2>3, <2>4 DEF Ends, OneHome, TypeOK, NoSendOnClosed,
             NoReaderOnceClosed, Readers, ClosersClosed, ExitedAfterDrain, NilAfterExit,
             HardStopCause, AllExited
  <1>14. ASSUME NEW w \in Workers, TaskReturns(w) PROVE Inv'
    BY <1>13, <1>14 DEF TaskReturns
  <1>15. ASSUME NEW w \in Workers, TaskPanics(w) PROVE Inv'
    <2>1. CASE PanicHandler
      BY <1>13, <1>15, <2>1 DEF TaskPanics
    <2>2. CASE ~PanicHandler
      BY <1>15, <2>2, OneHomeFrame DEF TaskPanics, Inv, TypeOK, NoSendOnClosed,
             NoReaderOnceClosed, Readers, ClosersClosed, ExitedAfterDrain, NilAfterExit,
             HardStopCause, AllExited
    <2> QED
      BY <2>1, <2>2
  <1>16. ASSUME NEW t \in Tasks, CancelSubmit(t) PROVE Inv'
    BY <1>16, OneHomeFrame DEF CancelSubmit, Inv, TypeOK, NoSendOnClosed, NoReaderOnceClosed,
           Readers, ClosersClosed, ExitedAfterDrain, NilAfterExit, HardStopCause, AllExited
  <1>17. ASSUME NEW k \in Closers, ExpireClose(k) PROVE Inv'
    BY <1>17, OneHomeFrame DEF ExpireClose, Inv, TypeOK, NoSendOnClosed, NoReaderOnceClosed,
           Readers, ClosersClosed, ExitedAfterDrain, NilAfterExit, HardStopCause, AllExited
  <1>18. CASE UNCHANGED vars
    BY <1>18, OneHomeFrame DEF vars, Inv, TypeOK, NoSendOnClosed, NoReaderOnceClosed,
           Readers, ClosersClosed, ExitedAfterDrain, NilAfterExit, HardStopCause, AllExited
  <1> QED
    BY <1>1, <1>2, <1>3, <1>4, <1>6, <1>7, <1>8, <1>9, <1>10, <1>11, <1>12, <1>14,
       <1>15, <1>16, <1>17, <1>18 DEF Next, Submit, Close, Worker

LEMMA SpecInv == Spec => []Inv
  BY InitInv, NextInv, PTL DEF Spec

-----------------------------------------------------------------------------
(* Type correctness; in particular the queue never exceeds its capacity.   *)
THEOREM TypeCorrect == Spec => []TypeOK
  BY SpecInv, PTL DEF Inv

(* "Once it holds the lock no Submit can be mid-send and closing the       *)
(* channel is provably race-free": proved.                                 *)
THEOREM CloseIsRaceFree == Spec => []NoSendOnClosed
  BY SpecInv, PTL DEF Inv

(* Every accepted task is in one queue slot or on one worker until it ends.*)
THEOREM NoTaskLostOrDuplicated == Spec => []OneHome
  BY SpecInv, PTL DEF Inv

LEMMA InvDrained == Inv => DrainedOnNil
  <1> SUFFICES ASSUME Inv, NEW k \in Closers, closer[k] = "nil"
               PROVE  /\ \A t \in Tasks : task[t] \notin {"queued", "running", "admitting"}
                      /\ AllExited
    BY DEF DrainedOnNil
  <1>1. AllExited
    BY DEF Inv, NilAfterExit
  <1>2. closed /\ queue = <<>> /\ \A w \in Workers : worker[w] \notin Tasks
    BY <1>1 DEF Inv, AllExited, ExitedAfterDrain
  <1>3. \A t \in Tasks : task[t] # "queued"
    BY <1>2 DEF Inv, OneHome, QueuedOnce
  <1>4. \A t \in Tasks : task[t] # "running"
    BY <1>2 DEF Inv, OneHome, RunningOnce
  <1>5. \A t \in Tasks : task[t] # "admitting"
    BY <1>2 DEF Inv, NoReaderOnceClosed, Readers
  <1> QED
    BY <1>1, <1>3, <1>4, <1>5

(* A Close that returns nil leaves no accepted task unfinished, no Submit  *)
(* mid-admission and no worker running.                                    *)
THEOREM CloseDrainsThePool == Spec => []DrainedOnNil
  BY InvDrained, SpecInv, PTL

(* Tasks see their context canceled only if the deadline of a Close        *)
(* expired, never because another Close completed.                         *)
THEOREM HardStopNeedsExpiry == Spec => []HardStopOnlyOnExpiry
  <1>1. Inv => HardStopOnlyOnExpiry
    <2> SUFFICES ASSUME Inv, hardStop, NEW t \in Tasks, task[t] \in {"queued", "running"}
                 PROVE  \E k \in Closers : closer[k] = "ctxErr"
      BY DEF HardStopOnlyOnExpiry
    <2>1. ~AllExited
      <3> SUFFICES ASSUME AllExited PROVE FALSE
        OBVIOUS
      <3>1. queue = <<>> /\ \A w \in Workers : worker[w] \notin Tasks
        BY DEF Inv, AllExited, ExitedAfterDrain
      <3> QED
        BY <3>1 DEF Inv, OneHome, QueuedOnce, RunningOnce
    <2> QED
      BY <2>1 DEF Inv, HardStopCause
  <1> QED
    BY <1>1, SpecInv, PTL

=============================================================================
