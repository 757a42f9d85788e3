---------------------------- MODULE CircuitBreaker ----------------------------
(***************************************************************************)
(* pkg/circuitbreaker: Breaker, with Do, admit, record, transition and     *)
(* State.  admit and record each run under the breaker's mutex and are one *)
(* step; the guarded function runs between them, outside the mutex, so any *)
(* number of calls are outstanding while the breaker moves on.             *)
(***************************************************************************)
EXTENDS Integers, Sequences, FiniteSets

CONSTANTS Callers,           \* goroutines that call Do, one call at a time each
          FailureThreshold,  \* WithFailureThreshold
          SuccessThreshold,  \* WithSuccessThreshold
          OpenTimeout,       \* WithOpenTimeout, in clock ticks
          MaxGeneration      \* bound: the dependency fails only below this generation

ASSUME CallersAssumption == IsFiniteSet(Callers)

(* The options panic on a value that is not positive.                      *)
ASSUME ThresholdAssumption ==
    /\ FailureThreshold \in Nat \ {0}
    /\ SuccessThreshold \in Nat \ {0}
    /\ OpenTimeout \in Nat \ {0}

ASSUME BoundAssumption == MaxGeneration \in Nat

VARIABLES state, generation, failures, successes, inFlight,  \* the Breaker struct
          elapsed,   \* now().Sub(openedAt), capped at OpenTimeout
          pc,        \* where each caller is in Do
          gen,       \* Do's local variable gen
          outcomes   \* auxiliary: what this episode recorded, oldest first

breaker == <<state, generation, failures, successes, inFlight, elapsed>>
vars == <<state, generation, failures, successes, inFlight, elapsed, pc, gen, outcomes>>

StateClosed   == "closed"
StateOpen     == "open"
StateHalfOpen == "half-open"
States == {StateClosed, StateOpen, StateHalfOpen}

Init ==
    /\ state = StateClosed
    /\ generation = 0
    /\ failures = 0
    /\ successes = 0
    /\ inFlight = 0
    /\ elapsed = OpenTimeout
    /\ pc = [c \in Callers |-> "idle"]
    /\ gen = [c \in Callers |-> 0]
    /\ outcomes = <<>>

-----------------------------------------------------------------------------
(* admit *)

CooledDown == elapsed >= OpenTimeout

Bug_ProbeBudgetLeft == inFlight < SuccessThreshold
ProbeBudgetLeft == successes + inFlight < SuccessThreshold

Bug_KeepsInFlight(to, trials) ==
    /\ state' = to
    /\ generation' = generation + 1
    /\ failures' = 0
    /\ successes' = 0
    /\ inFlight' = inFlight + trials
    /\ elapsed' = IF to = StateOpen THEN 0 ELSE elapsed
    /\ outcomes' = <<>>

(* transition, followed by the inFlight increment of the admitting call.   *)
transition(to, trials) ==
    /\ state' = to
    /\ generation' = generation + 1
    /\ failures' = 0
    /\ successes' = 0
    /\ inFlight' = trials
    /\ elapsed' = IF to = StateOpen THEN 0 ELSE elapsed
    /\ outcomes' = <<>>

Starts(c, g) ==
    /\ pc' = [pc EXCEPT ![c] = "running"]
    /\ gen' = [gen EXCEPT ![c] = g]

AdmitClosed(c) ==
    /\ pc[c] = "idle"
    /\ state = StateClosed
    /\ Starts(c, generation)
    /\ UNCHANGED <<breaker, outcomes>>

AdmitProbe(c) ==
    /\ pc[c] = "idle"
    /\ state = StateHalfOpen
    /\ ProbeBudgetLeft
    /\ inFlight' = inFlight + 1
    /\ Starts(c, generation)
    /\ UNCHANGED <<state, generation, failures, successes, elapsed, outcomes>>

(* The lazy transition: an open breaker that has cooled down turns         *)
(* half-open, and the call goes on to the half-open budget check, which    *)
(* the fresh counters always pass.                                         *)
AdmitFirstProbe(c) ==
    /\ pc[c] = "idle"
    /\ state = StateOpen
    /\ CooledDown
    /\ transition(StateHalfOpen, 1)
    /\ Starts(c, generation + 1)

admit(c) == AdmitClosed(c) \/ AdmitProbe(c) \/ AdmitFirstProbe(c)

(* Rejected with ErrOpen: the function does not run, nothing changes.      *)
AdmitRefused(c) ==
    /\ pc[c] = "idle"
    /\ \/ state = StateOpen /\ ~CooledDown
       \/ state = StateHalfOpen /\ ~ProbeBudgetLeft
    /\ UNCHANGED vars

(* Do with a context that is already done returns before admit.            *)
DoCanceled(c) ==
    /\ pc[c] = "idle"
    /\ UNCHANGED vars

-----------------------------------------------------------------------------
(* record: the function has returned, or panicked (a failure).             *)

Bug_Matches(c) == state # StateOpen
Matches(c) == gen[c] = generation

Returns(c) ==
    /\ pc[c] = "running"
    /\ pc' = [pc EXCEPT ![c] = "idle"]
    /\ gen' = [gen EXCEPT ![c] = 0]

(* Auxiliary: the outcomes of the episode, the latest FailureThreshold.    *)
Recent(o) ==
    IF Len(outcomes) < FailureThreshold
    THEN Append(outcomes, o)
    ELSE Append(Tail(outcomes), o)

(* A superseded generation, or a matching one in the state whose case is   *)
(* empty: nothing is recorded.                                             *)
RecordDiscarded(c) ==
    /\ Returns(c)
    /\ Matches(c) => state = StateOpen
    /\ UNCHANGED <<breaker, outcomes>>

RecordSuccessClosed(c) ==
    /\ Returns(c)
    /\ Matches(c)
    /\ state = StateClosed
    /\ failures' = 0
    /\ outcomes' = Recent("ok")
    /\ UNCHANGED <<state, generation, successes, inFlight, elapsed>>

(* Only the environment's choice to fail is bounded, never the breaker.    *)
DependencyFails == generation < MaxGeneration

RecordFailureClosed(c) ==
    /\ DependencyFails
    /\ Returns(c)
    /\ Matches(c)
    /\ state = StateClosed
    /\ \/ /\ failures + 1 >= FailureThreshold
          /\ transition(StateOpen, 0)
       \/ /\ failures + 1 < FailureThreshold
          /\ failures' = failures + 1
          /\ outcomes' = Recent("failed")
          /\ UNCHANGED <<state, generation, successes, inFlight, elapsed>>

RecordSuccessProbe(c) ==
    /\ Returns(c)
    /\ Matches(c)
    /\ state = StateHalfOpen
    /\ \/ /\ successes + 1 >= SuccessThreshold
          /\ transition(StateClosed, 0)
       \/ /\ successes + 1 < SuccessThreshold
          /\ inFlight' = inFlight - 1
          /\ successes' = successes + 1
          /\ outcomes' = Append(outcomes, "ok")
          /\ UNCHANGED <<state, generation, failures, elapsed>>

RecordFailureProbe(c) ==
    /\ DependencyFails
    /\ Returns(c)
    /\ Matches(c)
    /\ state = StateHalfOpen
    /\ transition(StateOpen, 0)

record(c) ==
    \/ RecordDiscarded(c)
    \/ RecordSuccessClosed(c) \/ RecordFailureClosed(c)
    \/ RecordSuccessProbe(c) \/ RecordFailureProbe(c)

-----------------------------------------------------------------------------
(* The clock is read only while the breaker is open.                       *)
Tick ==
    /\ state = StateOpen
    /\ elapsed < OpenTimeout
    /\ elapsed' = elapsed + 1
    /\ UNCHANGED <<state, generation, failures, successes, inFlight, pc, gen, outcomes>>

Bug_State == state

(* Method State: what an observer is told.                                 *)
State == IF state = StateOpen /\ CooledDown THEN StateHalfOpen ELSE state

Next ==
    \/ \E c \in Callers : admit(c) \/ AdmitRefused(c) \/ DoCanceled(c) \/ record(c)
    \/ Tick

Spec == Init /\ [][Next]_vars

(* Guarded functions return, the clock runs, and somebody keeps calling.   *)
Fairness ==
    /\ WF_vars(Tick)
    /\ WF_vars(\E c \in Callers : admit(c))
    /\ \A c \in Callers : WF_vars(record(c))

FairSpec == Spec /\ Fairness

-----------------------------------------------------------------------------
(* Types of the variables: the counters are naturals, so inFlight-- never  *)
(* drives the counter of outstanding probes below zero.                    *)
TypeOK ==
    /\ state \in States
    /\ generation \in Nat
    /\ failures \in 0..FailureThreshold
    /\ successes \in 0..SuccessThreshold
    /\ inFlight \in 0..SuccessThreshold
    /\ elapsed \in 0..OpenTimeout
    /\ pc \in [Callers -> {"idle", "running"}]
    /\ gen \in [Callers -> Nat]
    /\ outcomes \in Seq({"ok", "failed"})

Probes == {c \in Callers : pc[c] = "running" /\ gen[c] = generation}

(* A half-open breaker's counter says exactly which admitted probes are    *)
(* unresolved, so probes and successes together never exceed the success   *)
(* threshold ("never more trial traffic than the successes still needed"). *)
ProbeBudget ==
    state = StateHalfOpen =>
        /\ inFlight = Cardinality(Probes)
        /\ Cardinality(Probes) + successes <= SuccessThreshold

(* "Unreachable with a matching generation": no call admitted under the    *)
(* current generation is outstanding while the breaker is open, which is   *)
(* why record's StateOpen case may be empty.                               *)
NoLiveCallWhileOpen == state = StateOpen => Probes = {}

(* A call is admitted only under the state that State() reported at that   *)
(* instant, and never while State() says open: the observer's copy of the  *)
(* lazy transition agrees with the one admit performs.                     *)
AdmittedUnderReportedState ==
    [][\A c \in Callers :
          (pc[c] = "idle" /\ pc'[c] = "running") =>
             State # StateOpen /\ state' = State]_vars

(* The counters and the generation implement the episode contract.         *)
Contract == INSTANCE BreakerContract
    WITH mode    <- state,
         cooling <- elapsed,
         history <- outcomes,
         call    <- [c \in Callers |->
                        IF pc[c] = "idle" THEN "idle"
                        ELSE IF gen[c] = generation THEN "live" ELSE "stale"]

ImplementsContract == Contract!Spec

(* Once the dependency stops failing, the breaker ends up closed for good: *)
(* no sequence of late outcomes can leave it half-open with a spent probe  *)
(* budget and nobody left to return it.                                    *)
Recovers == <>[](state = StateClosed)
=============================================================================
