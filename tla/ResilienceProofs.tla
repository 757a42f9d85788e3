--------------------------- MODULE ResilienceProofs ---------------------------
(***************************************************************************)
(* The two modules that stand between a caller and a failing dependency.   *)
(*                                                                         *)
(* The breaker, for every number of callers and every positive threshold:  *)
(* its counters never lie about the probes, no live call survives a trip,  *)
(* and it implements the episode contract.                                 *)
(*                                                                         *)
(* Backoff around Transaction, for every set of policies, of any number of *)
(* attempts: what is left of its transactions, which commits took effect,  *)
(* and, for a Duration of any width, how long it sleeps.  The transactions *)
(* and the delays do not depend on each other, so each has an invariant of *)
(* its own.                                                                *)
(***************************************************************************)
EXTENDS CircuitBreaker, Retry, FiniteSetTheorems, WellFoundedInduction, TLAPS

(* No call runs under a generation the breaker has not reached yet: what   *)
(* makes every bump of the generation orphan every outstanding call.       *)
GenerationsReached == \A c \in Callers : pc[c] = "running" => gen[c] <= generation

(* The failure counter of a closed breaker is the length of the run of     *)
(* failures that ends the recorded outcomes.                               *)
ClosedCounts ==
    state = StateClosed =>
        /\ inFlight = 0 /\ successes = 0
        /\ failures < FailureThreshold
        /\ failures <= Len(outcomes)
        /\ Len(outcomes) <= FailureThreshold
        /\ \A i \in 1..Len(outcomes) : i > Len(outcomes) - failures => outcomes[i] = "failed"
        /\ failures < Len(outcomes) => outcomes[Len(outcomes) - failures] = "ok"

OpenCounts ==
    state = StateOpen =>
        /\ inFlight = 0 /\ successes = 0 /\ failures = 0
        /\ outcomes = <<>>

HalfOpenCounts ==
    state = StateHalfOpen =>
        /\ failures = 0
        /\ successes = Len(outcomes)
        /\ successes < SuccessThreshold

Inv ==
    /\ TypeOK
    /\ GenerationsReached
    /\ ClosedCounts
    /\ OpenCounts
    /\ HalfOpenCounts
    /\ ProbeBudget
    /\ NoLiveCallWhileOpen

USE CallersAssumption, ThresholdAssumption, BoundAssumption

-----------------------------------------------------------------------------
(* The set of live calls is finite, whatever the generation.               *)
LEMMA ProbesFinite ==
    ASSUME NEW S \in SUBSET Callers
    PROVE  IsFiniteSet(S) /\ Cardinality(S) \in Nat
  BY FS_Subset, FS_CardinalityType

(* A transition leaves no live call but the one it admits itself: the new  *)
(* generation exceeds every generation a call was admitted under.          *)
LEMMA TransitionOrphans ==
    ASSUME TypeOK, GenerationsReached, generation' = generation + 1, NEW d \in Callers,
           pc' = [pc EXCEPT ![d] = "idle"], gen' = [gen EXCEPT ![d] = 0]
    PROVE  Probes' = {}
  BY DEF TypeOK, GenerationsReached, Probes

(* What Recent does to the outcomes, index by index.                       *)
LEMMA RecentShape ==
    ASSUME NEW o \in {"ok", "failed"}, TypeOK, Len(outcomes) <= FailureThreshold
    PROVE  /\ Recent(o) \in Seq({"ok", "failed"})
           /\ Len(outcomes) < FailureThreshold =>
                /\ Len(Recent(o)) = Len(outcomes) + 1
                /\ Recent(o)[Len(outcomes) + 1] = o
                /\ \A i \in 1..Len(outcomes) : Recent(o)[i] = outcomes[i]
           /\ Len(outcomes) = FailureThreshold =>
                /\ Len(Recent(o)) = FailureThreshold
                /\ Recent(o)[FailureThreshold] = o
                /\ \A i \in 1..(FailureThreshold - 1) : Recent(o)[i] = outcomes[i + 1]
  BY DEF TypeOK, Recent

-----------------------------------------------------------------------------
(* Inv holds of a new Breaker.                                             *)
LEMMA InitInv == Init => Inv
  <1> SUFFICES ASSUME Init PROVE Inv
    OBVIOUS
  <1> QED
    BY DEF Init, Inv, TypeOK, GenerationsReached, ClosedCounts, OpenCounts,
           HalfOpenCounts, ProbeBudget, NoLiveCallWhileOpen, States, StateClosed,
           StateOpen, StateHalfOpen

(* The admission of a call that joins the current episode.                 *)
LEMMA JoinsProbes ==
    ASSUME TypeOK, NEW d \in Callers, pc[d] = "idle", Starts(d, generation'),
           generation' = generation
    PROVE  /\ Probes' = Probes \cup {d}
           /\ d \notin Probes
           /\ Cardinality(Probes') = Cardinality(Probes) + 1
  <1>1. Probes' = Probes \cup {d} /\ d \notin Probes
    BY DEF Starts, Probes, TypeOK
  <1>2. IsFiniteSet(Probes)
    BY ProbesFinite DEF Probes
  <1> QED
    BY <1>1, <1>2, FS_AddElement

(* The end of a call of the current episode.                               *)
LEMMA LeavesProbes ==
    ASSUME TypeOK, NEW d \in Callers, Returns(d), Matches(d), generation' = generation
    PROVE  /\ Probes' = Probes \ {d}
           /\ d \in Probes
           /\ Cardinality(Probes') = Cardinality(Probes) - 1
  <1>1. Probes' = Probes \ {d} /\ d \in Probes
    BY DEF Returns, Matches, Probes, TypeOK
  <1>2. IsFiniteSet(Probes)
    BY ProbesFinite DEF Probes
  <1> QED
    BY <1>1, <1>2, FS_RemoveElement

(* Every step of the breaker preserves Inv.                                *)
LEMMA NextInv == Inv /\ [Next]_vars => Inv'
  <1> SUFFICES ASSUME Inv, [Next]_vars PROVE Inv'
    OBVIOUS
  <1> USE DEF States, StateClosed, StateOpen, StateHalfOpen
  <1>1. ASSUME NEW c \in Callers, AdmitClosed(c) PROVE Inv'
    BY <1>1 DEF AdmitClosed, Starts, breaker, Inv, TypeOK, GenerationsReached,
           ClosedCounts, OpenCounts, HalfOpenCounts, ProbeBudget, NoLiveCallWhileOpen
  <1>2. ASSUME NEW c \in Callers, AdmitProbe(c) PROVE Inv'
    <2>1. Cardinality(Probes') = Cardinality(Probes) + 1
      BY <1>2, JoinsProbes DEF AdmitProbe, Inv
    <2>2. ProbeBudget'
      BY <1>2, <2>1, ProbesFinite DEF AdmitProbe, ProbeBudgetLeft, Inv, TypeOK, ProbeBudget, Probes
    <2> QED
      BY <1>2, <2>2 DEF AdmitProbe, Starts, ProbeBudgetLeft, Inv, TypeOK, GenerationsReached,
             ClosedCounts, OpenCounts, HalfOpenCounts, NoLiveCallWhileOpen
  <1>3. ASSUME NEW c \in Callers, AdmitFirstProbe(c) PROVE Inv'
    <2>1. Probes' = {c}
      BY <1>3 DEF AdmitFirstProbe, transition, Starts, Inv, TypeOK, GenerationsReached, Probes
    <2>2. Cardinality(Probes') = 1
      BY <2>1, FS_Singleton
    <2>3. ProbeBudget'
      BY <1>3, <2>2 DEF AdmitFirstProbe, transition, ProbeBudget
    <2> QED
      BY <1>3, <2>3 DEF AdmitFirstProbe, transition, Starts, Inv, TypeOK, GenerationsReached,
             ClosedCounts, OpenCounts, HalfOpenCounts, NoLiveCallWhileOpen
  <1>4. ASSUME NEW c \in Callers, RecordDiscarded(c) PROVE Inv'
    <2>1. Probes' = Probes
      BY <1>4 DEF RecordDiscarded, Returns, Matches, breaker, Inv, TypeOK, Probes,
             NoLiveCallWhileOpen
    <2> QED
      BY <1>4, <2>1 DEF RecordDiscarded, Returns, breaker, Inv, TypeOK, GenerationsReached,
             ClosedCounts, OpenCounts, HalfOpenCounts, ProbeBudget, NoLiveCallWhileOpen
  <1>5. ASSUME NEW c \in Callers, RecordSuccessClosed(c) PROVE Inv'
    <2>1. ClosedCounts'
      BY <1>5, RecentShape DEF RecordSuccessClosed, Inv, TypeOK, ClosedCounts
    <2> QED
      BY <1>5, <2>1, RecentShape DEF RecordSuccessClosed, Returns, Inv, TypeOK,
             GenerationsReached, ClosedCounts, OpenCounts, HalfOpenCounts, ProbeBudget,
             NoLiveCallWhileOpen
  <1>6. ASSUME NEW c \in Callers, RecordFailureClosed(c) PROVE Inv'
    <2>1. CASE transition(StateOpen, 0)
      <3>1. Probes' = {}
        BY <1>6, <2>1, TransitionOrphans DEF RecordFailureClosed, Returns, transition, Inv
      <3> QED
        BY <1>6, <2>1, <3>1 DEF RecordFailureClosed, Returns, transition, Inv, TypeOK,
               GenerationsReached, ClosedCounts, OpenCounts, HalfOpenCounts, ProbeBudget,
               NoLiveCallWhileOpen
    <2>2. CASE ~transition(StateOpen, 0)
      <3>1. /\ failures + 1 < FailureThreshold
            /\ failures' = failures + 1
            /\ outcomes' = Recent("failed")
            /\ Returns(c)
            /\ state = StateClosed
            /\ UNCHANGED <<state, generation, successes, inFlight, elapsed>>
        BY <1>6, <2>2 DEF RecordFailureClosed
      <3>2. ClosedCounts'
        <4> Len(outcomes) \in Nat /\ failures \in Nat
          BY DEF Inv, TypeOK
        <4>1. CASE Len(outcomes) < FailureThreshold
          BY <3>1, <4>1, RecentShape DEF Inv, ClosedCounts
        <4>2. CASE Len(outcomes) = FailureThreshold
          BY <3>1, <4>2, RecentShape DEF Inv, ClosedCounts
        <4> QED
          BY <3>1, <4>1, <4>2 DEF Inv, ClosedCounts
      <3> QED
        BY <3>1, <3>2, RecentShape DEF Returns, Inv, TypeOK, GenerationsReached,
               ClosedCounts, OpenCounts, HalfOpenCounts, ProbeBudget, NoLiveCallWhileOpen
    <2> QED
      BY <2>1, <2>2
  <1>7. ASSUME NEW c \in Callers, RecordSuccessProbe(c) PROVE Inv'
    <2>1. CASE transition(StateClosed, 0)
      <3>1. Probes' = {}
        BY <1>7, <2>1, TransitionOrphans DEF RecordSuccessProbe, Returns, transition, Inv
      <3> QED
        BY <1>7, <2>1, <3>1 DEF RecordSuccessProbe, Returns, transition, Inv, TypeOK,
               GenerationsReached, ClosedCounts, OpenCounts, HalfOpenCounts, ProbeBudget,
               NoLiveCallWhileOpen
    <2>2. CASE ~transition(StateClosed, 0)
      <3>1. /\ successes + 1 < SuccessThreshold
            /\ inFlight' = inFlight - 1
            /\ successes' = successes + 1
            /\ outcomes' = Append(outcomes, "ok")
            /\ Returns(c)
            /\ Matches(c)
            /\ state = StateHalfOpen
            /\ UNCHANGED <<state, generation, failures, elapsed>>
        BY <1>7, <2>2 DEF RecordSuccessProbe
      <3>2. Cardinality(Probes') = Cardinality(Probes) - 1 /\ Cardinality(Probes') \in Nat
        BY <3>1, LeavesProbes, ProbesFinite DEF Inv, Probes
      <3>3. ProbeBudget' /\ inFlight' \in 0..SuccessThreshold
        BY <3>1, <3>2, ProbesFinite DEF Inv, TypeOK, ProbeBudget, Probes
      <3> QED
        BY <3>1, <3>3 DEF Returns, Inv, TypeOK, GenerationsReached,
               ClosedCounts, OpenCounts, HalfOpenCounts, NoLiveCallWhileOpen
    <2> QED
      BY <2>1, <2>2
  <1>8. ASSUME NEW c \in Callers, RecordFailureProbe(c) PROVE Inv'
    <2>1. Probes' = {}
      BY <1>8, TransitionOrphans DEF RecordFailureProbe, Returns, transition, Inv
    <2> QED
      BY <1>8, <2>1 DEF RecordFailureProbe, Returns, transition, Inv, TypeOK,
             GenerationsReached, ClosedCounts, OpenCounts, HalfOpenCounts, ProbeBudget,
             NoLiveCallWhileOpen
  <1>9. CASE Tick
    BY <1>9 DEF Tick, Inv, TypeOK, GenerationsReached, ClosedCounts, OpenCounts,
           HalfOpenCounts, ProbeBudget, NoLiveCallWhileOpen, Probes
  <1>10. CASE UNCHANGED vars
    BY <1>10 DEF vars, Inv, TypeOK, GenerationsReached, ClosedCounts, OpenCounts,
           HalfOpenCounts, ProbeBudget, NoLiveCallWhileOpen, Probes
  <1> QED
    BY <1>1, <1>2, <1>3, <1>4, <1>5, <1>6, <1>7, <1>8, <1>9, <1>10
       DEF Next, admit, AdmitRefused, DoCanceled, record

LEMMA SpecInv == Spec => []Inv
  BY InitInv, NextInv, PTL DEF Spec

-----------------------------------------------------------------------------
(* Type correctness; in particular inFlight-- in record never drives the   *)
(* count of outstanding probes below zero, nor admit above the threshold.  *)
THEOREM TypeCorrect == Spec => []TypeOK
  BY SpecInv, PTL DEF Inv

(* admit never lets more trial traffic through than the successes still    *)
(* needed, and inFlight is exactly the number of unresolved probes,        *)
(* whatever late outcomes of earlier generations record has seen.          *)
THEOREM ProbeBudgetHolds == Spec => []ProbeBudget
  BY SpecInv, PTL DEF Inv

(* record's empty StateOpen case is unreachable with a matching generation.*)
THEOREM OpenOrphansEveryCall == Spec => []NoLiveCallWhileOpen
  BY SpecInv, PTL DEF Inv

(* A call starts only under the state method State reports at that moment. *)
THEOREM ReportedStateAgrees == Spec => AdmittedUnderReportedState
  <1>1. Inv /\ [Next]_vars =>
          [\A c \in Callers :
              (pc[c] = "idle" /\ pc'[c] = "running") =>
                 State # StateOpen /\ state' = State]_vars
    <2> SUFFICES ASSUME Inv, Next, NEW c \in Callers, pc[c] = "idle", pc'[c] = "running"
                 PROVE  State # StateOpen /\ state' = State
      OBVIOUS
    <2> USE DEF StateClosed, StateOpen, StateHalfOpen
    <2>1. ~(pc' = pc)
      OBVIOUS
    <2>2. PICK d \in Callers : admit(d) \/ record(d)
      BY <2>1 DEF Next, AdmitRefused, DoCanceled, Tick, vars
    <2>3. ~record(d)
      BY DEF record, RecordDiscarded, RecordSuccessClosed, RecordFailureClosed,
             RecordSuccessProbe, RecordFailureProbe, Returns, Inv, TypeOK
    <2> QED
      BY <2>2, <2>3 DEF admit, AdmitClosed, AdmitProbe, AdmitFirstProbe, CooledDown,
             transition, breaker, State
  <1> QED
    BY <1>1, SpecInv, PTL DEF Spec, AdmittedUnderReportedState

-----------------------------------------------------------------------------
(* The refinement.                                                         *)

LEMMA LiveIsProbes == TypeOK => Contract!Live = Probes
  BY DEF TypeOK, Contract!Live, Probes

(* The instance has its own copy of Cardinality, with the same definition. *)
LEMMA CardinalityIsCardinality == \A S : Contract!Cardinality(S) = Cardinality(S)
  BY DEF Contract!Cardinality, Cardinality

LEMMA RecentIsRecent == \A o : Contract!Recent(o) = Recent(o)
  BY DEF Contract!Recent, Recent

(* FailureThreshold failures in a row is what the counter detects.         *)
LEMMA CounterIsRun ==
    ASSUME Inv, state = StateClosed
    PROVE  Contract!AllFailures(Recent("failed")) <=> failures + 1 >= FailureThreshold
  <1> DEFINE h == Recent("failed")
  <1> Len(outcomes) \in Nat /\ failures \in Nat /\ Len(outcomes) <= FailureThreshold
    BY DEF Inv, TypeOK, ClosedCounts
  <1>1. ASSUME failures + 1 >= FailureThreshold PROVE Contract!AllFailures(h)
    <2>1. failures = FailureThreshold - 1
      BY <1>1 DEF Inv, ClosedCounts
    <2>2. CASE Len(outcomes) < FailureThreshold
      BY <2>1, <2>2, RecentShape DEF Inv, ClosedCounts, Contract!AllFailures
    <2>3. CASE Len(outcomes) = FailureThreshold
      BY <2>1, <2>3, RecentShape DEF Inv, ClosedCounts, Contract!AllFailures
    <2> QED
      BY <2>2, <2>3
  <1>2. ASSUME failures + 1 < FailureThreshold, Contract!AllFailures(h) PROVE FALSE
    <2>1. CASE Len(outcomes) < FailureThreshold
      <3> DEFINE i == Len(outcomes) - failures
      <3>1. Len(h) = Len(outcomes) + 1 /\ Len(h) = FailureThreshold
        BY <1>2, <2>1, RecentShape DEF Inv, Contract!AllFailures
      <3>2. i \in 1..Len(outcomes) /\ outcomes[i] = "ok" /\ h[i] = outcomes[i]
        BY <1>2, <2>1, <3>1, RecentShape DEF Inv, ClosedCounts
      <3> QED
        BY <1>2, <3>1, <3>2 DEF Contract!AllFailures
    <2>2. CASE Len(outcomes) = FailureThreshold
      <3> DEFINE i == Len(outcomes) - failures
      <3>1. i \in 2..FailureThreshold /\ outcomes[i] = "ok"
        BY <1>2, <2>2 DEF Inv, ClosedCounts
      <3>2. i - 1 \in 1..(FailureThreshold - 1) /\ h[i - 1] = "ok" /\ Len(h) = FailureThreshold
        BY <2>2, <3>1, RecentShape DEF Inv
      <3> QED
        BY <1>2, <3>2 DEF Contract!AllFailures
    <2> QED
      BY <2>1, <2>2
  <1> QED
    BY <1>1, <1>2

(* The refinement mapping of the contract's variable call.                 *)
callBar == [c \in Callers |->
               IF pc[c] = "idle" THEN "idle"
               ELSE IF gen[c] = generation THEN "live" ELSE "stale"]

(* The call that ends inside an episode becomes idle, no other changes.    *)
LEMMA ReturnOfCall ==
    ASSUME TypeOK, TypeOK', NEW c \in Callers, Returns(c), generation' = generation
    PROVE  callBar' = [callBar EXCEPT ![c] = "idle"]
  <1> SUFFICES ASSUME NEW x \in Callers
               PROVE  callBar'[x] = [callBar EXCEPT ![c] = "idle"][x]
    BY DEF callBar
  <1> QED
    BY DEF callBar, Returns, TypeOK

(* The call that ends an episode becomes idle, every other one is stale.   *)
LEMMA ReturnOrphans ==
    ASSUME TypeOK, TypeOK', GenerationsReached, NEW c \in Callers, Returns(c),
           generation' = generation + 1
    PROVE  callBar' = [Contract!Orphaned EXCEPT ![c] = "idle"]
  <1>1. Contract!Orphaned = [x \in Callers |->
                               IF callBar[x] = "live" THEN "stale" ELSE callBar[x]]
    BY DEF Contract!Orphaned, callBar
  <1> SUFFICES ASSUME NEW x \in Callers
               PROVE  callBar'[x] = [Contract!Orphaned EXCEPT ![c] = "idle"][x]
    BY <1>1 DEF callBar
  <1> QED
    BY <1>1 DEF callBar, Returns, TypeOK, GenerationsReached

(* An admission, inside an episode or beginning one.                       *)
LEMMA AdmissionOfCall ==
    ASSUME TypeOK, TypeOK', GenerationsReached, NEW c \in Callers, Starts(c, generation'),
           generation' = generation \/ generation' = generation + 1
    PROVE  /\ generation' = generation => callBar' = [callBar EXCEPT ![c] = "live"]
           /\ generation' = generation + 1 =>
                callBar' = [Contract!Orphaned EXCEPT ![c] = "live"]
  <1>1. Contract!Orphaned = [x \in Callers |->
                               IF callBar[x] = "live" THEN "stale" ELSE callBar[x]]
    BY DEF Contract!Orphaned, callBar
  <1>2. ASSUME generation' = generation, NEW x \in Callers
        PROVE  callBar'[x] = [callBar EXCEPT ![c] = "live"][x]
    BY <1>2 DEF callBar, Starts, TypeOK
  <1>3. ASSUME generation' = generation + 1, NEW x \in Callers
        PROVE  callBar'[x] = [Contract!Orphaned EXCEPT ![c] = "live"][x]
    BY <1>1, <1>3 DEF callBar, Starts, TypeOK, GenerationsReached
  <1> QED
    BY <1>1, <1>2, <1>3 DEF callBar

(* Every step of the breaker is a step of the contract, or a stutter.      *)
LEMMA NextRefines == Inv /\ Inv' /\ [Next]_vars => [Contract!Next]_(Contract!vars)
  <1> SUFFICES ASSUME Inv, Inv', [Next]_vars PROVE [Contract!Next]_(Contract!vars)
    OBVIOUS
  <1> USE DEF StateClosed, StateOpen, StateHalfOpen
  <1>1. ASSUME NEW c \in Callers, AdmitClosed(c) PROVE Contract!PassClosed(c)
    BY <1>1 DEF AdmitClosed, Starts, breaker, Contract!PassClosed, Inv, TypeOK
  <1>2. ASSUME NEW c \in Callers, AdmitProbe(c) PROVE Contract!PassProbe(c)
    <2>1. Cardinality(Contract!Live) + Len(outcomes) < SuccessThreshold
      BY <1>2, LiveIsProbes DEF AdmitProbe, ProbeBudgetLeft, Inv, TypeOK, ProbeBudget,
             HalfOpenCounts
    <2>2. callBar' = [callBar EXCEPT ![c] = "live"] /\ callBar[c] = "idle"
      BY <1>2, AdmissionOfCall DEF AdmitProbe, callBar, Inv
    <2> QED
      BY <1>2, <2>1, <2>2, CardinalityIsCardinality DEF AdmitProbe, Contract!PassProbe, callBar
  <1>3. ASSUME NEW c \in Callers, AdmitFirstProbe(c) PROVE Contract!FirstProbe(c)
    <2>1. callBar' = [Contract!Orphaned EXCEPT ![c] = "live"] /\ callBar[c] = "idle"
      BY <1>3, AdmissionOfCall DEF AdmitFirstProbe, transition, callBar, Inv
    <2>2. elapsed = OpenTimeout
      BY <1>3 DEF AdmitFirstProbe, CooledDown, Inv, TypeOK
    <2> QED
      BY <1>3, <2>1, <2>2 DEF AdmitFirstProbe, transition, Contract!FirstProbe, callBar
  <1>4. ASSUME NEW c \in Callers, RecordDiscarded(c) PROVE Contract!Forget(c)
    BY <1>4 DEF RecordDiscarded, Returns, Matches, breaker, Contract!Forget, Inv, TypeOK,
           NoLiveCallWhileOpen, Probes
  <1>5. ASSUME NEW c \in Callers, RecordSuccessClosed(c) PROVE Contract!Remember(c, "ok")
    <2>1. ~Contract!AllFailures(Contract!Recent("ok"))
      <3> Len(outcomes) \in Nat /\ Len(outcomes) <= FailureThreshold
        BY <1>5 DEF RecordSuccessClosed, Inv, TypeOK, ClosedCounts
      <3>1. \E i \in 1..Len(Recent("ok")) : Recent("ok")[i] = "ok"
        <4>1. CASE Len(outcomes) < FailureThreshold
          BY <4>1, RecentShape DEF Inv
        <4>2. CASE Len(outcomes) = FailureThreshold
          BY <4>2, RecentShape DEF Inv
        <4> QED
          BY <4>1, <4>2
      <3> QED
        BY <3>1, RecentIsRecent DEF Contract!AllFailures
    <2> QED
      BY <1>5, <2>1, RecentIsRecent DEF RecordSuccessClosed, Returns, Matches,
             Contract!Remember, Inv, TypeOK
  <1>6. ASSUME NEW c \in Callers, RecordFailureClosed(c)
        PROVE  Contract!Trip(c) \/ Contract!Remember(c, "failed")
    <2>1. CASE failures + 1 >= FailureThreshold
      <3>1. /\ transition(StateOpen, 0) /\ Returns(c) /\ Matches(c) /\ state = StateClosed
        BY <1>6, <2>1 DEF RecordFailureClosed, Inv, TypeOK
      <3>2. Contract!AllFailures(Contract!Recent("failed"))
        BY <2>1, <3>1, CounterIsRun, RecentIsRecent
      <3> QED
        <4>1. callBar' = [Contract!Orphaned EXCEPT ![c] = "idle"] /\ callBar[c] = "live"
          BY <3>1, ReturnOrphans DEF transition, Returns, Matches, callBar, Inv
        <4> QED
          BY <3>1, <3>2, <4>1 DEF transition, Contract!Trip, callBar
    <2>2. CASE failures + 1 < FailureThreshold
      <3>1. /\ outcomes' = Recent("failed") /\ Returns(c) /\ Matches(c) /\ state = StateClosed
            /\ UNCHANGED <<state, generation, elapsed>>
        BY <1>6, <2>2 DEF RecordFailureClosed, Inv, TypeOK
      <3>2. ~Contract!AllFailures(Contract!Recent("failed"))
        BY <2>2, <3>1, CounterIsRun, RecentIsRecent DEF Inv, TypeOK
      <3> QED
        BY <3>1, <3>2, RecentIsRecent DEF Returns, Matches, Contract!Remember, Inv, TypeOK
    <2> QED
      BY <2>1, <2>2 DEF Inv, TypeOK
  <1>7. ASSUME NEW c \in Callers, RecordSuccessProbe(c)
        PROVE  Contract!Heal(c) \/ Contract!Remember(c, "ok")
    <2>1. CASE successes + 1 >= SuccessThreshold
      <3>1. /\ transition(StateClosed, 0) /\ Returns(c) /\ Matches(c) /\ state = StateHalfOpen
        BY <1>7, <2>1 DEF RecordSuccessProbe, Inv, TypeOK
      <3>2. Len(outcomes) + 1 = SuccessThreshold
        BY <2>1, <3>1 DEF Inv, TypeOK, HalfOpenCounts
      <3> QED
        <4>1. callBar' = [Contract!Orphaned EXCEPT ![c] = "idle"] /\ callBar[c] = "live"
          BY <3>1, ReturnOrphans DEF transition, Returns, Matches, callBar, Inv
        <4> QED
          BY <3>1, <3>2, <4>1 DEF transition, Contract!Heal, callBar
    <2>2. CASE successes + 1 < SuccessThreshold
      <3>1. /\ outcomes' = Append(outcomes, "ok") /\ Returns(c) /\ Matches(c)
            /\ state = StateHalfOpen /\ UNCHANGED <<state, generation, elapsed>>
        BY <1>7, <2>2 DEF RecordSuccessProbe, Inv, TypeOK
      <3>2. Len(outcomes) + 1 < SuccessThreshold
        BY <2>2, <3>1 DEF Inv, HalfOpenCounts
      <3>3. callBar' = [callBar EXCEPT ![c] = "idle"] /\ callBar[c] = "live"
        BY <3>1, ReturnOfCall DEF Returns, Matches, callBar, Inv
      <3> QED
        BY <3>1, <3>2, <3>3 DEF Contract!Remember, callBar
    <2> QED
      BY <2>1, <2>2 DEF Inv, TypeOK
  <1>8. ASSUME NEW c \in Callers, RecordFailureProbe(c) PROVE Contract!Trip(c)
    <2>1. callBar' = [Contract!Orphaned EXCEPT ![c] = "idle"] /\ callBar[c] = "live"
      BY <1>8, ReturnOrphans DEF RecordFailureProbe, transition, Returns, Matches, callBar, Inv
    <2> QED
      BY <1>8, <2>1 DEF RecordFailureProbe, transition, Contract!Trip, callBar
  <1>9. CASE Tick
    BY <1>9 DEF Tick, Contract!Next, Contract!Cool
  <1>10. CASE UNCHANGED vars
    BY <1>10 DEF vars, Contract!vars
  <1> QED
    BY <1>1, <1>2, <1>3, <1>4, <1>5, <1>6, <1>7, <1>8, <1>9, <1>10
       DEF Next, admit, AdmitRefused, DoCanceled, record, Contract!Next

(* The breaker implements the episode contract: its counters and its       *)
(* generation number behave as if it knew which calls are live and kept    *)
(* the outcomes of the current episode.                                    *)
THEOREM BreakerImplementsContract == Spec => ImplementsContract
  <1>1. Init => Contract!Init
    BY DEF Init, Contract!Init, StateClosed
  <1> QED
    BY <1>1, NextRefines, SpecInv, PTL DEF Spec, ImplementsContract, Contract!Spec

-----------------------------------------------------------------------------
(* Backoff around Transaction *)

ControlOK ==
    /\ call \in {"idle", "begin", "fn", "commit", "rollback", "unwind"} \cup Ended
    /\ fnEnd \in {"none", "ok", "err", "panic", "goexit"}
    /\ tx \in {"none", "open", "committed", "rolled back", "failed"}
    /\ commits \in Nat
    /\ unseen \in Nat
    /\ policy \in Policies
    /\ step \in {"entry", "attempt", "sleeping", "returned"}
    /\ attempt \in Nat
    /\ result \in {"none", "ctx.Err"} \cup Ended
    /\ calls \in Nat

(* The steps of a Transaction that hold the Tx.                            *)
HoldsTx == call \in {"fn", "commit", "rollback", "unwind"}

(* A Tx nobody holds was left by Goexit or belongs to database/sql.  The   *)
(* next attempt begins with it, and then only under a done context.        *)
TxAccounted == tx = "open" => HoldsTx \/ call = "gone" \/ canceled

(* A commit is counted and confirmed in the same step as it ends the call. *)
ConfirmedOnce == commits - unseen = IF call = "nil" THEN 1 ELSE 0

CommitsAfterOk == call \in {"commit", "nil"} => fnEnd = "ok"

(* A call of fn is under way or has ended exactly during an attempt.       *)
AttemptCalls ==
    /\ step \in {"entry", "sleeping"} => call = "idle"
    /\ step = "attempt" => call # "idle"
    /\ step = "returned" => call \in Ended \cup {"idle"}

(* A further attempt is one the policy still allows.                       *)
AttemptsCounted ==
    /\ step = "entry" => calls = 0 /\ attempt = 1
    /\ step \in {"attempt", "sleeping"} => calls = attempt
    /\ attempt <= policy.MaxAttempts
    /\ step = "sleeping" => attempt < policy.MaxAttempts
    /\ calls <= policy.MaxAttempts

ErrWhenSpent == result = "err" => step = "returned" /\ calls = policy.MaxAttempts

BackoffInv ==
    /\ ControlOK
    /\ TxAccounted
    /\ ConfirmedOnce
    /\ CommitsAfterOk
    /\ AttemptCalls
    /\ AttemptsCounted
    /\ ErrWhenSpent

LEMMA AttemptsAllowed ==
    ASSUME ControlOK
    PROVE  policy.MaxAttempts \in Nat /\ policy.MaxAttempts >= 1
  <1>1. policy.MaxAttempts \in Nat \ {0}
    BY PolicyAssumption DEF ControlOK
  <1> QED
    BY <1>1

-----------------------------------------------------------------------------
LEMMA InitBackoff == BackoffInit => BackoffInv
  <1> SUFFICES ASSUME BackoffInit PROVE BackoffInv
    OBVIOUS
  <1>1. ControlOK
    BY DEF BackoffInit, TxInit, ControlOK
  <1>2. policy.MaxAttempts \in Nat /\ policy.MaxAttempts >= 1
    BY <1>1, AttemptsAllowed
  <1> QED
    BY <1>1, <1>2 DEF BackoffInv, BackoffInit, TxInit, TxAccounted, ConfirmedOnce, CommitsAfterOk,
           AttemptCalls, AttemptsCounted, ErrWhenSpent, Ended

(* Transaction and database/sql, whose steps Backoff does not see.         *)
LEMMA TransactionInv ==
    ASSUME ControlOK, TxAccounted, ConfirmedOnce, CommitsAfterOk, AttemptCalls,
           AttemptsCounted, ErrWhenSpent, TransactionStep \/ Database,
           UNCHANGED <<policy, step, attempt, delay, sleep, result, calls>>
    PROVE  BackoffInv'
  <1>1. AttemptsCounted' /\ ErrWhenSpent'
    BY DEF AttemptsCounted, ErrWhenSpent
  <1>2. CASE Begin
    <2>1. ControlOK'
      BY <1>2 DEF Begin, ControlOK
    <2>2. TxAccounted'
      BY <1>2 DEF Begin, HoldsTx, TxAccounted
    <2>3. ConfirmedOnce'
      BY <1>2 DEF Begin, ConfirmedOnce
    <2>4. CommitsAfterOk' /\ AttemptCalls'
      BY <1>2 DEF Begin, CommitsAfterOk, AttemptCalls, Ended
    <2> QED
      BY <1>1, <2>1, <2>2, <2>3, <2>4 DEF BackoffInv
  <1>3. CASE BeginFails
    <2>1. ControlOK'
      BY <1>3 DEF BeginFails, ControlOK, Ended
    <2>2. TxAccounted'
      BY <1>3 DEF BeginFails, HoldsTx, TxAccounted
    <2>3. ConfirmedOnce'
      BY <1>3 DEF BeginFails, ConfirmedOnce
    <2>4. CommitsAfterOk' /\ AttemptCalls'
      BY <1>3 DEF BeginFails, CommitsAfterOk, AttemptCalls, Ended
    <2> QED
      BY <1>1, <2>1, <2>2, <2>3, <2>4 DEF BackoffInv
  <1>4. CASE FnCommits
    <2>1. ControlOK'
      BY <1>4 DEF FnCommits, TakesEffectUnseen, ControlOK
    <2>2. TxAccounted'
      BY <1>4 DEF FnCommits, TakesEffectUnseen, HoldsTx, TxAccounted
    <2>3. ConfirmedOnce'
      BY <1>4 DEF FnCommits, TakesEffectUnseen, ConfirmedOnce, ControlOK
    <2>4. CommitsAfterOk' /\ AttemptCalls'
      BY <1>4 DEF FnCommits, TakesEffectUnseen, CommitsAfterOk, AttemptCalls, Ended
    <2> QED
      BY <1>1, <2>1, <2>2, <2>3, <2>4 DEF BackoffInv
  <1>5. CASE FnRollsBack
    <2>1. ControlOK'
      BY <1>5 DEF FnRollsBack, Rollback, NoEffect, ControlOK
    <2>2. TxAccounted'
      BY <1>5 DEF FnRollsBack, Rollback, NoEffect, HoldsTx, TxAccounted
    <2>3. ConfirmedOnce'
      BY <1>5 DEF FnRollsBack, Rollback, NoEffect, ConfirmedOnce
    <2>4. CommitsAfterOk' /\ AttemptCalls'
      BY <1>5 DEF FnRollsBack, Rollback, NoEffect, CommitsAfterOk, AttemptCalls, Ended
    <2> QED
      BY <1>1, <2>1, <2>2, <2>3, <2>4 DEF BackoffInv
  <1>6. CASE FnReturns
    <2>1. /\ AfterFn("ok") = "commit" /\ AfterFn("err") = "rollback"
          /\ AfterFn("panic") = "unwind" /\ AfterFn("goexit") = "gone"
      BY DEF AfterFn
    <2>2. \/ fnEnd' = "ok" /\ call' = "commit"
          \/ fnEnd' = "err" /\ call' = "rollback"
          \/ fnEnd' = "panic" /\ call' = "unwind"
          \/ fnEnd' = "goexit" /\ call' = "gone"
      BY <1>6, <2>1 DEF FnReturns
    <2>3. call = "fn" /\ UNCHANGED <<tx, commits, unseen>>
      BY <1>6 DEF FnReturns
    <2>4. ControlOK'
      BY <2>2, <2>3 DEF ControlOK, Ended
    <2>5. TxAccounted'
      BY <2>2 DEF TxAccounted, HoldsTx
    <2>6. ConfirmedOnce'
      BY <2>2, <2>3 DEF ConfirmedOnce
    <2>7. CommitsAfterOk' /\ AttemptCalls'
      BY <2>2, <2>3 DEF CommitsAfterOk, AttemptCalls, Ended
    <2> QED
      BY <1>1, <2>4, <2>5, <2>6, <2>7 DEF BackoffInv
  <1>7. CASE CommitReturns
    <2>1. PICK answer \in {"nil", "err"} : Commit(answer) /\ call' = answer
      BY <1>7 DEF CommitReturns
    <2>2. call = "commit" /\ UNCHANGED <<fnEnd, canceled>>
      BY <1>7 DEF CommitReturns
    <2>3. commits \in Nat /\ unseen \in Nat /\ commits - unseen = 0
      BY <2>2 DEF ControlOK, ConfirmedOnce
    <2>4. tx' \in {tx, "committed", "failed"} /\ (tx' = "open" => canceled)
      BY <2>1 DEF Commit
    <2>5. ASSUME call' = "nil", TakesEffect PROVE ConfirmedOnce'
      BY <2>3, <2>5 DEF TakesEffect, ConfirmedOnce
    <2>6. ASSUME call' = "err", NoEffect PROVE ConfirmedOnce'
      BY <2>3, <2>6 DEF NoEffect, ConfirmedOnce
    <2>7. ASSUME call' = "err", TakesEffectUnseen PROVE ConfirmedOnce'
      BY <2>3, <2>7 DEF TakesEffectUnseen, ConfirmedOnce
    <2>8. \/ call' = "nil" /\ TakesEffect
          \/ call' = "err" /\ NoEffect
          \/ call' = "err" /\ TakesEffectUnseen
      BY <2>1 DEF Commit
    <2>9. commits' \in Nat /\ unseen' \in Nat
      BY <2>3, <2>8 DEF TakesEffect, NoEffect, TakesEffectUnseen
    <2>10. ControlOK'
      BY <2>1, <2>2, <2>4, <2>9 DEF ControlOK, Ended
    <2>11. TxAccounted'
      BY <2>2, <2>4 DEF TxAccounted
    <2>12. CommitsAfterOk' /\ AttemptCalls'
      BY <2>1, <2>2 DEF CommitsAfterOk, AttemptCalls, Ended
    <2> QED
      BY <1>1, <2>5, <2>6, <2>7, <2>8, <2>10, <2>11, <2>12 DEF BackoffInv
  <1>8. CASE RollbackReturns
    <2>1. ControlOK'
      BY <1>8 DEF RollbackReturns, Rollback, RollbackFails, NoEffect, ControlOK, Ended
    <2>2. TxAccounted'
      BY <1>8 DEF RollbackReturns, Rollback, RollbackFails, NoEffect, HoldsTx, TxAccounted
    <2>3. ConfirmedOnce'
      BY <1>8 DEF RollbackReturns, Rollback, RollbackFails, NoEffect, ConfirmedOnce
    <2>4. CommitsAfterOk' /\ AttemptCalls'
      BY <1>8 DEF RollbackReturns, Rollback, RollbackFails, NoEffect, CommitsAfterOk, AttemptCalls, Ended
    <2> QED
      BY <1>1, <2>1, <2>2, <2>3, <2>4 DEF BackoffInv
  <1>9. CASE PanicRollsBack
    <2>1. ControlOK'
      BY <1>9 DEF PanicRollsBack, Rollback, RollbackFails, NoEffect, ControlOK, Ended
    <2>2. TxAccounted'
      BY <1>9 DEF PanicRollsBack, Rollback, RollbackFails, NoEffect, HoldsTx, TxAccounted
    <2>3. ConfirmedOnce'
      BY <1>9 DEF PanicRollsBack, Rollback, RollbackFails, NoEffect, ConfirmedOnce
    <2>4. CommitsAfterOk' /\ AttemptCalls'
      BY <1>9 DEF PanicRollsBack, Rollback, RollbackFails, NoEffect, CommitsAfterOk, AttemptCalls, Ended
    <2> QED
      BY <1>1, <2>1, <2>2, <2>3, <2>4 DEF BackoffInv
  <1>10. CASE AwaitDone
    <2>1. ControlOK'
      BY <1>10 DEF AwaitDone, ControlOK
    <2>2. TxAccounted'
      BY <1>10 DEF AwaitDone, HoldsTx, TxAccounted
    <2>3. ConfirmedOnce'
      BY <1>10 DEF AwaitDone, ConfirmedOnce
    <2>4. CommitsAfterOk' /\ AttemptCalls'
      BY <1>10 DEF AwaitDone, CommitsAfterOk, AttemptCalls, Ended
    <2> QED
      BY <1>1, <2>1, <2>2, <2>3, <2>4 DEF BackoffInv
  <1>11. CASE Cancel
    <2>1. ControlOK'
      BY <1>11 DEF Cancel, ControlOK
    <2>2. TxAccounted'
      BY <1>11 DEF Cancel, HoldsTx, TxAccounted
    <2>3. ConfirmedOnce'
      BY <1>11 DEF Cancel, ConfirmedOnce
    <2>4. CommitsAfterOk' /\ AttemptCalls'
      BY <1>11 DEF Cancel, CommitsAfterOk, AttemptCalls, Ended
    <2> QED
      BY <1>1, <2>1, <2>2, <2>3, <2>4 DEF BackoffInv
  <1> QED
    BY <1>2, <1>3, <1>4, <1>5, <1>6, <1>7, <1>8, <1>9, <1>10, <1>11 DEF TransactionStep, Database

(* Backoff returns the context's error before or between attempts.         *)
LEMMA ContextEnds ==
    ASSUME BackoffInv, step \in {"entry", "sleeping"}, Return("ctx.Err"),
           UNCHANGED <<txVars, policy, attempt, delay, sleep, calls>>
    PROVE  BackoffInv'
  <1>1. /\ result' = "ctx.Err" /\ step' = "returned"
        /\ call' = call /\ fnEnd' = fnEnd /\ tx' = tx /\ commits' = commits /\ unseen' = unseen
        /\ policy' = policy /\ attempt' = attempt /\ calls' = calls
    BY DEF Return, txVars
  <1>2. canceled' = canceled
    BY DEF txVars
  <1>3. ControlOK /\ call = "idle"
    BY DEF BackoffInv, AttemptCalls
  <1>4. ControlOK'
    BY <1>1, <1>3 DEF ControlOK
  <1>5. TxAccounted' /\ ConfirmedOnce' /\ CommitsAfterOk'
    BY <1>1, <1>2 DEF BackoffInv, TxAccounted, HoldsTx, ConfirmedOnce, CommitsAfterOk
  <1>6. AttemptCalls' /\ ErrWhenSpent'
    BY <1>1, <1>3 DEF AttemptCalls, ErrWhenSpent
  <1>7. AttemptsCounted'
    BY <1>1 DEF BackoffInv, AttemptsCounted
  <1> QED
    BY <1>4, <1>5, <1>6, <1>7 DEF BackoffInv

LEMMA NextBackoff == BackoffInv /\ [BackoffNext]_backoffVars => BackoffInv'
  <1> SUFFICES ASSUME ControlOK, TxAccounted, ConfirmedOnce, CommitsAfterOk, AttemptCalls,
                      AttemptsCounted, ErrWhenSpent, [BackoffNext]_backoffVars
               PROVE  BackoffInv'
    BY DEF BackoffInv
  <1>1. /\ policy.MaxAttempts \in Nat /\ policy.MaxAttempts >= 1
        /\ attempt \in Nat /\ calls \in Nat
    BY AttemptsAllowed DEF ControlOK
  <1>2. CASE UNCHANGED backoffVars
    <2>1. ControlOK'
      BY <1>2 DEF backoffVars, txVars, ControlOK
    <2>2. TxAccounted'
      BY <1>2 DEF backoffVars, txVars, HoldsTx, TxAccounted, AttemptCalls
    <2>3. ConfirmedOnce'
      BY <1>2 DEF backoffVars, txVars, ConfirmedOnce, AttemptCalls
    <2>4. CommitsAfterOk' /\ AttemptCalls'
      BY <1>2 DEF backoffVars, txVars, CommitsAfterOk, AttemptCalls, Ended
    <2>5. AttemptsCounted' /\ ErrWhenSpent'
      BY <1>1, <1>2 DEF backoffVars, txVars, ControlOK, AttemptsCounted, ErrWhenSpent
    <2> QED
      BY <2>1, <2>2, <2>3, <2>4, <2>5 DEF BackoffInv
  <1>3. CASE BackoffEnters
    <2>1. ControlOK'
      <3>1. /\ call' = "begin" /\ step' = "attempt" /\ calls' = calls + 1 /\ attempt' = attempt
            /\ UNCHANGED <<fnEnd, tx, commits, unseen, policy, result>>
        BY <1>3 DEF BackoffEnters, CallFn
      <3>2. attempt' \in Nat /\ calls' \in Nat
        BY <1>1, <3>1
      <3> QED
        BY <3>1, <3>2 DEF ControlOK
    <2>2. TxAccounted'
      BY <1>3 DEF BackoffEnters, CallFn, HoldsTx, TxAccounted, AttemptCalls
    <2>3. ConfirmedOnce'
      BY <1>3 DEF BackoffEnters, CallFn, ConfirmedOnce, AttemptCalls
    <2>4. CommitsAfterOk' /\ AttemptCalls'
      BY <1>3 DEF BackoffEnters, CallFn, CommitsAfterOk, AttemptCalls, Ended
    <2>5. AttemptsCounted' /\ ErrWhenSpent'
      <3>1. /\ step' = "attempt" /\ policy' = policy /\ result' = result
            /\ attempt' = attempt /\ calls' = calls + 1
        BY <1>3 DEF BackoffEnters, CallFn
      <3>2. attempt = 1 /\ calls = 0 /\ result # "err"
        BY <1>3 DEF BackoffEnters, AttemptsCounted, ErrWhenSpent
      <3> QED
        BY <1>1, <3>1, <3>2 DEF AttemptsCounted, ErrWhenSpent
    <2> QED
      BY <2>1, <2>2, <2>3, <2>4, <2>5 DEF BackoffInv
  <1>4. CASE BackoffRefuses
    BY <1>4, ContextEnds DEF BackoffRefuses, BackoffInv
  <1>5. CASE BackoffReturns
    <2>1. ControlOK'
      BY <1>5 DEF BackoffReturns, Spent, Return, txVars, ControlOK, Ended
    <2>2. TxAccounted'
      BY <1>5 DEF BackoffReturns, Spent, Return, txVars, HoldsTx, TxAccounted, AttemptCalls
    <2>3. ConfirmedOnce'
      BY <1>5 DEF BackoffReturns, Spent, Return, txVars, ConfirmedOnce, AttemptCalls
    <2>4. CommitsAfterOk' /\ AttemptCalls'
      BY <1>5 DEF BackoffReturns, Spent, Return, txVars, CommitsAfterOk, AttemptCalls, Ended
    <2>5. AttemptsCounted' /\ ErrWhenSpent'
      BY <1>1, <1>5 DEF BackoffReturns, Spent, Return, txVars, ControlOK, AttemptsCounted, ErrWhenSpent
    <2> QED
      BY <2>1, <2>2, <2>3, <2>4, <2>5 DEF BackoffInv
  <1>6. CASE BackoffSleeps
    <2>1. ControlOK'
      BY <1>6 DEF BackoffSleeps, ControlOK
    <2>2. TxAccounted'
      BY <1>6 DEF BackoffSleeps, HoldsTx, TxAccounted, AttemptCalls
    <2>3. ConfirmedOnce'
      BY <1>6 DEF BackoffSleeps, ConfirmedOnce, AttemptCalls
    <2>4. CommitsAfterOk' /\ AttemptCalls'
      BY <1>6 DEF BackoffSleeps, CommitsAfterOk, AttemptCalls, Ended
    <2>5. AttemptsCounted' /\ ErrWhenSpent'
      <3>1. /\ step' = "sleeping" /\ policy' = policy /\ result' = result
            /\ attempt' = attempt /\ calls' = calls
        BY <1>6 DEF BackoffSleeps
      <3>2. /\ calls = attempt /\ attempt <= policy.MaxAttempts /\ result # "err"
            /\ attempt # policy.MaxAttempts
        BY <1>6 DEF BackoffSleeps, Spent, AttemptsCounted, ErrWhenSpent
      <3> QED
        BY <1>1, <3>1, <3>2 DEF AttemptsCounted, ErrWhenSpent
    <2> QED
      BY <2>1, <2>2, <2>3, <2>4, <2>5 DEF BackoffInv
  <1>7. CASE BackoffRetries
    <2>1. ControlOK'
      <3>1. /\ call' = "begin" /\ step' = "attempt" /\ calls' = calls + 1 /\ attempt' = attempt + 1
            /\ UNCHANGED <<fnEnd, tx, commits, unseen, policy, result>>
        BY <1>7 DEF BackoffRetries, CallFn
      <3>2. attempt' \in Nat /\ calls' \in Nat
        BY <1>1, <3>1
      <3> QED
        BY <3>1, <3>2 DEF ControlOK
    <2>2. TxAccounted'
      BY <1>7 DEF BackoffRetries, CallFn, HoldsTx, TxAccounted, AttemptCalls
    <2>3. ConfirmedOnce'
      BY <1>7 DEF BackoffRetries, CallFn, ConfirmedOnce, AttemptCalls
    <2>4. CommitsAfterOk' /\ AttemptCalls'
      BY <1>7 DEF BackoffRetries, CallFn, CommitsAfterOk, AttemptCalls, Ended
    <2>5. AttemptsCounted' /\ ErrWhenSpent'
      <3>1. /\ step' = "attempt" /\ policy' = policy /\ result' = result
            /\ attempt' = attempt + 1 /\ calls' = calls + 1
        BY <1>7 DEF BackoffRetries, CallFn
      <3>2. calls = attempt /\ attempt < policy.MaxAttempts /\ result # "err"
        BY <1>7 DEF BackoffRetries, AttemptsCounted, ErrWhenSpent
      <3> QED
        BY <1>1, <3>1, <3>2 DEF AttemptsCounted, ErrWhenSpent
    <2> QED
      BY <2>1, <2>2, <2>3, <2>4, <2>5 DEF BackoffInv
  <1>8. CASE BackoffGivesUp
    BY <1>8, ContextEnds DEF BackoffGivesUp, BackoffInv
  <1>9. CASE /\ TransactionStep \/ Database
             /\ UNCHANGED <<policy, step, attempt, delay, sleep, result, calls>>
    BY <1>9, TransactionInv
  <1> QED
    BY <1>2, <1>3, <1>4, <1>5, <1>6, <1>7, <1>8, <1>9 DEF BackoffNext, Backoff

-----------------------------------------------------------------------------
(* Between attempts and after the last one no transaction is left open,    *)
(* whatever fn, the driver and the context did (Transaction, Backoff),     *)
(* but for a Goexit or a context that database/sql is to act on.           *)
THEOREM TransactionsFinalised == BackoffSpec => []NoTxLeftOpen
  <1>1. BackoffInv => NoTxLeftOpen
    BY DEF BackoffInv, TxAccounted, HoldsTx, NoTxLeftOpen, Ended
  <1> QED
    BY <1>1, InitBackoff, NextBackoff, PTL DEF BackoffSpec

(* Over any number of attempts Backoff returns nil with exactly one        *)
(* confirmed commit and anything else with none, and fn's error only when  *)
(* the attempts of the policy are used up.                                 *)
THEOREM OneConfirmedCommit == BackoffSpec => []CommitsAccounted
  <1>1. BackoffInv => CommitsAccounted
    BY DEF BackoffInv, ConfirmedOnce, CommitsAfterOk, ErrWhenSpent, CommitsAccounted
  <1> QED
    BY <1>1, InitBackoff, NextBackoff, PTL DEF BackoffSpec

(* fn is never called more often than the policy's MaxAttempts.            *)
THEOREM AttemptsBounded == BackoffSpec => [](calls <= policy.MaxAttempts)
  <1>1. BackoffInv => calls <= policy.MaxAttempts
    BY DEF BackoffInv, AttemptsCounted
  <1> QED
    BY <1>1, InitBackoff, NextBackoff, PTL DEF BackoffSpec

-----------------------------------------------------------------------------
(* Powers of two *)

LEMMA LeastIndex ==
    ASSUME NEW S, S \subseteq Nat, S # {}
    PROVE  \E x \in S : \A y \in S : x <= y
  <1>1. PICK x \in S : \A y \in S : ~(<<y, x>> \in OpToRel(<, Nat))
    BY NatLessThanWellFounded, WFMin
  <1>2. \A y \in S : ~(y < x)
    BY <1>1 DEF OpToRel
  <1> QED
    BY <1>2

(* The function on 0..n that doubles from 1. *)
Doubles(n, f) == f \in [0..n -> Nat] /\ f[0] = 1 /\ \A i \in 1..n : f[i] = 2 * f[i - 1]

LEMMA DoublesExists == \A n \in Nat : \E f : Doubles(n, f)
  <1> DEFINE S == {n \in Nat : ~\E f : Doubles(n, f)}
  <1>1. SUFFICES ASSUME S # {} PROVE FALSE
    OBVIOUS
  <1>2. PICK n \in S : \A m \in S : n <= m
    BY <1>1, LeastIndex
  <1>3. CASE n = 0
    <2>1. Doubles(0, [i \in 0..0 |-> 1])
      BY DEF Doubles
    <2> QED
      BY <1>3, <2>1
  <1>4. CASE n # 0
    <2>1. n \in Nat /\ n - 1 \in Nat /\ n - 1 \notin S
      BY <1>2, <1>4
    <2>2. PICK f : Doubles(n - 1, f)
      BY <2>1
    <2>3. PICK g : g = [i \in 0..n |-> IF i = n THEN 2 * f[n - 1] ELSE f[i]]
      OBVIOUS
    <2>4. Doubles(n, g)
      BY <2>1, <2>2, <2>3 DEF Doubles
    <2> QED
      BY <2>4
  <1> QED
    BY <1>3, <1>4

LEMMA DoublesUnique ==
    ASSUME NEW n \in Nat, NEW m \in Nat, NEW f, NEW g, Doubles(n, f), Doubles(m, g), n <= m
    PROVE  f[n] = g[n]
  <1> DEFINE S == {i \in 0..n : f[i] # g[i]}
  <1>1. SUFFICES ASSUME S # {} PROVE FALSE
    OBVIOUS
  <1>2. PICK i \in S : \A j \in S : i <= j
    <2>1. S \subseteq Nat
      OBVIOUS
    <2> QED
      BY <1>1, <2>1, LeastIndex
  <1>3. i # 0
    BY <1>2 DEF Doubles
  <1>4. i - 1 \in 0..n /\ f[i - 1] = g[i - 1]
    BY <1>2, <1>3
  <1> QED
    BY <1>2, <1>3, <1>4 DEF Doubles

LEMMA Power2Facts ==
    Power2 \in [Nat -> Nat] /\ Power2[0] = 1 /\ \A n \in Nat : Power2[n + 1] = 2 * Power2[n]
  <1> DEFINE F(n) == CHOOSE f : Doubles(n, f)
             P == [n \in Nat |-> F(n)[n]]
  <1>1. ASSUME NEW n \in Nat PROVE Doubles(n, F(n))
    <2>1. \E f : Doubles(n, f)
      BY DoublesExists
    <2>2. Doubles(n, CHOOSE f : Doubles(n, f))
      BY <2>1, Zenon
    <2> QED
      BY <2>2
  <1> HIDE DEF F
  <1>2. ASSUME NEW n \in Nat PROVE F(n)[n] \in Nat
    BY <1>1 DEF Doubles
  <1>3. F(0)[0] = 1
    BY <1>1 DEF Doubles
  <1>4. ASSUME NEW n \in Nat, n # 0 PROVE F(n)[n] = 2 * F(n - 1)[n - 1]
    <2>0. n - 1 \in Nat /\ n - 1 <= n
      BY <1>4
    <2>1. Doubles(n, F(n)) /\ Doubles(n - 1, F(n - 1))
      BY <1>1, <2>0
    <2>2. F(n - 1)[n - 1] = F(n)[n - 1]
      BY <2>0, <2>1, DoublesUnique
    <2>3. F(n)[n] = 2 * F(n)[n - 1]
      BY <1>4, <2>1 DEF Doubles
    <2> QED
      BY <2>2, <2>3
  <1>5. P = [n \in Nat |-> IF n = 0 THEN 1 ELSE 2 * P[n - 1]]
    <2>1. ASSUME NEW n \in Nat PROVE P[n] = IF n = 0 THEN 1 ELSE 2 * P[n - 1]
      BY <1>3, <1>4
    <2> QED
      BY <2>1
  <1> HIDE DEF P
  <1>6. Power2 = [n \in Nat |-> IF n = 0 THEN 1 ELSE 2 * Power2[n - 1]]
    BY <1>5 DEF Power2
  <1>7. /\ Power2 = [n \in Nat |-> Power2[n]]
        /\ Power2[0] = 1 /\ \A n \in Nat : Power2[n + 1] = 2 * Power2[n]
    BY <1>6
  <1>8. \A n \in Nat : Power2[n] \in Nat
    <2> DEFINE S == {n \in Nat : Power2[n] \notin Nat}
    <2>1. SUFFICES ASSUME S # {} PROVE FALSE
      OBVIOUS
    <2>2. PICK n \in S : \A m \in S : n <= m
      BY <2>1, LeastIndex
    <2>3. n # 0
      BY <1>7, <2>2
    <2>4. PICK m \in Nat : n = m + 1 /\ m \notin S
      <3>1. n - 1 \in Nat /\ n = (n - 1) + 1 /\ n - 1 \notin S
        BY <2>2, <2>3
      <3> QED
        BY <3>1
    <2>5. Power2[n] = 2 * Power2[m]
      BY <1>7, <2>4
    <2> QED
      BY <2>2, <2>4, <2>5
  <1> QED
    BY <1>7, <1>8

-----------------------------------------------------------------------------
(* next and jittered *)

(* The delay is a Duration the policy allows.                              *)
PolicyOK ==
    /\ Half \in Nat /\ policy.BaseDelay \in Nat /\ policy.MaxDelay \in Nat
    /\ policy.BaseDelay <= policy.MaxDelay /\ policy.MaxDelay < Half
    /\ policy.Jitter \in 0..4

LEMMA PolicyFacts == ASSUME policy \in Policies PROVE PolicyOK
  BY PolicyAssumption, WidthAssumption DEF PolicyOK, MaxInt

(* A doubled Duration that does not fit comes out negative.                *)
LEMMA WrapFacts ==
    ASSUME NEW n \in Nat, n < 2 * Half
    PROVE  Wrap(n) = IF n < Half THEN n ELSE n - 2 * Half
  BY WidthAssumption DEF Wrap, MinInt

(* So next doubles up to the cap, as if integers were unbounded.           *)
LEMMA NextDoubles ==
    ASSUME PolicyOK, NEW d \in 0..policy.MaxDelay
    PROVE  next(d) = Least(2 * d, policy.MaxDelay)
  <1>1. /\ Half \in Nat /\ policy.MaxDelay \in Nat /\ policy.MaxDelay < Half /\ d \in Nat
        /\ d <= policy.MaxDelay
    BY DEF PolicyOK
  <1>2. Wrap(2 * d) = IF 2 * d < Half THEN 2 * d ELSE 2 * d - 2 * Half
    BY <1>1, WrapFacts
  <1> QED
    BY <1>1, <1>2 DEF next, Least

LEMMA DoubledCap ==
    ASSUME NEW b \in Nat, NEW x \in Nat, NEW m \in Nat
    PROVE  /\ Least(2 * Least(b * x, m), m) = Least(b * (2 * x), m)
           /\ Least(b * x, m) \in 0..m
  <1>1. b * x \in Nat /\ b * (2 * x) = 2 * (b * x)
    OBVIOUS
  <1>2. PICK y \in Nat : y = b * x
    BY <1>1
  <1>3. Least(2 * Least(y, m), m) = Least(2 * y, m) /\ Least(y, m) \in 0..m
    BY DEF Least
  <1> QED
    BY <1>1, <1>2, <1>3

LEMMA Quarters ==
    ASSUME NEW d \in Nat, NEW q \in 0..4
    PROVE  /\ d * (4 - q) \in Nat /\ d * (4 + q) \in Nat
           /\ d * (4 - q) <= 4 * d /\ 4 * d <= d * (4 + q)
  <1>1. q = 0 \/ q = 1 \/ q = 2 \/ q = 3 \/ q = 4
    OBVIOUS
  <1> QED
    BY <1>1

(* What a sleep promises for the delay d it spreads.                       *)
Spreads(d, s) ==
    /\ s \in 0..policy.MaxDelay
    /\ d * (4 + policy.Jitter) < 4 * (MaxInt + 1) => 4 * s + 3 >= d * (4 - policy.Jitter)

LEMMA JitterSpreads ==
    ASSUME PolicyOK, NEW d \in 0..policy.MaxDelay, NEW s \in jittered(d)
    PROVE  Spreads(d, s)
  <1>1. /\ Half \in Nat /\ policy.MaxDelay \in Nat /\ policy.MaxDelay < Half /\ d \in Nat
        /\ d <= policy.MaxDelay
    BY DEF PolicyOK
  <1>2. /\ d * (4 - policy.Jitter) \in Nat /\ d * (4 + policy.Jitter) \in Nat
        /\ d * (4 - policy.Jitter) <= 4 * d /\ 4 * d <= d * (4 + policy.Jitter)
    BY <1>1, Quarters DEF PolicyOK
  <1>3. PICK low \in Nat, high \in Nat : low = d * (4 - policy.Jitter) /\ high = d * (4 + policy.Jitter)
    BY <1>2
  <1>4. CASE s = d
    BY <1>1, <1>2, <1>4 DEF Spreads
  <1>5. CASE s \in {Clamp(j) : j \in Converted(d)}
    <2>1. PICK j \in Converted(d) : s = Clamp(j)
      BY <1>5
    <2>2. Spread(d) = (low \div 4)..(high \div 4)
      BY <1>3 DEF Spread
    <2>3. j \in Int
      BY <1>1, <2>1, <2>2 DEF Converted, MaxInt, MinInt
    <2>4. s \in 0..policy.MaxDelay
      BY <1>1, <2>1, <2>3 DEF Clamp
    <2>5. ASSUME high < 4 * (MaxInt + 1) PROVE 4 * s + 3 >= low
      <3>1. high \div 4 <= MaxInt
        BY <1>1, <2>5 DEF MaxInt
      <3>2. j \in Spread(d)
        BY <1>1, <2>1, <2>2, <3>1 DEF Converted, MaxInt
      <3>3. j >= low \div 4
        BY <2>2, <2>3, <3>2
      <3>4. 4 * j + 3 >= low /\ j >= 0
        BY <2>3, <3>3
      <3>5. low <= 4 * d
        BY <1>2, <1>3
      <3> QED
        BY <1>1, <2>1, <2>3, <3>4, <3>5 DEF Clamp
    <2> QED
      BY <1>3, <2>4, <2>5 DEF Spreads
  <1> QED
    BY <1>4, <1>5 DEF jittered

-----------------------------------------------------------------------------
(* The delays *)

DelayDoubles == delay = Least(policy.BaseDelay * Power2[attempt - 1], policy.MaxDelay)
SleepSpreads == step = "sleeping" => Spreads(delay, sleep)

LEMMA DelayBounds ==
    ASSUME PolicyOK, attempt \in Nat, attempt >= 1, DelayDoubles
    PROVE  delay \in 0..policy.MaxDelay
  <1>1. attempt - 1 \in Nat /\ Power2[attempt - 1] \in Nat
    BY Power2Facts
  <1> QED
    BY <1>1, DoubledCap DEF DelayDoubles, PolicyOK

DelayInv ==
    /\ DelayDoubles
    /\ SleepSpreads
    /\ attempt >= 1
    /\ sleep \in 0..policy.MaxDelay

LEMMA InitDelays == BackoffInit => DelayInv
  <1> SUFFICES ASSUME BackoffInit PROVE DelayInv
    OBVIOUS
  <1>1. PolicyOK
    BY PolicyFacts DEF BackoffInit
  <1>2. attempt = 1 /\ delay = policy.BaseDelay /\ step = "entry" /\ sleep = 0
    BY DEF BackoffInit
  <1>3. Power2[attempt - 1] = 1
    BY <1>2, Power2Facts
  <1> QED
    BY <1>1, <1>2, <1>3 DEF DelayInv, DelayDoubles, SleepSpreads, Least, PolicyOK

LEMMA NextDelays == BackoffInv /\ DelayInv /\ [BackoffNext]_backoffVars => DelayInv'
  <1> SUFFICES ASSUME BackoffInv, DelayDoubles, SleepSpreads, attempt >= 1,
                      sleep \in 0..policy.MaxDelay, [BackoffNext]_backoffVars
               PROVE  DelayInv'
    BY DEF DelayInv
  <1>1. PolicyOK /\ attempt \in Nat
    BY PolicyFacts DEF BackoffInv, ControlOK
  <1>2. delay \in 0..policy.MaxDelay
    BY <1>1, DelayBounds
  <1>3. ASSUME UNCHANGED <<policy, attempt, delay, sleep>>, step' = "sleeping" => step = "sleeping"
        PROVE  DelayInv'
    BY <1>3 DEF DelayInv, DelayDoubles, SleepSpreads, Spreads
  <1>4. CASE BackoffSleeps
    <2>1. UNCHANGED <<policy, attempt, delay>> /\ sleep' \in jittered(delay)
      BY <1>4 DEF BackoffSleeps
    <2>2. Spreads(delay, sleep')
      BY <1>1, <1>2, <2>1, JitterSpreads
    <2>3. SleepSpreads'
      BY <2>1, <2>2 DEF SleepSpreads, Spreads
    <2>4. DelayDoubles' /\ (sleep \in 0..policy.MaxDelay)'
      BY <2>1, <2>2 DEF DelayDoubles, Spreads
    <2> QED
      BY <2>1, <2>3, <2>4 DEF DelayInv
  <1>5. CASE BackoffRetries
    <2>1. /\ policy' = policy /\ attempt' = attempt + 1 /\ delay' = next(delay)
          /\ step' = "attempt" /\ sleep' = sleep
      BY <1>5 DEF BackoffRetries
    <2>2. delay' = Least(2 * delay, policy.MaxDelay)
      BY <1>1, <1>2, <2>1, NextDoubles
    <2>3. PICK n \in Nat : n = attempt - 1
      BY <1>1
    <2>4. Power2[n] \in Nat /\ Power2[n + 1] = 2 * Power2[n] /\ n + 1 = attempt' - 1
      BY <1>1, <2>1, <2>3, Power2Facts
    <2>5. delay = Least(policy.BaseDelay * Power2[n], policy.MaxDelay)
      BY <2>3 DEF DelayDoubles
    <2>6. delay' = Least(policy.BaseDelay * Power2[n + 1], policy.MaxDelay)
      <3>1. policy.BaseDelay \in Nat /\ policy.MaxDelay \in Nat
        BY <1>1 DEF PolicyOK
      <3> QED
        BY <2>2, <2>4, <2>5, <3>1, DoubledCap
    <2>7. DelayDoubles'
      BY <2>1, <2>4, <2>6 DEF DelayDoubles
    <2>8. SleepSpreads' /\ attempt' >= 1 /\ (sleep \in 0..policy.MaxDelay)'
      BY <1>1, <2>1 DEF SleepSpreads
    <2> QED
      BY <2>7, <2>8 DEF DelayInv
  <1>6. CASE UNCHANGED backoffVars
    BY <1>3, <1>6 DEF backoffVars
  <1>7. CASE BackoffEnters \/ BackoffRefuses \/ BackoffReturns \/ BackoffGivesUp
    BY <1>3, <1>7 DEF BackoffEnters, BackoffRefuses, BackoffReturns, BackoffGivesUp, Return
  <1>8. CASE UNCHANGED <<policy, step, attempt, delay, sleep, result, calls>>
    BY <1>3, <1>8
  <1> QED
    BY <1>4, <1>5, <1>6, <1>7, <1>8 DEF BackoffNext, Backoff

(* For a Duration of any width and any policy, the delay doubles with each *)
(* attempt up to the cap as it would in unbounded integers (next), and no  *)
(* sleep exceeds the cap or falls short of the spread, but where the upper *)
(* end of the spread does not fit (jittered).                              *)
THEOREM DelaysDoubleToTheCap == BackoffSpec => []DelaysKeepPolicy
  <1>1. DelayInv => DelaysKeepPolicy
    BY DEF DelayInv, DelayDoubles, SleepSpreads, Spreads, DelaysKeepPolicy
  <1> QED
    BY <1>1, InitDelays, InitBackoff, NextBackoff, NextDelays, PTL DEF BackoffSpec

-----------------------------------------------------------------------------
(* An attempt commits at most once: it opens one Tx, which is committed    *)
(* only from open.                                                         *)
OneCommitEach ==
    /\ commits <= calls
    /\ call = "begin" => commits < calls
    /\ HoldsTx /\ tx = "open" => commits < calls
    /\ calls <= attempt
    /\ canceled \in BOOLEAN

LEMMA TransactionCommits ==
    ASSUME ControlOK, OneCommitEach, TransactionStep \/ Database, UNCHANGED <<attempt, calls>>
    PROVE  OneCommitEach'
  <1>1. /\ commits \in Nat /\ calls \in Nat /\ commits <= calls /\ calls <= attempt
        /\ canceled \in BOOLEAN /\ calls' = calls /\ attempt' = attempt
    BY DEF ControlOK, OneCommitEach
  <1>2. ASSUME commits' = commits, canceled' \in BOOLEAN, call' # "begin" \/ call' = call,
               (HoldsTx /\ tx = "open")' => call = "begin" \/ (HoldsTx /\ tx = "open")
        PROVE  OneCommitEach'
    BY <1>1, <1>2 DEF OneCommitEach
  <1>3. ASSUME commits' = commits + 1, canceled' = canceled, HoldsTx, tx = "open",
               call' # "begin", tx' # "open"
        PROVE  OneCommitEach'
    <2>1. commits < calls
      BY <1>3 DEF OneCommitEach
    <2> QED
      BY <1>1, <1>3, <2>1 DEF OneCommitEach
  <1>4. CASE Begin
    BY <1>1, <1>2, <1>4 DEF Begin, HoldsTx
  <1>5. CASE BeginFails
    BY <1>1, <1>2, <1>5 DEF BeginFails, HoldsTx
  <1>6. CASE FnCommits
    BY <1>3, <1>6 DEF FnCommits, TakesEffectUnseen, HoldsTx
  <1>7. CASE FnRollsBack
    BY <1>1, <1>2, <1>7 DEF FnRollsBack, Rollback, NoEffect, HoldsTx
  <1>8. CASE FnReturns
    <2>1. call' \in {"commit", "rollback", "unwind", "gone"}
      BY <1>8 DEF FnReturns, AfterFn
    <2>2. call = "fn" /\ tx' = tx /\ commits' = commits /\ canceled' = canceled
      BY <1>8 DEF FnReturns
    <2> QED
      BY <1>1, <1>2, <2>1, <2>2 DEF HoldsTx
  <1>9. CASE CommitReturns
    <2>1. call' \in {"nil", "err"} /\ call = "commit" /\ canceled' = canceled
      BY <1>9 DEF CommitReturns
    <2>2. \/ commits' = commits
          \/ commits' = commits + 1 /\ tx = "open" /\ tx' # "open"
      BY <1>9 DEF CommitReturns, Commit, NoEffect, TakesEffect, TakesEffectUnseen
    <2>3. HoldsTx /\ ~HoldsTx'
      BY <2>1 DEF HoldsTx
    <2> QED
      BY <1>1, <1>2, <1>3, <2>1, <2>2, <2>3
  <1>10. CASE RollbackReturns
    BY <1>1, <1>2, <1>10 DEF RollbackReturns, Rollback, RollbackFails, NoEffect, HoldsTx
  <1>11. CASE PanicRollsBack
    BY <1>1, <1>2, <1>11 DEF PanicRollsBack, Rollback, RollbackFails, NoEffect, HoldsTx
  <1>12. CASE AwaitDone
    BY <1>1, <1>2, <1>12 DEF AwaitDone, HoldsTx
  <1>13. CASE Cancel
    BY <1>1, <1>2, <1>13 DEF Cancel, HoldsTx
  <1> QED
    BY <1>4, <1>5, <1>6, <1>7, <1>8, <1>9, <1>10, <1>11, <1>12, <1>13 DEF TransactionStep, Database

LEMMA InitCommits == BackoffInit => OneCommitEach
  <1> SUFFICES ASSUME BackoffInit PROVE OneCommitEach
    OBVIOUS
  <1>1. call = "idle" /\ commits = 0 /\ calls = 0 /\ attempt = 1
    BY DEF BackoffInit, TxInit
  <1>2. canceled \in BOOLEAN
    BY DEF BackoffInit, TxInit
  <1> QED
    BY <1>1, <1>2 DEF OneCommitEach, HoldsTx

LEMMA NextCommits == BackoffInv /\ OneCommitEach /\ [BackoffNext]_backoffVars => OneCommitEach'
  <1> SUFFICES ASSUME BackoffInv, OneCommitEach, [BackoffNext]_backoffVars PROVE OneCommitEach'
    OBVIOUS
  <1>1. /\ commits \in Nat /\ calls \in Nat /\ attempt \in Nat
        /\ commits <= calls /\ calls <= attempt /\ canceled \in BOOLEAN
    BY DEF BackoffInv, ControlOK, OneCommitEach
  <1>2. ASSUME UNCHANGED <<call, tx, canceled, commits, calls, attempt>> PROVE OneCommitEach'
    BY <1>2 DEF OneCommitEach, HoldsTx
  <1>3. ASSUME call' = "begin", calls' = calls + 1, calls' <= attempt',
               UNCHANGED <<tx, canceled, commits>>
        PROVE  OneCommitEach'
    BY <1>1, <1>3 DEF OneCommitEach
  <1>4. CASE UNCHANGED backoffVars
    BY <1>2, <1>4 DEF backoffVars, txVars
  <1>5. CASE BackoffEnters
    <2>1. calls = 0 /\ attempt = 1
      BY <1>5 DEF BackoffEnters, BackoffInv, AttemptsCounted
    <2> QED
      BY <1>3, <1>5, <2>1 DEF BackoffEnters, CallFn
  <1>6. CASE BackoffRefuses \/ BackoffReturns \/ BackoffGivesUp
    BY <1>2, <1>6 DEF BackoffRefuses, BackoffReturns, BackoffGivesUp, txVars
  <1>7. CASE BackoffSleeps
    <2>1. /\ call' = "idle"
          /\ UNCHANGED <<tx, canceled, commits, calls, attempt>>
      BY <1>7 DEF BackoffSleeps
    <2> QED
      BY <1>1, <2>1 DEF OneCommitEach, HoldsTx
  <1>8. CASE BackoffRetries
    <2>1. calls = attempt
      BY <1>8 DEF BackoffRetries, BackoffInv, AttemptsCounted
    <2>2. /\ call' = "begin" /\ calls' = calls + 1 /\ attempt' = attempt + 1
          /\ UNCHANGED <<tx, canceled, commits>>
      BY <1>8 DEF BackoffRetries, CallFn
    <2> QED
      BY <1>1, <1>3, <2>1, <2>2
  <1>9. CASE /\ TransactionStep \/ Database
             /\ UNCHANGED <<policy, step, attempt, delay, sleep, result, calls>>
    BY <1>9, TransactionCommits DEF BackoffInv
  <1> QED
    BY <1>4, <1>5, <1>6, <1>7, <1>8, <1>9 DEF BackoffNext, Backoff

(* Every variable of Backoff and of the Transaction under it keeps its     *)
(* type: delays and sleeps stay within a Duration, attempts within the     *)
(* policy, and no attempt commits twice.                                   *)
THEOREM BackoffTypeCorrect == BackoffSpec => []BackoffTypeOK
  <1>1. BackoffInv /\ DelayInv /\ OneCommitEach => BackoffTypeOK
    <2> SUFFICES ASSUME BackoffInv, DelayInv, OneCommitEach PROVE BackoffTypeOK
      OBVIOUS
    <2>1. ControlOK /\ PolicyOK /\ attempt \in Nat /\ attempt >= 1 /\ DelayDoubles
      BY PolicyFacts DEF BackoffInv, ControlOK, DelayInv
    <2>2. delay \in 0..policy.MaxDelay /\ sleep \in 0..policy.MaxDelay
      BY <2>1, DelayBounds DEF DelayInv
    <2>3. delay \in Duration /\ sleep \in Duration
      BY <2>1, <2>2 DEF Duration, MinInt, MaxInt, PolicyOK
    <2>4. attempt \in 1..policy.MaxAttempts
      <3>1. attempt <= policy.MaxAttempts /\ policy.MaxAttempts \in Nat
        BY <2>1, AttemptsAllowed DEF BackoffInv, AttemptsCounted
      <3> QED
        BY <2>1, <3>1
    <2>5. commits \in 0..attempt /\ calls \in 0..attempt
      <3>1. commits \in Nat /\ calls \in Nat
        BY <2>1 DEF ControlOK
      <3>2. commits <= calls /\ calls <= attempt
        BY DEF OneCommitEach
      <3> QED
        BY <2>1, <3>1, <3>2
    <2>6. unseen \in 0..commits
      <3>1. commits \in Nat /\ unseen \in Nat
        BY <2>1 DEF ControlOK
      <3>2. commits - unseen = 0 \/ commits - unseen = 1
        BY DEF BackoffInv, ConfirmedOnce
      <3> QED
        BY <3>1, <3>2
    <2>7. canceled \in BOOLEAN
      BY DEF OneCommitEach
    <2> QED
      BY <2>1, <2>3, <2>4, <2>5, <2>6, <2>7 DEF ControlOK, BackoffTypeOK
  <1> QED
    BY <1>1, InitBackoff, InitDelays, InitCommits, NextBackoff, NextDelays, NextCommits, PTL DEF BackoffSpec
=============================================================================
