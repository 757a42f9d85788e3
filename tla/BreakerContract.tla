--------------------------- MODULE BreakerContract ---------------------------
(***************************************************************************)
(* What package circuitbreaker promises its callers, stated without the    *)
(* counters and the generation number of the implementation.               *)
(*                                                                         *)
(* The breaker lives through episodes (closed, open, half-open).  It       *)
(* remembers the outcomes the current episode has recorded, in completion  *)
(* order, and knows of every outstanding call only whether it was admitted *)
(* by the current episode ("live") or by an earlier one ("stale").         *)
(* CircuitBreaker.tla is shown to implement this module.                   *)
(***************************************************************************)
EXTENDS Integers, Sequences, FiniteSets

CONSTANTS Callers,           \* goroutines that call Do
          FailureThreshold,  \* consecutive failures that trip a closed breaker
          SuccessThreshold,  \* probe successes that close a half-open breaker
          OpenTimeout        \* ticks a tripped breaker rejects every call

VARIABLES mode,     \* the episode's kind
          cooling,  \* ticks since the breaker last tripped, capped at OpenTimeout
          history,  \* the last outcomes recorded by this episode, oldest first
          call      \* each caller's outstanding call

vars == <<mode, cooling, history, call>>

Live == {c \in Callers : call[c] = "live"}

(* Calls still outstanding when an episode ends belong to nobody.          *)
Orphaned == [c \in Callers |-> IF call[c] = "live" THEN "stale" ELSE call[c]]

(* The history with one more outcome, cut to the FailureThreshold latest.  *)
Recent(o) ==
    IF Len(history) < FailureThreshold
    THEN Append(history, o)
    ELSE Append(Tail(history), o)

AllFailures(h) == Len(h) = FailureThreshold /\ \A i \in 1..Len(h) : h[i] = "failed"

Init ==
    /\ mode = "closed"
    /\ cooling = OpenTimeout
    /\ history = <<>>
    /\ call = [c \in Callers |-> "idle"]

(* A closed breaker lets every call through.                               *)
PassClosed(c) ==
    /\ call[c] = "idle"
    /\ mode = "closed"
    /\ call' = [call EXCEPT ![c] = "live"]
    /\ UNCHANGED <<mode, cooling, history>>

(* A half-open breaker never has more trial calls outstanding than it      *)
(* still needs successes.                                                  *)
PassProbe(c) ==
    /\ call[c] = "idle"
    /\ mode = "half-open"
    /\ Cardinality(Live) + Len(history) < SuccessThreshold
    /\ call' = [call EXCEPT ![c] = "live"]
    /\ UNCHANGED <<mode, cooling, history>>

(* The first call after the full cool-down is the first probe.             *)
FirstProbe(c) ==
    /\ call[c] = "idle"
    /\ mode = "open"
    /\ cooling = OpenTimeout
    /\ mode' = "half-open"
    /\ history' = <<>>
    /\ call' = [Orphaned EXCEPT ![c] = "live"]
    /\ UNCHANGED cooling

(* An outcome that does not end the episode is remembered by it.           *)
Remember(c, o) ==
    /\ call[c] = "live"
    /\ \/ /\ mode = "closed"
          /\ ~AllFailures(Recent(o))
          /\ history' = Recent(o)
       \/ /\ mode = "half-open"
          /\ o = "ok"
          /\ Len(history) + 1 < SuccessThreshold
          /\ history' = Append(history, o)
    /\ call' = [call EXCEPT ![c] = "idle"]
    /\ UNCHANGED <<mode, cooling>>

(* FailureThreshold failures in a row, or a single failed probe, trip it.  *)
Trip(c) ==
    /\ call[c] = "live"
    /\ \/ mode = "closed" /\ AllFailures(Recent("failed"))
       \/ mode = "half-open"
    /\ mode' = "open"
    /\ cooling' = 0
    /\ history' = <<>>
    /\ call' = [Orphaned EXCEPT ![c] = "idle"]

(* SuccessThreshold successful probes, and nothing less, close it.         *)
Heal(c) ==
    /\ call[c] = "live"
    /\ mode = "half-open"
    /\ Len(history) + 1 = SuccessThreshold
    /\ mode' = "closed"
    /\ history' = <<>>
    /\ call' = [Orphaned EXCEPT ![c] = "idle"]
    /\ UNCHANGED cooling

(* A stale call ends without the breaker noticing.                         *)
Forget(c) ==
    /\ call[c] = "stale"
    /\ call' = [call EXCEPT ![c] = "idle"]
    /\ UNCHANGED <<mode, cooling, history>>

Cool ==
    /\ mode = "open"
    /\ cooling < OpenTimeout
    /\ cooling' = cooling + 1
    /\ UNCHANGED <<mode, history, call>>

Next ==
    \/ \E c \in Callers :
          \/ PassClosed(c) \/ PassProbe(c) \/ FirstProbe(c)
          \/ Trip(c) \/ Heal(c) \/ Forget(c)
          \/ \E o \in {"ok", "failed"} : Remember(c, o)
    \/ Cool

Spec == Init /\ [][Next]_vars
=============================================================================
