----------------------------- MODULE RateLimiter -----------------------------
(***************************************************************************)
(* pkg/ratelimit: Limiter, with NewLimiter, Allow, Wait, advance and wait. *)
(*                                                                         *)
(* Tokens are counted in units: a token is One units and a tick of the     *)
(* clock, one nanosecond, adds Rate of them, so that fractional tokens and *)
(* the rounding of the sleep are kept.  The error of float64 is not, nor   *)
(* the range of a Duration: a shortfall that takes more than 292 years to  *)
(* repay would overflow it, and wait return at once.                       *)
(* Each caller makes one call, of Allow or of Wait.  The sections under    *)
(* the mutex, advance included, are one step each.                         *)
(***************************************************************************)
EXTENDS Integers, Sequences, FiniteSets

CONSTANTS Callers,
          One,      \* units in a token
          Rate,     \* units added per tick
          Burst,    \* capacity, in tokens
          MaxTime   \* bound: the clock stops here

(* NewLimiter panics on any other limits.                                  *)
ASSUME LimitAssumption == One \in Nat \ {0} /\ Rate \in Nat \ {0} /\ Burst \in Nat \ {0}
ASSUME BoundAssumption == IsFiniteSet(Callers) /\ MaxTime \in Nat

VARIABLES tokens, last,  \* the Limiter, under mu; negative tokens are debt
          now,           \* the clock
          pc,            \* where each call is
          timer,         \* a Wait's duration d, then the instant its timer fires
          done,          \* calls whose context is done
          log,           \* auxiliary: the calls that took a token, in order, each with
                         \* the instant that token is funded and the repayments before it
          repaid,        \* auxiliary: reservations repaid so far
          spilled        \* auxiliary: units lost because the bucket was full

bucket == <<tokens, last>>
vars == <<bucket, now, pc, timer, done, log, repaid, spilled>>

Capacity == Burst * One
Cap(units) == IF units > Capacity THEN Capacity ELSE units
Over(units) == units - Cap(units)

Init ==
    /\ tokens = Capacity
    /\ last = 0
    /\ now = 0
    /\ pc = [c \in Callers |-> "idle"]
    /\ timer = [c \in Callers |-> 0]
    /\ done = {}
    /\ log = <<>>
    /\ repaid = 0
    /\ spilled = 0

-----------------------------------------------------------------------------
(* advance: the refill since last, up to the capacity.                     *)

Refilled == tokens + Rate * (now - last)
Current == Cap(Refilled)

Bug_BringCurrent(lost) == last' = last /\ spilled' = spilled + Over(Refilled) + lost
BringCurrent(lost) == last' = now /\ spilled' = spilled + Over(Refilled) + lost

Take(c, funded) == log' = Append(log, [call |-> c, fund |-> funded, repaid |-> repaid])

-----------------------------------------------------------------------------
(* Allow *)

AllowGranted(c) ==
    /\ pc[c] = "idle"
    /\ Current >= One
    /\ tokens' = Current - One
    /\ BringCurrent(0)
    /\ Take(c, now)
    /\ pc' = [pc EXCEPT ![c] = "admitted"]
    /\ UNCHANGED <<now, timer, done, repaid>>

AllowShed(c) ==
    /\ pc[c] = "idle"
    /\ Current < One
    /\ tokens' = Current
    /\ BringCurrent(0)
    /\ pc' = [pc EXCEPT ![c] = "shed"]
    /\ UNCHANGED <<now, timer, done, log, repaid>>

-----------------------------------------------------------------------------
(* Wait *)

WaitRefused(c) ==
    /\ pc[c] = "idle"
    /\ c \in done
    /\ pc' = [pc EXCEPT ![c] = "refused"]
    /\ UNCHANGED <<bucket, now, timer, done, log, repaid, spilled>>

Shortfall == One - Current

(* The time in which Rate fills units, rounded up: never 0 for a shortfall.*)
Bug_Delay(units) == units \div Rate
Delay(units) == (units + Rate - 1) \div Rate

Bug_Reserve(c) ==
    /\ tokens' = IF Shortfall <= 0 THEN Current - One ELSE Current
    /\ BringCurrent(0)

Reserve(c) == tokens' = Current - One /\ BringCurrent(0)

WaitAdmitted(c) ==
    /\ pc[c] = "idle"
    /\ c \notin done
    /\ Shortfall <= 0
    /\ Reserve(c)
    /\ Take(c, now)
    /\ pc' = [pc EXCEPT ![c] = "admitted"]
    /\ UNCHANGED <<now, timer, done, repaid>>

WaitReserves(c) ==
    /\ pc[c] = "idle"
    /\ c \notin done
    /\ Shortfall > 0
    /\ Reserve(c)
    /\ Take(c, now + Delay(Shortfall))
    /\ timer' = [timer EXCEPT ![c] = Delay(Shortfall)]
    /\ pc' = [pc EXCEPT ![c] = "reserved"]
    /\ UNCHANGED <<now, done, repaid>>

(* The timer is created after the unlock, perhaps a good while after.      *)
TimerStarts(c) ==
    /\ pc[c] = "reserved"
    /\ timer' = [timer EXCEPT ![c] = @ + now]
    /\ pc' = [pc EXCEPT ![c] = "sleeping"]
    /\ UNCHANGED <<bucket, now, done, log, repaid, spilled>>

WaitFunded(c) ==
    /\ pc[c] = "sleeping"
    /\ now >= timer[c]
    /\ pc' = [pc EXCEPT ![c] = "admitted"]
    /\ UNCHANGED <<bucket, now, timer, done, log, repaid, spilled>>

Bug_Repay == tokens' = Current /\ BringCurrent(0)
Repay == tokens' = Cap(Current + One) /\ BringCurrent(Over(Current + One))

(* The context ended first, or the select preferred it to a fired timer.   *)
WaitRepaid(c) ==
    /\ pc[c] = "sleeping"
    /\ c \in done
    /\ Repay
    /\ repaid' = repaid + 1
    /\ pc' = [pc EXCEPT ![c] = "canceled"]
    /\ UNCHANGED <<now, timer, done, log>>

-----------------------------------------------------------------------------
(* The clock and the callers' contexts *)

Tick ==
    /\ now < MaxTime
    /\ now' = now + 1
    /\ UNCHANGED <<bucket, pc, timer, done, log, repaid, spilled>>

Cancel(c) ==
    /\ pc[c] \in {"idle", "reserved", "sleeping"}
    /\ c \notin done
    /\ done' = done \cup {c}
    /\ UNCHANGED <<bucket, now, pc, timer, log, repaid, spilled>>

Allow(c) == AllowGranted(c) \/ AllowShed(c)

Wait(c) ==
    \/ WaitRefused(c) \/ WaitAdmitted(c) \/ WaitReserves(c)
    \/ TimerStarts(c) \/ WaitFunded(c) \/ WaitRepaid(c)

Next == Tick \/ \E c \in Callers : Allow(c) \/ Wait(c) \/ Cancel(c)

Spec == Init /\ [][Next]_vars

-----------------------------------------------------------------------------
TypeOK ==
    /\ tokens \in Int /\ tokens <= Capacity
    /\ now \in 0..MaxTime
    /\ last \in 0..now
    /\ pc \in [Callers -> {"idle", "admitted", "shed", "refused", "reserved", "sleeping",
                           "canceled"}]
    /\ timer \in [Callers -> Nat]
    /\ done \subseteq Callers
    /\ log \in Seq([call : Callers, fund : Nat, repaid : Nat])
    /\ repaid \in Nat
    /\ spilled \in Nat

(* The entries of log whose token was not given back, and the instant at   *)
(* which each is funded.                                                   *)
Kept == {i \in DOMAIN log : pc[log[i].call] # "canceled"}
FundedBetween(s, t) == {i \in Kept : log[i].fund \in s..t}
FundedAfter(t) == {i \in Kept : log[i].fund > t}

(* "A canceled Wait never costs a token", and no token comes from nowhere: *)
(* what went in is in the bucket, with a call that was admitted or sleeps  *)
(* on its reservation, or was lost at the cap.                             *)
Conservation ==
    tokens + One * Cardinality(Kept) + spilled = Capacity + Rate * last

(* Each waiter "sleeps exactly until its own token is funded": at every    *)
(* instant to come, the debt left by the refill belongs to calls that      *)
(* still sleep at that instant, whoever cancels and repays in between.     *)
Covered(t) == tokens + Rate * (t - last) + One * Cardinality(FundedAfter(t)) >= 0

DebtCovered ==
    \A t \in {now} \cup {log[i].fund : i \in Kept} : t >= now => Covered(t)

(* The limit itself.  ADR-0012 has "admitted <= burst + rate * elapsed"    *)
(* over any window, and that is true only while nothing is repaid: when a  *)
(* Wait is canceled the waiters behind it keep the later instants they     *)
(* were given, while the next to arrive is given the instant in front.  A  *)
(* window of time funds no more than a full bucket, the refill of the      *)
(* window, and the reservations repaid between the arrivals of the first   *)
(* and the last call it funds; those repaid before or after add nothing.   *)
(* (Instants are rounded up, so the window is open on the left at s - 1.)  *)
Spans(W, a, b) == a \in W /\ b \in W /\ \A i \in W : a <= i /\ i <= b

RateHolds ==
    \A s, t \in {log[i].fund : i \in Kept} :
        LET W == FundedBetween(s, t)
        IN  \A a, b \in W :
                Spans(W, a, b) => One * Cardinality(W) < Capacity + Rate * (t - s + 1)
                                         + One * (log[b].repaid - log[a].repaid)

(* What is left of "served in the order they arrive" when reservations are *)
(* repaid: a later call, an Allow included, is funded before an earlier    *)
(* one only if at least two were repaid between their arrivals.            *)
ServedInOrder ==
    \A j \in DOMAIN log : \A i \in 1..(j - 1) :
        log[j].fund < log[i].fund => log[j].repaid - log[i].repaid >= 2
=============================================================================
