------------------------------- MODULE Pipeline -------------------------------
(***************************************************************************)
(* pkg/fanout's Split and pkg/fanin's Merge, joined into the pipeline they *)
(* are halves of: a source feeds Split, whose outputs, the lanes, are the  *)
(* inputs of Merge, whose output a consumer reads.  Every channel is       *)
(* unbuffered, so a send and its receive are one step.  The two halves     *)
(* have contexts of their own.  A forwarder holds at most one value.       *)
(***************************************************************************)
EXTENDS Integers, Sequences, FiniteSets

CONSTANTS Lanes, MaxValues  \* bound: the values the source may send

(* Both are no-ops without lanes.                                          *)
ASSUME LaneAssumption == Lanes # {} /\ IsFiniteSet(Lanes) /\ MaxValues \in Nat

Halves == {"split", "merge"}
Forwarders == Halves \X Lanes
Empty == 0
Values == 1..MaxValues

VARIABLES sent,      \* the values 1..sent have left the source
          inClosed,  \* the source has closed in
          hand,      \* the value each forwarder holds, or Empty
          exited,    \* forwarders that have returned; a splitter closes its lane
          outClosed, \* Merge's output is closed
          canceled,  \* halves whose context is done
          reading,   \* the consumer still reads
          got,       \* what it read: values with the lane they came by
          dropped    \* auxiliary: values a forwarder gave up, with its half

vars == <<sent, inClosed, hand, exited, outClosed, canceled, reading, got, dropped>>

Init ==
    /\ sent = 0
    /\ inClosed = FALSE
    /\ hand = [f \in Forwarders |-> Empty]
    /\ exited = {}
    /\ outClosed = FALSE
    /\ canceled = {}
    /\ reading = TRUE
    /\ got = <<>>
    /\ dropped = {}

HasValue(f) == hand[f] # Empty

Receives(f) == f \notin exited /\ hand[f] = Empty

-----------------------------------------------------------------------------
(* The values' way through the channels *)

SplitTakes(l) ==
    /\ Receives(<<"split", l>>)
    /\ ~inClosed /\ sent < MaxValues
    /\ sent' = sent + 1
    /\ hand' = [hand EXCEPT ![<<"split", l>>] = sent + 1]
    /\ UNCHANGED <<inClosed, exited, outClosed, canceled, reading, got, dropped>>

Bug_LaneSend(l) == hand' = [hand EXCEPT ![<<"merge", l>>] = hand[<<"split", l>>]]

Bug_SharedLane(l) ==
    \E k \in Lanes :
        /\ Receives(<<"merge", k>>)
        /\ hand' = [hand EXCEPT ![<<"merge", k>>] = hand[<<"split", l>>],
                                ![<<"split", l>>] = Empty]

LaneSend(l) == hand' = [hand EXCEPT ![<<"merge", l>>] = hand[<<"split", l>>],
                                    ![<<"split", l>>] = Empty]

LanePasses(l) ==
    /\ HasValue(<<"split", l>>)
    /\ Receives(<<"merge", l>>)
    /\ LaneSend(l)
    /\ UNCHANGED <<sent, inClosed, exited, outClosed, canceled, reading, got, dropped>>

MergeSends(l) ==
    /\ HasValue(<<"merge", l>>)
    /\ reading
    /\ got' = Append(got, [value |-> hand[<<"merge", l>>], lane |-> l])
    /\ hand' = [hand EXCEPT ![<<"merge", l>>] = Empty]
    /\ UNCHANGED <<sent, inClosed, exited, outClosed, canceled, reading, dropped>>

-----------------------------------------------------------------------------
(* The forwarders' ways out *)

InputClosed(f) == IF f[1] = "split" THEN inClosed ELSE <<"split", f[2]>> \in exited

ExitsOnClose(f) ==
    /\ Receives(f)
    /\ InputClosed(f)
    /\ exited' = exited \cup {f}
    /\ UNCHANGED <<sent, inClosed, hand, outClosed, canceled, reading, got, dropped>>

Bug_ExitsOnCancel(f) ==
    /\ f \notin exited /\ hand[f] = Empty
    /\ f[1] \in canceled
    /\ exited' = exited \cup {f}
    /\ UNCHANGED <<sent, inClosed, hand, outClosed, canceled, reading, got, dropped>>

(* Either select: a value in hand is dropped.                              *)
ExitsOnCancel(f) ==
    /\ f \notin exited
    /\ f[1] \in canceled
    /\ exited' = exited \cup {f}
    /\ hand' = [hand EXCEPT ![f] = Empty]
    /\ dropped' = IF hand[f] = Empty THEN dropped
                  ELSE dropped \cup {[value |-> hand[f], half |-> f[1]]}
    /\ UNCHANGED <<sent, inClosed, outClosed, canceled, reading, got>>

Bug_MergersDone == \E l \in Lanes : <<"merge", l>> \in exited
MergersDone == \A l \in Lanes : <<"merge", l>> \in exited

(* The goroutine that waits for Merge's forwarders.                        *)
OutCloses ==
    /\ MergersDone
    /\ ~outClosed
    /\ outClosed' = TRUE
    /\ UNCHANGED <<sent, inClosed, hand, exited, canceled, reading, got, dropped>>

-----------------------------------------------------------------------------
(* The callers: the source, the contexts, the consumer.                    *)

SourceCloses ==
    /\ ~inClosed
    /\ inClosed' = TRUE
    /\ UNCHANGED <<sent, hand, exited, outClosed, canceled, reading, got, dropped>>

Cancel(h) ==
    /\ h \notin canceled
    /\ canceled' = canceled \cup {h}
    /\ UNCHANGED <<sent, inClosed, hand, exited, outClosed, reading, got, dropped>>

(* "Either drain the output until it closes or cancel ctx": a consumer     *)
(* that stops reading has canceled both contexts.                          *)
ConsumerLeaves ==
    /\ reading
    /\ canceled = Halves
    /\ reading' = FALSE
    /\ UNCHANGED <<sent, inClosed, hand, exited, outClosed, canceled, got, dropped>>

-----------------------------------------------------------------------------
Forward(f) == ExitsOnClose(f) \/ ExitsOnCancel(f)
Pass(l) == LanePasses(l) \/ MergeSends(l)

Next ==
    \/ \E l \in Lanes : SplitTakes(l) \/ Pass(l)
    \/ \E f \in Forwarders : Forward(f)
    \/ \E h \in Halves : Cancel(h)
    \/ OutCloses \/ SourceCloses \/ ConsumerLeaves

Spec == Init /\ [][Next]_vars

(* The goroutines are scheduled, and a consumer that reads goes on reading.*)
(* The source need not send, and nobody need close or cancel.              *)
Fairness ==
    /\ \A l \in Lanes : WF_vars(LanePasses(l)) /\ WF_vars(MergeSends(l))
    /\ \A f \in Forwarders : WF_vars(Forward(f))
    /\ WF_vars(OutCloses)

FairSpec == Spec /\ Fairness

-----------------------------------------------------------------------------
TypeOK ==
    /\ sent \in 0..MaxValues
    /\ inClosed \in BOOLEAN
    /\ hand \in [Forwarders -> Values \cup {Empty}]
    /\ exited \subseteq Forwarders
    /\ outClosed \in BOOLEAN
    /\ canceled \subseteq Halves
    /\ reading \in BOOLEAN
    /\ got \in Seq([value : Values, lane : Lanes])
    /\ dropped \subseteq [value : Values, half : Halves]

(* "Never drops or duplicates a value": each value that left the source is *)
(* in exactly one place, with a forwarder, with the consumer, or dropped   *)
(* by a half whose context was canceled.                                   *)
Holders(v) == {f \in Forwarders : hand[f] = v}
Reads(v) == {i \in DOMAIN got : got[i].value = v}
Drops(v) == {d \in dropped : d.value = v}

DeliveredOnce ==
    /\ \A v \in 1..sent :
          Cardinality(Holders(v)) + Cardinality(Reads(v)) + Cardinality(Drops(v)) = 1
    /\ \A d \in dropped : d.half \in canceled

(* "The values any single output receives preserve their input order", and *)
(* Merge "preserves per-input ordering": lane by lane, the consumer reads  *)
(* in the source's order.                                                  *)
LaneOrder ==
    \A j \in DOMAIN got : \A i \in 1..(j - 1) :
        got[i].lane = got[j].lane => got[i].value < got[j].value

(* The output closes when nobody can send on it any more, and unless a     *)
(* context was canceled the consumer then has everything that was sent.    *)
ClosedMeansComplete ==
    outClosed =>
        /\ \A l \in Lanes : hand[<<"merge", l>>] = Empty /\ <<"merge", l>> \in exited
        /\ canceled = {} => inClosed /\ Len(got) = sent

(* "Leaks no goroutines": once the source has closed, or both contexts are *)
(* canceled, every forwarder exits and the output closes.  The exception:  *)
(* Merge canceled alone abandons the lanes, and a forwarder of Split that  *)
(* holds a value then waits for ever, also when the source has closed.     *)
NothingLeaks ==
    (inClosed \/ canceled = Halves) ~>
        ((exited = Forwarders /\ outClosed) \/ canceled = {"merge"})
=============================================================================
