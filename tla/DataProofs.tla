------------------------------ MODULE DataProofs ------------------------------
(***************************************************************************)
(* The two modules that hand values on.                                    *)
(*                                                                         *)
(* The pipeline, for any set of lanes and any number of values: Split and  *)
(* Merge together neither drop nor duplicate a value, lanes keep the       *)
(* source's order, and a closed output means that nothing is left to come. *)
(*                                                                         *)
(* The cache, for any number of keys, shards and calls and any durations:  *)
(* a Get answers what was true of its key, and the sweeper takes nothing   *)
(* that is alive.                                                          *)
(***************************************************************************)
EXTENDS Pipeline, Cache, FiniteSetTheorems, SequenceTheorems, TLAPS

Splitter(l) == <<"split", l>>
Merger(l) == <<"merge", l>>

(* Nothing beyond what the source has sent, and drops only when canceled.  *)
Bounded ==
    /\ \A f \in Forwarders : hand[f] <= sent
    /\ \A i \in DOMAIN got : got[i].value <= sent
    /\ \A d \in dropped : d.value <= sent

DropsCanceled == \A d \in dropped : d.half \in canceled

(* No value is in two places.                                              *)
Distinct ==
    /\ \A f, g \in Forwarders : HasValue(f) /\ hand[f] = hand[g] => f = g
    /\ \A i, j \in DOMAIN got : got[i].value = got[j].value => i = j
    /\ \A d, e \in dropped : d.value = e.value => d = e
    /\ \A f \in Forwarders, i \in DOMAIN got : hand[f] # got[i].value
    /\ \A f \in Forwarders, d \in dropped : hand[f] # d.value
    /\ \A i \in DOMAIN got, d \in dropped : got[i].value # d.value

(* Every value that left the source is somewhere.                          *)
Accounted ==
    \A v \in 1..sent : \/ \E f \in Forwarders : hand[f] = v
                       \/ \E i \in DOMAIN got : got[i].value = v
                       \/ \E d \in dropped : d.value = v

(* Along a lane: what the consumer has, what Merge holds, what Split holds *)
(* are ever later values.                                                  *)
AlongLane ==
    \A l \in Lanes :
        /\ HasValue(Merger(l)) /\ HasValue(Splitter(l)) => hand[Merger(l)] < hand[Splitter(l)]
        /\ \A i \in DOMAIN got : got[i].lane = l =>
              /\ HasValue(Merger(l)) => got[i].value < hand[Merger(l)]
              /\ HasValue(Splitter(l)) => got[i].value < hand[Splitter(l)]

(* A forwarder returns with empty hands; the output closes behind the last *)
(* one; and unless a context is canceled a lane's forwarders return after  *)
(* their inputs have closed, dropping nothing.                             *)
Orderly ==
    /\ \A f \in exited : hand[f] = Empty
    /\ outClosed => MergersDone
    /\ canceled = {} => /\ \A f \in exited : InputClosed(f)
                        /\ dropped = {}

PInv == TypeOK /\ Bounded /\ DropsCanceled /\ Distinct /\ Accounted /\ AlongLane /\ LaneOrder /\ Orderly

-----------------------------------------------------------------------------
LEMMA ForwarderFacts ==
    /\ \A l \in Lanes : Splitter(l) \in Forwarders /\ Merger(l) \in Forwarders
    /\ \A l, k \in Lanes : Splitter(l) # Merger(k)
    /\ \A l, k \in Lanes : Splitter(l) = Splitter(k) => l = k
    /\ \A l, k \in Lanes : Merger(l) = Merger(k) => l = k
    /\ \A l \in Lanes : /\ Splitter(l)[1] = "split" /\ Splitter(l)[2] = l
                        /\ Merger(l)[1] = "merge" /\ Merger(l)[2] = l
    /\ \A f \in Forwarders : f[1] \in Halves /\ f[2] \in Lanes
  BY DEF Forwarders, Halves, Splitter, Merger

(* TypeOK, a variable at a time.                                           *)
LEMMA TypeFacts ==
    ASSUME TypeOK
    PROVE  /\ sent \in Nat /\ sent \in Int /\ sent <= MaxValues
           /\ DOMAIN hand = Forwarders
           /\ \A f \in Forwarders : hand[f] \in Nat /\ hand[f] \in Int
           /\ got \in Seq([value : Values, lane : Lanes])
           /\ Len(got) \in Nat /\ DOMAIN got = 1..Len(got)
           /\ \A i \in DOMAIN got : got[i].value \in Values /\ got[i].value \in Int /\ got[i].value # Empty
           /\ \A d \in dropped : d.value \in Values /\ d.value \in Int /\ d.value # Empty
  <1>1. sent \in 0..MaxValues /\ hand \in [Forwarders -> Values \cup {Empty}]
    BY DEF TypeOK
  <1>2. got \in Seq([value : Values, lane : Lanes]) /\ dropped \subseteq [value : Values, half : Halves]
    BY DEF TypeOK
  <1>3. Len(got) \in Nat /\ DOMAIN got = 1..Len(got)
    BY <1>2, LenProperties
  <1>4. \A i \in DOMAIN got : got[i] \in [value : Values, lane : Lanes]
    BY <1>2, <1>3, ElementOfSeq
  <1>5. \A v \in Values : v \in Int /\ v \in Nat /\ v # Empty
    BY LaneAssumption DEF Values, Empty
  <1>6. Empty \in Nat /\ Empty \in Int
    BY DEF Empty
  <1> HIDE DEF Values, Empty
  <1>7. \A f \in Forwarders : hand[f] \in Nat /\ hand[f] \in Int
    BY <1>1, <1>5, <1>6
  <1> QED
    BY <1>1, <1>2, <1>3, <1>4, <1>5, <1>7, LaneAssumption

(* The new value of a function changed at one place.                       *)
LEMMA HandUpdate ==
    ASSUME TypeOK, NEW f \in Forwarders, NEW v, hand' = [hand EXCEPT ![f] = v]
    PROVE  hand'[f] = v /\ \A g \in Forwarders : g # f => hand'[g] = hand[g]
  BY TypeFacts

LEMMA InitPInv == Init => PInv
  <1> SUFFICES ASSUME Init PROVE PInv
    OBVIOUS
  <1>1. 0 \in 0..MaxValues
    BY LaneAssumption
  <1>2. DOMAIN got = {} /\ got \in Seq([value : Values, lane : Lanes])
    BY DEF Init
  <1>3. TypeOK
    BY <1>1, <1>2 DEF Init, TypeOK
  <1>4. Bounded /\ DropsCanceled /\ Accounted
    BY <1>2 DEF Init, Bounded, DropsCanceled, Accounted, Empty
  <1>5. Distinct /\ AlongLane /\ LaneOrder /\ Orderly
    BY <1>2, ForwarderFacts DEF Init, Distinct, AlongLane, LaneOrder, Orderly, HasValue
  <1> QED
    BY <1>3, <1>4, <1>5 DEF PInv

-----------------------------------------------------------------------------
(* Types *)
LEMMA NextType == TypeOK /\ [Next]_vars => TypeOK'
  <1> SUFFICES ASSUME TypeOK, [Next]_vars PROVE TypeOK'
    OBVIOUS
  <1>0. /\ \A f \in Forwarders : hand[f] \in Values \cup {Empty}
        /\ hand \in [Forwarders -> Values \cup {Empty}]
    BY DEF TypeOK
  <1>1. ASSUME NEW l \in Lanes, SplitTakes(l) PROVE TypeOK'
    <2>1. sent + 1 \in 0..MaxValues /\ sent + 1 \in Values
      BY <1>1, TypeFacts, LaneAssumption DEF SplitTakes, Values
    <2>2. hand' \in [Forwarders -> Values \cup {Empty}]
      BY <1>0, <1>1, <2>1 DEF SplitTakes
    <2> QED
      BY <1>1, <2>1, <2>2 DEF SplitTakes, TypeOK
  <1>2. ASSUME NEW l \in Lanes, LanePasses(l) PROVE TypeOK'
    <2>1. hand' \in [Forwarders -> Values \cup {Empty}]
      BY <1>0, <1>2, ForwarderFacts DEF LanePasses, LaneSend, Splitter
    <2> QED
      BY <1>2, <2>1 DEF LanePasses, TypeOK
  <1>3. ASSUME NEW l \in Lanes, MergeSends(l) PROVE TypeOK'
    <2>1. hand' \in [Forwarders -> Values \cup {Empty}]
      BY <1>0, <1>3 DEF MergeSends
    <2>2. hand[Merger(l)] \in Values
      BY <1>0, <1>3, ForwarderFacts DEF MergeSends, HasValue, Merger
    <2>3. [value |-> hand[Merger(l)], lane |-> l] \in [value : Values, lane : Lanes]
      BY <2>2
    <2>4. got' \in Seq([value : Values, lane : Lanes])
      BY <1>3, <2>3, TypeFacts, AppendProperties DEF MergeSends, Merger
    <2> QED
      BY <1>3, <2>1, <2>4 DEF MergeSends, TypeOK
  <1>4. ASSUME NEW f \in Forwarders, ExitsOnClose(f) PROVE TypeOK'
    BY <1>4 DEF ExitsOnClose, TypeOK
  <1>5. ASSUME NEW f \in Forwarders, ExitsOnCancel(f) PROVE TypeOK'
    <2>1. hand' \in [Forwarders -> Values \cup {Empty}]
      BY <1>0, <1>5 DEF ExitsOnCancel
    <2>2. hand[f] # Empty => hand[f] \in Values
      BY <1>0
    <2>3. dropped' \subseteq [value : Values, half : Halves]
      BY <1>5, <2>2, ForwarderFacts DEF ExitsOnCancel, TypeOK
    <2> QED
      BY <1>5, <2>1, <2>3 DEF ExitsOnCancel, TypeOK
  <1>6. ASSUME NEW h \in Halves, Cancel(h) PROVE TypeOK'
    BY <1>6 DEF Cancel, TypeOK
  <1>7. OutCloses => TypeOK'
    BY DEF OutCloses, TypeOK
  <1>8. SourceCloses => TypeOK'
    BY DEF SourceCloses, TypeOK
  <1>9. ConsumerLeaves => TypeOK'
    BY DEF ConsumerLeaves, TypeOK
  <1>10. UNCHANGED vars => TypeOK'
    BY DEF vars, TypeOK
  <1> QED
    BY <1>1, <1>2, <1>3, <1>4, <1>5, <1>6, <1>7, <1>8, <1>9, <1>10 DEF Next, Pass, Forward

-----------------------------------------------------------------------------
(* Where the values are *)

Places == Bounded /\ Distinct /\ Accounted /\ AlongLane /\ LaneOrder

(* A new value is later than every other.                                  *)
LEMMA PlacesTake ==
    ASSUME TypeOK, Places, NEW l \in Lanes, SplitTakes(l)
    PROVE  Places'
  <1> DEFINE s == Splitter(l)
  <1>1. /\ s \in Forwarders /\ hand[s] = Empty /\ sent' = sent + 1
        /\ hand' = [hand EXCEPT ![s] = sent + 1] /\ UNCHANGED <<got, dropped>>
    BY ForwarderFacts DEF SplitTakes, Receives, Splitter
  <1>2. hand'[s] = sent + 1 /\ \A g \in Forwarders : g # s => hand'[g] = hand[g]
    BY <1>1, HandUpdate
  <1>3. s = Splitter(l)
    OBVIOUS
  <1> HIDE DEF s
  <1>4. Bounded'
    BY <1>1, <1>2, TypeFacts DEF Places, Bounded
  <1>5. Distinct'
    <2>1. \A g \in Forwarders : g # s => hand'[g] # sent + 1
      BY <1>2, TypeFacts DEF Places, Bounded
    <2>2. \A f, g \in Forwarders : HasValue(f)' /\ hand'[f] = hand'[g] => f = g
      BY <1>2, <2>1 DEF Places, Distinct, HasValue
    <2>3. \A f \in Forwarders, i \in DOMAIN got : hand'[f] # got[i].value
      BY <1>2, TypeFacts DEF Places, Distinct, Bounded
    <2>4. \A f \in Forwarders, d \in dropped : hand'[f] # d.value
      BY <1>2, TypeFacts DEF Places, Distinct, Bounded
    <2> QED
      BY <1>1, <2>2, <2>3, <2>4 DEF Places, Distinct
  <1>6. Accounted'
    <2> SUFFICES ASSUME NEW v \in 1..(sent + 1)
                 PROVE  \/ \E f \in Forwarders : hand'[f] = v
                        \/ \E i \in DOMAIN got : got[i].value = v
                        \/ \E d \in dropped : d.value = v
      BY <1>1 DEF Accounted
    <2>1. CASE v = sent + 1
      BY <1>1, <1>2, <2>1
    <2>2. CASE v # sent + 1
      <3>1. v \in 1..sent /\ v # Empty
        BY <2>2, TypeFacts DEF Empty
      <3>2. \A f \in Forwarders : hand[f] = v => hand'[f] = v
        BY <1>1, <1>2, <3>1
      <3> QED
        BY <3>1, <3>2 DEF Places, Accounted
    <2> QED
      BY <2>1, <2>2
  <1>7. AlongLane'
    <2> SUFFICES ASSUME NEW k \in Lanes
                 PROVE  /\ HasValue(Merger(k))' /\ HasValue(Splitter(k))' => hand'[Merger(k)] < hand'[Splitter(k)]
                        /\ \A i \in DOMAIN got : got[i].lane = k =>
                             /\ HasValue(Merger(k))' => got[i].value < hand'[Merger(k)]
                             /\ HasValue(Splitter(k))' => got[i].value < hand'[Splitter(k)]
      BY <1>1 DEF AlongLane
    <2>1. Merger(k) \in Forwarders /\ Splitter(k) \in Forwarders /\ hand'[Merger(k)] = hand[Merger(k)]
      BY <1>2, <1>3, ForwarderFacts
    <2>2. CASE k = l
      <3>1. hand'[Splitter(k)] = sent + 1
        BY <1>2, <1>3, <2>2
      <3>2. hand[Merger(k)] < sent + 1 /\ \A i \in DOMAIN got : got[i].value < sent + 1
        BY <2>1, TypeFacts DEF Places, Bounded
      <3> QED
        BY <2>1, <3>1, <3>2 DEF Places, AlongLane, HasValue
    <2>3. CASE k # l
      <3>1. hand'[Splitter(k)] = hand[Splitter(k)]
        BY <1>2, <1>3, <2>1, <2>3, ForwarderFacts
      <3> QED
        BY <2>1, <3>1 DEF Places, AlongLane, HasValue
    <2> QED
      BY <2>2, <2>3
  <1>8. LaneOrder'
    BY <1>1 DEF Places, LaneOrder
  <1> QED
    BY <1>4, <1>5, <1>6, <1>7, <1>8 DEF Places

(* Handed from Split to Merge: still in one place.                         *)
LEMMA PlacesPass ==
    ASSUME TypeOK, Places, NEW l \in Lanes, LanePasses(l)
    PROVE  Places'
  <1> DEFINE s == Splitter(l)
             m == Merger(l)
  <1>1. /\ s \in Forwarders /\ m \in Forwarders /\ s # m
        /\ hand[s] # Empty /\ hand[m] = Empty
        /\ hand' = [hand EXCEPT ![m] = hand[s], ![s] = Empty] /\ UNCHANGED <<sent, got, dropped>>
    BY ForwarderFacts DEF LanePasses, LaneSend, HasValue, Receives, Splitter, Merger
  <1>2. /\ hand'[s] = Empty /\ hand'[m] = hand[s]
        /\ \A g \in Forwarders : g # s /\ g # m => hand'[g] = hand[g]
    BY <1>1, TypeFacts
  <1>3. s = Splitter(l) /\ m = Merger(l)
    OBVIOUS
  <1> HIDE DEF s, m
  <1>4. Bounded'
    <2>1. \A f \in Forwarders : hand'[f] <= sent
      BY <1>1, <1>2, TypeFacts DEF Places, Bounded
    <2> QED
      BY <1>1, <2>1 DEF Places, Bounded
  <1>5. Distinct'
    <2>1. s \in Forwarders /\ m \in Forwarders /\ s # m /\ UNCHANGED <<got, dropped>>
      BY <1>1
    <2>2. \A f, g \in Forwarders : hand[f] # Empty /\ hand[f] = hand[g] => f = g
      BY DEF Places, Distinct, HasValue
    <2>3. \A f, g \in Forwarders : hand'[f] # Empty /\ hand'[f] = hand'[g] => f = g
      BY <1>2, <2>1, <2>2
    <2>4. \A f \in Forwarders : hand'[f] = Empty \/ \E g \in Forwarders : hand'[f] = hand[g]
      BY <1>2, <2>1
    <2>5. \A f \in Forwarders, i \in DOMAIN got : hand'[f] # got[i].value
      BY <2>4, TypeFacts DEF Places, Distinct
    <2>6. \A f \in Forwarders, d \in dropped : hand'[f] # d.value
      BY <2>4, TypeFacts DEF Places, Distinct
    <2> QED
      BY <2>1, <2>3, <2>5, <2>6 DEF Places, Distinct, HasValue
  <1>6. Accounted'
    <2>1. \A v \in 1..sent : v # Empty
      BY DEF Empty
    <2>2. \A v \in 1..sent : (\E f \in Forwarders : hand[f] = v) => \E f \in Forwarders : hand'[f] = v
      BY <1>1, <1>2, <2>1
    <2> QED
      BY <1>1, <2>2 DEF Places, Accounted
  <1>7. AlongLane'
    <2> SUFFICES ASSUME NEW k \in Lanes
                 PROVE  /\ HasValue(Merger(k))' /\ HasValue(Splitter(k))' => hand'[Merger(k)] < hand'[Splitter(k)]
                        /\ \A i \in DOMAIN got : got[i].lane = k =>
                             /\ HasValue(Merger(k))' => got[i].value < hand'[Merger(k)]
                             /\ HasValue(Splitter(k))' => got[i].value < hand'[Splitter(k)]
      BY <1>1 DEF AlongLane
    <2>1. CASE k = l
      BY <1>1, <1>2, <1>3, <2>1 DEF Places, AlongLane, HasValue
    <2>2. CASE k # l
      <3>1. hand'[Splitter(k)] = hand[Splitter(k)] /\ hand'[Merger(k)] = hand[Merger(k)]
        BY <1>2, <1>3, <2>2, ForwarderFacts
      <3> QED
        BY <3>1 DEF Places, AlongLane, HasValue
    <2> QED
      BY <2>1, <2>2
  <1>8. LaneOrder'
    BY <1>1 DEF Places, LaneOrder
  <1> QED
    BY <1>4, <1>5, <1>6, <1>7, <1>8 DEF Places

(* Read by the consumer, after everything it has from this lane.           *)
LEMMA PlacesSend ==
    ASSUME TypeOK, Places, NEW l \in Lanes, MergeSends(l)
    PROVE  Places'
  <1> DEFINE m == Merger(l)
             n == Len(got)
             v == hand[m]
  <1>1. /\ m \in Forwarders /\ v # Empty /\ v \in Int
        /\ hand' = [hand EXCEPT ![m] = Empty] /\ UNCHANGED <<sent, dropped>>
        /\ got' = Append(got, [value |-> v, lane |-> l])
    BY ForwarderFacts, TypeFacts DEF MergeSends, HasValue, Merger
  <1>2. hand'[m] = Empty /\ \A g \in Forwarders : g # m => hand'[g] = hand[g]
    BY <1>1, HandUpdate
  <1>3. v \in Values
    BY <1>1 DEF TypeOK
  <1>4. /\ n \in Nat /\ DOMAIN got = 1..n /\ DOMAIN got' = 1..(n + 1)
        /\ got'[n + 1].value = v /\ got'[n + 1].lane = l
        /\ \A i \in 1..n : got'[i] = got[i]
    <2>1. n \in Nat /\ DOMAIN got = 1..n /\ got \in Seq([value : Values, lane : Lanes])
      BY TypeFacts
    <2>2. [value |-> v, lane |-> l] \in [value : Values, lane : Lanes]
      BY <1>3
    <2>3. /\ got' \in Seq([value : Values, lane : Lanes]) /\ Len(got') = n + 1
          /\ got'[n + 1] = [value |-> v, lane |-> l] /\ \A i \in 1..n : got'[i] = got[i]
      BY <1>1, <2>1, <2>2, AppendProperties
    <2> QED
      BY <2>1, <2>3, LenProperties
  <1>5. m = Merger(l) /\ v = hand[m]
    OBVIOUS
  <1> HIDE DEF m, n, v
  <1>6. /\ n + 1 \in 1..(n + 1) /\ \A i \in 1..(n + 1) : i = n + 1 \/ i \in 1..n
        /\ n + 1 \notin 1..n /\ \A i \in 1..n : i \in 1..(n + 1)
    BY <1>4
  <1>7. Bounded'
    <2>1. \A f \in Forwarders : hand'[f] <= sent
      BY <1>1, <1>2, TypeFacts DEF Places, Bounded, Empty
    <2>2. \A i \in 1..(n + 1) : got'[i].value <= sent
      BY <1>1, <1>4, <1>5, <1>6 DEF Places, Bounded
    <2> QED
      BY <1>1, <1>4, <2>1, <2>2 DEF Places, Bounded
  <1>8. Distinct'
    <2>1. \A f, g \in Forwarders : HasValue(f)' /\ hand'[f] = hand'[g] => f = g
      BY <1>1, <1>2 DEF Places, Distinct, HasValue
    <2>2. \A i, j \in 1..(n + 1) : got'[i].value = got'[j].value => i = j
      <3>1. \A i \in 1..n : got[i].value # v
        BY <1>1, <1>4, <1>5 DEF Places, Distinct
      <3>2. \A i, j \in 1..n : got[i].value = got[j].value => i = j
        BY <1>4 DEF Places, Distinct
      <3> QED
        BY <1>4, <1>6, <3>1, <3>2
    <2>3. \A f \in Forwarders, i \in 1..(n + 1) : hand'[f] # got'[i].value
      <3>1. \A f \in Forwarders, i \in 1..n : hand'[f] # got[i].value
        BY <1>2, <1>4, TypeFacts DEF Places, Distinct
      <3>2. \A f \in Forwarders : hand'[f] # v
        BY <1>1, <1>2, <1>5 DEF Places, Distinct, HasValue
      <3> QED
        BY <1>4, <1>6, <3>1, <3>2
    <2>4. \A f \in Forwarders, d \in dropped : hand'[f] # d.value
      BY <1>2, TypeFacts DEF Places, Distinct
    <2>5. \A i \in 1..(n + 1), d \in dropped : got'[i].value # d.value
      BY <1>1, <1>4, <1>5, <1>6 DEF Places, Distinct
    <2> QED
      BY <1>1, <1>4, <2>1, <2>2, <2>3, <2>4, <2>5 DEF Places, Distinct
  <1>9. Accounted'
    <2> SUFFICES ASSUME NEW u \in 1..sent
                 PROVE  \/ \E f \in Forwarders : hand'[f] = u
                        \/ \E i \in 1..(n + 1) : got'[i].value = u
                        \/ \E d \in dropped : d.value = u
      BY <1>1, <1>4 DEF Accounted
    <2>1. CASE \E f \in Forwarders : hand[f] = u
      BY <1>2, <1>4, <1>5, <1>6, <2>1
    <2>2. CASE \E i \in DOMAIN got : got[i].value = u
      BY <1>4, <1>6, <2>2
    <2> QED
      BY <2>1, <2>2 DEF Places, Accounted
  <1>10. AlongLane'
    <2> SUFFICES ASSUME NEW k \in Lanes
                 PROVE  /\ HasValue(Merger(k))' /\ HasValue(Splitter(k))' => hand'[Merger(k)] < hand'[Splitter(k)]
                        /\ \A i \in 1..(n + 1) : got'[i].lane = k =>
                             /\ HasValue(Merger(k))' => got'[i].value < hand'[Merger(k)]
                             /\ HasValue(Splitter(k))' => got'[i].value < hand'[Splitter(k)]
      BY <1>4 DEF AlongLane
    <2>1. hand'[Splitter(k)] = hand[Splitter(k)]
      BY <1>2, <1>5, ForwarderFacts
    <2>2. CASE k = l
      <3>1. hand'[Merger(k)] = Empty
        BY <1>2, <1>5, <2>2
      <3>2. HasValue(Splitter(k)) => v < hand[Splitter(k)]
        BY <1>1, <1>5, <2>2 DEF Places, AlongLane, HasValue
      <3>3. \A i \in 1..n : got[i].lane = k /\ HasValue(Splitter(k)) => got[i].value < hand[Splitter(k)]
        BY <1>4 DEF Places, AlongLane
      <3> QED
        BY <1>4, <1>6, <2>1, <3>1, <3>2, <3>3 DEF HasValue
    <2>3. CASE k # l
      <3>1. hand'[Merger(k)] = hand[Merger(k)]
        BY <1>2, <1>5, <2>3, ForwarderFacts
      <3> QED
        BY <1>4, <1>6, <2>1, <2>3, <3>1 DEF Places, AlongLane, HasValue
    <2> QED
      BY <2>2, <2>3
  <1>11. LaneOrder'
    <2> SUFFICES ASSUME NEW j \in 1..(n + 1), NEW i \in 1..(j - 1), got'[i].lane = got'[j].lane
                 PROVE  got'[i].value < got'[j].value
      BY <1>4 DEF LaneOrder
    <2>1. i \in 1..n
      BY <1>4
    <2>2. CASE j = n + 1
      <3>1. got[i].lane = l /\ HasValue(Merger(l))
        BY <1>1, <1>4, <1>5, <2>1, <2>2 DEF HasValue
      <3>2. got[i].value < v
        BY <1>4, <1>5, <2>1, <3>1 DEF Places, AlongLane
      <3> QED
        BY <1>4, <2>1, <2>2, <3>2
    <2>3. CASE j \in 1..n
      BY <1>4, <2>1, <2>3 DEF Places, LaneOrder
    <2> QED
      BY <1>6, <2>2, <2>3
  <1> QED
    BY <1>7, <1>8, <1>9, <1>10, <1>11 DEF Places

(* Given up by a forwarder whose context is canceled.                      *)
LEMMA PlacesDrop ==
    ASSUME TypeOK, Places, NEW f \in Forwarders, ExitsOnCancel(f)
    PROVE  Places'
  <1>1. /\ hand' = [hand EXCEPT ![f] = Empty] /\ UNCHANGED <<sent, got>>
        /\ dropped' = IF hand[f] = Empty THEN dropped
                      ELSE dropped \cup {[value |-> hand[f], half |-> f[1]]}
    BY DEF ExitsOnCancel
  <1>2. hand'[f] = Empty /\ \A g \in Forwarders : g # f => hand'[g] = hand[g]
    BY <1>1, HandUpdate
  <1>3. CASE hand[f] = Empty
    <2>1. \A g \in Forwarders : hand'[g] = hand[g]
      BY <1>2, <1>3
    <2>2. UNCHANGED <<sent, got, dropped>>
      BY <1>1, <1>3
    <2>3. Bounded' /\ Distinct' /\ Accounted'
      BY <2>1, <2>2 DEF Places, Bounded, Distinct, Accounted, HasValue
    <2>4. AlongLane' /\ LaneOrder'
      BY <2>1, <2>2, ForwarderFacts DEF Places, AlongLane, LaneOrder, HasValue
    <2> QED
      BY <2>3, <2>4 DEF Places
  <1>4. CASE hand[f] # Empty
    <2> DEFINE x == [value |-> hand[f], half |-> f[1]]
    <2>1. dropped' = dropped \cup {x} /\ x.value = hand[f]
      BY <1>1, <1>4
    <2> HIDE DEF x
    <2>2. Bounded'
      <3>1. \A g \in Forwarders : hand'[g] <= sent
        BY <1>2, TypeFacts DEF Places, Bounded, Empty
      <3>2. \A d \in dropped' : d.value <= sent
        BY <2>1 DEF Places, Bounded
      <3> QED
        BY <1>1, <3>1, <3>2 DEF Places, Bounded
    <2>3. Distinct'
      <3>1. \A e, g \in Forwarders : HasValue(e)' /\ hand'[e] = hand'[g] => e = g
        BY <1>2 DEF Places, Distinct, HasValue
      <3>2. \A d, e \in dropped' : d.value = e.value => d = e
        BY <2>1 DEF Places, Distinct
      <3>3. \A g \in Forwarders, i \in DOMAIN got : hand'[g] # got[i].value
        BY <1>2, TypeFacts DEF Places, Distinct
      <3>4. \A g \in Forwarders, d \in dropped' : hand'[g] # d.value
        <4>1. \A g \in Forwarders : hand'[g] # hand[f]
          BY <1>2, <1>4 DEF Places, Distinct, HasValue
        <4>2. \A g \in Forwarders, d \in dropped : hand'[g] # d.value
          BY <1>2, TypeFacts DEF Places, Distinct
        <4> QED
          BY <2>1, <4>1, <4>2
      <3>5. \A i \in DOMAIN got, d \in dropped' : got[i].value # d.value
        BY <2>1 DEF Places, Distinct
      <3>6. \A i, j \in DOMAIN got : got[i].value = got[j].value => i = j
        BY DEF Places, Distinct
      <3> QED
        BY <1>1, <3>1, <3>2, <3>3, <3>4, <3>5, <3>6 DEF Distinct
    <2>4. Accounted'
      <3> SUFFICES ASSUME NEW v \in 1..sent
                   PROVE  \/ \E g \in Forwarders : hand'[g] = v
                          \/ \E i \in DOMAIN got : got[i].value = v
                          \/ \E d \in dropped' : d.value = v
        BY <1>1 DEF Accounted
      <3>1. \A g \in Forwarders : hand[g] = v => hand'[g] = v \/ \E d \in dropped' : d.value = v
        BY <1>2, <2>1
      <3> QED
        BY <2>1, <3>1 DEF Places, Accounted
    <2>5. AlongLane'
      <3>1. \A g \in Forwarders : hand'[g] = hand[g] \/ hand'[g] = Empty
        BY <1>2
      <3> QED
        BY <1>1, <3>1, ForwarderFacts DEF Places, AlongLane, HasValue
    <2>6. LaneOrder'
      BY <1>1 DEF Places, LaneOrder
    <2> QED
      BY <2>2, <2>3, <2>4, <2>5, <2>6 DEF Places
  <1> QED
    BY <1>3, <1>4

(* Every step.                                                             *)
LEMMA NextPlaces == TypeOK /\ Places /\ [Next]_vars => Places'
  <1> SUFFICES ASSUME TypeOK, Places, [Next]_vars PROVE Places'
    OBVIOUS
  <1>1. ASSUME UNCHANGED <<sent, hand, got, dropped>> PROVE Places'
    <2>1. Bounded' /\ Distinct' /\ Accounted'
      BY <1>1 DEF Places, Bounded, Distinct, Accounted, HasValue
    <2>2. AlongLane' /\ LaneOrder'
      BY <1>1 DEF Places, AlongLane, LaneOrder, HasValue
    <2> QED
      BY <2>1, <2>2 DEF Places
  <1>2. ASSUME NEW l \in Lanes, SplitTakes(l) \/ Pass(l) PROVE Places'
    BY <1>2, PlacesTake, PlacesPass, PlacesSend DEF Pass
  <1>3. ASSUME NEW f \in Forwarders, ExitsOnClose(f) PROVE Places'
    BY <1>1, <1>3 DEF ExitsOnClose
  <1>4. ASSUME NEW f \in Forwarders, ExitsOnCancel(f) PROVE Places'
    BY <1>4, PlacesDrop
  <1>5. ASSUME NEW h \in Halves, Cancel(h) PROVE Places'
    BY <1>1, <1>5 DEF Cancel
  <1>6. OutCloses \/ SourceCloses \/ ConsumerLeaves \/ UNCHANGED vars => Places'
    BY <1>1 DEF OutCloses, SourceCloses, ConsumerLeaves, vars
  <1> QED
    BY <1>2, <1>3, <1>4, <1>5, <1>6 DEF Next, Forward

-----------------------------------------------------------------------------
(* The ways out *)

LEMMA NextOrderly == TypeOK /\ Orderly /\ [Next]_vars => Orderly'
  <1> SUFFICES ASSUME TypeOK, Orderly, [Next]_vars PROVE Orderly'
    OBVIOUS
  <1>0. exited \subseteq Forwarders
    BY DEF TypeOK
  (* A value moves only to a forwarder that has not returned.              *)
  <1>1. ASSUME NEW f \in Forwarders, NEW v, f \notin exited, hand' = [hand EXCEPT ![f] = v],
               UNCHANGED <<inClosed, exited, outClosed, canceled, dropped>>
        PROVE  Orderly'
    <2>1. \A g \in exited : hand'[g] = hand[g]
      BY <1>0, <1>1, HandUpdate
    <2> QED
      BY <1>1, <2>1 DEF Orderly, MergersDone, InputClosed
  <1>2. ASSUME NEW l \in Lanes, SplitTakes(l) PROVE Orderly'
    <2>1. /\ Splitter(l) \in Forwarders /\ Splitter(l) \notin exited
          /\ hand' = [hand EXCEPT ![Splitter(l)] = sent + 1]
          /\ UNCHANGED <<inClosed, exited, outClosed, canceled, dropped>>
      BY <1>2, ForwarderFacts DEF SplitTakes, Receives, Splitter
    <2> QED
      BY <1>1, <2>1
  <1>3. ASSUME NEW l \in Lanes, LanePasses(l) PROVE Orderly'
    <2>1. /\ Splitter(l) \in Forwarders /\ Merger(l) \in Forwarders
          /\ Merger(l) \notin exited /\ hand[Splitter(l)] # Empty
          /\ hand' = [hand EXCEPT ![Merger(l)] = hand[Splitter(l)], ![Splitter(l)] = Empty]
          /\ UNCHANGED <<inClosed, exited, outClosed, canceled, dropped>>
      BY <1>3, ForwarderFacts DEF LanePasses, LaneSend, HasValue, Receives, Splitter, Merger
    <2>2. Splitter(l) \notin exited
      BY <2>1 DEF Orderly
    <2>3. \A g \in exited : hand'[g] = hand[g]
      BY <1>0, <2>1, <2>2, TypeFacts
    <2> QED
      BY <2>1, <2>3 DEF Orderly, MergersDone, InputClosed
  <1>4. ASSUME NEW l \in Lanes, MergeSends(l) PROVE Orderly'
    <2>1. /\ Merger(l) \in Forwarders /\ hand[Merger(l)] # Empty
          /\ hand' = [hand EXCEPT ![Merger(l)] = Empty]
          /\ UNCHANGED <<inClosed, exited, outClosed, canceled, dropped>>
      BY <1>4, ForwarderFacts DEF MergeSends, HasValue, Merger
    <2>2. Merger(l) \notin exited
      BY <2>1 DEF Orderly
    <2> QED
      BY <1>1, <2>1, <2>2
  <1>5. ASSUME NEW f \in Forwarders, ExitsOnClose(f) PROVE Orderly'
    <2>1. /\ hand[f] = Empty /\ InputClosed(f) /\ exited' = exited \cup {f}
          /\ UNCHANGED <<inClosed, hand, outClosed, canceled, dropped>>
      BY <1>5 DEF ExitsOnClose, Receives
    <2>2. \A g \in exited' : InputClosed(g) => InputClosed(g)'
      BY <2>1 DEF InputClosed
    <2> QED
      BY <2>1, <2>2 DEF Orderly, MergersDone
  <1>6. ASSUME NEW f \in Forwarders, ExitsOnCancel(f) PROVE Orderly'
    <2>1. /\ exited' = exited \cup {f} /\ hand' = [hand EXCEPT ![f] = Empty]
          /\ canceled # {} /\ UNCHANGED <<outClosed, canceled>>
      BY <1>6 DEF ExitsOnCancel
    <2>2. hand'[f] = Empty /\ \A g \in Forwarders : g # f => hand'[g] = hand[g]
      BY <2>1, HandUpdate
    <2> QED
      BY <1>0, <2>1, <2>2 DEF Orderly, MergersDone
  <1>7. ASSUME NEW h \in Halves, Cancel(h) PROVE Orderly'
    BY <1>7 DEF Cancel, Orderly, MergersDone
  <1>8. OutCloses => Orderly'
    BY DEF OutCloses, Orderly, MergersDone, InputClosed
  <1>9. SourceCloses => Orderly'
    BY DEF SourceCloses, Orderly, MergersDone, InputClosed
  <1>10. ConsumerLeaves => Orderly'
    BY DEF ConsumerLeaves, Orderly, MergersDone, InputClosed
  <1>11. UNCHANGED vars => Orderly'
    BY DEF vars, Orderly, MergersDone, InputClosed
  <1> QED
    BY <1>2, <1>3, <1>4, <1>5, <1>6, <1>7, <1>8, <1>9, <1>10, <1>11 DEF Next, Pass, Forward

LEMMA NextDropsCanceled == DropsCanceled /\ [Next]_vars => DropsCanceled'
  <1> SUFFICES ASSUME DropsCanceled, [Next]_vars PROVE DropsCanceled'
    OBVIOUS
  <1>1. ASSUME NEW l \in Lanes, SplitTakes(l) \/ Pass(l) PROVE DropsCanceled'
    BY <1>1 DEF SplitTakes, Pass, LanePasses, MergeSends, DropsCanceled
  <1>2. ASSUME NEW f \in Forwarders, Forward(f) PROVE DropsCanceled'
    BY <1>2 DEF Forward, ExitsOnClose, ExitsOnCancel, DropsCanceled
  <1>3. ASSUME NEW h \in Halves, Cancel(h) PROVE DropsCanceled'
    BY <1>3 DEF Cancel, DropsCanceled
  <1>4. OutCloses \/ SourceCloses \/ ConsumerLeaves \/ UNCHANGED vars => DropsCanceled'
    BY DEF OutCloses, SourceCloses, ConsumerLeaves, vars, DropsCanceled
  <1> QED
    BY <1>1, <1>2, <1>3, <1>4 DEF Next

LEMMA SpecPInv == Spec => []PInv
  <1>1. PInv /\ [Next]_vars => PInv'
    BY NextType, NextPlaces, NextOrderly, NextDropsCanceled DEF PInv, Places
  <1> QED
    BY <1>1, InitPInv, PTL DEF Spec

-----------------------------------------------------------------------------
(* The theorems *)

(* Every variable keeps its type; the source's values are all that ever    *)
(* flows through Split and Merge.                                          *)
THEOREM TypeCorrect == Spec => []TypeOK
  BY SpecPInv, PTL DEF PInv

(* Split "never drops or duplicates a value" and neither does Merge: each  *)
(* value the source sent is in exactly one place, and the only ones lost   *)
(* are those a half held when its context was canceled.                    *)
THEOREM NeverLostNorDuplicated == Spec => []DeliveredOnce
  <1>1. ASSUME PInv, NEW v \in 1..sent
        PROVE  Cardinality(Holders(v)) + Cardinality(Reads(v)) + Cardinality(Drops(v)) = 1
    <2>0. /\ v # Empty
          /\ \A x : Cardinality({x}) = 1
          /\ Cardinality({}) = 0
      BY FS_EmptySet, FS_Singleton DEF Empty
    <2>1. CASE \E f \in Forwarders : hand[f] = v
      <3>1. PICK f \in Forwarders : hand[f] = v
        BY <2>1
      <3>2. Holders(v) = {f}
        BY <1>1, <2>0, <3>1 DEF PInv, Distinct, HasValue, Holders
      <3>3. Reads(v) = {} /\ Drops(v) = {}
        BY <1>1, <3>1 DEF PInv, Distinct, Reads, Drops
      <3>4. Cardinality(Holders(v)) = 1
        BY <2>0, <3>2
      <3>5. Cardinality(Reads(v)) = 0 /\ Cardinality(Drops(v)) = 0
        BY <2>0, <3>3
      <3> QED
        BY <3>4, <3>5
    <2>2. CASE \E i \in DOMAIN got : got[i].value = v
      <3>1. PICK i \in DOMAIN got : got[i].value = v
        BY <2>2
      <3>2. Reads(v) = {i}
        BY <1>1, <3>1 DEF PInv, Distinct, Reads
      <3>3. Holders(v) = {} /\ Drops(v) = {}
        BY <1>1, <3>1 DEF PInv, Distinct, Holders, Drops
      <3>4. Cardinality(Reads(v)) = 1
        BY <2>0, <3>2
      <3>5. Cardinality(Holders(v)) = 0 /\ Cardinality(Drops(v)) = 0
        BY <2>0, <3>3
      <3> QED
        BY <3>4, <3>5
    <2>3. CASE \E d \in dropped : d.value = v
      <3>1. PICK d \in dropped : d.value = v
        BY <2>3
      <3>2. Drops(v) = {d}
        BY <1>1, <3>1 DEF PInv, Distinct, Drops
      <3>3. Holders(v) = {} /\ Reads(v) = {}
        BY <1>1, <3>1 DEF PInv, Distinct, Holders, Reads
      <3>4. Cardinality(Drops(v)) = 1
        BY <2>0, <3>2
      <3>5. Cardinality(Holders(v)) = 0 /\ Cardinality(Reads(v)) = 0
        BY <2>0, <3>3
      <3> QED
        BY <3>4, <3>5
    <2> QED
      BY <1>1, <2>1, <2>2, <2>3 DEF PInv, Accounted
  <1>2. PInv => DeliveredOnce
    BY <1>1 DEF PInv, DropsCanceled, DeliveredOnce
  <1> QED
    BY <1>2, SpecPInv, PTL

(* Split and Merge "preserve per-input ordering": lane by lane the         *)
(* consumer reads the source's values in order.                            *)
THEOREM LanesKeepOrder == Spec => []LaneOrder
  BY SpecPInv, PTL DEF PInv

(* Merge closes its output after its last forwarder has returned with      *)
(* empty hands; if nobody canceled, the consumer has then read as many     *)
(* values as the source ever sent.                                         *)
THEOREM NothingAfterClose == Spec => []ClosedMeansComplete
  <1>1. ASSUME PInv, outClosed PROVE \A l \in Lanes : hand[Merger(l)] = Empty /\ Merger(l) \in exited
    BY <1>1 DEF PInv, Orderly, MergersDone, Merger
  <1>2. ASSUME PInv, outClosed, canceled = {} PROVE inClosed /\ Len(got) = sent
    <2>1. \A l \in Lanes : Splitter(l) \in exited
      <3>1. \A l \in Lanes : InputClosed(Merger(l))
        BY <1>1, <1>2 DEF PInv, Orderly
      <3> QED
        BY <3>1, ForwarderFacts DEF InputClosed, Splitter
    <2>2. inClosed
      <3>1. PICK l \in Lanes : TRUE
        BY LaneAssumption
      <3>2. InputClosed(Splitter(l))
        BY <1>2, <2>1, <3>1 DEF PInv, Orderly
      <3> QED
        BY <3>1, <3>2, ForwarderFacts DEF InputClosed
    <2>3. \A f \in Forwarders : hand[f] = Empty
      <3>1. \A f \in Forwarders : \E l \in Lanes : f = Splitter(l) \/ f = Merger(l)
        BY DEF Forwarders, Halves, Splitter, Merger
      <3>2. \A l \in Lanes : hand[Splitter(l)] = Empty
        BY <1>2, <2>1 DEF PInv, Orderly
      <3> QED
        BY <1>1, <1>2, <3>1, <3>2
    <2>4. dropped = {}
      BY <1>2 DEF PInv, Orderly
    <2>5. /\ sent \in Nat /\ Len(got) \in Nat /\ DOMAIN got = 1..Len(got)
          /\ \A i \in DOMAIN got : got[i].value \in 1..sent
      <3>1. /\ sent \in Nat /\ Len(got) \in Nat /\ DOMAIN got = 1..Len(got)
            /\ \A i \in DOMAIN got : got[i].value \in Values
        BY <1>2, TypeFacts DEF PInv
      <3>2. \A i \in DOMAIN got : got[i].value <= sent
        BY <1>2 DEF PInv, Bounded
      <3> QED
        BY <3>1, <3>2, LaneAssumption DEF Values
    <2>6. \A v \in 1..sent : \E i \in DOMAIN got : got[i].value = v
      <3>1. \A v \in 1..sent : v # Empty
        BY DEF Empty
      <3> QED
        BY <1>2, <2>3, <2>4, <3>1 DEF PInv, Accounted
    <2>7. \A i, j \in DOMAIN got : got[i].value = got[j].value => i = j
      BY <1>2 DEF PInv, Distinct
    <2> DEFINE w == [i \in 1..Len(got) |-> got[i].value]
    <2>8. w \in Injection(1..Len(got), 1..sent) /\ w \in Surjection(1..Len(got), 1..sent)
      BY <2>5, <2>6, <2>7 DEF Injection, Surjection, IsInjective
    <2>9. /\ IsFiniteSet(1..sent)
          /\ Cardinality(1..sent) = sent /\ Cardinality(1..Len(got)) = Len(got)
      <3>1. ASSUME NEW n \in Nat PROVE IsFiniteSet(1..n) /\ Cardinality(1..n) = n
        <4>1. 1 \in Int /\ n \in Int /\ n - 1 + 1 = n
          OBVIOUS
        <4>2. IsFiniteSet(1..n) /\ Cardinality(1..n) = IF 1 > n THEN 0 ELSE n - 1 + 1
          BY <4>1, FS_Interval
        <4> QED
          BY <4>1, <4>2
      <3> QED
        BY <2>5, <3>1
    <2>10. Cardinality(1..Len(got)) = Cardinality(1..sent)
      <3> HIDE DEF w
      <3> QED
        BY <2>8, <2>9, FS_Injection
    <2> QED
      BY <2>2, <2>9, <2>10
  <1>3. PInv => ClosedMeansComplete
    BY <1>1, <1>2 DEF ClosedMeansComplete, Merger
  <1> QED
    BY <1>3, SpecPInv, PTL

-----------------------------------------------------------------------------
(* The cache *)

Entry == [value : Setters \cup {"none"}, left : Int]
GetCall == [pc : {"read", "hit", "miss"}, key : Keys, entry : Entry, gap : BOOLEAN, over : BOOLEAN]
SetCall == [pc : {"stamped"}, key : Keys, left : Int]

CacheTypes ==
    /\ entries \in [Keys -> Entry]
    /\ set \in [Setters -> SetCall \cup {Idle}]
    /\ get \in [Getters -> GetCall \cup {Idle}]
    /\ age \in Nat

(* A Get that has read a live entry still holds the entry of its key, live *)
(* as that is, unless the call has seen the key without one or overwritten. *)
Witnessed(c) == c.gap \/ c.over \/ (c.entry = entries[c.key] /\ Live(entries[c.key]))

Honest(c) ==
    /\ c.pc = "hit" => Live(c.entry)
    /\ c.pc = "miss" => c.gap \/ c.over

CInv ==
    /\ CacheTypes
    /\ \A g \in Getters : get[g].pc = "read" => Witnessed(get[g])
    /\ \A g \in Getters : Honest(get[g])

-----------------------------------------------------------------------------
LEMMA FloorFacts ==
    /\ Floor \in Int /\ Floor < 0
    /\ \A n \in Int : Less(n) \in Int
    /\ \A n \in Int : n > 0 => Less(n) = n - 1
  BY AgeAssumption DEF Floor, Less

LEMMA EntryFacts ==
    /\ Absent \in Entry /\ ~Live(Absent)
    /\ \A s \in Setters, n \in Int : [value |-> s, left |-> n] \in Entry
    /\ \A e \in Entry : [e EXCEPT !.left = Less(@)] \in Entry
  BY FloorFacts DEF Absent, Entry, Live

LEMMA WatchTypes ==
    ASSUME CacheTypes, entries' \in [Keys -> Entry], NEW over \in SUBSET Keys, Watch(over)
    PROVE  get' \in [Getters -> GetCall \cup {Idle}]
  <1> SUFFICES ASSUME NEW g \in Getters
               PROVE  get'[g] \in GetCall \cup {Idle}
    BY DEF Watch
  <1>1. CASE get[g].pc # "read"
    BY <1>1 DEF Watch, CacheTypes
  <1>2. CASE get[g].pc = "read"
    <2>1. get[g] \in GetCall
      BY <1>2 DEF CacheTypes, Idle
    <2>2. get'[g] = [get[g] EXCEPT !.gap = @ \/ ~Live(entries'[get[g].key]),
                                  !.over = @ \/ get[g].key \in over]
      BY <1>2 DEF Watch
    <2> QED
      BY <2>1, <2>2, Zenon DEF GetCall
  <1> QED BY <1>1, <1>2

(* A step keeps a Get under way honest if it notices every entry that goes *)
(* and every key that is overwritten.                                      *)
LEMMA WatchKeeps ==
    ASSUME CacheTypes, NEW over \in SUBSET Keys, Watch(over), NEW g \in Getters,
           Honest(get[g]), get[g].pc = "read" => Witnessed(get[g]),
           \A k \in Keys : entries'[k] = entries[k] \/ k \in over \/ ~Live(entries'[k])
    PROVE  Honest(get'[g]) /\ (get'[g].pc = "read" => Witnessed(get[g])')
  <1>1. CASE get[g].pc # "read"
    <2>1. get'[g] = get[g]
      BY <1>1 DEF Watch
    <2> QED
      BY <1>1, <2>1
  <1>2. CASE get[g].pc = "read"
    <2>1. get[g] \in GetCall
      BY <1>2 DEF CacheTypes, Idle
    <2>2. get'[g] = [get[g] EXCEPT !.gap = @ \/ ~Live(entries'[get[g].key]),
                                  !.over = @ \/ get[g].key \in over]
      BY <1>2 DEF Watch
    <2>3. PICK c, d : c = get[g] /\ d = get'[g]
      OBVIOUS
    <2>4. /\ d.pc = "read" /\ d.key = c.key /\ d.entry = c.entry
          /\ d.gap <=> (c.gap \/ ~Live(entries'[c.key]))
          /\ d.over <=> (c.over \/ c.key \in over)
      BY <1>2, <2>1, <2>2, <2>3, Zenon DEF GetCall
    <2>5. c.key \in Keys
      BY <2>1, <2>3 DEF GetCall
    <2>6. Witnessed(c)
      BY <1>2, <2>3
    <2>7. Witnessed(d)'
      BY <2>4, <2>5, <2>6, Zenon DEF Witnessed, Live
    <2>8. Honest(d)
      BY <2>4 DEF Honest
    <2> QED
      BY <2>3, <2>7, <2>8
  <1> QED BY <1>1, <1>2

(* A step that changes an entry, but for the clock's, keeps the invariant. *)
LEMMA EntriesStep ==
    ASSUME CInv, NEW over \in SUBSET Keys, Watch(over),
           entries' \in [Keys -> Entry], set' \in [Setters -> SetCall \cup {Idle}], age' = age,
           \A k \in Keys : entries'[k] = entries[k] \/ k \in over \/ ~Live(entries'[k])
    PROVE  CInv'
  <1>1. CacheTypes
    BY DEF CInv
  <1>2. CacheTypes'
    BY <1>1, WatchTypes DEF CacheTypes
  <1>3. ASSUME NEW g \in Getters
        PROVE  Honest(get'[g]) /\ (get'[g].pc = "read" => Witnessed(get[g])')
    <2>1. Honest(get[g]) /\ (get[g].pc = "read" => Witnessed(get[g]))
      BY DEF CInv
    <2> QED
      BY <1>1, <2>1, WatchKeeps
  <1> QED
    BY <1>2, <1>3, Zenon DEF CInv, Honest, Live

LEMMA SetStoresKeeps ==
    ASSUME CInv, NEW s \in Setters, SetStores(s)
    PROVE  CInv'
  <1>1. set[s] \in SetCall /\ CacheTypes
    BY DEF SetStores, CInv, CacheTypes, Idle
  <1>2. set[s].key \in Keys /\ set[s].left \in Int
    BY <1>1 DEF SetCall
  <1>3. PICK k, e : k = set[s].key /\ e = [value |-> s, left |-> set[s].left]
    OBVIOUS
  <1>4. k \in Keys /\ e \in Entry
    BY <1>2, <1>3, EntryFacts
  <1>5. entries' = [entries EXCEPT ![k] = e]
    BY <1>3 DEF SetStores
  <1>6. entries' \in [Keys -> Entry]
    BY <1>1, <1>4, <1>5 DEF CacheTypes
  <1>7. \A j \in Keys : entries'[j] = entries[j] \/ j \in {k} \/ ~Live(entries'[j])
    BY <1>1, <1>4, <1>5 DEF CacheTypes
  <1>8. set' \in [Setters -> SetCall \cup {Idle}]
    BY <1>1 DEF SetStores, CacheTypes
  <1>9. Watch({k}) /\ age' = age
    BY <1>3 DEF SetStores
  <1> QED
    BY <1>4, <1>6, <1>7, <1>8, <1>9, EntriesStep

LEMMA DeleteKeeps ==
    ASSUME CInv, NEW k \in Keys, Delete(k)
    PROVE  CInv'
  <1>1. CacheTypes
    BY DEF CInv
  <1>2. entries' \in [Keys -> Entry]
    BY <1>1, EntryFacts DEF Delete, CacheTypes
  <1>3. \A j \in Keys : entries'[j] = entries[j] \/ j \in {} \/ ~Live(entries'[j])
    BY <1>1, EntryFacts DEF Delete, CacheTypes
  <1>4. Watch({}) /\ age' = age /\ set' = set
    BY DEF Delete
  <1> QED
    BY <1>1, <1>2, <1>3, <1>4, EntriesStep DEF CacheTypes

LEMMA SweepShardKeeps ==
    ASSUME CInv, SweepShard
    PROVE  CInv'
  <1>1. CacheTypes
    BY DEF CInv
  <1>2. \A k \in Keys : entries'[k] = Absent \/ entries'[k] = entries[k]
    BY DEF SweepShard
  <1>3. entries' \in [Keys -> Entry]
    <2>1. entries' = [k \in Keys |-> entries'[k]]
      BY DEF SweepShard
    <2> QED
      BY <1>1, <1>2, <2>1, EntryFacts DEF CacheTypes
  <1>4. \A j \in Keys : entries'[j] = entries[j] \/ j \in {} \/ ~Live(entries'[j])
    BY <1>2, EntryFacts
  <1>5. Watch({}) /\ age' = age /\ set' = set
    BY DEF SweepShard
  <1> QED
    BY <1>1, <1>3, <1>4, <1>5, EntriesStep DEF CacheTypes

LEMMA TickKeeps ==
    ASSUME CInv, Tick
    PROVE  CInv'
  <1>1. CacheTypes
    BY DEF CInv
  <1> DEFINE Older(e) == [e EXCEPT !.left = Less(@)]
  <1>2. \A k \in Keys : entries'[k] = Older(entries[k])
    BY DEF Tick
  <1>3. entries' \in [Keys -> Entry]
    <2>1. entries' = [k \in Keys |-> Older(entries[k])]
      BY DEF Tick
    <2> HIDE DEF Older
    <2>2. \A e \in Entry : Older(e) \in Entry
      BY EntryFacts DEF Older
    <2> QED
      BY <1>1, <2>1, <2>2 DEF CacheTypes
  <1>4. set' \in [Setters -> SetCall \cup {Idle}]
    <2>1. set' = [s \in Setters |->
                    IF set[s].pc = "idle" THEN Idle ELSE [set[s] EXCEPT !.left = Less(@)]]
      BY DEF Tick
    <2>2. \A s \in Setters : set[s] \in SetCall \/ set[s].pc = "idle"
      BY <1>1 DEF CacheTypes, Idle
    <2>3. \A c \in SetCall : [c EXCEPT !.left = Less(@)] \in SetCall
      BY FloorFacts DEF SetCall
    <2> QED
      BY <2>1, <2>2, <2>3
  <1>5. age' \in Nat
    <2>1. age' = IF Sweeping THEN age + 1 ELSE age
      BY DEF Tick
    <2> QED
      BY <1>1, <2>1 DEF CacheTypes
  <1>6. ASSUME NEW g \in Getters
        PROVE  /\ get'[g] \in GetCall \cup {Idle}
               /\ Honest(get'[g]) /\ (get'[g].pc = "read" => Witnessed(get[g])')
    <2>1. Honest(get[g]) /\ (get[g].pc = "read" => Witnessed(get[g]))
      BY DEF CInv
    <2>2. CASE get[g].pc # "read"
      <3>1. get'[g] = get[g]
        BY <2>2 DEF Tick
      <3> QED
        BY <1>1, <2>1, <2>2, <3>1 DEF CacheTypes
    <2>3. CASE get[g].pc = "read"
      <3>1. get[g] \in GetCall
        BY <1>1, <2>3 DEF CacheTypes, Idle
      <3>2. get'[g] = [get[g] EXCEPT !.entry.left = Less(@),
                                     !.gap = @ \/ ~Live(entries'[get[g].key])]
        BY <2>3 DEF Tick
      <3>3. PICK c, d : c = get[g] /\ d = get'[g]
        OBVIOUS
      <3> HIDE DEF Older
      <3>4. /\ d.pc = "read" /\ d.key = c.key /\ d.entry = Older(c.entry)
            /\ d.gap <=> (c.gap \/ ~Live(entries'[c.key]))
            /\ d.over = c.over
        BY <2>3, <3>1, <3>2, <3>3, Zenon DEF GetCall, Older
      <3>5. c.key \in Keys /\ c.entry \in Entry
        BY <3>1, <3>3 DEF GetCall
      <3>6. Witnessed(c)
        BY <2>1, <2>3, <3>3
      <3>7. Witnessed(d)'
        BY <1>2, <3>4, <3>5, <3>6, Zenon DEF Witnessed, Live
      <3>8. Honest(d)
        BY <3>4 DEF Honest
      <3>9. d \in GetCall
        <4>1. d.entry \in Entry
          BY <3>4, <3>5, EntryFacts DEF Older
        <4>2. d = [c EXCEPT !.entry = d.entry, !.gap = d.gap]
          BY <3>1, <3>2, <3>3 DEF GetCall
        <4>3. d.gap \in BOOLEAN
          BY <3>1, <3>2, <3>3, Zenon DEF GetCall
        <4> QED
          BY <3>1, <3>3, <4>1, <4>2, <4>3 DEF GetCall
      <3> QED
        BY <3>3, <3>7, <3>8, <3>9
    <2> QED BY <2>2, <2>3
  <1>7. get' \in [Getters -> GetCall \cup {Idle}]
    <2>1. get' = [g \in Getters |-> get'[g]]
      BY DEF Tick
    <2> QED
      BY <1>6, <2>1
  <1> QED
    BY <1>3, <1>4, <1>5, <1>6, <1>7, Zenon DEF CInv, CacheTypes, Honest, Live

(* A step of one Get leaves the entries, and the others, alone.            *)
LEMMA GetStep ==
    ASSUME CInv, NEW g \in Getters, NEW d \in GetCall, get' = [get EXCEPT ![g] = d],
           UNCHANGED <<entries, set, age>>,
           Honest(d), d.pc = "read" => Witnessed(d)
    PROVE  CInv'
  <1>1. CacheTypes
    BY DEF CInv
  <1>2. CacheTypes'
    BY <1>1 DEF CacheTypes
  <1>3. ASSUME NEW h \in Getters
        PROVE  Honest(get'[h]) /\ (get'[h].pc = "read" => Witnessed(get[h])')
    <2>1. PICK c : c = get'[h]
      OBVIOUS
    <2>2. c = d \/ c = get[h]
      BY <1>1, <2>1 DEF CacheTypes
    <2>3. Honest(c) /\ (c.pc = "read" => Witnessed(c))
      BY <2>2 DEF CInv
    <2>4. c.pc = "read" => Witnessed(c)'
      BY <2>3 DEF Witnessed
    <2> QED
      BY <2>1, <2>3, <2>4
  <1> QED
    BY <1>2, <1>3, Zenon DEF CInv, Honest, Live

LEMMA GetReadsKeeps ==
    ASSUME CInv, NEW g \in Getters, NEW k \in Keys, GetReads(g, k)
    PROVE  CInv'
  <1>1. PICK d : d = [pc |-> "read", key |-> k, entry |-> entries[k],
                      gap |-> ~Live(entries[k]), over |-> FALSE]
    OBVIOUS
  <1>2. entries[k] \in Entry
    BY DEF CInv, CacheTypes
  <1>3. d \in GetCall
    BY <1>1, <1>2, Zenon DEF GetCall
  <1>4. d.pc = "read" /\ d.key = k /\ d.entry = entries[k] /\ (d.gap <=> ~Live(entries[k]))
    BY <1>1, Zenon
  <1>5. Honest(d) /\ Witnessed(d)
    BY <1>4, Zenon DEF Honest, Witnessed
  <1>6. get' = [get EXCEPT ![g] = d] /\ UNCHANGED <<entries, set, age>>
    BY <1>1 DEF GetReads
  <1> QED
    BY <1>3, <1>5, <1>6, GetStep

LEMMA GetJudgesKeeps ==
    ASSUME CInv, NEW g \in Getters, GetJudges(g)
    PROVE  CInv'
  <1>1. get[g] \in GetCall /\ get[g].pc = "read"
    BY DEF GetJudges, CInv, CacheTypes, Idle
  <1>2. PICK c, d : c = get[g] /\ d = [get[g] EXCEPT !.pc = Judged(get[g].entry)]
    OBVIOUS
  <1>3. d \in GetCall
    BY <1>1, <1>2 DEF GetCall, Judged
  <1>4. d.pc = Judged(c.entry) /\ d.entry = c.entry /\ d.gap = c.gap /\ d.over = c.over
    BY <1>1, <1>2 DEF GetCall
  <1>5. Witnessed(c)
    BY <1>1, <1>2 DEF CInv
  <1>6. ~Live(c.entry) => c.gap \/ c.over
    BY <1>5, Zenon DEF Witnessed
  <1>7. Honest(d) /\ d.pc # "read"
    BY <1>4, <1>6 DEF Honest, Judged
  <1>8. get' = [get EXCEPT ![g] = d] /\ UNCHANGED <<entries, set, age>>
    BY <1>2 DEF GetJudges
  <1> QED
    BY <1>3, <1>7, <1>8, GetStep

(* The steps that concern neither entries nor Gets.                        *)
LEMMA OtherStep ==
    ASSUME CInv, UNCHANGED <<entries, get>>,
           set' \in [Setters -> SetCall \cup {Idle}], age' \in Nat
    PROVE  CInv'
  <1>1. CacheTypes'
    BY DEF CInv, CacheTypes
  <1>2. \A g \in Getters : Honest(get'[g]) /\ (get'[g].pc = "read" => Witnessed(get[g])')
    BY Zenon DEF CInv, Witnessed, Honest
  <1> QED
    BY <1>1, <1>2, Zenon DEF CInv, Honest, Live

LEMMA InitCInv == CacheInit => CInv
  <1> SUFFICES ASSUME CacheInit PROVE CInv
    OBVIOUS
  <1>1. CacheTypes
    BY EntryFacts DEF CacheInit, CacheTypes
  <1>2. \A g \in Getters : get[g].pc = "idle"
    BY DEF CacheInit, Idle
  <1> QED
    BY <1>1, <1>2 DEF CInv, Honest

LEMMA NextCInv == CInv /\ [CacheNext]_cacheVars => CInv'
  <1> SUFFICES ASSUME CInv, [CacheNext]_cacheVars PROVE CInv'
    OBVIOUS
  <1>1. ASSUME NEW s \in Setters, SetStores(s) PROVE CInv'
    BY <1>1, SetStoresKeeps
  <1>2. ASSUME NEW s \in Setters, NEW k \in Keys, SetStamps(s, k) PROVE CInv'
    <2>1. [pc |-> "stamped", key |-> k, left |-> TTL] \in SetCall
      BY DurationAssumption DEF SetCall
    <2>2. set' \in [Setters -> SetCall \cup {Idle}] /\ age' \in Nat
      BY <1>2, <2>1 DEF SetStamps, CInv, CacheTypes
    <2> QED
      BY <1>2, <2>2, OtherStep DEF SetStamps
  <1>3. ASSUME NEW g \in Getters, GetJudges(g) PROVE CInv'
    BY <1>3, GetJudgesKeeps
  <1>4. ASSUME NEW g \in Getters, NEW k \in Keys, GetReads(g, k) PROVE CInv'
    BY <1>4, GetReadsKeeps
  <1>5. ASSUME NEW k \in Keys, Delete(k) PROVE CInv'
    BY <1>5, DeleteKeeps
  <1>6. CASE SweepShard
    BY <1>6, SweepShardKeeps
  <1>7. CASE Tick
    BY <1>7, TickKeeps
  <1>8. CASE Close \/ SweeperExits \/ SweepStarts \/ UNCHANGED cacheVars
    <2>1. UNCHANGED <<entries, get, set>>
      BY <1>8 DEF Close, SweeperExits, SweepStarts, cacheVars
    <2>2. age' = age \/ age' = 0
      BY <1>8 DEF Close, SweeperExits, SweepStarts, cacheVars
    <2>3. set' \in [Setters -> SetCall \cup {Idle}] /\ age' \in Nat
      BY <2>1, <2>2 DEF CInv, CacheTypes
    <2> QED
      BY <2>1, <2>3, OtherStep
  <1> QED
    BY <1>1, <1>2, <1>3, <1>4, <1>5, <1>6, <1>7, <1>8 DEF CacheNext

(* Get never returns an expired entry, however long it is held up between  *)
(* the read under the lock and the comparison with the clock; and a miss   *)
(* is the truth at some moment of the call or follows an overwrite.        *)
THEOREM GetNeverLies == CacheSpec => []GetIsHonest
  <1>1. CInv => GetIsHonest
    BY DEF CInv, GetIsHonest, Honest
  <1> QED
    BY <1>1, InitCInv, NextCInv, PTL DEF CacheSpec

(* A live entry goes only by Delete: the sweeper, which compares with the  *)
(* clock it read before its first shard (removeExpired), takes only what   *)
(* has expired, and no Set leaves its key without an entry.                *)
THEOREM SweepSparesTheLiving == CacheSpec => NoLiveEntryLost
  <1>1. ASSUME CInv, CacheNext, NEW k \in Keys,
               Live(entries[k]), entries'[k] = Absent
        PROVE  Delete(k)
    <2>0. entries \in [Keys -> Entry] /\ entries[k] \in Entry /\ age \in Nat
      BY <1>1 DEF CInv, CacheTypes
    <2>1. entries[k] # Absent
      BY <1>1, EntryFacts
    <2>2. ASSUME NEW s \in Setters, SetStores(s) PROVE FALSE
      <3>1. entries'[k] = entries[k] \/ entries'[k] = [value |-> s, left |-> set[s].left]
        BY <2>0, <2>2 DEF SetStores
      <3> QED
        BY <1>1, <2>1, <3>1, NameAssumption DEF Absent
    <2>3. ASSUME NEW j \in Keys, Delete(j) PROVE j = k
      BY <1>1, <2>0, <2>1, <2>3 DEF Delete
    <2>4. CASE SweepShard
      <3>1. Expired(entries[k])
        BY <1>1, <2>1, <2>4 DEF SweepShard
      <3> QED
        BY <1>1, <2>0, <3>1 DEF Expired, Live, Entry
    <2>5. CASE Tick
      <3>1. entries'[k] = [entries[k] EXCEPT !.left = Less(@)]
        BY <2>5 DEF Tick
      <3>2. entries'[k].left = Less(entries[k].left)
        BY <2>0, <3>1 DEF Entry
      <3>3. entries[k].left \in Int /\ entries[k].left > 0
        BY <1>1, <2>0 DEF Live, Entry
      <3>4. entries'[k].left = Floor
        BY <1>1 DEF Absent
      <3>5. PICK n : n = entries[k].left
        OBVIOUS
      <3>6. n \in Int /\ n > 0 /\ Less(n) = Floor
        BY <3>2, <3>3, <3>4, <3>5
      <3>7. FALSE
        BY <3>6, FloorFacts
      <3> QED
        BY <3>7
    <2>6. entries' # entries
      BY <1>1, <2>1
    <2> QED
      BY <1>1, <2>2, <2>3, <2>4, <2>5, <2>6
      DEF CacheNext, SetStamps, GetReads, GetJudges, Close, SweeperExits, SweepStarts
  <1>2. CInv /\ [CacheNext]_cacheVars =>
            [\A k \in Keys : Live(entries[k]) /\ entries'[k] = Absent => Delete(k)]_cacheVars
    BY <1>1
  <1> QED
    BY <1>2, InitCInv, NextCInv, PTL DEF CacheSpec, NoLiveEntryLost
=============================================================================
