----------------------------- MODULE PubSubProofs -----------------------------
(***************************************************************************)
(* For any number of subscriptions and publishers, any buffer size and any *)
(* policy: the registry tells the truth about every channel and watcher,   *)
(* hence no send hits a closed channel and no channel is closed twice; and *)
(* every message offered to a subscription has one fate, in order.         *)
(***************************************************************************)
EXTENDS PubSub, SequenceTheorems, TLAPS

Readers == {p \in Pubs : pc[p] \in {"fanout", "evict", "resend"}}

(* The variables the argument is about.                                    *)
RegistryTypes ==
    /\ subs \subseteq Subs
    /\ ch \in [Subs -> {"none", "open", "closed"}]
    /\ watcher \in [Subs -> {"none", "armed", "fired", "stopped", "ran"}]
    /\ canceled \subseteq Subs
    /\ pc \in [Pubs -> {"idle", "fanout", "evict", "resend", "disconnect"}]
    /\ todo \in [Pubs -> SUBSET Subs]
    /\ cur \in [Pubs -> Subs \cup {"none"}]

(* A subscription a publisher is about to send to is registered: it was    *)
(* when the publisher took the read lock, and the registry changes only    *)
(* when there is no reader.                                                *)
FanoutRegistered ==
    \A p \in Readers :
        /\ todo[p] \subseteq subs
        /\ pc[p] \in {"evict", "resend"} => cur[p] \in todo[p]

Inv ==
    /\ RegistryTypes
    /\ RegistryIsTruth
    /\ FanoutRegistered
    /\ NoChannelPanic

USE NameAssumption

(* Inv holds of a new Broker.                                              *)
LEMMA InitInv == Init => Inv
  BY DEF Init, Inv, RegistryTypes, RegistryIsTruth, FanoutRegistered, Readers, NoChannelPanic

(* A step of a publisher inside the read lock.                             *)
LEMMA ReaderStep ==
    ASSUME Inv, NEW p \in Pubs, UNCHANGED <<subs, closed, ch, watcher, canceled, fault>>,
           RegistryTypes', \A q \in Pubs \ {p} : pc'[q] = pc[q] /\ todo'[q] = todo[q] /\ cur'[q] = cur[q],
           p \in Readers' => /\ todo'[p] \subseteq subs
                             /\ pc'[p] \in {"evict", "resend"} => cur'[p] \in todo'[p]
    PROVE  Inv'
  BY DEF Inv, RegistryIsTruth, FanoutRegistered, Readers, NoChannelPanic

(* A step under the write lock.                                            *)
LEMMA RemoveKeepsInv ==
    ASSUME Inv, NEW s \in Subs, NEW w, NoReaders, remove(s, w), UNCHANGED <<todo, cur, canceled>>,
           w \in [Subs -> {"none", "armed", "fired", "stopped", "ran"}],
           \A x \in Subs : x # s => w[x] = watcher[x],
           w[s] = watcher[s] \/ (watcher[s] = "fired" /\ w[s] = "ran"),
           pc' \in [Pubs -> {"idle", "disconnect"}]
    PROVE  Inv'
  <1>1. Readers' = {}
    BY DEF Readers
  <1>2. CASE s \in subs
    <2>1. /\ subs' = subs \ {s}
          /\ ch' = [x \in Subs |-> IF x \in {s} THEN "closed" ELSE ch[x]]
          /\ watcher' = [x \in Subs |-> IF x \in {s} /\ w[x] = "armed" THEN "stopped" ELSE w[x]]
          /\ fault' = IF \E x \in {s} : ch[x] = "closed" THEN "close of closed channel" ELSE fault
      BY <1>2 DEF remove, Registered, closeChannels, Stopped
    <2>2. ch[s] = "open" /\ fault = "none"
      BY <1>2 DEF Inv, RegistryIsTruth, NoChannelPanic
    <2>3. NoChannelPanic'
      BY <2>1, <2>2 DEF NoChannelPanic
    <2>4. RegistryTypes'
      BY <2>1 DEF Inv, RegistryTypes
    <2>5. RegistryIsTruth'
      BY <2>1, <2>2 DEF Inv, RegistryTypes, RegistryIsTruth
    <2> QED
      BY <1>1, <2>3, <2>4, <2>5 DEF Inv, FanoutRegistered
  <1>3. CASE s \notin subs
    <2>1. watcher' = w /\ UNCHANGED <<subs, ch, fault>>
      BY <1>3 DEF remove, Registered
    <2>2. RegistryTypes'
      BY <2>1 DEF Inv, RegistryTypes
    <2>3. RegistryIsTruth'
      BY <1>3, <2>1 DEF Inv, RegistryTypes, RegistryIsTruth
    <2> QED
      BY <1>1, <2>1, <2>2, <2>3 DEF Inv, FanoutRegistered, NoChannelPanic
  <1> QED
    BY <1>2, <1>3

(* A send to a registered subscription does not panic.                     *)
LEMMA SendIsSafe ==
    ASSUME Inv, NEW p \in Readers, NEW s \in todo[p], Sends(p, s)
    PROVE  UNCHANGED fault
  <1>1. ch[s] = "open"
    BY DEF Inv, RegistryTypes, FanoutRegistered, RegistryIsTruth, Readers
  <1> QED
    BY <1>1 DEF Sends

(* Every step of the broker preserves Inv.                                 *)
LEMMA NextInv == Inv /\ [Next]_vars => Inv'
  <1> SUFFICES ASSUME Inv, [Next]_vars PROVE Inv'
    OBVIOUS
  <1> USE DEF registry, locals
  <1>1. ASSUME NEW p \in Pubs, Publish(p) PROVE Inv'
    <2>1. /\ UNCHANGED <<subs, closed, ch, watcher, canceled, cur, fault>>
          /\ pc' = [pc EXCEPT ![p] = "fanout"]
          /\ todo' = [todo EXCEPT ![p] = Targets(<<p, sent[p] + 1>>)]
      BY <1>1 DEF Publish
    <2>2. Targets(<<p, sent[p] + 1>>) \subseteq subs
      BY DEF Targets
    <2>3. RegistryTypes'
      BY <2>1, <2>2 DEF Inv, RegistryTypes
    <2> QED
      BY <2>1, <2>2, <2>3, ReaderStep DEF Inv, RegistryTypes
  <1>2. ASSUME NEW p \in Pubs, PublishCanceled(p) \/ PublishClosed(p) PROVE Inv'
    BY <1>2 DEF PublishCanceled, PublishClosed, Inv, RegistryTypes, RegistryIsTruth,
           FanoutRegistered, Readers, NoChannelPanic
  <1>3. ASSUME NEW p \in Pubs, NEW s \in Subs, DeliverSend(p, s) PROVE Inv'
    <2>1. p \in Readers /\ s \in todo[p] /\ UNCHANGED fault
      BY <1>3, SendIsSafe DEF DeliverSend, Readers
    <2>2. /\ UNCHANGED <<subs, closed, ch, watcher, canceled, pc, cur, fault>>
          /\ todo' = [todo EXCEPT ![p] = @ \ {s}]
          /\ pc[p] = "fanout"
      BY <1>3, <2>1 DEF DeliverSend
    <2>3. RegistryTypes'
      BY <2>2 DEF Inv, RegistryTypes
    <2> QED
      BY <2>1, <2>2, <2>3, ReaderStep DEF Inv, RegistryTypes, FanoutRegistered
  <1>4. ASSUME NEW p \in Pubs, NEW s \in Subs, DeliverDrop(p, s) PROVE Inv'
    <2>1. /\ UNCHANGED <<subs, closed, ch, watcher, canceled, pc, cur, fault>>
          /\ todo' = [todo EXCEPT ![p] = @ \ {s}]
          /\ pc[p] = "fanout" /\ p \in Readers
      BY <1>4 DEF DeliverDrop, Readers
    <2>2. RegistryTypes'
      BY <2>1 DEF Inv, RegistryTypes
    <2> QED
      BY <2>1, <2>2, ReaderStep DEF Inv, RegistryTypes, FanoutRegistered
  <1>5. ASSUME NEW p \in Pubs, NEW s \in Subs, DeliverFull(p, s) PROVE Inv'
    <2>1. /\ UNCHANGED <<subs, closed, ch, watcher, canceled, todo, fault>>
          /\ pc' = [pc EXCEPT ![p] = "evict"] /\ cur' = [cur EXCEPT ![p] = s]
          /\ s \in todo[p] /\ p \in Readers
      BY <1>5 DEF DeliverFull, Readers
    <2>2. RegistryTypes'
      BY <2>1 DEF Inv, RegistryTypes
    <2> QED
      BY <2>1, <2>2, ReaderStep DEF Inv, RegistryTypes, FanoutRegistered
  <1>6. ASSUME NEW p \in Pubs, DeliverEvict(p) PROVE Inv'
    <2>1. /\ UNCHANGED <<subs, closed, ch, watcher, canceled, todo, cur, fault>>
          /\ pc' = [pc EXCEPT ![p] = "resend"]
          /\ pc[p] = "evict" /\ p \in Readers
      BY <1>6 DEF DeliverEvict, Readers
    <2>2. RegistryTypes'
      BY <2>1 DEF Inv, RegistryTypes
    <2> QED
      BY <2>1, <2>2, ReaderStep DEF Inv, RegistryTypes, FanoutRegistered
  <1>7. ASSUME NEW p \in Pubs, DeliverResend(p) PROVE Inv'
    <2>1. p \in Readers /\ cur[p] \in todo[p]
      BY <1>7 DEF DeliverResend, Readers, Inv, FanoutRegistered
    <2>2. UNCHANGED fault
      BY <1>7, <2>1, SendIsSafe DEF DeliverResend
    <2>3. /\ UNCHANGED <<subs, closed, ch, watcher, canceled, fault>>
          /\ todo' = [todo EXCEPT ![p] = @ \ {cur[p]}]
          /\ pc' = [pc EXCEPT ![p] = "fanout"] /\ cur' = [cur EXCEPT ![p] = "none"]
      BY <1>7, <2>2 DEF DeliverResend
    <2>4. RegistryTypes'
      BY <2>3 DEF Inv, RegistryTypes
    <2> QED
      BY <2>1, <2>3, <2>4, ReaderStep DEF Inv, RegistryTypes, FanoutRegistered
  <1>8. ASSUME NEW p \in Pubs, PublishUnlock(p) PROVE Inv'
    <2>1. /\ UNCHANGED <<subs, closed, ch, watcher, canceled, todo, cur, fault>>
          /\ pc' = [pc EXCEPT ![p] = IF disconnect[p] = {} THEN "idle" ELSE "disconnect"]
      BY <1>8 DEF PublishUnlock
    <2>2. RegistryTypes' /\ p \notin Readers'
      BY <2>1 DEF Inv, RegistryTypes, Readers
    <2> QED
      BY <2>1, <2>2, ReaderStep DEF Inv, RegistryTypes
  <1>9. ASSUME NEW p \in Pubs, NEW s \in Subs, PublishDisconnect(p, s) PROVE Inv'
    <2>1. /\ remove(s, watcher) /\ NoReaders /\ UNCHANGED <<todo, cur, canceled>>
          /\ pc' = [pc EXCEPT ![p] = IF disconnect[p] = {s} THEN "idle" ELSE @]
          /\ pc[p] = "disconnect"
      BY <1>9 DEF PublishDisconnect, remove
    <2>2. pc' \in [Pubs -> {"idle", "disconnect"}]
      BY <2>1 DEF NoReaders, Inv, RegistryTypes
    <2> QED
      BY <2>1, <2>2, RemoveKeepsInv DEF Inv, RegistryTypes
  <1>10. ASSUME NEW s \in Subs, WatcherRuns(s) PROVE Inv'
    <2> DEFINE w == [watcher EXCEPT ![s] = "ran"]
    <2>1. /\ remove(s, w) /\ NoReaders /\ UNCHANGED <<todo, cur, canceled, pc>>
          /\ watcher[s] = "fired"
      BY <1>10 DEF WatcherRuns, remove
    <2>2. pc' \in [Pubs -> {"idle", "disconnect"}]
      BY <2>1 DEF NoReaders, Inv, RegistryTypes
    <2>3. /\ w \in [Subs -> {"none", "armed", "fired", "stopped", "ran"}]
          /\ w[s] = "ran" /\ \A x \in Subs : x # s => w[x] = watcher[x]
      BY DEF Inv, RegistryTypes
    <2> HIDE DEF w
    <2> QED
      BY <2>1, <2>2, <2>3, RemoveKeepsInv
  <1>11. ASSUME NEW s \in Subs, SubscribeDead(s) \/ Subscribe(s) PROVE Inv'
    <2>1. Readers' = {} /\ UNCHANGED <<canceled, pc, todo, cur, fault>> /\ ch[s] = "none"
      BY <1>11 DEF SubscribeDead, Subscribe, NoReaders, Readers
    <2>2. RegistryTypes'
      BY <1>11, <2>1 DEF SubscribeDead, Subscribe, Watch, Inv, RegistryTypes
    <2>3. RegistryIsTruth'
      BY <1>11, <2>1 DEF SubscribeDead, Subscribe, Watch, Inv, RegistryTypes, RegistryIsTruth
    <2> QED
      BY <2>1, <2>2, <2>3 DEF Inv, FanoutRegistered, NoChannelPanic
  <1>12. CASE Close
    <2>1. /\ Readers' = {} /\ UNCHANGED <<canceled, pc, todo, cur>>
          /\ fault' = IF \E s \in subs : ch[s] = "closed" THEN "close of closed channel" ELSE fault
          /\ ch' = [s \in Subs |-> IF s \in subs THEN "closed" ELSE ch[s]]
          /\ watcher' = [s \in Subs |-> IF s \in subs /\ watcher[s] = "armed" THEN "stopped"
                                                                               ELSE watcher[s]]
          /\ subs' = {}
      BY <1>12 DEF Close, closeChannels, Stopped, NoReaders, Readers
    <2>2. fault' = "none"
      BY <2>1 DEF Inv, RegistryTypes, RegistryIsTruth, NoChannelPanic
    <2>3. RegistryTypes'
      BY <2>1 DEF Inv, RegistryTypes
    <2>4. RegistryIsTruth'
      BY <2>1 DEF Inv, RegistryTypes, RegistryIsTruth
    <2> QED
      BY <2>1, <2>2, <2>3, <2>4 DEF Inv, FanoutRegistered, NoChannelPanic
  <1>13. ASSUME NEW s \in Subs, SubscriberParks(s) \/ SubscriberReceives(s) PROVE Inv'
    BY <1>13 DEF SubscriberParks, SubscriberReceives, Inv, RegistryTypes, RegistryIsTruth,
           FanoutRegistered, Readers, NoChannelPanic
  <1>14. ASSUME NEW s \in Subs, Cancel(s) PROVE Inv'
    <2>1. RegistryTypes'
      BY <1>14 DEF Cancel, Inv, RegistryTypes
    <2>2. RegistryIsTruth'
      BY <1>14 DEF Cancel, Inv, RegistryTypes, RegistryIsTruth
    <2> QED
      BY <1>14, <2>1, <2>2 DEF Cancel, Inv, FanoutRegistered, Readers, NoChannelPanic
  <1>15. CASE UNCHANGED vars
    BY <1>15 DEF vars, Inv, RegistryTypes, RegistryIsTruth, FanoutRegistered, Readers,
           NoChannelPanic
  <1> QED
    BY <1>1, <1>2, <1>3, <1>4, <1>5, <1>6, <1>7, <1>8, <1>9, <1>10, <1>11, <1>12, <1>13,
       <1>14, <1>15 DEF Next, PublishStep

LEMMA SpecInv == Spec => []Inv
  BY InitInv, NextInv, PTL DEF Spec

(* No publisher sends on a closed channel, and no two of Close, the        *)
(* context watchers and the Disconnect policy close the same channel.      *)
THEOREM ChannelsNeverPanic == Spec => []NoChannelPanic
  BY SpecInv, PTL DEF Inv

(* A subscription is registered exactly while its channel is open, and no  *)
(* watcher outlives its registration.                                      *)
THEOREM RegistryIsSourceOfTruth == Spec => []RegistryIsTruth
  BY SpecInv, PTL DEF Inv

-----------------------------------------------------------------------------
(* What becomes of the messages *)

(* A publisher that fans out has numbered its message.                     *)
Numbered == \A p \in Readers : sent[p] >= 1

(* What the fan-out has still to visit has no fate yet: the next send or   *)
(* drop will be the first.                                                 *)
StillOffered == \A p \in Readers : \A s \in todo[p] : fate[s][Msg(p)] = "offered"

(* The fates, with the message a publisher is at in place of its name.     *)
OneFate ==
    \A s \in Subs, m \in Messages :
        /\ fate[s][m] # "twice"
        /\ fate[s][m] = "offered" => m[1] \in Readers /\ m = Msg(m[1]) /\ s \in todo[m[1]]
        /\ fate[s][m] = "buffered" <=> \E i \in 1..Len(chan[s]) : chan[s][i] = m

NotAhead == \A s \in Subs, m \in Messages : fate[s][m] # "none" => m[2] <= sent[m[1]]

(* The messages of one publisher lie in a channel in their order, hence    *)
(* none lies there twice, and behind everything received from it.          *)
Ordered ==
    \A s \in Subs : \A a, b \in 1..Len(chan[s]) :
        a < b /\ chan[s][a][1] = chan[s][b][1] => chan[s][a][2] < chan[s][b][2]

ReceivedFirst ==
    \A s \in Subs, m, n \in Messages :
        fate[s][m] = "received" /\ fate[s][n] = "buffered" /\ m[1] = n[1] => m[2] < n[2]

(* Only a rendezvous channel has a parked subscriber, and it buffers       *)
(* nothing that a message handed over could overtake.                      *)
Rendezvous == bufSize # 0 => ready = {}

(* Inside deliver an eviction is reported before it counts as a loss.      *)
LossTold ==
    \A p \in Pubs :
        IF pc[p] = "resend" THEN reported[p] <=> lost[p] \/ evicted[p]
                            ELSE reported[p] <=> lost[p]

Data == Numbered /\ StillOffered /\ OneFate /\ NotAhead /\ Ordered /\ ReceivedFirst

(* Messages as pairs; the message a publisher is fanning out.              *)
LEMMA MessageFacts ==
    ASSUME NEW m \in Messages
    PROVE  m[1] \in Pubs /\ m[2] \in 1..PerPub /\ m[2] \in Int /\ m = <<m[1], m[2]>>
  BY OptionAssumption DEF Messages

LEMMA SentFacts ==
    ASSUME TypeOK, NEW p \in Pubs
    PROVE  sent[p] \in 0..PerPub /\ sent[p] \in Int
  <1>1. sent \in [Pubs -> 0..PerPub]
    BY DEF TypeOK
  <1> QED
    BY <1>1, OptionAssumption

LEMMA MsgFacts ==
    ASSUME TypeOK, Numbered, NEW p \in Readers
    PROVE  /\ p \in Pubs /\ sent[p] \in Int
           /\ Msg(p) \in Messages /\ Msg(p)[1] = p /\ Msg(p)[2] = sent[p]
           /\ \A m \in Messages : m[1] = p /\ m[2] = sent[p] => m = Msg(p)
  <1>1. p \in Pubs /\ sent[p] \in 1..PerPub
    BY OptionAssumption, SentFacts DEF Readers, Numbered
  <1> QED
    BY <1>1, MessageFacts DEF Msg, Messages

(* Appending to and taking from a channel, index by index.                 *)
LEMMA AppendFacts ==
    ASSUME NEW S, NEW q \in Seq(S), NEW x \in S
    PROVE  /\ Append(q, x) \in Seq(S)
           /\ Len(q) \in Nat
           /\ Len(Append(q, x)) = Len(q) + 1
           /\ Append(q, x)[Len(q) + 1] = x
           /\ \A i \in 1..Len(q) : Append(q, x)[i] = q[i]
           /\ \A i \in 1..Len(q) : q[i] \in S
  BY AppendProperties, LenProperties, ElementOfSeq

LEMMA TailFacts ==
    ASSUME NEW S, NEW q \in Seq(S), q # <<>>
    PROVE  /\ Len(q) \in Nat /\ Len(q) > 0
           /\ Head(q) = q[1] /\ Head(q) \in S
           /\ Tail(q) \in Seq(S) /\ Len(Tail(q)) = Len(q) - 1
           /\ \A i \in 1..(Len(q) - 1) : Tail(q)[i] = q[i + 1]
           /\ \A i \in 1..Len(q) : q[i] \in S
  BY HeadTailProperties, LenProperties, ElementOfSeq, EmptySeq

(* A first fate settles one message of one subscription.                   *)
LEMMA SettledFacts ==
    ASSUME TypeOK, NEW s \in Subs, NEW m \in Messages, NEW f,
           fate[s][m] \in {"offered", "buffered"}, fate' = Settled(s, m, f)
    PROVE  /\ fate'[s][m] = f
           /\ \A x \in Subs, n \in Messages : x # s \/ n # m => fate'[x][n] = fate[x][n]
  BY DEF TypeOK, Settled

-----------------------------------------------------------------------------
(* Nothing moves, and nobody begins or breaks off a fan-out.               *)
LEMMA DataFrame ==
    ASSUME TypeOK, Data, UNCHANGED <<chan, fate>>,
           \A q \in Pubs : sent'[q] \in Int /\ sent'[q] >= sent[q],
           \A q \in Readers' : q \in Readers,
           \A q \in Readers : /\ sent'[q] = sent[q] /\ todo'[q] = todo[q]
                              /\ q \notin Readers' => todo[q] = {}
    PROVE  Data'
  <1>1. \A q \in Readers : q \in Pubs /\ Msg(q)' = Msg(q)
    BY DEF Readers, Msg
  <1>2. Numbered'
    BY DEF Data, Numbered
  <1>3. StillOffered'
    BY <1>1 DEF Data, StillOffered
  <1>4. OneFate'
    BY <1>1 DEF Data, OneFate
  <1>5. NotAhead'
    <2> SUFFICES ASSUME NEW s \in Subs, NEW m \in Messages, fate[s][m] # "none"
                 PROVE  m[2] <= sent'[m[1]]
      BY DEF NotAhead
    <2>1. m[2] <= sent[m[1]] /\ m[1] \in Pubs /\ m[2] \in Int
      BY MessageFacts DEF Data, NotAhead
    <2>2. sent[m[1]] \in Int
      BY <2>1, SentFacts
    <2> QED
      BY <2>1, <2>2
  <1>6. Ordered' /\ ReceivedFirst'
    BY DEF Data, Ordered, ReceivedFirst
  <1> QED
    BY <1>2, <1>3, <1>4, <1>5, <1>6 DEF Data

(* A message at the end of its fan-out to s, gone past the buffer.         *)
LEMMA DataSettles ==
    ASSUME TypeOK, Data, NEW p \in Readers, NEW s \in todo[p], NEW f \in {"received", "dropped"},
           fate' = Settled(s, Msg(p), f), UNCHANGED <<chan, sent>>,
           todo' = [todo EXCEPT ![p] = @ \ {s}], Readers' = Readers,
           f = "received" => chan[s] = <<>>
    PROVE  Data'
  <1>1. /\ p \in Pubs /\ s \in Subs /\ sent[p] \in Int
        /\ Msg(p) \in Messages /\ Msg(p)[1] = p /\ Msg(p)[2] = sent[p]
        /\ fate[s][Msg(p)] = "offered"
    BY MsgFacts DEF Data, TypeOK, Readers, StillOffered
  <1>2. /\ fate'[s][Msg(p)] = f
        /\ \A x \in Subs, n \in Messages : x # s \/ n # Msg(p) => fate'[x][n] = fate[x][n]
    BY <1>1, SettledFacts
  <1>3. \A q \in Readers : q \in Pubs /\ Msg(q) \in Messages /\ Msg(q)[1] = q /\ Msg(q)' = Msg(q)
    BY MsgFacts DEF Data, Msg
  <1>4. \A q \in Pubs : todo'[q] = IF q = p THEN todo[p] \ {s} ELSE todo[q]
    BY <1>1 DEF TypeOK
  <1>5. Numbered'
    BY DEF Data, Numbered
  <1>6. StillOffered'
    <2> SUFFICES ASSUME NEW q \in Readers, NEW x \in todo'[q] PROVE fate'[x][Msg(q)] = "offered"
      BY <1>3 DEF StillOffered
    <2>1. x \in todo[q] /\ x \in Subs /\ (q # p \/ x # s)
      BY <1>3, <1>4 DEF TypeOK
    <2>2. x # s \/ Msg(q) # Msg(p)
      BY <1>1, <1>3, <2>1
    <2> QED
      BY <1>2, <1>3, <2>1, <2>2 DEF Data, StillOffered
  <1>7. OneFate'
    <2> SUFFICES ASSUME NEW x \in Subs, NEW m \in Messages
                 PROVE  /\ fate'[x][m] # "twice"
                        /\ fate'[x][m] = "offered" =>
                              m[1] \in Readers /\ m = Msg(m[1]) /\ x \in todo'[m[1]]
                        /\ fate'[x][m] = "buffered" <=> \E i \in 1..Len(chan[x]) : chan[x][i] = m
      BY <1>3 DEF OneFate
    <2>1. CASE x = s /\ m = Msg(p)
      <3>1. ~ \E i \in 1..Len(chan[x]) : chan[x][i] = m
        BY <1>1, <2>1 DEF Data, OneFate
      <3> QED
        BY <1>2, <2>1, <3>1
    <2>2. CASE x # s \/ m # Msg(p)
      <3>1. fate'[x][m] = fate[x][m]
        BY <1>2, <2>2
      <3>2. fate[x][m] = "offered" => m[1] \in Readers /\ m = Msg(m[1]) /\ x \in todo[m[1]]
        BY DEF Data, OneFate
      <3>3. fate[x][m] = "offered" => x \in todo'[m[1]]
        BY <1>3, <1>4, <2>2, <3>2
      <3> QED
        BY <3>1, <3>2, <3>3 DEF Data, OneFate
    <2> QED
      BY <2>1, <2>2
  <1>8. NotAhead'
    BY <1>1, <1>2 DEF Data, NotAhead
  <1>9. Ordered'
    BY DEF Data, Ordered
  <1>10. ReceivedFirst'
    <2> SUFFICES ASSUME NEW x \in Subs, NEW m \in Messages, NEW n \in Messages,
                        fate'[x][m] = "received", fate'[x][n] = "buffered", m[1] = n[1]
                 PROVE  m[2] < n[2]
      BY DEF ReceivedFirst
    <2>1. fate[x][n] = "buffered"
      BY <1>2
    <2>2. x # s \/ m # Msg(p)
      <3> SUFFICES ASSUME x = s, m = Msg(p) PROVE FALSE
        OBVIOUS
      <3>1. chan[s] = <<>>
        BY <1>2
      <3>2. \E i \in 1..Len(chan[s]) : chan[s][i] = n
        BY <2>1 DEF Data, OneFate
      <3>3. Len(chan[s]) = 0
        BY <3>1
      <3> QED
        BY <3>2, <3>3
    <2> QED
      BY <1>2, <2>1, <2>2 DEF Data, ReceivedFirst
  <1> QED
    BY <1>5, <1>6, <1>7, <1>8, <1>9, <1>10 DEF Data

(* A message appended to the channel of s.                                 *)
LEMMA DataBuffers ==
    ASSUME TypeOK, Data, NEW p \in Readers, NEW s \in todo[p],
           fate' = Settled(s, Msg(p), "buffered"), UNCHANGED sent,
           chan' = [chan EXCEPT ![s] = Append(@, Msg(p))],
           todo' = [todo EXCEPT ![p] = @ \ {s}], Readers' = Readers
    PROVE  Data'
  <1>1. /\ p \in Pubs /\ s \in Subs /\ sent[p] \in Int
        /\ Msg(p) \in Messages /\ Msg(p)[1] = p /\ Msg(p)[2] = sent[p]
        /\ \A m \in Messages : m[1] = p /\ m[2] = sent[p] => m = Msg(p)
        /\ fate[s][Msg(p)] = "offered"
    BY MsgFacts DEF Data, TypeOK, Readers, StillOffered
  <1>2. /\ fate'[s][Msg(p)] = "buffered"
        /\ \A x \in Subs, n \in Messages : x # s \/ n # Msg(p) => fate'[x][n] = fate[x][n]
    BY <1>1, SettledFacts
  <1>3. \A q \in Readers : q \in Pubs /\ Msg(q) \in Messages /\ Msg(q)[1] = q /\ Msg(q)' = Msg(q)
    BY MsgFacts DEF Data, Msg
  <1>4. \A q \in Pubs : todo'[q] = IF q = p THEN todo[p] \ {s} ELSE todo[q]
    BY <1>1 DEF TypeOK
  <1>5. /\ Len(chan[s]) \in Nat /\ Len(chan'[s]) = Len(chan[s]) + 1
        /\ chan'[s][Len(chan[s]) + 1] = Msg(p)
        /\ \A i \in 1..Len(chan[s]) : chan'[s][i] = chan[s][i] /\ chan[s][i] \in Messages
        /\ \A x \in Subs : x # s => chan'[x] = chan[x]
    <2>1. chan \in [Subs -> Seq(Messages)] /\ chan[s] \in Seq(Messages)
      BY <1>1 DEF TypeOK
    <2>2. chan'[s] = Append(chan[s], Msg(p)) /\ \A x \in Subs : x # s => chan'[x] = chan[x]
      BY <1>1, <2>1
    <2> QED
      BY <1>1, <2>1, <2>2, AppendFacts
  (* Nothing of p in the channel is as late as its message.                *)
  <1>6. \A i \in 1..Len(chan[s]) : chan[s][i][1] = p => chan[s][i][2] < sent[p]
    <2> SUFFICES ASSUME NEW i \in 1..Len(chan[s]), chan[s][i][1] = p PROVE chan[s][i][2] < sent[p]
      OBVIOUS
    <2>1. chan[s][i] \in Messages /\ fate[s][chan[s][i]] = "buffered"
      BY <1>1, <1>5 DEF Data, OneFate
    <2>2. chan[s][i] # Msg(p) /\ chan[s][i][2] <= sent[p] /\ chan[s][i][2] \in Int
      BY <1>1, <2>1, MessageFacts DEF Data, NotAhead
    <2> QED
      BY <1>1, <2>1, <2>2
  <1>7. Numbered'
    BY DEF Data, Numbered
  <1>8. StillOffered'
    <2> SUFFICES ASSUME NEW q \in Readers, NEW x \in todo'[q] PROVE fate'[x][Msg(q)] = "offered"
      BY <1>3 DEF StillOffered
    <2>1. x \in todo[q] /\ x \in Subs /\ (q # p \/ x # s)
      BY <1>3, <1>4 DEF TypeOK
    <2>2. x # s \/ Msg(q) # Msg(p)
      BY <1>1, <1>3, <2>1
    <2> QED
      BY <1>2, <1>3, <2>1, <2>2 DEF Data, StillOffered
  <1>9. OneFate'
    <2> SUFFICES ASSUME NEW x \in Subs, NEW m \in Messages
                 PROVE  /\ fate'[x][m] # "twice"
                        /\ fate'[x][m] = "offered" =>
                              m[1] \in Readers /\ m = Msg(m[1]) /\ x \in todo'[m[1]]
                        /\ fate'[x][m] = "buffered" <=> \E i \in 1..Len(chan'[x]) : chan'[x][i] = m
      BY <1>3 DEF OneFate
    <2>1. CASE x = s /\ m = Msg(p)
      BY <1>2, <1>5, <2>1
    <2>2. CASE x # s \/ m # Msg(p)
      <3>1. fate'[x][m] = fate[x][m]
        BY <1>2, <2>2
      <3>2. fate[x][m] = "offered" => m[1] \in Readers /\ m = Msg(m[1]) /\ x \in todo[m[1]]
        BY DEF Data, OneFate
      <3>3. fate[x][m] = "offered" => x \in todo'[m[1]]
        BY <1>3, <1>4, <2>2, <3>2
      <3>4. (\E i \in 1..Len(chan'[x]) : chan'[x][i] = m) <=> (\E i \in 1..Len(chan[x]) : chan[x][i] = m)
        <4>1. CASE x = s
          BY <1>5, <2>2, <4>1
        <4>2. CASE x # s
          BY <1>5, <4>2
        <4> QED
          BY <4>1, <4>2
      <3> QED
        BY <3>1, <3>2, <3>3, <3>4 DEF Data, OneFate
    <2> QED
      BY <2>1, <2>2
  <1>10. NotAhead'
    BY <1>1, <1>2 DEF Data, NotAhead
  <1>11. Ordered'
    <2> SUFFICES ASSUME NEW x \in Subs, NEW a \in 1..Len(chan'[x]), NEW b \in 1..Len(chan'[x]),
                        a < b, chan'[x][a][1] = chan'[x][b][1]
                 PROVE  chan'[x][a][2] < chan'[x][b][2]
      BY DEF Ordered
    <2>1. CASE x # s
      BY <1>5, <2>1 DEF Data, Ordered
    <2>2. CASE x = s /\ b \in 1..Len(chan[s])
      BY <1>5, <2>2 DEF Data, Ordered
    <2>3. CASE x = s /\ b = Len(chan[s]) + 1
      BY <1>1, <1>5, <1>6, <2>3
    <2> QED
      BY <1>5, <2>1, <2>2, <2>3
  <1>12. ReceivedFirst'
    <2> SUFFICES ASSUME NEW x \in Subs, NEW m \in Messages, NEW n \in Messages,
                        fate'[x][m] = "received", fate'[x][n] = "buffered", m[1] = n[1]
                 PROVE  m[2] < n[2]
      BY DEF ReceivedFirst
    <2>1. fate[x][m] = "received" /\ (x # s \/ m # Msg(p))
      BY <1>2
    <2>2. CASE x = s /\ n = Msg(p)
      <3>1. m[2] <= sent[p] /\ m[1] = p /\ m[2] \in Int
        BY <1>1, <2>1, <2>2, MessageFacts DEF Data, NotAhead
      <3> QED
        BY <1>1, <2>1, <2>2, <3>1
    <2>3. CASE x # s \/ n # Msg(p)
      BY <1>2, <2>1, <2>3 DEF Data, ReceivedFirst
    <2> QED
      BY <2>2, <2>3
  <1> QED
    BY <1>7, <1>8, <1>9, <1>10, <1>11, <1>12 DEF Data

(* The oldest message leaves the channel of s, received or evicted.        *)
LEMMA DataPops ==
    ASSUME TypeOK, Data, NEW s \in Subs, chan[s] # <<>>, NEW f \in {"received", "dropped"},
           fate' = Settled(s, Head(chan[s]), f), chan' = [chan EXCEPT ![s] = Tail(@)],
           UNCHANGED <<sent, todo>>, Readers' = Readers
    PROVE  Data'
  <1> DEFINE h == Head(chan[s])
  <1>1. /\ Len(chan[s]) \in Nat /\ Len(chan[s]) > 0 /\ Len(chan'[s]) = Len(chan[s]) - 1
        /\ h = chan[s][1] /\ h \in Messages
        /\ \A i \in 1..(Len(chan[s]) - 1) : chan'[s][i] = chan[s][i + 1]
        /\ \A i \in 1..Len(chan[s]) : chan[s][i] \in Messages
        /\ \A x \in Subs : x # s => chan'[x] = chan[x]
    <2>1. chan \in [Subs -> Seq(Messages)] /\ chan[s] \in Seq(Messages)
      BY DEF TypeOK
    <2>2. chan'[s] = Tail(chan[s]) /\ \A x \in Subs : x # s => chan'[x] = chan[x]
      BY <2>1
    <2> QED
      BY <2>1, <2>2, TailFacts
  <1> HIDE DEF h
  <1>2. fate[s][h] = "buffered"
    BY <1>1 DEF Data, OneFate
  <1>3. /\ fate'[s][h] = f
        /\ \A x \in Subs, n \in Messages : x # s \/ n # h => fate'[x][n] = fate[x][n]
    BY <1>1, <1>2, SettledFacts DEF h
  <1>4. \A q \in Readers : q \in Pubs /\ Msg(q) \in Messages /\ Msg(q)' = Msg(q)
    BY MsgFacts DEF Data, Msg
  (* The messages behind the oldest one are others, and later.             *)
  <1>5. \A i \in 2..Len(chan[s]) :
            chan[s][i] # h /\ (chan[s][i][1] = h[1] => h[2] < chan[s][i][2])
    <2> SUFFICES ASSUME NEW i \in 2..Len(chan[s])
                 PROVE  chan[s][i] # h /\ (chan[s][i][1] = h[1] => h[2] < chan[s][i][2])
      OBVIOUS
    <2>1. i \in 1..Len(chan[s]) /\ 1 \in 1..Len(chan[s]) /\ 1 < i
      BY <1>1
    <2>2. chan[s][i][1] = h[1] => h[2] < chan[s][i][2]
      BY <1>1, <2>1 DEF Data, Ordered
    <2>3. h[2] \in Int
      BY <1>1, MessageFacts
    <2> QED
      BY <2>2, <2>3
  <1>6. \A m \in Messages : (\E i \in 1..Len(chan'[s]) : chan'[s][i] = m) <=>
                            m # h /\ (\E i \in 1..Len(chan[s]) : chan[s][i] = m)
    <2> SUFFICES ASSUME NEW m \in Messages
                 PROVE  (\E i \in 1..Len(chan'[s]) : chan'[s][i] = m) <=>
                            m # h /\ (\E i \in 1..Len(chan[s]) : chan[s][i] = m)
      OBVIOUS
    <2>1. ASSUME NEW i \in 1..Len(chan'[s]), chan'[s][i] = m
          PROVE  m # h /\ (\E j \in 1..Len(chan[s]) : chan[s][j] = m)
      <3>1. i + 1 \in 2..Len(chan[s]) /\ i + 1 \in 1..Len(chan[s]) /\ chan[s][i + 1] = m
        BY <1>1, <2>1
      <3> QED
        BY <1>5, <3>1
    <2>2. ASSUME m # h, NEW i \in 1..Len(chan[s]), chan[s][i] = m
          PROVE  \E j \in 1..Len(chan'[s]) : chan'[s][j] = m
      <3>1. i # 1
        BY <1>1, <2>2
      <3>2. i - 1 \in 1..Len(chan'[s]) /\ i - 1 \in 1..(Len(chan[s]) - 1) /\ (i - 1) + 1 = i
        BY <1>1, <3>1
      <3>3. chan'[s][i - 1] = m
        BY <1>1, <2>2, <3>2
      <3> QED
        BY <3>2, <3>3
    <2> QED
      BY <2>1, <2>2
  <1>7. Numbered'
    BY DEF Data, Numbered
  <1>8. StillOffered'
    <2> SUFFICES ASSUME NEW q \in Readers, NEW x \in todo[q] PROVE fate'[x][Msg(q)] = "offered"
      BY <1>4 DEF StillOffered
    <2>1. x \in Subs /\ fate[x][Msg(q)] = "offered"
      BY <1>4 DEF Data, StillOffered, TypeOK
    <2>2. x # s \/ Msg(q) # h
      BY <1>2, <2>1
    <2> QED
      BY <1>3, <1>4, <2>1, <2>2
  <1>9. OneFate'
    <2> SUFFICES ASSUME NEW x \in Subs, NEW m \in Messages
                 PROVE  /\ fate'[x][m] # "twice"
                        /\ fate'[x][m] = "offered" =>
                              m[1] \in Readers /\ m = Msg(m[1]) /\ x \in todo[m[1]]
                        /\ fate'[x][m] = "buffered" <=> \E i \in 1..Len(chan'[x]) : chan'[x][i] = m
      BY <1>4 DEF OneFate
    <2>1. CASE x = s
      <3>1. CASE m = h
        BY <1>3, <1>6, <2>1, <3>1
      <3>2. CASE m # h
        <4>1. fate'[x][m] = fate[x][m]
          BY <1>3, <3>2
        <4>2. /\ fate[x][m] # "twice"
              /\ fate[x][m] = "offered" => m[1] \in Readers /\ m = Msg(m[1]) /\ x \in todo[m[1]]
              /\ fate[x][m] = "buffered" <=> \E i \in 1..Len(chan[x]) : chan[x][i] = m
          BY DEF Data, OneFate
        <4>3. (\E i \in 1..Len(chan'[s]) : chan'[s][i] = m) <=>
                  (\E i \in 1..Len(chan[s]) : chan[s][i] = m)
          BY <1>6, <3>2
        <4> QED
          BY <2>1, <4>1, <4>2, <4>3
      <3> QED
        BY <3>1, <3>2
    <2>2. CASE x # s
      BY <1>1, <1>3, <2>2 DEF Data, OneFate
    <2> QED
      BY <2>1, <2>2
  <1>10. NotAhead'
    BY <1>1, <1>2, <1>3 DEF Data, NotAhead
  <1>11. Ordered'
    <2> SUFFICES ASSUME NEW x \in Subs, NEW a \in 1..Len(chan'[x]), NEW b \in 1..Len(chan'[x]),
                        a < b, chan'[x][a][1] = chan'[x][b][1]
                 PROVE  chan'[x][a][2] < chan'[x][b][2]
      BY DEF Ordered
    <2>1. CASE x # s
      BY <1>1, <2>1 DEF Data, Ordered
    <2>2. CASE x = s
      <3>1. /\ a + 1 \in 1..Len(chan[s]) /\ b + 1 \in 1..Len(chan[s]) /\ a + 1 < b + 1
            /\ chan'[s][a] = chan[s][a + 1] /\ chan'[s][b] = chan[s][b + 1]
        BY <1>1, <2>2
      <3> QED
        BY <2>2, <3>1 DEF Data, Ordered
    <2> QED
      BY <2>1, <2>2
  <1>12. ReceivedFirst'
    <2> SUFFICES ASSUME NEW x \in Subs, NEW m \in Messages, NEW n \in Messages,
                        fate'[x][m] = "received", fate'[x][n] = "buffered", m[1] = n[1]
                 PROVE  m[2] < n[2]
      BY DEF ReceivedFirst
    <2>1. fate[x][n] = "buffered" /\ (x # s \/ n # h)
      BY <1>3
    <2>2. CASE x = s /\ m = h
      <3>1. PICK i \in 1..Len(chan[s]) : chan[s][i] = n
        BY <2>1, <2>2 DEF Data, OneFate
      <3>2. i \in 2..Len(chan[s])
        BY <1>1, <2>1, <2>2, <3>1
      <3> QED
        BY <1>5, <2>2, <3>1, <3>2
    <2>3. CASE x # s \/ m # h
      BY <1>3, <2>1, <2>3 DEF Data, ReceivedFirst
    <2> QED
      BY <2>2, <2>3
  <1> QED
    BY <1>7, <1>8, <1>9, <1>10, <1>11, <1>12 DEF Data

(* Publish offers a new message to the subscriptions of its topic.         *)
LEMMA DataPublishes ==
    ASSUME TypeOK, Data, NEW p \in Pubs, Publish(p)
    PROVE  Data'
  <1> DEFINE m == <<p, sent[p] + 1>>
             T == Targets(m)
  <1>1. sent[p] \in Int /\ sent[p] \in Nat /\ sent[p] < PerPub /\ p \notin Readers
    BY SentFacts DEF Publish, Readers
  <1>2. m \in Messages /\ m[1] = p /\ m[2] = sent[p] + 1
    BY <1>1, OptionAssumption DEF Messages
  <1>3. T \subseteq Subs
    BY DEF Targets, TypeOK
  <1>4. /\ fate' = [s \in Subs |-> IF s \in T THEN [fate[s] EXCEPT ![m] = "offered"] ELSE fate[s]]
        /\ UNCHANGED chan
        /\ \A q \in Pubs : sent'[q] = IF q = p THEN sent[p] + 1 ELSE sent[q]
        /\ \A q \in Pubs : todo'[q] = IF q = p THEN T ELSE todo[q]
        /\ Readers' = Readers \cup {p}
    <2>1. /\ sent' = [sent EXCEPT ![p] = @ + 1] /\ todo' = [todo EXCEPT ![p] = T]
          /\ pc' = [pc EXCEPT ![p] = "fanout"] /\ UNCHANGED chan
          /\ fate' = [s \in Subs |-> IF s \in T THEN [fate[s] EXCEPT ![m] = "offered"] ELSE fate[s]]
      BY DEF Publish
    <2>2. DOMAIN sent = Pubs /\ DOMAIN todo = Pubs /\ DOMAIN pc = Pubs
      BY DEF TypeOK
    <2>3. \A q \in Pubs : pc'[q] = IF q = p THEN "fanout" ELSE pc[q]
      BY <2>1, <2>2
    <2>4. Readers' = Readers \cup {p}
      BY <2>3 DEF Readers
    <2> QED
      BY <2>1, <2>2, <2>4
  <1> HIDE DEF m, T
  <1>5. \A x \in Subs, n \in Messages :
            fate'[x][n] = IF x \in T /\ n = m THEN "offered" ELSE fate[x][n]
    BY <1>2, <1>4 DEF TypeOK
  <1>6. \A x \in Subs : fate[x][m] = "none"
    BY <1>1, <1>2 DEF Data, NotAhead
  <1>7. /\ Msg(p)' = m
        /\ \A q \in Readers : q \in Pubs /\ q # p /\ Msg(q)' = Msg(q) /\ Msg(q) \in Messages /\ Msg(q) # m
    <2>1. Msg(p)' = m
      BY <1>4 DEF Msg, m
    <2>2. \A q \in Readers : q \in Pubs /\ q # p /\ Msg(q) \in Messages /\ Msg(q)[1] = q
      BY <1>1, MsgFacts DEF Data
    <2>3. \A q \in Readers : Msg(q)' = Msg(q)
      BY <1>4, <2>2 DEF Msg
    <2> QED
      BY <1>2, <2>1, <2>2, <2>3
  <1>8. Numbered'
    BY <1>1, <1>4, <1>7 DEF Data, Numbered
  <1>9. StillOffered'
    <2> SUFFICES ASSUME NEW q \in Readers', NEW x \in todo'[q] PROVE fate'[x][Msg(q)'] = "offered"
      BY DEF StillOffered
    <2>1. CASE q = p
      BY <1>2, <1>3, <1>4, <1>5, <1>7, <2>1
    <2>2. CASE q # p
      <3>1. q \in Readers /\ x \in todo[q] /\ x \in Subs
        BY <1>4, <1>7, <2>2 DEF TypeOK
      <3> QED
        BY <1>5, <1>7, <3>1 DEF Data, StillOffered
    <2> QED
      BY <2>1, <2>2
  <1>10. OneFate'
    <2> SUFFICES ASSUME NEW x \in Subs, NEW n \in Messages
                 PROVE  /\ fate'[x][n] # "twice"
                        /\ fate'[x][n] = "offered" =>
                              n[1] \in Readers' /\ n = Msg(n[1])' /\ x \in todo'[n[1]]
                        /\ fate'[x][n] = "buffered" <=> \E i \in 1..Len(chan[x]) : chan[x][i] = n
      BY <1>4 DEF OneFate
    <2>1. CASE x \in T /\ n = m
      <3>1. ~ \E i \in 1..Len(chan[x]) : chan[x][i] = n
        BY <1>6, <2>1 DEF Data, OneFate
      <3> QED
        BY <1>2, <1>4, <1>5, <1>7, <2>1, <3>1
    <2>2. CASE ~(x \in T /\ n = m)
      <3>1. fate'[x][n] = fate[x][n]
        BY <1>5, <2>2
      <3>2. fate[x][n] = "offered" => n[1] \in Readers /\ n = Msg(n[1]) /\ x \in todo[n[1]]
        BY DEF Data, OneFate
      <3>3. n[1] \in Readers /\ n = Msg(n[1]) =>
                n[1] \in Readers' /\ n = Msg(n[1])' /\ todo'[n[1]] = todo[n[1]]
        BY <1>4, <1>7
      <3> QED
        BY <3>1, <3>2, <3>3 DEF Data, OneFate
    <2> QED
      BY <2>1, <2>2
  <1>11. NotAhead'
    <2> SUFFICES ASSUME NEW x \in Subs, NEW n \in Messages, fate'[x][n] # "none"
                 PROVE  n[2] <= sent'[n[1]]
      BY DEF NotAhead
    <2>1. CASE n = m
      BY <1>1, <1>2, <1>4, <2>1
    <2>2. CASE n # m
      <3>1. n[2] <= sent[n[1]] /\ n[1] \in Pubs /\ n[2] \in Int
        BY <1>5, <2>2, MessageFacts DEF Data, NotAhead
      <3>2. sent[n[1]] \in Int
        BY <3>1, SentFacts
      <3> QED
        BY <1>1, <1>4, <3>1, <3>2
    <2> QED
      BY <2>1, <2>2
  <1>12. Ordered'
    BY <1>4 DEF Data, Ordered
  <1>13. ReceivedFirst'
    BY <1>5 DEF Data, ReceivedFirst
  <1> QED
    BY <1>8, <1>9, <1>10, <1>11, <1>12, <1>13 DEF Data

-----------------------------------------------------------------------------
(* Types, and the capacity of the channels *)

LEMMA ChanFacts ==
    ASSUME TypeOK
    PROVE  /\ bufSize \in Nat /\ chan \in [Subs -> Seq(Messages)]
           /\ \A x \in Subs : /\ chan[x] \in Seq(Messages)
                              /\ Len(chan[x]) \in Nat /\ Len(chan[x]) <= bufSize
  <1>1. bufSize \in BufSizes
    BY DEF TypeOK
  <1>2. chan \in [Subs -> Seq(Messages)] /\ \A x \in Subs : Len(chan[x]) <= bufSize
    BY DEF TypeOK
  <1> QED
    BY <1>1, <1>2, OptionAssumption, LenProperties

Fates == {"none", "offered", "buffered", "received", "dropped", "twice"}

LEMMA SettledType ==
    ASSUME TypeOK, NEW s, NEW m, NEW f \in Fates
    PROVE  Settled(s, m, f) \in [Subs -> [Messages -> Fates]]
  <1>1. fate \in [Subs -> [Messages -> Fates]]
    BY DEF TypeOK, Fates
  <1>2. "twice" \in Fates
    BY DEF Fates
  <1> HIDE DEF Fates
  <1> QED
    BY <1>1, <1>2 DEF Settled

LEMMA SendTypes ==
    ASSUME TypeOK, Numbered, NEW p \in Readers, NEW s \in Subs, CanSend(s), Sends(p, s)
    PROVE  /\ chan' \in [Subs -> Seq(Messages)]
           /\ \A x \in Subs : Len(chan'[x]) <= bufSize
           /\ ready' \subseteq ready
           /\ fate' \in [Subs -> [Messages -> Fates]]
           /\ fault' \in {"none", "send on closed channel", "close of closed channel"}
  <1>1. CASE ch[s] = "closed"
    BY <1>1 DEF Sends, TypeOK, Fates
  <1>2. CASE ch[s] # "closed" /\ s \in ready
    <2>1. ready' = ready \ {s} /\ UNCHANGED <<chan, fault>> /\ fate' = Settled(s, Msg(p), "received")
      BY <1>2 DEF Sends
    <2>2. fate' \in [Subs -> [Messages -> Fates]]
      BY <2>1, SettledType DEF Fates
    <2> QED
      BY <2>1, <2>2 DEF TypeOK
  <1>3. CASE ch[s] # "closed" /\ s \notin ready
    <2>1. /\ chan' = [chan EXCEPT ![s] = Append(@, Msg(p))] /\ Len(chan[s]) < bufSize
          /\ fate' = Settled(s, Msg(p), "buffered") /\ UNCHANGED <<ready, fault>>
      BY <1>3 DEF Sends, CanSend
    <2>2. Msg(p) \in Messages
      BY MsgFacts
    <2>3. Append(chan[s], Msg(p)) \in Seq(Messages) /\ Len(Append(chan[s], Msg(p))) <= bufSize
      BY <2>1, <2>2, ChanFacts, AppendFacts
    <2>4. chan' \in [Subs -> Seq(Messages)] /\ \A x \in Subs : Len(chan'[x]) <= bufSize
      BY <2>1, <2>3, ChanFacts
    <2>5. fate' \in [Subs -> [Messages -> Fates]]
      BY <2>1, SettledType DEF Fates
    <2> QED
      BY <2>1, <2>4, <2>5 DEF TypeOK
  <1> QED
    BY <1>1, <1>2, <1>3

LEMMA PopTypes ==
    ASSUME TypeOK, NEW s \in Subs, chan[s] # <<>>, chan' = [chan EXCEPT ![s] = Tail(@)]
    PROVE  /\ chan' \in [Subs -> Seq(Messages)]
           /\ \A x \in Subs : Len(chan'[x]) <= bufSize
  <1>1. Tail(chan[s]) \in Seq(Messages) /\ Len(Tail(chan[s])) <= bufSize
    BY ChanFacts, TailFacts
  <1> QED
    BY <1>1, ChanFacts

(* What TypeOK says beyond RegistryTypes.                                  *)
DataTypes ==
    /\ bufSize \in BufSizes /\ policy \in Choices /\ closed \in BOOLEAN
    /\ chan \in [Subs -> Seq(Messages)]
    /\ \A s \in Subs : Len(chan[s]) <= bufSize
    /\ ready \subseteq Subs
    /\ sent \in [Pubs -> 0..PerPub]
    /\ evicted \in [Pubs -> BOOLEAN] /\ lost \in [Pubs -> BOOLEAN] /\ reported \in [Pubs -> BOOLEAN]
    /\ disconnect \in [Pubs -> SUBSET Subs]
    /\ fate \in [Subs -> [Messages -> {"none", "offered", "buffered", "received", "dropped", "twice"}]]
    /\ fault \in {"none", "send on closed channel", "close of closed channel"}

(* Every variable keeps its type; no channel holds more than its buffer.   *)
LEMMA NextType == TypeOK /\ Inv /\ Numbered /\ [Next]_vars => TypeOK'
  <1> SUFFICES ASSUME TypeOK, Inv, Numbered, [Next]_vars PROVE TypeOK'
    OBVIOUS
  <1>0. RegistryTypes' /\ fault' = "none" /\ DataTypes
    BY NextInv DEF Inv, NoChannelPanic, TypeOK, DataTypes
  <1> USE DEF options, registry, locals
  <1>1. ASSUME NEW p \in Pubs, Publish(p) PROVE DataTypes'
    <2>1. sent[p] + 1 \in 0..PerPub
      BY <1>1, SentFacts, OptionAssumption DEF Publish
    <2>2. sent' \in [Pubs -> 0..PerPub]
      BY <1>1, <2>1 DEF Publish, TypeOK
    <2>3. fate' \in [Subs -> [Messages -> Fates]]
      BY <1>1 DEF Publish, TypeOK, Fates
    <2> QED
      BY <1>0, <1>1, <2>2, <2>3 DEF Publish, DataTypes, Fates
  <1>2. ASSUME NEW p \in Pubs, PublishCanceled(p) \/ PublishClosed(p) PROVE DataTypes'
    <2>1. sent[p] + 1 \in 0..PerPub
      BY <1>2, SentFacts, OptionAssumption DEF PublishCanceled, PublishClosed
    <2>2. sent' \in [Pubs -> 0..PerPub]
      BY <1>2, <2>1 DEF PublishCanceled, PublishClosed, TypeOK
    <2>3. UNCHANGED <<options, registry, chan, ready, canceled, pc, todo, cur, evicted, lost,
                      disconnect, reported, fate, fault>>
      BY <1>2 DEF PublishCanceled, PublishClosed
    <2> QED
      BY <1>0, <2>2, <2>3 DEF DataTypes
  <1>3. ASSUME NEW p \in Pubs, NEW s \in Subs, DeliverSend(p, s) PROVE DataTypes'
    <2>1. p \in Readers /\ CanSend(s) /\ Sends(p, s)
      BY <1>3 DEF DeliverSend, Readers
    <2>2. /\ chan' \in [Subs -> Seq(Messages)] /\ \A x \in Subs : Len(chan'[x]) <= bufSize
          /\ ready' \subseteq ready /\ fate' \in [Subs -> [Messages -> Fates]]
      BY <2>1, SendTypes
    <2>3. UNCHANGED <<options, registry, canceled, pc, sent, cur, evicted, lost, disconnect, reported>>
      BY <1>3 DEF DeliverSend
    <2> QED
      BY <1>0, <2>2, <2>3 DEF DataTypes, Fates
  <1>4. ASSUME NEW p \in Pubs, NEW s \in Subs, DeliverDrop(p, s) PROVE DataTypes'
    <2>1. fate' \in [Subs -> [Messages -> Fates]]
      BY <1>4, SettledType DEF DeliverDrop, reportDrop, Fates
    <2>2. lost' \in [Pubs -> BOOLEAN] /\ reported' \in [Pubs -> BOOLEAN]
      BY <1>4 DEF DeliverDrop, reportDrop, TypeOK
    <2>3. disconnect' \in [Pubs -> SUBSET Subs]
      BY <1>4 DEF DeliverDrop, TypeOK
    <2> QED
      BY <1>0, <1>4, <2>1, <2>2, <2>3 DEF DeliverDrop, DataTypes, Fates
  <1>5. ASSUME NEW p \in Pubs, NEW s \in Subs, DeliverFull(p, s) PROVE DataTypes'
    BY <1>0, <1>5 DEF DeliverFull, DataTypes
  <1>6. ASSUME NEW p \in Pubs, DeliverEvict(p) PROVE DataTypes'
    <2>1. cur[p] \in Subs
      BY <1>6 DEF DeliverEvict, Inv, FanoutRegistered, Readers, RegistryTypes
    <2>2. evicted' \in [Pubs -> BOOLEAN] /\ reported' \in [Pubs -> BOOLEAN]
      BY <1>6 DEF DeliverEvict, reportDrop, TypeOK
    <2>3. CASE chan[cur[p]] # <<>>
      <3>1. chan' = [chan EXCEPT ![cur[p]] = Tail(@)] /\ fate' = Settled(cur[p], Oldest(p), "dropped")
        BY <1>6, <2>3 DEF DeliverEvict, reportDrop
      <3>2. fate' \in [Subs -> [Messages -> Fates]]
        BY <3>1, SettledType DEF Fates
      <3>3. chan' \in [Subs -> Seq(Messages)] /\ \A x \in Subs : Len(chan'[x]) <= bufSize
        BY <2>1, <2>3, <3>1, PopTypes
      <3> QED
        BY <1>0, <1>6, <2>2, <3>2, <3>3 DEF DeliverEvict, DataTypes, Fates
    <2>4. CASE chan[cur[p]] = <<>>
      <3>1. UNCHANGED <<chan, fate>>
        BY <1>6, <2>4 DEF DeliverEvict
      <3> QED
        BY <1>0, <1>6, <2>2, <3>1 DEF DeliverEvict, DataTypes
    <2> QED
      BY <2>3, <2>4
  <1>7. ASSUME NEW p \in Pubs, DeliverResend(p) PROVE DataTypes'
    <2>1. cur[p] \in Subs /\ p \in Readers
      BY <1>7 DEF DeliverResend, Inv, FanoutRegistered, Readers, RegistryTypes
    <2>2. /\ chan' \in [Subs -> Seq(Messages)] /\ \A x \in Subs : Len(chan'[x]) <= bufSize
          /\ ready' \subseteq ready /\ fate' \in [Subs -> [Messages -> Fates]]
          /\ reported' \in [Pubs -> BOOLEAN]
      <3>1. CASE CanSend(cur[p])
        <4>1. Sends(p, cur[p]) /\ UNCHANGED reported
          BY <1>7, <3>1 DEF DeliverResend
        <4> QED
          BY <2>1, <3>1, <4>1, SendTypes DEF TypeOK
      <3>2. CASE ~CanSend(cur[p])
        <4>1. /\ fate' = Settled(cur[p], Msg(p), "dropped") /\ UNCHANGED <<chan, ready>>
              /\ reported' = [reported EXCEPT ![p] = TRUE]
          BY <1>7, <3>2 DEF DeliverResend, reportDrop
        <4>2. fate' \in [Subs -> [Messages -> Fates]]
          BY <4>1, SettledType DEF Fates
        <4>3. reported' \in [Pubs -> BOOLEAN]
          BY <4>1 DEF TypeOK
        <4> QED
          BY <4>1, <4>2, <4>3, ChanFacts
      <3> QED
        BY <3>1, <3>2
    <2>3. UNCHANGED <<options, registry, canceled, sent, disconnect>>
      BY <1>7 DEF DeliverResend
    <2>4. lost' \in [Pubs -> BOOLEAN] /\ evicted' \in [Pubs -> BOOLEAN]
      BY <1>7 DEF DeliverResend, TypeOK
    <2> QED
      BY <1>0, <2>2, <2>3, <2>4 DEF DataTypes, Fates
  <1>8. ASSUME NEW p \in Pubs, PublishUnlock(p) PROVE DataTypes'
    BY <1>0, <1>8 DEF PublishUnlock, DataTypes
  <1>9. ASSUME NEW s \in Subs, NEW w, remove(s, w) PROVE ready' \subseteq ready /\ UNCHANGED closed
    BY <1>9 DEF remove, closeChannels
  <1>10. ASSUME NEW p \in Pubs, NEW s \in Subs, PublishDisconnect(p, s) PROVE DataTypes'
    <2>1. ready' \subseteq ready /\ UNCHANGED closed
      BY <1>9, <1>10 DEF PublishDisconnect
    <2>2. disconnect' \in [Pubs -> SUBSET Subs]
      BY <1>10 DEF PublishDisconnect, TypeOK
    <2> QED
      BY <1>0, <1>10, <2>1, <2>2 DEF PublishDisconnect, DataTypes
  <1>11. ASSUME NEW s \in Subs, WatcherRuns(s) PROVE DataTypes'
    <2>1. ready' \subseteq ready /\ UNCHANGED closed
      BY <1>9, <1>11 DEF WatcherRuns
    <2> QED
      BY <1>0, <1>11, <2>1 DEF WatcherRuns, DataTypes
  <1>12. ASSUME NEW s \in Subs, SubscribeDead(s) \/ Subscribe(s) PROVE DataTypes'
    <2>1. UNCHANGED <<options, closed, chan, ready, canceled, pc, locals, fate, fault>>
      BY <1>12 DEF SubscribeDead, Subscribe
    <2> QED
      BY <1>0, <2>1 DEF DataTypes
  <1>13. ASSUME Close PROVE DataTypes'
    BY <1>0, <1>13 DEF Close, closeChannels, DataTypes
  <1>14. ASSUME NEW s \in Subs, SubscriberParks(s) PROVE DataTypes'
    BY <1>0, <1>14 DEF SubscriberParks, DataTypes
  <1>15. ASSUME NEW s \in Subs, SubscriberReceives(s) PROVE DataTypes'
    <2>1. /\ chan' = [chan EXCEPT ![s] = Tail(@)] /\ chan[s] # <<>>
          /\ fate' = Settled(s, Head(chan[s]), "received")
          /\ UNCHANGED <<options, registry, ready, canceled, pc, locals, fault>>
      BY <1>15 DEF SubscriberReceives
    <2>2. fate' \in [Subs -> [Messages -> Fates]]
      BY <2>1, SettledType DEF Fates
    <2>3. chan' \in [Subs -> Seq(Messages)] /\ \A x \in Subs : Len(chan'[x]) <= bufSize
      BY <2>1, PopTypes
    <2> QED
      BY <1>0, <2>1, <2>2, <2>3 DEF DataTypes, Fates
  <1>16. ASSUME NEW s \in Subs, Cancel(s) PROVE DataTypes'
    BY <1>0, <1>16 DEF Cancel, DataTypes
  <1>17. ASSUME UNCHANGED vars PROVE DataTypes'
    BY <1>0, <1>17 DEF vars, DataTypes
  <1>18. DataTypes'
    BY <1>1, <1>2, <1>3, <1>4, <1>5, <1>6, <1>7, <1>8, <1>10, <1>11, <1>12, <1>13, <1>14, <1>15,
       <1>16, <1>17 DEF Next, PublishStep
  <1> QED
    BY <1>0, <1>18 DEF RegistryTypes, DataTypes, TypeOK

-----------------------------------------------------------------------------
(* Every step, and the theorems *)

DataInv == TypeOK /\ Data /\ Rendezvous /\ LossTold

LEMMA InitDataInv == Init => DataInv
  <1> SUFFICES ASSUME Init PROVE DataInv
    OBVIOUS
  <1>1. bufSize \in Nat /\ 0 \in 0..PerPub
    BY OptionAssumption DEF Init
  <1>2. \A s \in Subs : chan[s] = <<>> /\ Len(chan[s]) = 0 /\ Len(chan[s]) <= bufSize
    BY <1>1 DEF Init
  <1>3. /\ chan \in [Subs -> Seq(Messages)]
        /\ fate \in [Subs -> [Messages -> Fates]]
        /\ sent \in [Pubs -> 0..PerPub]
    BY <1>1 DEF Init, Fates
  <1>4. TypeOK
    BY <1>2, <1>3 DEF Init, TypeOK, Fates
  <1>5. Readers = {}
    BY DEF Init, Readers
  <1>6. \A s \in Subs, m \in Messages : fate[s][m] = "none"
    BY DEF Init
  <1>7. Numbered /\ StillOffered
    BY <1>5 DEF Numbered, StillOffered
  <1>8. OneFate
    BY <1>2, <1>6 DEF OneFate
  <1>9. NotAhead /\ Ordered /\ ReceivedFirst
    BY <1>2, <1>6 DEF NotAhead, Ordered, ReceivedFirst
  <1>10. Rendezvous /\ LossTold
    BY DEF Init, Rendezvous, LossTold
  <1> QED
    BY <1>4, <1>7, <1>8, <1>9, <1>10 DEF DataInv, Data

(* A send that goes through: to the parked subscriber or into the buffer.  *)
LEMMA DataSends ==
    ASSUME DataInv, Inv, NEW p \in Readers, NEW s \in todo[p], CanSend(s), Sends(p, s),
           UNCHANGED sent, todo' = [todo EXCEPT ![p] = @ \ {s}], Readers' = Readers
    PROVE  Data'
  <1>1. s \in Subs /\ ch[s] = "open"
    BY DEF Inv, RegistryTypes, RegistryIsTruth, FanoutRegistered, Readers
  <1>2. CASE s \in ready
    <2>1. fate' = Settled(s, Msg(p), "received") /\ UNCHANGED chan
      BY <1>1, <1>2 DEF Sends
    <2>2. bufSize = 0
      BY <1>2 DEF DataInv, Rendezvous
    <2>3. chan[s] = <<>>
      BY <1>1, <2>2, ChanFacts, EmptySeq DEF DataInv
    <2> QED
      BY <2>1, <2>3, DataSettles DEF DataInv
  <1>3. CASE s \notin ready
    <2>1. /\ fate' = Settled(s, Msg(p), "buffered")
          /\ chan' = [chan EXCEPT ![s] = Append(@, Msg(p))]
      BY <1>1, <1>3 DEF Sends
    <2> QED
      BY <2>1, DataBuffers DEF DataInv
  <1> QED
    BY <1>2, <1>3

(* A step that leaves every publisher and every message alone.             *)
LEMMA DataQuiet ==
    ASSUME DataInv, UNCHANGED <<chan, fate, pc, sent, todo>>
    PROVE  Data'
  <1>1. Readers' = Readers
    BY DEF Readers
  <1>2. \A q \in Pubs : sent[q] \in Int
    BY SentFacts DEF DataInv
  <1>3. \A q \in Pubs : sent'[q] \in Int /\ sent'[q] >= sent[q]
    BY <1>2
  <1> QED
    BY <1>1, <1>3, DataFrame DEF DataInv

(* A publisher moves between places inside, or between places outside, the *)
(* read lock.                                                              *)
LEMMA ReadersKept ==
    ASSUME TypeOK, NEW p \in Pubs, NEW l, pc' = [pc EXCEPT ![p] = l],
           p \in Readers <=> l \in {"fanout", "evict", "resend"}
    PROVE  Readers' = Readers
  <1>1. \A q \in Pubs : pc'[q] = IF q = p THEN l ELSE pc[q]
    BY DEF TypeOK
  <1> QED
    BY <1>1 DEF Readers

(* Messages keep exactly one fate each, and their order.                   *)
LEMMA NextData == DataInv /\ Inv /\ [Next]_vars => Data'
  <1> SUFFICES ASSUME DataInv, Inv, [Next]_vars PROVE Data'
    OBVIOUS
  <1>0. TypeOK /\ Data
    BY DEF DataInv
  <1> USE DEF options, registry, locals
  <1>1. ASSUME NEW p \in Pubs, Publish(p) PROVE Data'
    BY <1>0, <1>1, DataPublishes
  <1>2. ASSUME NEW p \in Pubs, PublishCanceled(p) \/ PublishClosed(p) PROVE Data'
    <2>1. /\ pc[p] = "idle" /\ sent' = [sent EXCEPT ![p] = @ + 1]
          /\ UNCHANGED <<chan, fate, pc, todo>>
      BY <1>2 DEF PublishCanceled, PublishClosed
    <2>2. Readers' = Readers /\ p \notin Readers
      BY <2>1 DEF Readers
    <2>3. \A q \in Pubs : sent'[q] = IF q = p THEN sent[q] + 1 ELSE sent[q]
      BY <1>0, <2>1 DEF TypeOK
    <2>4. \A q \in Pubs : sent[q] \in Int
      BY <1>0, SentFacts
    <2>5. \A q \in Pubs : sent'[q] \in Int /\ sent'[q] >= sent[q]
      BY <2>3, <2>4
    <2>6. \A q \in Readers : q \in Pubs /\ sent'[q] = sent[q] /\ todo'[q] = todo[q]
      BY <2>1, <2>2, <2>3 DEF Readers
    <2> QED
      BY <1>0, <2>1, <2>2, <2>5, <2>6, DataFrame
  <1>3. ASSUME NEW p \in Pubs, NEW s \in Subs, DeliverSend(p, s) PROVE Data'
    <2>1. /\ p \in Readers /\ s \in todo[p] /\ CanSend(s) /\ Sends(p, s) /\ UNCHANGED <<pc, sent>>
          /\ todo' = [todo EXCEPT ![p] = @ \ {s}]
      BY <1>3 DEF DeliverSend, Readers
    <2>2. Readers' = Readers
      BY <2>1 DEF Readers
    <2> QED
      BY <2>1, <2>2, DataSends
  <1>4. ASSUME NEW p \in Pubs, NEW s \in Subs, DeliverDrop(p, s) PROVE Data'
    <2>1. /\ p \in Readers /\ s \in todo[p] /\ UNCHANGED <<chan, pc, sent>>
          /\ todo' = [todo EXCEPT ![p] = @ \ {s}] /\ fate' = Settled(s, Msg(p), "dropped")
      BY <1>4 DEF DeliverDrop, reportDrop, Readers
    <2>2. Readers' = Readers
      BY <2>1 DEF Readers
    <2> QED
      BY <1>0, <2>1, <2>2, DataSettles
  <1>5. ASSUME NEW p \in Pubs, NEW s \in Subs, DeliverFull(p, s) PROVE Data'
    <2>1. /\ p \in Readers /\ pc' = [pc EXCEPT ![p] = "evict"] /\ UNCHANGED <<chan, fate, sent, todo>>
      BY <1>5 DEF DeliverFull, Readers
    <2>2. Readers' = Readers
      BY <1>0, <2>1, ReadersKept
    <2>3. \A q \in Pubs : sent[q] \in Int
      BY <1>0, SentFacts
    <2>4. \A q \in Pubs : sent'[q] \in Int /\ sent'[q] >= sent[q]
      BY <2>1, <2>3
    <2> QED
      BY <1>0, <2>1, <2>2, <2>4, DataFrame
  <1>6. ASSUME NEW p \in Pubs, DeliverEvict(p) PROVE Data'
    <2>1. p \in Readers /\ pc' = [pc EXCEPT ![p] = "resend"] /\ UNCHANGED <<sent, todo>>
      BY <1>6 DEF DeliverEvict, Readers
    <2>2. Readers' = Readers
      BY <1>0, <2>1, ReadersKept
    <2>3. cur[p] \in Subs
      BY <1>6 DEF DeliverEvict, Inv, FanoutRegistered, Readers, RegistryTypes
    <2>4. CASE chan[cur[p]] # <<>>
      <3>1. /\ chan' = [chan EXCEPT ![cur[p]] = Tail(@)]
            /\ fate' = Settled(cur[p], Head(chan[cur[p]]), "dropped")
        BY <1>6, <2>4 DEF DeliverEvict, reportDrop, Oldest
      <3> QED
        BY <1>0, <2>1, <2>2, <2>3, <2>4, <3>1, DataPops
    <2>5. CASE chan[cur[p]] = <<>>
      <3>1. UNCHANGED <<chan, fate>>
        BY <1>6, <2>5 DEF DeliverEvict
      <3>2. \A q \in Pubs : sent[q] \in Int
        BY <1>0, SentFacts
      <3>3. \A q \in Pubs : sent'[q] \in Int /\ sent'[q] >= sent[q]
        BY <2>1, <3>2
      <3> QED
        BY <1>0, <2>1, <2>2, <3>1, <3>3, DataFrame
    <2> QED
      BY <2>4, <2>5
  <1>7. ASSUME NEW p \in Pubs, DeliverResend(p) PROVE Data'
    <2>1. /\ p \in Readers /\ cur[p] \in todo[p] /\ pc' = [pc EXCEPT ![p] = "fanout"] /\ UNCHANGED sent
          /\ todo' = [todo EXCEPT ![p] = @ \ {cur[p]}]
      BY <1>7 DEF DeliverResend, Inv, FanoutRegistered, Readers
    <2>2. Readers' = Readers
      BY <1>0, <2>1, ReadersKept
    <2>3. CASE CanSend(cur[p])
      <3>1. Sends(p, cur[p])
        BY <1>7, <2>3 DEF DeliverResend
      <3> QED
        BY <2>1, <2>2, <2>3, <3>1, DataSends
    <2>4. CASE ~CanSend(cur[p])
      <3>1. fate' = Settled(cur[p], Msg(p), "dropped") /\ UNCHANGED chan
        BY <1>7, <2>4 DEF DeliverResend, reportDrop
      <3> QED
        BY <1>0, <2>1, <2>2, <3>1, DataSettles
    <2> QED
      BY <2>3, <2>4
  <1>8. ASSUME NEW p \in Pubs, PublishUnlock(p) PROVE Data'
    <2>1. /\ pc[p] = "fanout" /\ todo[p] = {} /\ UNCHANGED <<chan, fate, sent, todo>>
          /\ pc' = [pc EXCEPT ![p] = IF disconnect[p] = {} THEN "idle" ELSE "disconnect"]
      BY <1>8 DEF PublishUnlock
    <2>2. \A q \in Pubs : pc'[q] = IF q = p THEN IF disconnect[p] = {} THEN "idle" ELSE "disconnect"
                                            ELSE pc[q]
      BY <1>0, <2>1 DEF TypeOK
    <2>3. Readers' = Readers \ {p}
      BY <2>2 DEF Readers
    <2>4. \A q \in Pubs : sent[q] \in Int
      BY <1>0, SentFacts
    <2>5. \A q \in Pubs : sent'[q] \in Int /\ sent'[q] >= sent[q]
      BY <2>1, <2>4
    <2> QED
      BY <1>0, <2>1, <2>3, <2>5, DataFrame
  <1>9. ASSUME NEW p \in Pubs, NEW s \in Subs, PublishDisconnect(p, s) PROVE Data'
    <2>1. /\ pc[p] = "disconnect" /\ UNCHANGED <<chan, fate, sent, todo>>
          /\ pc' = [pc EXCEPT ![p] = IF disconnect[p] = {s} THEN "idle" ELSE @]
      BY <1>9 DEF PublishDisconnect
    <2>2. \A q \in Pubs : pc'[q] = IF q = p THEN IF disconnect[p] = {s} THEN "idle" ELSE "disconnect"
                                            ELSE pc[q]
      BY <1>0, <2>1 DEF TypeOK
    <2>3. Readers' = Readers
      BY <2>1, <2>2 DEF Readers
    <2>4. \A q \in Pubs : sent[q] \in Int
      BY <1>0, SentFacts
    <2>5. \A q \in Pubs : sent'[q] \in Int /\ sent'[q] >= sent[q]
      BY <2>1, <2>4
    <2> QED
      BY <1>0, <2>1, <2>3, <2>5, DataFrame
  <1>10. ASSUME NEW s \in Subs, WatcherRuns(s) \/ SubscribeDead(s) \/ Subscribe(s)
                                \/ SubscriberParks(s) \/ Cancel(s)
         PROVE  Data'
    <2>1. UNCHANGED <<chan, fate, pc, sent, todo>>
      BY <1>10 DEF WatcherRuns, SubscribeDead, Subscribe, SubscriberParks, Cancel
    <2> QED
      BY <2>1, DataQuiet
  <1>11. ASSUME NEW s \in Subs, SubscriberReceives(s) PROVE Data'
    <2>1. /\ chan[s] # <<>> /\ chan' = [chan EXCEPT ![s] = Tail(@)]
          /\ fate' = Settled(s, Head(chan[s]), "received") /\ UNCHANGED <<pc, sent, todo>>
      BY <1>11 DEF SubscriberReceives
    <2>2. Readers' = Readers
      BY <2>1 DEF Readers
    <2> QED
      BY <1>0, <2>1, <2>2, DataPops
  <1>12. CASE Close
    <2>1. UNCHANGED <<chan, fate, pc, sent, todo>>
      BY <1>12 DEF Close
    <2> QED
      BY <2>1, DataQuiet
  <1>13. CASE UNCHANGED vars
    <2>1. UNCHANGED <<chan, fate, pc, sent, todo>>
      BY <1>13 DEF vars
    <2> QED
      BY <2>1, DataQuiet
  <1> QED
    BY <1>1, <1>2, <1>3, <1>4, <1>5, <1>6, <1>7, <1>8, <1>9, <1>10, <1>11, <1>12, <1>13
       DEF Next, PublishStep

(* Subscribers park on rendezvous channels only.                           *)
LEMMA NextRendezvous == Rendezvous /\ [Next]_vars => Rendezvous'
  <1> SUFFICES ASSUME Rendezvous, [Next]_vars PROVE Rendezvous'
    OBVIOUS
  <1> USE DEF options, registry, locals
  <1>1. ASSUME NEW p \in Pubs, NEW s \in Subs, Sends(p, s) PROVE ready' \subseteq ready
    BY <1>1 DEF Sends
  <1>2. ASSUME NEW s \in Subs, NEW w, remove(s, w) PROVE ready' \subseteq ready
    BY <1>2 DEF remove, closeChannels
  <1>3. ASSUME NEW p \in Pubs, Publish(p) \/ PublishCanceled(p) \/ PublishClosed(p)
                               \/ DeliverEvict(p) \/ PublishUnlock(p)
        PROVE  UNCHANGED <<bufSize, ready>>
    BY <1>3 DEF Publish, PublishCanceled, PublishClosed, DeliverEvict, PublishUnlock
  <1>4. ASSUME NEW p \in Pubs, NEW s \in Subs, DeliverSend(p, s) \/ PublishDisconnect(p, s)
        PROVE  bufSize' = bufSize /\ ready' \subseteq ready
    BY <1>1, <1>2, <1>4 DEF DeliverSend, PublishDisconnect
  <1>5. ASSUME NEW p \in Pubs, NEW s \in Subs, DeliverDrop(p, s) \/ DeliverFull(p, s)
        PROVE  UNCHANGED <<bufSize, ready>>
    BY <1>5 DEF DeliverDrop, DeliverFull
  <1>6. ASSUME NEW p \in Pubs, DeliverResend(p) PROVE bufSize' = bufSize /\ ready' \subseteq ready
    BY <1>6 DEF DeliverResend, Sends
  <1>7. ASSUME NEW s \in Subs, WatcherRuns(s) PROVE bufSize' = bufSize /\ ready' \subseteq ready
    BY <1>2, <1>7 DEF WatcherRuns
  <1>8. ASSUME NEW s \in Subs, Subscribe(s) \/ SubscribeDead(s) \/ SubscriberReceives(s) \/ Cancel(s)
        PROVE  UNCHANGED <<bufSize, ready>>
    BY <1>8 DEF Subscribe, SubscribeDead, SubscriberReceives, Cancel
  <1>9. ASSUME NEW s \in Subs, SubscriberParks(s) PROVE bufSize' = 0
    BY <1>9 DEF SubscriberParks
  <1>10. Close => bufSize' = bufSize /\ ready' \subseteq ready
    BY DEF Close, closeChannels
  <1>11. UNCHANGED vars => UNCHANGED <<bufSize, ready>>
    BY DEF vars
  <1>12. (bufSize' = bufSize /\ ready' \subseteq ready) \/ bufSize' = 0
    BY <1>3, <1>4, <1>5, <1>6, <1>7, <1>8, <1>9, <1>10, <1>11 DEF Next, PublishStep
  <1> QED
    BY <1>12 DEF Rendezvous

(* A publish counts a loss exactly when it has told the drop handler.      *)
LEMMA NextLossTold == TypeOK /\ LossTold /\ [Next]_vars => LossTold'
  <1> SUFFICES ASSUME TypeOK, LossTold, [Next]_vars PROVE LossTold'
    OBVIOUS
  <1> USE DEF options, registry, locals
  <1>0. /\ pc \in [Pubs -> {"idle", "fanout", "evict", "resend", "disconnect"}]
        /\ lost \in [Pubs -> BOOLEAN] /\ reported \in [Pubs -> BOOLEAN] /\ evicted \in [Pubs -> BOOLEAN]
    BY DEF TypeOK
  <1>1. ASSUME NEW p \in Pubs, Publish(p) PROVE LossTold'
    <2>1. /\ pc' = [pc EXCEPT ![p] = "fanout"] /\ lost' = [lost EXCEPT ![p] = FALSE]
          /\ reported' = [reported EXCEPT ![p] = FALSE] /\ UNCHANGED evicted
      BY <1>1 DEF Publish
    <2> QED
      BY <1>0, <2>1 DEF LossTold
  <1>2. ASSUME UNCHANGED <<pc, lost, reported, evicted>> PROVE LossTold'
    BY <1>2 DEF LossTold
  <1>3. ASSUME NEW p \in Pubs, PublishCanceled(p) \/ PublishClosed(p) PROVE LossTold'
    <2>1. UNCHANGED <<pc, lost, reported, evicted>>
      BY <1>3 DEF PublishCanceled, PublishClosed
    <2> QED
      BY <1>2, <2>1
  <1>4. ASSUME NEW p \in Pubs, NEW s \in Subs, DeliverSend(p, s) PROVE LossTold'
    <2>1. UNCHANGED <<pc, lost, reported, evicted>>
      BY <1>4 DEF DeliverSend
    <2> QED
      BY <1>2, <2>1
  <1>5. ASSUME NEW p \in Pubs, NEW s \in Subs, DeliverDrop(p, s) PROVE LossTold'
    <2>1. /\ pc[p] = "fanout" /\ UNCHANGED <<pc, evicted>> /\ lost' = [lost EXCEPT ![p] = TRUE]
          /\ reported' = [reported EXCEPT ![p] = TRUE]
      BY <1>5 DEF DeliverDrop, reportDrop
    <2> QED
      BY <1>0, <2>1 DEF LossTold
  <1>6. ASSUME NEW p \in Pubs, NEW l \in {"idle", "fanout", "evict", "disconnect"}, pc[p] # "resend",
               pc' = [pc EXCEPT ![p] = l], UNCHANGED <<lost, reported, evicted>>
        PROVE  LossTold'
    BY <1>0, <1>6 DEF LossTold
  <1>7. ASSUME NEW p \in Pubs, NEW s \in Subs, DeliverFull(p, s) PROVE LossTold'
    <2>1. pc[p] = "fanout" /\ pc' = [pc EXCEPT ![p] = "evict"] /\ UNCHANGED <<lost, reported, evicted>>
      BY <1>7 DEF DeliverFull
    <2> QED
      BY <1>6, <2>1
  <1>8. ASSUME NEW p \in Pubs, DeliverEvict(p) PROVE LossTold'
    <2>1. pc[p] = "evict" /\ pc' = [pc EXCEPT ![p] = "resend"] /\ UNCHANGED lost
      BY <1>8 DEF DeliverEvict
    <2>2. CASE chan[cur[p]] # <<>>
      <3>1. evicted' = [evicted EXCEPT ![p] = TRUE] /\ reported' = [reported EXCEPT ![p] = TRUE]
        BY <1>8, <2>2 DEF DeliverEvict, reportDrop
      <3> QED
        BY <1>0, <2>1, <3>1 DEF LossTold
    <2>3. CASE chan[cur[p]] = <<>>
      <3>1. evicted' = [evicted EXCEPT ![p] = FALSE] /\ UNCHANGED reported
        BY <1>8, <2>3 DEF DeliverEvict
      <3> QED
        BY <1>0, <2>1, <3>1 DEF LossTold
    <2> QED
      BY <2>2, <2>3
  <1>9. ASSUME NEW p \in Pubs, DeliverResend(p) PROVE LossTold'
    <2>1. /\ pc[p] = "resend" /\ pc' = [pc EXCEPT ![p] = "fanout"]
          /\ evicted' = [evicted EXCEPT ![p] = FALSE]
      BY <1>9 DEF DeliverResend
    <2>2. lost' = [lost EXCEPT ![p] = @ \/ evicted[p] \/ ~CanSend(cur[p])]
      BY <1>9 DEF DeliverResend, ResendLoss
    <2>3. CASE CanSend(cur[p])
      <3>1. UNCHANGED reported
        BY <1>9, <2>3 DEF DeliverResend
      <3>2. lost'[p] <=> lost[p] \/ evicted[p]
        BY <1>0, <2>2, <2>3
      <3>3. \A q \in Pubs \ {p} : lost'[q] = lost[q] /\ evicted'[q] = evicted[q] /\ pc'[q] = pc[q]
        BY <1>0, <2>1, <2>2
      <3>4. pc'[p] = "fanout"
        BY <1>0, <2>1
      <3> QED
        BY <2>1, <3>1, <3>2, <3>3, <3>4 DEF LossTold
    <2>4. CASE ~CanSend(cur[p])
      <3>1. reported' = [reported EXCEPT ![p] = TRUE]
        BY <1>9, <2>4 DEF DeliverResend, reportDrop
      <3>2. lost'[p]
        BY <1>0, <2>2, <2>4
      <3>3. \A q \in Pubs \ {p} : /\ lost'[q] = lost[q] /\ evicted'[q] = evicted[q] /\ pc'[q] = pc[q]
                                  /\ reported'[q] = reported[q]
        BY <1>0, <2>1, <2>2, <3>1
      <3>4. pc'[p] = "fanout" /\ reported'[p]
        BY <1>0, <2>1, <3>1
      <3> QED
        BY <3>2, <3>3, <3>4 DEF LossTold
    <2> QED
      BY <2>3, <2>4
  <1>10. ASSUME NEW p \in Pubs, PublishUnlock(p) PROVE LossTold'
    <2>1. /\ pc[p] = "fanout" /\ UNCHANGED <<lost, reported, evicted>>
          /\ \E l \in {"idle", "disconnect"} : pc' = [pc EXCEPT ![p] = l]
      BY <1>10 DEF PublishUnlock
    <2> QED
      BY <1>6, <2>1
  <1>11. ASSUME NEW p \in Pubs, NEW s \in Subs, PublishDisconnect(p, s) PROVE LossTold'
    <2>1. /\ pc[p] = "disconnect" /\ UNCHANGED <<lost, reported, evicted>>
          /\ \E l \in {"idle", "disconnect"} : pc' = [pc EXCEPT ![p] = l]
      BY <1>11 DEF PublishDisconnect
    <2> QED
      BY <1>6, <2>1
  <1>12. ASSUME NEW s \in Subs, WatcherRuns(s) \/ SubscribeDead(s) \/ Subscribe(s)
                                \/ SubscriberParks(s) \/ SubscriberReceives(s) \/ Cancel(s)
         PROVE  LossTold'
    <2>1. UNCHANGED <<pc, lost, reported, evicted>>
      BY <1>12 DEF WatcherRuns, SubscribeDead, Subscribe, SubscriberParks, SubscriberReceives, Cancel
    <2> QED
      BY <1>2, <2>1
  <1>13. Close => LossTold'
    BY <1>2 DEF Close
  <1>14. UNCHANGED vars => LossTold'
    BY <1>2 DEF vars
  <1> QED
    BY <1>1, <1>3, <1>4, <1>5, <1>7, <1>8, <1>9, <1>10, <1>11, <1>12, <1>13, <1>14
       DEF Next, PublishStep

LEMMA SpecDataInv == Spec => []DataInv
  <1>1. Inv /\ DataInv /\ [Next]_vars => DataInv'
    BY NextType, NextData, NextRendezvous, NextLossTold DEF DataInv, Data
  <1> QED
    BY <1>1, InitDataInv, SpecInv, PTL DEF Spec

(* Every variable keeps its type: no channel ever holds more than the      *)
(* buffer WithSubscriberBuffer asked for.                                  *)
THEOREM TypeCorrect == Spec => []TypeOK
  BY SpecDataInv, PTL DEF DataInv

(* Publish and deliver, under every policy and with any interleaving of    *)
(* publishers, subscribers, Close and cancellation: each message offered   *)
(* to a subscription is received, buffered or reported dropped, once, and  *)
(* ErrSlowSubscriber is returned exactly when the drop handler was called. *)
THEOREM DeliveredExactlyOnce == Spec => []ExactlyOnce
  <1>1. DataInv => ExactlyOnce
    <2> SUFFICES ASSUME DataInv PROVE ExactlyOnce
      OBVIOUS
    <2>1. \A p \in Pubs : pc[p] \in {"idle", "fanout", "disconnect"} => (lost[p] <=> reported[p])
      BY DEF DataInv, LossTold
    <2>2. \A p \in Readers : pc[p] \in {"fanout", "evict", "resend"}
      BY DEF Readers
    <2> QED
      BY <2>1, <2>2 DEF DataInv, Data, OneFate, ExactlyOnce
  <1> QED
    BY <1>1, SpecDataInv, PTL

(* The messages of one publisher reach a subscription, and lie in its      *)
(* channel, in the order of publication, whatever deliver dropped.         *)
THEOREM DeliveredInOrder == Spec => []InOrder
  <1>1. DataInv => InOrder
    <2> SUFFICES ASSUME DataInv, NEW s \in Subs, NEW p \in Pubs, NEW i \in 1..PerPub, NEW j \in 1..PerPub
                 PROVE  /\ fate[s][<<p, i>>] = "received" /\ fate[s][<<p, j>>] = "buffered" => i < j
                        /\ \A a, b \in 1..Len(chan[s]) :
                              chan[s][a] = <<p, i>> /\ chan[s][b] = <<p, j>> /\ a < b => i < j
      BY DEF InOrder
    <2>1. /\ <<p, i>> \in Messages /\ <<p, j>> \in Messages
          /\ <<p, i>>[1] = p /\ <<p, i>>[2] = i /\ <<p, j>>[1] = p /\ <<p, j>>[2] = j
      BY DEF Messages
    <2>2. fate[s][<<p, i>>] = "received" /\ fate[s][<<p, j>>] = "buffered" => i < j
      BY <2>1 DEF DataInv, Data, ReceivedFirst
    <2>3. ASSUME NEW a \in 1..Len(chan[s]), NEW b \in 1..Len(chan[s]),
                 chan[s][a] = <<p, i>>, chan[s][b] = <<p, j>>, a < b
          PROVE  i < j
      <3>1. chan[s][a][1] = chan[s][b][1] /\ chan[s][a][2] = i /\ chan[s][b][2] = j
        BY <2>1, <2>3
      <3>2. chan[s][a][1] = chan[s][b][1] => chan[s][a][2] < chan[s][b][2]
        BY <2>3 DEF DataInv, Data, Ordered
      <3> QED
        BY <3>1, <3>2
    <2> QED
      BY <2>2, <2>3
  <1> QED
    BY <1>1, SpecDataInv, PTL

=============================================================================
