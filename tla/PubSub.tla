-------------------------------- MODULE PubSub --------------------------------
(***************************************************************************)
(* pkg/pubsub: Broker, with Publish, deliver, Subscribe, remove and Close. *)
(*                                                                         *)
(* The RWMutex: a publisher holds it for reading while it fans out, one    *)
(* subscription (and, under DropOldest, one of deliver's three selects) at *)
(* a time; Subscribe, remove and Close hold it for writing and are single  *)
(* steps that need every reader gone.  Subscribers receive, and contexts   *)
(* are canceled, at any moment.                                            *)
(***************************************************************************)
EXTENDS Integers, Sequences, FiniteSets

CONSTANTS Subs,     \* calls of Subscribe, all on the topic published to
          Pubs,     \* publishing goroutines
          PerPub,   \* bound: messages each publisher publishes, one after the other
          BufSizes, \* choices for WithSubscriberBuffer; 0 is rendezvous
          Choices,  \* choices for WithSlowSubscriberPolicy
          Filters   \* the messages each subscription's filter accepts

Messages == Pubs \X (1..PerPub)
Policies == {"DropNewest", "DropOldest", "Disconnect"}

(* The options panic on any other value.                                   *)
ASSUME OptionAssumption ==
    /\ BufSizes \subseteq Nat
    /\ Choices \subseteq Policies
    /\ PerPub \in Nat

ASSUME FilterAssumption == Filters \in [Subs -> SUBSET Messages]

ASSUME NameAssumption == "none" \notin Subs

VARIABLES bufSize, policy,  \* the options the Broker was built with
          subs,      \* the registry: Broker.subs[topic]
          closed,    \* Broker.closed
          chan,      \* contents of each subscription's channel
          ch,        \* "none" before Subscribe, then "open", then "closed"
          ready,     \* subscribers parked in a receive (matters at bufSize 0)
          canceled,  \* subscriptions whose context is done
          watcher,   \* the context.AfterFunc of each subscription
          pc, sent,  \* each publisher's place in Publish, and its message count
          todo,      \* subscriptions the fan-out has still to visit
          cur,       \* subscription deliver is making room in
          evicted, lost, disconnect,  \* locals of deliver and Publish
          reported,  \* auxiliary: this publish has called the drop handler
          fate,      \* auxiliary: what became of each message per subscription
          fault      \* the runtime panic that ended the process, if any

options == <<bufSize, policy>>
registry == <<subs, closed, ch, watcher>>
locals == <<sent, todo, cur, evicted, lost, disconnect, reported>>
vars == <<options, registry, chan, ready, canceled, pc, locals, fate, fault>>

Init ==
    /\ bufSize \in BufSizes
    /\ policy \in Choices
    /\ subs = {}
    /\ closed = FALSE
    /\ chan = [s \in Subs |-> <<>>]
    /\ ch = [s \in Subs |-> "none"]
    /\ ready = {}
    /\ canceled = {}
    /\ watcher = [s \in Subs |-> "none"]
    /\ pc = [p \in Pubs |-> "idle"]
    /\ sent = [p \in Pubs |-> 0]
    /\ todo = [p \in Pubs |-> {}]
    /\ cur = [p \in Pubs |-> "none"]
    /\ evicted = [p \in Pubs |-> FALSE]
    /\ lost = [p \in Pubs |-> FALSE]
    /\ disconnect = [p \in Pubs |-> {}]
    /\ reported = [p \in Pubs |-> FALSE]
    /\ fate = [s \in Subs |-> [m \in Messages |-> "none"]]
    /\ fault = "none"

Up == fault = "none"

Bug_NoReaders == TRUE
Bug_RemoveUnderRLock == \A p \in Pubs : pc[p] = "idle"
NoReaders == \A p \in Pubs : pc[p] \notin {"fanout", "evict", "resend"}

-----------------------------------------------------------------------------
(* Publish and deliver *)

Msg(p) == <<p, sent[p]>>

(* A message gets a fate once it is offered, and loses it only by moving   *)
(* from the buffer to the subscriber or to the drop handler.               *)
Settled(s, m, f) ==
    [fate EXCEPT ![s][m] = IF @ \in {"offered", "buffered"} THEN f ELSE "twice"]

Targets(m) == {s \in subs : m \in Filters[s]}

(* ctx is consulted once, before the lock.                                 *)
PublishCanceled(p) ==
    /\ Up
    /\ pc[p] = "idle"
    /\ sent[p] < PerPub
    /\ sent' = [sent EXCEPT ![p] = @ + 1]
    /\ UNCHANGED <<options, registry, chan, ready, canceled, pc, todo, cur, evicted, lost,
                   disconnect, reported, fate, fault>>

PublishClosed(p) ==
    /\ Up
    /\ pc[p] = "idle"
    /\ sent[p] < PerPub
    /\ closed
    /\ sent' = [sent EXCEPT ![p] = @ + 1]
    /\ UNCHANGED <<options, registry, chan, ready, canceled, pc, todo, cur, evicted, lost,
                   disconnect, reported, fate, fault>>

(* RLock; the registry cannot change before RUnlock.                       *)
Publish(p) ==
    /\ Up
    /\ pc[p] = "idle"
    /\ sent[p] < PerPub
    /\ ~closed
    /\ sent' = [sent EXCEPT ![p] = @ + 1]
    /\ LET m == <<p, sent[p] + 1>>
       IN  /\ todo' = [todo EXCEPT ![p] = Targets(m)]
           /\ fate' = [s \in Subs |->
                         IF s \in Targets(m) THEN [fate[s] EXCEPT ![m] = "offered"]
                                             ELSE fate[s]]
    /\ pc' = [pc EXCEPT ![p] = "fanout"]
    /\ lost' = [lost EXCEPT ![p] = FALSE]
    /\ reported' = [reported EXCEPT ![p] = FALSE]
    /\ UNCHANGED <<options, registry, chan, ready, canceled, cur, evicted, disconnect, fault>>

(* Whether the send case of a select with a default is ready.              *)
CanSend(s) == ch[s] = "closed" \/ s \in ready \/ Len(chan[s]) < bufSize

(* The send: to the parked subscriber, into the buffer, or a panic.        *)
Sends(p, s) ==
    IF ch[s] = "closed"
    THEN /\ fault' = "send on closed channel"
         /\ UNCHANGED <<chan, ready, fate>>
    ELSE /\ IF s \in ready
            THEN /\ ready' = ready \ {s}
                 /\ fate' = Settled(s, Msg(p), "received")
                 /\ UNCHANGED chan
            ELSE /\ chan' = [chan EXCEPT ![s] = Append(@, Msg(p))]
                 /\ fate' = Settled(s, Msg(p), "buffered")
                 /\ UNCHANGED ready
         /\ UNCHANGED fault

reportDrop(p, s, m) ==
    /\ fate' = Settled(s, m, "dropped")
    /\ reported' = [reported EXCEPT ![p] = TRUE]

DeliverSend(p, s) ==
    /\ Up
    /\ pc[p] = "fanout"
    /\ s \in todo[p]
    /\ CanSend(s)
    /\ Sends(p, s)
    /\ todo' = [todo EXCEPT ![p] = @ \ {s}]
    /\ UNCHANGED <<options, registry, canceled, pc, sent, cur, evicted, lost, disconnect, reported>>

(* DropNewest and Disconnect sacrifice the message.                        *)
DeliverDrop(p, s) ==
    /\ Up
    /\ policy # "DropOldest"
    /\ pc[p] = "fanout"
    /\ s \in todo[p]
    /\ ~CanSend(s)
    /\ reportDrop(p, s, Msg(p))
    /\ lost' = [lost EXCEPT ![p] = TRUE]
    /\ disconnect' = IF policy = "Disconnect"
                     THEN [disconnect EXCEPT ![p] = @ \cup {s}]
                     ELSE disconnect
    /\ todo' = [todo EXCEPT ![p] = @ \ {s}]
    /\ UNCHANGED <<options, registry, chan, ready, canceled, pc, sent, cur, evicted, fault>>

DeliverFull(p, s) ==
    /\ Up
    /\ policy = "DropOldest"
    /\ pc[p] = "fanout"
    /\ s \in todo[p]
    /\ ~CanSend(s)
    /\ pc' = [pc EXCEPT ![p] = "evict"]
    /\ cur' = [cur EXCEPT ![p] = s]
    /\ UNCHANGED <<options, registry, chan, ready, canceled, sent, todo, evicted, lost, disconnect,
                   reported, fate, fault>>

Bug_Oldest(p) == Msg(p)
Oldest(p) == Head(chan[cur[p]])

Bug_DeliverEvict(p) ==
    /\ Up
    /\ pc[p] = "evict"
    /\ LET s == cur[p]
       IN  IF chan[s] # <<>>
           THEN /\ chan' = [chan EXCEPT ![s] = Tail(@) \o <<Head(@)>>]
                /\ UNCHANGED <<evicted, fate, reported>>
           ELSE UNCHANGED <<chan, evicted, fate, reported>>
    /\ pc' = [pc EXCEPT ![p] = "resend"]
    /\ UNCHANGED <<options, registry, ready, canceled, sent, todo, cur, lost, disconnect, fault>>

DeliverEvict(p) ==
    /\ Up
    /\ pc[p] = "evict"
    /\ LET s == cur[p]
       IN  IF chan[s] # <<>>
           THEN /\ chan' = [chan EXCEPT ![s] = Tail(@)]
                /\ reportDrop(p, s, Oldest(p))
                /\ evicted' = [evicted EXCEPT ![p] = TRUE]
           ELSE /\ evicted' = [evicted EXCEPT ![p] = FALSE]
                /\ UNCHANGED <<chan, fate, reported>>
    /\ pc' = [pc EXCEPT ![p] = "resend"]
    /\ UNCHANGED <<options, registry, ready, canceled, sent, todo, cur, lost, disconnect, fault>>

(* What the last select of deliver returns.                                *)
ResendLoss(p) == evicted[p] \/ ~CanSend(cur[p])

DeliverResend(p) ==
    /\ Up
    /\ pc[p] = "resend"
    /\ IF CanSend(cur[p])
       THEN Sends(p, cur[p]) /\ UNCHANGED reported
       ELSE reportDrop(p, cur[p], Msg(p)) /\ UNCHANGED <<chan, ready, fault>>
    /\ lost' = [lost EXCEPT ![p] = @ \/ ResendLoss(p)]
    /\ todo' = [todo EXCEPT ![p] = @ \ {cur[p]}]
    /\ cur' = [cur EXCEPT ![p] = "none"]
    /\ evicted' = [evicted EXCEPT ![p] = FALSE]
    /\ pc' = [pc EXCEPT ![p] = "fanout"]
    /\ UNCHANGED <<options, registry, canceled, sent, disconnect>>

(* RUnlock; Publish returns unless subscriptions are to be disconnected.   *)
PublishUnlock(p) ==
    /\ Up
    /\ pc[p] = "fanout"
    /\ todo[p] = {}
    /\ pc' = [pc EXCEPT ![p] = IF disconnect[p] = {} THEN "idle" ELSE "disconnect"]
    /\ UNCHANGED <<options, registry, chan, ready, canceled, locals, fate, fault>>

-----------------------------------------------------------------------------
(* remove, Subscribe and Close: the registry under the write lock          *)

(* stopWatch keeps a callback from starting, not one that has started.     *)
Bug_Stopped(S, w) == w
Stopped(S, w) == [s \in Subs |-> IF s \in S /\ w[s] = "armed" THEN "stopped" ELSE w[s]]

Registered(s) == s \in subs

(* Deregister the watchers, then close the channels, which also wakes the  *)
(* subscribers parked on them.                                             *)
closeChannels(S, w) ==
    /\ fault' = IF \E s \in S : ch[s] = "closed" THEN "close of closed channel" ELSE fault
    /\ ch' = [s \in Subs |-> IF s \in S THEN "closed" ELSE ch[s]]
    /\ ready' = ready \ S
    /\ watcher' = Stopped(S, w)

remove(s, w) ==
    /\ NoReaders
    /\ IF Registered(s)
       THEN /\ subs' = subs \ {s}
            /\ closeChannels({s}, w)
       ELSE /\ watcher' = w
            /\ UNCHANGED <<subs, ch, ready, fault>>
    /\ UNCHANGED closed

PublishDisconnect(p, s) ==
    /\ Up
    /\ pc[p] = "disconnect"
    /\ s \in disconnect[p]
    /\ remove(s, watcher)
    /\ disconnect' = [disconnect EXCEPT ![p] = @ \ {s}]
    /\ pc' = [pc EXCEPT ![p] = IF disconnect[p] = {s} THEN "idle" ELSE @]
    /\ UNCHANGED <<options, chan, canceled, sent, todo, cur, evicted, lost, reported, fate>>

(* The callback of the context watcher, on a goroutine of its own.         *)
WatcherRuns(s) ==
    /\ Up
    /\ watcher[s] = "fired"
    /\ remove(s, [watcher EXCEPT ![s] = "ran"])
    /\ UNCHANGED <<options, chan, canceled, pc, locals, fate>>

(* A closed broker or a done context gets an already closed channel.       *)
SubscribeDead(s) ==
    /\ Up
    /\ ch[s] = "none"
    /\ NoReaders
    /\ closed \/ s \in canceled
    /\ ch' = [ch EXCEPT ![s] = "closed"]
    /\ UNCHANGED <<options, subs, closed, watcher, chan, ready, canceled, pc, locals, fate, fault>>

Bug_Watch(s) == watcher
Watch(s) == [watcher EXCEPT ![s] = "armed"]

Subscribe(s) ==
    /\ Up
    /\ ch[s] = "none"
    /\ NoReaders
    /\ ~closed
    /\ s \notin canceled
    /\ ch' = [ch EXCEPT ![s] = "open"]
    /\ subs' = subs \cup {s}
    /\ watcher' = Watch(s)
    /\ UNCHANGED <<options, closed, chan, ready, canceled, pc, locals, fate, fault>>

Close ==
    /\ Up
    /\ NoReaders
    /\ ~closed
    /\ closed' = TRUE
    /\ closeChannels(subs, watcher)
    /\ subs' = {}
    /\ UNCHANGED <<options, chan, canceled, pc, locals, fate>>

-----------------------------------------------------------------------------
(* Subscribers and their contexts *)

(* A subscriber parked on a buffered channel takes a message as it enters  *)
(* the buffer: a send followed by a receive.  Only a rendezvous channel    *)
(* needs the parked subscriber to be explicit.                             *)
SubscriberParks(s) ==
    /\ Up
    /\ bufSize = 0
    /\ ch[s] = "open"
    /\ s \notin ready
    /\ ready' = ready \cup {s}
    /\ UNCHANGED <<options, registry, chan, canceled, pc, locals, fate, fault>>

SubscriberReceives(s) ==
    /\ Up
    /\ chan[s] # <<>>
    /\ chan' = [chan EXCEPT ![s] = Tail(@)]
    /\ fate' = Settled(s, Head(chan[s]), "received")
    /\ UNCHANGED <<options, registry, ready, canceled, pc, locals, fault>>

Cancel(s) ==
    /\ Up
    /\ s \notin canceled
    /\ canceled' = canceled \cup {s}
    /\ watcher' = [watcher EXCEPT ![s] = IF @ = "armed" THEN "fired" ELSE @]
    /\ UNCHANGED <<options, subs, closed, ch, chan, ready, pc, locals, fate, fault>>

-----------------------------------------------------------------------------
PublishStep(p) ==
    \/ \E s \in Subs :
          \/ DeliverSend(p, s) \/ DeliverDrop(p, s) \/ DeliverFull(p, s)
          \/ PublishDisconnect(p, s)
    \/ DeliverEvict(p) \/ DeliverResend(p) \/ PublishUnlock(p)

Next ==
    \/ \E p \in Pubs : Publish(p) \/ PublishCanceled(p) \/ PublishClosed(p) \/ PublishStep(p)
    \/ \E s \in Subs :
          \/ Subscribe(s) \/ SubscribeDead(s) \/ WatcherRuns(s)
          \/ SubscriberParks(s) \/ SubscriberReceives(s) \/ Cancel(s)
    \/ Close

Spec == Init /\ [][Next]_vars

(* Publishing goroutines and watcher callbacks run on; the finite number   *)
(* of publishes stands for the RWMutex's preference for waiting writers.   *)
Fairness ==
    /\ \A p \in Pubs : WF_vars(PublishStep(p))
    /\ \A s \in Subs : WF_vars(WatcherRuns(s))

FairSpec == Spec /\ Fairness

-----------------------------------------------------------------------------
TypeOK ==
    /\ bufSize \in BufSizes
    /\ policy \in Choices
    /\ subs \subseteq Subs
    /\ closed \in BOOLEAN
    /\ chan \in [Subs -> Seq(Messages)]
    /\ \A s \in Subs : Len(chan[s]) <= bufSize
    /\ ch \in [Subs -> {"none", "open", "closed"}]
    /\ ready \subseteq Subs
    /\ canceled \subseteq Subs
    /\ watcher \in [Subs -> {"none", "armed", "fired", "stopped", "ran"}]
    /\ pc \in [Pubs -> {"idle", "fanout", "evict", "resend", "disconnect"}]
    /\ sent \in [Pubs -> 0..PerPub]
    /\ todo \in [Pubs -> SUBSET Subs]
    /\ cur \in [Pubs -> Subs \cup {"none"}]
    /\ evicted \in [Pubs -> BOOLEAN]
    /\ lost \in [Pubs -> BOOLEAN]
    /\ disconnect \in [Pubs -> SUBSET Subs]
    /\ reported \in [Pubs -> BOOLEAN]
    /\ fate \in [Subs -> [Messages -> {"none", "offered", "buffered", "received", "dropped", "twice"}]]
    /\ fault \in {"none", "send on closed channel", "close of closed channel"}

(* "A send on a closed channel is provably impossible", and "a double      *)
(* close impossible without a per-subscription flag".                      *)
NoChannelPanic == fault = "none"

(* "The registry is the single source of truth": a subscription is         *)
(* registered exactly while its channel is open, and its context watcher   *)
(* stays armed exactly while it is registered and its context is not done, *)
(* so that neither remove nor Close leaves one behind.                     *)
RegistryIsTruth ==
    \A s \in Subs :
        /\ s \in subs <=> ch[s] = "open"
        /\ watcher[s] = "armed" <=> s \in subs /\ s \notin canceled
        /\ s \in subs /\ s \in canceled => watcher[s] = "fired"

(* "Each message published to it is either delivered or reported to the    *)
(* drop handler, exactly once": a message without a fate is one its        *)
(* publisher is still fanning out, a buffered one is in the channel, none  *)
(* has two fates, and a publish returns ErrSlowSubscriber exactly if it    *)
(* called the handler, whichever of deliver's paths did.                   *)
ExactlyOnce ==
    /\ \A p \in Pubs : pc[p] \in {"idle", "fanout", "disconnect"} => (lost[p] <=> reported[p])
    /\ \A s \in Subs, m \in Messages :
           /\ fate[s][m] # "twice"
           /\ fate[s][m] = "offered" =>
                m = Msg(m[1]) /\ s \in todo[m[1]] /\ pc[m[1]] \in {"fanout", "evict", "resend"}
           /\ fate[s][m] = "buffered" <=> \E i \in 1..Len(chan[s]) : chan[s][i] = m

(* "Messages published sequentially from one goroutine arrive in order on  *)
(* any given subscription", drops and evictions included.                  *)
InOrder ==
    \A s \in Subs, p \in Pubs, i, j \in 1..PerPub :
        /\ fate[s][<<p, i>>] = "received" /\ fate[s][<<p, j>>] = "buffered" => i < j
        /\ \A a, b \in 1..Len(chan[s]) :
              chan[s][a] = <<p, i>> /\ chan[s][b] = <<p, j>> /\ a < b => i < j

(* Cancelling the context closes the channel, however publishers, Close    *)
(* and the Disconnect policy get in between.                               *)
CancelClosesChannel ==
    \A s \in Subs : (s \in canceled /\ ch[s] = "open") ~> (ch[s] = "closed")

(* "Publish never blocks on a slow subscriber."                            *)
PublishReturns == \A p \in Pubs : pc[p] # "idle" ~> pc[p] = "idle"
=============================================================================
