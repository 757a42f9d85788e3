------------------------------- MODULE Metrics -------------------------------
(***************************************************************************)
(* pkg/metrics: Recorder, with Middleware, observe, newSeries, addFloat,   *)
(* collect and the exposition Handler.                                     *)
(*                                                                         *)
(* A request is observed once.  The registry is read or written under its  *)
(* lock, one step each; every load, add and compare-and-swap of a series'  *)
(* atomics is a step of its own.  A series is named after the request that *)
(* created it.  One scraper scrapes MaxScrapes times.                      *)
(***************************************************************************)
EXTENDS Integers, Sequences, FiniteSets, FiniteSetsExt

CONSTANTS Requests,
          Methods, KnownMethods,
          Codes,       \* status codes the handlers answer with
          Latencies,   \* numbers of seconds
          Bounds,      \* defBuckets: increasing upper bounds
          MaxScrapes   \* bound

ASSUME LadderAssumption ==
    /\ Bounds \in Seq(Nat)
    /\ \A i, j \in DOMAIN Bounds : i < j => Bounds[i] < Bounds[j]
ASSUME NameAssumption == "none" \notin Requests /\ "other" \notin KnownMethods
ASSUME RequestAssumption == IsFiniteSet(Requests) /\ Codes # {}
ASSUME ValueAssumption == Latencies \subseteq Nat \ {0} /\ MaxScrapes \in Nat

Slots == 1..(Len(Bounds) + 1)
Inf == Len(Bounds) + 1

VARIABLES registry,   \* Recorder.series: the series of each key, or "none"
          series,     \* the series objects: sum, count and buckets
          pc, key, seconds,  \* each request: where it is, what it observes
          mine, old,  \* its locals: the series, and the sum addFloat loaded
          scraping,   \* the scraper is inside Handler
          live, reading, at,  \* collect: series to read, the one at hand, its next load
          snaps,      \* the snapshots taken so far, by key
          exposed,    \* the snapshots in the last exposition
          scrapes     \* expositions served

request == <<pc, key, seconds, mine, old>>
scrape == <<scraping, live, reading, at, snaps, exposed, scrapes>>
vars == <<registry, series, request, scrape>>

normalizeMethod(m) == IF m \in KnownMethods THEN m ELSE "other"
seriesKey == (KnownMethods \cup {"other"}) \X Codes

Zero == [sum |-> 0, count |-> 0, buckets |-> [i \in Slots |-> 0]]
NoKey == CHOOSE k \in seriesKey : TRUE

Init ==
    /\ registry = [k \in seriesKey |-> "none"]
    /\ series = [r \in Requests |-> Zero]
    /\ pc = [r \in Requests |-> "idle"]
    /\ key = [r \in Requests |-> NoKey]
    /\ seconds = [r \in Requests |-> 0]
    /\ mine = [r \in Requests |-> "none"]
    /\ old = [r \in Requests |-> 0]
    /\ scraping = FALSE
    /\ live = {}
    /\ reading = "none"
    /\ at = 1
    /\ snaps = [k \in seriesKey |-> Zero]
    /\ exposed = [k \in seriesKey |-> Zero]
    /\ scrapes = 0

-----------------------------------------------------------------------------
(* Middleware and observe *)

(* The handler has returned; one that panics is not observed.              *)
Served(r) ==
    /\ pc[r] = "idle"
    /\ \E m \in Methods, c \in Codes : key' = [key EXCEPT ![r] = <<normalizeMethod(m), c>>]
    /\ \E v \in Latencies : seconds' = [seconds EXCEPT ![r] = v]
    /\ pc' = [pc EXCEPT ![r] = "lookup"]
    /\ UNCHANGED <<registry, series, mine, old, scrape>>

HandlerPanics(r) ==
    /\ pc[r] = "idle"
    /\ pc' = [pc EXCEPT ![r] = "panicked"]
    /\ UNCHANGED <<registry, series, key, seconds, mine, old, scrape>>

observe(r) ==
    /\ pc[r] = "lookup"
    /\ mine' = [mine EXCEPT ![r] = registry[key[r]]]
    /\ pc' = [pc EXCEPT ![r] = IF registry[key[r]] = "none" THEN "create" ELSE "bucket"]
    /\ UNCHANGED <<registry, series, key, seconds, old, scrape>>

Bug_Winner(r) == r
Winner(r) == IF registry[key[r]] = "none" THEN r ELSE registry[key[r]]

newSeries(r) ==
    /\ pc[r] = "create"
    /\ registry' = [registry EXCEPT ![key[r]] = Winner(r)]
    /\ mine' = [mine EXCEPT ![r] = Winner(r)]
    /\ pc' = [pc EXCEPT ![r] = "bucket"]
    /\ UNCHANGED <<series, key, seconds, old, scrape>>

-----------------------------------------------------------------------------
(* series.observe and addFloat *)

bucketIndex(v) == Min({i \in DOMAIN Bounds : v <= Bounds[i]} \cup {Inf})

AddBucket(r) ==
    /\ pc[r] = "bucket"
    /\ series' = [series EXCEPT ![mine[r]].buckets[bucketIndex(seconds[r])] = @ + 1]
    /\ pc' = [pc EXCEPT ![r] = "load"]
    /\ UNCHANGED <<registry, key, seconds, mine, old, scrape>>

LoadSum(r) ==
    /\ pc[r] = "load"
    /\ old' = [old EXCEPT ![r] = series[mine[r]].sum]
    /\ pc' = [pc EXCEPT ![r] = "swap"]
    /\ UNCHANGED <<registry, series, key, seconds, mine, scrape>>

Unchanged(r) == series[mine[r]].sum = old[r]

SwapSum(r) ==
    /\ pc[r] = "swap"
    /\ Unchanged(r)
    /\ series' = [series EXCEPT ![mine[r]].sum = old[r] + seconds[r]]
    /\ old' = [old EXCEPT ![r] = 0]
    /\ pc' = [pc EXCEPT ![r] = "count"]
    /\ UNCHANGED <<registry, key, seconds, mine, scrape>>

SwapFails(r) ==
    /\ pc[r] = "swap"
    /\ ~Unchanged(r)
    /\ old' = [old EXCEPT ![r] = 0]
    /\ pc' = [pc EXCEPT ![r] = "load"]
    /\ UNCHANGED <<registry, series, key, seconds, mine, scrape>>

AddCount(r) ==
    /\ pc[r] = "count"
    /\ series' = [series EXCEPT ![mine[r]].count = @ + 1]
    /\ pc' = [pc EXCEPT ![r] = "observed"]
    /\ UNCHANGED <<registry, key, seconds, mine, old, scrape>>

-----------------------------------------------------------------------------
(* collect and the exposition *)

(* The loads of one series, in program order.                              *)
Buckets == [i \in Slots |-> <<"bucket", i>>]
Bug_Loads == Buckets \o << <<"sum", 0>>, <<"count", 0>> >>
Loads == << <<"sum", 0>>, <<"count", 0>> >> \o Buckets

(* snap with one more load from s; the buckets are cumulated on the way.   *)
Below(snap, i) == IF i = 1 THEN 0 ELSE snap.buckets[i - 1]

Loaded(snap, load, s) ==
    CASE load[1] = "sum"    -> [snap EXCEPT !.sum = s.sum]
      [] load[1] = "count"  -> [snap EXCEPT !.count = s.count]
      [] load[1] = "bucket" ->
            [snap EXCEPT !.buckets[load[2]] = Below(snap, load[2]) + s.buckets[load[2]]]

(* The walk of the map, under the read lock.                               *)
ScrapeStarts ==
    /\ ~scraping
    /\ scrapes < MaxScrapes
    /\ scraping' = TRUE
    /\ live' = {registry[k] : k \in seriesKey} \ {"none"}
    /\ UNCHANGED <<registry, series, request, reading, at, snaps, exposed, scrapes>>

ScrapeLoads(s) ==
    /\ scraping
    /\ s \in live
    /\ reading \in {"none", s}
    /\ snaps' = [snaps EXCEPT ![key[s]] = Loaded(@, Loads[at], series[s])]
    /\ IF at < Len(Loads)
       THEN reading' = s /\ at' = at + 1 /\ UNCHANGED live
       ELSE reading' = "none" /\ at' = 1 /\ live' = live \ {s}
    /\ UNCHANGED <<registry, series, request, scraping, exposed, scrapes>>

(* appendExposition: every snapshot is rendered, a key without a series    *)
(* not at all.                                                             *)
ScrapeServes ==
    /\ scraping
    /\ live = {}
    /\ exposed' = snaps
    /\ snaps' = [k \in seriesKey |-> Zero]
    /\ scrapes' = scrapes + 1
    /\ scraping' = FALSE
    /\ UNCHANGED <<registry, series, request, live, reading, at>>

-----------------------------------------------------------------------------
Observe(r) ==
    \/ Served(r) \/ HandlerPanics(r) \/ observe(r) \/ newSeries(r)
    \/ AddBucket(r) \/ LoadSum(r) \/ SwapSum(r) \/ SwapFails(r) \/ AddCount(r)

Next ==
    \/ \E r \in Requests : Observe(r) \/ ScrapeLoads(r)
    \/ ScrapeStarts \/ ScrapeServes

Spec == Init /\ [][Next]_vars

-----------------------------------------------------------------------------
Snapshot == [sum : Nat, count : Nat, buckets : [Slots -> Nat]]

TypeOK ==
    /\ registry \in [seriesKey -> Requests \cup {"none"}]
    /\ series \in [Requests -> Snapshot]
    /\ pc \in [Requests -> {"idle", "panicked", "lookup", "create", "bucket", "load", "swap",
                            "count", "observed"}]
    /\ key \in [Requests -> seriesKey]
    /\ seconds \in [Requests -> Latencies \cup {0}]
    /\ mine \in [Requests -> Requests \cup {"none"}]
    /\ old \in [Requests -> Nat]
    /\ scraping \in BOOLEAN
    /\ live \subseteq Requests
    /\ reading \in Requests \cup {"none"}
    /\ at \in 1..Len(Loads)
    /\ snaps \in [seriesKey -> Snapshot]
    /\ exposed \in [seriesKey -> Snapshot]
    /\ scrapes \in 0..MaxScrapes

(* The registered series of key k, and the requests of that key that are   *)
(* past the given points of observe.                                       *)
SeriesOf(k) == IF registry[k] = "none" THEN Zero ELSE series[registry[k]]
Past(k, points) == {r \in Requests : key[r] = k /\ pc[r] \in points}

Sum(f, S) == MapThenSumSet(LAMBDA x : f[x], S)

(* No observation is lost or counted twice, whoever creates the series and *)
(* however the sums race: the registered series of a key holds exactly the *)
(* requests of that key, in each of its numbers as far as they have come,  *)
(* each in the first bucket whose inclusive bound it does not exceed.      *)
NoObservationLost ==
    \A k \in seriesKey :
        LET s == SeriesOf(k)
            bucketed == Past(k, {"load", "swap", "count", "observed"})
        IN  /\ s.count = Cardinality(Past(k, {"observed"}))
            /\ s.sum = Sum(seconds, Past(k, {"count", "observed"}))
            /\ \A i \in DOMAIN Bounds :
                  Cardinality({r \in bucketed : seconds[r] <= Bounds[i]})
                      = Sum(s.buckets, 1..i)
            /\ Cardinality(bucketed) = Sum(s.buckets, Slots)

(* "The invariant a consumer is most likely to lean on - the +Inf bucket   *)
(* is never smaller than the observed count - always holds", and inside an *)
(* exposition the cumulative buckets only rise.                            *)
IsHistogram(snap) ==
    /\ snap.buckets[Inf] >= snap.count
    /\ \A i, j \in Slots : i < j => snap.buckets[i] <= snap.buckets[j]

NoLess(a, b) ==
    /\ a.sum <= b.sum /\ a.count <= b.count
    /\ \A i \in Slots : a.buckets[i] <= b.buckets[i]

(* What a Prometheus histogram promises: every exposition is one, and from *)
(* one exposition to the next no number goes down.  The comment on observe *)
(* has the count "behind the buckets and the sum, never ahead of them":    *)
(* that is so of the buckets only.  collect loads the sum before the       *)
(* count, which may be ahead of it.                                        *)
ScrapeMonotone ==
    [][\A k \in seriesKey : IsHistogram(exposed'[k]) /\ NoLess(exposed[k], exposed'[k])]_vars
=============================================================================
