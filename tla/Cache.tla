-------------------------------- MODULE Cache --------------------------------
(***************************************************************************)
(* pkg/cache: Cache, with Set, Get, Delete, Close, sweeper, removeExpired. *)
(*                                                                         *)
(* Instants are kept relative to the clock: an entry carries the time it   *)
(* has left, which every tick lessens, and the sweeper the age of the now  *)
(* it read before its first shard.  Below the oldest such now the time     *)
(* left no longer matters and stops at Floor.  A section under a shard's   *)
(* lock is one step; what Set and Get do outside it is a step of its own.  *)
(***************************************************************************)
EXTENDS Integers, Sequences, FiniteSets

CONSTANTS Keys, Setters, Getters,
          Shards,    \* the shards, in the order removeExpired visits them
          ShardOf,   \* shardFor, fixed by the seed
          TTL, Interval,
          MaxAge     \* bound: ticks that one sweep may last

(* New and WithCleanupInterval panic on any other durations.               *)
ASSUME DurationAssumption == TTL \in Nat \ {0} /\ Interval \in Nat \ {0}
ASSUME ShardAssumption ==
    \A k \in Keys : \E i \in 1..Len(Shards) : Shards[i] = ShardOf[k]
ASSUME AgeAssumption == MaxAge \in Nat
ASSUME NameAssumption == "none" \notin Setters

VARIABLES entries,  \* the shards' maps: Absent, or a value and the time it has left
          set,      \* each Set call: its key and, before the store, its deadline
          get,      \* each Get call: its key and the entry it read
          closed,   \* done is closed
          sweep,    \* the sweeper: Selecting, at the shard of this index, or Exited
          age,      \* time since the sweep read the clock
          phase,    \* time until the ticker fires next
          ticked    \* the ticker's channel of one holds a tick

cacheVars == <<entries, set, get, closed, sweep, age, phase, ticked>>

Floor == -(MaxAge + 1)
Selecting == 0
Exited == Len(Shards) + 1
Sweeping == sweep \in 1..Len(Shards)
Absent == [value |-> "none", left |-> Floor]
Idle == [pc |-> "idle"]

Present(k) == entries[k] # Absent
Live(e) == e.left > 0

CacheInit ==
    /\ entries = [k \in Keys |-> Absent]
    /\ set = [s \in Setters |-> Idle]
    /\ get = [g \in Getters |-> Idle]
    /\ closed = FALSE
    /\ sweep = Selecting
    /\ age = 0
    /\ phase = Interval
    /\ ticked = FALSE

(* Auxiliary, for the Get calls between their two steps: whether their key *)
(* was at some moment without a live entry, and whether it was overwritten.*)
Watch(overwritten) ==
    get' = [g \in Getters |->
              IF get[g].pc # "read" THEN get[g]
              ELSE [get[g] EXCEPT !.gap = @ \/ ~Live(entries'[get[g].key]),
                                  !.over = @ \/ get[g].key \in overwritten]]

-----------------------------------------------------------------------------
(* Set: the deadline, then the store under the lock.  Delete.              *)

SetStamps(s, k) ==
    /\ set[s].pc = "idle"
    /\ set' = [set EXCEPT ![s] = [pc |-> "stamped", key |-> k, left |-> TTL]]
    /\ UNCHANGED <<entries, get, closed, sweep, age, phase, ticked>>

SetStores(s) ==
    /\ set[s].pc = "stamped"
    /\ entries' = [entries EXCEPT ![set[s].key] = [value |-> s, left |-> set[s].left]]
    /\ set' = [set EXCEPT ![s] = Idle]
    /\ Watch({set[s].key})
    /\ UNCHANGED <<closed, sweep, age, phase, ticked>>

Delete(k) ==
    /\ Present(k)
    /\ entries' = [entries EXCEPT ![k] = Absent]
    /\ Watch({})
    /\ UNCHANGED <<set, closed, sweep, age, phase, ticked>>

-----------------------------------------------------------------------------
(* Get: the read under the lock, then the comparison with the clock.       *)

GetReads(g, k) ==
    /\ get[g].pc # "read"
    /\ get' = [get EXCEPT ![g] = [pc |-> "read", key |-> k, entry |-> entries[k],
                                  gap |-> ~Live(entries[k]), over |-> FALSE]]
    /\ UNCHANGED <<entries, set, closed, sweep, age, phase, ticked>>

Bug_Judged(e) == IF e # Absent THEN "hit" ELSE "miss"
Judged(e) == IF Live(e) THEN "hit" ELSE "miss"

GetJudges(g) ==
    /\ get[g].pc = "read"
    /\ get' = [get EXCEPT ![g].pc = Judged(get[g].entry)]
    /\ UNCHANGED <<entries, set, closed, sweep, age, phase, ticked>>

-----------------------------------------------------------------------------
(* Close, sweeper and removeExpired *)

Close ==
    /\ ~closed
    /\ closed' = TRUE
    /\ UNCHANGED <<entries, set, get, sweep, age, phase, ticked>>

Bug_SweeperExits ==
    /\ sweep = Selecting /\ closed /\ ~ticked
    /\ sweep' = Exited
    /\ UNCHANGED <<entries, set, get, closed, age, phase, ticked>>

SweeperExits ==
    /\ sweep = Selecting /\ closed
    /\ sweep' = Exited
    /\ UNCHANGED <<entries, set, get, closed, age, phase, ticked>>

SweepStarts ==
    /\ sweep = Selecting /\ ticked
    /\ sweep' = 1
    /\ age' = 0
    /\ ticked' = FALSE
    /\ UNCHANGED <<entries, set, get, closed, phase>>

Bug_Expired(e) == e.left <= Interval - age
Expired(e) == e.left <= -age

Bug_After(i) == i + 1
After(i) == IF i = Len(Shards) THEN Selecting ELSE i + 1

SweepShard ==
    /\ Sweeping
    /\ entries' = [k \in Keys |-> IF ShardOf[k] = Shards[sweep] /\ Expired(entries[k])
                                  THEN Absent ELSE entries[k]]
    /\ sweep' = After(sweep)
    /\ Watch({})
    /\ UNCHANGED <<set, closed, age, phase, ticked>>

-----------------------------------------------------------------------------
(* The clock, and the ticker, which drops a tick that finds its channel    *)
(* full.                                                                   *)
Less(left) == IF left > Floor THEN left - 1 ELSE Floor

Tick ==
    /\ Sweeping => age < MaxAge
    /\ age' = IF Sweeping THEN age + 1 ELSE age
    /\ phase' = IF phase = 1 THEN Interval ELSE phase - 1
    /\ ticked' = (ticked \/ phase = 1)
    /\ entries' = [k \in Keys |-> [entries[k] EXCEPT !.left = Less(@)]]
    /\ set' = [s \in Setters |->
                 IF set[s].pc = "idle" THEN Idle ELSE [set[s] EXCEPT !.left = Less(@)]]
    /\ get' = [g \in Getters |->
                 IF get[g].pc # "read" THEN get[g]
                 ELSE [get[g] EXCEPT !.entry.left = Less(@),
                                     !.gap = @ \/ ~Live(entries'[get[g].key])]]
    /\ UNCHANGED <<closed, sweep>>

-----------------------------------------------------------------------------
CacheNext ==
    \/ \E s \in Setters : SetStores(s) \/ \E k \in Keys : SetStamps(s, k)
    \/ \E g \in Getters : GetJudges(g) \/ \E k \in Keys : GetReads(g, k)
    \/ \E k \in Keys : Delete(k)
    \/ Close \/ SweeperExits \/ SweepStarts \/ SweepShard \/ Tick

CacheSpec == CacheInit /\ [][CacheNext]_cacheVars

(* Time passes and the sweeper is scheduled.  A select with both channels  *)
(* ready picks one at random: it cannot prefer the tick for ever.          *)
CacheFairness ==
    /\ WF_cacheVars(Tick)
    /\ WF_cacheVars(SweepStarts)
    /\ WF_cacheVars(SweepShard)
    /\ SF_cacheVars(SweeperExits)

FairCacheSpec == CacheSpec /\ CacheFairness

-----------------------------------------------------------------------------
(* The sweeper is "purely a memory reclaimer, not a correctness            *)
(* mechanism": whatever Set refreshes while a sweep works its way through  *)
(* the shards with an old clock, only a Delete takes a live entry away.    *)
NoLiveEntryLost ==
    [][\A k \in Keys :
          Live(entries[k]) /\ entries'[k] = Absent => Delete(k)]_cacheVars

(* "An expired entry is never returned", judged after the lock is gone;    *)
(* and a miss is the truth at some moment of the call, unless the entry    *)
(* that Get had read was overwritten meanwhile: a key refreshed before its *)
(* deadline, live at every moment, can still be reported absent.           *)
GetIsHonest ==
    \A g \in Getters :
        /\ get[g].pc = "hit" => Live(get[g].entry)
        /\ get[g].pc = "miss" => get[g].gap \/ get[g].over

(* An entry that has been expired for longer than a sweep lasts is         *)
(* reclaimed or overwritten, until Close.                                  *)
Overdue(k) == Present(k) /\ entries[k].left = Floor
SweeperReclaims == \A k \in Keys : Overdue(k) ~> (~Overdue(k) \/ closed)

(* "Close stops it deterministically": the sweeper ends, also when every   *)
(* sweep outlasts the interval and a tick is always waiting.               *)
CloseStopsSweeper == closed ~> sweep = Exited
=============================================================================
