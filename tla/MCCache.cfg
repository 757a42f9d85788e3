\* Two keys in two shards, a writer and a reader; a sweep may take as long as
\* the interval between two ticks of the sweeper.
SPECIFICATION FairCacheSpec
CONSTANTS
    k1 = k1
    k2 = k2
    Keys = {k1, k2}
    Setters = {s1}
    Getters = {g1}
    Shards <- TwoShards
    ShardOf <- OneKeyEach
    TTL = 2
    Interval = 1
    MaxAge = 1
INVARIANTS
    GetIsHonest
PROPERTIES
    NoLiveEntryLost
    SweeperReclaims
    CloseStopsSweeper
