------------------------------- MODULE MCCache -------------------------------
(* Model-checking instance of Cache.                                        *)
EXTENDS Cache, TLC

CONSTANTS k1, k2

TwoShards == <<"shard1", "shard2">>
OneKeyEach == k1 :> "shard1" @@ k2 :> "shard2"
=============================================================================
