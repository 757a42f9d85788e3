------------------------------ MODULE MCMetrics ------------------------------
(* Model-checking instances of Metrics.                                     *)
EXTENDS Metrics, TLC

OneBound == <<1>>
Interchangeable == Permutations(Requests)
=============================================================================
