------------------------------- MODULE MCRetry -------------------------------
(* Model-checking instance of Retry.                                        *)
EXTENDS Retry

(* Every base delay under a few caps, the widest Duration among them.       *)
ManyPolicies ==
    {p \in [MaxAttempts : {1, 4}, BaseDelay : 0..15, MaxDelay : {0, 6, 15}, Jitter : {0, 1, 4}] :
        p.BaseDelay <= p.MaxDelay}
=============================================================================
