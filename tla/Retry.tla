-------------------------------- MODULE Retry --------------------------------
(***************************************************************************)
(* pkg/retry: Backoff, with Policy, jittered, next and wait, around        *)
(* db.Transaction, the composition ADR-0022 prescribes for transactions    *)
(* that are to be retried.                                                 *)
(*                                                                         *)
(* A Duration is a signed integer, from -Half to Half - 1, that wraps.     *)
(* Jitter is a number of quarters; the conversion of a float64 that does   *)
(* not fit is up to the machine: the least integer on amd64, the greatest  *)
(* on arm64.                                                               *)
(***************************************************************************)
EXTENDS Transaction

CONSTANTS Half,      \* half the range of a Duration, 2^63 in an int64
          Policies   \* the policies to try

ASSUME WidthAssumption == Half \in Nat \ {0}

MaxInt == Half - 1
MinInt == -Half
Duration == MinInt..MaxInt
Wrap(n) == ((n - MinInt) % (2 * Half)) + MinInt

(* mustBeValid panics on any other policy, but for two: a Jitter that is   *)
(* not a number passes its comparisons, and one between the quarters is    *)
(* valid.                                                                  *)
ASSUME PolicyAssumption ==
    \A p \in Policies :
        /\ p.MaxAttempts \in Nat \ {0}
        /\ p.BaseDelay \in 0..MaxInt
        /\ p.MaxDelay \in p.BaseDelay..MaxInt
        /\ p.Jitter \in 0..4

VARIABLES policy,   \* Backoff's argument
          step,     \* where Backoff is
          attempt, delay,  \* its locals
          sleep,    \* the duration it last slept for
          result,   \* what it returned, or how it was unwound
          calls     \* auxiliary: calls of fn so far

backoffVars == <<txVars, policy, step, attempt, delay, sleep, result, calls>>

BackoffInit ==
    /\ TxInit
    /\ policy \in Policies
    /\ step = "entry"
    /\ attempt = 1
    /\ delay = policy.BaseDelay
    /\ sleep = 0
    /\ result = "none"
    /\ calls = 0

-----------------------------------------------------------------------------
(* jittered and next *)

Least(a, b) == IF a < b THEN a ELSE b

Spread(d) == (d * (4 - policy.Jitter)) \div 4..(d * (4 + policy.Jitter)) \div 4

(* time.Duration of each float64 in the range.                             *)
Converted(d) ==
    {n \in Spread(d) : n <= MaxInt}
        \cup (IF \E n \in Spread(d) : n > MaxInt THEN {MinInt, MaxInt} ELSE {})

Clamp(j) == IF j > policy.MaxDelay THEN policy.MaxDelay ELSE IF j < 0 THEN 0 ELSE j

jittered(d) == IF policy.Jitter = 0 \/ d = 0 THEN {d} ELSE {Clamp(j) : j \in Converted(d)}

Bug_next(d) == IF Wrap(2 * d) > policy.MaxDelay THEN policy.MaxDelay ELSE Wrap(2 * d)

next(d) ==
    IF Wrap(2 * d) < d \/ Wrap(2 * d) > policy.MaxDelay THEN policy.MaxDelay ELSE Wrap(2 * d)

-----------------------------------------------------------------------------
(* Backoff *)

CallFn == call' = "begin" /\ calls' = calls + 1

Return(value) ==
    /\ result' = value
    /\ step' = "returned"

BackoffEnters ==
    /\ step = "entry"
    /\ ~canceled
    /\ CallFn
    /\ step' = "attempt"
    /\ UNCHANGED <<fnEnd, tx, canceled, commits, unseen, policy, attempt, delay, sleep, result>>

BackoffRefuses ==
    /\ step = "entry"
    /\ canceled
    /\ Return("ctx.Err")
    /\ UNCHANGED <<txVars, policy, attempt, delay, sleep, calls>>

Spent == attempt = policy.MaxAttempts

(* nil, the last error, or the panic or Goexit that passes through.        *)
BackoffReturns ==
    /\ step = "attempt"
    /\ call \in {"nil", "panic", "gone"} \/ (call = "err" /\ Spent)
    /\ Return(call)
    /\ UNCHANGED <<txVars, policy, attempt, delay, sleep, calls>>

BackoffSleeps ==
    /\ step = "attempt"
    /\ call = "err"
    /\ ~Spent
    /\ sleep' \in jittered(delay)
    /\ call' = "idle"
    /\ step' = "sleeping"
    /\ UNCHANGED <<fnEnd, tx, canceled, commits, unseen, policy, attempt, delay, result, calls>>

(* The timer fired; with nothing to sleep wait only asks the context.      *)
BackoffRetries ==
    /\ step = "sleeping"
    /\ sleep <= 0 => ~canceled
    /\ attempt' = attempt + 1
    /\ delay' = next(delay)
    /\ CallFn
    /\ step' = "attempt"
    /\ UNCHANGED <<fnEnd, tx, canceled, commits, unseen, policy, sleep, result>>

BackoffGivesUp ==
    /\ step = "sleeping"
    /\ canceled
    /\ Return("ctx.Err")
    /\ UNCHANGED <<txVars, policy, attempt, delay, sleep, calls>>

Backoff ==
    \/ BackoffEnters \/ BackoffRefuses \/ BackoffReturns
    \/ BackoffSleeps \/ BackoffRetries \/ BackoffGivesUp

BackoffNext ==
    \/ Backoff
    \/ /\ TransactionStep \/ Database
       /\ UNCHANGED <<policy, step, attempt, delay, sleep, result, calls>>

BackoffSpec == BackoffInit /\ [][BackoffNext]_backoffVars

-----------------------------------------------------------------------------
BackoffTypeOK ==
    /\ call \in {"idle", "begin", "fn", "commit", "rollback", "unwind"} \cup Ended
    /\ fnEnd \in {"none", "ok", "err", "panic", "goexit"}
    /\ tx \in {"none", "open", "committed", "rolled back", "failed"}
    /\ canceled \in BOOLEAN
    /\ commits \in 0..attempt
    /\ unseen \in 0..commits
    /\ policy \in Policies
    /\ step \in {"entry", "attempt", "sleeping", "returned"}
    /\ attempt \in 1..policy.MaxAttempts
    /\ delay \in Duration
    /\ sleep \in Duration
    /\ result \in {"none", "ctx.Err"} \cup Ended
    /\ calls \in 0..attempt

(* "A transaction is never leaked open: every path out of fn commits or    *)
(* rolls back exactly once" (ADR-0022).  Once Transaction has let go of a  *)
(* Tx it is final, with two exceptions: a fn that leaves by runtime.Goexit *)
(* leaves it open, and a Commit that the ended context refused leaves it   *)
(* to the rollback of database/sql.                                        *)
NoTxLeftOpen ==
    call \in Ended \cup {"idle"} /\ tx = "open" => call = "gone" \/ canceled

(* However many attempts it took, nil means that fn succeeded and exactly  *)
(* one commit was confirmed, and any other result means none was: what     *)
(* took effect besides is a commit whose reply was lost or that fn made on *)
(* its own.  fn's error is returned only when the attempts are used up.    *)
CommitsAccounted ==
    /\ commits - unseen = IF call = "nil" THEN 1 ELSE 0
    /\ call = "nil" => fnEnd = "ok"
    /\ result = "err" => calls = policy.MaxAttempts

Power2[n \in Nat] == IF n = 0 THEN 1 ELSE 2 * Power2[n - 1]

(* "Each further retry doubles it", up to the cap, also where the doubled  *)
(* Duration no longer fits its integer; "no sleep, jittered or not, ever   *)
(* exceeds" the cap, and a delay d is spread over [d*(1-Jitter),           *)
(* d*(1+Jitter)].  Its lower end is missed, by an immediate retry, only    *)
(* where the upper end does not fit a Duration.                            *)
DelaysKeepPolicy ==
    /\ delay = Least(policy.BaseDelay * Power2[attempt - 1], policy.MaxDelay)
    /\ step = "sleeping" =>
          /\ sleep \in 0..policy.MaxDelay
          /\ delay * (4 + policy.Jitter) < 4 * (MaxInt + 1) =>
                4 * sleep + 3 >= delay * (4 - policy.Jitter)
=============================================================================
