----------------------------- MODULE Transaction -----------------------------
(***************************************************************************)
(* pkg/db: Transaction, one call at a time, over database/sql.             *)
(*                                                                         *)
(* tx is the *sql.Tx, open until something finalises it; "failed" is a Tx  *)
(* whose Commit or Rollback the driver answered with an error.  database/  *)
(* sql rolls an open Tx back on its own once the context is done.  A       *)
(* commit that fails may have taken effect: the reply can be what is lost. *)
(***************************************************************************)
EXTENDS Integers

VARIABLES call,      \* where the Transaction call is, and then how it ended
          fnEnd,     \* how fn last ended
          tx,        \* the transaction it works on
          canceled,  \* the context is done
          commits,   \* auxiliary: transactions that took effect in the database
          unseen     \* auxiliary: those among them that Transaction was not told of

txVars == <<call, fnEnd, tx, canceled, commits, unseen>>

Ended == {"nil", "err", "panic", "gone"}

TxInit ==
    /\ call = "idle"
    /\ fnEnd = "none"
    /\ tx = "none"
    /\ canceled = FALSE
    /\ commits = 0
    /\ unseen = 0

-----------------------------------------------------------------------------
(* database/sql *)

NoEffect == UNCHANGED <<commits, unseen>>
TakesEffect == commits' = commits + 1 /\ UNCHANGED unseen
TakesEffectUnseen == commits' = commits + 1 /\ unseen' = unseen + 1

(* Tx.Commit: refused on a done context or a finalised Tx, and otherwise   *)
(* the driver's answer.                                                    *)
Commit(answer) ==
    \/ /\ canceled \/ tx # "open"
       /\ answer = "err"
       /\ UNCHANGED tx /\ NoEffect
    \/ /\ ~canceled /\ tx = "open"
       /\ \/ answer = "nil" /\ tx' = "committed" /\ TakesEffect
          \/ answer = "err" /\ tx' = "failed" /\ (NoEffect \/ TakesEffectUnseen)

(* Tx.Rollback: ErrTxDone on a finalised Tx.                               *)
Rollback ==
    /\ tx' = IF tx = "open" THEN "rolled back" ELSE tx
    /\ NoEffect

RollbackFails ==
    /\ tx = "open"
    /\ tx' = "failed"
    /\ NoEffect

(* The goroutine that database/sql starts for a Tx with a context.         *)
AwaitDone ==
    /\ canceled
    /\ tx = "open"
    /\ tx' = "rolled back"
    /\ UNCHANGED <<call, fnEnd, canceled, commits, unseen>>

Cancel ==
    /\ ~canceled
    /\ canceled' = TRUE
    /\ UNCHANGED <<call, fnEnd, tx, commits, unseen>>

-----------------------------------------------------------------------------
(* Transaction *)

Begin ==
    /\ call = "begin"
    /\ ~canceled
    /\ tx' = "open"
    /\ call' = "fn"
    /\ UNCHANGED <<fnEnd, canceled, commits, unseen>>

BeginFails ==
    /\ call = "begin"
    /\ call' = "err"
    /\ UNCHANGED <<fnEnd, tx, canceled, commits, unseen>>

(* fn holds the Tx and may finalise it itself; Transaction then meets      *)
(* ErrTxDone, and does not learn of a commit.                              *)
FnCommits ==
    /\ call = "fn"
    /\ tx = "open" /\ ~canceled
    /\ tx' = "committed"
    /\ TakesEffectUnseen
    /\ UNCHANGED <<call, fnEnd, canceled>>

FnRollsBack ==
    /\ call = "fn"
    /\ tx = "open"
    /\ Rollback
    /\ UNCHANGED <<call, fnEnd, canceled>>

(* What follows fn.  runtime.Goexit runs the deferred function with        *)
(* nothing to recover, and the goroutine is gone.                          *)
Bug_NoRecover(end) ==
    [ok |-> "commit", err |-> "rollback", panic |-> "panic", goexit |-> "gone"][end]

Bug_CommitsAlways(end) ==
    [ok |-> "commit", err |-> "commit", panic |-> "unwind", goexit |-> "gone"][end]

AfterFn(end) ==
    [ok |-> "commit", err |-> "rollback", panic |-> "unwind", goexit |-> "gone"][end]

FnReturns ==
    /\ call = "fn"
    /\ fnEnd' \in {"ok", "err", "panic", "goexit"}
    /\ call' = AfterFn(fnEnd')
    /\ UNCHANGED <<tx, canceled, commits, unseen>>

CommitReturns ==
    /\ call = "commit"
    /\ \E answer \in {"nil", "err"} : Commit(answer) /\ call' = answer
    /\ UNCHANGED <<fnEnd, canceled>>

(* After fn's error, which is returned, joined with a failed rollback.     *)
RollbackReturns ==
    /\ call = "rollback"
    /\ Rollback \/ RollbackFails
    /\ call' = "err"
    /\ UNCHANGED <<fnEnd, canceled>>

(* The deferred recover: roll back as best it can and panic again.         *)
PanicRollsBack ==
    /\ call = "unwind"
    /\ Rollback \/ RollbackFails
    /\ call' = "panic"
    /\ UNCHANGED <<fnEnd, canceled>>

Database == AwaitDone \/ Cancel

TransactionStep ==
    \/ Begin \/ BeginFails \/ FnCommits \/ FnRollsBack \/ FnReturns
    \/ CommitReturns \/ RollbackReturns \/ PanicRollsBack
=============================================================================
