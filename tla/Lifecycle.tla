------------------------------ MODULE Lifecycle ------------------------------
(***************************************************************************)
(* pkg/lifecycle: coordinator, with register, trigger, shutdown and        *)
(* WaitForSignals.                                                         *)
(*                                                                         *)
(* register, and the first half of shutdown, each run under the mutex and  *)
(* are one step.  The hooks run outside it, on the goroutine of the call   *)
(* that found started unset; every other call waits for finished.  Each    *)
(* hook is registered by one Register call, on a goroutine of its own.     *)
(***************************************************************************)
EXTENDS Integers, Sequences, FiniteSets

CONSTANTS Hooks,       \* calls of Register, one hook each
          Direct,      \* calls of Shutdown
          Waiters,     \* calls of WaitForSignals
          HasTimeout,  \* WaitForSignals got a positive timeout, not 0
          LongHooks,   \* hooks that return only once their context is done
          PanicHooks   \* hooks that may panic; their caller recovers

Callers == Direct \cup Waiters

(* A negative timeout panics.                                              *)
ASSUME OptionAssumption == HasTimeout \in BOOLEAN
ASSUME DisjointAssumption == Direct \cap Waiters = {}

VARIABLES hooks, started, finished, result, triggered,  \* the coordinator
          reg,        \* what became of each Register call
          pc,         \* where each Shutdown or WaitForSignals call is
          snap, idx,  \* shutdown's locals: the hooks to run, the loop index
          errs,       \* shutdown's local: the hooks that failed, in order
          signaled,   \* waiters with a signal in their channel of one
          done,       \* calls whose context is done
          ret,        \* auxiliary: the errors each call returned
          ran,        \* auxiliary: the hooks started so far, oldest first
          failed,     \* auxiliary: the hooks that returned an error, oldest first
          fault       \* the runtime panic that ended the process, if any

coordinator == <<hooks, started, finished, result, triggered>>
locals == <<snap, idx, errs>>
vars == <<coordinator, reg, pc, locals, signaled, done, ret, ran, failed, fault>>

Init ==
    /\ hooks = <<>>
    /\ started = FALSE
    /\ finished = FALSE
    /\ result = <<>>
    /\ triggered = FALSE
    /\ reg = [h \in Hooks |-> "new"]
    /\ pc = [c \in Callers |-> "idle"]
    /\ snap = [c \in Callers |-> <<>>]
    /\ idx = [c \in Callers |-> 0]
    /\ errs = [c \in Callers |-> <<>>]
    /\ signaled = {}
    /\ done = {}
    /\ ret = [c \in Callers |-> <<>>]
    /\ ran = <<>>
    /\ failed = <<>>
    /\ fault = "none"

Up == fault = "none"

-----------------------------------------------------------------------------
(* register and trigger *)

MayRegister == ~started

register(h) ==
    /\ Up
    /\ reg[h] = "new"
    /\ MayRegister
    /\ hooks' = Append(hooks, h)
    /\ reg' = [reg EXCEPT ![h] = "registered"]
    /\ UNCHANGED <<started, finished, result, triggered, pc, locals, signaled, done, ret,
                   ran, failed, fault>>

(* "Register after Shutdown": the panic reaches Register's caller.         *)
registerPanics(h) ==
    /\ Up
    /\ reg[h] = "new"
    /\ ~MayRegister
    /\ reg' = [reg EXCEPT ![h] = "panicked"]
    /\ UNCHANGED <<coordinator, pc, locals, signaled, done, ret, ran, failed, fault>>

(* sync.Once: only the first call closes the channel.                      *)
trigger ==
    /\ Up
    /\ ~triggered
    /\ triggered' = TRUE
    /\ UNCHANGED <<hooks, started, finished, result, reg, pc, locals, signaled, done, ret,
                   ran, failed, fault>>

-----------------------------------------------------------------------------
(* WaitForSignals *)

WaitEnters(w) ==
    /\ Up
    /\ pc[w] = "idle"
    /\ pc' = [pc EXCEPT ![w] = "selecting"]
    /\ UNCHANGED <<coordinator, reg, locals, signaled, done, ret, ran, failed, fault>>

(* os/signal sends to every notified channel without blocking.             *)
Signal ==
    /\ Up
    /\ \E w \in Waiters : pc[w] = "selecting" /\ w \notin signaled
    /\ signaled' = signaled \cup {w \in Waiters : pc[w] \notin {"idle", "returned", "panicked"}}
    /\ UNCHANGED <<coordinator, reg, pc, locals, done, ret, ran, failed, fault>>

Bug_Woken(w) == w \in signaled
Woken(w) == w \in signaled \/ triggered

(* The select; the context with the deadline is derived here.              *)
WaitWakes(w) ==
    /\ Up
    /\ pc[w] = "selecting"
    /\ Woken(w)
    /\ pc' = [pc EXCEPT ![w] = "calling"]
    /\ UNCHANGED <<coordinator, reg, locals, signaled, done, ret, ran, failed, fault>>

-----------------------------------------------------------------------------
(* shutdown *)

ShutdownCalled(c) ==
    /\ Up
    /\ pc[c] = "idle"
    /\ pc' = [pc EXCEPT ![c] = "calling"]
    /\ UNCHANGED <<coordinator, reg, locals, signaled, done, ret, ran, failed, fault>>

First == ~started

ShutdownStarts(c) ==
    /\ Up
    /\ pc[c] = "calling"
    /\ First
    /\ started' = TRUE
    /\ snap' = [snap EXCEPT ![c] = hooks]
    /\ idx' = [idx EXCEPT ![c] = Len(hooks)]
    /\ pc' = [pc EXCEPT ![c] = "running"]
    /\ UNCHANGED <<hooks, finished, result, triggered, reg, errs, signaled, done, ret, ran,
                   failed, fault>>

ShutdownJoins(c) ==
    /\ Up
    /\ pc[c] = "calling"
    /\ ~First
    /\ pc' = [pc EXCEPT ![c] = "joining"]
    /\ UNCHANGED <<coordinator, reg, locals, signaled, done, ret, ran, failed, fault>>

Bug_NextHook(c) == snap[c][Len(snap[c]) + 1 - idx[c]]
NextHook(c) == snap[c][idx[c]]

HookStarts(c) ==
    /\ Up
    /\ pc[c] = "running"
    /\ idx[c] > 0
    /\ ran' = Append(ran, NextHook(c))
    /\ pc' = [pc EXCEPT ![c] = "inHook"]
    /\ UNCHANGED <<coordinator, reg, locals, signaled, done, ret, failed, fault>>

(* A long hook honours its context and nothing else.                       *)
MayReturn(c) == snap[c][idx[c]] \in LongHooks => c \in done

HookSucceeds(c) ==
    /\ Up
    /\ pc[c] = "inHook"
    /\ MayReturn(c)
    /\ idx' = [idx EXCEPT ![c] = @ - 1]
    /\ pc' = [pc EXCEPT ![c] = "running"]
    /\ UNCHANGED <<coordinator, reg, snap, errs, signaled, done, ret, ran, failed, fault>>

Bug_AfterFailure(c) == 0
AfterFailure(c) == idx[c] - 1

HookFails(c) ==
    /\ Up
    /\ pc[c] = "inHook"
    /\ MayReturn(c)
    /\ errs' = [errs EXCEPT ![c] = Append(@, NextHook(c))]
    /\ failed' = Append(failed, NextHook(c))
    /\ idx' = [idx EXCEPT ![c] = AfterFailure(c)]
    /\ pc' = [pc EXCEPT ![c] = "running"]
    /\ UNCHANGED <<coordinator, reg, snap, signaled, done, ret, ran, fault>>

(* Nothing in shutdown recovers: the panic passes through, result is not   *)
(* written and finished is not closed.                                     *)
HookPanics(c) ==
    /\ Up
    /\ pc[c] = "inHook"
    /\ NextHook(c) \in PanicHooks
    /\ pc' = [pc EXCEPT ![c] = "panicked"]
    /\ UNCHANGED <<coordinator, reg, locals, signaled, done, ret, ran, failed, fault>>

(* result is written, and only then finished is closed.                    *)
ShutdownPublishes(c) ==
    /\ Up
    /\ pc[c] = "running"
    /\ idx[c] = 0
    /\ result' = errs[c]
    /\ pc' = [pc EXCEPT ![c] = "publishing"]
    /\ UNCHANGED <<hooks, started, finished, triggered, reg, locals, signaled, done, ret, ran,
                   failed, fault>>

Bug_closeFinished(c) ==
    /\ finished' = (finished \/ result = <<>>)
    /\ UNCHANGED fault

closeFinished(c) ==
    /\ fault' = IF finished THEN "close of closed channel" ELSE fault
    /\ finished' = TRUE

ShutdownFinishes(c) ==
    /\ Up
    /\ pc[c] = "publishing"
    /\ closeFinished(c)
    /\ ret' = [ret EXCEPT ![c] = result]
    /\ pc' = [pc EXCEPT ![c] = "returned"]
    /\ UNCHANGED <<hooks, started, result, triggered, reg, locals, signaled, done, ran, failed>>

(* A joining call waits for finished alone; its context is not consulted.  *)
JoinReturns(c) ==
    /\ Up
    /\ pc[c] = "joining"
    /\ finished
    /\ ret' = [ret EXCEPT ![c] = result]
    /\ pc' = [pc EXCEPT ![c] = "returned"]
    /\ UNCHANGED <<coordinator, reg, locals, signaled, done, ran, failed, fault>>

-----------------------------------------------------------------------------
(* Contexts *)

(* A caller of Shutdown cancels its context at will.                       *)
Cancel(c) ==
    /\ Up
    /\ c \in Direct \ done
    /\ done' = done \cup {c}
    /\ UNCHANGED <<coordinator, reg, pc, locals, signaled, ret, ran, failed, fault>>

(* The timer of a waiter starts when it wakes.                             *)
Expires(w) ==
    /\ Up
    /\ HasTimeout
    /\ w \notin done
    /\ pc[w] \notin {"idle", "selecting", "returned", "panicked"}
    /\ done' = done \cup {w}
    /\ UNCHANGED <<coordinator, reg, pc, locals, signaled, ret, ran, failed, fault>>

-----------------------------------------------------------------------------
HookReturns(c) == HookSucceeds(c) \/ HookFails(c)

shutdown(c) ==
    \/ ShutdownStarts(c) \/ ShutdownJoins(c) \/ HookStarts(c) \/ HookReturns(c)
    \/ ShutdownPublishes(c) \/ ShutdownFinishes(c) \/ JoinReturns(c)

Next ==
    \/ \E h \in Hooks : register(h) \/ registerPanics(h)
    \/ \E w \in Waiters : WaitEnters(w) \/ WaitWakes(w) \/ Expires(w)
    \/ \E c \in Direct : ShutdownCalled(c) \/ Cancel(c)
    \/ \E c \in Callers : shutdown(c) \/ HookPanics(c)
    \/ trigger \/ Signal

Spec == Init /\ [][Next]_vars

(* Goroutines are scheduled, hooks return as soon as they may, timers fire *)
(* and an entered select takes a ready case.  Nobody has to signal, call   *)
(* Trigger or Shutdown, or cancel.                                         *)
Fairness ==
    /\ \A c \in Callers : WF_vars(shutdown(c))
    /\ \A w \in Waiters : WF_vars(WaitWakes(w)) /\ WF_vars(Expires(w))

FairSpec == Spec /\ Fairness

-----------------------------------------------------------------------------
TypeOK ==
    /\ hooks \in Seq(Hooks)
    /\ started \in BOOLEAN
    /\ finished \in BOOLEAN
    /\ result \in Seq(Hooks)
    /\ triggered \in BOOLEAN
    /\ reg \in [Hooks -> {"new", "registered", "panicked"}]
    /\ pc \in [Callers -> {"idle", "selecting", "calling", "joining", "running", "inHook",
                           "publishing", "returned", "panicked"}]
    /\ snap \in [Callers -> Seq(Hooks)]
    /\ idx \in [Callers -> Nat]
    /\ errs \in [Callers -> Seq(Hooks)]
    /\ signaled \subseteq Waiters
    /\ done \subseteq Callers
    /\ ret \in [Callers -> Seq(Hooks)]
    /\ ran \in Seq(Hooks)
    /\ failed \in Seq(Hooks)
    /\ fault \in {"none", "close of closed channel"}

(* Hooks run "in reverse registration order", each "exactly once", one at  *)
(* a time, however many calls ask for the shutdown and whichever hooks     *)
(* fail or panic: what ran is the reversed registry, as far as it got.     *)
ReverseOrder ==
    /\ Len(ran) <= Len(hooks)
    /\ \A i \in 1..Len(ran) : ran[i] = hooks[Len(hooks) + 1 - i]

(* "Any later or concurrent call waits for that run to finish and returns  *)
(* its result": no call returns before every hook has run, and all return  *)
(* the errors of all the hooks that failed.                                *)
OneResult ==
    \A c \in Callers :
        pc[c] = "returned" => finished /\ Len(ran) = Len(hooks) /\ ret[c] = failed

(* "A hook registered that late would silently never run": a hook whose    *)
(* Register returned has run by the time any Shutdown returns.             *)
NoHookForgotten ==
    (\E c \in Callers : pc[c] = "returned") =>
        \A h \in Hooks : reg[h] = "registered" => \E i \in 1..Len(ran) : ran[i] = h

(* finished is closed once.                                                *)
FinishedClosedOnce == fault = "none"

(* What may hold a shutdown up: a hook that panicked, or a long hook that  *)
(* runs under the context of a Shutdown caller who does not cancel it.     *)
HeldUp ==
    \E c \in Callers :
        \/ pc[c] = "panicked"
        \/ c \in Direct \ done /\ pc[c] = "inHook" /\ ~MayReturn(c)

(* Unless the shutdown is held up, every call returns, the joining ones    *)
(* included, and the deadline of a WaitForSignals reaches the hooks it     *)
(* runs.                                                                   *)
ShutdownReturns ==
    \A c \in Callers : pc[c] = "calling" ~> (pc[c] = "returned" \/ HeldUp)

(* "Triggering before WaitForSignals is called is not a lost wakeup": with *)
(* the request latched, every WaitForSignals that is entered returns.      *)
TriggerLatches ==
    \A w \in Waiters :
        (triggered /\ pc[w] = "selecting") ~> (pc[w] = "returned" \/ HeldUp)

(* "timeout bounds the whole shutdown sequence": with hooks that honour    *)
(* their context, a WaitForSignals whose timeout has passed returns.       *)
TimeoutBoundsShutdown ==
    \A w \in Waiters : w \in done ~> pc[w] = "returned"
=============================================================================
