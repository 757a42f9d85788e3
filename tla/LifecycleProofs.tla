--------------------------- MODULE LifecycleProofs ---------------------------
(***************************************************************************)
(* For any number of hooks and of concurrent Shutdown and WaitForSignals   *)
(* calls: the hooks run once each in reverse registration order, and every *)
(* call returns the one result, after the last hook.                       *)
(***************************************************************************)
EXTENDS Lifecycle, SequenceTheorems, TLAPS

(* The call that runs the hooks, or that a panicking hook ended.           *)
Active == {"running", "inHook", "publishing", "panicked"}
Before == {"idle", "selecting", "calling"}

NotStarted ==
    ~started => /\ ran = <<>> /\ failed = <<>> /\ ~finished
                /\ \A c \in Callers : pc[c] \in Before

OneRunner ==
    \A c, d \in Callers : pc[c] \in Active /\ pc[d] \in Active => c = d

FreshLocals == \A c \in Callers : pc[c] \in Before => errs[c] = <<>>

(* The runner's index counts down the hooks that have not run yet.         *)
RunnerIndex ==
    \A c \in Callers :
        /\ pc[c] \in Active => ~finished /\ snap[c] = hooks /\ errs[c] = failed
        /\ pc[c] = "running" => Len(ran) + idx[c] = Len(hooks)
        /\ pc[c] \in {"inHook", "panicked"} =>
              Len(ran) + idx[c] = Len(hooks) + 1 /\ idx[c] \in 1..Len(hooks)
        /\ pc[c] = "publishing" => Len(ran) = Len(hooks) /\ result = failed

FinalResult == finished => Len(ran) = Len(hooks) /\ result = failed

Returned == \A c \in Callers : pc[c] = "returned" => finished /\ ret[c] = result

RegisteredIsHooked ==
    \A h \in Hooks : reg[h] = "registered" => \E i \in 1..Len(hooks) : hooks[i] = h

Inv ==
    /\ TypeOK
    /\ FinishedClosedOnce
    /\ ReverseOrder
    /\ NotStarted
    /\ OneRunner
    /\ FreshLocals
    /\ RunnerIndex
    /\ FinalResult
    /\ Returned
    /\ RegisteredIsHooked

(* Appending to a sequence, index by index.                                *)
LEMMA AppendFacts ==
    ASSUME NEW S, NEW q \in Seq(S), NEW x \in S
    PROVE  /\ Append(q, x) \in Seq(S)
           /\ Len(q) \in Nat
           /\ Len(Append(q, x)) = Len(q) + 1
           /\ Append(q, x)[Len(q) + 1] = x
           /\ \A i \in 1..Len(q) : Append(q, x)[i] = q[i]
           /\ \A i \in 1..Len(q) : q[i] \in S
  BY AppendProperties, LenProperties, ElementOfSeq

LEMMA LenNat == ASSUME NEW S, NEW q \in Seq(S) PROVE Len(q) \in Nat
  BY LenProperties

-----------------------------------------------------------------------------
(* Inv holds of a new coordinator.                                         *)
LEMMA InitInv == Init => Inv
  <1> SUFFICES ASSUME Init PROVE Inv
    OBVIOUS
  <1>1. TypeOK
    <2>1. started \in BOOLEAN /\ finished \in BOOLEAN /\ triggered \in BOOLEAN
      BY DEF Init
    <2> QED
      BY <2>1 DEF Init, TypeOK
  <1> QED
    BY <1>1 DEF Init, Inv, FinishedClosedOnce, ReverseOrder, NotStarted, OneRunner, FreshLocals,
           RunnerIndex, FinalResult, Returned, RegisteredIsHooked, Active, Before

(* What an action preserves that moves calls about before shutdown and     *)
(* touches neither the hooks nor their run.                                *)
LEMMA QuietStep ==
    ASSUME Inv, TypeOK',
           UNCHANGED <<hooks, started, finished, result, locals, ret, ran, failed, fault>>,
           \A h \in Hooks : reg'[h] = "registered" => reg[h] = "registered",
           \A c \in Callers : pc'[c] = pc[c] \/ {pc[c], pc'[c]} \subseteq Before
    PROVE  Inv'
  <1>1. \A c \in Callers : (pc'[c] \in Before <=> pc[c] \in Before)
                          /\ (pc'[c] \notin Before => pc'[c] = pc[c])
    OBVIOUS
  <1>2. \A c \in Callers : pc'[c] \in Active \cup {"returned"} => pc'[c] = pc[c]
    BY <1>1 DEF Active, Before
  <1>3. NotStarted' /\ FreshLocals'
    BY <1>1 DEF Inv, NotStarted, FreshLocals, locals
  <1>4. OneRunner' /\ Returned'
    BY <1>2 DEF Inv, OneRunner, Returned
  <1>5. RunnerIndex'
    BY <1>2 DEF Inv, RunnerIndex, locals, Active
  <1> QED
    BY <1>3, <1>4, <1>5 DEF Inv, FinishedClosedOnce, ReverseOrder, FinalResult, RegisteredIsHooked

-----------------------------------------------------------------------------
(* Every step keeps Inv: one step of the proof per action.                 *)
LEMMA NextInv == Inv /\ [Next]_vars => Inv'
  <1> SUFFICES ASSUME Inv, [Next]_vars PROVE Inv'
    OBVIOUS
  <1> USE DEF Inv
  <1>0. /\ Len(hooks) \in Nat /\ Len(ran) \in Nat
        /\ hooks \in Seq(Hooks) /\ ran \in Seq(Hooks) /\ failed \in Seq(Hooks)
        /\ \A c \in Callers : idx[c] \in Nat /\ errs[c] \in Seq(Hooks) /\ snap[c] \in Seq(Hooks)
    BY LenNat DEF TypeOK
  <1>1. ASSUME NEW h \in Hooks, register(h) PROVE Inv'
    <2>1. /\ hooks' \in Seq(Hooks) /\ Len(hooks') = Len(hooks) + 1
          /\ hooks'[Len(hooks) + 1] = h
          /\ \A i \in 1..Len(hooks) : hooks'[i] = hooks[i]
      BY <1>0, <1>1, AppendFacts DEF register
    <2>2. /\ ~started /\ ran = <<>> /\ ~finished /\ UNCHANGED ran
          /\ \A c \in Callers : pc[c] \in Before
      BY <1>1 DEF register, MayRegister, NotStarted
    <2>3. TypeOK'
      BY <1>1, <2>1 DEF register, TypeOK, locals
    <2>4. RegisteredIsHooked'
      <3> SUFFICES ASSUME NEW g \in Hooks, reg'[g] = "registered"
                   PROVE  \E i \in 1..Len(hooks') : hooks'[i] = g
        BY DEF RegisteredIsHooked
      <3>1. CASE g = h
        BY <1>0, <2>1, <3>1
      <3>2. CASE g # h
        <4>1. reg[g] = "registered"
          BY <1>1, <3>2 DEF register, TypeOK
        <4>2. PICK i \in 1..Len(hooks) : hooks[i] = g
          BY <4>1 DEF RegisteredIsHooked
        <4> QED
          BY <1>0, <2>1, <4>2
      <3> QED
        BY <3>1, <3>2
    <2>5. ReverseOrder'
      BY <1>0, <2>1, <2>2 DEF ReverseOrder
    <2> QED
      BY <1>1, <2>2, <2>3, <2>4, <2>5 DEF register, locals, FinishedClosedOnce, NotStarted,
             OneRunner, FreshLocals, RunnerIndex, FinalResult, Returned, Active, Before
  <1>2. ASSUME NEW h \in Hooks, registerPanics(h) PROVE Inv'
    <2>1. TypeOK'
      BY <1>2 DEF registerPanics, TypeOK, coordinator, locals
    <2> QED
      BY <1>2, <2>1, QuietStep DEF registerPanics, coordinator, TypeOK
  <1>3. ASSUME trigger PROVE Inv'
    <2>1. TypeOK'
      BY <1>3 DEF trigger, TypeOK, locals
    <2> QED
      BY <1>3, <2>1, QuietStep DEF trigger
  <1>4. ASSUME NEW w \in Waiters, WaitEnters(w) PROVE Inv'
    <2>1. TypeOK'
      BY <1>4 DEF WaitEnters, TypeOK, coordinator, locals
    <2> QED
      BY <1>4, <2>1, QuietStep DEF WaitEnters, coordinator, TypeOK, Before
  <1>5. ASSUME Signal PROVE Inv'
    <2>1. TypeOK'
      BY <1>5 DEF Signal, TypeOK, coordinator, locals
    <2> QED
      BY <1>5, <2>1, QuietStep DEF Signal, coordinator
  <1>6. ASSUME NEW w \in Waiters, WaitWakes(w) PROVE Inv'
    <2>1. TypeOK'
      BY <1>6 DEF WaitWakes, TypeOK, coordinator, locals
    <2> QED
      BY <1>6, <2>1, QuietStep DEF WaitWakes, coordinator, TypeOK, Before
  <1>7. ASSUME NEW c \in Direct, ShutdownCalled(c) PROVE Inv'
    <2>1. TypeOK'
      BY <1>7 DEF ShutdownCalled, TypeOK, coordinator, locals
    <2> QED
      BY <1>7, <2>1, QuietStep DEF ShutdownCalled, coordinator, TypeOK, Before
  <1>8. ASSUME NEW c \in Direct, Cancel(c) PROVE Inv'
    <2>1. TypeOK'
      BY <1>8 DEF Cancel, TypeOK, coordinator, locals, Callers
    <2> QED
      BY <1>8, <2>1, QuietStep DEF Cancel, coordinator
  <1>9. ASSUME NEW w \in Waiters, Expires(w) PROVE Inv'
    <2>1. TypeOK'
      BY <1>9 DEF Expires, TypeOK, coordinator, locals, Callers
    <2> QED
      BY <1>9, <2>1, QuietStep DEF Expires, coordinator
  <1>10. ASSUME NEW c \in Callers, ShutdownStarts(c) PROVE Inv'
    <2>1. /\ ran = <<>> /\ failed = <<>> /\ ~finished
          /\ \A d \in Callers : pc[d] \in Before
      BY <1>10 DEF ShutdownStarts, First, NotStarted
    <2>2. TypeOK'
      <3>1. started' \in BOOLEAN
        BY <1>10 DEF ShutdownStarts
      <3> QED
        BY <1>0, <1>10, <3>1 DEF ShutdownStarts, TypeOK
    <2>3. /\ pc'[c] = "running" /\ snap'[c] = hooks /\ idx'[c] = Len(hooks) /\ errs'[c] = <<>>
          /\ \A d \in Callers : d # c => pc'[d] \in Before
      BY <1>10, <2>1 DEF ShutdownStarts, TypeOK, FreshLocals
    <2>4. RunnerIndex'
      <3>1. Len(ran) = 0
        BY <2>1, EmptySeq
      <3> QED
        BY <1>0, <1>10, <2>1, <2>3, <3>1 DEF ShutdownStarts, RunnerIndex, Active, Before
    <2> QED
      BY <1>10, <2>1, <2>2, <2>3, <2>4 DEF ShutdownStarts, FinishedClosedOnce, ReverseOrder,
             NotStarted, OneRunner, FreshLocals, FinalResult, Returned, RegisteredIsHooked,
             Active, Before
  <1>11. ASSUME NEW c \in Callers, ShutdownJoins(c) PROVE Inv'
    <2>1. TypeOK'
      BY <1>11 DEF ShutdownJoins, TypeOK, coordinator, locals
    <2>2. /\ started /\ pc'[c] = "joining"
          /\ \A d \in Callers : d # c => pc'[d] = pc[d]
      BY <1>11 DEF ShutdownJoins, First, TypeOK
    <2> QED
      BY <1>11, <2>1, <2>2 DEF ShutdownJoins, coordinator, locals, FinishedClosedOnce,
             ReverseOrder, NotStarted, OneRunner, FreshLocals, RunnerIndex, FinalResult,
             Returned, RegisteredIsHooked, Active, Before
  <1>12. ASSUME NEW c \in Callers, HookStarts(c) PROVE Inv'
    <2>1. /\ pc[c] = "running" /\ ~finished /\ snap[c] = hooks
          /\ idx[c] > 0 /\ Len(ran) + idx[c] = Len(hooks)
      BY <1>12 DEF HookStarts, RunnerIndex, Active
    <2>2. started
      BY <2>1 DEF NotStarted, Before
    <2>0. /\ idx[c] > 0 /\ Len(ran) + idx[c] = Len(hooks)
          /\ idx[c] \in Nat /\ Len(ran) \in Nat /\ Len(hooks) \in Nat
      BY <1>0, <2>1
    <2>3. hooks[idx[c]] \in Hooks /\ idx[c] = Len(hooks) + 1 - (Len(ran) + 1)
      <3> HIDE DEF Inv
      <3>1. idx[c] \in 1..Len(hooks) /\ idx[c] = Len(hooks) + 1 - (Len(ran) + 1)
        BY <2>0
      <3> QED
        BY <1>0, <3>1, ElementOfSeq
    <2>4. /\ ran' \in Seq(Hooks) /\ Len(ran') = Len(ran) + 1
          /\ ran'[Len(ran) + 1] = hooks[idx[c]]
          /\ \A i \in 1..Len(ran) : ran'[i] = ran[i]
      BY <1>0, <1>12, <2>1, <2>3, AppendFacts DEF HookStarts, NextHook
    <2>5. ReverseOrder'
      <3>1. hooks' = hooks
        BY <1>12 DEF HookStarts, coordinator
      <3>2. \A i \in 1..Len(ran) : ran[i] = hooks[Len(hooks) + 1 - i]
        BY DEF ReverseOrder
      <3> HIDE DEF Inv
      <3> QED
        BY <2>0, <2>3, <2>4, <3>1, <3>2 DEF ReverseOrder
    <2>6. TypeOK'
      BY <1>12, <2>4 DEF HookStarts, TypeOK, coordinator, locals
    <2>7. pc'[c] = "inHook" /\ \A d \in Callers : d # c => pc'[d] = pc[d] /\ pc[d] \notin Active
      BY <1>12, <2>1 DEF HookStarts, TypeOK, OneRunner, Active
    <2>8. RunnerIndex'
      <3>1. Len(ran') + idx'[c] = Len(hooks') + 1 /\ idx'[c] \in 1..Len(hooks')
        <4>1. idx' = idx /\ hooks' = hooks
          BY <1>12 DEF HookStarts, coordinator, locals
        <4>2. Len(ran') = Len(ran) + 1
          BY <2>4
        <4>3. Len(ran) + 1 + idx[c] = Len(hooks) + 1 /\ idx[c] \in 1..Len(hooks)
          BY <2>0
        <4> QED
          BY <4>1, <4>2, <4>3
      <3>2. ~finished' /\ snap'[c] = hooks' /\ errs'[c] = failed'
        BY <1>12, <2>1 DEF HookStarts, coordinator, locals, RunnerIndex, Active
      <3> HIDE DEF Inv
      <3> QED
        BY <2>7, <3>1, <3>2 DEF RunnerIndex, Active
    <2> QED
      BY <1>12, <2>1, <2>2, <2>5, <2>6, <2>7, <2>8 DEF HookStarts, coordinator, locals,
             FinishedClosedOnce, NotStarted, OneRunner, FreshLocals, FinalResult, Returned,
             RegisteredIsHooked, Active, Before
  <1>13. ASSUME NEW c \in Callers, HookSucceeds(c) PROVE Inv'
    <2>1. /\ pc[c] = "inHook" /\ ~finished /\ snap[c] = hooks /\ started
          /\ idx[c] \in 1..Len(hooks) /\ Len(ran) + idx[c] = Len(hooks) + 1
      BY <1>13 DEF HookSucceeds, RunnerIndex, Active, NotStarted, Before
    <2>2. /\ pc'[c] = "running" /\ idx'[c] = idx[c] - 1
          /\ \A d \in Callers : d # c => pc'[d] = pc[d] /\ pc[d] \notin Active /\ idx'[d] = idx[d]
      BY <1>13, <2>1 DEF HookSucceeds, TypeOK, OneRunner, Active
    <2>0. idx[c] - 1 \in Nat /\ Len(ran) + (idx[c] - 1) = Len(hooks)
      <3>1. idx[c] \in 1..Len(hooks) /\ Len(ran) + idx[c] = Len(hooks) + 1
        BY <2>1
      <3> HIDE DEF Inv
      <3> QED
        BY <1>0, <3>1
    <2>3. TypeOK'
      BY <1>13, <2>0 DEF HookSucceeds, TypeOK, coordinator
    <2>4. RunnerIndex'
      BY <2>0, <1>13, <2>1, <2>2 DEF HookSucceeds, coordinator, RunnerIndex, Active
    <2> QED
      BY <1>13, <2>1, <2>2, <2>3, <2>4 DEF HookSucceeds, coordinator, FinishedClosedOnce,
             ReverseOrder, NotStarted, OneRunner, FreshLocals, FinalResult, Returned,
             RegisteredIsHooked, Active, Before
  <1>14. ASSUME NEW c \in Callers, HookFails(c) PROVE Inv'
    <2>1. /\ pc[c] = "inHook" /\ ~finished /\ snap[c] = hooks /\ errs[c] = failed /\ started
          /\ idx[c] \in 1..Len(hooks) /\ Len(ran) + idx[c] = Len(hooks) + 1
      BY <1>14 DEF HookFails, RunnerIndex, Active, NotStarted, Before
    <2>0. /\ idx[c] \in 1..Len(hooks)
          /\ idx[c] - 1 \in Nat /\ Len(ran) + (idx[c] - 1) = Len(hooks)
      <3>1. idx[c] \in 1..Len(hooks) /\ Len(ran) + idx[c] = Len(hooks) + 1
        BY <2>1
      <3> HIDE DEF Inv
      <3> QED
        BY <1>0, <3>1
    <2>2. hooks[idx[c]] \in Hooks
      BY <1>0, <2>0, ElementOfSeq
    <2>3. failed' = Append(failed, hooks[idx[c]]) /\ failed' \in Seq(Hooks)
      BY <1>0, <1>14, <2>1, <2>2, AppendFacts DEF HookFails, NextHook
    <2>4. /\ pc'[c] = "running" /\ idx'[c] = idx[c] - 1 /\ errs'[c] = failed'
          /\ \A d \in Callers : d # c => /\ pc'[d] = pc[d] /\ pc[d] \notin Active
                                      /\ idx'[d] = idx[d] /\ errs'[d] = errs[d]
      BY <1>14, <2>1, <2>3 DEF HookFails, NextHook, AfterFailure, TypeOK, OneRunner, Active
    <2>5. TypeOK'
      <3>1. errs' = [errs EXCEPT ![c] = failed']
        BY <1>14, <2>1, <2>3 DEF HookFails, NextHook
      <3> QED
        BY <1>14, <2>0, <2>3, <3>1 DEF HookFails, AfterFailure, TypeOK, coordinator
    <2>6. RunnerIndex'
      BY <1>14, <2>0, <2>1, <2>4 DEF HookFails, coordinator, RunnerIndex, Active
    <2> QED
      BY <1>14, <2>1, <2>4, <2>5, <2>6 DEF HookFails, coordinator, FinishedClosedOnce,
             ReverseOrder, NotStarted, OneRunner, FreshLocals, FinalResult, Returned,
             RegisteredIsHooked, Active, Before
  <1>15. ASSUME NEW c \in Callers, HookPanics(c) PROVE Inv'
    <2>1. /\ pc[c] = "inHook" /\ started
          /\ pc'[c] = "panicked"
          /\ \A d \in Callers : d # c => pc'[d] = pc[d] /\ pc[d] \notin Active
      BY <1>15 DEF HookPanics, TypeOK, OneRunner, Active, NotStarted, Before
    <2>2. TypeOK'
      BY <1>15 DEF HookPanics, TypeOK, coordinator, locals
    <2>3. RunnerIndex'
      BY <1>15, <2>1 DEF HookPanics, coordinator, locals, RunnerIndex, Active
    <2> QED
      BY <1>15, <2>1, <2>2, <2>3 DEF HookPanics, coordinator, locals, FinishedClosedOnce,
             ReverseOrder, NotStarted, OneRunner, FreshLocals, FinalResult, Returned,
             RegisteredIsHooked, Active, Before
  <1>16. ASSUME NEW c \in Callers, ShutdownPublishes(c) PROVE Inv'
    <2>1. /\ pc[c] = "running" /\ ~finished /\ errs[c] = failed /\ started
          /\ Len(ran) = Len(hooks)
      <3>1. /\ pc[c] = "running" /\ ~finished /\ errs[c] = failed /\ started
            /\ idx[c] = 0
        BY <1>16 DEF ShutdownPublishes, RunnerIndex, Active, NotStarted, Before
      <3>2. idx[c] = 0 /\ Len(ran) + idx[c] = Len(hooks)
        BY <3>1 DEF RunnerIndex
      <3>3. Len(ran) = Len(hooks)
        BY <1>0, <3>2
      <3> QED
        BY <3>1, <3>3
    <2>2. /\ pc'[c] = "publishing" /\ result' = failed
          /\ \A d \in Callers : d # c => pc'[d] = pc[d] /\ pc[d] \notin Active
      BY <1>16, <2>1 DEF ShutdownPublishes, TypeOK, OneRunner, Active
    <2>3. TypeOK'
      BY <1>0, <1>16 DEF ShutdownPublishes, TypeOK, locals
    <2>4. RunnerIndex'
      BY <1>16, <2>1, <2>2 DEF ShutdownPublishes, locals, RunnerIndex, Active
    <2> QED
      BY <1>16, <2>1, <2>2, <2>3, <2>4 DEF ShutdownPublishes, locals, FinishedClosedOnce,
             ReverseOrder, NotStarted, OneRunner, FreshLocals, FinalResult, Returned,
             RegisteredIsHooked, Active, Before
  <1>17. ASSUME NEW c \in Callers, ShutdownFinishes(c) PROVE Inv'
    <2>1. /\ pc[c] = "publishing" /\ ~finished /\ started
          /\ Len(ran) = Len(hooks) /\ result = failed
      BY <1>17 DEF ShutdownFinishes, RunnerIndex, Active, NotStarted, Before
    <2>2. /\ pc'[c] = "returned" /\ ret'[c] = result /\ finished' /\ fault' = fault
          /\ \A d \in Callers : d # c =>
                pc'[d] = pc[d] /\ pc[d] \notin Active /\ ret'[d] = ret[d]
      BY <1>17, <2>1 DEF ShutdownFinishes, closeFinished, TypeOK, OneRunner, Active
    <2>3. TypeOK'
      <3>1. finished' \in BOOLEAN
        BY <1>17 DEF ShutdownFinishes, closeFinished
      <3> QED
        BY <1>17, <2>2, <3>1 DEF ShutdownFinishes, TypeOK, locals
    <2> QED
      BY <1>17, <2>1, <2>2, <2>3 DEF ShutdownFinishes, locals, FinishedClosedOnce,
             ReverseOrder, NotStarted, OneRunner, FreshLocals, RunnerIndex, FinalResult,
             Returned, RegisteredIsHooked, Active, Before
  <1>18. ASSUME NEW c \in Callers, JoinReturns(c) PROVE Inv'
    <2>1. /\ pc[c] = "joining" /\ finished
          /\ pc'[c] = "returned" /\ ret'[c] = result
          /\ \A d \in Callers : d # c => pc'[d] = pc[d] /\ ret'[d] = ret[d]
      BY <1>18 DEF JoinReturns, TypeOK
    <2>2. TypeOK'
      BY <1>18 DEF JoinReturns, TypeOK, coordinator, locals
    <2> QED
      BY <1>18, <2>1, <2>2 DEF JoinReturns, coordinator, locals, FinishedClosedOnce,
             ReverseOrder, NotStarted, OneRunner, FreshLocals, RunnerIndex, FinalResult,
             Returned, RegisteredIsHooked, Active, Before
  <1>19. CASE UNCHANGED vars
    <2>1. TypeOK'
      BY <1>19 DEF vars, coordinator, locals, TypeOK
    <2> QED
      BY <1>19, <2>1, QuietStep DEF vars, coordinator
  <1> QED
    BY <1>1, <1>2, <1>3, <1>4, <1>5, <1>6, <1>7, <1>8, <1>9, <1>10, <1>11, <1>12, <1>13, <1>14,
       <1>15, <1>16, <1>17, <1>18, <1>19 DEF Next, shutdown, HookReturns

LEMMA SpecInv == Spec => []Inv
  BY InitInv, NextInv, PTL DEF Spec

-----------------------------------------------------------------------------
(* Type correctness of the coordinator and of every call.                   *)
THEOREM TypeCorrect == Spec => []TypeOK
  BY SpecInv, PTL DEF Inv

(* Hooks run once each, in reverse registration order, one at a time, also *)
(* when some fail or panic and however many calls ask for the shutdown.    *)
THEOREM HooksRunInReverse == Spec => []ReverseOrder
  BY SpecInv, PTL DEF Inv

(* close(c.finished) never closes a closed channel.                        *)
THEOREM FinishedIsClosedOnce == Spec => []FinishedClosedOnce
  BY SpecInv, PTL DEF Inv

(* Every call that returns does so after the last hook and with the errors *)
(* of all the hooks that failed.                                           *)
THEOREM EveryCallGetsTheResult == Spec => []OneResult
  <1>1. Inv => OneResult
    BY DEF Inv, OneResult, Returned, FinalResult
  <1> QED
    BY <1>1, SpecInv, PTL

(* A hook whose Register returned has run when a Shutdown returns.         *)
THEOREM RegisteredHooksRun == Spec => []NoHookForgotten
  <1>1. Inv => NoHookForgotten
    <2> SUFFICES ASSUME Inv, NEW c \in Callers, pc[c] = "returned",
                        NEW h \in Hooks, reg[h] = "registered"
                 PROVE  \E i \in 1..Len(ran) : ran[i] = h
      BY DEF NoHookForgotten
    <2>1. PICK j \in 1..Len(hooks) : hooks[j] = h
      BY DEF Inv, RegisteredIsHooked
    <2>2. Len(ran) = Len(hooks) /\ Len(hooks) \in Nat
      BY LenNat DEF Inv, Returned, FinalResult, TypeOK
    <2>3. ran[Len(hooks) + 1 - j] = h
      BY <2>1, <2>2 DEF Inv, ReverseOrder
    <2> QED
      BY <2>1, <2>2, <2>3
  <1> QED
    BY <1>1, SpecInv, PTL
=============================================================================
