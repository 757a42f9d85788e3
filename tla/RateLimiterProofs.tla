-------------------------- MODULE RateLimiterProofs --------------------------
(***************************************************************************)
(* For any number of calls, any rate and any burst: tokens are conserved,  *)
(* whoever cancels and repays; debt is funded by the instants given out,   *)
(* a window of time exceeds the rate only by what is repaid between the    *)
(* arrivals it funds, and calls keep their order.                          *)
(*                                                                         *)
(* The last three follow from how the level of the bucket at an instant    *)
(* compares with the calls funded after it, and at the instant a call is   *)
(* funded with the calls that arrived after it.  Every step moves time on, *)
(* takes one token or repays one, and each keeps those comparisons.        *)
(***************************************************************************)
EXTENDS RateLimiter, SequenceTheorems, FiniteSetTheorems, TLAPS

Holding == {"admitted", "reserved", "sleeping", "canceled"}
Entry == [call : Callers, fund : Nat, repaid : Nat]

(* A call takes at most one token, and a call that waits has taken one.    *)
OneTokenEach ==
    /\ \A i \in DOMAIN log : pc[log[i].call] \in Holding
    /\ \A i, j \in DOMAIN log : log[i].call = log[j].call => i = j
    /\ \A c \in Callers : pc[c] \in {"reserved", "sleeping"} =>
          \E i \in DOMAIN log : log[i].call = c

Inv == TypeOK /\ OneTokenEach /\ Conservation

USE LimitAssumption, BoundAssumption

-----------------------------------------------------------------------------
(* The log *)

LEMMA LogFacts ==
    ASSUME TypeOK
    PROVE  /\ Len(log) \in Nat /\ DOMAIN log = 1..Len(log)
           /\ \A i \in DOMAIN log : log[i] \in Entry /\ log[i].call \in Callers
           /\ IsFiniteSet(Kept) /\ Cardinality(Kept) \in Nat
  <1>1. log \in Seq(Entry)
    BY DEF TypeOK, Entry
  <1>2. Len(log) \in Nat /\ DOMAIN log = 1..Len(log)
    BY <1>1, LenProperties
  <1>3. \A i \in DOMAIN log : log[i] \in Entry /\ log[i].call \in Callers
    <2>1. \A i \in DOMAIN log : log[i] \in Entry
      BY <1>1, <1>2, ElementOfSeq
    <2>2. \A e \in Entry : e.call \in Callers
      BY DEF Entry
    <2> QED
      BY <2>1, <2>2
  <1>4. IsFiniteSet(1..Len(log))
    BY <1>2, FS_Interval
  <1>5. Kept \subseteq 1..Len(log)
    BY <1>2 DEF Kept
  <1> QED
    BY <1>2, <1>3, <1>4, <1>5, FS_Subset, FS_CardinalityType

(* A step that logs nothing and cancels nobody.                            *)
LEMMA LogFrame ==
    ASSUME TypeOK, OneTokenEach, UNCHANGED log,
           NEW c \in Callers, NEW s, pc' = [pc EXCEPT ![c] = s],
           s # "canceled", pc[c] # "canceled",
           pc[c] \in Holding => s \in Holding,
           s \in {"reserved", "sleeping"} => pc[c] \in {"reserved", "sleeping"}
    PROVE  OneTokenEach' /\ Kept' = Kept
  <1>2. \A d \in Callers : pc'[d] = IF d = c THEN s ELSE pc[d]
    BY DEF TypeOK
  <1>3. \A i \in DOMAIN log : log[i].call \in Callers
    BY LogFacts
  <1>4. OneTokenEach'
    BY <1>2, <1>3 DEF OneTokenEach
  <1>5. Kept' = Kept
    BY <1>2, <1>3 DEF Kept
  <1> QED
    BY <1>4, <1>5

(* A call takes a token.                                                   *)
LEMMA TakeFacts ==
    ASSUME TypeOK, OneTokenEach, NEW c \in Callers, pc[c] = "idle",
           NEW s \in Holding \ {"canceled"}, pc' = [pc EXCEPT ![c] = s],
           NEW funded \in Nat, Take(c, funded)
    PROVE  /\ OneTokenEach'
           /\ log' \in Seq(Entry)
           /\ Cardinality(Kept') = Cardinality(Kept) + 1
  <1> DEFINE e == [call |-> c, fund |-> funded, repaid |-> repaid]
             n == Len(log) + 1
  <1>1. e \in Entry /\ log \in Seq(Entry) /\ log' = Append(log, e)
    BY DEF TypeOK, Entry, Take
  <1>2. /\ log' \in Seq(Entry)
        /\ Len(log) \in Nat /\ DOMAIN log = 1..Len(log) /\ DOMAIN log' = 1..n
        /\ log'[n] = e
        /\ \A i \in DOMAIN log : log'[i] = log[i]
    BY <1>1, AppendProperties, LenProperties
  <1>3. \A d \in Callers : pc'[d] = IF d = c THEN s ELSE pc[d]
    BY DEF TypeOK
  <1>4. \A i \in DOMAIN log : log[i].call \in Callers /\ log[i].call # c
    BY LogFacts DEF OneTokenEach, Holding
  <1>5. e.call = c
    OBVIOUS
  <1> HIDE DEF e
  <1>6. OneTokenEach'
    <2>1. \A i \in DOMAIN log' : pc'[log'[i].call] \in Holding
      BY <1>2, <1>3, <1>4, <1>5 DEF OneTokenEach
    <2>2. \A i, j \in DOMAIN log' : log'[i].call = log'[j].call => i = j
      BY <1>2, <1>4, <1>5 DEF OneTokenEach
    <2>3. \A d \in Callers : pc'[d] \in {"reserved", "sleeping"} =>
              \E i \in DOMAIN log' : log'[i].call = d
      BY <1>2, <1>3, <1>5 DEF OneTokenEach
    <2> QED
      BY <2>1, <2>2, <2>3 DEF OneTokenEach
  <1>7. Kept' = Kept \cup {n} /\ n \notin Kept
    BY <1>2, <1>3, <1>4, <1>5 DEF Kept
  <1>8. Cardinality(Kept') = Cardinality(Kept) + 1
    BY <1>7, LogFacts, FS_AddElement
  <1> QED
    BY <1>2, <1>6, <1>8

(* A waiting call gives its token back.                                    *)
LEMMA RepayFacts ==
    ASSUME TypeOK, OneTokenEach, UNCHANGED log, NEW c \in Callers, pc[c] = "sleeping",
           pc' = [pc EXCEPT ![c] = "canceled"]
    PROVE  OneTokenEach' /\ Cardinality(Kept') = Cardinality(Kept) - 1
  <1>1. \A d \in Callers : pc'[d] = IF d = c THEN "canceled" ELSE pc[d]
    BY DEF TypeOK
  <1>2. \A i \in DOMAIN log : log[i].call \in Callers
    BY LogFacts
  <1>3. PICK k \in DOMAIN log : log[k].call = c
    BY DEF OneTokenEach
  <1>4. k \in Kept /\ Kept' = Kept \ {k}
    BY <1>1, <1>2, <1>3 DEF Kept, OneTokenEach
  <1>5. Cardinality(Kept') = Cardinality(Kept) - 1
    BY <1>4, LogFacts, FS_RemoveElement
  <1>6. OneTokenEach'
    BY <1>1, <1>2 DEF OneTokenEach, Holding
  <1> QED
    BY <1>5, <1>6

-----------------------------------------------------------------------------
(* The bucket *)

LEMMA CapFacts ==
    ASSUME NEW u \in Int
    PROVE  /\ Capacity \in Nat /\ Cap(u) \in Int /\ Cap(u) <= Capacity
           /\ Over(u) \in Nat /\ Cap(u) + Over(u) = u
  BY DEF Capacity, Cap, Over

LEMMA RefillFacts ==
    ASSUME TypeOK
    PROVE  /\ Refilled \in Int /\ Capacity \in Nat
           /\ Current \in Int /\ Current <= Capacity
           /\ Over(Refilled) \in Nat /\ Current + Over(Refilled) = Refilled
           /\ Refilled = tokens + Rate * now - Rate * last
  <1>1. now \in Int /\ last \in Int /\ tokens \in Int /\ Rate \in Int
    BY DEF TypeOK
  <1>2. Rate * (now - last) = Rate * now - Rate * last
    BY <1>1
  <1>3. Refilled \in Int /\ Refilled = tokens + Rate * now - Rate * last
    BY <1>1, <1>2 DEF Refilled
  <1> QED
    BY <1>3, CapFacts DEF Current

LEMMA DelayIsNat ==
    ASSUME NEW u \in Int, u > 0
    PROVE  Delay(u) \in Nat
  BY DEF Delay

(* Taking a token out of the current bucket keeps the books.               *)
LEMMA TakeBalances ==
    ASSUME TypeOK, Conservation, tokens' = Current - One, BringCurrent(0),
           Cardinality(Kept') = Cardinality(Kept) + 1
    PROVE  Conservation'
  <1> DEFINE K == Cardinality(Kept)
  <1>1. K \in Nat
    BY LogFacts
  <1>2. One * (K + 1) = One * K + One
    BY <1>1
  <1>3. spilled' = spilled + Over(Refilled) /\ last' = now /\ spilled \in Nat
    BY RefillFacts DEF BringCurrent, TypeOK
  <1>4. tokens + One * K + spilled = Capacity + Rate * last
    BY DEF Conservation
  <1>5. One * K \in Int /\ Rate * last \in Int /\ Rate * now \in Int /\ tokens \in Int
    BY <1>1 DEF TypeOK
  <1>6. tokens' + (One * K + One) + spilled' = Capacity + Rate * now
    <2>1. /\ Current \in Int /\ Over(Refilled) \in Nat /\ One \in Int /\ Capacity \in Int
          /\ Current + Over(Refilled) = tokens + Rate * now - Rate * last
      BY RefillFacts
    <2> HIDE DEF K
    <2>2. tokens' + spilled' = Current + Over(Refilled) + spilled - One
      BY <1>3, <2>1
    <2>3. tokens' \in Int /\ spilled' \in Int
      BY <1>3, <2>1
    <2> QED
      BY <1>3, <1>4, <1>5, <2>1, <2>2, <2>3
  <1> QED
    BY <1>2, <1>3, <1>6 DEF Conservation, Capacity

(* So does bringing it current, and repaying.                              *)
LEMMA SameBalance ==
    ASSUME TypeOK, Conservation, tokens' = Current, BringCurrent(0), Kept' = Kept
    PROVE  Conservation'
  <1> DEFINE K == Cardinality(Kept)
  <1>1. K \in Nat
    BY LogFacts
  <1>3. spilled' = spilled + Over(Refilled) /\ last' = now /\ spilled \in Nat
    BY RefillFacts DEF BringCurrent, TypeOK
  <1>4. tokens + One * K + spilled = Capacity + Rate * last
    BY DEF Conservation
  <1>5. One * K \in Int /\ Rate * last \in Int /\ Rate * now \in Int /\ tokens \in Int
    BY <1>1 DEF TypeOK
  <1>6. tokens' + One * K + spilled' = Capacity + Rate * now
    BY <1>3, <1>4, <1>5, RefillFacts
  <1> QED
    BY <1>3, <1>6 DEF Conservation, Capacity

LEMMA RepayBalances ==
    ASSUME TypeOK, Conservation, Repay, Cardinality(Kept') = Cardinality(Kept) - 1
    PROVE  Conservation'
  <1> DEFINE K == Cardinality(Kept)
  <1>1. K \in Nat
    BY LogFacts
  <1>2. One * (K - 1) = One * K - One
    BY <1>1
  <1>3. /\ spilled' = spilled + Over(Refilled) + Over(Current + One)
        /\ last' = now /\ spilled \in Nat
        /\ tokens' = Cap(Current + One)
    BY DEF Repay, BringCurrent, TypeOK
  <1>4. tokens + One * K + spilled = Capacity + Rate * last
    BY DEF Conservation
  <1>5. One * K \in Int /\ Rate * last \in Int /\ Rate * now \in Int /\ tokens \in Int
    BY <1>1 DEF TypeOK
  <1>6. /\ Current + One \in Int
        /\ Cap(Current + One) + Over(Current + One) = Current + One
        /\ Cap(Current + One) \in Int /\ Over(Current + One) \in Nat
    BY RefillFacts, CapFacts
  <1>7. tokens' + One * (K - 1) + spilled' = Capacity + Rate * now
    BY <1>2, <1>3, <1>4, <1>5, <1>6, RefillFacts
  <1> QED
    BY <1>3, <1>7 DEF Conservation, Capacity

-----------------------------------------------------------------------------
(* The invariant *)

LEMMA InitInv == Init => Inv
  <1> SUFFICES ASSUME Init PROVE Inv
    OBVIOUS
  <1>1. Capacity \in Nat
    BY DEF Capacity
  <1>2. log = <<>> /\ DOMAIN log = {}
    BY DEF Init
  <1>3. TypeOK
    BY <1>1 DEF Init, TypeOK
  <1>4. OneTokenEach
    BY <1>2 DEF Init, OneTokenEach
  <1>5. Kept = {}
    BY <1>2 DEF Kept
  <1>6. Cardinality(Kept) = 0
    BY <1>5, FS_EmptySet
  <1>7. Conservation
    BY <1>1, <1>6 DEF Init, Conservation
  <1> QED
    BY <1>3, <1>4, <1>7 DEF Inv

(* The steps that leave the bucket and the log alone.                      *)
LEMMA BucketFrame ==
    ASSUME Conservation, UNCHANGED <<bucket, spilled>>, Kept' = Kept
    PROVE  Conservation'
  BY DEF Conservation, bucket, Capacity

LEMMA NextInv == Inv /\ [Next]_vars => Inv'
  <1> SUFFICES ASSUME Inv, [Next]_vars PROVE Inv'
    OBVIOUS
  <1> USE DEF Inv
  <1>1. CASE UNCHANGED vars
    <2>1. Kept' = Kept
      BY <1>1 DEF vars, Kept
    <2>2. Conservation'
      BY <1>1, <2>1, BucketFrame DEF vars
    <2>3. TypeOK'
      BY <1>1 DEF vars, bucket, TypeOK, Capacity
    <2>4. OneTokenEach'
      BY <1>1 DEF vars, OneTokenEach
    <2> QED
      BY <2>2, <2>3, <2>4
  <1>2. CASE Tick
    <2>1. Kept' = Kept
      BY <1>2 DEF Tick, Kept
    <2>2. Conservation'
      BY <1>2, <2>1, BucketFrame DEF Tick
    <2>3. TypeOK'
      BY <1>2 DEF Tick, bucket, TypeOK, Capacity
    <2>4. OneTokenEach'
      BY <1>2 DEF Tick, OneTokenEach
    <2> QED
      BY <2>2, <2>3, <2>4
  <1>3. ASSUME NEW c \in Callers, Cancel(c) PROVE Inv'
    <2>1. Kept' = Kept
      BY <1>3 DEF Cancel, Kept
    <2>2. Conservation'
      BY <1>3, <2>1, BucketFrame DEF Cancel
    <2>3. TypeOK'
      BY <1>3 DEF Cancel, bucket, TypeOK, Capacity
    <2>4. OneTokenEach'
      BY <1>3 DEF Cancel, OneTokenEach
    <2> QED
      BY <2>2, <2>3, <2>4
  <1>4. ASSUME NEW c \in Callers, AllowGranted(c) PROVE Inv'
    <2>1. now \in Nat
      BY DEF TypeOK
    <2>2. /\ OneTokenEach' /\ log' \in Seq(Entry)
          /\ Cardinality(Kept') = Cardinality(Kept) + 1
      BY <1>4, <2>1, TakeFacts DEF AllowGranted, Holding
    <2>3. Conservation'
      BY <1>4, <2>2, TakeBalances DEF AllowGranted
    <2>4. /\ tokens' \in Int /\ tokens' <= Capacity
          /\ last' = now /\ spilled' \in Nat
      <3>1. /\ Current \in Int /\ Current <= Capacity /\ Capacity \in Int
            /\ Over(Refilled) \in Nat /\ spilled \in Nat /\ One \in Nat
        BY RefillFacts DEF TypeOK
      <3>2. /\ tokens' = Current - One /\ last' = now
            /\ spilled' = spilled + Over(Refilled) + 0
        BY <1>4 DEF AllowGranted, BringCurrent
      <3> QED
        BY <3>1, <3>2
    <2>5. TypeOK'
      BY <1>4, <2>2, <2>4 DEF AllowGranted, TypeOK, Capacity, Entry
    <2> QED
      BY <2>2, <2>3, <2>5
  <1>5. ASSUME NEW c \in Callers, AllowShed(c) PROVE Inv'
    <2>1. OneTokenEach' /\ Kept' = Kept
      BY <1>5, LogFrame DEF AllowShed, Holding
    <2>2. Conservation'
      BY <1>5, <2>1, SameBalance DEF AllowShed
    <2>3. /\ tokens' \in Int /\ tokens' <= Capacity
          /\ last' = now /\ spilled' \in Nat
      <3>1. /\ Current \in Int /\ Current <= Capacity
            /\ Over(Refilled) \in Nat /\ spilled \in Nat
        BY RefillFacts DEF TypeOK
      <3>2. tokens' = Current /\ last' = now /\ spilled' = spilled + Over(Refilled) + 0
        BY <1>5 DEF AllowShed, BringCurrent
      <3> QED
        BY <3>1, <3>2
    <2>4. TypeOK'
      BY <1>5, <2>3 DEF AllowShed, TypeOK, Capacity
    <2> QED
      BY <2>1, <2>2, <2>4
  <1>6. ASSUME NEW c \in Callers, WaitRefused(c) PROVE Inv'
    <2>1. OneTokenEach' /\ Kept' = Kept
      BY <1>6, LogFrame DEF WaitRefused, Holding
    <2>2. Conservation'
      BY <1>6, <2>1, BucketFrame DEF WaitRefused
    <2>3. TypeOK'
      BY <1>6 DEF WaitRefused, bucket, TypeOK, Capacity
    <2> QED
      BY <2>1, <2>2, <2>3
  <1>7. ASSUME NEW c \in Callers, WaitAdmitted(c) PROVE Inv'
    <2>1. now \in Nat
      BY DEF TypeOK
    <2>2. /\ OneTokenEach' /\ log' \in Seq(Entry)
          /\ Cardinality(Kept') = Cardinality(Kept) + 1
      BY <1>7, <2>1, TakeFacts DEF WaitAdmitted, Holding
    <2>3. Conservation'
      BY <1>7, <2>2, TakeBalances DEF WaitAdmitted, Reserve
    <2>4. /\ tokens' \in Int /\ tokens' <= Capacity
          /\ last' = now /\ spilled' \in Nat
      <3>1. /\ Current \in Int /\ Current <= Capacity /\ Capacity \in Int
            /\ Over(Refilled) \in Nat /\ spilled \in Nat /\ One \in Nat
        BY RefillFacts DEF TypeOK
      <3>2. /\ tokens' = Current - One /\ last' = now
            /\ spilled' = spilled + Over(Refilled) + 0
        BY <1>7 DEF WaitAdmitted, Reserve, BringCurrent
      <3> QED
        BY <3>1, <3>2
    <2>5. TypeOK'
      BY <1>7, <2>2, <2>4 DEF WaitAdmitted, TypeOK, Capacity, Entry
    <2> QED
      BY <2>2, <2>3, <2>5
  <1>8. ASSUME NEW c \in Callers, WaitReserves(c) PROVE Inv'
    <2>1. Delay(Shortfall) \in Nat /\ now + Delay(Shortfall) \in Nat
      <3>1. Shortfall \in Int /\ Shortfall > 0
        BY <1>8, RefillFacts DEF WaitReserves, Shortfall
      <3>2. Delay(Shortfall) \in Nat
        BY <3>1, DelayIsNat
      <3> QED
        BY <3>2 DEF TypeOK
    <2>2. /\ OneTokenEach' /\ log' \in Seq(Entry)
          /\ Cardinality(Kept') = Cardinality(Kept) + 1
      BY <1>8, <2>1, TakeFacts DEF WaitReserves, Holding
    <2>3. Conservation'
      BY <1>8, <2>2, TakeBalances DEF WaitReserves, Reserve
    <2>4. /\ tokens' \in Int /\ tokens' <= Capacity
          /\ last' = now /\ spilled' \in Nat
      <3>1. /\ Current \in Int /\ Current <= Capacity /\ Capacity \in Int
            /\ Over(Refilled) \in Nat /\ spilled \in Nat /\ One \in Nat
        BY RefillFacts DEF TypeOK
      <3>2. /\ tokens' = Current - One /\ last' = now
            /\ spilled' = spilled + Over(Refilled) + 0
        BY <1>8 DEF WaitReserves, Reserve, BringCurrent
      <3> QED
        BY <3>1, <3>2
    <2>5. TypeOK'
      BY <1>8, <2>1, <2>2, <2>4 DEF WaitReserves, TypeOK, Capacity, Entry
    <2> QED
      BY <2>2, <2>3, <2>5
  <1>9. ASSUME NEW c \in Callers, TimerStarts(c) PROVE Inv'
    <2>1. OneTokenEach' /\ Kept' = Kept
      BY <1>9, LogFrame DEF TimerStarts, Holding
    <2>2. Conservation'
      BY <1>9, <2>1, BucketFrame DEF TimerStarts
    <2>3. TypeOK'
      BY <1>9 DEF TimerStarts, bucket, TypeOK, Capacity
    <2> QED
      BY <2>1, <2>2, <2>3
  <1>10. ASSUME NEW c \in Callers, WaitFunded(c) PROVE Inv'
    <2>1. OneTokenEach' /\ Kept' = Kept
      BY <1>10, LogFrame DEF WaitFunded, Holding
    <2>2. Conservation'
      BY <1>10, <2>1, BucketFrame DEF WaitFunded
    <2>3. TypeOK'
      BY <1>10 DEF WaitFunded, bucket, TypeOK, Capacity
    <2> QED
      BY <2>1, <2>2, <2>3
  <1>11. ASSUME NEW c \in Callers, WaitRepaid(c) PROVE Inv'
    <2>1. OneTokenEach' /\ Cardinality(Kept') = Cardinality(Kept) - 1
      BY <1>11, RepayFacts DEF WaitRepaid
    <2>2. Conservation'
      BY <1>11, <2>1, RepayBalances DEF WaitRepaid
    <2>3. /\ Cap(Current + One) \in Int /\ Cap(Current + One) <= Capacity
          /\ Over(Current + One) \in Nat
      BY RefillFacts, CapFacts
    <2>4. /\ tokens' \in Int /\ tokens' <= Capacity
          /\ last' = now /\ spilled' \in Nat
      <3>1. Over(Refilled) \in Nat /\ spilled \in Nat
        BY RefillFacts DEF TypeOK
      <3>2. /\ tokens' = Cap(Current + One) /\ last' = now
            /\ spilled' = spilled + Over(Refilled) + Over(Current + One)
        BY <1>11 DEF WaitRepaid, Repay, BringCurrent
      <3> QED
        BY <2>3, <3>1, <3>2
    <2>5. TypeOK'
      BY <1>11, <2>4 DEF WaitRepaid, TypeOK, Capacity
    <2> QED
      BY <2>1, <2>2, <2>5
  <1> QED
    BY <1>1, <1>2, <1>3, <1>4, <1>5, <1>6, <1>7, <1>8, <1>9, <1>10, <1>11 DEF Next, Allow, Wait

-----------------------------------------------------------------------------
(* Every variable of the Limiter and of its calls keeps its type; the      *)
(* bucket never holds more than the burst.                                 *)
THEOREM TypeCorrect == Spec => []TypeOK
  <1>1. Inv => TypeOK
    BY DEF Inv
  <1> QED
    BY <1>1, InitInv, NextInv, PTL DEF Spec

(* A canceled Wait never costs a token and never mints one, whatever the   *)
(* order in which calls reserve, sleep, cancel and repay (Allow, Wait and  *)
(* advance).                                                               *)
THEOREM TokensConserved == Spec => []Conservation
  <1>1. Inv => Conservation
    BY DEF Inv
  <1> QED
    BY <1>1, InitInv, NextInv, PTL DEF Spec

-----------------------------------------------------------------------------
(* Units and tokens *)

LEMMA Times ==
    ASSUME NEW a \in Nat, NEW x \in Int, NEW y \in Int
    PROVE  /\ a * x \in Int
           /\ a * (x + 1) = a * x + a
           /\ a * (x - y) = a * x - a * y
           /\ x <= y => a * x <= a * y
           /\ x >= 0 => a * x >= 0
  OBVIOUS

(* The units that a set of entries of the log has taken.                   *)
Held(S) == One * Cardinality(S)

LEMMA NoneHeld == Held({}) = 0
  BY FS_EmptySet DEF Held

LEMMA HeldFacts ==
    ASSUME NEW S, IsFiniteSet(S)
    PROVE  /\ Held(S) \in Nat /\ Held({}) = 0
           /\ \A x : x \notin S => Held(S \cup {x}) = Held(S) + One
           /\ \A x \in S : Held(S \ {x}) = Held(S) - One
           /\ \A T \in SUBSET S : IsFiniteSet(T) /\ Held(T) <= Held(S)
  <1>0. Cardinality(S) \in Nat /\ One \in Nat
    BY FS_CardinalityType
  <1>1. Held(S) \in Nat
    BY <1>0 DEF Held
  <1>2. Held({}) = 0
    BY FS_EmptySet DEF Held
  <1>3. ASSUME NEW x, x \notin S PROVE Held(S \cup {x}) = Held(S) + One
    <2>1. Cardinality(S \cup {x}) = Cardinality(S) + 1
      BY <1>3, FS_AddElement
    <2> QED
      BY <1>0, <2>1, Times DEF Held
  <1>4. ASSUME NEW x \in S PROVE Held(S \ {x}) = Held(S) - One
    <2>1. Cardinality(S \ {x}) = Cardinality(S) - 1
      BY <1>4, FS_RemoveElement
    <2>2. One * (Cardinality(S) - 1) = One * Cardinality(S) - One * 1 /\ One * 1 = One
      BY <1>0, Times
    <2> QED
      BY <2>1, <2>2 DEF Held
  <1>5. ASSUME NEW T \in SUBSET S PROVE IsFiniteSet(T) /\ Held(T) <= Held(S)
    <2>1. IsFiniteSet(T) /\ Cardinality(T) <= Cardinality(S) /\ Cardinality(T) \in Nat
      BY FS_Subset, FS_CardinalityType
    <2> QED
      BY <1>0, <2>1, Times DEF Held
  <1> QED
    BY <1>1, <1>2, <1>3, <1>4, <1>5

LEMMA RoundUp ==
    ASSUME NEW u \in Int, u > 0
    PROVE  /\ Delay(u) \in Nat /\ Delay(u) >= 1
           /\ Rate * Delay(u) >= u /\ Rate * Delay(u) < u + Rate
  BY DEF Delay

(* What a call's anchor becomes when the level falls, a token is taken or  *)
(* one is repaid, and what it says of the call that takes the token.       *)
LEMMA Slack ==
    ASSUME NEW level \in Int, NEW x \in Int, NEW y \in Int, NEW z \in Int,
           NEW cap \in Int, NEW one \in Int, NEW rate \in Int,
           level + x < cap - one + rate + y
    PROVE  /\ z <= level => z + x < cap - one + rate + y
           /\ z <= level => (z - one) + (x + one) < cap - one + rate + y
           /\ z <= level + one => z + x < cap - one + rate + (y + one)
           /\ level + z >= one => x + one + one < cap + (z + rate) + y
  OBVIOUS

LEMMA AtLeastTwo == ASSUME NEW n \in Int, One < One * n PROVE n >= 2
  OBVIOUS

-----------------------------------------------------------------------------
(* The level of the bucket at an instant, if nobody takes or repays: as    *)
(* the last call left it, and as advance would bring it up to date now.    *)
Level(t) == tokens + Rate * (t - last)
Refreshed(t) == Current + Rate * (t - now)

LEMMA LevelFacts ==
    ASSUME TypeOK, NEW t \in Nat
    PROVE  /\ Level(t) \in Int /\ Refreshed(t) \in Int /\ Refreshed(t) <= Level(t)
           /\ Refreshed(t) = Level(t) \/ Current = Capacity
           /\ t >= now => Refreshed(t) >= Current
           /\ Capacity >= One /\ Capacity \in Nat
  <1>1. now \in Nat /\ last \in Nat /\ tokens \in Int /\ Rate \in Nat
    BY DEF TypeOK
  <1>2. /\ Rate * (t - last) = Rate * t - Rate * last /\ Rate * (t - now) = Rate * t - Rate * now
        /\ Rate * t \in Int /\ Rate * now \in Int /\ Rate * last \in Int
        /\ t >= now => Rate * now <= Rate * t
    BY <1>1, Times
  <1>3. /\ Current \in Int /\ Over(Refilled) \in Nat /\ Current + Over(Refilled) = Refilled
        /\ Refilled \in Int /\ Refilled = tokens + Rate * now - Rate * last
    BY RefillFacts
  <1>4. Over(Refilled) = 0 \/ Current = Capacity
    BY <1>3, CapFacts DEF Over, Cap, Current
  <1>5. Capacity >= One /\ Capacity \in Nat
    BY DEF Capacity
  <1>6. Level(t) = tokens + Rate * t - Rate * last /\ Refreshed(t) = Current + Rate * t - Rate * now
    BY <1>1, <1>2, <1>3 DEF Level, Refreshed
  <1> QED
    BY <1>1, <1>2, <1>3, <1>4, <1>5, <1>6

(* Levels rise with time.                                                  *)
LEMMA LevelRises ==
    ASSUME TypeOK, NEW t \in Nat, NEW u \in Nat
    PROVE  /\ u <= t => Refreshed(u) <= Refreshed(t)
           /\ u < t => Refreshed(u) + Rate <= Refreshed(t)
           /\ Level(t) = Level(u) + Rate * (t - u)
  <1>1. now \in Nat /\ last \in Nat /\ tokens \in Int /\ Rate \in Nat /\ Current \in Int
    BY RefillFacts DEF TypeOK
  <1>2. /\ Rate * (t - last) = Rate * t - Rate * last /\ Rate * (t - now) = Rate * t - Rate * now
        /\ Rate * (u - last) = Rate * u - Rate * last /\ Rate * (u - now) = Rate * u - Rate * now
        /\ Rate * (t - u) = Rate * t - Rate * u
    BY <1>1, Times
  <1>3. /\ Rate * t \in Int /\ Rate * now \in Int /\ Rate * last \in Int /\ Rate * u \in Int
        /\ u <= t => Rate * u <= Rate * t
    BY <1>1, Times
  <1>4. u < t => Rate * u + Rate <= Rate * t
    <2>1. u + 1 <= t => Rate * (u + 1) <= Rate * t
      BY <1>1, Times
    <2>2. Rate * (u + 1) = Rate * u + Rate
      BY <1>1, Times
    <2> QED
      BY <2>1, <2>2
  <1> QED
    BY <1>1, <1>2, <1>3, <1>4 DEF Level, Refreshed

-----------------------------------------------------------------------------
(* The invariants of debt, order and rate *)

(* At every instant to come the debt is that of calls still to be funded.  *)
AllCovered == \A t \in Nat : t >= now => Level(t) + Held(FundedAfter(t)) >= 0

(* What was taken since a call was in the bucket when the call was funded, *)
(* or repaid since it arrived.                                             *)
Anchored ==
    \A i \in DOMAIN log :
        Level(log[i].fund) + One * (Len(log) - i)
            < Capacity - One + Rate + One * (repaid - log[i].repaid)

(* From one arrival to another no more is taken than a full bucket, the    *)
(* refill between their instants and the repayments in between pay for.    *)
Pace(i, j) ==
    One * (j - i + 1)
        < Capacity + Rate * (log[j].fund - log[i].fund + 1) + One * (log[j].repaid - log[i].repaid)

Paced == \A i, j \in DOMAIN log : i <= j => Pace(i, j)

(* At the instant a waiting call is funded there is nothing to spare but   *)
(* for what was repaid since it arrived.                                   *)
NothingSpare ==
    \A i \in DOMAIN log :
        \/ log[i].fund <= now
        \/ Level(log[i].fund) < Rate + One * (repaid - log[i].repaid)

RateInv == AllCovered /\ Anchored /\ Paced /\ NothingSpare /\ ServedInOrder

(* The three things a step does to the bucket and the log.                 *)
Flows ==
    /\ log' = log /\ Kept' = Kept /\ repaid' = repaid
    /\ now' \in Nat /\ now' >= now
    /\ \A t \in Nat : Level(t)' \in Int /\ Level(t)' <= Level(t)
    /\ \A t \in Nat : t >= now' => Level(t)' = Level(t) \/ Level(t)' >= 0

Takes(n, f) ==
    /\ f \in Nat /\ f >= now /\ now' = now /\ repaid' = repaid
    /\ n = Len(log) + 1 /\ n \notin DOMAIN log /\ DOMAIN log' = DOMAIN log \cup {n}
    /\ \A i \in DOMAIN log : log'[i] = log[i] /\ i < n
    /\ Kept' = Kept \cup {n}
    /\ log'[n].fund = f /\ log'[n].repaid = repaid
    /\ \A t \in Nat : Level(t)' = Refreshed(t) - One
    /\ Refreshed(f) >= One
    /\ f = now \/ Refreshed(f) < One + Rate
    /\ \A t \in Nat : t >= now /\ t < f => Refreshed(t) < One

Repays(k) ==
    /\ log' = log /\ now' = now /\ repaid' = repaid + 1
    /\ k \in Kept /\ Kept' = Kept \ {k}
    /\ \A t \in Nat : Level(t)' \in Int /\ Level(t)' <= Refreshed(t) + One
    /\ \A t \in Nat : t >= now => Level(t)' = Refreshed(t) + One \/ Level(t)' >= 0

(* Types of the sets above.                                                *)
LEMMA SetFacts ==
    ASSUME TypeOK
    PROVE  /\ now \in Nat /\ repaid \in Nat /\ One \in Nat /\ Rate \in Nat
           /\ Kept \subseteq DOMAIN log /\ DOMAIN log \subseteq Nat /\ IsFiniteSet(Kept)
           /\ \A i \in DOMAIN log : log[i].fund \in Nat /\ log[i].repaid \in Nat
           /\ \A t : IsFiniteSet(FundedAfter(t)) /\ Held(FundedAfter(t)) \in Nat
           /\ Len(log) \in Nat /\ DOMAIN log = 1..Len(log)
  <1>1. now \in Nat /\ repaid \in Nat /\ One \in Nat /\ Rate \in Nat
    BY DEF TypeOK
  <1>3. Kept \subseteq DOMAIN log /\ DOMAIN log \subseteq Nat /\ IsFiniteSet(Kept)
    BY LogFacts DEF Kept
  <1>4. \A i \in DOMAIN log : log[i].fund \in Nat /\ log[i].repaid \in Nat
    <2>1. \A e \in Entry : e.fund \in Nat /\ e.repaid \in Nat
      BY DEF Entry
    <2> QED
      BY <2>1, LogFacts
  <1>5. ASSUME NEW S, S \subseteq Kept PROVE IsFiniteSet(S) /\ Held(S) \in Nat
    <2>1. IsFiniteSet(S)
      BY <1>3, <1>5, FS_Subset
    <2> QED
      BY <2>1, HeldFacts
  <1>6. \A t : FundedAfter(t) \subseteq Kept
    BY DEF FundedAfter
  <1>7. Len(log) \in Nat /\ DOMAIN log = 1..Len(log)
    BY LogFacts
  <1> QED
    BY <1>1, <1>3, <1>4, <1>5, <1>6, <1>7

(* Bringing the bucket current keeps the debt covered.                     *)
LEMMA RefreshedCovered ==
    ASSUME TypeOK, AllCovered, NEW t \in Nat, t >= now
    PROVE  Refreshed(t) + Held(FundedAfter(t)) >= 0
  <1>1. Held(FundedAfter(t)) \in Nat
    BY SetFacts
  <1>2. Level(t) + Held(FundedAfter(t)) >= 0
    BY DEF AllCovered
  <1>3. Current = Capacity => Refreshed(t) >= 0
    BY LevelFacts, RefillFacts
  <1> QED
    BY <1>1, <1>2, <1>3, LevelFacts

(* The terms of Anchored and Pace are integers.                            *)
LEMMA AnchorFacts ==
    ASSUME TypeOK, NEW i \in DOMAIN log
    PROVE  /\ i \in Nat /\ log[i].fund \in Nat /\ log[i].repaid \in Nat
           /\ Len(log) - i \in Int /\ repaid - log[i].repaid \in Int
           /\ One * (Len(log) - i) \in Int /\ One * (repaid - log[i].repaid) \in Int
           /\ Level(log[i].fund) \in Int /\ Refreshed(log[i].fund) \in Int
           /\ Refreshed(log[i].fund) <= Level(log[i].fund)
  <1>1. /\ i \in Nat /\ log[i].fund \in Nat /\ log[i].repaid \in Nat /\ repaid \in Nat
        /\ Len(log) \in Nat /\ One \in Nat
    BY SetFacts
  <1>2. Len(log) - i \in Int /\ repaid - log[i].repaid \in Int
    BY <1>1
  <1>3. One * (Len(log) - i) \in Int /\ One * (repaid - log[i].repaid) \in Int
    BY <1>1, <1>2, Times
  <1> QED
    BY <1>1, <1>2, <1>3, LevelFacts

-----------------------------------------------------------------------------
(* Each kind of step keeps the invariants *)

LEMMA FlowsKeep == ASSUME TypeOK, RateInv, Flows PROVE RateInv'
  <1> USE DEF RateInv
  <1>1. now \in Nat /\ now' \in Nat /\ now' >= now /\ repaid' = repaid
    BY SetFacts DEF Flows
  <1>2. ASSUME NEW t \in Nat
        PROVE  /\ FundedAfter(t)' = FundedAfter(t) /\ Held(FundedAfter(t))' = Held(FundedAfter(t))
               /\ Held(FundedAfter(t)) \in Nat
               /\ Level(t)' \in Int /\ Level(t)' <= Level(t) /\ Level(t) \in Int
               /\ t >= now' => Level(t)' = Level(t) \/ Level(t)' >= 0
    BY SetFacts, LevelFacts DEF Flows, FundedAfter, Held
  <1>3. /\ log' = log /\ DOMAIN log' = DOMAIN log /\ One \in Nat
        /\ \A i \in DOMAIN log : log[i].fund \in Nat
    BY SetFacts DEF Flows
  <1>4. AllCovered'
    BY <1>1, <1>2 DEF AllCovered
  <1>5. Anchored'
    <2> SUFFICES ASSUME NEW i \in DOMAIN log
                 PROVE  (Level(log[i].fund) + One * (Len(log) - i)
                            < Capacity - One + Rate + One * (repaid - log[i].repaid))'
      BY <1>3 DEF Anchored
    <2>1. Level(log[i].fund) + One * (Len(log) - i)
              < Capacity - One + Rate + One * (repaid - log[i].repaid)
      BY DEF Anchored
    <2>2. /\ Level(log[i].fund)' <= Level(log[i].fund) /\ Level(log[i].fund)' \in Int
          /\ Level(log[i].fund) \in Int
      BY <1>2, <1>3 DEF Level
    <2>3. One * (Len(log) - i) \in Int /\ One * (repaid - log[i].repaid) \in Int
      BY AnchorFacts
    <2>4. Capacity \in Int /\ One \in Int /\ Rate \in Int /\ Capacity' = Capacity
      BY DEF Capacity
    <2>5. PICK x \in Int, y \in Int, z \in Int, level \in Int :
              /\ x = One * (Len(log) - i) /\ y = One * (repaid - log[i].repaid)
              /\ z = Level(log[i].fund)' /\ level = Level(log[i].fund)
      BY <2>2, <2>3
    <2>6. level + x < Capacity - One + Rate + y /\ z <= level
      BY <2>1, <2>2, <2>5
    <2>7. z + x < Capacity - One + Rate + y
      BY <2>4, <2>6, Slack
    <2>8. log' = log /\ repaid' = repaid
      BY <1>1, <1>3
    <2> QED
      BY <2>4, <2>5, <2>7, <2>8
  <1>6. Paced'
    BY <1>3 DEF Paced, Pace, Capacity
  <1>7. NothingSpare'
    <2> SUFFICES ASSUME NEW i \in DOMAIN log, log[i].fund > now'
                 PROVE  (Level(log[i].fund) < Rate + One * (repaid - log[i].repaid))'
      BY <1>1, <1>3 DEF NothingSpare
    <2>1. Level(log[i].fund) < Rate + One * (repaid - log[i].repaid)
      BY <1>1, <1>3 DEF NothingSpare
    <2>2. Level(log[i].fund)' <= Level(log[i].fund) /\ Level(log[i].fund)' \in Int
          /\ Level(log[i].fund) \in Int
      BY <1>2, <1>3 DEF Level
    <2>3. One * (repaid - log[i].repaid) \in Int /\ Rate \in Nat
      BY AnchorFacts
    <2> QED
      BY <1>1, <1>3, <2>1, <2>2, <2>3
  <1>8. ServedInOrder'
    BY <1>3 DEF ServedInOrder
  <1> QED
    BY <1>4, <1>5, <1>6, <1>7, <1>8

LEMMA TakesKeep ==
    ASSUME TypeOK, RateInv, NEW n, NEW f, Takes(n, f)
    PROVE  RateInv'
  <1> USE DEF RateInv
  <1>1. /\ now \in Nat /\ now' = now /\ repaid' = repaid /\ f \in Nat /\ f >= now
        /\ One \in Nat /\ Rate \in Nat
        /\ Capacity \in Nat /\ Capacity >= One /\ Capacity' = Capacity
    BY SetFacts, LevelFacts DEF Takes, Capacity
  <1>2. /\ n \in Nat /\ n \notin Kept /\ Kept' = Kept \cup {n} /\ DOMAIN log' = DOMAIN log \cup {n}
        /\ \A i \in DOMAIN log : log'[i] = log[i] /\ i < n /\ i \in Nat /\ log[i].fund \in Nat
        /\ Kept \subseteq DOMAIN log
        /\ log'[n].fund = f /\ log'[n].repaid = repaid
    BY SetFacts, LogFacts DEF Takes
  <1>3. ASSUME NEW t \in Nat
        PROVE  /\ Level(t)' = Refreshed(t) - One
               /\ Refreshed(t) \in Int /\ Level(t) \in Int /\ Refreshed(t) <= Level(t)
    BY LevelFacts DEF Takes
  <1>4. ASSUME NEW t \in Nat, t >= f
        PROVE  /\ FundedAfter(t)' = FundedAfter(t) /\ Held(FundedAfter(t))' = Held(FundedAfter(t))
               /\ Held(FundedAfter(t)) \in Nat
    <2>1. FundedAfter(t)' = FundedAfter(t)
      BY <1>1, <1>2, <1>4 DEF FundedAfter
    <2> QED
      BY <2>1, SetFacts DEF Held
  <1>5. ASSUME NEW t \in Nat, t < f
        PROVE  /\ FundedAfter(t)' = FundedAfter(t) \cup {n}
               /\ Held(FundedAfter(t))' = Held(FundedAfter(t)) + One
               /\ Held(FundedAfter(t)) \in Nat
    <2>1. FundedAfter(t)' = FundedAfter(t) \cup {n} /\ n \notin FundedAfter(t)
      BY <1>1, <1>2, <1>5 DEF FundedAfter
    <2>2. IsFiniteSet(FundedAfter(t)) /\ Held(FundedAfter(t)) \in Nat
      BY SetFacts
    <2>3. Held(FundedAfter(t) \cup {n}) = Held(FundedAfter(t)) + One
      BY <2>1, <2>2, HeldFacts
    <2>4. Held(FundedAfter(t))' = Held(FundedAfter(t) \cup {n})
      BY <2>1 DEF Held
    <2> QED
      BY <2>1, <2>2, <2>3, <2>4
  <1>6. Refreshed(f) >= One
    BY DEF Takes
  <1>7. AllCovered'
    <2> SUFFICES ASSUME NEW t \in Nat, t >= now PROVE Level(t)' + Held(FundedAfter(t))' >= 0
      BY <1>1 DEF AllCovered
    <2>1. CASE t >= f
      <3>1. Refreshed(f) <= Refreshed(t) /\ Refreshed(f) \in Int
        BY <1>1, <2>1, LevelRises, LevelFacts
      <3> QED
        BY <1>1, <1>3, <1>4, <1>6, <2>1, <3>1
    <2>2. CASE t < f
      <3>1. Refreshed(t) + Held(FundedAfter(t)) >= 0
        BY RefreshedCovered
      <3> QED
        BY <1>1, <1>3, <1>5, <2>2, <3>1
    <2> QED
      BY <1>1, <2>1, <2>2
  <1>8. Anchored'
    <2>0. Len(log) \in Nat /\ Len(log') = n /\ n = Len(log) + 1
      BY SetFacts DEF Takes
    <2>1. ASSUME NEW i \in DOMAIN log
          PROVE  Level(log[i].fund)' + One * (n - i)
                     < Capacity - One + Rate + One * (repaid - log[i].repaid)
      <3>1. Level(log[i].fund)' = Refreshed(log[i].fund) - One
        BY <1>2, <1>3 DEF Level
      <3>2. Level(log[i].fund) + One * (Len(log) - i)
                < Capacity - One + Rate + One * (repaid - log[i].repaid)
        BY DEF Anchored
      <3>3. /\ Refreshed(log[i].fund) \in Int /\ Level(log[i].fund) \in Int
            /\ Refreshed(log[i].fund) <= Level(log[i].fund)
            /\ One * (Len(log) - i) \in Int /\ One * (repaid - log[i].repaid) \in Int
        BY AnchorFacts
      <3>4. One * (n - i) = One * (Len(log) - i) + One
        <4>1. n - i = (Len(log) - i) + 1 /\ Len(log) - i \in Int
          BY <1>2, <2>0
        <4> QED
          BY <1>1, <4>1, Times
      <3>5. PICK x \in Int, y \in Int, z \in Int :
                /\ x = One * (Len(log) - i) /\ y = One * (repaid - log[i].repaid)
                /\ z = Refreshed(log[i].fund)
        BY <3>3
      <3>6. z <= Level(log[i].fund) /\ Level(log[i].fund) + x < Capacity - One + Rate + y
        BY <3>2, <3>3, <3>5
      <3>7. (z - One) + (x + One) < Capacity - One + Rate + y
        BY <1>1, <3>3, <3>6, Slack
      <3> QED
        BY <3>1, <3>4, <3>5, <3>7
    <2>2. Level(log[n].fund)' + One * (n - n) < Capacity - One + Rate + One * (repaid - repaid)
      <3>1. Level(log[n].fund)' = Refreshed(f) - One /\ Refreshed(f) \in Int
        BY <1>1, <1>2, <1>3 DEF Level
      <3>2. Refreshed(f) <= Capacity \/ Refreshed(f) < One + Rate
        <4>1. CASE f = now
          <5>1. Rate * (now - now) = 0 /\ Current \in Int /\ Current <= Capacity
            BY <1>1, RefillFacts
          <5> QED
            BY <4>1, <5>1 DEF Refreshed
        <4>2. CASE f # now
          BY <4>2 DEF Takes
        <4> QED
          BY <4>1, <4>2
      <3>3. Rate > 0
        OBVIOUS
      <3>4. One * (n - n) = 0 /\ One * (repaid - repaid) = 0
        BY <1>2, SetFacts
      <3> QED
        BY <1>1, <3>1, <3>2, <3>3, <3>4
    <2>3. ASSUME NEW i \in DOMAIN log'
          PROVE  Level(log[i].fund)' + One * (Len(log') - i)
                     < Capacity - One + Rate + One * (repaid' - log'[i].repaid)
      <3>1. CASE i \in DOMAIN log
        BY <1>1, <1>2, <2>0, <2>1, <3>1
      <3>2. CASE i = n
        BY <1>1, <1>2, <2>0, <2>2, <3>2
      <3> QED
        BY <1>2, <3>1, <3>2
    <2> QED
      BY <1>1, <2>3 DEF Anchored
  <1>9. Paced'
    <2>1. ASSUME NEW i \in DOMAIN log
          PROVE  One * (n - i + 1) < Capacity + Rate * (f - log[i].fund + 1)
                                         + One * (repaid - log[i].repaid)
      <3>1. /\ i \in Nat /\ log[i].fund \in Nat
            /\ One * (Len(log) - i) \in Int /\ One * (repaid - log[i].repaid) \in Int
            /\ Level(log[i].fund) \in Int
        BY AnchorFacts
      <3>2. Level(log[i].fund) + One * (Len(log) - i)
                < Capacity - One + Rate + One * (repaid - log[i].repaid)
        BY DEF Anchored
      <3>3. Level(f) = Level(log[i].fund) + Rate * (f - log[i].fund)
        BY <1>1, <3>1, LevelRises
      <3>4. Level(f) \in Int /\ Level(f) >= One
        BY <1>1, <1>3, <1>6
      <3>5. /\ Rate * (f - log[i].fund) \in Int
            /\ Rate * (f - log[i].fund + 1) = Rate * (f - log[i].fund) + Rate
        BY <1>1, <3>1, Times
      <3>6. One * (n - i + 1) = One * (Len(log) - i) + One + One
        <4>0. Len(log) \in Nat /\ n = Len(log) + 1
          BY SetFacts DEF Takes
        <4>1. /\ n - i + 1 = ((Len(log) - i) + 1) + 1 /\ Len(log) - i \in Int
              /\ (Len(log) - i) + 1 \in Int
          BY <3>1, <4>0
        <4> QED
          BY <1>1, <4>1, Times
      <3>7. PICK x \in Int, y \in Int, z \in Int, level \in Int :
                /\ x = One * (Len(log) - i) /\ y = One * (repaid - log[i].repaid)
                /\ z = Rate * (f - log[i].fund) /\ level = Level(log[i].fund)
        BY <3>1, <3>5
      <3>8. level + x < Capacity - One + Rate + y /\ level + z >= One
        BY <3>2, <3>3, <3>4, <3>7
      <3>9. x + One + One < Capacity + (z + Rate) + y
        <4>1. Capacity \in Int /\ One \in Int /\ Rate \in Int
          BY <1>1
        <4> QED
          BY <3>8, <4>1, Slack
      <3> QED
        BY <3>5, <3>6, <3>7, <3>9
    <2>2. One * (n - n + 1) < Capacity + Rate * (f - f + 1) + One * (repaid - repaid)
      <3>1. One * (n - n + 1) = One /\ Rate * (f - f + 1) = Rate /\ One * (repaid - repaid) = 0
        BY <1>1, <1>2, SetFacts
      <3>2. Rate > 0
        OBVIOUS
      <3> QED
        BY <1>1, <3>1, <3>2
    <2>3. ASSUME NEW i \in DOMAIN log', NEW j \in DOMAIN log', i <= j PROVE Pace(i, j)'
      <3>1. CASE i \in DOMAIN log /\ j \in DOMAIN log
        <4>1. Pace(i, j)
          BY <2>3, <3>1 DEF Paced
        <4>2. log'[i] = log[i] /\ log'[j] = log[j]
          BY <1>2, <3>1
        <4> QED
          BY <1>1, <4>1, <4>2 DEF Pace
      <3>2. CASE i \in DOMAIN log /\ j = n
        <4>1. log'[i] = log[i]
          BY <1>2, <3>2
        <4> QED
          BY <1>1, <1>2, <2>1, <3>2, <4>1 DEF Pace
      <3>3. CASE i = n /\ j = n
        BY <1>1, <1>2, <2>2, <3>3 DEF Pace
      <3>4. ~(i = n /\ j \in DOMAIN log)
        BY <1>2, <2>3
      <3> QED
        BY <1>2, <3>1, <3>2, <3>3, <3>4
    <2> QED
      BY <2>3 DEF Paced
  <1>10. NothingSpare'
    <2>1. ASSUME NEW i \in DOMAIN log, log[i].fund > now
          PROVE  Level(log[i].fund)' < Rate + One * (repaid - log[i].repaid)
      <3>1. Level(log[i].fund) < Rate + One * (repaid - log[i].repaid)
        BY <1>1, <1>2, <2>1 DEF NothingSpare
      <3>2. Level(log[i].fund)' = Refreshed(log[i].fund) - One
        BY <1>2, <1>3 DEF Level
      <3>3. /\ Refreshed(log[i].fund) \in Int /\ Level(log[i].fund) \in Int
            /\ Refreshed(log[i].fund) <= Level(log[i].fund)
        BY <1>2, <1>3
      <3>4. One * (repaid - log[i].repaid) \in Int
        BY SetFacts, Times
      <3> QED
        BY <1>1, <3>1, <3>2, <3>3, <3>4
    <2>2. f = now \/ Level(log[n].fund)' < Rate + One * (repaid - repaid)
      <3>1. Level(log[n].fund)' = Refreshed(f) - One /\ Refreshed(f) \in Int
        BY <1>1, <1>2, <1>3 DEF Level
      <3>2. f = now \/ Refreshed(f) < One + Rate
        BY DEF Takes
      <3>3. One * (repaid - repaid) = 0
        BY SetFacts
      <3> QED
        BY <1>1, <3>1, <3>2, <3>3
    <2>3. ASSUME NEW i \in DOMAIN log'
          PROVE  (log[i].fund <= now \/ Level(log[i].fund) < Rate + One * (repaid - log[i].repaid))'
      <3>1. CASE i \in DOMAIN log
        BY <1>1, <1>2, <2>1, <3>1
      <3>2. CASE i = n
        BY <1>1, <1>2, <2>2, <3>2
      <3> QED
        BY <1>2, <3>1, <3>2
    <2> QED
      BY <2>3 DEF NothingSpare
  <1>11. ServedInOrder'
    <2>1. ASSUME NEW i \in DOMAIN log, f < log[i].fund
          PROVE  repaid - log[i].repaid >= 2
      <3>1. log[i].fund \in Nat /\ log[i].repaid \in Nat /\ repaid \in Nat
        BY SetFacts
      <3>2. Level(log[i].fund) < Rate + One * (repaid - log[i].repaid)
        BY <1>1, <2>1, <3>1 DEF NothingSpare
      <3>3. Refreshed(f) + Rate <= Refreshed(log[i].fund) /\ Refreshed(f) \in Int
        BY <1>1, <1>3, <2>1, <3>1, LevelRises
      <3>4. /\ Refreshed(log[i].fund) \in Int /\ Level(log[i].fund) \in Int
            /\ Refreshed(log[i].fund) <= Level(log[i].fund)
        BY <1>3, <3>1
      <3>5. One * (repaid - log[i].repaid) \in Int /\ repaid - log[i].repaid \in Int
        BY <3>1, Times
      <3>6. One < One * (repaid - log[i].repaid)
        BY <1>1, <1>6, <3>2, <3>3, <3>4, <3>5
      <3> QED
        BY <3>5, <3>6, AtLeastTwo
    <2>2. ASSUME NEW j \in DOMAIN log', NEW i \in 1..(j - 1), log'[j].fund < log'[i].fund
          PROVE  log'[j].repaid - log'[i].repaid >= 2
      <3>1. Len(log) \in Nat /\ DOMAIN log = 1..Len(log) /\ DOMAIN log' \subseteq Nat
        BY <1>2, LogFacts
      <3>2. CASE j \in DOMAIN log
        <4>1. i \in DOMAIN log
          BY <3>1, <3>2
        <4> QED
          BY <1>2, <2>2, <3>2, <4>1 DEF ServedInOrder
      <3>3. CASE j = n
        <4>1. n = Len(log) + 1 /\ i \in 1..(n - 1)
          BY <3>3 DEF Takes
        <4>2. i \in DOMAIN log
          BY <3>1, <4>1
        <4> QED
          BY <1>2, <2>1, <2>2, <3>3, <4>2
      <3> QED
        BY <1>2, <3>2, <3>3
    <2> QED
      BY <2>2 DEF ServedInOrder
  <1> QED
    BY <1>7, <1>8, <1>9, <1>10, <1>11

LEMMA RepaysKeep ==
    ASSUME TypeOK, RateInv, NEW k, Repays(k)
    PROVE  RateInv'
  <1> USE DEF RateInv
  <1>1. /\ now \in Nat /\ now' = now /\ log' = log /\ DOMAIN log' = DOMAIN log
        /\ k \in Kept /\ Kept' = Kept \ {k} /\ IsFiniteSet(Kept)
        /\ One \in Nat /\ Rate \in Nat /\ repaid \in Nat
        /\ Capacity \in Nat /\ Capacity' = Capacity /\ repaid' = repaid + 1
    BY SetFacts DEF Repays, Capacity
  <1>3. ASSUME NEW t \in Nat
        PROVE  /\ Level(t)' \in Int /\ Level(t)' <= Refreshed(t) + One
               /\ Refreshed(t) \in Int /\ Level(t) \in Int /\ Refreshed(t) <= Level(t)
               /\ t >= now => Level(t)' = Refreshed(t) + One \/ Level(t)' >= 0
    BY LevelFacts DEF Repays
  <1>4. ASSUME NEW S, S \subseteq Kept
        PROVE  /\ Held(S) \in Nat /\ Held(S \ {k}) \in Nat
               /\ Held(S \ {k}) <= Held(S) /\ Held(S \ {k}) >= Held(S) - One
    <2>1. IsFiniteSet(S)
      BY <1>1, <1>4, FS_Subset
    <2>2. IsFiniteSet(S \ {k}) /\ Held(S \ {k}) <= Held(S)
      BY <2>1, HeldFacts
    <2>3. Held(S) \in Nat /\ Held(S \ {k}) \in Nat
      BY <2>1, <2>2, HeldFacts
    <2>4. CASE k \in S
      <3>1. Held(S \ {k}) = Held(S) - One
        BY <2>1, <2>4, HeldFacts
      <3> QED
        BY <1>1, <2>2, <2>3, <3>1
    <2>5. CASE k \notin S
      <3>1. S \ {k} = S
        BY <2>5
      <3>2. Held(S \ {k}) = Held(S)
        BY <3>1, Zenon
      <3> QED
        BY <1>1, <2>3, <3>2
    <2> QED
      BY <2>4, <2>5
  <1>5. ASSUME NEW t
        PROVE  /\ FundedAfter(t)' = FundedAfter(t) \ {k} /\ Held(FundedAfter(t)) \in Nat
               /\ Held(FundedAfter(t))' \in Nat /\ Held(FundedAfter(t))' <= Held(FundedAfter(t))
               /\ Held(FundedAfter(t))' >= Held(FundedAfter(t)) - One
    <2>1. FundedAfter(t)' = FundedAfter(t) \ {k} /\ FundedAfter(t) \subseteq Kept
      BY <1>1 DEF FundedAfter
    <2>2. Held(FundedAfter(t))' = Held(FundedAfter(t) \ {k})
      BY <2>1 DEF Held
    <2> QED
      BY <1>4, <2>1, <2>2
  <1>6. AllCovered'
    <2> SUFFICES ASSUME NEW t \in Nat, t >= now PROVE Level(t)' + Held(FundedAfter(t))' >= 0
      BY <1>1 DEF AllCovered
    <2>1. Refreshed(t) + Held(FundedAfter(t)) >= 0
      BY RefreshedCovered
    <2> QED
      BY <1>1, <1>3, <1>5, <2>1
  <1>7. Anchored'
    <2> SUFFICES ASSUME NEW i \in DOMAIN log
                 PROVE  Level(log[i].fund)' + One * (Len(log) - i)
                            < Capacity - One + Rate + One * (repaid' - log[i].repaid)
      BY <1>1 DEF Anchored
    <2>1. Level(log[i].fund) + One * (Len(log) - i)
              < Capacity - One + Rate + One * (repaid - log[i].repaid)
      BY DEF Anchored
    <2>2. /\ log[i].fund \in Nat /\ log[i].repaid \in Nat /\ log'[i].fund = log[i].fund
          /\ One * (Len(log) - i) \in Int /\ One * (repaid - log[i].repaid) \in Int
      BY <1>1, AnchorFacts
    <2>3. /\ Level(log[i].fund)' \in Int /\ Level(log[i].fund) \in Int
          /\ Level(log[i].fund)' <= Level(log[i].fund) + One
      <3>1. PICK t \in Nat : t = log[i].fund
        BY <2>2
      <3>2. Level(log[i].fund)' = Level(t)'
        BY <2>2, <3>1 DEF Level
      <3> QED
        BY <1>1, <1>3, <3>1, <3>2
    <2>4. One * (repaid' - log[i].repaid) = One * (repaid - log[i].repaid) + One
      <3>1. PICK p \in Int, q \in Nat : p = repaid /\ q = log[i].repaid
        BY <1>1, <2>2
      <3>2. repaid' - q = (p - q) + 1 /\ p - q \in Int
        BY <1>1, <3>1
      <3>3. One * (repaid' - q) = One * (p - q) + One
        BY <1>1, <3>2, Times
      <3> QED
        BY <3>1, <3>3
    <2>5. PICK x \in Int, y \in Int, z \in Int :
              /\ x = One * (Len(log) - i) /\ y = One * (repaid - log[i].repaid)
              /\ z = Level(log[i].fund)'
      BY <2>2, <2>3
    <2>6. z <= Level(log[i].fund) + One /\ Level(log[i].fund) + x < Capacity - One + Rate + y
      BY <2>1, <2>3, <2>5
    <2>7. z + x < Capacity - One + Rate + (y + One)
      BY <1>1, <2>3, <2>6, Slack
    <2> QED
      BY <2>4, <2>5, <2>7
  <1>8. Paced'
    BY <1>1 DEF Paced, Pace
  <1>9. NothingSpare'
    <2> SUFFICES ASSUME NEW i \in DOMAIN log, log[i].fund > now
                 PROVE  Level(log[i].fund)' < Rate + One * (repaid' - log[i].repaid)
      BY <1>1, SetFacts DEF NothingSpare
    <2>1. log[i].fund \in Nat /\ log[i].repaid \in Nat /\ log'[i].fund = log[i].fund
      BY <1>1, SetFacts
    <2>2. Level(log[i].fund) < Rate + One * (repaid - log[i].repaid)
      BY <1>1, <2>1 DEF NothingSpare
    <2>3. /\ Level(log[i].fund)' \in Int /\ Level(log[i].fund) \in Int
          /\ Level(log[i].fund)' <= Level(log[i].fund) + One
      <3>1. PICK t \in Nat : t = log[i].fund
        BY <2>1
      <3>2. Level(log[i].fund)' = Level(t)'
        BY <2>1, <3>1 DEF Level
      <3> QED
        BY <1>1, <1>3, <3>1, <3>2
    <2>4. /\ One * (repaid' - log[i].repaid) = One * (repaid - log[i].repaid) + One
          /\ One * (repaid - log[i].repaid) \in Int
      <3>1. repaid' - log[i].repaid = (repaid - log[i].repaid) + 1 /\ repaid - log[i].repaid \in Int
        BY <1>1, <2>1
      <3> QED
        BY <1>1, <3>1, Times
    <2> QED
      BY <1>1, <2>2, <2>3, <2>4
  <1>10. ServedInOrder'
    BY <1>1 DEF ServedInOrder
  <1> QED
    BY <1>6, <1>7, <1>8, <1>9, <1>10

-----------------------------------------------------------------------------
(* Every step is one of the three kinds *)

LEMMA InitRateInv == Init => RateInv
  <1> SUFFICES ASSUME Init PROVE RateInv
    OBVIOUS
  <1>1. log = <<>> /\ DOMAIN log = {} /\ Kept = {}
    BY DEF Init, Kept
  <1>2. tokens = Capacity /\ last = 0 /\ now = 0 /\ repaid = 0 /\ Capacity \in Nat
    BY DEF Init, Capacity
  <1>3. \A t : FundedAfter(t) = {} /\ Held(FundedAfter(t)) = 0
    BY <1>1, NoneHeld DEF FundedAfter
  <1>4. AllCovered
    <2> SUFFICES ASSUME NEW t \in Nat PROVE Level(t) + Held(FundedAfter(t)) >= 0
      BY DEF AllCovered
    <2>1. Rate * (t - 0) \in Int /\ Rate * (t - 0) >= 0
      BY Times
    <2>2. Level(t) = Capacity + Rate * (t - 0)
      BY <1>2 DEF Level
    <2> QED
      BY <1>2, <1>3, <2>1, <2>2
  <1>5. Anchored /\ Paced /\ NothingSpare /\ ServedInOrder
    BY <1>1 DEF Anchored, Paced, NothingSpare, ServedInOrder
  <1> QED
    BY <1>4, <1>5 DEF RateInv

(* The bucket and the log stay as they are.                                *)
LEMMA StillFlows ==
    ASSUME TypeOK, UNCHANGED <<tokens, last, log, repaid>>, Kept' = Kept,
           now' \in Nat, now' >= now
    PROVE  Flows
  <1>1. ASSUME NEW t \in Nat PROVE Level(t)' = Level(t) /\ Level(t) \in Int
    BY LevelFacts DEF Level
  <1> QED
    BY <1>1 DEF Flows

(* The bucket is brought current.                                          *)
LEMMA CurrentLevel ==
    ASSUME TypeOK, now' = now, last' = now, NEW t \in Nat
    PROVE  Level(t)' = tokens' + Rate * (t - now)
  BY DEF Level

LEMMA CurrentFlows ==
    ASSUME TypeOK, tokens' = Current, last' = now, UNCHANGED <<now, log, repaid>>, Kept' = Kept
    PROVE  Flows
  <1>1. now \in Nat
    BY DEF TypeOK
  <1>2. ASSUME NEW t \in Nat
        PROVE  /\ Level(t)' \in Int /\ Level(t)' <= Level(t)
               /\ t >= now' => Level(t)' = Level(t) \/ Level(t)' >= 0
    <2>1. Level(t)' = Refreshed(t)
      BY CurrentLevel DEF Refreshed
    <2>2. Capacity \in Nat /\ Current \in Int
      BY RefillFacts
    <2> QED
      BY <2>1, <2>2, LevelFacts
  <1> QED
    BY <1>1, <1>2 DEF Flows

(* The call takes the next place in the log.                               *)
LEMMA TakesPlace ==
    ASSUME TypeOK, OneTokenEach, NEW c \in Callers, pc[c] = "idle",
           NEW s \in Holding \ {"canceled"}, pc' = [pc EXCEPT ![c] = s],
           NEW f \in Nat, Take(c, f), NEW n, n = Len(log) + 1
    PROVE  /\ n \notin DOMAIN log /\ DOMAIN log' = DOMAIN log \cup {n}
           /\ \A i \in DOMAIN log : log'[i] = log[i] /\ i < n
           /\ Kept' = Kept \cup {n}
           /\ log'[n].fund = f /\ log'[n].repaid = repaid
  <1>1. PICK e \in Entry : e = [call |-> c, fund |-> f, repaid |-> repaid]
    BY DEF TypeOK, Entry
  <1>2. log \in Seq(Entry) /\ log' = Append(log, e)
    BY <1>1 DEF TypeOK, Entry, Take
  <1>3. /\ Len(log) \in Nat /\ DOMAIN log = 1..Len(log) /\ DOMAIN log' = 1..n
        /\ log'[n] = e /\ \A i \in DOMAIN log : log'[i] = log[i]
    BY <1>2, AppendProperties, LenProperties
  <1>4. e.call = c /\ e.fund = f /\ e.repaid = repaid
    BY <1>1
  <1>5. \A d \in Callers : pc'[d] = IF d = c THEN s ELSE pc[d]
    BY DEF TypeOK
  <1>6. \A i \in DOMAIN log : log[i].call \in Callers /\ log[i].call # c
    BY LogFacts DEF OneTokenEach, Holding
  <1>7. n \notin DOMAIN log /\ DOMAIN log' = DOMAIN log \cup {n} /\ \A i \in DOMAIN log : i < n
    BY <1>3
  <1>8. Kept' = Kept \cup {n}
    BY <1>3, <1>4, <1>5, <1>6, <1>7 DEF Kept
  <1> QED
    BY <1>3, <1>4, <1>7, <1>8

(* A token is taken out of the current bucket, which pays for it now or    *)
(* after the delay.                                                        *)
LEMMA TakesNow ==
    ASSUME TypeOK, OneTokenEach, NEW c \in Callers, pc[c] = "idle",
           NEW s \in Holding \ {"canceled"}, pc' = [pc EXCEPT ![c] = s],
           Take(c, now), Current >= One, tokens' = Current - One, last' = now,
           UNCHANGED <<now, repaid>>
    PROVE  \E n, f : Takes(n, f)
  <1>1. PICK n : n = Len(log) + 1
    OBVIOUS
  <1>2. now \in Nat /\ Current \in Int /\ One \in Nat
    BY RefillFacts DEF TypeOK
  <1>3. /\ n \notin DOMAIN log /\ DOMAIN log' = DOMAIN log \cup {n}
        /\ \A i \in DOMAIN log : log'[i] = log[i] /\ i < n
        /\ Kept' = Kept \cup {n}
        /\ log'[n].fund = now /\ log'[n].repaid = repaid
    BY <1>1, <1>2, TakesPlace
  <1>4. ASSUME NEW t \in Nat PROVE Level(t)' = Refreshed(t) - One
    <2>1. Level(t)' = tokens' + Rate * (t - now) /\ Rate * (t - now) \in Int
      BY <1>2, CurrentLevel, Times
    <2> QED
      BY <1>2, <2>1 DEF Refreshed
  <1>5. Refreshed(now) >= One
    BY <1>2, LevelFacts
  <1>6. \A t \in Nat : ~(t >= now /\ t < now)
    BY <1>2
  <1> QED
    BY <1>1, <1>2, <1>3, <1>4, <1>5, <1>6 DEF Takes

LEMMA TakesLater ==
    ASSUME TypeOK, OneTokenEach, NEW c \in Callers, pc[c] = "idle",
           NEW s \in Holding \ {"canceled"}, pc' = [pc EXCEPT ![c] = s],
           NEW f, f = now + Delay(Shortfall), Take(c, f), Shortfall > 0,
           tokens' = Current - One, last' = now, UNCHANGED <<now, repaid>>
    PROVE  \E n, g : Takes(n, g)
  <1>1. PICK n : n = Len(log) + 1
    OBVIOUS
  <1>2. now \in Nat /\ Current \in Int /\ One \in Nat /\ Rate \in Nat
    BY RefillFacts DEF TypeOK
  <1>3. PICK d \in Int : d = Delay(Shortfall)
    BY <1>2, RoundUp DEF Shortfall
  <1>4. /\ d \in Nat /\ d >= 1 /\ f = now + d /\ f \in Nat /\ f >= now
        /\ Rate * d >= One - Current /\ Rate * d < One - Current + Rate
    <2>1. Shortfall \in Int /\ Shortfall = One - Current
      BY <1>2 DEF Shortfall
    <2>2. /\ Delay(Shortfall) \in Nat /\ Delay(Shortfall) >= 1
          /\ Rate * Delay(Shortfall) >= Shortfall /\ Rate * Delay(Shortfall) < Shortfall + Rate
      BY <2>1, RoundUp
    <2> QED
      BY <1>2, <1>3, <2>1, <2>2
  <1>5. /\ n \notin DOMAIN log /\ DOMAIN log' = DOMAIN log \cup {n}
        /\ \A i \in DOMAIN log : log'[i] = log[i] /\ i < n
        /\ Kept' = Kept \cup {n}
        /\ log'[n].fund = f /\ log'[n].repaid = repaid
    BY <1>1, <1>4, TakesPlace
  <1>6. ASSUME NEW t \in Nat PROVE Level(t)' = Refreshed(t) - One
    <2>1. Level(t)' = tokens' + Rate * (t - now) /\ Rate * (t - now) \in Int
      BY <1>2, CurrentLevel, Times
    <2> QED
      BY <1>2, <2>1 DEF Refreshed
  <1>7. Refreshed(f) = Current + Rate * d
    <2>1. f - now = d
      BY <1>2, <1>4
    <2> QED
      BY <2>1 DEF Refreshed
  <1>8. Refreshed(f) >= One /\ Refreshed(f) < One + Rate /\ Refreshed(f) \in Int
    <2>1. Rate * d \in Int
      BY <1>2, <1>4, Times
    <2> QED
      BY <1>2, <1>4, <1>7, <2>1
  <1>9. ASSUME NEW t \in Nat, t >= now, t < f PROVE Refreshed(t) < One
    <2>1. Refreshed(t) + Rate <= Refreshed(f) /\ Refreshed(t) \in Int
      BY <1>4, <1>9, LevelRises, LevelFacts
    <2> QED
      BY <1>2, <1>8, <2>1
  <1> QED
    BY <1>1, <1>4, <1>5, <1>6, <1>8, <1>9 DEF Takes

(* A reservation is repaid into the current bucket.                        *)
LEMMA RepaysOne ==
    ASSUME TypeOK, OneTokenEach, NEW c \in Callers, WaitRepaid(c)
    PROVE  \E k : Repays(k)
  <1>1. /\ UNCHANGED <<now, log>> /\ repaid' = repaid + 1 /\ pc[c] = "sleeping"
        /\ pc' = [pc EXCEPT ![c] = "canceled"]
        /\ tokens' = Cap(Current + One) /\ last' = now
    BY DEF WaitRepaid, Repay, BringCurrent
  <1>2. \A d \in Callers : pc'[d] = IF d = c THEN "canceled" ELSE pc[d]
    BY <1>1 DEF TypeOK
  <1>3. \A i \in DOMAIN log : log[i].call \in Callers
    BY LogFacts
  <1>4. PICK k \in DOMAIN log : log[k].call = c
    BY <1>1 DEF OneTokenEach
  <1>5. k \in Kept /\ Kept' = Kept \ {k}
    BY <1>1, <1>2, <1>3, <1>4 DEF Kept, OneTokenEach
  <1>6. now \in Nat /\ Current \in Int /\ One \in Nat /\ Rate \in Nat /\ Capacity \in Nat
    BY RefillFacts DEF TypeOK
  <1>7. /\ Cap(Current + One) \in Int /\ Cap(Current + One) <= Current + One
        /\ Cap(Current + One) = Current + One \/ Cap(Current + One) = Capacity
    BY <1>6 DEF Cap
  <1>8. ASSUME NEW t \in Nat
        PROVE  /\ Level(t)' \in Int /\ Level(t)' <= Refreshed(t) + One
               /\ t >= now => Level(t)' = Refreshed(t) + One \/ Level(t)' >= 0
    <2>1. Level(t)' = Cap(Current + One) + Rate * (t - now)
      BY <1>1, CurrentLevel
    <2>2. Rate * (t - now) \in Int /\ (t >= now => Rate * (t - now) >= 0)
      BY <1>6, Times
    <2> QED
      BY <1>6, <1>7, <2>1, <2>2 DEF Refreshed
  <1> QED
    BY <1>1, <1>5, <1>8 DEF Repays

LEMMA NextShape ==
    ASSUME Inv, [Next]_vars
    PROVE  Flows \/ (\E n, f : Takes(n, f)) \/ (\E k : Repays(k))
  <1> USE DEF Inv
  <1>0. now \in Nat /\ Current \in Int /\ One \in Nat
    BY RefillFacts DEF TypeOK
  <1>1. CASE UNCHANGED vars
    <2>1. Kept' = Kept
      BY <1>1 DEF vars, Kept
    <2> QED
      BY <1>0, <1>1, <2>1, StillFlows DEF vars, bucket
  <1>2. CASE Tick
    <2>1. Kept' = Kept
      BY <1>2 DEF Tick, Kept
    <2> QED
      BY <1>0, <1>2, <2>1, StillFlows DEF Tick, bucket
  <1>3. ASSUME NEW c \in Callers, Cancel(c) PROVE Flows
    <2>1. Kept' = Kept
      BY <1>3 DEF Cancel, Kept
    <2> QED
      BY <1>0, <1>3, <2>1, StillFlows DEF Cancel, bucket
  <1>4. ASSUME NEW c \in Callers, AllowGranted(c) PROVE \E n, f : Takes(n, f)
    BY <1>4, TakesNow DEF AllowGranted, BringCurrent, Holding
  <1>5. ASSUME NEW c \in Callers, AllowShed(c) PROVE Flows
    <2>1. Kept' = Kept
      BY <1>5, LogFrame DEF AllowShed, Holding
    <2> QED
      BY <1>5, <2>1, CurrentFlows DEF AllowShed, BringCurrent
  <1>6. ASSUME NEW c \in Callers, WaitRefused(c) PROVE Flows
    <2>1. Kept' = Kept
      BY <1>6, LogFrame DEF WaitRefused, Holding
    <2> QED
      BY <1>0, <1>6, <2>1, StillFlows DEF WaitRefused, bucket
  <1>7. ASSUME NEW c \in Callers, WaitAdmitted(c) PROVE \E n, f : Takes(n, f)
    <2>1. Current >= One
      BY <1>0, <1>7 DEF WaitAdmitted, Shortfall
    <2> QED
      BY <1>7, <2>1, TakesNow DEF WaitAdmitted, Reserve, BringCurrent, Holding
  <1>8. ASSUME NEW c \in Callers, WaitReserves(c) PROVE \E n, f : Takes(n, f)
    <2>1. PICK f : f = now + Delay(Shortfall)
      OBVIOUS
    <2> QED
      BY <1>8, <2>1, TakesLater DEF WaitReserves, Reserve, BringCurrent, Holding
  <1>9. ASSUME NEW c \in Callers, TimerStarts(c) PROVE Flows
    <2>1. Kept' = Kept
      BY <1>9, LogFrame DEF TimerStarts, Holding
    <2> QED
      BY <1>0, <1>9, <2>1, StillFlows DEF TimerStarts, bucket
  <1>10. ASSUME NEW c \in Callers, WaitFunded(c) PROVE Flows
    <2>1. Kept' = Kept
      BY <1>10, LogFrame DEF WaitFunded, Holding
    <2> QED
      BY <1>0, <1>10, <2>1, StillFlows DEF WaitFunded, bucket
  <1>11. ASSUME NEW c \in Callers, WaitRepaid(c) PROVE \E k : Repays(k)
    BY <1>11, RepaysOne
  <1> QED
    BY <1>1, <1>2, <1>3, <1>4, <1>5, <1>6, <1>7, <1>8, <1>9, <1>10, <1>11 DEF Next, Allow, Wait

LEMMA SpecRateInv == Spec => [](Inv /\ RateInv)
  <1>1. Inv /\ RateInv /\ [Next]_vars => (Inv /\ RateInv)'
    <2> SUFFICES ASSUME Inv, RateInv, [Next]_vars PROVE Inv' /\ RateInv'
      OBVIOUS
    <2>1. TypeOK
      BY DEF Inv
    <2>2. RateInv'
      BY <2>1, NextShape, FlowsKeep, TakesKeep, RepaysKeep
    <2> QED
      BY <2>2, NextInv
  <1> QED
    BY <1>1, InitInv, InitRateInv, PTL DEF Spec

-----------------------------------------------------------------------------
(* A waiter's token is funded by the instant its timer was set for: the    *)
(* debt left at any later instant belongs to calls that are still to be    *)
(* funded then, whoever cancels and repays (Wait and its repayment).       *)
THEOREM DebtIsFunded == Spec => []DebtCovered
  <1>1. Inv /\ RateInv => DebtCovered
    <2> SUFFICES ASSUME Inv, RateInv PROVE DebtCovered
      OBVIOUS
    <2>1. TypeOK /\ AllCovered
      BY DEF Inv, RateInv
    <2>2. \A t \in Nat : t >= now => Covered(t)
      BY <2>1 DEF AllCovered, Covered, Level, Held
    <2>3. now \in Nat /\ \A i \in Kept : log[i].fund \in Nat
      BY <2>1, SetFacts
    <2> QED
      BY <2>2, <2>3 DEF DebtCovered
  <1> QED
    BY <1>1, SpecRateInv, PTL

(* The limiter's promise: no window of time funds more calls than a full   *)
(* bucket and the refill of the window pay for, plus one for each          *)
(* reservation repaid between the arrivals of the first and the last call  *)
(* it funds, for any rate, burst and number of calls.                      *)
THEOREM RateIsKept == Spec => []RateHolds
  <1>1. ASSUME TypeOK, Paced, NEW s \in Nat, NEW t \in Nat,
               NEW W \in SUBSET DOMAIN log, \A i \in W : log[i].fund \in s..t,
               NEW a \in W, NEW b \in W, Spans(W, a, b)
        PROVE  One * Cardinality(W) < Capacity + Rate * (t - s + 1)
                                          + One * (log[b].repaid - log[a].repaid)
    <2>1. /\ a \in Nat /\ b \in Nat /\ a <= b /\ One \in Nat /\ Rate \in Nat
          /\ log[a].fund \in Nat /\ log[b].fund \in Nat
          /\ log[a].repaid \in Nat /\ log[b].repaid \in Nat
      BY <1>1, SetFacts DEF Spans
    <2>2. log[a].fund >= s /\ log[b].fund <= t
      BY <1>1, <2>1
    <2>3. W \in SUBSET (a..b)
      BY <1>1, SetFacts DEF Spans
    <2>4. Cardinality(W) \in Nat /\ Cardinality(W) <= b - a + 1
      <3>1. a \in Int /\ b \in Int
        BY <2>1
      <3>2. IsFiniteSet(a..b) /\ Cardinality(a..b) = b - a + 1
        BY <2>1, <3>1, FS_Interval
      <3>3. IsFiniteSet(W) /\ Cardinality(W) <= Cardinality(a..b)
        BY <2>3, <3>2, FS_Subset
      <3>4. Cardinality(W) \in Nat
        BY <3>3, FS_CardinalityType
      <3> QED
        BY <3>2, <3>3, <3>4
    <2>5. Pace(a, b)
      BY <1>1, <2>1 DEF Paced
    <2>6. /\ One * Cardinality(W) \in Int /\ One * (b - a + 1) \in Int
          /\ One * Cardinality(W) <= One * (b - a + 1)
      BY <2>1, <2>4, Times
    <2>7. /\ Rate * (log[b].fund - log[a].fund + 1) \in Int /\ Rate * (t - s + 1) \in Int
          /\ Rate * (log[b].fund - log[a].fund + 1) <= Rate * (t - s + 1)
      BY <2>1, <2>2, Times
    <2>8. One * (log[b].repaid - log[a].repaid) \in Int
      BY <2>1, Times
    <2>9. Capacity \in Nat
      BY DEF Capacity
    <2> QED
      BY <2>5, <2>6, <2>7, <2>8, <2>9 DEF Pace
  <1>2. Inv /\ RateInv => RateHolds
    <2> SUFFICES ASSUME Inv, RateInv PROVE RateHolds
      OBVIOUS
    <2>1. TypeOK /\ Paced
      BY DEF Inv, RateInv
    <2>2. \A i \in Kept : log[i].fund \in Nat
      BY <2>1, SetFacts
    <2>3. ASSUME NEW s, NEW t
          PROVE  /\ FundedBetween(s, t) \in SUBSET DOMAIN log
                 /\ \A i \in FundedBetween(s, t) : log[i].fund \in s..t
      BY DEF FundedBetween, Kept
    <2> QED
      BY <1>1, <2>1, <2>2, <2>3 DEF RateHolds
  <1> QED
    BY <1>2, SpecRateInv, PTL

(* Calls are served in the order they arrive: a later call is funded       *)
(* before an earlier one only if two reservations were repaid between      *)
(* their arrivals (the queue that Wait's reservations form).               *)
THEOREM ArrivalOrderKept == Spec => []ServedInOrder
  <1>1. Inv /\ RateInv => ServedInOrder
    BY DEF RateInv
  <1> QED
    BY <1>1, SpecRateInv, PTL
=============================================================================
