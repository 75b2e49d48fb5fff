----------------------------- MODULE OutboxProofs -----------------------------
(***************************************************************************)
(* Proofs about the Telegram outbox for any events, tokens, attempts,       *)
(* delays, budget and number of crashes, in three parts: the call budget,   *)
(* on its own under arbitrary use (BudgetWindow) and in the loop's hands;   *)
(* the outbox, with type correctness, the safety properties of              *)
(* TelegramOutbox, and that its tables behave as AlertDelivery promises     *)
(* (all but its liveness); and the start of the daemon, which leaves the    *)
(* loops the table they work on (OutboxMigration).                         *)
(***************************************************************************)
EXTENDS TelegramOutbox, OutboxMigration, BudgetWindow, SequenceTheorems,
        WellFoundedInduction, TLAPS

------------------------------------------------------------------------------
(***************************************************************************)
(* A set of naturals that is not empty has a least element.                *)
(***************************************************************************)
LEMMA LeastNatural ==
    ASSUME NEW T, T \subseteq Nat, T # {}
    PROVE  \E n \in T : \A m \in T : n <= m
<1>1. \E n \in T : \A m \in T : <<m, n>> \notin OpToRel(<, Nat)
  BY NatLessThanWellFounded, WFMin
<1>2. \A m, n \in Nat : m < n => <<m, n>> \in OpToRel(<, Nat)
  BY DEF OpToRel
<1>3. PICK n \in T : \A m \in T : <<m, n>> \notin OpToRel(<, Nat)
  BY <1>1
<1>4. \A m \in T : m \in Nat /\ n \in Nat /\ ~ (m < n)
  BY <1>2, <1>3
<1> QED
  BY <1>4

(***************************************************************************)
(* _prune of runtime.py stops somewhere: the CHOOSE in Expired has a        *)
(* witness, so what it returns is a number of calls that were really        *)
(* expired, followed by one that was not.                                  *)
(***************************************************************************)
LEMMA ExpiredStops ==
    ASSUME NEW calls \in Seq(Int), NEW at \in Int
    PROVE  /\ Expired(calls, at) \in 0..Len(calls)
           /\ StopsAt(calls, at, Expired(calls, at))
<1> DEFINE T == {n \in 0..Len(calls) : n < Len(calls) => calls[n + 1] > at - Window}
<1>1. Len(calls) \in Nat
  OBVIOUS
<1>2. T \subseteq Nat /\ Len(calls) \in T
  BY <1>1
<1>3. PICK n \in T : \A m \in T : n <= m
  BY <1>2, LeastNatural
<1> HIDE DEF T
<1>4. \A i \in 1..n : calls[i] <= at - Window
  <2> SUFFICES ASSUME NEW i \in 1..n, ~ (calls[i] <= at - Window)
               PROVE  FALSE
    OBVIOUS
  <2>1. i \in 1..Len(calls) /\ calls[i] \in Int /\ Window \in Int
    <3>1. i \in 1..Len(calls)
      BY <1>1, <1>3 DEF T
    <3>2. calls[i] \in Int
      BY <3>1
    <3> QED
      BY <3>1, <3>2, BudgetAssumption
  <2>2. calls[i] > at - Window
    BY <2>1
  <2>3. i - 1 \in 0..Len(calls) /\ (i - 1) + 1 = i
    BY <2>1, <1>1
  <2>4. i - 1 \in T
    BY <2>2, <2>3 DEF T
  <2>5. n <= i - 1
    BY <2>4, <1>3
  <2> QED
    BY <2>5, <1>2
<1>5. n \in 0..Len(calls) /\ StopsAt(calls, at, n)
  BY <1>3, <1>4 DEF StopsAt, T
<1> QED
  BY <1>5 DEF Expired

(***************************************************************************)
(* What a budget remembers after _prune: the calls that were expired are    *)
(* gone from its front, nothing else is, and the first that stays is still  *)
(* in the window.                                                          *)
(***************************************************************************)
LEMMA PruneKeepsSuffix ==
    ASSUME NEW b \in [calls : Seq(Int), cooldownUntil : Int], NEW at \in Int
    PROVE  /\ Expired(b.calls, at) \in 0..Len(b.calls)
           /\ \A i \in 1..Expired(b.calls, at) : b.calls[i] <= at - Window
           /\ Prune(b, at) \in [calls : Seq(Int), cooldownUntil : Int]
           /\ Prune(b, at).cooldownUntil = b.cooldownUntil
           /\ Len(Prune(b, at).calls) = Len(b.calls) - Expired(b.calls, at)
           /\ \A i \in 1..Len(Prune(b, at).calls) :
                 Prune(b, at).calls[i] = b.calls[Expired(b.calls, at) + i]
           /\ Len(Prune(b, at).calls) > 0 => Prune(b, at).calls[1] > at - Window
<1> DEFINE n == Expired(b.calls, at)
           p == Prune(b, at)
           kept == SubSeq(b.calls, n + 1, Len(b.calls))
<1>1. b.calls \in Seq(Int) /\ Len(b.calls) \in Nat /\ \A i \in 1..Len(b.calls) : b.calls[i] \in Int
  OBVIOUS
<1>2. n \in 0..Len(b.calls) /\ StopsAt(b.calls, at, n)
  BY <1>1, ExpiredStops
<1>3. p = [b EXCEPT !.calls = kept]
  BY DEF Prune
<1> HIDE DEF n, p
<1>4. /\ kept \in Seq(Int)
      /\ Len(kept) = Len(b.calls) - n
      /\ \A i \in 1..Len(kept) : kept[i] = b.calls[n + i]
  <2>1. n + 1 \in Int /\ Len(b.calls) \in Int /\ \A i \in (n + 1)..Len(b.calls) : b.calls[i] \in Int
    BY <1>1, <1>2
  <2>2. /\ kept \in Seq(Int)
        /\ Len(kept) = IF n + 1 <= Len(b.calls) THEN Len(b.calls) - (n + 1) + 1 ELSE 0
        /\ \A i \in 1..(Len(b.calls) - (n + 1) + 1) : kept[i] = b.calls[n + 1 + i - 1]
    BY <2>1, SubSeqProperties
  <2> QED
    BY <2>2, <1>1, <1>2
<1>5. p.calls = kept /\ p.cooldownUntil = b.cooldownUntil
      /\ p \in [calls : Seq(Int), cooldownUntil : Int]
  BY <1>3, <1>4
<1>6. Len(kept) > 0 => kept[1] > at - Window
  BY <1>1, <1>2, <1>4 DEF StopsAt
<1> QED
  BY <1>2, <1>4, <1>5, <1>6 DEF StopsAt, n, p

(* So pruning a budget yields a budget, with no more calls than before. *)
LEMMA PruneType ==
    ASSUME NEW b \in [calls : Seq(Int), cooldownUntil : Int], NEW at \in Int
    PROVE  /\ Prune(b, at) \in [calls : Seq(Int), cooldownUntil : Int]
           /\ Prune(b, at).cooldownUntil = b.cooldownUntil
           /\ Len(Prune(b, at).calls) <= Len(b.calls)
<1>0. Len(b.calls) \in Nat /\ Expired(b.calls, at) \in 0..Len(b.calls)
  <2>1. b.calls \in Seq(Int)
    OBVIOUS
  <2>2. Expired(b.calls, at) \in 0..Len(b.calls)
    BY <2>1, ExpiredStops
  <2> QED
    BY <2>1, <2>2
<1>1. Expired(b.calls, at) \in Nat
  BY <1>0
<1>2. Len(Prune(b, at).calls) = Len(b.calls) - Expired(b.calls, at)
  BY PruneKeepsSuffix
<1>3. Prune(b, at) \in [calls : Seq(Int), cooldownUntil : Int]
      /\ Prune(b, at).cooldownUntil = b.cooldownUntil
  BY PruneKeepsSuffix
<1> QED
  BY <1>0, <1>1, <1>2, <1>3

(* A budget of natural instants is one of integers. *)
LEMMA NaturalBudget ==
    ASSUME NEW b \in [calls : Seq(Nat), cooldownUntil : Nat]
    PROVE  b \in [calls : Seq(Int), cooldownUntil : Int]
<1>1. b.calls \in Seq(Int) /\ b.cooldownUntil \in Int
  <2>1. Seq(Nat) \subseteq Seq(Int)
    BY SeqMonotonic
  <2> QED
    BY <2>1
<1> QED
  BY <1>1

(***************************************************************************)
(* Taking a call from an available budget never exceeds its cap.            *)
(***************************************************************************)
LEMMA TakeType ==
    ASSUME NEW b \in [calls : Seq(Int), cooldownUntil : Nat], NEW at \in Int,
           Available(b, at)
    PROVE  /\ Take(b, at) \in [calls : Seq(Int), cooldownUntil : Nat]
           /\ Len(Take(b, at).calls) <= MaxCalls
<1> DEFINE p == Prune(b, at)
           c == Append(p.calls, at)
<1>1. b \in [calls : Seq(Int), cooldownUntil : Int]
  OBVIOUS
<1>2. p.calls \in Seq(Int)
  BY <1>1, PruneType
<1>3. Len(p.calls) < MaxCalls
  BY DEF Available, Used
<1>4. c \in Seq(Int) /\ Len(c) = Len(p.calls) + 1 /\ Len(p.calls) \in Nat
  BY <1>2
<1>5. Take(b, at) = [b EXCEPT !.calls = c]
  BY DEF Take
<1> HIDE DEF c, p
<1>6. /\ Take(b, at).calls = c
      /\ Take(b, at) \in [calls : Seq(Int), cooldownUntil : Nat]
  BY <1>4, <1>5
<1> QED
  BY <1>3, <1>4, <1>6, BudgetAssumption

(***************************************************************************)
(* Growing older makes no budget exceed its cap.                            *)
(***************************************************************************)
LEMMA AgeType ==
    ASSUME NEW b \in [calls : Seq(Int), cooldownUntil : Nat]
    PROVE  /\ Age(b) \in [calls : Seq(Int), cooldownUntil : Nat]
           /\ Len(Age(b).calls) <= Len(b.calls)
<1> DEFINE c == [i \in 1..Len(b.calls) |-> b.calls[i] - 1]
           older == [calls |-> c,
                     cooldownUntil |-> IF b.cooldownUntil > 0 THEN b.cooldownUntil - 1 ELSE 0]
           a == Prune(older, 0)
<1>1. /\ Len(b.calls) \in Nat /\ \A i \in 1..Len(b.calls) : b.calls[i] \in Int
      /\ b.cooldownUntil \in Nat
  OBVIOUS
<1>2. c \in Seq(Int) /\ Len(c) = Len(b.calls)
  BY <1>1
<1>3. older.calls = c /\ older.cooldownUntil \in Nat
      /\ older \in [calls : Seq(Int), cooldownUntil : Int]
  BY <1>1, <1>2
<1> HIDE DEF c, older
<1> HIDE DEF a
<1>4. /\ a \in [calls : Seq(Int), cooldownUntil : Int]
      /\ a.cooldownUntil = older.cooldownUntil
      /\ Len(a.calls) <= Len(older.calls)
  BY <1>3, PruneType DEF a
<1>5. a \in [calls : Seq(Int), cooldownUntil : Nat] /\ Len(a.calls) <= Len(b.calls)
  BY <1>1, <1>2, <1>3, <1>4
<1> QED
  BY <1>5 DEF Age, a, older, c

------------------------------------------------------------------------------
(***************************************************************************)
(* What the budget remembers of the calls really granted: the latest ones,  *)
(* in order, and every call it forgot had left the window.                 *)
(***************************************************************************)
Forgotten(b, g) == Len(g) - Len(b.calls)

Remembers(b, g, at) ==
    /\ Len(b.calls) <= Len(g)
    /\ \A i \in 1..Len(b.calls) : b.calls[i] = g[Forgotten(b, g) + i]
    /\ \A i \in 1..Forgotten(b, g) : g[i] <= at - Window

(* Pruning keeps that. *)
LEMMA PruneRemembers ==
    ASSUME NEW b \in [calls : Seq(Nat), cooldownUntil : Nat],
           NEW g \in Seq(Nat), NEW at \in Nat, Remembers(b, g, at)
    PROVE  /\ Prune(b, at) \in [calls : Seq(Nat), cooldownUntil : Nat]
           /\ Prune(b, at).cooldownUntil = b.cooldownUntil
           /\ Len(Prune(b, at).calls) <= Len(b.calls)
           /\ Remembers(Prune(b, at), g, at)
<1> DEFINE n == Expired(b.calls, at)
           p == Prune(b, at)
<1>0. /\ n \in 0..Len(b.calls)
      /\ \A i \in 1..n : b.calls[i] <= at - Window
      /\ p \in [calls : Seq(Int), cooldownUntil : Int]
      /\ p.cooldownUntil = b.cooldownUntil
      /\ Len(p.calls) = Len(b.calls) - n
      /\ \A i \in 1..Len(p.calls) : p.calls[i] = b.calls[n + i]
  <2>1. at \in Int /\ b \in [calls : Seq(Int), cooldownUntil : Int]
    BY NaturalBudget
  <2> HIDE DEF n, p
  <2> QED
    BY ONLY <2>1, PruneKeepsSuffix DEF n, p
<1> HIDE DEF n, p
<1>1. /\ n \in 0..Len(b.calls)
      /\ \A i \in 1..n : b.calls[i] <= at - Window
      /\ p \in [calls : Seq(Nat), cooldownUntil : Nat]
      /\ p.cooldownUntil = b.cooldownUntil
      /\ Len(p.calls) = Len(b.calls) - n
      /\ \A i \in 1..Len(p.calls) : p.calls[i] = b.calls[n + i]
  <2>1. b.calls \in Seq(Nat) /\ Len(b.calls) \in Nat /\ n \in Nat
    BY <1>0
  <2>2. \A i \in (n + 1)..Len(b.calls) : b.calls[i] \in Nat
    <3> SUFFICES ASSUME NEW i \in (n + 1)..Len(b.calls) PROVE b.calls[i] \in Nat
      OBVIOUS
    <3>1. i \in 1..Len(b.calls)
      BY <2>1
    <3> QED
      BY <2>1, <3>1, ElementOfSeq
  <2>3. p.calls \in Seq(Nat)
    <3>1. SubSeq(b.calls, n + 1, Len(b.calls)) \in Seq(Nat)
      BY <2>1, <2>2, SubSeqProperties
    <3>2. p.calls = SubSeq(b.calls, n + 1, Len(b.calls))
      BY DEF Prune, p, n
    <3> QED
      BY <3>1, <3>2
  <2> QED
    BY <1>0, <2>3
<1>2. Len(b.calls) \in Nat /\ Len(g) \in Nat /\ Len(b.calls) <= Len(g)
  BY DEF Remembers
<1>3. Forgotten(p, g) = Forgotten(b, g) + n /\ Forgotten(b, g) \in Nat /\ n \in Nat
  BY <1>1, <1>2 DEF Forgotten
<1>4. Len(p.calls) \in Nat /\ Len(p.calls) <= Len(g) /\ Len(p.calls) <= Len(b.calls)
  BY <1>1, <1>2
<1>5. \A i \in 1..Len(p.calls) : p.calls[i] = g[Forgotten(p, g) + i]
  <2> TAKE i \in 1..Len(p.calls)
  <2>1. n + i \in 1..Len(b.calls)
    BY <1>1, <1>2
  <2>2. b.calls[n + i] = g[Forgotten(b, g) + (n + i)]
    BY <2>1 DEF Remembers
  <2>3. Forgotten(b, g) + (n + i) = Forgotten(p, g) + i
    BY <1>3, <1>4
  <2> QED
    BY <1>1, <2>2, <2>3
<1>6. \A i \in 1..Forgotten(p, g) : g[i] <= at - Window
  <2> TAKE i \in 1..Forgotten(p, g)
  <2>1. CASE i <= Forgotten(b, g)
    BY <2>1, <1>3 DEF Remembers
  <2>2. CASE i > Forgotten(b, g)
    <3> DEFINE k == i - Forgotten(b, g)
    <3>1. k \in 1..n /\ k \in 1..Len(b.calls) /\ Forgotten(b, g) + k = i
      <4>1. i \in Int /\ i <= Forgotten(b, g) + n
        BY <1>3
      <4>2. n \in Nat /\ Len(b.calls) \in Nat /\ n <= Len(b.calls) /\ Forgotten(b, g) \in Nat
        BY <1>1, <1>2, <1>3
      <4> QED
        BY <4>1, <4>2, <2>2
    <3>2. b.calls[k] = g[Forgotten(b, g) + k]
      BY <3>1 DEF Remembers
    <3> QED
      BY <3>1, <3>2, <1>1
  <2> QED
    BY <2>1, <2>2, <1>3
<1> QED
  BY <1>1, <1>4, <1>5, <1>6 DEF Remembers, p

(***************************************************************************)
(* The inductive invariant.  WindowCap alone is not inductive: that a call  *)
(* granted now is Window away from the MaxCalls-th call before it follows   *)
(* from what the budget remembers, and that the forgotten ones are old.     *)
(***************************************************************************)
Chronological ==
    /\ \A i \in 1..Len(grants) : grants[i] <= now
    /\ \A i, j \in 1..Len(grants) : i <= j => grants[i] <= grants[j]

HoldsInForce == \A h \in holds : h.until <= limiter.cooldownUntil

WindowIInv ==
    /\ WindowTypeOK
    /\ Remembers(limiter, grants, now)
    /\ Chronological
    /\ HoldsInForce
    /\ WindowCap
    /\ CooldownHonoured

(* A new budget satisfies it. *)
LEMMA WindowInitIInv == WindowInit => WindowIInv
<1> SUFFICES ASSUME WindowInit PROVE WindowIInv
  OBVIOUS
<1>1. grants = << >> /\ now = 0 /\ holds = {} /\ limiter.calls = << >> /\ limiter.cooldownUntil = 0
  BY DEF WindowInit, NewBudget
<1>2. WindowTypeOK
  BY BudgetAssumption DEF WindowInit, NewBudget, WindowTypeOK
<1>3. Remembers(limiter, grants, now)
  BY <1>1 DEF Remembers, Forgotten
<1>4. Chronological /\ HoldsInForce /\ WindowCap /\ CooldownHonoured
  BY <1>1, BudgetAssumption DEF Chronological, HoldsInForce, WindowCap, CooldownHonoured
<1> QED
  BY <1>2, <1>3, <1>4 DEF WindowIInv

(* Every method of the class, and time, preserves it. *)
LEMMA WindowStepIInv == WindowIInv /\ [WindowNext]_windowVars => WindowIInv'
<1> SUFFICES ASSUME WindowIInv, [WindowNext]_windowVars PROVE WindowIInv'
  OBVIOUS
<1> DEFINE p == Prune(limiter, now)
<1>0. /\ now \in Nat /\ grants \in Seq(Nat) /\ Len(grants) \in Nat
      /\ limiter \in [calls : Seq(Nat), cooldownUntil : Nat]
      /\ Len(limiter.calls) \in Nat /\ Len(limiter.calls) <= MaxCalls
      /\ holds \subseteq [after : Nat, until : Nat]
      /\ MaxCalls \in Nat /\ Window \in Nat
  BY BudgetAssumption DEF WindowIInv, WindowTypeOK
<1>1. /\ p \in [calls : Seq(Nat), cooldownUntil : Nat]
      /\ p.cooldownUntil = limiter.cooldownUntil
      /\ Len(p.calls) \in Nat /\ Len(p.calls) <= Len(limiter.calls)
      /\ Remembers(p, grants, now)
  <2>1. Remembers(limiter, grants, now)
    BY DEF WindowIInv
  <2>2. /\ p \in [calls : Seq(Nat), cooldownUntil : Nat]
        /\ p.cooldownUntil = limiter.cooldownUntil
        /\ Len(p.calls) <= Len(limiter.calls)
        /\ Remembers(p, grants, now)
    BY <1>0, <2>1, PruneRemembers
  <2> QED
    BY <2>2
<1> HIDE DEF p
(* the budget is only pruned: the histories stay as they are *)
<1>2. ASSUME limiter' = p, UNCHANGED <<now, grants, holds>>
      PROVE  WindowIInv'
  <2>1. WindowTypeOK'
    BY <1>0, <1>1, <1>2 DEF WindowTypeOK
  <2>2. Remembers(limiter, grants, now)'
    BY <1>1, <1>2 DEF Remembers, Forgotten
  <2>3. Chronological' /\ WindowCap' /\ CooldownHonoured'
    BY <1>2 DEF WindowIInv, Chronological, WindowCap, CooldownHonoured
  <2>4. HoldsInForce'
    BY <1>1, <1>2 DEF WindowIInv, HoldsInForce
  <2> QED
    BY <2>1, <2>2, <2>3, <2>4 DEF WindowIInv
<1>3. CASE TakeGranted
  <2> DEFINE g == Append(grants, now)
  <2>1. /\ grants' = g /\ now' = now /\ holds' = holds
        /\ limiter' = [limiter EXCEPT !.calls = Append(p.calls, now)]
        /\ now >= limiter.cooldownUntil /\ Len(p.calls) < MaxCalls
    BY <1>3 DEF TakeGranted, Available, Used, Take, p
  <2>0. Len(p.calls) \in Nat /\ Len(grants) \in Nat /\ MaxCalls \in Nat
    BY <1>0, <1>1
  <2>2. /\ g \in Seq(Nat) /\ Len(g) = Len(grants) + 1
        /\ \A i \in 1..Len(grants) : g[i] = grants[i]
        /\ g[Len(grants) + 1] = now
    BY <1>0
  <2>3. /\ limiter'.calls \in Seq(Nat) /\ Len(limiter'.calls) = Len(p.calls) + 1
        /\ \A i \in 1..Len(p.calls) : limiter'.calls[i] = p.calls[i]
        /\ limiter'.calls[Len(p.calls) + 1] = now
        /\ limiter'.cooldownUntil = limiter.cooldownUntil
        /\ limiter' \in [calls : Seq(Nat), cooldownUntil : Nat]
    <3> DEFINE c == Append(p.calls, now)
    <3>1. /\ c \in Seq(Nat) /\ Len(c) = Len(p.calls) + 1
          /\ \A i \in 1..Len(p.calls) : c[i] = p.calls[i]
          /\ c[Len(p.calls) + 1] = now
      <4>1. p.calls \in Seq(Nat)
        BY <1>1
      <4> QED
        BY <4>1, <1>0
    <3>2. limiter' = [limiter EXCEPT !.calls = c]
      BY <2>1
    <3> HIDE DEF c
    <3>3. limiter'.calls = c /\ limiter'.cooldownUntil = limiter.cooldownUntil
          /\ limiter' \in [calls : Seq(Nat), cooldownUntil : Nat]
      BY <3>1, <3>2, <1>0
    <3> QED
      BY <3>1, <3>3
  <2> HIDE DEF g
  <2>4. WindowTypeOK'
    <3>1. Len(limiter'.calls) <= MaxCalls
      BY <2>0, <2>1, <2>3
    <3>2. now' \in Nat /\ grants' \in Seq(Nat) /\ holds' \subseteq [after : Nat, until : Nat]
      BY <1>0, <2>1, <2>2
    <3> QED
      BY <2>3, <3>1, <3>2 DEF WindowTypeOK
  <2>5. Forgotten(limiter', g) = Forgotten(p, grants) /\ Forgotten(p, grants) \in Nat
        /\ Forgotten(p, grants) + Len(p.calls) = Len(grants)
    BY <1>0, <1>1, <2>2, <2>3 DEF Forgotten, Remembers
  <2>6. Remembers(limiter, grants, now)'
    <3>1. Len(limiter'.calls) <= Len(g)
      BY <1>0, <1>1, <2>2, <2>3 DEF Remembers
    <3>2. ASSUME NEW i \in 1..Len(limiter'.calls)
          PROVE  limiter'.calls[i] = g[Forgotten(limiter', g) + i]
      <4>1. CASE i \in 1..Len(p.calls)
        <5>1. limiter'.calls[i] = grants[Forgotten(p, grants) + i]
          BY <4>1, <2>3, <1>1 DEF Remembers
        <5>2. Forgotten(p, grants) + i \in 1..Len(grants)
          BY <4>1, <2>5, <2>0
        <5> QED
          BY <5>1, <5>2, <2>2, <2>5
      <4>2. CASE i = Len(p.calls) + 1
        <5>1. Forgotten(limiter', g) + i = Len(grants) + 1
          BY <4>2, <2>5, <2>0
        <5> QED
          BY <5>1, <4>2, <2>2, <2>3
      <4> QED
        BY <4>1, <4>2, <3>2, <2>3, <1>1
    <3>3. ASSUME NEW i \in 1..Forgotten(limiter', g)
          PROVE  g[i] <= now - Window
      <4>1. i \in 1..Forgotten(p, grants) /\ i \in 1..Len(grants)
        BY <2>5, <1>0, <1>1
      <4> QED
        BY <4>1, <2>2, <1>1 DEF Remembers
    <3> QED
      BY <3>1, <3>2, <3>3, <2>1 DEF Remembers
  <2>7. Chronological'
    <3> SUFFICES /\ \A i \in 1..Len(g) : g[i] <= now
                 /\ \A i, j \in 1..Len(g) : i <= j => g[i] <= g[j]
      BY <2>1 DEF Chronological
    <3>1. ASSUME NEW i \in 1..Len(g) PROVE g[i] <= now
      <4>1. CASE i \in 1..Len(grants)
        BY <4>1, <2>2 DEF WindowIInv, Chronological
      <4>2. CASE i = Len(grants) + 1
        BY <4>2, <2>2, <1>0
      <4> QED
        BY <4>1, <4>2, <2>2, <1>0
    <3>2. ASSUME NEW i \in 1..Len(g), NEW j \in 1..Len(g), i <= j PROVE g[i] <= g[j]
      <4>1. CASE j \in 1..Len(grants)
        <5>1. i \in 1..Len(grants)
          BY <4>1, <3>2, <2>0
        <5> QED
          BY <4>1, <5>1, <3>2, <2>2 DEF WindowIInv, Chronological
      <4>2. CASE j = Len(grants) + 1
        BY <4>2, <3>1, <2>2
      <4> QED
        BY <4>1, <4>2, <2>2, <1>0
    <3> QED
      BY <3>1, <3>2
  <2>8. HoldsInForce'
    BY <2>1, <2>3 DEF WindowIInv, HoldsInForce
  <2>9. WindowCap'
    <3> SUFFICES ASSUME NEW i \in 1..Len(g), i + MaxCalls <= Len(g)
                 PROVE  g[i + MaxCalls] - g[i] >= Window
      BY <2>1 DEF WindowCap
    <3>1. i \in Nat /\ i >= 1 /\ MaxCalls >= 1
      BY <2>2, <1>0, BudgetAssumption
    <3>2. CASE i + MaxCalls <= Len(grants)
      <4>1. i \in 1..Len(grants) /\ i + MaxCalls \in 1..Len(grants)
        BY <3>1, <3>2, <1>0
      <4>2. grants[i + MaxCalls] - grants[i] >= Window
        BY <4>1, <3>2 DEF WindowIInv, WindowCap
      <4> QED
        BY <4>1, <4>2, <2>2
    <3>3. CASE i + MaxCalls = Len(grants) + 1
      <4>1. i \in 1..Forgotten(p, grants) /\ i \in 1..Len(grants)
        BY <3>1, <3>3, <2>5, <2>1, <2>0
      <4>2. g[i] = grants[i]
        BY <4>1, <2>2
      <4>3. grants[i] <= now - Window
        <5>1. Remembers(p, grants, now)
          BY <1>1
        <5> QED
          BY <4>1, <5>1 DEF Remembers
      <4>4. grants[i] \in Nat
        BY <4>1, <1>0
      <4>5. g[i + MaxCalls] = now
        BY <3>3, <2>2
      <4>6. now \in Nat /\ Window \in Nat
        BY <1>0, BudgetAssumption
      <4> QED
        BY <4>2, <4>3, <4>4, <4>5, <4>6
    <3>4. i + MaxCalls <= Len(grants) \/ i + MaxCalls = Len(grants) + 1
      <4>1. Len(g) = Len(grants) + 1
        BY <2>2
      <4>2. i \in Nat /\ MaxCalls \in Nat /\ Len(grants) \in Nat
        BY <3>1, <2>0
      <4> QED
        BY <4>1, <4>2
    <3> QED
      BY <3>2, <3>3, <3>4
  <2>10. CooldownHonoured'
    <3> SUFFICES ASSUME NEW h \in holds, NEW i \in (h.after + 1)..Len(g)
                 PROVE  g[i] >= h.until
      BY <2>1 DEF CooldownHonoured
    <3>1. h.after \in Nat /\ h.until \in Nat /\ i \in 1..Len(g)
      BY <1>0, <2>2
    <3>2. CASE i \in 1..Len(grants)
      <4>1. i \in (h.after + 1)..Len(grants)
        BY <3>1, <3>2
      <4> QED
        BY <4>1, <3>2, <2>2 DEF WindowIInv, CooldownHonoured
    <3>3. CASE i = Len(grants) + 1
      <4>1. h.until <= limiter.cooldownUntil /\ limiter.cooldownUntil \in Nat
        BY <1>0 DEF WindowIInv, HoldsInForce
      <4> QED
        BY <4>1, <3>1, <3>3, <2>1, <2>2, <1>0
    <3> QED
      BY <3>1, <3>2, <3>3, <2>2, <1>0
  <2> QED
    BY <2>4, <2>6, <2>7, <2>8, <2>9, <2>10 DEF WindowIInv
<1>4. CASE TakeRefused
  BY <1>2, <1>4 DEF TakeRefused, p
<1>5. CASE Look
  BY <1>2, <1>5 DEF Look, p
<1>6. CASE \E seconds \in Delays : CoolDown(seconds)
  <2> PICK seconds \in Delays : CoolDown(seconds)
    BY <1>6
  <2> DEFINE h == [after |-> Len(grants), until |-> now + seconds]
  <2>1. seconds \in Nat
    BY WindowAssumption
  <2>2. /\ now' = now /\ grants' = grants
        /\ holds' = holds \cup {h}
        /\ limiter' \in [calls : Seq(Nat), cooldownUntil : Nat]
        /\ limiter'.calls = limiter.calls
        /\ limiter'.cooldownUntil >= limiter.cooldownUntil
        /\ limiter'.cooldownUntil >= now + seconds
    BY <1>0, <2>1 DEF CoolDown, Cooldown
  <2>3. h \in [after : Nat, until : Nat] /\ h.after = Len(grants) /\ h.until = now + seconds
    BY <1>0, <2>1
  <2> HIDE DEF h
  <2>4. WindowTypeOK'
    BY <1>0, <2>2, <2>3 DEF WindowTypeOK
  <2>5. Remembers(limiter, grants, now)'
    BY <2>2 DEF WindowIInv, Remembers, Forgotten
  <2>6. Chronological' /\ WindowCap'
    BY <2>2 DEF WindowIInv, Chronological, WindowCap
  <2>7. HoldsInForce'
    <3> SUFFICES ASSUME NEW k \in holds \cup {h} PROVE k.until <= limiter'.cooldownUntil
      BY <2>2 DEF HoldsInForce
    <3>1. CASE k \in holds
      <4>1. k.until \in Nat /\ k.until <= limiter.cooldownUntil
        BY <3>1, <1>0 DEF WindowIInv, HoldsInForce
      <4> QED
        BY <4>1, <2>2, <1>0
    <3>2. CASE k = h
      BY <3>2, <2>2, <2>3, <2>1, <1>0
    <3> QED
      BY <3>1, <3>2
  <2>8. CooldownHonoured'
    BY <2>2, <2>3, <1>0 DEF WindowIInv, CooldownHonoured
  <2> QED
    BY <2>4, <2>5, <2>6, <2>7, <2>8 DEF WindowIInv
<1>7. CASE ClockTick
  <2>1. /\ now' = now + 1 /\ limiter' = limiter /\ grants' = grants /\ holds' = holds
    BY <1>7 DEF ClockTick
  <2>2. WindowTypeOK'
    BY <1>0, <2>1 DEF WindowTypeOK
  <2>3. Remembers(limiter, grants, now)'
    <3> SUFFICES ASSUME NEW i \in 1..Forgotten(limiter, grants)
                 PROVE  grants[i] <= (now + 1) - Window
      BY <2>1 DEF WindowIInv, Remembers, Forgotten
    <3>1. grants[i] <= now - Window /\ i \in 1..Len(grants)
      BY <1>0 DEF WindowIInv, Remembers, Forgotten
    <3> QED
      BY <3>1, <1>0
  <2>4. Chronological'
    <3> SUFFICES ASSUME NEW i \in 1..Len(grants) PROVE grants[i] <= now + 1
      BY <2>1 DEF WindowIInv, Chronological
    <3>1. grants[i] \in Nat /\ grants[i] <= now
      BY <1>0 DEF WindowIInv, Chronological
    <3> QED
      BY <3>1, <1>0
  <2>5. HoldsInForce' /\ WindowCap' /\ CooldownHonoured'
    BY <2>1 DEF WindowIInv, HoldsInForce, WindowCap, CooldownHonoured
  <2> QED
    BY <2>2, <2>3, <2>4, <2>5 DEF WindowIInv
<1>8. CASE UNCHANGED windowVars
  <2>1. now' = now /\ limiter' = limiter /\ grants' = grants /\ holds' = holds
    BY <1>8 DEF windowVars
  <2> QED
    BY <2>1 DEF WindowIInv, WindowTypeOK, Remembers, Forgotten, Chronological, HoldsInForce,
                WindowCap, CooldownHonoured
<1> QED
  BY <1>3, <1>4, <1>5, <1>6, <1>7, <1>8 DEF WindowNext

(***************************************************************************)
(* IInv rules out a refusal without cause: a budget that refuses with no    *)
(* cooldown in force remembers MaxCalls calls, all inside the window.      *)
(***************************************************************************)
LEMMA WindowNoBudgetLost == WindowIInv => NoBudgetLost
<1> SUFFICES ASSUME WindowIInv, ~ Available(limiter, now), now >= limiter.cooldownUntil
             PROVE  /\ Len(grants) >= MaxCalls
                    /\ now - grants[Len(grants) - MaxCalls + 1] < Window
  BY DEF NoBudgetLost
<1> DEFINE p == Prune(limiter, now)
           n == Expired(limiter.calls, now)
<1>1. /\ now \in Nat /\ grants \in Seq(Nat) /\ Len(grants) \in Nat
      /\ limiter \in [calls : Seq(Nat), cooldownUntil : Nat]
      /\ Len(limiter.calls) \in Nat /\ Len(limiter.calls) <= MaxCalls
      /\ MaxCalls \in Nat /\ MaxCalls >= 1 /\ Window \in Nat
  BY BudgetAssumption DEF WindowIInv, WindowTypeOK
<1>2. /\ n \in 0..Len(limiter.calls)
      /\ Len(p.calls) = Len(limiter.calls) - n
      /\ \A i \in 1..Len(p.calls) : p.calls[i] = limiter.calls[n + i]
      /\ Len(p.calls) > 0 => p.calls[1] > now - Window
  <2>1. now \in Int /\ limiter \in [calls : Seq(Int), cooldownUntil : Int]
    BY <1>1, NaturalBudget
  <2> HIDE DEF n, p
  <2> QED
    BY ONLY <2>1, PruneKeepsSuffix DEF n, p
<1>3. ~ (Len(p.calls) < MaxCalls)
  BY DEF Available, Used
<1> HIDE DEF n, p
<1>4. n = 0 /\ Len(p.calls) = MaxCalls /\ Len(limiter.calls) = MaxCalls
  BY <1>1, <1>2, <1>3
<1>5. limiter.calls[1] > now - Window
  BY <1>1, <1>2, <1>4
<1>6. /\ Len(limiter.calls) <= Len(grants)
      /\ limiter.calls[1] = grants[Len(grants) - MaxCalls + 1]
  BY <1>1, <1>4 DEF WindowIInv, Remembers, Forgotten
<1>7. grants[Len(grants) - MaxCalls + 1] \in Nat
  BY <1>1, <1>4, <1>6
<1> QED
  BY <1>1, <1>4, <1>5, <1>6, <1>7

(* So it holds of every budget at every moment. *)
LEMMA WindowInvariant == WindowSpec => []WindowIInv
BY WindowInitIInv, WindowStepIInv, PTL DEF WindowSpec

(***************************************************************************)
(* The state of a budget is always what the class declares, and it never    *)
(* remembers more calls than its cap.                                      *)
(***************************************************************************)
THEOREM WindowTypeCorrect == WindowSpec => []WindowTypeOK
<1>1. WindowIInv => WindowTypeOK
  BY DEF WindowIInv
<1> QED
  BY <1>1, WindowInvariant, PTL

(***************************************************************************)
(* For every cap, window and interleaving of take, cooldown and time, no    *)
(* window holds more granted calls than the cap.                           *)
(***************************************************************************)
THEOREM WindowCapHolds == WindowSpec => []WindowCap
<1>1. WindowIInv => WindowCap
  BY DEF WindowIInv
<1> QED
  BY <1>1, WindowInvariant, PTL

(***************************************************************************)
(* No call is granted before the end of a cooldown requested earlier.       *)
(***************************************************************************)
THEOREM CooldownHolds == WindowSpec => []CooldownHonoured
<1>1. WindowIInv => CooldownHonoured
  BY DEF WindowIInv
<1> QED
  BY <1>1, WindowInvariant, PTL

(***************************************************************************)
(* A budget never refuses for calls that were not made.                     *)
(***************************************************************************)
THEOREM NothingLost == WindowSpec => []NoBudgetLost
BY WindowInvariant, WindowNoBudgetLost, PTL

------------------------------------------------------------------------------
(***************************************************************************)
(* The inductive invariant.  The properties need to know of each other, of  *)
(* rows that do not exist yet (nothing was sent for them), and what the     *)
(* answer in the loop's hands means: "ok" is about a copy that arrived.     *)
(***************************************************************************)
AbsentIsBlank ==
    \A e \in Events :
        /\ outbox[e].state = "absent" <=> outbox[e].kind = None
        /\ outbox[e].state = "absent" => outbox[e].attempts = 0

HeldRow ==
    pc = "sending" =>
        /\ item \in Events
        /\ outbox[item].state = "pending"
        /\ outbox[item].attempts > 0
        /\ reply = "ok" => copies[item] > 0 /\ flight[item] = 0

SentIsOver == \A e \in Events : outbox[e].state = "sent" => flight[e] = 0

Safe ==
    /\ CopiesWithinAttempts
    /\ SettledTruthfully
    /\ NoConcurrentSends
    /\ OneRowPerClaim

IInv == TypeOK /\ AbsentIsBlank /\ HeldRow /\ SentIsOver /\ Safe

(* The constants as the proofs use them. *)
LEMMA Constants ==
    /\ MaxAttempts \in Nat /\ MaxAttempts >= 1
    /\ Timeout \in Nat /\ Timeout >= 1
    /\ Lease \in Nat /\ Lease >= Timeout
    /\ \A n \in 1..MaxAttempts : Backoff[n] \in Nat /\ Backoff[n] >= Timeout
    /\ Penalty \in Nat /\ Interval \in Nat /\ Hour \in Nat /\ MaxCrashes \in Nat
    /\ \A e \in Events : TokenOf[e] \in Tokens
BY OutboxAssumption

(* A row of telegram_outbox, and the table. *)
Row == [state : {"absent", "pending", "sent", "failed"},
        attempts : 0..MaxAttempts, kind : Kinds \cup {None}]
Rows == [Events -> Row]

(* Retiring rows leaves a table of rows. *)
LEMMA RetiredType ==
    ASSUME TypeOK
    PROVE  Retired \in Rows
BY DEF TypeOK, Retired, Rows, Row

(* A fresh database and process are well typed. *)
LEMMA InitTypeOK == Init => TypeOK
<1> SUFFICES ASSUME Init PROVE TypeOK
  OBVIOUS
<1>1. budget \in [calls : Seq(Int), cooldownUntil : Nat] /\ Len(budget.calls) <= MaxCalls
  BY BudgetAssumption DEF Init, NewBudget
<1> QED
  BY <1>1, Constants DEF Init, TypeOK, AbsentRow, Replies, Kinds, None

(* Every step keeps the types; a mark needs to know that the loop holds a row. *)
LEMMA StepTypeOK == TypeOK /\ HeldRow /\ [Next]_vars => TypeOK'
<1> SUFFICES ASSUME TypeOK, HeldRow, [Next]_vars PROVE TypeOK'
  OBVIOUS
<1>0. /\ budget \in [calls : Seq(Int), cooldownUntil : Nat]
      /\ Len(budget.calls) <= MaxCalls /\ MaxCalls \in Nat
  BY BudgetAssumption DEF TypeOK
<1> USE Constants DEF TypeOK, Kinds, Replies, tables, memory, world
<1>1. ASSUME NEW e \in Events, NEW k \in Kinds, Claim(e, k),
             sampled' \in [Tokens -> 0..Hour]
      PROVE  TypeOK'
  <2>1. ClaimOf(k, e) \in Claims
    BY DEF ClaimOf, Claims
  <2>2. outbox' \in Rows
    <3>1. [state |-> "pending", attempts |-> 0, kind |-> k] \in Row
      BY DEF Row
    <3>2. outbox \in Rows /\ outbox' = [outbox EXCEPT ![e] =
                                [state |-> "pending", attempts |-> 0, kind |-> k]]
      BY <1>1 DEF Claim, Rows, Row
    <3> HIDE DEF TypeOK
    <3> QED
      BY <3>1, <3>2 DEF Rows
  <2>3. wait' \in [Events -> Nat]
    BY <1>1 DEF Claim
  <2> QED
    BY <1>1, <2>1, <2>2, <2>3 DEF Claim, Rows, Row
<1>2. ASSUME NEW e \in Events, PollClaims(e) PROVE TypeOK'
  <2>1. outbox' \in Rows
    <3>1. Retired[e] \in Row /\ Retired[e].attempts < MaxAttempts
      BY <1>2, RetiredType DEF PollClaims, Due, Rows
    <3>2. Retired[e].attempts + 1 \in 0..MaxAttempts
      <4>1. Retired[e].attempts \in 0..MaxAttempts
        BY <3>1 DEF Row
      <4> HIDE DEF TypeOK
      <4> QED
        BY <3>1, <4>1
    <3>3. [Retired[e] EXCEPT !.attempts = @ + 1] \in Row
      BY <3>1, <3>2 DEF Row
    <3> QED
      BY <1>2, <3>3, RetiredType DEF PollClaims, Attempted, Rows
  <2>2. budget' \in [calls : Seq(Int), cooldownUntil : Nat] /\ Len(budget'.calls) <= MaxCalls
    <3>1. Available(budget, 0) /\ budget' = Take(budget, 0) /\ 0 \in Int
      BY <1>2 DEF PollClaims, LoopReady
    <3> QED
      BY <1>0, <3>1, TakeType
  <2>3. wait' \in [Events -> Nat] /\ flight' \in [Events -> 0..Timeout]
    BY <1>2 DEF PollClaims, Leased
  <2> QED
    BY <1>2, <2>1, <2>2, <2>3 DEF PollClaims, Rows, Row
<1>3. CASE PollFindsNothingDue
  BY <1>3, RetiredType DEF PollFindsNothingDue, Rows, Row
<1>4. CASE MarkSent
  <2>1. item \in Events /\ outbox \in Rows
    BY <1>4 DEF MarkSent, HeldRow, Rows, Row
  <2>2. [outbox[item] EXCEPT !.state = "sent"] \in Row
    <3>1. outbox[item] \in Row
      BY <2>1 DEF Rows
    <3> HIDE DEF TypeOK
    <3> QED
      BY <3>1 DEF Row
  <2>3. outbox' = [outbox EXCEPT ![item] = [outbox[item] EXCEPT !.state = "sent"]]
    BY <1>4 DEF MarkSent
  <2>4. outbox' \in Rows
    BY <2>1, <2>2, <2>3 DEF Rows
  <2>5. /\ wait' = wait /\ claims' = claims /\ sampled' = sampled /\ budget' = budget
        /\ flight' = flight /\ copies' = copies /\ crashes' = crashes
        /\ pc' = "idle" /\ item' = None /\ reply' = "none" /\ pause' = Interval
    BY <1>4 DEF MarkSent
  <2> QED
    BY <2>4, <2>5 DEF Rows, Row
<1>5. CASE MarkSentRaises
  BY <1>5 DEF MarkSentRaises
<1>6. CASE MarkRetry
  <2> DEFINE delay == RetryDelay(outbox[item].attempts)
  <2>1. delay \in Nat
    <3>1. outbox[item].attempts \in 1..MaxAttempts
      BY <1>6 DEF MarkRetry, HeldRow
    <3> QED
      BY <3>1 DEF RetryDelay
  <2>2. /\ wait' = [wait EXCEPT ![item] = delay]
        /\ budget' = IF reply = "429" THEN Cooldown(budget, 0, delay) ELSE budget
    BY <1>6 DEF MarkRetry
  <2> HIDE DEF delay
  <2>3. wait' \in [Events -> Nat]
    BY <2>1, <2>2
  <2>4. budget' \in [calls : Seq(Int), cooldownUntil : Nat] /\ Len(budget'.calls) <= MaxCalls
    <3> DEFINE until == IF 0 + delay > budget.cooldownUntil THEN 0 + delay
                                                            ELSE budget.cooldownUntil
    <3>1. until \in Nat
      BY <1>0, <2>1
    <3>2. budget' = IF reply = "429" THEN [budget EXCEPT !.cooldownUntil = until] ELSE budget
      BY <2>2 DEF Cooldown
    <3> HIDE DEF until
    <3> QED
      BY <1>0, <3>1, <3>2
  <2> QED
    BY <1>6, <2>3, <2>4 DEF MarkRetry
<1>7. ASSUME NEW e \in Events, TelegramAccepts(e) PROVE TypeOK'
  <2>1. copies' \in [Events -> Nat] /\ flight' \in [Events -> 0..Timeout]
    <3>1. copies \in [Events -> Nat] /\ flight \in [Events -> 0..Timeout] /\ 0 \in 0..Timeout
      OBVIOUS
    <3>2. copies' = [copies EXCEPT ![e] = @ + 1] /\ flight' = [flight EXCEPT ![e] = 0]
      BY <1>7 DEF TelegramAccepts
    <3> HIDE Constants DEF TypeOK
    <3> QED
      BY <3>1, <3>2
  <2>2. reply' \in Replies
    BY <1>7 DEF TelegramAccepts
  <2> QED
    BY <1>7, <2>1, <2>2 DEF TelegramAccepts
<1>8. ASSUME NEW e \in Events, TelegramRejects(e) PROVE TypeOK'
  <2>1. flight' \in [Events -> 0..Timeout] /\ reply' \in Replies
    BY <1>8 DEF TelegramRejects
  <2> QED
    BY <1>8, <2>1 DEF TelegramRejects
<1>9. ASSUME NEW e \in Events, ConnectionBreaks(e) PROVE TypeOK'
  BY <1>9 DEF ConnectionBreaks
<1>10. CASE Tick
  <2>1. budget' \in [calls : Seq(Int), cooldownUntil : Nat] /\ Len(budget'.calls) <= MaxCalls
    <3>1. budget' = Age(budget)
      BY <1>10 DEF Tick
    <3>2. /\ Age(budget) \in [calls : Seq(Int), cooldownUntil : Nat]
          /\ Len(Age(budget).calls) <= Len(budget.calls)
      BY <1>0, AgeType
    <3> QED
      BY <1>0, <3>1, <3>2
  <2>2. /\ wait' \in [Events -> Nat] /\ sampled' \in [Tokens -> 0..Hour]
        /\ pause' \in 0..Interval /\ flight' \in [Events -> 0..Timeout]
    BY <1>10 DEF Tick, Less
  <2> QED
    BY <1>10, <2>1, <2>2 DEF Tick
<1>11. CASE Crash
  BY <1>11, BudgetAssumption DEF Crash, NewBudget
<1>12. CASE Restart
  BY <1>12 DEF Restart
<1>13. CASE UNCHANGED vars
  BY <1>13 DEF vars
<1>14. ASSUME NEW e \in Events, EnqueueStrong(e) PROVE TypeOK'
  BY <1>1, <1>14 DEF EnqueueStrong
<1>15. ASSUME NEW e \in Events, EnqueueSample(e) PROVE TypeOK'
  <2>1. sampled' \in [Tokens -> 0..Hour]
    BY <1>15 DEF EnqueueSample
  <2> QED
    BY <1>1, <1>15, <2>1 DEF EnqueueSample
<1> QED
  BY <1>2, <1>3, <1>4, <1>5, <1>6, <1>7, <1>8, <1>9, <1>10, <1>11, <1>12, <1>13,
     <1>14, <1>15 DEF Next

(***************************************************************************)
(* What claim_due_telegram does to the rows before it takes one: pending    *)
(* rows whose attempts are spent become failed, nothing else changes.       *)
(***************************************************************************)
LEMMA RetiredRows ==
    ASSUME TypeOK, NEW e \in Events
    PROVE  /\ Retired[e].attempts = outbox[e].attempts
           /\ Retired[e].kind = outbox[e].kind
           /\ \/ Retired[e].state = outbox[e].state /\ ~ Exhausted(e)
              \/ /\ Retired[e].state = "failed" /\ outbox[e].state = "pending"
                 /\ outbox[e].attempts = MaxAttempts
<1>1. outbox[e] \in Row
  BY DEF TypeOK, Row
<1>2. CASE Exhausted(e)
  <2>1. outbox[e].attempts \in 0..MaxAttempts /\ outbox[e].attempts >= MaxAttempts
    BY <1>1, <1>2 DEF Row, Exhausted
  <2>2. outbox[e].attempts = MaxAttempts
    BY <2>1, Constants
  <2> QED
    BY <1>1, <1>2, <2>2 DEF Retired, Row, Exhausted
<1>3. CASE ~ Exhausted(e)
  BY <1>1, <1>3 DEF Retired, Row
<1> QED
  BY <1>2, <1>3

(* What is said of claims depends on the kind and presence of rows alone.    *)
LEMMA ClaimsKept ==
    ASSUME OneRowPerClaim, claims' = claims,
           \A e \in Events : /\ outbox'[e].kind = outbox[e].kind
                             /\ outbox'[e].state = "absent" <=> outbox[e].state = "absent"
    PROVE  OneRowPerClaim'
BY DEF OneRowPerClaim, ClaimOf

(* Nothing is queued, claimed or sent at first. *)
LEMMA InitSafe == Init => AbsentIsBlank /\ HeldRow /\ SentIsOver /\ Safe
BY DEF Init, AbsentRow, AbsentIsBlank, HeldRow, SentIsOver, Safe, CopiesWithinAttempts,
       SettledTruthfully, NoConcurrentSends, OneRowPerClaim

(***************************************************************************)
(* Every step preserves what is said of rows, claims and copies.            *)
(***************************************************************************)
LEMMA StepSafe ==
    IInv /\ [Next]_vars => (AbsentIsBlank /\ HeldRow /\ SentIsOver /\ Safe)'
<1> DEFINE Good == AbsentIsBlank /\ HeldRow /\ SentIsOver /\ Safe
<1> SUFFICES ASSUME IInv, [Next]_vars PROVE Good'
  OBVIOUS
<1>0. /\ TypeOK /\ AbsentIsBlank /\ HeldRow /\ SentIsOver
      /\ CopiesWithinAttempts /\ SettledTruthfully /\ NoConcurrentSends /\ OneRowPerClaim
  BY DEF IInv, Safe
<1>1. \A e \in Events :
          /\ outbox[e] \in Row
          /\ outbox[e].attempts \in Nat /\ outbox[e].attempts <= MaxAttempts
          /\ flight[e] \in Nat /\ flight[e] <= Timeout
          /\ copies[e] \in Nat /\ wait[e] \in Nat
          /\ copies[e] + (IF flight[e] > 0 THEN 1 ELSE 0) <= outbox[e].attempts
  <2>1. \A e \in Events : outbox[e] \in Row
    BY <1>0 DEF TypeOK, Row
  <2>2. \A e \in Events : outbox[e].attempts \in 0..MaxAttempts /\ flight[e] \in 0..Timeout
    BY <1>0, <2>1 DEF TypeOK, Row
  <2>3. \A e \in Events : copies[e] \in Nat /\ wait[e] \in Nat
    BY <1>0 DEF TypeOK
  <2> QED
    BY <1>0, <2>1, <2>2, <2>3, Constants DEF CopiesWithinAttempts
<1>2. outbox \in Rows /\ flight \in [Events -> Nat] /\ copies \in [Events -> Nat]
      /\ wait \in [Events -> Nat]
  BY <1>0 DEF TypeOK, Rows, Row
<1> USE DEF tables, memory, world
(* the tables stay, and what Telegram did is seen through these facts *)
<1>3. ASSUME outbox' = outbox, claims' = claims, HeldRow',
             \A e \in Events : /\ flight'[e] \in Nat /\ flight'[e] <= flight[e]
                               /\ copies'[e] \in Nat /\ copies'[e] >= copies[e]
                               /\ copies'[e] + (IF flight'[e] > 0 THEN 1 ELSE 0)
                                    <= copies[e] + (IF flight[e] > 0 THEN 1 ELSE 0)
                               /\ flight'[e] > 0 => wait'[e] \in Nat
                                                    /\ wait'[e] - flight'[e] >= wait[e] - flight[e]
      PROVE  Good'
  <2>1. AbsentIsBlank'
    BY <1>0, <1>3 DEF AbsentIsBlank
  <2>2. SentIsOver'
    BY <1>0, <1>1, <1>3 DEF SentIsOver
  <2>3. CopiesWithinAttempts'
    <3> SUFFICES ASSUME NEW e \in Events
                 PROVE  copies'[e] + (IF flight'[e] > 0 THEN 1 ELSE 0) <= outbox[e].attempts
      BY <1>3 DEF CopiesWithinAttempts
    <3> QED
      BY <1>1, <1>3
  <2>4. SettledTruthfully'
    BY <1>0, <1>1, <1>3 DEF SettledTruthfully
  <2>5. NoConcurrentSends'
    <3> SUFFICES ASSUME NEW e \in Events, flight'[e] > 0,
                        outbox[e].state = "pending", ~ Exhausted(e)
                 PROVE  wait'[e] >= flight'[e]
      BY <1>3 DEF NoConcurrentSends, Exhausted
    <3>1. flight[e] > 0
      BY <1>1, <1>3
    <3>2. wait[e] >= flight[e]
      BY <1>0, <3>1 DEF NoConcurrentSends
    <3> QED
      BY <1>1, <1>3, <3>2
  <2>6. OneRowPerClaim'
    BY <1>0, <1>3, ClaimsKept
  <2> QED
    BY <2>1, <2>2, <2>3, <2>4, <2>5, <2>6, <1>3 DEF Safe
<1>4. ASSUME NEW e \in Events, NEW k \in Kinds, Claim(e, k) PROVE Good'
  <2>1. /\ outbox[e].state = "absent" /\ ClaimOf(k, e) \notin claims
        /\ claims' = claims \cup {ClaimOf(k, e)}
        /\ outbox' = [outbox EXCEPT ![e] =
                        [state |-> "pending", attempts |-> 0, kind |-> k]]
        /\ wait' = [wait EXCEPT ![e] = 0]
        /\ pc' = pc /\ item' = item /\ reply' = reply
        /\ flight' = flight /\ copies' = copies
    BY <1>4 DEF Claim, Unclaimed
  <2>2. /\ outbox'[e].state = "pending" /\ outbox'[e].attempts = 0 /\ outbox'[e].kind = k
        /\ k # None
    BY <1>2, <2>1 DEF Rows, Kinds, None
  <2>3. \A x \in Events \ {e} : outbox'[x] = outbox[x] /\ wait'[x] = wait[x]
    BY <1>2, <2>1 DEF Rows
  <2>4. copies[e] = 0 /\ flight[e] = 0
    <3>1. outbox[e].attempts = 0
      BY <1>0, <2>1 DEF AbsentIsBlank
    <3> QED
      BY <3>1, <1>1
  <2>5. AbsentIsBlank'
    BY <1>0, <2>2, <2>3 DEF AbsentIsBlank
  <2>6. HeldRow'
    BY <1>0, <2>1, <2>3 DEF HeldRow
  <2>7. SentIsOver'
    BY <1>0, <2>1, <2>2, <2>3 DEF SentIsOver
  <2>8. CopiesWithinAttempts'
    <3> SUFFICES ASSUME NEW x \in Events
                 PROVE  copies[x] + (IF flight[x] > 0 THEN 1 ELSE 0) <= outbox'[x].attempts
      BY <2>1 DEF CopiesWithinAttempts
    <3> QED
      BY <1>1, <2>2, <2>3, <2>4
  <2>9. SettledTruthfully'
    BY <1>0, <2>1, <2>2, <2>3 DEF SettledTruthfully
  <2>10. NoConcurrentSends'
    BY <1>0, <2>1, <2>2, <2>3, <2>4 DEF NoConcurrentSends, Exhausted
  <2>11. OneRowPerClaim'
    <3>1. \A x \in Events : outbox[x].kind # None => ClaimOf(outbox[x].kind, x) \in claims
      BY <1>0 DEF OneRowPerClaim, AbsentIsBlank
    <3>2. outbox[e].kind = None
      BY <1>0, <2>1 DEF AbsentIsBlank
    <3>3. ASSUME NEW c \in claims
          PROVE  \E x \in Events :
                    /\ outbox'[x].kind # None /\ ClaimOf(outbox'[x].kind, x) = c
                    /\ \A other \in Events :
                        (outbox'[other].kind # None /\ ClaimOf(outbox'[other].kind, other) = c)
                            => other = x
      <4>1. PICK x \in Events :
                    /\ outbox[x].kind # None /\ ClaimOf(outbox[x].kind, x) = c
                    /\ \A other \in Events :
                        (outbox[other].kind # None /\ ClaimOf(outbox[other].kind, other) = c)
                            => other = x
        BY <1>0 DEF OneRowPerClaim
      <4>2. x # e
        BY <3>2, <4>1
      <4> QED
        BY <2>1, <2>2, <2>3, <4>1, <4>2
    <3>4. \A other \in Events :
            (outbox'[other].kind # None /\ ClaimOf(outbox'[other].kind, other) = ClaimOf(k, e))
                => other = e
      BY <2>1, <2>3, <3>1
    <3>5. \A x \in Events : outbox'[x].state # "absent" => ClaimOf(outbox'[x].kind, x) \in claims'
      BY <1>0, <2>1, <2>2, <2>3 DEF OneRowPerClaim
    <3>6. \A c \in claims' : \E x \in Events :
                    /\ outbox'[x].kind # None /\ ClaimOf(outbox'[x].kind, x) = c
                    /\ \A other \in Events :
                        (outbox'[other].kind # None /\ ClaimOf(outbox'[other].kind, other) = c)
                            => other = x
      BY <2>1, <2>2, <3>3, <3>4
    <3> QED
      BY <3>5, <3>6 DEF OneRowPerClaim, ClaimOf
  <2> QED
    BY <2>5, <2>6, <2>7, <2>8, <2>9, <2>10, <2>11 DEF Safe
(* a poll, whether it takes a row (then of is its event) or not *)
<1>5. ASSUME NEW of, pc = "idle", claims' = claims, copies' = copies,
             \A x \in Events \ {of} :
                outbox'[x] = Retired[x] /\ flight'[x] = flight[x] /\ wait'[x] = wait[x],
             of \in Events => /\ Retired[of].state = "pending" /\ outbox'[of].state = "pending"
                              /\ outbox'[of].kind = outbox[of].kind
                              /\ outbox'[of].attempts = outbox[of].attempts + 1
                              /\ flight'[of] = Timeout /\ wait'[of] = Lease,
             pc' = "idle" \/ (pc' = "sending" /\ item' = of /\ of \in Events /\ reply' = "none")
      PROVE  Good'
  <2>1. \A x \in Events :
            /\ Retired[x].attempts = outbox[x].attempts
            /\ Retired[x].kind = outbox[x].kind
            /\ \/ Retired[x].state = outbox[x].state /\ ~ Exhausted(x)
               \/ /\ Retired[x].state = "failed" /\ outbox[x].state = "pending"
                  /\ outbox[x].attempts = MaxAttempts
    BY <1>0, RetiredRows
  <2>2. of \in Events => outbox[of].state = "pending"
    BY <1>5, <2>1
  <2>3. AbsentIsBlank'
    BY <1>0, <1>5, <2>1, <2>2 DEF AbsentIsBlank
  <2>4. HeldRow'
    <3> SUFFICES ASSUME pc' = "sending"
                 PROVE  /\ item' \in Events
                        /\ outbox'[item'].state = "pending"
                        /\ outbox'[item'].attempts > 0
                        /\ reply' # "ok"
      BY DEF HeldRow
    <3> QED
      BY <1>1, <1>5
  <2>5. SentIsOver'
    BY <1>0, <1>5, <2>1, <2>2 DEF SentIsOver
  <2>6. CopiesWithinAttempts'
    <3> SUFFICES ASSUME NEW x \in Events
                 PROVE  copies[x] + (IF flight'[x] > 0 THEN 1 ELSE 0) <= outbox'[x].attempts
      BY <1>5 DEF CopiesWithinAttempts
    <3>1. CASE x = of
      BY <3>1, <1>1, <1>5
    <3>2. CASE x # of
      BY <3>2, <1>1, <1>5, <2>1
    <3> QED
      BY <3>1, <3>2
  <2>7. SettledTruthfully'
    BY <1>0, <1>5, <2>1, <2>2 DEF SettledTruthfully
  <2>8. NoConcurrentSends'
    <3> SUFFICES ASSUME NEW x \in Events, flight'[x] > 0, outbox'[x].state = "pending"
                 PROVE  wait'[x] >= flight'[x]
      BY DEF NoConcurrentSends
    <3>1. CASE x = of
      BY <3>1, <1>5, Constants
    <3>2. CASE x # of
      BY <3>2, <1>0, <1>5, <2>1 DEF NoConcurrentSends
    <3> QED
      BY <3>1, <3>2
  <2>9. OneRowPerClaim'
    <3>1. \A x \in Events : /\ outbox'[x].kind = outbox[x].kind
                            /\ outbox'[x].state = "absent" <=> outbox[x].state = "absent"
      BY <1>5, <2>1, <2>2
    <3> QED
      BY <1>0, <1>5, <3>1, ClaimsKept
  <2> QED
    BY <2>3, <2>4, <2>5, <2>6, <2>7, <2>8, <2>9 DEF Safe
<1>6. ASSUME NEW e \in Events, PollClaims(e) PROVE Good'
  <2>1. /\ pc = "idle" /\ claims' = claims /\ copies' = copies
        /\ Retired[e].state = "pending"
        /\ outbox' = Attempted(e) /\ flight' = [flight EXCEPT ![e] = Timeout]
        /\ wait' = [wait EXCEPT ![e] = Lease]
        /\ pc' = "sending" /\ item' = e /\ reply' = "none"
    BY <1>6 DEF PollClaims, LoopReady, Due, Leased
  <2>2. Retired \in Rows /\ Retired[e].attempts = outbox[e].attempts
        /\ Retired[e].kind = outbox[e].kind
    BY <1>0, RetiredType, RetiredRows
  <2>3. /\ outbox'[e].state = "pending" /\ outbox'[e].kind = outbox[e].kind
        /\ outbox'[e].attempts = outbox[e].attempts + 1
        /\ flight'[e] = Timeout /\ wait'[e] = Lease
    BY <1>2, <2>1, <2>2 DEF Attempted, Rows, Row
  <2>4. \A x \in Events \ {e} :
            outbox'[x] = Retired[x] /\ flight'[x] = flight[x] /\ wait'[x] = wait[x]
    BY <1>2, <2>1, <2>2 DEF Attempted, Rows
  <2> HIDE DEF Good
  <2> QED
    BY <1>5, <2>1, <2>3, <2>4
<1>7. CASE PollFindsNothingDue
  <2>1. PICK of : of \notin Events
    BY NoSetContainsEverything
  <2>2. /\ pc = "idle" /\ pc' = pc /\ claims' = claims /\ copies' = copies
        /\ outbox' = Retired /\ flight' = flight /\ wait' = wait
    BY <1>7 DEF PollFindsNothingDue, LoopReady
  <2> HIDE DEF Good
  <2> QED
    BY <1>5, <2>1, <2>2
(* a mark ends the round: the row and the loop let go of each other *)
<1>8. CASE MarkSent
  <2>1. /\ item \in Events /\ outbox[item].state = "pending"
        /\ copies[item] > 0 /\ flight[item] = 0
    BY <1>0, <1>8 DEF MarkSent, HeldRow
  <2>2. /\ outbox' = [outbox EXCEPT ![item].state = "sent"]
        /\ claims' = claims /\ copies' = copies /\ flight' = flight /\ wait' = wait
        /\ pc' = "idle"
    BY <1>8 DEF MarkSent
  <2>3. /\ outbox'[item].state = "sent" /\ outbox'[item].kind = outbox[item].kind
        /\ outbox'[item].attempts = outbox[item].attempts
    BY <1>2, <2>1, <2>2 DEF Rows, Row
  <2>4. \A x \in Events \ {item} : outbox'[x] = outbox[x]
    BY <1>2, <2>2 DEF Rows
  <2>5. \A x \in Events : /\ outbox'[x].kind = outbox[x].kind
                          /\ outbox'[x].attempts = outbox[x].attempts
                          /\ outbox'[x].state = "absent" <=> outbox[x].state = "absent"
    BY <2>1, <2>3, <2>4
  <2>6. AbsentIsBlank' /\ HeldRow' /\ SentIsOver'
    BY <1>0, <2>1, <2>2, <2>3, <2>4 DEF AbsentIsBlank, HeldRow, SentIsOver
  <2>7. CopiesWithinAttempts'
    BY <1>0, <2>2, <2>5 DEF CopiesWithinAttempts
  <2>8. SettledTruthfully'
    <3> SUFFICES ASSUME NEW x \in Events
                 PROVE  /\ outbox'[x].state = "sent" => copies[x] >= 1
                        /\ outbox'[x].state = "failed" => outbox'[x].attempts = MaxAttempts
      BY <2>2 DEF SettledTruthfully
    <3> QED
      BY <1>0, <1>1, <2>1, <2>3, <2>4 DEF SettledTruthfully
  <2>9. NoConcurrentSends'
    BY <1>0, <2>2, <2>3, <2>4 DEF NoConcurrentSends, Exhausted
  <2>10. OneRowPerClaim'
    BY <1>0, <2>2, <2>5, ClaimsKept
  <2> QED
    BY <2>6, <2>7, <2>8, <2>9, <2>10 DEF Safe
<1>9. CASE MarkRetry
  <2> DEFINE delay == RetryDelay(outbox[item].attempts)
  <2>1. item \in Events /\ outbox[item].attempts \in 1..MaxAttempts
    BY <1>0, <1>1, <1>9, Constants DEF MarkRetry, HeldRow
  <2>2. delay \in Nat /\ delay >= Timeout
    BY <2>1, Constants DEF RetryDelay
  <2>3. /\ wait' = [wait EXCEPT ![item] = delay]
        /\ outbox' = outbox /\ claims' = claims /\ copies' = copies /\ flight' = flight
        /\ pc' = "idle"
    BY <1>9 DEF MarkRetry
  <2> HIDE DEF delay
  <2>4. wait'[item] = delay /\ \A x \in Events \ {item} : wait'[x] = wait[x]
    BY <1>2, <2>1, <2>3
  <2>5. AbsentIsBlank' /\ HeldRow' /\ SentIsOver' /\ CopiesWithinAttempts' /\ SettledTruthfully'
    BY <1>0, <2>3 DEF AbsentIsBlank, HeldRow, SentIsOver, CopiesWithinAttempts, SettledTruthfully
  <2>6. NoConcurrentSends'
    <3> SUFFICES ASSUME NEW x \in Events, flight[x] > 0,
                        outbox[x].state = "pending", ~ Exhausted(x)
                 PROVE  wait'[x] >= flight[x]
      BY <2>3 DEF NoConcurrentSends, Exhausted
    <3>1. CASE x = item
      BY <3>1, <1>1, <2>2, <2>4, Constants
    <3>2. CASE x # item
      BY <3>2, <1>0, <2>4 DEF NoConcurrentSends
    <3> QED
      BY <3>1, <3>2
  <2>7. OneRowPerClaim'
    BY <1>0, <2>3, ClaimsKept
  <2> QED
    BY <2>5, <2>6, <2>7 DEF Safe
<1>10. ASSUME outbox' = outbox, claims' = claims, flight' = flight, copies' = copies,
              wait' = wait, HeldRow'
       PROVE  Good'
  <2> HIDE DEF Good
  <2> QED
    BY <1>1, <1>3, <1>10
<1>11. CASE MarkSentRaises
  <2>1. HeldRow'
    BY <1>0, <1>11 DEF MarkSentRaises, HeldRow
  <2> QED
    BY <1>10, <1>11, <2>1 DEF MarkSentRaises
<1>12. ASSUME NEW e \in Events, TelegramAccepts(e) PROVE Good'
  <2>1. /\ flight[e] > 0
        /\ copies' = [copies EXCEPT ![e] = @ + 1]
        /\ flight' = [flight EXCEPT ![e] = 0]
        /\ outbox' = outbox /\ claims' = claims /\ wait' = wait
        /\ pc' = pc /\ item' = item
        /\ reply' \in IF Asked(e) THEN {"ok", "lost"} ELSE {reply}
    BY <1>12 DEF TelegramAccepts
  <2>2. copies'[e] = copies[e] + 1 /\ flight'[e] = 0
        /\ \A x \in Events \ {e} : copies'[x] = copies[x] /\ flight'[x] = flight[x]
    BY <1>2, <2>1
  <2>3. HeldRow'
    <3> SUFFICES ASSUME pc = "sending"
                 PROVE  /\ item \in Events
                        /\ outbox[item].state = "pending"
                        /\ outbox[item].attempts > 0
                        /\ reply' = "ok" => copies'[item] > 0 /\ flight'[item] = 0
      BY <2>1 DEF HeldRow
    <3>1. CASE item = e
      BY <3>1, <1>0, <1>1, <2>2 DEF HeldRow
    <3>2. CASE item # e
      BY <3>2, <1>0, <2>1, <2>2 DEF HeldRow, Asked
    <3> QED
      BY <3>1, <3>2
  <2>4. ASSUME NEW x \in Events
        PROVE  /\ flight'[x] \in Nat /\ flight'[x] <= flight[x]
               /\ copies'[x] \in Nat /\ copies'[x] >= copies[x]
               /\ copies'[x] + (IF flight'[x] > 0 THEN 1 ELSE 0)
                     <= copies[x] + (IF flight[x] > 0 THEN 1 ELSE 0)
               /\ flight'[x] > 0 => wait'[x] \in Nat
                                    /\ wait'[x] - flight'[x] >= wait[x] - flight[x]
    <3>1. CASE x = e
      BY <3>1, <1>1, <2>1, <2>2
    <3>2. CASE x # e
      BY <3>2, <1>1, <2>1, <2>2
    <3> QED
      BY <3>1, <3>2
  <2> HIDE DEF Good
  <2> QED
    BY <1>3, <2>1, <2>3, <2>4
<1>13. ASSUME NEW e \in Events, TelegramRejects(e) PROVE Good'
  <2>1. /\ flight[e] > 0
        /\ copies' = copies
        /\ flight' = [flight EXCEPT ![e] = 0]
        /\ outbox' = outbox /\ claims' = claims /\ wait' = wait
        /\ pc' = pc /\ item' = item
        /\ reply' \in IF Asked(e) THEN {"error", "429"} ELSE {reply}
    BY <1>13 DEF TelegramRejects
  <2>2. flight'[e] = 0 /\ \A x \in Events \ {e} : flight'[x] = flight[x]
    BY <1>2, <2>1
  <2>3. HeldRow'
    <3> SUFFICES ASSUME pc = "sending"
                 PROVE  /\ item \in Events
                        /\ outbox[item].state = "pending"
                        /\ outbox[item].attempts > 0
                        /\ reply' = "ok" => copies[item] > 0 /\ flight'[item] = 0
      BY <2>1 DEF HeldRow
    <3> QED
      BY <1>0, <2>1, <2>2 DEF HeldRow
  <2>4. ASSUME NEW x \in Events
        PROVE  /\ flight'[x] \in Nat /\ flight'[x] <= flight[x]
               /\ copies'[x] \in Nat /\ copies'[x] >= copies[x]
               /\ copies'[x] + (IF flight'[x] > 0 THEN 1 ELSE 0)
                     <= copies[x] + (IF flight[x] > 0 THEN 1 ELSE 0)
               /\ flight'[x] > 0 => wait'[x] \in Nat
                                    /\ wait'[x] - flight'[x] >= wait[x] - flight[x]
    <3>1. CASE x = e
      BY <3>1, <1>1, <2>1, <2>2
    <3>2. CASE x # e
      BY <3>2, <1>1, <2>1, <2>2
    <3> QED
      BY <3>1, <3>2
  <2> HIDE DEF Good
  <2> QED
    BY <1>3, <2>1, <2>3, <2>4
<1>14. ASSUME NEW e \in Events, ConnectionBreaks(e) PROVE Good'
  <2>1. HeldRow'
    BY <1>0, <1>14 DEF ConnectionBreaks, HeldRow
  <2> QED
    BY <1>10, <1>14, <2>1 DEF ConnectionBreaks
<1>15. CASE Tick
  <2>1. /\ wait' = [e \in Events |-> Less(wait[e])]
        /\ flight' = [e \in Events |-> Less(flight[e])]
        /\ copies' = copies /\ outbox' = outbox /\ claims' = claims
        /\ pc' = pc /\ item' = item
        /\ reply' = IF \E e \in Events : Asked(e) /\ flight[e] <= 1 THEN "lost" ELSE reply
    BY <1>15 DEF Tick
  <2>2. HeldRow'
    BY <1>0, <1>1, <2>1 DEF HeldRow, Less
  <2>3. ASSUME NEW x \in Events
        PROVE  /\ flight'[x] \in Nat /\ flight'[x] <= flight[x]
               /\ copies'[x] \in Nat /\ copies'[x] >= copies[x]
               /\ copies'[x] + (IF flight'[x] > 0 THEN 1 ELSE 0)
                     <= copies[x] + (IF flight[x] > 0 THEN 1 ELSE 0)
               /\ flight'[x] > 0 => wait'[x] \in Nat
                                    /\ wait'[x] - flight'[x] >= wait[x] - flight[x]
    <3>1. flight'[x] = Less(flight[x]) /\ wait'[x] = Less(wait[x]) /\ copies'[x] = copies[x]
      BY <2>1
    <3>2. flight[x] \in Nat /\ wait[x] \in Nat /\ copies[x] \in Nat
      BY <1>1
    <3> QED
      BY <3>1, <3>2 DEF Less
  <2> HIDE DEF Good
  <2> QED
    BY <1>3, <2>1, <2>2, <2>3
<1>16. CASE Crash
  <2>1. HeldRow'
    BY <1>16 DEF Crash, HeldRow
  <2> QED
    BY <1>10, <1>16, <2>1 DEF Crash
<1>17. CASE Restart
  <2>1. HeldRow'
    BY <1>17 DEF Restart, HeldRow
  <2> QED
    BY <1>10, <1>17, <2>1 DEF Restart
<1>18. CASE UNCHANGED vars
  <2>1. HeldRow'
    BY <1>0, <1>18 DEF vars, HeldRow
  <2> QED
    BY <1>10, <1>18, <2>1 DEF vars
<1>19. ASSUME NEW e \in Events, EnqueueStrong(e) \/ EnqueueSample(e) PROVE Good'
  <2>1. "strong" \in Kinds /\ "sample" \in Kinds
    BY DEF Kinds
  <2> HIDE DEF Good
  <2> QED
    BY <1>4, <1>19, <2>1 DEF EnqueueStrong, EnqueueSample
<1> HIDE DEF Good
<1> QED
  BY <1>6, <1>7, <1>8, <1>9, <1>11, <1>12, <1>13, <1>14, <1>15, <1>16, <1>17, <1>18,
     <1>19 DEF Next

(* So the invariant holds of every reachable state. *)
LEMMA InvariantIInv == Spec => []IInv
<1>1. Init => IInv
  BY InitTypeOK, InitSafe DEF IInv
<1>2. IInv /\ [Next]_vars => IInv'
  BY StepTypeOK, StepSafe DEF IInv
<1> QED
  BY <1>1, <1>2, PTL DEF Spec

(***************************************************************************)
(* The tables, the loop's memory and the world keep their types.            *)
(***************************************************************************)
THEOREM TypeCorrect == Spec => []TypeOK
<1>1. IInv => TypeOK
  BY DEF IInv
<1> QED
  BY <1>1, InvariantIInv, PTL

(***************************************************************************)
(* For any number of crashes, lost answers and late requests, no alert is   *)
(* posted more often than attempts were committed for it.                  *)
(***************************************************************************)
THEOREM CopiesAreWithinAttempts == Spec => []CopiesWithinAttempts
<1>1. IInv => CopiesWithinAttempts
  BY DEF IInv, Safe
<1> QED
  BY <1>1, InvariantIInv, PTL

(***************************************************************************)
(* "sent" means that a copy arrived, "failed" that every attempt was spent. *)
(***************************************************************************)
THEOREM SettlesTruthfully == Spec => []SettledTruthfully
<1>1. IInv => SettledTruthfully
  BY DEF IInv, Safe
<1> QED
  BY <1>1, InvariantIInv, PTL

(***************************************************************************)
(* The lease keeps a second request from leaving while the first may still  *)
(* be accepted, for every lease and backoff no shorter than the timeout.    *)
(***************************************************************************)
THEOREM SendsAreNotConcurrent == Spec => []NoConcurrentSends
<1>1. IInv => NoConcurrentSends
  BY DEF IInv, Safe
<1> QED
  BY <1>1, InvariantIInv, PTL

(***************************************************************************)
(* A kind of message about a token has one row at most, for ever.           *)
(***************************************************************************)
THEOREM ClaimsAreUnique == Spec => []OneRowPerClaim
<1>1. IInv => OneRowPerClaim
  BY DEF IInv, Safe
<1> QED
  BY <1>1, InvariantIInv, PTL

(***************************************************************************)
(* Neither mark_telegram_sent nor mark_telegram_retry ever meets a row that *)
(* is not pending, so neither ever ends the daemon for that reason.         *)
(***************************************************************************)
THEOREM HeldRowIsAlwaysPending == Spec => []HeldRowIsPending
<1>1. IInv => HeldRowIsPending
  BY DEF IInv, HeldRow, HeldRowIsPending
<1> QED
  BY <1>1, InvariantIInv, PTL

------------------------------------------------------------------------------
(***************************************************************************)
(* The refinement: what the tables show of each event.                      *)
(***************************************************************************)
Status == [e \in Events |->
            CASE outbox[e].state = "absent"  -> "none"
              [] outbox[e].state = "pending" -> "queued"
              [] OTHER                       -> outbox[e].state]

Holder == [e \in Events |-> IF outbox[e].kind = None THEN << >>
                                                     ELSE ClaimOf(outbox[e].kind, e)]

(* The status of an event, case by case. *)
LEMMA StatusOf ==
    ASSUME TypeOK, NEW e \in Events
    PROVE  /\ outbox[e].state = "absent" <=> Status[e] = "none"
           /\ outbox[e].state = "pending" <=> Status[e] = "queued"
           /\ outbox[e].state = "sent" <=> Status[e] = "sent"
           /\ outbox[e].state = "failed" <=> Status[e] = "failed"
BY DEF TypeOK, Status

(* The tables before the first alert are what AlertDelivery starts from. *)
LEMMA InitRefines == Init => Delivery!Init
BY DEF Init, AbsentRow, Delivery!Init

(***************************************************************************)
(* Every step of the loop, Telegram or a crash is a step of AlertDelivery   *)
(* or leaves it as it is.                                                  *)
(***************************************************************************)
LEMMA StepRefines ==
    IInv /\ IInv' /\ [Next]_vars => [Delivery!Next]_(Delivery!deliveryVars)
<1> SUFFICES ASSUME IInv, IInv', [Next]_vars
             PROVE  Delivery!Next \/ UNCHANGED <<Status, Holder, copies>>
  BY DEF Delivery!deliveryVars, Status, Holder
<1>0. /\ TypeOK /\ TypeOK' /\ AbsentIsBlank /\ HeldRow /\ SentIsOver
      /\ CopiesWithinAttempts /\ OneRowPerClaim /\ CopiesWithinAttempts'
  BY DEF IInv, Safe
<1>1. outbox \in Rows /\ outbox' \in Rows /\ copies \in [Events -> Nat]
      /\ copies' \in [Events -> Nat]
  BY <1>0 DEF TypeOK, Rows, Row
<1> USE DEF tables, memory, world
<1>2. ASSUME outbox' = outbox, copies' = copies
      PROVE  UNCHANGED <<Status, Holder, copies>>
  BY <1>2 DEF Status, Holder
<1>3. ASSUME NEW e \in Events, NEW k \in Kinds, Claim(e, k) PROVE Delivery!Next
  <2> DEFINE c == ClaimOf(k, e)
  <2>1. /\ outbox[e].state = "absent" /\ c \notin claims /\ copies' = copies
        /\ outbox' = [outbox EXCEPT ![e] =
                        [state |-> "pending", attempts |-> 0, kind |-> k]]
    BY <1>3 DEF Claim, Unclaimed
  <2>2. c \in Claims /\ k # None /\ c # << >>
    <3>1. c \in Claims
      BY Constants DEF ClaimOf, Claims
    <3>2. k # None
      BY DEF Kinds, None
    <3>3. c # << >>
      BY DEF ClaimOf
    <3> QED
      BY <3>1, <3>2, <3>3
  <2>3. \A other \in Events : Holder[other] # c
    BY <1>0, <2>1, <2>2 DEF Holder, OneRowPerClaim, AbsentIsBlank
  <2>4. Status[e] = "none"
    BY <2>1 DEF Status
  <2>5. Status' = [Status EXCEPT ![e] = "queued"]
    BY <1>1, <2>1 DEF Status, Rows
  <2>6. Holder' = [Holder EXCEPT ![e] = c]
    BY <1>1, <2>1, <2>2 DEF Holder, Rows
  <2> HIDE DEF c
  <2>7. Delivery!Queue(e, c)
    BY <2>1, <2>3, <2>4, <2>5, <2>6 DEF Delivery!Queue, Status, Holder
  <2> QED
    BY <2>2, <2>7 DEF Delivery!Next
(* a poll gives up the rows it retires, if there are any *)
<1>4. ASSUME copies' = copies,
             \A x \in Events : /\ outbox'[x].kind = outbox[x].kind
                               /\ outbox'[x].state = Retired[x].state
      PROVE  Delivery!Next \/ UNCHANGED <<Status, Holder, copies>>
  <2> PICK es : es = {x \in Events : Exhausted(x)}
    OBVIOUS
  <2>1. \A x \in Events :
            \/ Retired[x].state = outbox[x].state /\ x \notin es
            \/ Retired[x].state = "failed" /\ outbox[x].state = "pending" /\ x \in es
    BY <1>0, RetiredRows DEF Exhausted, Retired
  <2>2. Holder' = Holder
    BY <1>4 DEF Holder
  <2>3. Status' = [x \in Events |-> IF x \in es THEN "failed" ELSE Status[x]]
    BY <1>4, <2>1 DEF Status
  <2>4. \A x \in es : Status[x] = "queued"
    BY <2>1 DEF Status
  <2>5. es \in SUBSET Events
    OBVIOUS
  <2>6. CASE es = {}
    <3>1. Status' = Status
      BY <2>3, <2>6 DEF Status
    <3>2. Status' = Status /\ Holder' = Holder /\ copies' = copies
      BY <1>4, <2>2, <3>1
    <3> QED
      BY <3>2
  <2>7. CASE es # {}
    <3>1. Delivery!GiveUp(es)
      BY <1>4, <2>2, <2>3, <2>4, <2>7 DEF Delivery!GiveUp, Status, Holder
    <3> QED
      BY <2>5, <3>1 DEF Delivery!Next
  <2> QED
    BY <2>6, <2>7
<1>5. ASSUME NEW e \in Events, PollClaims(e)
      PROVE  Delivery!Next \/ UNCHANGED <<Status, Holder, copies>>
  <2>1. outbox' = Attempted(e) /\ copies' = copies
    BY <1>5 DEF PollClaims
  <2>2. Retired \in Rows
    BY <1>0, RetiredType
  <2>3. \A x \in Events : outbox'[x].kind = Retired[x].kind /\ outbox'[x].state = Retired[x].state
    BY <2>1, <2>2 DEF Attempted, Rows, Row
  <2>4. \A x \in Events : Retired[x].kind = outbox[x].kind
    BY <1>0, RetiredRows
  <2> QED
    BY <1>4, <2>1, <2>3, <2>4
<1>6. CASE PollFindsNothingDue
  <2>1. \A x \in Events : Retired[x].kind = outbox[x].kind
    BY <1>0, RetiredRows
  <2> QED
    BY <1>4, <1>6, <2>1 DEF PollFindsNothingDue
<1>7. CASE MarkSent
  <2>1. PICK e \in Events : e = item
    BY <1>0, <1>7 DEF MarkSent, HeldRow
  <2>2. outbox[e].state = "pending" /\ copies[e] > 0
    BY <1>0, <1>7, <2>1 DEF MarkSent, HeldRow
  <2>3. outbox' = [outbox EXCEPT ![e].state = "sent"] /\ copies' = copies
    BY <1>7, <2>1 DEF MarkSent
  <2>4. /\ outbox'[e].state = "sent" /\ outbox'[e].kind = outbox[e].kind
        /\ \A x \in Events \ {e} : outbox'[x] = outbox[x]
    BY <1>1, <2>3 DEF Rows, Row
  <2>5. Status[e] = "queued"
    BY <2>2 DEF Status
  <2>6. Status' = [Status EXCEPT ![e] = "sent"]
    BY <2>4 DEF Status
  <2>7. Holder' = Holder
    BY <2>4 DEF Holder
  <2>8. Delivery!Confirm(e)
    BY <2>2, <2>3, <2>5, <2>6, <2>7 DEF Delivery!Confirm, Status, Holder
  <2> QED
    BY <2>8 DEF Delivery!Next
<1>8. ASSUME NEW e \in Events, TelegramAccepts(e) PROVE Delivery!Next
  <2>1. flight[e] > 0 /\ outbox' = outbox /\ copies' = [copies EXCEPT ![e] = @ + 1]
    BY <1>8 DEF TelegramAccepts
  <2>2. /\ copies[e] + 1 <= outbox[e].attempts
        /\ copies[e] \in Nat /\ outbox[e].attempts \in 0..MaxAttempts
    BY <1>0, <1>1, <2>1 DEF CopiesWithinAttempts, Rows, Row
  <2>3. copies[e] < MaxAttempts /\ outbox[e].attempts # 0
    BY <2>2, Constants
  <2>4. outbox[e].state \in {"pending", "failed"}
    <3>1. flight[e] # 0
      BY <2>1
    <3>2. outbox[e].state # "absent" /\ outbox[e].state # "sent"
      BY <1>0, <2>3, <3>1 DEF AbsentIsBlank, SentIsOver
    <3> QED
      BY <1>1, <3>2 DEF Rows, Row
  <2>5. Status[e] \in {"queued", "failed"}
    BY <2>4 DEF Status
  <2>6. Delivery!Arrive(e)
    BY <2>1, <2>3, <2>5 DEF Delivery!Arrive, Status, Holder
  <2> QED
    BY <2>6 DEF Delivery!Next
<1>9. CASE MarkSentRaises \/ MarkRetry \/ Tick \/ Crash \/ Restart \/ UNCHANGED vars
  BY <1>2, <1>9 DEF MarkSentRaises, MarkRetry, Tick, Crash, Restart, vars
<1>10. ASSUME NEW e \in Events, TelegramRejects(e) \/ ConnectionBreaks(e)
       PROVE  UNCHANGED <<Status, Holder, copies>>
  BY <1>2, <1>10 DEF TelegramRejects, ConnectionBreaks
<1>11. ASSUME NEW e \in Events, EnqueueStrong(e) \/ EnqueueSample(e) PROVE Delivery!Next
  <2>1. "strong" \in Kinds /\ "sample" \in Kinds
    BY DEF Kinds
  <2> QED
    BY <1>3, <1>11, <2>1 DEF EnqueueStrong, EnqueueSample
<1> QED
  BY <1>5, <1>6, <1>7, <1>8, <1>9, <1>10, <1>11 DEF Next

(***************************************************************************)
(* The tables, seen through the mapping of TelegramOutbox, are an           *)
(* AlertDelivery: everything ImplementsDelivery says but its liveness, for  *)
(* every value of the constants.                                           *)
(***************************************************************************)
THEOREM ImplementsSafeDelivery == Spec => Delivery!SafeSpec
BY InitRefines, StepRefines, InvariantIInv, PTL DEF Spec, Delivery!SafeSpec

(***************************************************************************)
(* What was settled is never reopened.                                      *)
(***************************************************************************)
THEOREM SettledStaysFinal == Spec => SettledIsFinal
<1> DEFINE Final == \A e \in Events :
                        outbox[e].state \in {"sent", "failed"} => outbox'[e] = outbox[e]
<1>1. IInv /\ [Next]_vars => [Final]_vars
  <2> SUFFICES ASSUME IInv, [Next]_vars, NEW e \in Events,
                      outbox[e].state \in {"sent", "failed"}
               PROVE  outbox'[e] = outbox[e]
    OBVIOUS
  <2>0. TypeOK /\ outbox \in Rows
    BY DEF IInv, TypeOK, Rows, Row
  <2> USE DEF tables, memory, world
  <2>1. ASSUME NEW x \in Events, NEW k \in Kinds, Claim(x, k) PROVE outbox'[e] = outbox[e]
    BY <2>0, <2>1 DEF Claim, Rows
  <2>2. Retired[e] = outbox[e]
    BY <2>0 DEF Retired, Exhausted
  <2>3. ASSUME NEW x \in Events, PollClaims(x) PROVE outbox'[e] = outbox[e]
    <3>1. Retired[x].state = "pending" /\ outbox' = Attempted(x)
      BY <2>3 DEF PollClaims, Due
    <3>2. x # e
      BY <2>2, <3>1
    <3>3. Retired \in Rows
      BY <2>0, RetiredType
    <3> QED
      BY <2>2, <3>1, <3>2, <3>3 DEF Attempted, Rows
  <2>4. CASE PollFindsNothingDue
    BY <2>2, <2>4 DEF PollFindsNothingDue
  <2>5. CASE MarkSent
    <3>1. item # e
      BY <2>5 DEF MarkSent, IInv, HeldRow
    <3> QED
      BY <2>0, <2>5, <3>1 DEF MarkSent, Rows
  <2>6. CASE MarkSentRaises \/ MarkRetry \/ Tick \/ Crash \/ Restart \/ UNCHANGED vars
    BY <2>6 DEF MarkSentRaises, MarkRetry, Tick, Crash, Restart, vars
  <2>7. ASSUME NEW x \in Events, TelegramAccepts(x) \/ TelegramRejects(x) \/ ConnectionBreaks(x)
        PROVE  outbox'[e] = outbox[e]
    BY <2>7 DEF TelegramAccepts, TelegramRejects, ConnectionBreaks
  <2>8. ASSUME NEW x \in Events, EnqueueStrong(x) \/ EnqueueSample(x)
        PROVE  outbox'[e] = outbox[e]
    <3>1. "strong" \in Kinds /\ "sample" \in Kinds
      BY DEF Kinds
    <3> QED
      BY <2>1, <2>8, <3>1 DEF EnqueueStrong, EnqueueSample
  <2> QED
    BY <2>3, <2>4, <2>5, <2>6, <2>7, <2>8 DEF Next
<1> QED
  BY <1>1, InvariantIInv, PTL DEF Spec, SettledIsFinal

------------------------------------------------------------------------------
(***************************************************************************)
(* The start of the daemon on an older database (OutboxMigration.tla), for  *)
(* any alerts, any jobs left in processing and any number of crashes: what  *)
(* the loops above find in the tables when they begin.                     *)
(***************************************************************************)

(***************************************************************************)
(* The inductive invariant.  Nothing is destroyed because the table is only *)
(* renamed over a backup that is not there: an old outbox and a backup      *)
(* never exist together, since the release that makes backups creates every *)
(* outbox anew.                                                            *)
(***************************************************************************)
OneOldTable == table.ddl = "old" => backup = Absent

RenamedAway == progress = "renamed" => table = Absent

StartIInv ==
    /\ StartTypeOK /\ NothingDestroyed /\ ServesMigrated
    /\ OneOldTable /\ RenamedAway

(* Both kinds of database satisfy it before the first start. *)
LEMMA InitStartIInv == StartInit => StartIInv
<1> SUFFICES ASSUME StartInit PROVE StartIInv
  OBVIOUS
<1>1. /\ table \in Tables /\ backup = Absent /\ progress = "down"
      /\ queued = table.rows /\ queued \subseteq Alerts /\ cut = FALSE /\ working \subseteq Jobs
      /\ table.ddl = "absent" => table.rows = {}
  BY DEF StartInit, Absent, Tables
<1>2. interruptions \in 0..MaxInterruptions
  BY MigrationAssumption DEF StartInit
<1>3. NothingDestroyed
  BY <1>1 DEF NothingDestroyed, Absent
<1>4. cut \in BOOLEAN
  BY <1>1
<1>5. StartTypeOK
  BY <1>1, <1>2, <1>4 DEF StartTypeOK, Absent, Tables, Starting
<1>6. ServesMigrated /\ OneOldTable /\ RenamedAway
  BY <1>1 DEF ServesMigrated, OneOldTable, RenamedAway
<1> QED
  BY <1>3, <1>5, <1>6 DEF StartIInv

(* Every statement of the start, every loop and every crash preserves it. *)
LEMMA StepStartIInv == StartIInv /\ [StartNext]_startVars => StartIInv'
<1> SUFFICES ASSUME StartIInv, [StartNext]_startVars PROVE StartIInv'
  OBVIOUS
<1> USE DEF StartIInv, StartTypeOK, NothingDestroyed, ServesMigrated,
            OneOldTable, RenamedAway, Absent, Tables, Starting
<1>1. CASE Start
  BY <1>1 DEF Start
<1>2. CASE CreateTables
  BY <1>2 DEF CreateTables, Created
<1>3. CASE RecoverJobs
  BY <1>3 DEF RecoverJobs, Recovered
<1>4. CASE SkipMigration
  BY <1>4 DEF SkipMigration, NeedsNothing
<1>5. CASE Rename
  BY <1>5 DEF Rename, NeedsNothing
<1>6. CASE Recreate
  BY <1>6 DEF Recreate, Created
<1>7. CASE CopyAndDrop
  BY <1>7 DEF CopyAndDrop, Copied
<1>8. CASE \E r \in Alerts : Queue(r)
  BY <1>8 DEF Queue
<1>9. CASE \E j \in Jobs : Work(j)
  BY <1>9 DEF Work
<1>10. CASE Interrupt
  <2>1. cut' \in BOOLEAN /\ interruptions' \in 0..MaxInterruptions /\ progress' = "down"
    BY <1>10, MigrationAssumption DEF Interrupt
  <2>2. backup' # Absent => cut'
    BY ONLY <1>10, NothingDestroyed DEF Interrupt, NothingDestroyed
  <2> QED
    BY <1>10, <2>1, <2>2 DEF Interrupt
<1>11. CASE UNCHANGED startVars
  BY <1>11 DEF startVars
<1> QED
  BY <1>1, <1>2, <1>3, <1>4, <1>5, <1>6, <1>7, <1>8, <1>9, <1>10, <1>11 DEF StartNext

(* So it holds however often the start is interrupted. *)
LEMMA InvariantStartIInv == StartSpec => []StartIInv
BY InitStartIInv, StepStartIInv, PTL DEF StartSpec

(***************************************************************************)
(* The tables and the progress of the start are what the module declares.   *)
(***************************************************************************)
THEOREM StartTypeCorrect == StartSpec => []StartTypeOK
<1>1. StartIInv => StartTypeOK
  BY DEF StartIInv
<1> QED
  BY <1>1, InvariantStartIInv, PTL

(***************************************************************************)
(* However many crashes interrupt the start, and wherever, every alert is   *)
(* still in one of the two tables, and in the renamed one only after a      *)
(* crash between the rename and the copy.                                  *)
(***************************************************************************)
THEOREM NothingIsDestroyed == StartSpec => []NothingDestroyed
<1>1. StartIInv => NothingDestroyed
  BY DEF StartIInv
<1> QED
  BY <1>1, InvariantStartIInv, PTL

(***************************************************************************)
(* The loops only ever run on a migrated table and with at most one job in  *)
(* processing, the one the enrichment loop holds.                          *)
(***************************************************************************)
THEOREM ServesOnlyMigrated == StartSpec => []ServesMigrated
<1>1. StartIInv => ServesMigrated
  BY DEF StartIInv
<1> QED
  BY <1>1, InvariantStartIInv, PTL
==============================================================================
