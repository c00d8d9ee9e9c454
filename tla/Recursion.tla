----------------------------- MODULE Recursion -----------------------------
(***************************************************************************)
(* Induction over the natural numbers and functions defined by recursion.   *)
(* The library states both for a predicate given as an operator; here a     *)
(* predicate is a set and a recursion a function, and both follow from the  *)
(* least element of a set.  With them, what FlattenSeq computes.            *)
(***************************************************************************)
EXTENDS Naturals, Sequences, SequencesExt, SequenceTheorems, WellFoundedInduction, TLAPS

Smaller == {ss \in Nat \X Nat : ss[1] < ss[2]}

LEMMA SmallerWellFounded == IsWellFoundedOn(Smaller, Nat)
BY NatLessThanWellFounded DEF OpToRel, Smaller

(* A set of natural numbers that is not empty has a least element.          *)
LEMMA Least ==
    ASSUME NEW T \in SUBSET Nat, T # {}
    PROVE  \E x \in T : \A y \in T : x <= y
<1>1. T \subseteq Nat
  OBVIOUS
<1>2. PICK x \in T : \A y \in T : ~(<<y, x>> \in Smaller)
  BY <1>1, SmallerWellFounded, WFMin
<1>3. \A y \in T : ~(y < x)
  BY <1>1, <1>2 DEF Smaller
<1>4. QED
  BY <1>1, <1>3

(* What holds of 0, and of n + 1 when it holds of n, holds of all.          *)
LEMMA SetInduction ==
    ASSUME NEW S \in SUBSET Nat, 0 \in S, \A n \in S : n + 1 \in S
    PROVE  S = Nat
<1>1. SUFFICES ASSUME Nat \ S # {} PROVE FALSE
  OBVIOUS
<1>2. PICK x \in Nat \ S : \A y \in Nat \ S : x <= y
  <2> DEFINE T == Nat \ S
  <2>1. T \in SUBSET Nat /\ T # {}
    BY <1>1
  <2> HIDE DEF T
  <2>2. \E x \in T : \A y \in T : x <= y
    BY <2>1, Least
  <2>3. QED
    BY <2>2 DEF T
<1>3. x \in Nat /\ x # 0
  BY <1>2
<1>4. x - 1 \in Nat /\ ~(x <= x - 1) /\ (x - 1) + 1 = x
  BY <1>3
<1>5. QED
  BY <1>2, <1>4

(* There is a function of 0 .. n that begins with v and goes on by G.        *)
Unfolds(n, V, v, G) ==
    \E f \in [0 .. n -> V] : f[0] = v /\ \A i \in 1 .. n : f[i] = G[i][f[i - 1]]

LEMMA Recursion ==
    ASSUME NEW n \in Nat, NEW V, NEW v \in V, NEW G \in [1 .. n -> [V -> V]]
    PROVE  Unfolds(n, V, v, G)
<1> DEFINE Good(m, f) == f[0] = v /\ \A i \in 1 .. m : f[i] = G[i][f[i - 1]]
           S == {m \in Nat : m <= n => \E f \in [0 .. m -> V] : Good(m, f)}
<1>1. 0 \in S
  <2>1. [i \in 0 .. 0 |-> v] \in [0 .. 0 -> V] /\ Good(0, [i \in 0 .. 0 |-> v])
    OBVIOUS
  <2>2. QED
    BY <2>1
<1>2. ASSUME NEW m \in S PROVE m + 1 \in S
  <2> m \in Nat /\ m + 1 \in Nat
    OBVIOUS
  <2>1. SUFFICES ASSUME m + 1 <= n PROVE \E f \in [0 .. m + 1 -> V] : Good(m + 1, f)
    OBVIOUS
  <2>2. m \in Nat /\ m <= n
    BY <2>1
  <2>3. PICK f \in [0 .. m -> V] : Good(m, f)
    BY <2>2
  <2> DEFINE g == [i \in 0 .. m + 1 |-> IF i = m + 1 THEN G[m + 1][f[m]] ELSE f[i]]
  <2>4. G[m + 1][f[m]] \in V
    BY <2>1, <2>2, <2>3
  <2>5. g \in [0 .. m + 1 -> V]
    BY <2>2, <2>3, <2>4
  <2>6. Good(m + 1, g)
    <3>1. g[0] = v
      BY <2>2, <2>3
    <3>2. ASSUME NEW i \in 1 .. m + 1 PROVE g[i] = G[i][g[i - 1]]
      <4>1. i - 1 \in 0 .. m /\ i \in 0 .. m + 1 /\ g[i - 1] = f[i - 1]
        BY <2>2
      <4>2. CASE i = m + 1
        <5>1. i - 1 = m /\ g[i] = G[m + 1][f[m]]
          BY <2>2, <4>1, <4>2
        <5>2. QED
          BY <4>1, <4>2, <5>1
      <4>3. CASE i # m + 1
        <5>1. i \in 1 .. m /\ g[i] = f[i]
          BY <2>2, <4>1, <4>3
        <5>2. QED
          BY <2>3, <4>1, <5>1
      <4>4. QED
        BY <4>2, <4>3
    <3>3. QED
      BY <3>1, <3>2
  <2>7. QED
    BY <2>5, <2>6
<1> HIDE DEF S
<1>3. S = Nat
  <2>1. S \in SUBSET Nat
    BY DEF S
  <2>2. QED
    BY <1>1, <1>2, <2>1, SetInduction
<1>4. n \in S
  BY <1>3
<1>5. QED
  BY <1>4 DEF S, Unfolds

-----------------------------------------------------------------------------
(***************************************************************************)
(* Sequences as sets.                                                      *)
(***************************************************************************)
LEMMA SetOf ==
    ASSUME NEW T, NEW s \in Seq(T)
    PROVE  /\ ToSet(s) = {s[i] : i \in 1 .. Len(s)} /\ ToSet(s) \subseteq T
           /\ IsInjective(s) <=> \A i, j \in 1 .. Len(s) : s[i] = s[j] => i = j
BY LenProperties, ElementOfSeq DEF ToSet, IsInjective

LEMMA SetOfAppend ==
    ASSUME NEW T, NEW s \in Seq(T), NEW e \in T
    PROVE  /\ ToSet(Append(s, e)) = ToSet(s) \cup {e}
           /\ IsInjective(Append(s, e)) <=> IsInjective(s) /\ e \notin ToSet(s)
<1> DEFINE r == Append(s, e)
<1>1. r \in Seq(T) /\ Len(r) = Len(s) + 1 /\ Len(s) \in Nat
      /\ (\A i \in 1 .. Len(s) : r[i] = s[i]) /\ r[Len(s) + 1] = e
  BY AppendProperties, LenProperties
<1>2. \A i : i \in 1 .. Len(r) <=> i \in 1 .. Len(s) \/ i = Len(s) + 1
  BY <1>1
<1> HIDE DEF r
<1>3. ToSet(r) = {r[i] : i \in 1 .. Len(r)} /\ ToSet(s) = {s[i] : i \in 1 .. Len(s)}
  BY <1>1, SetOf
<1>4. ToSet(r) = ToSet(s) \cup {e}
  BY <1>1, <1>2, <1>3
<1>5. IsInjective(r) => IsInjective(s) /\ e \notin ToSet(s)
  <2>1. HAVE IsInjective(r)
  <2>2. \A i, j \in 1 .. Len(r) : r[i] = r[j] => i = j
    BY <1>1, <2>1, SetOf
  <2>3. \A i, j \in 1 .. Len(s) : s[i] = s[j] => i = j
    BY <1>1, <1>2, <2>2
  <2>4. \A i \in 1 .. Len(s) : s[i] # e
    <3>1. TAKE i \in 1 .. Len(s)
    <3>2. i # Len(s) + 1 /\ i \in 1 .. Len(r) /\ Len(s) + 1 \in 1 .. Len(r)
      BY <1>1, <1>2
    <3>3. QED
      BY <1>1, <2>2, <3>2
  <2>5. QED
    BY <1>3, <2>3, <2>4, SetOf
<1>6. IsInjective(s) /\ e \notin ToSet(s) => IsInjective(r)
  <2>1. HAVE IsInjective(s) /\ e \notin ToSet(s)
  <2>2. \A i, j \in 1 .. Len(s) : s[i] = s[j] => i = j
    BY <2>1, SetOf
  <2>3. \A i \in 1 .. Len(s) : s[i] # e
    BY <1>3, <2>1
  <2>4. \A i, j \in 1 .. Len(r) : r[i] = r[j] => i = j
    BY <1>1, <1>2, <2>2, <2>3
  <2>5. QED
    BY <1>1, <2>4, SetOf
<1>7. QED
  BY <1>4, <1>5, <1>6 DEF r

(* A sequence is its head and its tail.                                     *)
LEMMA HeadTail ==
    ASSUME NEW T, NEW s \in Seq(T), s # <<>>
    PROVE  /\ Head(s) \in T /\ Tail(s) \in Seq(T) /\ Len(Tail(s)) = Len(s) - 1
           /\ Head(s) = s[1] /\ ToSet(s) = {Head(s)} \cup ToSet(Tail(s))
           /\ IsInjective(s) => IsInjective(Tail(s)) /\ Head(s) \notin ToSet(Tail(s))
<1> DEFINE r == Tail(s)
<1>1. /\ Head(s) \in T /\ r \in Seq(T) /\ Len(s) \in Nat /\ Len(s) > 0 /\ Len(r) = Len(s) - 1
      /\ Head(s) = s[1] /\ \A i \in 1 .. Len(r) : r[i] = s[i + 1]
  BY HeadTailProperties, EmptySeq, LenProperties
<1> HIDE DEF r
<1>2. /\ \A i \in 1 .. Len(r) : i + 1 \in 1 .. Len(s) /\ i + 1 # 1
      /\ \A i \in 1 .. Len(s) : i = 1 \/ (i - 1 \in 1 .. Len(r) /\ (i - 1) + 1 = i)
      /\ 1 \in 1 .. Len(s)
  BY <1>1
<1>3. ToSet(s) = {s[i] : i \in 1 .. Len(s)} /\ ToSet(r) = {r[i] : i \in 1 .. Len(r)}
  BY <1>1, SetOf
<1>4. ToSet(s) = {Head(s)} \cup ToSet(r)
  <2>1. ASSUME NEW x \in ToSet(s) PROVE x \in {Head(s)} \cup ToSet(r)
    <3>1. PICK i \in 1 .. Len(s) : x = s[i]
      BY <1>3
    <3>2. CASE i = 1
      BY <1>1, <3>1, <3>2
    <3>3. CASE i - 1 \in 1 .. Len(r) /\ (i - 1) + 1 = i
      <4>1. r[i - 1] = s[i]
        BY <1>1, <3>3
      <4>2. QED
        BY <1>3, <3>1, <3>3, <4>1
    <3>4. QED
      BY <1>2, <3>2, <3>3
  <2>2. ASSUME NEW x \in ToSet(r) PROVE x \in ToSet(s)
    BY <1>1, <1>2, <1>3
  <2>3. QED
    BY <1>1, <1>2, <1>3, <2>1, <2>2
<1>5. ASSUME IsInjective(s) PROVE IsInjective(r) /\ Head(s) \notin ToSet(r)
  <2>1. \A i, j \in 1 .. Len(s) : s[i] = s[j] => i = j
    BY <1>5, SetOf
  <2>2. \A i, j \in 1 .. Len(r) : r[i] = r[j] => i = j
    <3>1. TAKE i, j \in 1 .. Len(r)
    <3>2. HAVE r[i] = r[j]
    <3>3. i + 1 = j + 1
      BY <1>1, <1>2, <2>1, <3>2
    <3>4. QED
      BY <1>1, <3>3
  <2>3. \A i \in 1 .. Len(r) : r[i] # Head(s)
    BY <1>1, <1>2, <2>1
  <2>4. QED
    BY <1>1, <1>3, <2>2, <2>3, SetOf
<1>6. QED
  BY <1>1, <1>4, <1>5 DEF r

LEMMA SetOfConcat ==
    ASSUME NEW T, NEW s \in Seq(T), NEW t \in Seq(T)
    PROVE  /\ ToSet(s \o t) = ToSet(s) \cup ToSet(t)
           /\ IsInjective(s \o t) <=>
                 IsInjective(s) /\ IsInjective(t) /\ ToSet(s) \cap ToSet(t) = {}
<1> DEFINE r == s \o t
           m == Len(s)
           n == Len(t)
<1>1. r \in Seq(T) /\ m \in Nat /\ n \in Nat /\ Len(r) = m + n
      /\ (\A i \in 1 .. m : r[i] = s[i]) /\ (\A i \in 1 .. n : r[m + i] = t[i])
  BY ConcatProperties, LenProperties
<1>2. /\ \A i \in 1 .. m : i \in 1 .. Len(r)
      /\ \A i \in 1 .. n : m + i \in 1 .. Len(r)
      /\ \A i \in 1 .. Len(r) : i \in 1 .. m \/ (i - m \in 1 .. n /\ i = m + (i - m))
  BY <1>1
<1>3. /\ ToSet(r) = {r[i] : i \in 1 .. Len(r)} /\ ToSet(s) = {s[i] : i \in 1 .. m}
      /\ ToSet(t) = {t[i] : i \in 1 .. n}
  BY <1>1, SetOf
<1> HIDE DEF r, m, n
<1>4. ToSet(r) = ToSet(s) \cup ToSet(t)
  <2>1. ASSUME NEW x \in ToSet(r) PROVE x \in ToSet(s) \cup ToSet(t)
    <3>1. PICK i \in 1 .. Len(r) : x = r[i]
      BY <1>3
    <3>2. CASE i \in 1 .. m
      BY <1>1, <1>3, <3>1, <3>2
    <3>3. CASE i - m \in 1 .. n /\ i = m + (i - m)
      <4>1. x = t[i - m]
        BY <1>1, <3>1, <3>3
      <4>2. QED
        BY <1>3, <3>3, <4>1
    <3>4. QED
      BY <1>2, <3>2, <3>3
  <2>2. ASSUME NEW x \in ToSet(s) PROVE x \in ToSet(r)
    BY <1>1, <1>2, <1>3, <2>2
  <2>3. ASSUME NEW x \in ToSet(t) PROVE x \in ToSet(r)
    BY <1>1, <1>2, <1>3, <2>3
  <2>4. QED
    BY <2>1, <2>2, <2>3
<1>5. ASSUME IsInjective(r)
      PROVE  IsInjective(s) /\ IsInjective(t) /\ ToSet(s) \cap ToSet(t) = {}
  <2>1. \A i, j \in 1 .. Len(r) : r[i] = r[j] => i = j
    BY <1>1, <1>5, SetOf
  <2>2. \A i, j \in 1 .. m : s[i] = s[j] => i = j
    BY <1>1, <1>2, <2>1
  <2>3. ASSUME NEW i \in 1 .. n, NEW j \in 1 .. n, t[i] = t[j] PROVE i = j
    <3>1. m + i = m + j
      BY <1>1, <1>2, <2>1, <2>3
    <3>2. QED
      BY <1>1, <3>1
  <2>4. ASSUME NEW i \in 1 .. m, NEW j \in 1 .. n PROVE s[i] # t[j]
    <3>1. i # m + j
      BY <1>1
    <3>2. QED
      BY <1>1, <1>2, <2>1, <3>1
  <2>5. ToSet(s) \cap ToSet(t) = {}
    BY <1>3, <2>4
  <2>6. QED
    BY <2>2, <2>3, <2>5, SetOf DEF m, n
<1>6. ASSUME IsInjective(s), IsInjective(t), ToSet(s) \cap ToSet(t) = {}
      PROVE  IsInjective(r)
  <2>1. /\ \A i, j \in 1 .. m : s[i] = s[j] => i = j
        /\ \A i, j \in 1 .. n : t[i] = t[j] => i = j
    BY <1>6, SetOf DEF m, n
  <2>2. \A i \in 1 .. m, j \in 1 .. n : s[i] # t[j]
    BY <1>3, <1>6
  <2>3. ASSUME NEW i \in 1 .. Len(r), NEW j \in 1 .. Len(r), r[i] = r[j] PROVE i = j
    <3>1. CASE i \in 1 .. m /\ j \in 1 .. m
      BY <1>1, <2>1, <2>3, <3>1
    <3>2. CASE i \in 1 .. m /\ j - m \in 1 .. n /\ j = m + (j - m)
      BY <1>1, <2>2, <2>3, <3>2
    <3>3. CASE i - m \in 1 .. n /\ i = m + (i - m) /\ j \in 1 .. m
      <4>1. r[i] = t[i - m] /\ r[j] = s[j]
        BY <1>1, <3>3
      <4>2. QED
        BY <2>2, <2>3, <3>3, <4>1
    <3>4. CASE i - m \in 1 .. n /\ i = m + (i - m) /\ j - m \in 1 .. n /\ j = m + (j - m)
      <4>1. t[i - m] = t[j - m]
        BY <1>1, <2>3, <3>4
      <4>2. i - m = j - m
        BY <2>1, <3>4, <4>1
      <4>3. QED
        BY <3>4, <4>2
    <3>5. QED
      BY <1>2, <3>1, <3>2, <3>3, <3>4
  <2>4. QED
    BY <1>1, <2>3, SetOf
<1>7. QED
  BY <1>4, <1>5, <1>6 DEF r
-----------------------------------------------------------------------------
(***************************************************************************)
(* FlattenSeq.                                                             *)
(***************************************************************************)
LEMMA FlattenStep ==
    ASSUME NEW T, NEW ss \in Seq(Seq(T)), Len(ss) > 0
    PROVE  \E f : /\ f[1] = ss[1] /\ f[Len(ss)] = FlattenSeq(ss)
                  /\ \A i \in 2 .. Len(ss) : f[i] = f[i - 1] \o ss[i]
<1> DEFINE G == [i \in 1 .. Len(ss) |-> [r \in Seq(T) |-> r \o ss[i]]]
           Is(f) == f = [i \in 1 .. Len(ss) |-> IF i = 1 THEN ss[i] ELSE f[i - 1] \o ss[i]]
           F == CHOOSE f : Is(f)
<1>1. Len(ss) \in Nat /\ \A i \in 1 .. Len(ss) : ss[i] \in Seq(T)
  OBVIOUS
<1>2. G \in [1 .. Len(ss) -> [Seq(T) -> Seq(T)]]
  BY <1>1
<1>3. <<>> \in Seq(T)
  OBVIOUS
<1> HIDE DEF G, Is
<1>4. PICK g \in [0 .. Len(ss) -> Seq(T)] :
         g[0] = <<>> /\ \A i \in 1 .. Len(ss) : g[i] = G[i][g[i - 1]]
  <2>1. Unfolds(Len(ss), Seq(T), <<>>, G)
    BY <1>1, <1>2, <1>3, Recursion
  <2>2. QED
    BY <2>1 DEF Unfolds
<1>5. \A i \in 1 .. Len(ss) : g[i] = g[i - 1] \o ss[i]
  <2>1. TAKE i \in 1 .. Len(ss)
  <2>2. i - 1 \in 0 .. Len(ss)
    BY <1>1
  <2>3. g[i - 1] \in Seq(T)
    BY <1>4, <2>2
  <2>4. QED
    BY <1>4, <2>3 DEF G
<1>6. g[1] = ss[1]
  <2>1. 1 \in 1 .. Len(ss) /\ 1 - 1 = 0
    BY <1>1
  <2>2. g[1] = <<>> \o ss[1] /\ ss[1] \in Seq(T)
    BY <1>1, <1>4, <1>5, <2>1
  <2>3. QED
    BY <2>2
<1>7. \E f : Is(f)
  <2> DEFINE f == [i \in 1 .. Len(ss) |-> g[i]]
             h == [i \in 1 .. Len(ss) |-> IF i = 1 THEN ss[i] ELSE f[i - 1] \o ss[i]]
  <2>1. ASSUME NEW i \in 1 .. Len(ss) PROVE f[i] = h[i]
    <3>1. CASE i = 1
      BY <1>6, <3>1
    <3>2. CASE i # 1
      <4>1. i - 1 \in 1 .. Len(ss) /\ f[i - 1] = g[i - 1]
        BY <1>1, <3>2
      <4>2. QED
        BY <1>5, <3>2, <4>1
    <3>3. QED
      BY <3>1, <3>2
  <2>2. f = h
    BY <2>1
  <2>3. QED
    BY <2>2 DEF Is
<1>8. Is(F)
  BY <1>7
<1>9. FlattenSeq(ss) = F[Len(ss)]
  BY DEF FlattenSeq, Is
<1> HIDE DEF F
<1>10. F[1] = ss[1]
  BY <1>1, <1>8 DEF Is
<1>11. \A i \in 2 .. Len(ss) : F[i] = F[i - 1] \o ss[i]
  <2>1. TAKE i \in 2 .. Len(ss)
  <2>2. i \in 1 .. Len(ss) /\ i # 1
    BY <1>1
  <2>3. QED
    BY <1>8, <2>2 DEF Is
<1>12. QED
  BY <1>9, <1>10, <1>11

(* The sequences are injective and have nothing in common.                  *)
Apart(ss, n) ==
    /\ \A i \in 1 .. n : IsInjective(ss[i])
    /\ \A i, j \in 1 .. n : i # j => ToSet(ss[i]) \cap ToSet(ss[j]) = {}

(* FlattenSeq has the members of all its sequences, and repeats none if     *)
(* and only if none is in two places.                                      *)
LEMMA Flatten ==
    ASSUME NEW T, NEW ss \in Seq(Seq(T))
    PROVE  /\ FlattenSeq(ss) \in Seq(T)
           /\ ToSet(FlattenSeq(ss)) = UNION {ToSet(ss[i]) : i \in 1 .. Len(ss)}
           /\ IsInjective(FlattenSeq(ss)) <=> Apart(ss, Len(ss))
<1>1. Len(ss) \in Nat /\ \A i \in 1 .. Len(ss) : ss[i] \in Seq(T)
  OBVIOUS
<1>2. CASE Len(ss) = 0
  <2>1. ss = <<>> /\ FlattenSeq(ss) = ss
    BY <1>1, <1>2, EmptySeq DEF FlattenSeq
  <2>2. ToSet(ss) = {} /\ IsInjective(ss) /\ ss \in Seq(T)
    BY <2>1 DEF ToSet, IsInjective
  <2>3. 1 .. Len(ss) = {}
    BY <1>2
  <2>4. UNION {ToSet(ss[i]) : i \in 1 .. Len(ss)} = {} /\ Apart(ss, Len(ss))
    BY <2>3 DEF Apart
  <2>5. QED
    BY <2>1, <2>2, <2>4
<1>3. CASE Len(ss) > 0
  <2>1. PICK f : /\ f[1] = ss[1] /\ f[Len(ss)] = FlattenSeq(ss)
                 /\ \A i \in 2 .. Len(ss) : f[i] = f[i - 1] \o ss[i]
    BY <1>3, FlattenStep
  <2> DEFINE Good(n) == /\ f[n] \in Seq(T)
                        /\ ToSet(f[n]) = UNION {ToSet(ss[i]) : i \in 1 .. n}
                        /\ IsInjective(f[n]) <=> Apart(ss, n)
             S == {n \in Nat : n + 1 <= Len(ss) => Good(n + 1)}
  <2>2. 0 \in S
    <3>1. ss[1] \in Seq(T) /\ f[1] = ss[1] /\ 1 .. 1 = {1}
      BY <1>1, <1>3, <2>1
    <3>2. Good(1)
      BY <3>1 DEF Apart
    <3>3. 0 + 1 = 1
      OBVIOUS
    <3>4. Good(0 + 1)
      BY ONLY <3>2, <3>3
    <3>5. QED
      BY <3>4
  <2>3. ASSUME NEW n \in S PROVE n + 1 \in S
    <3>1. n \in Nat /\ n + 1 \in Nat
      OBVIOUS
    <3>2. SUFFICES ASSUME n + 2 <= Len(ss) PROVE Good(n + 2)
      BY <3>1
    <3> DEFINE k == n + 1
    <3>3. Good(k) /\ k + 1 \in 2 .. Len(ss) /\ (k + 1) - 1 = k /\ k + 1 \in 1 .. Len(ss)
          /\ n + 2 = k + 1 /\ k \in Nat
      BY <1>1, <3>1, <3>2
    <3> HIDE DEF k, S
    <3>4. f[k + 1] = f[k] \o ss[k + 1] /\ ss[k + 1] \in Seq(T) /\ f[k] \in Seq(T)
      BY <1>1, <2>1, <3>3
    <3>5. \A i : i \in 1 .. k + 1 <=> i \in 1 .. k \/ i = k + 1
      <4>1. k \in Nat
        BY <3>3
      <4>2. QED
        BY <4>1
    <3>6. f[k + 1] \in Seq(T)
      BY <3>4, ConcatProperties
    <3>7. ToSet(f[k + 1]) = ToSet(f[k]) \cup ToSet(ss[k + 1])
      BY <3>4, SetOfConcat
    <3>8. ToSet(f[k + 1]) = UNION {ToSet(ss[i]) : i \in 1 .. k + 1}
      BY <3>3, <3>5, <3>7
    <3>9. IsInjective(f[k + 1]) <=>
            IsInjective(f[k]) /\ IsInjective(ss[k + 1]) /\ ToSet(f[k]) \cap ToSet(ss[k + 1]) = {}
      BY <3>4, SetOfConcat
    <3>10. Apart(ss, k + 1) <=>
             /\ Apart(ss, k) /\ IsInjective(ss[k + 1])
             /\ \A i \in 1 .. k : ToSet(ss[i]) \cap ToSet(ss[k + 1]) = {}
      <4>1. k + 1 \notin 1 .. k
        BY <3>3
      <4>2. ASSUME Apart(ss, k + 1)
            PROVE  /\ Apart(ss, k) /\ IsInjective(ss[k + 1])
                   /\ \A i \in 1 .. k : ToSet(ss[i]) \cap ToSet(ss[k + 1]) = {}
        BY <3>5, <4>1, <4>2 DEF Apart
      <4>3. ASSUME /\ Apart(ss, k) /\ IsInjective(ss[k + 1])
                   /\ \A i \in 1 .. k : ToSet(ss[i]) \cap ToSet(ss[k + 1]) = {}
            PROVE  Apart(ss, k + 1)
        <5>1. \A i \in 1 .. k + 1 : IsInjective(ss[i])
          BY <3>5, <4>3 DEF Apart
        <5>2. ASSUME NEW i \in 1 .. k + 1, NEW j \in 1 .. k + 1, i # j
              PROVE  ToSet(ss[i]) \cap ToSet(ss[j]) = {}
          <6>1. CASE i \in 1 .. k /\ j \in 1 .. k
            BY <4>3, <5>2, <6>1 DEF Apart
          <6>2. CASE i \in 1 .. k /\ j = k + 1
            BY <4>3, <6>2
          <6>3. CASE i = k + 1 /\ j \in 1 .. k
            BY <4>3, <6>3
          <6>4. QED
            BY <3>5, <5>2, <6>1, <6>2, <6>3
        <5>3. QED
          BY <5>1, <5>2 DEF Apart
      <4>4. QED
        BY <4>2, <4>3
    <3>11. ToSet(f[k]) \cap ToSet(ss[k + 1]) = {} <=>
             \A i \in 1 .. k : ToSet(ss[i]) \cap ToSet(ss[k + 1]) = {}
      BY <3>3
    <3>12. Good(k + 1)
      BY <3>3, <3>6, <3>8, <3>9, <3>10, <3>11
    <3>13. QED
      BY <3>3, <3>12
  <2> HIDE DEF S
  <2>4. S = Nat
    <3>1. S \in SUBSET Nat
      BY DEF S
    <3>2. QED
      BY <2>2, <2>3, <3>1, SetInduction
  <2>5. Len(ss) - 1 \in S /\ (Len(ss) - 1) + 1 = Len(ss)
    BY <1>1, <1>3, <2>4
  <2>6. Good(Len(ss))
    BY <1>1, <2>5 DEF S
  <2>7. QED
    BY <2>1, <2>6
<1>4. QED
  BY <1>1, <1>2, <1>3

(* FlattenSeq puts the last sequence after what the others make.            *)
LEMMA FlattenAppend ==
    ASSUME NEW T, NEW ss \in Seq(Seq(T)), NEW x \in Seq(T)
    PROVE  FlattenSeq(Append(ss, x)) = FlattenSeq(ss) \o x
<1> DEFINE l == Len(ss)
           tt == Append(ss, x)
<1>1. /\ l \in Nat /\ tt \in Seq(Seq(T)) /\ Len(tt) = l + 1 /\ tt[l + 1] = x
      /\ \A i \in 1 .. l : tt[i] = ss[i]
  BY AppendProperties, LenProperties
<1> HIDE DEF tt
<1>2. Len(tt) > 0
  BY <1>1
<1>3. PICK g : /\ g[1] = tt[1] /\ g[Len(tt)] = FlattenSeq(tt)
               /\ \A i \in 2 .. Len(tt) : g[i] = g[i - 1] \o tt[i]
  BY <1>1, <1>2, FlattenStep
<1>4. CASE l = 0
  <2>1. ss = <<>> /\ FlattenSeq(ss) = ss
    BY <1>4, EmptySeq DEF FlattenSeq
  <2>2. FlattenSeq(tt) = x
    BY <1>1, <1>3, <1>4
  <2>3. <<>> \o x = x
    OBVIOUS
  <2>4. QED
    BY <2>1, <2>2, <2>3 DEF tt
<1>5. CASE l > 0
  <2>1. PICK f : /\ f[1] = ss[1] /\ f[l] = FlattenSeq(ss)
                 /\ \A i \in 2 .. l : f[i] = f[i - 1] \o ss[i]
    BY <1>5, FlattenStep
  <2> DEFINE S == {i \in Nat : i + 1 <= l => g[i + 1] = f[i + 1]}
  <2>2. 0 \in S
    <3>1. 1 \in 1 .. l
      BY <1>1, <1>5
    <3>2. QED
      BY <1>1, <1>3, <2>1, <3>1
  <2>3. ASSUME NEW n \in S PROVE n + 1 \in S
    <3> n \in Nat /\ n + 1 \in Nat
      OBVIOUS
    <3>1. SUFFICES ASSUME n + 2 <= l PROVE g[n + 2] = f[n + 2]
      OBVIOUS
    <3>2. n + 2 \in 2 .. Len(tt) /\ n + 2 \in 2 .. l /\ n + 2 \in 1 .. l /\ (n + 2) - 1 = n + 1
      BY <1>1, <3>1
    <3>3. g[n + 1] = f[n + 1]
      BY <1>1, <3>1
    <3> HIDE DEF l
    <3>4. g[n + 2] = g[n + 1] \o tt[n + 2] /\ f[n + 2] = f[n + 1] \o ss[n + 2]
      BY <1>3, <2>1, <3>2
    <3>5. QED
      BY <1>1, <3>2, <3>3, <3>4
  <2> HIDE DEF S
  <2>4. S = Nat
    <3>1. S \in SUBSET Nat
      BY DEF S
    <3>2. QED
      BY <2>2, <2>3, <3>1, SetInduction
  <2>5. l - 1 \in S /\ (l - 1) + 1 = l
    BY <1>1, <1>5, <2>4
  <2>6. g[l] = f[l]
    BY <1>1, <2>5 DEF S
  <2>7. l + 1 \in 2 .. Len(tt) /\ (l + 1) - 1 = l
    BY <1>1, <1>5
  <2> HIDE DEF l
  <2>8. g[l + 1] = g[l] \o tt[l + 1] /\ g[l + 1] = FlattenSeq(tt)
    BY <1>1, <1>3, <2>7
  <2>9. QED
    BY <1>1, <2>1, <2>6, <2>8 DEF tt
<1>6. QED
  BY <1>1, <1>4, <1>5

(* A function that increases from 1 .. n to 1 .. n changes nothing.         *)
LEMMA Increasing ==
    ASSUME NEW n \in Nat, NEW q \in [1 .. n -> 1 .. n], \A i, j \in 1 .. n : i < j => q[i] < q[j]
    PROVE  \A k \in 1 .. n : q[k] = k
<1> DEFINE S == {k \in Nat : k + 1 <= n => q[k + 1] >= k + 1}
           D == {d \in Nat : d < n => q[n - d] <= n - d}
<1>1. 0 \in S
  OBVIOUS
<1>2. ASSUME NEW k \in S PROVE k + 1 \in S
  <2>1. SUFFICES ASSUME k + 2 <= n PROVE q[k + 2] >= k + 2
    OBVIOUS
  <2>2. k \in Nat /\ k + 1 \in 1 .. n /\ k + 2 \in 1 .. n /\ k + 1 < k + 2
    BY <2>1
  <2>3. q[k + 1] >= k + 1 /\ q[k + 1] < q[k + 2] /\ q[k + 1] \in 1 .. n /\ q[k + 2] \in 1 .. n
    BY <2>2
  <2>4. QED
    BY <2>2, <2>3
<1>3. 0 \in D
  OBVIOUS
<1>4. ASSUME NEW d \in D PROVE d + 1 \in D
  <2>1. SUFFICES ASSUME d + 1 < n PROVE q[n - (d + 1)] <= n - (d + 1)
    OBVIOUS
  <2>2. d \in Nat /\ n - (d + 1) \in 1 .. n /\ n - d \in 1 .. n /\ n - (d + 1) < n - d
    BY <2>1
  <2>3. q[n - d] <= n - d /\ q[n - (d + 1)] < q[n - d] /\ q[n - d] \in 1 .. n /\ q[n - (d + 1)] \in 1 .. n
    BY <2>2
  <2>4. QED
    BY <2>2, <2>3
<1>5. S \in SUBSET Nat /\ D \in SUBSET Nat
  OBVIOUS
<1> HIDE DEF S, D
<1>6. S = Nat /\ D = Nat
  BY <1>1, <1>2, <1>3, <1>4, <1>5, SetInduction
<1>7. SUFFICES ASSUME NEW k \in 1 .. n PROVE q[k] = k
  OBVIOUS
<1>8. k - 1 \in S /\ (k - 1) + 1 = k /\ n - k \in D /\ n - (n - k) = k
  BY <1>6
<1>9. q[k] >= k /\ q[k] <= k /\ q[k] \in Nat
  BY <1>8 DEF S, D
<1>10. QED
  BY <1>9
=============================================================================
