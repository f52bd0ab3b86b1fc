-------------------------- MODULE CatalogueProofs --------------------------
(***************************************************************************)
(* What is proved of the catalogue of collections, for any clients,        *)
(* configurations, contents of the source and sizes of the cache, and of   *)
(* the walk through the items of a collection, for any source, query and   *)
(* page size.  Both list what they store by the operators of Pages, whose  *)
(* facts come first; a fact about every sequence follows from the least    *)
(* number among its counterexamples.                                       *)
(***************************************************************************)
EXTENDS Catalogue, ItemPaging, SequenceTheorems, FiniteSetTheorems,
        WellFoundedInduction, TLAPS

-----------------------------------------------------------------------------
(* Sequences, selections and slices *)

Below == OpToRel(<, Nat)

LEMMA LeastNumber ==
  ASSUME NEW S \in SUBSET Nat, S # {}
  PROVE  \E n \in S : \A m \in S : n <= m
<1>1. IsWellFoundedOn(Below, Nat)
  BY NatLessThanWellFounded DEF Below
<1>2. PICK n \in S : \A m \in S : <<m, n>> \notin Below
  BY <1>1, WFMin
<1>3. \A m \in S : ~(m < n)
  BY <1>2 DEF Below, OpToRel
<1>. QED BY <1>3

LEMMA Counting ==
  ASSUME NEW T, 0 \in T, \A n \in Nat : n \in T => n + 1 \in T
  PROVE  Nat \subseteq T
<1>1. SUFFICES ASSUME Nat \ T # {} PROVE FALSE
  OBVIOUS
<1>2. PICK n \in Nat \ T : \A m \in Nat \ T : n <= m
  BY <1>1, LeastNumber
<1>3. n # 0 /\ n - 1 \in Nat /\ (n - 1) + 1 = n
  BY <1>2
<1>. QED BY <1>2, <1>3

LEMMA SequenceInduction ==
  ASSUME NEW R, NEW T, <<>> \in T,
         \A s \in Seq(R), x \in R : s \in T => Append(s, x) \in T
  PROVE  Seq(R) \subseteq T
<1> DEFINE Lengths == {n \in Nat : \A s \in Seq(R) : Len(s) = n => s \in T}
<1>1. 0 \in Lengths
  BY EmptySeq
<1>2. ASSUME NEW n \in Nat, n \in Lengths PROVE n + 1 \in Lengths
  <2>1. ASSUME NEW s \in Seq(R), Len(s) = n + 1 PROVE s \in T
    <3>1. PICK t \in Seq(R), x \in R : s = Append(t, x)
      BY <2>1, SequenceEmptyOrAppend
    <3>2. Len(t) = n
      BY <2>1, <3>1, AppendProperties
    <3>. QED BY <1>2, <3>1, <3>2
  <2>. QED BY <2>1
<1>3. Nat \subseteq Lengths
  <2> HIDE DEF Lengths
  <2>. QED BY <1>1, <1>2, Counting
<1>. QED BY <1>3, LenProperties

\* f keeps what is in S of the first n elements of s, for every n.
KeptUpTo(f, s, S, n) ==
  /\ DOMAIN f = 0..n /\ f[0] = <<>>
  /\ \A i \in 1..n : f[i] = IF s[i] \in S THEN Append(f[i - 1], s[i]) ELSE f[i - 1]

LEMMA KeptExists ==
  ASSUME NEW s, NEW S, NEW n \in Nat
  PROVE  \E f : f = [i \in 0..n |-> f[i]] /\ KeptUpTo(f, s, S, n)
<1> DEFINE Reached == {k \in Nat : \E f : f = [i \in 0..k |-> f[i]] /\ KeptUpTo(f, s, S, k)}
<1>1. 0 \in Reached
  <2> DEFINE f == [i \in 0..0 |-> <<>>]
  <2>1. f = [i \in 0..0 |-> f[i]] /\ KeptUpTo(f, s, S, 0)
    BY DEF KeptUpTo
  <2> HIDE DEF f
  <2>. QED BY <2>1
<1>2. ASSUME NEW k \in Nat, k \in Reached PROVE k + 1 \in Reached
  <2>1. PICK f : f = [i \in 0..k |-> f[i]] /\ KeptUpTo(f, s, S, k)
    BY <1>2
  <2> DEFINE last == IF s[k + 1] \in S THEN Append(f[k], s[k + 1]) ELSE f[k]
             g == [i \in 0..k + 1 |-> IF i = k + 1 THEN last ELSE f[i]]
  <2>2. g = [i \in 0..k + 1 |-> g[i]] /\ DOMAIN g = 0..k + 1
    OBVIOUS
  <2>3. \A i \in 0..k : g[i] = f[i]
    OBVIOUS
  <2>4. g[k + 1] = last /\ (k + 1) - 1 = k
    OBVIOUS
  <2> HIDE DEF g
  <2>5. \A i \in 1..k + 1 : i = k + 1 \/ (i \in 1..k /\ i - 1 \in 0..k)
    OBVIOUS
  <2>6. KeptUpTo(g, s, S, k + 1)
    <3>1. /\ f[0] = <<>>
          /\ \A i \in 1..k : f[i] = IF s[i] \in S THEN Append(f[i - 1], s[i]) ELSE f[i - 1]
      BY <2>1 DEF KeptUpTo
    <3>2. g[0] = <<>>
      BY <2>3, <3>1
    <3>3. \A i \in 1..k : g[i] = f[i] /\ g[i - 1] = f[i - 1]
      <4>1. \A i \in 1..k : i \in 0..k /\ i - 1 \in 0..k
        OBVIOUS
      <4>. QED BY <2>3, <4>1
    <3>4. g[k] = f[k]
      BY <2>3
    <3>5. \A i \in 1..k + 1 :
            g[i] = IF s[i] \in S THEN Append(g[i - 1], s[i]) ELSE g[i - 1]
      <4>1. SUFFICES ASSUME NEW i \in 1..k + 1
                     PROVE  g[i] = IF s[i] \in S THEN Append(g[i - 1], s[i]) ELSE g[i - 1]
        OBVIOUS
      <4>2. CASE i \in 1..k
        BY <3>1, <3>3, <4>2
      <4>3. CASE i = k + 1
        BY <2>4, <3>4, <4>3
      <4>. QED BY <2>5, <4>2, <4>3
    <3>. QED BY <2>2, <3>2, <3>5 DEF KeptUpTo
  <2>. QED BY <2>2, <2>6
<1>3. Nat \subseteq Reached
  <2> HIDE DEF Reached
  <2>. QED BY <1>1, <1>2, Counting
<1>. QED BY <1>3

LEMMA SelectKept ==
  ASSUME NEW R, NEW s \in Seq(R), NEW S
  PROVE  \E f : KeptUpTo(f, s, S, Len(s)) /\ Select(s, S) = f[Len(s)]
<1> DEFINE Step(f) == [n \in 0..Len(s) |->
             IF n = 0 THEN <<>>
             ELSE IF s[n] \in S THEN Append(f[n - 1], s[n]) ELSE f[n - 1]]
           kept == CHOOSE f : f = Step(f)
<1>1. Len(s) \in Nat
  BY LenProperties
<1>2. PICK f : f = [i \in 0..Len(s) |-> f[i]] /\ KeptUpTo(f, s, S, Len(s))
  BY <1>1, KeptExists
<1>3. f = Step(f)
  BY <1>1, <1>2 DEF KeptUpTo
<1>4. kept = Step(kept)
  <2> HIDE DEF Step
  <2>. QED BY <1>3
<1>5. Select(s, S) = kept[Len(s)]
  BY DEF Select
<1> HIDE DEF kept
<1>6. kept = [n \in 0..Len(s) |->
             IF n = 0 THEN <<>>
             ELSE IF s[n] \in S THEN Append(kept[n - 1], s[n]) ELSE kept[n - 1]]
  BY <1>4
<1>7. DOMAIN kept = 0..Len(s) /\ kept[0] = <<>>
  <2>1. 0 \in 0..Len(s)
    BY <1>1
  <2>. QED BY <1>6, <2>1
<1>8. ASSUME NEW i \in 1..Len(s)
      PROVE  kept[i] = IF s[i] \in S THEN Append(kept[i - 1], s[i]) ELSE kept[i - 1]
  <2>1. i \in 0..Len(s) /\ i # 0
    BY <1>1
  <2>. QED BY <1>6, <2>1
<1>9. KeptUpTo(kept, s, S, Len(s))
  BY <1>7, <1>8 DEF KeptUpTo
<1>. QED BY <1>5, <1>9

LEMMA KeptUnique ==
  ASSUME NEW s, NEW t, NEW S, NEW f, NEW g, NEW n \in Nat, NEW m \in Nat,
         NEW k \in Nat, k <= n, k <= m, KeptUpTo(f, s, S, n), KeptUpTo(g, t, S, m),
         \A i \in 1..k : s[i] = t[i]
  PROVE  f[k] = g[k]
<1> DEFINE Same == {i \in Nat : i <= k => f[i] = g[i]}
<1>1. 0 \in Same
  BY DEF KeptUpTo
<1>2. ASSUME NEW i \in Nat, i \in Same PROVE i + 1 \in Same
  <2>1. SUFFICES ASSUME i + 1 <= k PROVE f[i + 1] = g[i + 1]
    OBVIOUS
  <2>2. i + 1 \in 1..n /\ i + 1 \in 1..m /\ i + 1 \in 1..k /\ (i + 1) - 1 = i
    BY <2>1
  <2>3. f[i] = g[i]
    BY <1>2, <2>1
  <2>. QED BY <2>2, <2>3 DEF KeptUpTo
<1>3. Nat \subseteq Same
  <2> HIDE DEF Same
  <2>. QED BY <1>1, <1>2, Counting
<1>. QED BY <1>3

LEMMA SelectEmpty == \A S : Select(<<>>, S) = <<>>
<1>. SUFFICES ASSUME NEW S PROVE Select(<<>>, S) = <<>>
  OBVIOUS
<1>1. <<>> \in Seq({}) /\ Len(<<>>) = 0
  BY EmptySeq
<1>2. PICK f : KeptUpTo(f, <<>>, S, 0) /\ Select(<<>>, S) = f[0]
  BY <1>1, SelectKept
<1>. QED BY <1>2 DEF KeptUpTo

LEMMA SelectAppend ==
  ASSUME NEW R, NEW s \in Seq(R), NEW x \in R, NEW S
  PROVE  Select(Append(s, x), S) = IF x \in S THEN Append(Select(s, S), x) ELSE Select(s, S)
<1> DEFINE t == Append(s, x)
<1>1. /\ t \in Seq(R) /\ Len(s) \in Nat /\ Len(t) = Len(s) + 1
      /\ \A i \in 1..Len(s) : t[i] = s[i]
      /\ t[Len(s) + 1] = x
  BY AppendProperties, LenProperties
<1> HIDE DEF t
<1>2. PICK f : KeptUpTo(f, s, S, Len(s)) /\ Select(s, S) = f[Len(s)]
  BY SelectKept
<1>3. PICK g : KeptUpTo(g, t, S, Len(t)) /\ Select(t, S) = g[Len(t)]
  BY <1>1, SelectKept
<1>4. g[Len(s)] = f[Len(s)]
  <2>1. Len(t) \in Nat /\ Len(s) <= Len(s) /\ Len(s) <= Len(t)
    BY <1>1
  <2>2. \A i \in 1..Len(s) : s[i] = t[i]
    BY <1>1
  <2>. QED BY <1>1, <1>2, <1>3, <2>1, <2>2, KeptUnique
<1>5. Len(t) \in 1..Len(t) /\ Len(t) - 1 = Len(s)
  BY <1>1
<1>6. g[Len(t)] = IF t[Len(t)] \in S THEN Append(g[Len(t) - 1], t[Len(t)]) ELSE g[Len(t) - 1]
  BY <1>3, <1>5 DEF KeptUpTo
<1>7. Select(t, S) = IF x \in S THEN Append(Select(s, S), x) ELSE Select(s, S)
  BY <1>1, <1>2, <1>3, <1>4, <1>5, <1>6
<1>. QED BY <1>7 DEF t

-----------------------------------------------------------------------------

LEMMA RangeOfAppend ==
  ASSUME NEW R, NEW s \in Seq(R), NEW x \in R
  PROVE  Range(Append(s, x)) = Range(s) \cup {x}
<1>1. /\ Append(s, x) \in Seq(R) /\ Len(s) \in Nat
      /\ Len(Append(s, x)) = Len(s) + 1
      /\ \A i \in 1..Len(s) : Append(s, x)[i] = s[i]
      /\ Append(s, x)[Len(s) + 1] = x
  BY AppendProperties, LenProperties
<1>2. DOMAIN s = 1..Len(s) /\ DOMAIN Append(s, x) = 1..Len(s) + 1
  BY <1>1, LenProperties
<1>3. 1..Len(s) + 1 = (1..Len(s)) \cup {Len(s) + 1}
  BY <1>1
<1>. QED BY <1>1, <1>2, <1>3 DEF Range

\* What is selected: elements of s, those in S, and no more than s has.
LEMMA SelectType ==
  ASSUME NEW R, NEW s \in Seq(R), NEW S
  PROVE  /\ Select(s, S) \in Seq(R)
         /\ Len(Select(s, S)) <= Len(s)
         /\ Range(Select(s, S)) = Range(s) \cap S
<1> DEFINE T == {t \in Seq(R) : /\ Select(t, S) \in Seq(R)
                               /\ Len(Select(t, S)) <= Len(t)
                               /\ Range(Select(t, S)) = Range(t) \cap S}
<1>1. <<>> \in T
  <2>1. <<>> \in Seq(R) /\ Len(<<>>) = 0 /\ Range(<<>>) = {}
    BY EmptySeq DEF Range
  <2>2. Select(<<>>, S) = <<>>
    BY SelectEmpty
  <2>3. Select(<<>>, S) \in Seq(R)
    BY <2>1, <2>2
  <2>4. Len(Select(<<>>, S)) <= Len(<<>>)
    <3>1. 0 <= 0
      OBVIOUS
    <3>. QED BY <2>1, <2>2, <3>1
  <2>5. Range(Select(<<>>, S)) = Range(<<>>) \cap S
    BY <2>1, <2>2
  <2>. QED BY <2>1, <2>3, <2>4, <2>5
<1>2. ASSUME NEW t \in Seq(R), NEW x \in R, t \in T PROVE Append(t, x) \in T
  <2>1. /\ t \in Seq(R) /\ Select(t, S) \in Seq(R) /\ Len(Select(t, S)) <= Len(t)
        /\ Range(Select(t, S)) = Range(t) \cap S
    BY <1>2
  <2>2. Select(Append(t, x), S) = IF x \in S THEN Append(Select(t, S), x) ELSE Select(t, S)
    BY SelectAppend
  <2>3. /\ Append(t, x) \in Seq(R) /\ Len(Append(t, x)) = Len(t) + 1
        /\ Append(Select(t, S), x) \in Seq(R)
        /\ Len(Append(Select(t, S), x)) = Len(Select(t, S)) + 1
        /\ Len(t) \in Nat /\ Len(Select(t, S)) \in Nat
    BY <2>1, AppendProperties, LenProperties
  <2>4. Range(Append(t, x)) = Range(t) \cup {x}
    BY RangeOfAppend
  <2>5. Range(Append(Select(t, S), x)) = Range(Select(t, S)) \cup {x}
    BY <2>1, RangeOfAppend
  <2>6. Select(Append(t, x), S) \in Seq(R) /\ Len(Select(Append(t, x), S)) <= Len(Append(t, x))
    BY <2>1, <2>2, <2>3
  <2>7. Range(Select(Append(t, x), S)) = Range(Append(t, x)) \cap S
    BY <2>1, <2>2, <2>4, <2>5
  <2>8. Append(t, x) \in Seq(R)
    BY <2>3
  <2>. QED BY <2>6, <2>7, <2>8
<1>3. Seq(R) \subseteq T
  <2> HIDE DEF T
  <2>. QED BY <1>1, <1>2, SequenceInduction
<1>. QED BY <1>3

\* Only which elements of s are in the set matters.
LEMMA SelectSame ==
  ASSUME NEW R, NEW s \in Seq(R), NEW S, NEW V,
         Range(s) \cap S = Range(s) \cap V
  PROVE  Select(s, S) = Select(s, V)
<1> DEFINE T == {t \in Seq(R) : Range(t) \cap S = Range(t) \cap V
                               => Select(t, S) = Select(t, V)}
<1>1. <<>> \in T
  BY SelectEmpty, EmptySeq
<1>2. ASSUME NEW t \in Seq(R), NEW x \in R, t \in T PROVE Append(t, x) \in T
  <2>1. Append(t, x) \in Seq(R) /\ Range(Append(t, x)) = Range(t) \cup {x}
    BY AppendProperties, RangeOfAppend
  <2>2. SUFFICES ASSUME Range(Append(t, x)) \cap S = Range(Append(t, x)) \cap V
                 PROVE  Select(Append(t, x), S) = Select(Append(t, x), V)
    BY <2>1
  <2>3. Range(t) \cap S = Range(t) \cap V /\ (x \in S <=> x \in V)
    BY <2>1, <2>2
  <2>4. Select(t, S) = Select(t, V)
    BY <1>2, <2>3
  <2>5. Select(Append(t, x), S) = IF x \in S THEN Append(Select(t, S), x) ELSE Select(t, S)
    BY SelectAppend
  <2>6. Select(Append(t, x), V) = IF x \in V THEN Append(Select(t, V), x) ELSE Select(t, V)
    BY SelectAppend
  <2>. QED BY <2>3, <2>4, <2>5, <2>6
<1>3. Seq(R) \subseteq T
  <2> HIDE DEF T
  <2>. QED BY <1>1, <1>2, SequenceInduction
<1>. QED BY <1>3

\* A set that leaves nothing out.
LEMMA SelectAll ==
  ASSUME NEW R, NEW s \in Seq(R), NEW S, Range(s) \subseteq S
  PROVE  Select(s, S) = s
<1> DEFINE T == {t \in Seq(R) : Range(t) \subseteq S => Select(t, S) = t}
<1>1. <<>> \in T
  BY SelectEmpty, EmptySeq
<1>2. ASSUME NEW t \in Seq(R), NEW x \in R, t \in T PROVE Append(t, x) \in T
  <2>1. Append(t, x) \in Seq(R) /\ Range(Append(t, x)) = Range(t) \cup {x}
    BY AppendProperties, RangeOfAppend
  <2>. QED BY <1>2, <2>1, SelectAppend
<1>3. Seq(R) \subseteq T
  <2> HIDE DEF T
  <2>. QED BY <1>1, <1>2, SequenceInduction
<1>. QED BY <1>3

\* One selection after another.
LEMMA SelectTwice ==
  ASSUME NEW R, NEW s \in Seq(R), NEW S, NEW V
  PROVE  Select(Select(s, S), V) = Select(s, S \cap V)
<1> DEFINE W == S \cap V
           T == {t \in Seq(R) : Select(Select(t, S), V) = Select(t, W)}
<1>1. <<>> \in T
  BY SelectEmpty, EmptySeq
<1>2. \A x : x \in W <=> x \in S /\ x \in V
  OBVIOUS
<1> HIDE DEF W
<1>3. ASSUME NEW t \in Seq(R), NEW x \in R, t \in T PROVE Append(t, x) \in T
  <2>1. Append(t, x) \in Seq(R) /\ Select(t, S) \in Seq(R)
    BY AppendProperties, SelectType
  <2>2. Select(Append(Select(t, S), x), V)
          = IF x \in V THEN Append(Select(Select(t, S), V), x) ELSE Select(Select(t, S), V)
    BY <2>1, SelectAppend
  <2>3. Select(Append(t, x), S) = IF x \in S THEN Append(Select(t, S), x) ELSE Select(t, S)
    BY SelectAppend
  <2>4. Select(Append(t, x), W) = IF x \in W THEN Append(Select(t, W), x) ELSE Select(t, W)
    BY SelectAppend
  <2>5. Select(Select(t, S), V) = Select(t, W)
    BY <1>3
  <2>6. Select(Select(Append(t, x), S), V) = Select(Append(t, x), W)
    <3>1. CASE x \in S
      BY <1>2, <2>2, <2>3, <2>4, <2>5, <3>1
    <3>2. CASE x \notin S
      BY <1>2, <2>3, <2>4, <2>5, <3>2
    <3>. QED BY <3>1, <3>2
  <2>. QED BY <2>1, <2>6
<1>4. Seq(R) \subseteq T
  <2> HIDE DEF T
  <2>. QED BY <1>1, <1>3, SequenceInduction
<1>. QED BY <1>4 DEF W

\* Where the selected elements stand in s: each at a place of its own.
LEMMA SelectPlaces ==
  ASSUME NEW R, NEW s \in Seq(R), NEW S
  PROVE  \E p \in [1..Len(Select(s, S)) -> 1..Len(s)] :
           /\ \A i \in 1..Len(Select(s, S)) : Select(s, S)[i] = s[p[i]]
           /\ \A i, j \in 1..Len(Select(s, S)) : i < j => p[i] < p[j]
<1> DEFINE Placed(t, p) ==
             /\ p \in [1..Len(Select(t, S)) -> 1..Len(t)]
             /\ \A i \in 1..Len(Select(t, S)) : Select(t, S)[i] = t[p[i]]
             /\ \A i, j \in 1..Len(Select(t, S)) : i < j => p[i] < p[j]
           T == {t \in Seq(R) : \E p : Placed(t, p)}
<1>1. <<>> \in T
  <2>1. <<>> \in Seq(R) /\ Select(<<>>, S) = <<>> /\ Len(<<>>) = 0
    BY SelectEmpty, EmptySeq
  <2> DEFINE p == [i \in 1..0 |-> 1]
  <2>2. p \in [1..0 -> 1..0]
    OBVIOUS
  <2> HIDE DEF p
  <2>3. Placed(<<>>, p)
    BY <2>1, <2>2
  <2>. QED BY <2>1, <2>3
<1>2. ASSUME NEW t \in Seq(R), NEW x \in R, t \in T PROVE Append(t, x) \in T
  <2>1. PICK p : Placed(t, p)
    BY <1>2
  <2> DEFINE u == Append(t, x)
             n == Len(Select(t, S))
             q == [i \in 1..n + 1 |-> IF i = n + 1 THEN Len(t) + 1 ELSE p[i]]
  <2>2. /\ u \in Seq(R) /\ Len(t) \in Nat /\ Len(u) = Len(t) + 1
        /\ \A i \in 1..Len(t) : u[i] = t[i]
        /\ u[Len(t) + 1] = x
    BY AppendProperties, LenProperties
  <2>3. Select(t, S) \in Seq(R) /\ n \in Nat
    BY SelectType, LenProperties
  <2>4. Select(u, S) = IF x \in S THEN Append(Select(t, S), x) ELSE Select(t, S)
    BY SelectAppend
  <2>5. CASE x \notin S
    <3>1. Placed(u, p)
      BY <2>1, <2>2, <2>3, <2>4, <2>5
    <3>. QED BY <2>2, <3>1
  <2>6. CASE x \in S
    <3>1. /\ Len(Select(u, S)) = n + 1
          /\ \A i \in 1..n : Select(u, S)[i] = Select(t, S)[i]
          /\ Select(u, S)[n + 1] = x
      BY <2>3, <2>4, <2>6, AppendProperties
    <3>2. \A i \in 1..n + 1 : i = n + 1 \/ i \in 1..n
      BY <2>3
    <3>3. q \in [1..n + 1 -> 1..Len(t) + 1]
      BY <2>1, <2>2, <2>3, <3>2
    <3>4. q[n + 1] = Len(t) + 1 /\ \A i \in 1..n : q[i] = p[i] /\ p[i] \in 1..Len(t)
      BY <2>1, <2>3
    <3> HIDE DEF q
    <3>5. \A i \in 1..n + 1 : Select(u, S)[i] = u[q[i]]
      BY <2>1, <2>2, <3>1, <3>2, <3>4
    <3>6. \A i, j \in 1..n + 1 : i < j => q[i] < q[j]
      <4>1. SUFFICES ASSUME NEW i \in 1..n + 1, NEW j \in 1..n + 1, i < j
                     PROVE  q[i] < q[j]
        OBVIOUS
      <4>2. i \in 1..n
        BY <2>3, <4>1
      <4>3. CASE j = n + 1
        BY <2>2, <3>4, <4>2, <4>3
      <4>4. CASE j \in 1..n
        BY <2>1, <3>4, <4>1, <4>2, <4>4
      <4>. QED BY <3>2, <4>3, <4>4
    <3>7. Placed(u, q)
      BY <2>2, <3>1, <3>3, <3>5, <3>6
    <3>. QED BY <2>2, <3>7
  <2>. QED BY <2>5, <2>6
<1>3. Seq(R) \subseteq T
  <2> HIDE DEF T
  <2>. QED BY <1>1, <1>2, SequenceInduction
<1>. QED BY <1>3

\* The smaller and the larger of two numbers.
LEMMA MinOfTwo ==
  ASSUME NEW a \in Int, NEW b \in Int
  PROVE  Min({a, b}) = IF a <= b THEN a ELSE b
BY DEF Min

LEMMA MaxOfTwo ==
  ASSUME NEW a \in Int, NEW b \in Int
  PROVE  Max({a, b}) = IF a <= b THEN b ELSE a
BY DEF Max

\* A slice is a stretch of the sequence, as long as the limit and what is left.
LEMMA SliceType ==
  ASSUME NEW R, NEW s \in Seq(R), NEW offset \in Nat, NEW limit \in Nat
  PROVE  /\ Slice(s, offset, limit) \in Seq(R)
         /\ Len(Slice(s, offset, limit)) <= limit
         /\ \A i \in 1..Len(s) - offset : i <= limit => i \in 1..Len(Slice(s, offset, limit))
         /\ \A i \in 1..Len(Slice(s, offset, limit)) :
              /\ offset + i \in 1..Len(s)
              /\ Slice(s, offset, limit)[i] = s[offset + i]
<1> DEFINE last == IF offset + limit <= Len(s) THEN offset + limit ELSE Len(s)
           p == Slice(s, offset, limit)
<1>1. Len(s) \in Nat /\ \A i \in 1..Len(s) : s[i] \in R
  BY LenProperties, ElementOfSeq
<1>2. last \in Nat /\ last <= Len(s) /\ last <= offset + limit
  BY <1>1
<1>3. \A i \in 1..Len(s) - offset : i <= limit => i \in 1..last - offset
  BY <1>1
<1>4. p = SubSeq(s, offset + 1, last)
  BY DEF Slice
<1> HIDE DEF last, p
<1>5. /\ p \in Seq(R)
      /\ Len(p) = IF offset + 1 <= last THEN last - (offset + 1) + 1 ELSE 0
      /\ \A i \in 1..last - (offset + 1) + 1 : p[i] = s[offset + 1 + i - 1]
  <2>1. offset + 1 \in Int /\ last \in Int
    BY <1>2
  <2>2. \A i \in offset + 1..last : s[i] \in R
    BY <1>1, <1>2
  <2>. QED BY <1>4, <2>1, <2>2, SubSeqProperties
<1>6. /\ Len(p) = IF offset < last THEN last - offset ELSE 0
      /\ \A i \in 1..last - offset : p[i] = s[offset + i]
  BY <1>2, <1>5
<1>7. Len(p) <= limit /\ \A i \in 1..Len(s) - offset : i <= limit => i \in 1..Len(p)
  <2>1. Len(p) <= limit
    BY <1>2, <1>6
  <2>2. ASSUME NEW i \in 1..Len(s) - offset, i <= limit PROVE i \in 1..Len(p)
    <3>1. i \in 1..last - offset
      BY <1>3, <2>2
    <3>2. last - offset \in Int /\ i \in Int /\ 1 <= i /\ i <= last - offset
      BY <1>2, <3>1
    <3>3. Len(p) = last - offset
      BY <1>2, <1>6, <3>2
    <3>. QED BY <3>1, <3>3
  <2>. QED BY <2>1, <2>2
<1>8. \A i \in 1..Len(p) : offset + i \in 1..Len(s) /\ p[i] = s[offset + i]
  BY <1>1, <1>2, <1>6
<1>. QED BY <1>5, <1>7, <1>8 DEF p

-----------------------------------------------------------------------------
(* The table *)

\* Keys grow with the order of creation, and identifiers are unique.
TableOK(rows, last) ==
  /\ rows \in Seq(TableRows) /\ last \in 0..MaxRows
  /\ \A i \in DOMAIN rows : rows[i].pk <= last
  /\ \A i, j \in DOMAIN rows :
       i < j => rows[i].pk < rows[j].pk /\ rows[i].name # rows[j].name

LEMMA RowKeys == \A r \in TableRows : r.pk \in Nat /\ r.pk \in 1..MaxRows
BY BoundsAssumption DEF TableRows

LEMMA RowsUnique ==
  ASSUME NEW rows, NEW last, TableOK(rows, last), NEW i \in DOMAIN rows,
         NEW j \in DOMAIN rows, rows[i].pk = rows[j].pk \/ rows[i].name = rows[j].name
  PROVE  i = j
<1>1. i \in Nat /\ j \in Nat /\ rows[i].pk \in Nat /\ rows[j].pk \in Nat
  BY RowKeys DEF TableOK
<1>. QED BY <1>1 DEF TableOK

\* The row of a key, or of an identifier.
LEMMA OneRow ==
  ASSUME NEW rows, NEW last, TableOK(rows, last), NEW r \in Range(rows),
         NEW q \in Range(rows), r.pk = q.pk \/ r.name = q.name
  PROVE  r = q
BY RowsUnique DEF Range

LEMMA RowTyped ==
  ASSUME NEW rows, NEW last, TableOK(rows, last), NEW r \in Range(rows)
  PROVE  r \in TableRows /\ r.pk <= last
BY DEF Range, TableOK

LEMMA RowAppended ==
  ASSUME NEW rows, NEW last, TableOK(rows, last), last < MaxRows, NEW r \in TableRows,
         r.pk = last + 1, GetByResourceIdentifier(rows, r.name) = {}
  PROVE  /\ TableOK(Append(rows, r), last + 1)
         /\ Range(Append(rows, r)) = Range(rows) \cup {r}
<1> DEFINE more == Append(rows, r)
<1>1. rows \in Seq(TableRows) /\ Len(rows) \in Nat /\ last \in Nat /\ MaxRows \in Nat
  BY BoundsAssumption DEF TableOK
<1>2. /\ more \in Seq(TableRows) /\ DOMAIN more = 1..Len(rows) + 1
      /\ DOMAIN rows = 1..Len(rows) /\ more[Len(rows) + 1] = r
      /\ \A i \in DOMAIN rows : more[i] = rows[i]
  BY <1>1
<1>3. \A i \in DOMAIN rows : rows[i].name # r.name /\ rows[i].pk \in Nat /\ rows[i].pk <= last
  BY <1>1, RowKeys DEF GetByResourceIdentifier, Range, TableOK
<1>4. Range(more) = Range(rows) \cup {r}
  BY <1>1, <1>2 DEF Range
<1>. QED BY <1>1, <1>2, <1>3, <1>4 DEF TableOK

LEMMA RowReplaced ==
  ASSUME NEW last, TableOK(table, last), NEW row \in TableRows, NEW old \in Range(table),
         old.pk = row.pk, old.name = row.name
  PROVE  /\ TableOK(Replace(row), last)
         /\ Range(Replace(row)) = {r \in Range(table) : r.pk # row.pk} \cup {row}
<1>1. table \in Seq(TableRows) /\ Len(table) \in Nat /\ DOMAIN table = 1..Len(table)
  BY DEF TableOK
<1>2. Replace(row) \in Seq(TableRows) /\ DOMAIN Replace(row) = DOMAIN table
  BY <1>1 DEF Replace
<1>3. \A i \in DOMAIN table :
        /\ Replace(row)[i] = IF table[i].pk = row.pk THEN row ELSE table[i]
        /\ Replace(row)[i].pk = table[i].pk /\ Replace(row)[i].name = table[i].name
  <2>. SUFFICES ASSUME NEW i \in DOMAIN table
                PROVE  /\ Replace(row)[i] = IF table[i].pk = row.pk THEN row ELSE table[i]
                       /\ Replace(row)[i].pk = table[i].pk
                       /\ Replace(row)[i].name = table[i].name
    OBVIOUS
  <2>1. Replace(row)[i] = IF table[i].pk = row.pk THEN row ELSE table[i]
    BY DEF Replace
  <2>2. table[i].pk = row.pk => table[i] = old
    BY OneRow DEF Range
  <2>. QED BY <2>1, <2>2
<1>4. Range(Replace(row)) = {r \in Range(table) : r.pk # row.pk} \cup {row}
  <2>1. PICK k \in DOMAIN table : table[k] = old
    BY DEF Range
  <2>. QED BY <1>2, <1>3, <2>1 DEF Range
<1> HIDE DEF Replace
<1>. QED BY <1>2, <1>3, <1>4 DEF TableOK

LEMMA RowRemoved ==
  ASSUME NEW rows, NEW last, TableOK(rows, last), NEW i \in DOMAIN rows
  PROVE  /\ TableOK(RemoveAt(rows, i), last)
         /\ Range(RemoveAt(rows, i)) = Range(rows) \ {rows[i]}
<1> DEFINE rest == RemoveAt(rows, i)
           From(j) == IF j < i THEN j ELSE j + 1
<1>1. rows \in Seq(TableRows) /\ Len(rows) \in Nat /\ DOMAIN rows = 1..Len(rows) /\ i \in Nat
  BY DEF TableOK
<1>2. /\ rest \in Seq(TableRows) /\ Len(rest) = Len(rows) - 1
      /\ \A j \in 1..Len(rows) - 1 : rest[j] = rows[From(j)]
  <2> DEFINE front == SubSeq(rows, 1, i - 1)
             back == SubSeq(rows, i + 1, Len(rows))
  <2>1. /\ front \in Seq(TableRows) /\ Len(front) = i - 1
        /\ \A j \in 1..i - 1 : front[j] = rows[j]
    <3>1. \A j \in 1..i - 1 : rows[j] \in TableRows
      BY <1>1
    <3>. QED BY <1>1, <3>1, SubSeqProperties
  <2>2. /\ back \in Seq(TableRows) /\ Len(back) = Len(rows) - i
        /\ \A j \in 1..Len(rows) - i : back[j] = rows[i + j]
    <3>1. \A j \in i + 1..Len(rows) : rows[j] \in TableRows
      BY <1>1
    <3>2. i + 1 \in Int /\ Len(rows) \in Int
      BY <1>1
    <3>3. /\ back \in Seq(TableRows)
          /\ Len(back) = IF i + 1 <= Len(rows) THEN Len(rows) - (i + 1) + 1 ELSE 0
          /\ \A j \in 1..Len(rows) - (i + 1) + 1 : back[j] = rows[(i + 1) + j - 1]
      BY <3>1, <3>2, SubSeqProperties, SMTT(30)
    <3>4. \A j \in 1..Len(rows) - i : (i + 1) + j - 1 = i + j
      BY <1>1
    <3>5. Len(rows) - (i + 1) + 1 = Len(rows) - i
      BY <1>1
    <3> HIDE DEF back
    <3>. QED BY <1>1, <3>3, <3>4, <3>5
  <2>3. rest = front \o back
    BY DEF RemoveAt
  <2> HIDE DEF front, back, rest
  <2>4. /\ rest \in Seq(TableRows) /\ Len(rest) = Len(front) + Len(back)
        /\ \A j \in 1..Len(front) + Len(back) :
             rest[j] = IF j <= Len(front) THEN front[j] ELSE back[j - Len(front)]
    BY <2>1, <2>2, <2>3, ConcatProperties
  <2>5. ASSUME NEW j \in 1..Len(rows) - 1 PROVE rest[j] = rows[From(j)]
    <3>1. CASE j < i
      BY <1>1, <2>1, <2>2, <2>4, <3>1, SMTT(30)
    <3>2. CASE i <= j
      <4>1. j - (i - 1) \in 1..Len(rows) - i /\ i + (j - (i - 1)) = j + 1
        BY <1>1, <3>2
      <4>2. rest[j] = back[j - (i - 1)]
        BY <1>1, <2>1, <2>2, <2>4, <3>2, SMTT(30)
      <4>3. back[j - (i - 1)] = rows[i + (j - (i - 1))]
        BY <2>2, <4>1
      <4>4. From(j) = j + 1
        BY <1>1, <3>2
      <4>. QED BY <4>1, <4>2, <4>3, <4>4
    <3>. QED BY <1>1, <3>1, <3>2
  <2>6. Len(rest) = Len(rows) - 1
    BY <1>1, <2>1, <2>2, <2>4
  <2>. QED BY <2>4, <2>5, <2>6
<1>3. DOMAIN rest = 1..Len(rows) - 1
  BY <1>1, <1>2
<1> HIDE DEF rest
<1>4. \A j \in DOMAIN rest : From(j) \in DOMAIN rows /\ From(j) # i
  BY <1>1, <1>3
<1>5. \A j, k \in DOMAIN rest : j < k => From(j) < From(k)
  BY <1>1, <1>3
<1>6. \A k \in DOMAIN rows : k # i => \E j \in DOMAIN rest : From(j) = k
  <2>. SUFFICES ASSUME NEW k \in DOMAIN rows, k # i
                PROVE  \E j \in DOMAIN rest : From(j) = k
    OBVIOUS
  <2>1. CASE k < i
    BY <1>1, <1>3, <2>1
  <2>2. CASE k > i
    <3>1. k - 1 \in DOMAIN rest /\ From(k - 1) = k
      BY <1>1, <1>3, <2>2
    <3>. QED BY <3>1
  <2>. QED BY <1>1, <2>1, <2>2
<1>7. \A j \in DOMAIN rest : rest[j] = rows[From(j)]
  BY <1>2, <1>3
<1> HIDE DEF From
<1>8. Range(rest) = Range(rows) \ {rows[i]}
  <2>1. \A k \in DOMAIN rows : rows[k] = rows[i] => k = i
    BY RowsUnique
  <2>. QED BY <1>4, <1>6, <1>7, <2>1 DEF Range
<1>9. TableOK(rest, last)
  BY <1>2, <1>4, <1>5, <1>7 DEF TableOK
<1>. QED BY <1>8, <1>9 DEF rest

-----------------------------------------------------------------------------
(* What providers say *)

SourceOK == source \in [up : BOOLEAN, version : Versions]

LEMMA Answers ==
  \A g \in Configs, v, w \in Versions :
    /\ StorageCrs(g, ContentOf[v]) \in Systems \cup {None}
    /\ SpatialExtent(g, ContentOf[v], ContentOf[w]) \in Extents
    /\ g.kind # "postgis" => LET e == SpatialExtent(g, ContentOf[v], ContentOf[w])
                             IN e.numbers = e.label
    /\ TemporalExtent(g, ContentOf[v]) \in BOOLEAN
<1>. SUFFICES ASSUME NEW g \in Configs, NEW v \in Versions, NEW w \in Versions
              PROVE  /\ StorageCrs(g, ContentOf[v]) \in Systems \cup {None}
                     /\ SpatialExtent(g, ContentOf[v], ContentOf[w]) \in Extents
                     /\ g.kind # "postgis" =>
                          LET e == SpatialExtent(g, ContentOf[v], ContentOf[w])
                          IN e.numbers = e.label
                     /\ TemporalExtent(g, ContentOf[v]) \in BOOLEAN
  OBVIOUS
<1> DEFINE d == ContentOf[v]
           later == ContentOf[w]
           labelled == {NoExtent} \cup {In(system) : system \in Systems}
<1>1. /\ g.kind \in Kinds /\ g.declared \in Systems \cup {"unset"} /\ g.dated \in BOOLEAN
      /\ d.native \in Systems \cup {None} /\ d.rows \in BOOLEAN
      /\ later.native \in Systems \cup {None} /\ later.rows \in BOOLEAN
  BY ConfigsAssumption, ContentsAssumption DEF Contents
<1>2. "CRS84" \in Systems /\ "WGS84" \in Systems /\ None \notin Systems
  BY DEF Systems, None
<1> HIDE DEF d, later
<1>3. StorageCrs(g, d) \in Systems \cup {None}
  BY <1>1, <1>2 DEF StorageCrs, ConfigStorageCrs, DuckdbStorageCrs, DuckdbNative,
     PyogrioStorageCrs, PostgisStorageCrs, PostgisNative, PygeoapiStorageCrs, Kinds
<1>4. /\ ConfigStorageCrs(g) \in Systems
      /\ PostgisNative(d) \in Systems /\ PostgisNative(later) \in Systems
      /\ later.native # None => later.native \in Systems
  BY <1>1, <1>2 DEF ConfigStorageCrs, PostgisNative
<1>5. \A e \in labelled : e \in Extents /\ e.numbers = e.label
  BY DEF NoExtent, In, Extents
<1>6. g.kind # "postgis" => SpatialExtent(g, d, later) \in labelled
  BY <1>1, <1>2, <1>4 DEF SpatialExtent, ConfigExtent, DuckdbExtent, PyogrioExtent, Kinds
<1>7. g.kind = "postgis" => SpatialExtent(g, d, later) \in Extents
  BY <1>4 DEF SpatialExtent, PostgisExtent, Extents
<1>8. TemporalExtent(g, d) \in BOOLEAN
  BY <1>1 DEF TemporalExtent, ConfigDates, DuckdbDates
<1>. QED BY <1>3, <1>5, <1>6, <1>7, <1>8 DEF d, later

\* What is given, and what is imported, is labelled with the system of its numbers.
LEMMA ExtentsLabelled ==
  \A e \in {NoExtent} \cup {In(system) : system \in Systems} :
    e \in Extents /\ e.numbers = e.label
BY DEF NoExtent, In, Extents

LEMMA AnswersOf ==
  \A g \in Configs, v, w \in Versions :
    /\ StorageCrs(g, ContentOf[v]) \in CrsOf(g)
    /\ SpatialExtent(g, ContentOf[v], ContentOf[w]) \in BoxesOf(g)
<1>1. \A g \in Configs : g # NoProvider
  BY ConfigsAssumption DEF NoProvider, Kinds
<1>. QED BY <1>1 DEF CrsOf, BoxesOf

LEMMA BoxesOfLabelled ==
  \A g \in Settings : g.kind # "postgis" => \A e \in BoxesOf(g) : e.numbers = e.label
<1>. SUFFICES ASSUME NEW g \in Settings, g.kind # "postgis", NEW e \in BoxesOf(g)
              PROVE  e.numbers = e.label
  OBVIOUS
<1>1. g \in Configs
  BY DEF BoxesOf, Settings
<1>2. PICK v \in Versions, w \in Versions :
        e = SpatialExtent(g, ContentOf[v], ContentOf[w])
  BY DEF BoxesOf
<1>. QED BY <1>1, <1>2, Answers

\* What can be queried is in the schema, of every kind of provider.
LEMMA QueryablesInSchema ==
  \A g \in Configs : \A d : DOMAIN Queryables(g, d) \subseteq DOMAIN Schema(g, d)
<1>. SUFFICES ASSUME NEW g \in Configs, NEW d
              PROVE  DOMAIN Queryables(g, d) \subseteq DOMAIN Schema(g, d)
  OBVIOUS
<1>1. g.kind \in Kinds
  BY ConfigsAssumption
<1>2. \A f : DOMAIN f \subseteq DOMAIN WithGeometry(f)
  BY DEF WithGeometry
<1>3. CASE g.kind = "collection-config"
  BY <1>2, <1>3 DEF Queryables, Schema, ConfigQueryables, ConfigSchema
<1>4. CASE g.kind = "duckdb"
  BY <1>2, <1>4 DEF Queryables, Schema, DuckdbSchema
<1>5. CASE g.kind = "pyogrio"
  BY <1>5 DEF Queryables, Schema
<1>6. CASE g.kind = "postgis"
  BY <1>6 DEF Queryables, Schema, PostgisQueryables, PostgisSchema
<1>7. CASE g.kind = "pygeoapi"
  BY <1>7 DEF Queryables, Schema, PygeoapiQueryables, PygeoapiSchema
<1>. QED BY <1>1, <1>3, <1>4, <1>5, <1>6, <1>7 DEF Kinds

\* A provider that is asked stays the provider of its collection and configuration.
LEMMA AskedProvider ==
  ASSUME SourceOK, NEW p \in Provider
  PROVE  /\ ColumnsSeen(p) \in Versions /\ BoxSeen(p) \in Versions /\ DatesSeen(p) \in Versions
         /\ WithBox(p) \in Provider /\ WithDates(p) \in Provider
         /\ WithBox(p).name = p.name /\ WithBox(p).config = p.config
         /\ WithDates(p).name = p.name /\ WithDates(p).config = p.config
<1>1. /\ p.columns \in Versions \cup {Unread} /\ p.box \in Versions \cup {Unread}
      /\ p.dates \in Versions \cup {Unread} /\ source.version \in Versions
  BY DEF Provider, SourceOK
<1>2. ColumnsSeen(p) \in Versions /\ BoxSeen(p) \in Versions /\ DatesSeen(p) \in Versions
  BY <1>1 DEF ColumnsSeen, BoxSeen, DatesSeen
<1>. QED BY <1>2 DEF WithBox, WithDates, Provider

LEMMA EnrichedRow ==
  ASSUME NEW row \in TableRows, NEW found \in UpdateKwargs
  PROVE  LET q == Enriched(row, found) IN
         /\ q \in TableRows /\ q.pk = row.pk /\ q.name = row.name /\ q.config = row.config
         /\ q.storage = IF found.storage # None THEN found.storage ELSE row.storage
         /\ q.extent = IF found.extent # NoExtent THEN found.extent ELSE row.extent
<1> DEFINE q == Enriched(row, found)
<1>1. row = [pk |-> row.pk, name |-> row.name, owner |-> row.owner, public |-> row.public,
             config |-> row.config, storage |-> row.storage, extent |-> row.extent,
             dates |-> row.dates]
  BY DEF TableRows
<1>2. q = [row EXCEPT !.storage = IF found.storage # None THEN found.storage ELSE @,
                      !.extent = IF found.extent # NoExtent THEN found.extent ELSE @,
                      !.dates = @ \/ found.dates]
  BY DEF Enriched
<1> HIDE DEF q
<1>3. /\ q = [pk |-> q.pk, name |-> q.name, owner |-> q.owner, public |-> q.public,
              config |-> q.config, storage |-> q.storage, extent |-> q.extent,
              dates |-> q.dates]
      /\ q.pk = row.pk /\ q.name = row.name /\ q.owner = row.owner
      /\ q.public = row.public /\ q.config = row.config
  BY <1>1, <1>2
<1>4. /\ q.storage = IF found.storage # None THEN found.storage ELSE row.storage
      /\ q.extent = IF found.extent # NoExtent THEN found.extent ELSE row.extent
  BY <1>1, <1>2
<1>5. q.dates \in BOOLEAN
  <2>1. q.dates = (row.dates \/ found.dates)
    BY <1>1, <1>2
  <2>. QED BY <2>1 DEF TableRows
<1>6. q.storage \in Systems \cup {None} /\ q.extent \in Extents
  BY <1>4 DEF TableRows, UpdateKwargs
<1>7. q \in TableRows
  BY <1>3, <1>5, <1>6 DEF TableRows
<1>. QED BY <1>3, <1>4, <1>7 DEF q

-----------------------------------------------------------------------------
(* Clients *)

\* A record of a client is complete.
Shape(x) ==
  DOMAIN x = {"step", "purpose", "result", "row", "asked", "uses", "probe", "found",
              "answer"}

\* Under way a request is about one row; a row that was created has been asked for.
AskingSteps == {"extent", "dates", "found"}
UsingSteps == {"ready", "reflected"} \cup AskingSteps
ServingSteps == {"lookup", "probing", "probed", "ready", "reflected"}
CreationSteps == ServingSteps \cup AskingSteps \cup {"default"}
Typed(x, built) ==
  /\ x.step \in Steps /\ x.purpose \in Purposes /\ x.result \in Results
  /\ x.uses \in {0} \cup DOMAIN built /\ x.probe \in Versions \cup {Unread}
  /\ x.found \in UpdateKwargs
  /\ x.row \subseteq TableRows /\ x.asked \subseteq TableRows
  /\ (x.row = {} \/ \E r \in TableRows : x.row = {r})
  /\ x.step # "idle" => x.row # {} /\ x.answer = {}

\* A provider in use, and one that has answered, is that of the row read.
Uses(x, built) ==
  /\ x.step \in ServingSteps \cup AskingSteps => \A r \in x.row : r.config \in Configs
  /\ x.step \in {"probed", "reflected"} => x.probe \in Versions
  /\ x.step \in UsingSteps =>
       /\ x.uses \in DOMAIN built
       /\ \A r \in x.row : /\ built[x.uses].name = r.name
                           /\ built[x.uses].config = r.config
  /\ \A a \in x.answer : \A r \in x.row :
       /\ a.provider.name = r.name /\ a.provider.config = r.config
       /\ DOMAIN a.columns \subseteq DOMAIN Schema(a.provider.config, ContentOf[a.version])

\* What was found so far is what the row leaves open and its provider answers.
Finds(x) ==
  x.step \in AskingSteps => \A r \in x.row :
    /\ x.found.storage # None => r.storage = None /\ x.found.storage \in CrsOf(r.config)
    /\ x.found.extent # NoExtent =>
         r.extent = NoExtent /\ x.found.extent \in BoxesOf(r.config)

\* Who creates goes through the steps of creation with the row created.
Creates(x, last) ==
  /\ \A given \in x.asked : x.asked = {given} /\ given.pk <= last
  /\ x.asked # {} =>
       /\ x.purpose \in {"create", "import"} /\ x.step \in CreationSteps \cup {"idle"}
       /\ x.step # "idle" => \A given \in x.asked, r \in x.row : r.pk = given.pk
  /\ x.asked = {} /\ x.step \in CreationSteps =>
       x.purpose = "serve" /\ x.step \in ServingSteps

\* While it has a storage CRS in hand the stored row has one.
Pending(x, rows) ==
  x.step # "idle" /\ x.asked # {} =>
    \A seen \in x.row : \A r \in rows :
      r.pk = seen.pk /\ seen.storage # None => r.storage # None

\* What creation has made so far of what was given.
Follows(r, given) ==
  /\ r.storage = given.storage
     \/ (given.storage = None /\ r.storage \in {"CRS84"} \cup CrsOf(r.config))
  /\ r.extent = given.extent
     \/ (given.extent = NoExtent /\ r.extent \in BoxesOf(r.config))
  /\ r.config.kind # "postgis" => r.extent.numbers = r.extent.label
  /\ r.config = given.config

Keeps(x, rows, changed) ==
  \A given \in x.asked : \A r \in rows :
    /\ r.pk = given.pk /\ r.pk \notin changed
    /\ x.step # "idle" \/ x.result = "ok"
    => Follows(r, given) /\ x.row = {r}

ClientOK(x, built, last, rows, changed) ==
  /\ Shape(x) /\ Typed(x, built) /\ Uses(x, built) /\ Finds(x) /\ Creates(x, last)
  /\ Pending(x, rows) /\ Keeps(x, rows, changed)

ClientsOK ==
  /\ client = [c \in Clients |-> client[c]]
  /\ \A c \in Clients : ClientOK(client[c], providers, inserted, Range(table), edited)
  /\ \A c, d \in Clients : c # d =>
       \A given \in client[c].asked, other \in client[d].asked : given.pk # other.pk

\* One entry of each key, with a provider built for it.
Entry(built) == [name : Collections, config : Configs, uses : DOMAIN built]
Fits(entry, built) == /\ built[entry.uses].name = entry.name
                      /\ built[entry.uses].config = entry.config
SameKey(entry, other) == entry.name = other.name /\ entry.config = other.config
Held(entries, built) ==
  /\ entries \in Seq(Entry(built))
  /\ \A i \in DOMAIN entries : Fits(entries[i], built)
  /\ \A i, j \in DOMAIN entries : SameKey(entries[i], entries[j]) => i = j
CacheOK == Held(cache, providers) /\ Len(cache) <= CacheSize

CountersOK ==
  /\ requests \in 0..MaxRequests /\ restarts \in 0..MaxRestarts
  /\ edited \subseteq 1..MaxRows /\ cutOff \subseteq 1..MaxRows

CatalogueInv ==
  /\ TableOK(table, inserted) /\ SourceOK /\ providers \in Seq(Provider)
  /\ CacheOK /\ CountersOK /\ ClientsOK /\ StorageCrsKnown

-----------------------------------------------------------------------------
(* Steps *)

\* x is in the middle of the creation of a row.
Makes(x, pk) == x.step # "idle" /\ \E given \in x.asked : given.pk = pk

\* What client c, which becomes x, may do to the rows: edit one, fill in the one it
\* is creating, or create one.  Nobody takes a storage CRS away.
RowsStep(c, x) ==
  /\ edited \subseteq edited' /\ inserted <= inserted'
  /\ \A q \in Range(table') :
       \/ q \in Range(table)
       \/ \E r \in Range(table) :
            /\ r.pk = q.pk /\ (r.storage # None => q.storage # None)
            /\ q.pk \in edited' \/ Makes(client[c], q.pk)
       \/ q.pk = inserted + 1 /\ Makes(x, q.pk)

ProvidersKept ==
  \A u \in DOMAIN providers :
    /\ u \in DOMAIN providers'
    /\ providers'[u].name = providers[u].name /\ providers'[u].config = providers[u].config

LEMMA OthersStay ==
  ASSUME CatalogueInv, NEW c \in Clients, NEW x, RowsStep(c, x), ProvidersKept,
         TableOK(table', inserted'), NEW d \in Clients, d # c
  PROVE  ClientOK(client[d], providers', inserted', Range(table'), edited')
<1> DEFINE y == client[d]
           R == Range(table)
<1>1. ClientOK(y, providers, inserted, R, edited)
  BY DEF CatalogueInv, ClientsOK
<1>2. \A given \in client[c].asked, other \in y.asked : given.pk # other.pk
  BY DEF CatalogueInv, ClientsOK
<1>3. inserted \in Nat /\ \A given \in y.asked : given.pk <= inserted /\ given.pk \in Nat
  BY <1>1, RowKeys DEF CatalogueInv, TableOK, ClientOK, Creates, Typed
<1>4. /\ edited \subseteq edited' /\ inserted <= inserted' /\ inserted' \in Nat
      /\ \A q \in Range(table') :
           \/ q \in R
           \/ \E r \in R : /\ r.pk = q.pk /\ (r.storage # None => q.storage # None)
                           /\ q.pk \in edited' \/ Makes(client[c], q.pk)
           \/ q.pk = inserted + 1
  BY DEF RowsStep, TableOK
<1> HIDE DEF y, R
<1>5. /\ Shape(y) /\ Typed(y, providers') /\ Uses(y, providers') /\ Finds(y)
      /\ Creates(y, inserted')
  BY <1>1, <1>3, <1>4 DEF ClientOK, Typed, Uses, Creates, ProvidersKept
<1>6. Pending(y, Range(table'))
  BY <1>1, <1>3, <1>4 DEF ClientOK, Pending, Creates
<1>7. Keeps(y, Range(table'), edited')
  BY <1>1, <1>2, <1>3, <1>4 DEF ClientOK, Keeps, Makes
<1>. QED BY <1>5, <1>6, <1>7 DEF ClientOK, y

LEMMA ClientActs ==
  ASSUME CatalogueInv, NEW c \in Clients, NEW x, client' = [client EXCEPT ![c] = x],
         ClientOK(x, providers', inserted', Range(table'), edited'),
         x.asked \subseteq client[c].asked \/ \A given \in x.asked : given.pk = inserted + 1,
         \A q \in Range(table') :
           q.storage = None /\ Makes(client[c], q.pk) => Makes(x, q.pk),
         RowsStep(c, x), ProvidersKept, TableOK(table', inserted'), SourceOK',
         providers' \in Seq(Provider), CacheOK', CountersOK', cutOff' = cutOff
  PROVE  CatalogueInv'
<1>1. \A d \in Clients : client'[d] = IF d = c THEN x ELSE client[d]
  BY DEF CatalogueInv, ClientsOK
<1>2. \A d \in Clients : ClientOK(client'[d], providers', inserted', Range(table'), edited')
  BY <1>1, OthersStay
<1>3. \A d \in Clients : \A given \in client[d].asked : given.pk < inserted + 1
  <2>1. inserted \in Nat
    BY DEF CatalogueInv, TableOK
  <2>. QED
    BY <2>1, RowKeys DEF CatalogueInv, ClientsOK, ClientOK, Creates, Typed
<1>4. inserted + 1 \in Nat /\ ~(inserted + 1 < inserted + 1)
  BY DEF CatalogueInv, TableOK
<1>5. ASSUME NEW d \in Clients, NEW e \in Clients, d # e,
             NEW given \in client'[d].asked, NEW other \in client'[e].asked
      PROVE  given.pk # other.pk
  <2>1. \A f, g \in Clients : f # g =>
          \A h \in client[f].asked, k \in client[g].asked : h.pk # k.pk
    BY DEF CatalogueInv, ClientsOK
  <2>2. CASE d # c /\ e # c
    BY <1>1, <1>5, <2>1, <2>2
  <2>3. CASE d = c
    BY <1>1, <1>3, <1>4, <1>5, <2>1, <2>3
  <2>4. CASE e = c
    BY <1>1, <1>3, <1>4, <1>5, <2>1, <2>4
  <2>. QED BY <2>2, <2>3, <2>4
<1>6. ClientsOK'
  <2>1. client' = [d \in Clients |-> client'[d]]
    BY DEF CatalogueInv, ClientsOK
  <2>. QED BY <2>1, <1>2, <1>5 DEF ClientsOK
<1>7. ASSUME NEW q \in Range(table'), q.storage = None
      PROVE  (\E d \in Clients : Makes(client'[d], q.pk)) \/ q.pk \in cutOff'
  <2>1. \A r \in Range(table) : r.storage = None =>
          (\E d \in Clients : Makes(client[d], r.pk)) \/ r.pk \in cutOff
    BY DEF CatalogueInv, StorageCrsKnown, Creating, Makes
  <2>2. \/ Makes(x, q.pk)
        \/ \E r \in Range(table) : r.pk = q.pk /\ r.storage = None
    BY <1>7 DEF RowsStep
  <2>3. \A d \in Clients : Makes(client[d], q.pk) => Makes(client'[d], q.pk)
    BY <1>1, <1>7
  <2>. QED BY <1>1, <2>1, <2>2, <2>3
<1>8. StorageCrsKnown'
  BY <1>7 DEF StorageCrsKnown, Creating, Makes
<1>. QED BY <1>6, <1>8 DEF CatalogueInv

\* Most steps leave the rows alone.
LEMMA ClientGoes ==
  ASSUME CatalogueInv, NEW c \in Clients, NEW x, client' = [client EXCEPT ![c] = x],
         ClientOK(x, providers', inserted, Range(table), edited),
         x.asked \subseteq client[c].asked,
         \A q \in Range(table) :
           q.storage = None /\ Makes(client[c], q.pk) => Makes(x, q.pk),
         ProvidersKept, providers' \in Seq(Provider), CacheOK', requests' \in 0..MaxRequests,
         UNCHANGED <<table, inserted, source, restarts, edited, cutOff>>
  PROVE  CatalogueInv'
<1>1. RowsStep(c, x)
  BY DEF RowsStep, CatalogueInv, TableOK
<1>2. TableOK(table', inserted') /\ SourceOK' /\ CountersOK'
  BY DEF CatalogueInv, SourceOK, CountersOK
<1>. QED BY <1>1, <1>2, ClientActs

LEMMA ClientFacts ==
  ASSUME CatalogueInv, NEW c \in Clients
  PROVE  /\ ClientOK(client[c], providers, inserted, Range(table), edited)
         /\ client = [d \in Clients |-> client[d]]
BY DEF CatalogueInv, ClientsOK

LEMMA SameProviders ==
  ASSUME CatalogueInv, UNCHANGED <<providers, cache>>
  PROVE  ProvidersKept /\ providers' \in Seq(Provider) /\ CacheOK'
BY DEF CatalogueInv, ProvidersKept, CacheOK

LEMMA NothingTyped == NothingFound \in UpdateKwargs
BY DEF NothingFound, UpdateKwargs, Extents

\* A request that has ended and keeps nothing but its outcome.
LEMMA RestedOK ==
  ASSUME NEW purpose \in Purposes, NEW result \in Results,
         NEW built, NEW last, NEW rows, NEW changed
  PROVE  LET x == Request(purpose, "idle", result, {}, {}) IN
         ClientOK(x, built, last, rows, changed) /\ x.step = "idle" /\ x.asked = {}
<1> DEFINE x == Request(purpose, "idle", result, {}, {})
<1>1. /\ Shape(x) /\ x.step = "idle" /\ x.purpose = purpose /\ x.result = result
      /\ x.row = {} /\ x.asked = {} /\ x.uses = 0 /\ x.probe = Unread
      /\ x.found = NothingFound /\ x.answer = {}
  BY DEF Request, Shape
<1> HIDE DEF x
<1>2. Typed(x, built)
  BY <1>1, NothingTyped DEF Typed, Steps
<1>3. Uses(x, built) /\ Finds(x) /\ Creates(x, last)
  BY <1>1 DEF Uses, Finds, Creates, CreationSteps, ServingSteps, AskingSteps, UsingSteps
<1>4. Pending(x, rows) /\ Keeps(x, rows, changed)
  BY <1>1 DEF Pending, Keeps
<1>. QED BY <1>1, <1>2, <1>3, <1>4 DEF ClientOK, x

\* A request begins, or is answered at once.
LEMMA RequestOK ==
  ASSUME CatalogueInv, NEW c \in Clients, NEW purpose \in Purposes, NEW step \in Steps,
         NEW result \in Results, NEW row \in SUBSET TableRows,
         CanBegin(c, purpose), Becomes(c, Request(purpose, step, result, row, {})),
         requests' = requests + 1,
         step \in {"idle", "lookup", "editing", "deleting", "overwriting"},
         row = {} \/ \E r \in TableRows : row = {r}, step # "idle" => row # {},
         step = "lookup" => purpose = "serve" /\ \A r \in row : r.config \in Configs,
         UNCHANGED <<table, inserted, source, providers, cache, restarts, edited, cutOff>>
  PROVE  CatalogueInv'
<1> DEFINE x == Request(purpose, step, result, row, {})
<1>1. /\ Shape(x) /\ x.step = step /\ x.purpose = purpose /\ x.row = row
      /\ x.asked = {} /\ x.answer = {} /\ x.uses = 0 /\ x.probe = Unread
      /\ x.result = result /\ x.found = NothingFound
  BY DEF Request, Shape
<1>2. client' = [client EXCEPT ![c] = x]
  BY DEF Becomes
<1> HIDE DEF x
<1>3. Typed(x, providers)
  BY <1>1, NothingTyped DEF Typed
<1>4. Uses(x, providers) /\ Finds(x) /\ Creates(x, inserted)
  BY <1>1 DEF Uses, Finds, Creates, CreationSteps, ServingSteps, AskingSteps, UsingSteps
<1>5. Pending(x, Range(table)) /\ Keeps(x, Range(table), edited)
  BY <1>1 DEF Pending, Keeps
<1>6. ClientOK(x, providers', inserted, Range(table), edited)
  BY <1>1, <1>3, <1>4, <1>5 DEF ClientOK
<1>7. requests' \in 0..MaxRequests
  BY BoundsAssumption DEF CatalogueInv, CountersOK, CanBegin
<1>8. \A pk : ~Makes(client[c], pk)
  BY DEF CanBegin, Makes
<1>. QED BY <1>1, <1>2, <1>6, <1>7, <1>8, SameProviders, ClientGoes

\* A request ends, and everything but the request stays as it is.
LEMMA EndOK ==
  ASSUME CatalogueInv, NEW c \in Clients, NEW result \in Results, End(c, result),
         \A q \in Range(table) : q.storage = None => ~Makes(client[c], q.pk),
         ProvidersKept, providers' \in Seq(Provider), CacheOK',
         UNCHANGED <<table, inserted, source, requests, restarts, edited, cutOff>>
  PROVE  CatalogueInv'
<1> DEFINE x == Request(client[c].purpose, "idle", result, {}, {})
<1>1. client[c].purpose \in Purposes
  BY ClientFacts DEF ClientOK, Typed
<1>2. client' = [client EXCEPT ![c] = x]
  BY DEF End, Becomes
<1>3. ClientOK(x, providers', inserted, Range(table), edited) /\ x.asked = {}
  BY <1>1, RestedOK
<1> HIDE DEF x
<1>4. requests' \in 0..MaxRequests
  BY DEF CatalogueInv, CountersOK
<1>. QED BY <1>2, <1>3, <1>4, ClientGoes

\* A request for a provider goes on, the rows as they are.
LEMMA GoesOn ==
  ASSUME CatalogueInv, NEW c \in Clients, NEW x, Becomes(c, x), Shape(x),
         x.step \in CreationSteps, client[c].step \in CreationSteps,
         x.purpose = client[c].purpose, x.result = client[c].result,
         x.row = client[c].row, x.asked = client[c].asked, x.answer = client[c].answer,
         x.uses \in {0} \cup DOMAIN providers', x.probe \in Versions \cup {Unread},
         x.found \in UpdateKwargs,
         client[c].asked = {} => x.step \in ServingSteps,
         Uses(x, providers'), Finds(x),
         ProvidersKept, providers' \in Seq(Provider), CacheOK',
         UNCHANGED <<table, inserted, source, requests, restarts, edited, cutOff>>
  PROVE  CatalogueInv'
<1>1. ClientOK(client[c], providers, inserted, Range(table), edited)
  BY ClientFacts
<1>2. client' = [client EXCEPT ![c] = x]
  BY DEF Becomes
<1>3. x.step # "idle" /\ x.step \in Steps /\ client[c].step # "idle"
  BY DEF CreationSteps, ServingSteps, AskingSteps, Steps
<1>4. Typed(x, providers')
  BY <1>1, <1>3 DEF ClientOK, Typed
<1>5. Creates(x, inserted)
  BY <1>1, <1>3 DEF ClientOK, Creates
<1>6. Pending(x, Range(table)) /\ Keeps(x, Range(table), edited)
  BY <1>1, <1>3 DEF ClientOK, Pending, Keeps
<1>7. ClientOK(x, providers', inserted, Range(table), edited)
  BY <1>4, <1>5, <1>6 DEF ClientOK
<1>8. requests' \in 0..MaxRequests
  BY DEF CatalogueInv, CountersOK
<1>9. \A pk : Makes(client[c], pk) => Makes(x, pk)
  BY <1>3 DEF Makes
<1>. QED BY <1>2, <1>7, <1>8, <1>9, ClientGoes

\* The row a request is about.
LEMMA TheRow ==
  ASSUME CatalogueInv, NEW c \in Clients, client[c].step # "idle"
  PROVE  /\ client[c].row = {Row(c)} /\ Row(c) \in TableRows
         /\ client[c].answer = {}
<1>1. /\ client[c].answer = {}
      /\ client[c].row # {} /\ (client[c].row = {} \/ \E r \in TableRows : client[c].row = {r})
  BY ClientFacts DEF ClientOK, Typed
<1>2. PICK r \in TableRows : client[c].row = {r}
  BY <1>1
<1>3. Row(c) = r
  BY <1>2 DEF Row
<1>. QED BY <1>1, <1>2, <1>3

\* Creation does without the provider.
LEMMA WithoutProvider ==
  ASSUME CatalogueInv, NEW c \in Clients, Goes(c, "default") \/ GivesUp(c),
         client[c].step \in CreationSteps, client[c].asked # {},
         ProvidersKept, providers' \in Seq(Provider), CacheOK',
         UNCHANGED <<table, inserted, source, requests, restarts, edited, cutOff>>
  PROVE  CatalogueInv'
<1>1. /\ ClientOK(client[c], providers, inserted, Range(table), edited)
      /\ client[c].found \in UpdateKwargs /\ client[c].step # "idle"
  BY ClientFacts DEF ClientOK, Typed, CreationSteps, ServingSteps, AskingSteps
<1>2. PICK x : /\ Becomes(c, x)
               /\ \/ x = [client[c] EXCEPT !.step = "default"]
                  \/ x = [client[c] EXCEPT !.step = "default", !.found = NothingFound]
  BY DEF Goes, GivesUp
<1>3. /\ Shape(x) /\ x.step = "default" /\ x.result = client[c].result
      /\ x.purpose = client[c].purpose
      /\ x.row = client[c].row /\ x.asked = client[c].asked /\ x.uses = client[c].uses
      /\ x.probe = client[c].probe /\ x.answer = client[c].answer
      /\ x.found \in {client[c].found, NothingFound}
  BY <1>1, <1>2 DEF ClientOK, Shape
<1>4. /\ x.uses \in {0} \cup DOMAIN providers' /\ x.probe \in Versions \cup {Unread}
      /\ x.step \in CreationSteps /\ x.found \in UpdateKwargs
  BY <1>1, <1>3, NothingTyped DEF ClientOK, Typed, ProvidersKept, CreationSteps
<1>5. Uses(x, providers') /\ Finds(x)
  BY <1>1, <1>3 DEF ClientOK, Uses, Finds, Typed, ServingSteps, AskingSteps, UsingSteps
<1>. QED BY <1>2, <1>3, <1>4, <1>5, GoesOn

\* Without the provider a request fails.
LEMMA UnavailableOK ==
  ASSUME CatalogueInv, NEW c \in Clients, Unavailable(c),
         client[c].step \in {"probing", "ready"},
         UNCHANGED <<table, inserted, source, providers, cache, requests, restarts,
                     edited, cutOff>>
  PROVE  CatalogueInv'
<1>1. /\ ClientOK(client[c], providers, inserted, Range(table), edited)
      /\ ProvidersKept /\ providers' \in Seq(Provider) /\ CacheOK'
  BY ClientFacts, SameProviders
<1>2. client[c].step \in CreationSteps
  BY DEF CreationSteps, ServingSteps
<1>3. CASE client[c].purpose = "serve"
  <2>1. End(c, "failed") /\ client[c].asked = {} /\ "failed" \in Results
    BY <1>1, <1>3 DEF Unavailable, ClientOK, Creates, Results
  <2>2. \A pk : ~Makes(client[c], pk)
    BY <2>1 DEF Makes
  <2>. QED BY <1>1, <2>1, <2>2, EndOK
<1>4. CASE client[c].purpose # "serve"
  <2>1. Goes(c, "default") /\ client[c].asked # {}
    BY <1>1, <1>2, <1>4 DEF Unavailable, ClientOK, Creates
  <2>. QED BY <1>1, <1>2, <2>1, WithoutProvider
<1>. QED BY <1>3, <1>4

-----------------------------------------------------------------------------
(* The provider of a request *)

LEMMA HeldOn ==
  ASSUME ProvidersKept, NEW entries, Held(entries, providers)
  PROVE  Held(entries, providers')
<1>1. Entry(providers) \subseteq Entry(providers')
  BY DEF Entry, ProvidersKept
<1>2. entries \in Seq(Entry(providers)) /\ entries \in Seq(Entry(providers'))
  <2>1. entries \in Seq(Entry(providers))
    BY DEF Held
  <2>2. \A i \in 1..Len(entries) : entries[i] \in Entry(providers')
    BY <1>1, <2>1
  <2>. QED BY <2>1, <2>2
<1>3. \A e \in Entry(providers) : Fits(e, providers) => Fits(e, providers')
  BY DEF Entry, Fits, ProvidersKept
<1>4. \A i \in DOMAIN entries : Fits(entries[i], providers')
  BY <1>2, <1>3 DEF Held
<1>. QED BY <1>2, <1>4 DEF Held

LEMMA HeldTail ==
  ASSUME NEW built, NEW entries, Held(entries, built), entries # <<>>
  PROVE  Held(Tail(entries), built) /\ Len(Tail(entries)) = Len(entries) - 1
<1> DEFINE rest == Tail(entries)
<1>1. entries \in Seq(Entry(built)) /\ Len(entries) \in Nat /\ DOMAIN entries = 1..Len(entries)
  BY DEF Held
<1>2. /\ rest \in Seq(Entry(built)) /\ Len(rest) = Len(entries) - 1
      /\ \A i \in 1..Len(rest) : rest[i] = entries[i + 1]
  BY <1>1, HeadTailProperties
<1>3. DOMAIN rest = 1..Len(rest)
  BY <1>2
<1> HIDE DEF rest
<1>4. \A i \in DOMAIN rest : i + 1 \in DOMAIN entries
  BY <1>1, <1>2, <1>3
<1>5. \A i, j \in DOMAIN rest : i + 1 = j + 1 => i = j
  BY <1>3
<1>6. Held(rest, built)
  BY <1>2, <1>3, <1>4, <1>5 DEF Held
<1>. QED BY <1>2, <1>6 DEF rest

LEMMA HeldAppend ==
  ASSUME NEW built, NEW entries, Held(entries, built), NEW entry \in Entry(built),
         Fits(entry, built), \A i \in DOMAIN entries : ~SameKey(entries[i], entry)
  PROVE  Held(Append(entries, entry), built)
<1> DEFINE more == Append(entries, entry)
<1>1. entries \in Seq(Entry(built)) /\ Len(entries) \in Nat /\ DOMAIN entries = 1..Len(entries)
  BY DEF Held
<1>2. /\ more \in Seq(Entry(built)) /\ DOMAIN more = 1..Len(entries) + 1
      /\ more[Len(entries) + 1] = entry
      /\ \A i \in DOMAIN entries : more[i] = entries[i]
  BY <1>1
<1>3. \A i \in DOMAIN more : i \in DOMAIN entries \/ i = Len(entries) + 1
  BY <1>1, <1>2
<1> HIDE DEF more
<1>4. \A i \in DOMAIN more : Fits(more[i], built)
  BY <1>2, <1>3 DEF Held
<1>5. \A e, f : SameKey(e, f) => SameKey(f, e)
  BY DEF SameKey
<1>6. \A i, j \in DOMAIN more : SameKey(more[i], more[j]) => i = j
  BY <1>2, <1>3, <1>5 DEF Held
<1>. QED BY <1>2, <1>4, <1>6 DEF Held, more

LEMMA HeldReplace ==
  ASSUME NEW built, NEW entries, Held(entries, built), NEW entry \in Entry(built),
         Fits(entry, built)
  PROVE  LET new == [i \in DOMAIN entries |->
                       IF SameKey(entries[i], entry) THEN entry ELSE entries[i]]
         IN Held(new, built) /\ Len(new) = Len(entries)
<1> DEFINE new == [i \in DOMAIN entries |->
                     IF SameKey(entries[i], entry) THEN entry ELSE entries[i]]
<1>1. entries \in Seq(Entry(built)) /\ Len(entries) \in Nat /\ DOMAIN entries = 1..Len(entries)
  BY DEF Held
<1>2. \A i \in DOMAIN entries : new[i] \in Entry(built)
  BY <1>1
<1>3. new \in Seq(Entry(built)) /\ DOMAIN new = DOMAIN entries /\ Len(new) = Len(entries)
  BY <1>1, <1>2
<1>4. \A i \in DOMAIN entries : /\ SameKey(new[i], entries[i])
                                /\ Fits(new[i], built)
  <2>1. \A i \in DOMAIN entries :
          new[i] = IF SameKey(entries[i], entry) THEN entry ELSE entries[i]
    OBVIOUS
  <2>2. \A e : SameKey(e, e) /\ (SameKey(e, entry) => SameKey(entry, e))
    BY DEF SameKey
  <2> HIDE DEF new
  <2>. QED BY <2>1, <2>2 DEF Held
<1>5. \A i, j \in DOMAIN entries : SameKey(new[i], new[j]) => SameKey(entries[i], entries[j])
  BY <1>4 DEF SameKey
<1> HIDE DEF new
<1>6. Held(new, built)
  BY <1>3, <1>4, <1>5 DEF Held
<1>. QED BY <1>3, <1>6 DEF new

\* The cache keeps one provider of each key, and no more than its bound.
LEMMA Remembered ==
  ASSUME CatalogueInv, NEW name \in Collections, NEW config \in Configs,
         NEW uses \in DOMAIN providers', ProvidersKept,
         providers'[uses].name = name, providers'[uses].config = config,
         cache' = Remember(name, config, uses)
  PROVE  CacheOK'
<1> DEFINE entry == [name |-> name, config |-> config, uses |-> uses]
           room == IF Len(cache) >= CacheSize THEN Tail(cache) ELSE cache
           same == {i \in DOMAIN room : SameKey(room[i], entry)}
           changed == [i \in DOMAIN room |->
                         IF SameKey(room[i], entry) THEN entry ELSE room[i]]
           P == providers'
<1>1. Held(cache, P) /\ Len(cache) <= CacheSize /\ CacheSize \in Nat
  BY HeldOn, BoundsAssumption DEF CatalogueInv, CacheOK
<1>2. CASE CacheSize = 0
  BY <1>1, <1>2 DEF Remember, CacheOK
<1>3. CASE CacheSize # 0
  <2>1. entry \in Entry(P) /\ Fits(entry, P)
    BY DEF Entry, Fits
  <2>2. Len(cache) \in Nat /\ (Len(cache) >= CacheSize => cache # <<>>)
    BY <1>1, <1>3 DEF Held
  <2>3. Held(room, P) /\ Len(room) < CacheSize /\ Len(room) \in Nat
    BY <1>1, <2>2, HeldTail
  <2>4. {i \in DOMAIN room : CacheKey(room[i].name, room[i].config) = CacheKey(name, config)}
          = same
    BY DEF CacheKey, SameKey
  <2>5. cache' = IF same = {} THEN Append(room, entry)
                 ELSE [i \in DOMAIN room |-> IF i \in same THEN entry ELSE room[i]]
    BY <1>3, <2>4 DEF Remember
  <2> HIDE DEF room, entry, P
  <2>6. CASE same = {}
    <3>1. cache' = Append(room, entry) /\ \A i \in DOMAIN room : ~SameKey(room[i], entry)
      BY <2>5, <2>6
    <3>2. Held(cache', P)
      BY <2>1, <2>3, <3>1, HeldAppend
    <3>3. Len(cache') = Len(room) + 1
      BY <2>3, <3>1 DEF Held
    <3>. QED BY <1>1, <2>3, <3>2, <3>3 DEF CacheOK, P
  <2>7. CASE same # {}
    <3>1. cache' = changed
      BY <2>5, <2>7
    <3>2. Held(changed, P) /\ Len(changed) = Len(room)
      BY <2>1, <2>3, HeldReplace
    <3> HIDE DEF changed
    <3>. QED BY <1>1, <2>3, <3>1, <3>2 DEF CacheOK, P
  <2>. QED BY <2>6, <2>7
<1>. QED BY <1>2, <1>3

\* Of a configuration that is looked up there is a provider.
LEMMA NewProviderOK ==
  ASSUME CatalogueInv, NEW c \in Clients, NEW columns \in Versions \cup {Unread},
         NewProvider(c, columns), client[c].step \in {"lookup", "probed"},
         Cached(Row(c).name, Row(c).config) = {} \/ client[c].step = "probed",
         UNCHANGED <<table, inserted, source, requests, restarts, edited, cutOff>>
  PROVE  CatalogueInv'
<1> DEFINE r == Row(c)
           n == Len(providers) + 1
           new == [name |-> r.name, config |-> r.config, columns |-> columns,
                   box |-> Unread, dates |-> Unread]
           x == [client[c] EXCEPT !.step = "ready", !.uses = n, !.probe = Unread]
<1>1. ClientOK(client[c], providers, inserted, Range(table), edited)
      /\ client[c].step # "idle"
  BY ClientFacts
<1>2. client[c].row = {r} /\ r \in TableRows /\ client[c].answer = {}
  BY <1>1, TheRow
<1>3. r.config \in Configs /\ r.name \in Collections
  BY <1>1, <1>2 DEF ClientOK, Uses, TableRows, ServingSteps
<1>4. new \in Provider /\ providers \in Seq(Provider)
  BY <1>3 DEF Provider, CatalogueInv
<1>5. providers' = Append(providers, new) /\ Becomes(c, x)
      /\ cache' = Remember(r.name, r.config, n)
  BY DEF NewProvider
<1>6. /\ Shape(x) /\ x.step = "ready" /\ x.result = client[c].result
      /\ x.purpose = client[c].purpose
      /\ x.row = client[c].row /\ x.asked = client[c].asked /\ x.uses = n
      /\ x.probe = Unread /\ x.answer = client[c].answer /\ x.found = client[c].found
  BY <1>1 DEF ClientOK, Shape
<1>7. /\ n \in Nat /\ DOMAIN providers = 1..Len(providers)
      /\ new.name = r.name /\ new.config = r.config
  BY <1>4
<1> HIDE DEF x, r, n, new
<1>8. /\ providers' \in Seq(Provider) /\ DOMAIN providers' = 1..n
      /\ providers'[n] = new /\ \A u \in DOMAIN providers : providers'[u] = providers[u]
      /\ DOMAIN providers \subseteq DOMAIN providers' /\ n \in DOMAIN providers'
  BY <1>4, <1>5, <1>7 DEF n
<1>9. ProvidersKept
  BY <1>8 DEF ProvidersKept
<1>10. Uses(x, providers') /\ Finds(x)
  BY <1>2, <1>3, <1>6, <1>7, <1>8 DEF Uses, Finds, AskingSteps
<1>11. CacheOK'
  BY <1>3, <1>5, <1>7, <1>8, <1>9, Remembered
<1>12. /\ x.step \in ServingSteps /\ x.step \in CreationSteps
       /\ client[c].step \in CreationSteps /\ x.found \in UpdateKwargs
  BY <1>1, <1>6 DEF CreationSteps, ServingSteps, ClientOK, Typed
<1>. QED BY <1>1, <1>5, <1>6, <1>8, <1>9, <1>10, <1>11, <1>12, GoesOn

LEMMA LookUpOK ==
  ASSUME CatalogueInv, NEW c \in Clients, LookUp(c)
  PROVE  CatalogueInv'
<1> DEFINE hits == Cached(Row(c).name, Row(c).config)
<1>1. /\ client[c].step = "lookup" /\ client[c].step # "idle"
      /\ client[c].step \in CreationSteps
      /\ UNCHANGED <<table, inserted, source, requests, restarts, edited, cutOff>>
  BY DEF LookUp, CreationSteps, ServingSteps
<1>2. /\ ClientOK(client[c], providers, inserted, Range(table), edited)
      /\ client[c].row = {Row(c)}
  BY <1>1, ClientFacts, TheRow
<1>3. CASE hits = {} /\ Row(c).config.kind # "duckdb"
  <2>1. NewProvider(c, Unread)
    BY <1>3 DEF LookUp
  <2>. QED BY <1>1, <1>3, <2>1, NewProviderOK
<1>4. ASSUME NEW i \in hits,
             Becomes(c, [client[c] EXCEPT !.step = "ready", !.uses = cache[i].uses]),
             UNCHANGED <<providers, cache>>
      PROVE  CatalogueInv'
  <2> DEFINE x == [client[c] EXCEPT !.step = "ready", !.uses = cache[i].uses]
  <2>1. /\ Shape(x) /\ x.step = "ready" /\ x.result = client[c].result
        /\ x.purpose = client[c].purpose
        /\ x.row = client[c].row /\ x.asked = client[c].asked /\ x.uses = cache[i].uses
        /\ x.probe = client[c].probe /\ x.answer = client[c].answer
        /\ x.found = client[c].found
    BY <1>2 DEF ClientOK, Shape
  <2>2. /\ i \in DOMAIN cache /\ cache[i].name = Row(c).name /\ cache[i].config = Row(c).config
    BY DEF Cached, CacheKey
  <2>3. cache[i].uses \in DOMAIN providers /\ Fits(cache[i], providers)
    <3>1. cache \in Seq(Entry(providers)) /\ Fits(cache[i], providers)
      BY <2>2 DEF CatalogueInv, CacheOK, Held
    <3>2. cache[i] \in Entry(providers)
      BY <2>2, <3>1
    <3>. QED BY <3>1, <3>2 DEF Entry
  <2>4. Becomes(c, x)
    BY <1>4
  <2> HIDE DEF x
  <2>5. Uses(x, providers') /\ Finds(x)
    BY <1>1, <1>2, <1>4, <2>1, <2>2, <2>3 DEF Uses, Finds, ClientOK, Fits, ServingSteps,
       AskingSteps
  <2>6. /\ x.step \in CreationSteps /\ x.step \in ServingSteps
        /\ x.probe \in Versions \cup {Unread} /\ x.found \in UpdateKwargs
        /\ x.uses \in {0} \cup DOMAIN providers'
    BY <1>2, <1>4, <2>1, <2>3 DEF CreationSteps, ServingSteps, ClientOK, Typed
  <2>. QED BY <1>1, <1>4, <2>1, <2>4, <2>5, <2>6, SameProviders, GoesOn
<1>5. CASE Goes(c, "probing") /\ UNCHANGED <<providers, cache>>
  <2> DEFINE x == [client[c] EXCEPT !.step = "probing"]
  <2>1. /\ Shape(x) /\ x.step = "probing" /\ x.result = client[c].result
        /\ x.purpose = client[c].purpose
        /\ x.row = client[c].row /\ x.asked = client[c].asked /\ x.uses = client[c].uses
        /\ x.probe = client[c].probe /\ x.answer = client[c].answer
        /\ x.found = client[c].found
    BY <1>2 DEF ClientOK, Shape
  <2>2. Becomes(c, x)
    BY <1>5 DEF Goes
  <2> HIDE DEF x
  <2>3. Uses(x, providers') /\ Finds(x)
    BY <1>1, <1>2, <1>5, <2>1 DEF Uses, Finds, ClientOK, ServingSteps, AskingSteps, UsingSteps
  <2>4. /\ x.step \in CreationSteps /\ x.step \in ServingSteps
        /\ x.probe \in Versions \cup {Unread} /\ x.found \in UpdateKwargs
        /\ x.uses \in {0} \cup DOMAIN providers'
    BY <1>2, <1>5, <2>1 DEF CreationSteps, ServingSteps, ClientOK, Typed
  <2>. QED BY <1>1, <1>5, <2>1, <2>2, <2>3, <2>4, SameProviders, GoesOn
<1>. QED BY <1>3, <1>4, <1>5 DEF LookUp

LEMMA ProbeOK ==
  ASSUME CatalogueInv, NEW c \in Clients, Probe(c)
  PROVE  CatalogueInv'
<1>1. /\ client[c].step = "probing"
      /\ UNCHANGED <<table, inserted, source, providers, cache, requests, restarts,
                     edited, cutOff>>
  BY DEF Probe
<1>2. CASE Unavailable(c)
  BY <1>1, <1>2, UnavailableOK
<1>3. CASE Becomes(c, [client[c] EXCEPT !.step = "probed", !.probe = source.version])
  <2> DEFINE x == [client[c] EXCEPT !.step = "probed", !.probe = source.version]
  <2>1. /\ ClientOK(client[c], providers, inserted, Range(table), edited)
        /\ ProvidersKept /\ providers' \in Seq(Provider) /\ CacheOK'
    BY <1>1, ClientFacts, SameProviders
  <2>2. /\ Shape(x) /\ x.step = "probed" /\ x.result = client[c].result
        /\ x.purpose = client[c].purpose
        /\ x.row = client[c].row /\ x.asked = client[c].asked /\ x.uses = client[c].uses
        /\ x.probe = source.version /\ x.answer = client[c].answer
        /\ x.found = client[c].found
    BY <2>1 DEF ClientOK, Shape
  <2>3. source.version \in Versions
    BY DEF CatalogueInv, SourceOK
  <2> HIDE DEF x
  <2>4. Uses(x, providers') /\ Finds(x)
    BY <1>1, <2>1, <2>2, <2>3 DEF Uses, Finds, ClientOK, ServingSteps, AskingSteps, UsingSteps
  <2>5. /\ x.step \in CreationSteps /\ x.step \in ServingSteps
        /\ client[c].step \in CreationSteps
        /\ x.probe \in Versions \cup {Unread} /\ x.found \in UpdateKwargs
        /\ x.uses \in {0} \cup DOMAIN providers'
    BY <1>1, <2>1, <2>2, <2>3 DEF CreationSteps, ServingSteps, ClientOK, Typed
  <2>6. Becomes(c, x)
    BY <1>3 DEF x
  <2>. QED BY <1>1, <2>1, <2>2, <2>4, <2>5, <2>6, GoesOn
<1>. QED BY <1>2, <1>3 DEF Probe

LEMMA KeepBuiltOK ==
  ASSUME CatalogueInv, NEW c \in Clients, KeepBuilt(c)
  PROVE  CatalogueInv'
<1>1. /\ client[c].step = "probed" /\ NewProvider(c, client[c].probe)
      /\ UNCHANGED <<table, inserted, source, requests, restarts, edited, cutOff>>
  BY DEF KeepBuilt
<1>2. client[c].probe \in Versions
  BY <1>1, ClientFacts DEF ClientOK, Uses
<1>. QED BY <1>1, <1>2, NewProviderOK

\* A provider that is asked stays in its place.
LEMMA Asked ==
  ASSUME CatalogueInv, NEW u \in DOMAIN providers, NEW p \in Provider,
         providers' = [providers EXCEPT ![u] = p], UNCHANGED cache,
         p.name = providers[u].name, p.config = providers[u].config
  PROVE  ProvidersKept /\ providers' \in Seq(Provider) /\ CacheOK'
<1>1. providers \in Seq(Provider)
  BY DEF CatalogueInv
<1>2. /\ providers' \in Seq(Provider) /\ DOMAIN providers' = DOMAIN providers
      /\ \A v \in DOMAIN providers : providers'[v] = IF v = u THEN p ELSE providers[v]
  BY <1>1
<1>3. ProvidersKept
  BY <1>2 DEF ProvidersKept
<1>4. CacheOK'
  BY <1>3, HeldOn DEF CatalogueInv, CacheOK
<1>. QED BY <1>2, <1>3, <1>4

\* The provider a client asks is that of its row.
LEMMA TheProvider ==
  ASSUME CatalogueInv, NEW c \in Clients, client[c].step \in UsingSteps
  PROVE  /\ client[c].uses \in DOMAIN providers /\ client[c].step # "idle"
         /\ InUse(c) \in Provider
         /\ InUse(c).name = Row(c).name /\ InUse(c).config = Row(c).config
<1>1. client[c].step # "idle"
  BY DEF UsingSteps, AskingSteps
<1>2. client[c].row = {Row(c)}
  BY <1>1, TheRow
<1>3. /\ client[c].uses \in DOMAIN providers
      /\ providers[client[c].uses].name = Row(c).name
      /\ providers[client[c].uses].config = Row(c).config
  BY <1>2, ClientFacts DEF ClientOK, Uses
<1>4. providers \in Seq(Provider)
  BY DEF CatalogueInv
<1>. QED BY <1>1, <1>3, <1>4 DEF InUse

\* A provider is asked once more, and what it has answered is kept.
LEMMA AsksOn ==
  ASSUME CatalogueInv, NEW c \in Clients, client[c].step \in UsingSteps,
         NEW step \in UsingSteps, NEW probe \in Versions \cup {Unread},
         NEW found \in UpdateKwargs,
         Becomes(c, [client[c] EXCEPT !.step = step, !.probe = probe, !.found = found]),
         client[c].asked = {} => step \in ServingSteps,
         step = "reflected" => probe \in Versions,
         step \in AskingSteps =>
           /\ found.storage # None =>
                Row(c).storage = None /\ found.storage \in CrsOf(Row(c).config)
           /\ found.extent # NoExtent =>
                Row(c).extent = NoExtent /\ found.extent \in BoxesOf(Row(c).config),
         ProvidersKept, providers' \in Seq(Provider), CacheOK',
         UNCHANGED <<table, inserted, source, requests, restarts, edited, cutOff>>
  PROVE  CatalogueInv'
<1> DEFINE x == [client[c] EXCEPT !.step = step, !.probe = probe, !.found = found]
<1>1. /\ ClientOK(client[c], providers, inserted, Range(table), edited)
      /\ client[c].row = {Row(c)} /\ client[c].answer = {}
      /\ client[c].uses \in DOMAIN providers
      /\ providers[client[c].uses].name = Row(c).name
      /\ providers[client[c].uses].config = Row(c).config
      /\ providers[client[c].uses] \in Provider
  BY ClientFacts, TheRow, TheProvider DEF InUse
<1>2. /\ Shape(x) /\ x.step = step /\ x.result = client[c].result
      /\ x.purpose = client[c].purpose
      /\ x.row = client[c].row /\ x.asked = client[c].asked /\ x.uses = client[c].uses
      /\ x.probe = probe /\ x.answer = client[c].answer /\ x.found = found
  BY <1>1 DEF ClientOK, Shape
<1>3. Becomes(c, x)
  OBVIOUS
<1> HIDE DEF x
<1>4. Row(c).config \in Configs
  BY <1>1 DEF Provider
<1>5. Uses(x, providers')
  <2>1. step # "probed"
    BY DEF UsingSteps, AskingSteps
  <2>. QED BY <1>1, <1>2, <1>4, <2>1 DEF Uses, ProvidersKept
<1>6. Finds(x)
  BY <1>1, <1>2 DEF Finds
<1>7. x.step \in CreationSteps /\ client[c].step \in CreationSteps
  BY <1>2 DEF CreationSteps, ServingSteps, UsingSteps
<1>8. x.uses \in {0} \cup DOMAIN providers'
  BY <1>1, <1>2 DEF ProvidersKept
<1>. QED BY <1>2, <1>3, <1>5, <1>6, <1>7, <1>8, GoesOn

\* Who is past the question for the storage CRS is creating.
LEMMA Asking ==
  ASSUME CatalogueInv, NEW c \in Clients,
         \/ client[c].step \in AskingSteps \cup {"default"}
         \/ client[c].step = "ready" /\ client[c].purpose \in {"create", "import"}
  PROVE  client[c].asked # {} /\ client[c].step \in CreationSteps
<1>1. client[c].step \in CreationSteps
  BY DEF CreationSteps, ServingSteps
<1>2. client[c].step \in AskingSteps \cup {"default"} => client[c].step \notin ServingSteps
  BY DEF AskingSteps, ServingSteps
<1>. QED BY <1>1, <1>2, ClientFacts DEF ClientOK, Creates

LEMMA ReadTableOK ==
  ASSUME CatalogueInv, NEW c \in Clients, ReadTable(c)
  PROVE  CatalogueInv'
<1>1. /\ client[c].step = "ready"
      /\ UNCHANGED <<table, inserted, source, providers, cache, requests, restarts,
                     edited, cutOff>>
  BY DEF ReadTable
<1>2. CASE Unavailable(c)
  BY <1>1, <1>2, UnavailableOK
<1>3. CASE Becomes(c, [client[c] EXCEPT !.step = "reflected", !.probe = source.version])
  <2>1. /\ Shape(client[c]) /\ client[c].found \in UpdateKwargs
        /\ source.version \in Versions
    BY ClientFacts DEF ClientOK, Typed, CatalogueInv, SourceOK
  <2>2. [client[c] EXCEPT !.step = "reflected", !.probe = source.version]
          = [client[c] EXCEPT !.step = "reflected", !.probe = source.version,
                              !.found = client[c].found]
    BY <2>1 DEF Shape
  <2>3. /\ "reflected" \in UsingSteps /\ "reflected" \in ServingSteps
        /\ "reflected" \notin AskingSteps /\ client[c].step \in UsingSteps
    BY <1>1 DEF UsingSteps, ServingSteps, AskingSteps
  <2>. QED BY <1>1, <1>3, <2>1, <2>2, <2>3, SameProviders, AsksOn
<1>. QED BY <1>2, <1>3 DEF ReadTable

LEMMA KeepTableOK ==
  ASSUME CatalogueInv, NEW c \in Clients, KeepTable(c)
  PROVE  CatalogueInv'
<1> DEFINE p == [InUse(c) EXCEPT !.columns = client[c].probe]
<1>1. /\ client[c].step = "reflected"
      /\ providers' = [providers EXCEPT ![client[c].uses] = p]
      /\ Becomes(c, [client[c] EXCEPT !.step = "ready", !.probe = Unread])
      /\ UNCHANGED <<table, inserted, source, cache, requests, restarts, edited, cutOff>>
  BY DEF KeepTable
<1>2. /\ Shape(client[c]) /\ client[c].found \in UpdateKwargs /\ client[c].probe \in Versions
  BY <1>1, ClientFacts DEF ClientOK, Typed, Uses
<1>3. /\ "ready" \in UsingSteps /\ "ready" \in ServingSteps
      /\ "ready" \notin AskingSteps /\ client[c].step \in UsingSteps
  BY <1>1 DEF UsingSteps, ServingSteps, AskingSteps
<1>4. p \in Provider /\ p.name = InUse(c).name /\ p.config = InUse(c).config
  BY <1>2, <1>3, TheProvider DEF Provider
<1>5. ProvidersKept /\ providers' \in Seq(Provider) /\ CacheOK'
  BY <1>1, <1>3, <1>4, TheProvider, Asked DEF InUse
<1>6. [client[c] EXCEPT !.step = "ready", !.probe = Unread]
        = [client[c] EXCEPT !.step = "ready", !.probe = Unread, !.found = client[c].found]
  BY <1>2 DEF Shape
<1>7. Becomes(c, [client[c] EXCEPT !.step = "ready", !.probe = Unread,
                                   !.found = client[c].found])
  BY <1>1, <1>6
<1>8. UNCHANGED <<table, inserted, source, requests, restarts, edited, cutOff>>
  BY <1>1
<1>. QED BY <1>2, <1>3, <1>5, <1>7, <1>8, AsksOn

LEMMA AskStorageOK ==
  ASSUME CatalogueInv, NEW c \in Clients, AskStorage(c)
  PROVE  CatalogueInv'
<1> DEFINE p == InUse(c)
           asks == Lacks(Row(c)).storage
           crs == IF asks THEN StorageCrs(p.config, ContentOf[ColumnsSeen(p)]) ELSE None
           found == [NothingFound EXCEPT !.storage = crs]
<1>1. /\ client[c].step = "ready" /\ client[c].purpose \in {"create", "import"}
      /\ UNCHANGED <<table, inserted, source, providers, cache, requests, restarts,
                     edited, cutOff>>
  BY DEF AskStorage
<1>2. client[c].asked # {} /\ client[c].step \in CreationSteps
  BY <1>1, Asking
<1>3. ProvidersKept /\ providers' \in Seq(Provider) /\ CacheOK'
  BY <1>1, SameProviders
<1>4. CASE GivesUp(c)
  BY <1>1, <1>2, <1>3, <1>4, WithoutProvider
<1>5. CASE Becomes(c, [client[c] EXCEPT !.step = "extent", !.found = found])
  <2>1. /\ Shape(client[c]) /\ client[c].probe \in Versions \cup {Unread}
    BY ClientFacts DEF ClientOK, Typed
  <2>2. /\ "extent" \in UsingSteps /\ "extent" \in AskingSteps
        /\ "extent" # "reflected" /\ client[c].step \in UsingSteps
    BY <1>1 DEF UsingSteps, AskingSteps
  <2>3. p \in Provider /\ p.config = Row(c).config /\ p.config \in Configs
    BY <2>2, TheProvider DEF Provider
  <2>4. ColumnsSeen(p) \in Versions
    BY <2>3, AskedProvider DEF CatalogueInv
  <2>5. /\ crs \in Systems \cup {None}
        /\ crs # None => Row(c).storage = None /\ crs \in CrsOf(Row(c).config)
    BY <2>3, <2>4, Answers, AnswersOf DEF Lacks
  <2> HIDE DEF crs, p, asks
  <2>6. found \in UpdateKwargs /\ found.storage = crs /\ found.extent = NoExtent
    BY <2>5 DEF NothingFound, UpdateKwargs, Extents
  <2> HIDE DEF found
  <2>7. [client[c] EXCEPT !.step = "extent", !.found = found]
          = [client[c] EXCEPT !.step = "extent", !.probe = client[c].probe, !.found = found]
    BY <2>1 DEF Shape
  <2>. QED BY <1>1, <1>2, <1>3, <1>5, <2>1, <2>2, <2>5, <2>6, <2>7, AsksOn
<1>. QED BY <1>4, <1>5 DEF AskStorage

LEMMA AskExtentOK ==
  ASSUME CatalogueInv, NEW c \in Clients, AskExtent(c)
  PROVE  CatalogueInv'
<1> DEFINE p == InUse(c)
           asks == Lacks(Row(c)).extent
           box == IF asks THEN SpatialExtent(p.config, ContentOf[ColumnsSeen(p)],
                                             ContentOf[BoxSeen(p)]) ELSE NoExtent
           found == [client[c].found EXCEPT !.extent = box]
           q == IF asks THEN WithBox(p) ELSE p
<1>1. /\ client[c].step = "extent"
      /\ UNCHANGED <<table, inserted, source, cache, requests, restarts, edited, cutOff>>
  BY DEF AskExtent
<1>2. client[c].asked # {} /\ client[c].step \in CreationSteps
  BY <1>1, Asking DEF AskingSteps
<1>3. CASE GivesUp(c) /\ UNCHANGED providers
  BY <1>1, <1>2, <1>3, SameProviders, WithoutProvider
<1>4. CASE /\ Becomes(c, [client[c] EXCEPT !.step = "dates", !.found = found])
           /\ providers' = [providers EXCEPT ![client[c].uses] = q]
  <2>1. /\ Shape(client[c]) /\ client[c].probe \in Versions \cup {Unread}
        /\ client[c].found \in UpdateKwargs /\ Finds(client[c])
    BY ClientFacts DEF ClientOK, Typed
  <2>2. /\ "dates" \in UsingSteps /\ "dates" \in AskingSteps /\ "dates" # "reflected"
        /\ client[c].step \in UsingSteps /\ client[c].step \in AskingSteps
    BY <1>1 DEF UsingSteps, AskingSteps
  <2>3. /\ p \in Provider /\ p.config = Row(c).config /\ p.config \in Configs
        /\ client[c].row = {Row(c)}
    BY <2>2, TheProvider, TheRow DEF Provider
  <2>4. /\ ColumnsSeen(p) \in Versions /\ BoxSeen(p) \in Versions
        /\ q \in Provider /\ q.name = p.name /\ q.config = p.config
    BY <2>3, AskedProvider DEF CatalogueInv
  <2>5. /\ box \in Extents
        /\ box # NoExtent => Row(c).extent = NoExtent /\ box \in BoxesOf(Row(c).config)
    BY <2>3, <2>4, Answers, AnswersOf DEF Lacks, Extents
  <2>6. /\ p = providers[client[c].uses] /\ client[c].uses \in DOMAIN providers
    BY <2>2, TheProvider DEF InUse
  <2> HIDE DEF box, p, asks, q
  <2>7. ProvidersKept /\ providers' \in Seq(Provider) /\ CacheOK'
    BY <1>1, <1>4, <2>4, <2>6, Asked
  <2>8. /\ found \in UpdateKwargs /\ found.extent = box
        /\ found.storage = client[c].found.storage
    BY <2>1, <2>5 DEF UpdateKwargs
  <2> HIDE DEF found
  <2>9. found.storage # None =>
          Row(c).storage = None /\ found.storage \in CrsOf(Row(c).config)
    BY <2>1, <2>2, <2>3, <2>8 DEF Finds
  <2>10. [client[c] EXCEPT !.step = "dates", !.found = found]
           = [client[c] EXCEPT !.step = "dates", !.probe = client[c].probe, !.found = found]
    BY <2>1 DEF Shape
  <2>. QED BY <1>1, <1>2, <1>4, <2>1, <2>2, <2>5, <2>7, <2>8, <2>9, <2>10, AsksOn
<1>. QED BY <1>3, <1>4 DEF AskExtent

LEMMA AskDatesOK ==
  ASSUME CatalogueInv, NEW c \in Clients, AskDates(c)
  PROVE  CatalogueInv'
<1> DEFINE p == InUse(c)
           asks == Lacks(Row(c)).dates
           dates == asks /\ TemporalExtent(p.config, ContentOf[DatesSeen(p)])
           found == [client[c].found EXCEPT !.dates = dates]
           q == IF asks THEN WithDates(p) ELSE p
<1>1. /\ client[c].step = "dates"
      /\ UNCHANGED <<table, inserted, source, cache, requests, restarts, edited, cutOff>>
  BY DEF AskDates
<1>2. client[c].asked # {} /\ client[c].step \in CreationSteps
  BY <1>1, Asking DEF AskingSteps
<1>3. CASE GivesUp(c) /\ UNCHANGED providers
  BY <1>1, <1>2, <1>3, SameProviders, WithoutProvider
<1>4. CASE /\ Becomes(c, [client[c] EXCEPT !.step = "found", !.found = found])
           /\ providers' = [providers EXCEPT ![client[c].uses] = q]
  <2>1. /\ Shape(client[c]) /\ client[c].probe \in Versions \cup {Unread}
        /\ client[c].found \in UpdateKwargs /\ Finds(client[c])
    BY ClientFacts DEF ClientOK, Typed
  <2>2. /\ "found" \in UsingSteps /\ "found" \in AskingSteps /\ "found" # "reflected"
        /\ client[c].step \in UsingSteps /\ client[c].step \in AskingSteps
    BY <1>1 DEF UsingSteps, AskingSteps
  <2>3. p \in Provider /\ p.config \in Configs /\ client[c].row = {Row(c)}
    BY <2>2, TheProvider, TheRow DEF Provider
  <2>4. /\ DatesSeen(p) \in Versions
        /\ q \in Provider /\ q.name = p.name /\ q.config = p.config
    BY <2>3, AskedProvider DEF CatalogueInv
  <2>5. TemporalExtent(p.config, ContentOf[DatesSeen(p)]) \in BOOLEAN
    BY <2>3, <2>4, Answers
  <2>6. asks \in BOOLEAN
    BY DEF Lacks
  <2>7. p = providers[client[c].uses] /\ client[c].uses \in DOMAIN providers
    BY <2>2, TheProvider DEF InUse
  <2>8. dates \in BOOLEAN
    BY <2>5, <2>6
  <2> HIDE DEF p, asks, q, dates
  <2>9. ProvidersKept /\ providers' \in Seq(Provider) /\ CacheOK'
    BY <1>1, <1>4, <2>4, <2>7, Asked
  <2>10. /\ found \in UpdateKwargs /\ found.extent = client[c].found.extent
         /\ found.storage = client[c].found.storage
    BY <2>1, <2>8 DEF UpdateKwargs
  <2> HIDE DEF found
  <2>11. /\ found.storage # None =>
              Row(c).storage = None /\ found.storage \in CrsOf(Row(c).config)
         /\ found.extent # NoExtent =>
              Row(c).extent = NoExtent /\ found.extent \in BoxesOf(Row(c).config)
    BY <2>1, <2>2, <2>3, <2>10 DEF Finds
  <2>12. [client[c] EXCEPT !.step = "found", !.found = found]
           = [client[c] EXCEPT !.step = "found", !.probe = client[c].probe, !.found = found]
    BY <2>1 DEF Shape
  <2>. QED BY <1>1, <1>2, <1>4, <2>1, <2>2, <2>9, <2>10, <2>11, <2>12, AsksOn
<1>. QED BY <1>3, <1>4 DEF AskDates

LEMMA AnswerOK ==
  ASSUME CatalogueInv, NEW c \in Clients, Answer(c)
  PROVE  CatalogueInv'
<1> DEFINE p == InUse(c)
           d == ContentOf[ColumnsSeen(p)]
           Described(question) ==
             [provider |-> p, version |-> ColumnsSeen(p),
              columns |-> IF question = "schema" THEN Schema(p.config, d)
                          ELSE Queryables(p.config, d)]
<1>1. /\ client[c].step = "ready" /\ client[c].purpose = "serve" /\ client[c].step # "idle"
      /\ client[c].step \in UsingSteps
      /\ UNCHANGED <<table, inserted, source, providers, cache, requests, restarts,
                     edited, cutOff>>
  BY DEF Answer, UsingSteps
<1>2. /\ ClientOK(client[c], providers, inserted, Range(table), edited)
      /\ client[c].row = {Row(c)} /\ p \in Provider
      /\ p.name = Row(c).name /\ p.config = Row(c).config
      /\ ProvidersKept /\ providers' \in Seq(Provider) /\ CacheOK'
  BY <1>1, ClientFacts, TheRow, TheProvider, SameProviders
<1>3. client[c].asked = {} /\ \A pk : ~Makes(client[c], pk)
  BY <1>1, <1>2 DEF ClientOK, Creates, Makes
<1>4. CASE End(c, "failed")
  BY <1>1, <1>2, <1>3, <1>4, EndOK DEF Results
<1>5. ASSUME NEW question \in {"schema", "queryables"},
             Becomes(c, [client[c] EXCEPT !.step = "idle", !.result = "ok", !.uses = 0,
                                          !.answer = {Described(question)}])
      PROVE  CatalogueInv'
  <2> DEFINE a == Described(question)
             x == [client[c] EXCEPT !.step = "idle", !.result = "ok", !.uses = 0,
                                    !.answer = {a}]
  <2>1. /\ Shape(x) /\ x.step = "idle" /\ x.result = "ok" /\ x.purpose = client[c].purpose
        /\ x.row = client[c].row /\ x.asked = client[c].asked /\ x.uses = 0
        /\ x.probe = client[c].probe /\ x.found = client[c].found /\ x.answer = {a}
    BY <1>2 DEF ClientOK, Shape
  <2>2. /\ a.provider.name = Row(c).name /\ a.provider.config = Row(c).config
        /\ DOMAIN a.columns \subseteq DOMAIN Schema(a.provider.config, ContentOf[a.version])
    <3>1. p.config \in Configs
      BY <1>2 DEF Provider
    <3>. QED BY <1>2, <3>1, QueryablesInSchema
  <2>3. Becomes(c, x)
    BY <1>5
  <2> HIDE DEF x, a, p, d
  <2>4. Typed(x, providers')
    BY <1>1, <1>2, <2>1 DEF ClientOK, Typed, ProvidersKept, Steps, Results
  <2>5. Uses(x, providers') /\ Finds(x) /\ Creates(x, inserted)
    BY <1>2, <1>3, <2>1, <2>2 DEF Uses, Finds, Creates, CreationSteps, ServingSteps,
       AskingSteps, UsingSteps
  <2>6. Pending(x, Range(table)) /\ Keeps(x, Range(table), edited)
    BY <1>3, <2>1 DEF Pending, Keeps
  <2>7. ClientOK(x, providers', inserted, Range(table), edited)
    BY <2>1, <2>4, <2>5, <2>6 DEF ClientOK
  <2>8. requests' \in 0..MaxRequests /\ client' = [client EXCEPT ![c] = x]
    BY <1>1, <2>3 DEF CatalogueInv, CountersOK, Becomes
  <2>. QED BY <1>1, <1>2, <1>3, <2>1, <2>7, <2>8, ClientGoes
<1>. QED BY <1>4, <1>5 DEF Answer

-----------------------------------------------------------------------------
(* Requests that read first *)

\* The row of an identifier, as one who asks for it gets it.
LEMMA ReadRow ==
  ASSUME CatalogueInv, NEW name,
         NEW got \in {GetByResourceIdentifier(table, name)} \cup
                     {GetCollection(table, a, name) : a \in Principals},
         got # {}
  PROVE  \E r \in TableRows : got = {r}
<1>1. got \subseteq {r \in Range(table) : r.name = name}
  BY DEF GetCollection, GetByResourceIdentifier
<1>2. PICK r \in got : TRUE
  OBVIOUS
<1>3. r \in TableRows
  BY <1>1, <1>2, RowTyped DEF CatalogueInv
<1>4. \A q \in got : q = r
  BY <1>1, <1>2, OneRow DEF CatalogueInv
<1>. QED BY <1>2, <1>3, <1>4

LEMMA ServeOK ==
  ASSUME CatalogueInv, NEW c \in Clients, Serve(c)
  PROVE  CatalogueInv'
<1>1. /\ CanBegin(c, "serve")
      /\ UNCHANGED <<table, inserted, source, providers, cache, restarts, edited, cutOff>>
  BY DEF Serve
<1>2. PICK name \in Collections :
        LET got == GetCollection(table, ActsAs[c], name) IN
        IF got = {} THEN Fail(c, "serve", "missing")
        ELSE IF \E r \in got : r.config = NoProvider THEN Fail(c, "serve", "failed")
        ELSE Begin(c, "serve", "lookup", got)
  BY DEF Serve
<1> DEFINE got == GetCollection(table, ActsAs[c], name)
<1>3. CASE Fail(c, "serve", "missing") \/ Fail(c, "serve", "failed")
  BY <1>1, <1>3, RequestOK DEF Fail, Purposes, Steps, Results
<1>4. CASE got # {} /\ (\A r \in got : r.config # NoProvider)
           /\ Begin(c, "serve", "lookup", got)
  <2>1. PICK r \in TableRows : got = {r}
    BY <1>4, ReadRow, ClientsAssumption
  <2>2. r.config \in Configs
    BY <1>4, <2>1 DEF TableRows, Settings
  <2>3. /\ Becomes(c, Request("serve", "lookup", "none", got, {}))
        /\ requests' = requests + 1
    BY <1>4 DEF Begin
  <2> HIDE DEF got
  <2>4. /\ got \in SUBSET TableRows /\ got # {}
        /\ "serve" \in Purposes /\ "lookup" \in Steps /\ "none" \in Results
    BY <2>1 DEF Purposes, Steps, Results
  <2>. QED BY <1>1, <2>1, <2>2, <2>3, <2>4, RequestOK
<1>. QED BY <1>2, <1>3, <1>4

LEMMA BeginUpdateOK ==
  ASSUME CatalogueInv, NEW c \in Clients, BeginUpdate(c)
  PROVE  CatalogueInv'
<1>1. /\ CanBegin(c, "update")
      /\ UNCHANGED <<table, inserted, source, providers, cache, restarts, edited, cutOff>>
  BY DEF BeginUpdate
<1>2. PICK name \in Collections :
        LET got == GetCollection(table, ActsAs[c], name) IN
        IF got = {} THEN Fail(c, "update", "missing")
        ELSE Begin(c, "update", "editing", got)
  BY DEF BeginUpdate
<1> DEFINE got == GetCollection(table, ActsAs[c], name)
<1>3. CASE Fail(c, "update", "missing")
  BY <1>1, <1>3, RequestOK DEF Fail, Purposes, Steps, Results
<1>4. CASE got # {} /\ Begin(c, "update", "editing", got)
  <2>1. PICK r \in TableRows : got = {r}
    BY <1>4, ReadRow, ClientsAssumption
  <2>2. /\ Becomes(c, Request("update", "editing", "none", got, {}))
        /\ requests' = requests + 1
    BY <1>4 DEF Begin
  <2> HIDE DEF got
  <2>3. /\ got \in SUBSET TableRows /\ got # {}
        /\ "update" \in Purposes /\ "editing" \in Steps /\ "none" \in Results
    BY <2>1 DEF Purposes, Steps, Results
  <2>. QED BY <1>1, <2>1, <2>2, <2>3, RequestOK
<1>. QED BY <1>2, <1>3, <1>4

LEMMA BeginDeleteOK ==
  ASSUME CatalogueInv, NEW c \in Clients, BeginDelete(c)
  PROVE  CatalogueInv'
<1>1. /\ CanBegin(c, "delete")
      /\ UNCHANGED <<table, inserted, source, providers, cache, restarts, edited, cutOff>>
  BY DEF BeginDelete
<1>2. PICK name \in Collections :
        LET found == GetByResourceIdentifier(table, name) IN
        IF found = {} THEN Fail(c, "delete", "missing")
        ELSE IF \E r \in found : ~MayEdit(ActsAs[c], r) THEN Fail(c, "delete", "refused")
        ELSE Begin(c, "delete", "deleting", found)
  BY DEF BeginDelete
<1> DEFINE found == GetByResourceIdentifier(table, name)
<1>3. CASE Fail(c, "delete", "missing") \/ Fail(c, "delete", "refused")
  BY <1>1, <1>3, RequestOK DEF Fail, Purposes, Steps, Results
<1>4. CASE found # {} /\ Begin(c, "delete", "deleting", found)
  <2>1. PICK r \in TableRows : found = {r}
    BY <1>4, ReadRow
  <2>2. /\ Becomes(c, Request("delete", "deleting", "none", found, {}))
        /\ requests' = requests + 1
    BY <1>4 DEF Begin
  <2> HIDE DEF found
  <2>3. /\ found \in SUBSET TableRows /\ found # {}
        /\ "delete" \in Purposes /\ "deleting" \in Steps /\ "none" \in Results
    BY <2>1 DEF Purposes, Steps, Results
  <2>. QED BY <1>1, <2>1, <2>2, <2>3, RequestOK
<1>. QED BY <1>2, <1>3, <1>4

-----------------------------------------------------------------------------
(* Rows are written *)

\* A key that is stored is that of one row.
LEMMA StoredRow ==
  ASSUME CatalogueInv, NEW pk, IsStored(pk)
  PROVE  Stored(pk) \in Range(table) /\ Stored(pk).pk = pk /\ Stored(pk) \in TableRows
<1>1. Stored(pk) \in Range(table) /\ Stored(pk).pk = pk
  BY DEF IsStored, Stored, GetByKey
<1>. QED BY <1>1, RowTyped DEF CatalogueInv

LEMMA InsertOK ==
  ASSUME CatalogueInv, NEW c \in Clients, NEW purpose \in {"create", "import"}, NEW row,
         CanBegin(c, purpose), Insert(c, row, purpose),
         inserted < MaxRows => row \in TableRows,
         row.pk = inserted + 1, row.extent.numbers = row.extent.label,
         UNCHANGED <<source, providers, cache, restarts, edited, cutOff>>
  PROVE  CatalogueInv'
<1> DEFINE x == Request(purpose, IF row.config = NoProvider THEN "default" ELSE "lookup",
                        "none", {row}, {row})
<1>1. CASE GetByResourceIdentifier(table, row.name) # {}
  BY <1>1, RequestOK DEF Insert, Fail, Purposes, Steps, Results
<1>2. CASE GetByResourceIdentifier(table, row.name) = {}
  <2>1. /\ inserted < MaxRows /\ table' = Append(table, row) /\ inserted' = inserted + 1
        /\ requests' = requests + 1 /\ Becomes(c, x)
    BY <1>2 DEF Insert
  <2>2. /\ x.step = IF row.config = NoProvider THEN "default" ELSE "lookup"
        /\ Shape(x) /\ x.purpose = purpose /\ x.row = {row} /\ x.asked = {row}
        /\ x.answer = {} /\ x.uses = 0 /\ x.probe = Unread /\ x.result = "none"
        /\ x.found = NothingFound
    BY DEF Request, Shape
  <2> HIDE DEF x
  <2>3. row \in TableRows /\ inserted \in Nat /\ edited' = edited
    BY <2>1 DEF CatalogueInv, TableOK
  <2>4. TableOK(table', inserted') /\ Range(table') = Range(table) \cup {row}
    BY <1>2, <2>1, <2>3, RowAppended DEF CatalogueInv
  <2>5. \A q \in Range(table') : q.pk = row.pk => q = row
    BY <2>4, OneRow
  <2>6. Typed(x, providers') /\ x.step # "idle"
    BY <2>2, <2>3, NothingTyped DEF Typed, Steps, Purposes, Results
  <2>7. Uses(x, providers') /\ Finds(x) /\ Creates(x, inserted')
    BY <2>1, <2>2, <2>3 DEF Uses, Finds, Creates, CreationSteps, ServingSteps, AskingSteps,
       UsingSteps, TableRows, Settings
  <2>8. Pending(x, Range(table')) /\ Keeps(x, Range(table'), edited')
    BY <2>2, <2>5 DEF Pending, Keeps, Follows
  <2>9. ClientOK(x, providers', inserted', Range(table'), edited')
    BY <2>2, <2>6, <2>7, <2>8 DEF ClientOK
  <2>10. Makes(x, row.pk) /\ \A pk : ~Makes(client[c], pk)
    BY <2>2, <2>6 DEF CanBegin, Makes
  <2>11. RowsStep(c, x)
    BY <2>1, <2>3, <2>4, <2>10 DEF RowsStep
  <2>12. SourceOK' /\ CountersOK'
    BY <2>1, BoundsAssumption DEF CatalogueInv, SourceOK, CountersOK, CanBegin
  <2>13. ProvidersKept /\ providers' \in Seq(Provider) /\ CacheOK'
    BY SameProviders
  <2>14. \A given \in x.asked : given.pk = inserted + 1
    BY <2>2
  <2>15. client' = [client EXCEPT ![c] = x]
    BY <2>1 DEF Becomes
  <2>. QED
    BY <2>4, <2>9, <2>10, <2>11, <2>12, <2>13, <2>14, <2>15, ClientActs
<1>. QED BY <1>1, <1>2

LEMMA CreateOK ==
  ASSUME CatalogueInv, NEW c \in Clients, Create(c)
  PROVE  CatalogueInv'
<1>1. PICK name \in Collections, config \in Settings, draft \in Drafts,
           owner \in {ActsAs[c].id} \cap Users :
        Insert(c, [pk |-> inserted + 1, name |-> name, owner |-> owner,
                   public |-> draft.public, config |-> config,
                   storage |-> draft.storage, extent |-> draft.extent,
                   dates |-> FALSE], "create")
  BY DEF Create
<1> DEFINE row == [pk |-> inserted + 1, name |-> name, owner |-> owner,
                   public |-> draft.public, config |-> config,
                   storage |-> draft.storage, extent |-> draft.extent,
                   dates |-> FALSE]
<1>2. /\ draft.public \in BOOLEAN /\ draft.storage \in Systems \cup {None}
      /\ draft.extent \in {NoExtent} \cup {In(system) : system \in Systems}
  BY DraftsAssumption
<1>3. draft.extent \in Extents /\ draft.extent.numbers = draft.extent.label
  BY <1>2, ExtentsLabelled
<1>4. inserted \in Nat /\ MaxRows \in Nat
  BY BoundsAssumption DEF CatalogueInv, TableOK
<1>5. inserted < MaxRows => row \in TableRows
  BY <1>2, <1>3, <1>4 DEF TableRows
<1>6. row.pk = inserted + 1 /\ row.extent.numbers = row.extent.label
  BY <1>3
<1>7. Insert(c, row, "create") /\ CanBegin(c, "create")
  BY <1>1 DEF Create
<1> HIDE DEF row
<1>. QED BY <1>5, <1>6, <1>7, InsertOK DEF Create

LEMMA ImportOK ==
  ASSUME CatalogueInv, NEW c \in Clients, Import(c)
  PROVE  CatalogueInv'
<1>1. CanBegin(c, "import") /\ UNCHANGED <<source, providers, cache, restarts, edited, cutOff>>
  BY DEF Import
<1>2. ASSUME NEW name \in Collections, NEW config \in PygeoapiSettings,
             NEW owner \in {ActsAs[c].id} \cap Users, NEW got \in Imported,
             Insert(c, [pk |-> inserted + 1, name |-> name, owner |-> owner,
                        public |-> FALSE, config |-> config, storage |-> got.storage,
                        extent |-> got.extent, dates |-> FALSE], "import")
      PROVE  CatalogueInv'
  <2> DEFINE row == [pk |-> inserted + 1, name |-> name, owner |-> owner,
                     public |-> FALSE, config |-> config, storage |-> got.storage,
                     extent |-> got.extent, dates |-> FALSE]
  <2>1. /\ got.storage \in Systems \cup {None}
        /\ got.extent \in {NoExtent} \cup {In(system) : system \in Systems}
    BY DEF Imported, Systems
  <2>2. got.extent \in Extents /\ got.extent.numbers = got.extent.label
    BY <2>1, ExtentsLabelled
  <2>3. inserted \in Nat /\ MaxRows \in Nat /\ config \in Settings
    BY BoundsAssumption DEF CatalogueInv, TableOK, PygeoapiSettings, Settings
  <2>4. inserted < MaxRows => row \in TableRows
    BY <2>1, <2>2, <2>3 DEF TableRows
  <2>5. row.pk = inserted + 1 /\ row.extent.numbers = row.extent.label
    BY <2>2
  <2>6. Insert(c, row, "import")
    BY <1>2
  <2> HIDE DEF row
  <2>. QED BY <1>1, <2>4, <2>5, <2>6, InsertOK
<1>3. ASSUME NEW name \in Collections, GetByResourceIdentifier(table, name) # {},
             \/ Begin(c, "import", "overwriting", GetByResourceIdentifier(table, name))
             \/ Fail(c, "import", "refused"),
             UNCHANGED <<table, inserted>>
      PROVE  CatalogueInv'
  <2> DEFINE existing == GetByResourceIdentifier(table, name)
  <2>1. CASE Fail(c, "import", "refused")
    BY <1>1, <1>3, <2>1, RequestOK DEF Fail, Purposes, Steps, Results
  <2>2. CASE Begin(c, "import", "overwriting", existing)
    <3>1. PICK r \in TableRows : existing = {r}
      BY <1>3, ReadRow
    <3>2. /\ Becomes(c, Request("import", "overwriting", "none", existing, {}))
          /\ requests' = requests + 1
      BY <2>2 DEF Begin
    <3> HIDE DEF existing
    <3>3. /\ existing \in SUBSET TableRows /\ existing # {}
          /\ "import" \in Purposes /\ "overwriting" \in Steps /\ "none" \in Results
      BY <3>1 DEF Purposes, Steps, Results
    <3>. QED BY <1>1, <1>3, <3>1, <3>2, <3>3, RequestOK
  <2>. QED BY <1>3, <2>1, <2>2
<1>. QED BY <1>2, <1>3 DEF Import

\* Somebody edits a row, and leaves no storage CRS empty that was not.
LEMMA EditOK ==
  ASSUME CatalogueInv, NEW c \in Clients, client[c].step \in {"overwriting", "editing"},
         NEW old \in Range(table), NEW new \in TableRows,
         new.pk = old.pk, new.name = old.name, old.storage # None => new.storage # None,
         table' = Replace(new), edited' = edited \cup {old.pk}, End(c, "ok"),
         UNCHANGED <<inserted, source, providers, cache, requests, restarts, cutOff>>
  PROVE  CatalogueInv'
<1> DEFINE x == Request(client[c].purpose, "idle", "ok", {}, {})
<1>1. ClientOK(client[c], providers, inserted, Range(table), edited)
  BY ClientFacts
<1>2. \A pk : ~Makes(client[c], pk)
  BY <1>1 DEF ClientOK, Creates, CreationSteps, ServingSteps, AskingSteps, Makes
<1>3. client[c].purpose \in Purposes /\ "ok" \in Results
  BY <1>1 DEF ClientOK, Typed, Results
<1>4. client' = [client EXCEPT ![c] = x]
  BY DEF End, Becomes
<1>5. /\ TableOK(table', inserted')
      /\ Range(table') = {r \in Range(table) : r.pk # new.pk} \cup {new}
  BY RowReplaced DEF CatalogueInv
<1>6. ProvidersKept /\ providers' \in Seq(Provider) /\ CacheOK'
  BY SameProviders
<1>7. ClientOK(x, providers', inserted', Range(table'), edited') /\ x.asked = {}
  BY <1>3, RestedOK
<1> HIDE DEF x
<1>8. inserted <= inserted' /\ old.pk \in 1..MaxRows
  BY RowKeys DEF CatalogueInv, TableOK
<1>9. RowsStep(c, x)
  BY <1>5, <1>8 DEF RowsStep
<1>10. SourceOK' /\ CountersOK'
  BY <1>8 DEF CatalogueInv, SourceOK, CountersOK
<1>. QED BY <1>2, <1>4, <1>5, <1>6, <1>7, <1>9, <1>10, ClientActs

\* Rows that differ in what an import overwrites.
LEMMA ChangedRow ==
  ASSUME NEW row \in TableRows, NEW config \in Settings, NEW dates \in BOOLEAN,
         NEW extent \in Extents
  PROVE  LET q == [row EXCEPT !.config = config, !.dates = dates, !.extent = extent]
         IN q \in TableRows /\ q.pk = row.pk /\ q.name = row.name /\ q.storage = row.storage
BY DEF TableRows

LEMMA OverwrittenRow ==
  ASSUME NEW row \in TableRows, NEW config \in Settings, NEW got \in Imported
  PROVE  LET q == [UpdateCollection(row, got.storage)
                     EXCEPT !.config = config, !.dates = FALSE, !.extent = got.extent]
         IN q \in TableRows /\ q.pk = row.pk /\ q.name = row.name /\ q.storage # None
<1> DEFINE u == UpdateCollection(row, got.storage)
<1>1. /\ got.storage \in Systems \cup {None} /\ "CRS84" \in Systems /\ None \notin Systems
      /\ got.extent \in {NoExtent} \cup {In(system) : system \in Systems}
  BY DEF Imported, Systems, None
<1>2. got.extent \in Extents
  BY <1>1, ExtentsLabelled
<1>3. /\ u \in TableRows /\ u.pk = row.pk /\ u.name = row.name /\ u.storage # None
  BY <1>1 DEF UpdateCollection, TableRows
<1> HIDE DEF u
<1>4. LET q == [u EXCEPT !.config = config, !.dates = FALSE, !.extent = got.extent]
      IN q \in TableRows /\ q.pk = u.pk /\ q.name = u.name /\ q.storage = u.storage
  BY <1>2, <1>3, ChangedRow
<1>. QED BY <1>3, <1>4 DEF u

LEMMA OverwriteOK ==
  ASSUME CatalogueInv, NEW c \in Clients, Overwrite(c)
  PROVE  CatalogueInv'
<1>1. /\ client[c].step = "overwriting" /\ client[c].step # "idle"
      /\ UNCHANGED <<inserted, source, providers, cache, requests, restarts, cutOff>>
  BY DEF Overwrite
<1>2. \A pk : ~Makes(client[c], pk)
  BY <1>1, ClientFacts DEF ClientOK, Creates, CreationSteps, ServingSteps, AskingSteps, Makes
<1>3. CASE ~IsStored(Row(c).pk)
  <2>1. End(c, "failed") /\ UNCHANGED <<table, edited>> /\ "failed" \in Results
    BY <1>3 DEF Overwrite, Results
  <2>. QED BY <1>1, <1>2, <2>1, SameProviders, EndOK
<1>4. CASE IsStored(Row(c).pk)
  <2> DEFINE old == Stored(Row(c).pk)
  <2>1. old \in Range(table) /\ old.pk = Row(c).pk /\ old \in TableRows
    BY <1>4, StoredRow
  <2>2. PICK config \in PygeoapiSettings, got \in Imported :
          table' = Replace([UpdateCollection(old, got.storage)
                     EXCEPT !.config = config, !.dates = FALSE, !.extent = got.extent])
    BY <1>4 DEF Overwrite
  <2> DEFINE new == [UpdateCollection(old, got.storage)
                       EXCEPT !.config = config, !.dates = FALSE, !.extent = got.extent]
  <2> HIDE DEF old
  <2>3. /\ new \in TableRows /\ new.pk = old.pk /\ new.name = old.name
        /\ new.storage # None
    BY <2>1, OverwrittenRow DEF PygeoapiSettings, Settings
  <2>4. edited' = edited \cup {old.pk} /\ End(c, "ok") /\ table' = Replace(new)
    BY <1>4, <2>1, <2>2 DEF Overwrite
  <2> HIDE DEF new
  <2>. QED BY <1>1, <2>1, <2>3, <2>4, EditOK
<1>. QED BY <1>3, <1>4

LEMMA UpdateOK ==
  ASSUME CatalogueInv, NEW c \in Clients, Update(c)
  PROVE  CatalogueInv'
<1>1. /\ client[c].step = "editing" /\ client[c].step # "idle"
      /\ UNCHANGED <<inserted, source, providers, cache, requests, restarts, cutOff>>
  BY DEF Update
<1>2. \A pk : ~Makes(client[c], pk)
  BY <1>1, ClientFacts DEF ClientOK, Creates, CreationSteps, ServingSteps, AskingSteps, Makes
<1>3. CASE (End(c, "refused") \/ End(c, "missing")) /\ UNCHANGED <<table, edited>>
  <2>1. "refused" \in Results /\ "missing" \in Results
    BY DEF Results
  <2>. QED BY <1>1, <1>2, <1>3, <2>1, SameProviders, EndOK
<1>4. ASSUME NEW r \in GetByResourceIdentifier(table, Row(c).name),
             \/ \E config \in Settings : table' = Replace([r EXCEPT !.config = config])
             \/ \E s \in {None, "local"} : table' = Replace(UpdateCollection(r, s))
             \/ table' = Replace([r EXCEPT !.public = ~r.public]),
             edited' = edited \cup {r.pk}, End(c, "ok")
      PROVE  CatalogueInv'
  <2>1. r \in Range(table) /\ r \in TableRows
    BY RowTyped DEF GetByResourceIdentifier, CatalogueInv
  <2>2. PICK new : /\ table' = Replace(new)
                   /\ \/ \E config \in Settings : new = [r EXCEPT !.config = config]
                      \/ \E s \in {None, "local"} : new = UpdateCollection(r, s)
                      \/ new = [r EXCEPT !.public = ~r.public]
    BY <1>4
  <2>3. /\ new \in TableRows /\ new.pk = r.pk /\ new.name = r.name
        /\ r.storage # None => new.storage # None
    <3>1. "CRS84" \in Systems /\ "local" \in Systems /\ None \notin Systems
      BY DEF Systems, None
    <3>2. CASE \E config \in Settings : new = [r EXCEPT !.config = config]
      BY <2>1, <3>2 DEF TableRows
    <3>3. CASE \E s \in {None, "local"} : new = UpdateCollection(r, s)
      BY <2>1, <3>1, <3>3 DEF TableRows, UpdateCollection
    <3>4. CASE new = [r EXCEPT !.public = ~r.public]
      BY <2>1, <3>4 DEF TableRows
    <3>. QED BY <2>2, <3>2, <3>3, <3>4
  <2>. QED BY <1>1, <1>4, <2>1, <2>2, <2>3, EditOK
<1>. QED BY <1>3, <1>4 DEF Update

LEMMA DeleteOK ==
  ASSUME CatalogueInv, NEW c \in Clients, Delete(c)
  PROVE  CatalogueInv'
<1> DEFINE x == Request(client[c].purpose, "idle", "ok", {}, {})
<1>1. /\ client[c].step = "deleting" /\ client[c].step # "idle"
      /\ UNCHANGED <<inserted, source, providers, cache, requests, restarts, edited, cutOff>>
  BY DEF Delete
<1>2. ClientOK(client[c], providers, inserted, Range(table), edited)
  BY ClientFacts
<1>3. /\ client[c].purpose \in Purposes /\ "ok" \in Results
      /\ \A pk : ~Makes(client[c], pk)
  BY <1>1, <1>2 DEF ClientOK, Typed, Creates, CreationSteps, ServingSteps, AskingSteps, Makes,
     Results
<1>4. CASE End(c, "missing") /\ UNCHANGED table
  BY <1>1, <1>3, <1>4, SameProviders, EndOK DEF Results
<1>5. ASSUME NEW i \in DOMAIN table, table' = RemoveAt(table, i), End(c, "ok")
      PROVE  CatalogueInv'
  <2>1. TableOK(table', inserted') /\ Range(table') \subseteq Range(table)
    BY <1>1, <1>5, RowRemoved DEF CatalogueInv
  <2>2. client' = [client EXCEPT ![c] = x]
    BY <1>5 DEF End, Becomes
  <2>3. ClientOK(x, providers', inserted', Range(table'), edited') /\ x.asked = {}
    BY <1>3, RestedOK
  <2> HIDE DEF x
  <2>4. ProvidersKept /\ providers' \in Seq(Provider) /\ CacheOK'
    BY <1>1, SameProviders
  <2>5. inserted <= inserted'
    BY <1>1 DEF CatalogueInv, TableOK
  <2>6. RowsStep(c, x)
    BY <1>1, <2>1, <2>5 DEF RowsStep
  <2>7. SourceOK' /\ CountersOK'
    BY <1>1 DEF CatalogueInv, SourceOK, CountersOK
  <2>. QED BY <1>1, <1>3, <2>1, <2>2, <2>3, <2>4, <2>6, <2>7, ClientActs
<1>. QED BY <1>4, <1>5 DEF Delete

-----------------------------------------------------------------------------
(* Creation fills its row in *)

\* new is what creation makes of the stored row old when it has seen the row seen.
Fills(seen, old, new) ==
  /\ old.pk = seen.pk /\ new.pk = old.pk /\ new.name = old.name /\ new.config = old.config
  /\ old.storage # None => new.storage # None
  /\ \/ new.storage = old.storage
     \/ seen.storage = None /\ new.storage \in {"CRS84"} \cup CrsOf(seen.config)
  /\ \/ new.extent = old.extent
     \/ seen.extent = NoExtent /\ new.extent \in BoxesOf(seen.config)

\* The client x after it wrote the row new.
Filled(x, y, new) ==
  /\ Shape(x) /\ x.row = {new} /\ x.asked = y.asked /\ x.purpose = y.purpose
  /\ x.uses \in {0, y.uses} /\ x.probe = y.probe /\ x.answer = y.answer
  /\ x.found \in UpdateKwargs
  /\ x.step \in {"default", "idle"} /\ (x.step = "idle" => new.storage # None)
  /\ x.result \in Results

\* What a creation writes is its own, unless somebody else edited the row.
LEMMA FillOK ==
  ASSUME CatalogueInv, NEW c \in Clients, client[c].step \in CreationSteps,
         client[c].asked # {},
         NEW old \in Range(table), NEW new \in TableRows, Fills(Row(c), old, new),
         table' = Replace(new), NEW x, Becomes(c, x), Filled(x, client[c], new),
         ProvidersKept, providers' \in Seq(Provider), CacheOK',
         UNCHANGED <<inserted, source, requests, restarts, edited, cutOff>>
  PROVE  CatalogueInv'
<1> DEFINE y == client[c]
           seen == Row(c)
<1>. USE DEF Fills, Filled
<1>1. y.step # "idle"
  BY DEF CreationSteps, ServingSteps, AskingSteps
<1>2. ClientOK(y, providers, inserted, Range(table), edited)
  BY ClientFacts
<1>3. y.row = {seen} /\ seen \in TableRows /\ y.answer = {}
  BY <1>1, TheRow
<1>4. \A given \in y.asked : given.pk = seen.pk /\ y.asked = {given} /\ given.pk <= inserted
  BY <1>1, <1>2, <1>3 DEF ClientOK, Creates
<1>5. /\ TableOK(table', inserted')
      /\ Range(table') = {r \in Range(table) : r.pk # new.pk} \cup {new}
  BY RowReplaced DEF CatalogueInv
<1>6. \A r \in Range(table') : r.pk = new.pk => r = new
  BY <1>5
<1> HIDE DEF y, seen
<1>7. Typed(x, providers')
  <2>1. /\ y.purpose \in Purposes /\ y.uses \in {0} \cup DOMAIN providers
        /\ y.probe \in Versions \cup {Unread} /\ y.asked \subseteq TableRows
    BY <1>2 DEF ClientOK, Typed
  <2>2. x.step \in Steps /\ x.uses \in {0} \cup DOMAIN providers'
    BY <2>1 DEF Steps, ProvidersKept, y
  <2>3. x.row = {new} /\ x.row \subseteq TableRows /\ x.answer = {}
    BY <1>3 DEF y
  <2>. QED BY <2>1, <2>2, <2>3 DEF Typed, y
<1>8. Uses(x, providers') /\ Finds(x)
  BY <1>3 DEF Uses, Finds, ServingSteps, AskingSteps, UsingSteps, y
<1>9. Creates(x, inserted')
  BY <1>2, <1>4 DEF ClientOK, Creates, CreationSteps, y, seen
<1>10. Pending(x, Range(table'))
  BY <1>6 DEF Pending
<1>11. ASSUME NEW given \in x.asked, new.pk \notin edited PROVE Follows(new, given)
  <2>1. given.pk = old.pk /\ given \in y.asked
    BY <1>4, <1>11 DEF y, seen
  <2>2. Follows(old, given) /\ y.row = {old}
    BY <1>1, <1>2, <1>11, <2>1 DEF ClientOK, Keeps
  <2>3. seen = old
    BY <1>3, <2>2
  <2>4. new.storage = given.storage
          \/ (given.storage = None /\ new.storage \in {"CRS84"} \cup CrsOf(new.config))
    BY <2>2, <2>3 DEF Follows, seen
  <2>5. new.extent = given.extent
          \/ (given.extent = NoExtent /\ new.extent \in BoxesOf(new.config))
    BY <2>2, <2>3 DEF Follows, seen
  <2>6. new.config.kind # "postgis" => new.extent.numbers = new.extent.label
    <3>1. new.config \in Settings
      BY DEF TableRows
    <3>2. new.extent = old.extent \/ new.extent \in BoxesOf(new.config)
      BY <2>3 DEF seen
    <3>. QED BY <2>2, <3>1, <3>2, BoxesOfLabelled DEF Follows
  <2>. QED BY <2>2, <2>4, <2>5, <2>6 DEF Follows
<1>12. Keeps(x, Range(table'), edited')
  BY <1>4, <1>6, <1>11 DEF Keeps, y, seen
<1>13. ClientOK(x, providers', inserted', Range(table'), edited')
  BY <1>7, <1>8, <1>9, <1>10, <1>12 DEF ClientOK
<1>14. Makes(client[c], new.pk)
  BY <1>1, <1>4 DEF Makes, y, seen
<1>15. RowsStep(c, x)
  BY <1>5, <1>14 DEF RowsStep, CatalogueInv, TableOK
<1>16. ASSUME NEW q \in Range(table'), q.storage = None, Makes(client[c], q.pk)
       PROVE  Makes(x, q.pk)
  <2>1. q.pk = new.pk
    BY <1>4, <1>16 DEF Makes, y, seen
  <2>2. x.step # "idle"
    BY <1>6, <1>16, <2>1
  <2>. QED BY <1>16, <2>2 DEF Makes
<1>17. SourceOK' /\ CountersOK' /\ client' = [client EXCEPT ![c] = x]
  BY DEF CatalogueInv, SourceOK, CountersOK, Becomes
<1>. QED BY <1>5, <1>13, <1>15, <1>16, <1>17, ClientActs

\* A creation whose row is gone, or has what it wants, may end.
LEMMA NothingLeft ==
  ASSUME CatalogueInv, NEW c \in Clients, client[c].step # "idle",
         ~IsStored(Row(c).pk) \/ Row(c).storage # None
  PROVE  \A q \in Range(table) : q.storage = None => ~Makes(client[c], q.pk)
<1>. SUFFICES ASSUME NEW q \in Range(table), q.storage = None, Makes(client[c], q.pk)
              PROVE  FALSE
  OBVIOUS
<1>1. ClientOK(client[c], providers, inserted, Range(table), edited)
      /\ client[c].row = {Row(c)}
  BY ClientFacts, TheRow
<1>2. q.pk = Row(c).pk /\ client[c].asked # {}
  BY <1>1 DEF Makes, ClientOK, Creates
<1>3. Row(c).storage # None
  BY <1>2 DEF IsStored, GetByKey
<1>. QED BY <1>1, <1>2, <1>3 DEF ClientOK, Pending

LEMMA DefaultCrsOK ==
  ASSUME CatalogueInv, NEW c \in Clients, DefaultCrs(c)
  PROVE  CatalogueInv'
<1> DEFINE seen == Row(c)
<1>1. /\ client[c].step = "default" /\ client[c].step # "idle"
      /\ client[c].step \in CreationSteps
      /\ UNCHANGED <<inserted, source, providers, cache, requests, restarts, edited, cutOff>>
  BY DEF DefaultCrs, CreationSteps
<1>2. /\ ClientOK(client[c], providers, inserted, Range(table), edited)
      /\ client[c].row = {seen} /\ seen \in TableRows /\ client[c].asked # {}
  BY <1>1, ClientFacts, TheRow, Asking
<1>3. ProvidersKept /\ providers' \in Seq(Provider) /\ CacheOK'
  BY <1>1, SameProviders
<1>4. "CRS84" \in Systems /\ "CRS84" # None
  BY DEF Systems, None
<1>5. IF seen.storage = None THEN Default(seen).storage = "CRS84" /\ Default(seen) # seen
      ELSE Default(seen) = seen
  <2>1. seen.storage = None => Default(seen).storage = "CRS84"
    BY <1>2 DEF Default, UpdateCollection, TableRows
  <2>. QED BY <1>4, <2>1 DEF Default
<1>6. CASE Default(seen) = seen
  <2> DEFINE y == client[c]
             x == [y EXCEPT !.step = "idle", !.result = "ok", !.uses = 0, !.row = y.row]
  <2>1. Becomes(c, x) /\ UNCHANGED table
    BY <1>6 DEF DefaultCrs, Created
  <2>2. /\ Shape(x) /\ x.step = "idle" /\ x.result = "ok" /\ x.purpose = y.purpose
        /\ x.row = y.row /\ x.asked = y.asked /\ x.uses = 0
        /\ x.probe = y.probe /\ x.answer = y.answer /\ x.found = y.found
    BY <1>2 DEF ClientOK, Shape
  <2>3. client' = [client EXCEPT ![c] = x]
    BY <2>1 DEF Becomes
  <2> HIDE DEF x, y
  <2>4. Typed(x, providers')
    BY <1>2, <2>2 DEF ClientOK, Typed, Steps, Results, y
  <2>5. Uses(x, providers') /\ Finds(x) /\ Creates(x, inserted)
    <3>1. y.answer = {}
      BY <1>1, TheRow DEF y
    <3>. QED BY <1>2, <2>2, <3>1 DEF ClientOK, Uses, Finds, Creates, CreationSteps,
            ServingSteps, AskingSteps, UsingSteps, y
  <2>6. Pending(x, Range(table)) /\ Keeps(x, Range(table), edited)
    BY <1>1, <1>2, <2>2 DEF ClientOK, Pending, Keeps, y
  <2>7. ClientOK(x, providers', inserted, Range(table), edited)
    BY <2>2, <2>4, <2>5, <2>6 DEF ClientOK
  <2>8. \A q \in Range(table) : q.storage = None => ~Makes(client[c], q.pk)
    BY <1>1, <1>5, <1>6, NothingLeft
  <2>9. requests' \in 0..MaxRequests
    BY <1>1 DEF CatalogueInv, CountersOK
  <2>. QED BY <1>1, <1>3, <2>1, <2>2, <2>3, <2>7, <2>8, <2>9, ClientGoes DEF y
<1>7. CASE Default(seen) # seen /\ ~IsStored(seen.pk)
  <2>1. End(c, "failed") /\ UNCHANGED table
    BY <1>7 DEF DefaultCrs
  <2>. QED BY <1>1, <1>3, <1>7, <2>1, NothingLeft, EndOK DEF Results
<1>8. CASE Default(seen) # seen /\ IsStored(seen.pk)
  <2> DEFINE old == Stored(seen.pk)
             new == [old EXCEPT !.storage = Default(seen).storage]
             x == [client[c] EXCEPT !.step = "idle", !.result = "ok", !.uses = 0,
                                    !.row = {new}]
  <2>1. old \in Range(table) /\ old.pk = seen.pk /\ old \in TableRows
    BY <1>8, StoredRow
  <2>2. table' = Replace(new) /\ Becomes(c, x)
    BY <1>8 DEF DefaultCrs, Created
  <2>3. /\ Shape(x) /\ x.step = "idle" /\ x.result = "ok" /\ x.purpose = client[c].purpose
        /\ x.row = {new} /\ x.asked = client[c].asked /\ x.uses = 0
        /\ x.probe = client[c].probe /\ x.answer = client[c].answer
        /\ x.found = client[c].found /\ client[c].found \in UpdateKwargs
    BY <1>2 DEF ClientOK, Typed, Shape
  <2> HIDE DEF old
  <2>4. seen.storage = None /\ Default(seen).storage = "CRS84"
    BY <1>5, <1>8
  <2>5. /\ new \in TableRows /\ new.pk = old.pk /\ new.name = old.name
        /\ new.config = old.config /\ new.storage = "CRS84" /\ new.extent = old.extent
    BY <1>4, <2>1, <2>4 DEF TableRows
  <2>6. Fills(Row(c), old, new)
    BY <1>4, <2>1, <2>4, <2>5 DEF Fills
  <2> HIDE DEF x
  <2>7. Filled(x, client[c], new)
    BY <1>4, <2>3, <2>5 DEF Filled, Results
  <2> HIDE DEF new
  <2>. QED BY <1>1, <1>2, <1>3, <2>1, <2>2, <2>5, <2>6, <2>7, FillOK
<1>. QED BY <1>6, <1>7, <1>8

LEMMA EnrichOK ==
  ASSUME CatalogueInv, NEW c \in Clients, Enrich(c)
  PROVE  CatalogueInv'
<1> DEFINE seen == Row(c)
           found == client[c].found
<1>1. /\ client[c].step = "found" /\ client[c].step # "idle" /\ client[c].step \in AskingSteps
      /\ UNCHANGED <<inserted, source, providers, cache, requests, restarts, edited, cutOff>>
  BY DEF Enrich, AskingSteps
<1>2. /\ ClientOK(client[c], providers, inserted, Range(table), edited)
      /\ client[c].row = {seen} /\ client[c].asked # {} /\ client[c].step \in CreationSteps
      /\ found \in UpdateKwargs /\ client[c].result \in Results
  BY <1>1, ClientFacts, TheRow, Asking DEF ClientOK, Typed
<1>3. ProvidersKept /\ providers' \in Seq(Provider) /\ CacheOK'
  BY <1>1, SameProviders
<1>4. CASE GivesUp(c) /\ UNCHANGED table
  BY <1>1, <1>2, <1>3, <1>4, WithoutProvider
<1>5. CASE ~IsStored(seen.pk) /\ End(c, "failed") /\ UNCHANGED table
  BY <1>1, <1>3, <1>5, NothingLeft, EndOK DEF Results
<1> DEFINE old == Stored(seen.pk)
           new == Enriched(old, found)
           x == [client[c] EXCEPT !.step = "default", !.row = {new}, !.found = NothingFound]
<1>6. CASE IsStored(seen.pk) /\ table' = Replace(new) /\ Becomes(c, x)
  <2>1. old \in Range(table) /\ old.pk = seen.pk /\ old \in TableRows
    BY <1>6, StoredRow
  <2>2. /\ Shape(x) /\ x.step = "default" /\ x.result = client[c].result
        /\ x.purpose = client[c].purpose
        /\ x.row = {new} /\ x.asked = client[c].asked /\ x.uses = client[c].uses
        /\ x.probe = client[c].probe /\ x.answer = client[c].answer
        /\ x.found = NothingFound
    BY <1>2 DEF ClientOK, Shape
  <2>3. /\ found.storage # None =>
             seen.storage = None /\ found.storage \in CrsOf(seen.config)
        /\ found.extent # NoExtent =>
             seen.extent = NoExtent /\ found.extent \in BoxesOf(seen.config)
    BY <1>1, <1>2 DEF ClientOK, Finds
  <2>4. table' = Replace(new) /\ Becomes(c, x)
    BY <1>6
  <2> HIDE DEF old, x, found
  <2>5. /\ new \in TableRows /\ new.pk = old.pk /\ new.name = old.name
        /\ new.config = old.config
        /\ new.storage = IF found.storage # None THEN found.storage ELSE old.storage
        /\ new.extent = IF found.extent # NoExtent THEN found.extent ELSE old.extent
    BY <1>2, <2>1, EnrichedRow
  <2> HIDE DEF new
  <2>6. Filled(x, client[c], new)
    BY <1>2, <2>2, NothingTyped DEF Filled
  <2>7. Fills(Row(c), old, new)
    BY <2>1, <2>3, <2>5 DEF Fills
  <2>. QED BY <1>1, <1>2, <1>3, <2>1, <2>4, <2>5, <2>6, <2>7, FillOK
<1>. QED BY <1>4, <1>5, <1>6 DEF Enrich

-----------------------------------------------------------------------------
(* The environment, and all steps *)

LEMMA SourceChangesOK ==
  ASSUME CatalogueInv, SourceChanges
  PROVE  CatalogueInv'
<1>1. UNCHANGED <<table, inserted, providers, cache, client, requests, restarts,
                  edited, cutOff>>
  BY DEF SourceChanges
<1>2. SourceOK'
  <2>1. source \in [up : BOOLEAN, version : Versions]
    BY DEF CatalogueInv, SourceOK
  <2>2. CASE source' = [source EXCEPT !.up = ~@]
    BY <2>1, <2>2 DEF SourceOK
  <2>3. CASE /\ source.version < Len(ContentOf)
             /\ source' = [source EXCEPT !.version = @ + 1]
    <3>1. source.version + 1 \in Versions
      BY <2>1, <2>3, ContentsAssumption DEF Versions
    <3>. QED BY <2>1, <2>3, <3>1 DEF SourceOK
  <2>. QED BY <2>2, <2>3 DEF SourceChanges
<1>3. StorageCrsKnown'
  BY <1>1 DEF CatalogueInv, StorageCrsKnown, Creating
<1>. QED BY <1>1, <1>2, <1>3 DEF CatalogueInv, CacheOK, CountersOK, ClientsOK

LEMMA IdleOK ==
  ASSUME NEW built, NEW last, NEW rows, NEW changed
  PROVE  ClientOK(Idle, built, last, rows, changed)
BY RestedOK DEF Idle, Purposes, Results

LEMMA EmptyCache == \A built : Held(<<>>, built) /\ Len(<<>>) <= CacheSize
BY BoundsAssumption DEF Held

LEMMA RestartOK ==
  ASSUME CatalogueInv, Restart
  PROVE  CatalogueInv'
<1> DEFINE cut == {r.pk : r \in UNION {client[c].asked :
                                         c \in {d \in Clients : client[d].step # "idle"}}}
<1>1. /\ UNCHANGED <<table, inserted, source, requests, edited>>
      /\ providers' = <<>> /\ cache' = <<>> /\ client' = [c \in Clients |-> Idle]
      /\ restarts < MaxRestarts /\ restarts' = restarts + 1 /\ cutOff' = cutOff \cup cut
  BY DEF Restart
<1>2. \A c \in Clients : client[c].asked \subseteq TableRows
  BY ClientFacts DEF ClientOK, Typed
<1>3. cut \subseteq 1..MaxRows
  <2>. SUFFICES ASSUME NEW c \in Clients, NEW r \in client[c].asked
                PROVE  r.pk \in 1..MaxRows
    OBVIOUS
  <2>. QED BY <1>2, RowKeys
<1>4. CountersOK'
  <2> HIDE DEF cut
  <2>. QED BY <1>1, <1>3, BoundsAssumption DEF CatalogueInv, CountersOK
<1>5. ClientsOK'
  <2>1. \A c \in Clients : client'[c] = Idle /\ client'[c].asked = {}
    BY <1>1 DEF Idle, Request
  <2>2. client' = [c \in Clients |-> client'[c]]
    BY <1>1
  <2>. QED BY <2>1, <2>2, IdleOK DEF ClientsOK
<1>6. CacheOK' /\ providers' \in Seq(Provider)
  BY <1>1, EmptyCache DEF CacheOK
<1>7. ASSUME NEW r \in Range(table), r.storage = None PROVE r.pk \in cutOff'
  <2>1. CASE r.pk \in cutOff
    BY <1>1, <2>1
  <2>2. CASE Creating(r.pk)
    BY <1>1, <2>2 DEF Creating
  <2>. QED BY <1>7, <2>1, <2>2 DEF CatalogueInv, StorageCrsKnown
<1>8. StorageCrsKnown'
  BY <1>1, <1>7 DEF StorageCrsKnown
<1>9. TableOK(table', inserted') /\ SourceOK'
  BY <1>1 DEF CatalogueInv, SourceOK
<1>. QED BY <1>4, <1>5, <1>6, <1>8, <1>9 DEF CatalogueInv

LEMMA InitOK == Init => CatalogueInv
<1>. SUFFICES ASSUME Init PROVE CatalogueInv
  OBVIOUS
<1>1. /\ table \in Tables /\ inserted = Len(table) /\ providers = <<>> /\ cache = <<>>
      /\ source \in [up : BOOLEAN, version : {1}]
      /\ client = [c \in Clients |-> Idle] /\ requests = 0 /\ restarts = 0
      /\ edited = {} /\ cutOff = {}
  BY DEF Init
<1>2. /\ table \in Seq(TableRows) /\ Len(table) <= MaxRows
      /\ \A i \in DOMAIN table : table[i].pk = i /\ table[i].storage # None
      /\ \A i, j \in DOMAIN table : table[i].name = table[j].name => i = j
  BY <1>1, TablesAssumption
<1>3. Len(table) \in Nat /\ DOMAIN table = 1..Len(table) /\ MaxRows \in Nat
  BY <1>2, BoundsAssumption
<1>4. TableOK(table, inserted)
  BY <1>1, <1>2, <1>3 DEF TableOK
<1>5. SourceOK
  BY <1>1, ContentsAssumption DEF SourceOK, Versions
<1>6. CacheOK /\ providers \in Seq(Provider)
  BY <1>1, EmptyCache DEF CacheOK
<1>7. CountersOK
  BY <1>1, BoundsAssumption DEF CountersOK
<1>8. ClientsOK
  <2>1. \A c \in Clients : client[c] = Idle /\ client[c].asked = {}
    BY <1>1 DEF Idle, Request
  <2>2. client = [c \in Clients |-> client[c]]
    BY <1>1
  <2>. QED BY <2>1, <2>2, IdleOK DEF ClientsOK
<1>9. StorageCrsKnown
  BY <1>2 DEF StorageCrsKnown, Range
<1>. QED BY <1>4, <1>5, <1>6, <1>7, <1>8, <1>9 DEF CatalogueInv

LEMMA StuttersOK ==
  ASSUME CatalogueInv, UNCHANGED vars
  PROVE  CatalogueInv'
BY DEF vars, CatalogueInv, CacheOK, CountersOK, ClientsOK, StorageCrsKnown, Creating, SourceOK

LEMMA StepOK == CatalogueInv /\ [Next]_vars => CatalogueInv'
<1>. SUFFICES ASSUME CatalogueInv, [Next]_vars PROVE CatalogueInv'
  OBVIOUS
<1>1. ASSUME NEW c \in Clients, Create(c) \/ Import(c) \/ Overwrite(c) \/ LookUp(c)
                                \/ Probe(c) \/ KeepBuilt(c)
      PROVE  CatalogueInv'
  BY <1>1, CreateOK, ImportOK, OverwriteOK, LookUpOK, ProbeOK, KeepBuiltOK
<1>2. ASSUME NEW c \in Clients, ReadTable(c) \/ KeepTable(c) \/ AskStorage(c)
                                \/ AskExtent(c) \/ AskDates(c)
      PROVE  CatalogueInv'
  BY <1>2, ReadTableOK, KeepTableOK, AskStorageOK, AskExtentOK, AskDatesOK
<1>3. ASSUME NEW c \in Clients, Enrich(c) \/ DefaultCrs(c) \/ Serve(c) \/ Answer(c)
      PROVE  CatalogueInv'
  BY <1>3, EnrichOK, DefaultCrsOK, ServeOK, AnswerOK
<1>4. ASSUME NEW c \in Clients, BeginUpdate(c) \/ Update(c) \/ BeginDelete(c) \/ Delete(c)
      PROVE  CatalogueInv'
  BY <1>4, BeginUpdateOK, UpdateOK, BeginDeleteOK, DeleteOK
<1>5. CASE SourceChanges \/ Restart
  BY <1>5, SourceChangesOK, RestartOK
<1>6. CASE UNCHANGED vars
  BY <1>6, StuttersOK
<1>. QED BY <1>1, <1>2, <1>3, <1>4, <1>5, <1>6 DEF Next

\* The invariant behind all that follows: rows, requests under way and the cache agree
\* at every await of create_collection and get_feature_provider.
THEOREM Catalogued == Spec => []CatalogueInv
BY InitOK, StepOK, PTL DEF Spec

-----------------------------------------------------------------------------
(* The properties *)

\* Rows, requests, providers and cache keep their types (Catalogue!TypeOK): keys grow
\* with the order of creation and identifiers stay unique (commands.create_collection).
THEOREM TypeCorrect == Spec => []TypeOK
<1>1. ASSUME CatalogueInv PROVE TypeOK
  <2>1. /\ table \in Seq(TableRows) /\ inserted \in 0..MaxRows
        /\ \A i, j \in DOMAIN table : i < j =>
             table[i].pk < table[j].pk /\ table[i].name # table[j].name
    BY <1>1 DEF CatalogueInv, TableOK
  <2>2. source \in [up : BOOLEAN, version : Versions] /\ providers \in Seq(Provider)
    BY <1>1 DEF CatalogueInv, SourceOK
  <2>3. cache \in Seq([name : Collections, config : Configs, uses : DOMAIN providers])
    BY <1>1 DEF CatalogueInv, CacheOK, Held, Entry
  <2>4. ASSUME NEW c \in Clients
        PROVE  /\ client[c].step \in Steps /\ client[c].purpose \in Purposes
               /\ client[c].result \in Results
               /\ client[c].row \subseteq TableRows /\ client[c].asked \subseteq TableRows
               /\ Cardinality(client[c].row) <= 1
               /\ client[c].uses \in {0} \cup DOMAIN providers
               /\ client[c].probe \in Versions \cup {Unread}
               /\ client[c].found \in UpdateKwargs
    <3>1. Typed(client[c], providers)
      BY <1>1, ClientFacts DEF ClientOK
    <3>2. client[c].row = {} \/ \E r : client[c].row = {r}
      BY <3>1 DEF Typed
    <3>3. Cardinality(client[c].row) \in {0, 1}
      BY <3>2, FS_EmptySet, FS_Singleton
    <3>. QED BY <3>1, <3>3 DEF Typed
  <2>5. CountersOK
    BY <1>1 DEF CatalogueInv
  <2>. QED BY <2>1, <2>2, <2>3, <2>4, <2>5 DEF TypeOK, CountersOK
<1>. QED BY <1>1, Catalogued, PTL

\* Creation leaves a storage CRS behind (operations/collections.py create_collection):
\* without one a row is being created, or a restart cut its creation off.
THEOREM CrsKnown == Spec => []StorageCrsKnown
<1>1. CatalogueInv => StorageCrsKnown
  BY DEF CatalogueInv
<1>. QED BY <1>1, Catalogued, PTL

\* _enrich_from_provider fills in what the creator left open, with answers of the provider
\* the row names, and keeps what was given, whatever others do and however often the
\* source changes between its questions and its commits; only a box of postgis may be
\* labelled with another system than its numbers are in.
THEOREM CreationKeeps == Spec => []CreationKeepsWhatWasGiven
<1>1. ASSUME CatalogueInv PROVE CreationKeepsWhatWasGiven
  <2>. SUFFICES ASSUME NEW c \in Clients, NEW given \in client[c].asked,
                       NEW q \in GetByKey(table, given.pk),
                       client[c].step = "idle", client[c].result = "ok", q.pk \notin edited
                PROVE  Follows(q, given) /\ client[c].row = {q}
    BY DEF CreationKeepsWhatWasGiven, Follows
  <2>1. q \in Range(table) /\ q.pk = given.pk
    BY DEF GetByKey
  <2>. QED BY <1>1, <2>1, ClientFacts DEF ClientOK, Keeps
<1>. QED BY <1>1, Catalogued, PTL

\* get_feature_provider answers a request with a provider of the collection and the
\* configuration it read, and the cache keeps its bound with one entry of each key.
THEOREM Served == Spec => []ServedFromItsConfiguration
<1>1. ASSUME CatalogueInv PROVE ServedFromItsConfiguration
  <2>1. Len(cache) <= CacheSize
    BY <1>1 DEF CatalogueInv, CacheOK
  <2>2. \A i, j \in DOMAIN cache : i # j =>
          <<cache[i].name, cache[i].config>> # <<cache[j].name, cache[j].config>>
    BY <1>1 DEF CatalogueInv, CacheOK, Held, SameKey
  <2>3. \A c \in Clients : \A a \in client[c].answer : \A r \in client[c].row :
          /\ a.provider.name = r.name /\ a.provider.config = r.config
          /\ DOMAIN a.columns
               \subseteq DOMAIN Schema(a.provider.config, ContentOf[a.version])
    BY <1>1, ClientFacts DEF ClientOK, Uses
  <2>. QED BY <2>1, <2>2, <2>3 DEF ServedFromItsConfiguration
<1>. QED BY <1>1, Catalogued, PTL

-----------------------------------------------------------------------------
(* The listings *)

\* Every place of a sequence is a place of some page.
LEMMA PageOfPlace ==
  ASSUME NEW size \in Nat, size >= 1, NEW k \in Nat, k >= 1
  PROVE  \E n \in 1..k : \E i \in 1..size : k = size * (n - 1) + i
<1> DEFINE Placed(m) == \E n \in 1..m : \E i \in 1..size : m = size * (n - 1) + i
           T == {m \in Nat : m >= 1 => Placed(m)}
<1>1. 0 \in T
  <2> HIDE DEF Placed
  <2>. QED OBVIOUS
<1>2. ASSUME NEW m \in Nat, m \in T PROVE m + 1 \in T
  <2>0. m + 1 \in Nat /\ (m # 0 => Placed(m)) /\ (Placed(m + 1) => m + 1 \in T)
    <3> HIDE DEF Placed
    <3>. QED BY <1>2
  <2>. SUFFICES \E n \in 1..m + 1 : \E i \in 1..size : m + 1 = size * (n - 1) + i
    <3>. HIDE DEF T
    <3>. QED BY <2>0
  <2>1. CASE m = 0
    <3>1. 1 \in 1..m + 1 /\ 1 \in 1..size /\ m + 1 = size * (1 - 1) + 1
      BY <2>1
    <3>. QED BY <3>1
  <2>2. CASE m # 0
    <3>1. PICK n \in 1..m : \E i \in 1..size : m = size * (n - 1) + i
      BY <2>0, <2>2
    <3>2. PICK i \in 1..size : m = size * (n - 1) + i
      BY <3>1
    <3>3. CASE i < size
      <4>1. n \in 1..m + 1 /\ i + 1 \in 1..size /\ size * (n - 1) \in Int
        BY <3>3
      <4>2. m + 1 = size * (n - 1) + (i + 1)
        BY <3>2, <4>1
      <4>. QED BY <4>1, <4>2
    <3>4. CASE i = size
      <4>1. n + 1 \in 1..m + 1 /\ 1 \in 1..size /\ (n + 1) - 1 = n
        OBVIOUS
      <4>2. size * n = size * (n - 1) + size
        OBVIOUS
      <4>3. m + 1 = size * ((n + 1) - 1) + 1
        BY <3>2, <3>4, <4>1, <4>2
      <4>. QED BY <4>1, <4>3
    <3>. QED BY <3>3, <3>4
  <2>. QED BY <2>1, <2>2
<1>3. Nat \subseteq T
  <2> HIDE DEF T
  <2>. QED BY <1>1, <1>2, Counting
<1>4. Placed(k)
  <2> HIDE DEF Placed
  <2>. QED BY <1>3
<1>. QED BY <1>4

\* One page: the elements after the offset, as many as there are and are asked for.
LEMMA PageOfSequence ==
  ASSUME NEW R, NEW s \in Seq(R), NEW o \in Nat, NEW size \in Nat, NEW p, p = Slice(s, o, size)
  PROVE  /\ p \in Seq(R)
         /\ \A i \in 1..Len(s) - o : i <= size => i \in 1..Len(p)
         /\ \A i \in 1..Len(p) : o + i \in 1..Len(s) /\ p[i] = s[o + i]
BY SliceType

\* The pages of a sequence are the sequence, cut into stretches of one length.
LEMMA SequenceInPages ==
  ASSUME NEW R, NEW s \in Seq(R), NEW size \in Nat, size >= 1, NEW most \in Nat, Len(s) <= most,
         NEW pages, pages = [n \in 1..most |-> Slice(s, size * (n - 1), size)]
  PROVE  InPages(s, pages, size) /\ ServedOn(pages) = Range(s)
<1>1. Len(s) \in Nat /\ DOMAIN s = 1..Len(s) /\ DOMAIN pages = 1..most
  BY LenProperties
<1>2. ASSUME NEW n \in 1..most
      PROVE  /\ size * (n - 1) \in Nat
             /\ \A i \in 1..Len(s) - size * (n - 1) : i <= size => i \in DOMAIN pages[n]
             /\ \A i \in DOMAIN pages[n] : /\ size * (n - 1) + i \in 1..Len(s)
                                           /\ pages[n][i] = s[size * (n - 1) + i]
  <2>1. n - 1 \in Nat
    OBVIOUS
  <2>2. size * (n - 1) \in Nat
    BY <2>1
  <2>3. pages[n] = Slice(s, size * (n - 1), size)
    OBVIOUS
  <2> DEFINE o == size * (n - 1)
             p == Slice(s, o, size)
  <2>4. /\ p \in Seq(R) /\ o \in Nat
        /\ \A i \in 1..Len(s) - o : i <= size => i \in 1..Len(p)
        /\ \A i \in 1..Len(p) : o + i \in 1..Len(s) /\ p[i] = s[o + i]
    <3> HIDE DEF o
    <3>1. o \in Nat
      BY <2>2 DEF o
    <3> HIDE DEF p
    <3>2. p = Slice(s, o, size)
      BY DEF p
    <3>. QED BY <3>1, <3>2, PageOfSequence, SMTT(60)
  <2>5. pages[n] = p
    BY <2>3
  <2> HIDE DEF o, p
  <2>6. DOMAIN p = 1..Len(p)
    BY <2>4, LenProperties
  <2>7. /\ o \in Nat
        /\ \A i \in 1..Len(s) - o : i <= size => i \in DOMAIN pages[n]
        /\ \A i \in DOMAIN pages[n] : o + i \in 1..Len(s) /\ pages[n][i] = s[o + i]
    BY <2>4, <2>5, <2>6
  <2>. QED BY <2>7 DEF o
<1>3. ASSUME NEW k \in DOMAIN s
      PROVE  \E n \in DOMAIN pages : \E i \in DOMAIN pages[n] : k = size * (n - 1) + i
  <2>0. k \in Nat /\ k >= 1 /\ k <= Len(s)
    BY <1>1
  <2>1. PICK n \in 1..k : \E i \in 1..size : k = size * (n - 1) + i
    BY <2>0, PageOfPlace
  <2>2. PICK i \in 1..size : k = size * (n - 1) + i
    BY <2>1
  <2>3. n \in 1..most
    BY <1>1, <2>0
  <2>4. size * (n - 1) \in Nat
    BY <1>2, <2>3
  <2>5. i \in 1..Len(s) - size * (n - 1) /\ i <= size
    BY <1>1, <2>0, <2>2, <2>4
  <2>6. i \in DOMAIN pages[n]
    BY <1>2, <2>3, <2>5
  <2>. QED BY <1>1, <2>2, <2>3, <2>6
<1>4. InPages(s, pages, size)
  <2>1. \A n \in DOMAIN pages : \A i \in DOMAIN pages[n] :
          size * (n - 1) + i \in DOMAIN s /\ pages[n][i] = s[size * (n - 1) + i]
    BY <1>1, <1>2
  <2>2. \A k \in DOMAIN s : \E n \in DOMAIN pages : \E i \in DOMAIN pages[n] :
          k = size * (n - 1) + i
    BY <1>3
  <2>. QED BY <2>1, <2>2 DEF InPages
<1>5. ServedOn(pages) \subseteq Range(s)
  <2>1. SUFFICES ASSUME NEW x \in ServedOn(pages) PROVE x \in Range(s)
    OBVIOUS
  <2>2. PICK n \in 1..most : x \in Range(pages[n])
    BY <1>1 DEF ServedOn
  <2>3. PICK i \in DOMAIN pages[n] : x = pages[n][i]
    BY <2>2 DEF Range
  <2>. QED BY <1>1, <1>2, <2>3 DEF Range
<1>6. Range(s) \subseteq ServedOn(pages)
  <2>1. SUFFICES ASSUME NEW k \in DOMAIN s PROVE s[k] \in ServedOn(pages)
    BY DEF Range
  <2>2. PICK n \in DOMAIN pages : \E i \in DOMAIN pages[n] : k = size * (n - 1) + i
    BY <1>3
  <2>3. PICK i \in DOMAIN pages[n] : k = size * (n - 1) + i
    BY <2>2
  <2>4. s[k] = pages[n][i]
    BY <1>1, <1>2, <2>3
  <2>5. s[k] \in Range(pages[n])
    BY <2>4 DEF Range
  <2>. QED BY <1>1, <2>5 DEF ServedOn
<1>. QED BY <1>4, <1>5, <1>6

\* The rows a principal may view, and those a filter that names an area keeps.
Viewable(a, rows) == {r \in Range(rows) : IsSystem(a) \/ CanView(a, r)}
Near(f, rows) == {r \in Range(rows) : f.area => r.extent.numbers \in {None, "CRS84", "WGS84"}}

\* Whatever statement is run, its where clause keeps the rows that may be viewed.
LEMMA WhereClauses ==
  ASSUME NEW a, NEW rows \in Seq(TableRows)
  PROVE  /\ Visitor(a) => {r \in Range(rows) : r.public} = Viewable(a, rows)
         /\ ~Visitor(a) /\ (IsSystem(a) \/ IsAdmin(a)) => Range(rows) = Viewable(a, rows)
         /\ ~Visitor(a) /\ ~IsSystem(a) /\ ~IsAdmin(a) =>
              ListUserResources(a, Range(rows), Collections) = Viewable(a, rows)
<1>1. Visitor(a) => ~IsSystem(a)
  BY PrincipalsAssumption DEF Visitor, IsSystem
<1>2. Visitor(a) => {r \in Range(rows) : r.public} = Viewable(a, rows)
  BY <1>1 DEF Visitor, Viewable, CanView, CanEdit, IsAdmin, Owns, Holds, LoggedIn
<1>3. ~Visitor(a) /\ (IsSystem(a) \/ IsAdmin(a)) => Range(rows) = Viewable(a, rows)
  BY DEF Viewable, CanView, CanEdit
<1>4. \A r \in Range(rows) : r.name \in Collections
  <2>1. \A i \in DOMAIN rows : rows[i] \in TableRows
    BY LenProperties, ElementOfSeq
  <2>. QED BY <2>1 DEF Range, TableRows
<1>5. ASSUME ~Visitor(a), ~IsSystem(a), ~IsAdmin(a), NEW r \in Range(rows)
      PROVE  r.public \/ a.id = r.owner \/ r.name \in Accessible(a, Collections)
               <=> IsSystem(a) \/ CanView(a, r)
  <2>1. r.name \in Accessible(a, Collections)
          <=> Holds(a, Editor(r.name)) \/ Holds(a, Viewer(r.name))
    BY <1>4, <1>5 DEF Accessible, RolesOn
  <2>2. LoggedIn(a)
    BY <1>5 DEF Visitor, LoggedIn
  <2>. QED BY <1>5, <2>1, <2>2 DEF CanView, CanEdit, Owns
<1>. QED BY <1>2, <1>3, <1>5 DEF Viewable, ListUserResources

\* The filter of the statements, over what the where clause kept.
LEMMA FilteredListing ==
  ASSUME NEW R, NEW rows \in Seq(R), NEW S, NEW f, f.like = "all"
  PROVE  ApplyCommonFilters(Select(rows, S), f) = Select(rows, S \cap Near(f, rows))
<1> DEFINE kept == Select(rows, S)
           Clause == {r \in Range(kept) :
                        /\ f.like # "all" => r.name \in SimilarTo[f.like]
                        /\ f.area => r.extent.numbers \in {None, "CRS84", "WGS84"}}
<1>1. kept \in Seq(R) /\ Range(kept) = Range(rows) \cap S
  BY SelectType
<1>2. ApplyCommonFilters(kept, f) = Select(kept, Clause)
  BY DEF ApplyCommonFilters
<1>3. Clause = Range(kept) \cap Near(f, rows)
  BY <1>1 DEF Near
<1> HIDE DEF Clause
<1>4. Select(kept, Clause) = Select(rows, S \cap Clause)
  BY SelectTwice DEF kept
<1>5. Range(rows) \cap (S \cap Clause) = Range(rows) \cap (S \cap Near(f, rows))
  BY <1>1, <1>3
<1>6. Select(rows, S \cap Clause) = Select(rows, S \cap Near(f, rows))
  BY <1>5, SelectSame
<1>. QED BY <1>2, <1>4, <1>6

\* Either manager cuts its pages out of one listing: of what may be viewed, what the
\* area keeps.
LEMMA PostgisListing ==
  ASSUME NEW a, NEW rows \in Seq(TableRows), NEW f, f.like = "all", NEW n, NEW size
  PROVE  LET m == Select(rows, Viewable(a, rows) \cap Near(f, rows)) IN
         PaginatedListCollections(rows, a, f, n, size)
           = Found(Slice(m, size * (n - 1), size), Len(m))
<1> DEFINE m == Select(rows, Viewable(a, rows) \cap Near(f, rows))
           offset == PageOffset(n, size)
<1>1. offset = size * (n - 1)
  BY DEF PageOffset
<1>2. ASSUME NEW S, Range(rows) \cap S = Viewable(a, rows)
      PROVE  ApplyCommonFilters(Select(rows, S), f) = m
  <2>1. Range(rows) \cap (S \cap Near(f, rows))
          = Range(rows) \cap (Viewable(a, rows) \cap Near(f, rows))
    BY <1>2
  <2>2. Select(rows, S \cap Near(f, rows)) = m
    BY <2>1, SelectSame
  <2>. QED BY <2>2, FilteredListing
<1>3. CASE Visitor(a)
  <2>1. Range(rows) \cap {r \in Range(rows) : r.public} = Viewable(a, rows)
    BY <1>3, WhereClauses
  <2>2. ApplyCommonFilters(Select(rows, {r \in Range(rows) : r.public}), f) = m
    BY <1>2, <2>1
  <2>. QED BY <1>1, <1>3, <2>2 DEF PaginatedListCollections, ListPublicCollections
<1>4. CASE ~Visitor(a) /\ (IsSystem(a) \/ IsAdmin(a))
  <2>1. Range(rows) = Viewable(a, rows)
    BY <1>4, WhereClauses
  <2>2. Select(rows, Range(rows)) = rows
    BY SelectAll
  <2>3. ApplyCommonFilters(rows, f) = m
    BY <1>2, <2>1, <2>2
  <2>. QED BY <1>1, <1>4, <2>3 DEF PaginatedListCollections, ListAllCollections
<1>5. CASE ~Visitor(a) /\ ~(IsSystem(a) \/ IsAdmin(a))
  <2> DEFINE S == ListUserResources(a, Range(rows), Collections)
  <2>1. S = Viewable(a, rows)
    BY <1>5, WhereClauses
  <2>2. Range(rows) \cap S = Viewable(a, rows)
    BY <2>1 DEF Viewable
  <2> HIDE DEF S
  <2>3. ApplyCommonFilters(Select(rows, S), f) = m
    BY <1>2, <2>2
  <2>. QED BY <1>1, <1>5, <2>3 DEF PaginatedListCollections, ListUserCollections, S
<1>. QED BY <1>3, <1>4, <1>5

LEMMA ConfigListing ==
  ASSUME NEW a, NEW rows, NEW last, TableOK(rows, last), NEW f, f.like = "all", NEW n, NEW size
  PROVE  LET m == Select(rows, Viewable(a, rows) \cap Near(f, rows)) IN
         ConfigPaginatedList(rows, a, f, n, size)
           = Found(Slice(m, size * (n - 1), size), Len(m))
<1> DEFINE m == Select(rows, Viewable(a, rows) \cap Near(f, rows))
           Kept == {r \in Range(rows) :
                      \A other \in Range(rows) : other.name = r.name => other.pk <= r.pk}
           Passes(s) == {r \in Range(s) : /\ f.like # "all" => r.name = f.like
                                        /\ f.area => r.extent.numbers \in {None, "CRS84", "WGS84"}}
           May(s) == {r \in Range(s) : IsSystem(a) \/ CanView(a, r)}
<1>1. rows \in Seq(TableRows)
  BY DEF TableOK
<1>2. ParseCollections(rows) = rows
  <2>1. Range(rows) \subseteq Kept
    <3>1. SUFFICES ASSUME NEW r \in Range(rows), NEW other \in Range(rows), other.name = r.name
                   PROVE  other.pk <= r.pk
      OBVIOUS
    <3>2. other = r
      BY <3>1, OneRow
    <3>3. r.pk \in Nat
      BY RowTyped, RowKeys
    <3>. QED BY <3>2, <3>3
  <2> HIDE DEF Kept
  <2>2. Select(rows, Kept) = rows
    BY <1>1, <2>1, SelectAll
  <2>. QED BY <2>2 DEF ParseCollections, Kept
<1>3. Passes(rows) = Near(f, rows)
  BY DEF Near
<1> DEFINE near == Select(rows, Near(f, rows))
<1>4. near \in Seq(TableRows) /\ Range(near) = Range(rows) \cap Near(f, rows)
  BY <1>1, SelectType
<1>5. Select(near, May(near)) = m
  <2>1. Select(near, May(near)) = Select(rows, Near(f, rows) \cap May(near))
    <3> HIDE DEF May
    <3>. QED BY <1>1, SelectTwice
  <2>2. May(near) = Range(near) \cap Viewable(a, rows)
    BY <1>4 DEF Viewable
  <2>3. Range(rows) \cap (Near(f, rows) \cap May(near))
          = Range(rows) \cap (Viewable(a, rows) \cap Near(f, rows))
    <3> HIDE DEF May, near
    <3>. QED BY <1>4, <2>2
  <2>4. Select(rows, Near(f, rows) \cap May(near)) = m
    <3> HIDE DEF May, near
    <3>. QED BY <1>1, <2>3, SelectSame
  <2>. QED BY <2>1, <2>4
<1>6. ConfigPaginatedList(rows, a, f, n, size)
        = Found(Paginate(Select(near, May(near)), n, size), Len(Select(near, May(near))))
  BY <1>2, <1>3 DEF ConfigPaginatedList
<1>. QED BY <1>5, <1>6 DEF Paginate

\* Page by page, either manager lists to everybody the collections that get_collection
\* shows them, whatever the size of a page (paginated_list_collections).
THEOREM ListingsServe == Spec => []ListingsServeWhatMayBeViewed
<1>1. ASSUME CatalogueInv PROVE ListingsServeWhatMayBeViewed
  <2>1. SUFFICES ASSUME NEW a, NEW size \in 1..Len(table)
                 PROVE  LET shown == Select(table, {r \in Range(table) :
                                                      r \in GetCollection(table, a, r.name)})
                            nearby == [NoFilter EXCEPT !.area = TRUE]
                        IN /\ InPages(shown, AllPages(table, a, NoFilter, size), size)
                           /\ PaginatedListCollections(table, a, NoFilter, 1, size).total
                                = Len(shown)
                           /\ ServedOn(ConfigAllPages(table, a, NoFilter, size)) = Range(shown)
                           /\ ConfigPaginatedList(table, a, NoFilter, 1, size).total = Len(shown)
                           /\ ServedOn(ConfigAllPages(table, a, nearby, size))
                                = ServedOn(AllPages(table, a, nearby, size))
    BY DEF ListingsServeWhatMayBeViewed
  <2> DEFINE shown == Select(table, {r \in Range(table) : r \in GetCollection(table, a, r.name)})
             nearby == [NoFilter EXCEPT !.area = TRUE]
             Of(f) == Select(table, Viewable(a, table) \cap Near(f, table))
  <2>2. TableOK(table, inserted) /\ table \in Seq(TableRows) /\ Len(table) \in Nat
    BY <1>1, LenProperties DEF CatalogueInv, TableOK
  <2>3. size \in Nat /\ size >= 1
    BY <2>2
  <2>4. NoFilter.like = "all" /\ nearby.like = "all" /\ NoFilter.area = FALSE
    BY DEF NoFilter
  <2>5. ASSUME NEW f, f.like = "all"
        PROVE  /\ AllPages(table, a, f, size)
                    = [n \in 1..Len(table) |-> Slice(Of(f), size * (n - 1), size)]
               /\ ConfigAllPages(table, a, f, size) = AllPages(table, a, f, size)
               /\ PaginatedListCollections(table, a, f, 1, size).total = Len(Of(f))
               /\ ConfigPaginatedList(table, a, f, 1, size).total = Len(Of(f))
    <3>1. \A n : PaginatedListCollections(table, a, f, n, size)
                   = Found(Slice(Of(f), size * (n - 1), size), Len(Of(f)))
      BY <2>2, <2>5, PostgisListing
    <3>2. \A n : ConfigPaginatedList(table, a, f, n, size)
                   = Found(Slice(Of(f), size * (n - 1), size), Len(Of(f)))
      BY <2>2, <2>5, ConfigListing
    <3> HIDE DEF Of
    <3>3. \A n : /\ PaginatedListCollections(table, a, f, n, size).items
                      = Slice(Of(f), size * (n - 1), size)
                 /\ PaginatedListCollections(table, a, f, n, size).total = Len(Of(f))
                 /\ ConfigPaginatedList(table, a, f, n, size).items
                      = Slice(Of(f), size * (n - 1), size)
                 /\ ConfigPaginatedList(table, a, f, n, size).total = Len(Of(f))
      BY <3>1, <3>2 DEF Found
    <3>. QED BY <3>3 DEF AllPages, ConfigAllPages
  <2>6. shown = Of(NoFilter)
    <3>1. {r \in Range(table) : r \in GetCollection(table, a, r.name)} = Viewable(a, table)
      BY DEF GetCollection, GetByResourceIdentifier, Viewable
    <3>2. Viewable(a, table) \cap Near(NoFilter, table) = Viewable(a, table)
      BY <2>4 DEF Viewable, Near
    <3>. QED BY <3>1, <3>2
  <2>7. shown \in Seq(TableRows) /\ Len(shown) <= Len(table)
    BY <2>2, SelectType
  <2> HIDE DEF shown, nearby, Of
  <2>8. /\ InPages(shown, AllPages(table, a, NoFilter, size), size)
        /\ ServedOn(AllPages(table, a, NoFilter, size)) = Range(shown)
    <3>1. AllPages(table, a, NoFilter, size)
            = [n \in 1..Len(table) |-> Slice(shown, size * (n - 1), size)]
      BY <2>4, <2>5, <2>6
    <3>. QED BY <2>2, <2>3, <2>7, <3>1, SequenceInPages
  <2>. QED BY <2>4, <2>5, <2>6, <2>8 DEF shown, nearby
<1>. QED BY <1>1, Catalogued, PTL

-----------------------------------------------------------------------------
(* The walk through the items: what its invariant says *)

\* What a provider selects for a filter, whatever its kind: the box is read in the
\* system of the source by pyogrio, and two of the kinds look at dates.
BoxCrs(f, src) == IF src.kind = "pyogrio" THEN src.native ELSE f.bboxCrs
Dated(src) == src.kind \in {"collection-config", "pygeoapi"}
Selected(f, src) ==
  {r \in Rows : /\ InArea(r, Bbox2d(f), BoxCrs(f, src))
                /\ Dated(src) => FeatureMatchesDatetime(r, f, src)}

\* The most rows it puts on a page.
Cap(f, src) == IF src.kind = "pygeoapi" THEN Min({f.limit, MaxItems(src)}) ELSE f.limit

\* The query the walk began with, the length its links give a page, and the
\* matches of the query now.
Wanted == IF walker.route = "api" THEN ApiFilter(walker.asked) ELSE HtmlFilter(walker.asked)
Stride == PaginationLimit(walker.asked.limit)
Matches == Select(features, Selected(Wanted, provider))

Started == walker.step \in {"listing", "counting", "answered", "done"}
PageIn == walker.step \in {"counting", "answered"}

AsksTheSame ==
  /\ filter.bbox = Wanted.bbox /\ filter.bboxCrs = Wanted.bboxCrs
  /\ filter.crs = Wanted.crs /\ filter.datetime = Wanted.datetime

\* A request asks for what the walk began with, and a page answers it.
WalkingOK ==
  /\ WalkTypeOK
  /\ Started =>
       /\ walker.asked.limit >= 1
       /\ walker.route = "api" => ~ApiRefuses(walker.asked)
       /\ walker.route = "html" => ~HtmlRaises(walker.asked)
       /\ filter.limit \in {walker.asked.limit, Stride}
       /\ LinksCarryQuery => AsksTheSame
  /\ walker.step = "answered" => pagination.limit = Stride /\ pagination.offset = filter.offset
  /\ PageIn => /\ page # <<>> => filter.crs # "bad"
               /\ LinksCarryQuery => Range(page) \subseteq Selected(Wanted, provider)

\* start holds the identifiers of M from the place o on.
ContinuesAt(start, M, o) ==
  \A j \in DOMAIN start : o + j \in DOMAIN M /\ M[o + j].id = start[j]

\* What was received of M up to its place n: of the matches at the start, which
\* begin after o, the first ones; then others; each once.
FollowsTo(w, start, M, o, n) ==
  /\ \A j \in DOMAIN start : o + j <= n => j \in DOMAIN w /\ w[j] = start[j]
  /\ n - o <= Len(start) => Len(w) = n - o
  /\ \A i \in DOMAIN w : \E m \in DOMAIN M : m <= n /\ w[i] = M[m].id
  /\ \A i, j \in DOMAIN w : w[i] = w[j] => i = j

\* p lies on M after the place n, and holds what started within the next d places.
LiesAt(p, M, n) == \A i \in DOMAIN p : n + i \in DOMAIN M /\ p[i] = M[n + i]
HoldsNext(p, start, o, n, d) ==
  \A j \in DOMAIN start : n < o + j /\ o + j <= n + d => (o + j) - n \in DOMAIN p

\* How far the walk has come: to the page asked for, or past the one received.
Reached == IF walker.step = "answered" THEN filter.offset + Stride ELSE filter.offset
Even == LinksCarryQuery /\ FullPages /\ walker.asked.limit <= Stride
Injective(w) == \A i, j \in DOMAIN w : w[i] = w[j] => i = j
SameIds == \A i, j \in DOMAIN features : features[i].id = features[j].id => i = j

\* Nothing of the start is missing up to there, and the page under way holds what
\* comes next; the count does not stop the walk early.
Complete ==
  /\ \A j \in DOMAIN atStart : walker.asked.offset + j <= Reached => atStart[j] \in Range(walked)
  /\ walker.step = "counting" =>
       /\ LiesAt(page, Matches, filter.offset)
       /\ HoldsNext(page, atStart, walker.asked.offset, filter.offset, Stride)
  /\ walker.step = "answered" /\ CountsItsMatches =>
       \A j \in DOMAIN atStart : walker.asked.offset + j <= pagination.matched

\* Nothing is there twice either.
Sequential ==
  /\ FollowsTo(walked, atStart, Matches, walker.asked.offset, Reached)
  /\ walker.step = "counting" => Len(page) <= Stride

Forward ==
  /\ filter.offset >= walker.asked.offset
  /\ calm /\ LinksCarryQuery /\ FullPages => Complete
  /\ calm /\ Even => Sequential

\* The walk forward, while nothing is taken out or moved, and what is kept of it.
ForwardOK ==
  /\ walker.step = "idle" => walked = <<>> /\ walker.heading = "forward"
  /\ calm => SameIds
  /\ calm /\ Started => ContinuesAt(atStart, Matches, walker.asked.offset)
  /\ calm /\ Even => (IsPrefix(walked, atStart) \/ IsPrefix(atStart, walked)) /\ Injective(walked)
  /\ Started /\ walker.heading = "forward" => Forward

Regular == LinksCarryQuery /\ FullPages /\ CountsItsMatches

\* The walk back, while the source does not change.
BackOK ==
  /\ edits = 0 => calm
  /\ walker.step = "done" => walker.heading = "back" /\ filter.offset = 0
  /\ walker.step = "idle" => walker.heading = "forward" /\ edits = 0
  /\ edits = 0 /\ PageIn /\ Regular =>
       \A m \in DOMAIN Matches :
         filter.offset < m /\ m <= filter.offset + Stride => Matches[m].id \in IdsIn(page)
  /\ edits = 0 /\ walker.step = "answered" /\ Regular => pagination.matched = Len(Matches)
  /\ edits = 0 /\ Started /\ walker.heading = "back" /\ Regular =>
       \A m \in DOMAIN Matches :
         m > (IF walker.step \in {"answered", "done"} THEN filter.offset
              ELSE filter.offset + Stride)
           => Matches[m].id \in retraced

-----------------------------------------------------------------------------
(* What a provider lists and counts *)

LEMMA SliceWhole ==
  ASSUME NEW R, NEW s \in Seq(R), NEW limit \in Nat, Len(s) <= limit
  PROVE  Slice(s, 0, limit) = s
<1> DEFINE t == Slice(s, 0, limit)
<1>1. Len(s) \in Nat
  BY LenProperties
<1>2. /\ t \in Seq(R)
      /\ \A i \in 1..Len(s) - 0 : i <= limit => i \in 1..Len(t)
      /\ \A i \in 1..Len(t) : 0 + i \in 1..Len(s) /\ t[i] = s[0 + i]
  <2>1. 0 \in Nat
    OBVIOUS
  <2>. QED BY <2>1, SliceType, Zenon
<1> HIDE DEF t
<1>3. Len(t) \in Nat
  BY <1>2, LenProperties
<1>4. Len(t) = Len(s)
  <2>1. Len(s) \in 1..Len(s) \/ Len(s) = 0
    BY <1>1
  <2>2. Len(t) \in 1..Len(t) \/ Len(t) = 0
    BY <1>3
  <2>3. Len(s) <= Len(t)
    BY <1>1, <1>2, <1>3, <2>1
  <2>4. Len(t) <= Len(s)
    BY <1>1, <1>2, <1>3, <2>2
  <2>. QED BY <1>1, <1>3, <2>3, <2>4
<1>5. \A i \in 1..Len(s) : t[i] = s[i]
  BY <1>1, <1>2, <1>4
<1>6. t = s
  BY <1>2, <1>4, <1>5, SeqEqual
<1>. QED BY <1>6 DEF t

LEMMA RangeOfRows ==
  ASSUME NEW s \in Seq(Rows)
  PROVE  Range(s) \subseteq Rows
BY DEF Range

LEMMA Listing ==
  ASSUME NEW s \in Seq(Rows), NEW f, NEW src \in Sources
  PROVE  ListFeatures(s, f, src) = Slice(Select(s, Selected(f, src)), f.offset, Cap(f, src))
<1>1. Range(s) \subseteq Rows
  BY RangeOfRows
<1>2. CASE src.kind = "collection-config"
  <2> DEFINE V == {r \in Range(s) : FeatureMatchesBbox(r, f) /\ FeatureMatchesDatetime(r, f, src)}
  <2>1. Range(s) \cap V = Range(s) \cap Selected(f, src)
    BY <1>1, <1>2 DEF Selected, BoxCrs, Dated, FeatureMatchesBbox
  <2>2. Select(s, V) = Select(s, Selected(f, src))
    <3> HIDE DEF V
    <3>. QED BY <2>1, SelectSame
  <2>. QED BY <1>2, <2>2 DEF ListFeatures, ConfigList, MatchFeatures, Cap
<1>3. CASE src.kind \in {"duckdb", "postgis"}
  <2> DEFINE V == InBox(s, f, f.bboxCrs)
  <2>1. Range(s) \cap V = Range(s) \cap Selected(f, src)
    BY <1>1, <1>3 DEF Selected, BoxCrs, Dated, InBox
  <2>2. Select(s, V) = Select(s, Selected(f, src))
    <3> HIDE DEF V
    <3>. QED BY <2>1, SelectSame
  <2>. QED
    BY <1>3, <2>2 DEF ListFeatures, BuildFeaturesQuery, BuildPredicates, PostgisList,
                      ApplyFilter, Cap
<1>4. CASE src.kind = "pyogrio"
  <2> DEFINE V == InBox(s, f, src.native)
  <2>1. Range(s) \cap V = Range(s) \cap Selected(f, src)
    BY <1>1, <1>4 DEF Selected, BoxCrs, Dated, InBox
  <2>2. Select(s, V) = Select(s, Selected(f, src))
    <3> HIDE DEF V
    <3>. QED BY <2>1, SelectSame
  <2>. QED BY <1>4, <2>2 DEF ListFeatures, PyogrioList, ReadDataframe, Cap
<1>5. CASE src.kind = "pygeoapi"
  <2> DEFINE V == {r \in InBox(s, f, f.bboxCrs) : FeatureMatchesDatetime(r, f, src)}
  <2>1. Range(s) \cap V = Range(s) \cap Selected(f, src)
    BY <1>1, <1>5 DEF Selected, BoxCrs, Dated, InBox
  <2>2. Select(s, V) = Select(s, Selected(f, src))
    <3> HIDE DEF V
    <3>. QED BY <2>1, SelectSame
  <2>. QED BY <1>5, <2>2 DEF ListFeatures, PygeoapiList, GetCollectionItems, Cap
<1>. QED BY <1>2, <1>3, <1>4, <1>5 DEF Sources, Kinds

\* Which rows are selected depends neither on the page nor on the page sizes.
LEMMA SelectedAlike ==
  ASSUME NEW f, NEW g, NEW src, NEW other,
         f.bbox = g.bbox, f.bboxCrs = g.bboxCrs, f.datetime = g.datetime,
         src.kind = other.kind, src.native = other.native, src.timed = other.timed
  PROVE  Selected(f, src) = Selected(g, other)
BY DEF Selected, BoxCrs, Dated, Bbox2d, FeatureMatchesDatetime

LEMMA MatchingSelects ==
  ASSUME NEW s \in Seq(Rows), NEW f \in Filters, NEW src \in Sources
  PROVE  Matching(s, f, src) = Select(s, Selected(f, src))
<1> DEFINE g == [f EXCEPT !.offset = 0, !.limit = Len(s)]
           all == [src EXCEPT !.pageMax = Len(s)]
<1>1. Len(s) \in Nat
  BY LenProperties
<1>2. /\ g.bbox = f.bbox /\ g.bboxCrs = f.bboxCrs /\ g.datetime = f.datetime
      /\ g.offset = 0 /\ g.limit = Len(s)
  BY DEF Filters
<1>3. /\ all.kind = src.kind /\ all.native = src.native /\ all.timed = src.timed
      /\ all.pageMax = Len(s) /\ all \in Sources
  BY <1>1 DEF Sources
<1>4. Matching(s, f, src) = ListFeatures(s, g, all)
  BY DEF Matching
<1> HIDE DEF g, all
<1>5. Selected(g, all) = Selected(f, src)
  BY <1>2, <1>3, SelectedAlike
<1>6. Cap(g, all) = Len(s)
  <2>1. MaxItems(all) \in Nat /\ (Len(s) # 0 => MaxItems(all) = Len(s))
    BY <1>1, <1>3, ThrottleAssumption DEF MaxItems
  <2>2. Min({Len(s), MaxItems(all)}) = Len(s)
    BY <1>1, <2>1, MinOfTwo
  <2>. QED BY <1>2, <2>2 DEF Cap
<1>7. Select(s, Selected(f, src)) \in Seq(Rows) /\ Len(Select(s, Selected(f, src))) <= Len(s)
  BY SelectType
<1>8. Slice(Select(s, Selected(f, src)), 0, Len(s)) = Select(s, Selected(f, src))
  BY <1>1, <1>7, SliceWhole
<1>. QED BY <1>2, <1>3, <1>4, <1>5, <1>6, <1>8, Listing

\* The number of matches a provider gives is that of the rows it selects, but for
\* pygeoapi's, which takes the box for one in CRS84.
LEMMA Counted ==
  ASSUME NEW s \in Seq(Rows), NEW f \in Filters, NEW src \in Sources,
         src.kind = "pygeoapi" /\ f.bbox # "none" => f.bboxCrs = "CRS84"
  PROVE  CountItems(s, f, src).matched = Len(Select(s, Selected(f, src)))
<1>1. Range(s) \subseteq Rows
  BY RangeOfRows
<1>2. CASE src.kind = "collection-config"
  <2> DEFINE V == {r \in Range(s) : FeatureMatchesBbox(r, f) /\ FeatureMatchesDatetime(r, f, src)}
  <2>1. Range(s) \cap V = Range(s) \cap Selected(f, src)
    BY <1>1, <1>2 DEF Selected, BoxCrs, Dated, FeatureMatchesBbox
  <2>2. Select(s, V) = Select(s, Selected(f, src))
    <3> HIDE DEF V
    <3>. QED BY <2>1, SelectSame
  <2>. QED BY <1>2, <2>2 DEF CountItems, ConfigCount, MatchFeatures
<1>3. ASSUME src.kind \in {"duckdb", "postgis"}
      PROVE  Select(s, InBox(s, f, f.bboxCrs)) = Select(s, Selected(f, src))
  <2> DEFINE V == InBox(s, f, f.bboxCrs)
  <2>1. Range(s) \cap V = Range(s) \cap Selected(f, src)
    BY <1>1, <1>3 DEF Selected, BoxCrs, Dated, InBox
  <2> HIDE DEF V
  <2>2. Select(s, V) = Select(s, Selected(f, src))
    BY <2>1, SelectSame
  <2>. QED BY <2>2 DEF V
<1>4. CASE src.kind = "duckdb"
  BY <1>3, <1>4 DEF CountItems, DuckdbCount, BuildCountQuery, BuildPredicates
<1>5. CASE src.kind = "postgis"
  <2>1. CASE f.bbox = "none"
    <3>1. Range(s) \subseteq Selected(f, src)
      BY <1>1, <1>5, <2>1 DEF Selected, Dated, InArea, Bbox2d
    <3>2. Select(s, Selected(f, src)) = s
      BY <3>1, SelectAll
    <3>. QED BY <1>5, <2>1, <3>2 DEF CountItems, PostgisCount
  <2>2. CASE f.bbox # "none"
    BY <1>3, <1>5, <2>2 DEF CountItems, PostgisCount, ApplyFilter
  <2>. QED BY <2>1, <2>2
<1>6. CASE src.kind = "pyogrio"
  <2> DEFINE V == InBox(s, f, src.native)
  <2>1. Range(s) \cap V = Range(s) \cap Selected(f, src)
    BY <1>1, <1>6 DEF Selected, BoxCrs, Dated, InBox
  <2>2. Select(s, V) = Select(s, Selected(f, src))
    <3> HIDE DEF V
    <3>. QED BY <2>1, SelectSame
  <2>. QED BY <1>6, <2>2 DEF CountItems, PyogrioCount, ReadDataframe
<1>7. CASE src.kind = "pygeoapi"
  <2> DEFINE V == {r \in InBox(s, f, "CRS84") : FeatureMatchesDatetime(r, f, src)}
  <2>1. \A r : InArea(r, Bbox2d(f), "CRS84") <=> InArea(r, Bbox2d(f), f.bboxCrs)
    BY <1>7 DEF InArea, Bbox2d
  <2>2. Range(s) \cap V = Range(s) \cap Selected(f, src)
    BY <1>1, <1>7, <2>1 DEF Selected, BoxCrs, Dated, InBox
  <2>3. Select(s, V) = Select(s, Selected(f, src))
    <3> HIDE DEF V
    <3>. QED BY <2>2, SelectSame
  <2>. QED BY <1>7, <2>3 DEF CountItems, PygeoapiCount, GetCollectionItems
<1>. QED BY <1>2, <1>4, <1>5, <1>6, <1>7 DEF Sources, Kinds

-----------------------------------------------------------------------------
(* What a request asks for and what its page holds *)

LEMMA RemoveAtType ==
  ASSUME NEW R, NEW s \in Seq(R), NEW i \in DOMAIN s
  PROVE  RemoveAt(s, i) \in Seq(R) /\ Len(RemoveAt(s, i)) = Len(s) - 1
<1> DEFINE front == SubSeq(s, 1, i - 1)
           back == SubSeq(s, i + 1, Len(s))
<1>1. Len(s) \in Nat /\ i \in 1..Len(s) /\ \A j \in 1..Len(s) : s[j] \in R
  BY LenProperties, ElementOfSeq
<1>2. front \in Seq(R) /\ Len(front) = i - 1
  <2>1. \A j \in 1..i - 1 : s[j] \in R
    BY <1>1
  <2>. QED BY <1>1, <2>1, SubSeqProperties
<1>3. back \in Seq(R) /\ Len(back) = Len(s) - i
  <2>1. \A j \in i + 1..Len(s) : s[j] \in R
    BY <1>1
  <2>2. Len(back) = IF i + 1 <= Len(s) THEN Len(s) - (i + 1) + 1 ELSE 0
    BY <1>1, <2>1, SubSeqProperties
  <2>. QED BY <1>1, <2>1, <2>2, SubSeqProperties
<1>4. RemoveAt(s, i) = front \o back
  BY DEF RemoveAt
<1> HIDE DEF front, back
<1>5. front \o back \in Seq(R) /\ Len(front \o back) = Len(front) + Len(back)
  BY <1>2, <1>3, ConcatProperties
<1>. QED BY <1>1, <1>2, <1>3, <1>4, <1>5

LEMMA ListedPage ==
  ASSUME NEW s \in Seq(Rows), NEW f \in Filters, NEW src \in Sources
  PROVE  /\ Cap(f, src) \in Nat /\ Cap(f, src) <= f.limit
         /\ ListFeatures(s, f, src) \in Seq(Rows)
         /\ Range(ListFeatures(s, f, src)) \subseteq Selected(f, src)
<1> DEFINE sel == Select(s, Selected(f, src))
<1>1. f.offset \in Nat /\ f.limit \in Nat
  BY DEF Filters
<1>2. Cap(f, src) \in Nat /\ Cap(f, src) <= f.limit
  <2>1. MaxItems(src) \in Nat
    BY ThrottleAssumption DEF MaxItems, Sources
  <2>. QED BY <1>1, <2>1, MinOfTwo DEF Cap
<1>3. sel \in Seq(Rows) /\ Range(sel) = Range(s) \cap Selected(f, src)
  BY SelectType
<1> HIDE DEF sel
<1> DEFINE p == Slice(sel, f.offset, Cap(f, src))
<1>4. /\ p \in Seq(Rows)
      /\ \A i \in 1..Len(p) : f.offset + i \in 1..Len(sel) /\ p[i] = sel[f.offset + i]
  BY <1>1, <1>2, <1>3, SliceType, SMTT(30)
<1>5. ListFeatures(s, f, src) = p
  BY Listing DEF sel
<1> HIDE DEF p
<1>6. Range(p) \subseteq Range(sel)
  <2>1. DOMAIN p = 1..Len(p) /\ DOMAIN sel = 1..Len(sel)
    BY <1>3, <1>4, LenProperties
  <2>. QED BY <1>4, <2>1 DEF Range
<1>. QED BY <1>2, <1>3, <1>4, <1>5, <1>6

LEMMA StrideType ==
  ASSUME provider \in Sources, NEW limit \in Nat
  PROVE  /\ PaginationLimit(limit) \in Nat /\ PaginationLimit(limit) <= limit
         /\ limit >= 1 => PaginationLimit(limit) >= 1
         /\ PaginationLimit(PaginationLimit(limit)) = PaginationLimit(limit)
<1> DEFINE most == IF provider.pageMax # 0 THEN provider.pageMax ELSE PageSizeMax
<1>1. most \in Nat /\ most >= 1
  BY SizesAssumption DEF Sources
<1>2. \A n \in Nat : PaginationLimit(n) = IF n <= most THEN n ELSE most
  BY <1>1, MinOfTwo DEF PaginationLimit
<1> HIDE DEF most
<1>. QED BY <1>1, <1>2

\* The parts of a query that become a filter.
LEMMA QueryType ==
  \A q \in Queries :
    /\ q.limit \in Nat /\ q.offset \in Nat
    /\ ~ApiRefuses(q) => ApiFilter(q) \in Filters
    /\ ~HtmlRaises(q) => HtmlFilter(q) \in Filters
<1>. SUFFICES ASSUME NEW q \in Queries
              PROVE  /\ q.limit \in Nat /\ q.offset \in Nat
                     /\ ~ApiRefuses(q) => ApiFilter(q) \in Filters
                     /\ ~HtmlRaises(q) => HtmlFilter(q) \in Filters
  OBVIOUS
<1>1. q \in RawQueries
  BY QueriesAssumption
<1>2. AnyTime \in Periods
  BY DEF Periods
<1>3. ASSUME ~ApiRefuses(q) PROVE q.bbox \in Boxes
  BY <1>1, <1>3 DEF ApiRefuses, ParseBboxFails, RawQueries, RawBoxes, Boxes
<1>4. ASSUME ~HtmlRaises(q)
      PROVE  (CASE q.bbox = "short" -> "none"
                [] q.bbox \in {"solid", "five"} -> "skewed"
                [] OTHER -> q.bbox) \in Boxes
  BY <1>1, <1>4 DEF HtmlRaises, RawQueries, RawBoxes, Boxes
<1>5. ~ApiRefuses(q) => ApiFilter(q) \in Filters
  BY <1>1, <1>3 DEF ApiFilter, Filters, RawQueries
<1>6. ~HtmlRaises(q) => HtmlFilter(q) \in Filters
  BY <1>1, <1>2, <1>4 DEF HtmlFilter, Filters, RawQueries
<1>. QED BY <1>1, <1>5, <1>6 DEF RawQueries

LEMMA RequestInit == WalkInit => WalkingOK
<1>. SUFFICES ASSUME WalkInit PROVE WalkingOK
  OBVIOUS
<1>1. PlainFilter \in Filters
  BY DEF PlainFilter, Filters, Boxes, Crs, Periods
<1>2. <<>> \in Seq(Rows) /\ <<>> \in Seq(Ids)
  BY EmptySeq
<1>3. NoPagination \in [limit : Nat \ {0}, offset : Nat, matched : Nat, returned : Nat]
  BY DEF NoPagination
<1>4. /\ walker \in [step : WalkSteps, route : Routes, asked : Queries,
                     heading : {"forward", "back"}]
      /\ walker.step = "idle"
  BY DEF WalkInit, WalkSteps
<1>5. features \in Seq(Rows) /\ Len(features) <= MaxFeatures
  BY ScansAssumption DEF WalkInit
<1>6. edits \in 0..MaxEdits
  BY SizesAssumption DEF WalkInit
<1>. QED
  BY <1>1, <1>2, <1>3, <1>4, <1>5, <1>6 DEF WalkInit, WalkingOK, WalkTypeOK, Started, PageIn

\* What a walk never changes: its query, and the provider.
LEMMA QueryKept ==
  ASSUME WalkTypeOK, [WalkNext]_walkVars
  PROVE  /\ provider' = provider /\ walker'.asked = walker.asked /\ walker'.route = walker.route
         /\ Wanted' = Wanted /\ Stride' = Stride
         /\ (LinksCarryQuery <=> LinksCarryQuery') /\ (FullPages <=> FullPages')
         /\ (CountsItsMatches <=> CountsItsMatches')
<1>1. provider' = provider /\ walker'.asked = walker.asked /\ walker'.route = walker.route
  BY DEF WalkTypeOK, WalkNext, WalkRequest, Edit, walkVars, BeginWalk, ListPage, CountAndAnswer,
         CountFails, FollowNext, TurnBack, FollowPrev, Stop, InsertFeature, DeleteFeature,
         TouchFeature
<1>2. Wanted' = Wanted
  BY <1>1 DEF Wanted
<1>3. Stride' = Stride
  BY <1>1 DEF Stride, PaginationLimit
<1>4. LinksCarryQuery <=> LinksCarryQuery'
  BY <1>1 DEF LinksCarryQuery
<1>5. FullPages <=> FullPages'
  BY <1>1 DEF FullPages, PaginationLimit
<1>6. CountsItsMatches <=> CountsItsMatches'
  BY <1>1 DEF CountsItsMatches
<1>. QED BY <1>1, <1>2, <1>3, <1>4, <1>5, <1>6

\* The filter a link leads to asks for the same, with the limit of the page or its own.
LEMMA LinkLeads ==
  ASSUME WalkingOK, walker.step = "answered", NEW offset \in Nat
  PROVE  LET g == LinkedFilter(offset) IN
         /\ g \in Filters /\ g.offset = offset
         /\ g.limit \in {walker.asked.limit, Stride}
         /\ LinksCarryQuery => /\ g.bbox = Wanted.bbox /\ g.bboxCrs = Wanted.bboxCrs
                               /\ g.crs = Wanted.crs /\ g.datetime = Wanted.datetime
<1>1. filter \in Filters /\ pagination.limit = Stride /\ filter.limit \in {walker.asked.limit, Stride}
  BY DEF WalkingOK, WalkTypeOK, Started
<1>2. LinksCarryQuery => AsksTheSame
  BY DEF WalkingOK, Started
<1>3. walker.route \in {"api", "html"} /\ Stride \in Nat
  <2>1. provider \in Sources /\ walker.asked.limit \in Nat
    BY QueryType, SettingsAssumption DEF WalkingOK, WalkTypeOK
  <2>. QED BY <2>1, StrideType DEF WalkingOK, WalkTypeOK, Routes, Stride
<1>4. CASE walker.route = "api"
  <2>1. LinkedFilter(offset) = [filter EXCEPT !.offset = offset]
    BY <1>4 DEF LinkedFilter
  <2>. QED BY <1>1, <1>2, <2>1 DEF Filters, AsksTheSame
<1>5. CASE walker.route = "html"
  <2>1. LinkedFilter(offset) = [PlainFilter EXCEPT !.offset = offset, !.limit = Stride]
    BY <1>1, <1>5 DEF LinkedFilter
  <2>2. PlainFilter \in Filters
    BY DEF PlainFilter, Filters, Boxes, Crs, Periods
  <2>3. LinksCarryQuery => /\ Wanted.bbox = "none" /\ Wanted.bboxCrs = "CRS84"
                           /\ Wanted.crs = "CRS84" /\ Wanted.datetime = AnyTime
    <3>1. Wanted = HtmlFilter(walker.asked)
      BY <1>5 DEF Wanted
    <3>2. HtmlFilter(walker.asked).datetime = AnyTime
      BY DEF HtmlFilter
    <3>. QED BY <1>5, <3>1, <3>2 DEF LinksCarryQuery
  <2>4. /\ LinkedFilter(offset) \in Filters /\ LinkedFilter(offset).offset = offset
        /\ LinkedFilter(offset).limit = Stride
        /\ LinkedFilter(offset).bbox = PlainFilter.bbox
        /\ LinkedFilter(offset).bboxCrs = PlainFilter.bboxCrs
        /\ LinkedFilter(offset).crs = PlainFilter.crs
        /\ LinkedFilter(offset).datetime = PlainFilter.datetime
    BY <1>3, <2>1, <2>2 DEF Filters
  <2>5. /\ PlainFilter.bbox = "none" /\ PlainFilter.bboxCrs = "CRS84"
        /\ PlainFilter.crs = "CRS84" /\ PlainFilter.datetime = AnyTime
    BY DEF PlainFilter
  <2>. QED BY <2>3, <2>4, <2>5
<1>. QED BY <1>3, <1>4, <1>5

\* Following a link leaves what is received as it is and asks for another page.
LEMMA RequestFollows ==
  ASSUME WalkingOK, [WalkNext]_walkVars, walker.step = "answered", NEW offset \in Nat,
         filter' = LinkedFilter(offset), walker' = [walker EXCEPT !.step = "listing"],
         page' = <<>>,
         UNCHANGED <<provider, features, edits, pagination, walked, retraced, atStart, calm>>
  PROVE  WalkingOK'
<1>1. /\ filter' \in Filters /\ filter'.limit \in {walker.asked.limit, Stride}
      /\ LinksCarryQuery => /\ filter'.bbox = Wanted.bbox /\ filter'.bboxCrs = Wanted.bboxCrs
                            /\ filter'.crs = Wanted.crs /\ filter'.datetime = Wanted.datetime
  BY LinkLeads
<1>2. /\ walker' \in [step : WalkSteps, route : Routes, asked : Queries,
                      heading : {"forward", "back"}]
      /\ walker'.step = "listing"
  BY DEF WalkingOK, WalkTypeOK, WalkSteps
<1>3. WalkTypeOK'
  BY <1>1, <1>2, EmptySeq DEF WalkingOK, WalkTypeOK
<1>4. WalkTypeOK
  BY DEF WalkingOK
<1>5. (Started =>
       /\ walker.asked.limit >= 1
       /\ walker.route = "api" => ~ApiRefuses(walker.asked)
       /\ walker.route = "html" => ~HtmlRaises(walker.asked)
       /\ filter.limit \in {walker.asked.limit, Stride}
       /\ LinksCarryQuery => AsksTheSame)'
  BY <1>1, <1>4, QueryKept DEF WalkingOK, Started, AsksTheSame
<1>. QED BY <1>2, <1>3, <1>5 DEF WalkingOK, PageIn

\* A step that keeps the request as it is, and its page if it leaves one.
LEMMA RequestKept ==
  ASSUME WalkingOK, [WalkNext]_walkVars, WalkTypeOK', UNCHANGED <<filter, page, pagination>>,
         Started' => Started, PageIn' => PageIn,
         walker'.step = "answered" => walker.step = "answered"
  PROVE  WalkingOK'
<1>1. WalkTypeOK
  BY DEF WalkingOK
<1>2. (Started =>
       /\ walker.asked.limit >= 1
       /\ walker.route = "api" => ~ApiRefuses(walker.asked)
       /\ walker.route = "html" => ~HtmlRaises(walker.asked)
       /\ filter.limit \in {walker.asked.limit, Stride}
       /\ LinksCarryQuery => AsksTheSame)'
  BY <1>1, QueryKept DEF WalkingOK, AsksTheSame
<1>3. (walker.step = "answered" => pagination.limit = Stride /\ pagination.offset = filter.offset)'
  BY <1>1, QueryKept DEF WalkingOK
<1>4. (PageIn => /\ page # <<>> => filter.crs # "bad"
                 /\ LinksCarryQuery => Range(page) \subseteq Selected(Wanted, provider))'
  BY <1>1, QueryKept DEF WalkingOK
<1>. QED BY <1>2, <1>3, <1>4 DEF WalkingOK

LEMMA RequestBegins ==
  ASSUME WalkingOK, BeginWalk
  PROVE  WalkingOK'
<1> DEFINE q == walker.asked
<1>1. WalkTypeOK /\ [WalkNext]_walkVars /\ walker.step = "idle"
  BY DEF WalkingOK, BeginWalk, WalkNext, WalkRequest
<1>2. q \in Queries /\ provider \in Sources /\ walker.route \in {"api", "html"}
  BY <1>1, SettingsAssumption DEF WalkTypeOK, Routes
<1>3. /\ walker'.step \in {"rejected", "failed", "listing"}
      /\ walker' \in [step : WalkSteps, route : Routes, asked : Queries,
                      heading : {"forward", "back"}]
      /\ UNCHANGED <<provider, features, edits, page, pagination, walked, retraced, calm>>
  BY <1>1 DEF BeginWalk, WalkTypeOK, WalkSteps
<1>4. CASE walker'.step # "listing"
  <2>1. UNCHANGED <<filter, atStart>>
    BY <1>1, <1>4 DEF BeginWalk, WalkTypeOK
  <2>2. WalkTypeOK'
    BY <1>1, <1>3, <2>1 DEF WalkTypeOK
  <2>. QED BY <1>1, <1>3, <1>4, <2>1, <2>2, RequestKept DEF Started, PageIn
<1>5. CASE walker'.step = "listing"
  <2>1. /\ filter' = Wanted
        /\ IF walker.route = "api" THEN ~ApiRefuses(q) ELSE ~HtmlRaises(q)
        /\ atStart' = LET m == IF Wanted.bboxCrs = "bad" THEN <<>>
                               ELSE Matching(features, Wanted, provider)
                      IN [i \in 1 .. Max({0, Len(m) - Wanted.offset}) |->
                            m[Wanted.offset + i].id]
    BY <1>1, <1>5 DEF BeginWalk, Wanted, WalkTypeOK
  <2>2. Wanted \in Filters /\ Wanted.limit = q.limit
    BY <1>2, <2>1, QueryType DEF Wanted, ApiFilter, HtmlFilter
  <2>3. q.limit >= 1
    <3>1. q.limit \in Nat /\ q.limit # 0
      BY <1>2, <2>1, QueryType DEF ApiRefuses, HtmlRaises
    <3>. QED BY <3>1
  <2>4. atStart' \in Seq(Ids)
    <3> DEFINE m == IF Wanted.bboxCrs = "bad" THEN <<>> ELSE Matching(features, Wanted, provider)
               left == Max({0, Len(m) - Wanted.offset})
    <3>1. features \in Seq(Rows)
      BY <1>1 DEF WalkTypeOK
    <3>2. m \in Seq(Rows)
      <4>1. Matching(features, Wanted, provider) \in Seq(Rows)
        BY <1>2, <2>2, <3>1, MatchingSelects, SelectType
      <4>. QED BY <4>1, EmptySeq
    <3>3. atStart' = [i \in 1..left |-> m[Wanted.offset + i].id]
      BY <2>1
    <3>4. Len(m) \in Nat /\ Wanted.offset \in Nat /\ \A i \in 1..Len(m) : m[i].id \in Ids
      <4>1. \A i \in 1..Len(m) : m[i] \in Rows
        BY <3>2
      <4>. QED BY <2>2, <3>2, <4>1 DEF Filters, Rows
    <3>5. left = IF 0 <= Len(m) - Wanted.offset THEN Len(m) - Wanted.offset ELSE 0
      <4> HIDE DEF m
      <4>. QED BY <3>4, MaxOfTwo
    <3> HIDE DEF m, left
    <3>6. left \in Nat /\ \A i \in 1..left : Wanted.offset + i \in 1..Len(m)
      BY <3>4, <3>5
    <3>7. atStart' \in [1..left -> Ids]
      BY <3>3, <3>4, <3>6
    <3>. QED BY <3>6, <3>7
  <2>5. WalkTypeOK'
    BY <1>1, <1>3, <2>1, <2>2, <2>4 DEF WalkTypeOK
  <2>6. AsksTheSame'
    BY <1>1, <2>1, QueryKept DEF AsksTheSame
  <2>7. (Started =>
       /\ walker.asked.limit >= 1
       /\ walker.route = "api" => ~ApiRefuses(walker.asked)
       /\ walker.route = "html" => ~HtmlRaises(walker.asked)
       /\ filter.limit \in {walker.asked.limit, Stride}
       /\ LinksCarryQuery => AsksTheSame)'
    BY <1>1, <2>1, <2>2, <2>3, <2>6, QueryKept
  <2>. QED BY <1>5, <2>5, <2>7 DEF WalkingOK, PageIn
<1>. QED BY <1>4, <1>5, SMTT(30)

LEMMA RequestLists ==
  ASSUME WalkingOK, ListPage
  PROVE  WalkingOK'
<1>1. WalkTypeOK /\ [WalkNext]_walkVars /\ walker.step = "listing"
  BY DEF WalkingOK, ListPage, WalkNext, WalkRequest
<1>2. /\ features \in Seq(Rows) /\ filter \in Filters /\ provider \in Sources
  BY <1>1, SettingsAssumption DEF WalkTypeOK
<1>3. /\ walker'.step \in {"rejected", "failed", "counting"}
      /\ walker' \in [step : WalkSteps, route : Routes, asked : Queries,
                      heading : {"forward", "back"}]
      /\ UNCHANGED <<provider, features, edits, filter, pagination, walked, retraced,
                     atStart, calm>>
  BY <1>1 DEF ListPage, WalkTypeOK, WalkSteps
<1>4. CASE walker'.step # "counting"
  <2>1. UNCHANGED page
    BY <1>1, <1>4 DEF ListPage, WalkTypeOK
  <2>2. WalkTypeOK'
    BY <1>1, <1>3, <2>1 DEF WalkTypeOK
  <2>. QED BY <1>1, <1>3, <1>4, <2>1, <2>2, RequestKept DEF Started, PageIn
<1>5. CASE walker'.step = "counting"
  <2>1. /\ ListOutcome(features, filter, provider) = "listed"
        /\ page' = ListFeatures(features, filter, provider)
    BY <1>1, <1>5 DEF ListPage, WalkTypeOK
  <2>2. page' \in Seq(Rows) /\ Range(page') \subseteq Selected(filter, provider)
    BY <1>2, <2>1, ListedPage
  <2>3. WalkTypeOK'
    BY <1>1, <1>3, <2>2 DEF WalkTypeOK
  <2>4. page' # <<>> => filter.crs # "bad"
    <3>1. provider.kind \in Kinds
      BY <1>2 DEF Sources
    <3>. QED
      BY <2>1, <3>1 DEF ListOutcome, ConfigRaises, ParseSridRaises, ListFeatures, Kinds
  <2>5. LinksCarryQuery => Selected(filter, provider) = Selected(Wanted, provider)
    <3>1. LinksCarryQuery => AsksTheSame
      BY <1>1 DEF WalkingOK, Started
    <3>. QED BY <3>1, SelectedAlike DEF AsksTheSame
  <2>6. (PageIn => /\ page # <<>> => filter.crs # "bad"
                   /\ LinksCarryQuery => Range(page) \subseteq Selected(Wanted, provider))'
    BY <1>1, <1>3, <2>2, <2>4, <2>5, QueryKept
  <2>7. (Started =>
       /\ walker.asked.limit >= 1
       /\ walker.route = "api" => ~ApiRefuses(walker.asked)
       /\ walker.route = "html" => ~HtmlRaises(walker.asked)
       /\ filter.limit \in {walker.asked.limit, Stride}
       /\ LinksCarryQuery => AsksTheSame)'
    BY <1>1, <1>3, QueryKept DEF WalkingOK, AsksTheSame, Started
  <2>. QED BY <1>5, <2>3, <2>6, <2>7 DEF WalkingOK
<1>. QED BY <1>4, <1>5

LEMMA Identifiers ==
  ASSUME NEW p \in Seq(Rows)
  PROVE  /\ [i \in DOMAIN p |-> p[i].id] \in Seq(Ids)
         /\ Len([i \in DOMAIN p |-> p[i].id]) = Len(p)
         /\ IdsIn(p) \subseteq Ids
<1>1. Len(p) \in Nat /\ DOMAIN p = 1..Len(p) /\ \A i \in 1..Len(p) : p[i] \in Rows
  BY LenProperties, ElementOfSeq
<1>2. \A i \in 1..Len(p) : p[i].id \in Ids
  BY <1>1 DEF Rows
<1>3. [i \in DOMAIN p |-> p[i].id] \in [1..Len(p) -> Ids]
  BY <1>1, <1>2
<1>4. [i \in DOMAIN p |-> p[i].id] \in Seq(Ids)
  BY <1>1, <1>3
<1>5. Len([i \in DOMAIN p |-> p[i].id]) = Len(p)
  BY <1>1, <1>4, LenProperties
<1>6. IdsIn(p) \subseteq Ids
  BY <1>1, <1>2 DEF IdsIn
<1>. QED BY <1>4, <1>5, <1>6

LEMMA RequestAnswers ==
  ASSUME WalkingOK, CountAndAnswer
  PROVE  WalkingOK'
<1>1. WalkTypeOK /\ [WalkNext]_walkVars /\ walker.step = "counting"
  BY DEF WalkingOK, CountAndAnswer, WalkNext, WalkRequest
<1>2. /\ features \in Seq(Rows) /\ filter \in Filters /\ provider \in Sources
      /\ walker.asked \in Queries /\ page \in Seq(Rows) /\ walked \in Seq(Ids)
  BY <1>1, SettingsAssumption DEF WalkTypeOK
<1>3. /\ walker'.step = "answered"
      /\ walker' \in [step : WalkSteps, route : Routes, asked : Queries,
                      heading : {"forward", "back"}]
      /\ UNCHANGED <<provider, features, edits, filter, page, atStart, calm>>
      /\ pagination' = [limit |-> PaginationLimit(filter.limit), offset |-> filter.offset,
                        matched |-> CountItems(features, filter, provider).matched,
                        returned |-> Len(page)]
  BY <1>1 DEF CountAndAnswer, WalkTypeOK, WalkSteps
<1>4. /\ walker.asked.limit >= 1 /\ filter.limit \in {walker.asked.limit, Stride}
  BY <1>1 DEF WalkingOK, Started
<1>5. PaginationLimit(filter.limit) = Stride /\ Stride \in Nat \ {0}
  <2>1. walker.asked.limit \in Nat
    BY <1>2, QueryType
  <2>2. /\ Stride \in Nat /\ Stride >= 1
        /\ PaginationLimit(Stride) = Stride /\ PaginationLimit(walker.asked.limit) = Stride
    BY <1>2, <1>4, <2>1, StrideType DEF Stride
  <2>. QED BY <1>4, <2>2
<1>6. CountItems(features, filter, provider).matched \in Nat
  <2>1. \A V : Len(Select(features, V)) \in Nat
    BY <1>2, SelectType, LenProperties
  <2>2. Len(features) \in Nat /\ provider.kind \in Kinds
    BY <1>2, LenProperties DEF Sources
  <2>. QED
    BY <2>1, <2>2 DEF CountItems, ConfigCount, MatchFeatures, DuckdbCount, BuildCountQuery,
       BuildPredicates, PyogrioCount, ReadDataframe, PostgisCount, ApplyFilter, PygeoapiCount,
       GetCollectionItems, Kinds
<1>7. pagination' \in [limit : Nat \ {0}, offset : Nat, matched : Nat, returned : Nat]
  <2>1. filter.offset \in Nat /\ Len(page) \in Nat
    BY <1>2, LenProperties DEF Filters
  <2>. QED BY <1>3, <1>5, <1>6, <2>1
<1>8. walked' \in Seq(Ids) /\ retraced' \subseteq Ids
  <2> DEFINE got == [i \in DOMAIN page |-> page[i].id]
  <2>1. got \in Seq(Ids) /\ IdsIn(page) \subseteq Ids
    BY <1>2, Identifiers
  <2>2. walked' = walked \o got \/ walked' = walked
    BY DEF CountAndAnswer
  <2>3. retraced' \subseteq retraced \cup IdsIn(page)
    BY DEF CountAndAnswer
  <2>4. retraced \subseteq Ids
    BY <1>1 DEF WalkTypeOK
  <2> HIDE DEF got
  <2>5. walked \o got \in Seq(Ids)
    BY <1>2, <2>1, ConcatProperties
  <2>. QED BY <1>2, <2>1, <2>2, <2>3, <2>4, <2>5
<1>9. WalkTypeOK'
  BY <1>1, <1>3, <1>7, <1>8 DEF WalkTypeOK
<1>10. (PageIn => /\ page # <<>> => filter.crs # "bad"
                  /\ LinksCarryQuery => Range(page) \subseteq Selected(Wanted, provider))'
  <2>1. PageIn
    BY <1>1 DEF PageIn
  <2>. QED BY <1>1, <1>3, <2>1, QueryKept DEF WalkingOK
<1>11. (Started =>
       /\ walker.asked.limit >= 1
       /\ walker.route = "api" => ~ApiRefuses(walker.asked)
       /\ walker.route = "html" => ~HtmlRaises(walker.asked)
       /\ filter.limit \in {walker.asked.limit, Stride}
       /\ LinksCarryQuery => AsksTheSame)'
  <2>1. Started
    BY <1>1 DEF Started
  <2>. QED BY <1>1, <1>3, <2>1, QueryKept DEF WalkingOK, AsksTheSame
<1>12. (walker.step = "answered" => pagination.limit = Stride /\ pagination.offset = filter.offset)'
  BY <1>1, <1>3, <1>5, QueryKept
<1>. QED BY <1>9, <1>10, <1>11, <1>12 DEF WalkingOK

LEMMA RequestStep ==
  ASSUME WalkingOK, [WalkNext]_walkVars
  PROVE  WalkingOK'
<1>1. WalkTypeOK
  BY DEF WalkingOK
<1>2. filter.offset \in Nat /\ pagination.limit \in Nat /\ pagination.offset \in Nat
  BY <1>1 DEF WalkTypeOK, Filters
<1>3. CASE BeginWalk
  BY <1>3, RequestBegins
<1>4. CASE ListPage
  BY <1>4, RequestLists
<1>5. CASE CountAndAnswer
  BY <1>5, RequestAnswers
<1>6. CASE CountFails
  <2>1. WalkTypeOK'
    BY <1>1, <1>6 DEF CountFails, WalkTypeOK, WalkSteps
  <2>. QED BY <1>1, <1>6, <2>1, RequestKept DEF CountFails, WalkTypeOK, Started, PageIn
<1>7. CASE FollowNext
  <2>1. NextOffset(pagination) \in Nat
    BY <1>2 DEF NextOffset
  <2>. QED BY <1>7, <2>1, RequestFollows DEF FollowNext
<1>8. CASE TurnBack
  <2>1. IdsIn(page) \subseteq Ids
    BY <1>1, Identifiers DEF WalkTypeOK
  <2>2. WalkTypeOK'
    BY <1>1, <1>8, <2>1 DEF TurnBack, WalkTypeOK
  <2>. QED BY <1>1, <1>8, <2>2, RequestKept DEF TurnBack, WalkTypeOK, Started, PageIn
<1>9. CASE FollowPrev
  <2>1. PrevOffset(pagination) \in Nat
    BY <1>2, MaxOfTwo DEF PrevOffset
  <2>. QED BY <1>9, <2>1, RequestFollows DEF FollowPrev
<1>10. CASE Stop
  <2>1. WalkTypeOK'
    BY <1>1, <1>10 DEF Stop, WalkTypeOK, WalkSteps
  <2>. QED BY <1>1, <1>10, <2>1, RequestKept DEF Stop, WalkTypeOK, Started, PageIn
<1>11. CASE Edit
  <2>1. /\ UNCHANGED <<provider, walker, filter, page, pagination, walked, retraced, atStart>>
        /\ edits < MaxEdits /\ edits' = edits + 1 /\ calm' \in BOOLEAN
    BY <1>1, <1>11 DEF Edit, InsertFeature, DeleteFeature, TouchFeature, WalkTypeOK
  <2>2. features' \in Seq(Rows) /\ Len(features') <= MaxFeatures
    <3>1. features \in Seq(Rows) /\ Len(features) \in Nat /\ Len(features) <= MaxFeatures
          /\ MaxFeatures \in Nat
      BY <1>1, LenProperties, SizesAssumption DEF WalkTypeOK
    <3>2. CASE InsertFeature
      <4>1. PICK r \in Rows : features' = Append(features, r)
        BY <3>2 DEF InsertFeature
      <4>. QED BY <3>1, <3>2, <4>1, AppendProperties DEF InsertFeature
    <3>3. ASSUME NEW i \in DOMAIN features
          PROVE  /\ RemoveAt(features, i) \in Seq(Rows) /\ features[i] \in Rows
                 /\ Len(RemoveAt(features, i)) = Len(features) - 1
      BY <3>1, RemoveAtType, ElementOfSeq
    <3>4. CASE DeleteFeature
      BY <3>1, <3>3, <3>4 DEF DeleteFeature
    <3>5. CASE TouchFeature
      <4>1. PICK i \in DOMAIN features : features' = Append(RemoveAt(features, i), features[i])
        BY <3>5 DEF TouchFeature
      <4>. QED BY <3>1, <3>3, <4>1, AppendProperties
    <3>. QED BY <1>11, <3>2, <3>4, <3>5 DEF Edit
  <2>3. edits' \in 0..MaxEdits
    BY <1>1, <2>1, SizesAssumption DEF WalkTypeOK
  <2>4. WalkTypeOK'
    BY <1>1, <2>1, <2>2, <2>3 DEF WalkTypeOK
  <2>. QED BY <2>1, <2>4, RequestKept DEF Started, PageIn
<1>12. CASE UNCHANGED walkVars
  <2>1. WalkTypeOK'
    BY <1>1, <1>12 DEF walkVars, WalkTypeOK
  <2>. QED BY <1>12, <2>1, RequestKept DEF walkVars, Started, PageIn
<1>. QED BY <1>3, <1>4, <1>5, <1>6, <1>7, <1>8, <1>9, <1>10, <1>11, <1>12 DEF WalkNext, WalkRequest

LEMMA Requests == WalkSpec => []WalkingOK
<1>1. WalkingOK /\ [WalkNext]_walkVars => WalkingOK'
  BY RequestStep
<1>. QED BY <1>1, RequestInit, PTL DEF WalkSpec

\* A text of the column names one value at most, and what int() reads from it is
\* that value.
LEMMA TextsName ==
  ASSUME NEW type \in IdTypes, NEW text \in Texts
  PROVE  /\ \A id \in Ids : Str(id, type) \in Texts /\ Cast(Str(id, type), type) = {id}
         /\ \A id \in Cast(text, type) : Str(id, type) = text
         /\ type \in {"fid", "integer"} =>
              /\ \A id \in AsNumber(text) : Str(id, type) = text
              /\ \A id \in Ids : /\ AsNumber(Str(id, type)) = {id}
                               /\ Str(id, type).digits
<1>1. \A id \in Ids : /\ Str(id, type) \in Texts
                      /\ Str(id, type).of = id
                      /\ type \in {"fid", "integer"} => Str(id, type).digits = TRUE
  BY DEF Str, Texts
<1>2. \A id \in Ids : Cast(Str(id, type), type) = {id}
  BY <1>1 DEF Cast
<1>3. ASSUME type \in {"fid", "integer"}, NEW id \in AsNumber(text)
      PROVE  Str(id, type) = text
  <2>1. text.digits = TRUE /\ text.of = id
    BY <1>3 DEF AsNumber, Texts
  <2>2. text = [digits |-> TRUE, of |-> id] /\ Str(id, type) = [digits |-> TRUE, of |-> id]
    BY <1>3, <2>1 DEF Texts, Str
  <2>. QED BY <2>2
<1>4. type \in {"fid", "integer"} => \A id \in Ids : AsNumber(Str(id, type)) = {id}
  BY <1>1 DEF AsNumber
<1>. QED BY <1>1, <1>2, <1>3, <1>4 DEF Cast

\* Asked for by the text of a page, in a system the provider knows, a provider
\* gives the rows with that identifier; by any text, rows that are listed by it.
LEMMA TextsLead ==
  ASSUME NEW src \in Sources, src.kind = "postgis" => src.idType # "date",
         NEW rows \in Seq(Rows), NEW crs \in Crs, NEW text \in Texts
  PROVE  /\ \A r \in GetFeature(rows, text, crs, src).rows : Str(r.id, src.idType) = text
         /\ \A id \in Ids : text = Str(id, src.idType) /\ crs # "bad" =>
              GetFeature(rows, text, crs, src) = Got(WithId(rows, {id}))
<1>1. /\ src.kind \in Kinds /\ src.idType \in IdTypes /\ src.idType \in ColumnTypes(src.kind)
  BY DEF Sources
<1>2. /\ \A id \in Ids : Cast(Str(id, src.idType), src.idType) = {id}
      /\ \A id \in Cast(text, src.idType) : Str(id, src.idType) = text
      /\ src.idType \in {"fid", "integer"} =>
           /\ \A id \in AsNumber(text) : Str(id, src.idType) = text
           /\ \A id \in Ids : /\ AsNumber(Str(id, src.idType)) = {id}
                            /\ Str(id, src.idType).digits
  BY <1>1, TextsName
<1>3. ASSUME NEW ids, \A id \in ids : Str(id, src.idType) = text
      PROVE  \A r \in Got(WithId(rows, ids)).rows : Str(r.id, src.idType) = text
  BY <1>3 DEF Got, WithId
<1>4. \A r \in Raised.rows : FALSE
  BY DEF Raised
<1>5. CASE src.kind \in {"collection-config", "pygeoapi"}
  <2>1. src.idType = "text"
    BY <1>1, <1>5 DEF ColumnTypes
  <2>. QED BY <1>2, <1>3, <1>4, <1>5, <2>1 DEF GetFeature, ConfigGet, PygeoapiGet
<1>6. CASE src.kind = "duckdb"
  <2>1. \A id \in DuckdbCoerce(text, src.idType) : Str(id, src.idType) = text
    BY <1>2 DEF DuckdbCoerce
  <2>2. \A id \in Ids : text = Str(id, src.idType) =>
          /\ DuckdbCoerce(text, src.idType) = {id}
          /\ ~(src.idType = "integer" /\ ~text.digits)
    BY <1>2 DEF DuckdbCoerce
  <2>3. GetFeature(rows, text, crs, src) = DuckdbGet(rows, text, crs, src)
    BY <1>6 DEF GetFeature
  <2>. QED BY <1>3, <1>4, <2>1, <2>2, <2>3 DEF DuckdbGet
<1>7. CASE src.kind = "pyogrio"
  <2> DEFINE ids == IF src.idType = "fid" THEN AsNumber(text) ELSE Cast(text, src.idType)
  <2>1. \A id \in ids : Str(id, src.idType) = text
    BY <1>2
  <2>2. \A id \in Ids : text = Str(id, src.idType) => ids = {id}
    BY <1>2
  <2>3. GetFeature(rows, text, crs, src)
          = IF crs = "bad" /\ WithId(rows, ids) # {} THEN Raised ELSE Got(WithId(rows, ids))
    BY <1>7 DEF GetFeature, PyogrioGet
  <2>. QED BY <1>3, <1>4, <2>1, <2>2, <2>3
<1>8. CASE src.kind = "postgis"
  <2>1. src.idType \in {"integer", "text"}
    BY <1>1, <1>8 DEF ColumnTypes
  <2>2. \A id \in PostgisCoerce(text, src.idType) : Str(id, src.idType) = text
    BY <1>2, <2>1 DEF PostgisCoerce
  <2>3. \A id \in Ids : text = Str(id, src.idType) => PostgisCoerce(text, src.idType) = {id}
    BY <1>2, <2>1 DEF PostgisCoerce
  <2>4. GetFeature(rows, text, crs, src) = PostgisGet(rows, text, crs, src)
    BY <1>8 DEF GetFeature
  <2>. QED BY <1>3, <1>4, <2>2, <2>3, <2>4 DEF PostgisGet
<1>. QED BY <1>1, <1>5, <1>6, <1>7, <1>8 DEF Kinds

\* The text a page gives for an item leads to it while it is in the source, through
\* the conversions of each provider, and to no other item; the providers that refuse
\* a system list nothing in it.
THEOREM ItemsResolve == WalkSpec => []ListedItemsResolve
<1>1. WalkingOK => ListedItemsResolve
  <2>1. SUFFICES ASSUME WalkingOK, walker.step = "answered",
                        provider.kind = "postgis" => provider.idType # "date"
                 PROVE  /\ \A i \in DOMAIN page :
                             GetFeature(features, Str(page[i].id, provider.idType),
                                        filter.crs, provider)
                               = Got(WithId(features, {page[i].id}))
                        /\ \A text \in Texts :
                             \A r \in GetFeature(features, text, filter.crs, provider).rows :
                               Str(r.id, provider.idType) = text
    BY DEF ListedItemsResolve
  <2>2. /\ page \in Seq(Rows) /\ features \in Seq(Rows) /\ provider \in Sources
        /\ filter.crs \in Crs
    BY <2>1, SettingsAssumption DEF WalkingOK, WalkTypeOK, Filters
  <2>3. ASSUME NEW i \in DOMAIN page
        PROVE  GetFeature(features, Str(page[i].id, provider.idType), filter.crs, provider)
                 = Got(WithId(features, {page[i].id}))
    <3>1. page # <<>> /\ page[i] \in Rows
      BY <2>2, <2>3, EmptySeq, ElementOfSeq
    <3>2. page[i].id \in Ids /\ filter.crs # "bad"
      BY <2>1, <3>1 DEF WalkingOK, PageIn, Rows
    <3>3. provider.idType \in IdTypes
      BY <2>2 DEF Sources
    <3>4. Str(page[i].id, provider.idType) \in Texts
      BY <3>2 DEF Str, Texts
    <3>. QED BY <2>1, <2>2, <3>2, <3>4, TextsLead
  <2>. QED BY <2>1, <2>2, <2>3, TextsLead
<1>. QED BY <1>1, Requests, PTL

\* Each item of a page of the JSON route lies in the box and in the period the client
\* asked for, whatever page of the walk it is on.
THEOREM PagesHonourQuery == WalkSpec => []PageHonoursQuery
<1>1. WalkingOK => PageHonoursQuery
  <2>1. SUFFICES ASSUME WalkingOK, walker.route = "api", walker.step \in {"counting", "answered"},
                        NEW r \in Range(page)
                 PROVE  LET q == walker.asked
                            area == Bbox2d([filter EXCEPT !.bbox = q.bbox])
                        IN /\ (provider.kind = "pyogrio" => q.bboxCrs = provider.native)
                              => InArea(r, area, q.bboxCrs)
                           /\ provider.kind \in {"collection-config", "pygeoapi"}
                                /\ provider.timed /\ q.datetime # AnyTime
                              => r.stamp \in ParseDatetimeRange(q.datetime)
    BY DEF PageHonoursQuery
  <2> DEFINE q == walker.asked
  <2>2. filter \in Filters /\ LinksCarryQuery
    BY <2>1 DEF WalkingOK, WalkTypeOK, LinksCarryQuery
  <2>3. r \in Selected(ApiFilter(q), provider)
    BY <2>1, <2>2 DEF WalkingOK, PageIn, Wanted
  <2>4. Bbox2d([filter EXCEPT !.bbox = q.bbox]) = Bbox2d(ApiFilter(q))
    BY <2>2 DEF Bbox2d, ApiFilter, Filters
  <2>5. ApiFilter(q).bboxCrs = q.bboxCrs /\ ApiFilter(q).datetime = q.datetime
    BY DEF ApiFilter
  <2>. QED
    BY <2>3, <2>4, <2>5 DEF Selected, BoxCrs, Dated, FeatureMatchesDatetime
<1>. QED BY <1>1, Requests, PTL

-----------------------------------------------------------------------------
(* What was received going forward, and the matches *)

\* More at the end of the matches changes nothing of what was received.
Extends(M, N) == DOMAIN M \subseteq DOMAIN N /\ \A i \in DOMAIN M : N[i] = M[i]

LEMMA MoreMatches ==
  ASSUME NEW M, NEW N, Extends(M, N), NEW start, NEW o, NEW w, NEW n, NEW p
  PROVE  /\ ContinuesAt(start, M, o) => ContinuesAt(start, N, o)
         /\ FollowsTo(w, start, M, o, n) => FollowsTo(w, start, N, o, n)
         /\ LiesAt(p, M, n) => LiesAt(p, N, n)
<1>1. ContinuesAt(start, M, o) => ContinuesAt(start, N, o)
  BY DEF Extends, ContinuesAt
<1>2. LiesAt(p, M, n) => LiesAt(p, N, n)
  BY DEF Extends, LiesAt
<1>3. ASSUME \A i \in DOMAIN w : \E m \in DOMAIN M : m <= n /\ w[i] = M[m].id
      PROVE  \A i \in DOMAIN w : \E m \in DOMAIN N : m <= n /\ w[i] = N[m].id
  BY <1>3 DEF Extends
<1>4. FollowsTo(w, start, M, o, n) => FollowsTo(w, start, N, o, n)
  BY <1>3 DEF FollowsTo
<1>. QED BY <1>1, <1>2, <1>4

\* The next page carries what was received on to its end.
LEMMA CarriesOn ==
  ASSUME NEW M \in Seq(Rows), \A i, j \in DOMAIN M : M[i].id = M[j].id => i = j,
         NEW start \in Seq(Ids), NEW o \in Nat, NEW n \in Nat, n >= o, NEW d \in Nat, d >= 1,
         NEW w \in Seq(Ids), FollowsTo(w, start, M, o, n), ContinuesAt(start, M, o),
         NEW p \in Seq(Rows), LiesAt(p, M, n), HoldsNext(p, start, o, n, d), Len(p) <= d
  PROVE  FollowsTo(w \o [i \in DOMAIN p |-> p[i].id], start, M, o, n + d)
<1> DEFINE got == [i \in DOMAIN p |-> p[i].id]
           all == w \o got
<1>1. /\ Len(w) \in Nat /\ DOMAIN w = 1..Len(w) /\ Len(p) \in Nat /\ DOMAIN p = 1..Len(p)
      /\ Len(start) \in Nat /\ DOMAIN start = 1..Len(start)
      /\ Len(M) \in Nat /\ DOMAIN M = 1..Len(M)
  BY LenProperties
<1>2. got \in Seq(Ids) /\ Len(got) = Len(p) /\ \A i \in 1..Len(p) : got[i] = p[i].id
  BY <1>1, Identifiers
<1> HIDE DEF got
<1>3. /\ all \in Seq(Ids) /\ Len(all) = Len(w) + Len(p)
      /\ \A i \in 1..Len(w) + Len(p) : all[i] = IF i <= Len(w) THEN w[i] ELSE got[i - Len(w)]
  <2>1. /\ w \o got \in Seq(Ids) /\ Len(w \o got) = Len(w) + Len(got)
        /\ \A i \in 1..Len(w) + Len(got) :
             (w \o got)[i] = IF i <= Len(w) THEN w[i] ELSE got[i - Len(w)]
    BY <1>2, ConcatProperties, ZenonT(60)
  <2>. QED BY <1>2, <2>1
<1>4. DOMAIN all = 1..Len(w) + Len(p)
  BY <1>1, <1>3, LenProperties
<1> HIDE DEF all
<1>5. \A i \in 1..Len(w) : i \in DOMAIN all /\ all[i] = w[i]
  BY <1>1, <1>3, <1>4
<1>6. \A k \in 1..Len(p) : Len(w) + k \in DOMAIN all /\ all[Len(w) + k] = M[n + k].id /\ n + k \in DOMAIN M
  <2>1. SUFFICES ASSUME NEW k \in 1..Len(p)
                 PROVE  /\ Len(w) + k \in DOMAIN all /\ all[Len(w) + k] = M[n + k].id
                        /\ n + k \in DOMAIN M
    OBVIOUS
  <2>2. Len(w) + k \in 1..Len(w) + Len(p) /\ ~(Len(w) + k <= Len(w)) /\ (Len(w) + k) - Len(w) = k
    BY <1>1
  <2>3. all[Len(w) + k] = got[k] /\ got[k] = p[k].id
    BY <1>2, <1>3, <2>2
  <2>4. n + k \in DOMAIN M /\ p[k] = M[n + k]
    BY <1>1 DEF LiesAt
  <2>. QED BY <1>4, <2>2, <2>3, <2>4
<1>7. \A i \in DOMAIN all : i \in 1..Len(w) \/ \E k \in 1..Len(p) : i = Len(w) + k
  <2>1. SUFFICES ASSUME NEW i \in 1..Len(w) + Len(p), i \notin 1..Len(w)
                 PROVE  \E k \in 1..Len(p) : i = Len(w) + k
    BY <1>4
  <2>2. i - Len(w) \in 1..Len(p) /\ i = Len(w) + (i - Len(w))
    BY <1>1, <2>1
  <2>. QED BY <2>2
<1>8. ASSUME NEW j \in DOMAIN start, o + j <= n + d
      PROVE  j \in DOMAIN all /\ all[j] = start[j]
  <2>1. CASE o + j <= n
    <3>1. j \in DOMAIN w /\ w[j] = start[j]
      BY <2>1 DEF FollowsTo
    <3>. QED BY <1>1, <1>5, <3>1
  <2>2. CASE o + j > n
    <3>1. n - o <= Len(start) /\ j \in Nat
      BY <1>1, <2>2
    <3>2. Len(w) = n - o
      BY <3>1 DEF FollowsTo
    <3>3. (o + j) - n \in 1..Len(p)
      BY <1>1, <1>8, <2>2, <3>1 DEF HoldsNext
    <3>4. Len(w) + ((o + j) - n) = j /\ n + ((o + j) - n) = o + j
      BY <3>1, <3>2
    <3>5. j \in DOMAIN all /\ all[j] = M[o + j].id
      BY <1>6, <3>3, <3>4
    <3>6. M[o + j].id = start[j]
      BY DEF ContinuesAt
    <3>. QED BY <3>5, <3>6
  <2>. QED BY <1>1, <2>1, <2>2
<1>9. ASSUME (n + d) - o <= Len(start) PROVE Len(all) = (n + d) - o
  <2>1. Len(w) = n - o
    BY <1>1, <1>9 DEF FollowsTo
  <2> DEFINE j == (n + d) - o
  <2>2. j \in DOMAIN start /\ o + j = n + d
    BY <1>1, <1>9
  <2> HIDE DEF j
  <2>3. n < o + j /\ o + j <= n + d /\ (o + j) - n = d
    BY <2>2
  <2>4. d \in DOMAIN p
    BY <2>2, <2>3 DEF HoldsNext
  <2>5. Len(p) = d
    <3>1. Len(p) \in Nat /\ d \in 1..Len(p)
      BY <1>1, <2>4
    <3>2. d <= Len(p)
      BY <3>1
    <3>. QED BY <3>1, <3>2
  <2>6. Len(all) = (n - o) + d
    BY <1>3, <2>1, <2>5
  <2>. QED BY <2>6
<1>10. ASSUME NEW i \in DOMAIN all
       PROVE  \E m \in DOMAIN M : m <= n + d /\ all[i] = M[m].id
  <2>1. CASE i \in 1..Len(w)
    <3>1. PICK m \in DOMAIN M : m <= n /\ w[i] = M[m].id
      BY <1>1, <2>1 DEF FollowsTo
    <3>2. m <= n + d
      BY <1>1, <3>1
    <3>. QED BY <1>5, <2>1, <3>1, <3>2
  <2>2. CASE \E k \in 1..Len(p) : i = Len(w) + k
    <3>1. PICK k \in 1..Len(p) : i = Len(w) + k
      BY <2>2
    <3>2. n + k <= n + d
      BY <1>1
    <3>. QED BY <1>6, <3>1, <3>2
  <2>. QED BY <1>7, <2>1, <2>2
<1>11. ASSUME NEW i \in DOMAIN all, NEW j \in DOMAIN all, all[i] = all[j]
       PROVE  i = j
  <2>1. \A a \in 1..Len(w), k \in 1..Len(p) : all[a] # all[Len(w) + k]
    <3>1. SUFFICES ASSUME NEW a \in 1..Len(w), NEW k \in 1..Len(p), all[a] = all[Len(w) + k]
                   PROVE  FALSE
      OBVIOUS
    <3>2. PICK m \in DOMAIN M : m <= n /\ w[a] = M[m].id
      BY <1>1 DEF FollowsTo
    <3>3. M[m].id = M[n + k].id /\ n + k \in DOMAIN M
      BY <1>5, <1>6, <3>1, <3>2
    <3>4. m = n + k
      BY <3>3
    <3>. QED BY <1>1, <3>2, <3>4
  <2>2. CASE i \in 1..Len(w) /\ j \in 1..Len(w)
    BY <1>1, <1>5, <1>11, <2>2 DEF FollowsTo
  <2>3. CASE i \notin 1..Len(w) /\ j \notin 1..Len(w)
    <3>1. PICK k \in 1..Len(p) : i = Len(w) + k
      BY <1>7, <2>3
    <3>2. PICK l \in 1..Len(p) : j = Len(w) + l
      BY <1>7, <2>3
    <3>3. M[n + k].id = M[n + l].id /\ n + k \in DOMAIN M /\ n + l \in DOMAIN M
      BY <1>6, <1>11, <3>1, <3>2
    <3>4. n + k = n + l
      BY <3>3
    <3>5. k = l
      BY <1>1, <3>4
    <3>. QED BY <3>1, <3>2, <3>5
  <2>. QED BY <1>7, <1>11, <2>1, <2>2, <2>3
<1>12. FollowsTo(all, start, M, o, n + d)
  BY <1>8, <1>9, <1>10, <1>11 DEF FollowsTo
<1>. QED BY <1>12 DEF all, got

\* What was received is a prefix of the matches at the start, or has them as one.
LEMMA FollowsInOrder ==
  ASSUME NEW M, NEW start \in Seq(Ids), NEW o \in Nat, NEW n \in Nat, n >= o,
         NEW w \in Seq(Ids), FollowsTo(w, start, M, o, n)
  PROVE  IsPrefix(w, start) \/ IsPrefix(start, w)
<1>1. /\ Len(w) \in Nat /\ DOMAIN w = 1..Len(w)
      /\ Len(start) \in Nat /\ DOMAIN start = 1..Len(start)
  BY LenProperties
<1>2. \A s \in Seq(Ids) : \A k \in 0..Len(s) :
        /\ SubSeq(s, 1, k) \in Seq(Ids) /\ Len(SubSeq(s, 1, k)) = k
        /\ \A i \in 1..k : SubSeq(s, 1, k)[i] = s[i]
  <2>1. SUFFICES ASSUME NEW s \in Seq(Ids), NEW k \in 0..Len(s)
                 PROVE  /\ SubSeq(s, 1, k) \in Seq(Ids) /\ Len(SubSeq(s, 1, k)) = k
                        /\ \A i \in 1..k : SubSeq(s, 1, k)[i] = s[i]
    OBVIOUS
  <2>2. Len(s) \in Nat /\ k \in Nat /\ k <= Len(s) /\ \A i \in 1..k : s[i] \in Ids
    BY LenProperties, ElementOfSeq
  <2>3. /\ SubSeq(s, 1, k) \in Seq(Ids)
        /\ Len(SubSeq(s, 1, k)) = IF 1 <= k THEN k - 1 + 1 ELSE 0
        /\ \A i \in 1..k - 1 + 1 : SubSeq(s, 1, k)[i] = s[1 + i - 1]
    BY <2>2, SubSeqProperties
  <2>4. \A i \in 1..k : 1 + i - 1 = i
    BY <2>2
  <2>5. k - 1 + 1 = k
    BY <2>2
  <2>. QED BY <2>2, <2>3, <2>4, <2>5
<1>3. ASSUME NEW s \in Seq(Ids), NEW t \in Seq(Ids), Len(s) <= Len(t),
             \A i \in 1..Len(s) : s[i] = t[i]
      PROVE  IsPrefix(s, t)
  <2>1. Len(s) \in 0..Len(s) /\ Len(s) \in 0..Len(t)
    BY <1>3, LenProperties
  <2>2. SubSeq(s, 1, Len(s)) = SubSeq(t, 1, Len(s))
    BY <1>2, <1>3, <2>1, SeqEqual
  <2>. QED BY <1>3, <2>2 DEF IsPrefix
<1>4. CASE n - o <= Len(start)
  <2>1. Len(w) = n - o
    BY <1>4 DEF FollowsTo
  <2>2. \A i \in 1..Len(w) : w[i] = start[i]
    <3>1. \A i \in 1..Len(w) : i \in DOMAIN start /\ o + i <= n
      BY <1>1, <1>4, <2>1
    <3>. QED BY <3>1 DEF FollowsTo
  <2>3. Len(w) <= Len(start)
    BY <1>4, <2>1
  <2>. QED BY <1>3, <2>2, <2>3
<1>5. CASE ~(n - o <= Len(start))
  <2>1. \A i \in 1..Len(start) : i \in DOMAIN w /\ w[i] = start[i]
    <3>1. \A i \in 1..Len(start) : i \in DOMAIN start /\ o + i <= n
      BY <1>1, <1>5
    <3>. QED BY <3>1 DEF FollowsTo
  <2>2. Len(start) <= Len(w)
    <3>1. Len(start) = 0 \/ Len(start) \in 1..Len(start)
      BY <1>1
    <3>. QED BY <1>1, <2>1, <3>1
  <2>. QED BY <1>3, <2>1, <2>2
<1>. QED BY <1>4, <1>5

\* As many different entries as entries.
LEMMA EachOnce ==
  ASSUME NEW R, NEW w \in Seq(R), \A i, j \in DOMAIN w : w[i] = w[j] => i = j
  PROVE  Cardinality(Range(w)) = Len(w)
<1>1. Len(w) \in Nat /\ DOMAIN w = 1..Len(w)
  BY LenProperties
<1>2. w \in [1..Len(w) -> Range(w)]
  BY <1>1 DEF Range
<1>3. w \in Bijection(1..Len(w), Range(w))
  BY <1>1, <1>2 DEF Range, Bijection, Injection, Surjection, IsInjective
<1>4. IsFiniteSet(1..Len(w)) /\ Cardinality(1..Len(w)) = Len(w)
  BY <1>1, FS_Interval, SMTT(30)
<1>. QED BY <1>3, <1>4, FS_Bijection DEF ExistsBijection

-----------------------------------------------------------------------------
(* The walk forward *)

\* What the walk has to do with at a step: well-typed matches that begin with
\* those the query was given.
LEMMA WalkTypes ==
  ASSUME WalkingOK
  PROVE  /\ features \in Seq(Rows) /\ provider \in Sources /\ walker.asked \in Queries
         /\ walker.asked.limit \in Nat /\ walker.asked.offset \in Nat
         /\ Wanted.limit = walker.asked.limit /\ Wanted.offset = walker.asked.offset
         /\ Matches \in Seq(Rows) /\ filter \in Filters /\ filter.offset \in Nat
         /\ walked \in Seq(Ids) /\ atStart \in Seq(Ids) /\ page \in Seq(Rows)
         /\ Stride \in Nat /\ Stride <= walker.asked.limit
         /\ Started => Stride >= 1 /\ Wanted \in Filters
         /\ pagination.limit \in Nat /\ pagination.offset \in Nat /\ pagination.matched \in Nat
         /\ walker.step \in WalkSteps /\ walker.heading \in {"forward", "back"}
<1>1. /\ features \in Seq(Rows) /\ provider \in Sources /\ walker.asked \in Queries
      /\ filter \in Filters /\ walked \in Seq(Ids) /\ atStart \in Seq(Ids) /\ page \in Seq(Rows)
      /\ walker.route \in {"api", "html"}
      /\ pagination.limit \in Nat /\ pagination.offset \in Nat /\ pagination.matched \in Nat
      /\ walker.step \in WalkSteps /\ walker.heading \in {"forward", "back"}
  BY SettingsAssumption DEF WalkingOK, WalkTypeOK, Routes
<1>2. walker.asked.limit \in Nat /\ walker.asked.offset \in Nat
  BY <1>1, QueryType
<1>3. Wanted.limit = walker.asked.limit /\ Wanted.offset = walker.asked.offset
  BY DEF Wanted, ApiFilter, HtmlFilter
<1>4. Matches \in Seq(Rows)
  BY <1>1, SelectType DEF Matches
<1>5. filter.offset \in Nat
  BY <1>1 DEF Filters
<1>6. /\ Stride \in Nat /\ Stride <= walker.asked.limit
      /\ walker.asked.limit >= 1 => Stride >= 1
  BY <1>1, <1>2, StrideType DEF Stride
<1>7. Started => walker.asked.limit >= 1 /\ Wanted \in Filters
  BY <1>1, QueryType DEF WalkingOK, Wanted
<1>. QED BY <1>1, <1>2, <1>3, <1>4, <1>5, <1>6, <1>7

\* A page is at least as long as its links assume, or ends with the matches; with
\* a limit that is allowed it is no longer.
LEMMA CapOfPage ==
  ASSUME WalkingOK, Started, FullPages
  PROVE  /\ Cap(filter, provider) \in Nat /\ Cap(filter, provider) >= Stride
         /\ walker.asked.limit <= Stride => Cap(filter, provider) = Stride
<1>1. /\ filter.limit \in {walker.asked.limit, Stride} /\ walker.asked.limit \in Nat
      /\ Stride \in Nat /\ Stride <= walker.asked.limit /\ provider \in Sources
  BY WalkTypes DEF WalkingOK
<1>2. CASE provider.kind = "pygeoapi"
  <2>1. MaxItems(provider) \in Nat
    BY <1>1, ThrottleAssumption DEF MaxItems, Sources
  <2>2. Stride <= MaxItems(provider)
    BY <1>2 DEF FullPages, Stride
  <2>3. Cap(filter, provider)
          = IF filter.limit <= MaxItems(provider) THEN filter.limit ELSE MaxItems(provider)
    BY <1>1, <1>2, <2>1, MinOfTwo DEF Cap
  <2>. QED BY <1>1, <2>1, <2>2, <2>3
<1>3. CASE provider.kind # "pygeoapi"
  BY <1>1, <1>3 DEF Cap
<1>. QED BY <1>2, <1>3

\* The page that is listed is the one of the matches at the offset of the filter.
LEMMA PageOfMatches ==
  ASSUME WalkingOK, Started, LinksCarryQuery, FullPages
  PROVE  LET p == ListFeatures(features, filter, provider) IN
         /\ p \in Seq(Rows) /\ LiesAt(p, Matches, filter.offset)
         /\ walker.asked.limit <= Stride => Len(p) <= Stride
         /\ \A m \in DOMAIN Matches : filter.offset < m /\ m <= filter.offset + Stride
              => m - filter.offset \in DOMAIN p
<1> DEFINE c == Cap(filter, provider)
           p == ListFeatures(features, filter, provider)
<1>1. /\ features \in Seq(Rows) /\ provider \in Sources /\ filter \in Filters
      /\ filter.offset \in Nat /\ Stride \in Nat /\ Matches \in Seq(Rows)
  BY WalkTypes
<1>2. c \in Nat /\ c >= Stride /\ (walker.asked.limit <= Stride => c = Stride)
  BY CapOfPage
<1>3. Selected(filter, provider) = Selected(Wanted, provider)
  <2>1. AsksTheSame
    BY DEF WalkingOK
  <2>. QED BY <2>1, SelectedAlike DEF AsksTheSame
<1>4. p = Slice(Matches, filter.offset, c)
  BY <1>1, <1>3, Listing DEF Matches
<1> HIDE DEF c, p
<1>5. /\ p \in Seq(Rows) /\ Len(p) <= c
      /\ \A i \in 1..Len(Matches) - filter.offset : i <= c => i \in 1..Len(p)
      /\ \A i \in 1..Len(p) : /\ filter.offset + i \in 1..Len(Matches)
                              /\ p[i] = Matches[filter.offset + i]
  BY <1>1, <1>2, <1>4, SliceType, SMTT(30)
<1>6. DOMAIN p = 1..Len(p) /\ DOMAIN Matches = 1..Len(Matches) /\ Len(Matches) \in Nat
  BY <1>1, <1>5, LenProperties
<1>7. LiesAt(p, Matches, filter.offset)
  BY <1>5, <1>6 DEF LiesAt
<1>8. \A m \in DOMAIN Matches : filter.offset < m /\ m <= filter.offset + Stride
        => m - filter.offset \in DOMAIN p
  <2>1. SUFFICES ASSUME NEW m \in DOMAIN Matches, filter.offset < m, m <= filter.offset + Stride
                 PROVE  m - filter.offset \in DOMAIN p
    OBVIOUS
  <2>2. m - filter.offset \in 1..Len(Matches) - filter.offset /\ m - filter.offset <= c
    BY <1>1, <1>2, <1>6, <2>1
  <2>. QED BY <1>5, <1>6, <2>2
<1>9. walker.asked.limit <= Stride => Len(p) <= Stride
  BY <1>2, <1>5
<1>. QED BY <1>5, <1>7, <1>8, <1>9 DEF p

\* The provider counts the matches.
LEMMA MatchesCounted ==
  ASSUME WalkingOK, Started, LinksCarryQuery, CountsItsMatches
  PROVE  CountItems(features, filter, provider).matched = Len(Matches)
<1>1. features \in Seq(Rows) /\ provider \in Sources /\ filter \in Filters
  BY WalkTypes
<1>2. AsksTheSame
  BY DEF WalkingOK
<1>3. Selected(filter, provider) = Selected(Wanted, provider)
  BY <1>2, SelectedAlike DEF AsksTheSame
<1>4. provider.kind = "pygeoapi" /\ filter.bbox # "none" => filter.bboxCrs = "CRS84"
  <2>1. SUFFICES ASSUME provider.kind = "pygeoapi", Wanted.bbox # "none"
                 PROVE  Wanted.bboxCrs = "CRS84"
    BY <1>2 DEF AsksTheSame
  <2>2. walker.asked.bbox # "none" /\ Wanted.bboxCrs = walker.asked.bboxCrs
    BY <2>1 DEF Wanted, ApiFilter, HtmlFilter
  <2>. QED BY <2>1, <2>2 DEF CountsItsMatches
<1>. QED BY <1>1, <1>3, <1>4, Counted DEF Matches

LEMMA ForwardInit == WalkInit => ForwardOK
<1>. SUFFICES ASSUME WalkInit PROVE ForwardOK
  OBVIOUS
<1>1. /\ walked = <<>> /\ atStart = <<>> /\ walker.step = "idle" /\ walker.heading = "forward"
      /\ features \in Scans
  BY DEF WalkInit
<1>2. <<>> \in Seq(Ids) /\ DOMAIN <<>> = {} /\ Len(<<>>) = 0
  BY EmptySeq
<1>3. FollowsTo(<<>>, <<>>, <<>>, 0, 0)
  BY <1>2 DEF FollowsTo
<1>4. IsPrefix(walked, atStart)
  <2>1. IsPrefix(<<>>, <<>>) \/ IsPrefix(<<>>, <<>>)
    <3>1. 0 \in Nat /\ 0 >= 0
      OBVIOUS
    <3>. QED BY <1>2, <1>3, <3>1, FollowsInOrder
  <2>. QED BY <1>1, <2>1
<1>5. Injective(walked)
  BY <1>1, <1>2 DEF Injective
<1>6. SameIds
  BY <1>1, ScansAssumption DEF SameIds
<1>. QED BY <1>1, <1>4, <1>5, <1>6 DEF ForwardOK, Started

\* What was received is in order when the walk forward is.
LEMMA ForwardInOrder ==
  ASSUME WalkingOK, Started, Forward, calm, Even
  PROVE  (IsPrefix(walked, atStart) \/ IsPrefix(atStart, walked)) /\ Injective(walked)
<1>1. FollowsTo(walked, atStart, Matches, walker.asked.offset, Reached)
  BY DEF Forward, Sequential
<1>2. /\ walked \in Seq(Ids) /\ atStart \in Seq(Ids) /\ walker.asked.offset \in Nat
      /\ filter.offset \in Nat /\ Stride \in Nat
  BY WalkTypes
<1>3. Reached \in Nat /\ Reached >= walker.asked.offset
  BY <1>2 DEF Reached, Forward
<1>4. Injective(walked)
  BY <1>1 DEF FollowsTo, Injective
<1>. QED BY <1>1, <1>2, <1>3, <1>4, FollowsInOrder

\* A step of the walk back, or one that ends it.
LEMMA ForwardKept ==
  ASSUME WalkingOK, ForwardOK, [WalkNext]_walkVars,
         UNCHANGED <<features, walked, atStart, calm>>, walker'.step # "idle",
         Started' => Started, ~(Started' /\ walker'.heading = "forward")
  PROVE  ForwardOK'
<1>1. /\ walker'.asked = walker.asked /\ provider' = provider /\ Wanted' = Wanted /\ Stride' = Stride
      /\ (LinksCarryQuery <=> LinksCarryQuery') /\ (FullPages <=> FullPages')
  BY QueryKept DEF WalkingOK
<1>2. Matches' = Matches /\ (SameIds <=> SameIds') /\ (Even <=> Even')
  BY <1>1 DEF Matches, SameIds, Even
<1>. QED BY <1>1, <1>2 DEF ForwardOK, Injective

\* The walk begins before everything it will receive.
LEMMA ForwardBegins ==
  ASSUME WalkingOK, ForwardOK, BeginWalk
  PROVE  ForwardOK'
<1> DEFINE o == walker.asked.offset
           m == Matching(features, Wanted, provider)
<1>1. WalkTypeOK /\ [WalkNext]_walkVars /\ walker.step = "idle" /\ WalkingOK'
  BY RequestBegins DEF WalkingOK, BeginWalk, WalkNext, WalkRequest
<1>2. /\ walker'.asked = walker.asked /\ Wanted' = Wanted /\ Stride' = Stride
      /\ (LinksCarryQuery <=> LinksCarryQuery') /\ (FullPages <=> FullPages')
  BY <1>1, QueryKept
<1>3. /\ walker'.step \in {"rejected", "failed", "listing"} /\ walker'.heading = walker.heading
      /\ UNCHANGED <<provider, features, edits, page, pagination, walked, retraced, calm>>
  BY <1>1 DEF BeginWalk, WalkTypeOK
<1>4. CASE walker'.step # "listing"
  <2>1. UNCHANGED atStart
    BY <1>1, <1>4 DEF BeginWalk, WalkTypeOK
  <2>. QED BY <1>1, <1>3, <1>4, <2>1, ForwardKept DEF Started
<1>5. CASE walker'.step = "listing"
  <2>1. /\ filter' = Wanted
        /\ atStart' = LET n == IF Wanted.bboxCrs = "bad" THEN <<>> ELSE m
                      IN [i \in 1 .. Max({0, Len(n) - Wanted.offset}) |->
                            n[Wanted.offset + i].id]
    BY <1>1, <1>5 DEF BeginWalk, Wanted, WalkTypeOK
  <2>2. /\ Wanted \in Filters /\ Wanted.offset = o /\ o \in Nat /\ Matches \in Seq(Rows)
        /\ features \in Seq(Rows) /\ provider \in Sources
    <3>1. Wanted \in Filters
      BY <1>1, <2>1 DEF WalkingOK, WalkTypeOK
    <3>. QED BY <3>1, WalkTypes
  <2>3. Matches' = Matches
    BY <1>2, <1>3 DEF Matches
  <2>4. m = Matches
    BY <2>2, MatchingSelects DEF Matches
  <2>5. ContinuesAt(atStart', Matches, o)
    <3> DEFINE n == IF Wanted.bboxCrs = "bad" THEN <<>> ELSE m
               left == Max({0, Len(n) - o})
    <3>1. n = <<>> \/ n = Matches
      BY <2>4
    <3>2. atStart' = [i \in 1..left |-> n[o + i].id]
      BY <2>1, <2>2
    <3>3. Len(n) \in Nat /\ DOMAIN Matches = 1..Len(Matches) /\ Len(<<>>) = 0
      BY <2>2, <3>1, EmptySeq, LenProperties
    <3>4. left = IF 0 <= Len(n) - o THEN Len(n) - o ELSE 0
      <4> HIDE DEF n
      <4>. QED BY <2>2, <3>3, MaxOfTwo
    <3> HIDE DEF n, left
    <3>5. SUFFICES ASSUME NEW j \in 1..left
                   PROVE  o + j \in DOMAIN Matches /\ Matches[o + j].id = n[o + j].id
      BY <3>2 DEF ContinuesAt
    <3>6. o + j \in 1..Len(n)
      BY <2>2, <3>3, <3>4
    <3>7. n = Matches
      BY <3>1, <3>3, <3>6
    <3>. QED BY <3>3, <3>6, <3>7
  <2>6. walked' = <<>> /\ DOMAIN walked' = {} /\ Len(walked') = 0 /\ walker'.heading = "forward"
    BY <1>1, <1>3, EmptySeq DEF ForwardOK
  <2>7. atStart' \in Seq(Ids)
    BY <1>1 DEF WalkingOK, WalkTypeOK
  <2>8. \A j \in DOMAIN atStart' : ~(o + j <= o)
    <3>1. DOMAIN atStart' = 1..Len(atStart') /\ Len(atStart') \in Nat
      BY <2>7, LenProperties
    <3>. QED BY <2>2, <3>1
  <2>9. FollowsTo(walked', atStart', Matches, o, o)
    BY <2>2, <2>6, <2>8 DEF FollowsTo
  <2>10. Reached' = o
    BY <1>5, <2>1, <2>2 DEF Reached
  <2>11. Complete'
    BY <1>2, <1>5, <2>8, <2>10 DEF Complete
  <2>12. Sequential'
    BY <1>2, <1>5, <2>3, <2>9, <2>10 DEF Sequential
  <2>13. Forward'
    BY <1>2, <2>1, <2>2, <2>11, <2>12 DEF Forward
  <2>14. Started'
    BY <1>5 DEF Started
  <2>15. (calm /\ Even => (IsPrefix(walked, atStart) \/ IsPrefix(atStart, walked))
                          /\ Injective(walked))'
    <3>1. (WalkingOK /\ Started /\ Forward /\ calm /\ Even =>
            (IsPrefix(walked, atStart) \/ IsPrefix(atStart, walked)) /\ Injective(walked))'
      BY ForwardInOrder, PTL
    <3>. QED BY <1>1, <2>13, <2>14, <3>1
  <2>16. (calm => SameIds)'
    BY <1>3 DEF ForwardOK, SameIds
  <2>. QED BY <1>2, <1>5, <2>3, <2>5, <2>13, <2>15, <2>16, SMTT(30) DEF ForwardOK
<1>. QED BY <1>4, <1>5, SMTT(30)

\* No identifier is twice among the matches.
LEMMA MatchesOnce ==
  ASSUME features \in Seq(Rows), SameIds
  PROVE  \A i, j \in DOMAIN Matches : Matches[i].id = Matches[j].id => i = j
<1>1. /\ Matches \in Seq(Rows) /\ DOMAIN features = 1..Len(features)
  BY SelectType, LenProperties DEF Matches
<1>2. DOMAIN Matches = 1..Len(Matches) /\ Len(Matches) \in Nat /\ Len(features) \in Nat
  BY <1>1, LenProperties
<1>3. PICK p \in [1..Len(Matches) -> 1..Len(features)] :
        /\ \A i \in 1..Len(Matches) : Matches[i] = features[p[i]]
        /\ \A i, j \in 1..Len(Matches) : i < j => p[i] < p[j]
  BY SelectPlaces DEF Matches
<1>4. SUFFICES ASSUME NEW i \in 1..Len(Matches), NEW j \in 1..Len(Matches),
                      Matches[i].id = Matches[j].id
               PROVE  i = j
  BY <1>2
<1>5. p[i] = p[j]
  BY <1>1, <1>3, <1>4 DEF SameIds
<1>6. p[i] \in Int
  BY <1>2, <1>3
<1>. QED BY <1>2, <1>3, <1>5, <1>6

\* A step of the walk forward that keeps its promise.
LEMMA ForwardGoes ==
  ASSUME WalkingOK, WalkingOK', ForwardOK, [WalkNext]_walkVars,
         UNCHANGED <<features, atStart, calm>>,
         Started, Started', walker'.step # "idle", Forward'
  PROVE  ForwardOK'
<1>1. /\ walker'.asked = walker.asked /\ Wanted' = Wanted /\ provider' = provider
  BY QueryKept DEF WalkingOK
<1>2. Matches' = Matches /\ (SameIds <=> SameIds')
  BY <1>1 DEF Matches, SameIds
<1>3. (calm /\ Even => (IsPrefix(walked, atStart) \/ IsPrefix(atStart, walked))
                       /\ Injective(walked))'
  <2>1. (WalkingOK /\ Started /\ Forward /\ calm /\ Even =>
          (IsPrefix(walked, atStart) \/ IsPrefix(atStart, walked)) /\ Injective(walked))'
    BY ForwardInOrder, PTL
  <2>. QED BY <2>1
<1>4. (calm => SameIds)'
  BY <1>2 DEF ForwardOK
<1>5. (calm /\ Started => ContinuesAt(atStart, Matches, walker.asked.offset))'
  BY <1>1, <1>2 DEF ForwardOK
<1>. QED BY <1>3, <1>4, <1>5 DEF ForwardOK

\* The page that is listed is the stretch of the matches that comes next.
LEMMA ForwardLists ==
  ASSUME WalkingOK, WalkingOK', ForwardOK, ListPage
  PROVE  ForwardOK'
<1> DEFINE o == walker.asked.offset
           p == ListFeatures(features, filter, provider)
<1>1. [WalkNext]_walkVars /\ walker.step = "listing" /\ Started /\ WalkTypeOK
  BY DEF WalkingOK, ListPage, WalkNext, WalkRequest, Started
<1>2. /\ walker'.step \in {"rejected", "failed", "counting"}
      /\ walker'.heading = walker.heading
      /\ UNCHANGED <<provider, features, edits, filter, pagination, walked, retraced,
                     atStart, calm>>
      /\ walker'.step = "counting" => page' = p
  BY <1>1 DEF ListPage, WalkTypeOK
<1>3. CASE ~(walker'.step = "counting" /\ walker.heading = "forward")
  <2>1. ~(Started' /\ walker'.heading = "forward")
    BY <1>2, <1>3 DEF Started
  <2>. QED BY <1>1, <1>2, <2>1, ForwardKept
<1>4. CASE walker'.step = "counting" /\ walker.heading = "forward"
  <2>1. /\ walker'.asked = walker.asked /\ Wanted' = Wanted /\ Stride' = Stride
        /\ (LinksCarryQuery <=> LinksCarryQuery') /\ (FullPages <=> FullPages')
    BY <1>1, QueryKept
  <2>2. Matches' = Matches /\ (Even <=> Even') /\ Reached' = Reached /\ Started'
    BY <1>1, <1>2, <1>4, <2>1 DEF Matches, Even, Reached, Started
  <2>3. Forward
    BY <1>1, <1>4 DEF ForwardOK
  <2>4. o \in Nat /\ filter.offset \in Nat /\ Stride \in Nat /\ atStart \in Seq(Ids)
    BY WalkTypes
  <2>5. ASSUME calm, LinksCarryQuery, FullPages
        PROVE  Complete' /\ (walker.asked.limit <= Stride => Len(page') <= Stride)
    <3>1. /\ LiesAt(p, Matches, filter.offset)
          /\ walker.asked.limit <= Stride => Len(p) <= Stride
          /\ \A m \in DOMAIN Matches : filter.offset < m /\ m <= filter.offset + Stride
               => m - filter.offset \in DOMAIN p
      BY <1>1, <2>5, PageOfMatches
    <3>2. ContinuesAt(atStart, Matches, o)
      BY <1>1, <2>5 DEF ForwardOK
    <3>3. HoldsNext(p, atStart, o, filter.offset, Stride)
      BY <3>1, <3>2 DEF HoldsNext, ContinuesAt
    <3>4. \A j \in DOMAIN atStart : o + j <= Reached => atStart[j] \in Range(walked)
      BY <2>3, <2>5 DEF Forward, Complete
    <3>5. page' = p
      BY <1>2, <1>4
    <3> HIDE DEF p
    <3>6. Complete'
      BY <1>2, <1>4, <2>1, <2>2, <3>1, <3>3, <3>4, <3>5 DEF Complete
    <3>. QED BY <3>1, <3>5, <3>6
  <2>6. ASSUME calm, Even PROVE Sequential'
    <3>1. Sequential
      BY <2>3, <2>6 DEF Forward
    <3>2. Len(page') <= Stride
      BY <2>5, <2>6 DEF Even
    <3>. QED BY <1>2, <2>1, <2>2, <3>1, <3>2 DEF Sequential
  <2>7. Forward'
    BY <1>2, <2>1, <2>2, <2>3, <2>5, <2>6 DEF Forward
  <2>. QED BY <1>1, <1>2, <1>4, <2>2, <2>7, ForwardGoes
<1>. QED BY <1>3, <1>4

\* What is received is that stretch, and the count shows what there is after it.
LEMMA ForwardAnswers ==
  ASSUME WalkingOK, WalkingOK', ForwardOK, CountAndAnswer
  PROVE  ForwardOK'
<1> DEFINE o == walker.asked.offset
           got == [i \in DOMAIN page |-> page[i].id]
<1>1. [WalkNext]_walkVars /\ walker.step = "counting" /\ Started /\ WalkTypeOK
  BY DEF WalkingOK, CountAndAnswer, WalkNext, WalkRequest, Started
<1>2. /\ walker'.step = "answered" /\ walker'.heading = walker.heading
      /\ UNCHANGED <<provider, features, edits, filter, page, atStart, calm>>
      /\ pagination'.matched = CountItems(features, filter, provider).matched
      /\ walker.heading = "forward" => walked' = walked \o got
      /\ walker.heading # "forward" => UNCHANGED walked
  BY <1>1 DEF CountAndAnswer, WalkTypeOK
<1>3. CASE walker.heading # "forward"
  <2>1. ~(Started' /\ walker'.heading = "forward")
    BY <1>2, <1>3
  <2>. QED BY <1>1, <1>2, <1>3, <2>1, ForwardKept
<1>4. CASE walker.heading = "forward"
  <2>1. /\ walker'.asked = walker.asked /\ Wanted' = Wanted /\ Stride' = Stride
        /\ (LinksCarryQuery <=> LinksCarryQuery') /\ (FullPages <=> FullPages')
        /\ (CountsItsMatches <=> CountsItsMatches')
    BY <1>1, QueryKept
  <2>2. /\ Matches' = Matches /\ (Even <=> Even') /\ Started'
        /\ Reached = filter.offset /\ Reached' = filter.offset + Stride
    BY <1>1, <1>2, <2>1 DEF Matches, Even, Reached, Started
  <2>3. Forward
    BY <1>1, <1>4 DEF ForwardOK
  <2>4. /\ o \in Nat /\ filter.offset \in Nat /\ Stride \in Nat /\ Stride >= 1
        /\ atStart \in Seq(Ids) /\ walked \in Seq(Ids) /\ page \in Seq(Rows)
        /\ Matches \in Seq(Rows)
    BY <1>1, WalkTypes
  <2>5. got \in Seq(Ids) /\ Len(got) = Len(page) /\ \A i \in DOMAIN page : got[i] = page[i].id
    BY <2>4, Identifiers
  <2>6. walked' = walked \o got
    BY <1>2, <1>4
  <2> HIDE DEF got
  <2>7. Range(walked') = Range(walked) \cup Range(got)
    <3>1. /\ walked' \in Seq(Ids) /\ Len(walked') = Len(walked) + Len(got)
          /\ \A i \in 1..Len(walked) + Len(got) :
               walked'[i] = IF i <= Len(walked) THEN walked[i] ELSE got[i - Len(walked)]
      BY <2>4, <2>5, <2>6, ConcatProperties
    <3>2. /\ Len(walked) \in Nat /\ DOMAIN walked = 1..Len(walked)
          /\ Len(got) \in Nat /\ DOMAIN got = 1..Len(got)
          /\ DOMAIN walked' = 1..Len(walked) + Len(got)
      BY <2>4, <2>5, <3>1, LenProperties
    <3>3. Range(walked) \subseteq Range(walked')
      BY <3>1, <3>2 DEF Range
    <3>4. Range(got) \subseteq Range(walked')
      <4>1. SUFFICES ASSUME NEW i \in 1..Len(got) PROVE got[i] \in Range(walked')
        BY <3>2 DEF Range
      <4>2. /\ Len(walked) + i \in 1..Len(walked) + Len(got)
            /\ ~(Len(walked) + i <= Len(walked)) /\ (Len(walked) + i) - Len(walked) = i
        BY <3>2
      <4>3. walked'[Len(walked) + i] = got[i]
        BY <3>1, <4>2
      <4>. QED BY <3>2, <4>2, <4>3 DEF Range
    <3>5. Range(walked') \subseteq Range(walked) \cup Range(got)
      <4>1. SUFFICES ASSUME NEW i \in 1..Len(walked) + Len(got)
                     PROVE  walked'[i] \in Range(walked) \cup Range(got)
        BY <3>2 DEF Range
      <4>2. CASE i <= Len(walked)
        BY <3>1, <3>2, <4>2 DEF Range
      <4>3. CASE ~(i <= Len(walked))
        <5>1. i - Len(walked) \in 1..Len(got)
          BY <3>2, <4>3
        <5>. QED BY <3>1, <3>2, <4>3, <5>1 DEF Range
      <4>. QED BY <4>2, <4>3
    <3>. QED BY <3>3, <3>4, <3>5
  <2>8. ASSUME calm, LinksCarryQuery, FullPages PROVE Complete'
    <3>1. ContinuesAt(atStart, Matches, o)
      BY <1>1, <2>8 DEF ForwardOK
    <3>2. /\ \A j \in DOMAIN atStart : o + j <= filter.offset => atStart[j] \in Range(walked)
          /\ LiesAt(page, Matches, filter.offset)
          /\ HoldsNext(page, atStart, o, filter.offset, Stride)
      BY <1>1, <2>2, <2>3, <2>8 DEF Forward, Complete
    <3>3. ASSUME NEW j \in DOMAIN atStart, o + j <= filter.offset + Stride
          PROVE  atStart[j] \in Range(walked')
      <4>1. CASE o + j <= filter.offset
        BY <2>7, <3>2, <4>1
      <4>2. CASE ~(o + j <= filter.offset)
        <5>1. j \in Nat
          BY <2>4, LenProperties
        <5>2. (o + j) - filter.offset \in DOMAIN page
          BY <2>4, <3>2, <3>3, <4>2, <5>1, SMTT(30) DEF HoldsNext
        <5>3. filter.offset + ((o + j) - filter.offset) = o + j
          BY <2>4, <5>1
        <5>4. page[(o + j) - filter.offset] = Matches[o + j]
          BY <3>2, <5>2, <5>3 DEF LiesAt
        <5>5. Matches[o + j].id = atStart[j]
          BY <3>1 DEF ContinuesAt
        <5>6. got[(o + j) - filter.offset] = atStart[j]
          BY <2>5, <5>2, <5>4, <5>5
        <5>7. DOMAIN got = DOMAIN page
          BY <2>4, <2>5, LenProperties
        <5>8. atStart[j] \in Range(got)
          BY <5>2, <5>6, <5>7 DEF Range
        <5>. QED BY <2>7, <5>8
      <4>. QED BY <4>1, <4>2
    <3>4. ASSUME CountsItsMatches, NEW j \in DOMAIN atStart
          PROVE  o + j <= pagination'.matched
      <4>1. pagination'.matched = Len(Matches)
        BY <1>1, <1>2, <2>8, <3>4, MatchesCounted
      <4>2. o + j \in 1..Len(Matches) /\ Len(Matches) \in Nat
        BY <2>4, <3>1, LenProperties DEF ContinuesAt
      <4>. QED BY <4>1, <4>2
    <3>5. \A j \in DOMAIN atStart' :
            walker'.asked.offset + j <= Reached' => atStart'[j] \in Range(walked')
      BY <1>2, <2>1, <2>2, <3>3
    <3>6. CountsItsMatches' =>
            \A j \in DOMAIN atStart' : walker'.asked.offset + j <= pagination'.matched
      BY <1>2, <2>1, <3>4
    <3>. QED BY <1>2, <3>5, <3>6 DEF Complete
  <2>9. ASSUME calm, Even PROVE Sequential'
    <3>1. /\ ContinuesAt(atStart, Matches, o) /\ SameIds
          /\ FollowsTo(walked, atStart, Matches, o, filter.offset) /\ Len(page) <= Stride
          /\ LiesAt(page, Matches, filter.offset)
          /\ HoldsNext(page, atStart, o, filter.offset, Stride)
          /\ filter.offset >= o
      BY <1>1, <2>2, <2>3, <2>9 DEF ForwardOK, Forward, Sequential, Complete, Even
    <3>2. \A i, j \in DOMAIN Matches : Matches[i].id = Matches[j].id => i = j
      BY <3>1, MatchesOnce, WalkTypes
    <3>3. FollowsTo(walked \o got, atStart, Matches, o, filter.offset + Stride)
      BY <2>4, <3>1, <3>2, CarriesOn DEF got
    <3>. QED BY <1>2, <2>1, <2>2, <2>6, <3>3 DEF Sequential
  <2>10. Forward'
    BY <1>2, <2>1, <2>2, <2>3, <2>8, <2>9 DEF Forward
  <2>. QED BY <1>1, <1>2, <2>2, <2>10, ForwardGoes
<1>. QED BY <1>3, <1>4

\* The next link leads to the place that was reached.
LEMMA ForwardFollows ==
  ASSUME WalkingOK, WalkingOK', ForwardOK, FollowNext
  PROVE  ForwardOK'
<1>1. [WalkNext]_walkVars /\ walker.step = "answered" /\ Started /\ walker.heading = "forward"
  BY DEF FollowNext, WalkNext, WalkRequest, Started
<1>2. /\ walker'.step = "listing" /\ walker'.heading = "forward"
      /\ filter' = LinkedFilter(NextOffset(pagination))
      /\ UNCHANGED <<provider, features, edits, pagination, walked, retraced, atStart, calm>>
  BY <1>1 DEF FollowNext, WalkingOK, WalkTypeOK
<1>3. /\ walker'.asked = walker.asked /\ Wanted' = Wanted /\ Stride' = Stride
      /\ (LinksCarryQuery <=> LinksCarryQuery') /\ (FullPages <=> FullPages')
  BY QueryKept, <1>1 DEF WalkingOK
<1>4. /\ filter.offset \in Nat /\ Stride \in Nat /\ walker.asked.offset \in Nat
  BY WalkTypes
<1>5. NextOffset(pagination) = filter.offset + Stride
  BY <1>1 DEF NextOffset, WalkingOK
<1>6. filter'.offset = filter.offset + Stride
  BY <1>1, <1>2, <1>4, <1>5, LinkLeads
<1>7. /\ Matches' = Matches /\ (Even <=> Even') /\ Started' /\ Reached' = Reached
  BY <1>1, <1>2, <1>3, <1>6 DEF Matches, Even, Reached, Started
<1>8. Forward
  BY <1>1 DEF ForwardOK
<1>9. Complete => Complete'
  BY <1>2, <1>3, <1>7 DEF Complete
<1>10. Sequential => Sequential'
  BY <1>2, <1>3, <1>7 DEF Sequential
<1>11. filter'.offset >= walker'.asked.offset
  BY <1>3, <1>4, <1>6, <1>8 DEF Forward
<1>12. Forward'
  BY <1>2, <1>3, <1>7, <1>8, <1>9, <1>10, <1>11 DEF Forward
<1>. QED BY <1>1, <1>2, <1>7, <1>12, ForwardGoes

\* What is appended to the source comes after everything the walk has to do with.
LEMMA ForwardInserts ==
  ASSUME WalkingOK, WalkingOK', ForwardOK, walker.step # "idle", InsertFeature
  PROVE  ForwardOK'
<1>1. [WalkNext]_walkVars
  BY DEF WalkNext, Edit
<1>2. UNCHANGED <<provider, walker, filter, page, pagination, walked, retraced, atStart, calm>>
  BY DEF InsertFeature
<1>3. PICK r \in Rows : r.id \notin IdsIn(features) /\ features' = Append(features, r)
  BY DEF InsertFeature
<1>4. /\ walker'.asked = walker.asked /\ Wanted' = Wanted /\ Stride' = Stride
      /\ (LinksCarryQuery <=> LinksCarryQuery') /\ (FullPages <=> FullPages')
      /\ (CountsItsMatches <=> CountsItsMatches')
  BY <1>1, QueryKept DEF WalkingOK
<1>5. /\ (Started <=> Started') /\ (Even <=> Even') /\ Reached' = Reached
  BY <1>2, <1>4 DEF Started, Even, Reached
<1>6. features \in Seq(Rows) /\ Matches \in Seq(Rows)
  BY WalkTypes
<1>7. /\ Len(features) \in Nat /\ DOMAIN features = 1..Len(features)
      /\ DOMAIN features' = 1..Len(features) + 1
      /\ \A i \in 1..Len(features) : features'[i] = features[i]
      /\ features'[Len(features) + 1] = r
  <2>1. /\ features' \in Seq(Rows) /\ Len(features') = Len(features) + 1
        /\ \A i \in 1..Len(features) : features'[i] = features[i]
        /\ features'[Len(features) + 1] = r
    BY <1>3, <1>6, AppendProperties
  <2>. QED BY <1>6, <2>1, LenProperties
<1>8. SameIds => SameIds'
  <2>1. \A i \in DOMAIN features : features[i].id # r.id
    BY <1>3 DEF IdsIn
  <2>2. SUFFICES ASSUME SameIds, NEW i \in DOMAIN features', NEW j \in DOMAIN features',
                        features'[i].id = features'[j].id
                 PROVE  i = j
    BY DEF SameIds
  <2>3. i \in 1..Len(features) \/ i = Len(features) + 1
    BY <1>7
  <2>4. j \in 1..Len(features) \/ j = Len(features) + 1
    BY <1>7
  <2>. QED BY <1>7, <2>1, <2>2, <2>3, <2>4 DEF SameIds
<1>9. Extends(Matches, Matches')
  <2> DEFINE S == Selected(Wanted, provider)
  <2>1. Matches' = Select(Append(features, r), S)
    BY <1>2, <1>3, <1>4 DEF Matches
  <2>2. Matches' = IF r \in S THEN Append(Matches, r) ELSE Matches
    BY <1>6, <2>1, SelectAppend DEF Matches
  <2>3. /\ Len(Matches) \in Nat /\ DOMAIN Matches = 1..Len(Matches)
        /\ DOMAIN Append(Matches, r) = 1..Len(Matches) + 1
        /\ \A i \in 1..Len(Matches) : Append(Matches, r)[i] = Matches[i]
    <3>1. /\ Append(Matches, r) \in Seq(Rows) /\ Len(Append(Matches, r)) = Len(Matches) + 1
          /\ \A i \in 1..Len(Matches) : Append(Matches, r)[i] = Matches[i]
      BY <1>6, AppendProperties
    <3>. QED BY <1>6, <3>1, LenProperties
  <2> HIDE DEF S
  <2>4. Extends(Matches, Append(Matches, r))
    BY <2>3 DEF Extends
  <2>5. Extends(Matches, Matches)
    BY DEF Extends
  <2>. QED BY <2>2, <2>4, <2>5
<1>10. calm /\ Started => ContinuesAt(atStart, Matches', walker.asked.offset)
  BY <1>9, MoreMatches DEF ForwardOK
<1>11. Complete => Complete'
  <2>1. LiesAt(page, Matches, filter.offset) => LiesAt(page, Matches', filter.offset)
    BY <1>9, MoreMatches
  <2>. QED BY <1>2, <1>4, <1>5, <2>1 DEF Complete
<1>12. Sequential => Sequential'
  <2>1. FollowsTo(walked, atStart, Matches, walker.asked.offset, Reached)
          => FollowsTo(walked, atStart, Matches', walker.asked.offset, Reached)
    BY <1>9, MoreMatches
  <2>. QED BY <1>2, <1>4, <1>5, <2>1 DEF Sequential
<1>13. Forward => Forward'
  BY <1>2, <1>4, <1>5, <1>11, <1>12 DEF Forward
<1>. QED BY <1>2, <1>4, <1>5, <1>8, <1>10, <1>13 DEF ForwardOK, Injective

\* Once a row was taken out or moved, nothing is promised any more.
LEMMA ForwardDisturbed ==
  ASSUME WalkingOK, ForwardOK, [WalkNext]_walkVars, ~calm', UNCHANGED <<walker, filter, walked>>
  PROVE  ForwardOK'
<1>1. walker'.asked = walker.asked
  BY QueryKept DEF WalkingOK
<1>2. Started <=> Started'
  BY DEF Started
<1>3. Forward => Forward'
  BY <1>1 DEF Forward
<1>. QED BY <1>1, <1>2, <1>3 DEF ForwardOK

LEMMA ForwardStep ==
  ASSUME WalkingOK, WalkingOK', ForwardOK, [WalkNext]_walkVars
  PROVE  ForwardOK'
<1>1. WalkTypeOK
  BY DEF WalkingOK
<1>2. CASE BeginWalk
  BY <1>2, ForwardBegins
<1>3. CASE ListPage
  BY <1>3, ForwardLists
<1>4. CASE CountAndAnswer
  BY <1>4, ForwardAnswers
<1>5. CASE FollowNext
  BY <1>5, ForwardFollows
<1>6. CASE CountFails \/ TurnBack \/ FollowPrev \/ Stop
  <2>1. /\ UNCHANGED <<features, walked, atStart, calm>> /\ walker'.step # "idle" /\ Started
        /\ ~(Started' /\ walker'.heading = "forward")
    <3>1. CASE CountFails
      BY <1>1, <3>1 DEF CountFails, WalkTypeOK, Started
    <3>2. CASE TurnBack
      BY <1>1, <3>2 DEF TurnBack, WalkTypeOK, Started
    <3>3. CASE FollowPrev
      BY <1>1, <3>3 DEF FollowPrev, WalkTypeOK, Started
    <3>4. CASE Stop
      BY <1>1, <3>4 DEF Stop, WalkTypeOK, Started
    <3>. QED BY <1>6, <3>1, <3>2, <3>3, <3>4
  <2>. QED BY <2>1, ForwardKept
<1>7. CASE Edit
  <2>1. CASE InsertFeature
    BY <1>7, <2>1, ForwardInserts DEF Edit
  <2>2. CASE DeleteFeature \/ TouchFeature
    BY <2>2, ForwardDisturbed DEF DeleteFeature, TouchFeature
  <2>. QED BY <1>7, <2>1, <2>2 DEF Edit
<1>8. CASE UNCHANGED walkVars
  <2>1. /\ UNCHANGED <<provider, features, walker, filter, page, pagination, walked, atStart, calm>>
    BY <1>8 DEF walkVars
  <2>2. /\ walker'.asked = walker.asked /\ Wanted' = Wanted /\ Stride' = Stride
        /\ (LinksCarryQuery <=> LinksCarryQuery') /\ (FullPages <=> FullPages')
        /\ (CountsItsMatches <=> CountsItsMatches')
    BY QueryKept, <1>1
  <2>3. /\ Matches' = Matches /\ (Started <=> Started') /\ (Even <=> Even') /\ Reached' = Reached
        /\ (SameIds <=> SameIds')
    BY <2>1, <2>2 DEF Matches, Started, Even, Reached, SameIds
  <2>4. (Complete => Complete') /\ (Sequential => Sequential')
    BY <2>1, <2>2, <2>3 DEF Complete, Sequential
  <2>5. Forward => Forward'
    BY <2>1, <2>2, <2>3, <2>4 DEF Forward
  <2>. QED BY <2>1, <2>2, <2>3, <2>5 DEF ForwardOK, Injective
<1>. QED BY <1>2, <1>3, <1>4, <1>5, <1>6, <1>7, <1>8 DEF WalkNext, WalkRequest

\* Pages do not repeat: with a limit that is allowed, what was received is a prefix of
\* the matches at the start, or has them as one, and has no entry twice.
THEOREM PagesFollow == WalkSpec => []PagesDoNotOverlap
<1>1. WalkingOK /\ [WalkNext]_walkVars => WalkingOK'
  BY RequestStep
<1>2. WalkingOK /\ WalkingOK' /\ ForwardOK /\ [WalkNext]_walkVars => ForwardOK'
  BY ForwardStep
<1>3. WalkInit => WalkingOK /\ ForwardOK
  BY RequestInit, ForwardInit
<1>4. WalkingOK /\ ForwardOK => PagesDoNotOverlap
  <2>1. SUFFICES ASSUME WalkingOK, ForwardOK, calm, LinksCarryQuery, FullPages,
                        walker.asked.limit <= PaginationLimit(walker.asked.limit)
                 PROVE  /\ IsPrefix(walked, atStart) \/ IsPrefix(atStart, walked)
                        /\ Cardinality(Range(walked)) = Len(walked)
    BY DEF PagesDoNotOverlap
  <2>2. (IsPrefix(walked, atStart) \/ IsPrefix(atStart, walked)) /\ Injective(walked)
    BY <2>1 DEF ForwardOK, Even, Stride
  <2>3. walked \in Seq(Ids)
    BY <2>1 DEF WalkingOK, WalkTypeOK
  <2>4. Cardinality(Range(walked)) = Len(walked)
    BY <2>2, <2>3, EachOnce DEF Injective
  <2>. QED BY <2>2, <2>4
<1>. QED BY <1>1, <1>2, <1>3, <1>4, PTL DEF WalkSpec

-----------------------------------------------------------------------------
(* The walk back *)

LEMMA BackInit == WalkInit => BackOK
BY DEF WalkInit, BackOK, Started, PageIn

\* A request lists the place it asks for and adds it to what was received.
LEMMA BackRequests ==
  ASSUME WalkingOK, BackOK, ListPage \/ CountAndAnswer
  PROVE  BackOK'
<1>1. WalkTypeOK /\ [WalkNext]_walkVars /\ Started /\ walker.step \in {"listing", "counting"}
  BY DEF WalkingOK, ListPage, CountAndAnswer, WalkNext, WalkRequest, Started
<1>2. /\ walker'.heading = walker.heading
      /\ walker'.step \in {"counting", "answered", "rejected", "failed"}
      /\ UNCHANGED <<provider, features, edits, filter, atStart, calm>>
      /\ walker'.step = "counting" => ListPage
      /\ walker'.step = "answered" => CountAndAnswer
  BY <1>1 DEF ListPage, CountAndAnswer, WalkTypeOK
<1>3. /\ Wanted' = Wanted /\ Stride' = Stride
      /\ (LinksCarryQuery <=> LinksCarryQuery') /\ (FullPages <=> FullPages')
      /\ (CountsItsMatches <=> CountsItsMatches')
  BY <1>1, QueryKept
<1>4. Matches' = Matches /\ (Regular <=> Regular')
  BY <1>2, <1>3 DEF Matches, Regular
<1>5. CASE walker'.step \in {"rejected", "failed"}
  BY <1>2, <1>5 DEF BackOK, Started, PageIn
<1>6. CASE walker'.step = "counting"
  <2>1. walker.step = "listing" /\ page' = ListFeatures(features, filter, provider)
        /\ retraced' = retraced
    BY <1>1, <1>2, <1>6 DEF ListPage, WalkTypeOK
  <2>2. ASSUME Regular, NEW m \in DOMAIN Matches, filter.offset < m, m <= filter.offset + Stride
        PROVE  Matches[m].id \in IdsIn(page')
    <3> DEFINE p == ListFeatures(features, filter, provider)
    <3>1. LiesAt(p, Matches, filter.offset) /\ m - filter.offset \in DOMAIN p
      BY <1>1, <2>2, PageOfMatches DEF Regular
    <3>2. filter.offset + (m - filter.offset) = m
      BY WalkTypes, LenProperties
    <3> HIDE DEF p
    <3>3. p[m - filter.offset] = Matches[m]
      BY <3>1, <3>2 DEF LiesAt
    <3>4. page' = p
      BY <2>1 DEF p
    <3>. QED BY <3>1, <3>3, <3>4 DEF IdsIn
  <2>3. (edits = 0 /\ PageIn /\ Regular =>
          \A m \in DOMAIN Matches :
            filter.offset < m /\ m <= filter.offset + Stride => Matches[m].id \in IdsIn(page))'
    BY <1>2, <1>3, <1>4, <2>2
  <2>4. (edits = 0 /\ Started /\ walker.heading = "back" /\ Regular =>
          \A m \in DOMAIN Matches :
            m > (IF walker.step \in {"answered", "done"} THEN filter.offset
                 ELSE filter.offset + Stride) => Matches[m].id \in retraced)'
    BY <1>1, <1>2, <1>3, <1>4, <1>6, <2>1 DEF BackOK
  <2>. QED BY <1>2, <1>6, <2>3, <2>4 DEF BackOK
<1>7. CASE walker'.step = "answered"
  <2>1. /\ walker.step = "counting" /\ page' = page /\ PageIn
        /\ pagination'.matched = CountItems(features, filter, provider).matched
        /\ walker.heading = "back" => retraced' = retraced \cup IdsIn(page)
    BY <1>1, <1>2, <1>7 DEF CountAndAnswer, WalkTypeOK, PageIn
  <2>2. Regular => pagination'.matched = Len(Matches)
    BY <1>1, <2>1, MatchesCounted DEF Regular
  <2>3. ASSUME edits = 0, Regular, walker.heading = "back", NEW m \in DOMAIN Matches,
               m > filter.offset
        PROVE  Matches[m].id \in retraced'
    <3>1. CASE m <= filter.offset + Stride
      BY <2>1, <2>3, <3>1 DEF BackOK
    <3>2. CASE ~(m <= filter.offset + Stride)
      <4>1. m > filter.offset + Stride
        BY <3>2, WalkTypes, LenProperties
      <4>. QED BY <1>1, <2>1, <2>3, <4>1 DEF BackOK
    <3>. QED BY <3>1, <3>2
  <2>4. (edits = 0 /\ PageIn /\ Regular =>
          \A m \in DOMAIN Matches :
            filter.offset < m /\ m <= filter.offset + Stride => Matches[m].id \in IdsIn(page))'
    BY <1>2, <1>3, <1>4, <2>1 DEF BackOK
  <2>5. (edits = 0 /\ Started /\ walker.heading = "back" /\ Regular =>
          \A m \in DOMAIN Matches :
            m > (IF walker.step \in {"answered", "done"} THEN filter.offset
                 ELSE filter.offset + Stride) => Matches[m].id \in retraced)'
    BY <1>2, <1>3, <1>4, <1>7, <2>3
  <2>. QED BY <1>2, <1>4, <1>7, <2>2, <2>4, <2>5 DEF BackOK
<1>. QED BY <1>2, <1>5, <1>6, <1>7

\* Turning back, the client holds the last page, and the matches end on it.
LEMMA BackTurns ==
  ASSUME WalkingOK, BackOK, TurnBack
  PROVE  BackOK'
<1>1. /\ WalkTypeOK /\ [WalkNext]_walkVars /\ walker.step = "answered" /\ Started /\ PageIn
  BY DEF WalkingOK, TurnBack, WalkNext, WalkRequest, Started, PageIn
<1>2. /\ walker'.heading = "back" /\ walker'.step = "answered" /\ retraced' = IdsIn(page)
      /\ UNCHANGED <<provider, features, edits, filter, page, pagination, walked, atStart, calm>>
  BY <1>1 DEF TurnBack, WalkTypeOK
<1>3. /\ Wanted' = Wanted /\ Stride' = Stride
      /\ (LinksCarryQuery <=> LinksCarryQuery') /\ (FullPages <=> FullPages')
      /\ (CountsItsMatches <=> CountsItsMatches')
  BY <1>1, QueryKept
<1>4. Matches' = Matches /\ (Regular <=> Regular')
  BY <1>2, <1>3 DEF Matches, Regular
<1>5. ASSUME edits = 0, Regular, NEW m \in DOMAIN Matches, m > filter.offset
      PROVE  Matches[m].id \in IdsIn(page)
  <2>1. pagination.matched = Len(Matches) /\ pagination.limit = Stride
        /\ pagination.offset = filter.offset
    BY <1>1, <1>5 DEF BackOK, WalkingOK
  <2>2. ~(Len(Matches) > filter.offset + Stride)
    BY <2>1 DEF TurnBack, HasNext
  <2>3. m \in 1..Len(Matches) /\ Len(Matches) \in Nat /\ filter.offset \in Nat /\ Stride \in Nat
    BY WalkTypes, LenProperties
  <2>4. m <= filter.offset + Stride
    BY <2>2, <2>3
  <2>. QED BY <1>1, <1>5, <2>4 DEF BackOK
<1>6. (edits = 0 /\ Started /\ walker.heading = "back" /\ Regular =>
        \A m \in DOMAIN Matches :
          m > (IF walker.step \in {"answered", "done"} THEN filter.offset
               ELSE filter.offset + Stride) => Matches[m].id \in retraced)'
  BY <1>2, <1>4, <1>5
<1>7. (edits = 0 /\ PageIn /\ Regular =>
        \A m \in DOMAIN Matches :
          filter.offset < m /\ m <= filter.offset + Stride => Matches[m].id \in IdsIn(page))'
  BY <1>1, <1>2, <1>3, <1>4 DEF BackOK
<1>. QED BY <1>1, <1>2, <1>4, <1>6, <1>7 DEF BackOK

\* The previous page begins at most its length before this one, or at the first item.
LEMMA BackFollows ==
  ASSUME WalkingOK, BackOK, FollowPrev
  PROVE  BackOK'
<1>1. /\ WalkTypeOK /\ [WalkNext]_walkVars /\ walker.step = "answered" /\ Started
      /\ walker.heading = "back"
  BY DEF WalkingOK, FollowPrev, WalkNext, WalkRequest, Started
<1>2. /\ walker'.heading = "back" /\ walker'.step = "listing"
      /\ filter' = LinkedFilter(PrevOffset(pagination))
      /\ UNCHANGED <<provider, features, edits, pagination, walked, retraced, atStart, calm>>
  BY <1>1 DEF FollowPrev, WalkTypeOK
<1>3. /\ Wanted' = Wanted /\ Stride' = Stride
      /\ (LinksCarryQuery <=> LinksCarryQuery') /\ (FullPages <=> FullPages')
      /\ (CountsItsMatches <=> CountsItsMatches')
  BY <1>1, QueryKept
<1>4. Matches' = Matches /\ (Regular <=> Regular')
  BY <1>2, <1>3 DEF Matches, Regular
<1>5. filter.offset \in Nat /\ Stride \in Nat /\ Matches \in Seq(Rows)
  BY WalkTypes
<1>6. /\ PrevOffset(pagination) \in Nat
      /\ PrevOffset(pagination) + Stride >= filter.offset
  <2>1. PrevOffset(pagination) = Max({0, filter.offset - Stride})
    BY <1>1 DEF PrevOffset, WalkingOK
  <2>2. PrevOffset(pagination)
          = IF 0 <= filter.offset - Stride THEN filter.offset - Stride ELSE 0
    BY <1>5, <2>1, MaxOfTwo
  <2>. QED BY <1>5, <2>2
<1>7. filter'.offset = PrevOffset(pagination)
  BY <1>1, <1>2, <1>6, LinkLeads
<1>8. ASSUME edits = 0, Regular, NEW m \in DOMAIN Matches, m > filter'.offset + Stride
      PROVE  Matches[m].id \in retraced
  <2>1. m > filter.offset
    BY <1>5, <1>6, <1>7, <1>8, LenProperties
  <2>. QED BY <1>1, <1>8, <2>1 DEF BackOK
<1>9. (edits = 0 /\ Started /\ walker.heading = "back" /\ Regular =>
        \A m \in DOMAIN Matches :
          m > (IF walker.step \in {"answered", "done"} THEN filter.offset
               ELSE filter.offset + Stride) => Matches[m].id \in retraced)'
  BY <1>2, <1>3, <1>4, <1>8
<1>. QED BY <1>1, <1>2, <1>9 DEF BackOK, PageIn

LEMMA BackStep ==
  ASSUME WalkingOK, BackOK, [WalkNext]_walkVars
  PROVE  BackOK'
<1>1. WalkTypeOK
  BY DEF WalkingOK
<1>2. CASE BeginWalk
  BY <1>1, <1>2 DEF BeginWalk, BackOK, Started, PageIn, WalkTypeOK
<1>3. CASE ListPage \/ CountAndAnswer
  BY <1>3, BackRequests
<1>4. CASE CountFails
  BY <1>1, <1>4 DEF CountFails, BackOK, Started, PageIn, WalkTypeOK
<1>5. CASE FollowNext
  BY <1>1, <1>5 DEF FollowNext, BackOK, Started, PageIn, WalkTypeOK
<1>6. CASE TurnBack
  BY <1>6, BackTurns
<1>7. CASE FollowPrev
  BY <1>7, BackFollows
<1>8. CASE Stop
  <2>1. /\ walker.step = "answered" /\ walker'.step = "done" /\ walker'.heading = "back"
        /\ walker.heading = "back" /\ ~HasPrev(pagination) /\ Started
        /\ UNCHANGED <<provider, features, edits, filter, page, pagination, walked, retraced,
                       atStart, calm>>
    BY <1>1, <1>8 DEF Stop, WalkTypeOK, Started
  <2>2. filter.offset = 0
    <3>1. filter.offset \in Nat /\ pagination.offset = filter.offset
      BY <2>1, WalkTypes DEF WalkingOK
    <3>. QED BY <2>1, <3>1 DEF HasPrev
  <2>3. /\ Wanted' = Wanted /\ Stride' = Stride
        /\ (LinksCarryQuery <=> LinksCarryQuery') /\ (FullPages <=> FullPages')
        /\ (CountsItsMatches <=> CountsItsMatches')
    BY <1>1, QueryKept
  <2>4. Matches' = Matches /\ (Regular <=> Regular')
    BY <2>1, <2>3 DEF Matches, Regular
  <2>5. (edits = 0 /\ Started /\ walker.heading = "back" /\ Regular =>
          \A m \in DOMAIN Matches :
            m > (IF walker.step \in {"answered", "done"} THEN filter.offset
                 ELSE filter.offset + Stride) => Matches[m].id \in retraced)'
    BY <2>1, <2>3, <2>4 DEF BackOK
  <2>. QED BY <2>1, <2>2, <2>5 DEF BackOK, PageIn
<1>9. CASE Edit
  <2>1. edits' = edits + 1 /\ edits \in Nat /\ UNCHANGED <<walker, filter>>
    BY <1>1, <1>9, SizesAssumption
       DEF Edit, InsertFeature, DeleteFeature, TouchFeature, WalkTypeOK
  <2>2. edits' # 0 /\ walker.step # "idle"
    BY <1>9, <2>1 DEF Edit
  <2>. QED BY <2>1, <2>2 DEF BackOK
<1>10. CASE UNCHANGED walkVars
  <2>1. UNCHANGED <<provider, features, edits, walker, filter, page, pagination, retraced, calm>>
    BY <1>10 DEF walkVars
  <2>2. /\ Wanted' = Wanted /\ Stride' = Stride
        /\ (LinksCarryQuery <=> LinksCarryQuery') /\ (FullPages <=> FullPages')
        /\ (CountsItsMatches <=> CountsItsMatches')
    BY <1>1, QueryKept
  <2>3. /\ Matches' = Matches /\ (Regular <=> Regular') /\ (Started <=> Started')
        /\ (PageIn <=> PageIn')
    BY <2>1, <2>2 DEF Matches, Regular, Started, PageIn
  <2>. QED BY <2>1, <2>2, <2>3 DEF BackOK
<1>. QED BY <1>2, <1>3, <1>4, <1>5, <1>6, <1>7, <1>8, <1>9, <1>10 DEF WalkNext, WalkRequest

\* Following the links misses no item: at the last page the client has everything that
\* matched when it began, unless rows were taken out or moved; back at the first page
\* it has received again everything that matches.
THEOREM LinksMissNothing == WalkSpec => []NothingSkipped
<1>1. WalkingOK /\ [WalkNext]_walkVars => WalkingOK'
  BY RequestStep
<1>2. WalkingOK /\ WalkingOK' /\ ForwardOK /\ [WalkNext]_walkVars => ForwardOK'
  BY ForwardStep
<1>3. WalkingOK /\ BackOK /\ [WalkNext]_walkVars => BackOK'
  BY BackStep
<1>4. WalkInit => WalkingOK /\ ForwardOK /\ BackOK
  BY RequestInit, ForwardInit, BackInit
<1>5. WalkingOK /\ ForwardOK /\ BackOK => NothingSkipped
  <2>1. SUFFICES ASSUME WalkingOK, ForwardOK, BackOK, Regular
                 PROVE  /\ AtLastPage /\ calm => Range(atStart) \subseteq Range(walked)
                        /\ walker.step = "done" /\ edits = 0 =>
                             IdsIn(Matching(features, filter, provider)) \subseteq retraced
    BY DEF NothingSkipped, Regular
  <2>2. /\ features \in Seq(Rows) /\ provider \in Sources /\ filter \in Filters
        /\ filter.offset \in Nat /\ Stride \in Nat /\ walker.asked.offset \in Nat
        /\ atStart \in Seq(Ids) /\ Matches \in Seq(Rows) /\ pagination.matched \in Nat
    BY <2>1, WalkTypes
  <2>3. ASSUME AtLastPage, calm PROVE Range(atStart) \subseteq Range(walked)
    <3>1. /\ walker.step = "answered" /\ Started /\ walker.heading = "forward"
          /\ ~HasNext(pagination)
      BY <2>3 DEF AtLastPage, Started
    <3>2. Complete
      BY <2>1, <2>3, <3>1 DEF ForwardOK, Forward, Regular
    <3>3. /\ Reached = filter.offset + Stride
          /\ pagination.limit = Stride /\ pagination.offset = filter.offset
      BY <2>1, <3>1 DEF Reached, WalkingOK
    <3>4. pagination.matched <= Reached
      BY <2>2, <3>1, <3>3 DEF HasNext
    <3>5. SUFFICES ASSUME NEW j \in DOMAIN atStart PROVE atStart[j] \in Range(walked)
      BY DEF Range
    <3>6. walker.asked.offset + j <= pagination.matched
      BY <2>1, <3>1, <3>2 DEF Complete, Regular
    <3>7. walker.asked.offset + j <= Reached
      BY <2>2, <3>3, <3>4, <3>6, LenProperties, SMTT(30)
    <3>. QED BY <3>2, <3>7 DEF Complete
  <2>4. ASSUME walker.step = "done", edits = 0
        PROVE  IdsIn(Matching(features, filter, provider)) \subseteq retraced
    <3>1. Started /\ walker.heading = "back" /\ filter.offset = 0
      BY <2>1, <2>4 DEF BackOK, Started
    <3>2. AsksTheSame
      BY <2>1, <3>1 DEF WalkingOK, Regular
    <3>3. Matching(features, filter, provider) = Matches
      <4>1. Selected(filter, provider) = Selected(Wanted, provider)
        BY <3>2, SelectedAlike DEF AsksTheSame
      <4>. QED BY <2>2, <4>1, MatchingSelects DEF Matches
    <3>4. \A m \in DOMAIN Matches : m > 0
      BY <2>2, LenProperties
    <3>5. \A m \in DOMAIN Matches : Matches[m].id \in retraced
      BY <2>1, <2>4, <3>1, <3>4 DEF BackOK
    <3>. QED BY <3>3, <3>5 DEF IdsIn
  <2>. QED BY <2>3, <2>4
<1>. QED BY <1>1, <1>2, <1>3, <1>4, <1>5, PTL DEF WalkSpec
=============================================================================
