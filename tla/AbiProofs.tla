------------------------------ MODULE AbiProofs ------------------------------
(***************************************************************************)
(* Proofs about a session of the V4 C ABI and its caller, for any uses of  *)
(* it, any limits, and any answers that are lost.                          *)
(***************************************************************************)
EXTENDS AbiSession, FiniteSetTheorems, SequenceTheorems, WellFoundedInduction, TLAPS

-----------------------------------------------------------------------------
(* Induction, and the sum of a function on a finite set.                   *)

\* A set with zero that is closed under successor holds every natural number.
LEMMA NatSet ==
  ASSUME NEW S, 0 \in S, \A n \in Nat : n \in S => n + 1 \in S
  PROVE  Nat \subseteq S
<1>. DEFINE R == {p \in Nat \X Nat : p[1] < p[2]}
<1>. DEFINE T == Nat \ S
<1>1. IsWellFoundedOn(R, Nat)
  <2>1. R = OpToRel(<, Nat)
    BY DEF OpToRel
  <2>. QED BY <2>1, NatLessThanWellFounded, Zenon
<1>2. SUFFICES ASSUME T # {} PROVE FALSE
  OBVIOUS
<1>3. PICK x \in T : \A y \in T : ~(<<y, x>> \in R)
  <2>. HIDE DEF R
  <2>1. T \subseteq Nat
    OBVIOUS
  <2>. HIDE DEF T
  <2>. QED BY <1>1, <1>2, <2>1, WFMin
<1>4. x # 0 /\ x \in Nat
  OBVIOUS
<1>5. x - 1 \in Nat /\ <<x - 1, x>> \in R
  BY <1>4
<1>6. x - 1 \in S
  BY <1>3, <1>5
<1>. QED BY <1>4, <1>5, <1>6

\* The least and the greatest of some natural numbers are among them.
LEMMA MinIn ==
  ASSUME NEW S, S \subseteq Nat, S # {}
  PROVE  Min(S) \in S /\ \A y \in S : Min(S) <= y
<1>. DEFINE R == {p \in Nat \X Nat : p[1] < p[2]}
<1>1. IsWellFoundedOn(R, Nat)
  <2>1. R = OpToRel(<, Nat)
    BY DEF OpToRel
  <2>. QED BY <2>1, NatLessThanWellFounded, Zenon
<1>2. PICK x \in S : \A y \in S : ~(<<y, x>> \in R)
  <2>. HIDE DEF R
  <2>. QED BY <1>1, WFMin
<1>3. ASSUME NEW y \in S PROVE x =< y
  <2>1. x \in Nat /\ y \in Nat /\ ~(<<y, x>> \in R)
    BY <1>2
  <2>2. y < x => <<y, x>> \in R
    BY <2>1
  <2>. QED BY <2>1, <2>2
<1>. QED BY <1>3 DEF Min

LEMMA MaxIn ==
  ASSUME NEW n \in Nat, NEW S, S \subseteq 0 .. n, S # {}
  PROVE  Max(S) \in S /\ \A y \in S : Max(S) >= y
<1>. DEFINE D == {d \in 0 .. n : n - d \in S}
<1>1. D # {} /\ D \subseteq Nat
  <2>1. PICK y \in S : TRUE
    OBVIOUS
  <2>2. y \in 0 .. n /\ n - (n - y) = y
    BY <2>1
  <2>3. n - y \in 0 .. n
    BY <2>2
  <2>4. n - y \in D
    BY <2>2, <2>3
  <2>5. D \subseteq Nat
    OBVIOUS
  <2>. HIDE DEF D
  <2>. QED BY <2>4, <2>5
<1>2. PICK d \in D : \A y \in D : d <= y
  <2>. HIDE DEF D
  <2>. QED BY <1>1, MinIn
<1>3. n - d \in S /\ \A y \in S : n - d >= y
  <2>1. ASSUME NEW y \in S PROVE n - d >= y
    <3>1. y \in 0 .. n /\ n - (n - y) = y
      BY <2>1
    <3>2. n - y \in 0 .. n
      BY <3>1
    <3>3. n - y \in D
      BY <3>1, <3>2
    <3>4. d \in 0 .. n /\ d <= n - y
      BY <1>2, <3>3
    <3>. QED BY <3>1, <3>4
  <2>. QED BY <2>1
<1>. QED BY <1>3 DEF Max

\* What a function into the naturals adds up to, as the size of a set: each
\* element of its domain is counted as often as the function says.
Heap(f, s) == {p \in s \X Nat : p[2] \in 1 .. f[p[1]]}
Weight(f, s) == Cardinality(Heap(f, s))

LEMMA HeapAdd ==
  ASSUME NEW f, NEW s, NEW x, x \notin s, IsFiniteSet(Heap(f, s)), f[x] \in Nat
  PROVE  /\ IsFiniteSet(Heap(f, s \cup {x}))
         /\ Weight(f, s \cup {x}) = Weight(f, s) + f[x]
<1>. DEFINE B == {<<x, i>> : i \in 1 .. f[x]}
<1>. DEFINE g == [i \in 1 .. f[x] |-> <<x, i>>]
<1>1. IsFiniteSet(1 .. f[x]) /\ Cardinality(1 .. f[x]) = f[x]
  BY FS_Interval
<1>2. g \in Bijection(1 .. f[x], B)
  BY DEF Bijection, Injection, Surjection, IsInjective
<1>3. IsFiniteSet(B) /\ Cardinality(B) = f[x]
  <2>1. ExistsBijection(1 .. f[x], B)
    <3>. HIDE DEF g, B
    <3>. QED BY <1>2 DEF ExistsBijection
  <2>. HIDE DEF B
  <2>. QED BY <1>1, <2>1, FS_Bijection
<1>4. Heap(f, s \cup {x}) = Heap(f, s) \cup B
  BY DEF Heap
<1>5. Heap(f, s) \cap B = {}
  BY DEF Heap
<1>6. Cardinality(Heap(f, s)) \in Nat
  BY FS_CardinalityType
<1>7. /\ IsFiniteSet(Heap(f, s) \cup B)
      /\ Cardinality(Heap(f, s) \cup B)
           = Cardinality(Heap(f, s)) + Cardinality(B) - Cardinality(Heap(f, s) \cap B)
  <2>. HIDE DEF B
  <2>. QED BY <1>3, FS_Union
<1>. HIDE DEF B
<1>8. Cardinality(Heap(f, s) \cap B) = 0
  BY <1>5, FS_EmptySet
<1>9. Cardinality(Heap(f, s) \cup B) = Cardinality(Heap(f, s)) + f[x]
  BY <1>3, <1>6, <1>7, <1>8
<1>. QED BY <1>4, <1>7, <1>9 DEF Weight

LEMMA WeightEmpty == \A f : IsFiniteSet(Heap(f, {})) /\ Weight(f, {}) = 0
<1>1. \A f : Heap(f, {}) = {}
  BY DEF Heap
<1>. QED BY <1>1, FS_EmptySet DEF Weight

\* What is proved of every number of elements is proved of a finite set.
LEMMA HeapFinite ==
  ASSUME NEW s, IsFiniteSet(s), NEW f, \A x \in s : f[x] \in Nat
  PROVE  IsFiniteSet(Heap(f, s))
<1>. DEFINE S == {n \in Nat : \A u \in SUBSET s : IsFiniteSet(u) /\ Cardinality(u) = n => IsFiniteSet(Heap(f, u))}
<1>1. 0 \in S
  <2>1. ASSUME NEW u \in SUBSET s, IsFiniteSet(u) /\ Cardinality(u) = 0
        PROVE  IsFiniteSet(Heap(f, u))
    <3>1. u = {}
      BY <2>1, FS_EmptySet
    <3>. QED BY <3>1, WeightEmpty
  <2>. QED BY <2>1
<1>2. ASSUME NEW n \in Nat, n \in S PROVE n + 1 \in S
  <2>1. ASSUME NEW u \in SUBSET s, IsFiniteSet(u), Cardinality(u) = n + 1
        PROVE  IsFiniteSet(Heap(f, u))
    <3>1. PICK x \in u : TRUE
      BY <2>1, FS_EmptySet
    <3>. DEFINE v == u \ {x}
    <3>2. IsFiniteSet(v) /\ Cardinality(v) = n
      <4>1. IsFiniteSet(u \ {x}) /\ Cardinality(u \ {x}) = Cardinality(u) - 1
        BY <2>1, <3>1, FS_RemoveElement
      <4>. QED BY <2>1, <4>1
    <3>3. v \in SUBSET s /\ x \notin v /\ v \cup {x} = u
      BY <3>1
    <3>4. IsFiniteSet(Heap(f, v))
      <4>. HIDE DEF v
      <4>. QED BY <1>2, <3>2, <3>3
    <3>. HIDE DEF v
    <3>. QED BY <3>1, <3>3, <3>4, HeapAdd
  <2>. QED BY <2>1
<1>3. Nat \subseteq S
  <2>. HIDE DEF S
  <2>. QED BY <1>1, <1>2, NatSet
<1>4. Cardinality(s) \in S
  <2>. HIDE DEF S
  <2>. QED BY <1>3, FS_CardinalityType
<1>. QED BY <1>4

LEMMA WeightSplit ==
  ASSUME NEW s, IsFiniteSet(s), NEW f, \A y \in s : f[y] \in Nat, NEW x \in s
  PROVE  /\ Weight(f, s) = Weight(f, s \ {x}) + f[x]
         /\ Weight(f, s) \in Nat /\ Weight(f, s \ {x}) \in Nat
<1>. DEFINE v == s \ {x}
<1>1. IsFiniteSet(v) /\ x \notin v /\ v \cup {x} = s /\ v \subseteq s
  BY FS_RemoveElement
<1>2. IsFiniteSet(Heap(f, v)) /\ IsFiniteSet(Heap(f, s))
  <2>. HIDE DEF v
  <2>. QED BY <1>1, HeapFinite
<1>3. Weight(f, v \cup {x}) = Weight(f, v) + f[x]
  <2>. HIDE DEF v
  <2>. QED BY <1>1, <1>2, HeapAdd
<1>. HIDE DEF v
<1>4. Weight(f, s) \in Nat /\ Weight(f, v) \in Nat
  BY <1>2, FS_CardinalityType DEF Weight
<1>. QED BY <1>1, <1>3, <1>4 DEF v

\* Only the values on the set count.
LEMMA WeightSame ==
  ASSUME NEW s, NEW f, NEW g, \A x \in s : f[x] = g[x]
  PROVE  Weight(f, s) = Weight(g, s)
<1>1. Heap(f, s) = Heap(g, s)
  BY DEF Heap
<1>. QED BY <1>1 DEF Weight

\* The element a sum takes next.
Some(u) == CHOOSE x \in u : TRUE

\* Any function on the subsets that adds element by element gives the weight.
LEMMA WeightIsSum ==
  ASSUME NEW s, IsFiniteSet(s), NEW f, \A x \in s : f[x] \in Nat,
         NEW g, \A u \in SUBSET s :
                  g[u] = IF u = {} THEN 0
                         ELSE f[Some(u)] + g[u \ {Some(u)}]
  PROVE  g[s] = Weight(f, s)
<1>. DEFINE S == {n \in Nat : \A u \in SUBSET s : IsFiniteSet(u) /\ Cardinality(u) = n => g[u] = Weight(f, u)}
<1>1. 0 \in S
  <2>1. ASSUME NEW u \in SUBSET s, IsFiniteSet(u) /\ Cardinality(u) = 0
        PROVE  g[u] = Weight(f, u)
    <3>1. u = {}
      BY <2>1, FS_EmptySet
    <3>. QED BY <3>1, WeightEmpty
  <2>. QED BY <2>1
<1>2. ASSUME NEW n \in Nat, n \in S PROVE n + 1 \in S
  <2>1. ASSUME NEW u \in SUBSET s, IsFiniteSet(u), Cardinality(u) = n + 1
        PROVE  g[u] = Weight(f, u)
    <3>1. u # {}
      BY <2>1, FS_EmptySet
    <3>. DEFINE x == Some(u)
    <3>. DEFINE v == u \ {x}
    <3>2. x \in u
      BY <3>1 DEF Some
    <3>3. g[u] = f[x] + g[v]
      BY <3>1
    <3>. HIDE DEF x
    <3>4. IsFiniteSet(v) /\ Cardinality(v) = n
      <4>1. IsFiniteSet(u \ {x}) /\ Cardinality(u \ {x}) = Cardinality(u) - 1
        BY <2>1, <3>2, FS_RemoveElement
      <4>. QED BY <2>1, <4>1
    <3>5. g[v] = Weight(f, v)
      <4>1. v \in SUBSET s
        OBVIOUS
      <4>. HIDE DEF v
      <4>. QED BY <1>2, <3>4, <4>1
    <3>6. Weight(f, u) = Weight(f, u \ {x}) + f[x] /\ Weight(f, u \ {x}) \in Nat
      BY <2>1, <3>2, WeightSplit
    <3>7. f[x] \in Nat
      BY <3>2
    <3>. QED BY <3>3, <3>5, <3>6, <3>7
  <2>. QED BY <2>1
<1>3. Nat \subseteq S
  <2>. HIDE DEF S
  <2>. QED BY <1>1, <1>2, NatSet
<1>4. Cardinality(s) \in S
  <2>. HIDE DEF S
  <2>. QED BY <1>3, FS_CardinalityType
<1>. QED BY <1>4

\* The weight itself adds element by element.
LEMMA WeightAdds ==
  ASSUME NEW s, IsFiniteSet(s), NEW f, \A x \in s : f[x] \in Nat
  PROVE  \A u \in SUBSET s :
           Weight(f, u) = IF u = {} THEN 0
                          ELSE f[Some(u)] + Weight(f, u \ {Some(u)})
<1>1. ASSUME NEW u \in SUBSET s
      PROVE  Weight(f, u) = IF u = {} THEN 0
                            ELSE f[Some(u)] + Weight(f, u \ {Some(u)})
  <2>1. CASE u = {}
    BY <2>1, WeightEmpty
  <2>2. CASE u # {}
    <3>. DEFINE x == Some(u)
    <3>1. x \in u
      BY <2>2 DEF Some
    <3>. HIDE DEF x
    <3>2. IsFiniteSet(u)
      BY FS_Subset
    <3>3. Weight(f, u) = Weight(f, u \ {x}) + f[x] /\ Weight(f, u \ {x}) \in Nat /\ f[x] \in Nat
      BY <3>1, <3>2, WeightSplit
    <3>4. Weight(f, u) = f[x] + Weight(f, u \ {x})
      BY <3>3
    <3>. QED BY <2>2, <3>4 DEF x
  <2>. QED BY <2>1, <2>2
<1>. QED BY <1>1

-----------------------------------------------------------------------------
(* Splices of the source.                                                  *)

LEMMA SubSeqParts ==
  ASSUME NEW B, NEW text \in Seq(B), NEW a \in Nat, NEW b \in Nat, a <= b, b <= Len(text)
  PROVE  /\ Bytes(text, a, b) \in Seq(B) /\ Len(Bytes(text, a, b)) = b - a
         /\ \A i \in 1 .. b - a : Bytes(text, a, b)[i] = text[a + i]
<1>1. \A i \in a + 1 .. b : text[i] \in B
  BY ElementOfSeq
<1>2. /\ SubSeq(text, a + 1, b) \in Seq(B)
      /\ Len(SubSeq(text, a + 1, b)) = IF a + 1 <= b THEN b - (a + 1) + 1 ELSE 0
      /\ \A i \in 1 .. b - (a + 1) + 1 : SubSeq(text, a + 1, b)[i] = text[(a + 1) + i - 1]
  BY <1>1, SubSeqProperties
<1>3. b - (a + 1) + 1 = b - a /\ \A i \in 1 .. b - a : (a + 1) + i - 1 = a + i
  OBVIOUS
<1>. QED BY <1>2, <1>3 DEF Bytes

\* What a splice of a text is, byte by byte.
IsSplice(out, text, a, b, new) ==
  /\ Len(out) = a + Len(new) + (Len(text) - b)
  /\ \A i \in 1 .. Len(out) :
       /\ i <= a => out[i] = text[i]
       /\ a < i /\ i <= a + Len(new) => out[i] = new[i - a]
       /\ a + Len(new) < i => out[i] = text[i - a - Len(new) + b]

LEMMA SplicedParts ==
  ASSUME NEW B, NEW text \in Seq(B), NEW new \in Seq(B),
         NEW a \in Nat, NEW b \in Nat, a <= b, b <= Len(text)
  PROVE  /\ Spliced(text, a, b, new) \in Seq(B)
         /\ IsSplice(Spliced(text, a, b, new), text, a, b, new)
<1>. DEFINE p == SubSeq(text, 1, a)
            q == SubSeq(text, b + 1, Len(text))
            n == Len(new)
<1>0. Len(text) \in Nat /\ n \in Nat
  BY LenProperties
<1>1. p \in Seq(B) /\ Len(p) = a /\ \A i \in 1 .. a : p[i] = text[i]
  <2>1. Bytes(text, 0, a) = p
    BY DEF Bytes
  <2>2. 0 \in Nat /\ 0 <= a /\ a <= Len(text)
    BY <1>0
  <2>3. Bytes(text, 0, a) \in Seq(B) /\ Len(Bytes(text, 0, a)) = a - 0
        /\ \A i \in 1 .. a - 0 : Bytes(text, 0, a)[i] = text[0 + i]
    BY ONLY <2>2, a \in Nat, text \in Seq(B), SubSeqParts
  <2>4. a - 0 = a /\ \A i \in 1 .. a : 0 + i = i
    OBVIOUS
  <2>. HIDE DEF p
  <2>. QED BY <2>1, <2>3, <2>4
<1>2. q \in Seq(B) /\ Len(q) = Len(text) - b /\ \A i \in 1 .. Len(text) - b : q[i] = text[b + i]
  <2>1. Bytes(text, b, Len(text)) = q
    BY DEF Bytes
  <2>. HIDE DEF q
  <2>2. Len(text) <= Len(text) /\ Len(text) \in Nat
    BY <1>0
  <2>3. Bytes(text, b, Len(text)) \in Seq(B) /\ Len(Bytes(text, b, Len(text))) = Len(text) - b
        /\ \A i \in 1 .. Len(text) - b : Bytes(text, b, Len(text))[i] = text[b + i]
    BY ONLY <2>2, b \in Nat, text \in Seq(B), b <= Len(text), SubSeqParts
  <2>. QED BY <2>1, <2>3
<1>. DEFINE pn == p \o new
            out == pn \o q
<1>3. Spliced(text, a, b, new) = out
  BY DEF Spliced
<1>. HIDE DEF p, q
<1>4. /\ pn \in Seq(B) /\ Len(pn) = a + n
      /\ \A i \in 1 .. a + n : pn[i] = IF i <= a THEN p[i] ELSE new[i - a]
  BY <1>1, ConcatProperties
<1>. HIDE DEF pn
<1>5. /\ out \in Seq(B) /\ Len(out) = Len(pn) + Len(q)
      /\ \A i \in 1 .. Len(pn) + Len(q) : out[i] = IF i <= Len(pn) THEN pn[i] ELSE q[i - Len(pn)]
  BY ONLY <1>2, <1>4, ConcatProperties
<1>. HIDE DEF out
<1>6. Len(out) = a + n + (Len(text) - b)
  BY <1>2, <1>4, <1>5
<1>7. ASSUME NEW i \in 1 .. Len(out), i <= a PROVE out[i] = text[i]
  <2>1. i \in 1 .. a /\ i \in 1 .. a + n /\ i <= Len(pn) /\ i \in 1 .. Len(pn) + Len(q)
    BY <1>0, <1>4, <1>5, <1>7
  <2>2. out[i] = pn[i] /\ pn[i] = p[i]
    BY <1>4, <1>5, <1>7, <2>1
  <2>. QED BY <1>1, <2>1, <2>2
<1>8. ASSUME NEW i \in 1 .. Len(out), a < i, i <= a + n PROVE out[i] = new[i - a]
  <2>1. i \in 1 .. a + n /\ i <= Len(pn) /\ i \in 1 .. Len(pn) + Len(q) /\ ~(i <= a)
    BY <1>0, <1>4, <1>5, <1>8
  <2>. QED BY <1>4, <1>5, <2>1
<1>9. ASSUME NEW i \in 1 .. Len(out), a + n < i PROVE out[i] = text[i - a - n + b]
  <2>1. /\ ~(i <= Len(pn)) /\ i \in 1 .. Len(pn) + Len(q)
        /\ i - Len(pn) \in 1 .. Len(text) - b /\ b + (i - Len(pn)) = i - a - n + b
    BY <1>0, <1>2, <1>4, <1>5, <1>9
  <2>2. out[i] = q[i - Len(pn)]
    BY <1>5, <2>1
  <2>. QED BY <1>2, <2>1, <2>2
<1>. QED BY <1>3, <1>5, <1>6, <1>7, <1>8, <1>9 DEF IsSplice

\* Putting the replaced bytes back undoes a splice.
LEMMA SpliceBack ==
  ASSUME NEW B, NEW text \in Seq(B), NEW new \in Seq(B),
         NEW a \in Nat, NEW b \in Nat, a <= b, b <= Len(text)
  PROVE  Spliced(Spliced(text, a, b, new), a, a + Len(new), Bytes(text, a, b)) = text
<1>. DEFINE mid == Spliced(text, a, b, new)
            old == Bytes(text, a, b)
            n == Len(new)
            back == Spliced(mid, a, a + n, old)
<1>0. Len(text) \in Nat /\ n \in Nat
  BY LenProperties
<1>1. mid \in Seq(B) /\ IsSplice(mid, text, a, b, new)
  BY SplicedParts
<1>2. old \in Seq(B) /\ Len(old) = b - a /\ \A i \in 1 .. b - a : old[i] = text[a + i]
  BY SubSeqParts
<1>. HIDE DEF mid, old
<1>3. /\ Len(mid) = a + n + (Len(text) - b)
      /\ a + n \in Nat /\ a <= a + n /\ a + n <= Len(mid)
  BY <1>0, <1>1 DEF IsSplice
<1>4. back \in Seq(B) /\ IsSplice(back, mid, a, a + n, old)
  <2>. HIDE DEF n
  <2>. QED BY <1>1, <1>2, <1>3, SplicedParts
<1>. HIDE DEF back
<1>5. Len(back) = Len(text)
  BY <1>0, <1>2, <1>3, <1>4 DEF IsSplice
<1>6. ASSUME NEW i \in 1 .. Len(text) PROVE back[i] = text[i]
  <2>0. i \in 1 .. Len(back)
    BY <1>5
  <2>1. CASE i <= a
    <3>1. back[i] = mid[i]
      BY <1>4, <2>0, <2>1 DEF IsSplice
    <3>2. i \in 1 .. Len(mid)
      BY <1>0, <1>3, <2>1
    <3>. QED BY <1>1, <2>1, <3>1, <3>2 DEF IsSplice
  <2>2. CASE a < i /\ i <= b
    <3>1. back[i] = old[i - a]
      BY <1>0, <1>2, <1>4, <2>0, <2>2 DEF IsSplice
    <3>2. i - a \in 1 .. b - a /\ a + (i - a) = i
      BY <1>0, <2>2
    <3>. QED BY <1>2, <3>1, <3>2
  <2>3. CASE b < i
    <3>. DEFINE j == i - a - Len(old) + (a + n)
    <3>1. a + Len(old) < i
      BY <1>0, <1>2, <2>3
    <3>2. back[i] = mid[j]
      BY <1>4, <2>0, <3>1 DEF IsSplice
    <3>3. j \in 1 .. Len(mid) /\ a + n < j /\ j - a - n + b = i
      BY <1>0, <1>2, <1>3, <2>3
    <3>. HIDE DEF j
    <3>4. mid[j] = text[j - a - n + b]
      BY <1>1, <3>3 DEF IsSplice
    <3>. QED BY <3>2, <3>3, <3>4
  <2>. QED BY <1>0, <2>1, <2>2, <2>3
<1>7. back = text
  BY <1>4, <1>5, <1>6, SeqEqual
<1>. QED BY <1>7 DEF back, mid, old

\* A position in the source is mapped to one in the source after the splice.
LEMMA OffsetStays ==
  ASSUME NEW a \in Nat, NEW b \in Nat, NEW len \in Nat, a <= b, b <= len,
         NEW n \in Nat, NEW off \in 0 .. len, NEW affinity
  PROVE  MapOffset(off, affinity, a, b - a, n) \in 0 .. a + n + (len - b)
<1>1. CASE off < a
  BY <1>1 DEF MapOffset
<1>2. CASE off > a /\ off >= a + (b - a)
  BY <1>2 DEF MapOffset
<1>3. CASE ~(off < a) /\ ~(off > a /\ off >= a + (b - a))
  <2>1. MapOffset(off, affinity, a, b - a, n) \in {a, a + n}
    BY <1>3 DEF MapOffset
  <2>. QED BY <2>1
<1>. QED BY <1>1, <1>2, <1>3

\* A splice that puts replaced bytes back.
Putting(B) == [start : Nat, end : Nat, text : Seq(B)]

\* The texts between the undone splices, the last splice first.
Undoing(U, splices) ==
  \A k \in 1 .. Len(splices) :
    LET s == splices[Len(splices) - k + 1] IN
    /\ s.start <= s.end /\ s.end <= Len(U[k - 1])
    /\ U[k] = Spliced(U[k - 1], s.start, s.end, s.text)

\* Undoing splices in turn is what the texts between them say.
LEMMA UndoneIs ==
  ASSUME NEW B, NEW splices \in Seq(Putting(B)),
         NEW U \in [0 .. Len(splices) -> Seq(B)], Undoing(U, splices)
  PROVE  UndoneInTurn(U[0], splices) = U[Len(splices)]
<1>. DEFINE n == Len(splices)
            T == U[0]
            P(f) == f = [k \in 0 .. n |->
                          IF k = 0 THEN T
                          ELSE Spliced(f[k - 1], splices[n - k + 1].start,
                                       splices[n - k + 1].end, splices[n - k + 1].text)]
            undo == CHOOSE f : P(f)
<1>0. n \in Nat
  BY LenProperties
<1>1. UndoneInTurn(T, splices) = undo[n]
  BY DEF UndoneInTurn
<1>2. P(U)
  <2>1. \A k \in 0 .. n : U[k] = IF k = 0 THEN T
                                 ELSE Spliced(U[k - 1], splices[n - k + 1].start,
                                        splices[n - k + 1].end, splices[n - k + 1].text)
    BY <1>0 DEF Undoing
  <2>2. U = [k \in 0 .. n |-> U[k]]
    OBVIOUS
  <2>. QED BY <2>1, <2>2
<1>3. P(undo)
  <2>. HIDE DEF P
  <2>. QED BY <1>2
<1>. HIDE DEF undo
<1>. DEFINE S == {k \in Nat : k <= n => undo[k] = U[k]}
<1>4. 0 \in S
  BY <1>0, <1>3
<1>5. ASSUME NEW k \in Nat, k \in S PROVE k + 1 \in S
  <2>1. CASE k + 1 <= n
    <3>1. k + 1 \in 0 .. n /\ k + 1 # 0 /\ (k + 1) - 1 = k /\ k + 1 \in 1 .. n
      BY <1>0, <2>1
    <3>. DEFINE s == splices[n - (k + 1) + 1]
    <3>2. undo[k + 1] = Spliced(undo[k], s.start, s.end, s.text)
      BY <1>3, <3>1
    <3>3. U[k + 1] = Spliced(U[k], s.start, s.end, s.text)
      BY <3>1 DEF Undoing
    <3>4. undo[k] = U[k]
      BY <1>0, <1>5, <2>1
    <3>. QED BY <3>2, <3>3, <3>4
  <2>2. CASE ~(k + 1 <= n)
    BY <2>2
  <2>. QED BY <2>1, <2>2
<1>6. Nat \subseteq S
  <2>. HIDE DEF S
  <2>. QED BY <1>4, <1>5, NatSet
<1>7. undo[n] = U[n]
  BY <1>0, <1>6
<1>. QED BY <1>1, <1>7

-----------------------------------------------------------------------------
(* Undoing a group at once.                                                *)

\* Where a byte of the text that results comes from.
PieceSet(text, splices) ==
  {p \in [step : 0 .. Len(splices), at : Nat] :
     IF p.step = 0 THEN p.at \in 1 .. Len(text) ELSE p.at \in 1 .. Len(splices[p.step].text)}

ByteOf(text, splices, p) == IF p.step = 0 THEN text[p.at] ELSE splices[p.step].text[p.at]

Fresh(step, len) == [i \in 1 .. len |-> [step |-> step, at |-> i]]

\* Pieces that stand for a text.
Stands(ps, text, splices, t) ==
  /\ ps \in Seq(PieceSet(text, splices)) /\ Len(ps) = Len(t)
  /\ \A i \in 1 .. Len(t) : ByteOf(text, splices, ps[i]) = t[i]

LEMMA FunctionSeq ==
  ASSUME NEW PS, NEW len \in Nat, NEW f \in [1 .. len -> PS]
  PROVE  f \in Seq(PS) /\ Len(f) = len
<1>1. f \in Seq(PS)
  OBVIOUS
<1>. QED BY <1>1, LenProperties

LEMMA StandsAtFirst ==
  ASSUME NEW B, NEW text \in Seq(B), NEW splices \in Seq(Putting(B))
  PROVE  Stands(Fresh(0, Len(text)), text, splices, text)
<1>1. Len(text) \in Nat /\ Len(splices) \in Nat
  BY LenProperties
<1>2. /\ Fresh(0, Len(text)) \in Seq(PieceSet(text, splices))
      /\ Len(Fresh(0, Len(text))) = Len(text)
      /\ \A i \in 1 .. Len(text) : Fresh(0, Len(text))[i] = [step |-> 0, at |-> i]
  <2>1. \A i \in 1 .. Len(text) : [step |-> 0, at |-> i] \in PieceSet(text, splices)
    BY <1>1 DEF PieceSet
  <2>2. Fresh(0, Len(text)) \in [1 .. Len(text) -> PieceSet(text, splices)]
    BY <2>1 DEF Fresh
  <2>. QED BY <1>1, <2>2, FunctionSeq DEF Fresh
<1>3. \A i \in 1 .. Len(text) : ByteOf(text, splices, [step |-> 0, at |-> i]) = text[i]
  BY DEF ByteOf
<1>4. \A i \in 1 .. Len(text) : ByteOf(text, splices, Fresh(0, Len(text))[i]) = text[i]
  BY <1>2, <1>3
<1>. QED BY <1>2, <1>4 DEF Stands

LEMMA StandsAfter ==
  ASSUME NEW B, NEW text \in Seq(B), NEW splices \in Seq(Putting(B)),
         NEW t \in Seq(B), NEW ps, Stands(ps, text, splices, t),
         NEW j \in 1 .. Len(splices), NEW s, s = splices[j],
         s.start <= s.end, s.end <= Len(t)
  PROVE  /\ Spliced(t, s.start, s.end, s.text) \in Seq(B)
         /\ Stands(Spliced(ps, s.start, s.end, Fresh(j, Len(s.text))), text, splices,
                   Spliced(t, s.start, s.end, s.text))
<1>. DEFINE a == s.start
            b == s.end
            new == s.text
            fresh == Fresh(j, Len(new))
            PS == PieceSet(text, splices)
            t2 == Spliced(t, a, b, new)
            ps2 == Spliced(ps, a, b, fresh)
<1>0. s \in Putting(B)
  BY ElementOfSeq
<1>1. a \in Nat /\ b \in Nat /\ new \in Seq(B) /\ Len(new) \in Nat /\ Len(t) \in Nat
      /\ a <= b /\ b <= Len(t)
  BY <1>0, LenProperties DEF Putting
<1>2. /\ fresh \in Seq(PS) /\ Len(fresh) = Len(new)
      /\ \A i \in 1 .. Len(new) : fresh[i] = [step |-> j, at |-> i]
  <2>1. j # 0 /\ j \in 0 .. Len(splices)
    BY LenProperties
  <2>2. \A i \in 1 .. Len(new) : [step |-> j, at |-> i] \in PS
    BY <1>1, <2>1 DEF PieceSet
  <2>. HIDE DEF new, PS
  <2>3. fresh \in [1 .. Len(new) -> PS]
    BY <2>2 DEF Fresh
  <2>. QED BY <1>1, <2>3, FunctionSeq DEF Fresh
<1>3. t2 \in Seq(B) /\ IsSplice(t2, t, a, b, new)
  <2>. HIDE DEF a, b, new
  <2>. QED BY <1>1, SplicedParts
<1>4. ps2 \in Seq(PS) /\ IsSplice(ps2, ps, a, b, fresh)
  <2>1. ps \in Seq(PS) /\ b <= Len(ps)
    BY <1>1 DEF Stands
  <2>. HIDE DEF a, b, new, PS, fresh
  <2>. QED BY <1>1, <1>2, <2>1, SplicedParts
<1>5. Len(ps) = Len(t) /\ \A i \in 1 .. Len(t) : ByteOf(text, splices, ps[i]) = t[i]
  BY DEF Stands
<1>6. \A i \in 1 .. Len(new) : ByteOf(text, splices, fresh[i]) = new[i]
  <2>1. j # 0
    BY LenProperties
  <2>2. \A i : ByteOf(text, splices, [step |-> j, at |-> i]) = splices[j].text[i]
    BY <2>1 DEF ByteOf
  <2>. HIDE DEF fresh
  <2>. QED BY <1>2, <2>2
<1>. HIDE DEF a, b, new, PS, fresh, t2, ps2
<1>7. Len(ps2) = Len(t2) /\ Len(t2) = a + Len(new) + (Len(t) - b)
  BY <1>2, <1>3, <1>4, <1>5 DEF IsSplice
<1>8. ASSUME NEW i \in 1 .. Len(t2) PROVE ByteOf(text, splices, ps2[i]) = t2[i]
  <2>0. i \in 1 .. Len(ps2) /\ i \in Nat
    BY <1>7
  <2>1. CASE i <= a
    <3>1. ps2[i] = ps[i] /\ t2[i] = t[i]
      BY <1>3, <1>4, <2>0, <2>1 DEF IsSplice
    <3>2. i \in 1 .. Len(t)
      BY <1>1, <2>0, <2>1
    <3>. QED BY <1>5, <3>1, <3>2
  <2>2. CASE a < i /\ i <= a + Len(new)
    <3>1. ps2[i] = fresh[i - a] /\ t2[i] = new[i - a]
      BY <1>2, <1>3, <1>4, <2>0, <2>2 DEF IsSplice
    <3>2. i - a \in 1 .. Len(new)
      BY <1>1, <2>0, <2>2
    <3>. QED BY <1>6, <3>1, <3>2
  <2>3. CASE a + Len(new) < i
    <3>1. ps2[i] = ps[i - a - Len(new) + b] /\ t2[i] = t[i - a - Len(new) + b]
      BY <1>2, <1>3, <1>4, <2>0, <2>3 DEF IsSplice
    <3>2. i - a - Len(new) + b \in 1 .. Len(t)
      BY <1>1, <1>7, <2>0, <2>3
    <3>. QED BY <1>5, <3>1, <3>2
  <2>. QED BY <1>1, <2>0, <2>1, <2>2, <2>3
<1>9. t2 \in Seq(B) /\ Stands(ps2, text, splices, t2)
  BY <1>3, <1>4, <1>7, <1>8 DEF Stands, PS
<1>. QED BY <1>9 DEF a, b, new, PS, fresh, t2, ps2

\* The pieces stand for the text that undoing in turn leads to.
LEMMA PiecesStand ==
  ASSUME NEW B, NEW splices \in Seq(Putting(B)),
         NEW U \in [0 .. Len(splices) -> Seq(B)], Undoing(U, splices)
  PROVE  Stands(Pieces(U[0], splices), U[0], splices, U[Len(splices)])
<1>. DEFINE n == Len(splices)
            T == U[0]
            W(v, k) == Spliced(v, splices[n - k + 1].start, splices[n - k + 1].end,
                               Fresh(n - k + 1, Len(splices[n - k + 1].text)))
            P(f) == f = [k \in 0 .. n |-> IF k = 0 THEN Fresh(0, Len(T)) ELSE W(f[k - 1], k)]
            undo == CHOOSE f : P(f)
<1>0. n \in Nat /\ T \in Seq(B)
  BY LenProperties
<1>1. Pieces(T, splices) = undo[n]
  BY DEF Pieces, Fresh
\* There is such a function: one more piece sequence at a time.
<1>. DEFINE Good(f, m) ==
              /\ DOMAIN f = 0 .. m
              /\ f[0] = Fresh(0, Len(T))
              /\ \A k \in 1 .. m : f[k] = W(f[k - 1], k)
              /\ \A k \in 0 .. m : Stands(f[k], T, splices, U[k])
            S == {m \in Nat : m <= n => \E f : f = [k \in 0 .. m |-> f[k]] /\ Good(f, m)}
<1>. HIDE DEF W
<1>2. 0 \in S
  <2>. DEFINE f == [k \in 0 .. 0 |-> Fresh(0, Len(T))]
  <2>1. Stands(Fresh(0, Len(T)), T, splices, T)
    BY <1>0, StandsAtFirst
  <2>2. f = [k \in 0 .. 0 |-> f[k]] /\ DOMAIN f = 0 .. 0 /\ f[0] = Fresh(0, Len(T))
    OBVIOUS
  <2>3. \A k \in 0 .. 0 : k = 0
    OBVIOUS
  <2>. HIDE DEF f
  <2>4. Good(f, 0)
    BY <2>1, <2>2, <2>3
  <2>. HIDE DEF Good
  <2>. QED BY <2>2, <2>4
<1>3. ASSUME NEW m \in Nat, m \in S PROVE m + 1 \in S
  <2>1. SUFFICES ASSUME m + 1 <= n
                 PROVE  \E f : f = [k \in 0 .. m + 1 |-> f[k]] /\ Good(f, m + 1)
    OBVIOUS
  <2>2. PICK f : Good(f, m)
    BY <1>0, <1>3, <2>1
  <2>. DEFINE g == [k \in 0 .. m + 1 |-> IF k = m + 1 THEN W(f[m], m + 1) ELSE f[k]]
  <2>3. /\ DOMAIN g = 0 .. m + 1 /\ g[m + 1] = W(f[m], m + 1)
        /\ \A k \in 0 .. m : g[k] = f[k]
    OBVIOUS
  <2>4. g = [k \in 0 .. m + 1 |-> g[k]]
    OBVIOUS
  <2>. HIDE DEF g
  <2>5. g[0] = Fresh(0, Len(T))
    BY <2>2, <2>3
  <2>6. \A k \in 1 .. m + 1 : g[k] = W(g[k - 1], k)
    <3>1. ASSUME NEW k \in 1 .. m + 1 PROVE g[k] = W(g[k - 1], k)
      <4>1. CASE k = m + 1
        BY <2>3, <4>1
      <4>2. CASE k # m + 1
        <5>1. k \in 1 .. m /\ k \in 0 .. m /\ k - 1 \in 0 .. m
          BY <4>2
        <5>. QED BY <2>2, <2>3, <5>1
      <4>. QED BY <4>1, <4>2
    <3>. QED BY <3>1
  <2>7. Stands(W(f[m], m + 1), T, splices, U[m + 1])
    <3>. DEFINE j == n - (m + 1) + 1
                s == splices[j]
    <3>1. j \in 1 .. n /\ m + 1 \in 1 .. n /\ m \in 0 .. n /\ (m + 1) - 1 = m /\ m \in 0 .. m
      BY <1>0, <2>1
    <3>2. U[m] \in Seq(B) /\ Stands(f[m], T, splices, U[m])
      BY <2>2, <3>1
    <3>3. s.start <= s.end /\ s.end <= Len(U[m])
          /\ U[m + 1] = Spliced(U[m], s.start, s.end, s.text)
      BY <3>1 DEF Undoing
    <3>4. W(f[m], m + 1) = Spliced(f[m], s.start, s.end, Fresh(j, Len(s.text)))
      BY DEF W
    <3>5. PICK x : x = s
      OBVIOUS
    <3>. HIDE DEF s, j
    <3>6. Stands(Spliced(f[m], x.start, x.end, Fresh(j, Len(x.text))), T, splices,
                 Spliced(U[m], x.start, x.end, x.text))
      <4>1. x = splices[j]
        BY <3>5 DEF s
      <4>. QED BY <1>0, <3>1, <3>2, <3>3, <3>5, <4>1, StandsAfter
    <3>. QED BY <3>3, <3>4, <3>5, <3>6
  <2>8. \A k \in 0 .. m + 1 : Stands(g[k], T, splices, U[k])
    <3>1. ASSUME NEW k \in 0 .. m + 1 PROVE Stands(g[k], T, splices, U[k])
      <4>1. CASE k = m + 1
        BY <2>3, <2>7, <4>1
      <4>2. CASE k # m + 1
        <5>1. k \in 0 .. m
          BY <4>2
        <5>. QED BY <2>2, <2>3, <5>1
      <4>. QED BY <4>1, <4>2
    <3>. QED BY <3>1
  <2>9. Good(g, m + 1)
    BY <2>3, <2>5, <2>6, <2>8
  <2>. HIDE DEF Good
  <2>. QED BY <2>4, <2>9
<1>4. Nat \subseteq S
  <2>. HIDE DEF S
  <2>. QED BY <1>2, <1>3, NatSet
<1>5. PICK f : f = [k \in 0 .. n |-> f[k]] /\ Good(f, n)
  <2>1. n <= n
    BY <1>0
  <2>. HIDE DEF Good
  <2>. QED BY <1>0, <1>4, <2>1
<1>6. P(f)
  <2>1. \A k \in 0 .. n : f[k] = IF k = 0 THEN Fresh(0, Len(T)) ELSE W(f[k - 1], k)
    <3>1. ASSUME NEW k \in 0 .. n
          PROVE  f[k] = IF k = 0 THEN Fresh(0, Len(T)) ELSE W(f[k - 1], k)
      <4>1. CASE k = 0
        BY <1>5, <4>1
      <4>2. CASE k # 0
        <5>1. k \in 1 .. n
          BY <1>0, <4>2
        <5>. QED BY <1>5, <4>2, <5>1
      <4>. QED BY <4>1, <4>2
    <3>. QED BY <3>1
  <2>. QED BY <1>5, <2>1
<1>7. P(undo)
  <2>. HIDE DEF P
  <2>. QED BY <1>6
<1>. HIDE DEF undo
<1>. DEFINE R == {k \in Nat : k <= n => undo[k] = f[k]}
<1>8. 0 \in R
  BY <1>0, <1>5, <1>7
<1>9. ASSUME NEW k \in Nat, k \in R PROVE k + 1 \in R
  <2>1. CASE k + 1 <= n
    <3>1. k + 1 \in 0 .. n /\ k + 1 # 0 /\ (k + 1) - 1 = k /\ k + 1 \in 1 .. n
      BY <1>0, <2>1
    <3>2. undo[k + 1] = W(undo[k], k + 1)
      BY <1>7, <3>1
    <3>3. f[k + 1] = W(f[k], k + 1)
      BY <1>5, <3>1
    <3>4. undo[k] = f[k]
      BY <1>0, <1>9, <2>1
    <3>. QED BY <3>2, <3>3, <3>4
  <2>2. CASE ~(k + 1 <= n)
    BY <2>2
  <2>. QED BY <2>1, <2>2
<1>10. Nat \subseteq R
  <2>. HIDE DEF R
  <2>. QED BY <1>8, <1>9, NatSet
<1>11. undo[n] = f[n]
  BY <1>0, <1>10
<1>12. Stands(f[n], T, splices, U[n])
  BY <1>0, <1>5
<1>. QED BY <1>1, <1>11, <1>12

\* The one splice that a group is undone with is within the text it is applied to,
\* and leads where undoing its splices in turn leads.
LEMMA MaterializedUndoes ==
  ASSUME NEW B, NEW splices \in Seq(Putting(B)),
         NEW U \in [0 .. Len(splices) -> Seq(B)], Undoing(U, splices),
         NEW s, s = Materialized(U[0], splices), s.start <= s.end
  PROVE  /\ s \in Putting(B) /\ s.end <= Len(U[0])
         /\ Spliced(U[0], s.start, s.end, s.text) = U[Len(splices)]
<1>. DEFINE n == Len(splices)
            text == U[0]
            t == U[n]
            ps == Pieces(text, splices)
            Q == {k \in 0 .. Len(ps) : \A i \in 1 .. k : ps[i] = [step |-> 0, at |-> i]}
            prefix == Max(Q)
            R == {k \in 0 .. Len(ps) - prefix :
                    \A i \in 0 .. k - 1 : ps[Len(ps) - i] = [step |-> 0, at |-> Len(text) - i]}
            suffix == Max(R)
            middle == SubSeq(ps, prefix + 1, Len(ps) - suffix)
            new == [i \in 1 .. Len(middle) |-> ByteOf(text, splices, middle[i])]
<1>1. n \in Nat /\ text \in Seq(B) /\ t \in Seq(B) /\ Len(text) \in Nat /\ Len(t) \in Nat
  BY LenProperties
<1>2. s = [start |-> prefix, end |-> Len(text) - suffix, text |-> new]
  BY Zenon DEF Materialized, ByteOf
<1>3. /\ ps \in Seq(PieceSet(text, splices)) /\ Len(ps) = Len(t)
      /\ \A i \in 1 .. Len(t) : ByteOf(text, splices, ps[i]) = t[i]
  BY PiecesStand DEF Stands
<1>. HIDE DEF ps
<1>4. prefix \in 0 .. Len(t) /\ \A i \in 1 .. prefix : ps[i] = [step |-> 0, at |-> i]
  <2>1. 0 \in Q /\ Q \subseteq 0 .. Len(t)
    BY <1>1, <1>3
  <2>2. prefix \in Q
    <3>. HIDE DEF Q
    <3>. QED BY <1>1, <2>1, MaxIn
  <2>. HIDE DEF prefix
  <2>. QED BY <1>3, <2>2
<1>. HIDE DEF prefix
<1>5. /\ suffix \in 0 .. Len(t) - prefix
      /\ \A i \in 0 .. suffix - 1 : ps[Len(t) - i] = [step |-> 0, at |-> Len(text) - i]
  <2>1. 0 \in R /\ R \subseteq 0 .. Len(t) - prefix /\ Len(t) - prefix \in Nat
    BY <1>1, <1>3, <1>4
  <2>2. suffix \in R
    <3>. HIDE DEF R
    <3>. QED BY <2>1, MaxIn
  <2>. HIDE DEF suffix
  <2>. QED BY <1>3, <2>2
<1>. HIDE DEF suffix
<1>6. \A i \in 1 .. Len(t) : ps[i] \in PieceSet(text, splices)
  BY <1>3, ElementOfSeq
<1>7. prefix <= Len(text)
  <2>1. CASE prefix = 0
    BY <1>1, <2>1
  <2>2. CASE prefix # 0
    <3>1. prefix \in 1 .. Len(t) /\ prefix \in 1 .. prefix
      BY <1>1, <1>4, <2>2
    <3>2. ps[prefix] = [step |-> 0, at |-> prefix]
      BY <1>4, <3>1
    <3>3. [step |-> 0, at |-> prefix] \in PieceSet(text, splices)
      BY <1>6, <3>1, <3>2
    <3>4. prefix \in 1 .. Len(text)
      BY <3>3 DEF PieceSet
    <3>. QED BY <1>1, <3>4
  <2>. QED BY <2>1, <2>2
<1>8. suffix <= Len(text)
  <2>1. CASE suffix = 0
    BY <1>1, <2>1
  <2>2. CASE suffix # 0
    <3>. DEFINE i == suffix - 1
    <3>1. i \in 0 .. suffix - 1 /\ Len(t) - i \in 1 .. Len(t)
      BY <1>1, <1>4, <1>5, <2>2
    <3>2. ps[Len(t) - i] = [step |-> 0, at |-> Len(text) - i]
      BY <1>5, <3>1
    <3>3. [step |-> 0, at |-> Len(text) - i] \in PieceSet(text, splices)
      BY <1>6, <3>1, <3>2
    <3>4. Len(text) - i \in 1 .. Len(text)
      BY <3>3 DEF PieceSet
    <3>. QED BY <1>1, <1>5, <2>2, <3>4
  <2>. QED BY <2>1, <2>2
<1>. DEFINE e == Len(text) - suffix
            m == Len(t) - suffix
<1>9. prefix \in Nat /\ suffix \in Nat /\ e \in Nat /\ prefix <= e /\ e <= Len(text)
      /\ m \in Nat /\ prefix <= m /\ m <= Len(t)
  <2>1. s.start = prefix /\ s.end = e
    BY <1>2
  <2>. QED BY <1>1, <1>4, <1>5, <1>7, <1>8, <2>1
<1>10. /\ Len(middle) = m - prefix
       /\ \A i \in 1 .. m - prefix : middle[i] = ps[prefix + i]
  <2>1. middle = Bytes(ps, prefix, m)
    BY <1>3 DEF Bytes
  <2>2. Bytes(ps, prefix, m) \in Seq(PieceSet(text, splices))
        /\ Len(Bytes(ps, prefix, m)) = m - prefix
        /\ \A i \in 1 .. m - prefix : Bytes(ps, prefix, m)[i] = ps[prefix + i]
    <3>1. m <= Len(ps)
      BY <1>3, <1>9
    <3>. DEFINE PS == PieceSet(text, splices)
    <3>2. ps \in Seq(PS) /\ prefix \in Nat /\ m \in Nat /\ prefix <= m
      BY <1>3, <1>9
    <3>. HIDE DEF m, PS
    <3>3. Bytes(ps, prefix, m) \in Seq(PS) /\ Len(Bytes(ps, prefix, m)) = m - prefix
          /\ \A i \in 1 .. m - prefix : Bytes(ps, prefix, m)[i] = ps[prefix + i]
      BY <3>1, <3>2, SubSeqParts
    <3>. QED BY <3>3 DEF PS
  <2>. HIDE DEF middle, m
  <2>. QED BY <2>1, <2>2
<1>. HIDE DEF middle
<1>11. /\ new \in Seq(B) /\ Len(new) = m - prefix
       /\ \A i \in 1 .. m - prefix : new[i] = t[prefix + i]
  <2>1. ASSUME NEW i \in 1 .. m - prefix
        PROVE  ByteOf(text, splices, middle[i]) = t[prefix + i] /\ t[prefix + i] \in B
    <3>1. prefix + i \in 1 .. Len(t)
      BY <1>1, <1>9
    <3>2. t[prefix + i] \in B
      BY <1>1, <3>1, ElementOfSeq
    <3>. QED BY <1>3, <1>10, <3>1, <3>2
  <2>2. new \in [1 .. m - prefix -> B]
    BY <1>10, <2>1
  <2>3. m - prefix \in Nat
    BY <1>9
  <2>4. \A i \in 1 .. m - prefix : new[i] = t[prefix + i]
    BY <1>10, <2>1
  <2>. HIDE DEF new, m
  <2>. QED BY <2>2, <2>3, <2>4, FunctionSeq
<1>. HIDE DEF new
<1>. DEFINE out == Spliced(text, prefix, e, new)
<1>12. out \in Seq(B) /\ IsSplice(out, text, prefix, e, new)
  <2>. HIDE DEF e, text
  <2>. QED BY <1>1, <1>9, <1>11, SplicedParts
<1>. HIDE DEF out
<1>13. Len(out) = Len(t)
  BY <1>1, <1>9, <1>11, <1>12 DEF IsSplice
<1>14. ASSUME NEW i \in 1 .. Len(out) PROVE out[i] = t[i]
  <2>0. i \in 1 .. Len(t) /\ i \in Nat
    BY <1>13
  <2>1. CASE i <= prefix
    <3>1. out[i] = text[i]
      BY <1>12, <2>1 DEF IsSplice
    <3>2. ps[i] = [step |-> 0, at |-> i]
      BY <1>4, <1>9, <2>0, <2>1
    <3>3. ByteOf(text, splices, [step |-> 0, at |-> i]) = text[i]
      BY DEF ByteOf
    <3>. QED BY <1>3, <2>0, <3>1, <3>2, <3>3
  <2>2. CASE prefix < i /\ i <= m
    <3>1. prefix + Len(new) = m
      BY <1>9, <1>11
    <3>2. out[i] = new[i - prefix]
      BY <1>12, <2>2, <3>1 DEF IsSplice
    <3>3. i - prefix \in 1 .. m - prefix /\ prefix + (i - prefix) = i
      BY <1>9, <2>0, <2>2
    <3>. QED BY <1>11, <3>2, <3>3
  <2>3. CASE m < i
    <3>. DEFINE k == Len(t) - i
    <3>1. prefix + Len(new) < i
      BY <1>9, <1>11, <2>3
    <3>2. out[i] = text[i - prefix - Len(new) + e]
      BY <1>12, <3>1 DEF IsSplice
    <3>3. i - prefix - Len(new) + e = Len(text) - k /\ k \in 0 .. suffix - 1 /\ Len(t) - k = i
      BY <1>1, <1>9, <1>11, <2>0, <2>3
    <3>. HIDE DEF k
    <3>4. ps[i] = [step |-> 0, at |-> Len(text) - k]
      BY <1>5, <3>3
    <3>5. ByteOf(text, splices, [step |-> 0, at |-> Len(text) - k]) = text[Len(text) - k]
      BY DEF ByteOf
    <3>. QED BY <1>3, <2>0, <3>2, <3>3, <3>4, <3>5
  <2>. QED BY <1>9, <2>0, <2>1, <2>2, <2>3
<1>15. out = t
  BY <1>1, <1>12, <1>13, <1>14, SeqEqual
<1>16. s.start = prefix /\ s.end = e /\ s.text = new /\ s = [start |-> prefix, end |-> e, text |-> new]
  BY <1>2
<1>17. s \in Putting(B)
  BY <1>9, <1>11, <1>16 DEF Putting
<1>. QED BY <1>9, <1>15, <1>16, <1>17 DEF out

-----------------------------------------------------------------------------
(* The list of tokens, for any bytes B and owners O.                       *)

TokenOf(B, O) ==
  [applies : Nat, target : Nat, group : Nat, splices : Seq(Putting(B)),
   retained : Nat, owner : O, previous : Nat, next : Nat]

TypedHistory(h, B, O) ==
  /\ h \in [tokens : {h.tokens}, head : Nat, tail : Nat, used : Nat, count : Nat,
            evicted : SUBSET Nat, budget : Nat]
  /\ DOMAIN h.tokens \subseteq Nat \ {0} /\ IsFiniteSet(DOMAIN h.tokens)
  /\ IsFiniteSet(h.evicted)
  /\ h.tokens \in [DOMAIN h.tokens -> TokenOf(B, O)]

\* The least and the greatest of a set, or 0 of none; the neighbours of an element.
IsFirst(T, m) == IF T = {} THEN m = 0 ELSE m \in T /\ \A u \in T : m <= u
IsLast(T, m) == IF T = {} THEN m = 0 ELSE m \in T /\ \A u \in T : u <= m
IsNext(T, t, n) ==
  \/ n = 0 /\ \A u \in T : u <= t
  \/ n \in T /\ t < n /\ \A u \in T : u <= t \/ n <= u
IsPrevious(T, t, p) ==
  \/ p = 0 /\ \A u \in T : t <= u
  \/ p \in T /\ p < t /\ \A u \in T : t <= u \/ u <= p

\* The list is in the order of the handles: every link is to the neighbour.
Ordered(h) ==
  LET T == DOMAIN h.tokens IN
  /\ IsFirst(T, h.head) /\ IsLast(T, h.tail)
  /\ \A t \in T : IsNext(T, t, h.tokens[t].next) /\ IsPrevious(T, t, h.tokens[t].previous)

RetainedBy(h) == [t \in DOMAIN h.tokens |-> h.tokens[t].retained]

\* The counters are exact.
Charged(h) ==
  /\ h.count = Cardinality(DOMAIN h.tokens)
  /\ h.used = Weight(RetainedBy(h), DOMAIN h.tokens)

Chain(h, B, O) == TypedHistory(h, B, O) /\ Ordered(h) /\ Charged(h)

\* Two histories whose tokens on S differ in their links at most.
SameTokens(g, h, S) ==
  \A u \in S : /\ g.tokens[u].applies = h.tokens[u].applies
               /\ g.tokens[u].target = h.tokens[u].target
               /\ g.tokens[u].group = h.tokens[u].group
               /\ g.tokens[u].splices = h.tokens[u].splices
               /\ g.tokens[u].retained = h.tokens[u].retained
               /\ g.tokens[u].owner = h.tokens[u].owner

\* A list without one of its tokens.
DetachedFrom(d, h, t, B, O) ==
  /\ Chain(d, B, O)
  /\ DOMAIN d.tokens = DOMAIN h.tokens \ {t}
  /\ SameTokens(d, h, DOMAIN h.tokens \ {t})
  /\ d.budget = h.budget /\ d.evicted = h.evicted
  /\ d.count = h.count - 1
  /\ d.used = h.used - h.tokens[t].retained
  /\ d.used \in Nat /\ h.used \in Nat /\ h.tokens[t].retained \in Nat

LEMMA DetachKeeps ==
  ASSUME NEW B, NEW O, NEW h, Chain(h, B, O), NEW t \in DOMAIN h.tokens,
         NEW d, d = Detach(h, t)
  PROVE  DetachedFrom(d, h, t, B, O)
<1>. DEFINE T == DOMAIN h.tokens
            x == h.tokens[t]
            p == x.previous
            n == x.next
            D == T \ {t}
<1>0. TypedHistory(h, B, O) /\ Ordered(h) /\ Charged(h)
  BY DEF Chain
<1>1. /\ T \subseteq Nat \ {0} /\ IsFiniteSet(T) /\ \A u \in T : h.tokens[u] \in TokenOf(B, O)
      /\ h.head \in Nat /\ h.tail \in Nat /\ h.used \in Nat /\ h.count \in Nat
      /\ h.budget \in Nat /\ h.evicted \in SUBSET Nat /\ IsFiniteSet(h.evicted)
  BY <1>0 DEF TypedHistory
<1>2. p \in Nat /\ n \in Nat /\ x.retained \in Nat
  <2>1. x \in TokenOf(B, O)
    BY <1>1
  <2>. HIDE DEF x
  <2>. QED BY <2>1 DEF TokenOf
<1>3. /\ d.tokens = [u \in D |-> [h.tokens[u] EXCEPT !.next = IF u = p THEN n ELSE @,
                                                     !.previous = IF u = n THEN p ELSE @]]
      /\ d.head = IF h.head = t THEN n ELSE h.head
      /\ d.tail = IF h.tail = t THEN p ELSE h.tail
      /\ d.used = h.used - x.retained
      /\ d.count = h.count - 1
      /\ d.evicted = h.evicted /\ d.budget = h.budget
      /\ d = [tokens |-> d.tokens, head |-> d.head, tail |-> d.tail, used |-> d.used,
              count |-> d.count, evicted |-> d.evicted, budget |-> d.budget]
  <2>. DEFINE ts == [u \in D |-> [h.tokens[u] EXCEPT !.next = IF u = p THEN n ELSE @,
                                                     !.previous = IF u = n THEN p ELSE @]]
  <2>1. d = [h EXCEPT !.tokens = ts, !.head = IF @ = t THEN n ELSE @,
                      !.tail = IF @ = t THEN p ELSE @,
                      !.used = @ - x.retained, !.count = @ - 1]
    BY DEF Detach
  <2>2. h \in [tokens : {h.tokens}, head : Nat, tail : Nat, used : Nat, count : Nat,
               evicted : SUBSET Nat, budget : Nat]
    BY <1>0 DEF TypedHistory
  <2>. HIDE DEF ts, n, p, x
  <2>3. /\ d.tokens = ts
        /\ d.head = IF h.head = t THEN n ELSE h.head
        /\ d.tail = IF h.tail = t THEN p ELSE h.tail
        /\ d.used = h.used - x.retained
        /\ d.count = h.count - 1
        /\ d.evicted = h.evicted /\ d.budget = h.budget
        /\ d = [tokens |-> d.tokens, head |-> d.head, tail |-> d.tail, used |-> d.used,
                count |-> d.count, evicted |-> d.evicted, budget |-> d.budget]
    BY <2>1, <2>2
  <2>. QED BY <2>3, Zenon DEF ts
<1>4. IsNext(T, t, n) /\ IsPrevious(T, t, p) /\ IsFirst(T, h.head) /\ IsLast(T, h.tail)
  BY <1>0 DEF Ordered
<1>. HIDE DEF x, n, p
<1>5. DOMAIN d.tokens = D
  BY <1>3, Zenon
<1>6. ASSUME NEW u \in D
      PROVE  /\ d.tokens[u] \in TokenOf(B, O)
             /\ d.tokens[u].next = IF u = p THEN n ELSE h.tokens[u].next
             /\ d.tokens[u].previous = IF u = n THEN p ELSE h.tokens[u].previous
             /\ d.tokens[u].applies = h.tokens[u].applies
             /\ d.tokens[u].target = h.tokens[u].target
             /\ d.tokens[u].group = h.tokens[u].group
             /\ d.tokens[u].splices = h.tokens[u].splices
             /\ d.tokens[u].retained = h.tokens[u].retained
             /\ d.tokens[u].owner = h.tokens[u].owner
  <2>. DEFINE y == h.tokens[u]
              np == IF u = p THEN n ELSE y.next
              pn == IF u = n THEN p ELSE y.previous
  <2>1. y \in TokenOf(B, O)
    BY <1>1
  <2>2. d.tokens[u] = [y EXCEPT !.next = np, !.previous = pn]
    BY <1>3, <2>1, Zenon DEF TokenOf
  <2>. HIDE DEF y
  <2>3. np \in Nat /\ pn \in Nat
    BY <1>2, <2>1 DEF TokenOf
  <2>. HIDE DEF np, pn
  <2>4. /\ d.tokens[u] \in TokenOf(B, O) /\ d.tokens[u].next = np /\ d.tokens[u].previous = pn
        /\ d.tokens[u].applies = y.applies /\ d.tokens[u].target = y.target
        /\ d.tokens[u].group = y.group /\ d.tokens[u].splices = y.splices
        /\ d.tokens[u].retained = y.retained /\ d.tokens[u].owner = y.owner
    BY <2>1, <2>2, <2>3 DEF TokenOf
  <2>. QED BY <2>4 DEF y, np, pn
<1>7. SameTokens(d, h, D)
  BY <1>6 DEF SameTokens
<1>8. /\ IsFiniteSet(D) /\ Cardinality(D) = Cardinality(T) - 1
  BY <1>1, FS_RemoveElement
<1>9. d.used = Weight(RetainedBy(d), D) /\ d.used \in Nat
  <2>1. Weight(RetainedBy(h), T) = Weight(RetainedBy(h), D) + RetainedBy(h)[t]
        /\ Weight(RetainedBy(h), D) \in Nat
    <3>1. \A u \in T : RetainedBy(h)[u] \in Nat
      BY <1>1 DEF RetainedBy, TokenOf
    <3>. QED BY <1>1, <3>1, WeightSplit
  <2>2. RetainedBy(h)[t] = x.retained
    BY DEF RetainedBy, x
  <2>3. Weight(RetainedBy(h), D) = Weight(RetainedBy(d), D)
    <3>1. \A u \in D : RetainedBy(h)[u] = RetainedBy(d)[u]
      BY <1>5, <1>6 DEF RetainedBy
    <3>. HIDE DEF D
    <3>. QED BY <3>1, WeightSame
  <2>4. h.used = Weight(RetainedBy(h), T)
    BY <1>0 DEF Charged
  <2>6. d.used = h.used - x.retained
    BY <1>3, Zenon
  <2>5. h.used = Weight(RetainedBy(d), D) + x.retained /\ Weight(RetainedBy(d), D) \in Nat
    BY <2>1, <2>2, <2>3, <2>4
  <2>. HIDE DEF D
  <2>. QED BY <1>2, <2>5, <2>6
<1>10. d.count = Cardinality(D) /\ d.count \in Nat
  <2>1. h.count = Cardinality(T)
    BY <1>0 DEF Charged
  <2>2. Cardinality(D) \in Nat
    BY <1>8, FS_CardinalityType
  <2>3. d.count = h.count - 1
    BY <1>3, Zenon
  <2>4. d.count = Cardinality(D)
    BY <1>8, <2>1, <2>3
  <2>. QED BY <2>2, <2>4
<1>11. Charged(d)
  BY <1>5, <1>9, <1>10 DEF Charged
<1>12. IsFirst(D, d.head)
  <2>0. d.head = IF h.head = t THEN n ELSE h.head
    BY <1>3, Zenon
  <2>1. CASE h.head # t
    BY <1>1, <1>4, <2>0, <2>1 DEF IsFirst
  <2>2. CASE h.head = t
    <3>1. d.head = n /\ \A u \in T : t <= u
      BY <1>4, <2>0, <2>2 DEF IsFirst
    <3>2. CASE n = 0
      BY <1>1, <1>4, <3>1, <3>2 DEF IsFirst, IsNext
    <3>3. CASE n # 0
      BY <1>1, <1>4, <3>1, <3>3 DEF IsFirst, IsNext
    <3>. QED BY <3>2, <3>3
  <2>. QED BY <2>1, <2>2
<1>13. IsLast(D, d.tail)
  <2>0. d.tail = IF h.tail = t THEN p ELSE h.tail
    BY <1>3, Zenon
  <2>1. CASE h.tail # t
    BY <1>1, <1>4, <2>0, <2>1 DEF IsLast
  <2>2. CASE h.tail = t
    <3>1. d.tail = p /\ \A u \in T : u <= t
      BY <1>4, <2>0, <2>2 DEF IsLast
    <3>2. CASE p = 0
      BY <1>1, <1>4, <3>1, <3>2 DEF IsLast, IsPrevious
    <3>3. CASE p # 0
      BY <1>1, <1>4, <3>1, <3>3 DEF IsLast, IsPrevious
    <3>. QED BY <3>2, <3>3
  <2>. QED BY <2>1, <2>2
<1>14. ASSUME NEW u \in D PROVE IsNext(D, u, d.tokens[u].next)
  <2>1. IsNext(T, u, h.tokens[u].next) /\ IsPrevious(T, t, p)
    BY <1>0 DEF Ordered, p, x
  <2>2. CASE u = p
    BY <1>1, <1>4, <1>6, <2>2 DEF IsNext, IsPrevious
  <2>3. CASE u # p
    <3>1. h.tokens[u].next # t
      BY <1>1, <1>4, <2>1, <2>3 DEF IsNext, IsPrevious
    <3>. QED BY <1>6, <2>1, <2>3, <3>1 DEF IsNext
  <2>. QED BY <2>2, <2>3
<1>15. ASSUME NEW u \in D PROVE IsPrevious(D, u, d.tokens[u].previous)
  <2>1. IsPrevious(T, u, h.tokens[u].previous)
    BY <1>0 DEF Ordered
  <2>2. CASE u = n
    BY <1>1, <1>4, <1>6, <2>2 DEF IsNext, IsPrevious
  <2>3. CASE u # n
    <3>1. h.tokens[u].previous # t
      BY <1>1, <1>4, <2>1, <2>3 DEF IsNext, IsPrevious
    <3>. QED BY <1>6, <2>1, <2>3, <3>1 DEF IsPrevious
  <2>. QED BY <2>2, <2>3
<1>16. Ordered(d)
  BY <1>5, <1>12, <1>13, <1>14, <1>15 DEF Ordered
<1>17. TypedHistory(d, B, O)
  <2>1. d.head \in Nat /\ d.tail \in Nat
    BY <1>1, <1>2, <1>3, Zenon
  <2>2. d \in [tokens : {d.tokens}, head : Nat, tail : Nat, used : Nat, count : Nat,
               evicted : SUBSET Nat, budget : Nat]
    BY <1>1, <1>3, <1>9, <1>10, <2>1, Zenon
  <2>3. d.tokens \in [DOMAIN d.tokens -> TokenOf(B, O)]
    BY <1>3, <1>5, <1>6, Zenon
  <2>. QED BY <1>1, <1>3, <1>5, <1>8, <2>2, <2>3, Zenon DEF TypedHistory
<1>. QED BY <1>1, <1>2, <1>3, <1>5, <1>7, <1>9, <1>11, <1>16, <1>17, Zenon DEF Chain, x, DetachedFrom

\* What a new token brings; its links are made by the list.
TokenParts(x, B, O) ==
  /\ x.applies \in Nat /\ x.target \in Nat /\ x.group \in Nat
  /\ x.splices \in Seq(Putting(B)) /\ x.retained \in Nat /\ x.owner \in O

\* A list with a new token at its tail.
LinkedTo(l, h, t, x, B, O) ==
  /\ Chain(l, B, O)
  /\ DOMAIN l.tokens = DOMAIN h.tokens \cup {t}
  /\ SameTokens(l, h, DOMAIN h.tokens)
  /\ l.tokens[t].applies = x.applies /\ l.tokens[t].target = x.target
  /\ l.tokens[t].group = x.group /\ l.tokens[t].splices = x.splices
  /\ l.tokens[t].retained = x.retained /\ l.tokens[t].owner = x.owner
  /\ l.tail = t /\ l.budget = h.budget /\ l.evicted = h.evicted
  /\ l.used = h.used + x.retained /\ h.used \in Nat

LEMMA LinkedKeeps ==
  ASSUME NEW B, NEW O, NEW h, Chain(h, B, O), NEW t \in Nat \ {0},
         \A u \in DOMAIN h.tokens : u < t,
         NEW x, TokenParts(x, B, O), NEW l, l = Linked(h, t, x)
  PROVE  LinkedTo(l, h, t, x, B, O)
<1>. DEFINE T == DOMAIN h.tokens
            D == T \cup {t}
            z == [applies |-> x.applies, target |-> x.target, group |-> x.group,
                  splices |-> x.splices, retained |-> x.retained, owner |-> x.owner,
                  previous |-> h.tail, next |-> 0]
            ts == [u \in D |-> IF u = t THEN z
                               ELSE [h.tokens[u] EXCEPT !.next = IF u = h.tail THEN t ELSE @]]
<1>0. TypedHistory(h, B, O) /\ Ordered(h) /\ Charged(h)
  BY DEF Chain
<1>1. /\ T \subseteq Nat \ {0} /\ IsFiniteSet(T) /\ \A u \in T : h.tokens[u] \in TokenOf(B, O)
      /\ h.head \in Nat /\ h.tail \in Nat /\ h.used \in Nat /\ h.count \in Nat
      /\ h.budget \in Nat /\ h.evicted \in SUBSET Nat /\ IsFiniteSet(h.evicted)
  BY <1>0 DEF TypedHistory
<1>2. /\ x.retained \in Nat /\ t \notin T /\ z \in TokenOf(B, O)
  BY <1>1 DEF TokenParts, TokenOf
<1>3. /\ l.tokens = ts
      /\ l.head = IF h.head = 0 THEN t ELSE h.head
      /\ l.tail = t
      /\ l.used = h.used + x.retained
      /\ l.count = h.count + 1
      /\ l.evicted = h.evicted /\ l.budget = h.budget
      /\ l = [tokens |-> l.tokens, head |-> l.head, tail |-> l.tail, used |-> l.used,
              count |-> l.count, evicted |-> l.evicted, budget |-> l.budget]
  <2>1. l = [h EXCEPT !.tokens = ts, !.head = IF @ = 0 THEN t ELSE @, !.tail = t,
                      !.used = @ + x.retained, !.count = @ + 1]
    BY DEF Linked
  <2>2. h \in [tokens : {h.tokens}, head : Nat, tail : Nat, used : Nat, count : Nat,
               evicted : SUBSET Nat, budget : Nat]
    BY <1>0 DEF TypedHistory
  <2>. HIDE DEF ts
  <2>. QED BY <2>1, <2>2
<1>4. IsFirst(T, h.head) /\ IsLast(T, h.tail)
  BY <1>0 DEF Ordered
<1>5. DOMAIN l.tokens = D /\ l.tokens[t] = z
  BY <1>3
<1>6. /\ z.applies = x.applies /\ z.target = x.target /\ z.group = x.group
      /\ z.splices = x.splices /\ z.retained = x.retained /\ z.owner = x.owner
      /\ z.previous = h.tail /\ z.next = 0
  OBVIOUS
<1>. HIDE DEF z
<1>7. ASSUME NEW u \in T
      PROVE  /\ l.tokens[u] \in TokenOf(B, O)
             /\ l.tokens[u].next = IF u = h.tail THEN t ELSE h.tokens[u].next
             /\ l.tokens[u].previous = h.tokens[u].previous
             /\ l.tokens[u].applies = h.tokens[u].applies
             /\ l.tokens[u].target = h.tokens[u].target
             /\ l.tokens[u].group = h.tokens[u].group
             /\ l.tokens[u].splices = h.tokens[u].splices
             /\ l.tokens[u].retained = h.tokens[u].retained
             /\ l.tokens[u].owner = h.tokens[u].owner
  <2>. DEFINE y == h.tokens[u]
              nn == IF u = h.tail THEN t ELSE y.next
  <2>1. y \in TokenOf(B, O)
    BY <1>1
  <2>2. l.tokens[u] = [y EXCEPT !.next = nn]
    BY <1>2, <1>3, <2>1 DEF TokenOf
  <2>. HIDE DEF y
  <2>3. nn \in Nat
    BY <2>1 DEF TokenOf
  <2>. HIDE DEF nn
  <2>4. /\ l.tokens[u] \in TokenOf(B, O) /\ l.tokens[u].next = nn
        /\ l.tokens[u].previous = y.previous
        /\ l.tokens[u].applies = y.applies /\ l.tokens[u].target = y.target
        /\ l.tokens[u].group = y.group /\ l.tokens[u].splices = y.splices
        /\ l.tokens[u].retained = y.retained /\ l.tokens[u].owner = y.owner
    BY <2>1, <2>2, <2>3 DEF TokenOf
  <2>. QED BY <2>4 DEF y, nn
<1>8. SameTokens(l, h, T)
  BY <1>7 DEF SameTokens
<1>9. IsFiniteSet(D) /\ Cardinality(D) = Cardinality(T) + 1
  BY <1>1, <1>2, FS_AddElement
<1>10. l.used = Weight(RetainedBy(l), D) /\ l.used \in Nat
  <2>1. Weight(RetainedBy(l), D) = Weight(RetainedBy(l), D \ {t}) + RetainedBy(l)[t]
    <3>1. \A u \in D : RetainedBy(l)[u] \in Nat
      BY <1>2, <1>5, <1>7 DEF RetainedBy, TokenOf
    <3>2. t \in D
      OBVIOUS
    <3>. HIDE DEF D
    <3>. QED BY <1>9, <3>1, <3>2, WeightSplit
  <2>2. RetainedBy(l)[t] = x.retained /\ D \ {t} = T
    BY <1>2, <1>5, <1>6 DEF RetainedBy
  <2>3. Weight(RetainedBy(l), T) = Weight(RetainedBy(h), T)
    <3>1. \A u \in T : RetainedBy(l)[u] = RetainedBy(h)[u]
      BY <1>5, <1>7 DEF RetainedBy
    <3>. HIDE DEF T
    <3>. QED BY <3>1, WeightSame
  <2>4. h.used = Weight(RetainedBy(h), T)
    BY <1>0 DEF Charged
  <2>5. Weight(RetainedBy(l), D) = h.used + x.retained
    BY <2>1, <2>2, <2>3, <2>4
  <2>6. l.used = h.used + x.retained
    BY <1>3
  <2>. QED BY <1>1, <1>2, <2>5, <2>6
<1>11. l.count = Cardinality(D) /\ l.count \in Nat
  <2>1. h.count = Cardinality(T)
    BY <1>0 DEF Charged
  <2>2. Cardinality(D) \in Nat
    BY <1>9, FS_CardinalityType
  <2>3. l.count = h.count + 1
    BY <1>3
  <2>4. l.count = Cardinality(D)
    BY <1>9, <2>1, <2>3
  <2>. QED BY <2>2, <2>4
<1>12. Charged(l)
  BY <1>5, <1>10, <1>11 DEF Charged
<1>13. IsFirst(D, l.head)
  <2>1. l.head = IF h.head = 0 THEN t ELSE h.head
    BY <1>3
  <2>2. CASE T = {}
    BY <1>4, <2>1, <2>2 DEF IsFirst
  <2>3. CASE T # {}
    BY <1>1, <1>4, <2>1, <2>3 DEF IsFirst
  <2>. QED BY <2>2, <2>3
<1>14. IsLast(D, l.tail)
  <2>1. l.tail = t
    BY <1>3
  <2>. QED BY <1>1, <2>1 DEF IsLast
<1>15. ASSUME NEW u \in D PROVE IsNext(D, u, l.tokens[u].next)
  <2>1. CASE u = t
    BY <1>1, <1>5, <1>6, <2>1 DEF IsNext
  <2>2. CASE u \in T /\ u = h.tail
    <3>1. l.tokens[u].next = t /\ u < t /\ \A v \in T : v <= u
      BY <1>4, <1>7, <2>2 DEF IsLast
    <3>. QED BY <1>1, <3>1 DEF IsNext
  <2>3. CASE u \in T /\ u # h.tail
    <3>1. l.tokens[u].next = h.tokens[u].next /\ IsNext(T, u, h.tokens[u].next)
      BY <1>0, <1>7, <2>3 DEF Ordered
    <3>2. \E v \in T : ~(v <= u)
      BY <1>1, <1>4, <2>3 DEF IsLast
    <3>. QED BY <1>1, <3>1, <3>2 DEF IsNext
  <2>. QED BY <2>1, <2>2, <2>3
<1>16. ASSUME NEW u \in D PROVE IsPrevious(D, u, l.tokens[u].previous)
  <2>1. CASE u = t
    <3>1. l.tokens[u].previous = h.tail
      BY <1>5, <1>6, <2>1
    <3>. QED BY <1>1, <1>4, <2>1, <3>1 DEF IsPrevious, IsLast
  <2>2. CASE u \in T
    <3>1. l.tokens[u].previous = h.tokens[u].previous /\ IsPrevious(T, u, h.tokens[u].previous)
      BY <1>0, <1>7, <2>2 DEF Ordered
    <3>. QED BY <1>1, <2>2, <3>1 DEF IsPrevious
  <2>. QED BY <2>1, <2>2
<1>17. Ordered(l)
  BY <1>5, <1>13, <1>14, <1>15, <1>16 DEF Ordered
<1>18. TypedHistory(l, B, O)
  <2>1. l.head \in Nat /\ l.tail \in Nat
    BY <1>1, <1>3
  <2>2. l \in [tokens : {l.tokens}, head : Nat, tail : Nat, used : Nat, count : Nat,
               evicted : SUBSET Nat, budget : Nat]
    BY <1>1, <1>3, <1>10, <1>11, <2>1
  <2>3. \A u \in D : l.tokens[u] \in TokenOf(B, O)
    BY <1>2, <1>5, <1>7
  <2>4. l.tokens \in [DOMAIN l.tokens -> TokenOf(B, O)]
    BY <1>3, <1>5, <2>3
  <2>5. D \subseteq Nat \ {0}
    BY <1>1
  <2>. QED BY <1>1, <1>3, <1>5, <1>9, <2>2, <2>4, <2>5 DEF TypedHistory
<1>19. l.used = h.used + x.retained /\ l.tail = t /\ l.budget = h.budget /\ l.evicted = h.evicted
  BY <1>3
<1>. QED BY <1>1, <1>5, <1>6, <1>8, <1>12, <1>17, <1>18, <1>19 DEF Chain, LinkedTo

\* What is left of a list when tokens leave it.
Cut(d, h, B, O) ==
  /\ Chain(d, B, O)
  /\ DOMAIN d.tokens \subseteq DOMAIN h.tokens
  /\ SameTokens(d, h, DOMAIN d.tokens)
  /\ d.budget = h.budget

LEMMA CountsTokens ==
  ASSUME NEW B, NEW O, NEW h, Chain(h, B, O)
  PROVE  /\ h.count \in Nat /\ h.used \in Nat /\ h.budget \in Nat
         /\ h.count = 0 <=> DOMAIN h.tokens = {}
         /\ h.count = 0 => h.used = 0
         /\ DOMAIN h.tokens # {} => h.head \in DOMAIN h.tokens
<1>1. /\ h.count \in Nat /\ h.used \in Nat /\ h.budget \in Nat
      /\ IsFiniteSet(DOMAIN h.tokens) /\ h.count = Cardinality(DOMAIN h.tokens)
      /\ h.used = Weight(RetainedBy(h), DOMAIN h.tokens)
      /\ IsFirst(DOMAIN h.tokens, h.head)
  BY DEF Chain, TypedHistory, Charged, Ordered
<1>2. h.count = 0 <=> DOMAIN h.tokens = {}
  BY <1>1, FS_EmptySet
<1>3. h.count = 0 => h.used = 0
  BY <1>1, <1>2, WeightEmpty
<1>. QED BY <1>1, <1>2, <1>3 DEF IsFirst

LEMMA EvictOldestKeeps ==
  ASSUME NEW B, NEW O, NEW h, Chain(h, B, O), h.count # 0, NEW e, e = EvictOldest(h)
  PROVE  Cut(e, h, B, O) /\ e.count = h.count - 1
<1>. DEFINE t == h.head
            d == Detach(h, t)
            b == Buried(h, t)
<1>1. t \in DOMAIN h.tokens
  BY CountsTokens
<1>2. /\ Chain(d, B, O) /\ DOMAIN d.tokens = DOMAIN h.tokens \ {t}
      /\ SameTokens(d, h, DOMAIN h.tokens \ {t})
      /\ d.budget = h.budget /\ d.count = h.count - 1
  <2>1. d = Detach(h, t)
    OBVIOUS
  <2>. HIDE DEF d, t
  <2>2. DetachedFrom(d, h, t, B, O)
    BY <1>1, <2>1, DetachKeeps
  <2>. QED BY <2>2 DEF DetachedFrom
<1>3. b \in SUBSET Nat /\ IsFiniteSet(b)
  <2>1. h.evicted \in SUBSET Nat /\ IsFiniteSet(h.evicted) /\ t \in Nat
    BY <1>1 DEF Chain, TypedHistory
  <2>. DEFINE all == h.evicted \cup {t}
  <2>2. all \in SUBSET Nat /\ IsFiniteSet(all)
    BY <2>1, FS_AddElement
  <2>3. b \subseteq all
    BY DEF Buried
  <2>. HIDE DEF all, b
  <2>. QED BY <2>2, <2>3, FS_Subset
<1>4. e = [d EXCEPT !.evicted = b]
  BY DEF EvictOldest
<1>. HIDE DEF d, b
<1>5. d \in [tokens : {d.tokens}, head : Nat, tail : Nat, used : Nat, count : Nat,
             evicted : SUBSET Nat, budget : Nat]
  BY <1>2 DEF Chain, TypedHistory
<1>6. /\ e.tokens = d.tokens /\ e.head = d.head /\ e.tail = d.tail /\ e.used = d.used
      /\ e.count = d.count /\ e.budget = d.budget /\ e.evicted = b
      /\ e \in [tokens : {d.tokens}, head : Nat, tail : Nat, used : Nat, count : Nat,
                evicted : SUBSET Nat, budget : Nat]
  BY <1>3, <1>4, <1>5
<1>7. TypedHistory(e, B, O)
  BY <1>2, <1>3, <1>6 DEF Chain, TypedHistory
<1>8. Ordered(e)
  BY <1>2, <1>6 DEF Chain, Ordered
<1>9. Charged(e)
  <2>1. RetainedBy(e) = RetainedBy(d)
    BY <1>6 DEF RetainedBy
  <2>. QED BY <1>2, <1>6, <2>1 DEF Chain, Charged
<1>10. SameTokens(e, h, DOMAIN e.tokens)
  BY <1>2, <1>6 DEF SameTokens
<1>. QED BY <1>2, <1>6, <1>7, <1>8, <1>9, <1>10 DEF Chain, Cut

\* Evicting for some bytes that the budget could hold makes room for them.
LEMMA EvictForKeeps ==
  ASSUME NEW B, NEW O, NEW h, Chain(h, B, O),
         NEW bytes \in Nat, bytes <= h.budget, NEW e, e = EvictFor(h, bytes)
  PROVE  Cut(e, h, B, O) /\ e.used + bytes <= e.budget
<1>. DEFINE n == h.count
            P(f) == f = [k \in 0 .. n |-> IF k = 0 THEN h ELSE EvictOldest(f[k - 1])]
            after == CHOOSE f : P(f)
            Good(f, m) ==
              /\ DOMAIN f = 0 .. m
              /\ f[0] = h
              /\ \A k \in 1 .. m : f[k] = EvictOldest(f[k - 1])
              /\ \A k \in 0 .. m : Cut(f[k], h, B, O) /\ f[k].count = n - k
            S == {m \in Nat : m <= n => \E f : f = [k \in 0 .. m |-> f[k]] /\ Good(f, m)}
<1>0. n \in Nat /\ h.used \in Nat /\ h.budget \in Nat
  BY CountsTokens
<1>1. e = after[Min({k \in 0 .. n : Fits(after[k], bytes)})]
  BY DEF EvictFor
<1>2. 0 \in S
  <2>. DEFINE f == [k \in 0 .. 0 |-> h]
  <2>1. Cut(h, h, B, O)
    BY DEF Cut, SameTokens
  <2>2. f = [k \in 0 .. 0 |-> f[k]] /\ DOMAIN f = 0 .. 0 /\ f[0] = h
    OBVIOUS
  <2>3. (\A k \in 0 .. 0 : k = 0) /\ n - 0 = n
    BY <1>0
  <2>. HIDE DEF f
  <2>4. Good(f, 0)
    BY <2>1, <2>2, <2>3
  <2>. HIDE DEF Good
  <2>. QED BY <2>2, <2>4
<1>3. ASSUME NEW m \in Nat, m \in S PROVE m + 1 \in S
  <2>1. SUFFICES ASSUME m + 1 <= n
                 PROVE  \E f : f = [k \in 0 .. m + 1 |-> f[k]] /\ Good(f, m + 1)
    OBVIOUS
  <2>2. PICK f : Good(f, m)
    BY <1>0, <1>3, <2>1
  <2>. DEFINE g == [k \in 0 .. m + 1 |-> IF k = m + 1 THEN EvictOldest(f[m]) ELSE f[k]]
  <2>3. /\ DOMAIN g = 0 .. m + 1 /\ g[m + 1] = EvictOldest(f[m])
        /\ \A k \in 0 .. m : g[k] = f[k]
    OBVIOUS
  <2>4. g = [k \in 0 .. m + 1 |-> g[k]]
    OBVIOUS
  <2>. HIDE DEF g
  <2>5. g[0] = h
    BY <2>2, <2>3
  <2>6. \A k \in 1 .. m + 1 : g[k] = EvictOldest(g[k - 1])
    <3>1. ASSUME NEW k \in 1 .. m + 1 PROVE g[k] = EvictOldest(g[k - 1])
      <4>1. CASE k = m + 1
        BY <2>3, <4>1
      <4>2. CASE k # m + 1
        <5>1. k \in 1 .. m /\ k \in 0 .. m /\ k - 1 \in 0 .. m
          BY <4>2
        <5>. QED BY <2>2, <2>3, <5>1
      <4>. QED BY <4>1, <4>2
    <3>. QED BY <3>1
  <2>7. Cut(g[m + 1], h, B, O) /\ g[m + 1].count = n - (m + 1)
    <3>1. Cut(f[m], h, B, O) /\ f[m].count = n - m
      BY <2>2
    <3>2. f[m].count # 0 /\ Chain(f[m], B, O)
      BY <1>0, <2>1, <3>1 DEF Cut
    <3>3. Cut(g[m + 1], f[m], B, O) /\ g[m + 1].count = f[m].count - 1
      BY <2>3, <3>2, EvictOldestKeeps
    <3>4. Cut(g[m + 1], h, B, O)
      BY <3>1, <3>3 DEF Cut, SameTokens
    <3>. QED BY <1>0, <3>1, <3>3, <3>4
  <2>8. \A k \in 0 .. m + 1 : Cut(g[k], h, B, O) /\ g[k].count = n - k
    <3>1. ASSUME NEW k \in 0 .. m + 1 PROVE Cut(g[k], h, B, O) /\ g[k].count = n - k
      <4>1. CASE k = m + 1
        BY <2>7, <4>1
      <4>2. CASE k # m + 1
        <5>1. k \in 0 .. m
          BY <4>2
        <5>. QED BY <2>2, <2>3, <5>1
      <4>. QED BY <4>1, <4>2
    <3>. QED BY <3>1
  <2>9. Good(g, m + 1)
    BY <2>3, <2>5, <2>6, <2>8
  <2>. HIDE DEF Good
  <2>. QED BY <2>4, <2>9
<1>4. Nat \subseteq S
  <2>. HIDE DEF S
  <2>. QED BY <1>2, <1>3, NatSet
<1>5. PICK f : f = [k \in 0 .. n |-> f[k]] /\ Good(f, n)
  <2>1. n <= n
    BY <1>0
  <2>. HIDE DEF Good
  <2>. QED BY <1>0, <1>4, <2>1
<1>6. P(f)
  <2>1. \A k \in 0 .. n : f[k] = IF k = 0 THEN h ELSE EvictOldest(f[k - 1])
    <3>1. ASSUME NEW k \in 0 .. n
          PROVE  f[k] = IF k = 0 THEN h ELSE EvictOldest(f[k - 1])
      <4>1. CASE k = 0
        BY <1>5, <4>1
      <4>2. CASE k # 0
        <5>1. k \in 1 .. n
          BY <1>0, <4>2
        <5>. QED BY <1>5, <4>2, <5>1
      <4>. QED BY <4>1, <4>2
    <3>. QED BY <3>1
  <2>. QED BY <1>5, <2>1
<1>7. P(after)
  <2>. HIDE DEF P
  <2>. QED BY <1>6
<1>. HIDE DEF after
<1>. DEFINE R == {k \in Nat : k <= n => after[k] = f[k]}
<1>8. 0 \in R
  BY <1>0, <1>5, <1>7
<1>9. ASSUME NEW k \in Nat, k \in R PROVE k + 1 \in R
  <2>1. CASE k + 1 <= n
    <3>1. k + 1 \in 0 .. n /\ k + 1 # 0 /\ (k + 1) - 1 = k /\ k + 1 \in 1 .. n
      BY <1>0, <2>1
    <3>2. after[k + 1] = EvictOldest(after[k])
      BY <1>7, <3>1
    <3>3. f[k + 1] = EvictOldest(f[k])
      BY <1>5, <3>1
    <3>4. after[k] = f[k]
      BY <1>0, <1>9, <2>1
    <3>. QED BY <3>2, <3>3, <3>4
  <2>2. CASE ~(k + 1 <= n)
    BY <2>2
  <2>. QED BY <2>1, <2>2
<1>10. \A k \in 0 .. n : after[k] = f[k]
  <2>1. Nat \subseteq R
    <3>. HIDE DEF R
    <3>. QED BY <1>8, <1>9, NatSet
  <2>. QED BY <1>0, <2>1
<1>11. \A k \in 0 .. n : Cut(after[k], h, B, O) /\ after[k].count = n - k
  BY <1>5, <1>10
<1>. DEFINE enough == {k \in 0 .. n : Fits(after[k], bytes)}
<1>12. n \in enough
  <2>1. Cut(after[n], h, B, O) /\ after[n].count = 0 /\ n \in 0 .. n
    BY <1>0, <1>11
  <2>2. after[n].used = 0 /\ after[n].budget = h.budget
    BY <2>1, CountsTokens DEF Cut
  <2>. QED BY <1>0, <2>1, <2>2 DEF Fits
<1>13. Min(enough) \in enough
  <2>1. enough \subseteq Nat /\ enough # {}
    BY <1>0, <1>12
  <2>. HIDE DEF enough
  <2>. QED BY <2>1, MinIn
<1>14. \A k \in enough : Cut(after[k], h, B, O) /\ after[k].used + bytes <= after[k].budget
  BY <1>11 DEF Fits
<1>15. e = after[Min(enough)]
  BY <1>1
<1>. HIDE DEF enough
<1>. QED BY <1>13, <1>14, <1>15

\* A list one of whose tokens changed, its links aside.
Changed(g, h, t, z, B, O) ==
  /\ Chain(g, B, O)
  /\ DOMAIN g.tokens = DOMAIN h.tokens
  /\ \A u \in DOMAIN h.tokens \ {t} : g.tokens[u] = h.tokens[u]
  /\ g.tokens[t] = z
  /\ g.head = h.head /\ g.tail = h.tail /\ g.count = h.count
  /\ g.budget = h.budget /\ g.evicted = h.evicted
  /\ g.used = (h.used - h.tokens[t].retained) + z.retained
  /\ g.used \in Nat /\ h.used \in Nat /\ h.tokens[t].retained \in Nat

LEMMA ChangeKeeps ==
  ASSUME NEW B, NEW O, NEW h, Chain(h, B, O), NEW t \in DOMAIN h.tokens,
         NEW z \in TokenOf(B, O),
         z.next = h.tokens[t].next, z.previous = h.tokens[t].previous,
         NEW g, NEW v, g = [h EXCEPT !.tokens = [@ EXCEPT ![t] = z], !.used = v],
         v = (h.used - h.tokens[t].retained) + z.retained
  PROVE  Changed(g, h, t, z, B, O)
<1>. DEFINE T == DOMAIN h.tokens
            x == h.tokens[t]
            D == T \ {t}
            ts == [h.tokens EXCEPT ![t] = z]
<1>0. TypedHistory(h, B, O) /\ Ordered(h) /\ Charged(h)
  BY DEF Chain
<1>1. /\ T \subseteq Nat \ {0} /\ IsFiniteSet(T) /\ \A u \in T : h.tokens[u] \in TokenOf(B, O)
      /\ h.head \in Nat /\ h.tail \in Nat /\ h.used \in Nat /\ h.count \in Nat
      /\ h.budget \in Nat /\ h.evicted \in SUBSET Nat /\ IsFiniteSet(h.evicted)
  BY <1>0 DEF TypedHistory
<1>2. x.retained \in Nat /\ z.retained \in Nat
  <2>1. x \in TokenOf(B, O)
    BY <1>1
  <2>. HIDE DEF x
  <2>. QED BY <2>1 DEF TokenOf
<1>3. /\ g.tokens = ts /\ g.used = v
      /\ g.head = h.head /\ g.tail = h.tail /\ g.count = h.count
      /\ g.evicted = h.evicted /\ g.budget = h.budget
      /\ g = [tokens |-> g.tokens, head |-> g.head, tail |-> g.tail, used |-> g.used,
              count |-> g.count, evicted |-> g.evicted, budget |-> g.budget]
  <2>1. h \in [tokens : {h.tokens}, head : Nat, tail : Nat, used : Nat, count : Nat,
               evicted : SUBSET Nat, budget : Nat]
    BY <1>0 DEF TypedHistory
  <2>2. g = [h EXCEPT !.tokens = ts, !.used = v]
    OBVIOUS
  <2>. HIDE DEF ts
  <2>. QED BY <2>1, <2>2
<1>4. DOMAIN g.tokens = T /\ g.tokens[t] = z /\ \A u \in D : g.tokens[u] = h.tokens[u]
  BY <1>3
<1>. HIDE DEF x, ts
<1>5. g.used = Weight(RetainedBy(g), T) /\ g.used \in Nat
  <2>1. /\ Weight(RetainedBy(g), T) = Weight(RetainedBy(g), D) + RetainedBy(g)[t]
        /\ Weight(RetainedBy(g), D) \in Nat
    <3>1. \A u \in T : RetainedBy(g)[u] \in Nat
      BY <1>1, <1>2, <1>4 DEF RetainedBy, TokenOf
    <3>. QED BY <1>1, <3>1, WeightSplit
  <2>2. Weight(RetainedBy(h), T) = Weight(RetainedBy(h), D) + RetainedBy(h)[t]
    <3>1. \A u \in T : RetainedBy(h)[u] \in Nat
      BY <1>1 DEF RetainedBy, TokenOf
    <3>. QED BY <1>1, <3>1, WeightSplit
  <2>3. RetainedBy(h)[t] = x.retained /\ RetainedBy(g)[t] = z.retained
    BY <1>4 DEF RetainedBy, x
  <2>4. Weight(RetainedBy(h), D) = Weight(RetainedBy(g), D)
    <3>1. \A u \in D : RetainedBy(h)[u] = RetainedBy(g)[u]
      BY <1>4 DEF RetainedBy
    <3>. HIDE DEF D
    <3>. QED BY <3>1, WeightSame
  <2>5. h.used = Weight(RetainedBy(h), T)
    BY <1>0 DEF Charged
  <2>6. h.used = Weight(RetainedBy(g), D) + x.retained
    BY <2>2, <2>3, <2>4, <2>5
  <2>7. g.used = (h.used - x.retained) + z.retained
    BY <1>3 DEF x
  <2>8. g.used = Weight(RetainedBy(g), D) + z.retained
    <3>. HIDE DEF D
    <3>. QED BY <1>1, <1>2, <2>1, <2>6, <2>7
  <2>. HIDE DEF D
  <2>. QED BY <1>2, <2>1, <2>3, <2>8
<1>6. Charged(g)
  BY <1>0, <1>3, <1>4, <1>5 DEF Charged
<1>7. Ordered(g)
  <2>1. \A u \in T : g.tokens[u].next = h.tokens[u].next
                     /\ g.tokens[u].previous = h.tokens[u].previous
    BY <1>4
  <2>. QED BY <1>0, <1>3, <1>4, <2>1 DEF Ordered
<1>8. TypedHistory(g, B, O)
  <2>1. g \in [tokens : {g.tokens}, head : Nat, tail : Nat, used : Nat, count : Nat,
               evicted : SUBSET Nat, budget : Nat]
    BY <1>1, <1>3, <1>5
  <2>2. g.tokens \in [T -> TokenOf(B, O)]
    BY <1>0, <1>3 DEF TypedHistory, ts
  <2>. QED BY <1>1, <1>3, <1>4, <2>1, <2>2 DEF TypedHistory
<1>9. g.used = (h.used - x.retained) + z.retained
  BY <1>3 DEF x
<1>. QED BY <1>1, <1>2, <1>3, <1>4, <1>5, <1>6, <1>7, <1>8, <1>9 DEF Chain, Changed, x

-----------------------------------------------------------------------------
(* What a token is charged for.                                            *)

Lengths(splices) == [i \in 1 .. Len(splices) |-> Len(splices[i].text)]

HeldBytes(splices) ==
  TokenOverhead + SpliceOverhead * (Len(splices) - 1)
  + Weight(Lengths(splices), 1 .. Len(splices))

Paid(h) == \A t \in DOMAIN h.tokens : h.tokens[t].retained = HeldBytes(h.tokens[t].splices)

LEMMA LengthsTyped ==
  ASSUME NEW B, NEW splices \in Seq(Putting(B))
  PROVE  /\ Len(splices) \in Nat
         /\ IsFiniteSet(1 .. Len(splices))
         /\ \A i \in 1 .. Len(splices) :
              Lengths(splices)[i] = Len(splices[i].text) /\ Lengths(splices)[i] \in Nat
         /\ Weight(Lengths(splices), 1 .. Len(splices)) \in Nat
<1>1. Len(splices) \in Nat /\ IsFiniteSet(1 .. Len(splices))
  BY LenProperties, FS_Interval
<1>2. ASSUME NEW i \in 1 .. Len(splices)
      PROVE  Lengths(splices)[i] = Len(splices[i].text) /\ Lengths(splices)[i] \in Nat
  <2>1. splices[i] \in Putting(B)
    BY ElementOfSeq
  <2>2. splices[i].text \in Seq(B)
    BY <2>1 DEF Putting
  <2>3. Len(splices[i].text) \in Nat
    BY <2>2, LenProperties
  <2>. QED BY <2>3 DEF Lengths
<1>3. IsFiniteSet(Heap(Lengths(splices), 1 .. Len(splices)))
  BY <1>1, <1>2, HeapFinite
<1>. QED BY <1>1, <1>2, <1>3, FS_CardinalityType DEF Weight

LEMMA HeldAppend ==
  ASSUME NEW B, NEW splices \in Seq(Putting(B)), NEW s \in Putting(B)
  PROVE  /\ Append(splices, s) \in Seq(Putting(B))
         /\ Len(Append(splices, s)) = Len(splices) + 1
         /\ \A i \in 1 .. Len(splices) : Append(splices, s)[i] = splices[i]
         /\ Append(splices, s)[Len(splices) + 1] = s
         /\ Len(s.text) \in Nat
         /\ HeldBytes(Append(splices, s)) = (HeldBytes(splices) + SpliceOverhead) + Len(s.text)
         /\ HeldBytes(splices) \in Int
<1>. DEFINE n == Len(splices)
            r == Append(splices, s)
<1>1. n \in Nat
  BY LenProperties
<1>2. /\ r \in Seq(Putting(B)) /\ Len(r) = n + 1
      /\ \A i \in 1 .. n : r[i] = splices[i]
      /\ r[n + 1] = s
  BY <1>1
<1>. HIDE DEF r
<1>3. Lengths(r)[n + 1] = Len(s.text) /\ \A i \in 1 .. n : Lengths(r)[i] = Lengths(splices)[i]
  BY <1>1, <1>2 DEF Lengths
<1>4. (1 .. n + 1) \ {n + 1} = 1 .. n
  BY <1>1
<1>5. Weight(Lengths(r), 1 .. n + 1) = Weight(Lengths(r), (1 .. n + 1) \ {n + 1}) + Lengths(r)[n + 1]
      /\ Lengths(r)[n + 1] \in Nat
  <2>1. IsFiniteSet(1 .. n + 1) /\ \A i \in 1 .. n + 1 : Lengths(r)[i] \in Nat
    BY <1>2, LengthsTyped
  <2>2. n + 1 \in 1 .. n + 1
    BY <1>1
  <2>. QED BY <2>1, <2>2, WeightSplit
<1>6. Weight(Lengths(r), 1 .. n) = Weight(Lengths(splices), 1 .. n)
  BY <1>3, WeightSame
<1>7. Weight(Lengths(splices), 1 .. n) \in Nat
  BY LengthsTyped
<1>8. SpliceOverhead * ((n + 1) - 1) = SpliceOverhead * (n - 1) + SpliceOverhead
      /\ SpliceOverhead * (n - 1) \in Int
  <2>1. SpliceOverhead \in Nat
    BY HistoryAssumption
  <2>. QED BY <1>1, <2>1
<1>9. TokenOverhead \in Nat /\ SpliceOverhead \in Nat
  BY HistoryAssumption
<1>. DEFINE w == Weight(Lengths(splices), 1 .. n)
            c == Len(s.text)
<1>10. Weight(Lengths(r), 1 .. n + 1) = w + c /\ c \in Nat /\ w \in Nat
  BY <1>3, <1>4, <1>5, <1>6, <1>7
<1>11. HeldBytes(r) = TokenOverhead + SpliceOverhead * ((n + 1) - 1) + (w + c)
  BY <1>2, <1>10 DEF HeldBytes
<1>12. HeldBytes(splices) = TokenOverhead + SpliceOverhead * (n - 1) + w
  BY DEF HeldBytes
<1>13. HeldBytes(r) = (HeldBytes(splices) + SpliceOverhead) + c /\ HeldBytes(splices) \in Int
  <2>. HIDE DEF w, c
  <2>. QED BY <1>8, <1>9, <1>10, <1>11, <1>12
<1>. QED BY <1>2, <1>10, <1>13 DEF r

LEMMA HeldOne ==
  ASSUME NEW B, NEW s \in Putting(B)
  PROVE  /\ <<s>> \in Seq(Putting(B)) /\ Len(<<s>>) = 1 /\ <<s>>[1] = s
         /\ Len(s.text) \in Nat
         /\ HeldBytes(<<s>>) = TokenOverhead + Len(s.text)
<1>. DEFINE r == <<s>>
<1>1. r \in Seq(Putting(B)) /\ Len(r) = 1 /\ r[1] = s
  OBVIOUS
<1>. HIDE DEF r
<1>2. IsFiniteSet(1 .. 1) /\ \A i \in 1 .. 1 : Lengths(r)[i] = Len(r[i].text) /\ Lengths(r)[i] \in Nat
  BY <1>1, LengthsTyped
<1>3. Weight(Lengths(r), 1 .. 1) = Weight(Lengths(r), (1 .. 1) \ {1}) + Lengths(r)[1]
  <2>1. 1 \in 1 .. 1
    OBVIOUS
  <2>. QED BY <1>2, <2>1, WeightSplit
<1>4. (1 .. 1) \ {1} = {}
  OBVIOUS
<1>5. Lengths(r)[1] = Len(s.text) /\ Len(s.text) \in Nat
  BY <1>1, <1>2
<1>6. Weight(Lengths(r), 1 .. 1) = Len(s.text)
  <2>1. Weight(Lengths(r), {}) = 0
    BY WeightEmpty
  <2>2. Weight(Lengths(r), (1 .. 1) \ {1}) = 0
    BY <1>4, <2>1
  <2>3. Weight(Lengths(r), 1 .. 1) = 0 + Len(s.text)
    BY <1>3, <1>5, <2>2
  <2>. QED BY <1>5, <2>3
<1>7. SpliceOverhead * (1 - 1) = 0 /\ TokenOverhead \in Nat
  BY HistoryAssumption
<1>8. HeldBytes(r) = TokenOverhead + Len(s.text)
  BY <1>1, <1>5, <1>6, <1>7 DEF HeldBytes
<1>. QED BY <1>1, <1>5, <1>8 DEF r

-----------------------------------------------------------------------------
(* The history after an edit.                                              *)

\* Some tokens may have left.
Kept(g, h, B, O) == Cut(g, h, B, O) /\ g.used <= g.budget

\* Some may have left and one may have come.
Gained(g, h, t, x, B, O) ==
  /\ Chain(g, B, O) /\ g.budget = h.budget /\ g.used <= g.budget
  /\ DOMAIN g.tokens \subseteq DOMAIN h.tokens \cup {t}
  /\ SameTokens(g, h, DOMAIN g.tokens \ {t})
  /\ t \in DOMAIN g.tokens =>
       /\ g.tokens[t].applies = x.applies /\ g.tokens[t].target = x.target
       /\ g.tokens[t].group = x.group /\ g.tokens[t].splices = x.splices
       /\ g.tokens[t].retained = x.retained /\ g.tokens[t].owner = x.owner

\* One has another splice to undo.
Grown(g, h, t, applies, splice, B, O) ==
  /\ Chain(g, B, O) /\ g.budget = h.budget /\ g.used <= g.budget
  /\ DOMAIN g.tokens = DOMAIN h.tokens /\ t \in DOMAIN h.tokens
  /\ SameTokens(g, h, DOMAIN h.tokens \ {t})
  /\ g.tokens[t].applies = applies /\ g.tokens[t].target = h.tokens[t].target
  /\ g.tokens[t].group = h.tokens[t].group /\ g.tokens[t].owner = h.tokens[t].owner
  /\ g.tokens[t].splices = Append(h.tokens[t].splices, splice)
  /\ g.tokens[t].retained = (h.tokens[t].retained + SpliceOverhead) + Len(splice.text)

LEMMA SameTokensTrans ==
  ASSUME NEW g, NEW x, NEW h, NEW S, NEW R, NEW Q,
         SameTokens(g, x, S), SameTokens(x, h, R), Q \subseteq S, Q \subseteq R
  PROVE  SameTokens(g, h, Q)
BY DEF SameTokens

LEMMA RetainKeeps ==
  ASSUME NEW B, NEW O, NEW h, Chain(h, B, O), h.used <= h.budget, NEW t \in Nat \ {0},
         \A u \in DOMAIN h.tokens : u < t,
         NEW x, TokenParts(x, B, O), NEW g, g = Retain(h, t, x)
  PROVE  Gained(g, h, t, x, B, O)
<1>1. x.retained \in Nat /\ h.budget \in Nat
  BY CountsTokens DEF TokenParts
<1>2. CASE x.retained > h.budget
  <2>1. g = h /\ t \notin DOMAIN h.tokens
    BY <1>2 DEF Retain
  <2>. QED BY <2>1 DEF Gained, SameTokens
<1>3. CASE ~(x.retained > h.budget)
  <2>. DEFINE e == EvictFor(h, x.retained)
  <2>1. Cut(e, h, B, O) /\ e.used + x.retained <= e.budget
    <3>1. PICK n \in Nat : n = x.retained
      BY <1>1
    <3>2. PICK d : d = EvictFor(h, n)
      OBVIOUS
    <3>3. n <= h.budget
      BY <1>1, <1>3, <3>1
    <3>4. Cut(d, h, B, O) /\ d.used + n <= d.budget
      BY <3>2, <3>3, EvictForKeeps
    <3>. QED BY <3>1, <3>2, <3>4
  <2>2. g = Linked(e, t, x)
    BY <1>3 DEF Retain
  <2>. HIDE DEF e
  <2>3. LinkedTo(g, e, t, x, B, O)
    <3>1. Chain(e, B, O) /\ \A u \in DOMAIN e.tokens : u < t
      BY <2>1 DEF Cut
    <3>. QED BY <2>2, <3>1, LinkedKeeps
  <2>4. SameTokens(g, h, DOMAIN g.tokens \ {t})
    BY <2>1, <2>3 DEF Cut, LinkedTo, SameTokens
  <2>. QED BY <2>1, <2>3, <2>4 DEF Gained, Cut, LinkedTo
<1>. QED BY <1>2, <1>3

\* A reservation in a token of its own is given back whole, or receives the inverse.
LEMMA ReservedGivenBack ==
  ASSUME NEW B, NEW O, NEW h, Chain(h, B, O), h.used <= h.budget, NEW t \in Nat \ {0},
         \A u \in DOMAIN h.tokens : u < t,
         NEW x, LinkedTo(x, h, t, x.tokens[t], B, O), NEW g, g = Detach(x, t)
  PROVE  Kept(g, h, B, O) /\ DOMAIN g.tokens = DOMAIN h.tokens
<1>0. t \notin DOMAIN h.tokens
  <2>1. ~(t < t)
    OBVIOUS
  <2>. QED BY <2>1
<1>1. g = Detach(x, t) /\ t \in DOMAIN x.tokens /\ Chain(x, B, O)
  BY DEF LinkedTo
<1>2. DetachedFrom(g, x, t, B, O)
  BY <1>1, DetachKeeps
<1>3. DOMAIN g.tokens = DOMAIN h.tokens
  <2>1. DOMAIN g.tokens = DOMAIN x.tokens \ {t} /\ DOMAIN x.tokens = DOMAIN h.tokens \cup {t}
    BY <1>2 DEF DetachedFrom, LinkedTo
  <2>. QED BY <1>0, <2>1
<1>4. SameTokens(g, h, DOMAIN g.tokens)
  <2>1. SameTokens(g, x, DOMAIN x.tokens \ {t}) /\ SameTokens(x, h, DOMAIN h.tokens)
        /\ DOMAIN x.tokens = DOMAIN h.tokens \cup {t}
    BY <1>2 DEF DetachedFrom, LinkedTo
  <2>2. DOMAIN h.tokens \subseteq DOMAIN x.tokens \ {t}
    BY <1>0, <2>1
  <2>3. SameTokens(g, h, DOMAIN h.tokens)
    BY <2>1, <2>2, SameTokensTrans
  <2>. QED BY <1>3, <2>3
<1>5. g.used = h.used
  <2>1. g.used = x.used - x.tokens[t].retained /\ x.tokens[t].retained \in Nat
    BY <1>2 DEF DetachedFrom
  <2>2. x.used = h.used + x.tokens[t].retained /\ h.used \in Nat
    BY DEF LinkedTo
  <2>3. PICK r \in Nat : r = x.tokens[t].retained
    BY <2>1
  <2>4. g.used = (h.used + r) - r
    BY <2>1, <2>2, <2>3
  <2>5. (h.used + r) - r = h.used
    BY <2>2
  <2>. QED BY <2>4, <2>5
<1>6. g.budget = h.budget /\ Chain(g, B, O)
  BY <1>2 DEF DetachedFrom, LinkedTo
<1>. QED BY <1>3, <1>4, <1>5, <1>6 DEF Kept, Cut

\* A reservation is given back, or holds splices and gives back what they leave.
GivenBack(r, n) == [r EXCEPT !.tokens[r.tail].retained = @ - n, !.used = @ - n]

Received(r, n, applies, splices) ==
  [r EXCEPT !.tokens[r.tail] = [r.tokens[r.tail] EXCEPT !.splices = splices,
                                  !.applies = applies, !.retained = @ - n],
            !.used = @ - n]

\* A token that reserves bytes, and the one that holds its splice instead.
Reserving(y, bytes) == y.retained = TokenOverhead + bytes

Paying(q, y, applies, s) ==
  /\ q.applies = applies /\ q.target = y.target /\ q.group = y.group
  /\ q.splices = <<s>> /\ q.retained = TokenOverhead + Len(s.text) /\ q.owner = y.owner

\* What a splice leaves of the bytes reserved for it.
Spare(n, bytes, s) == Len(s.text) <= bytes /\ n = bytes - Len(s.text)

LEMMA ReservedReceives ==
  ASSUME NEW B, NEW O, NEW h, Chain(h, B, O), h.used <= h.budget, NEW t \in Nat \ {0},
         \A u \in DOMAIN h.tokens : u < t,
         NEW y, TokenParts(y, B, O), NEW x, x = Linked(h, t, y),
         NEW bytes \in Nat, Reserving(y, bytes),
         Fits(h, y.retained),
         NEW applies \in Nat, NEW s \in Putting(B),
         NEW g, NEW gone, Spare(gone, bytes, s), g = Received(x, gone, applies, <<s>>),
         NEW q, Paying(q, y, applies, s)
  PROVE  /\ Gained(g, h, t, q, B, O)
         /\ DOMAIN g.tokens = DOMAIN h.tokens \cup {t}
<1>. DEFINE unused == bytes - Len(s.text)
            w == x.tokens[t]
            z == [w EXCEPT !.splices = <<s>>, !.applies = applies, !.retained = @ - unused]
<1>0. /\ y.retained = TokenOverhead + bytes
      /\ q.applies = applies /\ q.target = y.target /\ q.group = y.group
      /\ q.splices = <<s>> /\ q.retained = TokenOverhead + Len(s.text) /\ q.owner = y.owner
  BY DEF Reserving, Paying
<1>. Len(s.text) <= bytes /\ gone = bytes - Len(s.text)
  BY DEF Spare
<1>1. LinkedTo(x, h, t, y, B, O)
  BY LinkedKeeps
<1>2. /\ x.tail = t /\ t \in DOMAIN x.tokens /\ Chain(x, B, O)
      /\ w.target = y.target /\ w.group = y.group /\ w.owner = y.owner
      /\ w.retained = TokenOverhead + bytes
      /\ x.used = h.used + w.retained /\ h.used \in Nat
      /\ DOMAIN x.tokens = DOMAIN h.tokens \cup {t}
  BY <1>0, <1>1 DEF LinkedTo
<1>3. w \in TokenOf(B, O)
  BY <1>2 DEF Chain, TypedHistory
<1>4. Len(s.text) \in Nat /\ TokenOverhead \in Nat /\ <<s>> \in Seq(Putting(B))
  BY HeldOne, HistoryAssumption
<1>. HIDE DEF w
<1>5. unused \in Nat /\ w.retained - unused = TokenOverhead + Len(s.text)
  <2>1. PICK n \in Nat : n = Len(s.text)
    BY <1>4
  <2>2. bytes - n \in Nat /\ (TokenOverhead + bytes) - (bytes - n) = TokenOverhead + n
    <3>1. n <= bytes
      BY <2>1
    <3>2. PICK k \in Nat : k = TokenOverhead
      BY <1>4
    <3>3. bytes - n \in Nat /\ (k + bytes) - (bytes - n) = k + n
      BY ONLY <3>1, bytes \in Nat, n \in Nat, k \in Nat
    <3>. QED BY <3>2, <3>3
  <2>3. w.retained = TokenOverhead + bytes
    BY <1>2
  <2>4. unused = bytes - n
    BY <2>1
  <2>. QED BY <2>1, <2>2, <2>3, <2>4
<1>6. g = [x EXCEPT !.tokens = [@ EXCEPT ![t] = z], !.used = @ - unused]
  BY <1>2 DEF Received, w
<1>. DEFINE r == w.retained - unused
<1>7. z = [w EXCEPT !.splices = <<s>>, !.applies = applies, !.retained = r]
  BY <1>3 DEF TokenOf
<1>8. r \in Nat
  BY <1>4, <1>5
<1>. HIDE DEF r, z
<1>9. /\ z \in TokenOf(B, O) /\ z.next = w.next /\ z.previous = w.previous
      /\ z.applies = applies /\ z.target = w.target /\ z.group = w.group
      /\ z.splices = <<s>> /\ z.retained = r /\ z.owner = w.owner
  BY <1>3, <1>4, <1>7, <1>8 DEF TokenOf
<1>10. Changed(g, x, t, z, B, O)
  <2>1. x \in [tokens : {x.tokens}, head : Nat, tail : Nat, used : Nat, count : Nat,
               evicted : SUBSET Nat, budget : Nat]
    BY <1>2 DEF Chain, TypedHistory
  <2>. DEFINE v == x.used - unused
  <2>2. g = [x EXCEPT !.tokens = [@ EXCEPT ![t] = z], !.used = v]
    BY <1>6, <2>1
  <2>3. v = (x.used - w.retained) + z.retained
    <3>1. z.retained = w.retained - unused
      BY <1>9 DEF r
    <3>2. w.retained \in Nat /\ x.used \in Nat
      BY <1>3, <2>1 DEF TokenOf
    <3>. HIDE DEF unused
    <3>3. x.used - unused = (x.used - w.retained) + (w.retained - unused)
      BY <1>5, <3>2
    <3>. QED BY <3>1, <3>3
  <2>. HIDE DEF v
  <2>. QED BY <1>2, <1>9, <2>2, <2>3, ChangeKeeps, Zenon DEF w
<1>11. /\ Chain(g, B, O) /\ g.budget = h.budget /\ DOMAIN g.tokens = DOMAIN h.tokens \cup {t}
       /\ g.tokens[t] = z
  BY <1>1, <1>2, <1>10 DEF Changed, LinkedTo
<1>12. SameTokens(g, h, DOMAIN g.tokens \ {t})
  <2>1. \A u \in DOMAIN h.tokens \ {t} : g.tokens[u] = x.tokens[u]
    BY <1>2, <1>10 DEF Changed
  <2>2. SameTokens(x, h, DOMAIN h.tokens)
    BY <1>1 DEF LinkedTo
  <2>3. DOMAIN g.tokens \ {t} = DOMAIN h.tokens \ {t}
    BY <1>11
  <2>4. SameTokens(g, x, DOMAIN h.tokens \ {t})
    BY <2>1 DEF SameTokens
  <2>5. SameTokens(g, h, DOMAIN h.tokens \ {t})
    <3>. DEFINE D == DOMAIN h.tokens
    <3>1. SameTokens(g, x, D \ {t}) /\ SameTokens(x, h, D)
      BY <2>2, <2>4
    <3>2. PICK Q : Q = D \ {t}
      OBVIOUS
    <3>3. SameTokens(g, x, Q) /\ Q \subseteq Q /\ Q \subseteq D
      BY <3>1, <3>2
    <3>. HIDE DEF D
    <3>4. SameTokens(g, h, Q)
      BY <3>1, <3>3, SameTokensTrans
    <3>. QED BY <3>2, <3>4 DEF D
  <2>. QED BY <2>3, <2>5
<1>13. g.used <= g.budget
  <2>1. g.used = (x.used - w.retained) + z.retained
    BY <1>10 DEF Changed, w
  <2>2. PICK n \in Nat : n = Len(s.text)
    BY <1>4
  <2>3. z.retained = TokenOverhead + n
    BY <1>5, <1>9, <2>2 DEF r
  <2>4. x.used - w.retained = h.used
    <3>1. PICK m \in Nat : m = w.retained
      BY <1>3 DEF TokenOf
    <3>2. x.used = h.used + m
      BY <1>2, <3>1
    <3>3. x.used - m = h.used
      BY <1>2, <3>2
    <3>. QED BY <3>1, <3>3
  <2>5. g.used = h.used + (TokenOverhead + n)
    BY <2>1, <2>3, <2>4
  <2>6. h.used + (TokenOverhead + bytes) <= h.budget
    BY <1>0 DEF Fits
  <2>7. h.budget \in Nat /\ g.budget = h.budget
    BY <1>11, CountsTokens
  <2>8. n <= bytes
    BY <2>2
  <2>9. PICK u \in Nat : u = h.used
    BY <1>2
  <2>10. u + (TokenOverhead + n) <= u + (TokenOverhead + bytes)
    BY <1>4, <2>8
  <2>11. u + (TokenOverhead + n) <= h.budget
    BY <1>4, <2>6, <2>7, <2>9, <2>10
  <2>. QED BY <2>5, <2>7, <2>9, <2>11
<1>14. z.retained = TokenOverhead + Len(s.text)
  BY <1>5, <1>9 DEF r
<1>. QED BY <1>0, <1>2, <1>9, <1>11, <1>12, <1>13, <1>14 DEF Gained


-----------------------------------------------------------------------------
(* A reservation that extends the token of a group.                        *)

LEMMA ExtensionKeeps ==
  ASSUME NEW B, NEW O, NEW h, Chain(h, B, O), NEW bytes \in Nat,
         h.tail \in DOMAIN h.tokens,
         NEW z, z = [h.tokens[h.tail] EXCEPT !.retained = @ + SpliceOverhead + bytes],
         NEW r, r = [h EXCEPT !.tokens[h.tail].retained = @ + SpliceOverhead + bytes,
                              !.used = @ + SpliceOverhead + bytes]
  PROVE  Changed(r, h, h.tail, z, B, O) /\ z \in TokenOf(B, O)
<1>. DEFINE t == h.tail
            x == h.tokens[t]
<1>1. x \in TokenOf(B, O)
  BY DEF Chain, TypedHistory
<1>2. SpliceOverhead \in Nat
  BY HistoryAssumption
<1>. DEFINE n == (x.retained + SpliceOverhead) + bytes
            v == (h.used + SpliceOverhead) + bytes
<1>3. x.retained \in Nat /\ h.used \in Nat /\ n \in Nat
  <2>1. h.used \in Nat
    BY DEF Chain, TypedHistory
  <2>2. x.retained \in Nat
    <3>. HIDE DEF x
    <3>. QED BY <1>1 DEF TokenOf
  <2>. QED BY <1>2, <2>1, <2>2
<1>4. z = [x EXCEPT !.retained = n]
  OBVIOUS
<1>5. r = [h EXCEPT !.tokens = [@ EXCEPT ![t] = z], !.used = v]
  <2>1. h \in [tokens : {h.tokens}, head : Nat, tail : Nat, used : Nat, count : Nat,
               evicted : SUBSET Nat, budget : Nat]
    BY DEF Chain, TypedHistory
  <2>. QED BY <2>1
<1>6. v = (h.used - x.retained) + n
  <2>1. PICK k \in Nat : k = x.retained
    BY <1>3
  <2>2. PICK u \in Nat : u = h.used
    BY <1>3
  <2>3. (u + SpliceOverhead) + bytes = (u - k) + ((k + SpliceOverhead) + bytes)
    BY <1>2
  <2>. QED BY <2>1, <2>2, <2>3
<1>. HIDE DEF n, v
<1>7. /\ z \in TokenOf(B, O) /\ z.next = x.next /\ z.previous = x.previous /\ z.retained = n
  <2>. HIDE DEF x
  <2>. QED BY <1>1, <1>3, <1>4 DEF TokenOf
<1>8. Changed(r, h, t, z, B, O)
  <2>1. v = (h.used - h.tokens[t].retained) + z.retained
    BY <1>6, <1>7
  <2>2. z.next = h.tokens[t].next /\ z.previous = h.tokens[t].previous
    BY <1>7
  <2>. HIDE DEF x, t
  <2>3. t \in DOMAIN h.tokens
    BY DEF t
  <2>. QED BY <1>5, <1>7, <2>1, <2>2, <2>3, ChangeKeeps, Zenon
<1>. QED BY <1>7, <1>8

\* What it is when the source refuses: nothing happened.
LEMMA ExtensionGivenBack ==
  ASSUME NEW B, NEW O, NEW h, Chain(h, B, O), h.used <= h.budget, NEW bytes \in Nat,
         h.tail \in DOMAIN h.tokens,
         NEW z \in TokenOf(B, O),
         z = [h.tokens[h.tail] EXCEPT !.retained = @ + SpliceOverhead + bytes],
         NEW r, Changed(r, h, h.tail, z, B, O),
         NEW g, g = GivenBack(r, SpliceOverhead + bytes)
  PROVE  Kept(g, h, B, O) /\ DOMAIN g.tokens = DOMAIN h.tokens
<1>. DEFINE t == h.tail
            x == h.tokens[t]
            y == [z EXCEPT !.retained = @ - (SpliceOverhead + bytes)]
            v == r.used - (SpliceOverhead + bytes)
<1>1. Changed(r, h, t, z, B, O) /\ z \in TokenOf(B, O)
  OBVIOUS
<1>2. SpliceOverhead \in Nat
  BY HistoryAssumption
<1>3. x \in TokenOf(B, O)
  BY DEF Chain, TypedHistory
<1>4. y = x /\ z.next = x.next /\ z.previous = x.previous
      /\ z.retained = (x.retained + SpliceOverhead) + bytes /\ x.retained \in Nat
  <2>1. z = [x EXCEPT !.retained = (@ + SpliceOverhead) + bytes]
    OBVIOUS
  <2>. HIDE DEF x
  <2>2. x.retained \in Nat
    BY <1>3 DEF TokenOf
  <2>3. /\ z.next = x.next /\ z.previous = x.previous
        /\ z.retained = (x.retained + SpliceOverhead) + bytes
    BY <1>3, <2>1 DEF TokenOf
  <2>4. ((x.retained + SpliceOverhead) + bytes) - (SpliceOverhead + bytes) = x.retained
    BY <1>2, <2>2
  <2>5. y = [x EXCEPT !.retained = z.retained - (SpliceOverhead + bytes)]
    BY <1>3, <2>1 DEF TokenOf
  <2>6. y = [x EXCEPT !.retained = x.retained]
    BY <2>3, <2>4, <2>5
  <2>7. y = x
    BY <1>3, <2>6 DEF TokenOf
  <2>. QED BY <2>2, <2>3, <2>7
<1>5. /\ Chain(r, B, O) /\ r.tail = t /\ r.tokens[t] = z /\ t \in DOMAIN r.tokens
      /\ r.used = (h.used - x.retained) + z.retained /\ h.used \in Nat
      /\ DOMAIN r.tokens = DOMAIN h.tokens
      /\ \A u \in DOMAIN h.tokens \ {t} : r.tokens[u] = h.tokens[u]
      /\ r.budget = h.budget
  BY <1>1 DEF Changed
<1>6. g = [r EXCEPT !.tokens = [@ EXCEPT ![t] = x], !.used = v]
  <2>1. r \in [tokens : {r.tokens}, head : Nat, tail : Nat, used : Nat, count : Nat,
               evicted : SUBSET Nat, budget : Nat]
    BY <1>5 DEF Chain, TypedHistory
  <2>2. g = [r EXCEPT !.tokens[t].retained = @ - (SpliceOverhead + bytes),
                      !.used = @ - (SpliceOverhead + bytes)]
    BY <1>5 DEF GivenBack
  <2>3. [r.tokens[t] EXCEPT !.retained = @ - (SpliceOverhead + bytes)] = x
    BY <1>4, <1>5
  <2>. HIDE DEF x, t
  <2>. QED BY <2>1, <2>2, <2>3
<1>7. v = (r.used - z.retained) + x.retained
  <2>1. PICK k \in Nat : k = x.retained
    BY <1>4
  <2>2. z.retained = (k + SpliceOverhead) + bytes
    BY <1>4, <2>1
  <2>3. PICK u \in Int : u = r.used
    <3>1. r.used \in Nat
      BY <1>1 DEF Changed
    <3>. QED BY <3>1
  <2>4. u - (SpliceOverhead + bytes) = (u - ((k + SpliceOverhead) + bytes)) + k
    BY <1>2
  <2>. QED BY <2>1, <2>2, <2>3, <2>4
<1>. HIDE DEF v
<1>8. Changed(g, r, t, x, B, O)
  <2>1. v = (r.used - r.tokens[t].retained) + x.retained
    BY <1>5, <1>7
  <2>2. x.next = r.tokens[t].next /\ x.previous = r.tokens[t].previous
    BY <1>4, <1>5
  <2>. HIDE DEF x, t, v
  <2>3. Chain(r, B, O) /\ t \in DOMAIN r.tokens
    BY <1>5
  <2>. QED BY <1>3, <1>6, <2>1, <2>2, <2>3, ChangeKeeps, Zenon
<1>9. /\ Chain(g, B, O) /\ DOMAIN g.tokens = DOMAIN h.tokens /\ g.budget = h.budget
      /\ \A u \in DOMAIN h.tokens \ {t} : g.tokens[u] = h.tokens[u]
      /\ g.tokens[t] = x /\ g.used = (r.used - z.retained) + x.retained
  BY <1>5, <1>8 DEF Changed
<1>10. g.used = h.used
  <2>1. PICK k \in Nat : k = x.retained
    BY <1>4
  <2>2. PICK u \in Nat : u = h.used
    BY <1>5
  <2>3. PICK w \in Nat : w = z.retained
    BY <1>2, <1>4
  <2>4. r.used = (u - k) + w /\ g.used = (r.used - w) + k
    <3>. HIDE DEF x
    <3>. QED BY <1>5, <1>9, <2>1, <2>2, <2>3
  <2>5. (((u - k) + w) - w) + k = u
    OBVIOUS
  <2>. QED BY <2>2, <2>4, <2>5
<1>11. SameTokens(g, h, DOMAIN g.tokens)
  <2>1. \A u \in DOMAIN h.tokens : g.tokens[u] = h.tokens[u]
    BY <1>9
  <2>. QED BY <1>9, <2>1 DEF SameTokens
<1>. QED BY <1>9, <1>10, <1>11 DEF Kept, Cut

\* What it is when the source accepts: the token undoes one edit more.
LEMMA ExtensionReceives ==
  ASSUME NEW B, NEW O, NEW h, Chain(h, B, O), NEW bytes \in Nat,
         h.tail \in DOMAIN h.tokens, h.used + (SpliceOverhead + bytes) <= h.budget,
         NEW z \in TokenOf(B, O),
         z = [h.tokens[h.tail] EXCEPT !.retained = @ + SpliceOverhead + bytes],
         NEW r, Changed(r, h, h.tail, z, B, O),
         NEW applies \in Nat, NEW s \in Putting(B), Len(s.text) <= bytes,
         NEW g, g = Received(r, bytes - Len(s.text), applies, Append(z.splices, s))
  PROVE  Grown(g, h, h.tail, applies, s, B, O)
<1>. DEFINE t == h.tail
            x == h.tokens[t]
            unused == bytes - Len(s.text)
            y == [z EXCEPT !.splices = Append(@, s), !.applies = applies, !.retained = @ - unused]
            v == r.used - unused
<1>1. Changed(r, h, t, z, B, O) /\ z \in TokenOf(B, O)
  OBVIOUS
<1>2. SpliceOverhead \in Nat
  BY HistoryAssumption
<1>3. x \in TokenOf(B, O)
  BY DEF Chain, TypedHistory
<1>4. /\ z.next = x.next /\ z.previous = x.previous
      /\ z.target = x.target /\ z.group = x.group /\ z.owner = x.owner
      /\ z.splices = x.splices /\ x.splices \in Seq(Putting(B))
      /\ z.retained = (x.retained + SpliceOverhead) + bytes /\ x.retained \in Nat
  <2>1. z = [x EXCEPT !.retained = (@ + SpliceOverhead) + bytes]
    OBVIOUS
  <2>. HIDE DEF x
  <2>2. x.retained \in Nat /\ x.splices \in Seq(Putting(B))
    BY <1>3 DEF TokenOf
  <2>3. /\ z.next = x.next /\ z.previous = x.previous
        /\ z.target = x.target /\ z.group = x.group /\ z.owner = x.owner
        /\ z.splices = x.splices
    BY <1>3, <2>1 DEF TokenOf
  <2>4. z.retained = (x.retained + SpliceOverhead) + bytes
    BY <1>3, <2>1 DEF TokenOf
  <2>. QED BY <2>2, <2>3, <2>4
<1>5. /\ Chain(r, B, O) /\ r.tail = t /\ r.tokens[t] = z /\ t \in DOMAIN r.tokens
      /\ r.used = (h.used - x.retained) + z.retained /\ h.used \in Nat
      /\ DOMAIN r.tokens = DOMAIN h.tokens
      /\ \A u \in DOMAIN h.tokens \ {t} : r.tokens[u] = h.tokens[u]
      /\ r.budget = h.budget
  BY <1>1 DEF Changed
<1>6. Len(s.text) \in Nat
  <2>1. s.text \in Seq(B)
    BY DEF Putting
  <2>. QED BY <2>1, LenProperties
<1>7. unused \in Nat
  <2>1. PICK n \in Nat : n = Len(s.text)
    BY <1>6
  <2>2. bytes - n \in Nat
    BY <2>1
  <2>. QED BY <2>1, <2>2
<1>8. z.retained - unused = (x.retained + SpliceOverhead) + Len(s.text)
  <2>1. PICK n \in Nat : n = Len(s.text)
    BY <1>6
  <2>2. PICK k \in Nat : k = x.retained
    BY <1>4
  <2>3. ((k + SpliceOverhead) + bytes) - (bytes - n) = (k + SpliceOverhead) + n
    BY <1>2
  <2>. QED BY <1>4, <2>1, <2>2, <2>3
<1>. DEFINE q == z.retained - unused
<1>9. q \in Nat
  <2>1. q = (x.retained + SpliceOverhead) + Len(s.text) /\ x.retained \in Nat
    BY <1>4, <1>8
  <2>. HIDE DEF q, x
  <2>. QED BY <1>2, <1>6, <2>1
<1>10. y = [z EXCEPT !.splices = Append(@, s), !.applies = applies, !.retained = q]
  OBVIOUS
<1>11. Append(z.splices, s) \in Seq(Putting(B))
  BY <1>4, AppendProperties
<1>. HIDE DEF q
<1>12. /\ y \in TokenOf(B, O) /\ y.next = z.next /\ y.previous = z.previous
       /\ y.applies = applies /\ y.target = z.target /\ y.group = z.group
       /\ y.splices = Append(z.splices, s) /\ y.retained = q /\ y.owner = z.owner
  <2>. HIDE DEF y
  <2>. QED BY <1>1, <1>9, <1>10, <1>11, Zenon DEF TokenOf
<1>13. g = [r EXCEPT !.tokens = [@ EXCEPT ![t] = y], !.used = v]
  <2>1. r \in [tokens : {r.tokens}, head : Nat, tail : Nat, used : Nat, count : Nat,
               evicted : SUBSET Nat, budget : Nat]
    BY <1>5 DEF Chain, TypedHistory
  <2>2. g = [r EXCEPT
               !.tokens[r.tail] = [r.tokens[r.tail] EXCEPT !.splices = Append(@, s),
                                     !.applies = applies, !.retained = @ - unused],
               !.used = @ - unused]
    BY <1>5 DEF Received
  <2>3. y = [r.tokens[r.tail] EXCEPT !.splices = Append(@, s),
                                     !.applies = applies, !.retained = @ - unused]
    BY <1>5
  <2>. HIDE DEF y, t, unused
  <2>. QED BY <1>5, <2>1, <2>2, <2>3
<1>14. v = (r.used - z.retained) + y.retained
  <2>1. PICK k \in Int : k = z.retained
    BY <1>2, <1>4
  <2>2. PICK u \in Int : u = r.used
    <3>1. r.used \in Nat
      BY <1>1 DEF Changed
    <3>. QED BY <3>1
  <2>3. PICK n \in Nat : n = unused
    BY <1>7
  <2>4. u - n = (u - k) + (k - n)
    OBVIOUS
  <2>5. y.retained = k - n
    BY <1>12, <2>1, <2>3 DEF q
  <2>. HIDE DEF unused, y
  <2>. QED BY <2>1, <2>2, <2>3, <2>4, <2>5
<1>. HIDE DEF v, y
<1>15. Changed(g, r, t, y, B, O)
  <2>1. v = (r.used - r.tokens[t].retained) + y.retained
    BY <1>5, <1>14
  <2>2. y.next = r.tokens[t].next /\ y.previous = r.tokens[t].previous
    BY <1>5, <1>12
  <2>. HIDE DEF t
  <2>3. Chain(r, B, O) /\ t \in DOMAIN r.tokens
    BY <1>5
  <2>4. y \in TokenOf(B, O)
    BY <1>12
  <2>. QED BY <1>13, <2>1, <2>2, <2>3, <2>4, ChangeKeeps, Zenon
<1>16. /\ Chain(g, B, O) /\ DOMAIN g.tokens = DOMAIN h.tokens /\ g.budget = h.budget
       /\ \A u \in DOMAIN h.tokens \ {t} : g.tokens[u] = h.tokens[u]
       /\ g.tokens[t] = y /\ g.used = (r.used - z.retained) + y.retained
  BY <1>5, <1>15, Zenon DEF Changed
<1>17. g.used <= g.budget
  <2>1. PICK k \in Nat : k = x.retained
    BY <1>4
  <2>2. PICK u \in Nat : u = h.used
    BY <1>5
  <2>3. PICK n \in Nat : n = Len(s.text)
    BY <1>6
  <2>4. PICK w \in Int : w = z.retained
    BY <1>2, <1>4
  <2>5. y.retained = (k + SpliceOverhead) + n
    BY <1>8, <1>12, <2>1, <2>3 DEF q
  <2>6. g.used = (((u - k) + w) - w) + ((k + SpliceOverhead) + n)
    BY <1>5, <1>16, <2>1, <2>2, <2>4, <2>5
  <2>7. (((u - k) + w) - w) + ((k + SpliceOverhead) + n) = u + (SpliceOverhead + n)
    BY <1>2
  <2>8. u + (SpliceOverhead + bytes) <= h.budget /\ h.budget \in Nat
    BY <2>2 DEF Chain, TypedHistory
  <2>9. n <= bytes
    BY <2>3
  <2>10. u + (SpliceOverhead + n) <= h.budget
    BY <1>2, <2>8, <2>9
  <2>. QED BY <1>16, <2>6, <2>7, <2>10
<1>18. SameTokens(g, h, DOMAIN h.tokens \ {t})
  BY <1>16 DEF SameTokens
<1>. QED BY <1>4, <1>8, <1>12, <1>16, <1>17, <1>18, Zenon DEF Grown, q
-----------------------------------------------------------------------------
(* The caller and its receipts.                                            *)

\* A range of the source and how many bytes replace it.
Edit == {e \in [start : Nat, end : Nat, len : 0 .. 1] : e.start <= e.end}

Kinds == {"source", "intent"}

\* What a caller asks for.
Request == [kind : {"source", "intent", "staged"}, id : Ids, base : Nat,
            ack : Ids \cup {0}, edit : Edit, group : use.groups, txn : Nat]

\* The document's record, whatever its source.
DocShaped == doc \in [rev : Nat, text : {doc.text}, ready : BOOLEAN, drain : {0, 1}]

\* A request under way is one the caller has no answer to; it acknowledges only
\* what the caller has received, and no two requests share a logical edit.
CallerSound ==
  /\ caller \in [known : Nat, sent : SUBSET Request, answered : SUBSET Ids]
  /\ caller.known <= doc.rev
  /\ \A r \in caller.sent :
       /\ r.id \notin caller.answered
       /\ r.ack \in {0} \cup caller.answered
       /\ \A q \in caller.sent : q.id = r.id => q = r

\* One receipt is held at most.
TermsSound ==
  /\ terms \in [Kinds -> [id : Ids \cup {0}, result : Nat]]
  /\ terms["source"].id = 0 \/ terms["intent"].id = 0
  /\ \A k \in Kinds : terms[k].result <= doc.rev

\* A logical edit that changed the source and was not answered has the receipt,
\* which reports a revision its caller does not know of.
CommitsSound ==
  /\ commits \in [Ids -> {0, 1}]
  /\ \A i \in Ids : commits[i] > 0 /\ i \notin caller.answered =>
       \E k \in Kinds : terms[k].id = i /\ terms[k].result > caller.known

\* What holds of the caller and of its receipts.
ReceiptInv ==
  /\ use \in Uses /\ DocShaped
  /\ CallerSound /\ TermsSound /\ CommitsSound

LEMMA UseParts ==
  ASSUME use \in Uses
  PROVE  /\ Ids \subseteq Nat \ {0} /\ use.groups \subseteq Nat /\ 0 \in use.groups
         /\ use.lossy \in BOOLEAN
         /\ use.pumps \in Nat
         /\ use.open \in Nat /\ use.budget \in Nat /\ MaxBytes \in Nat
         /\ MaxRev \in Nat /\ MaxRev > 0 /\ use.open <= MaxBytes /\ MaxLive \in Nat
  BY UsesAssumption DEF Use, Ids, MaxBytes, MaxRev

LEMMA PendingIs ==
  ASSUME ReceiptInv
  PROVE  /\ Pending \in Ids \cup {0}
         /\ \A i \in Ids : (\E k \in Kinds : terms[k].id = i) <=> Pending = i
<1>1. Ids \subseteq Nat \ {0}
  BY UseParts DEF ReceiptInv
<1>. QED BY <1>1 DEF ReceiptInv, TermsSound, Kinds, Pending

LEMMA ReceiptInvHolds == ReceiptInv => ReceiptHeld
<1>. SUFFICES ASSUME ReceiptInv, NEW i \in Ids
              PROVE  /\ commits[i] <= 1
                     /\ commits[i] > 0 /\ i \notin caller.answered => Pending = i
  BY DEF ReceiptHeld
<1>1. commits[i] \in {0, 1}
  BY DEF ReceiptInv, CommitsSound
<1>. QED BY <1>1, PendingIs DEF ReceiptInv, CommitsSound

-----------------------------------------------------------------------------
(* What a request is.                                                      *)

\* A request that may be made now.
Asked(r) ==
  /\ r \in Request
  /\ r.id \notin caller.answered
  /\ r.ack \in {0} \cup caller.answered
  /\ \A q \in caller.sent : q.id = r.id => q = r

LEMMA AskedRequests ==
  ASSUME ReceiptInv, NEW kind \in {"source", "intent", "staged"}, NEW es \in SUBSET Edit,
         NEW gs \in SUBSET use.groups, NEW hs \in SUBSET Nat,
         NEW r \in Requests(kind, es, gs, hs)
  PROVE  Asked(r) /\ r.kind = kind
<1>1. CASE r \in caller.sent /\ r.kind = kind
  BY <1>1 DEF ReceiptInv, CallerSound, Asked
<1>2. CASE \E i \in Ids \ UsedIds, a \in {0} \cup caller.answered, e \in es, g \in gs, h \in hs :
             r = [kind |-> kind, id |-> i, base |-> caller.known, ack |-> a,
                  edit |-> e, group |-> g, txn |-> h]
  <2>1. PICK i \in Ids \ UsedIds, a \in {0} \cup caller.answered, e \in es, g \in gs, h \in hs :
             r = [kind |-> kind, id |-> i, base |-> caller.known, ack |-> a,
                  edit |-> e, group |-> g, txn |-> h]
    BY <1>2
  <2>2. caller.known \in Nat /\ caller.answered \subseteq Ids
    BY DEF ReceiptInv, CallerSound
  <2>3. r \in Request
    BY <2>1, <2>2 DEF Request
  <2>4. r.id = i /\ r.ack = a /\ r.kind = kind
    BY <2>1
  <2>5. i \notin caller.answered /\ \A q \in caller.sent : q.id # i
    BY <2>1 DEF UsedIds
  <2>. QED BY <2>3, <2>4, <2>5 DEF Asked
<1>. QED BY <1>1, <1>2 DEF Requests

-----------------------------------------------------------------------------
(* What a call may do to the caller and the receipts.                      *)

\* Nothing, while the source keeps its revision.
LEMMA QuietKeeps ==
  ASSUME ReceiptInv, UNCHANGED <<use, terms, caller, commits>>,
         DocShaped', doc'.rev = doc.rev
  PROVE  ReceiptInv'
BY DEF ReceiptInv, DocShaped, CallerSound, TermsSound, CommitsSound, Request, Ids, Kinds

\* An acknowledgement at the revision the caller knows.
LEMMA AckKeeps ==
  ASSUME ReceiptInv, UNCHANGED <<use, caller, commits>>, terms' = AckOrdered(caller.known),
         DocShaped', doc'.rev = doc.rev
  PROVE  ReceiptInv'
<1>1. TermsSound'
  <2>1. \A k \in Kinds : terms'[k] = IF terms[k].id # 0 /\ terms[k].result = caller.known
                                     THEN None ELSE terms[k]
    BY DEF AckOrdered, Kinds
  <2>2. terms' \in [Kinds -> [id : Ids \cup {0}, result : Nat]]
    BY DEF ReceiptInv, TermsSound, AckOrdered, Kinds, None
  <2>3. terms'["source"].id = 0 \/ terms'["intent"].id = 0
    BY <2>1 DEF ReceiptInv, TermsSound, Kinds, None
  <2>4. \A k \in Kinds : terms'[k].result <= doc.rev
    BY <2>1 DEF ReceiptInv, TermsSound, Kinds, None, DocShaped
  <2>. QED BY <2>2, <2>3, <2>4 DEF TermsSound, Ids, Kinds
<1>2. CommitsSound'
  <2>1. ASSUME NEW i \in Ids, commits[i] > 0, i \notin caller.answered
        PROVE  \E k \in Kinds : terms'[k].id = i /\ terms'[k].result > caller.known
    <3>1. PICK k \in Kinds : terms[k].id = i /\ terms[k].result > caller.known
      BY <2>1 DEF ReceiptInv, CommitsSound
    <3>2. caller.known \in Nat /\ terms[k].result \in Nat
      BY DEF ReceiptInv, CallerSound, TermsSound
    <3>3. terms'[k] = terms[k]
      BY <3>1, <3>2 DEF AckOrdered, Kinds
    <3>. QED BY <3>1, <3>3
  <2>. QED BY <2>1 DEF ReceiptInv, CommitsSound, Ids
<1>. QED BY <1>1, <1>2 DEF ReceiptInv, DocShaped, CallerSound, Request, Ids

\* A call that changes the source and is not asked for by a logical edit: the
\* caller knows the revision, so every receipt it lacks is a refused one's.
LEMMA OrderedKeeps ==
  ASSUME ReceiptInv, UNCHANGED <<use, commits>>,
         caller.known = doc.rev, terms' \in {terms, AckOrdered(doc.rev)},
         DocShaped', doc'.rev = doc.rev + 1,
         NEW lost, Learns(lost, doc.rev + 1)
  PROVE  ReceiptInv'
<1>1. doc.rev \in Nat
  BY DEF ReceiptInv, DocShaped
<1>2. CallerSound'
  <2>1. /\ caller'.known \in {doc.rev, doc.rev + 1}
        /\ caller'.sent = caller.sent /\ caller'.answered = caller.answered
        /\ caller' \in [known : Nat, sent : SUBSET Request, answered : SUBSET Ids]
    BY <1>1 DEF ReceiptInv, CallerSound, Learns
  <2>. QED BY <1>1, <2>1 DEF ReceiptInv, CallerSound, Request, Ids
<1>3. TermsSound'
  <2>1. terms' \in [Kinds -> [id : Ids \cup {0}, result : Nat]]
    BY DEF ReceiptInv, TermsSound, AckOrdered, Kinds, None
  <2>2. \A k \in Kinds : terms'[k] \in {terms[k], None}
    BY DEF AckOrdered, Kinds
  <2>3. terms'["source"].id = 0 \/ terms'["intent"].id = 0
    BY <2>2 DEF ReceiptInv, TermsSound, Kinds, None
  <2>4. \A k \in Kinds : terms'[k].result <= doc'.rev
    BY <1>1, <2>2 DEF ReceiptInv, TermsSound, Kinds, None
  <2>. QED BY <2>1, <2>3, <2>4 DEF TermsSound, Ids, Kinds
<1>4. \A i \in Ids : ~(commits[i] > 0 /\ i \notin caller.answered)
  <2>1. \A k \in Kinds : terms[k].result \in Nat /\ terms[k].result <= doc.rev
    BY DEF ReceiptInv, TermsSound
  <2>. QED BY <1>1, <2>1 DEF ReceiptInv, CommitsSound
<1>5. CommitsSound'
  <2>1. caller'.answered = caller.answered
    BY DEF ReceiptInv, CallerSound, Learns
  <2>. QED BY <1>4, <2>1 DEF ReceiptInv, CommitsSound, Ids
<1>. QED BY <1>2, <1>3, <1>5 DEF ReceiptInv

\* A request is sent, and whatever it does to the rest is not its answer.
LEMMA SentKeeps ==
  ASSUME ReceiptInv, UNCHANGED <<use, terms, commits>>, DocShaped', doc'.rev = doc.rev,
         NEW r, Asked(r), caller' = [caller EXCEPT !.sent = @ \cup {r}]
  PROVE  ReceiptInv'
<1>1. /\ caller'.known = caller.known /\ caller'.answered = caller.answered
      /\ caller'.sent = caller.sent \cup {r}
      /\ caller' \in [known : Nat, sent : SUBSET Request, answered : SUBSET Ids]
  BY DEF ReceiptInv, CallerSound, Asked
<1>2. CallerSound'
  BY <1>1 DEF ReceiptInv, CallerSound, Asked, Request, Ids
<1>. QED BY <1>1, <1>2 DEF ReceiptInv, TermsSound, CommitsSound, DocShaped, Ids, Kinds

\* The answer to a request, as the caller sees it.
LEMMA AnswerParts ==
  ASSUME ReceiptInv, NEW r, Asked(r), NEW lost, NEW revision \in Nat, NEW rev \in Nat,
         AnsweredWith(r, lost, revision), revision <= rev, doc.rev <= rev
  PROVE  /\ caller' \in [known : Nat, sent : SUBSET Request, answered : SUBSET Ids]
         /\ caller'.known <= rev
         /\ \A q \in caller'.sent :
              /\ q.id \notin caller'.answered
              /\ q.ack \in {0} \cup caller'.answered
              /\ \A p \in caller'.sent : p.id = q.id => p = q
         /\ IF lost THEN caller'.known = caller.known /\ caller'.answered = caller.answered
            ELSE /\ caller'.answered = caller.answered \cup {r.id}
                 /\ caller'.known \in {caller.known, revision}
<1>1. /\ caller \in [known : Nat, sent : SUBSET Request, answered : SUBSET Ids]
      /\ caller.known <= doc.rev /\ doc.rev \in Nat /\ r.id \in Ids
      /\ r.id \notin caller.answered
  BY DEF ReceiptInv, CallerSound, DocShaped, Asked, Request
<1>2. CASE lost
  <2>1. /\ caller'.known = caller.known /\ caller'.answered = caller.answered
        /\ caller'.sent = caller.sent \cup {r}
        /\ caller' \in [known : Nat, sent : SUBSET Request, answered : SUBSET Ids]
    BY <1>1, <1>2 DEF AnsweredWith, Asked
  <2>. QED BY <1>1, <1>2, <2>1 DEF ReceiptInv, CallerSound, Asked
<1>3. CASE ~lost
  <2>1. /\ caller'.known \in {caller.known, revision}
        /\ caller'.answered = caller.answered \cup {r.id}
        /\ caller'.sent = caller.sent \ {r}
    BY <1>1, <1>3 DEF AnsweredWith
  <2>2. caller' \in [known : Nat, sent : SUBSET Request, answered : SUBSET Ids]
    BY <1>1, <1>3 DEF AnsweredWith
  <2>3. \A q \in caller'.sent : q.id # r.id
    BY <2>1 DEF Asked
  <2>. QED BY <1>1, <1>3, <2>1, <2>2, <2>3 DEF ReceiptInv, CallerSound
<1>. QED BY <1>2, <1>3

LEMMA SlotIsKind == \A r : Slot(r) \in Kinds
  BY DEF Slot, Kinds

\* A receipt that is held is given again.
LEMMA RecallKeeps ==
  ASSUME ReceiptInv, UNCHANGED <<use, terms, commits, doc>>,
         NEW r, Asked(r), NEW lost, terms[Slot(r)].id = r.id,
         AnsweredWith(r, lost, terms[Slot(r)].result)
  PROVE  ReceiptInv'
<1>. DEFINE revision == terms[Slot(r)].result
<1>1. /\ doc.rev \in Nat /\ revision \in Nat /\ revision <= doc.rev /\ r.id \in Ids
  BY SlotIsKind DEF ReceiptInv, DocShaped, TermsSound, Asked, Request
<1>2. CallerSound'
  BY <1>1, AnswerParts DEF CallerSound, Request, Ids
<1>3. CommitsSound'
  <2>1. ASSUME NEW i \in Ids, commits[i] > 0, i \notin caller'.answered
        PROVE  \E k \in Kinds : terms[k].id = i /\ terms[k].result > caller'.known
    <3>1. CASE lost
      <4>1. caller'.known = caller.known /\ caller'.answered = caller.answered
        <5>1. caller' = [caller EXCEPT !.sent = @ \cup {r}]
          BY <3>1 DEF AnsweredWith
        <5>. QED BY <5>1 DEF ReceiptInv, CallerSound
      <4>. QED BY <2>1, <4>1 DEF ReceiptInv, CommitsSound
    <3>2. CASE ~lost
      <4>1. i \notin caller.answered /\ i # r.id
        BY <1>1, <2>1, <3>2, AnswerParts
      <4>2. Pending = i /\ Pending = r.id
        BY <1>1, <2>1, <4>1, PendingIs, SlotIsKind DEF ReceiptInv, CommitsSound
      <4>. QED BY <4>1, <4>2
    <3>. QED BY <3>1, <3>2
  <2>. QED BY <2>1 DEF ReceiptInv, CommitsSound, Ids
<1>. QED BY <1>2, <1>3 DEF ReceiptInv, DocShaped, TermsSound, Ids, Kinds

\* A request that is admitted finds no edit without its answer; its receipt takes
\* the place of the one it acknowledges.
LEMMA SettledKeeps ==
  ASSUME ReceiptInv, use' = use, DocShaped',
         NEW r, Asked(r), Admitted(r), NEW lost,
         doc'.rev \in {doc.rev, doc.rev + 1},
         Settled(r, doc'.rev), AnsweredWith(r, lost, doc'.rev),
         \/ commits' = commits
         \/ Counted(r) /\ doc'.rev = doc.rev + 1
  PROVE  ReceiptInv'
<1>1. /\ doc.rev \in Nat /\ doc'.rev \in Nat /\ doc.rev <= doc'.rev
      /\ r.id \in Ids /\ Ids \subseteq Nat \ {0}
      /\ caller.known \in Nat /\ caller.known <= doc.rev
  BY UseParts DEF ReceiptInv, DocShaped, Asked, Request, CallerSound
<1>2. CallerSound'
  <2>1. /\ caller' \in [known : Nat, sent : SUBSET Request, answered : SUBSET Ids]
        /\ caller'.known <= doc'.rev
        /\ \A q \in caller'.sent :
              /\ q.id \notin caller'.answered
              /\ q.ack \in {0} \cup caller'.answered
              /\ \A p \in caller'.sent : p.id = q.id => p = q
    <3>. DEFINE rev == doc'.rev
    <3>. HIDE DEF rev
    <3>1. rev = doc'.rev
      BY DEF rev
    <3>. QED BY <1>1, <3>1, AnswerParts
  <2>. QED BY <2>1 DEF CallerSound, Request, Ids
<1>3. /\ terms'[Slot(r)] = [id |-> r.id, result |-> doc'.rev]
      /\ \A k \in Kinds \ {Slot(r)} : terms'[k] = None
      /\ terms' \in [Kinds -> [id : Ids \cup {0}, result : Nat]]
  BY <1>1, SlotIsKind DEF Settled, Kinds, None
<1>4. TermsSound'
  <2>1. \A k \in Kinds : terms'[k].result <= doc'.rev
    BY <1>1, <1>3, SlotIsKind DEF None
  <2>2. terms'["source"].id = 0 \/ terms'["intent"].id = 0
    BY <1>1, <1>3, SlotIsKind DEF None, Kinds
  <2>. QED BY <1>3, <2>1, <2>2 DEF TermsSound, Ids
<1>5. \A i \in Ids : ~(commits[i] > 0 /\ i \notin caller.answered)
  <2>1. SUFFICES ASSUME NEW i \in Ids, commits[i] > 0, i \notin caller.answered
                 PROVE  FALSE
    OBVIOUS
  <2>2. Pending = i
    BY <2>1, PendingIs DEF ReceiptInv, CommitsSound
  <2>. QED BY <1>1, <2>1, <2>2 DEF Admitted, Asked
<1>6. /\ IF lost THEN caller'.known = caller.known /\ caller'.answered = caller.answered
         ELSE caller'.answered = caller.answered \cup {r.id}
  <2>. DEFINE rev == doc'.rev
  <2>. HIDE DEF rev
  <2>1. rev = doc'.rev
    BY DEF rev
  <2>. QED BY <1>1, <2>1, AnswerParts
<1>7. CommitsSound'
  <2>1. CASE commits' = commits
    BY <1>5, <1>6, <2>1 DEF ReceiptInv, CommitsSound, Ids
  <2>2. CASE Counted(r) /\ doc'.rev = doc.rev + 1
    <3>1. commits[r.id] = 0
      <4>1. commits[r.id] \in {0, 1}
        BY <1>1 DEF ReceiptInv, CommitsSound
      <4>2. ~(commits[r.id] > 0)
        BY <1>1, <1>5 DEF Asked
      <4>. QED BY <4>1, <4>2
    <3>2. /\ commits' \in [Ids -> {0, 1}]
          /\ \A i \in Ids \ {r.id} : commits'[i] = commits[i]
      BY <1>1, <2>2, <3>1 DEF Counted, ReceiptInv, CommitsSound
    <3>3. ASSUME NEW i \in Ids, commits'[i] > 0, i \notin caller'.answered
          PROVE  \E k \in Kinds : terms'[k].id = i /\ terms'[k].result > caller'.known
      <4>1. i \notin caller.answered
        BY <1>6, <3>3
      <4>2. i = r.id
        BY <1>5, <3>2, <3>3, <4>1
      <4>3. lost /\ caller'.known = caller.known
        BY <1>6, <3>3, <4>2
      <4>4. terms'[Slot(r)].id = i /\ terms'[Slot(r)].result = doc.rev + 1
        BY <1>3, <2>2, <4>2
      <4>. QED BY <1>1, <4>3, <4>4, SlotIsKind
    <3>. QED BY <3>2, <3>3 DEF CommitsSound, Ids
  <2>. QED BY <2>1, <2>2
<1>. QED BY <1>2, <1>4, <1>7 DEF ReceiptInv


-----------------------------------------------------------------------------
(* What every call keeps.                                                  *)

SourceBytes == 1 .. use.open + MaxRev

\* Undoing the splices in turn leads from one text to the other.
Leads(from, splices, to, B) ==
  \E U \in [0 .. Len(splices) -> Seq(B)] :
     U[0] = from /\ U[Len(splices)] = to /\ Undoing(U, splices)

\* No byte occurs twice in a text, and each came before the revision of k.
Distinct(text) == \A i, j \in 1 .. Len(text) : text[i] = text[j] => i = j
Older(text, k) == \A i \in 1 .. Len(text) : text[i] < k
Genuine(text, k) == Distinct(text) /\ Older(text, k)

\* A replacement of one byte at most, which no text had before.
Brought(new, k) == Len(new) <= 1 /\ \A i \in 1 .. Len(new) : new[i] = k

\* The byte an edit of this revision inserts.
Clock == use.open + doc.rev
IsNew(new) == Brought(new, Clock)

\* The bytes a splice takes from a text are not those it puts there.
Apart(text, s) == \A i \in s.start + 1 .. s.end : \A j \in 1 .. Len(s.text) : text[i] # s.text[j]

\* A token of one splice, which takes other bytes than it brings back.
Alone(x, texts) == Len(x.splices) = 1 /\ Apart(texts[x.applies], x.splices[1])

\* The document, and the text each history state names.
SourceSound ==
  /\ doc \in [rev : 1 .. MaxRev, text : Seq(SourceBytes), ready : BOOLEAN, drain : {0, 1}]
  /\ Len(doc.text) <= MaxBytes
  /\ states \in [now : Nat, next : Nat, token : Nat \ {0}]
  /\ states.now \in 1 .. states.next - 1
  /\ seen \in [1 .. states.next - 1 -> Seq(SourceBytes)]
  /\ doc.text = seen[states.now]
  /\ \A k \in DOMAIN seen : Genuine(seen[k], Clock)

\* A token leads from the text it applies to, to the text of its target; without
\* groups it has one splice.
TokenSound(x, texts, owner) ==
  /\ x.owner = owner
  /\ Len(x.splices) \in 1 .. MaxSteps
  /\ x.applies \in DOMAIN texts /\ x.target \in DOMAIN texts
  /\ Leads(texts[x.applies], x.splices, texts[x.target], SourceBytes)
  /\ use.groups = {0} => Alone(x, texts)

\* The tokens are one list, within its budget, of handles below `next`.
HistorySound(h, next, texts, owner) ==
  /\ Chain(h, SourceBytes, use.owners)
  /\ h.used <= h.budget
  /\ Paid(h)
  /\ \A t \in DOMAIN h.tokens : t < next /\ TokenSound(h.tokens[t], texts, owner)

HistSound == HistorySound(hist, states.token, seen, sess.owner)

Transaction ==
  [base : Nat, edit : Edit, filled : BOOLEAN, checked : BOOLEAN, captured : BOOLEAN,
   capturing : BOOLEAN, inverse : Seq(SourceBytes), request : Nat]

\* A transaction of the current revision fits the source, and has captured what
\* its edit replaces.
TransactionSound(x, rev, text) ==
  /\ x \in Transaction
  /\ x.base <= rev
  /\ x.base = rev =>
       /\ x.edit.end <= Len(text)
       /\ x.captured /\ x.capturing => x.inverse = Bytes(text, x.edit.start, x.edit.end)

TxnsSound ==
  /\ DOMAIN txns \subseteq Handles /\ txns = [h \in DOMAIN txns |-> txns[h]]
  /\ \A h \in DOMAIN txns : TransactionSound(txns[h], doc.rev, doc.text)

Position(len) == [offset : 0 .. len, affinity : {"up", "down"}]

ViewsSound ==
  /\ DOMAIN conts \subseteq Handles /\ \A h \in DOMAIN conts : conts[h] = doc.rev
  /\ DOMAIN anchors \subseteq Handles
  /\ \A h \in DOMAIN anchors : anchors[h] \in Position(Len(doc.text))

\* Nothing is in the tables before the session is open and after it is gone.
SessSound ==
  /\ sess \in [phase : {"creating", "open", "gone"}, owner : use.owners,
               progress : 0 .. use.pumps + 1, closing : BOOLEAN,
               closed : BOOLEAN, txns : SUBSET Handles]
  /\ sess.phase # "gone" => DOMAIN txns \subseteq sess.txns
  /\ sess.phase # "open" =>
       /\ DOMAIN txns = {} /\ DOMAIN conts = {} /\ DOMAIN anchors = {}
       /\ DOMAIN hist.tokens = {}

SessionInv ==
  /\ ReceiptInv /\ caller.known > 0
  /\ SourceSound /\ SessSound /\ TxnsSound /\ ViewsSound /\ HistSound

-----------------------------------------------------------------------------
(* Texts and the splices that lead from one to another.                    *)

LEMMA LeadsUndone ==
  ASSUME NEW B, NEW splices \in Seq(Putting(B)), NEW from, NEW to, Leads(from, splices, to, B)
  PROVE  UndoneInTurn(from, splices) = to
<1>1. PICK U \in [0 .. Len(splices) -> Seq(B)] :
             U[0] = from /\ U[Len(splices)] = to /\ Undoing(U, splices)
  BY DEF Leads
<1>2. UndoneInTurn(U[0], splices) = U[Len(splices)]
  BY <1>1, UndoneIs
<1>. QED BY <1>1, <1>2

LEMMA LeadsOne ==
  ASSUME NEW B, NEW text \in Seq(B), NEW s \in Putting(B),
         s.start <= s.end, s.end <= Len(text),
         NEW to, to = Spliced(text, s.start, s.end, s.text)
  PROVE  Leads(text, <<s>>, to, B)
<1>. DEFINE q == <<s>>
            U == [k \in 0 .. 1 |-> IF k = 0 THEN text ELSE to]
<1>1. Len(q) = 1 /\ q[1] = s /\ q[(1 - 1) + 1] = s
  OBVIOUS
<1>2. to \in Seq(B)
  <2>1. s.text \in Seq(B) /\ s.start \in Nat /\ s.end \in Nat
    BY DEF Putting
  <2>. QED BY <2>1, SplicedParts
<1>3. U \in [0 .. 1 -> Seq(B)] /\ U[0] = text /\ U[1] = to /\ U[1 - 1] = text
  BY <1>2
<1>. HIDE DEF U, q
<1>4. Undoing(U, q)
  <2>. SUFFICES ASSUME NEW k \in 1 .. Len(q), NEW z, z = q[Len(q) - k + 1]
                PROVE  /\ z.start <= z.end /\ z.end <= Len(U[k - 1])
                       /\ U[k] = Spliced(U[k - 1], z.start, z.end, z.text)
    BY DEF Undoing
  <2>1. k = 1
    BY <1>1
  <2>2. z = s
    BY <1>1, <2>1
  <2>. QED BY <1>3, <2>1, <2>2
<1>5. Leads(text, q, to, B)
  BY <1>1, <1>3, <1>4 DEF Leads
<1>. QED BY <1>5 DEF q

\* One splice more is undone first.
LEMMA LeadsMore ==
  ASSUME NEW B, NEW text \in Seq(B), NEW s \in Putting(B),
         s.start <= s.end, s.end <= Len(text),
         NEW mid, mid = Spliced(text, s.start, s.end, s.text),
         NEW splices \in Seq(Putting(B)), NEW to, Leads(mid, splices, to, B)
  PROVE  Leads(text, Append(splices, s), to, B)
<1>. DEFINE n == Len(splices)
            q == Append(splices, s)
<1>1. PICK V \in [0 .. n -> Seq(B)] : V[0] = mid /\ V[n] = to /\ Undoing(V, splices)
  BY DEF Leads
<1>2. n \in Nat
  BY LenProperties
<1>3. /\ Len(q) = n + 1 /\ q[n + 1] = s /\ \A i \in 1 .. n : q[i] = splices[i]
  BY AppendProperties
<1>. DEFINE U == [k \in 0 .. n + 1 |-> IF k = 0 THEN text ELSE V[k - 1]]
<1>4. /\ U \in [0 .. n + 1 -> Seq(B)] /\ U[0] = text
      /\ \A k \in 1 .. n + 1 : U[k] = V[k - 1]
  <2>1. \A k \in 1 .. n + 1 : k - 1 \in 0 .. n
    BY <1>2
  <2>2. \A k \in 0 .. n + 1 : k = 0 \/ k \in 1 .. n + 1
    BY <1>2
  <2>. QED BY <1>2, <2>1, <2>2
<1>. HIDE DEF U, q
<1>5. ASSUME NEW k \in 1 .. n + 1, NEW z, z = q[(n + 1) - k + 1]
      PROVE  /\ z.start <= z.end /\ z.end <= Len(U[k - 1])
             /\ U[k] = Spliced(U[k - 1], z.start, z.end, z.text)
  <2>1. CASE k = 1
    <3>1. (n + 1) - k + 1 = n + 1 /\ k - 1 = 0 /\ 1 \in 1 .. n + 1
      BY <1>2, <2>1
    <3>2. z = s
      BY <1>3, <1>5, <3>1
    <3>3. U[k - 1] = text /\ U[k] = mid
      BY <1>1, <1>4, <2>1, <3>1
    <3>. QED BY <3>2, <3>3
  <2>2. CASE k # 1
    <3>. DEFINE j == k - 1
    <3>1. j \in 1 .. n /\ (n + 1) - k + 1 = n - j + 1 /\ n - j + 1 \in 1 .. n
          /\ k - 1 \in 1 .. n + 1
      BY <1>2, <2>2
    <3>2. z = splices[n - j + 1]
      BY <1>3, <1>5, <3>1
    <3>3. /\ z.start <= z.end /\ z.end <= Len(V[j - 1])
          /\ V[j] = Spliced(V[j - 1], z.start, z.end, z.text)
      BY <1>1, <3>1, <3>2 DEF Undoing
    <3>4. U[k] = V[j] /\ U[k - 1] = V[j - 1]
      BY <1>4, <3>1
    <3>. QED BY <3>3, <3>4
  <2>. QED BY <2>1, <2>2
<1>6. Undoing(U, q)
  BY <1>3, <1>5 DEF Undoing
<1>7. U[n + 1] = to
  <2>1. n + 1 \in 1 .. n + 1 /\ (n + 1) - 1 = n
    BY <1>2
  <2>. QED BY <1>1, <1>4, <2>1
<1>8. Leads(text, q, to, B)
  BY <1>3, <1>4, <1>6, <1>7 DEF Leads
<1>. QED BY <1>8 DEF q

\* The edit that replays a token, and what it does.
Replaying(from, x, to, s, B) ==
  /\ x.splices \in Seq(Putting(B)) /\ Len(x.splices) \in Nat \ {0}
  /\ Leads(from, x.splices, to, B)
  /\ s = Replayed(from, x) /\ s.start <= s.end

ReplaysTo(from, to, s, B) ==
  /\ s \in Putting(B) /\ s.end <= Len(from)
  /\ from \in Seq(B) /\ to \in Seq(B)
  /\ Spliced(from, s.start, s.end, s.text) = to

\* A replay is one edit that does what undoing in turn does.
LEMMA ReplayedLeads ==
  ASSUME NEW B, NEW x, NEW from, NEW to, NEW s, Replaying(from, x, to, s, B)
  PROVE  ReplaysTo(from, to, s, B)
<1>. SUFFICES /\ s \in Putting(B) /\ s.end <= Len(from)
              /\ from \in Seq(B) /\ to \in Seq(B)
              /\ Spliced(from, s.start, s.end, s.text) = to
  BY DEF ReplaysTo
<1>0. /\ x.splices \in Seq(Putting(B)) /\ Len(x.splices) \in Nat \ {0}
      /\ Leads(from, x.splices, to, B)
      /\ s = Replayed(from, x) /\ s.start <= s.end
  BY DEF Replaying
<1>. USE <1>0
<1>. DEFINE q == x.splices
            n == Len(q)
<1>1. PICK U \in [0 .. n -> Seq(B)] : U[0] = from /\ U[n] = to /\ Undoing(U, q)
  BY DEF Leads
<1>2. from \in Seq(B) /\ to \in Seq(B)
  <2>1. 0 \in 0 .. n /\ n \in 0 .. n
    OBVIOUS
  <2>. QED BY <1>1, <2>1
<1>3. CASE n = 1
  <2>1. s = q[1] /\ q[1] \in Putting(B)
    BY <1>3, ElementOfSeq DEF Replayed
  <2>2. 1 \in 1 .. n /\ n - 1 + 1 = 1 /\ 1 - 1 = 0
    BY <1>3
  <2>3. /\ s.end <= Len(U[0]) /\ U[1] = Spliced(U[0], s.start, s.end, s.text)
    BY <1>1, <2>1, <2>2 DEF Undoing
  <2>. QED BY <1>1, <1>2, <1>3, <2>1, <2>3
<1>4. CASE n # 1
  <2>1. s = Materialized(U[0], q)
    BY <1>1, <1>4 DEF Replayed
  <2>2. /\ s \in Putting(B) /\ s.end <= Len(U[0])
        /\ Spliced(U[0], s.start, s.end, s.text) = U[n]
    <3>1. q \in Seq(Putting(B)) /\ U \in [0 .. Len(q) -> Seq(B)] /\ Undoing(U, q)
      BY <1>1
    <3>. HIDE DEF q
    <3>. QED BY <2>1, <3>1, MaterializedUndoes DEF n
  <2>. QED BY <1>1, <1>2, <2>2
<1>. QED BY <1>3, <1>4

-----------------------------------------------------------------------------
(* The history after a call.                                               *)

\* The texts are known under the names they had, others may have come.
Extends(later, texts) ==
  DOMAIN texts \subseteq DOMAIN later /\ \A s \in DOMAIN texts : later[s] = texts[s]

LEMMA TokenStays ==
  ASSUME NEW x, NEW y, NEW texts, NEW later, NEW owner,
         TokenSound(x, texts, owner), Extends(later, texts),
         y.owner = x.owner, y.splices = x.splices, y.applies = x.applies, y.target = x.target
  PROVE  TokenSound(y, later, owner)
<1>1. texts[x.applies] = later[y.applies] /\ texts[x.target] = later[y.target]
      /\ y.applies \in DOMAIN later /\ y.target \in DOMAIN later
  BY DEF TokenSound, Extends
<1>2. use.groups = {0} => Alone(y, later)
  BY <1>1 DEF TokenSound, Alone
<1>. QED BY <1>1, <1>2 DEF TokenSound

LEMMA KeptSound ==
  ASSUME NEW h, NEW next, NEW texts, NEW owner, HistorySound(h, next, texts, owner),
         NEW g, Kept(g, h, SourceBytes, use.owners)
  PROVE  HistorySound(g, next, texts, owner)
<1>1. /\ Chain(g, SourceBytes, use.owners) /\ g.used <= g.budget
      /\ DOMAIN g.tokens \subseteq DOMAIN h.tokens /\ SameTokens(g, h, DOMAIN g.tokens)
  BY DEF Kept, Cut
<1>2. Extends(texts, texts)
  BY DEF Extends
<1>3. \A t \in DOMAIN g.tokens : t < next /\ TokenSound(g.tokens[t], texts, owner)
  <2>1. ASSUME NEW t \in DOMAIN g.tokens
        PROVE  t < next /\ TokenSound(g.tokens[t], texts, owner)
    <3>1. t < next /\ TokenSound(h.tokens[t], texts, owner)
      BY <1>1 DEF HistorySound
    <3>2. /\ g.tokens[t].owner = h.tokens[t].owner /\ g.tokens[t].splices = h.tokens[t].splices
          /\ g.tokens[t].applies = h.tokens[t].applies /\ g.tokens[t].target = h.tokens[t].target
      BY <1>1 DEF SameTokens
    <3>3. TokenSound(g.tokens[t], texts, owner)
      BY <1>2, <3>1, <3>2, TokenStays
    <3>. QED BY <3>1, <3>3
  <2>. QED BY <2>1
<1>4. Paid(g)
  BY <1>1 DEF HistorySound, Paid, SameTokens
<1>. QED BY <1>1, <1>3, <1>4 DEF HistorySound

\* Texts and handles may have come since.
LEMMA LaterSound ==
  ASSUME NEW h, NEW next \in Nat, NEW texts, NEW owner, HistorySound(h, next, texts, owner),
         NEW k \in Nat, next <= k, NEW later, Extends(later, texts)
  PROVE  HistorySound(h, k, later, owner)
<1>1. \A t \in DOMAIN h.tokens : t \in Nat /\ t < k /\ TokenSound(h.tokens[t], later, owner)
  <2>1. DOMAIN h.tokens \subseteq Nat
    BY DEF HistorySound, Chain, TypedHistory
  <2>2. ASSUME NEW t \in DOMAIN h.tokens
        PROVE  t < k /\ TokenSound(h.tokens[t], later, owner)
    <3>1. t < next /\ TokenSound(h.tokens[t], texts, owner)
      BY DEF HistorySound
    <3>2. TokenSound(h.tokens[t], later, owner)
      BY <3>1, TokenStays
    <3>. QED BY <2>1, <3>1, <3>2
  <2>. QED BY <2>1, <2>2
<1>. QED BY <1>1 DEF HistorySound

LEMMA GainedSound ==
  ASSUME NEW h, NEW t \in Nat \ {0}, NEW texts, NEW owner, HistorySound(h, t, texts, owner),
         NEW x, NEW g, Gained(g, h, t, x, SourceBytes, use.owners),
         NEW later, Extends(later, texts),
         TokenSound(x, later, owner), x.retained = HeldBytes(x.splices)
  PROVE  HistorySound(g, t + 1, later, owner)
<1>1. /\ Chain(g, SourceBytes, use.owners) /\ g.used <= g.budget
      /\ DOMAIN g.tokens \subseteq DOMAIN h.tokens \cup {t}
      /\ SameTokens(g, h, DOMAIN g.tokens \ {t})
  BY DEF Gained
<1>2. DOMAIN h.tokens \subseteq Nat
  BY DEF HistorySound, Chain, TypedHistory
<1>3. ASSUME NEW u \in DOMAIN g.tokens
      PROVE  /\ u < t + 1 /\ TokenSound(g.tokens[u], later, owner)
             /\ g.tokens[u].retained = HeldBytes(g.tokens[u].splices)
  <2>1. CASE u = t
    <3>1. /\ g.tokens[u].owner = x.owner /\ g.tokens[u].splices = x.splices
          /\ g.tokens[u].applies = x.applies /\ g.tokens[u].target = x.target
          /\ g.tokens[u].retained = x.retained
      BY <2>1 DEF Gained
    <3>2. Extends(later, later)
      BY DEF Extends
    <3>3. TokenSound(g.tokens[u], later, owner)
      BY <3>1, <3>2, TokenStays
    <3>. QED BY <2>1, <3>1, <3>3
  <2>2. CASE u # t
    <3>1. u \in DOMAIN h.tokens /\ u \in DOMAIN g.tokens \ {t}
      BY <1>1, <2>2
    <3>2. /\ g.tokens[u].owner = h.tokens[u].owner /\ g.tokens[u].splices = h.tokens[u].splices
          /\ g.tokens[u].applies = h.tokens[u].applies /\ g.tokens[u].target = h.tokens[u].target
          /\ g.tokens[u].retained = h.tokens[u].retained
      BY <1>1, <3>1 DEF SameTokens
    <3>3. /\ u < t /\ TokenSound(h.tokens[u], texts, owner)
          /\ h.tokens[u].retained = HeldBytes(h.tokens[u].splices)
      BY <3>1 DEF HistorySound, Paid
    <3>4. TokenSound(g.tokens[u], later, owner)
      BY <3>2, <3>3, TokenStays
    <3>5. u \in Nat /\ u < t + 1
      BY <1>2, <3>1, <3>3
    <3>. QED BY <3>2, <3>3, <3>4, <3>5
  <2>. QED BY <2>1, <2>2
<1>4. Paid(g) /\ \A u \in DOMAIN g.tokens : u < t + 1 /\ TokenSound(g.tokens[u], later, owner)
  BY <1>3 DEF Paid
<1>. QED BY <1>1, <1>4 DEF HistorySound

\* A token that undoes one edit more still leads to its target.
LEMMA GrownSound ==
  ASSUME NEW h, NEW next \in Nat, NEW texts, NEW owner, HistorySound(h, next, texts, owner),
         NEW t \in DOMAIN h.tokens, NEW applies, NEW s \in Putting(SourceBytes), NEW g,
         Grown(g, h, t, applies, s, SourceBytes, use.owners),
         NEW later, Extends(later, texts), applies \in DOMAIN later,
         NEW text \in Seq(SourceBytes), later[applies] = text,
         s.start <= s.end, s.end <= Len(text),
         Spliced(text, s.start, s.end, s.text) = texts[h.tokens[t].applies],
         Len(h.tokens[t].splices) < MaxSteps, use.groups # {0}
  PROVE  HistorySound(g, next + 1, later, owner)
<1>. DEFINE x == h.tokens[t]
            y == g.tokens[t]
<1>1. /\ Chain(g, SourceBytes, use.owners) /\ g.used <= g.budget
      /\ DOMAIN g.tokens = DOMAIN h.tokens
      /\ SameTokens(g, h, DOMAIN h.tokens \ {t})
      /\ y.applies = applies /\ y.target = x.target /\ y.owner = x.owner
      /\ y.splices = Append(x.splices, s)
      /\ y.retained = (x.retained + SpliceOverhead) + Len(s.text)
  BY DEF Grown
<1>2. DOMAIN h.tokens \subseteq Nat /\ MaxSteps \in Nat
  BY HistoryAssumption DEF HistorySound, Chain, TypedHistory
<1>3. x \in TokenOf(SourceBytes, use.owners) /\ x.splices \in Seq(Putting(SourceBytes))
  <2>1. x \in TokenOf(SourceBytes, use.owners)
    BY DEF HistorySound, Chain, TypedHistory
  <2>. HIDE DEF x
  <2>. QED BY <2>1 DEF TokenOf
<1>4. TokenSound(x, texts, owner) /\ x.retained = HeldBytes(x.splices) /\ t < next
  BY DEF HistorySound, Paid
<1>. HIDE DEF x, y
<1>5. y.retained = HeldBytes(y.splices) /\ Len(y.splices) = Len(x.splices) + 1
  BY <1>1, <1>3, <1>4, HeldAppend
<1>6. TokenSound(y, later, owner)
  <2>1. Leads(texts[x.applies], x.splices, texts[x.target], SourceBytes)
        /\ x.applies \in DOMAIN texts /\ x.target \in DOMAIN texts
        /\ x.owner = owner /\ Len(x.splices) \in 1 .. MaxSteps
    BY <1>4 DEF TokenSound
  <2>2. later[x.target] = texts[x.target] /\ x.target \in DOMAIN later
    BY <2>1 DEF Extends
  <2>3. Leads(text, Append(x.splices, s), texts[x.target], SourceBytes)
    <3>1. PICK mid : mid = texts[x.applies]
      OBVIOUS
    <3>2. PICK to : to = texts[x.target]
      OBVIOUS
    <3>3. mid = Spliced(text, s.start, s.end, s.text) /\ Leads(mid, x.splices, to, SourceBytes)
      BY <2>1, <3>1, <3>2 DEF x
    <3>4. PICK q \in Seq(Putting(SourceBytes)) : q = x.splices
      BY <1>3
    <3>5. Leads(text, Append(q, s), to, SourceBytes)
      BY <3>3, <3>4, LeadsMore
    <3>. QED BY <3>2, <3>4, <3>5
  <2>4. Leads(later[y.applies], y.splices, later[y.target], SourceBytes)
    BY <1>1, <2>2, <2>3
  <2>5. Len(y.splices) \in 1 .. MaxSteps
    <3>1. Len(x.splices) < MaxSteps
      BY DEF x
    <3>2. PICK n \in Nat : n = Len(x.splices)
      BY <2>1, <1>2
    <3>3. n + 1 \in 1 .. MaxSteps
      BY <1>2, <3>1, <3>2
    <3>. QED BY <1>5, <3>2, <3>3
  <2>. QED BY <1>1, <2>1, <2>2, <2>4, <2>5 DEF TokenSound
<1>7. ASSUME NEW u \in DOMAIN g.tokens
      PROVE  /\ u < next + 1 /\ TokenSound(g.tokens[u], later, owner)
             /\ g.tokens[u].retained = HeldBytes(g.tokens[u].splices)
  <2>1. CASE u = t
    <3>1. t \in Nat /\ t < next + 1
      BY <1>2, <1>4
    <3>. QED BY <1>5, <1>6, <2>1, <3>1 DEF y
  <2>2. CASE u # t
    <3>1. u \in DOMAIN h.tokens
      BY <1>1
    <3>2. /\ g.tokens[u].owner = h.tokens[u].owner /\ g.tokens[u].splices = h.tokens[u].splices
          /\ g.tokens[u].applies = h.tokens[u].applies /\ g.tokens[u].target = h.tokens[u].target
          /\ g.tokens[u].retained = h.tokens[u].retained
      BY <1>1, <2>2, <3>1 DEF SameTokens
    <3>3. /\ u < next /\ TokenSound(h.tokens[u], texts, owner)
          /\ h.tokens[u].retained = HeldBytes(h.tokens[u].splices)
      BY <3>1 DEF HistorySound, Paid
    <3>4. TokenSound(g.tokens[u], later, owner)
      BY <3>2, <3>3, TokenStays
    <3>5. u \in Nat /\ u < next + 1
      BY <1>2, <3>1, <3>3
    <3>. QED BY <3>2, <3>3, <3>4, <3>5
  <2>. QED BY <2>1, <2>2
<1>8. Paid(g) /\ \A u \in DOMAIN g.tokens : u < next + 1 /\ TokenSound(g.tokens[u], later, owner)
  BY <1>7 DEF Paid
<1>. QED BY <1>1, <1>8 DEF HistorySound

-----------------------------------------------------------------------------
(* An edit of the source.                                                  *)

LEMMA NewIs ==
  ASSUME use \in Uses, SourceSound, NEW e \in Edit
  PROVE  /\ New(e) \in Seq(SourceBytes) /\ Len(New(e)) = e.len
         /\ IsNew(New(e))
<1>1. e.len \in Nat
  BY DEF Edit
<1>2. use.open + doc.rev \in SourceBytes
  <2>1. use.open \in Nat /\ MaxRev \in Nat
    BY UseParts
  <2>2. doc.rev \in 1 .. MaxRev
    BY DEF SourceSound
  <2>. QED BY <2>1, <2>2 DEF SourceBytes
<1>. DEFINE n == e.len
<1>3. New(e) \in [1 .. n -> SourceBytes]
  BY <1>2 DEF New
<1>4. PICK k \in Nat : k = e.len
  BY <1>1
<1>5. New(e) \in [1 .. k -> SourceBytes]
  BY <1>3, <1>4
<1>6. New(e) \in Seq(SourceBytes) /\ Len(New(e)) = k
  BY <1>5, FunctionSeq
<1>7. \A i \in 1 .. k : New(e)[i] = Clock
  BY <1>4 DEF New, Clock
<1>8. k <= 1
  BY <1>4 DEF Edit
<1>. QED BY <1>4, <1>6, <1>7, <1>8 DEF Brought, IsNew

LEMMA GenuineSpliced ==
  ASSUME NEW text, NEW new, NEW out, NEW k \in Nat, NEW n \in Nat, NEW m \in Nat,
         Len(text) = m, Len(new) = n,
         NEW a \in Nat, NEW b \in Nat, a <= b, b <= m,
         IsSplice(out, text, a, b, new), Genuine(text, k), Brought(new, k),
         \A i \in 1 .. m : text[i] \in Nat
  PROVE  Genuine(out, k + 1)
<1>1. Len(out) = a + n + (m - b) /\ n <= 1
  BY DEF IsSplice, Brought
<1>2. ASSUME NEW i \in 1 .. Len(out)
      PROVE  \/ i <= a /\ out[i] = text[i] /\ i \in 1 .. m
             \/ i = a + 1 /\ n = 1 /\ out[i] = k
             \/ a + n < i /\ out[i] = text[i - a - n + b] /\ i - a - n + b \in b + 1 .. m
  <2>1. CASE i <= a
    BY <1>1, <2>1 DEF IsSplice
  <2>2. CASE a < i /\ i <= a + n
    <3>1. n = 1 /\ i = a + 1 /\ i - a = 1
      BY <1>1, <2>2
    <3>2. out[i] = new[i - a]
      BY <2>2 DEF IsSplice
    <3>. QED BY <3>1, <3>2 DEF Brought
  <2>3. CASE a + n < i
    <3>1. i - a - n + b \in b + 1 .. m
      BY <1>1, <2>3
    <3>. QED BY <2>3, <3>1 DEF IsSplice
  <2>. QED BY <1>1, <2>1, <2>2, <2>3
<1>3. ASSUME NEW i \in 1 .. m
      PROVE  text[i] < k /\ text[i] \in Nat /\ text[i] # k
  BY DEF Genuine, Older
<1>4. Older(out, k + 1)
  <2>1. ASSUME NEW i \in 1 .. Len(out) PROVE out[i] < k + 1
    <3>1. PICK j : j = i - a - n + b
      OBVIOUS
    <3>2. CASE i <= a /\ out[i] = text[i] /\ i \in 1 .. m
      BY <1>3, <3>2
    <3>3. CASE out[i] = k
      BY <3>3
    <3>4. CASE out[i] = text[j] /\ j \in b + 1 .. m
      <4>1. j \in 1 .. m
        BY <3>4
      <4>2. text[j] < k /\ text[j] \in Nat
        BY <1>3, <4>1
      <4>. QED BY <3>4, <4>2
    <3>. QED BY <1>2, <3>1, <3>2, <3>3, <3>4
  <2>. QED BY <2>1 DEF Older
<1>5. Distinct(out)
  <2>1. ASSUME NEW i \in 1 .. Len(out), NEW j \in 1 .. Len(out), out[i] = out[j]
        PROVE  i = j
    <3>1. PICK p : p = i - a - n + b
      OBVIOUS
    <3>2. PICK q : q = j - a - n + b
      OBVIOUS
    <3>3. \/ i <= a /\ out[i] = text[i] /\ i \in 1 .. m
          \/ i = a + 1 /\ out[i] = k
          \/ a + n < i /\ out[i] = text[p] /\ p \in b + 1 .. m
      BY <1>2, <3>1
    <3>4. \/ j <= a /\ out[j] = text[j] /\ j \in 1 .. m
          \/ j = a + 1 /\ out[j] = k
          \/ a + n < j /\ out[j] = text[q] /\ q \in b + 1 .. m
      BY <1>2, <3>2
    <3>5. \A u, v \in 1 .. m : text[u] = text[v] => u = v
      BY DEF Genuine, Distinct
    <3>6. b + 1 .. m \subseteq 1 .. m /\ i \in Int /\ j \in Int
      BY <1>1
    <3>7. p = q => i = j
      BY <3>1, <3>2, <3>6
    <3>8. p # j \/ p \notin b + 1 .. m \/ ~(j <= a)
      OBVIOUS
    <3>9. q # i \/ q \notin b + 1 .. m \/ ~(i <= a)
      OBVIOUS
    <3>. HIDE DEF Distinct
    <3>10. CASE i <= a /\ out[i] = text[i] /\ i \in 1 .. m
      BY <1>3, <2>1, <3>4, <3>5, <3>6, <3>9, <3>10
    <3>11. CASE i = a + 1 /\ out[i] = k
      BY <1>3, <2>1, <3>4, <3>6, <3>11
    <3>12. CASE out[i] = text[p] /\ p \in b + 1 .. m
      BY <1>3, <2>1, <3>4, <3>5, <3>6, <3>7, <3>8, <3>12
    <3>. QED BY <3>3, <3>10, <3>11, <3>12
  <2>. QED BY <2>1 DEF Distinct
<1>. QED BY <1>4, <1>5 DEF Genuine

\* What an edit brought and what undoing it brings back are apart.
LEMMA ApartBrought ==
  ASSUME NEW B, NEW text \in Seq(B), NEW new \in Seq(B), NEW k, NEW out,
         NEW a \in Nat, NEW b \in Nat, a <= b, b <= Len(text),
         out = Spliced(text, a, b, new),
         Older(text, k), Brought(new, k), ~(k < k),
         NEW s, s.start = a, s.end = a + Len(new), s.text = Bytes(text, a, b)
  PROVE  Apart(out, s)
<1>1. IsSplice(out, text, a, b, new)
  BY SplicedParts
<1>2. Len(s.text) = b - a /\ \A j \in 1 .. b - a : s.text[j] = text[a + j]
  <2>1. Len(Bytes(text, a, b)) = b - a /\ \A j \in 1 .. b - a : Bytes(text, a, b)[j] = text[a + j]
    BY ONLY a \in Nat, b \in Nat, a <= b, b <= Len(text), text \in Seq(B), SubSeqParts
  <2>. QED BY <2>1
<1>3. PICK n \in Nat : n = Len(new)
  BY LenProperties
<1>4. PICK m \in Nat : m = Len(text)
  BY LenProperties
<1>5. ASSUME NEW i \in a + 1 .. a + n PROVE out[i] = k
  <2>1. i \in 1 .. Len(out) /\ i - a \in 1 .. n /\ a < i /\ i <= a + n
    BY <1>1, <1>3, <1>4 DEF IsSplice
  <2>2. out[i] = new[i - a]
    BY <1>1, <1>3, <2>1 DEF IsSplice
  <2>. QED BY <1>3, <2>1, <2>2 DEF Brought
<1>6. ASSUME NEW j \in 1 .. b - a PROVE s.text[j] < k
  <2>1. a + j \in 1 .. m
    BY <1>4
  <2>. QED BY <1>2, <1>4, <2>1 DEF Older
<1>. QED BY <1>2, <1>3, <1>5, <1>6 DEF Apart

\* So are what undoing it takes and what redoing brings back.
LEMMA ApartBack ==
  ASSUME NEW B, NEW text \in Seq(B), NEW new \in Seq(B), NEW out,
         NEW a \in Nat, NEW b \in Nat, a <= b, b <= Len(text),
         out = Spliced(text, a, b, new),
         NEW s, s.start = a, s.end = b, s.text = new, Apart(text, s),
         NEW back, back.start = a, back.end = a + Len(new), back.text = Bytes(text, a, b)
  PROVE  Apart(out, back)
<1>1. IsSplice(out, text, a, b, new)
  BY SplicedParts
<1>2. Len(back.text) = b - a /\ \A j \in 1 .. b - a : back.text[j] = text[a + j]
  <2>1. Len(Bytes(text, a, b)) = b - a /\ \A j \in 1 .. b - a : Bytes(text, a, b)[j] = text[a + j]
    BY ONLY a \in Nat, b \in Nat, a <= b, b <= Len(text), text \in Seq(B), SubSeqParts
  <2>. QED BY <2>1
<1>3. PICK n \in Nat : n = Len(new)
  BY LenProperties
<1>4. PICK m \in Nat : m = Len(text)
  BY LenProperties
<1>5. ASSUME NEW i \in a + 1 .. a + n PROVE out[i] = new[i - a] /\ i - a \in 1 .. n
  <2>1. i \in 1 .. Len(out) /\ i - a \in 1 .. n /\ a < i /\ i <= a + n
    BY <1>1, <1>3, <1>4 DEF IsSplice
  <2>. QED BY <1>1, <1>3, <2>1 DEF IsSplice
<1>6. ASSUME NEW i \in a + 1 .. b, NEW j \in 1 .. n PROVE text[i] # new[j]
  BY <1>3 DEF Apart
<1>7. ASSUME NEW i \in a + 1 .. a + n, NEW j \in 1 .. b - a PROVE out[i] # back.text[j]
  <2>1. a + j \in a + 1 .. b
    OBVIOUS
  <2>. QED BY <1>2, <1>5, <1>6, <2>1
<1>. QED BY <1>2, <1>3, <1>7 DEF Apart

\* The bytes that an edit leaves stay on the side of an anchor they were on.
Survives(off, later, text, out) ==
  \A c \in AllBytes(text) \cap AllBytes(out) :
     (c \in BytesBefore(text, off)) <=> (c \in BytesBefore(out, later))

LEMMA PlaceKept ==
  ASSUME NEW text, NEW new, NEW out, NEW n \in Nat, NEW m \in Nat, NEW l,
         Len(text) = m, Len(new) = n, Len(out) = l,
         NEW a \in Nat, NEW b \in Nat, a <= b, b <= m,
         IsSplice(out, text, a, b, new), Distinct(text), Distinct(out),
         NEW s, s.start = a, s.end = b, s.text = new, Apart(text, s),
         NEW off \in 0 .. m, NEW affinity, NEW later,
         later = MapOffset(off, affinity, a, b - a, n)
  PROVE  Survives(off, later, text, out)
<1>1. l = a + n + (m - b)
  BY DEF IsSplice
<1>2. \/ off < a /\ later = off
      \/ off > a /\ off >= b /\ later = (off - (b - a)) + n
      \/ off >= a /\ (off = a \/ off < b) /\ later \in {a, a + n}
  <2>1. off >= a + (b - a) <=> off >= b
    OBVIOUS
  <2>. QED BY <2>1 DEF MapOffset
<1>3. SUFFICES ASSUME NEW c, c \in AllBytes(text), c \in AllBytes(out)
               PROVE  (c \in BytesBefore(text, off)) <=> (c \in BytesBefore(out, later))
  BY DEF Survives
<1>4. PICK i \in 1 .. m : text[i] = c
  BY <1>3 DEF AllBytes, BytesBefore
<1>5. PICK j \in 1 .. l : out[j] = c
  BY <1>3 DEF AllBytes, BytesBefore
<1>6. (c \in BytesBefore(text, off)) <=> i <= off
  <2>1. \A u \in 1 .. m : text[u] = c => u = i
    BY <1>4 DEF Distinct
  <2>. QED BY <1>4, <2>1 DEF BytesBefore
<1>7. (c \in BytesBefore(out, later)) <=> j <= later
  <2>1. \A u \in 1 .. l : out[u] = c => u = j
    BY <1>5 DEF Distinct
  <2>2. later \in Int /\ later <= l
    BY <1>1, <1>2
  <2>3. 1 .. later \subseteq 1 .. l /\ (j <= later => j \in 1 .. later)
    BY <1>1, <2>2
  <2>. QED BY <1>5, <2>1, <2>3 DEF BytesBefore
<1>8. (i <= a /\ j = i) \/ (i > b /\ j = i - b + a + n)
  <2>1. CASE i <= a
    <3>1. i \in 1 .. l /\ out[i] = text[i]
      BY <1>1, <2>1 DEF IsSplice
    <3>2. j = i
      BY <1>4, <1>5, <3>1 DEF Distinct
    <3>. QED BY <2>1, <3>2
  <2>2. CASE i > b
    <3>1. PICK u : u = i - b + a + n
      OBVIOUS
    <3>2. u \in 1 .. l /\ a + n < u /\ u - a - n + b = i
      BY <1>1, <2>2, <3>1
    <3>3. out[u] = text[i]
      BY <3>2 DEF IsSplice
    <3>4. j = u
      BY <1>4, <1>5, <3>2, <3>3 DEF Distinct
    <3>. QED BY <2>2, <3>1, <3>4
  <2>3. CASE a < i /\ i <= b
    <3>1. i \in a + 1 .. b
      BY <2>3
    <3>2. CASE j <= a
      <4>1. j \in 1 .. m /\ out[j] = text[j]
        BY <1>1, <3>2 DEF IsSplice
      <4>2. j = i
        BY <1>4, <1>5, <4>1 DEF Distinct
      <4>. QED BY <2>3, <3>2, <4>2
    <3>3. CASE a < j /\ j <= a + n
      <4>1. out[j] = new[j - a] /\ j - a \in 1 .. n
        BY <1>1, <3>3 DEF IsSplice
      <4>. QED BY <1>4, <1>5, <3>1, <4>1 DEF Apart
    <3>4. CASE a + n < j
      <4>1. PICK u : u = j - a - n + b
        OBVIOUS
      <4>2. out[j] = text[u] /\ u \in 1 .. m /\ u > b
        BY <1>1, <3>4, <4>1 DEF IsSplice
      <4>3. u = i
        BY <1>4, <1>5, <4>2 DEF Distinct
      <4>. QED BY <2>3, <4>2, <4>3
    <3>. QED BY <3>2, <3>3, <3>4
  <2>. QED BY <2>1, <2>2, <2>3
<1>9. i <= off <=> j <= later
  BY <1>2, <1>8
<1>. QED BY <1>6, <1>7, <1>9
-----------------------------------------------------------------------------
(* The source after an edit.                                               *)

DocTyped ==
  /\ doc \in [rev : 1 .. MaxRev, text : Seq(SourceBytes), ready : BOOLEAN, drain : {0, 1}]
  /\ Len(doc.text) <= MaxBytes

\* The source after an edit, and the splice that brings back what it was.
Accepted(a, b, new, inverse) ==
  /\ DocTyped'
  /\ doc'.rev = doc.rev + 1
  /\ doc'.text = Spliced(doc.text, a, b, new)
  /\ Len(doc'.text) = a + Len(new) + (Len(doc.text) - b)
  /\ inverse \in Putting(SourceBytes)
  /\ inverse.start = a /\ inverse.end = a + Len(new)
  /\ inverse.text = Bytes(doc.text, a, b) /\ Len(inverse.text) = b - a
  /\ inverse.start <= inverse.end /\ inverse.end <= Len(doc'.text)
  /\ Spliced(doc'.text, inverse.start, inverse.end, inverse.text) = doc.text

LEMMA EditedAccepts ==
  ASSUME use \in Uses, use' = use, SourceSound,
         NEW a \in Nat, NEW b \in Nat, a <= b, b <= Len(doc.text),
         NEW new \in Seq(SourceBytes), Edited(a, b, new)
  PROVE  Accepted(a, b, new, InverseOf(a, b, new))
<1>1. /\ doc \in [rev : 1 .. MaxRev, text : Seq(SourceBytes), ready : BOOLEAN, drain : {0, 1}]
      /\ MaxRev \in Nat
  BY UseParts DEF SourceSound
<1>2. /\ doc.rev < MaxRev /\ Len(Spliced(doc.text, a, b, new)) <= MaxBytes
      /\ doc' = [doc EXCEPT !.rev = doc.rev + 1, !.text = Spliced(doc.text, a, b, new),
                            !.ready = FALSE]
  BY DEF Edited
<1>. DEFINE text == doc.text
            out == Spliced(text, a, b, new)
            s == InverseOf(a, b, new)
<1>3. text \in Seq(SourceBytes) /\ b <= Len(text)
  BY <1>1
<1>. HIDE DEF text
<1>4. out \in Seq(SourceBytes) /\ IsSplice(out, text, a, b, new)
  BY <1>3, SplicedParts
<1>5. Spliced(out, a, a + Len(new), Bytes(text, a, b)) = text
  BY <1>3, SpliceBack
<1>6. Bytes(text, a, b) \in Seq(SourceBytes) /\ Len(Bytes(text, a, b)) = b - a
  BY <1>3, SubSeqParts
<1>7. Len(out) = a + Len(new) + (Len(text) - b) /\ Len(new) \in Nat /\ Len(text) \in Nat
  BY <1>3, <1>4, LenProperties DEF IsSplice
<1>8. a <= a + Len(new) /\ a + Len(new) <= Len(out) /\ a + Len(new) \in Nat
  <2>1. PICK n \in Nat : n = Len(new)
    BY <1>7
  <2>2. PICK m \in Nat : m = Len(text)
    BY <1>7
  <2>3. b <= m
    BY <1>3, <2>2
  <2>4. a <= a + n /\ a + n <= a + n + (m - b) /\ a + n \in Nat
    BY <2>3
  <2>5. Len(out) = a + n + (m - b)
    BY <1>7, <2>1, <2>2
  <2>. QED BY <2>1, <2>4, <2>5
<1>9. s = [start |-> a, end |-> a + Len(new), text |-> Bytes(text, a, b)]
  BY DEF InverseOf, text
<1>10. /\ s \in Putting(SourceBytes) /\ s.start = a /\ s.end = a + Len(new)
       /\ s.text = Bytes(text, a, b)
  BY <1>6, <1>8, <1>9 DEF Putting
<1>11. doc'.rev = doc.rev + 1 /\ doc'.text = out
  BY <1>1, <1>2 DEF text
<1>. HIDE DEF out
<1>12. DocTyped'
  <2>1. doc' = [doc EXCEPT !.rev = doc.rev + 1, !.text = out, !.ready = FALSE]
    BY <1>2 DEF out, text
  <2>2. doc.rev + 1 \in 1 .. MaxRev
    BY <1>1, <1>2
  <2>3. doc' \in [rev : 1 .. MaxRev, text : Seq(SourceBytes), ready : BOOLEAN, drain : {0, 1}]
    BY <1>1, <1>4, <2>1, <2>2
  <2>4. Len(doc'.text) <= MaxBytes
    BY <1>2, <1>11 DEF out, text
  <2>5. SourceBytes' = SourceBytes /\ MaxBytes' = MaxBytes /\ MaxRev' = MaxRev
    BY DEF SourceBytes, MaxBytes, MaxRev
  <2>. QED BY <2>3, <2>4, <2>5 DEF DocTyped
<1>. HIDE DEF s
<1>13. doc'.text = Spliced(doc.text, a, b, new)
  BY <1>11 DEF out, text
<1>. QED BY <1>5, <1>6, <1>7, <1>8, <1>10, <1>11, <1>12, <1>13 DEF Accepted, s, text

LEMMA BytesAreNat ==
  ASSUME use \in Uses, doc.rev \in 1 .. MaxRev, NEW text \in Seq(SourceBytes)
  PROVE  \A i \in 1 .. Len(text) : text[i] \in Nat
<1>1. SourceBytes \subseteq Nat
  BY UseParts DEF SourceBytes
<1>. QED BY <1>1, ElementOfSeq

\* What is said of the source, part by part.
LEMMA SourceParts ==
  ASSUME use \in Uses, SourceSound
  PROVE  /\ use.open \in Nat /\ doc.rev \in Nat /\ Clock \in Nat
         /\ doc.text \in Seq(SourceBytes) /\ Genuine(doc.text, Clock)
         /\ Older(doc.text, Clock) /\ Distinct(doc.text)
         /\ doc.rev \in 1 .. MaxRev
         /\ \A s \in DOMAIN seen : /\ Genuine(seen[s], Clock)
                                   /\ seen[s] \in Seq(SourceBytes)
<1>1. use.open \in Nat /\ MaxRev \in Nat
  BY UseParts
<1>2. /\ doc.rev \in 1 .. MaxRev /\ doc.text \in Seq(SourceBytes)
      /\ seen \in [1 .. states.next - 1 -> Seq(SourceBytes)]
      /\ states.now \in 1 .. states.next - 1 /\ doc.text = seen[states.now]
      /\ \A s \in DOMAIN seen : Genuine(seen[s], Clock)
  BY DEF SourceSound
<1>3. Genuine(doc.text, Clock)
  BY <1>2
<1>4. doc.rev \in Nat /\ Clock \in Nat
  BY <1>1, <1>2 DEF Clock
<1>. QED BY <1>1, <1>2, <1>3, <1>4 DEF Genuine

LEMMA ClockTicks ==
  ASSUME use \in Uses, use' = use, SourceSound, doc'.rev = doc.rev + 1
  PROVE  Clock' = Clock + 1
<1>1. Clock' = use.open + doc'.rev
  BY DEF Clock
<1>2. PICK n \in Nat, k \in Nat : n = use.open /\ k = doc.rev
  BY SourceParts
<1>3. n + (k + 1) = (n + k) + 1
  OBVIOUS
<1>. QED BY <1>1, <1>2, <1>3 DEF Clock

LEMMA GenuineLater ==
  ASSUME use \in Uses, doc.rev \in 1 .. MaxRev,
         NEW text \in Seq(SourceBytes), NEW k \in Nat, Genuine(text, k)
  PROVE  Genuine(text, k + 1)
<1>1. ASSUME NEW i \in 1 .. Len(text) PROVE text[i] < k + 1
  <2>1. text[i] < k /\ text[i] \in Nat
    BY BytesAreNat DEF Genuine, Older
  <2>. QED BY <2>1
<1>. QED BY <1>1 DEF Genuine, Older

\* An edit that makes a new history state.
LEMMA CommittedKeeps ==
  ASSUME use \in Uses, use' = use, SourceSound,
         NEW a \in Nat, NEW b \in Nat, a <= b, b <= Len(doc.text),
         NEW new \in Seq(SourceBytes), NEW handles, Committed(a, b, new, handles),
         IsNew(new)
  PROVE  /\ Accepted(a, b, new, InverseOf(a, b, new))
         /\ SourceSound' /\ Extends(seen', seen)
         /\ states'.token = states.token + 1 /\ states'.now = states.next
         /\ states.next \in DOMAIN seen' /\ seen'[states.next] = doc'.text
         /\ states.now \in DOMAIN seen' /\ seen'[states.now] = doc.text
         /\ states.token \in Nat \ {0} /\ states.next \in Nat /\ states.now \in Nat
<1>1. Accepted(a, b, new, InverseOf(a, b, new))
  BY EditedAccepts DEF Committed
<1>2. /\ states \in [now : Nat, next : Nat, token : Nat \ {0}]
      /\ states.now \in 1 .. states.next - 1
      /\ seen \in [1 .. states.next - 1 -> Seq(SourceBytes)]
      /\ doc.text = seen[states.now]
  BY DEF SourceSound
<1>3. /\ states' = [states EXCEPT !.now = states.next, !.next = states.next + 1,
                                  !.token = states.token + 1]
      /\ seen' = [s \in DOMAIN seen \cup {states.next} |->
                    IF s = states.next THEN doc'.text ELSE seen[s]]
  BY DEF Committed
<1>4. PICK n \in Nat : n = states.next
  BY <1>2
<1>5. PICK k \in Nat \ {0} : k = states.token
  BY <1>2
<1>6. states' = [now |-> n, next |-> n + 1, token |-> k + 1]
  BY <1>2, <1>3, <1>4, <1>5
<1>7. n > 1 /\ DOMAIN seen = 1 .. n - 1 /\ states.now \in 1 .. n - 1
  BY <1>2, <1>4
<1>8. DOMAIN seen \cup {n} = 1 .. n /\ n \notin DOMAIN seen
  BY <1>7
<1>9. doc'.text \in Seq(SourceBytes) /\ DocTyped'
  <2>1. doc' \in [rev : (1 .. MaxRev)', text : Seq(SourceBytes)', ready : BOOLEAN, drain : {0, 1}]
    BY <1>1 DEF Accepted, DocTyped
  <2>2. SourceBytes' = SourceBytes
    BY DEF SourceBytes, MaxRev
  <2>. QED BY <1>1, <2>1, <2>2 DEF Accepted
<1>10. /\ seen' \in [1 .. n -> Seq(SourceBytes)] /\ seen'[n] = doc'.text
       /\ \A s \in DOMAIN seen : seen'[s] = seen[s]
  BY <1>2, <1>3, <1>4, <1>8, <1>9
<1>11. SourceSound'
  <2>1. /\ states'.now = n /\ states'.next = n + 1 /\ states'.token = k + 1
        /\ states' \in [now : Nat, next : Nat, token : Nat \ {0}]
    BY <1>6
  <2>2. n \in 1 .. (n + 1) - 1 /\ (n + 1) - 1 = n
    BY <1>7
  <2>3. /\ states'.now \in 1 .. states'.next - 1
        /\ seen' \in [1 .. states'.next - 1 -> Seq(SourceBytes)]
        /\ doc'.text = seen'[states'.now]
    BY <1>10, <2>1, <2>2
  <2>4. SourceBytes' = SourceBytes
    BY DEF SourceBytes, MaxRev
  <2>5. \A s \in DOMAIN seen' : Genuine(seen'[s], Clock')
    <3>1. PICK k2 \in Nat : k2 = Clock
      BY SourceParts
    <3>2. Clock' = k2 + 1
      <4>1. doc'.rev = doc.rev + 1
        BY <1>1 DEF Accepted
      <4>. QED BY <3>1, <4>1, ClockTicks
    <3>3. Genuine(doc'.text, k2 + 1)
      <4>1. PICK text \in Seq(SourceBytes) : text = doc.text
        BY SourceParts
      <4>2. PICK out : out = doc'.text
        OBVIOUS
      <4>3. out = Spliced(text, a, b, new) /\ Genuine(text, k2) /\ Brought(new, k2)
            /\ b <= Len(text)
        BY <1>1, <3>1, <4>1, <4>2, SourceParts DEF Accepted, IsNew
      <4>4. Genuine(out, k2 + 1)
        <5>1. IsSplice(out, text, a, b, new)
          BY <4>3, SplicedParts
        <5>2. PICK p \in Nat, q \in Nat : p = Len(new) /\ q = Len(text)
          BY LenProperties
        <5>3. \A i \in 1 .. q : text[i] \in Nat
          <6>1. doc.rev \in 1 .. MaxRev
            BY SourceParts
          <6>. QED BY <5>2, <6>1, BytesAreNat
        <5>4. b <= q /\ Len(text) = q /\ Len(new) = p
          BY <4>3, <5>2
        <5>. QED BY <4>3, <5>1, <5>3, <5>4, GenuineSpliced
      <4>. QED BY <4>2, <4>4
    <3>4. ASSUME NEW s \in DOMAIN seen PROVE Genuine(seen'[s], k2 + 1)
      <4>1. Genuine(seen[s], k2) /\ seen[s] \in Seq(SourceBytes)
        BY <3>1, SourceParts
      <4>2. doc.rev \in 1 .. MaxRev
        BY SourceParts
      <4>3. Genuine(seen[s], k2 + 1)
        BY <4>1, <4>2, GenuineLater
      <4>. QED BY <1>10, <4>3
    <3>. QED BY <1>3, <1>4, <1>8, <1>10, <3>2, <3>3, <3>4
  <2>. QED BY <1>9, <2>1, <2>3, <2>4, <2>5 DEF SourceSound, DocTyped
<1>12. Extends(seen', seen)
  BY <1>8, <1>10 DEF Extends
<1>. QED BY <1>1, <1>2, <1>4, <1>5, <1>6, <1>7, <1>8, <1>10, <1>11, <1>12

\* A call that leaves the source as it is.
LEMMA SourceStays ==
  ASSUME SourceSound, UNCHANGED <<use, states, seen>>,
         doc' \in [rev : {doc.rev}, text : {doc.text}, ready : BOOLEAN, drain : {0, 1}]
  PROVE  SourceSound' /\ DocShaped' /\ doc'.rev = doc.rev /\ doc'.text = doc.text
<1>1. doc'.rev = doc.rev /\ doc'.text = doc.text
  OBVIOUS
<1>2. SourceBytes' = SourceBytes /\ MaxBytes' = MaxBytes /\ MaxRev' = MaxRev
  BY DEF SourceBytes, MaxBytes, MaxRev
<1>3. doc.rev \in 1 .. MaxRev /\ doc.text \in Seq(SourceBytes) /\ Len(doc.text) <= MaxBytes
  BY DEF SourceSound
<1>4. doc' \in [rev : 1 .. MaxRev, text : Seq(SourceBytes), ready : BOOLEAN, drain : {0, 1}]
  BY <1>3
<1>5. SourceSound'
  <2>1. Clock' = Clock
    BY <1>1 DEF Clock
  <2>. QED BY <1>1, <1>2, <1>3, <1>4, <2>1 DEF SourceSound
<1>6. DocShaped'
  BY <1>1, <1>3, <1>4 DEF DocShaped
<1>. QED BY <1>1, <1>5, <1>6

LEMMA DocIsShaped ==
  ASSUME DocTyped
  PROVE  DocShaped
BY DEF DocTyped, DocShaped

-----------------------------------------------------------------------------
(* The history a call leaves.                                              *)

\* An edit was made that `inverse` undoes, and a history state names its text.
Undoable(inverse) ==
  /\ states'.token = states.token + 1
  /\ states.token \in Nat \ {0} /\ states.next \in Nat /\ states.now \in Nat
  /\ Extends(seen', seen)
  /\ states.next \in DOMAIN seen' /\ seen'[states.next] = doc'.text
  /\ states.now \in DOMAIN seen' /\ seen'[states.now] = doc.text
  /\ doc'.text \in Seq(SourceBytes)
  /\ inverse \in Putting(SourceBytes)
  /\ inverse.start <= inverse.end /\ inverse.end <= Len(doc'.text)
  /\ Spliced(doc'.text, inverse.start, inverse.end, inverse.text) = doc.text
  /\ Apart(doc'.text, inverse)

LEMMA HistLater ==
  ASSUME use' = use, HistorySound(hist', states'.token, seen', sess'.owner)
  PROVE  HistSound'
BY DEF HistSound, HistorySound, TokenSound, SourceBytes, MaxRev

LEMMA CommittedUndoable ==
  ASSUME use \in Uses, use' = use, SourceSound,
         NEW a \in Nat, NEW b \in Nat, a <= b, b <= Len(doc.text),
         NEW new \in Seq(SourceBytes), NEW handles, Committed(a, b, new, handles),
         IsNew(new)
  PROVE  Undoable(InverseOf(a, b, new))
<1>1. doc'.text \in Seq(SourceBytes)
  <2>1. Spliced(doc.text, a, b, new) \in Seq(SourceBytes)
    BY SplicedParts DEF SourceSound
  <2>2. doc'.text = Spliced(doc.text, a, b, new)
    BY CommittedKeeps DEF Accepted
  <2>. QED BY <2>1, <2>2
<1>2. Accepted(a, b, new, InverseOf(a, b, new))
  BY CommittedKeeps
<1>3. /\ states'.token = states.token + 1
      /\ states.token \in Nat \ {0} /\ states.next \in Nat /\ states.now \in Nat
      /\ Extends(seen', seen)
      /\ states.next \in DOMAIN seen' /\ seen'[states.next] = doc'.text
      /\ states.now \in DOMAIN seen' /\ seen'[states.now] = doc.text
  BY CommittedKeeps
<1>. DEFINE s == InverseOf(a, b, new)
<1>4. /\ s \in Putting(SourceBytes) /\ s.start <= s.end /\ s.end <= Len(doc'.text)
      /\ Spliced(doc'.text, s.start, s.end, s.text) = doc.text
  BY <1>2 DEF Accepted
<1>5. Apart(doc'.text, s)
  <2>1. s.start = a /\ s.end = a + Len(new) /\ s.text = Bytes(doc.text, a, b)
        /\ doc'.text = Spliced(doc.text, a, b, new)
    BY <1>2 DEF Accepted
  <2>2. Older(doc.text, Clock) /\ doc.text \in Seq(SourceBytes)
        /\ Clock \in Nat
    BY SourceParts
  <2>3. PICK k \in Nat : k = Clock
    BY <2>2
  <2>4. PICK text \in Seq(SourceBytes) : text = doc.text
    BY <2>2
  <2>5. PICK out : out = doc'.text
    OBVIOUS
  <2>6. PICK B : B = SourceBytes
    OBVIOUS
  <2>7. Older(text, k) /\ Brought(new, k) /\ ~(k < k) /\ out = Spliced(text, a, b, new)
        /\ s.text = Bytes(text, a, b) /\ b <= Len(text)
        /\ text \in Seq(B) /\ new \in Seq(B)
    BY <2>1, <2>2, <2>3, <2>4, <2>5, <2>6 DEF IsNew
  <2>. HIDE DEF s
  <2>8. Apart(out, s)
    BY <2>1, <2>7, ApartBrought
  <2>. QED BY <2>5, <2>8
<1>. HIDE DEF s
<1>. QED BY <1>1, <1>3, <1>4, <1>5 DEF Undoable, s

\* The token of an edit that was made.
LEMMA TokenIsSound ==
  ASSUME NEW s, Undoable(s), NEW group \in Nat, sess.owner \in use.owners,
         NEW x, x = [applies |-> states.next, target |-> states.now, group |-> group,
                     splices |-> <<s>>, retained |-> Cost(s.text), owner |-> sess.owner]
  PROVE  /\ TokenParts(x, SourceBytes, use.owners)
         /\ TokenSound(x, seen', sess.owner)
         /\ x.retained = HeldBytes(x.splices) /\ x.retained = TokenOverhead + Len(s.text)
         /\ Len(s.text) \in Nat
<1>1. /\ x.applies = states.next /\ x.target = states.now /\ x.group = group
      /\ x.splices = <<s>> /\ x.retained = TokenOverhead + Len(s.text) /\ x.owner = sess.owner
  BY DEF Cost
<1>2. /\ <<s>> \in Seq(Putting(SourceBytes)) /\ Len(<<s>>) = 1
      /\ Len(s.text) \in Nat /\ HeldBytes(<<s>>) = TokenOverhead + Len(s.text)
  BY HeldOne DEF Undoable
<1>3. Leads(doc'.text, <<s>>, doc.text, SourceBytes)
  BY LeadsOne DEF Undoable
<1>4. TokenOverhead \in Nat /\ 1 \in 1 .. MaxSteps
  BY HistoryAssumption
<1>5. TokenSound(x, seen', sess.owner)
  <2>1. Alone(x, seen')
    BY <1>1, <1>2 DEF Alone, Undoable
  <2>. QED BY <1>1, <1>2, <1>3, <1>4, <2>1 DEF TokenSound, Undoable
<1>6. TokenParts(x, SourceBytes, use.owners)
  BY <1>1, <1>2, <1>4 DEF TokenParts, Undoable
<1>. QED BY <1>1, <1>2, <1>5, <1>6

LEMMA TokenIs ==
  ASSUME NEW s, NEW group,
         NEW x, x = Token(group, s)
  PROVE  x = [applies |-> states.next, target |-> states.now, group |-> group,
              splices |-> <<s>>, retained |-> Cost(s.text), owner |-> sess.owner]
BY DEF Token

\* The handles of the tokens are behind.
LEMMA HandlesBehind ==
  ASSUME HistSound
  PROVE  /\ \A u \in DOMAIN hist.tokens : u < states.token
         /\ Chain(hist, SourceBytes, use.owners) /\ hist.used <= hist.budget
         /\ HistorySound(hist, states.token, seen, sess.owner)
         /\ hist.used \in Nat /\ hist.budget \in Nat
         /\ hist.tail # 0 => hist.tail \in DOMAIN hist.tokens
<1>1. Chain(hist, SourceBytes, use.owners)
  BY DEF HistSound, HistorySound
<1>2. hist.used \in Nat /\ hist.budget \in Nat /\ IsLast(DOMAIN hist.tokens, hist.tail)
  BY <1>1 DEF Chain, TypedHistory, Ordered
<1>. QED BY <1>1, <1>2 DEF HistSound, HistorySound, IsLast

\* A history that lost tokens at most, or is as it was.
LEMMA HistKept ==
  ASSUME HistSound, use' = use, UNCHANGED <<states, seen>>, sess'.owner = sess.owner,
         Kept(hist', hist, SourceBytes, use.owners) \/ hist' = hist
  PROVE  HistSound'
<1>1. HistorySound(hist', states.token, seen, sess.owner)
  <2>1. CASE hist' = hist
    BY <2>1 DEF HistSound
  <2>2. CASE Kept(hist', hist, SourceBytes, use.owners)
    BY <2>2, KeptSound DEF HistSound
  <2>. QED BY <2>1, <2>2
<1>. QED BY <1>1, HistLater

\* An edit whose token is not kept.
LEMMA HistForgets ==
  ASSUME HistSound, use' = use, sess'.owner = sess.owner, hist' = hist, NEW s, Undoable(s)
  PROVE  HistSound'
<1>1. states.token \in Nat /\ states.token + 1 \in Nat /\ states.token <= states.token + 1
  BY DEF Undoable
<1>2. HistorySound(hist, states.token, seen, sess.owner) /\ Extends(seen', seen)
  BY DEF HistSound, Undoable
<1>3. HistorySound(hist, states.token + 1, seen', sess.owner)
  BY <1>1, <1>2, LaterSound
<1>. QED BY <1>3, HistLater DEF Undoable

LEMMA HistGains ==
  ASSUME HistSound, use' = use, sess'.owner = sess.owner, sess.owner \in use.owners,
         NEW s, Undoable(s),
         NEW x, TokenSound(x, seen', sess.owner), x.retained = HeldBytes(x.splices),
         Gained(hist', hist, states.token, x, SourceBytes, use.owners)
  PROVE  HistSound'
<1>1. states.token \in Nat \ {0} /\ Extends(seen', seen) /\ states'.token = states.token + 1
  BY DEF Undoable
<1>2. HistorySound(hist', states.token + 1, seen', sess.owner)
  BY <1>1, GainedSound DEF HistSound
<1>. QED BY <1>1, <1>2, HistLater

\* An edit of the literal lane.
LEMMA HistRetains ==
  ASSUME HistSound, use' = use, sess'.owner = sess.owner, sess.owner \in use.owners,
         NEW s, Undoable(s), hist' = Retain(hist, states.token, Token(0, s))
  PROVE  HistSound'
<1>1. PICK x : x = Token(0, s)
  OBVIOUS
<1>2. /\ TokenParts(x, SourceBytes, use.owners) /\ TokenSound(x, seen', sess.owner)
      /\ x.retained = HeldBytes(x.splices)
  BY <1>1, TokenIs, TokenIsSound
<1>3. Gained(hist', hist, states.token, x, SourceBytes, use.owners)
  <2>1. hist' = Retain(hist, states.token, x) /\ states.token \in Nat \ {0}
    BY <1>1 DEF Undoable
  <2>. QED BY <1>2, <2>1, HandlesBehind, RetainKeeps
<1>. QED BY <1>2, <1>3, HistGains

\* An edit whose token was sure to fit.
LEMMA LinkedGains ==
  ASSUME NEW h, NEW t, NEW x, NEW g, LinkedTo(g, h, t, x, SourceBytes, use.owners),
         h.used + x.retained <= h.budget
  PROVE  Gained(g, h, t, x, SourceBytes, use.owners) /\ DOMAIN g.tokens = DOMAIN h.tokens \cup {t}
<1>1. /\ Chain(g, SourceBytes, use.owners) /\ g.budget = h.budget
      /\ g.used = h.used + x.retained
      /\ DOMAIN g.tokens = DOMAIN h.tokens \cup {t}
      /\ SameTokens(g, h, DOMAIN h.tokens)
  BY DEF LinkedTo
<1>2. SameTokens(g, h, DOMAIN g.tokens \ {t})
  BY <1>1 DEF SameTokens
<1>3. g.used <= g.budget
  BY <1>1
<1>. QED BY <1>1, <1>2, <1>3 DEF Gained, LinkedTo

LEMMA HistLinks ==
  ASSUME HistSound, use' = use, sess'.owner = sess.owner, sess.owner \in use.owners,
         NEW s, Undoable(s), Fits(hist, Cost(s.text)),
         hist' = Linked(hist, states.token, Token(0, s))
  PROVE  /\ HistSound' /\ DOMAIN hist'.tokens = DOMAIN hist.tokens \cup {states.token}
         /\ hist'.tokens[states.token].applies = states.next
<1>1. PICK x : x = Token(0, s)
  OBVIOUS
<1>2. /\ TokenParts(x, SourceBytes, use.owners) /\ TokenSound(x, seen', sess.owner)
      /\ x.retained = HeldBytes(x.splices) /\ x.retained = Cost(s.text) /\ x.applies = states.next
  <2>1. x.retained = Cost(s.text) /\ x.applies = states.next
    BY <1>1, TokenIs
  <2>. QED BY <1>1, <2>1, TokenIs, TokenIsSound
<1>3. LinkedTo(hist', hist, states.token, x, SourceBytes, use.owners)
  <2>1. hist' = Linked(hist, states.token, x) /\ states.token \in Nat \ {0}
    BY <1>1 DEF Undoable
  <2>. QED BY <1>2, <2>1, HandlesBehind, LinkedKeeps
<1>4. Gained(hist', hist, states.token, x, SourceBytes, use.owners)
      /\ DOMAIN hist'.tokens = DOMAIN hist.tokens \cup {states.token}
  <2>1. hist.used + x.retained <= hist.budget
    BY <1>2 DEF Fits
  <2>. QED BY <1>3, <2>1, LinkedGains
<1>5. hist'.tokens[states.token].applies = states.next
  BY <1>2, <1>3 DEF LinkedTo
<1>. QED BY <1>2, <1>4, <1>5, HistGains

-----------------------------------------------------------------------------
(* The history of an edit that must be undoable.                           *)

\* The token put in and taken out again.
LEMMA HistUnlinks ==
  ASSUME HistSound, use' = use, UNCHANGED <<states, seen>>, sess'.owner = sess.owner,
         states.token \in Nat \ {0},
         NEW x, TokenParts(x, SourceBytes, use.owners),
         hist' = Detach(Linked(hist, states.token, x), states.token)
  PROVE  HistSound' /\ DOMAIN hist'.tokens = DOMAIN hist.tokens
<1>1. PICK l : l = Linked(hist, states.token, x)
  OBVIOUS
<1>2. LinkedTo(l, hist, states.token, x, SourceBytes, use.owners)
  BY <1>1, HandlesBehind, LinkedKeeps
<1>3. l.tail = states.token
  BY <1>2 DEF LinkedTo
<1>4. hist' = Detach(l, states.token)
  BY <1>1
<1>5. LinkedTo(l, hist, states.token, l.tokens[states.token], SourceBytes, use.owners)
  BY <1>2 DEF LinkedTo
<1>6. Kept(hist', hist, SourceBytes, use.owners) /\ DOMAIN hist'.tokens = DOMAIN hist.tokens
  BY <1>4, <1>5, HandlesBehind, ReservedGivenBack
<1>. QED BY <1>6, HistKept

\* A reservation in a token of its own.
Blank(x, bytes) ==
  [x EXCEPT !.splices = <<[start |-> 0, end |-> 0, text |-> <<>>]>>,
            !.retained = TokenOverhead + bytes]

LEMMA ReservingParts ==
  ASSUME NEW s, NEW group \in Nat, NEW bytes \in Nat, sess.owner \in use.owners,
         states.next \in Nat, states.now \in Nat,
         NEW y, y = Blank(Token(group, s), bytes)
  PROVE  /\ TokenParts(y, SourceBytes, use.owners)
         /\ y.target = states.now /\ y.group = group /\ y.owner = sess.owner
         /\ y.retained = TokenOverhead + bytes
<1>1. /\ y.applies = states.next /\ y.target = states.now /\ y.group = group
      /\ y.owner = sess.owner /\ y.retained = TokenOverhead + bytes
      /\ y.splices = <<[start |-> 0, end |-> 0, text |-> <<>>]>>
  BY DEF Blank, Token
<1>2. [start |-> 0, end |-> 0, text |-> <<>>] \in Putting(SourceBytes)
  BY DEF Putting
<1>3. <<[start |-> 0, end |-> 0, text |-> <<>>]>> \in Seq(Putting(SourceBytes))
  BY <1>2
<1>4. TokenOverhead + bytes \in Nat
  BY HistoryAssumption
<1>. QED BY <1>1, <1>3, <1>4 DEF TokenParts

LEMMA HistReservesAlone ==
  ASSUME HistSound, use' = use, sess'.owner = sess.owner, sess.owner \in use.owners,
         NEW s, Undoable(s), NEW bytes \in Nat, Len(s.text) <= bytes,
         Fits(hist, TokenOverhead + bytes), NEW group \in Nat, NEW z,
         hist' = Finalized(Linked(hist, states.token, Blank(Token(group, z), bytes)),
                           FALSE, bytes, states.next, s)
  PROVE  /\ HistSound' /\ DOMAIN hist'.tokens = DOMAIN hist.tokens \cup {states.token}
         /\ hist'.tokens[states.token].applies = states.next
<1>1. PICK y : y = Blank(Token(group, z), bytes)
  OBVIOUS
<1>2. states.next \in Nat /\ states.now \in Nat /\ states.token \in Nat \ {0}
      /\ s \in Putting(SourceBytes)
  BY DEF Undoable
<1>3. /\ TokenParts(y, SourceBytes, use.owners)
      /\ y.target = states.now /\ y.group = group /\ y.owner = sess.owner
      /\ y.retained = TokenOverhead + bytes
  BY <1>1, <1>2, ReservingParts
<1>4. PICK l : l = Linked(hist, states.token, y)
  OBVIOUS
<1>5. hist' = Received(l, bytes - Len(s.text), states.next, <<s>>)
  BY <1>1, <1>4 DEF Finalized, Received
<1>. DEFINE x == [applies |-> states.next, target |-> states.now, group |-> group,
                  splices |-> <<s>>, retained |-> TokenOverhead + Len(s.text),
                  owner |-> sess.owner]
<1>6. Gained(hist', hist, states.token, x, SourceBytes, use.owners)
      /\ DOMAIN hist'.tokens = DOMAIN hist.tokens \cup {states.token}
  <2>1. PICK q : q = [applies |-> states.next, target |-> y.target, group |-> y.group,
                      splices |-> <<s>>, retained |-> TokenOverhead + Len(s.text),
                      owner |-> y.owner]
    OBVIOUS
  <2>0. Paying(q, y, states.next, s) /\ Reserving(y, bytes)
    BY <1>3, <2>1 DEF Paying, Reserving
  <2>2. /\ Gained(hist', hist, states.token, q, SourceBytes, use.owners)
        /\ DOMAIN hist'.tokens = DOMAIN hist.tokens \cup {states.token}
    <3>1. /\ Chain(hist, SourceBytes, use.owners) /\ hist.used <= hist.budget
          /\ \A u \in DOMAIN hist.tokens : u < states.token
      BY HandlesBehind
    <3>2. Fits(hist, y.retained)
      BY <1>3
    <3>3. PICK gone : gone = bytes - Len(s.text)
      OBVIOUS
    <3>5. Spare(gone, bytes, s)
      BY <3>3 DEF Spare
    <3>4. hist' = Received(l, gone, states.next, <<s>>)
      BY <1>5, <3>3
    <3>6. PICK h : h = hist
      OBVIOUS
    <3>7. PICK g : g = hist'
      OBVIOUS
    <3>8. PICK t : t = states.token
      OBVIOUS
    <3>9. PICK app : app = states.next
      OBVIOUS
    <3>10. /\ Chain(h, SourceBytes, use.owners) /\ h.used <= h.budget
           /\ \A u \in DOMAIN h.tokens : u < t
           /\ l = Linked(h, t, y) /\ Fits(h, y.retained)
      BY <1>4, <3>1, <3>2, <3>6, <3>8
    <3>11. g = Received(l, gone, app, <<s>>) /\ Paying(q, y, app, s)
      BY <2>0, <3>4, <3>7, <3>9
    <3>12. t \in Nat \ {0} /\ app \in Nat
      BY <1>2, <3>8, <3>9
    <3>13. Gained(g, h, t, q, SourceBytes, use.owners) /\ DOMAIN g.tokens = DOMAIN h.tokens \cup {t}
      BY <1>2, <1>3, <2>0, <3>5, <3>10, <3>11, <3>12, ReservedReceives
    <3>. QED BY <3>6, <3>7, <3>8, <3>13
  <2>. QED BY <1>3, <2>1, <2>2
<1>7. x = [applies |-> states.next, target |-> states.now, group |-> group,
           splices |-> <<s>>, retained |-> Cost(s.text), owner |-> sess.owner]
  BY DEF Cost
<1>8. x.applies = states.next
  OBVIOUS
<1>. HIDE DEF x
<1>9. TokenSound(x, seen', sess.owner) /\ x.retained = HeldBytes(x.splices)
  BY <1>7, TokenIsSound
<1>10. hist'.tokens[states.token].applies = states.next
  <2>1. states.token \in DOMAIN hist'.tokens
    BY <1>6, Zenon
  <2>. QED BY <1>6, <1>8, <2>1 DEF Gained
<1>. QED BY <1>6, <1>9, <1>10, HistGains

LEMMA HistReservesExtending ==
  ASSUME HistSound, use' = use, sess'.owner = sess.owner,
         SourceSound, NEW s, Undoable(s), NEW bytes \in Nat, Len(s.text) <= bytes,
         NEW group \in use.groups, CanExtend(hist, group, states.now, sess.owner),
         Fits(hist, SpliceOverhead + bytes),
         NEW r, r = [hist EXCEPT !.tokens[hist.tail].retained = @ + SpliceOverhead + bytes,
                                 !.used = @ + SpliceOverhead + bytes],
         hist' = Finalized(r, TRUE, bytes, states.next, s)
  PROVE  /\ HistSound' /\ DOMAIN hist'.tokens = DOMAIN hist.tokens
         /\ hist.tail \in DOMAIN hist.tokens
         /\ hist'.tokens[hist.tail].applies = states.next
<1>1. /\ Chain(hist, SourceBytes, use.owners) /\ hist.used <= hist.budget
      /\ HistorySound(hist, states.token, seen, sess.owner)
      /\ hist.tail \in DOMAIN hist.tokens
      /\ hist.tokens[hist.tail].applies = states.now
      /\ Len(hist.tokens[hist.tail].splices) < MaxSteps
  BY HandlesBehind DEF CanExtend
<1>2. PICK z : z = [hist.tokens[hist.tail] EXCEPT !.retained = @ + SpliceOverhead + bytes]
  BY Zenon
<1>3. Changed(r, hist, hist.tail, z, SourceBytes, use.owners) /\ z \in TokenOf(SourceBytes, use.owners)
  BY <1>1, <1>2, ExtensionKeeps, Zenon
<1>4. Grown(hist', hist, hist.tail, states.next, s, SourceBytes, use.owners)
  <2>1. hist.used + (SpliceOverhead + bytes) <= hist.budget
    BY DEF Fits
  <2>2. states.next \in Nat /\ s \in Putting(SourceBytes)
    BY DEF Undoable
  <2>3. hist' = Received(r, bytes - Len(s.text), states.next, Append(z.splices, s))
    <3>1. r.tail = hist.tail /\ r.tokens[hist.tail] = z
      BY <1>3 DEF Changed
    <3>2. hist' = Received(r, bytes - Len(s.text), states.next, Append(r.tokens[r.tail].splices, s))
      BY DEF Finalized, Received
    <3>. QED BY <3>1, <3>2
  <2>. QED BY <1>1, <1>2, <1>3, <2>1, <2>2, <2>3, ExtensionReceives
<1>5. HistorySound(hist', states.token + 1, seen', sess.owner)
  <2>1. seen[hist.tokens[hist.tail].applies] = doc.text
    BY <1>1 DEF SourceSound
  <2>2. /\ states.token \in Nat /\ Extends(seen', seen)
        /\ states.next \in DOMAIN seen' /\ seen'[states.next] = doc'.text
        /\ doc'.text \in Seq(SourceBytes) /\ s \in Putting(SourceBytes)
        /\ s.start <= s.end /\ s.end <= Len(doc'.text)
        /\ Spliced(doc'.text, s.start, s.end, s.text) = doc.text
    BY DEF Undoable
  <2>3. PICK text \in Seq(SourceBytes) : text = doc'.text
    BY <2>2
  <2>4. Spliced(text, s.start, s.end, s.text) = seen[hist.tokens[hist.tail].applies]
    BY <2>1, <2>2, <2>3
  <2>5. use.groups # {0}
    BY DEF CanExtend
  <2>. QED BY <1>1, <1>4, <2>2, <2>3, <2>4, <2>5, GrownSound
<1>6. HistSound'
  BY <1>5, HistLater DEF Undoable
<1>. QED BY <1>1, <1>4, <1>6, Zenon DEF Grown

\* The reservation of an edit the source refuses.
LEMMA HistGivesBack ==
  ASSUME HistSound, use' = use, UNCHANGED <<states, seen>>, sess'.owner = sess.owner,
         sess.owner \in use.owners, SourceSound,
         NEW bytes \in Nat, NEW group \in Nat, NEW z, NEW extended,
         extended = CanExtend(hist, group, states.now, sess.owner),
         hist' = RolledBack(Reserved(hist, states.token, Token(group, z), bytes), extended, bytes)
  PROVE  HistSound' /\ DOMAIN hist'.tokens = DOMAIN hist.tokens
<1>1. /\ Chain(hist, SourceBytes, use.owners) /\ hist.used <= hist.budget
      /\ hist.tail # 0 => hist.tail \in DOMAIN hist.tokens
  BY HandlesBehind
<1>2. PICK r : r = Reserved(hist, states.token, Token(group, z), bytes)
  OBVIOUS
<1>3. Token(group, z).group = group /\ Token(group, z).target = states.now
      /\ Token(group, z).owner = sess.owner
  BY DEF Token
<1>4. CASE extended
  <2>1. r = [hist EXCEPT !.tokens[hist.tail].retained = @ + SpliceOverhead + bytes,
                         !.used = @ + SpliceOverhead + bytes]
    BY <1>2, <1>3, <1>4 DEF Reserved
  <2>2. hist.tail \in DOMAIN hist.tokens
    BY <1>1, <1>4 DEF CanExtend
  <2>3. PICK y : y = [hist.tokens[hist.tail] EXCEPT !.retained = @ + SpliceOverhead + bytes]
    OBVIOUS
  <2>4. Changed(r, hist, hist.tail, y, SourceBytes, use.owners) /\ y \in TokenOf(SourceBytes, use.owners)
    BY <1>1, <2>1, <2>2, <2>3, ExtensionKeeps, Zenon
  <2>5. hist' = GivenBack(r, SpliceOverhead + bytes)
    BY <1>2, <1>4 DEF RolledBack, GivenBack
  <2>6. Kept(hist', hist, SourceBytes, use.owners) /\ DOMAIN hist'.tokens = DOMAIN hist.tokens
    BY <1>1, <2>2, <2>3, <2>4, <2>5, ExtensionGivenBack
  <2>. QED BY <2>6, HistKept
<1>5. CASE ~extended
  <2>1. r = Linked(hist, states.token, Blank(Token(group, z), bytes))
    BY <1>2, <1>3, <1>5 DEF Reserved, Blank
  <2>2. PICK y : y = Blank(Token(group, z), bytes)
    OBVIOUS
  <2>3. /\ states.next \in Nat /\ states.now \in Nat /\ states.token \in Nat \ {0}
    BY DEF SourceSound
  <2>4. TokenParts(y, SourceBytes, use.owners)
    BY <2>2, <2>3, ReservingParts
  <2>5. LinkedTo(r, hist, states.token, y, SourceBytes, use.owners)
    BY <1>1, <2>1, <2>2, <2>3, <2>4, HandlesBehind, LinkedKeeps
  <2>6. r.tail = states.token
    BY <2>5 DEF LinkedTo
  <2>7. hist' = Detach(Linked(hist, states.token, y), states.token)
    BY <1>2, <1>5, <2>1, <2>2, <2>6 DEF RolledBack
  <2>. QED BY <2>3, <2>4, <2>7, HistUnlinks
<1>. QED BY <1>4, <1>5

-----------------------------------------------------------------------------
(* The tables of the registry.                                             *)

LEMMA EditsAre ==
  ASSUME use \in Uses
  PROVE  Edits \subseteq Edit /\ AnyEdit \in Edit
<1>1. MaxBytes \in Nat
  BY UseParts
<1>2. Edits \subseteq Edit
  BY <1>1 DEF Edits, Edit
<1>3. AnyEdit \in Edit
  BY DEF AnyEdit, Edit
<1>. QED BY <1>2, <1>3

LEMMA EditParts ==
  ASSUME NEW e \in Edit
  PROVE  e.start \in Nat /\ e.end \in Nat /\ e.len \in 0 .. 1 /\ e.start <= e.end
BY DEF Edit

LEMMA WithoutParts ==
  ASSUME NEW f, NEW h
  PROVE  /\ DOMAIN Without(f, h) = DOMAIN f \ {h}
         /\ \A u \in DOMAIN f \ {h} : Without(f, h)[u] = f[u]
         /\ Without(f, h) = [u \in DOMAIN Without(f, h) |-> Without(f, h)[u]]
BY DEF Without

LEMMA WithParts ==
  ASSUME NEW f, NEW h, NEW x
  PROVE  /\ DOMAIN With(f, h, x) = DOMAIN f \cup {h}
         /\ With(f, h, x)[h] = x
         /\ \A u \in DOMAIN f \ {h} : With(f, h, x)[u] = f[u]
         /\ With(f, h, x) = [u \in DOMAIN With(f, h, x) |-> With(f, h, x)[u]]
BY DEF With

\* The anchors after an edit are still positions of the source.
LEMMA MovedStands ==
  ASSUME ViewsSound, SourceSound,
         NEW a \in Nat, NEW b \in Nat, a <= b, b <= Len(doc.text),
         NEW new \in Seq(SourceBytes),
         NEW len, len = a + Len(new) + (Len(doc.text) - b)
  PROVE  /\ DOMAIN Moved(a, b, new) = DOMAIN anchors
         /\ \A h \in DOMAIN anchors : Moved(a, b, new)[h] \in Position(len)
         /\ a + Len(new) \in 0 .. len
<1>1. Len(new) \in Nat /\ Len(doc.text) \in Nat
  BY LenProperties DEF SourceSound
<1>2. DOMAIN Moved(a, b, new) = DOMAIN anchors
  BY DEF Moved
<1>3. ASSUME NEW h \in DOMAIN anchors
      PROVE  Moved(a, b, new)[h] \in Position(len)
  <2>1. anchors[h] \in Position(Len(doc.text))
    BY DEF ViewsSound
  <2>2. PICK x : x = anchors[h]
    OBVIOUS
  <2>3. x \in [offset : 0 .. Len(doc.text), affinity : {"up", "down"}]
    BY <2>1, <2>2 DEF Position
  <2>4. Moved(a, b, new)[h] = [x EXCEPT !.offset = MapOffset(x.offset, x.affinity, a, b - a, Len(new))]
    BY <2>2 DEF Moved
  <2>5. MapOffset(x.offset, x.affinity, a, b - a, Len(new)) \in 0 .. len
    <3>1. PICK m \in Nat : m = Len(doc.text)
      BY <1>1
    <3>2. PICK n \in Nat : n = Len(new)
      BY <1>1
    <3>3. PICK off : off = x.offset
      OBVIOUS
    <3>4. off \in 0 .. m /\ b <= m
      BY <2>3, <3>1, <3>3
    <3>5. MapOffset(off, x.affinity, a, b - a, n) \in 0 .. a + n + (m - b)
      BY <3>4, OffsetStays
    <3>. QED BY <3>1, <3>2, <3>3, <3>5
  <2>. QED BY <2>3, <2>4, <2>5 DEF Position
<1>4. a + Len(new) \in 0 .. len
  <2>1. PICK m \in Nat : m = Len(doc.text)
    BY <1>1
  <2>2. PICK n \in Nat : n = Len(new)
    BY <1>1
  <2>3. b <= m /\ a + n \in 0 .. a + n + (m - b)
    BY <2>1
  <2>. QED BY <2>1, <2>2, <2>3
<1>. QED BY <1>2, <1>3, <1>4

LEMMA ViewsMove ==
  ASSUME ViewsSound, SourceSound, use' = use,
         NEW a \in Nat, NEW b \in Nat, a <= b, b <= Len(doc.text),
         NEW new \in Seq(SourceBytes),
         Len(doc'.text) = a + Len(new) + (Len(doc.text) - b),
         conts' = <<>>,
         \/ anchors' = Moved(a, b, new)
         \/ \E sel \in DOMAIN anchors : anchors' = Selected(a, b, new, sel)
  PROVE  ViewsSound' /\ DOMAIN anchors' = DOMAIN anchors /\ DOMAIN conts' = {}
<1>. DEFINE len == Len(doc'.text)
<1>1. /\ DOMAIN Moved(a, b, new) = DOMAIN anchors
      /\ \A h \in DOMAIN anchors : Moved(a, b, new)[h] \in Position(len)
      /\ a + Len(new) \in 0 .. len
  BY MovedStands
<1>2. DOMAIN anchors' = DOMAIN anchors /\ \A h \in DOMAIN anchors : anchors'[h] \in Position(len)
  <2>1. CASE anchors' = Moved(a, b, new)
    BY <1>1, <2>1
  <2>2. ASSUME NEW sel \in DOMAIN anchors, anchors' = Selected(a, b, new, sel)
        PROVE  DOMAIN anchors' = DOMAIN anchors /\ \A h \in DOMAIN anchors : anchors'[h] \in Position(len)
    <3>1. [offset |-> a + Len(new), affinity |-> "down"] \in Position(len)
      BY <1>1 DEF Position
    <3>2. PICK p : p = [offset |-> a + Len(new), affinity |-> "down"]
      OBVIOUS
    <3>3. PICK m : m = Moved(a, b, new)
      OBVIOUS
    <3>4. anchors' = [m EXCEPT ![sel] = p]
      BY <2>2, <3>2, <3>3 DEF Selected
    <3>. HIDE DEF len
    <3>. QED BY <1>1, <3>1, <3>2, <3>3, <3>4
  <2>. QED BY <2>1, <2>2
<1>3. DOMAIN conts' = {} /\ Handles' = Handles
  BY DEF Handles
<1>4. DOMAIN anchors' \subseteq Handles'
  BY <1>2, <1>3 DEF ViewsSound
<1>. HIDE DEF len
<1>. QED BY <1>2, <1>3, <1>4 DEF ViewsSound, Position, len

LEMMA ViewsStay ==
  ASSUME ViewsSound, doc'.rev = doc.rev, doc'.text = doc.text,
         DOMAIN conts' \subseteq DOMAIN conts, \A h \in DOMAIN conts' : conts'[h] = conts[h],
         DOMAIN anchors' \subseteq DOMAIN anchors,
         \A h \in DOMAIN anchors' : anchors'[h] = anchors[h]
  PROVE  ViewsSound'
BY DEF ViewsSound, Handles, Position

LEMMA TransactionStays ==
  ASSUME NEW x, NEW rev \in Nat, NEW text, TransactionSound(x, rev, text), NEW later, NEW out,
         (later = rev /\ out = text) \/ later = rev + 1
  PROVE  TransactionSound(x, later, out)
<1>1. x \in Transaction /\ x.base <= rev
  BY DEF TransactionSound
<1>2. x.base \in Nat
  <2>. HIDE DEF SourceBytes
  <2>. QED BY <1>1 DEF Transaction
<1>3. CASE later = rev /\ out = text
  BY <1>3
<1>4. CASE later = rev + 1
  BY <1>1, <1>2, <1>4 DEF TransactionSound
<1>. QED BY <1>3, <1>4

LEMMA TxnsLater ==
  ASSUME use' = use, DOMAIN txns' \subseteq Handles, txns' = [h \in DOMAIN txns' |-> txns'[h]],
         \A h \in DOMAIN txns' : TransactionSound(txns'[h], doc'.rev, doc'.text)
  PROVE  TxnsSound'
BY DEF TxnsSound, TransactionSound, Transaction, SourceBytes, MaxRev, Handles

\* The transactions that are left when the source stays, or is edited.
LEMMA TxnsStay ==
  ASSUME TxnsSound, use' = use, doc.rev \in Nat,
         \/ doc'.rev = doc.rev /\ doc'.text = doc.text
         \/ doc'.rev = doc.rev + 1,
         \/ txns' = txns
         \/ \E h \in Nat : txns' = Without(txns, h)
  PROVE  TxnsSound' /\ DOMAIN txns' \subseteq DOMAIN txns
<1>1. /\ DOMAIN txns' \subseteq DOMAIN txns /\ txns' = [h \in DOMAIN txns' |-> txns'[h]]
      /\ \A h \in DOMAIN txns' : txns'[h] = txns[h]
  <2>1. CASE txns' = txns
    BY <2>1 DEF TxnsSound
  <2>2. ASSUME NEW h \in Nat, txns' = Without(txns, h)
        PROVE  /\ DOMAIN txns' \subseteq DOMAIN txns /\ txns' = [u \in DOMAIN txns' |-> txns'[u]]
               /\ \A u \in DOMAIN txns' : txns'[u] = txns[u]
    <3>1. PICK f : f = Without(txns, h)
      OBVIOUS
    <3>2. /\ DOMAIN f = DOMAIN txns \ {h} /\ f = [u \in DOMAIN f |-> f[u]]
          /\ \A u \in DOMAIN txns \ {h} : f[u] = txns[u]
      BY <3>1 DEF Without
    <3>3. txns' = f
      BY <2>2, <3>1
    <3>. QED BY <3>2, <3>3
  <2>. QED BY <2>1, <2>2
<1>2. ASSUME NEW h \in DOMAIN txns' PROVE TransactionSound(txns'[h], doc'.rev, doc'.text)
  <2>1. TransactionSound(txns[h], doc.rev, doc.text)
    BY <1>1 DEF TxnsSound
  <2>2. PICK later, out : later = doc'.rev /\ out = doc'.text
    OBVIOUS
  <2>3. (later = doc.rev /\ out = doc.text) \/ later = doc.rev + 1
    BY <2>2
  <2>4. PICK x : x = txns[h]
    OBVIOUS
  <2>5. PICK rev \in Nat : rev = doc.rev
    OBVIOUS
  <2>6. TransactionSound(x, later, out)
    BY <2>1, <2>3, <2>4, <2>5, TransactionStays
  <2>. QED BY <1>1, <2>2, <2>4, <2>6
<1>3. DOMAIN txns' \subseteq Handles
  BY <1>1 DEF TxnsSound
<1>. QED BY <1>1, <1>2, <1>3, TxnsLater

-----------------------------------------------------------------------------
(* The session's entry, and what the caller knows.                         *)

LEMMA SessStays ==
  ASSUME SessSound, use' = use, sess' = sess, DOMAIN txns' \subseteq DOMAIN txns,
         DOMAIN conts' \subseteq DOMAIN conts \/ sess.phase = "open",
         DOMAIN anchors' \subseteq DOMAIN anchors \/ sess.phase = "open",
         DOMAIN hist'.tokens \subseteq DOMAIN hist.tokens \/ sess.phase = "open"
  PROVE  SessSound'
<1>1. CASE sess.phase = "open"
  BY <1>1 DEF SessSound, Handles
<1>2. CASE sess.phase # "open"
  <2>1. /\ DOMAIN txns' = {} /\ DOMAIN conts' = {} /\ DOMAIN anchors' = {}
        /\ DOMAIN hist'.tokens = {}
    BY <1>2 DEF SessSound
  <2>. QED BY <2>1 DEF SessSound, Handles
<1>. QED BY <1>1, <1>2

LEMMA SessOpen ==
  ASSUME SessSound, use' = use, sess.phase = "open",
         NEW p \in 0 .. use.pumps + 1, NEW handles \in SUBSET Handles, DOMAIN txns' \subseteq handles,
         sess' = [sess EXCEPT !.progress = p, !.txns = handles]
  PROVE  SessSound' /\ sess'.owner = sess.owner /\ sess'.phase = "open" /\ sess'.txns = handles
<1>1. sess \in [phase : {"creating", "open", "gone"}, owner : use.owners,
                progress : 0 .. use.pumps + 1, closing : BOOLEAN,
                closed : BOOLEAN, txns : SUBSET Handles]
  BY DEF SessSound
<1>2. /\ sess' \in [phase : {"creating", "open", "gone"}, owner : use.owners,
                    progress : 0 .. use.pumps + 1, closing : BOOLEAN,
                    closed : BOOLEAN, txns : SUBSET Handles]
      /\ sess'.phase = "open" /\ sess'.owner = sess.owner /\ sess'.txns = handles
  BY <1>1
<1>3. Handles' = Handles
  BY DEF Handles
<1>. QED BY <1>2, <1>3 DEF SessSound

LEMMA OwnerKnown ==
  ASSUME SessSound
  PROVE  /\ sess.owner \in use.owners /\ sess.txns \in SUBSET Handles
         /\ sess.progress \in 0 .. use.pumps + 1
         /\ sess.phase # "gone" => DOMAIN txns \subseteq sess.txns
BY DEF SessSound

LEMMA ZeroPumps ==
  ASSUME use \in Uses
  PROVE  0 \in 0 .. use.pumps + 1 /\ 1 \in 0 .. use.pumps + 1 /\ use.pumps \in Nat
BY UseParts

LEMMA KnownLearns ==
  ASSUME ReceiptInv, caller.known > 0, NEW lost, NEW revision \in Nat \ {0}, Learns(lost, revision)
  PROVE  caller'.known > 0
<1>1. caller \in [known : Nat, sent : SUBSET Request, answered : SUBSET Ids]
  BY DEF ReceiptInv, CallerSound
<1>2. caller' = IF lost THEN caller ELSE [caller EXCEPT !.known = revision]
  BY DEF Learns
<1>3. CASE lost
  BY <1>2, <1>3
<1>4. CASE ~lost
  BY <1>1, <1>2, <1>4
<1>. QED BY <1>3, <1>4

LEMMA KnownAnswered ==
  ASSUME ReceiptInv, caller.known > 0, NEW r, NEW lost, NEW revision \in Nat,
         AnsweredWith(r, lost, revision)
  PROVE  caller'.known > 0
<1>1. caller \in [known : Nat, sent : SUBSET Request, answered : SUBSET Ids]
  BY DEF ReceiptInv, CallerSound
<1>2. CASE lost
  <2>1. caller' = [caller EXCEPT !.sent = @ \cup {r}]
    BY <1>2 DEF AnsweredWith
  <2>. QED BY <1>1, <2>1
<1>3. CASE ~lost
  <2>1. caller'.known = IF revision > caller.known THEN revision ELSE caller.known
    BY <1>1, <1>3 DEF AnsweredWith
  <2>2. caller.known \in Nat
    BY <1>1
  <2>. QED BY <2>1, <2>2
<1>. QED BY <1>2, <1>3

LEMMA KnownSent ==
  ASSUME ReceiptInv, caller.known > 0, NEW r, caller' = [caller EXCEPT !.sent = @ \cup {r}]
  PROVE  caller'.known > 0
BY DEF ReceiptInv, CallerSound

LEMMA InvParts ==
  ASSUME SessionInv
  PROVE  /\ ReceiptInv /\ use \in Uses /\ caller.known > 0
         /\ SourceSound /\ SessSound /\ TxnsSound /\ ViewsSound /\ HistSound
         /\ doc.rev \in Nat /\ doc.rev > 0 /\ doc.text \in Seq(SourceBytes)
         /\ doc = [rev |-> doc.rev, text |-> doc.text, ready |-> doc.ready, drain |-> doc.drain]
         /\ doc.ready \in BOOLEAN /\ doc.drain \in {0, 1}
BY DEF SessionInv, ReceiptInv, SourceSound

-----------------------------------------------------------------------------
(* Calls that change the session's entry and nothing else.                 *)

\* A call that leaves the source, the tables and the history.
LEMMA EntryKeeps ==
  ASSUME SessionInv, UNCHANGED <<use, hist, states, terms, txns, conts, anchors, caller, commits, seen>>,
         doc' \in [rev : {doc.rev}, text : {doc.text}, ready : BOOLEAN, drain : {0, 1}],
         SessSound', sess'.owner = sess.owner
  PROVE  SessionInv'
<1>. USE InvParts
<1>1. SourceSound' /\ DocShaped' /\ doc'.rev = doc.rev /\ doc'.text = doc.text
  BY SourceStays
<1>2. ReceiptInv'
  BY <1>1, QuietKeeps
<1>3. TxnsSound'
  BY <1>1, TxnsStay
<1>4. ViewsSound'
  BY <1>1, ViewsStay
<1>5. HistSound'
  BY HistKept
<1>. QED BY <1>1, <1>2, <1>3, <1>4, <1>5 DEF SessionInv

LEMMA DocReady ==
  ASSUME SessionInv, NEW done \in BOOLEAN, doc' = [doc EXCEPT !.ready = done] \/ doc' = doc
  PROVE  doc' \in [rev : {doc.rev}, text : {doc.text}, ready : BOOLEAN, drain : {0, 1}]
BY InvParts

LEMMA PhaseKeeps ==
  ASSUME SessSound, use' = use, UNCHANGED <<txns, conts, anchors, hist>>,
         sess'.phase \in {sess.phase, "open"} \/ (sess.phase = "creating" /\ sess'.phase = "gone"),
         sess.phase # "gone",
         sess' \in [phase : {"creating", "open", "gone"}, owner : {sess.owner},
                    progress : 0 .. use.pumps + 1, closing : BOOLEAN,
                    closed : BOOLEAN, txns : {sess.txns}]
  PROVE  SessSound' /\ sess'.owner = sess.owner
<1>1. Handles' = Handles
  BY DEF Handles
<1>2. sess.txns \in SUBSET Handles /\ sess.owner \in use.owners
  BY DEF SessSound
<1>3. /\ sess' \in [phase : {"creating", "open", "gone"}, owner : use'.owners,
                    progress : 0 .. use'.pumps + 1, closing : BOOLEAN,
                    closed : BOOLEAN, txns : SUBSET Handles']
      /\ sess'.txns = sess.txns /\ sess'.owner = sess.owner
  BY <1>1, <1>2
<1>4. DOMAIN txns' \subseteq sess'.txns
  BY <1>3 DEF SessSound
<1>5. sess'.phase # "open" =>
        /\ DOMAIN txns' = {} /\ DOMAIN conts' = {} /\ DOMAIN anchors' = {}
        /\ DOMAIN hist'.tokens = {}
  BY DEF SessSound
<1>. QED BY <1>3, <1>4, <1>5 DEF SessSound

LEMMA ControlKeeps ==
  ASSUME SessionInv, use' = use, NEW done \in BOOLEAN,
         CreateCommit(done) \/ Pump(done) \/ CreateAbort \/ PumpRefused \/ Cancel
  PROVE  SessionInv'
<1>. USE InvParts
<1>. DEFINE Entry == [phase : {"creating", "open", "gone"}, owner : {sess.owner},
                      progress : 0 .. use.pumps + 1, closing : BOOLEAN,
                      closed : BOOLEAN, txns : {sess.txns}]
<1>1. sess \in Entry /\ 0 \in 0 .. use.pumps + 1 /\ 1 \in 0 .. use.pumps + 1
      /\ use.pumps \in Nat /\ sess.progress \in Nat
  BY ZeroPumps DEF SessSound
<1>2. UNCHANGED <<hist, states, terms, txns, conts, anchors, caller, commits, seen>>
  BY DEF CreateCommit, Pump, CreateAbort, PumpRefused, Cancel
<1>3. doc' \in [rev : {doc.rev}, text : {doc.text}, ready : BOOLEAN, drain : {0, 1}]
  <2>1. doc' = [doc EXCEPT !.ready = done] \/ doc' = doc
    BY DEF CreateCommit, Pump, CreateAbort, PumpRefused, Cancel
  <2>. QED BY <2>1, DocReady
<1>4. /\ sess' \in Entry
      /\ sess'.phase \in {sess.phase, "open"} \/ (sess.phase = "creating" /\ sess'.phase = "gone")
      /\ sess.phase # "gone"
  <2>1. CASE CreateCommit(done)
    <3>1. sess' = [sess EXCEPT !.phase = "open", !.progress = 1] /\ sess.phase = "creating"
      BY <2>1 DEF CreateCommit
    <3>. QED BY <1>1, <3>1
  <2>2. CASE Pump(done)
    <3>. DEFINE p == IF done THEN 0 ELSE IF sess.progress = 0 THEN 2 ELSE sess.progress + 1
    <3>1. sess' = [sess EXCEPT !.progress = p] /\ sess.phase = "open"
          /\ (~done => sess.progress < use.pumps)
      BY <2>2 DEF Pump, Live
    <3>2. p \in 0 .. use.pumps + 1
      BY <1>1, <3>1
    <3>. HIDE DEF p
    <3>. QED BY <1>1, <3>1, <3>2
  <2>3. CASE CreateAbort
    <3>1. sess' = [sess EXCEPT !.phase = "gone"] /\ sess.phase = "creating"
      BY <2>3 DEF CreateAbort
    <3>. QED BY <1>1, <3>1
  <2>4. CASE PumpRefused
    <3>1. sess' = [sess EXCEPT !.progress = 1] /\ sess.phase \in {"creating", "open"}
      BY <2>4 DEF PumpRefused, Owned
    <3>. QED BY <1>1, <3>1
  <2>5. CASE Cancel
    <3>1. sess' = [sess EXCEPT !.progress = 0] /\ sess.phase = "open"
      BY <2>5 DEF Cancel
    <3>. QED BY <1>1, <3>1
  <2>. QED BY <2>1, <2>2, <2>3, <2>4, <2>5
<1>5. SessSound' /\ sess'.owner = sess.owner
  BY <1>2, <1>4, PhaseKeeps
<1>. QED BY <1>2, <1>3, <1>5, EntryKeeps

-----------------------------------------------------------------------------
(* Calls that leave the source: anchors, continuations, history, owner.    *)

\* A call that leaves the source, the caller and the transactions.
LEMMA TableKeeps ==
  ASSUME SessionInv, UNCHANGED <<use, doc, states, terms, txns, caller, commits, seen>>,
         SessSound', ViewsSound', HistSound'
  PROVE  SessionInv'
<1>. USE InvParts
<1>1. SourceSound' /\ DocShaped' /\ doc'.rev = doc.rev /\ doc'.text = doc.text
  BY SourceStays
<1>2. ReceiptInv'
  BY <1>1, QuietKeeps
<1>3. TxnsSound'
  BY <1>1, TxnsStay
<1>. QED BY <1>1, <1>2, <1>3 DEF SessionInv

LEMMA AnchorCreateKeeps ==
  ASSUME SessionInv, use' = use, NEW h \in Handles, NEW offset \in 0 .. MaxBytes,
         NEW affinity \in {"up", "down"}, AnchorCreate(h, offset, affinity)
  PROVE  SessionInv'
<1>. USE InvParts
<1>1. /\ UNCHANGED <<sess, doc, hist, states, terms, txns, conts, caller, commits, seen>>
      /\ anchors' = With(anchors, h, [offset |-> offset, affinity |-> affinity])
      /\ offset <= Len(doc.text) /\ sess.phase = "open"
  BY DEF AnchorCreate, Live
<1>2. SessSound'
  BY <1>1, SessStays
<1>3. ViewsSound'
  <2>1. Len(doc.text) \in Nat /\ MaxBytes \in Nat
    BY LenProperties, UseParts
  <2>2. PICK p : p = [offset |-> offset, affinity |-> affinity]
    OBVIOUS
  <2>3. p \in Position(Len(doc.text))
    BY <1>1, <2>1, <2>2 DEF Position
  <2>4. anchors' = With(anchors, h, p)
    BY <1>1, <2>2
  <2>5. DOMAIN anchors' = DOMAIN anchors \cup {h} /\ anchors'[h] = p
        /\ \A u \in DOMAIN anchors \ {h} : anchors'[u] = anchors[u]
    BY <2>4 DEF With
  <2>6. \A u \in DOMAIN anchors' : anchors'[u] \in Position(Len(doc.text))
    BY <2>3, <2>5 DEF ViewsSound
  <2>. QED BY <1>1, <2>5, <2>6 DEF ViewsSound, Handles, Position
<1>4. HistSound'
  BY <1>1, HistKept
<1>. QED BY <1>1, <1>2, <1>3, <1>4, TableKeeps

LEMMA AnchorReleaseKeeps ==
  ASSUME SessionInv, use' = use, NEW h, AnchorRelease(h)
  PROVE  SessionInv'
<1>. USE InvParts
<1>1. /\ UNCHANGED <<sess, doc, hist, states, terms, txns, conts, caller, commits, seen>>
      /\ anchors' = Without(anchors, h)
  BY DEF AnchorRelease
<1>2. DOMAIN anchors' \subseteq DOMAIN anchors /\ \A u \in DOMAIN anchors' : anchors'[u] = anchors[u]
  BY <1>1 DEF Without
<1>3. SessSound'
  BY <1>1, <1>2, SessStays
<1>4. ViewsSound'
  BY <1>1, <1>2, ViewsStay
<1>5. HistSound'
  BY <1>1, HistKept
<1>. QED BY <1>1, <1>3, <1>4, <1>5, TableKeeps

LEMMA ContinuationKeeps ==
  ASSUME SessionInv, use' = use, NEW h,
         (h \in Handles /\ QueryViewport(h)) \/ ContinuationEnds(h)
  PROVE  SessionInv'
<1>. USE InvParts
<1>1. /\ UNCHANGED <<sess, doc, hist, states, terms, txns, anchors, caller, commits, seen>>
      /\ sess.phase = "open"
      /\ (h \in Handles /\ conts' = With(conts, h, doc.rev)) \/ conts' = Without(conts, h)
  BY DEF QueryViewport, ContinuationEnds, Live
<1>2. DOMAIN conts' \subseteq Handles /\ \A u \in DOMAIN conts' : conts'[u] = doc.rev
  <2>1. CASE h \in Handles /\ conts' = With(conts, h, doc.rev)
    <3>1. DOMAIN conts' = DOMAIN conts \cup {h} /\ conts'[h] = doc.rev
          /\ \A u \in DOMAIN conts \ {h} : conts'[u] = conts[u]
      BY <2>1 DEF With
    <3>. QED BY <2>1, <3>1 DEF ViewsSound
  <2>2. CASE conts' = Without(conts, h)
    <3>1. DOMAIN conts' = DOMAIN conts \ {h} /\ \A u \in DOMAIN conts \ {h} : conts'[u] = conts[u]
      BY <2>2 DEF Without
    <3>. QED BY <3>1 DEF ViewsSound
  <2>. QED BY <1>1, <2>1, <2>2
<1>3. SessSound'
  BY <1>1, SessStays
<1>4. ViewsSound'
  BY <1>1, <1>2 DEF ViewsSound, Handles, Position
<1>5. HistSound'
  BY <1>1, HistKept
<1>. QED BY <1>1, <1>3, <1>4, <1>5, TableKeeps

\* A token taken out, whatever the reason.
LEMMA HistDetaches ==
  ASSUME HistSound, use' = use, UNCHANGED <<states, seen>>, sess'.owner = sess.owner,
         NEW t \in DOMAIN hist.tokens, hist' = Detach(hist, t)
  PROVE  HistSound' /\ DOMAIN hist'.tokens = DOMAIN hist.tokens \ {t}
         /\ hist'.evicted = hist.evicted /\ hist'.count = hist.count - 1
<1>1. Chain(hist, SourceBytes, use.owners) /\ hist.used <= hist.budget
  BY HandlesBehind
<1>2. DetachedFrom(hist', hist, t, SourceBytes, use.owners)
  BY <1>1, DetachKeeps
<1>3. /\ Chain(hist', SourceBytes, use.owners)
      /\ DOMAIN hist'.tokens = DOMAIN hist.tokens \ {t}
      /\ SameTokens(hist', hist, DOMAIN hist.tokens \ {t})
      /\ hist'.budget = hist.budget
      /\ hist'.used = hist.used - hist.tokens[t].retained
      /\ hist'.used \in Nat /\ hist.used \in Nat /\ hist.tokens[t].retained \in Nat
      /\ hist'.evicted = hist.evicted /\ hist'.count = hist.count - 1
  BY <1>2 DEF DetachedFrom
<1>4. hist'.used <= hist'.budget
  <2>1. hist.budget \in Nat
    BY HandlesBehind
  <2>. QED BY <1>1, <1>3, <2>1
<1>5. Kept(hist', hist, SourceBytes, use.owners)
  BY <1>3, <1>4 DEF Kept, Cut
<1>. QED BY <1>3, <1>5, HistKept

\* A tombstone taken.
LEMMA HistForgetsEvicted ==
  ASSUME HistSound, use' = use, UNCHANGED <<states, seen>>, sess'.owner = sess.owner,
         NEW t, hist' = [hist EXCEPT !.evicted = @ \ {t}]
  PROVE  HistSound' /\ DOMAIN hist'.tokens = DOMAIN hist.tokens
         /\ hist'.evicted = hist.evicted \ {t} /\ hist'.count = hist.count
<1>. DEFINE h == hist
            g == hist'
<1>1. Chain(h, SourceBytes, use.owners) /\ h.used <= h.budget
  BY HandlesBehind
<1>2. /\ h \in [tokens : {h.tokens}, head : Nat, tail : Nat, used : Nat, count : Nat,
                evicted : SUBSET Nat, budget : Nat]
      /\ IsFiniteSet(h.evicted)
  BY <1>1 DEF Chain, TypedHistory
<1>3. /\ g.tokens = h.tokens /\ g.head = h.head /\ g.tail = h.tail /\ g.used = h.used
      /\ g.count = h.count /\ g.budget = h.budget /\ g.evicted = h.evicted \ {t}
      /\ g \in [tokens : {h.tokens}, head : Nat, tail : Nat, used : Nat, count : Nat,
                evicted : SUBSET Nat, budget : Nat]
  BY <1>2
<1>4. IsFiniteSet(g.evicted)
  BY <1>2, <1>3, FS_Difference
<1>. HIDE DEF g, h
<1>5. Chain(g, SourceBytes, use.owners)
  <2>1. RetainedBy(g) = RetainedBy(h)
    BY <1>3 DEF RetainedBy
  <2>. QED BY <1>1, <1>3, <1>4, <2>1 DEF Chain, TypedHistory, Ordered, Charged
<1>6. Kept(g, h, SourceBytes, use.owners)
  BY <1>1, <1>3, <1>5 DEF Kept, Cut, SameTokens
<1>7. HistSound'
  BY <1>6, HistKept DEF g, h
<1>. QED BY <1>3, <1>7 DEF g, h

LEMMA HistoryReleaseKeeps ==
  ASSUME SessionInv, use' = use, NEW t,
         \/ t \in DOMAIN hist.tokens /\ HistoryRelease(t)
         \/ EvictedRelease(t)
  PROVE  SessionInv'
<1>. USE InvParts
<1>1. UNCHANGED <<sess, doc, states, terms, txns, conts, anchors, caller, commits, seen>>
  BY DEF HistoryRelease, EvictedRelease
<1>2. HistSound' /\ DOMAIN hist'.tokens \subseteq DOMAIN hist.tokens
  <2>1. CASE t \in DOMAIN hist.tokens /\ HistoryRelease(t)
    <3>1. hist' = Detach(hist, t)
      BY <2>1 DEF HistoryRelease
    <3>. QED BY <1>1, <2>1, <3>1, HistDetaches
  <2>2. CASE EvictedRelease(t)
    <3>1. hist' = [hist EXCEPT !.evicted = @ \ {t}]
      BY <2>2 DEF EvictedRelease
    <3>2. HistSound' /\ DOMAIN hist'.tokens = DOMAIN hist.tokens
      BY <1>1, <3>1, HistForgetsEvicted
    <3>. QED BY <3>2
  <2>. QED BY <2>1, <2>2
<1>3. SessSound'
  BY <1>1, <1>2, SessStays
<1>4. ViewsSound'
  BY <1>1, ViewsStay
<1>. QED BY <1>1, <1>2, <1>3, <1>4, TableKeeps

LEMMA OwnerMoves ==
  ASSUME NEW h, NEW next, NEW texts, NEW owner, HistorySound(h, next, texts, owner),
         NEW o \in use.owners, NEW g,
         g = [h EXCEPT !.tokens = [t \in DOMAIN h.tokens |-> [h.tokens[t] EXCEPT !.owner = o]]]
  PROVE  HistorySound(g, next, texts, o)
<1>. DEFINE T == DOMAIN h.tokens
            ts == [t \in T |-> [h.tokens[t] EXCEPT !.owner = o]]
<1>1. Chain(h, SourceBytes, use.owners) /\ h.used <= h.budget /\ Paid(h)
  BY DEF HistorySound
<1>2. /\ h \in [tokens : {h.tokens}, head : Nat, tail : Nat, used : Nat, count : Nat,
                evicted : SUBSET Nat, budget : Nat]
      /\ \A t \in T : h.tokens[t] \in TokenOf(SourceBytes, use.owners)
  BY <1>1 DEF Chain, TypedHistory
<1>3. /\ DOMAIN ts = T
      /\ \A t \in T : ts[t] \in TokenOf(SourceBytes, use.owners)
      /\ \A t \in T : /\ ts[t].next = h.tokens[t].next /\ ts[t].previous = h.tokens[t].previous
                      /\ ts[t].retained = h.tokens[t].retained /\ ts[t].owner = o
                      /\ ts[t].splices = h.tokens[t].splices /\ ts[t].group = h.tokens[t].group
                      /\ ts[t].applies = h.tokens[t].applies /\ ts[t].target = h.tokens[t].target
  <2>1. ASSUME NEW t \in T
        PROVE  /\ ts[t] \in TokenOf(SourceBytes, use.owners)
               /\ ts[t].next = h.tokens[t].next /\ ts[t].previous = h.tokens[t].previous
               /\ ts[t].retained = h.tokens[t].retained /\ ts[t].owner = o
               /\ ts[t].splices = h.tokens[t].splices /\ ts[t].group = h.tokens[t].group
               /\ ts[t].applies = h.tokens[t].applies /\ ts[t].target = h.tokens[t].target
    <3>1. PICK x : x = h.tokens[t]
      OBVIOUS
    <3>2. x \in TokenOf(SourceBytes, use.owners) /\ ts[t] = [x EXCEPT !.owner = o]
      BY <1>2, <3>1
    <3>3. /\ ts[t] \in TokenOf(SourceBytes, use.owners)
          /\ ts[t].next = x.next /\ ts[t].previous = x.previous
          /\ ts[t].retained = x.retained /\ ts[t].owner = o
          /\ ts[t].splices = x.splices /\ ts[t].group = x.group
          /\ ts[t].applies = x.applies /\ ts[t].target = x.target
      <4>. HIDE DEF ts
      <4>. QED BY <3>2 DEF TokenOf
    <3>. QED BY <3>1, <3>3
  <2>2. DOMAIN ts = T
    OBVIOUS
  <2>. HIDE DEF ts, T
  <2>. QED BY <2>1, <2>2
<1>4. /\ g.tokens = ts /\ g.head = h.head /\ g.tail = h.tail /\ g.used = h.used
      /\ g.count = h.count /\ g.budget = h.budget /\ g.evicted = h.evicted
      /\ g \in [tokens : {ts}, head : Nat, tail : Nat, used : Nat, count : Nat,
                evicted : SUBSET Nat, budget : Nat]
  <2>1. g = [h EXCEPT !.tokens = ts]
    OBVIOUS
  <2>. HIDE DEF ts
  <2>. QED BY <1>2, <2>1
<1>5. ts \in [T -> TokenOf(SourceBytes, use.owners)]
  BY <1>3
<1>. HIDE DEF ts
<1>6. RetainedBy(g) = RetainedBy(h)
  BY <1>3, <1>4 DEF RetainedBy
<1>7. Chain(g, SourceBytes, use.owners)
  <2>1. TypedHistory(g, SourceBytes, use.owners)
    BY <1>1, <1>3, <1>4, <1>5 DEF Chain, TypedHistory
  <2>2. Ordered(g)
    BY <1>1, <1>3, <1>4 DEF Chain, Ordered
  <2>3. Charged(g)
    BY <1>1, <1>3, <1>4, <1>6 DEF Chain, Charged
  <2>. QED BY <2>1, <2>2, <2>3 DEF Chain
<1>8. Paid(g)
  BY <1>1, <1>3, <1>4 DEF Paid
<1>9. \A t \in DOMAIN g.tokens : t < next /\ TokenSound(g.tokens[t], texts, o)
  <2>1. ASSUME NEW t \in T PROVE t < next /\ TokenSound(ts[t], texts, o)
    <3>1. t < next /\ TokenSound(h.tokens[t], texts, owner)
      BY DEF HistorySound
    <3>2. use.groups = {0} => Alone(ts[t], texts)
      BY <1>3, <3>1 DEF TokenSound, Alone
    <3>. QED BY <1>3, <3>1, <3>2 DEF TokenSound
  <2>. QED BY <1>3, <1>4, <2>1
<1>. QED BY <1>1, <1>4, <1>7, <1>8, <1>9 DEF HistorySound

LEMMA TransferOwnerKeeps ==
  ASSUME SessionInv, use' = use, NEW o \in use.owners, TransferOwner(o)
  PROVE  SessionInv'
<1>. USE InvParts
<1>1. /\ UNCHANGED <<doc, states, terms, txns, conts, anchors, caller, commits, seen>>
      /\ sess' = [sess EXCEPT !.owner = o] /\ sess.phase = "open"
      /\ hist' = [hist EXCEPT !.tokens =
                    [t \in DOMAIN hist.tokens |-> [hist.tokens[t] EXCEPT !.owner = o]]]
  BY DEF TransferOwner, Live
<1>2. SessSound' /\ sess'.owner = o
  <2>1. sess \in [phase : {"creating", "open", "gone"}, owner : use.owners,
                  progress : 0 .. use.pumps + 1, closing : BOOLEAN,
                  closed : BOOLEAN, txns : SUBSET Handles] /\ DOMAIN txns \subseteq sess.txns
    BY <1>1 DEF SessSound
  <2>2. /\ sess' \in [phase : {"creating", "open", "gone"}, owner : use.owners,
                      progress : 0 .. use.pumps + 1, closing : BOOLEAN,
                      closed : BOOLEAN, txns : SUBSET Handles]
        /\ sess'.phase = "open" /\ sess'.txns = sess.txns /\ sess'.owner = o
    BY <1>1, <2>1
  <2>. QED BY <1>1, <2>1, <2>2 DEF SessSound, Handles
<1>3. HistSound'
  <2>1. HistorySound(hist', states.token, seen, o)
    BY <1>1, OwnerMoves DEF HistSound
  <2>. QED BY <1>1, <1>2, <2>1, HistLater
<1>4. ViewsSound'
  BY <1>1, ViewsStay
<1>. QED BY <1>1, <1>2, <1>3, <1>4, TableKeeps

-----------------------------------------------------------------------------
(* The close.                                                              *)

Entry(handles) ==
  [phase : {sess.phase}, owner : {sess.owner}, progress : 0 .. use.pumps + 1,
   closing : BOOLEAN, closed : BOOLEAN, txns : {handles}]

LEMMA SessDrains ==
  ASSUME SessSound, use' = use, sess.phase # "gone",
         NEW handles \in SUBSET Handles, sess' \in Entry(handles),
         DOMAIN txns' \subseteq DOMAIN txns, DOMAIN txns' \subseteq handles,
         DOMAIN conts' \subseteq DOMAIN conts, DOMAIN anchors' \subseteq DOMAIN anchors,
         DOMAIN hist'.tokens \subseteq DOMAIN hist.tokens
  PROVE  SessSound'
<1>1. sess.phase \in {"creating", "open", "gone"} /\ sess.owner \in use.owners
  BY DEF SessSound
<1>2. /\ sess' \in [phase : {"creating", "open", "gone"}, owner : use.owners,
                    progress : 0 .. use.pumps + 1, closing : BOOLEAN,
                    closed : BOOLEAN, txns : SUBSET Handles]
      /\ sess'.phase = sess.phase /\ sess'.txns = handles
  BY <1>1 DEF Entry
<1>3. sess.phase # "open" =>
        /\ DOMAIN txns' = {} /\ DOMAIN conts' = {} /\ DOMAIN anchors' = {}
        /\ DOMAIN hist'.tokens = {}
  BY DEF SessSound
<1>. QED BY <1>2, <1>3 DEF SessSound, Handles

LEMMA DrainParts ==
  ASSUME NEW s, s.txns = sess.txns, s.phase = sess.phase, s.owner = sess.owner, Drain(s),
         SessionInv, use' = use, UNCHANGED <<states, seen>>,
         s \in Entry(sess.txns)
  PROVE  \E handles \in SUBSET Handles :
         /\ sess' \in Entry(handles) /\ handles \subseteq sess.txns
         /\ DOMAIN txns \subseteq sess.txns => DOMAIN txns' \subseteq handles
         /\ txns' = txns \/ \E h \in Nat : txns' = Without(txns, h)
         /\ DOMAIN conts' \subseteq DOMAIN conts /\ \A h \in DOMAIN conts' : conts'[h] = conts[h]
         /\ DOMAIN anchors' \subseteq DOMAIN anchors
         /\ \A h \in DOMAIN anchors' : anchors'[h] = anchors[h]
         /\ DOMAIN hist'.tokens \subseteq DOMAIN hist.tokens /\ HistSound'
         /\ doc' \in [rev : {doc.rev}, text : {doc.text}, ready : BOOLEAN, drain : {0, 1}]
<1>. USE InvParts
<1>1. sess.txns \in SUBSET Handles /\ Handles \subseteq Nat
  BY DEF SessSound, Handles
<1>2. doc \in [rev : {doc.rev}, text : {doc.text}, ready : BOOLEAN, drain : {0, 1}]
  OBVIOUS
<1>3. sess'.owner = sess.owner /\ HistSound
  <2>1. sess'.owner = s.owner
    <3>1. s = [phase |-> s.phase, owner |-> s.owner, progress |-> s.progress,
               closing |-> s.closing, closed |-> s.closed, txns |-> s.txns]
      BY DEF Entry
    <3>2. \/ \E x : sess' = [s EXCEPT !.txns = x]
          \/ sess' = s
          \/ \E x : sess' = [s EXCEPT !.closed = x]
      BY DEF Drain
    <3>. QED BY <3>1, <3>2
  <2>. QED BY <2>1
<1>. DEFINE Same == UNCHANGED <<conts, anchors, hist, doc>>
<1>4. CASE /\ s.txns # {}
           /\ sess' = [s EXCEPT !.txns = @ \ {Min(@)}]
           /\ txns' = Without(txns, Min(s.txns))
           /\ UNCHANGED <<conts, anchors, hist, doc>>
  <2>1. PICK m : m = Min(sess.txns)
    OBVIOUS
  <2>2. m \in Nat
    <3>1. sess.txns \subseteq Nat /\ sess.txns # {}
      BY <1>1, <1>4
    <3>2. m \in sess.txns
      BY <2>1, <3>1, MinIn
    <3>. QED BY <3>1, <3>2
  <2>3. PICK handles : handles = sess.txns \ {m}
    OBVIOUS
  <2>4. sess' = [s EXCEPT !.txns = handles] /\ txns' = Without(txns, m)
    BY <1>4, <2>1, <2>3
  <2>5. sess' \in Entry(handles)
    BY <2>4 DEF Entry
  <2>6. DOMAIN txns' = DOMAIN txns \ {m}
    BY <2>4 DEF Without
  <2>7. handles \in SUBSET Handles /\ handles \subseteq sess.txns
        /\ (DOMAIN txns \subseteq sess.txns => DOMAIN txns' \subseteq handles)
    BY <1>1, <2>3, <2>6
  <2>8. HistSound'
    BY <1>3, <1>4, HistKept
  <2>. QED BY <1>2, <1>4, <2>2, <2>4, <2>5, <2>7, <2>8
<1>5. CASE /\ sess' = s /\ conts' = Without(conts, Min(DOMAIN conts))
           /\ UNCHANGED <<txns, anchors, hist, doc>>
  <2>1. DOMAIN conts' \subseteq DOMAIN conts /\ \A h \in DOMAIN conts' : conts'[h] = conts[h]
    BY <1>5 DEF Without
  <2>2. HistSound'
    BY <1>3, <1>5, HistKept
  <2>. QED BY <1>1, <1>2, <1>5, <2>1, <2>2
<1>6. CASE /\ sess' = s /\ anchors' = Without(anchors, Min(DOMAIN anchors))
           /\ UNCHANGED <<txns, conts, hist, doc>>
  <2>1. DOMAIN anchors' \subseteq DOMAIN anchors /\ \A h \in DOMAIN anchors' : anchors'[h] = anchors[h]
    BY <1>6 DEF Without
  <2>2. HistSound'
    BY <1>3, <1>6, HistKept
  <2>. QED BY <1>1, <1>2, <1>6, <2>1, <2>2
<1>7. CASE /\ sess' = s /\ hist.head # 0 /\ hist' = Detach(hist, hist.head)
           /\ UNCHANGED <<txns, conts, anchors, doc>>
  <2>1. hist.head \in DOMAIN hist.tokens
    <3>1. IsFirst(DOMAIN hist.tokens, hist.head)
      BY <1>3, HandlesBehind DEF Chain, Ordered
    <3>. QED BY <1>7, <3>1 DEF IsFirst
  <2>2. PICK t \in DOMAIN hist.tokens : t = hist.head
    BY <2>1
  <2>3. hist' = Detach(hist, t)
    BY <1>7, <2>2
  <2>4. HistSound' /\ DOMAIN hist'.tokens = DOMAIN hist.tokens \ {t}
    BY <1>3, <2>3, HistDetaches
  <2>. QED BY <1>1, <1>2, <1>7, <2>4
<1>8. CASE /\ sess' = s /\ hist' = [hist EXCEPT !.evicted = @ \ {Min(@)}]
           /\ UNCHANGED <<txns, conts, anchors, doc>>
  <2>1. PICK t : t = Min(hist.evicted)
    OBVIOUS
  <2>2. hist' = [hist EXCEPT !.evicted = @ \ {t}]
    BY <1>8, <2>1
  <2>3. HistSound' /\ DOMAIN hist'.tokens = DOMAIN hist.tokens
    BY <1>3, <2>2, HistForgetsEvicted
  <2>. QED BY <1>1, <1>2, <1>8, <2>3
<1>9. CASE /\ doc' = [doc EXCEPT !.drain = IF s.phase = "open" /\ @ > 0 THEN @ - 1 ELSE @]
           /\ sess' = [s EXCEPT !.closed = s.phase = "creating" \/ doc.drain = 0]
           /\ UNCHANGED <<txns, conts, anchors, hist>>
  <2>1. PICK d : d = IF s.phase = "open" /\ doc.drain > 0 THEN doc.drain - 1 ELSE doc.drain
    OBVIOUS
  <2>2. d \in {0, 1}
    BY <2>1
  <2>3. doc' = [doc EXCEPT !.drain = d]
    BY <1>9, <2>1
  <2>4. doc' \in [rev : {doc.rev}, text : {doc.text}, ready : BOOLEAN, drain : {0, 1}]
    BY <1>2, <2>2, <2>3
  <2>5. PICK c \in BOOLEAN : c <=> (s.phase = "creating" \/ doc.drain = 0)
    OBVIOUS
  <2>6. sess' = [s EXCEPT !.closed = c]
    BY <1>9, <2>5
  <2>7. sess' \in Entry(sess.txns)
    BY <2>6 DEF Entry
  <2>8. HistSound'
    BY <1>3, <1>9, HistKept
  <2>. QED BY <1>1, <1>9, <2>4, <2>7, <2>8
<1>. QED BY <1>4, <1>5, <1>6, <1>7, <1>8, <1>9 DEF Drain

LEMMA CloseKeeps ==
  ASSUME SessionInv, use' = use, CloseBegin \/ ClosePump \/ CloseFinish
  PROVE  SessionInv'
<1>. USE InvParts
<1>1. sess \in [phase : {sess.phase}, owner : {sess.owner}, progress : 0 .. use.pumps + 1,
                closing : BOOLEAN, closed : BOOLEAN, txns : {sess.txns}]
  BY DEF SessSound
<1>2. CASE CloseBegin \/ ClosePump
  <2>1. PICK s : s \in {sess, [sess EXCEPT !.closing = TRUE]} /\ Drain(s)
    BY <1>2 DEF CloseBegin, ClosePump
  <2>2. s \in Entry(sess.txns) /\ s.txns = sess.txns /\ s.phase = sess.phase /\ s.owner = sess.owner
    BY <1>1, <2>1 DEF Entry
  <2>3. UNCHANGED <<states, terms, caller, commits, seen>> /\ sess.phase # "gone"
    BY <1>2 DEF CloseBegin, ClosePump, Owned
  <2>4. PICK handles \in SUBSET Handles :
         /\ sess' \in Entry(handles) /\ handles \subseteq sess.txns
         /\ DOMAIN txns \subseteq sess.txns => DOMAIN txns' \subseteq handles
         /\ txns' = txns \/ \E h \in Nat : txns' = Without(txns, h)
         /\ DOMAIN conts' \subseteq DOMAIN conts /\ \A h \in DOMAIN conts' : conts'[h] = conts[h]
         /\ DOMAIN anchors' \subseteq DOMAIN anchors
         /\ \A h \in DOMAIN anchors' : anchors'[h] = anchors[h]
         /\ DOMAIN hist'.tokens \subseteq DOMAIN hist.tokens /\ HistSound'
         /\ doc' \in [rev : {doc.rev}, text : {doc.text}, ready : BOOLEAN, drain : {0, 1}]
    BY <2>1, <2>2, <2>3, DrainParts
  <2>5. SourceSound' /\ DocShaped' /\ doc'.rev = doc.rev /\ doc'.text = doc.text
    BY <2>3, <2>4, SourceStays
  <2>6. ReceiptInv'
    BY <2>3, <2>5, QuietKeeps
  <2>7. TxnsSound' /\ DOMAIN txns' \subseteq DOMAIN txns
    BY <2>4, <2>5, TxnsStay
  <2>8. ViewsSound'
    BY <2>4, <2>5, ViewsStay
  <2>9. DOMAIN txns' \subseteq handles
    BY <2>3, <2>4, OwnerKnown
  <2>10. SessSound'
    BY <2>3, <2>4, <2>7, <2>9, SessDrains
  <2>. QED BY <2>3, <2>4, <2>5, <2>6, <2>7, <2>8, <2>10 DEF SessionInv
<1>3. CASE CloseFinish
  <2>1. /\ UNCHANGED <<doc, hist, states, terms, txns, conts, anchors, caller, commits, seen>>
        /\ sess' = [sess EXCEPT !.phase = "gone"] /\ sess.phase # "gone"
        /\ sess.txns = {} /\ DOMAIN conts = {} /\ DOMAIN anchors = {} /\ hist.head = 0
    BY <1>3 DEF CloseFinish, Owned
  <2>2. DOMAIN hist.tokens = {}
    <3>1. Chain(hist, SourceBytes, use.owners)
      BY HandlesBehind
    <3>2. IsFirst(DOMAIN hist.tokens, hist.head) /\ 0 \notin DOMAIN hist.tokens
      BY <3>1 DEF Chain, Ordered, TypedHistory
    <3>. QED BY <2>1, <3>2 DEF IsFirst
  <2>3. DOMAIN txns = {}
    BY <2>1, OwnerKnown
  <2>4. SessSound' /\ sess'.owner = sess.owner
    <3>1. sess \in [phase : {"creating", "open", "gone"}, owner : use.owners,
                    progress : 0 .. use.pumps + 1, closing : BOOLEAN,
                    closed : BOOLEAN, txns : SUBSET Handles]
      BY DEF SessSound
    <3>2. /\ sess' \in [phase : {"creating", "open", "gone"}, owner : use.owners,
                        progress : 0 .. use.pumps + 1, closing : BOOLEAN,
                        closed : BOOLEAN, txns : SUBSET Handles]
          /\ sess'.phase = "gone" /\ sess'.owner = sess.owner
      BY <2>1, <3>1
    <3>. QED BY <2>1, <2>2, <2>3, <3>2 DEF SessSound, Handles
  <2>5. doc' \in [rev : {doc.rev}, text : {doc.text}, ready : BOOLEAN, drain : {0, 1}]
    BY <2>1
  <2>. QED BY <2>1, <2>4, <2>5, EntryKeeps
<1>. QED BY <1>2, <1>3

-----------------------------------------------------------------------------
(* Edits of the literal lane.                                              *)

\* What an edit that is accepted does to the session, its history and the caller aside.
LEMMA CommittedParts ==
  ASSUME SessionInv, use' = use, sess.phase = "open",
         NEW a \in Nat, NEW b \in Nat, a <= b, b <= Len(doc.text),
         NEW new \in Seq(SourceBytes), IsNew(new),
         NEW handles \in SUBSET Handles, Committed(a, b, new, handles), DOMAIN txns' \subseteq handles,
         txns' = txns \/ (\E h \in Nat : txns' = Without(txns, h)),
         \/ anchors' = Moved(a, b, new)
         \/ \E sel \in DOMAIN anchors : anchors' = Selected(a, b, new, sel)
  PROVE  /\ SourceSound' /\ SessSound' /\ TxnsSound' /\ ViewsSound'
         /\ DocShaped' /\ doc'.rev = doc.rev + 1 /\ doc'.rev \in Nat \ {0}
         /\ sess'.owner = sess.owner /\ sess.owner \in use.owners
         /\ Undoable(InverseOf(a, b, new))
         /\ states'.now = states.next
<1>. USE InvParts
<1>1. /\ Accepted(a, b, new, InverseOf(a, b, new)) /\ SourceSound' /\ states'.now = states.next
  BY CommittedKeeps
<1>2. Undoable(InverseOf(a, b, new))
  BY CommittedUndoable
<1>3. /\ doc'.rev = doc.rev + 1 /\ Len(doc'.text) = a + Len(new) + (Len(doc.text) - b)
      /\ doc' \in [rev : Nat, text : {doc'.text}, ready : BOOLEAN, drain : {0, 1}]
  <2>1. DocTyped'
    BY <1>1 DEF Accepted
  <2>2. doc' \in [rev : (1 .. MaxRev)', text : Seq(SourceBytes)', ready : BOOLEAN, drain : {0, 1}]
    BY <2>1 DEF DocTyped
  <2>3. MaxRev' = MaxRev /\ MaxRev \in Nat
    BY UseParts DEF MaxRev
  <2>4. doc' \in [rev : Nat, text : {doc'.text}, ready : BOOLEAN, drain : {0, 1}]
    BY <2>2, <2>3
  <2>5. doc'.rev = doc.rev + 1 /\ Len(doc'.text) = a + Len(new) + (Len(doc.text) - b)
    BY <1>1 DEF Accepted
  <2>. QED BY <2>4, <2>5
<1>4. DocShaped'
  BY <1>3 DEF DocShaped
<1>5. conts' = <<>> /\ sess' = [sess EXCEPT !.progress = 0, !.txns = handles]
  BY DEF Committed
<1>6. SessSound' /\ sess'.owner = sess.owner
  <2>1. 0 \in 0 .. use.pumps + 1
    BY ZeroPumps
  <2>. QED BY <1>5, <2>1, SessOpen, Zenon
<1>7. TxnsSound'
  BY <1>3, TxnsStay
<1>8. ViewsSound'
  BY <1>3, <1>5, ViewsMove
<1>9. doc'.rev \in Nat \ {0}
  BY <1>3
<1>. QED BY <1>1, <1>2, <1>3, <1>4, <1>6, <1>7, <1>8, <1>9, OwnerKnown

LEMMA SmallEditKeeps ==
  ASSUME SessionInv, use' = use, NEW e \in Edits, NEW lost, SmallEdit(e, lost)
  PROVE  SessionInv'
<1>. USE InvParts
<1>1. /\ sess.phase = "open" /\ caller.known = doc.rev /\ e.end <= Len(doc.text)
      /\ terms' = AckOrdered(doc.rev) /\ Committed(e.start, e.end, New(e), sess.txns)
      /\ anchors' = Moved(e.start, e.end, New(e))
      /\ hist' = Retain(hist, states.token, Token(0, InverseOf(e.start, e.end, New(e))))
      /\ Learns(lost, doc.rev + 1) /\ UNCHANGED <<txns, commits>>
  BY DEF SmallEdit, Live, InRange
<1>2. e \in Edit /\ e.start \in Nat /\ e.end \in Nat /\ e.start <= e.end
  BY EditsAre, EditParts
<1>3. New(e) \in Seq(SourceBytes)
  BY <1>2, NewIs
<1>4. sess.txns \in SUBSET Handles /\ DOMAIN txns' \subseteq sess.txns
  BY <1>1, OwnerKnown
<1>. DEFINE s == InverseOf(e.start, e.end, New(e))
<1>5. /\ SourceSound' /\ SessSound' /\ TxnsSound' /\ ViewsSound'
      /\ DocShaped' /\ doc'.rev = doc.rev + 1 /\ doc'.rev \in Nat \ {0}
      /\ sess'.owner = sess.owner /\ sess.owner \in use.owners
      /\ Undoable(s)
  <2>1. PICK a \in Nat, b \in Nat : a = e.start /\ b = e.end
    BY <1>2
  <2>2. PICK new \in Seq(SourceBytes) : new = New(e) /\ IsNew(new)
    BY <1>2, <1>3, NewIs
  <2>3. /\ a <= b /\ b <= Len(doc.text) /\ Committed(a, b, new, sess.txns)
        /\ anchors' = Moved(a, b, new)
    BY <1>1, <1>2, <2>1, <2>2
  <2>4. /\ SourceSound' /\ SessSound' /\ TxnsSound' /\ ViewsSound'
        /\ DocShaped' /\ doc'.rev = doc.rev + 1 /\ doc'.rev \in Nat \ {0}
        /\ sess'.owner = sess.owner /\ sess.owner \in use.owners
        /\ Undoable(InverseOf(a, b, new))
    BY <1>1, <1>4, <2>2, <2>3, CommittedParts
  <2>. QED BY <2>1, <2>2, <2>4
<1>. HIDE DEF s
<1>6. HistSound'
  BY <1>1, <1>5, HistRetains DEF s
<1>7. ReceiptInv'
  BY <1>1, <1>5, OrderedKeeps
<1>8. caller'.known > 0
  <2>1. doc.rev + 1 \in Nat \ {0}
    OBVIOUS
  <2>. QED BY <1>1, <2>1, KnownLearns
<1>. QED BY <1>5, <1>6, <1>7, <1>8 DEF SessionInv

LEMMA OrderedRefusedKeeps ==
  ASSUME SessionInv, use' = use, OrderedRefused
  PROVE  SessionInv'
<1>. USE InvParts
<1>1. /\ UNCHANGED <<sess, doc, hist, states, txns, conts, anchors, caller, commits, seen>>
      /\ terms' = AckOrdered(caller.known)
  BY DEF OrderedRefused
<1>2. doc' \in [rev : {doc.rev}, text : {doc.text}, ready : BOOLEAN, drain : {0, 1}]
  BY <1>1
<1>3. SourceSound' /\ DocShaped' /\ doc'.rev = doc.rev /\ doc'.text = doc.text
  BY <1>1, <1>2, SourceStays
<1>4. ReceiptInv'
  BY <1>1, <1>3, AckKeeps
<1>5. SessSound'
  BY <1>1, SessStays
<1>6. TxnsSound'
  BY <1>3, <1>1, TxnsStay
<1>7. ViewsSound'
  BY <1>1, <1>3, ViewsStay
<1>8. HistSound'
  BY <1>1, HistKept
<1>. QED BY <1>1, <1>3, <1>4, <1>5, <1>6, <1>7, <1>8 DEF SessionInv

-----------------------------------------------------------------------------
(* Bulk transactions.                                                      *)

\* A call that leaves the source, the tables of views and the history.
LEMMA TxnsKeep ==
  ASSUME SessionInv, UNCHANGED <<use, doc, hist, states, conts, anchors, seen>>,
         SessSound', sess'.owner = sess.owner, TxnsSound', ReceiptInv', caller'.known > 0
  PROVE  SessionInv'
<1>. USE InvParts
<1>1. doc' \in [rev : {doc.rev}, text : {doc.text}, ready : BOOLEAN, drain : {0, 1}]
  OBVIOUS
<1>2. SourceSound'
  BY <1>1, SourceStays
<1>3. ViewsSound'
  BY ViewsStay
<1>4. HistSound'
  BY HistKept
<1>. QED BY <1>2, <1>3, <1>4 DEF SessionInv

LEMMA TxnsUpdate ==
  ASSUME TxnsSound, UNCHANGED <<use, doc>>, NEW h \in DOMAIN txns, NEW z,
         TransactionSound(z, doc.rev, doc.text), txns' = [txns EXCEPT ![h] = z]
  PROVE  TxnsSound' /\ DOMAIN txns' = DOMAIN txns
<1>1. DOMAIN txns \subseteq Handles /\ \A u \in DOMAIN txns : TransactionSound(txns[u], doc.rev, doc.text)
  BY DEF TxnsSound
<1>2. DOMAIN txns' = DOMAIN txns /\ txns' = [u \in DOMAIN txns' |-> txns'[u]]
  OBVIOUS
<1>3. \A u \in DOMAIN txns' : TransactionSound(txns'[u], doc'.rev, doc'.text)
  BY <1>1, <1>2
<1>. QED BY <1>1, <1>2, <1>3, TxnsLater

LEMMA WorkedSound ==
  ASSUME NEW x, TransactionSound(x, doc.rev, doc.text), x.base = doc.rev,
         doc.text \in Seq(SourceBytes), NEW n \in Nat
  PROVE  /\ TransactionSound(Worked(x, n), doc.rev, doc.text)
         /\ Worked(x, n).edit = x.edit /\ Worked(x, n).base = x.base
         /\ Worked(x, n).filled = x.filled /\ Worked(x, n).request = x.request
         /\ Worked(x, n).capturing = x.capturing
         /\ n = 3 => Worked(x, n).captured
         /\ x.edit \in Edit /\ x.edit.end <= Len(doc.text)
<1>1. /\ x \in Transaction /\ x.base <= doc.rev
      /\ x.edit.end <= Len(doc.text)
      /\ x.captured /\ x.capturing => x.inverse = Bytes(doc.text, x.edit.start, x.edit.end)
  BY DEF TransactionSound
<1>2. /\ x.edit \in Edit /\ x.captured \in BOOLEAN /\ x.capturing \in BOOLEAN
      /\ x.edit.start \in Nat /\ x.edit.end \in Nat /\ x.edit.start <= x.edit.end
  BY <1>1, EditParts DEF Transaction
<1>3. Bytes(doc.text, x.edit.start, x.edit.end) \in Seq(SourceBytes)
  BY <1>1, <1>2, SubSeqParts
<1>. DEFINE y == Worked(x, n)
<1>4. Checks(x) \in 0 .. 1 /\ Captures(x) \in 0 .. 1
      /\ (Captures(x) = 1 <=> ~x.captured /\ x.capturing)
  BY <1>2 DEF Checks, Captures
<1>5. /\ y = [x EXCEPT !.checked = TRUE, !.captured = y.captured, !.inverse = y.inverse]
      /\ y.captured = (x.captured \/ ~x.capturing \/ n > Checks(x))
      /\ y.inverse = IF Captures(x) = 1 /\ n > Checks(x)
                     THEN Bytes(doc.text, x.edit.start, x.edit.end) ELSE x.inverse
  BY <1>1 DEF Worked, Transaction
<1>6. y \in Transaction /\ y.base = x.base /\ y.edit = x.edit /\ y.filled = x.filled
      /\ y.request = x.request /\ y.capturing = x.capturing
  <2>1. y.captured \in BOOLEAN /\ y.inverse \in Seq(SourceBytes)
    BY <1>1, <1>2, <1>3, <1>5 DEF Transaction
  <2>. HIDE DEF y
  <2>. QED BY <1>1, <1>5, <2>1 DEF Transaction
<1>7. y.captured /\ y.capturing => y.inverse = Bytes(doc.text, x.edit.start, x.edit.end)
  BY <1>1, <1>2, <1>4, <1>5, <1>6
<1>8. n = 3 => y.captured
  <2>1. n = 3 => n > Checks(x)
    BY <1>4
  <2>. HIDE DEF y
  <2>. QED BY <2>1, <1>5
<1>. HIDE DEF y
<1>9. TransactionSound(y, doc.rev, doc.text)
  BY <1>1, <1>6, <1>7 DEF TransactionSound
<1>. QED BY <1>1, <1>2, <1>6, <1>8, <1>9 DEF y

LEMMA BulkBeginKeeps ==
  ASSUME SessionInv, use' = use, NEW h \in Handles, NEW e \in Edits, BulkBegin(h, e)
  PROVE  SessionInv'
<1>. USE InvParts
<1>. DEFINE x == [base |-> doc.rev, edit |-> e, filled |-> e.len = 0,
                  checked |-> e.len = 0, captured |-> e.start = e.end,
                  capturing |-> TokenOverhead + e.end - e.start <= hist.budget,
                  inverse |-> <<>>, request |-> 0]
<1>1. /\ sess.phase = "open" /\ caller.known = doc.rev /\ e.end <= Len(doc.text)
      /\ terms' = AckOrdered(caller.known) /\ txns' = With(txns, h, x)
      /\ sess' = [sess EXCEPT !.txns = @ \cup {h}]
      /\ UNCHANGED <<doc, hist, states, conts, anchors, caller, commits, seen>>
  BY DEF BulkBegin, Live, InRange
<1>2. e \in Edit /\ e.start \in Nat /\ e.end \in Nat /\ e.start <= e.end
  BY EditsAre, EditParts
<1>3. TransactionSound(x, doc.rev, doc.text)
  <2>1. x \in Transaction
    BY <1>2 DEF Transaction
  <2>2. e.start = e.end => Bytes(doc.text, e.start, e.end) = <<>>
    BY <1>1, <1>2 DEF Bytes
  <2>3. x.base = doc.rev /\ x.edit = e /\ x.inverse = <<>> /\ (x.captured <=> e.start = e.end)
    OBVIOUS
  <2>. HIDE DEF x
  <2>. QED BY <1>1, <2>1, <2>2, <2>3 DEF TransactionSound
<1>. HIDE DEF x
<1>4. /\ DOMAIN txns' = DOMAIN txns \cup {h} /\ txns'[h] = x
      /\ \A u \in DOMAIN txns \ {h} : txns'[u] = txns[u]
      /\ txns' = [u \in DOMAIN txns' |-> txns'[u]]
  <2>1. PICK f : f = txns
    OBVIOUS
  <2>2. PICK g : g = txns'
    OBVIOUS
  <2>3. PICK z : z = x
    OBVIOUS
  <2>4. g = With(f, h, z)
    BY <1>1, <2>1, <2>2, <2>3
  <2>5. /\ DOMAIN With(f, h, z) = DOMAIN f \cup {h} /\ With(f, h, z)[h] = z
        /\ \A u \in DOMAIN f \ {h} : With(f, h, z)[u] = f[u]
        /\ With(f, h, z) = [u \in DOMAIN With(f, h, z) |-> With(f, h, z)[u]]
    BY DEF With
  <2>. QED BY <2>1, <2>2, <2>3, <2>4, <2>5
<1>5. TxnsSound'
  <2>1. /\ DOMAIN txns \subseteq Handles
        /\ \A u \in DOMAIN txns : TransactionSound(txns[u], doc.rev, doc.text)
    BY DEF TxnsSound
  <2>2. \A u \in DOMAIN txns' : TransactionSound(txns'[u], doc'.rev, doc'.text)
    BY <1>1, <1>3, <1>4, <2>1
  <2>3. DOMAIN txns' \subseteq Handles
    BY <1>4, <2>1
  <2>. QED BY <1>4, <2>2, <2>3, TxnsLater
<1>6. SessSound' /\ sess'.owner = sess.owner
  <2>1. PICK handles \in SUBSET Handles : handles = sess.txns \cup {h}
    BY OwnerKnown
  <2>2. PICK p \in 0 .. use.pumps + 1 : p = sess.progress
    BY OwnerKnown
  <2>3. DOMAIN txns' \subseteq handles
    BY <1>1, <1>4, <2>1, OwnerKnown
  <2>4. sess' = [sess EXCEPT !.progress = p, !.txns = handles]
    BY <1>1, <2>1, <2>2 DEF SessSound
  <2>. QED BY <1>1, <2>3, <2>4, SessOpen, Zenon
<1>7. ReceiptInv'
  BY <1>1, DocIsShaped, AckKeeps DEF DocShaped
<1>. QED BY <1>1, <1>5, <1>6, <1>7, TxnsKeep

LEMMA BulkWorkKeeps ==
  ASSUME SessionInv, use' = use, NEW h \in DOMAIN txns,
         BulkAppend(h) \/ BulkAbort(h) \/ BulkLost(h) \/ (\E n \in 1 .. 2 : BulkPauses(h, n))
  PROVE  SessionInv'
<1>. USE InvParts
<1>1. /\ sess.phase = "open" /\ h \in Nat
      /\ UNCHANGED <<doc, hist, states, terms, conts, anchors, caller, commits, seen>>
  BY DEF BulkAppend, BulkAbort, BulkLost, BulkPauses, BulkReady, Live, TxnsSound, Handles
<1>2. ReceiptInv' /\ caller'.known > 0
  BY <1>1, QuietKeeps DEF DocShaped
<1>3. TransactionSound(txns[h], doc.rev, doc.text)
  BY DEF TxnsSound
<1>4. CASE BulkAppend(h)
  <2>1. PICK z : z = [txns[h] EXCEPT !.filled = TRUE]
    OBVIOUS
  <2>2. TransactionSound(z, doc.rev, doc.text)
    BY <1>3, <2>1 DEF TransactionSound, Transaction
  <2>3. txns' = [txns EXCEPT ![h] = z] /\ sess' = sess
    BY <1>4, <2>1 DEF BulkAppend
  <2>4. TxnsSound' /\ DOMAIN txns' = DOMAIN txns
    BY <1>1, <2>2, <2>3, TxnsUpdate
  <2>5. SessSound'
    BY <1>1, <2>3, <2>4, SessStays
  <2>. QED BY <1>1, <1>2, <2>3, <2>4, <2>5, TxnsKeep
<1>5. CASE BulkAbort(h)
  <2>1. txns' = Without(txns, h) /\ sess' = [sess EXCEPT !.txns = @ \ {h}]
    BY <1>5 DEF BulkAbort
  <2>2. TxnsSound'
    BY <1>1, <2>1, TxnsStay
  <2>3. DOMAIN txns' = DOMAIN txns \ {h}
    BY <2>1, WithoutParts
  <2>4. PICK handles \in SUBSET Handles : handles = sess.txns \ {h}
    BY OwnerKnown
  <2>5. PICK p \in 0 .. use.pumps + 1 : p = sess.progress
    BY OwnerKnown
  <2>6. DOMAIN txns' \subseteq handles
    BY <1>1, <2>3, <2>4, OwnerKnown
  <2>7. sess' = [sess EXCEPT !.progress = p, !.txns = handles]
    BY <2>1, <2>4, <2>5 DEF SessSound
  <2>8. SessSound' /\ sess'.owner = sess.owner
    BY <1>1, <2>6, <2>7, SessOpen, Zenon
  <2>. QED BY <1>1, <1>2, <2>2, <2>8, TxnsKeep
<1>6. CASE BulkLost(h)
  <2>1. txns' = Without(txns, h) /\ sess' = sess
    BY <1>6 DEF BulkLost
  <2>2. TxnsSound' /\ DOMAIN txns' \subseteq DOMAIN txns
    BY <1>1, <2>1, TxnsStay
  <2>3. SessSound'
    BY <1>1, <2>1, <2>2, SessStays
  <2>. QED BY <1>1, <1>2, <2>1, <2>2, <2>3, TxnsKeep
<1>7. CASE \E n \in 1 .. 2 : BulkPauses(h, n)
  <2>1. PICK n \in 1 .. 2 : BulkPauses(h, n)
    BY <1>7
  <2>2. PICK z : z = Worked(txns[h], n)
    OBVIOUS
  <2>3. txns' = [txns EXCEPT ![h] = z] /\ sess' = sess /\ txns[h].base = doc.rev
    BY <2>1, <2>2 DEF BulkPauses, BulkReady
  <2>4. PICK m \in Nat : m = n
    OBVIOUS
  <2>5. PICK x : x = txns[h]
    OBVIOUS
  <2>6. TransactionSound(Worked(x, m), doc.rev, doc.text)
    BY <1>3, <2>3, <2>5, WorkedSound
  <2>7. TransactionSound(z, doc.rev, doc.text)
    BY <2>2, <2>4, <2>5, <2>6
  <2>8. TxnsSound' /\ DOMAIN txns' = DOMAIN txns
    BY <1>1, <2>7, <2>3, TxnsUpdate
  <2>9. SessSound'
    BY <1>1, <2>3, <2>8, SessStays
  <2>. QED BY <1>1, <1>2, <2>3, <2>8, <2>9, TxnsKeep
<1>. QED BY <1>4, <1>5, <1>6, <1>7

-----------------------------------------------------------------------------
(* The commit of a bulk transaction, and calls that only answer or wait.   *)

\* What a transaction that is done brings back.
LEMMA WorkedInverse ==
  ASSUME use \in Uses, SourceSound, doc.text \in Seq(SourceBytes),
         NEW x, TransactionSound(x, doc.rev, doc.text), x.base = doc.rev, x.capturing
  PROVE  [start |-> x.edit.start, end |-> x.edit.start + x.edit.len, text |-> Worked(x, 3).inverse]
           = InverseOf(x.edit.start, x.edit.end, New(x.edit))
<1>1. PICK y : y = Worked(x, 3)
  OBVIOUS
<1>2. /\ TransactionSound(Worked(x, 3), doc.rev, doc.text)
      /\ Worked(x, 3).edit = x.edit /\ Worked(x, 3).base = x.base
      /\ Worked(x, 3).capturing = x.capturing /\ Worked(x, 3).captured
      /\ x.edit \in Edit
  <2>1. PICK n \in Nat : n = 3
    OBVIOUS
  <2>2. /\ TransactionSound(Worked(x, n), doc.rev, doc.text)
        /\ Worked(x, n).edit = x.edit /\ Worked(x, n).base = x.base
        /\ Worked(x, n).capturing = x.capturing
        /\ n = 3 => Worked(x, n).captured
        /\ x.edit \in Edit
    BY WorkedSound
  <2>. QED BY <2>1, <2>2
<1>3. y.inverse = Bytes(doc.text, x.edit.start, x.edit.end)
  BY <1>1, <1>2 DEF TransactionSound
<1>4. Len(New(x.edit)) = x.edit.len
  BY <1>2, NewIs
<1>. QED BY <1>1, <1>3, <1>4 DEF InverseOf

LEMMA BulkCommitKeeps ==
  ASSUME SessionInv, use' = use, NEW h \in DOMAIN txns, NEW lost, BulkCommit(h, lost)
  PROVE  SessionInv'
<1>. USE InvParts
<1>1. PICK x : x = txns[h]
  OBVIOUS
<1>2. TransactionSound(x, doc.rev, doc.text) /\ h \in Nat
  BY <1>1 DEF TxnsSound, Handles
<1>3. PICK n \in Nat : n = 3
  OBVIOUS
<1>4. PICK w : w = Worked(x, 3)
  OBVIOUS
<1>5. /\ sess.phase = "open" /\ caller.known = doc.rev /\ x.base = doc.rev
      /\ Committed(w.edit.start, w.edit.end, New(w.edit), sess.txns \ {h})
      /\ txns' = Without(txns, h)
      /\ anchors' = Moved(w.edit.start, w.edit.end, New(w.edit))
      /\ hist' = IF w.capturing
                 THEN Retain(hist, states.token,
                        Token(0, [start |-> w.edit.start, end |-> w.edit.start + w.edit.len,
                                  text |-> w.inverse]))
                 ELSE hist
      /\ Learns(lost, doc.rev + 1) /\ UNCHANGED <<terms, commits>>
  BY <1>1, <1>4 DEF BulkCommit, BulkReady, Live
<1>6. w.edit = x.edit /\ w.capturing = x.capturing /\ x.edit \in Edit /\ x.edit.end <= Len(doc.text)
  <2>1. /\ Worked(x, n).edit = x.edit /\ Worked(x, n).capturing = x.capturing
        /\ x.edit \in Edit /\ x.edit.end <= Len(doc.text)
    BY <1>2, <1>5, WorkedSound
  <2>. QED BY <1>3, <1>4, <2>1
<1>7. x.edit.start \in Nat /\ x.edit.end \in Nat /\ x.edit.start <= x.edit.end
  BY <1>6, EditParts
<1>8. PICK a \in Nat, b \in Nat : a = x.edit.start /\ b = x.edit.end
  BY <1>7
<1>9. New(x.edit) \in Seq(SourceBytes)
  BY <1>6, NewIs
<1>10. PICK new \in Seq(SourceBytes) : new = New(x.edit) /\ IsNew(new)
  BY <1>6, <1>9, NewIs
<1>11. PICK handles \in SUBSET Handles : handles = sess.txns \ {h}
  BY OwnerKnown
<1>12. DOMAIN txns' \subseteq handles
  <2>1. DOMAIN txns' = DOMAIN txns \ {h}
    BY <1>5, WithoutParts
  <2>. QED BY <1>5, <1>11, <2>1, OwnerKnown
<1>13. /\ SourceSound' /\ SessSound' /\ TxnsSound' /\ ViewsSound'
       /\ DocShaped' /\ doc'.rev = doc.rev + 1 /\ doc'.rev \in Nat \ {0}
       /\ sess'.owner = sess.owner /\ sess.owner \in use.owners
       /\ Undoable(InverseOf(a, b, new))
  <2>1. a <= b /\ b <= Len(doc.text) /\ Committed(a, b, new, handles) /\ anchors' = Moved(a, b, new)
    BY <1>5, <1>6, <1>7, <1>8, <1>10, <1>11
  <2>. QED BY <1>2, <1>5, <1>10, <1>12, <2>1, CommittedParts
<1>14. HistSound'
  <2>1. PICK s : s = InverseOf(a, b, new)
    OBVIOUS
  <2>2. Undoable(s)
    BY <1>13, <2>1
  <2>3. CASE x.capturing
    <3>1. [start |-> x.edit.start, end |-> x.edit.start + x.edit.len, text |-> w.inverse] = s
      BY <1>2, <1>4, <1>5, <1>8, <1>10, <2>1, <2>3, WorkedInverse
    <3>2. hist' = Retain(hist, states.token, Token(0, s))
      BY <1>5, <1>6, <2>3, <3>1
    <3>. QED BY <1>13, <2>2, <3>2, HistRetains
  <2>4. CASE ~x.capturing
    <3>1. hist' = hist
      BY <1>5, <1>6, <2>4
    <3>. QED BY <1>13, <2>2, <3>1, HistForgets
  <2>. QED BY <2>3, <2>4
<1>15. ReceiptInv'
  BY <1>5, <1>13, OrderedKeeps
<1>16. caller'.known > 0
  <2>1. doc.rev + 1 \in Nat \ {0}
    OBVIOUS
  <2>. QED BY <1>5, <2>1, KnownLearns
<1>. QED BY <1>13, <1>14, <1>15, <1>16 DEF SessionInv

LEMMA RecallSessionKeeps ==
  ASSUME SessionInv, use' = use, NEW r, Asked(r), NEW lost, Recall(r, lost)
  PROVE  SessionInv'
<1>. USE InvParts
<1>1. /\ terms[Slot(r)].id = r.id /\ AnsweredWith(r, lost, terms[Slot(r)].result)
      /\ UNCHANGED <<sess, doc, hist, states, terms, txns, conts, anchors, commits, seen>>
  BY DEF Recall
<1>2. ReceiptInv'
  BY <1>1, RecallKeeps
<1>3. terms[Slot(r)].result \in Nat
  BY SlotIsKind DEF ReceiptInv, TermsSound
<1>4. caller'.known > 0
  BY <1>1, <1>3, KnownAnswered
<1>5. SessSound'
  BY <1>1, SessStays
<1>6. TxnsSound'
  BY <1>1, TxnsStay
<1>. QED BY <1>1, <1>2, <1>4, <1>5, <1>6, TxnsKeep

\* A transaction bound to a request, after some units of work.
Bound(x, n, r) == [Worked(x, n) EXCEPT !.request = r.id]

LEMMA BoundSound ==
  ASSUME NEW x, TransactionSound(x, doc.rev, doc.text), x.base = doc.rev,
         doc.text \in Seq(SourceBytes), NEW n \in Nat, NEW r, r.id \in Nat
  PROVE  /\ TransactionSound(Bound(x, n, r), doc.rev, doc.text)
         /\ Bound(x, n, r).edit = x.edit /\ Bound(x, n, r).capturing = x.capturing
         /\ Bound(x, n, r).inverse = Worked(x, n).inverse
<1>1. PICK w : w = Worked(x, n)
  OBVIOUS
<1>2. TransactionSound(w, doc.rev, doc.text) /\ w.edit = x.edit /\ w.capturing = x.capturing
  BY <1>1, WorkedSound
<1>3. Bound(x, n, r) = [w EXCEPT !.request = r.id] /\ w \in Transaction
  BY <1>1, <1>2 DEF Bound, TransactionSound
<1>4. PICK y : y = Bound(x, n, r)
  OBVIOUS
<1>5. /\ y \in Transaction /\ y.base = w.base /\ y.edit = w.edit /\ y.captured = w.captured
      /\ y.capturing = w.capturing /\ y.inverse = w.inverse
  BY <1>3, <1>4 DEF Transaction
<1>6. TransactionSound(y, doc.rev, doc.text)
  BY <1>2, <1>5 DEF TransactionSound
<1>. QED BY <1>1, <1>2, <1>4, <1>5, <1>6

\* The transaction of a request that is sent and not answered.
LEMMA BoundKeeps ==
  ASSUME SessionInv, use' = use, NEW r, Asked(r), r.txn \in DOMAIN txns,
         txns[r.txn].base = doc.rev, NEW n \in Nat,
         txns' = [txns EXCEPT ![r.txn] = Bound(txns[r.txn], n, r)],
         caller' = [caller EXCEPT !.sent = @ \cup {r}],
         UNCHANGED <<sess, doc, states, terms, conts, anchors, commits, seen>>,
         HistSound', DOMAIN hist'.tokens = DOMAIN hist.tokens
  PROVE  SessionInv'
<1>. USE InvParts
<1>12. PICK h \in DOMAIN txns : h = r.txn
  OBVIOUS
<1>13. PICK x : x = txns[h]
  OBVIOUS
<1>1. h = r.txn /\ x = txns[h]
  BY <1>12, <1>13
<1>2. TransactionSound(x, doc.rev, doc.text) /\ r.id \in Nat
  <2>1. r.id \in Ids /\ Ids \subseteq Nat \ {0}
    BY UseParts DEF Asked, Request
  <2>. QED BY <1>1, <2>1 DEF TxnsSound
<1>3. TransactionSound(Bound(x, n, r), doc.rev, doc.text)
  BY <1>1, <1>2, BoundSound
<1>4. PICK z : z = Bound(x, n, r)
  OBVIOUS
<1>5. TxnsSound' /\ DOMAIN txns' = DOMAIN txns
  BY <1>1, <1>3, <1>4, TxnsUpdate
<1>6. SessSound'
  BY <1>5, SessStays
<1>7. ReceiptInv'
  BY SentKeeps DEF DocShaped
<1>8. caller'.known > 0
  BY KnownSent
<1>9. doc' \in [rev : {doc.rev}, text : {doc.text}, ready : BOOLEAN, drain : {0, 1}]
  OBVIOUS
<1>10. SourceSound'
  BY <1>9, SourceStays
<1>11. ViewsSound'
  BY ViewsStay
<1>. QED BY <1>5, <1>6, <1>7, <1>8, <1>10, <1>11 DEF SessionInv

LEMMA StagedPausesKeeps ==
  ASSUME SessionInv, use' = use, NEW r, Asked(r), NEW n \in 1 .. 2, StagedPauses(r, n)
  PROVE  SessionInv'
<1>1. /\ r.txn \in DOMAIN txns /\ txns[r.txn].base = doc.rev
      /\ txns' = [txns EXCEPT ![r.txn] = Bound(txns[r.txn], n, r)]
      /\ caller' = [caller EXCEPT !.sent = @ \cup {r}]
      /\ UNCHANGED <<sess, doc, hist, states, terms, conts, anchors, commits, seen>>
  BY DEF StagedPauses, StagedReady, Bound
<1>2. HistSound'
  BY <1>1, InvParts, HistKept
<1>3. n \in Nat
  OBVIOUS
<1>. QED BY <1>1, <1>2, <1>3, BoundKeeps

-----------------------------------------------------------------------------
(* Logical edits.                                                          *)

\* An edit that a request asked for, its history aside.
LEMMA AnsweredEdit ==
  ASSUME SessionInv, use' = use,
         NEW r, Asked(r), Admitted(r), NEW lost, NEW e \in Edit, e.end <= Len(doc.text),
         NEW handles \in SUBSET Handles, DOMAIN txns' \subseteq handles,
         Committed(e.start, e.end, New(e), handles),
         txns' = txns \/ (\E h \in Nat : txns' = Without(txns, h)),
         \/ anchors' = Moved(e.start, e.end, New(e))
         \/ \E sel \in DOMAIN anchors : anchors' = Selected(e.start, e.end, New(e), sel),
         Settled(r, doc.rev + 1), Counted(r), AnsweredWith(r, lost, doc.rev + 1)
  PROVE  /\ ReceiptInv' /\ caller'.known > 0
         /\ SourceSound' /\ SessSound' /\ TxnsSound' /\ ViewsSound'
         /\ sess'.owner = sess.owner /\ sess.owner \in use.owners
         /\ Undoable(InverseOf(e.start, e.end, New(e)))
<1>. USE InvParts
<1>1. e.start \in Nat /\ e.end \in Nat /\ e.start <= e.end
  BY EditParts
<1>2. PICK a \in Nat, b \in Nat : a = e.start /\ b = e.end
  BY <1>1
<1>3. New(e) \in Seq(SourceBytes) /\ IsNew(New(e))
  BY NewIs
<1>4. PICK new \in Seq(SourceBytes) : new = New(e) /\ IsNew(new)
  BY <1>3
<1>5. sess.phase = "open"
  BY DEF Admitted, Live
<1>6. /\ SourceSound' /\ SessSound' /\ TxnsSound' /\ ViewsSound'
      /\ DocShaped' /\ doc'.rev = doc.rev + 1 /\ doc'.rev \in Nat \ {0}
      /\ sess'.owner = sess.owner /\ sess.owner \in use.owners
      /\ Undoable(InverseOf(a, b, new))
  <2>1. /\ a <= b /\ b <= Len(doc.text) /\ Committed(a, b, new, handles)
        /\ \/ anchors' = Moved(a, b, new)
           \/ \E sel \in DOMAIN anchors : anchors' = Selected(a, b, new, sel)
    BY <1>1, <1>2, <1>4
  <2>. QED BY <1>4, <1>5, <2>1, CommittedParts
<1>7. ReceiptInv'
  <2>1. Settled(r, doc'.rev) /\ AnsweredWith(r, lost, doc'.rev)
    BY <1>6
  <2>. QED BY <1>6, <2>1, SettledKeeps
<1>8. caller'.known > 0
  <2>1. doc.rev + 1 \in Nat
    OBVIOUS
  <2>. QED BY <2>1, KnownAnswered
<1>. QED BY <1>2, <1>4, <1>6, <1>7, <1>8

\* A request that leaves the source, whether it is answered or not.
LEMMA UnappliedKeeps ==
  ASSUME SessionInv, UNCHANGED <<use, sess, doc, states, txns, conts, anchors, commits, seen>>,
         HistSound', DOMAIN hist'.tokens = DOMAIN hist.tokens,
         NEW r, Asked(r), Admitted(r), NEW lost,
         \/ UNCHANGED <<terms, caller>>
         \/ AnsweredWith(r, lost, doc.rev) /\ Settled(r, doc.rev)
  PROVE  SessionInv'
<1>. USE InvParts
<1>1. doc' \in [rev : {doc.rev}, text : {doc.text}, ready : BOOLEAN, drain : {0, 1}]
  OBVIOUS
<1>2. SourceSound' /\ DocShaped'
  BY <1>1, SourceStays
<1>3. ViewsSound'
  BY ViewsStay
<1>4. SessSound'
  BY SessStays
<1>5. TxnsSound'
  BY TxnsStay
<1>6. CASE UNCHANGED <<terms, caller>>
  <2>1. ReceiptInv'
    BY <1>2, <1>6, QuietKeeps
  <2>. QED BY <1>2, <1>3, <1>4, <1>5, <1>6, <2>1 DEF SessionInv
<1>7. CASE AnsweredWith(r, lost, doc.rev) /\ Settled(r, doc.rev)
  <2>1. Settled(r, doc'.rev) /\ AnsweredWith(r, lost, doc'.rev) /\ doc'.rev \in {doc.rev, doc.rev + 1}
    BY <1>7
  <2>2. ReceiptInv'
    BY <1>2, <2>1, SettledKeeps
  <2>3. caller'.known > 0
    BY <1>7, KnownAnswered
  <2>. QED BY <1>2, <1>3, <1>4, <1>5, <2>2, <2>3 DEF SessionInv
<1>. QED BY <1>6, <1>7

\* The reservation of an intent is a token of its own.
LEMMA IntentReservesAlone ==
  ASSUME SessionInv
  PROVE  /\ ~CanExtend(hist, 0, states.now, sess.owner)
         /\ IntentReserved = Reserved(hist, states.token,
                               Token(0, [start |-> 0, end |-> 0, text |-> <<>>]), IntentCapacity)
         /\ IntentReserved = Linked(hist, states.token,
                               Blank(Token(0, [start |-> 0, end |-> 0, text |-> <<>>]), IntentCapacity))
         /\ IntentCapacity \in Nat
<1>1. PICK z : z = [start |-> 0, end |-> 0, text |-> <<>>]
  OBVIOUS
<1>2. PICK y : y = Token(0, z)
  OBVIOUS
<1>3. y.group = 0 /\ y.target = states.now /\ y.owner = sess.owner
  BY <1>2 DEF Token
<1>4. ~CanExtend(hist, 0, states.now, sess.owner)
  BY DEF CanExtend
<1>5. ~CanExtend(hist, y.group, y.target, y.owner)
  BY <1>3, <1>4
<1>6. Reserved(hist, states.token, y, IntentCapacity)
        = Linked(hist, states.token, Blank(y, IntentCapacity))
  BY <1>5 DEF Reserved, Blank
<1>7. IntentReserved = Reserved(hist, states.token, y, IntentCapacity)
  BY <1>1, <1>2 DEF IntentReserved
<1>. QED BY <1>1, <1>2, <1>4, <1>6, <1>7, HistoryAssumption

LEMMA IntentAppliedKeeps ==
  ASSUME SessionInv, use' = use, NEW r, Asked(r), NEW lost, NEW e \in Edits, IntentApplied(r, e, lost)
  PROVE  /\ SessionInv'
         /\ DOMAIN hist'.tokens = DOMAIN hist.tokens \cup {states.token}
         /\ hist'.tokens[states.token].applies = states'.now
<1>. USE InvParts
<1>1. e \in Edit /\ e.start \in Nat /\ e.end \in Nat /\ e.start <= e.end
  BY EditsAre, EditParts
<1>2. PICK s : s = InverseOf(e.start, e.end, New(e))
  OBVIOUS
<1>3. /\ Admitted(r) /\ e.end <= Len(doc.text) /\ e.end - e.start <= IntentCapacity
      /\ Fits(hist, TokenOverhead + IntentCapacity)
      /\ Committed(e.start, e.end, New(e), sess.txns)
      /\ hist' = Finalized(IntentReserved, FALSE, IntentCapacity, states.next, s)
      /\ anchors' = Moved(e.start, e.end, New(e))
      /\ Settled(r, doc.rev + 1) /\ Counted(r) /\ AnsweredWith(r, lost, doc.rev + 1)
      /\ txns' = txns
  BY <1>2 DEF IntentApplied, InRange, IntentFits
<1>4. sess.txns \in SUBSET Handles /\ DOMAIN txns' \subseteq sess.txns
  BY <1>3, OwnerKnown DEF Admitted, Live
<1>5. /\ ReceiptInv' /\ caller'.known > 0
      /\ SourceSound' /\ SessSound' /\ TxnsSound' /\ ViewsSound'
      /\ sess'.owner = sess.owner /\ sess.owner \in use.owners
      /\ Undoable(s)
  BY <1>1, <1>2, <1>3, <1>4, AnsweredEdit
<1>6. PICK z : z = [start |-> 0, end |-> 0, text |-> <<>>]
  OBVIOUS
<1>7. hist' = Finalized(Linked(hist, states.token, Blank(Token(0, z), IntentCapacity)),
                        FALSE, IntentCapacity, states.next, s)
  BY <1>3, <1>6, IntentReservesAlone
<1>8. Len(s.text) <= IntentCapacity
  <2>1. s.text = Bytes(doc.text, e.start, e.end)
    BY <1>2 DEF InverseOf
  <2>2. Len(Bytes(doc.text, e.start, e.end)) = e.end - e.start
    BY <1>1, <1>3, SubSeqParts
  <2>. QED BY <1>3, <2>1, <2>2
<1>9. PICK bytes \in Nat : bytes = IntentCapacity
  BY IntentReservesAlone
<1>10. PICK group \in Nat : group = 0
  OBVIOUS
<1>11. /\ HistSound' /\ DOMAIN hist'.tokens = DOMAIN hist.tokens \cup {states.token}
       /\ hist'.tokens[states.token].applies = states.next
  <2>1. /\ hist' = Finalized(Linked(hist, states.token, Blank(Token(group, z), bytes)),
                        FALSE, bytes, states.next, s)
        /\ Len(s.text) <= bytes /\ Fits(hist, TokenOverhead + bytes)
    BY <1>3, <1>7, <1>8, <1>9, <1>10
  <2>. QED BY <1>5, <2>1, HistReservesAlone
<1>12. states'.now = states.next
  BY <1>3 DEF Committed, SourceSound
<1>. QED BY <1>5, <1>11, <1>12 DEF SessionInv

LEMMA IntentUnappliedKeeps ==
  ASSUME SessionInv, use' = use, NEW r, Asked(r), NEW lost, NEW composing \in BOOLEAN,
         NEW refused \in BOOLEAN, IntentUnapplied(r, composing, refused, lost)
  PROVE  SessionInv'
<1>. USE InvParts
<1>1. /\ Admitted(r) /\ UNCHANGED <<sess, doc, states, txns, conts, anchors, commits, seen>>
      /\ \/ UNCHANGED <<terms, caller>>
         \/ AnsweredWith(r, lost, doc.rev) /\ Settled(r, doc.rev)
      /\ hist' = IF composing THEN hist ELSE RolledBack(IntentReserved, FALSE, IntentCapacity)
  BY DEF IntentUnapplied
<1>2. HistSound' /\ DOMAIN hist'.tokens = DOMAIN hist.tokens
  <2>1. CASE composing
    BY <1>1, <2>1, HistKept
  <2>2. CASE ~composing
    <3>1. PICK z : z = [start |-> 0, end |-> 0, text |-> <<>>]
      OBVIOUS
    <3>2. PICK bytes \in Nat : bytes = IntentCapacity
      BY IntentReservesAlone
    <3>3. PICK group \in Nat : group = 0
      OBVIOUS
    <3>4. PICK extended : extended = CanExtend(hist, group, states.now, sess.owner)
      OBVIOUS
    <3>5. ~extended
      BY <3>3, <3>4, IntentReservesAlone
    <3>6. PICK q : q = Reserved(hist, states.token, Token(group, z), bytes)
      OBVIOUS
    <3>7. hist' = RolledBack(q, FALSE, bytes)
      BY <1>1, <2>2, <3>1, <3>2, <3>3, <3>6, IntentReservesAlone
    <3>8. RolledBack(q, FALSE, bytes) = Detach(q, q.tail)
      BY DEF RolledBack
    <3>9. RolledBack(q, extended, bytes) = Detach(q, q.tail)
      BY <3>5 DEF RolledBack
    <3>10. hist' = RolledBack(Reserved(hist, states.token, Token(group, z), bytes), extended, bytes)
      BY <3>6, <3>7, <3>8, <3>9
    <3>. QED BY <1>1, <3>4, <3>10, OwnerKnown, HistGivesBack
  <2>. QED BY <2>1, <2>2
<1>. QED BY <1>1, <1>2, UnappliedKeeps

\* An edit that must be undoable is: no token left, and one applies to what it made.
NewUndoable ==
  /\ DOMAIN hist.tokens \subseteq DOMAIN hist'.tokens
  /\ \E t \in DOMAIN hist'.tokens : hist'.tokens[t].applies = states'.now

LEMMA SourceAccepted ==
  ASSUME SessionInv, use' = use, NEW s, Undoable(s), sess'.owner = sess.owner, sess.owner \in use.owners,
         states'.now = states.next,
         NEW group \in Nat, group \in use.groups, NEW bytes \in Nat, Len(s.text) <= bytes,
         Fits(hist, Reservation(hist, group, states.now, sess.owner, bytes)),
         NEW z, NEW extended, extended = CanExtend(hist, group, states.now, sess.owner),
         hist' = Finalized(Reserved(hist, states.token, Token(group, z), bytes),
                           extended, bytes, states.next, s)
  PROVE  HistSound' /\ NewUndoable
<1>. USE InvParts
<1>1. PICK y : y = Token(group, z)
  OBVIOUS
<1>2. y.group = group /\ y.target = states.now /\ y.owner = sess.owner
  BY <1>1 DEF Token
<1>3. PICK q : q = Reserved(hist, states.token, y, bytes)
  OBVIOUS
<1>4. CASE extended
  <2>1. CanExtend(hist, group, states.now, sess.owner) /\ CanExtend(hist, y.group, y.target, y.owner)
    BY <1>2, <1>4
  <2>2. q = [hist EXCEPT !.tokens[hist.tail].retained = @ + SpliceOverhead + bytes,
                         !.used = @ + SpliceOverhead + bytes]
    BY <1>3, <2>1 DEF Reserved
  <2>3. Finalized(q, extended, bytes, states.next, s) = Finalized(q, TRUE, bytes, states.next, s)
    BY <1>4 DEF Finalized
  <2>4. hist' = Finalized(q, TRUE, bytes, states.next, s)
    BY <1>1, <1>3, <2>3
  <2>5. Fits(hist, SpliceOverhead + bytes)
    BY <2>1 DEF Reservation
  <2>6. /\ HistSound' /\ DOMAIN hist'.tokens = DOMAIN hist.tokens
        /\ hist.tail \in DOMAIN hist.tokens
        /\ hist'.tokens[hist.tail].applies = states.next
    BY <2>1, <2>2, <2>4, <2>5, HistReservesExtending, Zenon
  <2>. QED BY <2>6 DEF NewUndoable
<1>5. CASE ~extended
  <2>1. ~CanExtend(hist, group, states.now, sess.owner) /\ ~CanExtend(hist, y.group, y.target, y.owner)
    BY <1>2, <1>5
  <2>2. q = Linked(hist, states.token, Blank(y, bytes))
    BY <1>3, <2>1 DEF Reserved, Blank
  <2>3. Finalized(q, extended, bytes, states.next, s) = Finalized(q, FALSE, bytes, states.next, s)
    BY <1>5 DEF Finalized
  <2>4. hist' = Finalized(Linked(hist, states.token, Blank(Token(group, z), bytes)),
                          FALSE, bytes, states.next, s)
    BY <1>1, <1>3, <2>2, <2>3
  <2>5. Fits(hist, TokenOverhead + bytes)
    BY <2>1 DEF Reservation
  <2>6. /\ HistSound' /\ DOMAIN hist'.tokens = DOMAIN hist.tokens \cup {states.token}
        /\ hist'.tokens[states.token].applies = states.next
    BY <2>4, <2>5, HistReservesAlone
  <2>. QED BY <2>6 DEF NewUndoable
<1>. QED BY <1>4, <1>5

LEMMA SourceTransactionKeeps ==
  ASSUME SessionInv, use' = use, NEW r, Asked(r), NEW lost, NEW sel \in DOMAIN anchors,
         SourceTransaction(r, sel, lost)
  PROVE  SessionInv' /\ (commits' # commits => NewUndoable)
<1>. USE InvParts
<1>1. PICK e \in Edit : e = r.edit
  BY DEF Asked, Request
<1>2. e.start \in Nat /\ e.end \in Nat /\ e.start <= e.end /\ e.len \in 0 .. 1
  BY EditParts
<1>3. PICK group \in Nat : group = r.group /\ group \in use.groups
  BY UseParts DEF Asked, Request
<1>4. PICK bytes \in Nat : bytes = e.end - e.start
  BY <1>2
<1>5. PICK s : s = InverseOf(e.start, e.end, New(e))
  OBVIOUS
<1>6. PICK extended : extended = CanExtend(hist, group, states.now, sess.owner)
  OBVIOUS
<1>7. /\ Admitted(r) /\ e.end <= Len(doc.text)
      /\ Fits(hist, Reservation(hist, group, states.now, sess.owner, bytes))
  BY <1>1, <1>3, <1>4 DEF SourceTransaction, SourceReady, InRange
<1>8. PICK q : q = Reserved(hist, states.token, Token(group, s), bytes)
  OBVIOUS
<1>9. \/ /\ Committed(e.start, e.end, New(e), sess.txns)
         /\ hist' = Finalized(q, extended, bytes, states.next, s)
         /\ anchors' = Selected(e.start, e.end, New(e), sel)
         /\ Settled(r, doc.rev + 1) /\ Counted(r) /\ AnsweredWith(r, lost, doc.rev + 1)
         /\ txns' = txns
      \/ /\ hist' = RolledBack(q, extended, bytes)
         /\ UNCHANGED <<sess, doc, states, terms, txns, conts, anchors, caller, commits, seen>>
  BY <1>1, <1>3, <1>4, <1>5, <1>6, <1>8 DEF SourceTransaction
<1>10. sess.txns \in SUBSET Handles /\ sess.owner \in use.owners /\ DOMAIN txns \subseteq sess.txns
  BY <1>7, OwnerKnown DEF Admitted, Live
<1>11. CASE hist' = Finalized(q, extended, bytes, states.next, s) /\ txns' = txns
            /\ Committed(e.start, e.end, New(e), sess.txns)
            /\ anchors' = Selected(e.start, e.end, New(e), sel)
            /\ Settled(r, doc.rev + 1) /\ Counted(r) /\ AnsweredWith(r, lost, doc.rev + 1)
  <2>1. /\ ReceiptInv' /\ caller'.known > 0
        /\ SourceSound' /\ SessSound' /\ TxnsSound' /\ ViewsSound'
        /\ sess'.owner = sess.owner /\ sess.owner \in use.owners
        /\ Undoable(s)
    BY <1>5, <1>7, <1>10, <1>11, AnsweredEdit
  <2>2. states'.now = states.next
    BY <1>11 DEF Committed, SourceSound
  <2>3. Len(s.text) <= bytes
    <3>1. s.text = Bytes(doc.text, e.start, e.end)
      BY <1>5 DEF InverseOf
    <3>2. Len(Bytes(doc.text, e.start, e.end)) = e.end - e.start
      BY <1>2, <1>7, SubSeqParts
    <3>. QED BY <1>4, <3>1, <3>2
  <2>4. hist' = Finalized(Reserved(hist, states.token, Token(group, s), bytes),
                          extended, bytes, states.next, s)
    BY <1>8, <1>11
  <2>5. HistSound' /\ NewUndoable
    BY <1>3, <1>6, <1>7, <2>1, <2>2, <2>3, <2>4, SourceAccepted
  <2>. QED BY <2>1, <2>5 DEF SessionInv
<1>12. CASE /\ hist' = RolledBack(q, extended, bytes)
            /\ UNCHANGED <<sess, doc, states, terms, txns, conts, anchors, caller, commits, seen>>
  <2>1. hist' = RolledBack(Reserved(hist, states.token, Token(group, s), bytes), extended, bytes)
    BY <1>8, <1>12
  <2>2. HistSound' /\ DOMAIN hist'.tokens = DOMAIN hist.tokens
    BY <1>6, <1>10, <1>12, <2>1, HistGivesBack
  <2>3. SessionInv'
    BY <1>7, <1>12, <2>2, UnappliedKeeps
  <2>. QED BY <1>12, <2>3
<1>. QED BY <1>9, <1>11, <1>12

\* The transaction of a staged request is committed, or refused when it was ready.
LEMMA StagedTransactionKeeps ==
  ASSUME SessionInv, use' = use, NEW r, Asked(r), NEW lost, NEW sel \in DOMAIN anchors,
         StagedTransaction(r, sel, lost)
  PROVE  SessionInv' /\ (commits' # commits => NewUndoable)
<1>. USE InvParts
<1>1. PICK h \in DOMAIN txns : h = r.txn
  BY DEF StagedTransaction, StagedReady
<1>2. PICK w : w = txns[h]
  OBVIOUS
<1>3. /\ Admitted(r) /\ w.base = doc.rev
  BY <1>1, <1>2 DEF StagedTransaction, StagedReady
<1>4. TransactionSound(w, doc.rev, doc.text) /\ h \in Nat
  BY <1>2 DEF TxnsSound, Handles
<1>5. PICK n \in Nat : n = 3
  OBVIOUS
<1>6. PICK x : x = Bound(w, n, r)
  OBVIOUS
<1>7. r.id \in Nat
  <2>1. r.id \in Ids /\ Ids \subseteq Nat \ {0}
    BY UseParts DEF Asked, Request
  <2>. QED BY <2>1
<1>8. PICK worked : worked = Worked(w, n)
  OBVIOUS
<1>9. x.edit = w.edit /\ x.capturing = w.capturing /\ x.inverse = worked.inverse
  BY <1>3, <1>4, <1>6, <1>7, <1>8, BoundSound
<1>10. PICK e \in Edit : e = w.edit /\ e.end <= Len(doc.text)
  BY <1>3, <1>4, WorkedSound
<1>11. PICK s : s = [start |-> e.start, end |-> e.start + e.len, text |-> x.inverse]
  OBVIOUS
<1>12. PICK l : l = Linked(hist, states.token, Token(0, s))
  OBVIOUS
<1>13. \/ /\ x.capturing /\ Fits(hist, Cost(x.inverse))
          /\ Committed(e.start, e.end, New(e), sess.txns \ {h})
          /\ hist' = l /\ txns' = Without(txns, h)
          /\ anchors' = Selected(e.start, e.end, New(e), sel)
          /\ Settled(r, doc.rev + 1) /\ Counted(r) /\ AnsweredWith(r, lost, doc.rev + 1)
       \/ /\ x.capturing
          /\ hist' = Detach(l, states.token) /\ txns' = [txns EXCEPT ![h] = x]
          /\ caller' = [caller EXCEPT !.sent = @ \cup {r}]
          /\ UNCHANGED <<sess, doc, states, terms, conts, anchors, commits, seen>>
       \/ /\ hist' = hist /\ txns' = [txns EXCEPT ![h] = x]
          /\ caller' = [caller EXCEPT !.sent = @ \cup {r}]
          /\ UNCHANGED <<sess, doc, states, terms, conts, anchors, commits, seen>>
  <2>1. x = [Worked(txns[r.txn], 3) EXCEPT !.request = r.id]
    BY <1>1, <1>2, <1>5, <1>6 DEF Bound
  <2>2. x.edit = e
    BY <1>9, <1>10
  <2>. QED BY <1>1, <1>11, <1>12, <2>1, <2>2 DEF StagedTransaction
<1>14. x.capturing => s = InverseOf(e.start, e.end, New(e))
  BY <1>3, <1>4, <1>5, <1>8, <1>9, <1>10, <1>11, WorkedInverse
<1>15. sess.owner \in use.owners /\ DOMAIN txns \subseteq sess.txns /\ sess.txns \in SUBSET Handles
  BY <1>3, OwnerKnown DEF Admitted, Live
<1>16. CASE /\ x.capturing /\ Fits(hist, Cost(x.inverse))
            /\ Committed(e.start, e.end, New(e), sess.txns \ {h})
            /\ hist' = l /\ txns' = Without(txns, h)
            /\ anchors' = Selected(e.start, e.end, New(e), sel)
            /\ Settled(r, doc.rev + 1) /\ Counted(r) /\ AnsweredWith(r, lost, doc.rev + 1)
  <2>1. PICK handles \in SUBSET Handles : handles = sess.txns \ {h}
    BY <1>15
  <2>2. DOMAIN txns' \subseteq handles
    <3>1. DOMAIN txns' = DOMAIN txns \ {h}
      BY <1>16, WithoutParts
    <3>. QED BY <1>15, <2>1, <3>1
  <2>3. Committed(e.start, e.end, New(e), handles)
    BY <1>16, <2>1
  <2>4. /\ ReceiptInv' /\ caller'.known > 0
        /\ SourceSound' /\ SessSound' /\ TxnsSound' /\ ViewsSound'
        /\ sess'.owner = sess.owner /\ sess.owner \in use.owners
        /\ Undoable(s)
    BY <1>3, <1>4, <1>10, <1>14, <1>16, <2>2, <2>3, AnsweredEdit
  <2>5. Fits(hist, Cost(s.text)) /\ hist' = Linked(hist, states.token, Token(0, s))
    BY <1>11, <1>12, <1>16
  <2>6. /\ HistSound' /\ DOMAIN hist'.tokens = DOMAIN hist.tokens \cup {states.token}
        /\ hist'.tokens[states.token].applies = states.next
    BY <2>4, <2>5, HistLinks
  <2>7. states'.now = states.next
    BY <1>16 DEF Committed, SourceSound
  <2>. QED BY <2>4, <2>6, <2>7 DEF SessionInv, NewUndoable
<1>17. CASE /\ hist' \in {hist, Detach(l, states.token)} /\ (hist' # hist => x.capturing)
            /\ txns' = [txns EXCEPT ![h] = x]
            /\ caller' = [caller EXCEPT !.sent = @ \cup {r}]
            /\ UNCHANGED <<sess, doc, states, terms, conts, anchors, commits, seen>>
  <2>1. CASE hist' = hist
    <3>1. HistSound'
      BY <1>17, <2>1, HistKept
    <3>. QED BY <1>1, <1>2, <1>3, <1>6, <1>17, <2>1, <3>1, BoundKeeps
  <2>2. CASE hist' = Detach(l, states.token) /\ x.capturing
    <3>1. PICK y : y = Token(0, s)
      OBVIOUS
    <3>2. s \in Putting(SourceBytes)
      <4>1. s.text = Bytes(doc.text, e.start, e.end) /\ Len(New(e)) = e.len
        BY <1>14, <2>2, NewIs DEF InverseOf
      <4>2. e.start \in Nat /\ e.end \in Nat /\ e.start <= e.end /\ e.len \in 0 .. 1
        BY EditParts
      <4>3. Bytes(doc.text, e.start, e.end) \in Seq(SourceBytes)
        BY <1>10, <4>2, SubSeqParts
      <4>4. e.start + e.len \in Nat
        BY <4>2
      <4>. QED BY <1>11, <4>1, <4>2, <4>3, <4>4 DEF Putting
    <3>3. TokenParts(y, SourceBytes, use.owners)
      <4>1. y = [applies |-> states.next, target |-> states.now, group |-> 0,
                 splices |-> <<s>>, retained |-> Cost(s.text), owner |-> sess.owner]
        BY <3>1 DEF Token
      <4>2. states.next \in Nat /\ states.now \in Nat
        BY DEF SourceSound
      <4>3. <<s>> \in Seq(Putting(SourceBytes)) /\ Len(s.text) \in Nat
        BY <3>2, HeldOne
      <4>4. Cost(s.text) \in Nat
        BY <4>3, HistoryAssumption DEF Cost
      <4>. QED BY <1>15, <4>1, <4>2, <4>3, <4>4 DEF TokenParts
    <3>4. states.token \in Nat \ {0}
      BY DEF SourceSound
    <3>5. hist' = Detach(Linked(hist, states.token, y), states.token)
      BY <1>12, <2>2, <3>1
    <3>6. HistSound' /\ DOMAIN hist'.tokens = DOMAIN hist.tokens
      BY <1>17, <3>3, <3>4, <3>5, HistUnlinks
    <3>. QED BY <1>1, <1>2, <1>3, <1>6, <1>17, <3>6, BoundKeeps
  <2>. QED BY <1>17, <2>1, <2>2
<1>. QED BY <1>13, <1>16, <1>17

-----------------------------------------------------------------------------
(* Undo and redo.                                                          *)

\* The history when a token was replaced by the token of the way back.
LEMMA HistReplays ==
  ASSUME HistSound, use' = use, NEW t \in DOMAIN hist.tokens, sess'.owner = sess.owner,
         states'.token = states.token + 1, states.token \in Nat \ {0}, seen' = seen,
         NEW y, TokenParts(y, SourceBytes, use.owners), TokenSound(y, seen, sess.owner),
         y.retained = HeldBytes(y.splices),
         hist' = Retain(Detach(hist, t), states.token, y)
  PROVE  HistSound'
<1>1. PICK h : h = hist
  OBVIOUS
<1>2. PICK k \in Nat \ {0}, m \in Nat : k = states.token /\ m = states'.token /\ m = k + 1
  OBVIOUS
<1>3. PICK texts : texts = seen
  OBVIOUS
<1>4. PICK owner : owner = sess.owner
  OBVIOUS
<1>5. PICK u : u \in DOMAIN h.tokens /\ u = t
  BY <1>1
<1>6. PICK d : d = Detach(h, u)
  OBVIOUS
<1>7. /\ HistorySound(h, k, texts, owner) /\ Chain(h, SourceBytes, use.owners) /\ h.used <= h.budget
  BY <1>1, <1>2, <1>3, <1>4, HandlesBehind
<1>8. DetachedFrom(d, h, u, SourceBytes, use.owners)
  BY <1>5, <1>6, <1>7, DetachKeeps
<1>9. Kept(d, h, SourceBytes, use.owners)
  <2>1. /\ Chain(d, SourceBytes, use.owners) /\ DOMAIN d.tokens = DOMAIN h.tokens \ {u}
        /\ SameTokens(d, h, DOMAIN h.tokens \ {u}) /\ d.budget = h.budget
        /\ d.used = h.used - h.tokens[u].retained
        /\ d.used \in Nat /\ h.used \in Nat /\ h.tokens[u].retained \in Nat
    BY <1>8 DEF DetachedFrom
  <2>2. h.budget \in Nat
    BY <1>7, CountsTokens
  <2>3. d.used <= d.budget
    BY <1>7, <2>1, <2>2
  <2>. QED BY <2>1, <2>3 DEF Kept, Cut
<1>10. HistorySound(d, k, texts, owner)
  BY <1>7, <1>9, KeptSound
<1>11. /\ Chain(d, SourceBytes, use.owners) /\ d.used <= d.budget /\ \A v \in DOMAIN d.tokens : v < k
  BY <1>10 DEF HistorySound
<1>12. PICK g : g = Retain(d, k, y)
  OBVIOUS
<1>13. Gained(g, d, k, y, SourceBytes, use.owners)
  BY <1>11, <1>12, RetainKeeps
<1>14. Extends(texts, texts)
  BY DEF Extends
<1>15. TokenSound(y, texts, owner)
  BY <1>3, <1>4
<1>16. HistorySound(g, k + 1, texts, owner)
  BY <1>10, <1>13, <1>14, <1>15, GainedSound
<1>17. hist' = g
  BY <1>1, <1>2, <1>5, <1>6, <1>12
<1>18. HistorySound(hist', states'.token, seen', sess'.owner)
  BY <1>2, <1>3, <1>4, <1>16, <1>17
<1>. QED BY <1>18, HistLater

LEMMA HistoryReplayKeeps ==
  ASSUME SessionInv, use' = use, NEW t \in DOMAIN hist.tokens, NEW lost, HistoryReplay(t, lost)
  PROVE  SessionInv'
<1>. USE InvParts
<1>1. PICK x : x = hist.tokens[t]
  OBVIOUS
<1>2. PICK from : from = doc.text
  OBVIOUS
<1>3. PICK s : s = Replayed(from, x)
  OBVIOUS
<1>4. PICK back : back = InverseOf(s.start, s.end, s.text)
  OBVIOUS
<1>5. PICK y : y = [applies |-> x.target, target |-> x.applies, group |-> 0,
                    splices |-> <<back>>, retained |-> Cost(back.text), owner |-> sess.owner]
  OBVIOUS
<1>6. /\ sess.phase = "open" /\ caller.known = doc.rev
      /\ x.applies = states.now /\ s.start <= s.end /\ s.end <= Len(doc.text)
      /\ terms' = AckOrdered(doc.rev)
      /\ Edited(s.start, s.end, s.text)
      /\ states' = [states EXCEPT !.now = x.target, !.token = @ + 1]
      /\ sess' = [sess EXCEPT !.progress = 0]
      /\ conts' = <<>>
      /\ anchors' = Moved(s.start, s.end, s.text)
      /\ hist' = Retain(Detach(hist, t), states.token, y)
      /\ Learns(lost, doc.rev + 1) /\ UNCHANGED <<txns, commits, seen>>
  BY <1>1, <1>2, <1>3, <1>4, <1>5 DEF HistoryReplay, Replayable, Live, InverseOf
<1>7. /\ TokenSound(x, seen, sess.owner)
      /\ x.splices \in Seq(Putting(SourceBytes)) /\ Len(x.splices) \in Nat \ {0}
  <2>1. TokenSound(x, seen, sess.owner) /\ Chain(hist, SourceBytes, use.owners)
    BY <1>1 DEF HistSound, HistorySound
  <2>2. x \in TokenOf(SourceBytes, use.owners)
    BY <1>1, <2>1 DEF Chain, TypedHistory
  <2>3. Len(x.splices) \in 1 .. MaxSteps /\ MaxSteps \in Nat
    BY <2>1, HistoryAssumption DEF TokenSound
  <2>. QED BY <2>1, <2>2, <2>3 DEF TokenOf
<1>8. PICK to : to = seen[x.target]
  OBVIOUS
<1>9. /\ x.target \in DOMAIN seen /\ x.applies \in DOMAIN seen
      /\ Leads(from, x.splices, to, SourceBytes)
  <2>1. doc.text = seen[states.now]
    BY DEF SourceSound
  <2>. QED BY <1>2, <1>6, <1>7, <1>8, <2>1 DEF TokenSound
<1>10. /\ s \in Putting(SourceBytes) /\ s.end <= Len(from)
       /\ to \in Seq(SourceBytes)
       /\ Spliced(from, s.start, s.end, s.text) = to
  <2>1. PICK B : B = SourceBytes
    OBVIOUS
  <2>2. Replaying(from, x, to, s, B)
    BY <1>3, <1>6, <1>7, <1>9, <2>1 DEF Replaying
  <2>3. ReplaysTo(from, to, s, B)
    BY <2>2, ReplayedLeads
  <2>. QED BY <2>1, <2>3 DEF ReplaysTo
<1>11. s.start \in Nat /\ s.end \in Nat /\ s.text \in Seq(SourceBytes)
  BY <1>10 DEF Putting
<1>12. PICK a \in Nat, b \in Nat, new \in Seq(SourceBytes) : a = s.start /\ b = s.end /\ new = s.text
  BY <1>11
<1>13. a <= b /\ b <= Len(doc.text) /\ Edited(a, b, new) /\ back = InverseOf(a, b, new)
  BY <1>4, <1>6, <1>12
<1>14. Accepted(a, b, new, back)
  BY <1>13, EditedAccepts
<1>15. /\ DocTyped' /\ doc'.rev = doc.rev + 1
       /\ doc'.text = to
       /\ Len(doc'.text) = a + Len(new) + (Len(doc.text) - b)
       /\ back \in Putting(SourceBytes)
       /\ back.start <= back.end /\ back.end <= Len(to)
       /\ Spliced(to, back.start, back.end, back.text) = from
  BY <1>2, <1>10, <1>12, <1>14 DEF Accepted
<1>16. SourceSound'
  <2>1. MaxRev' = MaxRev /\ MaxBytes' = MaxBytes /\ SourceBytes' = SourceBytes
    BY DEF MaxRev, MaxBytes, SourceBytes
  <2>2. /\ states \in [now : Nat, next : Nat, token : Nat \ {0}]
        /\ seen \in [1 .. states.next - 1 -> Seq(SourceBytes)]
    BY DEF SourceSound
  <2>3. x.target \in 1 .. states.next - 1 /\ x.target \in Nat
    BY <1>9, <2>2
  <2>4. /\ states'.now = x.target /\ states'.next = states.next
        /\ states' \in [now : Nat, next : Nat, token : Nat \ {0}]
    <3>1. PICK st \in [now : Nat, next : Nat, token : Nat \ {0}] : st = states
      BY <2>2
    <3>2. PICK n \in Nat : n = x.target
      BY <2>3
    <3>3. states' = [st EXCEPT !.now = n, !.token = st.token + 1]
      BY <1>6, <3>1, <3>2
    <3>4. states' = [now |-> n, next |-> st.next, token |-> st.token + 1]
      BY <3>3
    <3>. QED BY <3>1, <3>2, <3>4
  <2>5. seen' \in [1 .. states'.next - 1 -> Seq(SourceBytes)'] /\ doc'.text = seen'[states'.now]
    BY <1>6, <1>8, <1>15, <2>1, <2>2, <2>4
  <2>6. /\ doc' \in [rev : 1 .. MaxRev, text : Seq(SourceBytes), ready : BOOLEAN, drain : {0, 1}]'
        /\ (Len(doc.text) <= MaxBytes)'
    BY <1>15 DEF DocTyped
  <2>7. \A k \in DOMAIN seen' : Genuine(seen'[k], Clock')
    <3>1. PICK k2 \in Nat : k2 = Clock
      BY SourceParts
    <3>2. Clock' = k2 + 1
      <4>1. doc'.rev = doc.rev + 1
        BY <1>15
      <4>. QED BY <3>1, <4>1, ClockTicks
    <3>3. ASSUME NEW k \in DOMAIN seen PROVE Genuine(seen[k], k2 + 1)
      <4>1. Genuine(seen[k], k2) /\ seen[k] \in Seq(SourceBytes) /\ doc.rev \in 1 .. MaxRev
        BY <3>1, SourceParts
      <4>. QED BY <4>1, GenuineLater
    <3>. QED BY <1>6, <3>2, <3>3
  <2>. QED BY <2>3, <2>4, <2>5, <2>6, <2>7 DEF SourceSound
<1>17. sess'.owner = sess.owner /\ SessSound'
  <2>1. 0 \in 0 .. use.pumps + 1
    BY ZeroPumps
  <2>2. PICK handles \in SUBSET Handles : handles = sess.txns
    BY OwnerKnown
  <2>3. DOMAIN txns' \subseteq handles
    BY <1>6, <2>2, OwnerKnown
  <2>4. sess' = [sess EXCEPT !.progress = 0, !.txns = handles]
    BY <1>6, <2>2 DEF SessSound
  <2>. QED BY <1>6, <2>1, <2>3, <2>4, SessOpen, Zenon
<1>18. TxnsSound'
  BY <1>6, <1>15, TxnsStay
<1>19. ViewsSound'
  <2>1. anchors' = Moved(a, b, new)
    BY <1>6, <1>12
  <2>. QED BY <1>6, <1>13, <1>15, <2>1, ViewsMove
<1>20. HistSound'
  <2>1. /\ y.applies = x.target /\ y.target = states.now /\ y.group = 0 /\ y.splices = <<back>>
        /\ y.retained = Cost(back.text) /\ y.owner = sess.owner
    BY <1>5, <1>6
  <2>2. /\ <<back>> \in Seq(Putting(SourceBytes)) /\ Len(<<back>>) = 1
        /\ HeldBytes(<<back>>) = TokenOverhead + Len(back.text) /\ Len(back.text) \in Nat
    BY <1>15, HeldOne
  <2>3. x.target \in Nat /\ states.now \in Nat /\ states.now \in DOMAIN seen
        /\ seen[states.now] = from /\ states.token \in Nat \ {0}
    BY <1>2, <1>6, <1>9 DEF SourceSound
  <2>4. Cost(back.text) = TokenOverhead + Len(back.text) /\ Cost(back.text) \in Nat
    BY <2>2, HistoryAssumption DEF Cost
  <2>5. TokenParts(y, SourceBytes, use.owners)
    BY <2>1, <2>2, <2>3, <2>4, OwnerKnown DEF TokenParts
  <2>6. Leads(to, <<back>>, from, SourceBytes)
    BY <1>10, <1>15, LeadsOne
  <2>7. TokenSound(y, seen, sess.owner)
    <3>1. 1 \in 1 .. MaxSteps
      BY HistoryAssumption
    <3>2. ASSUME use.groups = {0} PROVE Alone(y, seen)
      <4>1. Len(x.splices) = 1 /\ Apart(from, x.splices[1])
        BY <1>2, <1>6, <1>7, <3>2 DEF TokenSound, Alone, SourceSound
      <4>2. Apart(from, s)
        BY <1>3, <4>1 DEF Replayed
      <4>3. PICK B : B = SourceBytes
        OBVIOUS
      <4>4. /\ from \in Seq(B) /\ new \in Seq(B) /\ to = Spliced(from, a, b, new)
            /\ a <= b /\ b <= Len(from) /\ s.start = a /\ s.end = b /\ s.text = new
            /\ back.start = a /\ back.end = a + Len(new) /\ back.text = Bytes(from, a, b)
        BY <1>2, <1>10, <1>12, <1>13, <1>14, <4>3, SourceParts DEF Accepted
      <4>5. Apart(to, back)
        BY <4>2, <4>4, ApartBack
      <4>. QED BY <1>8, <2>1, <2>2, <4>5 DEF Alone
    <3>. QED BY <1>8, <1>9, <2>1, <2>2, <2>3, <2>6, <3>1, <3>2 DEF TokenSound
  <2>8. y.retained = HeldBytes(y.splices)
    BY <2>1, <2>2, <2>4
  <2>9. states'.token = states.token + 1
    BY <1>6 DEF SourceSound
  <2>. QED BY <1>6, <1>17, <2>3, <2>5, <2>7, <2>8, <2>9, HistReplays
<1>21. ReceiptInv'
  <2>1. DocShaped'
    <3>1. doc' \in [rev : (1 .. MaxRev)', text : Seq(SourceBytes)', ready : BOOLEAN, drain : {0, 1}]
      BY <1>15 DEF DocTyped
    <3>2. (1 .. MaxRev)' \subseteq Nat
      BY UseParts DEF MaxRev
    <3>3. doc' \in [rev : Nat, text : {doc'.text}, ready : BOOLEAN, drain : {0, 1}]
      BY <3>1, <3>2
    <3>. QED BY <3>3 DEF DocShaped
  <2>. QED BY <1>6, <1>15, <2>1, OrderedKeeps
<1>22. caller'.known > 0
  <2>1. doc.rev + 1 \in Nat \ {0}
    OBVIOUS
  <2>. QED BY <1>6, <2>1, KnownLearns
<1>. QED BY <1>16, <1>17, <1>18, <1>19, <1>20, <1>21, <1>22 DEF SessionInv

-----------------------------------------------------------------------------
(* The invariant.                                                          *)

LEMMA NoHistorySound ==
  ASSUME use \in Uses, NEW texts, NEW owner, NEW next, NEW h, h = NoHistory(use.budget)
  PROVE  HistorySound(h, next, texts, owner) /\ DOMAIN h.tokens = {}
<1>1. /\ h.tokens = <<>> /\ h.head = 0 /\ h.tail = 0 /\ h.used = 0 /\ h.count = 0
      /\ h.evicted = {} /\ h.budget = use.budget
      /\ h = [tokens |-> h.tokens, head |-> h.head, tail |-> h.tail, used |-> h.used,
              count |-> h.count, evicted |-> h.evicted, budget |-> h.budget]
  BY DEF NoHistory
<1>2. DOMAIN h.tokens = {} /\ use.budget \in Nat
  BY <1>1, UseParts
<1>3. IsFiniteSet({}) /\ Cardinality({}) = 0
  BY FS_EmptySet
<1>4. TypedHistory(h, SourceBytes, use.owners)
  <2>1. h \in [tokens : {h.tokens}, head : Nat, tail : Nat, used : Nat, count : Nat,
               evicted : SUBSET Nat, budget : Nat]
    BY <1>1, <1>2
  <2>2. h.tokens \in [DOMAIN h.tokens -> TokenOf(SourceBytes, use.owners)]
    BY <1>1, <1>2
  <2>. QED BY <1>1, <1>2, <1>3, <2>1, <2>2 DEF TypedHistory
<1>5. Ordered(h)
  BY <1>1, <1>2 DEF Ordered, IsFirst, IsLast
<1>6. Charged(h)
  BY <1>1, <1>2, <1>3, WeightEmpty DEF Charged
<1>. QED BY <1>1, <1>2, <1>4, <1>5, <1>6 DEF Chain, Paid, HistorySound

LEMMA InitSound == Init => SessionInv
<1>. SUFFICES ASSUME Init
              PROVE  SessionInv
  OBVIOUS
<1>1. use \in Uses
  BY DEF Init
<1>2. /\ Ids \subseteq Nat \ {0} /\ use.open \in Nat /\ MaxRev \in Nat /\ MaxRev > 0
      /\ use.open <= MaxBytes /\ use.pumps \in Nat
  BY <1>1, UseParts
<1>3. Opened \in Seq(SourceBytes) /\ Len(Opened) = use.open
  <2>1. Opened \in [1 .. use.open -> SourceBytes]
    BY <1>2 DEF Opened, SourceBytes
  <2>2. Opened \in Seq(SourceBytes)
    BY <1>2, <2>1, SeqDef
  <2>3. DOMAIN Opened = 1 .. use.open
    BY <2>1
  <2>. QED BY <1>2, <2>2, <2>3, LenProperties
<1>4. doc = [rev |-> 1, text |-> Opened, ready |-> FALSE, drain |-> 1]
  BY DEF Init
<1>5. DocShaped
  BY <1>4 DEF DocShaped
<1>6. caller.known = 1 /\ CallerSound
  BY <1>4 DEF Init, CallerSound
<1>7. TermsSound
  BY <1>4 DEF Init, TermsSound, None, Kinds
<1>8. CommitsSound
  BY DEF Init, CommitsSound
<1>9. ReceiptInv /\ caller.known > 0
  BY <1>1, <1>5, <1>6, <1>7, <1>8 DEF ReceiptInv
<1>10. SourceSound
  <2>1. states = [now |-> 1, next |-> 2, token |-> 1] /\ seen = [s \in {1} |-> Opened]
    BY DEF Init
  <2>2. 1 .. states.next - 1 = {1}
    BY <2>1
  <2>3. doc \in [rev : 1 .. MaxRev, text : Seq(SourceBytes), ready : BOOLEAN, drain : {0, 1}]
    BY <1>2, <1>3, <1>4
  <2>4. seen \in [1 .. states.next - 1 -> Seq(SourceBytes)]
    BY <1>3, <2>1, <2>2
  <2>5. Genuine(Opened, use.open + 1)
    <3>1. PICK n \in Nat : n = use.open
      BY <1>2
    <3>2. \A i \in 1 .. n : Opened[i] = i
      BY <3>1 DEF Opened
    <3>. HIDE DEF Opened
    <3>. QED BY <1>3, <3>1, <3>2 DEF Genuine, Distinct, Older
  <2>6. \A k \in DOMAIN seen : Genuine(seen[k], Clock)
    BY <1>4, <2>1, <2>5 DEF Clock
  <2>. QED BY <1>2, <1>3, <1>4, <2>1, <2>2, <2>3, <2>4, <2>6 DEF SourceSound
<1>11. hist = NoHistory(use.budget) /\ txns = <<>> /\ conts = <<>> /\ anchors = <<>>
  BY DEF Init
<1>12. DOMAIN txns = {} /\ DOMAIN conts = {} /\ DOMAIN anchors = {}
  BY <1>11
<1>13. HistSound /\ DOMAIN hist.tokens = {}
  <2>1. PICK h : h = hist
    OBVIOUS
  <2>2. PICK texts, owner, next : texts = seen /\ owner = sess.owner /\ next = states.token
    OBVIOUS
  <2>3. HistorySound(h, next, texts, owner) /\ DOMAIN h.tokens = {}
    BY <1>1, <1>11, <2>1, NoHistorySound
  <2>. QED BY <2>1, <2>2, <2>3 DEF HistSound
<1>14. TxnsSound
  BY <1>11, <1>12 DEF TxnsSound
<1>15. ViewsSound
  BY <1>12 DEF ViewsSound
<1>16. SessSound
  <2>1. PICK o \in use.owners :
          sess = [phase |-> "creating", owner |-> o, progress |-> 0,
                  closing |-> FALSE, closed |-> FALSE, txns |-> {}]
    BY DEF Init
  <2>2. 0 \in 0 .. use.pumps + 1
    BY <1>1, ZeroPumps
  <2>. QED BY <1>12, <1>13, <2>1, <2>2 DEF SessSound
<1>. QED BY <1>9, <1>10, <1>13, <1>14, <1>15, <1>16 DEF SessionInv

\* Every call keeps the invariant, and an edit that must be undoable is.
LEMMA CallKeeps ==
  ASSUME SessionInv, Next
  PROVE  SessionInv' /\ (commits' # commits => NewUndoable)
<1>. USE InvParts
<1>1. use' = use
  BY DEF Next
<1>2. Edits \subseteq Edit /\ AnyEdit \in Edit
  BY EditsAre
<1>3. 0 \in use.groups /\ DOMAIN txns \subseteq Nat
  BY UseParts DEF TxnsSound, Handles
<1>13. {0} \in SUBSET Nat
  <2>1. 0 \in Nat
    OBVIOUS
  <2>. QED BY ONLY <2>1
<1>4. CASE Source
  <2>1. PICK r \in Requests("source", Edits, use.groups, {0}), lost \in Losses :
          Recall(r, lost) \/ \E sel \in DOMAIN anchors : SourceTransaction(r, sel, lost)
    BY <1>4 DEF Source
  <2>2. Asked(r)
    <3>1. PICK es \in SUBSET Edit : es = Edits
      BY <1>2
    <3>2. PICK gs \in SUBSET use.groups : gs = use.groups
      OBVIOUS
    <3>3. PICK hs \in SUBSET Nat : hs = {0}
      BY <1>13
    <3>4. r \in Requests("source", es, gs, hs)
      BY <3>1, <3>2, <3>3
    <3>. QED BY <3>4, AskedRequests
  <2>3. CASE Recall(r, lost)
    <3>1. SessionInv' /\ commits' = commits
      BY <1>1, <2>2, <2>3, RecallSessionKeeps DEF Recall
    <3>. QED BY <3>1
  <2>4. CASE \E sel \in DOMAIN anchors : SourceTransaction(r, sel, lost)
    BY <1>1, <2>2, <2>4, SourceTransactionKeeps
  <2>. QED BY <2>1, <2>3, <2>4
<1>5. CASE Intent
  <2>1. PICK r \in Requests("intent", {AnyEdit}, {0}, {0}), lost \in Losses :
          \/ Recall(r, lost)
          \/ \E e \in Edits : IntentApplied(r, e, lost)
          \/ \E composing, refused \in BOOLEAN : IntentUnapplied(r, composing, refused, lost)
    BY <1>5 DEF Intent
  <2>2. Asked(r)
    <3>1. PICK es \in SUBSET Edit : es = {AnyEdit}
      BY <1>2
    <3>2. PICK gs \in SUBSET use.groups : gs = {0}
      BY <1>3
    <3>3. PICK hs \in SUBSET Nat : hs = {0}
      BY <1>13
    <3>4. r \in Requests("intent", es, gs, hs)
      BY <2>1, <3>1, <3>2, <3>3
    <3>. QED BY <3>4, AskedRequests
  <2>3. CASE Recall(r, lost)
    <3>1. SessionInv' /\ commits' = commits
      BY <1>1, <2>2, <2>3, RecallSessionKeeps DEF Recall
    <3>. QED BY <3>1
  <2>4. CASE \E e \in Edits : IntentApplied(r, e, lost)
    BY <1>1, <2>2, <2>4, IntentAppliedKeeps DEF NewUndoable
  <2>5. CASE \E composing, refused \in BOOLEAN : IntentUnapplied(r, composing, refused, lost)
    <3>1. SessionInv' /\ commits' = commits
      BY <1>1, <2>2, <2>5, IntentUnappliedKeeps DEF IntentUnapplied
    <3>. QED BY <3>1
  <2>. QED BY <2>1, <2>3, <2>4, <2>5
<1>6. CASE Staged
  <2>1. PICK r \in Requests("staged", {AnyEdit}, {0}, DOMAIN txns), lost \in Losses :
          \/ Recall(r, lost)
          \/ \E sel \in DOMAIN anchors : StagedTransaction(r, sel, lost)
          \/ \E n \in 1 .. 2 : StagedPauses(r, n)
    BY <1>6 DEF Staged
  <2>2. Asked(r)
    <3>1. PICK es \in SUBSET Edit : es = {AnyEdit}
      BY <1>2
    <3>2. PICK gs \in SUBSET use.groups : gs = {0}
      BY <1>3
    <3>3. PICK hs \in SUBSET Nat : hs = DOMAIN txns
      BY <1>3
    <3>4. r \in Requests("staged", es, gs, hs)
      BY <2>1, <3>1, <3>2, <3>3
    <3>. QED BY <3>4, AskedRequests
  <2>3. CASE Recall(r, lost)
    <3>1. SessionInv' /\ commits' = commits
      BY <1>1, <2>2, <2>3, RecallSessionKeeps DEF Recall
    <3>. QED BY <3>1
  <2>4. CASE \E sel \in DOMAIN anchors : StagedTransaction(r, sel, lost)
    BY <1>1, <2>2, <2>4, StagedTransactionKeeps
  <2>5. CASE \E n \in 1 .. 2 : StagedPauses(r, n)
    <3>1. SessionInv' /\ commits' = commits
      BY <1>1, <2>2, <2>5, StagedPausesKeeps DEF StagedPauses
    <3>. QED BY <3>1
  <2>. QED BY <2>1, <2>3, <2>4, <2>5
<1>7. CASE Bulk
  <2>1. CASE \E h \in Handles, e \in Edits : BulkBegin(h, e)
    <3>1. SessionInv' /\ commits' = commits
      BY <1>1, <2>1, BulkBeginKeeps DEF BulkBegin
    <3>. QED BY <3>1
  <2>2. CASE \E h \in DOMAIN txns :
               BulkAppend(h) \/ BulkAbort(h) \/ BulkLost(h) \/ \E n \in 1 .. 2 : BulkPauses(h, n)
    <3>1. SessionInv'
      BY <1>1, <2>2, BulkWorkKeeps
    <3>2. commits' = commits
      BY <2>2 DEF BulkAppend, BulkAbort, BulkLost, BulkPauses
    <3>. QED BY <3>1, <3>2
  <2>3. CASE \E h \in DOMAIN txns, lost \in Losses : BulkCommit(h, lost)
    <3>1. SessionInv' /\ commits' = commits
      BY <1>1, <2>3, BulkCommitKeeps DEF BulkCommit
    <3>. QED BY <3>1
  <2>. QED BY <1>7, <2>1, <2>2, <2>3 DEF Bulk
<1>8. CASE Literal
  <2>1. CASE \E e \in Edits, lost \in Losses : SmallEdit(e, lost)
    <3>1. SessionInv' /\ commits' = commits
      BY <1>1, <2>1, SmallEditKeeps DEF SmallEdit
    <3>. QED BY <3>1
  <2>2. CASE OrderedRefused
    <3>1. SessionInv' /\ commits' = commits
      BY <1>1, <2>2, OrderedRefusedKeeps DEF OrderedRefused
    <3>. QED BY <3>1
  <2>. QED BY <1>8, <2>1, <2>2 DEF Literal
<1>9. CASE Undo
  <2>1. CASE \E t \in DOMAIN hist.tokens, lost \in Losses : HistoryReplay(t, lost)
    <3>1. SessionInv' /\ commits' = commits
      BY <1>1, <2>1, HistoryReplayKeeps, Zenon DEF HistoryReplay
    <3>. QED BY <3>1
  <2>2. CASE \E t \in DOMAIN hist.tokens : HistoryRelease(t)
    <3>1. SessionInv' /\ commits' = commits
      BY <1>1, <2>2, HistoryReleaseKeeps DEF HistoryRelease
    <3>. QED BY <3>1
  <2>3. CASE \E t \in hist.evicted : EvictedRelease(t)
    <3>1. SessionInv' /\ commits' = commits
      BY <1>1, <2>3, HistoryReleaseKeeps DEF EvictedRelease
    <3>. QED BY <3>1
  <2>. QED BY <1>9, <2>1, <2>2, <2>3 DEF Undo
<1>10. CASE Views
  <2>1. CASE \E h \in Handles, offset \in 0 .. MaxBytes, affinity \in {"up", "down"} :
               AnchorCreate(h, offset, affinity)
    <3>1. SessionInv' /\ commits' = commits
      BY <1>1, <2>1, AnchorCreateKeeps DEF AnchorCreate
    <3>. QED BY <3>1
  <2>2. CASE \E h \in DOMAIN anchors : AnchorRelease(h)
    <3>1. SessionInv' /\ commits' = commits
      BY <1>1, <2>2, AnchorReleaseKeeps DEF AnchorRelease
    <3>. QED BY <3>1
  <2>3. CASE \E h \in Handles : QueryViewport(h)
    <3>1. SessionInv' /\ commits' = commits
      BY <1>1, <2>3, ContinuationKeeps DEF QueryViewport
    <3>. QED BY <3>1
  <2>4. CASE \E h \in DOMAIN conts : ContinuationEnds(h)
    <3>1. SessionInv' /\ commits' = commits
      BY <1>1, <2>4, ContinuationKeeps DEF ContinuationEnds
    <3>. QED BY <3>1
  <2>. QED BY <1>10, <2>1, <2>2, <2>3, <2>4 DEF Views
<1>11. CASE Control
  <2>1. CASE \E done \in BOOLEAN : CreateCommit(done) \/ Pump(done) \/ CreateAbort \/ PumpRefused \/ Cancel
    <3>1. SessionInv'
      BY <1>1, <2>1, ControlKeeps
    <3>2. commits' = commits
      BY <2>1 DEF CreateCommit, Pump, CreateAbort, PumpRefused, Cancel
    <3>. QED BY <3>1, <3>2
  <2>2. CASE \E o \in use.owners : TransferOwner(o)
    <3>1. SessionInv' /\ commits' = commits
      BY <1>1, <2>2, TransferOwnerKeeps DEF TransferOwner
    <3>. QED BY <3>1
  <2>. QED BY <1>11, <2>1, <2>2 DEF Control
<1>12. CASE Closing
  <2>1. SessionInv'
    BY <1>1, <1>12, CloseKeeps DEF Closing
  <2>2. commits' = commits
    BY <1>12 DEF Closing, CloseBegin, ClosePump, CloseFinish
  <2>. QED BY <2>1, <2>2
<1>. QED BY <1>4, <1>5, <1>6, <1>7, <1>8, <1>9, <1>10, <1>11, <1>12 DEF Next, Call

LEMMA StutterKeeps ==
  ASSUME SessionInv, UNCHANGED vars
  PROVE  SessionInv'
<1>. USE InvParts DEF vars
<1>1. doc' \in [rev : {doc.rev}, text : {doc.text}, ready : BOOLEAN, drain : {0, 1}]
  OBVIOUS
<1>2. SessSound'
  BY SessStays
<1>. QED BY <1>1, <1>2, EntryKeeps

LEMMA SessionInvHolds == Spec => []SessionInv
<1>1. SessionInv /\ [Next]_vars => SessionInv'
  BY CallKeeps, StutterKeeps
<1>. QED BY <1>1, InitSound, PTL DEF Spec

-----------------------------------------------------------------------------
(* The sums the model takes.                                               *)

LEMMA RetainedSum ==
  ASSUME NEW tokens, NEW T, IsFiniteSet(T), \A t \in T : tokens[t].retained \in Nat
  PROVE  MapThenSumSet(LAMBDA t : tokens[t].retained, T) = Weight([t \in T |-> tokens[t].retained], T)
<1>1. PICK f : f = [t \in T |-> tokens[t].retained]
  OBVIOUS
<1>2. \A t \in T : f[t] = tokens[t].retained /\ f[t] \in Nat
  BY <1>1
<1>3. PICK g : g = [u \in SUBSET T |-> Weight(f, u)]
  OBVIOUS
<1>4. g = [s \in SUBSET T |-> IF s = {} THEN 0
             ELSE tokens[Some(s)].retained + g[s \ {Some(s)}]]
  <2>1. \A s \in SUBSET T : s # {} => f[Some(s)] = tokens[Some(s)].retained
    <3>1. \A s \in SUBSET T : s # {} => Some(s) \in T
      BY DEF Some
    <3>. QED BY <1>2, <3>1
  <2>2. \A s \in SUBSET T : Weight(f, s) = IF s = {} THEN 0
             ELSE f[Some(s)] + Weight(f, s \ {Some(s)})
    <3>1. \A x \in T : f[x] \in Nat
      BY <1>2
    <3>. QED BY <1>2, <3>1, WeightAdds, Zenon
  <2>3. \A s \in SUBSET T : g[s] = IF s = {} THEN 0
             ELSE tokens[Some(s)].retained + g[s \ {Some(s)}]
    <3>1. \A s \in SUBSET T : g[s] = Weight(f, s) /\ s \ {Some(s)} \in SUBSET T
      BY <1>3
    <3>. QED BY <2>1, <2>2, <3>1
  <2>4. g = [s \in SUBSET T |-> g[s]]
    BY <1>3
  <2>. QED BY <2>3, <2>4, Zenon
<1>5. PICK it : /\ MapThenSumSet(LAMBDA t : tokens[t].retained, T) = it[T]
                /\ it = [s \in SUBSET T |-> IF s = {} THEN 0
                           ELSE tokens[Some(s)].retained + it[s \ {Some(s)}]]
  <2>1. MapThenSumSet(LAMBDA t : tokens[t].retained, T) =
           (CHOOSE it : it = [s \in SUBSET T |-> IF s = {} THEN 0
                         ELSE tokens[Some(s)].retained + it[s \ {Some(s)}]])[T]
    BY Zenon DEF MapThenSumSet, MapThenFoldSet, Some
  <2>2. \E it : it = [s \in SUBSET T |-> IF s = {} THEN 0
                         ELSE tokens[Some(s)].retained + it[s \ {Some(s)}]]
    BY <1>4
  <2>. QED BY <2>1, <2>2, Zenon
<1>6. \A u \in SUBSET T :
        it[u] = IF u = {} THEN 0
                ELSE f[Some(u)] + it[u \ {Some(u)}]
  <2>1. \A s \in SUBSET T :
          it[s] = IF s = {} THEN 0
                  ELSE tokens[Some(s)].retained + it[s \ {Some(s)}]
    BY <1>5, Zenon
  <2>2. \A s \in SUBSET T : s # {} => f[Some(s)] = tokens[Some(s)].retained
    <3>1. \A s \in SUBSET T : s # {} => Some(s) \in T
      BY DEF Some
    <3>. QED BY <1>2, <3>1
  <2>. QED BY <2>1, <2>2
<1>7. it[T] = Weight(f, T)
  BY <1>2, <1>6, WeightIsSum
<1>. QED BY <1>1, <1>5, <1>7

LEMMA LengthsSum ==
  ASSUME NEW B, NEW splices \in Seq(Putting(B))
  PROVE  MapThenSumSet(LAMBDA i : Len(splices[i].text), DOMAIN splices)
           = Weight(Lengths(splices), 1 .. Len(splices))
<1>1. PICK T : T = 1 .. Len(splices)
  OBVIOUS
<1>2. PICK f : f = Lengths(splices)
  OBVIOUS
<1>3. DOMAIN splices = T /\ IsFiniteSet(T) /\ \A i \in T : f[i] = Len(splices[i].text) /\ f[i] \in Nat
  BY <1>1, <1>2, LengthsTyped, LenProperties
<1>4. PICK g : g = [u \in SUBSET T |-> Weight(f, u)]
  OBVIOUS
<1>5. \A s \in SUBSET T : s # {} => f[Some(s)] = Len(splices[Some(s)].text)
  <2>1. \A s \in SUBSET T : s # {} => Some(s) \in T
    BY DEF Some
  <2>. QED BY <1>3, <2>1
<1>6. g = [s \in SUBSET T |-> IF s = {} THEN 0
             ELSE Len(splices[Some(s)].text) + g[s \ {Some(s)}]]
  <2>2. \A s \in SUBSET T : Weight(f, s) = IF s = {} THEN 0
             ELSE f[Some(s)] + Weight(f, s \ {Some(s)})
    <3>1. \A x \in T : f[x] \in Nat
      BY <1>3
    <3>. QED BY <1>3, <3>1, WeightAdds, Zenon
  <2>3. \A s \in SUBSET T : g[s] = IF s = {} THEN 0
             ELSE Len(splices[Some(s)].text) + g[s \ {Some(s)}]
    <3>1. \A s \in SUBSET T : g[s] = Weight(f, s) /\ s \ {Some(s)} \in SUBSET T
      BY <1>4
    <3>. QED BY <1>5, <2>2, <3>1
  <2>4. g = [s \in SUBSET T |-> g[s]]
    BY <1>4
  <2>. QED BY <2>3, <2>4, Zenon
<1>7. PICK it : /\ MapThenSumSet(LAMBDA i : Len(splices[i].text), T) = it[T]
                /\ it = [s \in SUBSET T |-> IF s = {} THEN 0
                           ELSE Len(splices[Some(s)].text)
                                + it[s \ {Some(s)}]]
  <2>1. MapThenSumSet(LAMBDA i : Len(splices[i].text), T) =
           (CHOOSE it : it = [s \in SUBSET T |-> IF s = {} THEN 0
                         ELSE Len(splices[Some(s)].text)
                              + it[s \ {Some(s)}]])[T]
    BY Zenon DEF MapThenSumSet, MapThenFoldSet, Some
  <2>2. \E it : it = [s \in SUBSET T |-> IF s = {} THEN 0
                         ELSE Len(splices[Some(s)].text)
                              + it[s \ {Some(s)}]]
    BY <1>6
  <2>. QED BY <2>1, <2>2, Zenon
<1>8. \A u \in SUBSET T :
        it[u] = IF u = {} THEN 0
                ELSE f[Some(u)] + it[u \ {Some(u)}]
  <2>1. \A s \in SUBSET T :
          it[s] = IF s = {} THEN 0
                  ELSE Len(splices[Some(s)].text) + it[s \ {Some(s)}]
    BY <1>7, Zenon
  <2>. QED BY <1>5, <2>1
<1>9. it[T] = Weight(f, T)
  BY <1>3, <1>8, WeightIsSum
<1>. QED BY <1>1, <1>2, <1>3, <1>7, <1>9, Zenon

-----------------------------------------------------------------------------
(* What the invariant says.                                                *)

LEMMA TypeOKHolds ==
  ASSUME SessionInv
  PROVE  TypeOK
<1>. USE InvParts
<1>1. /\ Ids \subseteq Nat \ {0} /\ use.open \in Nat /\ MaxRev \in Nat /\ MaxBytes \in Nat
  BY UseParts
<1>2. sess \in [phase : {"creating", "open", "gone"}, owner : use.owners,
                progress : 0 .. use.pumps + 1, closing : BOOLEAN,
                closed : BOOLEAN, txns : SUBSET Handles]
  BY DEF SessSound
<1>3. /\ doc.rev \in 1 .. MaxRev /\ doc.ready \in BOOLEAN /\ doc.drain \in {0, 1}
      /\ doc.text \in Seq(1 .. use.open + MaxRev) /\ Len(doc.text) <= MaxBytes
  BY DEF SourceSound, SourceBytes
<1>4. \A t \in DOMAIN hist.tokens :
         /\ Len(hist.tokens[t].splices) \in 1 .. MaxSteps
         /\ \A i \in DOMAIN hist.tokens[t].splices : hist.tokens[t].splices[i] \in Splices
  <2>. SUFFICES ASSUME NEW t \in DOMAIN hist.tokens
                PROVE  /\ Len(hist.tokens[t].splices) \in 1 .. MaxSteps
                       /\ \A i \in DOMAIN hist.tokens[t].splices : hist.tokens[t].splices[i] \in Splices
    OBVIOUS
  <2>1. PICK splices : splices = hist.tokens[t].splices
    OBVIOUS
  <2>2. Len(splices) \in 1 .. MaxSteps
    BY <2>1 DEF HistSound, HistorySound, TokenSound
  <2>3. splices \in Seq(Putting(SourceBytes))
    <3>1. hist.tokens[t] \in TokenOf(SourceBytes, use.owners)
      BY DEF HistSound, HistorySound, Chain, TypedHistory
    <3>. QED BY <2>1, <3>1 DEF TokenOf
  <2>4. \A i \in DOMAIN splices : splices[i] \in Putting(SourceBytes)
    <3>1. DOMAIN splices = 1 .. Len(splices)
      BY <2>3, LenProperties
    <3>. QED BY <2>3, <3>1, ElementOfSeq
  <2>5. Putting(SourceBytes) = Splices
    BY DEF Putting, Splices, SourceBytes
  <2>. QED BY <2>1, <2>2, <2>4, <2>5
<1>5. states.now \in 1 .. states.next - 1 /\ DOMAIN seen = 1 .. states.next - 1
  BY DEF SourceSound
<1>6. \A k \in {"source", "intent"} :
         terms[k].id \in Ids \cup {0} /\ terms[k].result \in 0 .. MaxRev
  <2>1. \A k \in {"source", "intent"} :
          terms[k].id \in Ids \cup {0} /\ terms[k].result \in Nat /\ terms[k].result <= doc.rev
    BY DEF ReceiptInv, TermsSound, Kinds
  <2>. QED BY <1>1, <1>3, <2>1
<1>7. DOMAIN txns \subseteq Handles /\ DOMAIN conts \subseteq Handles
  BY DEF TxnsSound, ViewsSound
<1>8. \A h \in DOMAIN anchors :
         h \in Handles /\ anchors[h].offset \in 0 .. Len(doc.text)
  BY DEF ViewsSound, Position
<1>9. caller.known \in 1 .. doc.rev /\ caller.answered \subseteq Ids
  <2>1. /\ caller.known \in Nat /\ caller.known <= doc.rev /\ caller.known > 0
        /\ caller.answered \subseteq Ids
    BY DEF ReceiptInv, CallerSound
  <2>. QED BY <1>3, <2>1
<1>. QED BY <1>2, <1>3, <1>4, <1>5, <1>6, <1>7, <1>8, <1>9 DEF TypeOK

LEMMA LinksAgree ==
  ASSUME NEW B, NEW O, NEW h, Chain(h, B, O), NEW t \in DOMAIN h.tokens
  PROVE  LET x == h.tokens[t] IN
         /\ (x.previous = 0) <=> (t = h.head)
         /\ (x.next = 0) <=> (t = h.tail)
         /\ x.next # 0 => /\ x.next \in DOMAIN h.tokens /\ x.next > t
                          /\ h.tokens[x.next].previous = t
<1>. DEFINE T == DOMAIN h.tokens
<1>1. /\ T \subseteq Nat \ {0} /\ t \in T /\ t \in Nat
      /\ h.tokens[t].next \in Nat /\ h.tokens[t].previous \in Nat
  <2>1. h.tokens[t] \in TokenOf(B, O) /\ T \subseteq Nat \ {0}
    BY DEF Chain, TypedHistory
  <2>. QED BY <2>1 DEF TokenOf
<1>2. /\ IsFirst(T, h.head) /\ IsLast(T, h.tail)
      /\ \A u \in T : IsNext(T, u, h.tokens[u].next) /\ IsPrevious(T, u, h.tokens[u].previous)
  BY DEF Chain, Ordered
<1>3. PICK head, tail, n, p : head = h.head /\ tail = h.tail
                              /\ n = h.tokens[t].next /\ p = h.tokens[t].previous
  OBVIOUS
<1>4. /\ head \in T /\ tail \in T /\ \A u \in T : head <= u /\ u <= tail
  BY <1>1, <1>2, <1>3 DEF IsFirst, IsLast
<1>5. IsNext(T, t, n) /\ IsPrevious(T, t, p)
  BY <1>2, <1>3
<1>6. \A u \in T : u \in Nat /\ u # 0
  BY <1>1
<1>. HIDE DEF T
<1>7. (p = 0) <=> (t = head)
  <2>1. CASE p = 0
    <3>1. \A u \in T : t <= u
      BY <1>5, <1>6, <2>1 DEF IsPrevious
    <3>. QED BY <1>1, <1>4, <1>6, <2>1, <3>1
  <2>2. CASE p # 0
    <3>1. p \in T /\ p < t
      BY <1>5, <2>2 DEF IsPrevious
    <3>. QED BY <1>4, <1>6, <2>2, <3>1
  <2>. QED BY <2>1, <2>2
<1>8. (n = 0) <=> (t = tail)
  <2>1. CASE n = 0
    <3>1. \A u \in T : u <= t
      BY <1>5, <1>6, <2>1 DEF IsNext
    <3>. QED BY <1>1, <1>4, <1>6, <2>1, <3>1
  <2>2. CASE n # 0
    <3>1. n \in T /\ t < n
      BY <1>5, <2>2 DEF IsNext
    <3>. QED BY <1>1, <1>4, <1>6, <2>2, <3>1
  <2>. QED BY <2>1, <2>2
<1>9. ASSUME n # 0
      PROVE  n \in T /\ n > t /\ h.tokens[n].previous = t
  <2>1. n \in T /\ t < n /\ \A u \in T : u <= t \/ n <= u
    BY <1>5, <1>9 DEF IsNext
  <2>2. PICK q : q = h.tokens[n].previous
    OBVIOUS
  <2>3. IsPrevious(T, n, q)
    BY <1>2, <2>1, <2>2
  <2>4. q \in T /\ q < n /\ \A u \in T : n <= u \/ u <= q
    BY <1>1, <1>6, <2>1, <2>3 DEF IsPrevious
  <2>5. q = t
    BY <1>1, <1>6, <2>1, <2>4
  <2>. QED BY <1>1, <2>1, <2>2, <2>5
<1>. QED BY <1>3, <1>7, <1>8, <1>9 DEF T

SumRetained(tokens) == MapThenSumSet(LAMBDA t : tokens[t].retained, DOMAIN tokens)
SumLengths(splices) == MapThenSumSet(LAMBDA i : Len(splices[i].text), DOMAIN splices)

LEMMA HistoryIsChainHolds ==
  ASSUME SessionInv
  PROVE  HistoryIsChain
<1>. USE InvParts
<1>1. PICK h : h = hist
  OBVIOUS
<1>2. PICK O : O = use.owners
  OBVIOUS
<1>3. PICK B : B = SourceBytes
  OBVIOUS
<1>4. Chain(h, B, O) /\ h.used <= h.budget /\ Paid(h)
  BY <1>1, <1>2, <1>3 DEF HistSound, HistorySound
<1>5. PICK T : T = DOMAIN h.tokens
  OBVIOUS
<1>6. /\ T \subseteq Nat \ {0} /\ IsFiniteSet(T) /\ \A t \in T : h.tokens[t] \in TokenOf(B, O)
      /\ IsFirst(T, h.head) /\ IsLast(T, h.tail)
      /\ h.count = Cardinality(T) /\ h.used = Weight(RetainedBy(h), T)
  BY <1>4, <1>5 DEF Chain, TypedHistory, Ordered, Charged
<1>7. h.used = SumRetained(h.tokens)
  <2>1. PICK tokens : tokens = h.tokens
    OBVIOUS
  <2>2. \A t \in T : tokens[t].retained \in Nat
    BY <1>6, <2>1 DEF TokenOf
  <2>3. MapThenSumSet(LAMBDA t : tokens[t].retained, T) = Weight([t \in T |-> tokens[t].retained], T)
    BY <1>6, <2>2, RetainedSum
  <2>4. RetainedBy(h) = [t \in T |-> tokens[t].retained]
    BY <1>5, <2>1 DEF RetainedBy
  <2>5. T = DOMAIN tokens
    BY <1>5, <2>1
  <2>6. SumRetained(tokens) = MapThenSumSet(LAMBDA t : tokens[t].retained, T)
    BY <2>5, Zenon DEF SumRetained
  <2>7. h.used = SumRetained(tokens)
    BY <1>6, <2>3, <2>4, <2>6
  <2>. QED BY <2>1, <2>7
<1>8. /\ h.head \in T \cup {0} /\ h.tail \in T \cup {0}
      /\ T # {} => h.head # 0 /\ h.tail # 0
  BY <1>6 DEF IsFirst, IsLast
<1>9. \A t \in T :
        h.tokens[t].retained = TokenOverhead + SpliceOverhead * (Len(h.tokens[t].splices) - 1)
                               + SumLengths(h.tokens[t].splices)
  <2>. SUFFICES ASSUME NEW t \in T
                PROVE  h.tokens[t].retained
                         = TokenOverhead + SpliceOverhead * (Len(h.tokens[t].splices) - 1)
                           + SumLengths(h.tokens[t].splices)
    OBVIOUS
  <2>1. PICK splices : splices = h.tokens[t].splices
    OBVIOUS
  <2>2. splices \in Seq(Putting(B))
    BY <1>6, <2>1 DEF TokenOf
  <2>3. SumLengths(splices) = Weight(Lengths(splices), 1 .. Len(splices))
    <3>1. MapThenSumSet(LAMBDA i : Len(splices[i].text), DOMAIN splices)
             = Weight(Lengths(splices), 1 .. Len(splices))
      BY <2>2, LengthsSum, Zenon
    <3>. QED BY <3>1, Zenon DEF SumLengths
  <2>4. h.tokens[t].retained = HeldBytes(splices)
    BY <1>4, <1>5, <2>1 DEF Paid
  <2>5. h.tokens[t].retained = TokenOverhead + SpliceOverhead * (Len(splices) - 1)
                               + SumLengths(splices)
    BY <2>3, <2>4 DEF HeldBytes
  <2>. QED BY <2>1, <2>5
<1>10. \A t \in T :
         LET x == h.tokens[t] IN
         /\ (x.previous = 0) <=> (t = h.head)
         /\ (x.next = 0) <=> (t = h.tail)
         /\ x.next # 0 => /\ x.next \in T /\ x.next > t
                          /\ h.tokens[x.next].previous = t
  <2>. SUFFICES ASSUME NEW t \in T
                PROVE  LET x == h.tokens[t] IN
                       /\ (x.previous = 0) <=> (t = h.head)
                       /\ (x.next = 0) <=> (t = h.tail)
                       /\ x.next # 0 => /\ x.next \in T /\ x.next > t
                                        /\ h.tokens[x.next].previous = t
    OBVIOUS
  <2>1. t \in DOMAIN h.tokens
    BY <1>5
  <2>. QED BY <1>4, <1>5, <2>1, LinksAgree
<1>11. /\ hist.count = Cardinality(DOMAIN hist.tokens) /\ hist.used = SumRetained(hist.tokens)
       /\ hist.used <= hist.budget
       /\ hist.head \in DOMAIN hist.tokens \cup {0} /\ hist.tail \in DOMAIN hist.tokens \cup {0}
       /\ DOMAIN hist.tokens # {} => hist.head # 0 /\ hist.tail # 0
  BY <1>1, <1>4, <1>5, <1>6, <1>7, <1>8
<1>12. \A t \in DOMAIN hist.tokens :
         /\ hist.tokens[t].retained
              = TokenOverhead + SpliceOverhead * (Len(hist.tokens[t].splices) - 1)
                + SumLengths(hist.tokens[t].splices)
         /\ (hist.tokens[t].previous = 0) <=> (t = hist.head)
         /\ (hist.tokens[t].next = 0) <=> (t = hist.tail)
         /\ hist.tokens[t].next # 0 =>
              /\ hist.tokens[t].next \in DOMAIN hist.tokens /\ hist.tokens[t].next > t
              /\ hist.tokens[hist.tokens[t].next].previous = t
  BY <1>1, <1>5, <1>9, <1>10
<1>. QED BY <1>11, <1>12, Zenon DEF HistoryIsChain, SumRetained, SumLengths

-----------------------------------------------------------------------------
(* The anchors over an edit.                                               *)

\* One splice of the source that the anchors follow; without groups it takes other
\* bytes than it brings.
Moving(a, b, new) ==
  /\ a <= b /\ b <= Len(doc.text) /\ new \in Seq(SourceBytes)
  /\ doc'.text = Spliced(doc.text, a, b, new)
  /\ anchors' = Moved(a, b, new)
  /\ use.groups = {0} => Apart(doc.text, [start |-> a, end |-> b, text |-> new])

\* Bytes that are new are apart from those of the source.
LEMMA NewApart ==
  ASSUME use \in Uses, SourceSound, NEW new, IsNew(new),
         NEW a \in Nat, NEW b \in Nat, b <= Len(doc.text)
  PROVE  Apart(doc.text, [start |-> a, end |-> b, text |-> new])
<1>1. PICK k \in Nat : k = Clock
  BY SourceParts
<1>2. PICK text \in Seq(SourceBytes) : text = doc.text
  BY SourceParts
<1>3. Older(text, k) /\ Brought(new, k) /\ b <= Len(text)
  BY <1>1, <1>2, SourceParts DEF IsNew
<1>4. PICK m \in Nat : m = Len(text)
  BY LenProperties
<1>5. PICK s : s = [start |-> a, end |-> b, text |-> new]
  OBVIOUS
<1>6. s.start = a /\ s.end = b /\ s.text = new
  BY <1>5
<1>7. ASSUME NEW i \in a + 1 .. b, NEW j \in 1 .. Len(new) PROVE text[i] # new[j]
  <2>1. i \in 1 .. Len(text)
    BY <1>3, <1>4
  <2>2. text[i] < k /\ new[j] = k
    BY <1>3, <2>1 DEF Older, Brought
  <2>. QED BY <2>2
<1>. QED BY <1>2, <1>5, <1>6, <1>7 DEF Apart

LEMMA MovingKeepsPlace ==
  ASSUME SessionInv, SessionInv', use' = use, use.groups = {0},
         NEW a \in Nat, NEW b \in Nat, NEW new, Moving(a, b, new),
         NEW h \in DOMAIN anchors
  PROVE  Survives(anchors[h].offset, anchors'[h].offset, doc.text, doc'.text)
<1>. USE InvParts
<1>1. /\ a <= b /\ b <= Len(doc.text) /\ new \in Seq(SourceBytes)
      /\ doc'.text = Spliced(doc.text, a, b, new)
      /\ anchors' = Moved(a, b, new)
      /\ Apart(doc.text, [start |-> a, end |-> b, text |-> new])
  BY DEF Moving
<1>2. PICK text \in Seq(SourceBytes) : text = doc.text
  BY SourceParts
<1>3. PICK out : out = doc'.text
  OBVIOUS
<1>4. PICK s : s = [start |-> a, end |-> b, text |-> new]
  OBVIOUS
<1>5. Distinct(text)
  BY <1>2, SourceParts
<1>6. Distinct(out)
  <2>1. SourceSound'
    BY DEF SessionInv
  <2>2. /\ states'.now \in 1 .. states'.next - 1
        /\ seen' \in [1 .. states'.next - 1 -> Seq(SourceBytes')]
        /\ doc'.text = seen'[states'.now]
        /\ \A k \in DOMAIN seen' : Genuine(seen'[k], Clock')
    BY <2>1 DEF SourceSound
  <2>3. Genuine(doc'.text, Clock')
    BY <2>2
  <2>. QED BY <1>3, <2>3 DEF Genuine
<1>7. PICK off, affinity, later :
        off = anchors[h].offset /\ affinity = anchors[h].affinity /\ later = anchors'[h].offset
  OBVIOUS
<1>8. PICK n \in Nat, m \in Nat : n = Len(new) /\ m = Len(text)
  BY <1>1, LenProperties
<1>9. off \in 0 .. m /\ later = MapOffset(off, affinity, a, b - a, n)
  <2>1. anchors[h] \in [offset : 0 .. m, affinity : {"up", "down"}]
    BY <1>2, <1>8 DEF ViewsSound, Position
  <2>2. PICK x : x = anchors[h]
    OBVIOUS
  <2>3. anchors'[h] = [x EXCEPT !.offset = MapOffset(x.offset, x.affinity, a, b - a, Len(new))]
    BY <1>1, <2>2 DEF Moved
  <2>4. anchors'[h].offset = MapOffset(x.offset, x.affinity, a, b - a, Len(new))
    BY <2>1, <2>2, <2>3
  <2>. QED BY <1>7, <1>8, <2>1, <2>2, <2>4
<1>10. IsSplice(out, text, a, b, new)
  <2>1. out = Spliced(text, a, b, new) /\ b <= Len(text) /\ a <= b /\ new \in Seq(SourceBytes)
    BY <1>1, <1>2, <1>3
  <2>. QED BY <2>1, SplicedParts
<1>11. /\ s.start = a /\ s.end = b /\ s.text = new /\ Apart(text, s) /\ a <= b /\ b <= m
  BY <1>1, <1>2, <1>4, <1>8
<1>12. Survives(off, later, text, out)
  BY ONLY <1>5, <1>6, <1>8, <1>9, <1>10, <1>11, a \in Nat, b \in Nat, n \in Nat, m \in Nat, PlaceKept
<1>. QED BY <1>2, <1>3, <1>7, <1>12

\* What moves the source but no logical edit.
LEMMA SmallEditMoves ==
  ASSUME SessionInv, use' = use, NEW e \in Edits, NEW lost, SmallEdit(e, lost)
  PROVE  \E a, b \in Nat, new \in Seq(SourceBytes) : Moving(a, b, new)
<1>. USE InvParts
<1>1. /\ e.end <= Len(doc.text) /\ Edited(e.start, e.end, New(e))
      /\ anchors' = Moved(e.start, e.end, New(e))
  BY DEF SmallEdit, InRange, Committed
<1>2. e \in Edit /\ e.start \in Nat /\ e.end \in Nat /\ e.start <= e.end
  BY EditsAre, EditParts
<1>3. PICK a \in Nat, b \in Nat : a = e.start /\ b = e.end
  BY <1>2
<1>4. PICK new \in Seq(SourceBytes) : new = New(e) /\ IsNew(new)
  BY <1>2, NewIs
<1>5. a <= b /\ b <= Len(doc.text) /\ Edited(a, b, new) /\ anchors' = Moved(a, b, new)
  BY <1>1, <1>2, <1>3, <1>4
<1>6. Apart(doc.text, [start |-> a, end |-> b, text |-> new])
  BY <1>4, <1>5, NewApart
<1>7. doc'.text = Spliced(doc.text, a, b, new)
  BY <1>5, EditedAccepts DEF Accepted
<1>. QED BY <1>5, <1>6, <1>7 DEF Moving

LEMMA BulkCommitMoves ==
  ASSUME SessionInv, use' = use, NEW h \in DOMAIN txns, NEW lost, BulkCommit(h, lost)
  PROVE  \E a, b \in Nat, new \in Seq(SourceBytes) : Moving(a, b, new)
<1>. USE InvParts
<1>1. PICK x : x = txns[h]
  OBVIOUS
<1>2. TransactionSound(x, doc.rev, doc.text)
  BY <1>1 DEF TxnsSound
<1>3. PICK n \in Nat : n = 3
  OBVIOUS
<1>4. PICK w : w = Worked(x, 3)
  OBVIOUS
<1>5. /\ x.base = doc.rev /\ Edited(w.edit.start, w.edit.end, New(w.edit))
      /\ anchors' = Moved(w.edit.start, w.edit.end, New(w.edit))
  BY <1>1, <1>4 DEF BulkCommit, BulkReady, Committed
<1>6. w.edit = x.edit /\ x.edit \in Edit /\ x.edit.end <= Len(doc.text)
  <2>1. Worked(x, n).edit = x.edit /\ x.edit \in Edit /\ x.edit.end <= Len(doc.text)
    BY <1>2, <1>5, WorkedSound
  <2>. QED BY <1>3, <1>4, <2>1
<1>7. x.edit.start \in Nat /\ x.edit.end \in Nat /\ x.edit.start <= x.edit.end
  BY <1>6, EditParts
<1>8. PICK a \in Nat, b \in Nat : a = x.edit.start /\ b = x.edit.end
  BY <1>7
<1>9. PICK new \in Seq(SourceBytes) : new = New(x.edit) /\ IsNew(new)
  BY <1>6, NewIs
<1>10. a <= b /\ b <= Len(doc.text) /\ Edited(a, b, new) /\ anchors' = Moved(a, b, new)
  BY <1>5, <1>6, <1>7, <1>8, <1>9
<1>11. Apart(doc.text, [start |-> a, end |-> b, text |-> new])
  BY <1>9, <1>10, NewApart
<1>12. doc'.text = Spliced(doc.text, a, b, new)
  BY <1>10, EditedAccepts DEF Accepted
<1>. QED BY <1>10, <1>11, <1>12 DEF Moving

LEMMA HistoryReplayMoves ==
  ASSUME SessionInv, use' = use, NEW t \in DOMAIN hist.tokens, NEW lost, HistoryReplay(t, lost)
  PROVE  \E a, b \in Nat, new \in Seq(SourceBytes) : Moving(a, b, new)
<1>. USE InvParts
<1>1. PICK x : x = hist.tokens[t]
  OBVIOUS
<1>2. PICK from : from = doc.text
  OBVIOUS
<1>3. PICK s : s = Replayed(from, x)
  OBVIOUS
<1>4. /\ x.applies = states.now /\ s.start <= s.end /\ s.end <= Len(doc.text)
      /\ Edited(s.start, s.end, s.text) /\ anchors' = Moved(s.start, s.end, s.text)
  BY <1>1, <1>2, <1>3 DEF HistoryReplay, Replayable
<1>5. /\ TokenSound(x, seen, sess.owner)
      /\ x.splices \in Seq(Putting(SourceBytes)) /\ Len(x.splices) \in Nat \ {0}
  <2>1. TokenSound(x, seen, sess.owner) /\ Chain(hist, SourceBytes, use.owners)
    BY <1>1 DEF HistSound, HistorySound
  <2>2. x \in TokenOf(SourceBytes, use.owners)
    BY <1>1, <2>1 DEF Chain, TypedHistory
  <2>3. Len(x.splices) \in 1 .. MaxSteps /\ MaxSteps \in Nat
    BY <2>1, HistoryAssumption DEF TokenSound
  <2>. QED BY <2>1, <2>2, <2>3 DEF TokenOf
<1>6. PICK to : to = seen[x.target]
  OBVIOUS
<1>7. Leads(from, x.splices, to, SourceBytes) /\ from = seen[x.applies]
  <2>1. doc.text = seen[states.now]
    BY DEF SourceSound
  <2>. QED BY <1>2, <1>4, <1>5, <1>6, <2>1 DEF TokenSound
<1>8. s \in Putting(SourceBytes)
  <2>1. PICK B : B = SourceBytes
    OBVIOUS
  <2>2. Replaying(from, x, to, s, B)
    BY <1>2, <1>3, <1>4, <1>5, <1>7, <2>1 DEF Replaying
  <2>3. ReplaysTo(from, to, s, B)
    BY <2>2, ReplayedLeads
  <2>. QED BY <2>1, <2>3 DEF ReplaysTo
<1>9. s.start \in Nat /\ s.end \in Nat /\ s.text \in Seq(SourceBytes)
      /\ s = [start |-> s.start, end |-> s.end, text |-> s.text]
  BY <1>8 DEF Putting
<1>10. PICK a \in Nat, b \in Nat, new \in Seq(SourceBytes) : a = s.start /\ b = s.end /\ new = s.text
  BY <1>9
<1>11. a <= b /\ b <= Len(doc.text) /\ Edited(a, b, new) /\ anchors' = Moved(a, b, new)
  BY <1>4, <1>10
<1>12. ASSUME use.groups = {0}
       PROVE  Apart(doc.text, [start |-> a, end |-> b, text |-> new])
  <2>1. Len(x.splices) = 1 /\ Apart(from, x.splices[1])
    BY <1>5, <1>7, <1>12 DEF TokenSound, Alone
  <2>2. Apart(from, s)
    BY <1>3, <2>1 DEF Replayed
  <2>. QED BY <1>2, <1>9, <1>10, <2>2
<1>13. doc'.text = Spliced(doc.text, a, b, new)
  BY <1>11, EditedAccepts DEF Accepted
<1>. QED BY <1>11, <1>12, <1>13 DEF Moving

\* A logical edit is counted.
LEMMA CountedShows ==
  ASSUME ReceiptInv, NEW r, Asked(r), Counted(r)
  PROVE  commits' # commits
<1>1. PICK i \in Ids : i = r.id
  BY DEF Asked, Request
<1>2. commits \in [Ids -> {0, 1}]
  BY DEF ReceiptInv, CommitsSound
<1>3. commits' = [commits EXCEPT ![i] = commits[i] + 1]
  BY <1>1 DEF Counted
<1>4. commits'[i] = commits[i] + 1 /\ commits[i] \in {0, 1}
  BY <1>2, <1>3
<1>. QED BY <1>4

\* Nothing else gives the source a revision.
LEMMA RevisionMoves ==
  ASSUME SessionInv, Next, doc'.rev # doc.rev, commits' = commits
  PROVE  \E a, b \in Nat, new \in Seq(SourceBytes) : Moving(a, b, new)
<1>. USE InvParts
<1>1. use' = use
  BY DEF Next
<1>2. Edits \subseteq Edit /\ AnyEdit \in Edit /\ {0} \in SUBSET Nat
  <2>1. 0 \in Nat
    OBVIOUS
  <2>2. {0} \in SUBSET Nat
    BY ONLY <2>1
  <2>. QED BY <2>2, EditsAre
<1>3. 0 \in use.groups /\ DOMAIN txns \subseteq Nat
  BY UseParts DEF TxnsSound, Handles
<1>5. CASE Source
  <2>1. PICK r \in Requests("source", Edits, use.groups, {0}), lost \in Losses :
          Recall(r, lost) \/ \E sel \in DOMAIN anchors : SourceTransaction(r, sel, lost)
    BY <1>5 DEF Source
  <2>2. Asked(r)
    <3>1. PICK es \in SUBSET Edit : es = Edits
      BY <1>2
    <3>2. PICK gs \in SUBSET use.groups : gs = use.groups
      OBVIOUS
    <3>3. PICK hs \in SUBSET Nat : hs = {0}
      BY <1>2
    <3>4. r \in Requests("source", es, gs, hs)
      BY <3>1, <3>2, <3>3
    <3>. QED BY <3>4, AskedRequests
  <2>3. doc' = doc \/ Counted(r)
    BY <2>1 DEF Recall, SourceTransaction
  <2>. QED BY <2>2, <2>3, CountedShows
<1>6. CASE Intent
  <2>1. PICK r \in Requests("intent", {AnyEdit}, {0}, {0}), lost \in Losses :
          \/ Recall(r, lost)
          \/ \E e \in Edits : IntentApplied(r, e, lost)
          \/ \E composing, refused \in BOOLEAN : IntentUnapplied(r, composing, refused, lost)
    BY <1>6 DEF Intent
  <2>2. Asked(r)
    <3>1. PICK es \in SUBSET Edit : es = {AnyEdit}
      BY <1>2
    <3>2. PICK gs \in SUBSET use.groups : gs = {0}
      BY <1>3
    <3>3. PICK hs \in SUBSET Nat : hs = {0}
      BY <1>2
    <3>4. r \in Requests("intent", es, gs, hs)
      BY <2>1, <3>1, <3>2, <3>3
    <3>. QED BY <3>4, AskedRequests
  <2>3. doc' = doc \/ Counted(r)
    BY <2>1 DEF Recall, IntentApplied, IntentUnapplied
  <2>. QED BY <2>2, <2>3, CountedShows
<1>7. CASE Staged
  <2>1. PICK r \in Requests("staged", {AnyEdit}, {0}, DOMAIN txns), lost \in Losses :
          \/ Recall(r, lost)
          \/ \E sel \in DOMAIN anchors : StagedTransaction(r, sel, lost)
          \/ \E n \in 1 .. 2 : StagedPauses(r, n)
    BY <1>7 DEF Staged
  <2>2. Asked(r)
    <3>1. PICK es \in SUBSET Edit : es = {AnyEdit}
      BY <1>2
    <3>2. PICK gs \in SUBSET use.groups : gs = {0}
      BY <1>3
    <3>3. PICK hs \in SUBSET Nat : hs = DOMAIN txns
      BY <1>3
    <3>4. r \in Requests("staged", es, gs, hs)
      BY <2>1, <3>1, <3>2, <3>3
    <3>. QED BY <3>4, AskedRequests
  <2>3. doc' = doc \/ Counted(r)
    BY <2>1 DEF Recall, StagedTransaction, StagedPauses
  <2>. QED BY <2>2, <2>3, CountedShows
<1>8. CASE Bulk
  <2>1. CASE \E h \in DOMAIN txns, lost \in Losses : BulkCommit(h, lost)
    BY <1>1, <2>1, BulkCommitMoves
  <2>2. CASE \/ \E h \in Handles, e \in Edits : BulkBegin(h, e)
             \/ \E h \in DOMAIN txns : \/ BulkAppend(h) \/ BulkAbort(h) \/ BulkLost(h)
                                       \/ \E n \in 1 .. 2 : BulkPauses(h, n)
    BY <2>2 DEF BulkBegin, BulkAppend, BulkAbort, BulkLost, BulkPauses
  <2>. QED BY <1>8, <2>1, <2>2 DEF Bulk
<1>9. CASE Literal
  <2>1. CASE \E e \in Edits, lost \in Losses : SmallEdit(e, lost)
    BY <1>1, <2>1, SmallEditMoves
  <2>2. CASE OrderedRefused
    BY <2>2 DEF OrderedRefused
  <2>. QED BY <1>9, <2>1, <2>2 DEF Literal
<1>10. CASE Undo
  <2>1. CASE \E t \in DOMAIN hist.tokens, lost \in Losses : HistoryReplay(t, lost)
    BY <1>1, <2>1, HistoryReplayMoves
  <2>2. CASE \/ \E t \in DOMAIN hist.tokens : HistoryRelease(t)
             \/ \E t \in hist.evicted : EvictedRelease(t)
    BY <2>2 DEF HistoryRelease, EvictedRelease
  <2>. QED BY <1>10, <2>1, <2>2 DEF Undo
<1>11. CASE Views
  BY <1>11 DEF Views, AnchorCreate, AnchorRelease, QueryViewport, ContinuationEnds
<1>12. CASE Control
  BY <1>12 DEF Control, CreateCommit, Pump, CreateAbort, PumpRefused, Cancel, TransferOwner
<1>13. CASE Closing
  <2>1. CASE CloseFinish
    BY <2>1 DEF CloseFinish
  <2>2. CASE CloseBegin \/ ClosePump
    <3>1. \/ doc' = doc
          \/ \E d : doc' = [doc EXCEPT !.drain = d]
      BY <2>2 DEF CloseBegin, ClosePump, Drain
    <3>. QED BY <3>1
  <2>. QED BY <1>13, <2>1, <2>2 DEF Closing
<1>. QED BY <1>5, <1>6, <1>7, <1>8, <1>9, <1>10, <1>11, <1>12, <1>13 DEF Next, Call

\* Without groups, an edit of no selection keeps every anchor's place.
LEMMA AnchorsKeepPlace ==
  ASSUME SessionInv, SessionInv', Next
  PROVE  AnchorKeepsPlace
<1>. SUFFICES ASSUME doc'.rev # doc.rev, commits' = commits, use.groups = {0},
                     NEW h \in DOMAIN anchors \cap DOMAIN anchors'
              PROVE  Survives(anchors[h].offset, anchors'[h].offset, doc.text, doc'.text)
  BY DEF AnchorKeepsPlace, Survives
<1>1. PICK a \in Nat, b \in Nat, new \in Seq(SourceBytes) : Moving(a, b, new)
  BY RevisionMoves
<1>2. use' = use
  BY DEF Next
<1>. QED BY <1>1, <1>2, MovingKeepsPlace

-----------------------------------------------------------------------------
(* A close under way.                                                      *)

\* A set of handles loses one.
LEMMA OneLess ==
  ASSUME NEW S, IsFiniteSet(S), NEW h \in S
  PROVE  /\ Cardinality(S \ {h}) \in Nat /\ Cardinality(S) \in Nat
         /\ Cardinality(S \ {h}) + 1 = Cardinality(S)
<1>1. Cardinality(S) \in Nat
  BY FS_CardinalityType
<1>2. IsFiniteSet(S \ {h}) /\ Cardinality(S \ {h}) = Cardinality(S) - 1
  BY FS_RemoveElement
<1>3. Cardinality(S \ {h}) \in Nat
  BY <1>2, FS_CardinalityType
<1>. QED BY <1>1, <1>2, <1>3

\* What a close has left, term by term.
LeftSum(a, b, c, d, e, f) == a + b + c + d + e + f

LEMMA LeftIs ==
  ASSUME SessionInv
  PROVE  /\ Left = LeftSum(Cardinality(sess.txns), Cardinality(DOMAIN conts),
                           Cardinality(DOMAIN anchors), hist.count,
                           Cardinality(hist.evicted), doc.drain)
         /\ IsFiniteSet(sess.txns) /\ IsFiniteSet(DOMAIN conts)
         /\ IsFiniteSet(DOMAIN anchors) /\ IsFiniteSet(hist.evicted)
         /\ sess.txns \subseteq Nat /\ DOMAIN conts \subseteq Nat
         /\ DOMAIN anchors \subseteq Nat /\ hist.evicted \subseteq Nat
         /\ hist.count \in Nat /\ doc.drain \in {0, 1}
<1>. USE InvParts
<1>1. IsFiniteSet(Handles) /\ Handles \subseteq Nat
  <2>1. MaxLive \in Nat /\ 1 \in Int
    BY UseParts
  <2>. QED BY <2>1, FS_Interval DEF Handles
<1>2. sess.txns \subseteq Handles /\ DOMAIN conts \subseteq Handles /\ DOMAIN anchors \subseteq Handles
  BY DEF SessSound, ViewsSound
<1>3. Chain(hist, SourceBytes, use.owners)
  BY HandlesBehind
<1>4. hist.evicted \subseteq Nat /\ IsFiniteSet(hist.evicted) /\ hist.count \in Nat
  BY <1>3, CountsTokens DEF Chain, TypedHistory
<1>5. IsFiniteSet(sess.txns) /\ IsFiniteSet(DOMAIN conts) /\ IsFiniteSet(DOMAIN anchors)
  BY <1>1, <1>2, FS_Subset
<1>. QED BY <1>1, <1>2, <1>4, <1>5 DEF Left, LeftSum

LEMMA SumLess ==
  ASSUME NEW a \in Nat, NEW b \in Nat, NEW c \in Nat, NEW d \in Nat, NEW e \in Nat, NEW f \in Nat
  PROVE  /\ LeftSum(a, b, c, d, e, f) < LeftSum(a + 1, b, c, d, e, f)
         /\ LeftSum(a, b, c, d, e, f) < LeftSum(a, b + 1, c, d, e, f)
         /\ LeftSum(a, b, c, d, e, f) < LeftSum(a, b, c + 1, d, e, f)
         /\ LeftSum(a, b, c, d, e, f) < LeftSum(a, b, c, d + 1, e, f)
         /\ LeftSum(a, b, c, d, e, f) < LeftSum(a, b, c, d, e + 1, f)
         /\ LeftSum(a, b, c, d, e, f) < LeftSum(a, b, c, d, e, f + 1)
BY DEF LeftSum

\* A unit of a close drops one thing, or closes the document.
LEMMA PumpAdvances ==
  ASSUME SessionInv, use' = use, ClosePump
  PROVE  Left' < Left \/ sess'.closed
<1>. USE InvParts
<1>1. Drain(sess) /\ UNCHANGED <<states, seen>> /\ sess.phase \in {"creating", "open"}
  BY DEF ClosePump, Owned
<1>2. PICK A, C, V, E : A = sess.txns /\ C = DOMAIN conts /\ V = DOMAIN anchors /\ E = hist.evicted
  OBVIOUS
<1>3. PICK n, d : n = hist.count /\ d = doc.drain
  OBVIOUS
<1>4. /\ IsFiniteSet(A) /\ IsFiniteSet(C) /\ IsFiniteSet(V) /\ IsFiniteSet(E)
      /\ A \subseteq Nat /\ C \subseteq Nat /\ V \subseteq Nat /\ E \subseteq Nat
      /\ n \in Nat /\ d \in Nat /\ d \in {0, 1}
      /\ Left = LeftSum(Cardinality(A), Cardinality(C), Cardinality(V), n, Cardinality(E), d)
  BY <1>2, <1>3, LeftIs
<1>5. PICK a \in Nat, c \in Nat, v \in Nat, e \in Nat :
        a = Cardinality(A) /\ c = Cardinality(C) /\ v = Cardinality(V) /\ e = Cardinality(E)
  BY <1>4, FS_CardinalityType
<1>6. Left = LeftSum(a, c, v, n, e, d)
  BY <1>4, <1>5
<1>7. Left' = LeftSum(Cardinality(sess'.txns), Cardinality(DOMAIN conts'),
                      Cardinality(DOMAIN anchors'), hist'.count,
                      Cardinality(hist'.evicted), doc'.drain)
  BY DEF Left, LeftSum
<1>8. sess \in [phase : {sess.phase}, owner : {sess.owner}, progress : 0 .. use.pumps + 1,
                closing : BOOLEAN, closed : BOOLEAN, txns : {sess.txns}]
  BY DEF SessSound
<1>9. CASE /\ sess.txns # {}
           /\ sess' = [sess EXCEPT !.txns = @ \ {Min(@)}]
           /\ UNCHANGED <<conts, anchors, hist, doc>>
  <2>1. PICK m : m = Min(A)
    OBVIOUS
  <2>2. m \in A
    BY <1>2, <1>4, <1>9, <2>1, MinIn
  <2>3. sess' = [sess EXCEPT !.txns = A \ {m}]
    BY <1>2, <1>9, <2>1
  <2>4. sess'.txns = A \ {m}
    BY <1>8, <2>3
  <2>5. PICK k \in Nat : k = Cardinality(A \ {m}) /\ k + 1 = a
    BY <1>4, <1>5, <2>2, OneLess
  <2>6. Left' = LeftSum(k, c, v, n, e, d)
    BY <1>2, <1>3, <1>5, <1>7, <1>9, <2>4, <2>5
  <2>7. LeftSum(k, c, v, n, e, d) < LeftSum(k + 1, c, v, n, e, d)
    BY <1>4, SumLess
  <2>. QED BY <1>6, <2>5, <2>6, <2>7
<1>10. CASE /\ DOMAIN conts # {} /\ conts' = Without(conts, Min(DOMAIN conts))
            /\ sess' = sess /\ UNCHANGED <<txns, anchors, hist, doc>>
  <2>1. PICK m : m = Min(C)
    OBVIOUS
  <2>2. m \in C
    BY <1>2, <1>4, <1>10, <2>1, MinIn
  <2>3. conts' = Without(conts, m)
    BY <1>2, <1>10, <2>1
  <2>4. DOMAIN conts' = C \ {m}
    BY <1>2, <2>3, WithoutParts
  <2>5. PICK k \in Nat : k = Cardinality(C \ {m}) /\ k + 1 = c
    BY <1>4, <1>5, <2>2, OneLess
  <2>6. Left' = LeftSum(a, k, v, n, e, d)
    BY <1>2, <1>3, <1>5, <1>7, <1>10, <2>4, <2>5
  <2>7. LeftSum(a, k, v, n, e, d) < LeftSum(a, k + 1, v, n, e, d)
    BY <1>4, SumLess
  <2>. QED BY <1>6, <2>5, <2>6, <2>7
<1>11. CASE /\ DOMAIN anchors # {} /\ anchors' = Without(anchors, Min(DOMAIN anchors))
            /\ sess' = sess /\ UNCHANGED <<txns, conts, hist, doc>>
  <2>1. PICK m : m = Min(V)
    OBVIOUS
  <2>2. m \in V
    BY <1>2, <1>4, <1>11, <2>1, MinIn
  <2>3. anchors' = Without(anchors, m)
    BY <1>2, <1>11, <2>1
  <2>4. DOMAIN anchors' = V \ {m}
    BY <1>2, <2>3, WithoutParts
  <2>5. PICK k \in Nat : k = Cardinality(V \ {m}) /\ k + 1 = v
    BY <1>4, <1>5, <2>2, OneLess
  <2>6. Left' = LeftSum(a, c, k, n, e, d)
    BY <1>2, <1>3, <1>5, <1>7, <1>11, <2>4, <2>5
  <2>7. LeftSum(a, c, k, n, e, d) < LeftSum(a, c, k + 1, n, e, d)
    BY <1>4, SumLess
  <2>. QED BY <1>6, <2>5, <2>6, <2>7
<1>12. CASE /\ hist.head # 0 /\ hist' = Detach(hist, hist.head)
            /\ sess' = sess /\ UNCHANGED <<txns, conts, anchors, doc>>
  <2>1. hist.head \in DOMAIN hist.tokens
    <3>1. IsFirst(DOMAIN hist.tokens, hist.head)
      BY HandlesBehind DEF Chain, Ordered
    <3>. QED BY <1>12, <3>1 DEF IsFirst
  <2>2. PICK t \in DOMAIN hist.tokens : t = hist.head
    BY <2>1
  <2>3. hist' = Detach(hist, t)
    BY <1>12, <2>2
  <2>4. hist'.evicted = hist.evicted /\ hist'.count = hist.count - 1
    BY <1>1, <1>12, <2>3, HistDetaches
  <2>5. DOMAIN hist.tokens # {} /\ Chain(hist, SourceBytes, use.owners)
    BY <2>1, HandlesBehind
  <2>6. n # 0
    BY <1>3, <2>5, CountsTokens
  <2>7. PICK k \in Nat : k = n - 1 /\ k + 1 = n
    BY <1>4, <2>6
  <2>8. Left' = LeftSum(a, c, v, k, e, d)
    BY <1>2, <1>3, <1>5, <1>7, <1>12, <2>4, <2>7
  <2>9. LeftSum(a, c, v, k, e, d) < LeftSum(a, c, v, k + 1, e, d)
    BY <1>4, SumLess
  <2>. QED BY <1>6, <2>7, <2>8, <2>9
<1>13. CASE /\ hist.evicted # {} /\ hist' = [hist EXCEPT !.evicted = @ \ {Min(@)}]
            /\ sess' = sess /\ UNCHANGED <<txns, conts, anchors, doc>>
  <2>1. PICK m : m = Min(E)
    OBVIOUS
  <2>2. m \in E
    BY <1>2, <1>4, <1>13, <2>1, MinIn
  <2>3. hist' = [hist EXCEPT !.evicted = @ \ {m}]
    BY <1>2, <1>13, <2>1
  <2>4. hist'.evicted = E \ {m} /\ hist'.count = n
    BY <1>1, <1>2, <1>3, <1>13, <2>3, HistForgetsEvicted
  <2>5. PICK k \in Nat : k = Cardinality(E \ {m}) /\ k + 1 = e
    BY <1>4, <1>5, <2>2, OneLess
  <2>6. Left' = LeftSum(a, c, v, n, k, d)
    BY <1>2, <1>3, <1>5, <1>7, <1>13, <2>4, <2>5
  <2>7. LeftSum(a, c, v, n, k, d) < LeftSum(a, c, v, n, k + 1, d)
    BY <1>4, SumLess
  <2>. QED BY <1>6, <2>5, <2>6, <2>7
<1>14. CASE /\ doc' = [doc EXCEPT !.drain = IF sess.phase = "open" /\ @ > 0 THEN @ - 1 ELSE @]
            /\ sess' = [sess EXCEPT !.closed = sess.phase = "creating" \/ doc.drain = 0]
            /\ UNCHANGED <<txns, conts, anchors, hist>>
  <2>1. CASE sess.phase = "open" /\ doc.drain = 1
    <3>1. doc' = [doc EXCEPT !.drain = 0]
      BY <1>14, <2>1
    <3>2. doc'.drain = 0 /\ sess'.txns = A
      BY <1>2, <1>8, <1>14, <3>1
    <3>3. Left' = LeftSum(a, c, v, n, e, 0)
      BY <1>2, <1>3, <1>5, <1>7, <1>14, <3>2
    <3>4. LeftSum(a, c, v, n, e, 0) < LeftSum(a, c, v, n, e, 0 + 1)
      BY <1>4, SumLess
    <3>. QED BY <1>3, <1>6, <2>1, <3>3, <3>4
  <2>2. CASE sess.phase = "creating" \/ doc.drain = 0
    <3>1. sess' = [sess EXCEPT !.closed = TRUE]
      BY <1>14, <2>2
    <3>2. sess'.closed = TRUE
      BY <1>8, <3>1
    <3>. QED BY <3>2
  <2>. QED BY <1>1, <1>3, <1>4, <2>1, <2>2
<1>. QED BY <1>1, <1>9, <1>10, <1>11, <1>12, <1>13, <1>14 DEF Drain

-----------------------------------------------------------------------------
(* The theorems.                                                           *)

\* What every call keeps of the session's entry and of the tables of the registry
\* (crates/flark_abi): their types; the history is one list in the order of the
\* handles, whose counters are exact and within the budget, whatever was reserved,
\* given back, extended or evicted; its tokens follow the owner; continuations are of
\* the current revision; a transaction is one the close will find; and a session that
\* is gone leaves nothing.
THEOREM SessionIsSound == Spec => []AbiInv
<1>1. SessionInv => AbiInv
  <2>. SUFFICES ASSUME SessionInv
                PROVE  AbiInv
    OBVIOUS
  <2>. USE InvParts
  <2>1. TypeOK /\ HistoryIsChain
    BY TypeOKHolds, HistoryIsChainHolds
  <2>2. HistoryFollowsOwner
    BY DEF HistSound, HistorySound, TokenSound, HistoryFollowsOwner
  <2>3. ContinuationIsCurrent
    BY DEF ViewsSound, ContinuationIsCurrent
  <2>4. TransactionIsNamed
    BY DEF SessSound, TransactionIsNamed
  <2>5. GoneLeavesNothing
    BY DEF SessSound, GoneLeavesNothing
  <2>. QED BY <2>1, <2>2, <2>3, <2>4, <2>5 DEF AbiInv
<1>. QED BY <1>1, SessionInvHolds, PTL

\* A history state names one source for ever, and the splices of a token lead from
\* the source it applies to, to that of its target, whatever edits, groups, undo and
\* redo (replay of a group as one edit included), evictions and releases come before.
THEOREM StatesNameSources == Spec => []StateNamesSource
<1>1. SessionInv => StateNamesSource
  <2>. SUFFICES ASSUME SessionInv
                PROVE  StateNamesSource
    OBVIOUS
  <2>1. doc.text = seen[states.now]
    BY InvParts DEF SourceSound
  <2>2. ASSUME NEW t \in DOMAIN hist.tokens
        PROVE  UndoneInTurn(seen[hist.tokens[t].applies], hist.tokens[t].splices)
                 = seen[hist.tokens[t].target]
    <3>1. PICK splices, from, to : /\ splices = hist.tokens[t].splices
                                   /\ from = seen[hist.tokens[t].applies]
                                   /\ to = seen[hist.tokens[t].target]
      OBVIOUS
    <3>2. splices \in Seq(Putting(SourceBytes))
      <4>1. hist.tokens[t] \in TokenOf(SourceBytes, use.owners)
        BY InvParts DEF HistSound, HistorySound, Chain, TypedHistory
      <4>. QED BY <3>1, <4>1 DEF TokenOf
    <3>3. Leads(from, splices, to, SourceBytes)
      BY <3>1, InvParts DEF HistSound, HistorySound, TokenSound
    <3>4. UndoneInTurn(from, splices) = to
      BY <3>2, <3>3, LeadsUndone
    <3>. QED BY <3>1, <3>4
  <2>. QED BY <2>1, <2>2 DEF StateNamesSource
<1>. QED BY <1>1, SessionInvHolds, PTL

\* A logical edit changes the source at most once, whatever answers are lost and
\* requests resent, and the receipt of one whose answer is outstanding is held: no
\* other call of that caller takes its place.
THEOREM ReceiptsAreHeld == Spec => []ReceiptHeld
<1>1. SessionInv => ReceiptHeld
  BY InvParts, ReceiptInvHolds
<1>. QED BY <1>1, SessionInvHolds, PTL

\* What no call does to the anchors, the history or a close under way: without groups
\* an edit, undo or redo of the literal lane leaves every surviving byte on its side of
\* every anchor; an edit that must be undoable (a source transaction, an intent, a
\* staged transaction) comes with the token that undoes it, and evicts none to make
\* room; and a unit of a close drops one thing and brings none back.
THEOREM CallsKeepTheirPromises == Spec => CallsKeepPromises
<1>1. SessionInv /\ SessionInv' /\ [Next]_vars =>
        [AnchorKeepsPlace /\ RequiredIsUndoable /\ CloseAdvances]_vars
  <2>. SUFFICES ASSUME SessionInv, SessionInv', Next
                PROVE  AnchorKeepsPlace /\ RequiredIsUndoable /\ CloseAdvances
    OBVIOUS
  <2>1. AnchorKeepsPlace
    BY AnchorsKeepPlace
  <2>2. RequiredIsUndoable
    BY CallKeeps DEF NewUndoable, RequiredIsUndoable
  <2>3. CloseAdvances
    <3>1. use' = use
      BY DEF Next
    <3>. QED BY <3>1, PumpAdvances DEF CloseAdvances
  <2>. QED BY <2>1, <2>2, <2>3
<1>. QED BY <1>1, SessionInvHolds, PTL DEF Spec, CallsKeepPromises

=============================================================================
