--------------------------- MODULE HistoryProofs ---------------------------
(***************************************************************************)
(* Proofs about the undo history, for every set of states, every pair of   *)
(* caps and every coalescing window.                                       *)
(***************************************************************************)
EXTENDS History, FiniteSetTheorems, SequenceTheorems, TLAPS

\* The least element of a nonempty set of naturals, as Min chooses it.
LEMMA MinIsLeast ==
    ASSUME NEW S, S \subseteq Nat, S # {}
    PROVE  Min(S) \in S /\ \A y \in S : Min(S) <= y
<1>. DEFINE R == {ss \in Nat \X Nat : ss[1] < ss[2]}
<1>1. IsWellFoundedOn(R, Nat)
  BY NatLessThanWellFounded DEF OpToRel
<1>. HIDE DEF R
<1>2. PICK x \in S : \A y \in S : ~(<<y, x>> \in R)
  BY <1>1, WFMin
<1>3. ASSUME NEW y \in S
      PROVE  x <= y
  <2>1. x \in Nat /\ y \in Nat
    OBVIOUS
  <2>2. <<y, x>> \in Nat \X Nat /\ ~(<<y, x>> \in R)
    BY <1>2, <2>1
  <2>3. ~(y < x)
    BY <2>2 DEF R
  <2>. QED
    BY <2>1, <2>3
<1>. QED
  BY <1>3 DEF Min

-----------------------------------------------------------------------------
(* How many code units a stack holds.                                      *)

LEMMA DisjointUnion ==
    ASSUME NEW S, NEW T, IsFiniteSet(S), IsFiniteSet(T), S \cap T = {}
    PROVE  Cardinality(S \cup T) = Cardinality(S) + Cardinality(T)
<1>1. Cardinality(S \cap T) = 0
  BY FS_EmptySet
<1>2. Cardinality(S) \in Nat /\ Cardinality(T) \in Nat
  BY FS_CardinalityType
<1>3. Cardinality(S \cup T) = Cardinality(S) + Cardinality(T) - Cardinality(S \cap T)
  BY FS_Union
<1>. QED
  BY <1>1, <1>2, <1>3

LEMMA PositionOf ==
    ASSUME NEW s \in Seq(Entry), NEW p
    PROVE  p \in UnitPositions(s) <=>
              \E i \in 1 .. Len(s) : \E j \in 1 .. Units[s[i].state] : p = <<i, j>>
  BY DEF UnitPositions

LEMMA UnitsType ==
    ASSUME NEW s \in Seq(Entry), NEW i \in 1 .. Len(s)
    PROVE  Units[s[i].state] \in Nat
<1>1. s[i] \in Entry
  BY ElementOfSeq
<1>2. s[i].state \in States
  BY <1>1 DEF Entry
<1>. QED
  BY <1>2, StatesAssumption

LEMMA PositionsFinite ==
    ASSUME NEW s \in Seq(Entry)
    PROVE  IsFiniteSet(UnitPositions(s)) /\ StoredUnits(s) \in Nat
<1>. DEFINE Of(i) == {i} \X (1 .. Units[s[i].state])
            All == {Of(i) : i \in 1 .. Len(s)}
            f == [i \in 1 .. Len(s) |-> Of(i)]
<1>1. f \in Surjection(1 .. Len(s), All)
  BY DEF Surjection
<1>2. IsFiniteSet(1 .. Len(s))
  BY FS_Interval
<1>3. IsFiniteSet(All)
  BY <1>1, <1>2, FS_Surjection
<1>4. ASSUME NEW T \in All
      PROVE  IsFiniteSet(T)
  <2>1. PICK i \in 1 .. Len(s) : T = Of(i)
    OBVIOUS
  <2>2. Units[s[i].state] \in Int
    BY UnitsType
  <2>3. IsFiniteSet({i})
    BY FS_Singleton
  <2>4. IsFiniteSet(1 .. Units[s[i].state])
    <3>. DEFINE n == Units[s[i].state]
    <3>1. n \in Int /\ 1 \in Int
      BY <2>2
    <3>. HIDE DEF n
    <3>2. IsFiniteSet(1 .. n)
      BY <3>1, FS_Interval
    <3>. QED
      BY <3>2 DEF n
  <2>. QED
    BY <2>1, <2>3, <2>4, FS_Product
<1>5. IsFiniteSet(UNION All)
  BY <1>3, <1>4, FS_UNION
<1>. QED
  BY <1>5, FS_CardinalityType DEF UnitPositions, StoredUnits

LEMMA NothingStored == StoredUnits(<<>>) = 0
<1>1. UnitPositions(<<>>) = {}
  BY DEF UnitPositions
<1>. QED
  BY <1>1, FS_EmptySet DEF StoredUnits

\* A stack holds what its d oldest entries hold and what the others hold.
LEMMA StoredSplit ==
    ASSUME NEW s \in Seq(Entry), NEW d \in 0 .. Len(s)
    PROVE  /\ SubSeq(s, 1, d) \in Seq(Entry)
           /\ SubSeq(s, d + 1, Len(s)) \in Seq(Entry)
           /\ StoredUnits(s) = StoredUnits(SubSeq(s, 1, d))
                                + StoredUnits(SubSeq(s, d + 1, Len(s)))
<1>. DEFINE a == SubSeq(s, 1, d)
            b == SubSeq(s, d + 1, Len(s))
            Shifted == {p \in UnitPositions(s) : p \notin UnitPositions(a)}
            f == [p \in UnitPositions(b) |-> <<p[1] + d, p[2]>>]
<1>1. /\ a \in Seq(Entry) /\ Len(a) = d
      /\ \A i \in 1 .. d : a[i] = s[i]
  BY SubSeqProperties
<1>2. /\ b \in Seq(Entry) /\ Len(b) = Len(s) - d
      /\ \A i \in 1 .. Len(s) - d : b[i] = s[d + i]
  BY SubSeqProperties
<1>. HIDE DEF a, b
<1>3. UnitPositions(a) \subseteq UnitPositions(s)
  BY <1>1, PositionOf
<1>4. \A p : p \in Shifted <=>
          \E i \in d + 1 .. Len(s) : \E j \in 1 .. Units[s[i].state] : p = <<i, j>>
  BY <1>1, PositionOf
<1>5. f \in Bijection(UnitPositions(b), Shifted)
  <2>1. ASSUME NEW p \in UnitPositions(b)
        PROVE  <<p[1] + d, p[2]>> \in Shifted
    <3>1. PICK i \in 1 .. Len(b) : \E j \in 1 .. Units[b[i].state] : p = <<i, j>>
      BY <1>2, PositionOf
    <3>2. PICK j \in 1 .. Units[b[i].state] : p = <<i, j>>
      BY <3>1
    <3>3. i + d \in d + 1 .. Len(s) /\ b[i] = s[i + d]
      BY <1>2
    <3>. QED
      BY <1>4, <3>2, <3>3
  <2>2. ASSUME NEW q \in Shifted
        PROVE  \E p \in UnitPositions(b) : f[p] = q
    <3>1. PICK i \in d + 1 .. Len(s) : \E j \in 1 .. Units[s[i].state] : q = <<i, j>>
      BY <1>4
    <3>2. PICK j \in 1 .. Units[s[i].state] : q = <<i, j>>
      BY <3>1
    <3>3. i - d \in 1 .. Len(b) /\ b[i - d] = s[i]
      BY <1>2
    <3>4. <<i - d, j>> \in UnitPositions(b)
      BY <1>2, <3>3, PositionOf
    <3>5. f[<<i - d, j>>] = <<(i - d) + d, j>>
      BY <3>4
    <3>6. (i - d) + d = i
      OBVIOUS
    <3>. QED
      BY <3>2, <3>4, <3>5, <3>6
  <2>3. ASSUME NEW p \in UnitPositions(b), NEW q \in UnitPositions(b), f[p] = f[q]
        PROVE  p = q
    <3>1. PICK i \in 1 .. Len(b) : \E j \in 1 .. Units[b[i].state] : p = <<i, j>>
      BY <1>2, PositionOf
    <3>2. PICK j : p = <<i, j>>
      BY <3>1
    <3>3. PICK k \in 1 .. Len(b) : \E l \in 1 .. Units[b[k].state] : q = <<k, l>>
      BY <1>2, PositionOf
    <3>4. PICK l : q = <<k, l>>
      BY <3>3
    <3>5. <<i + d, j>> = <<k + d, l>>
      BY <2>3, <3>2, <3>4
    <3>6. i + d = k + d /\ j = l
      BY <3>5
    <3>7. i = k
      BY <3>6
    <3>. QED
      BY <3>2, <3>4, <3>6, <3>7
  <2>. QED
    BY <2>1, <2>2, <2>3 DEF Bijection, Injection, Surjection, IsInjective
<1>6. Cardinality(Shifted) = StoredUnits(b) /\ IsFiniteSet(Shifted)
  BY <1>2, <1>5, PositionsFinite, FS_Bijection DEF ExistsBijection, StoredUnits
<1>7. UnitPositions(s) = UnitPositions(a) \cup Shifted
  BY <1>3
<1>8. UnitPositions(a) \cap Shifted = {}
  OBVIOUS
<1>9. IsFiniteSet(UnitPositions(a))
  BY <1>1, PositionsFinite
<1>10. Cardinality(UnitPositions(s)) = Cardinality(UnitPositions(a)) + Cardinality(Shifted)
  BY <1>6, <1>7, <1>8, <1>9, DisjointUnion
<1>. QED
  BY <1>1, <1>2, <1>6, <1>10 DEF StoredUnits, a, b

LEMMA StoredOne ==
    ASSUME NEW e \in Entry
    PROVE  StoredUnits(<<e>>) = Units[e.state] /\ Units[e.state] \in Nat
<1>. DEFINE n == Units[e.state]
<1>1. n \in Nat
  BY StatesAssumption DEF Entry
<1>2. UnitPositions(<<e>>) = {1} \X (1 .. n)
  <2>1. 1 .. Len(<<e>>) = {1} /\ <<e>>[1] = e
    OBVIOUS
  <2>. QED
    BY <2>1 DEF UnitPositions
<1>. HIDE DEF n
<1>3. IsFiniteSet({1}) /\ Cardinality({1}) = 1
  BY FS_Singleton
<1>4. 1 \in Int /\ n \in Int
  BY <1>1
<1>5. IsFiniteSet(1 .. n) /\ Cardinality(1 .. n) = IF 1 > n THEN 0 ELSE n - 1 + 1
  BY <1>4, FS_Interval
<1>6. Cardinality({1} \X (1 .. n)) = Cardinality({1}) * Cardinality(1 .. n)
  BY <1>3, <1>5, FS_Product
<1>7. Cardinality(1 .. n) = n
  BY <1>1, <1>5
<1>. QED
  BY <1>1, <1>2, <1>3, <1>6, <1>7 DEF StoredUnits, n

LEMMA StoredAppend ==
    ASSUME NEW s \in Seq(Entry), NEW e \in Entry
    PROVE  /\ Append(s, e) \in Seq(Entry)
           /\ StoredUnits(Append(s, e)) = StoredUnits(s) + Units[e.state]
<1>. DEFINE t == Append(s, e)
<1>1. /\ t \in Seq(Entry) /\ Len(t) = Len(s) + 1
      /\ \A i \in 1 .. Len(s) : t[i] = s[i]
      /\ t[Len(s) + 1] = e
  BY AppendProperties
<1>. HIDE DEF t
<1>2. SubSeq(t, 1, Len(s)) = s
  <2>1. /\ SubSeq(t, 1, Len(s)) \in Seq(Entry)
        /\ Len(SubSeq(t, 1, Len(s))) = Len(s)
        /\ \A i \in 1 .. Len(s) : SubSeq(t, 1, Len(s))[i] = t[i]
    BY <1>1, SubSeqProperties
  <2>. QED
    BY <1>1, <2>1, SeqEqual
<1>3. SubSeq(t, Len(s) + 1, Len(t)) = <<e>>
  <2>1. /\ SubSeq(t, Len(s) + 1, Len(t)) \in Seq(Entry)
        /\ Len(SubSeq(t, Len(s) + 1, Len(t))) = 1
        /\ SubSeq(t, Len(s) + 1, Len(t))[1] = t[Len(s) + 1]
    BY <1>1, SubSeqProperties
  <2>2. <<e>> \in Seq(Entry) /\ Len(<<e>>) = 1 /\ <<e>>[1] = e
    OBVIOUS
  <2>3. \A i \in 1 .. 1 : SubSeq(t, Len(s) + 1, Len(t))[i] = <<e>>[i]
    BY <1>1, <2>1, <2>2
  <2>. QED
    BY <2>1, <2>2, <2>3, SeqEqual
<1>4. Len(s) \in 0 .. Len(t)
  BY <1>1
<1>5. StoredUnits(t) = StoredUnits(SubSeq(t, 1, Len(s)))
                       + StoredUnits(SubSeq(t, Len(s) + 1, Len(t)))
  BY <1>1, <1>4, StoredSplit
<1>. QED
  BY <1>1, <1>2, <1>3, <1>5, StoredOne DEF t

-----------------------------------------------------------------------------
(* What _trim does: it keeps the newest entries of both stacks, the counter *)
(* stays exact, and afterwards both caps hold.                              *)

\* y is x without some of its oldest entries.
Trimmed(x, y) ==
    /\ y.group = x.group
    /\ y.lastWasTyping = x.lastWasTyping
    /\ y.lastTypingAt = x.lastTypingAt
    /\ \E d \in 0 .. Len(x.undo) : y.undo = SubSeq(x.undo, d + 1, Len(x.undo))
    /\ \E d \in 0 .. Len(x.redo) : y.redo = SubSeq(x.redo, d + 1, Len(x.redo))

LEMMA DroppedRange ==
    ASSUME NEW x \in HistoryObject, NEW k \in 0 .. (Len(x.undo) + Len(x.redo))
    PROVE  /\ Dropped(x, k).undo \in 0 .. Len(x.undo)
           /\ Dropped(x, k).redo \in 0 .. Len(x.redo)
           /\ k = Len(x.undo) + Len(x.redo) =>
                 Dropped(x, k).undo = Len(x.undo) /\ Dropped(x, k).redo = Len(x.redo)
<1>. DEFINE u == Len(x.undo)
            r == Len(x.redo)
            su == IF u > 0 THEN u - 1 ELSE 0
            sr == IF r > 0 THEN r - 1 ELSE 0
<1>1. u \in Nat /\ r \in Nat
  BY DEF HistoryObject
<1>2. Dropped(x, k) = IF k <= su THEN [undo |-> k, redo |-> 0]
                      ELSE IF k <= su + sr THEN [undo |-> su, redo |-> k - su]
                      ELSE IF k >= u + r THEN [undo |-> u, redo |-> r]
                      ELSE IF Units[x.undo[u].state] >= Units[x.redo[r].state]
                           THEN [undo |-> u, redo |-> sr]
                           ELSE [undo |-> su, redo |-> r]
  BY DEF Dropped
<1>3. k \in 0 .. u + r
  OBVIOUS
<1>. HIDE DEF u, r
<1>4. su \in 0 .. u /\ sr \in 0 .. r
  BY <1>1
<1>5. /\ Dropped(x, k).undo \in 0 .. u
      /\ Dropped(x, k).redo \in 0 .. r
      /\ k = u + r => Dropped(x, k).undo = u /\ Dropped(x, k).redo = r
  <2>1. CASE k <= su
    <3>1. Dropped(x, k).undo = k /\ Dropped(x, k).redo = 0
      BY <1>2, <2>1
    <3>2. k \in 0 .. u /\ 0 \in 0 .. r /\ (k = u + r => k = u /\ 0 = r)
      BY <1>1, <1>3, <1>4, <2>1
    <3>. QED
      BY <3>1, <3>2
  <2>2. CASE ~(k <= su) /\ k <= su + sr
    <3>1. Dropped(x, k).undo = su /\ Dropped(x, k).redo = k - su
      BY <1>2, <2>2
    <3>2. k - su \in 0 .. r /\ (k = u + r => su = u /\ k - su = r)
      BY <1>1, <1>3, <1>4, <2>2
    <3>. QED
      BY <1>4, <3>1, <3>2
  <2>3. CASE ~(k <= su) /\ ~(k <= su + sr) /\ k >= u + r
    <3>1. Dropped(x, k).undo = u /\ Dropped(x, k).redo = r
      BY <1>2, <2>3
    <3>. QED
      BY <1>1, <3>1
  <2>4. CASE ~(k <= su) /\ ~(k <= su + sr) /\ ~(k >= u + r)
    <3>1. \/ Dropped(x, k).undo = u /\ Dropped(x, k).redo = sr
          \/ Dropped(x, k).undo = su /\ Dropped(x, k).redo = r
      BY <1>2, <2>4
    <3>2. k # u + r /\ u \in 0 .. u /\ r \in 0 .. r
      BY <1>1, <1>3, <2>4
    <3>. QED
      BY <1>4, <3>1, <3>2
  <2>. QED
    BY <2>1, <2>2, <2>3, <2>4
<1>. QED
  BY <1>5, Zenon DEF u, r

LEMMA DropOldestKeeps ==
    ASSUME NEW x \in HistoryObject, Exact(x),
           NEW k \in 0 .. (Len(x.undo) + Len(x.redo))
    PROVE  /\ DropOldest(x, k) \in HistoryObject
           /\ Exact(DropOldest(x, k))
           /\ Trimmed(x, DropOldest(x, k))
           /\ k = Len(x.undo) + Len(x.redo) => ~OverCap(DropOldest(x, k))
<1>. DEFINE du == Dropped(x, k).undo
            dr == Dropped(x, k).redo
            y == DropOldest(x, k)
            uu == StoredUnits(SubSeq(x.undo, 1, du))
            ur == StoredUnits(SubSeq(x.redo, 1, dr))
<1>1. x.undo \in Seq(Entry) /\ x.redo \in Seq(Entry) /\ x.units \in Nat
  BY DEF HistoryObject
<1>2. du \in 0 .. Len(x.undo) /\ dr \in 0 .. Len(x.redo)
  BY DroppedRange
<1>3. /\ y.undo = SubSeq(x.undo, du + 1, Len(x.undo))
      /\ y.redo = SubSeq(x.redo, dr + 1, Len(x.redo))
      /\ y.units = x.units - uu - ur
      /\ y.group = x.group
      /\ y.lastWasTyping = x.lastWasTyping
      /\ y.lastTypingAt = x.lastTypingAt
      /\ (y.undo \in Seq(Entry) /\ y.redo \in Seq(Entry) /\ y.units \in Nat)
            => y \in HistoryObject
  <2>1. y = [x EXCEPT !.undo = SubSeq(x.undo, du + 1, Len(x.undo)),
                      !.redo = SubSeq(x.redo, dr + 1, Len(x.redo)),
                      !.units = x.units - uu - ur]
    BY DEF DropOldest
  <2>. QED
    BY <2>1 DEF HistoryObject
<1>4. k = Len(x.undo) + Len(x.redo) => du = Len(x.undo) /\ dr = Len(x.redo)
  BY DroppedRange
<1>. HIDE DEF du, dr, y
<1>5. /\ SubSeq(x.undo, 1, du) \in Seq(Entry) /\ y.undo \in Seq(Entry)
      /\ StoredUnits(x.undo) = uu + StoredUnits(y.undo)
  BY <1>1, <1>2, <1>3, StoredSplit
<1>6. /\ SubSeq(x.redo, 1, dr) \in Seq(Entry) /\ y.redo \in Seq(Entry)
      /\ StoredUnits(x.redo) = ur + StoredUnits(y.redo)
  BY <1>1, <1>2, <1>3, StoredSplit
<1>7. /\ uu \in Nat /\ ur \in Nat
      /\ StoredUnits(y.undo) \in Nat /\ StoredUnits(y.redo) \in Nat
  BY <1>5, <1>6, PositionsFinite
<1>. HIDE DEF uu, ur
<1>8. x.units = StoredUnits(x.undo) + StoredUnits(x.redo)
  BY DEF Exact
<1>9. y.units = StoredUnits(y.undo) + StoredUnits(y.redo) /\ y.units \in Nat
  <2>. DEFINE ku == StoredUnits(y.undo)
              kr == StoredUnits(y.redo)
  <2>0. x.units = (uu + ku) + (ur + kr)
    BY <1>5, <1>6, <1>8
  <2>1. y.units = ((uu + ku) + (ur + kr)) - uu - ur
    <3>1. y.units = x.units - uu - ur
      BY <1>3
    <3>. QED
      BY <2>0, <3>1, Zenon
  <2>2. ku \in Nat /\ kr \in Nat
    BY <1>7
  <2>. HIDE DEF ku, kr
  <2>3. ((uu + ku) + (ur + kr)) - uu - ur = ku + kr /\ ku + kr \in Nat
    BY <1>7, <2>2
  <2>. QED
    BY <2>1, <2>3 DEF ku, kr
<1>10. y \in HistoryObject
  BY <1>3, <1>5, <1>6, <1>9 DEF HistoryObject
<1>11. Trimmed(x, y)
  BY <1>2, <1>3 DEF Trimmed
<1>12. ASSUME k = Len(x.undo) + Len(x.redo)
       PROVE  ~OverCap(y)
  <2>1. y.undo = <<>> /\ y.redo = <<>>
    BY <1>1, <1>3, <1>4, <1>12, SubSeqEmpty
  <2>2. y.units = 0
    BY <1>9, <2>1, NothingStored
  <2>3. Len(y.undo) + Len(y.redo) = 0
    BY <2>1
  <2>4. ~(0 > MaxEntries) /\ ~(0 > MaxSourceCodeUnits)
    BY LimitsAssumption
  <2>. QED
    BY <2>2, <2>3, <2>4 DEF OverCap
<1>. QED
  BY <1>9, <1>10, <1>11, <1>12 DEF Exact, y

LEMMA TrimKeeps ==
    ASSUME NEW x \in HistoryObject, Exact(x)
    PROVE  /\ Trim(x) \in HistoryObject
           /\ Exact(Trim(x))
           /\ Trimmed(x, Trim(x))
           /\ ~OverCap(Trim(x))
<1>. DEFINE all == Len(x.undo) + Len(x.redo)
            enough == {k \in 0 .. all : k = all \/ ~OverCap(DropOldest(x, k))}
<1>1. all \in Nat
  BY DEF HistoryObject
<1>. HIDE DEF all
<1>2. all \in enough /\ enough \subseteq Nat
  BY <1>1
<1>3. PICK k \in enough : k = Min(enough)
  BY <1>2, MinIsLeast
<1>4. Trim(x) = DropOldest(x, k)
  BY <1>3 DEF Trim, all
<1>5. k \in 0 .. (Len(x.undo) + Len(x.redo))
  BY <1>3 DEF all
<1>6. ~OverCap(DropOldest(x, k))
  BY <1>3, <1>5, DropOldestKeeps DEF all
<1>. QED
  BY <1>4, <1>5, <1>6, DropOldestKeeps

\* Dropping old entries keeps the line of groups, and the newest entry of a
\* stack that still has one.
LEMMA TrimmedOrdered ==
    ASSUME NEW x \in HistoryObject, NEW y \in HistoryObject, Trimmed(x, y), Ordered(x)
    PROVE  /\ Ordered(y)
           /\ y.undo # <<>> => x.undo # <<>> /\ Last(y.undo) = Last(x.undo)
           /\ x.redo = <<>> => y.redo = <<>>
<1>1. x.undo \in Seq(Entry) /\ x.redo \in Seq(Entry) /\ x.group \in Nat
  BY DEF HistoryObject
<1>2. PICK d \in 0 .. Len(x.undo) : y.undo = SubSeq(x.undo, d + 1, Len(x.undo))
  BY DEF Trimmed
<1>3. PICK e \in 0 .. Len(x.redo) : y.redo = SubSeq(x.redo, e + 1, Len(x.redo))
  BY DEF Trimmed
<1>4. /\ y.undo \in Seq(Entry) /\ Len(y.undo) = Len(x.undo) - d
      /\ \A i \in 1 .. Len(y.undo) : i + d \in 1 .. Len(x.undo) /\ y.undo[i] = x.undo[i + d]
  BY <1>1, <1>2, SubSeqProperties
<1>5. /\ y.redo \in Seq(Entry) /\ Len(y.redo) = Len(x.redo) - e
      /\ \A i \in 1 .. Len(y.redo) : i + e \in 1 .. Len(x.redo) /\ y.redo[i] = x.redo[i + e]
  BY <1>1, <1>3, SubSeqProperties
<1>6. y.group = x.group
  BY DEF Trimmed
<1>7. Ordered(y)
  <2>1. /\ \A i, j \in 1 .. Len(y.undo) : i < j => y.undo[i].group < y.undo[j].group
        /\ \A i \in 1 .. Len(y.undo) : y.undo[i].group <= y.group
    <3>1. ASSUME NEW i \in 1 .. Len(y.undo), NEW j \in 1 .. Len(y.undo), i < j
          PROVE  y.undo[i].group < y.undo[j].group
      <4>1. i + d < j + d
        BY <1>1, <1>4, <3>1
      <4>. QED
        BY <1>4, <4>1 DEF Ordered
    <3>2. ASSUME NEW i \in 1 .. Len(y.undo)
          PROVE  y.undo[i].group <= y.group
      BY <1>4, <1>6 DEF Ordered
    <3>. QED
      BY <3>1, <3>2
  <2>2. /\ \A i, j \in 1 .. Len(y.redo) : i < j => y.redo[j].group < y.redo[i].group
        /\ \A i \in 1 .. Len(y.redo) : y.redo[i].group <= y.group
    <3>1. ASSUME NEW i \in 1 .. Len(y.redo), NEW j \in 1 .. Len(y.redo), i < j
          PROVE  y.redo[j].group < y.redo[i].group
      <4>1. i + e < j + e
        BY <1>1, <1>5, <3>1
      <4>. QED
        BY <1>5, <4>1 DEF Ordered
    <3>2. ASSUME NEW i \in 1 .. Len(y.redo)
          PROVE  y.redo[i].group <= y.group
      BY <1>5, <1>6 DEF Ordered
    <3>. QED
      BY <3>1, <3>2
  <2>3. \A i \in 1 .. Len(y.undo), j \in 1 .. Len(y.redo) :
            y.undo[i].group < y.redo[j].group
    BY <1>1, <1>4, <1>5 DEF Ordered
  <2>. QED
    BY <2>1, <2>2, <2>3 DEF Ordered
<1>8. y.undo # <<>> => x.undo # <<>> /\ Last(y.undo) = Last(x.undo)
  <2>1. SUFFICES ASSUME y.undo # <<>>
                 PROVE  x.undo # <<>> /\ Last(y.undo) = Last(x.undo)
    OBVIOUS
  <2>2. Len(y.undo) \in Nat \ {0}
    BY <1>4, <2>1, EmptySeq
  <2>3. y.undo[Len(y.undo)] = x.undo[Len(x.undo)] /\ Len(x.undo) > 0
    <3>1. Len(y.undo) \in 1 .. Len(y.undo)
      BY <2>2
    <3>2. Len(y.undo) + d = Len(x.undo) /\ Len(x.undo) > 0
      BY <1>1, <1>4, <2>2
    <3>. QED
      BY <1>4, <3>1, <3>2
  <2>. QED
    BY <1>1, <2>3, EmptySeq DEF Last
<1>9. x.redo = <<>> => y.redo = <<>>
  BY <1>3, <1>5, EmptySeq
<1>. QED
  BY <1>7, <1>8, <1>9

-----------------------------------------------------------------------------
(* The building blocks of the calls keep the type and the counter.         *)

LEMMA MakeEntry ==
    ASSUME NEW s \in States, NEW g \in Nat
    PROVE  [state |-> s, group |-> g] \in Entry
  BY DEF Entry

LEMMA AddUndoKeeps ==
    ASSUME NEW x \in HistoryObject, Exact(x), NEW s \in States, NEW g \in Nat
    PROVE  /\ AddUndo(x, s, g) \in HistoryObject
           /\ Exact(AddUndo(x, s, g))
<1>. DEFINE e == [state |-> s, group |-> g]
            y == AddUndo(x, s, g)
<1>1. x.undo \in Seq(Entry) /\ x.redo \in Seq(Entry) /\ x.units \in Nat
  BY DEF HistoryObject
<1>2. e \in Entry /\ e.state = s /\ Units[s] \in Nat
  BY MakeEntry, StatesAssumption
<1>3. y = [x EXCEPT !.undo = Append(x.undo, e), !.units = x.units + Units[s]]
  BY DEF AddUndo
<1>. HIDE DEF e, y
<1>4. /\ Append(x.undo, e) \in Seq(Entry)
      /\ StoredUnits(Append(x.undo, e)) = StoredUnits(x.undo) + Units[s]
  BY <1>1, <1>2, StoredAppend
<1>5. /\ y \in HistoryObject
      /\ y.undo = Append(x.undo, e) /\ y.redo = x.redo /\ y.units = x.units + Units[s]
  <2>1. x.units + Units[s] \in Nat
    BY <1>1, <1>2
  <2>. QED
    BY <1>3, <1>4, <2>1 DEF HistoryObject
<1>6. StoredUnits(x.undo) \in Nat /\ StoredUnits(x.redo) \in Nat
  BY <1>1, PositionsFinite
<1>7. x.units = StoredUnits(x.undo) + StoredUnits(x.redo)
  BY DEF Exact
<1>8. y.units = StoredUnits(y.undo) + StoredUnits(y.redo)
  <2>. DEFINE a == StoredUnits(x.undo)
              b == StoredUnits(x.redo)
              n == Units[s]
  <2>1. y.units = (a + b) + n /\ StoredUnits(y.undo) = a + n /\ StoredUnits(y.redo) = b
    BY <1>4, <1>5, <1>7
  <2>2. a \in Nat /\ b \in Nat /\ n \in Nat
    BY <1>2, <1>6
  <2>. HIDE DEF a, b, n
  <2>3. (a + b) + n = (a + n) + b
    BY <2>2
  <2>. QED
    BY <2>1, <2>3
<1>. QED
  BY <1>5, <1>8 DEF Exact, y

LEMMA AddRedoKeeps ==
    ASSUME NEW x \in HistoryObject, Exact(x), NEW s \in States, NEW g \in Nat
    PROVE  /\ AddRedo(x, s, g) \in HistoryObject
           /\ Exact(AddRedo(x, s, g))
<1>. DEFINE e == [state |-> s, group |-> g]
            y == AddRedo(x, s, g)
<1>1. x.undo \in Seq(Entry) /\ x.redo \in Seq(Entry) /\ x.units \in Nat
  BY DEF HistoryObject
<1>2. e \in Entry /\ e.state = s /\ Units[s] \in Nat
  BY MakeEntry, StatesAssumption
<1>3. y = [x EXCEPT !.redo = Append(x.redo, e), !.units = x.units + Units[s]]
  BY DEF AddRedo
<1>. HIDE DEF e, y
<1>4. /\ Append(x.redo, e) \in Seq(Entry)
      /\ StoredUnits(Append(x.redo, e)) = StoredUnits(x.redo) + Units[s]
  BY <1>1, <1>2, StoredAppend
<1>5. /\ y \in HistoryObject
      /\ y.undo = x.undo /\ y.redo = Append(x.redo, e) /\ y.units = x.units + Units[s]
  <2>1. x.units + Units[s] \in Nat
    BY <1>1, <1>2
  <2>. QED
    BY <1>3, <1>4, <2>1 DEF HistoryObject
<1>6. StoredUnits(x.undo) \in Nat /\ StoredUnits(x.redo) \in Nat
  BY <1>1, PositionsFinite
<1>7. x.units = StoredUnits(x.undo) + StoredUnits(x.redo)
  BY DEF Exact
<1>8. y.units = StoredUnits(y.undo) + StoredUnits(y.redo)
  <2>. DEFINE a == StoredUnits(x.undo)
              b == StoredUnits(x.redo)
              n == Units[s]
  <2>1. y.units = (a + b) + n /\ StoredUnits(y.undo) = a /\ StoredUnits(y.redo) = b + n
    BY <1>4, <1>5, <1>7
  <2>2. a \in Nat /\ b \in Nat /\ n \in Nat
    BY <1>2, <1>6
  <2>. HIDE DEF a, b, n
  <2>3. (a + b) + n = a + (b + n)
    BY <2>2
  <2>. QED
    BY <2>1, <2>3
<1>. QED
  BY <1>5, <1>8 DEF Exact, y

LEMMA ClearRedoKeeps ==
    ASSUME NEW x \in HistoryObject, Exact(x)
    PROVE  /\ ClearRedo(x) \in HistoryObject
           /\ Exact(ClearRedo(x))
           /\ ClearRedo(x).redo = <<>>
           /\ ClearRedo(x).undo = x.undo
           /\ ClearRedo(x).group = x.group
<1>. DEFINE y == ClearRedo(x)
            a == StoredUnits(x.undo)
            b == StoredUnits(x.redo)
<1>1. x.undo \in Seq(Entry) /\ x.redo \in Seq(Entry) /\ x.units = a + b
  BY DEF HistoryObject, Exact
<1>2. a \in Nat /\ b \in Nat
  BY <1>1, PositionsFinite
<1>3. y = [x EXCEPT !.redo = <<>>, !.units = x.units - b]
  BY DEF ClearRedo
<1>. HIDE DEF y, a, b
<1>4. x.units - b = a
  BY <1>1, <1>2
<1>5. <<>> \in Seq(Entry)
  BY EmptySeq
<1>6. /\ y \in HistoryObject
      /\ y.redo = <<>> /\ y.undo = x.undo /\ y.group = x.group /\ y.units = a
  BY <1>2, <1>3, <1>4, <1>5 DEF HistoryObject
<1>7. y.units = StoredUnits(y.undo) + StoredUnits(y.redo)
  <2>1. StoredUnits(y.undo) = a /\ StoredUnits(y.redo) = 0
    BY <1>6, NothingStored DEF a
  <2>. QED
    BY <1>2, <1>6, <2>1
<1>. QED
  BY <1>6, <1>7 DEF Exact, y

\* With strictly ordered groups the newest group is the newest entry.
LEMMA TargetIsLast ==
    ASSUME NEW s \in Seq(Entry), s # <<>>,
           \A i \in 1 .. Len(s) - 1 : s[i].group # s[Len(s)].group
    PROVE  TargetIndex(s) = Len(s)
<1>. DEFINE n == Len(s)
            run == {i \in 1 .. n : \A j \in i .. n : s[j].group = Last(s).group}
<1>1. n \in Nat \ {0}
  BY EmptySeq
<1>2. Last(s) = s[n]
  BY DEF Last
<1>. HIDE DEF n
<1>3. \A i \in 1 .. n - 1 : s[i].group # s[n].group
  BY DEF n
<1>4. n \in run
  BY <1>1, <1>2
<1>5. ASSUME NEW i \in run
      PROVE  i = n
  <2>1. i \in 1 .. n /\ i \in i .. n
    BY <1>1
  <2>2. s[i].group = s[n].group
    BY <1>2, <2>1
  <2>3. ~(i \in 1 .. n - 1)
    BY <1>3, <2>2
  <2>. QED
    BY <1>1, <2>1, <2>3
<1>6. run \subseteq Nat /\ run # {}
  <2>1. run \subseteq 1 .. n
    OBVIOUS
  <2>2. 1 .. n \subseteq Nat
    BY <1>1
  <2>. QED
    BY <1>4, <2>1, <2>2, Zenon
<1>. HIDE DEF run
<1>7. Min(run) \in run
  BY <1>6, MinIsLeast
<1>8. Min(run) = n
  BY <1>5, <1>7
<1>. QED
  BY <1>8 DEF TargetIndex, run, n

-----------------------------------------------------------------------------
(* Every call keeps the inductive invariant of the object.                 *)

Good(x) == /\ x \in HistoryObject
           /\ Exact(x)
           /\ Ordered(x)
           /\ OpenIsNewest(x)
           /\ ~OverCap(x)

\* Closing or stamping the open group touches neither stack.
LEMMA SameStacks ==
    ASSUME NEW x, NEW y, y.undo = x.undo, y.redo = x.redo,
           y.units = x.units, y.group = x.group
    PROVE  /\ Exact(x) => Exact(y)
           /\ Ordered(x) => Ordered(y)
           /\ ~OverCap(x) => ~OverCap(y)
  BY Zenon DEF Exact, Ordered, OverCap

LEMMA BreakKeeps ==
    ASSUME NEW x, Good(x)
    PROVE  /\ Good(BreakCoalescing(x))
           /\ BreakCoalescing(x).undo = x.undo
           /\ BreakCoalescing(x).redo = x.redo
           /\ BreakCoalescing(x).lastWasTyping = FALSE
<1>. DEFINE y == BreakCoalescing(x)
<1>1. /\ y \in HistoryObject
      /\ y.undo = x.undo /\ y.redo = x.redo
      /\ y.units = x.units /\ y.group = x.group
      /\ y.lastWasTyping = FALSE
  BY DEF BreakCoalescing, Good, HistoryObject
<1>. HIDE DEF y
<1>2. Exact(y) /\ Ordered(y) /\ ~OverCap(y)
  BY <1>1, SameStacks DEF Good
<1>3. OpenIsNewest(y)
  BY <1>1 DEF OpenIsNewest
<1>. QED
  BY <1>1, <1>2, <1>3 DEF Good, y

\* A history that is well formed but for the caps, with no open group,
\* becomes good by trimming.
LEMMA TrimMakesGood ==
    ASSUME NEW x \in HistoryObject, Exact(x), Ordered(x), x.lastWasTyping = FALSE
    PROVE  Good(Trim(x))
<1>1. /\ Trim(x) \in HistoryObject /\ Exact(Trim(x))
      /\ Trimmed(x, Trim(x)) /\ ~OverCap(Trim(x))
  BY TrimKeeps
<1>2. Ordered(Trim(x))
  BY <1>1, TrimmedOrdered
<1>3. OpenIsNewest(Trim(x))
  BY <1>1 DEF Trimmed, OpenIsNewest
<1>. QED
  BY <1>1, <1>2, <1>3 DEF Good

LEMMA GroupType ==
    ASSUME NEW s \in Seq(Entry), NEW i \in 1 .. Len(s)
    PROVE  s[i].group \in Nat /\ s[i].state \in States
<1>1. s[i] \in Entry
  BY ElementOfSeq
<1>. QED
  BY <1>1 DEF Entry

\* What recordState has before it trims: nothing to redo, and the newest
\* entry belongs to the open group, which a change that joins nothing has
\* opened with its state.
LEMMA RecordOpens ==
    ASSUME NEW x, Good(x), NEW s \in States, NEW typing \in BOOLEAN, NEW at \in Times
    PROVE  LET z == ClearRedo(IF Joins(x, typing, at) THEN x ELSE OpenGroup(x, s))
           IN  /\ z \in HistoryObject /\ Exact(z) /\ Ordered(z)
               /\ z.redo = <<>> /\ z.undo # <<>> /\ Last(z.undo).group = z.group
               /\ ~Joins(x, typing, at) => Last(z.undo).state = s
               /\ z.group = IF Joins(x, typing, at) THEN x.group ELSE x.group + 1
<1>. DEFINE z == ClearRedo(IF Joins(x, typing, at) THEN x ELSE OpenGroup(x, s))
<1>0. /\ x \in HistoryObject /\ Exact(x) /\ Ordered(x)
      /\ x.undo \in Seq(Entry) /\ x.group \in Nat
  BY DEF Good, HistoryObject
<1>1. CASE Joins(x, typing, at)
  <2>1. /\ z = ClearRedo(x)
        /\ x.undo # <<>> /\ Last(x.undo).group = x.group
    BY <1>1 DEF Joins
  <2>2. /\ z \in HistoryObject /\ Exact(z)
        /\ z.redo = <<>> /\ z.undo = x.undo /\ z.group = x.group
    BY <1>0, <2>1, ClearRedoKeeps
  <2>. HIDE DEF z
  <2>3. Len(z.redo) = 0
    BY <2>2
  <2>4. Ordered(z)
    BY <1>0, <2>2, <2>3 DEF Ordered
  <2>. QED
    BY <1>1, <2>1, <2>2, <2>4 DEF z
<1>2. CASE ~Joins(x, typing, at)
  <2>. DEFINE b == [x EXCEPT !.group = x.group + 1]
              o == AddUndo(b, s, x.group + 1)
              e == [state |-> s, group |-> x.group + 1]
  <2>1. z = ClearRedo(o)
    BY <1>2 DEF OpenGroup
  <2>2. /\ b \in HistoryObject /\ x.group + 1 \in Nat
        /\ b.undo = x.undo /\ b.redo = x.redo /\ b.units = x.units
        /\ b.group = x.group + 1
    <3>1. x.group + 1 \in Nat
      BY <1>0
    <3>. QED
      BY <1>0, <3>1 DEF HistoryObject
  <2>3. Exact(b)
    BY <1>0, <2>2 DEF Exact
  <2>4. /\ o.undo = Append(x.undo, e) /\ o.group = x.group + 1
        /\ o \in HistoryObject /\ Exact(o)
    <3>. HIDE DEF b
    <3>1. o \in HistoryObject /\ Exact(o)
      BY <2>2, <2>3, AddUndoKeeps
    <3>2. o.undo = Append(b.undo, e) /\ o.group = b.group
      BY <2>2 DEF AddUndo, HistoryObject
    <3>. QED
      BY <2>2, <3>1, <3>2
  <2>. HIDE DEF z, o, b
  <2>5. /\ z \in HistoryObject /\ Exact(z)
        /\ z.redo = <<>> /\ z.undo = Append(x.undo, e) /\ z.group = x.group + 1
    BY <2>1, <2>4, ClearRedoKeeps
  <2>6. e \in Entry /\ e.group = x.group + 1 /\ e.state = s
    BY <2>2, MakeEntry
  <2>. HIDE DEF e
  <2>7. /\ z.undo # <<>> /\ Len(z.undo) = Len(x.undo) + 1
        /\ \A i \in 1 .. Len(x.undo) : z.undo[i] = x.undo[i]
        /\ z.undo[Len(x.undo) + 1] = e
    BY <1>0, <2>5, <2>6, AppendProperties
  <2>8. Len(x.undo) \in Nat /\ \A i \in 1 .. Len(x.undo) : x.undo[i].group \in Nat
    BY <1>0, GroupType
  <2>9. ASSUME NEW i \in 1 .. Len(z.undo)
        PROVE  z.undo[i].group <= z.group
    BY <1>0, <2>5, <2>6, <2>7, <2>8 DEF Ordered
  <2>10. ASSUME NEW i \in 1 .. Len(z.undo), NEW j \in 1 .. Len(z.undo), i < j
         PROVE  z.undo[i].group < z.undo[j].group
    <3>1. i \in 1 .. Len(x.undo)
      BY <2>7, <2>8, <2>10
    <3>2. CASE j \in 1 .. Len(x.undo)
      BY <1>0, <2>7, <2>10, <3>1, <3>2 DEF Ordered
    <3>3. CASE j = Len(x.undo) + 1
      <4>1. z.undo[j].group = x.group + 1 /\ z.undo[i].group <= x.group
        BY <1>0, <2>6, <2>7, <3>1, <3>3 DEF Ordered
      <4>2. z.undo[i].group \in Nat
        BY <2>7, <2>8, <3>1
      <4>. QED
        BY <1>0, <4>1, <4>2
    <3>. QED
      BY <2>7, <2>8, <3>2, <3>3
  <2>11. Len(z.redo) = 0
    BY <2>5
  <2>12. Ordered(z)
    BY <2>9, <2>10, <2>11 DEF Ordered
  <2>13. Last(z.undo).group = z.group /\ Last(z.undo).state = s
    BY <2>5, <2>6, <2>7 DEF Last
  <2>. QED
    BY <1>2, <2>5, <2>7, <2>12, <2>13 DEF z
<1>. QED
  BY <1>1, <1>2

LEMMA RecordKeeps ==
    ASSUME NEW x, Good(x), NEW s \in States, NEW typing \in BOOLEAN, NEW at \in Times
    PROVE  LET y == RecordState(x, s, typing, at)
           IN  /\ Good(y)
               /\ ~Joins(x, typing, at) /\ y.undo # <<>> => Last(y.undo).state = s
               /\ y.group = IF Joins(x, typing, at) THEN x.group ELSE x.group + 1
               /\ y.lastWasTyping <=> typing /\ y.undo # <<>>
               /\ y.lastWasTyping => y.lastTypingAt = at
<1>. DEFINE z == ClearRedo(IF Joins(x, typing, at) THEN x ELSE OpenGroup(x, s))
            t == Trim(z)
            stamped == [t EXCEPT !.lastWasTyping = typing, !.lastTypingAt = at]
            y == RecordState(x, s, typing, at)
            closed == stamped.undo = <<>> \/ Last(stamped.undo).group # stamped.group
<1>1. /\ z \in HistoryObject /\ Exact(z) /\ Ordered(z)
      /\ z.redo = <<>> /\ z.undo # <<>> /\ Last(z.undo).group = z.group
      /\ ~Joins(x, typing, at) => Last(z.undo).state = s
      /\ z.group = IF Joins(x, typing, at) THEN x.group ELSE x.group + 1
  BY RecordOpens
<1>2. y = IF closed THEN BreakCoalescing(stamped) ELSE stamped
  BY DEF RecordState
<1>. HIDE DEF z, y
<1>3. t \in HistoryObject /\ Exact(t) /\ Trimmed(z, t) /\ ~OverCap(t)
  BY <1>1, TrimKeeps
<1>. HIDE DEF t
<1>4. /\ Ordered(t) /\ t.redo = <<>> /\ t.group = z.group
      /\ t.undo # <<>> => Last(t.undo) = Last(z.undo)
  BY <1>1, <1>3, TrimmedOrdered DEF Trimmed
<1>5. /\ stamped \in HistoryObject
      /\ stamped.undo = t.undo /\ stamped.redo = t.redo
      /\ stamped.units = t.units /\ stamped.group = t.group
      /\ stamped.lastWasTyping = typing /\ stamped.lastTypingAt = at
  BY <1>3 DEF HistoryObject
<1>. HIDE DEF stamped
<1>6. /\ y \in HistoryObject
      /\ y.undo = t.undo /\ y.redo = t.redo
      /\ y.units = t.units /\ y.group = t.group
      /\ y.lastWasTyping => ~closed /\ y.lastTypingAt = at
      /\ y.lastWasTyping <=> typing /\ ~closed
  <2>1. CASE closed
    <3>1. y = [stamped EXCEPT !.lastWasTyping = FALSE, !.lastTypingAt = None]
      BY <1>2, <2>1 DEF BreakCoalescing
    <3>2. FALSE \in BOOLEAN /\ None \in Times \cup {None}
      OBVIOUS
    <3>. HIDE DEF closed
    <3>3. /\ y \in HistoryObject
          /\ y.undo = stamped.undo /\ y.redo = stamped.redo
          /\ y.units = stamped.units /\ y.group = stamped.group
          /\ y.lastWasTyping = FALSE
      BY <1>5, <3>1, <3>2 DEF HistoryObject
    <3>4. y.lastWasTyping <=> typing /\ ~closed
      BY <2>1, <3>3, Zenon
    <3>. QED
      BY <1>5, <2>1, <3>3, <3>4
  <2>2. CASE ~closed
    <3>1. y = stamped
      BY <1>2, <2>2
    <3>. HIDE DEF closed
    <3>2. y.lastWasTyping <=> typing /\ ~closed
      BY <1>5, <2>2, <3>1, Zenon
    <3>. QED
      BY <1>5, <2>2, <3>1, <3>2
  <2>. QED
    BY <2>1, <2>2
<1>7. Exact(y) /\ Ordered(y) /\ ~OverCap(y)
  BY <1>3, <1>4, <1>6, SameStacks
<1>8. OpenIsNewest(y)
  <2>1. at # None
    BY TimesAssumption
  <2>. QED
    BY <1>4, <1>5, <1>6, <2>1 DEF OpenIsNewest
<1>9. ~Joins(x, typing, at) /\ y.undo # <<>> => Last(y.undo).state = s
  BY <1>1, <1>4, <1>6
<1>10. closed <=> y.undo = <<>>
  <2>1. t.undo # <<>> => Last(t.undo).group = t.group
    BY <1>1, <1>4
  <2>. QED
    BY <1>5, <1>6, <2>1
<1>. HIDE DEF closed
<1>11. y.lastWasTyping <=> typing /\ y.undo # <<>>
  BY <1>6, <1>10
<1>12. y.group = IF Joins(x, typing, at) THEN x.group ELSE x.group + 1
  BY <1>1, <1>4, <1>6
<1>. QED
  BY <1>6, <1>7, <1>8, <1>9, <1>11, <1>12 DEF Good, y

LEMMA OneEntry ==
    ASSUME NEW s \in Seq(Entry), NEW i \in 1 .. Len(s)
    PROVE  SubSeq(s, i, i) = <<s[i]>>
<1>1. s[i] \in Entry
  BY ElementOfSeq
<1>2. i \in Int /\ \A j \in i .. i : s[j] \in Entry
  BY <1>1
<1>3. /\ SubSeq(s, i, i) \in Seq(Entry)
      /\ Len(SubSeq(s, i, i)) = IF i <= i THEN i - i + 1 ELSE 0
      /\ \A j \in 1 .. i - i + 1 : SubSeq(s, i, i)[j] = s[i + j - 1]
  BY <1>2, SubSeqProperties
<1>4. Len(SubSeq(s, i, i)) = 1 /\ SubSeq(s, i, i)[1] = s[i]
  <2>1. i - i + 1 = 1 /\ i + 1 - 1 = i /\ i <= i
    BY <1>2
  <2>2. Len(SubSeq(s, i, i)) = 1
    BY <1>3, <2>1
  <2>3. 1 \in 1 .. i - i + 1
    BY <2>1
  <2>. QED
    BY <1>3, <2>1, <2>2, <2>3
<1>5. <<s[i]>> \in Seq(Entry) /\ Len(<<s[i]>>) = 1 /\ <<s[i]>>[1] = s[i]
  BY <1>1
<1>6. \A j \in 1 .. 1 : SubSeq(s, i, i)[j] = <<s[i]>>[j]
  BY <1>4, <1>5
<1>. QED
  BY <1>3, <1>4, <1>5, <1>6, SeqEqual

\* What undoState has before it trims: the newest undo entry has become a
\* redo entry that holds the state undone.
Undone(x, s) ==
    AddRedo([x EXCEPT !.lastWasTyping = FALSE, !.lastTypingAt = None,
                      !.undo = SubSeq(x.undo, 1, Len(x.undo) - 1),
                      !.units = x.units - Units[x.undo[Len(x.undo)].state]],
            s, x.undo[Len(x.undo)].group)

LEMMA UndoMoves ==
    ASSUME NEW x, Good(x), x.undo # <<>>, NEW s \in States
    PROVE  LET z == Undone(x, s)
               top == x.undo[Len(x.undo)]
           IN  /\ UndoState(x, s) = Trim(z)
               /\ z \in HistoryObject /\ Exact(z) /\ Ordered(z)
               /\ z.lastWasTyping = FALSE
               /\ z.undo = SubSeq(x.undo, 1, Len(x.undo) - 1)
               /\ z.redo = Append(x.redo, [state |-> s, group |-> top.group])
               /\ TargetIndex(x.undo) = Len(x.undo)
               /\ TargetOf(x.undo) = top /\ top \in Entry
<1>. DEFINE n == Len(x.undo)
            front == SubSeq(x.undo, 1, n - 1)
            top == x.undo[n]
            p == [x EXCEPT !.lastWasTyping = FALSE, !.lastTypingAt = None,
                           !.undo = front, !.units = x.units - Units[top.state]]
            z == AddRedo(p, s, top.group)
<1>1. /\ x \in HistoryObject /\ Exact(x) /\ Ordered(x)
      /\ x.undo \in Seq(Entry) /\ x.redo \in Seq(Entry) /\ x.units \in Nat
  BY DEF Good, HistoryObject
<1>2. n \in Nat \ {0} /\ n \in 1 .. n /\ n - 1 \in 0 .. n
  BY <1>1, EmptySeq
<1>3. top \in Entry /\ top.group \in Nat /\ top.state \in States
  BY <1>1, <1>2, GroupType, ElementOfSeq
<1>4. \A i \in 1 .. n : x.undo[i].group \in Nat
  BY <1>1, GroupType
<1>5. TargetIndex(x.undo) = n
  <2>1. \A i \in 1 .. n - 1 : x.undo[i].group # x.undo[n].group
    <3>1. ASSUME NEW i \in 1 .. n - 1
          PROVE  x.undo[i].group # x.undo[n].group
      <4>1. i \in 1 .. n /\ i < n
        BY <1>2
      <4>2. x.undo[i].group < x.undo[n].group
        BY <1>1, <1>2, <4>1 DEF Ordered
      <4>. QED
        BY <1>2, <1>4, <4>1, <4>2
    <3>. QED
      BY <3>1
  <2>. QED
    BY <1>1, <2>1, TargetIsLast
<1>6. /\ front \in Seq(Entry) /\ Len(front) = n - 1
      /\ \A i \in 1 .. n - 1 : front[i] = x.undo[i]
  <2>1. \A i \in 1 .. n - 1 : x.undo[i] \in Entry
    BY <1>1, <1>2, ElementOfSeq
  <2>. QED
    BY <1>2, <2>1, SubSeqProperties
<1>7. SubSeq(x.undo, n, n) = <<top>>
  BY <1>1, <1>2, OneEntry
<1>8. StoredUnits(x.undo) = StoredUnits(front) + Units[top.state] /\ Units[top.state] \in Nat
  <2>1. StoredUnits(x.undo) = StoredUnits(SubSeq(x.undo, 1, n - 1))
                              + StoredUnits(SubSeq(x.undo, (n - 1) + 1, n))
    BY <1>1, <1>2, StoredSplit
  <2>2. (n - 1) + 1 = n
    BY <1>2
  <2>. QED
    BY <1>3, <1>7, <2>1, <2>2, StoredOne
<1>9. UndoState(x, s) = Trim(z)
  <2>1. /\ SubSeq(x.undo, TargetIndex(x.undo), Len(x.undo)) = <<top>>
        /\ SubSeq(x.undo, 1, TargetIndex(x.undo) - 1) = front
        /\ Last(x.undo) = top
    BY <1>5, <1>7 DEF Last
  <2>2. StoredUnits(<<top>>) = Units[top.state]
    BY <1>3, StoredOne
  <2>. QED
    BY <2>1, <2>2 DEF UndoState, BreakCoalescing
<1>10. StoredUnits(front) \in Nat /\ StoredUnits(x.redo) \in Nat
  BY <1>1, <1>6, PositionsFinite
<1>11. x.units - Units[top.state] = StoredUnits(front) + StoredUnits(x.redo)
  <2>. DEFINE a == StoredUnits(front)
              b == StoredUnits(x.redo)
              c == Units[top.state]
  <2>1. x.units = (a + c) + b
    BY <1>1, <1>8 DEF Exact
  <2>2. a \in Nat /\ b \in Nat /\ c \in Nat
    BY <1>8, <1>10
  <2>. HIDE DEF a, b, c
  <2>3. ((a + c) + b) - c = a + b
    BY <2>2
  <2>. QED
    BY <2>1, <2>3 DEF a, b, c
<1>12. StoredUnits(front) + StoredUnits(x.redo) \in Nat
  BY <1>10
<1>. HIDE DEF front
<1>13. /\ p \in HistoryObject
       /\ p.undo = front /\ p.redo = x.redo /\ p.group = x.group
       /\ p.units = StoredUnits(front) + StoredUnits(x.redo)
       /\ p.lastWasTyping = FALSE
  BY <1>1, <1>6, <1>11, <1>12 DEF HistoryObject
<1>. HIDE DEF p
<1>14. Exact(p)
  BY <1>13 DEF Exact
<1>15. z \in HistoryObject /\ Exact(z)
  BY <1>3, <1>13, <1>14, AddRedoKeeps
<1>. DEFINE e == [state |-> s, group |-> top.group]
<1>16. /\ z.undo = front /\ z.redo = Append(x.redo, e) /\ z.group = x.group
       /\ z.lastWasTyping = FALSE
  BY <1>13 DEF AddRedo, HistoryObject
<1>17. e \in Entry /\ e.group = top.group
  BY <1>3, MakeEntry
<1>. HIDE DEF z, e
<1>18. /\ Len(z.redo) = Len(x.redo) + 1 /\ Len(x.redo) \in Nat
       /\ \A i \in 1 .. Len(x.redo) : z.redo[i] = x.redo[i]
       /\ z.redo[Len(x.redo) + 1] = e
  BY <1>1, <1>16, <1>17, AppendProperties
<1>19. Ordered(z)
  <2>1. ASSUME NEW i \in 1 .. Len(z.undo)
        PROVE  i \in 1 .. n /\ i < n /\ z.undo[i] = x.undo[i]
    BY <1>2, <1>6, <1>16
  <2>2. ASSUME NEW j \in 1 .. Len(z.redo)
        PROVE  \/ j \in 1 .. Len(x.redo) /\ z.redo[j] = x.redo[j]
               \/ j = Len(x.redo) + 1 /\ z.redo[j].group = top.group
    BY <1>17, <1>18
  <2>3. \A i, j \in 1 .. Len(z.undo) : i < j => z.undo[i].group < z.undo[j].group
    BY <1>1, <2>1 DEF Ordered
  <2>4. \A i, j \in 1 .. Len(z.redo) : i < j => z.redo[j].group < z.redo[i].group
    <3>1. ASSUME NEW i \in 1 .. Len(z.redo), NEW j \in 1 .. Len(z.redo), i < j
          PROVE  z.redo[j].group < z.redo[i].group
      <4>1. i \in 1 .. Len(x.redo) /\ z.redo[i] = x.redo[i]
        BY <1>18, <3>1
      <4>2. CASE j \in 1 .. Len(x.redo) /\ z.redo[j] = x.redo[j]
        BY <1>1, <3>1, <4>1, <4>2 DEF Ordered
      <4>3. CASE j = Len(x.redo) + 1 /\ z.redo[j].group = top.group
        BY <1>1, <1>2, <4>1, <4>3 DEF Ordered
      <4>. QED
        BY <2>2, <4>2, <4>3
    <3>. QED
      BY <3>1
  <2>5. ASSUME NEW i \in 1 .. Len(z.undo), NEW j \in 1 .. Len(z.redo)
        PROVE  z.undo[i].group < z.redo[j].group
    BY <1>1, <1>2, <2>1, <2>2 DEF Ordered
  <2>6. \A i \in 1 .. Len(z.undo) : z.undo[i].group <= z.group
    BY <1>1, <1>16, <2>1 DEF Ordered
  <2>7. \A j \in 1 .. Len(z.redo) : z.redo[j].group <= z.group
    BY <1>1, <1>2, <1>16, <2>2 DEF Ordered
  <2>. QED
    BY <2>3, <2>4, <2>5, <2>6, <2>7 DEF Ordered
<1>20. TargetOf(x.undo) = top
  BY <1>5 DEF TargetOf
<1>21. z = Undone(x, s)
  BY DEF Undone, z, p, front
<1>22. /\ UndoState(x, s) = Trim(z)
       /\ z \in HistoryObject /\ Exact(z) /\ Ordered(z)
       /\ z.lastWasTyping = FALSE
       /\ z.undo = SubSeq(x.undo, 1, Len(x.undo) - 1)
       /\ z.redo = Append(x.redo, [state |-> s, group |-> top.group])
  BY <1>9, <1>15, <1>16, <1>19 DEF front, e
<1>. QED
  BY <1>3, <1>5, <1>20, <1>21, <1>22

LEMMA UndoKeeps ==
    ASSUME NEW x, Good(x), x.undo # <<>>, NEW s \in States
    PROVE  /\ Good(UndoState(x, s))
           /\ TargetIndex(x.undo) = Len(x.undo)
           /\ TargetOf(x.undo).state \in States
           /\ UndoState(x, s).lastWasTyping = FALSE
<1>. DEFINE z == Undone(x, s)
<1>1. /\ UndoState(x, s) = Trim(z)
      /\ z \in HistoryObject /\ Exact(z) /\ Ordered(z) /\ z.lastWasTyping = FALSE
      /\ TargetIndex(x.undo) = Len(x.undo) /\ TargetOf(x.undo) \in Entry
  BY UndoMoves
<1>. HIDE DEF z
<1>2. Good(Trim(z)) /\ Trim(z).lastWasTyping = FALSE
  BY <1>1, TrimMakesGood, TrimKeeps DEF Trimmed
<1>. QED
  BY <1>1, <1>2 DEF Entry

\* A change that is not typing is what undo would go back over next.
LEMMA RecordTarget ==
    ASSUME NEW x, Good(x), NEW s \in States, NEW at \in Times,
           RecordState(x, s, FALSE, at).undo # <<>>
    PROVE  TargetOf(RecordState(x, s, FALSE, at).undo).state = s
<1>. DEFINE y == RecordState(x, s, FALSE, at)
<1>1. Good(y) /\ Last(y.undo).state = s
  <2>1. ~Joins(x, FALSE, at)
    BY DEF Joins
  <2>. QED
    BY <2>1, RecordKeeps
<1>. HIDE DEF y
<1>2. TargetIndex(y.undo) = Len(y.undo)
  BY <1>1, UndoKeeps DEF y
<1>. QED
  BY <1>1, <1>2 DEF TargetOf, Last, y

\* What redoState has before it trims: the newest redo entry has become an
\* undo entry that holds the state left.
Redone(x, s) ==
    AddUndo([x EXCEPT !.lastWasTyping = FALSE, !.lastTypingAt = None,
                      !.redo = SubSeq(x.redo, 1, Len(x.redo) - 1),
                      !.units = x.units - Units[x.redo[Len(x.redo)].state]],
            s, x.redo[Len(x.redo)].group)

LEMMA RedoMoves ==
    ASSUME NEW x, Good(x), x.redo # <<>>, NEW s \in States
    PROVE  LET z == Redone(x, s)
               top == x.redo[Len(x.redo)]
           IN  /\ RedoState(x, s) = Trim(z)
               /\ z \in HistoryObject /\ Exact(z) /\ Ordered(z)
               /\ z.lastWasTyping = FALSE
               /\ z.redo = SubSeq(x.redo, 1, Len(x.redo) - 1)
               /\ z.undo = Append(x.undo, [state |-> s, group |-> top.group])
               /\ TargetIndex(x.redo) = Len(x.redo)
               /\ TargetOf(x.redo) = top /\ top \in Entry
<1>. DEFINE n == Len(x.redo)
            front == SubSeq(x.redo, 1, n - 1)
            top == x.redo[n]
            p == [x EXCEPT !.lastWasTyping = FALSE, !.lastTypingAt = None,
                           !.redo = front, !.units = x.units - Units[top.state]]
            z == AddUndo(p, s, top.group)
<1>1. /\ x \in HistoryObject /\ Exact(x) /\ Ordered(x)
      /\ x.redo \in Seq(Entry) /\ x.undo \in Seq(Entry) /\ x.units \in Nat
  BY DEF Good, HistoryObject
<1>2. n \in Nat \ {0} /\ n \in 1 .. n /\ n - 1 \in 0 .. n
  BY <1>1, EmptySeq
<1>3. top \in Entry /\ top.group \in Nat /\ top.state \in States
  BY <1>1, <1>2, GroupType, ElementOfSeq
<1>4. \A i \in 1 .. n : x.redo[i].group \in Nat
  BY <1>1, GroupType
<1>5. TargetIndex(x.redo) = n
  <2>1. \A i \in 1 .. n - 1 : x.redo[i].group # x.redo[n].group
    <3>1. ASSUME NEW i \in 1 .. n - 1
          PROVE  x.redo[i].group # x.redo[n].group
      <4>1. i \in 1 .. n /\ i < n
        BY <1>2
      <4>2. x.redo[n].group < x.redo[i].group
        BY <1>1, <1>2, <4>1 DEF Ordered
      <4>. QED
        BY <1>2, <1>4, <4>1, <4>2
    <3>. QED
      BY <3>1
  <2>. QED
    BY <1>1, <2>1, TargetIsLast
<1>6. /\ front \in Seq(Entry) /\ Len(front) = n - 1
      /\ \A i \in 1 .. n - 1 : front[i] = x.redo[i]
  <2>1. \A i \in 1 .. n - 1 : x.redo[i] \in Entry
    BY <1>1, <1>2, ElementOfSeq
  <2>. QED
    BY <1>2, <2>1, SubSeqProperties
<1>7. SubSeq(x.redo, n, n) = <<top>>
  BY <1>1, <1>2, OneEntry
<1>8. StoredUnits(x.redo) = StoredUnits(front) + Units[top.state] /\ Units[top.state] \in Nat
  <2>1. StoredUnits(x.redo) = StoredUnits(SubSeq(x.redo, 1, n - 1))
                              + StoredUnits(SubSeq(x.redo, (n - 1) + 1, n))
    BY <1>1, <1>2, StoredSplit
  <2>2. (n - 1) + 1 = n
    BY <1>2
  <2>. QED
    BY <1>3, <1>7, <2>1, <2>2, StoredOne
<1>9. RedoState(x, s) = Trim(z)
  <2>1. Last(x.redo) = top
    BY DEF Last
  <2>. QED
    BY <2>1 DEF RedoState, BreakCoalescing
<1>10. StoredUnits(front) \in Nat /\ StoredUnits(x.undo) \in Nat
  BY <1>1, <1>6, PositionsFinite
<1>11. x.units - Units[top.state] = StoredUnits(x.undo) + StoredUnits(front)
  <2>. DEFINE a == StoredUnits(front)
              b == StoredUnits(x.undo)
              c == Units[top.state]
  <2>1. x.units = b + (a + c)
    BY <1>1, <1>8 DEF Exact
  <2>2. a \in Nat /\ b \in Nat /\ c \in Nat
    BY <1>8, <1>10
  <2>. HIDE DEF a, b, c
  <2>3. (b + (a + c)) - c = b + a
    BY <2>2
  <2>. QED
    BY <2>1, <2>3 DEF a, b, c
<1>12. StoredUnits(x.undo) + StoredUnits(front) \in Nat
  BY <1>10
<1>. HIDE DEF front
<1>13. /\ p \in HistoryObject
       /\ p.redo = front /\ p.undo = x.undo /\ p.group = x.group
       /\ p.units = StoredUnits(x.undo) + StoredUnits(front)
       /\ p.lastWasTyping = FALSE
  BY <1>1, <1>6, <1>11, <1>12 DEF HistoryObject
<1>. HIDE DEF p
<1>14. Exact(p)
  BY <1>13 DEF Exact
<1>15. z \in HistoryObject /\ Exact(z)
  BY <1>3, <1>13, <1>14, AddUndoKeeps
<1>. DEFINE e == [state |-> s, group |-> top.group]
<1>16. /\ z.redo = front /\ z.undo = Append(x.undo, e) /\ z.group = x.group
       /\ z.lastWasTyping = FALSE
  BY <1>13 DEF AddUndo, HistoryObject
<1>17. e \in Entry /\ e.group = top.group
  BY <1>3, MakeEntry
<1>. HIDE DEF z, e
<1>18. /\ Len(z.undo) = Len(x.undo) + 1 /\ Len(x.undo) \in Nat
       /\ \A i \in 1 .. Len(x.undo) : z.undo[i] = x.undo[i]
       /\ z.undo[Len(x.undo) + 1] = e
  BY <1>1, <1>16, <1>17, AppendProperties
<1>19. Ordered(z)
  <2>1. ASSUME NEW i \in 1 .. Len(z.redo)
        PROVE  i \in 1 .. n /\ i < n /\ z.redo[i] = x.redo[i]
    BY <1>2, <1>6, <1>16
  <2>2. ASSUME NEW j \in 1 .. Len(z.undo)
        PROVE  \/ j \in 1 .. Len(x.undo) /\ z.undo[j] = x.undo[j]
               \/ j = Len(x.undo) + 1 /\ z.undo[j].group = top.group
    BY <1>17, <1>18
  <2>3. \A i, j \in 1 .. Len(z.redo) : i < j => z.redo[j].group < z.redo[i].group
    BY <1>1, <2>1 DEF Ordered
  <2>4. \A i, j \in 1 .. Len(z.undo) : i < j => z.undo[i].group < z.undo[j].group
    <3>1. ASSUME NEW i \in 1 .. Len(z.undo), NEW j \in 1 .. Len(z.undo), i < j
          PROVE  z.undo[i].group < z.undo[j].group
      <4>1. i \in 1 .. Len(x.undo) /\ z.undo[i] = x.undo[i]
        BY <1>18, <3>1
      <4>2. CASE j \in 1 .. Len(x.undo) /\ z.undo[j] = x.undo[j]
        BY <1>1, <3>1, <4>1, <4>2 DEF Ordered
      <4>3. CASE j = Len(x.undo) + 1 /\ z.undo[j].group = top.group
        BY <1>1, <1>2, <4>1, <4>3 DEF Ordered
      <4>. QED
        BY <2>2, <4>2, <4>3
    <3>. QED
      BY <3>1
  <2>5. ASSUME NEW i \in 1 .. Len(z.undo), NEW j \in 1 .. Len(z.redo)
        PROVE  z.undo[i].group < z.redo[j].group
    BY <1>1, <1>2, <2>1, <2>2 DEF Ordered
  <2>6. \A i \in 1 .. Len(z.redo) : z.redo[i].group <= z.group
    BY <1>1, <1>16, <2>1 DEF Ordered
  <2>7. \A j \in 1 .. Len(z.undo) : z.undo[j].group <= z.group
    BY <1>1, <1>2, <1>16, <2>2 DEF Ordered
  <2>. QED
    BY <2>3, <2>4, <2>5, <2>6, <2>7 DEF Ordered
<1>20. TargetOf(x.redo) = top
  BY <1>5 DEF TargetOf
<1>21. z = Redone(x, s)
  BY DEF Redone, z, p, front
<1>22. /\ RedoState(x, s) = Trim(z)
       /\ z \in HistoryObject /\ Exact(z) /\ Ordered(z)
       /\ z.lastWasTyping = FALSE
       /\ z.redo = SubSeq(x.redo, 1, Len(x.redo) - 1)
       /\ z.undo = Append(x.undo, [state |-> s, group |-> top.group])
  BY <1>9, <1>15, <1>16, <1>19 DEF front, e
<1>. QED
  BY <1>3, <1>5, <1>20, <1>21, <1>22

LEMMA RedoKeeps ==
    ASSUME NEW x, Good(x), x.redo # <<>>, NEW s \in States
    PROVE  /\ Good(RedoState(x, s))
           /\ TargetIndex(x.redo) = Len(x.redo)
           /\ TargetOf(x.redo).state \in States
           /\ RedoState(x, s).lastWasTyping = FALSE
<1>. DEFINE z == Redone(x, s)
<1>1. /\ RedoState(x, s) = Trim(z)
      /\ z \in HistoryObject /\ Exact(z) /\ Ordered(z) /\ z.lastWasTyping = FALSE
      /\ TargetIndex(x.redo) = Len(x.redo) /\ TargetOf(x.redo) \in Entry
  BY RedoMoves
<1>. HIDE DEF z
<1>2. Good(Trim(z)) /\ Trim(z).lastWasTyping = FALSE
  BY <1>1, TrimMakesGood, TrimKeeps DEF Trimmed
<1>. QED
  BY <1>1, <1>2 DEF Entry

LEMMA ClearKeeps ==
    ASSUME NEW x, Good(x)
    PROVE  Good(Clear(x))
<1>. DEFINE a == StoredUnits(x.undo)
            b == StoredUnits(x.redo)
            y == Clear(x)
<1>1. /\ x \in HistoryObject
      /\ x.undo \in Seq(Entry) /\ x.redo \in Seq(Entry) /\ x.units = a + b
  BY DEF Good, HistoryObject, Exact
<1>2. a \in Nat /\ b \in Nat
  BY <1>1, PositionsFinite
<1>3. y = [x EXCEPT !.undo = <<>>, !.redo = <<>>, !.units = x.units - a - b,
                    !.lastWasTyping = FALSE, !.lastTypingAt = None]
  BY DEF Clear, BreakCoalescing
<1>. HIDE DEF a, b, y
<1>4. x.units - a - b = 0
  BY <1>1, <1>2
<1>5. <<>> \in Seq(Entry)
  BY EmptySeq
<1>6. /\ y \in HistoryObject
      /\ y.undo = <<>> /\ y.redo = <<>> /\ y.units = 0 /\ y.lastWasTyping = FALSE
  <2>1. y = [x EXCEPT !.undo = <<>>, !.redo = <<>>, !.units = 0,
                      !.lastWasTyping = FALSE, !.lastTypingAt = None]
    BY <1>3, <1>4
  <2>. QED
    BY <1>1, <1>5, <2>1 DEF HistoryObject
<1>7. Len(y.undo) = 0 /\ Len(y.redo) = 0
  BY <1>6
<1>8. Exact(y)
  BY <1>6, NothingStored DEF Exact
<1>9. Ordered(y) /\ OpenIsNewest(y)
  BY <1>6, <1>7 DEF Ordered, OpenIsNewest
<1>10. ~OverCap(y)
  <2>1. ~(0 + 0 > MaxEntries) /\ ~(0 > MaxSourceCodeUnits)
    BY LimitsAssumption
  <2>. QED
    BY <1>6, <1>7, <2>1 DEF OverCap
<1>. QED
  BY <1>6, <1>8, <1>9, <1>10 DEF Good, y

-----------------------------------------------------------------------------
(* The inductive invariant of the specification and the theorems.          *)

IInv == Good(h) /\ current \in States /\ burst \in Times \cup {None}

LEMMA InitGood ==
    ASSUME Init
    PROVE  IInv
<1>1. h \in HistoryObject
  <2>1. <<>> \in Seq(Entry)
    BY EmptySeq
  <2>. QED
    BY <2>1 DEF Init, EmptyHistory, HistoryObject
<1>2. /\ h.undo = <<>> /\ h.redo = <<>> /\ h.units = 0 /\ h.lastWasTyping = FALSE
      /\ Len(h.undo) = 0 /\ Len(h.redo) = 0
  BY DEF Init, EmptyHistory
<1>3. Exact(h)
  BY <1>2, NothingStored DEF Exact
<1>4. Ordered(h) /\ OpenIsNewest(h)
  BY <1>2 DEF Ordered, OpenIsNewest
<1>5. ~OverCap(h)
  <2>1. ~(0 + 0 > MaxEntries) /\ ~(0 > MaxSourceCodeUnits)
    BY LimitsAssumption
  <2>. QED
    BY <1>2, <2>1 DEF OverCap
<1>. QED
  BY <1>1, <1>3, <1>4, <1>5 DEF IInv, Good, Init

LEMMA NextKeeps ==
    ASSUME IInv, [Next]_vars
    PROVE  IInv'
<1>. USE DEF IInv
<1>1. ASSUME NEW next \in States, NEW typing \in BOOLEAN, NEW at \in Times,
             Record(next, typing, at)
      PROVE  IInv'
  <2>1. Good(h')
    BY <1>1, RecordKeeps DEF Record
  <2>2. current' \in States /\ burst' \in Times \cup {None}
    BY <1>1 DEF Record
  <2>. QED
    BY <2>1, <2>2 DEF Good, Exact, Ordered, OpenIsNewest, OverCap
<1>2. CASE Undo
  <2>1. Good(h') /\ current' \in States
    BY <1>2, UndoKeeps DEF Undo
  <2>. QED
    BY <1>2, <2>1 DEF Undo, Good, Exact, Ordered, OpenIsNewest, OverCap
<1>3. CASE Redo
  <2>1. Good(h') /\ current' \in States
    BY <1>3, RedoKeeps DEF Redo
  <2>. QED
    BY <1>3, <2>1 DEF Redo, Good, Exact, Ordered, OpenIsNewest, OverCap
<1>4. CASE Break
  <2>1. Good(h')
    BY <1>4, BreakKeeps DEF Break
  <2>. QED
    BY <1>4, <2>1 DEF Break, Good, Exact, Ordered, OpenIsNewest, OverCap
<1>5. ASSUME NEW next \in States, Load(next)
      PROVE  IInv'
  <2>1. Good(h')
    BY <1>5, ClearKeeps DEF Load
  <2>. QED
    BY <1>5, <2>1 DEF Load, Good, Exact, Ordered, OpenIsNewest, OverCap
<1>6. CASE UNCHANGED vars
  BY <1>6 DEF vars, Good, Exact, Ordered, OpenIsNewest, OverCap
<1>. QED
  BY <1>1, <1>2, <1>3, <1>4, <1>5, <1>6 DEF Next

LEMMA Inductive == Spec => []IInv
<1>1. Init => IInv
  BY InitGood
<1>2. IInv /\ [Next]_vars => IInv'
  BY NextKeeps
<1>. QED
  BY <1>1, <1>2, PTL DEF Spec

\* Every field of the history keeps its type, the counter of stored code
\* units included: it never goes negative.
THEOREM TypeCorrect == Spec => []TypeOK
<1>1. IInv => TypeOK
  BY DEF IInv, Good, TypeOK
<1>. QED
  BY <1>1, Inductive, PTL

\* The running counter is the exact size of both stacks.
THEOREM CounterExact == Spec => []UnitsExact
<1>1. IInv => UnitsExact
  BY DEF IInv, Good, UnitsExact
<1>. QED
  BY <1>1, Inductive, PTL

\* After every call the shared caps on entries and code units hold.
THEOREM CapsHold == Spec => []WithinCaps
<1>1. IInv => WithinCaps
  BY DEF IInv, Good, WithinCaps
<1>. QED
  BY <1>1, Inductive, PTL

\* Undo and redo form one line of strictly increasing groups.
THEOREM OneLineOfGroups == Spec => []GroupsOrdered
<1>1. IInv => GroupsOrdered
  BY DEF IInv, Good, GroupsOrdered
<1>. QED
  BY <1>1, Inductive, PTL

\* A group left open for typing is the newest entry and nothing can be redone.
THEOREM OpenGroupNewest == Spec => []OpenGroupIsNewest
<1>1. IInv => OpenGroupIsNewest
  BY DEF IInv, Good, OpenGroupIsNewest
<1>. QED
  BY <1>1, Inductive, PTL

\* All of this together, for every cap, window, state and clock: what the
\* run on the small history checks.
THEOREM HistorySound == Spec => []HistoryInv
<1>. QED
  BY TypeCorrect, CounterExact, CapsHold, OneLineOfGroups, OpenGroupNewest, PTL DEF HistoryInv

-----------------------------------------------------------------------------
(* Typing and undo steps.  The ghost burst is what the object knows of the  *)
(* last call, unless that call's step has been trimmed away.                *)

BurstKnown ==
    /\ h.lastWasTyping => burst # None /\ h.lastTypingAt = burst
    /\ burst # None /\ h.undo # <<>> => h.lastWasTyping

LEMMA BurstKept ==
    ASSUME IInv, BurstKnown, [Next]_vars
    PROVE  BurstKnown'
<1>0. Good(h) /\ current \in States /\ None \notin Times
  BY TimesAssumption DEF IInv
<1>1. ASSUME NEW next \in States, NEW typing \in BOOLEAN, NEW at \in Times,
             Record(next, typing, at)
      PROVE  BurstKnown'
  <2>1. /\ h'.lastWasTyping <=> typing /\ h'.undo # <<>>
        /\ h'.lastWasTyping => h'.lastTypingAt = at
    BY <1>0, <1>1, RecordKeeps DEF Record
  <2>2. burst' = IF typing THEN at ELSE None
    BY <1>1 DEF Record
  <2>. QED
    BY <1>0, <2>1, <2>2 DEF BurstKnown
<1>2. CASE Undo
  BY <1>0, <1>2, UndoKeeps DEF Undo, BurstKnown
<1>3. CASE Redo
  BY <1>0, <1>3, RedoKeeps DEF Redo, BurstKnown
<1>4. CASE Break
  BY <1>0, <1>4, BreakKeeps DEF Break, BurstKnown
<1>5. ASSUME NEW next \in States, Load(next)
      PROVE  BurstKnown'
  BY <1>0, <1>5 DEF Load, Clear, BreakCoalescing, Good, HistoryObject, BurstKnown
<1>6. CASE UNCHANGED vars
  BY <1>6 DEF vars, BurstKnown
<1>. QED
  BY <1>1, <1>2, <1>3, <1>4, <1>5, <1>6 DEF Next

LEMMA BurstDecides ==
    ASSUME IInv, BurstKnown, Next
    PROVE  JoinsBurst
<1>0. Good(h) /\ current \in States /\ h.group \in Nat /\ None \notin Times
  BY TimesAssumption DEF IInv, Good, HistoryObject
<1>1. ASSUME NEW next \in States, NEW typing \in BOOLEAN, NEW at \in Times,
             Record(next, typing, at), burst' # None
      PROVE  h'.group = h.group <=> /\ burst # None
                                    /\ burst' - burst \in 0 .. CoalesceWindow
                                    /\ h.undo # <<>>
  <2>1. typing /\ burst' = at
    BY <1>1 DEF Record
  <2>2. h'.group = IF Joins(h, typing, at) THEN h.group ELSE h.group + 1
    BY <1>0, <1>1, RecordKeeps DEF Record
  <2>3. h'.group = h.group <=> Joins(h, typing, at)
    BY <1>0, <2>2
  <2>4. CASE h.lastWasTyping
    <3>1. /\ h.undo # <<>> /\ Last(h.undo).group = h.group
          /\ h.lastTypingAt # None /\ h.lastTypingAt = burst
      BY <1>0, <2>4 DEF Good, OpenIsNewest, BurstKnown
    <3>. QED
      BY <2>1, <2>3, <2>4, <3>1 DEF Joins
  <2>5. CASE ~h.lastWasTyping
    BY <2>3, <2>5 DEF Joins, BurstKnown
  <2>. QED
    BY <2>4, <2>5
<1>2. ASSUME Undo \/ Redo \/ Break \/ \E next \in States : Load(next)
      PROVE  burst' = None
  BY <1>2 DEF Undo, Redo, Break, Load
<1>. QED
  BY <1>1, <1>2 DEF Next, JoinsBurst

\* A typed change joins the open undo step exactly when the call before it
\* was typing within the window and its step is still there, for every clock.
THEOREM TypingJoins == Spec => BurstsJoin
<1>1. Init => BurstKnown
  BY DEF Init, EmptyHistory, BurstKnown
<1>2. IInv /\ BurstKnown /\ [Next]_vars => BurstKnown'
  BY BurstKept
<1>3. IInv /\ BurstKnown /\ [Next]_vars => [JoinsBurst]_vars
  BY BurstDecides
<1>. QED
  BY <1>1, <1>2, <1>3, Inductive, PTL DEF Spec, BurstsJoin

-----------------------------------------------------------------------------
(* The timeline.                                                           *)

LEMMA FunctionIsSequence ==
    ASSUME NEW S, NEW n \in Nat, NEW f \in [1 .. n -> S]
    PROVE  f \in Seq(S) /\ Len(f) = n
<1>1. f \in Seq(S)
  BY SeqDef
<1>2. DOMAIN f = 1 .. n /\ DOMAIN f = 1 .. Len(f) /\ Len(f) \in Nat
  BY <1>1, LenProperties
<1>. QED
  BY <1>1, <1>2

\* What is at each place of the timeline.
LEMMA TimelineAt ==
    ASSUME NEW x \in HistoryObject, NEW now \in States
    PROVE  LET T == Timeline(x, now)
               n == Len(x.undo)
               m == Len(x.redo)
           IN  /\ T \in Seq(States) /\ Len(T) = n + 1 + m
               /\ n \in Nat /\ m \in Nat
               /\ \A i \in 1 .. n : T[i] = x.undo[i].state
               /\ T[n + 1] = now
               /\ \A j \in 1 .. m : T[n + 1 + j] = x.redo[m - j + 1].state
<1>. DEFINE T == Timeline(x, now)
            n == Len(x.undo)
            m == Len(x.redo)
            A == StatesOf(x.undo)
            B == A \o <<now>>
            R == StatesOf(x.redo)
            C == Reverse(R)
<1>1. /\ x.undo \in Seq(Entry) /\ x.redo \in Seq(Entry)
      /\ n \in Nat /\ m \in Nat
  BY DEF HistoryObject
<1>2. A \in Seq(States) /\ Len(A) = n /\ \A i \in 1 .. n : A[i] = x.undo[i].state
  <2>1. \A i \in 1 .. n : x.undo[i].state \in States
    BY <1>1, GroupType
  <2>2. A \in [1 .. n -> States] /\ \A i \in 1 .. n : A[i] = x.undo[i].state
    BY <2>1 DEF StatesOf
  <2>. HIDE DEF A, n
  <2>. QED
    BY <1>1, <2>2, FunctionIsSequence
<1>3. R \in Seq(States) /\ Len(R) = m /\ \A i \in 1 .. m : R[i] = x.redo[i].state
  <2>1. \A i \in 1 .. m : x.redo[i].state \in States
    BY <1>1, GroupType
  <2>2. R \in [1 .. m -> States] /\ \A i \in 1 .. m : R[i] = x.redo[i].state
    BY <2>1 DEF StatesOf
  <2>. HIDE DEF R, m
  <2>. QED
    BY <1>1, <2>2, FunctionIsSequence
<1>4. T = B \o C
  BY DEF Timeline
<1>. HIDE DEF T, A, R, n, m
<1>5. C \in Seq(States) /\ Len(C) = m /\ \A j \in 1 .. m : C[j] = R[m - j + 1]
  <2>1. C = [j \in 1 .. m |-> R[m - j + 1]]
    BY <1>3 DEF Reverse
  <2>2. \A j \in 1 .. m : m - j + 1 \in 1 .. m
    BY <1>1
  <2>3. \A j \in 1 .. m : R[m - j + 1] \in States
    BY <1>3, <2>2, ElementOfSeq
  <2>4. C \in [1 .. m -> States]
    BY <2>1, <2>3
  <2>. HIDE DEF C
  <2>. QED
    BY <1>1, <2>1, <2>4, FunctionIsSequence
<1>6. <<now>> \in Seq(States) /\ Len(<<now>>) = 1 /\ <<now>>[1] = now
  OBVIOUS
<1>7. /\ B \in Seq(States) /\ Len(B) = n + 1
      /\ \A i \in 1 .. n + 1 : B[i] = IF i <= n THEN A[i] ELSE <<now>>[i - n]
  BY <1>2, <1>6, ConcatProperties
<1>. HIDE DEF B, C
<1>8. /\ T \in Seq(States) /\ Len(T) = n + 1 + m
      /\ \A i \in 1 .. n + 1 + m : T[i] = IF i <= n + 1 THEN B[i] ELSE C[i - (n + 1)]
  BY <1>4, <1>5, <1>7, ConcatProperties
<1>9. ASSUME NEW i \in 1 .. n
      PROVE  T[i] = x.undo[i].state
  <2>1. i \in 1 .. n + 1 + m /\ i \in 1 .. n + 1 /\ i <= n + 1 /\ i <= n
    BY <1>1
  <2>. QED
    BY <1>2, <1>7, <1>8, <2>1
<1>10. T[n + 1] = now
  <2>1. n + 1 \in 1 .. n + 1 + m /\ n + 1 \in 1 .. n + 1 /\ ~(n + 1 <= n) /\ (n + 1) - n = 1
    BY <1>1
  <2>. QED
    BY <1>6, <1>7, <1>8, <2>1
<1>11. ASSUME NEW j \in 1 .. m
       PROVE  T[n + 1 + j] = x.redo[m - j + 1].state
  <2>1. /\ n + 1 + j \in 1 .. n + 1 + m /\ ~(n + 1 + j <= n + 1)
        /\ (n + 1 + j) - (n + 1) = j /\ m - j + 1 \in 1 .. m
    BY <1>1
  <2>2. T[n + 1 + j] = C[j]
    BY <1>8, <2>1
  <2>. QED
    BY <1>3, <1>5, <2>1, <2>2
<1>. QED
  BY <1>1, <1>8, <1>9, <1>10, <1>11 DEF T, n, m

\* Moving the newest undo entry over the current state changes nothing of
\* the timeline.
LEMMA TimelineMoves ==
    ASSUME NEW x \in HistoryObject, NEW z \in HistoryObject,
           NEW s \in States, NEW t \in States,
           Len(x.undo) = Len(z.undo) + 1, Len(z.redo) = Len(x.redo) + 1,
           \A i \in 1 .. Len(z.undo) : z.undo[i] = x.undo[i],
           \A i \in 1 .. Len(x.redo) : z.redo[i] = x.redo[i],
           x.undo[Len(x.undo)].state = t,
           z.redo[Len(z.redo)].state = s
    PROVE  Timeline(x, s) = Timeline(z, t)
<1>. DEFINE X == Timeline(x, s)
            Z == Timeline(z, t)
            n == Len(z.undo)
            m == Len(x.redo)
<1>1. /\ X \in Seq(States) /\ Len(X) = n + 1 + 1 + m /\ n \in Nat /\ m \in Nat
      /\ \A i \in 1 .. n + 1 : X[i] = x.undo[i].state
      /\ X[n + 1 + 1] = s
      /\ \A j \in 1 .. m : X[n + 1 + 1 + j] = x.redo[m - j + 1].state
  <2>1. /\ X \in Seq(States) /\ Len(X) = Len(x.undo) + 1 + m
        /\ Len(z.undo) \in Nat /\ m \in Nat
        /\ \A i \in 1 .. Len(x.undo) : X[i] = x.undo[i].state
        /\ X[Len(x.undo) + 1] = s
        /\ \A j \in 1 .. m : X[Len(x.undo) + 1 + j] = x.redo[m - j + 1].state
    BY TimelineAt
  <2>2. Len(x.undo) = n + 1
    OBVIOUS
  <2>. HIDE DEF X, n, m
  <2>. QED
    BY <2>1, <2>2 DEF n
<1>2. /\ Z \in Seq(States) /\ Len(Z) = n + 1 + (m + 1)
      /\ \A i \in 1 .. n : Z[i] = z.undo[i].state
      /\ Z[n + 1] = t
      /\ \A j \in 1 .. m + 1 : Z[n + 1 + j] = z.redo[(m + 1) - j + 1].state
  <2>1. /\ Z \in Seq(States) /\ Len(Z) = n + 1 + Len(z.redo)
        /\ \A i \in 1 .. n : Z[i] = z.undo[i].state
        /\ Z[n + 1] = t
        /\ \A j \in 1 .. Len(z.redo) : Z[n + 1 + j] = z.redo[Len(z.redo) - j + 1].state
    BY TimelineAt
  <2>2. Len(z.redo) = m + 1
    OBVIOUS
  <2>. HIDE DEF Z, n, m
  <2>. QED
    BY <2>1, <2>2
<1>3. /\ \A i \in 1 .. n : z.undo[i] = x.undo[i]
      /\ \A i \in 1 .. m : z.redo[i] = x.redo[i]
      /\ x.undo[n + 1].state = t /\ z.redo[m + 1].state = s
  OBVIOUS
<1>. HIDE DEF X, Z, n, m
<1>4. Len(X) = Len(Z)
  BY <1>1, <1>2
<1>5. ASSUME NEW i \in 1 .. Len(X)
      PROVE  X[i] = Z[i]
  <2>1. CASE i <= n
    <3>1. i \in 1 .. n /\ i \in 1 .. n + 1
      BY <1>1, <2>1
    <3>. QED
      BY <1>1, <1>2, <1>3, <3>1
  <2>2. CASE i = n + 1
    <3>1. n + 1 \in 1 .. n + 1
      BY <1>1
    <3>. QED
      BY <1>1, <1>2, <1>3, <2>2, <3>1
  <2>3. CASE i = n + 1 + 1
    <3>1. 1 \in 1 .. m + 1 /\ (m + 1) - 1 + 1 = m + 1
      BY <1>1
    <3>. QED
      BY <1>1, <1>2, <1>3, <2>3, <3>1
  <2>4. CASE i > n + 1 + 1
    <3>. DEFINE j == i - (n + 1 + 1)
    <3>1. /\ j \in 1 .. m /\ i = n + 1 + 1 + j
          /\ j + 1 \in 1 .. m + 1 /\ i = n + 1 + (j + 1)
          /\ (m + 1) - (j + 1) + 1 = m - j + 1 /\ m - j + 1 \in 1 .. m
      BY <1>1, <2>4
    <3>. HIDE DEF j
    <3>2. X[i] = x.redo[m - j + 1].state
      BY <1>1, <3>1
    <3>3. Z[i] = z.redo[m - j + 1].state
      BY <1>2, <3>1
    <3>. QED
      BY <1>3, <3>1, <3>2, <3>3
  <2>. QED
    BY <1>1, <2>1, <2>2, <2>3, <2>4
<1>. QED
  BY <1>1, <1>2, <1>4, <1>5, SeqEqual DEF X, Z

\* Trimming keeps a contiguous part of it, around the current state.
LEMMA TimelineTrimmed ==
    ASSUME NEW x \in HistoryObject, NEW y \in HistoryObject, Trimmed(x, y),
           NEW s \in States
    PROVE  LET d == Len(x.undo) - Len(y.undo)
               T == Timeline(y, s)
           IN  T = SubSeq(Timeline(x, s), d + 1, d + Len(T))
<1>. DEFINE X == Timeline(x, s)
            Y == Timeline(y, s)
            n == Len(x.undo)
            m == Len(x.redo)
            k == Len(y.undo)
            l == Len(y.redo)
            d == n - k
            e == m - l
            P == SubSeq(X, d + 1, d + Len(Y))
<1>1. /\ X \in Seq(States) /\ Len(X) = n + 1 + m /\ n \in Nat /\ m \in Nat
      /\ \A i \in 1 .. n : X[i] = x.undo[i].state
      /\ X[n + 1] = s
      /\ \A j \in 1 .. m : X[n + 1 + j] = x.redo[m - j + 1].state
  BY TimelineAt
<1>2. /\ Y \in Seq(States) /\ Len(Y) = k + 1 + l /\ k \in Nat /\ l \in Nat
      /\ \A i \in 1 .. k : Y[i] = y.undo[i].state
      /\ Y[k + 1] = s
      /\ \A j \in 1 .. l : Y[k + 1 + j] = y.redo[l - j + 1].state
  BY TimelineAt
<1>3. d \in 0 .. n /\ \A i \in 1 .. k : y.undo[i] = x.undo[d + i]
  <2>1. PICK c \in 0 .. n : y.undo = SubSeq(x.undo, c + 1, n)
    BY DEF Trimmed
  <2>2. x.undo \in Seq(Entry)
    BY DEF HistoryObject
  <2>3. k = n - c /\ \A i \in 1 .. n - c : y.undo[i] = x.undo[c + i]
    BY <1>1, <2>1, <2>2, ElementOfSeq, SubSeqProperties
  <2>4. d = c
    BY <1>1, <2>3
  <2>. QED
    BY <2>3, <2>4
<1>4. e \in 0 .. m /\ \A i \in 1 .. l : y.redo[i] = x.redo[e + i]
  <2>1. PICK c \in 0 .. m : y.redo = SubSeq(x.redo, c + 1, m)
    BY DEF Trimmed
  <2>2. x.redo \in Seq(Entry)
    BY DEF HistoryObject
  <2>3. l = m - c /\ \A i \in 1 .. m - c : y.redo[i] = x.redo[c + i]
    BY <1>1, <2>1, <2>2, ElementOfSeq, SubSeqProperties
  <2>4. e = c
    BY <1>1, <2>3
  <2>. QED
    BY <2>3, <2>4
<1>. HIDE DEF X, Y, n, m, k, l
<1>5. n = d + k /\ m = e + l /\ d \in Nat /\ e \in Nat
  BY <1>1, <1>2, <1>3, <1>4
<1>. HIDE DEF d, e
<1>6. /\ P \in Seq(States) /\ Len(P) = Len(Y)
      /\ \A i \in 1 .. Len(Y) : P[i] = X[d + i]
  <2>1. d + 1 \in Int /\ d + Len(Y) \in Int /\ d + Len(Y) <= Len(X) /\ Len(Y) \in Nat \ {0}
    <3>1. /\ Len(X) = n + 1 + m /\ n \in Nat /\ m \in Nat
          /\ Len(Y) = k + 1 + l /\ k \in Nat /\ l \in Nat
      BY <1>1, <1>2
    <3>2. Len(Y) \in Nat \ {0} /\ Len(X) = (d + k) + 1 + (e + l)
      BY <1>5, <3>1
    <3>. QED
      BY <1>5, <3>1, <3>2
  <2>2. \A i \in d + 1 .. d + Len(Y) : X[i] \in States
    <3>1. \A i \in d + 1 .. d + Len(Y) : i \in 1 .. Len(X)
      BY <1>5, <2>1
    <3>. QED
      BY <1>1, <3>1, ElementOfSeq
  <2>3. /\ P \in Seq(States)
        /\ Len(P) = IF d + 1 <= d + Len(Y) THEN (d + Len(Y)) - (d + 1) + 1 ELSE 0
        /\ \A i \in 1 .. (d + Len(Y)) - (d + 1) + 1 : P[i] = X[(d + 1) + i - 1]
    BY <2>1, <2>2, SubSeqProperties
  <2>. HIDE DEF P
  <2>4. (d + Len(Y)) - (d + 1) + 1 = Len(Y) /\ d + 1 <= d + Len(Y)
    BY <1>5, <2>1
  <2>5. \A i \in 1 .. Len(Y) : (d + 1) + i - 1 = d + i
    BY <1>5
  <2>. QED
    BY <2>3, <2>4, <2>5
<1>. HIDE DEF P
<1>7. ASSUME NEW i \in 1 .. Len(Y)
      PROVE  Y[i] = P[i]
  <2>1. CASE i <= k
    <3>1. i \in 1 .. k /\ d + i \in 1 .. n
      BY <1>2, <1>5, <2>1
    <3>. QED
      BY <1>1, <1>2, <1>3, <1>6, <3>1
  <2>2. CASE i = k + 1
    <3>1. d + i = n + 1
      BY <1>2, <1>5, <2>2
    <3>. QED
      BY <1>1, <1>2, <1>6, <2>2, <3>1
  <2>3. CASE i > k + 1
    <3>. DEFINE j == i - (k + 1)
    <3>1. /\ j \in 1 .. l /\ i = k + 1 + j /\ d + i = n + 1 + j /\ j \in 1 .. m
          /\ l - j + 1 \in 1 .. l /\ e + (l - j + 1) = m - j + 1
      BY <1>2, <1>5, <2>3
    <3>. HIDE DEF j
    <3>2. Y[i] = y.redo[l - j + 1].state /\ X[d + i] = x.redo[m - j + 1].state
      BY <1>1, <1>2, <3>1
    <3>3. y.redo[l - j + 1] = x.redo[m - j + 1]
      BY <1>4, <3>1
    <3>. QED
      BY <1>6, <3>2, <3>3
  <2>. QED
    BY <1>2, <2>1, <2>2, <2>3
<1>. QED
  BY <1>2, <1>6, <1>7, SeqEqual DEF P, Y, X, d, n, k

LEMMA UndoAlong ==
    ASSUME IInv, Undo
    PROVE  LET after == Timeline(h', current')
               shift == Len(h.undo) + (-1) - Len(h'.undo)
           IN  after = SubSeq(Timeline(h, current), shift + 1, shift + Len(after))
<1>. DEFINE z == Undone(h, current)
            top == h.undo[Len(h.undo)]
            e == [state |-> current, group |-> top.group]
<1>1. /\ h \in HistoryObject /\ Good(h) /\ current \in States
      /\ h.undo \in Seq(Entry) /\ h.redo \in Seq(Entry)
      /\ Len(h.undo) \in Nat \ {0}
  BY EmptySeq DEF IInv, Good, HistoryObject, Undo
<1>2. /\ h' = Trim(z) /\ current' = top.state
      /\ z \in HistoryObject /\ Exact(z)
      /\ z.undo = SubSeq(h.undo, 1, Len(h.undo) - 1) /\ z.redo = Append(h.redo, e)
      /\ top \in Entry
  BY <1>1, UndoMoves DEF Undo
<1>3. top.state \in States /\ e \in Entry /\ e.state = current
  BY <1>1, <1>2 DEF Entry
<1>. HIDE DEF z, e
<1>4. /\ Len(z.undo) = Len(h.undo) - 1
      /\ \A i \in 1 .. Len(z.undo) : z.undo[i] = h.undo[i]
  BY <1>1, <1>2, ElementOfSeq, SubSeqProperties
<1>5. /\ Len(z.redo) = Len(h.redo) + 1
      /\ \A i \in 1 .. Len(h.redo) : z.redo[i] = h.redo[i]
      /\ z.redo[Len(z.redo)].state = current
  BY <1>1, <1>2, <1>3, AppendProperties
<1>6. Timeline(h, current) = Timeline(z, top.state)
  <2>. DEFINE t == top.state
  <2>1. t \in States /\ h.undo[Len(h.undo)].state = t
    BY <1>3
  <2>. HIDE DEF t
  <2>2. Len(h.undo) = Len(z.undo) + 1
    BY <1>1, <1>4
  <2>3. Timeline(h, current) = Timeline(z, t)
    BY <1>1, <1>2, <1>4, <1>5, <2>1, <2>2, TimelineMoves
  <2>. QED
    BY <2>3 DEF t
<1>. DEFINE d == Len(z.undo) - Len(h'.undo)
            T == Timeline(h', current')
<1>7. h' \in HistoryObject /\ Trimmed(z, h')
  BY <1>2, TrimKeeps
<1>8. T = SubSeq(Timeline(h, current), d + 1, d + Len(T))
  BY <1>2, <1>3, <1>6, <1>7, TimelineTrimmed
<1>9. Len(h'.undo) \in Nat
  BY <1>7 DEF HistoryObject
<1>10. d = Len(h.undo) + (-1) - Len(h'.undo)
  BY <1>1, <1>4, <1>9
<1>. HIDE DEF d
<1>. QED
  BY <1>8, <1>10

LEMMA RedoAlong ==
    ASSUME IInv, Redo
    PROVE  LET after == Timeline(h', current')
               shift == Len(h.undo) + 1 - Len(h'.undo)
           IN  after = SubSeq(Timeline(h, current), shift + 1, shift + Len(after))
<1>. DEFINE z == Redone(h, current)
            top == h.redo[Len(h.redo)]
            e == [state |-> current, group |-> top.group]
<1>1. /\ h \in HistoryObject /\ Good(h) /\ current \in States
      /\ h.undo \in Seq(Entry) /\ h.redo \in Seq(Entry)
      /\ Len(h.redo) \in Nat \ {0} /\ Len(h.undo) \in Nat
  BY EmptySeq DEF IInv, Good, HistoryObject, Redo
<1>2. /\ h' = Trim(z) /\ current' = top.state
      /\ z \in HistoryObject /\ Exact(z)
      /\ z.redo = SubSeq(h.redo, 1, Len(h.redo) - 1) /\ z.undo = Append(h.undo, e)
      /\ top \in Entry
  BY <1>1, RedoMoves DEF Redo
<1>3. top.state \in States /\ e \in Entry /\ e.state = current
  BY <1>1, <1>2 DEF Entry
<1>. HIDE DEF z, e
<1>4. /\ Len(z.redo) = Len(h.redo) - 1
      /\ \A i \in 1 .. Len(z.redo) : z.redo[i] = h.redo[i]
  BY <1>1, <1>2, ElementOfSeq, SubSeqProperties
<1>5. /\ Len(z.undo) = Len(h.undo) + 1
      /\ \A i \in 1 .. Len(h.undo) : z.undo[i] = h.undo[i]
      /\ z.undo[Len(z.undo)].state = current
  BY <1>1, <1>2, <1>3, AppendProperties
<1>6. Timeline(z, top.state) = Timeline(h, current)
  <2>. DEFINE t == top.state
  <2>1. t \in States /\ h.redo[Len(h.redo)].state = t
    BY <1>3
  <2>. HIDE DEF t
  <2>2. Len(h.redo) = Len(z.redo) + 1
    BY <1>1, <1>4
  <2>3. \A i \in 1 .. Len(h.undo) : h.undo[i] = z.undo[i]
    BY <1>5
  <2>4. \A i \in 1 .. Len(z.redo) : h.redo[i] = z.redo[i]
    BY <1>4
  <2>5. Timeline(z, t) = Timeline(h, current)
    BY <1>1, <1>2, <1>5, <2>1, <2>2, <2>3, <2>4, TimelineMoves
  <2>. QED
    BY <2>5 DEF t
<1>. DEFINE d == Len(z.undo) - Len(h'.undo)
            T == Timeline(h', current')
<1>7. h' \in HistoryObject /\ Trimmed(z, h')
  BY <1>2, TrimKeeps
<1>8. T = SubSeq(Timeline(h, current), d + 1, d + Len(T))
  BY <1>2, <1>3, <1>6, <1>7, TimelineTrimmed
<1>9. d = Len(h.undo) + 1 - Len(h'.undo)
  BY <1>5
<1>. HIDE DEF d
<1>. QED
  BY <1>8, <1>9

\* Undo and redo move one step along the timeline and keep a contiguous part
\* of it, whatever the caps make _trim drop.
THEOREM UndoAndRedoWalk == Spec => WalksTimeline
<1>1. IInv /\ [Next]_vars => [StepsAlong]_vars
  <2>. SUFFICES ASSUME IInv, NEW step \in {-1, 1}, IF step = 1 THEN Redo ELSE Undo
                PROVE  LET before == Timeline(h, current)
                           after  == Timeline(h', current')
                           shift  == Len(h.undo) + step - Len(h'.undo)
                       IN  after = SubSeq(before, shift + 1, shift + Len(after))
    BY DEF StepsAlong
  <2>1. CASE step = 1
    BY <2>1, RedoAlong
  <2>2. CASE step = -1
    <3>1. Undo
      BY <2>2
    <3>. QED
      BY <2>2, <3>1, UndoAlong
  <2>. QED
    BY <2>1, <2>2
<1>. QED
  BY <1>1, Inductive, PTL DEF Spec, WalksTimeline

-----------------------------------------------------------------------------
(* What _trim spares.                                                      *)

\* One entry of each stack is left when both newest entries fit the caps.
LEMMA TrimSparesBoth ==
    ASSUME NEW x \in HistoryObject, Exact(x), x.undo # <<>>, x.redo # <<>>,
           MaxEntries >= 2,
           Units[x.undo[Len(x.undo)].state] + Units[x.redo[Len(x.redo)].state]
              <= MaxSourceCodeUnits
    PROVE  Trim(x).undo # <<>> /\ Trim(x).redo # <<>>
<1>. DEFINE u == Len(x.undo)
            r == Len(x.redo)
            spare == (u - 1) + (r - 1)
            enough == {k \in 0 .. u + r : k = u + r \/ ~OverCap(DropOldest(x, k))}
<1>1. /\ x.undo \in Seq(Entry) /\ x.redo \in Seq(Entry)
      /\ u \in Nat \ {0} /\ r \in Nat \ {0}
  BY EmptySeq DEF HistoryObject
<1>. HIDE DEF u, r
<1>2. ASSUME NEW k \in 0 .. spare
      PROVE  /\ Dropped(x, k).undo \in 0 .. u - 1 /\ Dropped(x, k).redo \in 0 .. r - 1
             /\ k = spare => Dropped(x, k).undo = u - 1 /\ Dropped(x, k).redo = r - 1
  <2>1. Dropped(x, k) = IF k <= u - 1 THEN [undo |-> k, redo |-> 0]
                        ELSE [undo |-> u - 1, redo |-> k - (u - 1)]
    <3>1. u > 0 /\ r > 0 /\ k <= (u - 1) + (r - 1)
      BY <1>1
    <3>. QED
      BY <3>1 DEF Dropped, u, r
  <2>2. CASE k <= u - 1
    <3>1. Dropped(x, k).undo = k /\ Dropped(x, k).redo = 0
      BY <2>1, <2>2
    <3>. QED
      BY <1>1, <2>2, <3>1
  <2>3. CASE ~(k <= u - 1)
    <3>1. Dropped(x, k).undo = u - 1 /\ Dropped(x, k).redo = k - (u - 1)
      BY <2>1, <2>3
    <3>. QED
      BY <1>1, <2>3, <3>1
  <2>. QED
    BY <2>2, <2>3
<1>3. spare \in 0 .. u + r
  BY <1>1
<1>4. ~OverCap(DropOldest(x, spare))
  <2>. DEFINE y == DropOldest(x, spare)
  <2>1. Exact(y)
    BY <1>3, DropOldestKeeps DEF u, r
  <2>2. /\ y.undo = SubSeq(x.undo, (u - 1) + 1, u)
        /\ y.redo = SubSeq(x.redo, (r - 1) + 1, r)
    <3>1. spare \in 0 .. spare
      BY <1>1
    <3>2. Dropped(x, spare).undo = u - 1 /\ Dropped(x, spare).redo = r - 1
      BY <1>2, <3>1
    <3>. HIDE DEF spare
    <3>. QED
      BY <3>2 DEF DropOldest, HistoryObject, u, r
  <2>. HIDE DEF y
  <2>3. (u - 1) + 1 = u /\ (r - 1) + 1 = r /\ u \in 1 .. u /\ r \in 1 .. r
    BY <1>1
  <2>4. y.undo = <<x.undo[u]>> /\ y.redo = <<x.redo[r]>>
    BY <1>1, <2>2, <2>3, OneEntry DEF u, r
  <2>5. x.undo[u] \in Entry /\ x.redo[r] \in Entry
    BY <1>1, <2>3, ElementOfSeq DEF u, r
  <2>6. y.units = Units[x.undo[u].state] + Units[x.redo[r].state]
    BY <2>1, <2>4, <2>5, StoredOne DEF Exact
  <2>7. Len(y.undo) = 1 /\ Len(y.redo) = 1
    BY <2>4
  <2>8. y.units <= MaxSourceCodeUnits /\ y.units \in Nat
    <3>. DEFINE a == Units[x.undo[u].state]
                b == Units[x.redo[r].state]
    <3>1. a \in Nat /\ b \in Nat /\ a + b <= MaxSourceCodeUnits
      BY <2>5, StoredOne DEF u, r
    <3>2. y.units = a + b
      BY <2>6
    <3>. HIDE DEF a, b
    <3>. QED
      BY <3>1, <3>2
  <2>9. ~(y.units > MaxSourceCodeUnits) /\ ~(1 + 1 > MaxEntries)
    BY <2>8, LimitsAssumption
  <2>. QED
    BY <2>7, <2>9 DEF OverCap, y
<1>5. spare \in enough /\ enough \subseteq Nat
  BY <1>1, <1>3, <1>4
<1>6. PICK k \in enough : k = Min(enough) /\ k <= spare
  BY <1>5, MinIsLeast
<1>7. k \in 0 .. spare
  BY <1>1, <1>5, <1>6
<1>8. Trim(x) = DropOldest(x, k)
  BY <1>6 DEF Trim, u, r
<1>. DEFINE du == Dropped(x, k).undo
            dr == Dropped(x, k).redo
<1>9. Trim(x).undo = SubSeq(x.undo, du + 1, u) /\ Trim(x).redo = SubSeq(x.redo, dr + 1, r)
  BY <1>8 DEF DropOldest, HistoryObject, u, r
<1>10. du \in 0 .. u - 1 /\ dr \in 0 .. r - 1
  BY <1>2, <1>7
<1>. HIDE DEF du, dr
<1>11. Len(Trim(x).undo) = u - du
  BY <1>1, <1>9, <1>10, ElementOfSeq, SubSeqProperties DEF u
<1>12. Len(Trim(x).redo) = r - dr
  BY <1>1, <1>9, <1>10, ElementOfSeq, SubSeqProperties DEF r
<1>. QED
  BY <1>1, <1>10, <1>11, <1>12

LEMMA UndoSpares ==
    ASSUME IInv, Undo, Len(h.undo) > 1, Fit(h.undo[Len(h.undo) - 1].state, current)
    PROVE  h'.undo # <<>> /\ h'.redo # <<>>
<1>. DEFINE z == Undone(h, current)
            n == Len(h.undo)
            e == [state |-> current, group |-> h.undo[n].group]
<1>1. /\ Good(h) /\ current \in States
      /\ h.undo \in Seq(Entry) /\ h.redo \in Seq(Entry) /\ n \in Nat
  BY DEF IInv, Good, HistoryObject
<1>2. /\ h' = Trim(z) /\ z \in HistoryObject /\ Exact(z)
      /\ z.undo = SubSeq(h.undo, 1, n - 1) /\ z.redo = Append(h.redo, e)
      /\ h.undo[n] \in Entry
  BY <1>1, UndoMoves DEF Undo
<1>3. e \in Entry /\ e.state = current
  BY <1>1, <1>2 DEF Entry
<1>. HIDE DEF z, e
<1>4. /\ Len(z.undo) = n - 1 /\ z.undo[n - 1] = h.undo[n - 1]
      /\ Len(z.undo) > 0
  BY <1>1, <1>2, ElementOfSeq, SubSeqProperties
<1>5. Len(z.redo) = Len(h.redo) + 1 /\ z.redo[Len(h.redo) + 1] = e
  BY <1>1, <1>2, <1>3, AppendProperties
<1>6. z.undo # <<>> /\ z.redo # <<>>
  <2>1. Len(z.undo) > 0 /\ Len(z.redo) > 0
    BY <1>1, <1>4, <1>5
  <2>. QED
    BY <2>1
<1>. HIDE DEF n
<1>. QED
  BY <1>2, <1>3, <1>4, <1>5, <1>6, TrimSparesBoth DEF Fit, n

LEMMA RedoSpares ==
    ASSUME IInv, Redo, Len(h.redo) > 1, Fit(h.redo[Len(h.redo) - 1].state, current)
    PROVE  h'.undo # <<>> /\ h'.redo # <<>>
<1>. DEFINE z == Redone(h, current)
            n == Len(h.redo)
            e == [state |-> current, group |-> h.redo[n].group]
<1>1. /\ Good(h) /\ current \in States
      /\ h.undo \in Seq(Entry) /\ h.redo \in Seq(Entry) /\ n \in Nat
  BY DEF IInv, Good, HistoryObject
<1>2. /\ h' = Trim(z) /\ z \in HistoryObject /\ Exact(z)
      /\ z.redo = SubSeq(h.redo, 1, n - 1) /\ z.undo = Append(h.undo, e)
      /\ h.redo[n] \in Entry
  BY <1>1, RedoMoves DEF Redo
<1>3. e \in Entry /\ e.state = current
  BY <1>1, <1>2 DEF Entry
<1>. HIDE DEF z, e
<1>4. /\ Len(z.redo) = n - 1 /\ z.redo[n - 1] = h.redo[n - 1]
      /\ Len(z.redo) > 0
  BY <1>1, <1>2, ElementOfSeq, SubSeqProperties
<1>5. Len(z.undo) = Len(h.undo) + 1 /\ z.undo[Len(h.undo) + 1] = e
  BY <1>1, <1>2, <1>3, AppendProperties
<1>6. z.undo # <<>> /\ z.redo # <<>>
  <2>1. Len(z.undo) > 0 /\ Len(z.redo) > 0
    BY <1>1, <1>4, <1>5
  <2>. QED
    BY <2>1
<1>7. MaxEntries >= 2
      /\ Units[current] + Units[h.redo[n - 1].state] <= MaxSourceCodeUnits
  <2>1. h.redo[n - 1].state \in States
    BY <1>1, GroupType
  <2>2. Units[current] \in Nat /\ Units[h.redo[n - 1].state] \in Nat
    BY <1>1, <2>1, StatesAssumption
  <2>. QED
    BY <2>2 DEF Fit
<1>. HIDE DEF n
<1>. QED
  BY <1>2, <1>3, <1>4, <1>5, <1>6, <1>7, TrimSparesBoth

\* An undo or a redo that leaves a state on each side keeps both of them
\* whenever the two fit the caps together.
THEOREM NeighboursStay == Spec => NeighboursKept
<1>1. IInv /\ [Next]_vars => [KeepsBoth]_vars
  BY UndoSpares, RedoSpares DEF KeepsBoth
<1>. QED
  BY <1>1, Inductive, PTL DEF Spec, NeighboursKept

-----------------------------------------------------------------------------
(* _trim in one step and turn by turn.                                     *)

\* x without its a oldest undo entries and its b oldest redo entries.
Cut(x, a, b) ==
    [x EXCEPT !.undo = SubSeq(x.undo, a + 1, Len(x.undo)),
              !.redo = SubSeq(x.redo, b + 1, Len(x.redo)),
              !.units = x.units - StoredUnits(SubSeq(x.undo, 1, a))
                                - StoredUnits(SubSeq(x.redo, 1, b))]

\* What removing one more of the oldest entries of a stack does.
LEMMA NextOldest ==
    ASSUME NEW s \in Seq(Entry), NEW a \in 0 .. Len(s) - 1
    PROVE  /\ SubSeq(s, a + 1, Len(s))[1] = s[a + 1]
           /\ Len(SubSeq(s, a + 1, Len(s))) = Len(s) - a
           /\ Tail(SubSeq(s, a + 1, Len(s))) = SubSeq(s, a + 2, Len(s))
           /\ StoredUnits(SubSeq(s, 1, a + 1))
                = StoredUnits(SubSeq(s, 1, a)) + Units[s[a + 1].state]
           /\ StoredUnits(SubSeq(s, 1, a)) \in Nat
           /\ Units[s[a + 1].state] \in Nat
<1>. DEFINE n == Len(s)
            rest == SubSeq(s, a + 1, n)
            more == SubSeq(s, a + 2, n)
            gone == SubSeq(s, 1, a)
            next == SubSeq(s, 1, a + 1)
<1>1. n \in Nat /\ a \in Nat /\ a < n /\ a + 1 \in 1 .. n
  BY LenProperties
<1>2. \A i \in 1 .. n : s[i] \in Entry
  BY ElementOfSeq
<1>. HIDE DEF n
<1>3. /\ rest \in Seq(Entry) /\ Len(rest) = n - a
      /\ \A i \in 1 .. n - a : rest[i] = s[a + i]
  <2>1. a + 1 \in Int /\ n \in Int /\ \A i \in a + 1 .. n : s[i] \in Entry
    BY <1>1, <1>2
  <2>2. /\ rest \in Seq(Entry)
        /\ Len(rest) = IF a + 1 <= n THEN n - (a + 1) + 1 ELSE 0
        /\ \A i \in 1 .. n - (a + 1) + 1 : rest[i] = s[(a + 1) + i - 1]
    BY ONLY <2>1, SubSeqProperties
  <2>3. n - (a + 1) + 1 = n - a /\ a + 1 <= n
    BY <1>1
  <2>4. \A i \in 1 .. n - a : (a + 1) + i - 1 = a + i
    BY <1>1
  <2>. HIDE DEF rest
  <2>. QED BY <2>2, <2>3, <2>4
<1>4. /\ more \in Seq(Entry) /\ Len(more) = n - a - 1
      /\ \A i \in 1 .. n - a - 1 : more[i] = s[a + 1 + i]
  <2>1. a + 2 \in Int /\ n \in Int /\ \A i \in a + 2 .. n : s[i] \in Entry
    BY <1>1, <1>2
  <2>2. /\ more \in Seq(Entry)
        /\ Len(more) = IF a + 2 <= n THEN n - (a + 2) + 1 ELSE 0
        /\ \A i \in 1 .. n - (a + 2) + 1 : more[i] = s[(a + 2) + i - 1]
    BY ONLY <2>1, SubSeqProperties
  <2>3. n - (a + 2) + 1 = n - a - 1 /\ (~(a + 2 <= n) => n - a - 1 = 0)
    BY <1>1
  <2>4. \A i \in 1 .. n - a - 1 : (a + 2) + i - 1 = a + 1 + i
    BY <1>1
  <2>. HIDE DEF more
  <2>. QED BY <2>2, <2>3, <2>4
<1>5. /\ gone \in Seq(Entry) /\ Len(gone) = a
      /\ \A i \in 1 .. a : gone[i] = s[i]
  <2>1. 1 \in Int /\ a \in Int /\ \A i \in 1 .. a : s[i] \in Entry
    BY <1>1, <1>2
  <2>2. /\ gone \in Seq(Entry)
        /\ Len(gone) = IF 1 <= a THEN a - 1 + 1 ELSE 0
        /\ \A i \in 1 .. a - 1 + 1 : gone[i] = s[1 + i - 1]
    BY ONLY <2>1, SubSeqProperties
  <2>3. a - 1 + 1 = a /\ (~(1 <= a) => a = 0) /\ \A i \in 1 .. a : 1 + i - 1 = i
    BY <1>1
  <2>. HIDE DEF gone
  <2>. QED BY <2>2, <2>3
<1>6. /\ next \in Seq(Entry) /\ Len(next) = a + 1
      /\ \A i \in 1 .. a + 1 : next[i] = s[i]
  <2>1. 1 \in Int /\ a + 1 \in Int /\ \A i \in 1 .. a + 1 : s[i] \in Entry
    BY <1>1, <1>2
  <2>2. /\ next \in Seq(Entry)
        /\ Len(next) = IF 1 <= a + 1 THEN (a + 1) - 1 + 1 ELSE 0
        /\ \A i \in 1 .. (a + 1) - 1 + 1 : next[i] = s[1 + i - 1]
    BY ONLY <2>1, SubSeqProperties
  <2>3. (a + 1) - 1 + 1 = a + 1 /\ 1 <= a + 1 /\ \A i \in 1 .. a + 1 : 1 + i - 1 = i
    BY <1>1
  <2>. HIDE DEF next
  <2>. QED BY <2>2, <2>3
<1>. HIDE DEF rest, more, gone, next
<1>7. Tail(rest) = more
  <2>1. rest # <<>>
    BY <1>1, <1>3
  <2>2. /\ Tail(rest) \in Seq(Entry) /\ Len(Tail(rest)) = n - a - 1
        /\ \A i \in 1 .. n - a - 1 : Tail(rest)[i] = rest[i + 1]
    BY <1>1, <1>3, <2>1, HeadTailProperties
  <2>3. ASSUME NEW i \in 1 .. n - a - 1
        PROVE  Tail(rest)[i] = more[i]
    <3>1. i + 1 \in 1 .. n - a /\ a + (i + 1) = a + 1 + i
      BY <1>1
    <3>. QED BY <1>3, <1>4, <2>2, <3>1
  <2>. QED BY <1>4, <2>2, <2>3, SeqEqual
<1>8. next = Append(gone, s[a + 1])
  <2>. DEFINE e == s[a + 1]
              t == Append(gone, e)
  <2>1. e \in Entry
    BY <1>1, <1>2
  <2>2. /\ t \in Seq(Entry) /\ Len(t) = a + 1
        /\ \A i \in 1 .. a : t[i] = gone[i]
        /\ t[a + 1] = e
    BY <1>5, <2>1, AppendProperties
  <2>. HIDE DEF t
  <2>3. ASSUME NEW i \in 1 .. a + 1
        PROVE  next[i] = t[i]
    <3>1. i \in 1 .. a \/ i = a + 1
      BY <1>1
    <3>. QED BY <1>5, <1>6, <2>2, <3>1
  <2>. QED BY <1>6, <2>2, <2>3, SeqEqual DEF t
<1>9. s[a + 1] \in Entry
  BY <1>1, <1>2
<1>10. StoredUnits(next) = StoredUnits(gone) + Units[s[a + 1].state]
  BY <1>5, <1>8, <1>9, StoredAppend
<1>11. rest[1] = s[a + 1]
  BY <1>1, <1>3
<1>12. StoredUnits(gone) \in Nat /\ Units[s[a + 1].state] \in Nat
  BY <1>5, <1>9, PositionsFinite, StoredOne
<1>. QED
  BY <1>3, <1>7, <1>10, <1>11, <1>12 DEF rest, more, gone, next, n

\* The two stacks of a history that has been cut.
LEMMA CutStacks ==
    ASSUME NEW x \in HistoryObject, NEW a \in 0 .. Len(x.undo), NEW b \in 0 .. Len(x.redo)
    PROVE  /\ Cut(x, a, b).undo = SubSeq(x.undo, a + 1, Len(x.undo))
           /\ Cut(x, a, b).redo = SubSeq(x.redo, b + 1, Len(x.redo))
           /\ Len(Cut(x, a, b).undo) = Len(x.undo) - a
           /\ Len(Cut(x, a, b).redo) = Len(x.redo) - b
<1>1. /\ Cut(x, a, b).undo = SubSeq(x.undo, a + 1, Len(x.undo))
      /\ Cut(x, a, b).redo = SubSeq(x.redo, b + 1, Len(x.redo))
  BY DEF Cut, HistoryObject
<1>2. x.undo \in Seq(Entry) /\ x.redo \in Seq(Entry)
  BY DEF HistoryObject
<1>3. ASSUME NEW s \in Seq(Entry), NEW c \in 0 .. Len(s)
      PROVE  Len(SubSeq(s, c + 1, Len(s))) = Len(s) - c
  <2>1. CASE c = Len(s)
    <3>1. SubSeq(s, c + 1, Len(s)) = <<>>
      BY <2>1, SubSeqEmpty, LenProperties
    <3>. QED BY <2>1, <3>1
  <2>2. CASE c # Len(s)
    <3>1. c \in 0 .. Len(s) - 1
      BY <2>2
    <3>. QED BY <3>1, NextOldest
  <2>. QED BY <2>1, <2>2
<1>. QED BY <1>1, <1>2, <1>3

LEMMA CutUndo ==
    ASSUME NEW x \in HistoryObject,
           NEW a \in 0 .. Len(x.undo) - 1, NEW b \in 0 .. Len(x.redo)
    PROVE  /\ OldestUndoGone(Cut(x, a, b)) = Cut(x, a + 1, b)
           /\ Cut(x, a, b).undo[1] = x.undo[a + 1]
<1>. DEFINE y == Cut(x, a, b)
            w == Units[x.undo[a + 1].state]
            ua == StoredUnits(SubSeq(x.undo, 1, a))
            rb == StoredUnits(SubSeq(x.redo, 1, b))
<1>1. x.undo \in Seq(Entry) /\ x.redo \in Seq(Entry) /\ x.units \in Nat
  BY DEF HistoryObject
<1>2. /\ y.undo = SubSeq(x.undo, a + 1, Len(x.undo))
      /\ y.redo = SubSeq(x.redo, b + 1, Len(x.redo))
      /\ y.units = x.units - ua - rb
  BY DEF Cut, HistoryObject
<1>3. y.undo[1] = x.undo[a + 1] /\ Tail(y.undo) = SubSeq(x.undo, a + 2, Len(x.undo))
  BY <1>1, <1>2, NextOldest
<1>4. StoredUnits(SubSeq(x.undo, 1, a + 1)) = ua + w /\ ua \in Nat /\ w \in Nat
  BY <1>1, NextOldest
<1>5. rb \in Nat
  BY <1>1, StoredSplit, PositionsFinite
<1>6. OldestUndoGone(y) = [y EXCEPT !.undo = Tail(y.undo),
                                    !.units = y.units - Units[y.undo[1].state]]
  BY DEF OldestUndoGone
<1>7. OldestUndoGone(y) = [y EXCEPT !.undo = SubSeq(x.undo, a + 2, Len(x.undo)),
                                    !.units = (x.units - ua - rb) - w]
  BY <1>2, <1>3, <1>6, Zenon
<1>8. (x.units - ua - rb) - w = x.units - (ua + w) - rb
  BY ONLY <1>1, <1>4, <1>5
<1>9. (a + 1) + 1 = a + 2
  OBVIOUS
<1>10. Cut(x, a + 1, b) = [x EXCEPT !.undo = SubSeq(x.undo, a + 2, Len(x.undo)),
                                   !.redo = SubSeq(x.redo, b + 1, Len(x.redo)),
                                   !.units = x.units - (ua + w) - rb]
  BY <1>4, <1>9, Zenon DEF Cut
<1>11. y = [x EXCEPT !.undo = SubSeq(x.undo, a + 1, Len(x.undo)),
                    !.redo = SubSeq(x.redo, b + 1, Len(x.redo)),
                    !.units = x.units - ua - rb]
  BY DEF Cut
<1>. HIDE DEF y, w, ua, rb
<1>12. OldestUndoGone(y) = Cut(x, a + 1, b)
  BY <1>7, <1>8, <1>10, <1>11 DEF HistoryObject
<1>. QED BY <1>3, <1>12 DEF y

LEMMA CutRedo ==
    ASSUME NEW x \in HistoryObject,
           NEW a \in 0 .. Len(x.undo), NEW b \in 0 .. Len(x.redo) - 1
    PROVE  /\ OldestRedoGone(Cut(x, a, b)) = Cut(x, a, b + 1)
           /\ Cut(x, a, b).redo[1] = x.redo[b + 1]
<1>. DEFINE y == Cut(x, a, b)
            w == Units[x.redo[b + 1].state]
            ua == StoredUnits(SubSeq(x.undo, 1, a))
            rb == StoredUnits(SubSeq(x.redo, 1, b))
<1>1. x.undo \in Seq(Entry) /\ x.redo \in Seq(Entry) /\ x.units \in Nat
  BY DEF HistoryObject
<1>2. /\ y.undo = SubSeq(x.undo, a + 1, Len(x.undo))
      /\ y.redo = SubSeq(x.redo, b + 1, Len(x.redo))
      /\ y.units = x.units - ua - rb
  BY DEF Cut, HistoryObject
<1>3. y.redo[1] = x.redo[b + 1] /\ Tail(y.redo) = SubSeq(x.redo, b + 2, Len(x.redo))
  BY <1>1, <1>2, NextOldest
<1>4. StoredUnits(SubSeq(x.redo, 1, b + 1)) = rb + w /\ rb \in Nat /\ w \in Nat
  BY <1>1, NextOldest
<1>5. ua \in Nat
  BY <1>1, StoredSplit, PositionsFinite
<1>6. OldestRedoGone(y) = [y EXCEPT !.redo = Tail(y.redo),
                                    !.units = y.units - Units[y.redo[1].state]]
  BY DEF OldestRedoGone
<1>7. OldestRedoGone(y) = [y EXCEPT !.redo = SubSeq(x.redo, b + 2, Len(x.redo)),
                                    !.units = (x.units - ua - rb) - w]
  BY <1>2, <1>3, <1>6, Zenon
<1>8. (x.units - ua - rb) - w = x.units - ua - (rb + w)
  BY ONLY <1>1, <1>4, <1>5
<1>9. (b + 1) + 1 = b + 2
  OBVIOUS
<1>10. Cut(x, a, b + 1) = [x EXCEPT !.undo = SubSeq(x.undo, a + 1, Len(x.undo)),
                                   !.redo = SubSeq(x.redo, b + 2, Len(x.redo)),
                                   !.units = x.units - ua - (rb + w)]
  BY <1>4, <1>9, Zenon DEF Cut
<1>11. y = [x EXCEPT !.undo = SubSeq(x.undo, a + 1, Len(x.undo)),
                    !.redo = SubSeq(x.redo, b + 1, Len(x.redo)),
                    !.units = x.units - ua - rb]
  BY DEF Cut
<1>. HIDE DEF y, w, ua, rb
<1>12. OldestRedoGone(y) = Cut(x, a, b + 1)
  BY <1>7, <1>8, <1>10, <1>11 DEF HistoryObject
<1>. QED BY <1>3, <1>12 DEF y

\* One more entry dropped: the branches of the loop, read off the number of
\* entries each stack has left.
LEMMA DropStep ==
    ASSUME NEW x \in HistoryObject, NEW k \in 0 .. (Len(x.undo) + Len(x.redo)) - 1
    PROVE  LET a  == Dropped(x, k).undo
               b  == Dropped(x, k).redo
               ru == Len(x.undo) - a
               rr == Len(x.redo) - b
               undoGoes == \/ ru > 1
                           \/ /\ ru = 1 /\ rr <= 1
                              /\ rr = 0 \/ Units[x.undo[a + 1].state] >= Units[x.redo[b + 1].state]
           IN  /\ a \in 0 .. Len(x.undo) /\ b \in 0 .. Len(x.redo) /\ ru + rr > 0
               /\ undoGoes => Dropped(x, k + 1) = [undo |-> a + 1, redo |-> b]
               /\ ~undoGoes => Dropped(x, k + 1) = [undo |-> a, redo |-> b + 1] /\ rr > 0
<1>. DEFINE u == Len(x.undo)
            r == Len(x.redo)
            su == IF u > 0 THEN u - 1 ELSE 0
            sr == IF r > 0 THEN r - 1 ELSE 0
            big == Units[x.undo[u].state] >= Units[x.redo[r].state]
            a == Dropped(x, k).undo
            b == Dropped(x, k).redo
            na == Dropped(x, k + 1).undo
            nb == Dropped(x, k + 1).redo
<1>1. u \in Nat /\ r \in Nat /\ k \in 0 .. (u + r) - 1
  BY DEF HistoryObject
<1>2. Dropped(x, k) = IF k <= su THEN [undo |-> k, redo |-> 0]
                      ELSE IF k <= su + sr THEN [undo |-> su, redo |-> k - su]
                      ELSE IF k >= u + r THEN [undo |-> u, redo |-> r]
                      ELSE IF big THEN [undo |-> u, redo |-> sr]
                           ELSE [undo |-> su, redo |-> r]
  BY DEF Dropped
<1>3. Dropped(x, k + 1) = IF k + 1 <= su THEN [undo |-> k + 1, redo |-> 0]
                      ELSE IF k + 1 <= su + sr THEN [undo |-> su, redo |-> k + 1 - su]
                      ELSE IF k + 1 >= u + r THEN [undo |-> u, redo |-> r]
                      ELSE IF big THEN [undo |-> u, redo |-> sr]
                           ELSE [undo |-> su, redo |-> r]
  BY DEF Dropped
<1>4. big \in BOOLEAN
  OBVIOUS
<1>. HIDE DEF u, r, big
<1>5. /\ a = IF k <= su THEN k ELSE IF k <= su + sr THEN su ELSE IF big THEN u ELSE su
      /\ b = IF k <= su THEN 0 ELSE IF k <= su + sr THEN k - su ELSE IF big THEN sr ELSE r
  BY <1>1, <1>2
<1>6. /\ na = IF k + 1 <= su THEN k + 1 ELSE IF k + 1 <= su + sr THEN su
              ELSE IF k + 1 >= u + r THEN u ELSE IF big THEN u ELSE su
      /\ nb = IF k + 1 <= su THEN 0 ELSE IF k + 1 <= su + sr THEN k + 1 - su
              ELSE IF k + 1 >= u + r THEN r ELSE IF big THEN sr ELSE r
      /\ Dropped(x, k + 1) = [undo |-> na, redo |-> nb]
  BY <1>3
<1>. HIDE DEF a, b, na, nb
<1>7. /\ a \in 0 .. u /\ b \in 0 .. r /\ (u - a) + (r - b) > 0
      /\ u - a > 1 => na = a + 1 /\ nb = b
      /\ ~(u - a > 1) /\ r - b > 1 => na = a /\ nb = b + 1
      /\ u - a = 1 /\ r - b = 0 => na = a + 1 /\ nb = b
      /\ u - a = 0 /\ r - b = 1 => na = a /\ nb = b + 1
      /\ u - a = 1 /\ r - b = 1 => /\ a + 1 = u /\ b + 1 = r
                                   /\ big => na = a + 1 /\ nb = b
                                   /\ ~big => na = a /\ nb = b + 1
  BY ONLY <1>1, <1>4, <1>5, <1>6
<1>. DEFINE more == Units[x.undo[a + 1].state] >= Units[x.redo[b + 1].state]
<1>8. u - a = 1 /\ r - b = 1 => (more <=> big)
  BY <1>7 DEF big
<1>9. more \in BOOLEAN
  OBVIOUS
<1>. HIDE DEF more
<1>. DEFINE goes == u - a > 1 \/ (u - a = 1 /\ r - b <= 1 /\ (r - b = 0 \/ more))
<1>10. /\ goes => na = a + 1 /\ nb = b
       /\ ~goes => na = a /\ nb = b + 1 /\ r - b > 0
  BY ONLY <1>1, <1>7, <1>8, <1>9, <1>4
<1>11. /\ goes => Dropped(x, k + 1) = [undo |-> a + 1, redo |-> b]
       /\ ~goes => Dropped(x, k + 1) = [undo |-> a, redo |-> b + 1] /\ r - b > 0
  <2>. HIDE DEF goes
  <2>. QED BY <1>6, <1>10
<1>. QED
  BY <1>7, <1>11, Zenon DEF more, u, r, a, b

LEMMA DroppedIsCut ==
    ASSUME NEW x, NEW k
    PROVE  DropOldest(x, k) = Cut(x, Dropped(x, k).undo, Dropped(x, k).redo)
  BY DEF DropOldest, Cut

LEMMA NothingDropped ==
    ASSUME NEW x \in HistoryObject
    PROVE  DropOldest(x, 0) = x
<1>1. x.undo \in Seq(Entry) /\ x.redo \in Seq(Entry) /\ x.units \in Nat
  BY DEF HistoryObject
<1>2. Dropped(x, 0).undo = 0 /\ Dropped(x, 0).redo = 0
  <2>. DEFINE su == IF Len(x.undo) > 0 THEN Len(x.undo) - 1 ELSE 0
  <2>1. 0 <= su
    BY <1>1, LenProperties
  <2>2. Dropped(x, 0) = [undo |-> 0, redo |-> 0]
    BY <2>1 DEF Dropped
  <2>. QED BY <2>2
<1>3. ASSUME NEW s \in Seq(Entry)
      PROVE  SubSeq(s, 0 + 1, Len(s)) = s /\ StoredUnits(SubSeq(s, 1, 0)) = 0
  <2>1. 0 + 1 = 1 /\ SubSeq(s, 1, 0) = <<>>
    BY SubSeqEmpty
  <2>2. SubSeq(s, 1, Len(s)) = s
    <3>. DEFINE t == SubSeq(s, 1, Len(s))
    <3>1. /\ t \in Seq(Entry) /\ Len(t) = Len(s)
          /\ \A i \in 1 .. Len(s) : t[i] = s[i]
      BY LenProperties, ElementOfSeq, SubSeqProperties
    <3>. HIDE DEF t
    <3>2. t = s
      BY <3>1, SeqEqual
    <3>. QED BY <3>2 DEF t
  <2>. QED BY <2>1, <2>2, NothingStored
<1>4. DropOldest(x, 0) = [x EXCEPT !.undo = x.undo, !.redo = x.redo,
                                   !.units = x.units - 0 - 0]
  <2>1. Cut(x, 0, 0) = [x EXCEPT !.undo = x.undo, !.redo = x.redo,
                                 !.units = x.units - 0 - 0]
    BY <1>1, <1>3, Zenon DEF Cut
  <2>. QED BY <1>2, <2>1, DroppedIsCut
<1>5. x.units - 0 - 0 = x.units
  BY <1>1
<1>. QED BY <1>4, <1>5 DEF HistoryObject

\* One turn of the loop drops the entry that comes next.
LEMMA TurnDrops ==
    ASSUME NEW x \in HistoryObject, NEW k \in 0 .. (Len(x.undo) + Len(x.redo)) - 1
    PROVE  /\ OneRemoved(DropOldest(x, k)) = DropOldest(x, k + 1)
           /\ ~(DropOldest(x, k).undo = <<>> /\ DropOldest(x, k).redo = <<>>)
<1>. DEFINE a == Dropped(x, k).undo
            b == Dropped(x, k).redo
            u == Len(x.undo)
            r == Len(x.redo)
            y == DropOldest(x, k)
            more == Units[x.undo[a + 1].state] >= Units[x.redo[b + 1].state]
            goes == u - a > 1 \/ (u - a = 1 /\ r - b <= 1 /\ (r - b = 0 \/ more))
<1>1. /\ a \in 0 .. u /\ b \in 0 .. r /\ (u - a) + (r - b) > 0
      /\ goes => Dropped(x, k + 1) = [undo |-> a + 1, redo |-> b]
      /\ ~goes => Dropped(x, k + 1) = [undo |-> a, redo |-> b + 1] /\ r - b > 0
  BY DropStep
<1>2. y = Cut(x, a, b)
  BY DroppedIsCut
<1>3. Len(y.undo) = u - a /\ Len(y.redo) = r - b
  <2>. HIDE DEF a, b, y
  <2>. QED BY <1>1, <1>2, CutStacks
<1>4. u \in Nat /\ r \in Nat
  BY DEF HistoryObject
<1>5. ~(y.undo = <<>> /\ y.redo = <<>>)
  BY <1>1, <1>3
<1>6. u - a >= 1 => /\ OldestUndoGone(y) = Cut(x, a + 1, b)
                    /\ y.undo[1] = x.undo[a + 1]
  <2>. HIDE DEF a, b, y
  <2>. SUFFICES ASSUME u - a >= 1
                PROVE  /\ OldestUndoGone(y) = Cut(x, a + 1, b)
                       /\ y.undo[1] = x.undo[a + 1]
    OBVIOUS
  <2>1. a \in 0 .. u - 1
    BY <1>1, <1>4
  <2>. QED BY <1>1, <1>2, <2>1, CutUndo
<1>7. r - b >= 1 => /\ OldestRedoGone(y) = Cut(x, a, b + 1)
                    /\ y.redo[1] = x.redo[b + 1]
  <2>. HIDE DEF a, b, y
  <2>. SUFFICES ASSUME r - b >= 1
                PROVE  /\ OldestRedoGone(y) = Cut(x, a, b + 1)
                       /\ y.redo[1] = x.redo[b + 1]
    OBVIOUS
  <2>1. b \in 0 .. r - 1
    BY <1>1, <1>4
  <2>. QED BY <1>1, <1>2, <2>1, CutRedo
<1>8. DropOldest(x, k + 1) = IF goes THEN Cut(x, a + 1, b) ELSE Cut(x, a, b + 1)
  <2>1. DropOldest(x, k + 1) = Cut(x, Dropped(x, k + 1).undo, Dropped(x, k + 1).redo)
    BY DroppedIsCut
  <2>. HIDE DEF a, b, goes
  <2>2. CASE goes
    <3>1. Dropped(x, k + 1).undo = a + 1 /\ Dropped(x, k + 1).redo = b
      BY <1>1, <2>2
    <3>. QED BY <2>1, <2>2, <3>1
  <2>3. CASE ~goes
    <3>1. Dropped(x, k + 1).undo = a /\ Dropped(x, k + 1).redo = b + 1
      BY <1>1, <2>3
    <3>. QED BY <2>1, <2>3, <3>1
  <2>. QED BY <2>2, <2>3
<1>. DEFINE heads == Units[y.undo[1].state] >= Units[y.redo[1].state]
<1>9. OneRemoved(y) = IF Len(y.undo) > 1 THEN OldestUndoGone(y)
                      ELSE IF Len(y.redo) > 1 THEN OldestRedoGone(y)
                      ELSE IF Len(y.undo) > 0 /\ (Len(y.redo) = 0 \/ heads)
                           THEN OldestUndoGone(y) ELSE OldestRedoGone(y)
  BY Zenon DEF OneRemoved
<1>10. u - a >= 1 /\ r - b >= 1 => (heads <=> more)
  BY <1>6, <1>7
<1>11. heads \in BOOLEAN /\ more \in BOOLEAN
  OBVIOUS
<1>. HIDE DEF a, b, u, r, y, heads, more
<1>12. OneRemoved(y) = IF goes THEN OldestUndoGone(y) ELSE OldestRedoGone(y)
  <2>. DEFINE ou == OldestUndoGone(y)
              or == OldestRedoGone(y)
  <2>1. OneRemoved(y) = IF u - a > 1 THEN ou ELSE IF r - b > 1 THEN or
                        ELSE IF u - a > 0 /\ (r - b = 0 \/ heads) THEN ou ELSE or
    BY <1>3, <1>9
  <2>. HIDE DEF ou, or
  <2>2. OneRemoved(y) = IF goes THEN ou ELSE or
    BY ONLY <2>1, <1>1, <1>4, <1>10, <1>11
  <2>. QED BY <2>2 DEF ou, or
<1>13. goes => u - a >= 1
  BY ONLY <1>1, <1>4
<1>14. ~goes => r - b >= 1
  BY <1>1, <1>4
<1>15. OneRemoved(y) = DropOldest(x, k + 1)
  <2>. HIDE DEF goes
  <2>. QED BY <1>6, <1>7, <1>8, <1>12, <1>13, <1>14
<1>. QED BY <1>5, <1>15 DEF y

\* The fewest removals after which the caps hold are those the loop makes.
LEMMA LoopTrims ==
    ASSUME NEW x \in HistoryObject, Exact(x)
    PROVE  Trim(x) = TrimLoop(x)
<1>. DEFINE all == Len(x.undo) + Len(x.redo)
            enough == {k \in 0 .. all : k = all \/ ~OverCap(DropOldest(x, k))}
            Turn(y) == IF Stops(y) THEN y ELSE OneRemoved(y)
            P(f) == f = [k \in 0 .. all |-> IF k = 0 THEN x ELSE Turn(f[k - 1])]
            after == CHOOSE f : P(f)
<1>1. all \in Nat
  BY DEF HistoryObject
<1>2. TrimLoop(x) = after[all]
  BY DEF TrimLoop
<1>3. ASSUME NEW k \in 0 .. all - 1
      PROVE  /\ OneRemoved(DropOldest(x, k)) = DropOldest(x, k + 1)
             /\ Stops(DropOldest(x, k)) <=> ~OverCap(DropOldest(x, k))
  <2>0. k \in 0 .. (Len(x.undo) + Len(x.redo)) - 1
    OBVIOUS
  <2>. HIDE DEF all
  <2>1. /\ ~(DropOldest(x, k).undo = <<>> /\ DropOldest(x, k).redo = <<>>)
        /\ OneRemoved(DropOldest(x, k)) = DropOldest(x, k + 1)
    BY ONLY <2>0, x \in HistoryObject, TurnDrops
  <2>. QED BY <2>1, Zenon DEF Stops
<1>4. ~OverCap(DropOldest(x, all))
  <2>. HIDE DEF all
  <2>1. all \in 0 .. all
    BY <1>1
  <2>. QED BY <2>1, DropOldestKeeps DEF all
<1>5. DropOldest(x, 0) = x
  BY NothingDropped
<1>. HIDE DEF all
<1>6. PICK m \in enough : m = Min(enough) /\ \A k \in enough : m <= k
  <2>1. all \in enough /\ enough \subseteq Nat
    BY <1>1
  <2>. HIDE DEF enough
  <2>. QED BY <2>1, MinIsLeast
<1>7. m \in 0 .. all /\ Stops(DropOldest(x, m))
  BY <1>4, <1>6 DEF Stops
<1>8. Trim(x) = DropOldest(x, m)
  BY <1>6 DEF Trim, all
<1>9. ASSUME NEW k \in 0 .. all, k < m
      PROVE  OverCap(DropOldest(x, k))
  BY <1>1, <1>6, <1>9
<1>. DEFINE W == [k \in 0 .. all |-> DropOldest(x, IF k <= m THEN k ELSE m)]
<1>10. P(W)
  <2>1. ASSUME NEW k \in 0 .. all, k # 0
        PROVE  W[k] = Turn(W[k - 1])
    <3>1. k - 1 \in 0 .. all - 1 /\ k - 1 \in 0 .. all /\ (k - 1) + 1 = k /\ k \in Nat
      BY <1>1, <2>1
    <3>2. CASE k <= m
      <4>1. W[k] = DropOldest(x, k) /\ W[k - 1] = DropOldest(x, k - 1)
        BY <1>7, <3>1, <3>2
      <4>2. ~Stops(DropOldest(x, k - 1))
        BY <1>3, <1>7, <1>9, <3>1, <3>2
      <4>3. OneRemoved(DropOldest(x, k - 1)) = DropOldest(x, k)
        BY <1>3, <3>1
      <4>. QED BY <4>1, <4>2, <4>3
    <3>3. CASE ~(k <= m)
      <4>1. W[k] = DropOldest(x, m) /\ W[k - 1] = DropOldest(x, m)
        BY <1>7, <3>1, <3>3
      <4>. QED BY <1>7, <4>1
    <3>. QED BY <3>2, <3>3
  <2>2. W[0] = x
    BY <1>1, <1>5, <1>7
  <2>3. W = [k \in 0 .. all |-> W[k]]
    OBVIOUS
  <2>4. \A k \in 0 .. all : W[k] = IF k = 0 THEN x ELSE Turn(W[k - 1])
    BY <2>1, <2>2
  <2>. HIDE DEF W, Turn
  <2>. QED BY <2>3, <2>4
<1>11. P(after)
  <2>. HIDE DEF P
  <2>. QED BY <1>10
<1>. HIDE DEF after, Turn
<1>. DEFINE Wrong == {k \in 0 .. all : after[k] # W[k]}
<1>12. Wrong = {}
  <2>. SUFFICES ASSUME Wrong # {} PROVE FALSE
    OBVIOUS
  <2>1. PICK k \in Wrong : \A j \in Wrong : k <= j
    <3>1. Wrong \subseteq Nat
      OBVIOUS
    <3>. HIDE DEF Wrong
    <3>. QED BY <3>1, MinIsLeast
  <2>2. k \in 0 .. all /\ after[k] # W[k]
    BY <2>1
  <2>3. \A j \in 0 .. all : j < k => after[j] = W[j]
    BY <2>1
  <2>. HIDE DEF W, Wrong
  <2>4. /\ after[k] = IF k = 0 THEN x ELSE Turn(after[k - 1])
        /\ W[k] = IF k = 0 THEN x ELSE Turn(W[k - 1])
    BY <1>10, <1>11, <2>2
  <2>5. k # 0 => k - 1 \in 0 .. all /\ k - 1 < k
    BY <1>1, <2>2
  <2>. QED BY <2>2, <2>3, <2>4, <2>5
<1>13. after[all] = W[all]
  <2>1. all \in 0 .. all
    BY <1>1
  <2>. HIDE DEF W
  <2>. QED BY <1>12, <2>1
<1>14. W[all] = DropOldest(x, m)
  BY <1>1, <1>7
<1>. QED BY <1>2, <1>8, <1>13, <1>14

\* For every history a call can reach, what it hands to _trim is cut down as
\* the loop of _trim does it, entry by entry.
THEOREM TrimLoops == Spec => []TrimIsTheLoop
<1>1. IInv => TrimIsTheLoop
  <2>. SUFFICES ASSUME IInv, NEW s \in States
                PROVE  /\ Trim(AddUndo(h, s, h.group + 1)) = TrimLoop(AddUndo(h, s, h.group + 1))
                       /\ Trim(AddRedo(h, s, h.group + 1)) = TrimLoop(AddRedo(h, s, h.group + 1))
    BY DEF TrimIsTheLoop
  <2>1. h \in HistoryObject /\ Exact(h)
    BY DEF IInv, Good
  <2>2. h.group + 1 \in Nat
    BY <2>1 DEF HistoryObject
  <2>. QED BY <2>1, <2>2, AddUndoKeeps, AddRedoKeeps, LoopTrims
<1>. QED
  BY <1>1, Inductive, PTL

=============================================================================
