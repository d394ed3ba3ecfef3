---------------------------- MODULE LegacyProofs ----------------------------
(***************************************************************************)
(* Proofs about two components of the legacy Rust bridges.                 *)
(*                                                                         *)
(* The V3 registries, for any threads, sizes and generations: a handle     *)
(* names one object for good, a call works on the object its handle was    *)
(* issued for, alone and until it lets go of it, the free list and the     *)
(* counters are exact, and an admitted insert finds a slot.                *)
(*                                                                         *)
(* A document of the V4 engine, for any number of edits and pages, any     *)
(* backlog and any work a parse needs, and for every set of failures: the  *)
(* parser works on the current text, its roots are the ones it will        *)
(* release, no page is lost, a closed document has released all it had,    *)
(* and what a caller is told is so.                                        *)
(***************************************************************************)
EXTENDS Registry, Document, FiniteSetTheorems, TLAPS

\* The slots in use.
Live == {s \in Slots : object[s] # None}

\* Only slots that were pushed are used or exhausted, and never both.
SlotsSound ==
  /\ \A s \in Slots : s > len => object[s] = None
  /\ \A s \in exhausted : s <= len /\ object[s] = None

\* A handle that was given out is not ahead of its slot, and one whose slot has
\* not moved on is not on the free list; a live slot's own handle was given out.
IssuedSound ==
  /\ \A i \in issued : /\ i[2] <= created
                       /\ i[1][1] <= len
                       /\ i[1][2] <= generation[i[1][1]]
                       /\ i[1][2] = generation[i[1][1]] => i[1][1] \notin Free
  /\ \A s \in Live : <<<<s, generation[s]>>, object[s]>> \in issued

\* What each thread holds at each point of a call.
CallsSound ==
  \A t \in Threads :
    /\ pc[t] = "idle" <=> arc[t] = None
    /\ pc[t] = "resolved" => op[t] \in {"with", "remove"}
    /\ pc[t] \in {"with", "remove", "guarded"} => lock[arc[t]] = t
    /\ pc[t] \in {"with", "remove"} => arc[t] \notin poisoned

\* What holds of the slots, whatever the calls in progress do.
SlotInv == SlotsSound /\ IssuedSound /\ AccountsExact /\ HandleNamesOne

\* The inductive invariant.
RegistryIInv == RegistryTypeOK /\ SlotInv /\ CallsSound /\ InUseIsRegistered /\ LockHasOwner

-----------------------------------------------------------------------------
(* Sizes.                                                                  *)

LEMMA SlotBounds ==
  RegistryTypeOK => /\ MaxSlots \in Nat /\ MaxFresh <= MaxSlots /\ MaxSlots <= 2 * MaxFresh
                    /\ len \in Nat /\ len <= MaxSlots
                    /\ 1 .. len \subseteq Slots
                    /\ None \notin Objects
  BY BoundsAssumption DEF RegistryTypeOK, MaxSlots, Slots, Objects, None

\* What a handle that was given out is made of.
LEMMA IssuedParts ==
  ASSUME RegistryTypeOK, NEW i \in issued
  PROVE  /\ i[1] \in Handles /\ i[2] \in Objects
         /\ i[1][1] \in Slots /\ i[1][2] \in 1 .. MaxGeneration
         /\ i[1] = <<i[1][1], i[1][2]>>
<1>1. i \in Handles \X Objects
  BY DEF RegistryTypeOK
<1>. QED
  BY <1>1 DEF Handles

LEMMA TwoParts ==
  ASSUME NEW A, NEW B, IsFiniteSet(A), IsFiniteSet(B), A \cap B = {}
  PROVE  /\ IsFiniteSet(A \cup B)
         /\ Cardinality(A \cup B) = Cardinality(A) + Cardinality(B)
<1>1. IsFiniteSet(A \cup B) /\ Cardinality(A \cup B) = Cardinality(A) + Cardinality(B) - Cardinality(A \cap B)
  BY FS_Union
<1>2. Cardinality(A \cap B) = 0
  BY FS_EmptySet, Zenon
<1>3. Cardinality(A) \in Nat /\ Cardinality(B) \in Nat
  BY FS_CardinalityType
<1>. QED
  BY <1>1, <1>2, <1>3

LEMMA SomeOf ==
  ASSUME NEW n \in Nat, NEW A \in SUBSET (1 .. n)
  PROVE  IsFiniteSet(A) /\ Cardinality(A) \in Nat /\ Cardinality(A) <= n
<1>1. IsFiniteSet(1 .. n) /\ Cardinality(1 .. n) = n
  BY FS_Interval
<1>. QED
  BY <1>1, FS_Subset, FS_CardinalityType

\* Disjoint parts of the pushed slots add up to their number.
LEMMA Parts ==
  ASSUME NEW n \in Nat, NEW A, NEW B, NEW C,
         A \cup B \cup C = 1 .. n, A \cap B = {}, A \cap C = {}, B \cap C = {}
  PROVE  /\ Cardinality(A) \in Nat /\ Cardinality(B) \in Nat /\ Cardinality(C) \in Nat
         /\ Cardinality(A) + Cardinality(B) + Cardinality(C) = n
<1>1. IsFiniteSet(1 .. n) /\ Cardinality(1 .. n) = n
  BY FS_Interval
<1>2. IsFiniteSet(A) /\ IsFiniteSet(B) /\ IsFiniteSet(C)
  BY <1>1, FS_Subset
<1>3. Cardinality(A) \in Nat /\ Cardinality(B) \in Nat /\ Cardinality(C) \in Nat
  BY <1>2, FS_CardinalityType
<1>4. IsFiniteSet(A \cup B) /\ Cardinality(A \cup B) = Cardinality(A) + Cardinality(B)
  BY <1>2, TwoParts
<1>5. (A \cup B) \cap C = {}
  OBVIOUS
<1>6. Cardinality(A \cup B \cup C) = Cardinality(A \cup B) + Cardinality(C)
  BY <1>2, <1>4, <1>5, TwoParts
<1>. QED
  BY <1>1, <1>3, <1>4, <1>6

\* Every pushed slot is free, in use or exhausted, and only one of these.
LEMMA SlotsArePartitioned ==
  RegistryTypeOK /\ SlotsSound =>
    /\ IsFiniteSet(Live) /\ IsFiniteSet(exhausted)
    /\ Cardinality(Free) \in Nat /\ Cardinality(Live) \in Nat /\ Cardinality(exhausted) \in Nat
    /\ Cardinality(Free) + Cardinality(Live) + Cardinality(exhausted) = len
<1>. SUFFICES ASSUME RegistryTypeOK, SlotsSound
              PROVE  /\ IsFiniteSet(Live) /\ IsFiniteSet(exhausted)
                     /\ Cardinality(Free) \in Nat /\ Cardinality(Live) \in Nat /\ Cardinality(exhausted) \in Nat
                     /\ Cardinality(Free) + Cardinality(Live) + Cardinality(exhausted) = len
  OBVIOUS
<1>1. len \in Nat /\ 1 .. len \subseteq Slots
  BY SlotBounds
<1>2. \A s \in Slots : s \in 1 .. len <=> ~(s > len)
  BY <1>1, BoundsAssumption DEF Slots
<1>3. Live \subseteq 1 .. len /\ exhausted \subseteq 1 .. len
  <2>1. \A s \in exhausted : s \in Slots /\ s <= len
    BY DEF RegistryTypeOK, SlotsSound
  <2>2. \A s \in exhausted : s \in 1 .. len
    BY <1>1, <2>1 DEF Slots
  <2>3. Live \subseteq 1 .. len
    BY <1>2 DEF SlotsSound, Live
  <2>. QED
    BY <2>2, <2>3
<1>4. Live \cap exhausted = {} /\ Free \cap Live = {} /\ Free \cap exhausted = {}
  BY DEF Live, Free, SlotsSound
<1>5. Free \cup Live \cup exhausted = 1 .. len
  BY <1>1, <1>3 DEF Free, Live
<1>6. IsFiniteSet(1 .. len)
  BY <1>1, FS_Interval
<1>7. IsFiniteSet(Live) /\ IsFiniteSet(exhausted)
  BY <1>3, <1>6, FS_Subset
<1>. QED
  BY <1>1, <1>4, <1>5, <1>7, Parts

LEMMA Accounting ==
  RegistryTypeOK /\ SlotsSound /\ AccountsExact =>
    /\ Cardinality(Free) \in Nat /\ Cardinality(Free) + resident + exhaustedSlots = len
    /\ resident \in Nat /\ exhaustedSlots \in Nat /\ len \in Nat
<1>1. AccountsExact => resident = Cardinality(Live) /\ exhaustedSlots = Cardinality(exhausted)
  BY DEF AccountsExact, Live
<1>2. RegistryTypeOK => len \in Nat
  BY SlotBounds
<1>. QED
  BY <1>1, <1>2, SlotsArePartitioned

\* The strong count of an object that is registered, or held by a thread.
LEMMA Owners ==
  ASSUME RegistryTypeOK, NEW s \in Slots, object[s] # None
  PROVE  /\ StrongCount(object[s]) = 1 => \A t \in Threads : arc[t] # object[s]
         /\ \A t \in Threads : arc[t] = object[s] /\ StrongCount(object[s]) = 2 =>
              \A u \in Threads : arc[u] = object[s] => u = t
<1>. DEFINE S == {r \in Slots : object[r] = object[s]}
            T == {u \in Threads : arc[u] = object[s]}
<1>1. IsFiniteSet(S) /\ IsFiniteSet(T)
  <2>1. IsFiniteSet(Slots)
    BY BoundsAssumption, FS_Interval DEF Slots
  <2>. QED
    BY <2>1, ThreadsAssumption, FS_Subset
<1>2. Cardinality(S) \in Nat /\ Cardinality(T) \in Nat /\ StrongCount(object[s]) = Cardinality(S) + Cardinality(T)
  BY <1>1, FS_CardinalityType DEF StrongCount
<1>3. Cardinality(S) # 0
  BY <1>1, FS_EmptySet
<1>4. Cardinality(T) = 0 => T = {}
  BY <1>1, FS_EmptySet
<1>5. Cardinality(T) = 1 => \E u : T = {u}
  BY <1>1, FS_Singleton
<1>6. \A t \in T : Cardinality(T) # 0
  BY <1>1, FS_EmptySet
<1>7. StrongCount(object[s]) = 1 => T = {}
  BY <1>2, <1>3, <1>4
<1>8. \A t \in T : StrongCount(object[s]) = 2 => \E u : T = {u}
  <2>1. ASSUME NEW t \in T, StrongCount(object[s]) = 2 PROVE Cardinality(T) = 1
    <3>. HIDE DEF S, T
    <3>1. Cardinality(T) # 0
      BY <1>6
    <3>. QED
      BY <1>2, <1>3, <2>1, <3>1
  <2>. QED
    BY <1>5, <2>1, Zenon
<1>. QED
  BY <1>7, <1>8

-----------------------------------------------------------------------------
(* The slots: insert takes one, recycle gives it back.                     *)

\* The list from free_head visits every free slot once.
FreeList ==
  /\ freeHead # None => freeHead \in Free
  /\ \A s \in Free : nextFree[s] # None => nextFree[s] \in Free /\ nextFree[s] # freeHead
  /\ \A r, s \in Free : nextFree[r] = nextFree[s] /\ nextFree[r] # None => r = s
  /\ \A X \in SUBSET Free :
       (freeHead # None => freeHead \in X) /\ (\A s \in X : nextFree[s] # None => nextFree[s] \in X)
         => X = Free

LEMMA AccountsParts ==
  AccountsExact <=> /\ resident = Cardinality(Live)
                    /\ exhaustedSlots = Cardinality(exhausted)
                    /\ FreeList
  BY DEF AccountsExact, FreeList, Live

\* insert uses the slot p, which is not in use and whose handle is new.
Takes(p) ==
  /\ p \in Slots /\ object[p] = None /\ p \notin exhausted
  /\ object' = [object EXCEPT ![p] = created + 1]
  /\ generation' \in [Slots -> 1 .. MaxGeneration]
  /\ \A s \in Slots : s # p => generation'[s] = generation[s]
  /\ issued' = issued \cup {<<<<p, generation'[p]>>, created + 1>>}
  /\ \A i \in issued : i[1][1] = p => i[1][2] < generation'[p]
  /\ len' \in Nat /\ p <= len' /\ len <= len' /\ len' <= MaxSlots
  /\ Free' = Free \ {p}
  /\ FreeList'
  /\ nextFree' \in [Slots -> Slots \cup {None}] /\ freeHead' \in Slots \cup {None}

LEMMA ReusedTakes ==
  ASSUME RegistryTypeOK, SlotInv, created + 1 \in Objects, UNCHANGED exhausted, InsertReused
  PROVE  Takes(freeHead)
<1>1. /\ freeHead \in Free /\ freeHead # None /\ FreeList
      /\ object' = [object EXCEPT ![freeHead] = created + 1]
      /\ nextFree' = [nextFree EXCEPT ![freeHead] = None]
      /\ freeHead' = nextFree[freeHead]
      /\ UNCHANGED <<len, generation>>
  BY AccountsParts DEF InsertReused, SlotInv, FreeList
<1>2. /\ freeHead \in Slots /\ freeHead \in 1 .. len
      /\ object[freeHead] = None /\ freeHead \notin exhausted
  BY <1>1, SlotBounds DEF Free
<1>3. created + 1 # None
  BY SlotBounds
<1>4. Free' = Free \ {freeHead}
  BY <1>1, <1>2, <1>3, SlotBounds DEF Free, RegistryTypeOK
<1>5. \A s \in Free' : nextFree'[s] = nextFree[s]
  BY <1>1, <1>4, SlotBounds DEF RegistryTypeOK, Free
<1>6. FreeList'
  <2>1. freeHead' # None => freeHead' \in Free'
    BY <1>1, <1>4 DEF FreeList
  <2>2. ASSUME NEW s \in Free', nextFree'[s] # None
        PROVE  nextFree'[s] \in Free' /\ nextFree'[s] # freeHead'
    BY <1>1, <1>4, <1>5, <2>2 DEF FreeList
  <2>3. \A r, s \in Free' : nextFree'[r] = nextFree'[s] /\ nextFree'[r] # None => r = s
    BY <1>1, <1>4, <1>5 DEF FreeList
  <2>4. ASSUME NEW X \in SUBSET Free', freeHead' # None => freeHead' \in X,
               \A s \in X : nextFree'[s] # None => nextFree'[s] \in X
        PROVE  X = Free'
    <3>. DEFINE Y == X \cup {freeHead}
    <3>1. Y \in SUBSET Free /\ freeHead \in Y
      BY <1>1, <1>4
    <3>2. \A s \in Y : nextFree[s] # None => nextFree[s] \in Y
      BY <1>1, <1>5, <2>4
    <3>3. Y = Free
      BY <1>1, <3>1, <3>2 DEF FreeList
    <3>. QED
      BY <1>4, <3>3
  <2>. QED
    BY <2>1, <2>2, <2>3, <2>4 DEF FreeList
<1>7. \A i \in issued : i[1][1] = freeHead => i[1][2] < generation'[freeHead]
  <2>1. ASSUME NEW i \in issued, i[1][1] = freeHead PROVE i[1][2] < generation[freeHead]
    <3>1. i[1][2] <= generation[freeHead] /\ i[1][2] # generation[freeHead]
      BY <1>1, <2>1 DEF SlotInv, IssuedSound
    <3>2. i[1][2] \in 1 .. MaxGeneration /\ generation[freeHead] \in 1 .. MaxGeneration
      BY <1>2, IssuedParts DEF RegistryTypeOK
    <3>. QED
      BY <3>1, <3>2, BoundsAssumption
  <2>. QED
    BY <1>1, <2>1
<1>8. nextFree' \in [Slots -> Slots \cup {None}] /\ freeHead' \in Slots \cup {None}
  BY <1>1, <1>2 DEF RegistryTypeOK
<1>9. issued' = issued \cup {<<<<freeHead, generation'[freeHead]>>, created + 1>>}
  BY <1>1 DEF InsertReused
<1>10. len' \in Nat /\ freeHead <= len' /\ len <= len' /\ len' <= MaxSlots
  BY <1>1, <1>2, SlotBounds
<1>. QED
  BY <1>1, <1>2, <1>4, <1>6, <1>7, <1>8, <1>9, <1>10 DEF Takes, RegistryTypeOK

LEMMA PushedTakes ==
  ASSUME RegistryTypeOK, SlotInv, created + 1 \in Objects, UNCHANGED exhausted, InsertPushed
  PROVE  Takes(len + 1)
<1>1. /\ freeHead = None /\ FreeList /\ len < MaxSlots
      /\ object' = [object EXCEPT ![len + 1] = created + 1]
      /\ generation' = [generation EXCEPT ![len + 1] = 1]
      /\ issued' = issued \cup {<<<<len + 1, 1>>, created + 1>>}
      /\ len' = len + 1 /\ UNCHANGED <<nextFree, freeHead>>
  BY AccountsParts DEF InsertPushed, SlotInv
<1>2. len + 1 \in Slots /\ len + 1 > len /\ len' \in Nat /\ len + 1 <= len' /\ len <= len' /\ len' <= MaxSlots
  BY <1>1, SlotBounds, BoundsAssumption DEF Slots
<1>3. object[len + 1] = None /\ len + 1 \notin exhausted
  BY <1>2, SlotBounds DEF SlotInv, SlotsSound
<1>4. created + 1 # None
  BY SlotBounds
<1>5. 1 .. len' = (1 .. len) \cup {len + 1} /\ len + 1 \notin 1 .. len
  BY <1>1, SlotBounds
<1>6. Free' = Free /\ Free' = Free \ {len + 1}
  <2>1. \A s \in 1 .. len : object'[s] = object[s]
    BY <1>1, <1>5, SlotBounds DEF RegistryTypeOK
  <2>2. object'[len + 1] # None
    BY <1>1, <1>2, <1>4 DEF RegistryTypeOK
  <2>. QED
    BY <1>5, <2>1, <2>2 DEF Free
<1>7. FreeList'
  BY <1>1, <1>6 DEF FreeList
<1>8. generation' \in [Slots -> 1 .. MaxGeneration] /\ generation'[len + 1] = 1
      /\ \A s \in Slots : s # len + 1 => generation'[s] = generation[s]
  BY <1>1, <1>2, BoundsAssumption DEF RegistryTypeOK
<1>9. \A i \in issued : i[1][1] # len + 1
  <2>1. \A i \in issued : i[1][1] \in Slots /\ i[1][1] <= len
    BY IssuedParts DEF SlotInv, IssuedSound
  <2>. QED
    BY <2>1, SlotBounds DEF Slots
<1>. QED
  BY <1>1, <1>2, <1>3, <1>6, <1>7, <1>8, <1>9 DEF Takes, RegistryTypeOK

\* The part of the type that the slots' variables have.
SlotTypes ==
  /\ hosts \in BOOLEAN
  /\ len \in 0 .. MaxSlots
  /\ generation \in [Slots -> 1 .. MaxGeneration]
  /\ object \in [Slots -> Objects \cup {None}]
  /\ nextFree \in [Slots -> Slots \cup {None}]
  /\ exhausted \subseteq Slots
  /\ freeHead \in Slots \cup {None}
  /\ created \in 0 .. MaxObjects
  /\ issued \subseteq (Handles \X Objects)

\* The counters are those of pushed slots, so there are no more than these.
LEMMA CountersInRange ==
  SlotTypes /\ SlotsSound /\ AccountsExact => resident \in 0 .. MaxSlots /\ exhaustedSlots \in 0 .. MaxSlots
<1>. SUFFICES ASSUME SlotTypes, SlotsSound, AccountsExact
              PROVE  resident \in 0 .. MaxSlots /\ exhaustedSlots \in 0 .. MaxSlots
  OBVIOUS
<1>1. MaxSlots \in Nat /\ MaxSlots <= 2 * MaxFresh /\ len \in Nat /\ len <= MaxSlots
  BY BoundsAssumption DEF SlotTypes, MaxSlots
<1>3. Live \subseteq 1 .. len
  <2>1. \A s \in Live : s \in Slots /\ ~(s > len)
    BY DEF Live, SlotsSound
  <2>. QED
    BY <1>1, <2>1, BoundsAssumption DEF Slots
<1>4. exhausted \subseteq 1 .. len
  <2>1. \A s \in exhausted : s \in Slots /\ s <= len
    BY DEF SlotTypes, SlotsSound
  <2>. QED
    BY <1>1, <2>1, BoundsAssumption DEF Slots
<1>5. /\ Cardinality(Live) \in Nat /\ Cardinality(Live) <= len
      /\ Cardinality(exhausted) \in Nat /\ Cardinality(exhausted) <= len
  BY <1>1, <1>3, <1>4, SomeOf
<1>. QED
  BY <1>1, <1>5, AccountsParts

LEMMA InsertSlots ==
  ASSUME RegistryTypeOK, SlotInv, NEW p, Takes(p), created < MaxObjects,
         created' = created + 1, resident' = resident + 1,
         UNCHANGED <<hosts, exhausted, exhaustedSlots>>
  PROVE  SlotTypes' /\ SlotInv'
<1>1. created + 1 \in Objects /\ created \in Nat /\ created + 1 # None /\ created' \in 0 .. MaxObjects
  BY BoundsAssumption DEF RegistryTypeOK, Objects, None
<1>2. /\ p \in Slots /\ object[p] = None /\ p \notin exhausted
      /\ object' = [object EXCEPT ![p] = created + 1]
      /\ object' \in [Slots -> Objects \cup {None}]
      /\ object'[p] = created + 1
      /\ \A s \in Slots : s # p => object'[s] = object[s] /\ generation'[s] = generation[s]
      /\ generation'[p] \in 1 .. MaxGeneration
      /\ issued' = issued \cup {<<<<p, generation'[p]>>, created + 1>>}
  BY <1>1 DEF Takes, RegistryTypeOK
<1>3. MaxSlots' = MaxSlots /\ MaxSlots \in Nat /\ len \in Nat
  BY SlotBounds DEF MaxSlots
<1>4. len' \in Nat /\ p <= len' /\ len <= len' /\ len' <= MaxSlots /\ Free' = Free \ {p} /\ FreeList'
  BY DEF Takes
<1>5. SlotTypes'
  <2>1. issued' \subseteq Handles \X Objects
    BY <1>1, <1>2 DEF RegistryTypeOK, Handles
  <2>. QED
    BY <1>1, <1>2, <1>3, <1>4, <2>1 DEF Takes, RegistryTypeOK, SlotTypes
<1>6. SlotsSound'
  <2>1. \A s \in Slots : s > len' => s > len /\ s # p
    BY <1>2, <1>3, <1>4, BoundsAssumption DEF Slots
  <2>2. \A s \in exhausted : s <= len' /\ s # p
    <3>1. \A s \in exhausted : s \in Slots /\ s <= len
      BY DEF SlotInv, SlotsSound, RegistryTypeOK
    <3>. QED
      BY <1>2, <1>3, <1>4, <3>1 DEF Slots
  <2>3. \A s \in exhausted : object'[s] = None
    BY <1>2, <2>2 DEF SlotInv, SlotsSound, RegistryTypeOK
  <2>. QED
    BY <1>2, <2>1, <2>2, <2>3 DEF SlotInv, SlotsSound
<1>7. Live' = Live \cup {p} /\ p \notin Live
  BY <1>1, <1>2 DEF Live
<1>8. AccountsExact'
  <2>1. IsFiniteSet(Live) /\ Cardinality(Live) \in Nat /\ resident = Cardinality(Live)
    BY SlotsArePartitioned, AccountsParts DEF SlotInv
  <2>2. Cardinality(Live)' = Cardinality(Live) + 1
    BY <1>7, <2>1, FS_AddElement
  <2>3. exhaustedSlots' = Cardinality(exhausted)'
    BY AccountsParts DEF SlotInv
  <2>4. resident' = Cardinality(Live)'
    BY <2>1, <2>2
  <2>5. AccountsExact' <=> resident' = Cardinality(Live)' /\ exhaustedSlots' = Cardinality(exhausted)' /\ FreeList'
    BY DEF AccountsExact, FreeList, Live
  <2>. QED
    BY <1>4, <2>3, <2>4, <2>5
<1>9. IssuedSound'
  <2>1. ASSUME NEW i \in issued
        PROVE  /\ i[2] <= created' /\ i[1][1] <= len'
               /\ i[1][2] <= generation'[i[1][1]]
               /\ i[1][2] = generation'[i[1][1]] => i[1][1] \notin Free'
    <3>1. /\ i[1][1] \in Slots /\ i[2] \in Objects
          /\ i[1][2] \in 1 .. MaxGeneration
      BY IssuedParts
    <3>2. i[2] <= created' /\ i[1][1] <= len'
      BY <1>1, <1>3, <1>4, <3>1 DEF SlotInv, IssuedSound, Objects, Slots
    <3>3. CASE i[1][1] = p
      BY <1>2, <3>1, <3>2, <3>3 DEF Takes
    <3>4. CASE i[1][1] # p
      BY <1>2, <1>4, <3>1, <3>2, <3>4 DEF SlotInv, IssuedSound
    <3>. QED
      BY <3>3, <3>4
  <2>2. LET n == <<<<p, generation'[p]>>, created + 1>> IN
          /\ n[2] <= created' /\ n[1][1] <= len'
          /\ n[1][2] <= generation'[n[1][1]]
          /\ n[1][2] = generation'[n[1][1]] => n[1][1] \notin Free'
    BY <1>1, <1>2, <1>4
  <2>3. \A s \in Live' : <<<<s, generation'[s]>>, object'[s]>> \in issued'
    <3>1. \A s \in Live : s \in Slots /\ s # p
      BY <1>7 DEF Live
    <3>. QED
      BY <1>2, <1>7, <3>1 DEF SlotInv, IssuedSound
  <2>. QED
    BY <1>2, <2>1, <2>2, <2>3 DEF IssuedSound
<1>10. HandleNamesOne'
  <2>. DEFINE n == <<<<p, generation'[p]>>, created + 1>>
  <2>1. ASSUME NEW i \in issued PROVE i[1] # n[1] /\ i[2] # n[2]
    <3>1. i[2] <= created /\ i[2] \in Objects /\ i[1] = <<i[1][1], i[1][2]>> /\ i[1][2] \in 1 .. MaxGeneration
      BY IssuedParts DEF SlotInv, IssuedSound
    <3>2. i[2] # n[2]
      BY <1>1, <3>1 DEF Objects
    <3>3. i[1][1] = p => i[1][2] # generation'[p]
      BY <1>2, <3>1, BoundsAssumption DEF Takes
    <3>. QED
      BY <3>1, <3>2, <3>3
  <2>. HIDE DEF n
  <2>2. issued' = issued \cup {n}
    BY <1>2 DEF n
  <2>. QED
    BY <2>1, <2>2 DEF SlotInv, HandleNamesOne
<1>. QED
  BY <1>5, <1>6, <1>8, <1>9, <1>10 DEF SlotInv

\* recycle on a slot whose generation can move on: it heads the free list.
LEMMA FreedSlot ==
  ASSUME RegistryTypeOK, SlotInv, NEW s \in Slots, object[s] # None, UNCHANGED <<len, exhausted>>,
         object' = [object EXCEPT ![s] = None],
         nextFree' = [nextFree EXCEPT ![s] = freeHead], freeHead' = s
  PROVE  Free' = Free \cup {s} /\ s \notin Free /\ FreeList'
<1>1. s \in 1 .. len /\ s \notin exhausted /\ s \notin Free /\ s # None
  <2>1. s \notin exhausted /\ s \notin Free /\ ~(s > len)
    BY DEF SlotInv, SlotsSound, Free
  <2>. QED
    BY <2>1, SlotBounds, BoundsAssumption DEF Slots, None
<1>2. Free' = Free \cup {s}
  BY <1>1, SlotBounds DEF Free, RegistryTypeOK
<1>3. FreeList
  BY AccountsParts DEF SlotInv
<1>4. nextFree'[s] = freeHead /\ \A r \in Free : r # s /\ nextFree'[r] = nextFree[r]
  <2>1. Free \subseteq Slots
    BY SlotBounds DEF Free
  <2>. QED
    BY <1>1, <2>1 DEF RegistryTypeOK
<1>5. ASSUME NEW r \in Free', nextFree'[r] # None
      PROVE  nextFree'[r] \in Free' /\ nextFree'[r] # freeHead'
  BY <1>1, <1>2, <1>3, <1>4, <1>5 DEF FreeList
<1>6. \A q, r \in Free' : nextFree'[q] = nextFree'[r] /\ nextFree'[q] # None => q = r
  BY <1>2, <1>3, <1>4 DEF FreeList
<1>7. ASSUME NEW X \in SUBSET Free', freeHead' # None => freeHead' \in X,
             \A r \in X : nextFree'[r] # None => nextFree'[r] \in X
      PROVE  X = Free'
  <2>. DEFINE Y == X \ {s}
  <2>1. s \in X /\ Y \in SUBSET Free
    BY <1>1, <1>2, <1>7
  <2>2. freeHead # None => freeHead \in Y
    BY <1>1, <1>3, <1>4, <1>7, <2>1 DEF FreeList
  <2>3. \A r \in Y : nextFree[r] # None => nextFree[r] \in Y
    BY <1>1, <1>3, <1>4, <1>7, <2>1 DEF FreeList
  <2>4. Y = Free
    BY <1>3, <2>1, <2>2, <2>3 DEF FreeList
  <2>. QED
    BY <1>2, <2>1, <2>4
<1>. QED
  BY <1>1, <1>2, <1>5, <1>6, <1>7 DEF FreeList

LEMMA RecycleSlots ==
  ASSUME RegistryTypeOK, SlotInv, NEW s \in Slots, object[s] # None, Recycle(s),
         UNCHANGED <<hosts, len, created, issued>>
  PROVE  SlotTypes' /\ SlotInv'
<1>1. /\ object' = [object EXCEPT ![s] = None] /\ object'[s] = None
      /\ \A r \in Slots : r # s => object'[r] = object[r]
      /\ object' \in [Slots -> Objects \cup {None}]
      /\ s \notin exhausted /\ s <= len
  <2>1. s <= len
    BY SlotBounds, BoundsAssumption DEF SlotInv, SlotsSound, Slots
  <2>. QED
    BY <2>1 DEF Recycle, RegistryTypeOK, SlotInv, SlotsSound
<1>2. Live' = Live \ {s} /\ s \in Live
  BY <1>1 DEF Live
<1>3. resident' = Cardinality(Live)'
  <2>1. /\ IsFiniteSet(Live) /\ resident = Cardinality(Live)
    BY SlotsArePartitioned, AccountsParts DEF SlotInv
  <2>. QED
    BY <1>2, <2>1, FS_RemoveElement DEF Recycle
<1>4. MaxSlots' = MaxSlots
  BY DEF MaxSlots
<1>5. HandleNamesOne'
  BY DEF SlotInv, HandleNamesOne
<1>6. AccountsExact' <=> resident' = Cardinality(Live)' /\ exhaustedSlots' = Cardinality(exhausted)' /\ FreeList'
  BY DEF AccountsExact, FreeList, Live
<1>7. CASE /\ generation[s] < MaxGeneration
           /\ generation' = [generation EXCEPT ![s] = @ + 1]
           /\ nextFree' = [nextFree EXCEPT ![s] = freeHead]
           /\ freeHead' = s
           /\ UNCHANGED <<exhausted, exhaustedSlots>>
  <2>1. Free' = Free \cup {s} /\ s \notin Free /\ FreeList'
    BY <1>1, <1>7, FreedSlot
  <2>2. /\ generation' \in [Slots -> 1 .. MaxGeneration]
        /\ generation[s] \in 1 .. MaxGeneration
        /\ generation'[s] = generation[s] + 1
        /\ \A r \in Slots : r # s => generation'[r] = generation[r]
    BY <1>7, BoundsAssumption DEF RegistryTypeOK
  <2>3. SlotTypes'
    BY <1>1, <1>4, <1>7, <2>2 DEF RegistryTypeOK, SlotTypes
  <2>4. SlotsSound'
    BY <1>1, <1>7 DEF SlotInv, SlotsSound, RegistryTypeOK
  <2>5. AccountsExact'
    BY <1>3, <1>6, <1>7, <2>1, AccountsParts DEF SlotInv
  <2>6. ASSUME NEW i \in issued
        PROVE  /\ i[2] <= created' /\ i[1][1] <= len'
               /\ i[1][2] <= generation'[i[1][1]]
               /\ i[1][2] = generation'[i[1][1]] => i[1][1] \notin Free'
    <3>1. i[1][1] \in Slots /\ i[1][2] \in 1 .. MaxGeneration
      BY IssuedParts
    <3>2. i[1][2] <= generation[i[1][1]]
      BY DEF SlotInv, IssuedSound
    <3>3. i[2] <= created' /\ i[1][1] <= len'
      BY DEF SlotInv, IssuedSound
    <3>4. CASE i[1][1] = s
      BY <2>2, <3>1, <3>2, <3>3, <3>4, BoundsAssumption
    <3>5. CASE i[1][1] # s
      BY <2>1, <2>2, <3>1, <3>3, <3>5 DEF SlotInv, IssuedSound
    <3>. QED
      BY <3>4, <3>5
  <2>7. \A r \in Live' : <<<<r, generation'[r]>>, object'[r]>> \in issued'
    BY <1>1, <1>2, <2>2 DEF SlotInv, IssuedSound, Live
  <2>8. IssuedSound'
    BY <2>6, <2>7 DEF IssuedSound
  <2>. QED
    BY <1>5, <2>3, <2>4, <2>5, <2>8 DEF SlotInv
<1>8. CASE /\ generation[s] = MaxGeneration
           /\ exhausted' = exhausted \cup {s}
           /\ nextFree' = [nextFree EXCEPT ![s] = None]
           /\ exhaustedSlots' = exhaustedSlots + 1
           /\ UNCHANGED <<generation, freeHead>>
  <2>1. Free' = Free
    <3>1. \A r \in 1 .. len : r \in Slots
      BY SlotBounds
    <3>. QED
      BY <1>1, <1>8, <3>1 DEF Free
  <2>2. s \notin Free /\ \A r \in Free : r \in Slots
    BY SlotBounds DEF Free
  <2>3. FreeList'
    <3>1. FreeList
      BY AccountsParts DEF SlotInv
    <3>2. \A r \in Free : nextFree'[r] = nextFree[r]
      BY <1>8, <2>2 DEF RegistryTypeOK
    <3>3. freeHead' = freeHead
      BY <1>8
    <3>4. /\ freeHead # None => freeHead \in Free
          /\ \A r \in Free : nextFree'[r] # None => nextFree'[r] \in Free /\ nextFree'[r] # freeHead
          /\ \A q, r \in Free : nextFree'[q] = nextFree'[r] /\ nextFree'[q] # None => q = r
      BY <3>1, <3>2 DEF FreeList
    <3>5. ASSUME NEW X \in SUBSET Free,
                 freeHead # None => freeHead \in X,
                 \A r \in X : nextFree'[r] # None => nextFree'[r] \in X
          PROVE  X = Free
      <4>1. \A r \in X : nextFree[r] # None => nextFree[r] \in X
        BY <3>2, <3>5
      <4>. QED
        BY <3>1, <3>5, <4>1 DEF FreeList
    <3>. QED
      BY <2>1, <3>3, <3>4, <3>5 DEF FreeList
  <2>4. exhaustedSlots' = Cardinality(exhausted)'
    <3>1. IsFiniteSet(exhausted) /\ exhaustedSlots = Cardinality(exhausted)
      BY SlotsArePartitioned, AccountsParts DEF SlotInv
    <3>. QED
      BY <1>1, <1>8, <3>1, FS_AddElement
  <2>5. AccountsExact'
    BY <1>3, <1>6, <2>3, <2>4
  <2>6. SlotTypes'
    BY <1>1, <1>4, <1>8 DEF RegistryTypeOK, SlotTypes
  <2>7. SlotsSound'
    BY <1>1, <1>8 DEF SlotInv, SlotsSound, RegistryTypeOK
  <2>8. IssuedSound'
    BY <1>1, <1>2, <1>8, <2>1 DEF SlotInv, IssuedSound, Live
  <2>. QED
    BY <1>5, <2>5, <2>6, <2>7, <2>8 DEF SlotInv
<1>. QED
  BY <1>7, <1>8 DEF Recycle

-----------------------------------------------------------------------------
(* The calls.                                                              *)

CallTypes ==
  /\ lock \in [Objects -> Threads \cup {NoThread}]
  /\ poisoned \subseteq Objects /\ removable \subseteq Objects
  /\ pc \in [Threads -> {"idle", "resolved", "with", "remove", "guarded", "leaving"}]
  /\ arc \in [Threads -> Objects \cup {None}]
  /\ handle \in [Threads -> Handles]
  /\ op \in [Threads -> {"with", "remove", "destroy"}]

\* What holds of the calls in progress.
CallInv == CallTypes /\ CallsSound /\ InUseIsRegistered /\ LockHasOwner

LEMMA InvParts == RegistryIInv <=> SlotTypes /\ SlotInv /\ CallInv
<1>1. SlotTypes /\ SlotInv => resident \in 0 .. MaxSlots /\ exhaustedSlots \in 0 .. MaxSlots
  BY CountersInRange DEF SlotInv
<1>. QED
  BY <1>1 DEF RegistryIInv, RegistryTypeOK, SlotTypes, CallTypes, CallInv

LEMMA SlotsKept ==
  ASSUME RegistryIInv, UNCHANGED <<hosts, slotVars, created, issued>>
  PROVE  SlotTypes' /\ SlotInv'
<1>1. SlotTypes /\ SlotInv
  BY InvParts
<1>2. SlotTypes'
  BY <1>1 DEF SlotTypes, MaxSlots, slotVars
<1>3. Free' = Free /\ Live' = Live
  BY DEF Free, Live, slotVars
<1>4. SlotsSound' /\ IssuedSound' /\ HandleNamesOne'
  BY <1>1, <1>3 DEF SlotInv, SlotsSound, IssuedSound, HandleNamesOne, slotVars
<1>5. AccountsExact'
  BY <1>1, <1>3 DEF SlotInv, AccountsExact, slotVars
<1>. QED
  BY <1>2, <1>4, <1>5 DEF SlotInv

LEMMA PrimedParts ==
  (SlotTypes' /\ SlotInv' /\ CallInv') => RegistryIInv'
  BY InvParts, PTL

LEMMA InsertStep ==
  ASSUME RegistryIInv, NEW t \in Threads, NEW a, Insert(t, a), UNCHANGED hosts
  PROVE  RegistryIInv'
<1>1. RegistryTypeOK /\ SlotInv /\ created + 1 \in Objects
  BY BoundsAssumption DEF RegistryIInv, RegistryTypeOK, Insert, Objects
<1>2. PICK p : Takes(p)
  BY <1>1, ReusedTakes, PushedTakes DEF Insert
<1>3. SlotTypes' /\ SlotInv'
  BY <1>1, <1>2, InsertSlots DEF Insert
<1>4. UNCHANGED <<lock, poisoned, removable, pc, arc, handle, op>>
  BY DEF Insert, threadVars
<1>5. CallTypes' /\ CallsSound' /\ LockHasOwner'
  BY <1>4 DEF RegistryIInv, RegistryTypeOK, CallTypes, CallsSound, LockHasOwner
<1>6. InUseIsRegistered'
  <2>1. ASSUME NEW u \in Threads, pc'[u] \in {"resolved", "with", "remove"}
        PROVE  /\ object'[handle'[u][1]] = arc'[u]
               /\ generation'[handle'[u][1]] = handle'[u][2]
               /\ <<handle'[u], arc'[u]>> \in issued'
    <3>1. /\ object[handle[u][1]] = arc[u]
          /\ generation[handle[u][1]] = handle[u][2]
          /\ <<handle[u], arc[u]>> \in issued
          /\ arc[u] # None /\ handle[u][1] \in Slots
      BY <1>4, <2>1 DEF RegistryIInv, RegistryTypeOK, InUseIsRegistered, CallsSound, Handles
    <3>2. handle[u][1] # p
      BY <1>2, <3>1 DEF Takes
    <3>. QED
      BY <1>1, <1>2, <1>4, <3>1, <3>2 DEF Takes, RegistryTypeOK
  <2>. QED
    BY <2>1 DEF InUseIsRegistered
<1>. QED
  BY <1>3, <1>5, <1>6, PrimedParts DEF CallInv

\* A handle that is live is the one its slot's object was issued for.
LEMMA LiveHandle ==
  ASSUME RegistryIInv, NEW h \in Given, ValidateHandle(h)
  PROVE  /\ h \in Handles /\ h[1] \in Slots /\ object[h[1]] \in Objects
         /\ generation[h[1]] = h[2] /\ object[h[1]] # None
         /\ <<h, object[h[1]]>> \in issued
<1>1. PICK i \in issued : h = i[1]
  BY DEF Given
<1>2. h \in Handles /\ h[1] \in Slots /\ h = <<h[1], h[2]>>
  BY <1>1, IssuedParts DEF RegistryIInv
<1>3. generation[h[1]] = h[2] /\ object[h[1]] # None /\ object[h[1]] \in Objects
  BY <1>2 DEF ValidateHandle, RegistryIInv, RegistryTypeOK
<1>4. h[1] \in Live
  BY <1>2, <1>3 DEF Live
<1>. QED
  BY <1>2, <1>3, <1>4 DEF RegistryIInv, SlotInv, IssuedSound

LEMMA ResolveStep ==
  ASSUME RegistryIInv, NEW t \in Threads, NEW h \in Given, NEW o \in {"with", "remove"},
         Resolve(t, h, o), UNCHANGED hosts
  PROVE  RegistryIInv'
<1>1. SlotTypes' /\ SlotInv'
  BY SlotsKept DEF Resolve, objectVars
<1>2. /\ UNCHANGED <<lock, poisoned, removable, object, generation, issued>>
      /\ pc[t] = "idle" /\ pc' = [pc EXCEPT ![t] = "resolved"]
      /\ arc' = [arc EXCEPT ![t] = object[h[1]]]
      /\ handle' = [handle EXCEPT ![t] = h]
      /\ op' = [op EXCEPT ![t] = o]
      /\ ValidateHandle(h)
  BY DEF Resolve, objectVars, slotVars
<1>3. /\ h \in Handles /\ h[1] \in Slots /\ object[h[1]] \in Objects
      /\ generation[h[1]] = h[2] /\ object[h[1]] # None
      /\ <<h, object[h[1]]>> \in issued
  BY <1>2, LiveHandle
<1>4. CallTypes'
  BY <1>2, <1>3 DEF RegistryIInv, RegistryTypeOK, CallTypes
<1>5. CallsSound'
  BY <1>2, <1>3 DEF RegistryIInv, RegistryTypeOK, CallsSound
<1>6. InUseIsRegistered'
  BY <1>2, <1>3 DEF RegistryIInv, RegistryTypeOK, InUseIsRegistered
<1>7. LockHasOwner'
  BY <1>2 DEF RegistryIInv, RegistryTypeOK, LockHasOwner
<1>. QED
  BY <1>1, <1>4, <1>5, <1>6, <1>7, PrimedParts DEF CallInv

LEMMA TryLockStep ==
  ASSUME RegistryIInv, NEW t \in Threads, TryLock(t), UNCHANGED hosts
  PROVE  RegistryIInv'
<1>1. SlotTypes' /\ SlotInv'
  BY SlotsKept DEF TryLock
<1>2. /\ UNCHANGED <<poisoned, removable, arc, handle, op, object, generation, issued>>
      /\ pc[t] = "resolved" /\ arc[t] \in Objects /\ op[t] \in {"with", "remove"}
  BY DEF TryLock, slotVars, RegistryIInv, RegistryTypeOK, CallsSound
<1>3. CASE pc' = [pc EXCEPT ![t] = "leaving"] /\ UNCHANGED lock
  <2>1. CallTypes' /\ CallsSound' /\ InUseIsRegistered' /\ LockHasOwner'
    BY <1>2, <1>3 DEF RegistryIInv, RegistryTypeOK, CallTypes, CallsSound, InUseIsRegistered, LockHasOwner
  <2>. QED
    BY <1>1, <2>1, PrimedParts DEF CallInv
<1>4. CASE /\ lock[arc[t]] = NoThread
           /\ lock' = [lock EXCEPT ![arc[t]] = t]
           /\ pc' = [pc EXCEPT ![t] = IF arc[t] \in poisoned THEN "guarded" ELSE op[t]]
  <2>1. CallTypes'
    BY <1>2, <1>4 DEF RegistryIInv, RegistryTypeOK, CallTypes
  <2>2. /\ pc'[t] \in {"with", "remove", "guarded"} /\ lock'[arc[t]] = t
        /\ pc'[t] # "guarded" => arc[t] \notin poisoned
        /\ \A u \in Threads : u # t => pc'[u] = pc[u]
        /\ \A o \in Objects : o # arc[t] => lock'[o] = lock[o]
    BY <1>2, <1>4 DEF RegistryIInv, RegistryTypeOK
  <2>3. CallsSound'
    <3>1. ASSUME NEW u \in Threads, u # t, pc[u] \in {"with", "remove", "guarded"}
          PROVE  lock'[arc[u]] = u
      <4>1. arc[u] \in Objects /\ lock[arc[u]] = u
        BY <3>1 DEF RegistryIInv, RegistryTypeOK, CallsSound
      <4>2. arc[u] # arc[t]
        BY <1>4, <4>1, ThreadsAssumption
      <4>. QED
        BY <2>2, <4>1, <4>2
    <3>2. \A u \in Threads : u # t =>
            /\ pc'[u] = "idle" <=> arc'[u] = None
            /\ pc'[u] = "resolved" => op'[u] \in {"with", "remove"}
            /\ pc'[u] \in {"with", "remove", "guarded"} => lock'[arc'[u]] = u
            /\ pc'[u] \in {"with", "remove"} => arc'[u] \notin poisoned'
      BY <1>2, <2>2, <3>1 DEF RegistryIInv, CallsSound
    <3>3. /\ pc'[t] = "idle" <=> arc'[t] = None
          /\ pc'[t] # "resolved" /\ lock'[arc'[t]] = t
          /\ pc'[t] \in {"with", "remove"} => arc'[t] \notin poisoned'
      BY <1>2, <2>2, SlotBounds DEF RegistryIInv
    <3>. QED
      BY <3>2, <3>3 DEF CallsSound
  <2>4. InUseIsRegistered'
    BY <1>2, <2>2 DEF RegistryIInv, InUseIsRegistered
  <2>5. LockHasOwner'
    <3>1. ASSUME NEW o \in Objects, lock'[o] # NoThread
          PROVE  arc'[lock'[o]] = o /\ pc'[lock'[o]] \in {"with", "remove", "guarded"}
      <4>1. CASE o = arc[t]
        BY <1>2, <2>2, <4>1
      <4>2. CASE o # arc[t]
        <5>1. lock'[o] = lock[o] /\ lock[o] \in Threads
          BY <2>2, <3>1, <4>2 DEF RegistryIInv, RegistryTypeOK
        <5>2. arc[lock[o]] = o /\ pc[lock[o]] \in {"with", "remove", "guarded"}
          BY <3>1, <5>1 DEF RegistryIInv, LockHasOwner
        <5>. QED
          BY <1>2, <2>2, <4>2, <5>1, <5>2
      <4>. QED
        BY <4>1, <4>2
    <3>. QED
      BY <3>1 DEF LockHasOwner
  <2>. QED
    BY <1>1, <2>1, <2>3, <2>4, <2>5, PrimedParts DEF CallInv
<1>. QED
  BY <1>3, <1>4 DEF TryLock

\* The operation runs under the object's lock, so no other call works on what
\* a panic in it poisons.
LEMMA OperateStep ==
  ASSUME RegistryIInv, NEW t \in Threads, Operate(t), UNCHANGED hosts
  PROVE  RegistryIInv'
<1>1. SlotTypes' /\ SlotInv'
  BY SlotsKept DEF Operate
<1>2. /\ UNCHANGED <<lock, arc, handle, op, object, generation, issued>>
      /\ pc[t] = "with" /\ arc[t] \in Objects /\ lock[arc[t]] = t
      /\ pc' = [pc EXCEPT ![t] = "guarded"]
      /\ poisoned' \subseteq poisoned \cup {arc[t]} /\ removable' \subseteq removable \cup {arc[t]}
  BY DEF Operate, slotVars, RegistryIInv, RegistryTypeOK, CallsSound
<1>3. CallTypes' /\ LockHasOwner' /\ InUseIsRegistered'
  BY <1>2 DEF RegistryIInv, RegistryTypeOK, CallTypes, LockHasOwner, InUseIsRegistered
<1>4. CallsSound'
  <2>1. ASSUME NEW u \in Threads, u # t, pc[u] \in {"with", "remove"} PROVE arc[u] \notin poisoned'
    BY <1>2, <2>1 DEF RegistryIInv, CallsSound
  <2>. QED
    BY <1>2, <2>1 DEF RegistryIInv, RegistryTypeOK, CallsSound
<1>. QED
  BY <1>1, <1>3, <1>4, PrimedParts DEF CallInv

LEMMA DropGuardStep ==
  ASSUME RegistryIInv, NEW t \in Threads, DropGuard(t), UNCHANGED hosts
  PROVE  RegistryIInv'
<1>1. SlotTypes' /\ SlotInv'
  BY SlotsKept DEF DropGuard
<1>2. /\ UNCHANGED <<poisoned, removable, arc, handle, op, object, generation, issued>>
      /\ pc[t] = "guarded" /\ arc[t] \in Objects /\ lock[arc[t]] = t
      /\ pc' = [pc EXCEPT ![t] = "leaving"]
      /\ lock' = [lock EXCEPT ![arc[t]] = NoThread]
  BY DEF DropGuard, slotVars, RegistryIInv, RegistryTypeOK, CallsSound
<1>3. CallTypes' /\ InUseIsRegistered'
  BY <1>2 DEF RegistryIInv, RegistryTypeOK, CallTypes, InUseIsRegistered
<1>4. ASSUME NEW u \in Threads, u # t, pc[u] \in {"with", "remove", "guarded"}
      PROVE  lock'[arc[u]] = u
  <2>1. arc[u] \in Objects /\ lock[arc[u]] = u
    BY <1>4 DEF RegistryIInv, RegistryTypeOK, CallsSound
  <2>. QED
    BY <1>2, <1>4, <2>1 DEF RegistryIInv, RegistryTypeOK
<1>5. CallsSound'
  BY <1>2, <1>4 DEF RegistryIInv, RegistryTypeOK, CallsSound
<1>6. LockHasOwner'
  <2>1. ASSUME NEW o \in Objects, lock'[o] # NoThread
        PROVE  /\ lock'[o] = lock[o] /\ lock[o] # t
               /\ arc[lock[o]] = o /\ pc[lock[o]] \in {"with", "remove", "guarded"}
    BY <1>2, <2>1 DEF RegistryIInv, RegistryTypeOK, LockHasOwner
  <2>. QED
    BY <1>2, <2>1 DEF RegistryIInv, RegistryTypeOK, LockHasOwner
<1>. QED
  BY <1>1, <1>3, <1>5, <1>6, PrimedParts DEF CallInv

LEMMA DropArcStep ==
  ASSUME RegistryIInv, NEW t \in Threads, DropArc(t), UNCHANGED hosts
  PROVE  RegistryIInv'
<1>1. SlotTypes' /\ SlotInv'
  BY SlotsKept DEF DropArc
<1>2. /\ UNCHANGED <<lock, object, generation, issued>>
      /\ poisoned' \subseteq poisoned /\ removable' \subseteq removable
      /\ pc[t] = "leaving"
      /\ arc' = [arc EXCEPT ![t] = None]
      /\ pc' = [pc EXCEPT ![t] = "idle"]
      /\ handle' = [handle EXCEPT ![t] = NoHandle]
      /\ op' = [op EXCEPT ![t] = "with"]
  BY DEF DropArc, slotVars
<1>3. NoHandle \in Handles
  BY BoundsAssumption DEF NoHandle, Handles, Slots
<1>4. CallTypes' /\ CallsSound'
  BY <1>2, <1>3 DEF RegistryIInv, RegistryTypeOK, CallTypes, CallsSound
<1>5. InUseIsRegistered' /\ LockHasOwner'
  BY <1>2 DEF RegistryIInv, RegistryTypeOK, InUseIsRegistered, LockHasOwner
<1>. QED
  BY <1>1, <1>4, <1>5, PrimedParts DEF CallInv

\* No call but t's own, which is past its use of the object, loses anything
\* when the slot of an object that only t holds is recycled.
LEMMA OthersKeepTheirs ==
  ASSUME RegistryIInv, NEW t \in Threads, NEW s \in Slots, object[s] # None, Recycle(s), UNCHANGED issued,
         \A u \in Threads \ {t} : arc[u] # object[s],
         pc'[t] \notin {"resolved", "with", "remove"},
         \A u \in Threads \ {t} : pc'[u] = pc[u] /\ arc'[u] = arc[u] /\ handle'[u] = handle[u]
  PROVE  InUseIsRegistered'
<1>1. ASSUME NEW u \in Threads, pc'[u] \in {"resolved", "with", "remove"}
      PROVE  /\ object'[handle'[u][1]] = arc'[u]
             /\ generation'[handle'[u][1]] = handle'[u][2]
             /\ <<handle'[u], arc'[u]>> \in issued'
  <2>1. u \in Threads \ {t} /\ pc[u] \in {"resolved", "with", "remove"}
    BY <1>1
  <2>2. /\ object[handle[u][1]] = arc[u]
        /\ generation[handle[u][1]] = handle[u][2]
        /\ <<handle[u], arc[u]>> \in issued
        /\ handle[u][1] \in Slots
    BY <2>1 DEF RegistryIInv, RegistryTypeOK, InUseIsRegistered, Handles
  <2>3. handle[u][1] # s
    BY <2>1, <2>2
  <2>4. object'[handle[u][1]] = object[handle[u][1]] /\ generation'[handle[u][1]] = generation[handle[u][1]]
    BY <2>2, <2>3 DEF Recycle, RegistryIInv, RegistryTypeOK
  <2>. QED
    BY <2>1, <2>2, <2>4
<1>. QED
  BY <1>1 DEF InUseIsRegistered

LEMMA RemoveStep ==
  ASSUME RegistryIInv, NEW t \in Threads, Remove(t), UNCHANGED hosts
  PROVE  RegistryIInv'
<1>1. /\ UNCHANGED <<created, lock, poisoned, removable, arc, handle, op, issued>>
      /\ pc[t] = "remove" /\ pc' = [pc EXCEPT ![t] = "guarded"]
      /\ handle[t][1] \in Slots /\ arc[t] \in Objects /\ arc[t] # None
  BY SlotBounds DEF Remove, objectVars, RegistryIInv, RegistryTypeOK, CallsSound, Handles
<1>2. CallTypes' /\ CallsSound' /\ LockHasOwner'
  BY <1>1 DEF RegistryIInv, RegistryTypeOK, CallTypes, CallsSound, LockHasOwner
<1>3. CASE RemoveAllowed(t) /\ Recycle(handle[t][1]) /\ UNCHANGED len
  <2>. DEFINE s == handle[t][1]
  <2>1. s \in Slots /\ object[s] # None /\ arc[t] = object[s] /\ StrongCount(object[s]) = 2
    BY <1>1, <1>3 DEF RemoveAllowed
  <2>. HIDE DEF s
  <2>2. Recycle(s) /\ UNCHANGED len
    BY <1>3 DEF s
  <2>3. SlotTypes' /\ SlotInv'
    BY <1>1, <2>1, <2>2, RecycleSlots DEF RegistryIInv
  <2>4. \A u \in Threads \ {t} : arc[u] # object[s]
    BY <2>1, Owners DEF RegistryIInv
  <2>5. InUseIsRegistered'
    <3>1. pc'[t] = "guarded" /\ \A u \in Threads \ {t} : pc'[u] = pc[u] /\ arc'[u] = arc[u] /\ handle'[u] = handle[u]
      BY <1>1 DEF RegistryIInv, RegistryTypeOK
    <3>. QED
      BY <1>1, <2>1, <2>2, <2>4, <3>1, OthersKeepTheirs
  <2>. QED
    BY <1>2, <2>3, <2>5, PrimedParts DEF CallInv
<1>4. CASE UNCHANGED slotVars
  <2>1. SlotTypes' /\ SlotInv'
    BY <1>1, <1>4, SlotsKept
  <2>2. InUseIsRegistered'
    BY <1>1, <1>4 DEF RegistryIInv, RegistryTypeOK, InUseIsRegistered, slotVars
  <2>. QED
    BY <1>2, <2>1, <2>2, PrimedParts DEF CallInv
<1>. QED
  BY <1>3, <1>4 DEF Remove

LEMMA EmergencyStep ==
  ASSUME RegistryIInv, NEW t \in Threads, NEW h \in Given, EmergencyDestroy(t, h), UNCHANGED hosts
  PROVE  RegistryIInv'
<1>1. /\ UNCHANGED <<len, created, lock, poisoned, removable, issued>>
      /\ pc[t] = "idle" /\ pc' = [pc EXCEPT ![t] = "leaving"]
      /\ arc' = [arc EXCEPT ![t] = object[h[1]]]
      /\ handle' = [handle EXCEPT ![t] = h]
      /\ op' = [op EXCEPT ![t] = "destroy"]
      /\ Recycle(h[1]) /\ ValidateHandle(h)
      /\ StrongCount(object[h[1]]) = 1
  BY DEF EmergencyDestroy, EmergencyAllowed, objectVars
<1>2. h \in Handles /\ h[1] \in Slots /\ object[h[1]] \in Objects /\ object[h[1]] # None
  BY <1>1, LiveHandle
<1>3. SlotTypes' /\ SlotInv'
  BY <1>1, <1>2, RecycleSlots DEF RegistryIInv
<1>4. CallTypes' /\ CallsSound' /\ LockHasOwner'
  BY <1>1, <1>2 DEF RegistryIInv, RegistryTypeOK, CallTypes, CallsSound, LockHasOwner
<1>5. \A u \in Threads : arc[u] # object[h[1]]
  BY <1>1, <1>2, Owners DEF RegistryIInv
<1>6. InUseIsRegistered'
  <2>1. pc'[t] = "leaving" /\ \A u \in Threads \ {t} : pc'[u] = pc[u] /\ arc'[u] = arc[u] /\ handle'[u] = handle[u]
    BY <1>1 DEF RegistryIInv, RegistryTypeOK
  <2>. QED
    BY <1>1, <1>2, <1>5, <2>1, OthersKeepTheirs
<1>. QED
  BY <1>3, <1>4, <1>6, PrimedParts DEF CallInv

-----------------------------------------------------------------------------
(* The theorems.                                                           *)

LEMMA RegistryInitially == RegistryInit => RegistryIInv
<1>. SUFFICES ASSUME RegistryInit PROVE RegistryIInv
  OBVIOUS
<1>1. Live = {} /\ Free = {} /\ exhausted = {}
  BY DEF RegistryInit, Live, Free
<1>2. NoHandle \in Handles
  BY BoundsAssumption DEF NoHandle, Handles, Slots
<1>3. SlotTypes
  BY BoundsAssumption DEF RegistryInit, SlotTypes, MaxSlots, Objects, None
<1>4. CallTypes
  BY <1>2 DEF RegistryInit, CallTypes
<1>5. SlotsSound /\ IssuedSound /\ HandleNamesOne
  BY <1>1 DEF RegistryInit, SlotsSound, IssuedSound, HandleNamesOne
<1>6. AccountsExact
  BY <1>1, FS_EmptySet, AccountsParts DEF RegistryInit, FreeList
<1>7. CallsSound /\ InUseIsRegistered /\ LockHasOwner
  BY DEF RegistryInit, CallsSound, InUseIsRegistered, LockHasOwner
<1>. QED
  BY <1>3, <1>4, <1>5, <1>6, <1>7, InvParts DEF SlotInv, CallInv

LEMMA RegistryInductive == RegistryIInv /\ [RegistryNext]_registryVars => RegistryIInv'
<1>. SUFFICES ASSUME RegistryIInv, [RegistryNext]_registryVars PROVE RegistryIInv'
  OBVIOUS
<1>1. CASE UNCHANGED registryVars
  <2>1. SlotTypes' /\ SlotInv'
    BY <1>1, SlotsKept DEF registryVars, objectVars
  <2>2. CallInv'
    BY <1>1 DEF registryVars, slotVars, objectVars, threadVars, RegistryIInv, RegistryTypeOK, CallInv, CallTypes, CallsSound,
                InUseIsRegistered, LockHasOwner
  <2>. QED
    BY <2>1, <2>2, PrimedParts
<1>2. ASSUME UNCHANGED hosts, NEW t \in Threads, Call(t) PROVE RegistryIInv'
  <2>1. CASE \E a \in Admissions : Insert(t, a)
    BY <1>2, <2>1, InsertStep
  <2>2. CASE \E h \in Given, o \in {"with", "remove"} : Resolve(t, h, o)
    BY <1>2, <2>2, ResolveStep
  <2>3. CASE \E h \in Given : EmergencyDestroy(t, h)
    BY <1>2, <2>3, EmergencyStep
  <2>. QED
    BY <1>2, <2>1, <2>2, <2>3 DEF Call
<1>3. ASSUME UNCHANGED hosts, NEW t \in Threads, Step(t) PROVE RegistryIInv'
  BY <1>3, TryLockStep, OperateStep, RemoveStep, DropGuardStep, DropArcStep DEF Step
<1>. QED
  BY <1>1, <1>2, <1>3 DEF RegistryNext

LEMMA RegistryInvariant == RegistrySpec => []RegistryIInv
  BY RegistryInitially, RegistryInductive, PTL DEF RegistrySpec

\* Two calls that work on one object would both hold its lock.
LEMMA Exclusive == RegistryIInv => ExclusiveAndSound
  BY DEF RegistryIInv, CallsSound, ExclusiveAndSound

LEMMA Admitted ==
  /\ Admits("fresh") => CanAdmitFresh
  /\ Admits("host") => resident < MaxSlots - exhaustedSlots
<1>1. "fresh" # "recovery" /\ "fresh" # "host" /\ "host" # "recovery"
  OBVIOUS
<1>. QED
  BY <1>1, Zenon DEF Admits

\* With no free slot and every slot pushed, the slots in use and the exhausted
\* ones are all there are, and the admission has counted both.
LEMMA SlotIsFound == RegistryIInv => AdmissionFindsSlot
<1>. SUFFICES ASSUME RegistryIInv, NEW a \in {"fresh", "host"}, Admits(a), freeHead = None, ~(len < MaxSlots)
              PROVE  FALSE
  BY DEF AdmissionFindsSlot, Admissions
<1>1. {} = Free
  <2>1. FreeList
    BY AccountsParts DEF RegistryIInv, SlotInv
  <2>2. {} \in SUBSET Free /\ \A s \in {} : nextFree[s] # None => nextFree[s] \in {}
    OBVIOUS
  <2>. QED
    BY <2>1, <2>2 DEF FreeList
<1>2. Cardinality(Free) = 0
  BY <1>1, FS_EmptySet
<1>3. resident \in Nat /\ exhaustedSlots \in Nat /\ resident + exhaustedSlots = MaxSlots
  BY <1>2, Accounting, SlotBounds DEF RegistryIInv, SlotInv
<1>. QED
  BY <1>3, Admitted, SlotBounds DEF CanAdmitFresh, RegistryIInv

\* Whatever threads call and panic, and however small a registry is or however
\* often its slots are reused: a call works alone on the sound object its handle
\* was issued for, which stays registered until the call lets go of its lock; a
\* lock has an owner that will drop it; the free list and the counters are exact;
\* and an admitted insert finds a slot.
THEOREM RegistrySound == RegistrySpec => []RegistryInv
<1>1. RegistryIInv => RegistryInv
  BY Exclusive, SlotIsFound DEF RegistryIInv, SlotInv, RegistryInv
<1>. QED
  BY <1>1, RegistryInvariant, PTL

\* A handle is issued once, for one object, and no object gets two handles, for
\* all numbers of slots and generations (recycle moves the generation on, or
\* takes the slot out of use).
THEOREM HandlesAreUnique == RegistrySpec => []HandleNamesOne
<1>1. RegistryIInv => HandleNamesOne
  BY DEF RegistryIInv, SlotInv
<1>. QED
  BY <1>1, RegistryInvariant, PTL

\* After a fresh admission there is a slot for a replacement of every resident
\* endpoint, counting only slots that can really be had.
THEOREM HeadroomKept == RegistrySpec => FreshLeavesHeadroom
<1>. DEFINE Leaves == \A t \in Threads : Insert(t, "fresh") =>
                         Cardinality(Free') + (MaxSlots - len') >= resident'
<1>1. RegistryIInv /\ [RegistryNext]_registryVars => [Leaves]_registryVars
  <2>. SUFFICES ASSUME RegistryIInv, [RegistryNext]_registryVars, NEW t \in Threads, Insert(t, "fresh")
                PROVE  Cardinality(Free') + (MaxSlots - len') >= resident'
    OBVIOUS
  <2>1. RegistryIInv'
    BY RegistryInductive
  <2>2. (RegistryTypeOK /\ SlotsSound /\ AccountsExact)'
    BY <2>1 DEF RegistryIInv, SlotInv
  <2>3. (/\ Cardinality(Free) \in Nat /\ Cardinality(Free) + resident + exhaustedSlots = len
         /\ resident \in Nat /\ exhaustedSlots \in Nat /\ len \in Nat)'
    BY <2>2, Accounting, PTL
  <2>4. resident' = resident + 1 /\ exhaustedSlots' = exhaustedSlots /\ CanAdmitFresh
    BY Admitted DEF Insert
  <2>5. MaxSlots \in Nat /\ resident \in Nat
    BY SlotBounds, Accounting DEF RegistryIInv, SlotInv
  <2>. QED
    BY <2>3, <2>4, <2>5 DEF CanAdmitFresh
<1>. QED
  BY <1>1, RegistryInvariant, PTL DEF RegistrySpec, FreshLeavesHeadroom

-----------------------------------------------------------------------------
(* A document of the V4 engine.                                            *)

\* The runtime is open until the parser has gone, and one that is closed has
\* given back everything.
RuntimePhase ==
    /\ parser.tag \notin {"ClosingRuntime", "Closed", "Faulted", "Transition"} => runtime = "open"
    /\ parser.tag = "ClosingRuntime" => runtime # "open"
    /\ parser.tag = "Closed" => runtime = "closed"
    /\ runtime = "open" => source.rev > 0
    /\ runtime # "open" => source = NoVersion
    /\ runtime = "closed" => retired = 0 /\ pending = 0 /\ roots = {}

\* Nothing is being reclaimed while a parse goes on.
PendingPhase ==
    /\ parser.tag \in {"Clean", "Adopting", "Ready"} => pending = 0
    /\ parser.tag = "Opening" /\ ~opening.finalizing => pending = 0

\* The text a load works on is what it adopted; sealed, it has adopted all the
\* store admitted, and once finalizing nothing of the load is left to do.
LoadPhase ==
    /\ parser.tag = "Opening" => source.pages = opening.adopted
    /\ parser.tag = "Opening" /\ opening.sealed =>
          opening.sealRequested /\ opening.pages = opening.adopted
    /\ parser.tag = "Opening" /\ opening.finalizing =>
          opening.sealed /\ parser.left = 0 /\ opening.early = NoVersion
    /\ opening.early # NoVersion => parser.tag \in {"Opening", "Transition"}

\* An adoption that has worked has a target.
AdoptPhase ==
    parser.tag = "Adopting" /\ parser.left < Work => roots = {"base", "target"}

\* Every revision is an edit, and what was dropped drained stays so.
CallPhase ==
    /\ source.rev <= edits + 1
    /\ dropped = "drained" => runtime = "closed"

\* The inductive invariant.
IInv == /\ TypeOK
        /\ RuntimePhase /\ PendingPhase /\ LoadPhase /\ AdoptPhase /\ CallPhase
        /\ WorkIsCurrent /\ OwnedRoots /\ NoPageLost /\ BacklogBounded

-----------------------------------------------------------------------------
(* What the steps are made of.                                             *)

LEMMA Numbers == Work \in Nat /\ Work >= 1 /\ MaxRetired \in Nat /\ MaxEdits \in Nat /\ MaxPages \in Nat
  BY DocumentAssumption

LEMMA VersionFacts ==
    /\ NoVersion \in Version /\ NoVersion.rev = 0 /\ NoVersion.pages = 0
    /\ \A v \in Version : v.rev \in 0..MaxEdits + 1 /\ v.pages \in 0..MaxPages
  BY Numbers DEF NoVersion, Version

Parsers == [tag : Tags, of : Version, left : 0..Work, next : BOOLEAN]

core == <<parser, source, opening, roots, pending, retired, runtime>>

Replies == [is : {"none", "ok", "view", "refused", "fault", "panicked"}, of : Version]

LEMMA AnswerTyped ==
    ASSUME NEW what \in {"none", "ok", "refused", "fault", "panicked"}, Say(what)
    PROVE  reply' \in Replies
  BY VersionFacts DEF Say, Replies

\* The variables outside the document have their types and stay in step.
CallsKeep ==
    /\ actor' \in {"running", "discard", "draining", "empty", "down"}
    /\ reply' \in Replies
    /\ edits' \in 0..MaxEdits /\ edits <= edits'
    /\ dropped' \in {"no", "drained", "bare"}
    /\ dropped' = "drained" => runtime' = "closed"

LEMMA CoreKept ==
    ASSUME IInv, UNCHANGED core, CallsKeep
    PROVE  IInv'
<1>1. source.rev <= edits' + 1
  BY Numbers, VersionFacts DEF IInv, TypeOK, CallPhase, CallsKeep
<1>2. TypeOK'
  BY DEF IInv, TypeOK, core, CallsKeep, Replies
<1>3. RuntimePhase' /\ PendingPhase' /\ LoadPhase' /\ AdoptPhase' /\ CallPhase'
  BY <1>1 DEF IInv, core, CallsKeep, RuntimePhase, PendingPhase, LoadPhase, AdoptPhase, CallPhase
<1>4. WorkIsCurrent' /\ OwnedRoots' /\ NoPageLost' /\ BacklogBounded'
  BY DEF IInv, core, WorkIsCurrent, OwnedRoots, NoPageLost, BacklogBounded
<1>. QED
  BY <1>2, <1>3, <1>4 DEF IInv

\* A pump that is given its work unit.
Pumping ==
    /\ ~Retiring /\ ActorIdle /\ UNCHANGED <<retired, runtime, edits>>
    /\ reply' \in Replies

\* One unit of the parser's work.
LEMMA Worked ==
    ASSUME TypeOK, parser.left > 0, parser' = [parser EXCEPT !.left = @ - 1]
    PROVE  /\ parser' \in Parsers /\ parser'.left = parser.left - 1
           /\ parser'.tag = parser.tag /\ parser'.of = parser.of /\ parser'.next = parser.next
<1>1. parser \in Parsers /\ parser.left - 1 \in 0..Work
  BY Numbers DEF TypeOK, Parsers
<1>. QED
  BY <1>1 DEF Parsers

\* A new build over the current source.
LEMMA CleanStarted ==
    ASSUME TypeOK, StartClean, roots = {}
    PROVE  /\ parser' \in Parsers /\ parser'.tag = "Clean" /\ parser'.of = source
           /\ parser'.left = Work /\ roots' = {"build"}
  BY Numbers DEF StartClean, State, Parsers, TypeOK, Tags

LEMMA PumpCleanStep ==
    ASSUME IInv, Pumping, parser.tag = "Clean", PumpClean, UNCHANGED <<opening, source>>
    PROVE  IInv'
<1>1. /\ parser.of = source /\ roots = {"build"} /\ pending = 0 /\ retired = 0
      /\ runtime = "open" /\ source \in Version /\ source.rev > 0
      /\ opening.early = NoVersion
  BY Numbers DEF IInv, TypeOK, Pumping, Retiring, WorkIsCurrent, OwnedRoots, PendingPhase, RuntimePhase, LoadPhase
<1>2. /\ parser' \in [tag : Tags, of : Version, left : 0..Work, next : BOOLEAN]
      /\ \/ parser'.tag = "Faulted" /\ roots' = {} /\ pending' \in {0, Work}
         \/ parser'.tag = "Clean" /\ parser'.of = source /\ roots' = {"build"} /\ pending' = 0
         \/ parser'.tag = "Ready" /\ parser'.of = source /\ roots' = {"base"} /\ pending' = 0
  <2>1. "Faulted" \in Tags /\ "Ready" \in Tags /\ 0 \in 0..Work
    BY Numbers DEF Tags
  <2>2. CASE parser' = State("Faulted", NoVersion, 0) /\ roots' = roots \ {"build"} /\ pending' \in {pending, pending + Work}
    <3>1. parser' \in Parsers /\ parser'.tag = "Faulted"
      BY <2>1, <2>2, VersionFacts DEF State, Parsers
    <3>2. roots' = {} /\ pending' \in {0, Work}
      BY <1>1, <2>2, Numbers
    <3>. QED
      BY <3>1, <3>2 DEF Parsers
  <2>3. CASE parser.left > 0 /\ parser' = [parser EXCEPT !.left = @ - 1] /\ UNCHANGED <<roots, pending>>
    BY <1>1, <2>3, Worked DEF IInv, Parsers
  <2>4. CASE parser' = State("Ready", parser.of, 0) /\ roots' = (roots \ {"build"}) \cup {"base"} /\ UNCHANGED pending
    <3>1. parser' \in Parsers /\ parser'.tag = "Ready" /\ parser'.of = source
      BY <1>1, <2>1, <2>4 DEF State, Parsers
    <3>2. roots' = {"base"} /\ pending' = 0
      BY <1>1, <2>4
    <3>. QED
      BY <3>1, <3>2 DEF Parsers
  <2>. QED
    BY <2>2, <2>3, <2>4 DEF PumpClean
<1>3. TypeOK'
  BY <1>1, <1>2, Numbers DEF IInv, TypeOK, Pumping, ActorIdle, Replies, Roots
<1>4. RuntimePhase' /\ PendingPhase' /\ LoadPhase' /\ AdoptPhase' /\ CallPhase'
  BY <1>1, <1>2 DEF IInv, Pumping, ActorIdle, RuntimePhase, PendingPhase, LoadPhase, AdoptPhase, CallPhase
<1>5. WorkIsCurrent' /\ OwnedRoots' /\ NoPageLost' /\ BacklogBounded'
  BY <1>1, <1>2 DEF IInv, Pumping, WorkIsCurrent, OwnedRoots, NoPageLost, BacklogBounded
<1>. QED
  BY <1>3, <1>4, <1>5 DEF IInv

LEMMA PumpCancellingCleanStep ==
    ASSUME IInv, Pumping, parser.tag = "CancellingClean", PumpCancellingClean, UNCHANGED <<opening, source>>
    PROVE  IInv'
<1>1. /\ roots = {} /\ pending = 0 /\ pending' = 0 /\ retired = 0 /\ TypeOK
      /\ runtime = "open" /\ source \in Version /\ source.rev > 0
      /\ opening.early = NoVersion
  BY Numbers DEF IInv, TypeOK, Pumping, Retiring, OwnedRoots, RuntimePhase, LoadPhase, PumpCancellingClean
<1>2. /\ parser' \in Parsers
      /\ \/ parser'.tag = "CancellingClean" /\ roots' = {}
         \/ parser'.tag = "Clean" /\ parser'.of = source /\ roots' = {"build"}
  BY <1>1, Worked, CleanStarted DEF PumpCancellingClean
<1>3. TypeOK'
  BY <1>1, <1>2, Numbers, VersionFacts DEF IInv, TypeOK, Parsers, Roots, Replies, Pumping, ActorIdle
<1>4. RuntimePhase' /\ PendingPhase' /\ LoadPhase' /\ AdoptPhase' /\ CallPhase'
  BY <1>1, <1>2 DEF IInv, RuntimePhase, PendingPhase, LoadPhase, AdoptPhase, CallPhase, Pumping, ActorIdle
<1>5. WorkIsCurrent' /\ OwnedRoots' /\ NoPageLost' /\ BacklogBounded'
  BY <1>1, <1>2 DEF IInv, WorkIsCurrent, OwnedRoots, NoPageLost, BacklogBounded, Pumping, ActorIdle
<1>. QED
  BY <1>3, <1>4, <1>5 DEF IInv

LEMMA PumpAdoptingStep ==
    ASSUME IInv, Pumping, parser.tag = "Adopting", PumpAdopting, UNCHANGED <<opening, source>>
    PROVE  IInv'
<1>1. /\ roots \in {{"base"}, {"base", "target"}} /\ pending = 0 /\ retired = 0 /\ TypeOK
      /\ parser.left < Work => roots = {"base", "target"}
      /\ parser.of = source /\ runtime = "open" /\ source \in Version /\ source.rev > 0
      /\ opening.early = NoVersion
  BY Numbers DEF IInv, TypeOK, Pumping, Retiring, OwnedRoots, AdoptPhase, WorkIsCurrent, RuntimePhase,
                 LoadPhase, PumpAdopting
<1>2. /\ parser' \in Parsers /\ pending' \in {0, Work}
      /\ \/ parser'.tag = "Adopting" /\ parser'.of = source /\ roots' = {"base", "target"} /\ pending' = 0
         \/ parser'.tag = "ReleasingBaseForTarget" /\ parser'.of = source /\ roots' = {"target"}
         \/ parser'.tag = "CancellingAdoption" /\ roots' = {"base"}
  <2>1. CASE parser.left > 0 /\ parser' = [parser EXCEPT !.left = @ - 1] /\ roots' = roots \cup {"target"}
             /\ UNCHANGED pending
    <3>1. roots' = {"base", "target"}
      BY <1>1, <2>1
    <3>. QED
      BY <1>1, <2>1, <3>1, Worked
  <2>2. CASE parser.left = 0 /\ parser' = State("ReleasingBaseForTarget", parser.of, 0) /\ ReleaseBase
    <3>1. parser' \in Parsers /\ parser'.tag = "ReleasingBaseForTarget" /\ parser'.of = source
      BY <1>1, <2>2, Numbers DEF State, Parsers, Tags
    <3>2. roots = {"base", "target"}
      BY <1>1, <2>2, Numbers
    <3>3. roots' = {"target"} /\ pending' = Work
      BY <1>1, <2>2, <3>2, Numbers DEF ReleaseBase, BeginRelease
    <3>. QED
      BY <3>1, <3>3
  <2>3. CASE parser' = State("CancellingAdoption", NoVersion, 0) /\ CancelAdoption
    <3>1. parser' \in Parsers /\ parser'.tag = "CancellingAdoption"
      BY <2>3, Numbers, VersionFacts DEF State, Parsers, Tags
    <3>2. roots' = {"base"}
      BY <1>1, <2>3 DEF CancelAdoption, BeginRelease
    <3>3. pending' \in {0, Work}
      BY <1>1, <2>3, Numbers DEF CancelAdoption, BeginRelease
    <3>. QED
      BY <3>1, <3>2, <3>3
  <2>. QED
    BY <2>1, <2>2, <2>3 DEF PumpAdopting
<1>3. TypeOK'
  BY <1>1, <1>2, Numbers, VersionFacts DEF IInv, TypeOK, Parsers, Roots, Replies, Pumping, ActorIdle
<1>4. RuntimePhase' /\ PendingPhase' /\ LoadPhase' /\ AdoptPhase' /\ CallPhase'
  BY <1>1, <1>2 DEF IInv, RuntimePhase, PendingPhase, LoadPhase, AdoptPhase, CallPhase, Pumping, ActorIdle
<1>5. WorkIsCurrent' /\ OwnedRoots' /\ NoPageLost' /\ BacklogBounded'
  BY <1>1, <1>2 DEF IInv, WorkIsCurrent, OwnedRoots, NoPageLost, BacklogBounded, Pumping, ActorIdle
<1>. QED
  BY <1>3, <1>4, <1>5 DEF IInv

LEMMA PumpReleasingStep ==
    ASSUME IInv, Pumping, PumpReleasing, UNCHANGED <<opening, source>>
    PROVE  IInv'
<1>1. /\ pending = 0 /\ retired = 0 /\ TypeOK
      /\ runtime = "open" /\ source \in Version /\ source.rev > 0
      /\ opening.early = NoVersion
      /\ parser.tag \in {"CancellingAdoption", "ReleasingBaseForTarget", "ReleasingBaseForClean"}
  BY Numbers DEF IInv, TypeOK, Pumping, Retiring, RuntimePhase, LoadPhase, PumpReleasing
<1>2. /\ parser' \in Parsers /\ pending' \in {0, Work}
      /\ \/ parser'.tag = "ReleasingBaseForClean" /\ roots' = {}
         \/ parser'.tag = "Ready" /\ parser'.of = source /\ roots' = {"base"} /\ pending' = 0
         \/ parser'.tag = "Clean" /\ parser'.of = source /\ roots' = {"build"} /\ pending' = 0
  <2>1. CASE parser.tag = "CancellingAdoption" /\ parser' = State("ReleasingBaseForClean", NoVersion, 0) /\ ReleaseBase
    <3>1. parser' \in Parsers /\ parser'.tag = "ReleasingBaseForClean"
      BY <2>1, Numbers, VersionFacts DEF State, Parsers, Tags
    <3>2. roots = {"base"}
      BY <2>1 DEF IInv, OwnedRoots
    <3>3. roots' = {} /\ pending' = Work
      BY <1>1, <2>1, <3>2, Numbers DEF ReleaseBase, BeginRelease
    <3>. QED
      BY <3>1, <3>3
  <2>2. CASE parser.tag = "ReleasingBaseForTarget" /\ parser' = State("Ready", parser.of, 0)
             /\ roots' = (roots \ {"target"}) \cup {"base"} /\ UNCHANGED pending
    <3>1. parser.of = source /\ roots = {"target"}
      BY <2>2 DEF IInv, OwnedRoots, WorkIsCurrent
    <3>2. parser' \in Parsers /\ parser'.tag = "Ready" /\ parser'.of = source
      BY <1>1, <2>2, <3>1, Numbers DEF State, Parsers, Tags
    <3>3. roots' = {"base"}
      BY <2>2, <3>1
    <3>. QED
      BY <1>1, <2>2, <3>2, <3>3
  <2>3. CASE parser.tag = "ReleasingBaseForClean" /\ StartClean /\ UNCHANGED pending
    <3>1. roots = {}
      BY <2>3 DEF IInv, OwnedRoots
    <3>. QED
      BY <1>1, <2>3, <3>1, CleanStarted
  <2>. QED
    BY <2>1, <2>2, <2>3 DEF PumpReleasing
<1>3. TypeOK'
  BY <1>1, <1>2, Numbers, VersionFacts DEF IInv, TypeOK, Parsers, Roots, Replies, Pumping, ActorIdle
<1>4. RuntimePhase' /\ PendingPhase' /\ LoadPhase' /\ AdoptPhase' /\ CallPhase'
  BY <1>1, <1>2 DEF IInv, RuntimePhase, PendingPhase, LoadPhase, AdoptPhase, CallPhase, Pumping, ActorIdle
<1>5. WorkIsCurrent' /\ OwnedRoots' /\ NoPageLost' /\ BacklogBounded'
  BY <1>1, <1>2 DEF IInv, WorkIsCurrent, OwnedRoots, NoPageLost, BacklogBounded, Pumping, ActorIdle
<1>. QED
  BY <1>3, <1>4, <1>5 DEF IInv

-----------------------------------------------------------------------------
(* The load.                                                               *)

Openings == [pages : 0..MaxPages, adopted : 0..MaxPages, poisoned : BOOLEAN, sealRequested : BOOLEAN,
             sealed : BOOLEAN, finalizing : BOOLEAN, slice : BOOLEAN, early : Version]

\* What a pump of a load finds.
LEMMA LoadFacts ==
    ASSUME IInv, Pumping, parser.tag = "Opening"
    PROVE  /\ TypeOK /\ opening \in Openings /\ parser \in Parsers /\ source \in Version
           /\ pending = 0 /\ retired = 0 /\ runtime = "open" /\ source.rev > 0
           /\ source.pages = opening.adopted
           /\ opening.sealed => opening.sealRequested /\ opening.pages = opening.adopted
           /\ opening.finalizing => opening.sealed /\ parser.left = 0 /\ opening.early = NoVersion
           /\ roots = IF opening.early = NoVersion THEN {} ELSE {"early"}
           /\ opening.early \in {NoVersion, source}
  BY Numbers DEF IInv, TypeOK, Openings, Parsers, Pumping, Retiring, RuntimePhase, LoadPhase, OwnedRoots,
                 WorkIsCurrent

\* The certified viewport is the only root of a load.
LEMMA EarlyHeld ==
    ASSUME IInv, parser.tag = "Opening", NEW early, HoldEarly(early)
    PROVE  roots' = IF early = NoVersion THEN {} ELSE {"early"}
<1>1. roots \subseteq {"early"}
  BY DEF IInv, OwnedRoots
<1>. QED
  BY <1>1 DEF HoldEarly

\* What a load that goes on is after a step, but for the text it has adopted.
GoesOn ==
    /\ opening' \in Openings /\ parser' \in Parsers /\ parser'.tag = "Opening"
    /\ source' \in Version /\ source'.rev = source.rev /\ source'.pages = opening'.adopted
    /\ opening'.sealed => opening'.sealRequested /\ opening'.pages = opening'.adopted
    /\ opening'.finalizing => opening'.sealed /\ parser'.left = 0 /\ opening'.early = NoVersion
    /\ opening'.early \in {NoVersion, source'}
    /\ roots' = IF opening'.early = NoVersion THEN {} ELSE {"early"}
    /\ pending' \in 0..Work /\ (~opening'.finalizing => pending' = 0)

LEMMA LoadGoesOn ==
    ASSUME IInv, Pumping, parser.tag = "Opening", GoesOn
    PROVE  IInv'
<1>1. TypeOK'
  BY LoadFacts, Numbers, VersionFacts DEF IInv, TypeOK, Parsers, Roots, Replies, Pumping, ActorIdle, GoesOn, Openings
<1>2. RuntimePhase' /\ PendingPhase' /\ LoadPhase' /\ AdoptPhase' /\ CallPhase'
  BY LoadFacts DEF IInv, RuntimePhase, PendingPhase, LoadPhase, AdoptPhase, CallPhase, Pumping, ActorIdle, GoesOn, Openings
<1>3. WorkIsCurrent' /\ OwnedRoots' /\ NoPageLost' /\ BacklogBounded'
  BY LoadFacts DEF IInv, WorkIsCurrent, OwnedRoots, NoPageLost, BacklogBounded, Pumping, ActorIdle, GoesOn, Openings
<1>. QED
  BY <1>1, <1>2, <1>3 DEF IInv

LEMMA OpeningScanStep ==
    ASSUME IInv, Pumping, parser.tag = "Opening", OpeningScan, UNCHANGED pending
    PROVE  IInv'
<1>1. /\ parser' \in Parsers /\ parser'.tag = "Opening" /\ UNCHANGED source /\ ~opening.finalizing
  <2>1. TypeOK /\ parser.left > 0 /\ parser' = [parser EXCEPT !.left = @ - 1] /\ UNCHANGED source
    BY LoadFacts DEF OpeningScan
  <2>2. parser' \in Parsers /\ parser'.tag = "Opening"
    BY <2>1, Worked
  <2>3. ~opening.finalizing
    BY <2>1, LoadFacts
  <2>. QED
    BY <2>1, <2>2, <2>3
<1>2. CASE UNCHANGED <<opening, roots>>
  BY <1>1, <1>2, LoadFacts, LoadGoesOn, Numbers DEF GoesOn
<1>3. ASSUME NEW early \in Certify(TRUE, source),
             opening' = [opening EXCEPT !.slice = TRUE, !.early = early], HoldEarly(early)
      PROVE  IInv'
  <2>1. early \in {NoVersion, source} /\ early \in Version
    BY LoadFacts, VersionFacts DEF Certify
  <2>2. /\ opening' \in Openings
        /\ opening'.pages = opening.pages /\ opening'.adopted = opening.adopted
        /\ opening'.sealRequested = opening.sealRequested /\ opening'.sealed = opening.sealed
        /\ opening'.finalizing = opening.finalizing /\ opening'.early = early
    BY <1>3, <2>1, LoadFacts DEF Openings
  <2>3. roots' = IF early = NoVersion THEN {} ELSE {"early"}
    BY <1>3, EarlyHeld
  <2>4. GoesOn
    BY <1>1, <2>1, <2>2, <2>3, LoadFacts, Numbers DEF GoesOn
  <2>. QED
    BY <2>4, LoadGoesOn
<1>. QED
  BY <1>2, <1>3 DEF OpeningScan

LEMMA OpeningAdoptStep ==
    ASSUME IInv, Pumping, parser.tag = "Opening", OpeningAdopt, UNCHANGED pending
    PROVE  IInv'
<1>1. ~opening.sealed /\ ~opening.finalizing /\ opening.pages \in 0..MaxPages
  BY LoadFacts DEF OpeningAdopt, Starved, Openings
<1>2. source' \in Version /\ source'.rev = source.rev /\ source'.pages = opening.pages
  BY <1>1, LoadFacts DEF OpeningAdopt, Version
<1>3. parser' \in Parsers /\ parser'.tag = "Opening"
  BY <1>2, Numbers DEF OpeningAdopt, State, Parsers, Tags
<1>4. PICK early \in Certify(opening.slice, source') :
        /\ opening' = [opening EXCEPT !.adopted = opening.pages, !.sealed = opening.sealRequested, !.early = early]
        /\ HoldEarly(early)
  BY DEF OpeningAdopt
<1>5. early \in {NoVersion, source'} /\ early \in Version
  BY <1>2, VersionFacts DEF Certify
<1>6. /\ opening' \in Openings
      /\ opening'.pages = opening.pages /\ opening'.adopted = opening.pages
      /\ opening'.sealRequested = opening.sealRequested /\ opening'.sealed = opening.sealRequested
      /\ opening'.finalizing = opening.finalizing /\ opening'.early = early
  BY <1>4, <1>5, LoadFacts DEF Openings
<1>7. roots' = IF early = NoVersion THEN {} ELSE {"early"}
  BY <1>4, EarlyHeld
<1>8. GoesOn
  BY <1>1, <1>2, <1>3, <1>5, <1>6, <1>7, LoadFacts, Numbers DEF GoesOn
<1>. QED
  BY <1>8, LoadGoesOn

LEMMA OpeningStarvedStep ==
    ASSUME IInv, Pumping, parser.tag = "Opening", OpeningStarved, UNCHANGED pending
    PROVE  IInv'
<1>1. ~opening.sealed /\ ~opening.finalizing /\ opening.pages = opening.adopted /\ UNCHANGED source
  BY LoadFacts DEF OpeningStarved, Starved
<1>2. parser' \in Parsers /\ parser'.tag = "Opening"
  <2>1. CASE parser' = parser
    BY <2>1, LoadFacts
  <2>2. CASE parser' = [parser EXCEPT !.left = Work]
    BY <2>2, LoadFacts, Numbers DEF Parsers
  <2>. QED
    BY <2>1, <2>2 DEF OpeningStarved
<1>3. PICK early \in (IF opening.early = NoVersion THEN Certify(opening.slice, source) ELSE {opening.early}) :
        /\ opening' = [opening EXCEPT !.sealed = opening.sealRequested, !.early = early]
        /\ HoldEarly(early)
  BY DEF OpeningStarved
<1>4. early \in {NoVersion, source} /\ early \in Version
  BY <1>3, LoadFacts, VersionFacts DEF Certify
<1>5. /\ opening' \in Openings
      /\ opening'.pages = opening.pages /\ opening'.adopted = opening.adopted
      /\ opening'.sealRequested = opening.sealRequested /\ opening'.sealed = opening.sealRequested
      /\ opening'.finalizing = opening.finalizing /\ opening'.early = early
  BY <1>3, <1>4, LoadFacts DEF Openings
<1>6. roots' = IF early = NoVersion THEN {} ELSE {"early"}
  BY <1>3, EarlyHeld
<1>7. GoesOn
  BY <1>1, <1>2, <1>4, <1>5, <1>6, LoadFacts, Numbers DEF GoesOn
<1>. QED
  BY <1>7, LoadGoesOn

LEMMA OpeningCompleteStep ==
    ASSUME IInv, Pumping, parser.tag = "Opening", OpeningComplete
    PROVE  IInv'
<1>1. parser.left = 0 /\ opening.sealed /\ UNCHANGED source
  BY DEF OpeningComplete
<1>2. CASE ~opening.finalizing
  <2>1. /\ opening' = [opening EXCEPT !.finalizing = TRUE, !.slice = FALSE, !.early = NoVersion]
        /\ BeginRelease({"early"}) /\ UNCHANGED parser
    BY <1>2 DEF OpeningComplete
  <2>2. /\ opening' \in Openings
        /\ opening'.pages = opening.pages /\ opening'.adopted = opening.adopted
        /\ opening'.sealRequested = opening.sealRequested /\ opening'.sealed = opening.sealed
        /\ opening'.finalizing = TRUE /\ opening'.early = NoVersion
    BY <2>1, LoadFacts, VersionFacts DEF Openings
  <2>3. roots' = {}
    BY <2>1, LoadFacts DEF BeginRelease
  <2>4. pending' \in 0..Work
    BY <2>1, LoadFacts, Numbers DEF BeginRelease
  <2>5. GoesOn
    BY <1>1, <2>1, <2>2, <2>3, <2>4, LoadFacts DEF GoesOn
  <2>. QED
    BY <2>5, LoadGoesOn
<1>3. CASE opening.finalizing
  <2>1. StartClean /\ UNCHANGED <<opening, pending>> /\ roots = {}
    BY <1>3, LoadFacts DEF OpeningComplete
  <2>2. /\ parser' \in Parsers /\ parser'.tag = "Clean" /\ parser'.of = source
        /\ parser'.left = Work /\ roots' = {"build"}
    BY <2>1, LoadFacts, CleanStarted
  <2>3. TypeOK'
    BY <1>1, <1>3, <2>1, <2>2, LoadFacts, Numbers, VersionFacts DEF IInv, TypeOK, Parsers, Roots, Replies, Pumping, ActorIdle
  <2>4. RuntimePhase' /\ PendingPhase' /\ LoadPhase' /\ AdoptPhase' /\ CallPhase'
    BY <1>1, <1>3, <2>1, <2>2, LoadFacts DEF IInv, RuntimePhase, PendingPhase, LoadPhase, AdoptPhase, CallPhase, Pumping, ActorIdle
  <2>5. WorkIsCurrent' /\ OwnedRoots' /\ NoPageLost' /\ BacklogBounded'
    BY <1>1, <1>3, <2>1, <2>2, LoadFacts DEF IInv, WorkIsCurrent, OwnedRoots, NoPageLost, BacklogBounded, Pumping, ActorIdle
  <2>. QED
    BY <2>3, <2>4, <2>5 DEF IInv
<1>. QED
  BY <1>2, <1>3

LEMMA PumpOpeningStep ==
    ASSUME IInv, Pumping, parser.tag = "Opening", PumpOpening
    PROVE  IInv'
  BY OpeningScanStep, OpeningAdoptStep, OpeningStarvedStep, OpeningCompleteStep DEF PumpOpening

-----------------------------------------------------------------------------
(* Retirement, errors and panics, and the pump as a whole.                 *)

\* Nothing is retired of a runtime that is closed; one that closes here has
\* nothing left.
LEMMA RetireStep ==
    ASSUME IInv, Retire, UNCHANGED <<parser, source, opening, roots, edits, actor, dropped>>,
           SettleRuntime \/ UNCHANGED runtime, reply' \in Replies
    PROVE  IInv'
<1>1. /\ retired' \in 0..MaxRetired + 1 /\ pending' \in 0..Work
      /\ retired' <= retired /\ pending' <= pending /\ runtime # "closed"
  BY Numbers DEF Retire, IInv, TypeOK, RuntimePhase
<1>2. /\ runtime' \in {"open", "closing", "closed"}
      /\ runtime' = "open" <=> runtime = "open"
      /\ runtime' = "closed" => retired' = 0 /\ pending' = 0 /\ roots' = {}
  BY <1>1 DEF SettleRuntime, RuntimeDrained, IInv, TypeOK, RuntimePhase
<1>3. TypeOK'
  BY <1>1, <1>2 DEF IInv, TypeOK, Replies
<1>4. RuntimePhase'
  BY <1>1, <1>2 DEF IInv, RuntimePhase
<1>5. PendingPhase' /\ LoadPhase' /\ AdoptPhase' /\ CallPhase'
  BY <1>1, Numbers DEF IInv, TypeOK, PendingPhase, LoadPhase, AdoptPhase, CallPhase
<1>6. WorkIsCurrent' /\ OwnedRoots' /\ NoPageLost'
  BY DEF IInv, WorkIsCurrent, OwnedRoots, NoPageLost
<1>7. BacklogBounded'
  BY <1>1, <1>2, Numbers DEF IInv, TypeOK, BacklogBounded
<1>. QED
  BY <1>3, <1>4, <1>5, <1>6, <1>7 DEF IInv

LEMMA PanicsStep ==
    ASSUME IInv, Panics
    PROVE  IInv'
<1>1. /\ parser' \in Parsers /\ parser'.tag = "Transition" /\ reply' \in Replies
      /\ UNCHANGED <<source, opening, roots, pending, retired, runtime, edits>>
      /\ actor' = "empty" /\ dropped' = "bare"
  BY Numbers, VersionFacts DEF Panics, Say, State, Parsers, Tags, Replies
<1>2. TypeOK'
  BY <1>1, Numbers, VersionFacts DEF IInv, TypeOK, Parsers, Roots, Replies
<1>3. RuntimePhase' /\ PendingPhase' /\ LoadPhase' /\ AdoptPhase' /\ CallPhase'
  BY <1>1 DEF IInv, RuntimePhase, PendingPhase, LoadPhase, AdoptPhase, CallPhase
<1>4. WorkIsCurrent' /\ OwnedRoots' /\ NoPageLost' /\ BacklogBounded'
  BY <1>1 DEF IInv, WorkIsCurrent, OwnedRoots, NoPageLost, BacklogBounded
<1>. QED
  BY <1>2, <1>3, <1>4 DEF IInv

\* A parser object with nothing left to release just falls out of scope.
LEMMA FailsStep ==
    ASSUME IInv, Fails(Owned), parser.tag # "Transition"
    PROVE  IInv'
<1>1. CASE Owned # {}
  BY <1>1, PanicsStep DEF Fails
<1>2. CASE Owned = {}
  <2>1. /\ parser' \in Parsers /\ parser'.tag = "Faulted" /\ reply' \in Replies
        /\ UNCHANGED <<source, opening, roots, pending, retired, runtime, edits, actor, dropped>>
    <3>1. /\ Say("fault") /\ parser' = State("Faulted", NoVersion, 0)
          /\ UNCHANGED <<source, opening, roots, pending, retired, runtime, edits, actor, dropped>>
      BY <1>2 DEF Fails, ActorIdle
    <3>2. parser' \in Parsers /\ parser'.tag = "Faulted"
      BY <3>1, Numbers, VersionFacts DEF State, Parsers, Tags
    <3>. QED
      BY <3>1, <3>2, AnswerTyped
  <2>2. roots = {}
    BY <1>2 DEF Owned
  <2>3. opening.early = NoVersion
    BY <2>2 DEF IInv, LoadPhase, OwnedRoots
  <2>4. TypeOK'
    BY <2>1 DEF IInv, TypeOK, Parsers, Replies
  <2>5. RuntimePhase' /\ PendingPhase' /\ LoadPhase' /\ AdoptPhase' /\ CallPhase'
    BY <2>1, <2>3 DEF IInv, RuntimePhase, PendingPhase, LoadPhase, AdoptPhase, CallPhase
  <2>6. WorkIsCurrent' /\ OwnedRoots' /\ NoPageLost' /\ BacklogBounded'
    BY <2>1, <2>2, <2>3 DEF IInv, WorkIsCurrent, OwnedRoots, NoPageLost, BacklogBounded
  <2>. QED
    BY <2>4, <2>5, <2>6 DEF IInv
<1>. QED
  BY <1>1, <1>2

\* A call that changes nothing of the document.
LEMMA Unmoved ==
    ASSUME IInv, UNCHANGED core, UNCHANGED edits, ActorIdle, reply' \in Replies
    PROVE  IInv'
<1>1. CallsKeep
  BY Numbers DEF IInv, TypeOK, CallPhase, CallsKeep, ActorIdle, core
<1>. QED
  BY <1>1, CoreKept

LEMMA PumpStep ==
    ASSUME IInv, Pump
    PROVE  IInv'
<1>1. CASE /\ Say("fault") /\ ActorIdle
           /\ UNCHANGED <<parser, source, opening, roots, pending, retired, runtime, edits>>
  BY <1>1, AnswerTyped, Unmoved DEF core
<1>2. CASE Retire /\ Say("ok") /\ ActorIdle /\ UNCHANGED <<parser, source, opening, roots, runtime, edits>>
  BY <1>2, AnswerTyped, RetireStep DEF ActorIdle
<1>3. CASE /\ ~Retiring /\ ActorIdle /\ UNCHANGED <<retired, runtime, edits>>
           /\ \/ parser.tag = "Clean" /\ PumpClean /\ UNCHANGED <<opening, source>>
              \/ parser.tag = "CancellingClean" /\ PumpCancellingClean /\ UNCHANGED <<opening, source>>
              \/ parser.tag = "Adopting" /\ PumpAdopting /\ UNCHANGED <<opening, source>>
              \/ PumpReleasing /\ UNCHANGED <<opening, source>>
              \/ parser.tag = "Opening" /\ PumpOpening
              \/ parser.tag = "Ready" /\ Say("ok") /\ UNCHANGED <<parser, opening, source, roots, pending>>
  <2>1. reply' \in Replies
    BY <1>3, AnswerTyped DEF PumpClean, PumpCancellingClean, PumpAdopting, PumpReleasing, PumpOpening
  <2>2. Pumping
    BY <1>3, <2>1 DEF Pumping
  <2>3. CASE UNCHANGED <<parser, opening, source, roots, pending>>
    BY <1>3, <2>1, <2>3, Unmoved DEF core
  <2>. QED
    BY <1>3, <2>2, <2>3, PumpCleanStep, PumpCancellingCleanStep, PumpAdoptingStep, PumpReleasingStep, PumpOpeningStep
<1>. QED
  BY <1>1, <1>2, <1>3 DEF Pump

LEMMA PumpErrorStep ==
    ASSUME IInv, PumpError \/ PumpClosing
    PROVE  IInv'
<1>1. CASE PumpError
  <2>1. Fails(Owned) /\ parser.tag # "Transition"
    BY <1>1 DEF PumpError
  <2>. QED
    BY <2>1, FailsStep
<1>2. CASE PumpClosing
  <2>1. parser.tag # "Transition"
    BY <1>2 DEF PumpClosing, Closing
  <2>2. CASE Retiring
    BY <1>2, <2>2, AnswerTyped, RetireStep DEF PumpClosing, ActorIdle
  <2>3. CASE ~Retiring
    BY <1>2, <2>1, <2>3, FailsStep DEF PumpClosing
  <2>. QED
    BY <2>2, <2>3
<1>. QED
  BY <1>1, <1>2

-----------------------------------------------------------------------------
(* The load's calls, and edits.                                            *)

LEMMA AppendPageStep ==
    ASSUME IInv, AppendPage
    PROVE  IInv'
<1>1. /\ ActorIdle /\ UNCHANGED <<parser, source, roots, pending, retired, runtime, edits>>
      /\ reply' \in Replies
  BY AnswerTyped DEF AppendPage
<1>2. CASE UNCHANGED opening
  BY <1>1, <1>2, Unmoved DEF core
<1>3. CASE /\ parser.tag = "Opening" /\ ~opening.sealRequested
           /\ \/ opening.pages < MaxPages /\ opening' = [opening EXCEPT !.pages = @ + 1]
              \/ opening' = [opening EXCEPT !.poisoned = TRUE]
  <2>1. opening \in Openings /\ ~opening.sealed /\ ~opening.finalizing
    BY <1>3 DEF IInv, TypeOK, Openings, LoadPhase
  <2>2. /\ opening' \in Openings
        /\ opening'.adopted = opening.adopted /\ opening'.sealed = opening.sealed
        /\ opening'.finalizing = opening.finalizing /\ opening'.early = opening.early
    <3>1. CASE opening.pages < MaxPages /\ opening' = [opening EXCEPT !.pages = @ + 1]
      <4>1. opening.pages + 1 \in 0..MaxPages
        BY <2>1, <3>1, Numbers DEF Openings
      <4>. QED
        BY <2>1, <3>1, <4>1 DEF Openings
    <3>2. CASE opening' = [opening EXCEPT !.poisoned = TRUE]
      BY <2>1, <3>2 DEF Openings
    <3>. QED
      BY <1>3, <3>1, <3>2
  <2>3. TypeOK'
    BY <1>1, <2>2 DEF IInv, TypeOK, Openings, Replies, ActorIdle
  <2>4. RuntimePhase' /\ PendingPhase' /\ LoadPhase' /\ AdoptPhase' /\ CallPhase'
    BY <1>1, <1>3, <2>1, <2>2 DEF IInv, ActorIdle, RuntimePhase, PendingPhase, LoadPhase, AdoptPhase, CallPhase
  <2>5. WorkIsCurrent' /\ OwnedRoots' /\ NoPageLost' /\ BacklogBounded'
    BY <1>1, <1>3, <2>1, <2>2 DEF IInv, WorkIsCurrent, OwnedRoots, NoPageLost, BacklogBounded
  <2>. QED
    BY <2>3, <2>4, <2>5 DEF IInv
<1>. QED
  BY <1>2, <1>3 DEF AppendPage

LEMMA SealOpeningStep ==
    ASSUME IInv, SealOpening
    PROVE  IInv'
<1>1. /\ ActorIdle /\ UNCHANGED <<parser, source, roots, pending, retired, runtime, edits>>
      /\ reply' \in Replies
  BY AnswerTyped DEF SealOpening
<1>2. CASE UNCHANGED opening
  BY <1>1, <1>2, Unmoved DEF core
<1>3. CASE parser.tag = "Opening" /\ opening' = [opening EXCEPT !.sealRequested = TRUE]
  <2>1. opening \in Openings
    BY DEF IInv, TypeOK, Openings
  <2>2. /\ opening' \in Openings /\ opening'.sealRequested = TRUE
        /\ opening'.pages = opening.pages /\ opening'.adopted = opening.adopted
        /\ opening'.sealed = opening.sealed
        /\ opening'.finalizing = opening.finalizing /\ opening'.early = opening.early
    BY <1>3, <2>1 DEF Openings
  <2>3. TypeOK'
    BY <1>1, <2>2 DEF IInv, TypeOK, Openings, Replies, ActorIdle
  <2>4. RuntimePhase' /\ PendingPhase' /\ LoadPhase' /\ AdoptPhase' /\ CallPhase'
    BY <1>1, <1>3, <2>2 DEF IInv, ActorIdle, RuntimePhase, PendingPhase, LoadPhase, AdoptPhase, CallPhase
  <2>5. WorkIsCurrent' /\ OwnedRoots' /\ NoPageLost' /\ BacklogBounded'
    BY <1>1, <1>3, <2>2 DEF IInv, WorkIsCurrent, OwnedRoots, NoPageLost, BacklogBounded
  <2>. QED
    BY <2>3, <2>4, <2>5 DEF IInv
<1>. QED
  BY <1>2, <1>3 DEF SealOpening

\* What surrounds an edit.
Editing ==
    /\ edits < MaxEdits /\ edits' = edits + 1 /\ ActorIdle /\ UNCHANGED runtime
    /\ reply' \in Replies

LEMMA EditKept ==
    ASSUME IInv, Editing, EditKeeps
    PROVE  IInv'
<1>1. CallsKeep
  BY Numbers DEF IInv, TypeOK, CallPhase, CallsKeep, Editing, ActorIdle
<1>. QED
  BY <1>1, CoreKept DEF EditKeeps, Editing, core

\* The source the runtime has after an edit, taken or refused.
LEMMA EditedSource ==
    ASSUME IInv, Editing, EditSource, runtime = "open"
    PROVE  /\ source' \in Version /\ source'.rev <= edits' + 1 /\ source'.rev > 0
           /\ source'.pages = source.pages
           /\ retired' \in 0..MaxRetired + 1 /\ (retired' = retired \/ retired' <= MaxRetired)
<1>1. source \in Version /\ source.rev \in Nat /\ source.rev > 0 /\ source.rev <= edits + 1 /\ edits \in 0..MaxEdits
      /\ retired \in 0..MaxRetired + 1
  BY VersionFacts, Numbers DEF IInv, TypeOK, RuntimePhase, CallPhase
<1>2. CASE CanRetire /\ source' = NextRevision /\ retired' = retired + 1
  <2>1. source.rev + 1 \in 0..MaxEdits + 1
    BY <1>1, Numbers DEF Editing
  <2>2. source' \in Version /\ source'.rev = source.rev + 1 /\ source'.pages = source.pages
    BY <1>1, <1>2, <2>1 DEF NextRevision, Version
  <2>. QED
    BY <1>1, <1>2, <2>2, Numbers DEF Editing, CanRetire
<1>3. CASE UNCHANGED <<source, retired>>
  BY <1>1, <1>3, Numbers DEF Editing
<1>. QED
  BY <1>2, <1>3 DEF EditSource

\* An edit that cancels or leaves the work in progress, with the runtime open.
LEMMA EditedStep ==
    ASSUME IInv, Editing, EditSource, UNCHANGED opening, runtime = "open", opening.early = NoVersion,
           parser.tag \in {"Clean", "CancellingClean", "Ready", "Adopting", "CancellingAdoption",
                           "ReleasingBaseForClean"},
           parser' \in Parsers, pending' \in 0..Work,
           \/ /\ parser'.tag = "CancellingClean" /\ roots' = {}
           \/ /\ parser'.tag = "CancellingAdoption" /\ roots' = {"base"}
           \/ /\ parser'.tag = "ReleasingBaseForClean" /\ roots' = {}
           \/ /\ parser'.tag = "Ready" /\ parser'.of = source' /\ roots' = {"base"} /\ pending' = 0
           \/ /\ parser'.tag = "Adopting" /\ parser'.of = source' /\ parser'.left = Work
              /\ roots' = {"base"} /\ pending' = 0
    PROVE  IInv'
<1>1. /\ source' \in Version /\ source'.rev <= edits' + 1 /\ source'.rev > 0
      /\ source'.pages = source.pages
      /\ retired' \in 0..MaxRetired + 1 /\ (retired' = retired \/ retired' <= MaxRetired)
  BY EditedSource
<1>2. TypeOK'
  BY <1>1, Numbers DEF IInv, TypeOK, Parsers, Replies, Editing, ActorIdle, Roots
<1>3. RuntimePhase' /\ PendingPhase' /\ AdoptPhase'
  BY <1>1, Numbers DEF IInv, Editing, RuntimePhase, PendingPhase, AdoptPhase
<1>4. LoadPhase' /\ CallPhase'
  BY <1>1 DEF IInv, Editing, ActorIdle, LoadPhase, CallPhase
<1>5. WorkIsCurrent' /\ OwnedRoots' /\ NoPageLost'
  BY <1>1 DEF IInv, Editing, WorkIsCurrent, OwnedRoots, NoPageLost
<1>6. BacklogBounded'
  BY <1>1, Numbers DEF IInv, TypeOK, Editing, BacklogBounded
<1>. QED
  BY <1>2, <1>3, <1>4, <1>5, <1>6 DEF IInv

LEMMA EditReadyStep ==
    ASSUME IInv, Editing, parser.tag = "Ready", EditReady
    PROVE  IInv'
<1>1. /\ EditSource /\ UNCHANGED opening /\ runtime = "open" /\ opening.early = NoVersion
      /\ parser \in Parsers /\ parser.of = source /\ roots = {"base"} /\ pending = 0
  BY DEF EditReady, IInv, TypeOK, Parsers, RuntimePhase, LoadPhase, WorkIsCurrent, OwnedRoots, PendingPhase
<1>2. CASE source' = source /\ UNCHANGED <<parser, roots, pending>>
  BY <1>1, <1>2, EditedStep, Numbers
<1>3. CASE parser' = State("Adopting", source', Work) /\ UNCHANGED <<roots, pending>>
  <2>1. parser' \in Parsers /\ parser'.tag = "Adopting" /\ parser'.of = source' /\ parser'.left = Work
    BY <1>1, <1>3, EditedSource, Numbers DEF State, Parsers, Tags
  <2>. QED
    BY <1>1, <1>3, <2>1, EditedStep, Numbers
<1>4. CASE parser' = State("ReleasingBaseForClean", NoVersion, 0) /\ ReleaseBase
  <2>1. parser' \in Parsers /\ parser'.tag = "ReleasingBaseForClean"
    BY <1>4, VersionFacts, Numbers DEF State, Parsers, Tags
  <2>2. roots' = {} /\ pending' \in 0..Work
    BY <1>1, <1>4, Numbers DEF ReleaseBase, BeginRelease
  <2>. QED
    BY <1>1, <2>1, <2>2, EditedStep
<1>. QED
  BY <1>2, <1>3, <1>4 DEF EditReady

LEMMA EditBuildingStep ==
    ASSUME IInv, Editing, EditBuilding
    PROVE  IInv'
<1>1. /\ EditSource /\ UNCHANGED opening /\ runtime = "open" /\ opening.early = NoVersion
      /\ parser \in Parsers /\ pending \in 0..Work
      /\ parser.tag \in {"Clean", "Adopting", "CancellingClean", "CancellingAdoption", "ReleasingBaseForClean"}
  BY DEF EditBuilding, IInv, TypeOK, Parsers, RuntimePhase, LoadPhase
<1>2. CASE parser.tag = "Clean" /\ parser' = State("CancellingClean", NoVersion, Work) /\ CancelBuild
  <2>1. parser' \in Parsers /\ parser'.tag = "CancellingClean"
    BY <1>2, VersionFacts, Numbers DEF State, Parsers, Tags
  <2>2. roots = {"build"} /\ pending = 0
    BY <1>2 DEF IInv, OwnedRoots, PendingPhase
  <2>3. roots' = {} /\ pending' \in 0..Work
    BY <1>2, <2>2, Numbers DEF CancelBuild, BeginRelease
  <2>. QED
    BY <1>1, <2>1, <2>3, EditedStep
<1>3. CASE parser.tag = "Adopting" /\ parser' = State("CancellingAdoption", NoVersion, 0) /\ CancelAdoption
  <2>1. parser' \in Parsers /\ parser'.tag = "CancellingAdoption"
    BY <1>3, VersionFacts, Numbers DEF State, Parsers, Tags
  <2>2. roots \in {{"base"}, {"base", "target"}} /\ pending = 0
    BY <1>3 DEF IInv, OwnedRoots, PendingPhase
  <2>3. roots' = {"base"}
    BY <1>3, <2>2 DEF CancelAdoption, BeginRelease
  <2>4. pending' \in 0..Work
    BY <1>3, <2>2, Numbers DEF CancelAdoption, BeginRelease
  <2>. QED
    BY <1>1, <2>1, <2>3, <2>4, EditedStep
<1>4. CASE /\ parser.tag \in {"CancellingClean", "CancellingAdoption", "ReleasingBaseForClean"}
           /\ UNCHANGED <<parser, roots, pending>>
  <2>1. \/ parser.tag = "CancellingClean" /\ roots = {}
        \/ parser.tag = "CancellingAdoption" /\ roots = {"base"}
        \/ parser.tag = "ReleasingBaseForClean" /\ roots = {}
    BY <1>4 DEF IInv, OwnedRoots
  <2>. QED
    BY <1>1, <1>4, <2>1, EditedStep
<1>. QED
  BY <1>2, <1>3, <1>4 DEF EditBuilding

\* An edit of a load: a load on a new runtime, or a fault.
LEMMA EditOpeningStep ==
    ASSUME IInv, Editing, parser.tag = "Opening", EditOpening
    PROVE  IInv'
<1>1. /\ opening \in Openings /\ source \in Version /\ source.rev \in Nat /\ source.rev > 0
      /\ source.rev <= edits + 1 /\ edits \in 0..MaxEdits /\ runtime = "open"
      /\ roots \subseteq {"early"} /\ retired \in 0..MaxRetired + 1 /\ pending \in 0..Work
      /\ edits' \in 0..MaxEdits /\ edits' = edits + 1
  BY VersionFacts, Numbers DEF IInv, TypeOK, Openings, RuntimePhase, CallPhase, OwnedRoots, Editing
<1>2. CASE EditKeeps
  BY <1>2, EditKept
<1>3. CASE /\ parser' = State("Faulted", NoVersion, 0)
           /\ opening' = [opening EXCEPT !.early = NoVersion]
           /\ roots' = roots \ {"early"}
           /\ UNCHANGED <<source, pending, retired>>
  <2>1. parser' \in Parsers /\ parser'.tag = "Faulted"
    BY <1>3, VersionFacts, Numbers DEF State, Parsers, Tags
  <2>2. opening' \in Openings /\ opening'.early = NoVersion
    BY <1>1, <1>3, VersionFacts DEF Openings
  <2>3. roots' = {} /\ source'.rev <= edits' + 1
    BY <1>1, <1>3, Numbers
  <2>4. TypeOK'
    BY <1>1, <1>3, <2>1, <2>2, <2>3 DEF IInv, TypeOK, Parsers, Openings, Replies, Editing, ActorIdle, Roots
  <2>5. RuntimePhase' /\ PendingPhase' /\ LoadPhase' /\ AdoptPhase' /\ CallPhase'
    BY <1>1, <1>3, <2>1, <2>2, <2>3 DEF IInv, Editing, ActorIdle, RuntimePhase, PendingPhase, LoadPhase, AdoptPhase, CallPhase
  <2>6. WorkIsCurrent' /\ OwnedRoots' /\ NoPageLost' /\ BacklogBounded'
    BY <1>1, <1>3, <2>1, <2>2, <2>3 DEF IInv, Editing, WorkIsCurrent, OwnedRoots, NoPageLost, BacklogBounded
  <2>. QED
    BY <2>4, <2>5, <2>6 DEF IInv
<1>4. CASE /\ source' = [rev |-> source.rev + 1, pages |-> opening.pages]
           /\ opening' = [NoLoad EXCEPT !.pages = opening.pages, !.adopted = opening.pages,
                                        !.sealRequested = opening.sealRequested]
           /\ \E left \in {0, Work} : parser' = State("Opening", source', left)
           /\ roots' = roots \ {"early"} /\ pending' = 0 /\ retired' = 0
  <2>1. /\ source' \in Version /\ source'.rev <= edits' + 1 /\ source'.rev > 0
        /\ source'.pages = opening.pages
    <3>1. source.rev + 1 \in 0..MaxEdits + 1 /\ opening.pages \in 0..MaxPages
      BY <1>1, Numbers DEF Editing, Openings
    <3>. QED
      BY <1>1, <1>4, <3>1, Numbers DEF Version
  <2>2. parser' \in Parsers /\ parser'.tag = "Opening"
    BY <1>4, <2>1, Numbers DEF State, Parsers, Tags
  <2>3. /\ opening' \in Openings /\ opening'.early = NoVersion /\ opening'.adopted = opening.pages
        /\ ~opening'.sealed /\ ~opening'.finalizing
    BY <1>1, <1>4, VersionFacts DEF NoLoad, Openings
  <2>4. roots' = {}
    BY <1>1, <1>4
  <2>5. TypeOK'
    BY <1>1, <1>4, <2>1, <2>2, <2>3, <2>4, Numbers DEF IInv, TypeOK, Parsers, Openings, Replies, Editing, ActorIdle, Roots
  <2>6. RuntimePhase' /\ PendingPhase' /\ LoadPhase' /\ AdoptPhase' /\ CallPhase'
    BY <1>1, <1>4, <2>1, <2>2, <2>3, <2>4
       DEF IInv, Editing, ActorIdle, RuntimePhase, PendingPhase, LoadPhase, AdoptPhase, CallPhase
  <2>7. WorkIsCurrent' /\ OwnedRoots' /\ NoPageLost' /\ BacklogBounded'
    BY <1>1, <1>4, <2>1, <2>2, <2>3, <2>4, Numbers
       DEF Editing, WorkIsCurrent, OwnedRoots, NoPageLost, BacklogBounded
  <2>. QED
    BY <2>5, <2>6, <2>7 DEF IInv
<1>. QED
  BY <1>2, <1>3, <1>4 DEF EditOpening

LEMMA EditStep ==
    ASSUME IInv, NEW expected, Edit(expected)
    PROVE  IInv'
<1>1. CASE EditKeeps /\ (Say("refused") \/ Say("fault"))
  <2>1. Editing
    BY <1>1, AnswerTyped DEF Edit, Editing
  <2>. QED
    BY <1>1, <2>1, EditKept
<1>2. CASE parser.tag = "Opening" /\ EditOpening
  <2>1. Editing
    BY <1>2, AnswerTyped DEF Edit, Editing, EditOpening
  <2>. QED
    BY <1>2, <2>1, EditOpeningStep
<1>3. CASE parser.tag = "Ready" /\ EditReady
  <2>1. Editing
    BY <1>3, AnswerTyped DEF Edit, Editing, EditReady, EditSource
  <2>. QED
    BY <1>3, <2>1, EditReadyStep
<1>4. CASE EditBuilding
  <2>1. Editing
    BY <1>4, AnswerTyped DEF Edit, Editing, EditBuilding, EditSource
  <2>. QED
    BY <1>4, <2>1, EditBuildingStep
<1>. QED
  BY <1>1, <1>2, <1>3, <1>4 DEF Edit, EditAt

-----------------------------------------------------------------------------
(* Close.                                                                  *)

\* What surrounds a step of a close, whoever takes it.
ClosingCall ==
    /\ actor' \in {"running", "discard", "draining", "empty", "down"}
    /\ reply' \in Replies /\ UNCHANGED <<edits, dropped>>

\* The parser releases what it owns; the runtime waits for it.
LEMMA ParserCloses ==
    ASSUME IInv, ClosingCall, KeepRuntime, UNCHANGED opening, opening.early = NoVersion, runtime = "open",
           parser' \in Parsers, pending' \in 0..Work,
           \/ parser'.tag = "ClosingClean" /\ roots' = {}
           \/ parser'.tag = "ClosingAdoption" /\ roots' = {"base"}
           \/ parser'.tag = "ClosingSession" /\ roots' = IF parser'.next THEN {"target"} ELSE {}
    PROVE  IInv'
<1>1. TypeOK'
  BY DEF IInv, TypeOK, Parsers, Roots, Replies, ClosingCall, KeepRuntime
<1>2. RuntimePhase' /\ PendingPhase' /\ LoadPhase' /\ AdoptPhase' /\ CallPhase'
  BY DEF IInv, RuntimePhase, PendingPhase, LoadPhase, AdoptPhase, CallPhase, ClosingCall, KeepRuntime
<1>3. WorkIsCurrent' /\ OwnedRoots' /\ NoPageLost' /\ BacklogBounded'
  BY DEF IInv, WorkIsCurrent, OwnedRoots, NoPageLost, BacklogBounded, KeepRuntime
<1>. QED
  BY <1>1, <1>2, <1>3 DEF IInv

\* The parser has gone, and the runtime begins to close.
LEMMA RuntimeCloses ==
    ASSUME IInv, ClosingCall, RuntimeBeginClose, parser' = State("ClosingRuntime", NoVersion, 0),
           opening' \in Openings, opening'.early = NoVersion, roots' = {},
           pending' \in 0..Work, runtime = "closed" => pending' = 0
    PROVE  IInv'
<1>1. parser' \in Parsers /\ parser'.tag = "ClosingRuntime"
  BY VersionFacts, Numbers DEF State, Parsers, Tags, Closing
<1>2. /\ runtime' \in {"closing", "closed"} /\ source' = NoVersion /\ source' \in Version
      /\ retired' \in 0..MaxRetired + 1 /\ (runtime' = "closed" => runtime = "closed" /\ retired' = 0)
      /\ runtime = "closed" => runtime' = "closed"
  <2>1. CASE runtime = "open"
    BY <2>1, Numbers, VersionFacts DEF RuntimeBeginClose, IInv, TypeOK, BacklogBounded
  <2>2. CASE runtime # "open"
    BY <2>2, Numbers, VersionFacts DEF RuntimeBeginClose, IInv, TypeOK, RuntimePhase
  <2>. QED
    BY <2>1, <2>2
<1>3. TypeOK'
  BY <1>1, <1>2 DEF IInv, TypeOK, Parsers, Openings, Roots, Replies, ClosingCall
<1>4. source'.rev <= edits' + 1
  BY <1>2, VersionFacts, Numbers DEF IInv, TypeOK, ClosingCall
<1>5. RuntimePhase' /\ PendingPhase' /\ LoadPhase' /\ AdoptPhase' /\ CallPhase'
  BY <1>1, <1>2, <1>4 DEF IInv, RuntimePhase, PendingPhase, LoadPhase, AdoptPhase, CallPhase, ClosingCall
<1>6. WorkIsCurrent' /\ OwnedRoots' /\ NoPageLost'
  BY <1>1, <1>2 DEF WorkIsCurrent, OwnedRoots, NoPageLost
<1>7. BacklogBounded'
  BY <1>2, Numbers DEF BacklogBounded
<1>. QED
  BY <1>3, <1>5, <1>6, <1>7 DEF IInv

LEMMA BeginsClose ==
    ASSUME IInv, ClosingCall, BeginCloseStep
    PROVE  IInv'
<1>1. opening \in Openings /\ parser \in Parsers /\ pending \in 0..Work
  BY DEF IInv, TypeOK, Openings, Parsers
<1>2. CASE /\ parser.tag \in {"Opening", "Faulted"}
           /\ parser' = State("ClosingRuntime", NoVersion, 0)
           /\ opening' = [opening EXCEPT !.early = NoVersion]
           /\ roots' = roots \ {"early"} /\ UNCHANGED pending /\ RuntimeBeginClose
  <2>1. opening' \in Openings /\ opening'.early = NoVersion
    BY <1>1, <1>2, VersionFacts DEF Openings
  <2>2. roots' = {} /\ (runtime = "closed" => pending' = 0)
    BY <1>2 DEF IInv, OwnedRoots, RuntimePhase
  <2>. QED
    BY <1>1, <1>2, <2>1, <2>2, RuntimeCloses
<1>3. CASE KeepRuntime /\ UNCHANGED opening /\ parser.tag \notin {"Opening", "Faulted"} /\ BeginCloseStep
  <2>1. /\ parser.tag \in {"Clean", "Ready", "Adopting", "CancellingClean", "CancellingAdoption",
                           "ReleasingBaseForClean", "ReleasingBaseForTarget"}
        /\ runtime = "open" /\ opening.early = NoVersion
    BY <1>3 DEF IInv, BeginCloseStep, RuntimePhase, LoadPhase
  <2>2. CASE parser.tag = "Clean" /\ parser' = State("ClosingClean", NoVersion, Work) /\ CancelBuild
    <3>1. parser' \in Parsers /\ parser'.tag = "ClosingClean"
      BY <2>2, VersionFacts, Numbers DEF State, Parsers, Tags, Closing
    <3>2. roots = {"build"} /\ pending = 0
      BY <2>2 DEF IInv, OwnedRoots, PendingPhase
    <3>3. roots' = {} /\ pending' \in 0..Work
      BY <2>2, <3>2, Numbers DEF CancelBuild, BeginRelease
    <3>. QED
      BY <1>3, <2>1, <3>1, <3>3, ParserCloses
  <2>3. CASE parser.tag = "Ready" /\ parser' = State("ClosingSession", NoVersion, 0) /\ ReleaseBase
    <3>1. parser' \in Parsers /\ parser'.tag = "ClosingSession" /\ ~parser'.next
      BY <2>3, VersionFacts, Numbers DEF State, Parsers, Tags, Closing
    <3>2. roots = {"base"} /\ pending = 0
      BY <2>3 DEF IInv, OwnedRoots, PendingPhase
    <3>3. roots' = {} /\ pending' \in 0..Work
      BY <2>3, <3>2, Numbers DEF ReleaseBase, BeginRelease
    <3>. QED
      BY <1>3, <2>1, <3>1, <3>3, ParserCloses
  <2>4. CASE parser.tag = "Adopting" /\ parser' = State("ClosingAdoption", NoVersion, 0) /\ CancelAdoption
    <3>1. parser' \in Parsers /\ parser'.tag = "ClosingAdoption"
      BY <2>4, VersionFacts, Numbers DEF State, Parsers, Tags, Closing
    <3>2. roots \in {{"base"}, {"base", "target"}} /\ pending = 0
      BY <2>4 DEF IInv, OwnedRoots, PendingPhase
    <3>3. roots' = {"base"}
      BY <2>4, <3>2 DEF CancelAdoption, BeginRelease
    <3>4. pending' \in 0..Work
      BY <2>4, <3>2, Numbers DEF CancelAdoption, BeginRelease
    <3>. QED
      BY <1>3, <2>1, <3>1, <3>3, <3>4, ParserCloses
  <2>5. CASE UNCHANGED <<roots, pending>>
             /\ parser.tag = "CancellingClean" /\ parser' = State("ClosingClean", NoVersion, parser.left)
    <3>1. parser' \in Parsers /\ parser'.tag = "ClosingClean"
      BY <1>1, <2>5, VersionFacts, Numbers DEF State, Parsers, Tags, Closing
    <3>2. roots = {}
      BY <2>5 DEF IInv, OwnedRoots
    <3>. QED
      BY <1>1, <1>3, <2>1, <2>5, <3>1, <3>2, ParserCloses
  <2>6. CASE UNCHANGED <<roots, pending>>
             /\ parser.tag = "CancellingAdoption" /\ parser' = State("ClosingAdoption", NoVersion, 0)
    <3>1. parser' \in Parsers /\ parser'.tag = "ClosingAdoption"
      BY <2>6, VersionFacts, Numbers DEF State, Parsers, Tags, Closing
    <3>2. roots = {"base"}
      BY <2>6 DEF IInv, OwnedRoots
    <3>. QED
      BY <1>1, <1>3, <2>1, <2>6, <3>1, <3>2, ParserCloses
  <2>7. CASE UNCHANGED <<roots, pending>>
             /\ parser.tag = "ReleasingBaseForClean" /\ parser' = State("ClosingSession", NoVersion, 0)
    <3>1. parser' \in Parsers /\ parser'.tag = "ClosingSession" /\ ~parser'.next
      BY <2>7, VersionFacts, Numbers DEF State, Parsers, Tags, Closing
    <3>2. roots = {}
      BY <2>7 DEF IInv, OwnedRoots
    <3>. QED
      BY <1>1, <1>3, <2>1, <2>7, <3>1, <3>2, ParserCloses
  <2>8. CASE UNCHANGED <<roots, pending>>
             /\ parser.tag = "ReleasingBaseForTarget"
             /\ parser' = [State("ClosingSession", NoVersion, 0) EXCEPT !.next = TRUE]
    <3>1. parser' \in Parsers /\ parser'.tag = "ClosingSession" /\ parser'.next
      <4>1. State("ClosingSession", NoVersion, 0) \in Parsers
        BY VersionFacts, Numbers DEF State, Parsers, Tags, Closing
      <4>2. State("ClosingSession", NoVersion, 0).tag = "ClosingSession"
        BY DEF State
      <4>. QED
        BY <2>8, <4>1, <4>2 DEF Parsers
    <3>2. roots = {"target"}
      BY <2>8 DEF IInv, OwnedRoots
    <3>. QED
      BY <1>1, <1>3, <2>1, <2>8, <3>1, <3>2, ParserCloses
  <2>. QED
    BY <1>3, <2>1, <2>2, <2>3, <2>4, <2>5, <2>6, <2>7, <2>8 DEF BeginCloseStep
<1>. QED
  BY <1>2, <1>3 DEF BeginCloseStep

LEMMA BeginCloseStepKeeps ==
    ASSUME IInv, BeginClose
    PROVE  IInv'
<1>1. reply' \in Replies
  BY AnswerTyped DEF BeginClose
<1>2. CASE UNCHANGED <<parser, opening, roots, pending>> /\ KeepRuntime
  BY <1>1, <1>2, Unmoved DEF BeginClose, KeepRuntime, core
<1>3. CASE BeginCloseStep
  <2>1. ClosingCall
    BY <1>1 DEF BeginClose, ClosingCall, ActorIdle, IInv, TypeOK
  <2>. QED
    BY <1>3, <2>1, BeginsClose
<1>. QED
  BY <1>2, <1>3 DEF BeginClose

LEMMA ReclaimFacts ==
    ASSUME IInv
    PROVE  Reclaimed \in 0..Work
  BY Numbers DEF Reclaimed, IInv, TypeOK

\* One unit of a closing runtime.
LEMMA RuntimeUnit ==
    ASSUME IInv, ClosingCall, parser.tag = "ClosingRuntime", CloseUnit
    PROVE  IInv'
<1>1. /\ UNCHANGED <<opening, source, roots>>
      /\ IF runtime # "closed" /\ Retiring THEN Retire ELSE UNCHANGED <<retired, pending>>
      /\ SettleRuntime
      /\ parser' = IF runtime' = "closed" THEN State("Closed", NoVersion, 0) ELSE parser
  BY DEF CloseUnit
<1>2. /\ roots = {} /\ runtime \in {"closing", "closed"} /\ source = NoVersion /\ opening.early = NoVersion
      /\ runtime = "closed" => retired = 0 /\ pending = 0
      /\ parser \in Parsers
  BY DEF IInv, TypeOK, Parsers, RuntimePhase, OwnedRoots, LoadPhase
<1>3. /\ retired' \in 0..MaxRetired + 1 /\ pending' \in 0..Work
  BY <1>1, Numbers DEF Retire, IInv, TypeOK
<1>4. /\ runtime' \in {"closing", "closed"}
      /\ runtime = "closed" => runtime' = "closed"
      /\ runtime' = "closed" => retired' = 0 /\ pending' = 0
  BY <1>1, <1>2 DEF SettleRuntime, RuntimeDrained
<1>5. /\ parser' \in Parsers
      /\ \/ parser'.tag = "ClosingRuntime"
         \/ parser'.tag = "Closed" /\ runtime' = "closed"
  <2>1. CASE runtime' = "closed"
    <3>1. parser' = State("Closed", NoVersion, 0)
      BY <1>1, <2>1
    <3>. QED
      BY <2>1, <3>1, VersionFacts, Numbers DEF State, Parsers, Tags
  <2>2. CASE runtime' # "closed"
    BY <1>1, <1>2, <2>2
  <2>. QED
    BY <2>1, <2>2
<1>6. TypeOK'
  BY <1>1, <1>3, <1>4, <1>5 DEF IInv, TypeOK, Parsers, Replies, ClosingCall
<1>7. RuntimePhase' /\ PendingPhase' /\ LoadPhase' /\ AdoptPhase' /\ CallPhase'
  BY <1>1, <1>2, <1>4, <1>5 DEF IInv, RuntimePhase, PendingPhase, LoadPhase, AdoptPhase, CallPhase, ClosingCall
<1>8. WorkIsCurrent' /\ OwnedRoots' /\ NoPageLost'
  BY <1>1, <1>2, <1>5 DEF WorkIsCurrent, OwnedRoots, NoPageLost
<1>9. BacklogBounded'
  BY <1>3, <1>4, Numbers DEF BacklogBounded
<1>. QED
  BY <1>6, <1>7, <1>8, <1>9 DEF IInv

LEMMA ClosesUnit ==
    ASSUME IInv, ClosingCall, CloseUnit
    PROVE  IInv'
<1>1. /\ UNCHANGED opening /\ opening \in Openings /\ parser \in Parsers /\ TypeOK
      /\ parser.tag \in {"ClosingClean", "ClosingAdoption", "ClosingSession", "ClosingRuntime"}
      /\ opening.early = NoVersion /\ 0 \in 0..Work /\ Work \in 0..Work
  BY Numbers DEF CloseUnit, IInv, TypeOK, Openings, Parsers, LoadPhase
<1>2. CASE parser.tag = "ClosingRuntime"
  BY <1>2, RuntimeUnit
<1>3. CASE parser.tag = "ClosingClean"
  <2>1. roots = {} /\ roots' = {} /\ runtime = "open" /\ pending \in 0..Work
    BY <1>3 DEF CloseUnit, IInv, TypeOK, OwnedRoots, RuntimePhase
  <2>2. CASE parser.left > 0
    <3>1. parser' = [parser EXCEPT !.left = @ - 1] /\ UNCHANGED pending /\ KeepRuntime
      BY <1>3, <2>2 DEF CloseUnit
    <3>2. parser' \in Parsers /\ parser'.tag = "ClosingClean"
      BY <1>1, <1>3, <2>2, <3>1, Worked
    <3>. QED
      BY <1>1, <2>1, <3>1, <3>2, ParserCloses
  <2>3. CASE ~(parser.left > 0) /\ Reclaimed = 0
    <3>1. pending' = 0 /\ CloseRuntime
      BY <1>3, <2>3 DEF CloseUnit
    <3>. QED
      BY <1>1, <2>1, <3>1, RuntimeCloses DEF CloseRuntime
  <2>4. CASE ~(parser.left > 0) /\ Reclaimed # 0
    <3>1. pending' = Reclaimed /\ UNCHANGED parser /\ KeepRuntime
      BY <1>3, <2>4 DEF CloseUnit
    <3>. QED
      BY <1>1, <1>3, <2>1, <3>1, ReclaimFacts, ParserCloses
  <2>. QED
    BY <2>2, <2>3, <2>4
<1>4. CASE parser.tag = "ClosingAdoption"
  <2>1. roots = {"base"} /\ runtime = "open" /\ KeepRuntime
    BY <1>4 DEF CloseUnit, IInv, OwnedRoots, RuntimePhase
  <2>2. CASE Reclaimed = 0
    <3>1. parser' = State("ClosingSession", NoVersion, 0) /\ roots' = roots \ {"base"} /\ pending' = Work
      BY <1>4, <2>2 DEF CloseUnit
    <3>2. parser' \in Parsers /\ parser'.tag = "ClosingSession" /\ ~parser'.next
      BY <3>1, VersionFacts, Numbers DEF State, Parsers, Tags, Closing
    <3>3. roots' = {}
      BY <2>1, <3>1
    <3>. QED
      BY <1>1, <2>1, <3>1, <3>2, <3>3, ParserCloses
  <2>3. CASE Reclaimed # 0
    <3>1. pending' = Reclaimed /\ UNCHANGED <<parser, roots>>
      BY <1>4, <2>3 DEF CloseUnit
    <3>. QED
      BY <1>1, <1>4, <2>1, <3>1, ReclaimFacts, ParserCloses
  <2>. QED
    BY <2>2, <2>3
<1>5. CASE parser.tag = "ClosingSession"
  <2>1. roots = (IF parser.next THEN {"target"} ELSE {}) /\ runtime = "open"
    BY <1>5 DEF IInv, OwnedRoots, RuntimePhase
  <2>2. CASE Reclaimed > 0
    <3>1. pending' = Reclaimed /\ UNCHANGED <<parser, roots>> /\ KeepRuntime
      BY <1>5, <2>2 DEF CloseUnit
    <3>. QED
      BY <1>1, <1>5, <2>1, <3>1, ReclaimFacts, ParserCloses
  <2>3. CASE ~(Reclaimed > 0) /\ parser.next
    <3>1. /\ parser' = [parser EXCEPT !.next = FALSE] /\ roots' = roots \ {"target"}
          /\ pending' = Work /\ KeepRuntime
      BY <1>5, <2>3 DEF CloseUnit
    <3>2. parser' \in Parsers /\ parser'.tag = "ClosingSession" /\ ~parser'.next
      BY <1>1, <1>5, <3>1 DEF Parsers
    <3>3. roots' = {}
      BY <2>1, <2>3, <3>1
    <3>. QED
      BY <1>1, <2>1, <3>1, <3>2, <3>3, ParserCloses
  <2>4. CASE ~(Reclaimed > 0) /\ ~parser.next
    <3>1. pending' = 0 /\ UNCHANGED roots /\ CloseRuntime
      BY <1>5, <2>4 DEF CloseUnit
    <3>. QED
      BY <1>1, <2>1, <2>4, <3>1, RuntimeCloses DEF CloseRuntime
  <2>. QED
    BY <2>2, <2>3, <2>4
<1>. QED
  BY <1>1, <1>2, <1>3, <1>4, <1>5

LEMMA PumpCloseStep ==
    ASSUME IInv, PumpClose
    PROVE  IInv'
<1>1. CASE parser.tag \in Closing
  <2>1. CloseUnit /\ ClosingCall
    BY <1>1, AnswerTyped DEF PumpClose, ClosingCall, ActorIdle, IInv, TypeOK
  <2>. QED
    BY <2>1, ClosesUnit
<1>2. CASE parser.tag \notin Closing
  BY <1>2, AnswerTyped, Unmoved DEF PumpClose, KeepRuntime, core
<1>. QED
  BY <1>1, <1>2

-----------------------------------------------------------------------------
(* The actor.                                                              *)

LEMMA QueryStep ==
    ASSUME IInv, Query
    PROVE  IInv'
<1>1. parser.of \in Version /\ opening.early \in Version
  BY DEF IInv, TypeOK
<1>2. reply' \in Replies
  BY <1>1, VersionFacts DEF Query, Replies
<1>. QED
  BY <1>2, Unmoved DEF Query, core

LEMMA ActorStep ==
    ASSUME IInv, Contained \/ Shutdown \/ CallEmpty
    PROVE  IInv'
<1>1. UNCHANGED core /\ UNCHANGED <<edits, dropped>>
  BY DEF Contained, Shutdown, CallEmpty, core
<1>2. reply' \in Replies
  BY AnswerTyped DEF Contained, Shutdown, CallEmpty, IInv, TypeOK, Replies
<1>3. actor' \in {"running", "discard", "draining", "empty", "down"}
  BY DEF Contained, Shutdown, CallEmpty, IInv, TypeOK
<1>4. CallsKeep
  BY <1>1, <1>2, <1>3, Numbers DEF CallsKeep, IInv, TypeOK, CallPhase, core
<1>. QED
  BY <1>1, <1>4, CoreKept

LEMMA DiscardStep ==
    ASSUME IInv, DiscardBegin \/ DiscardPump
    PROVE  IInv'
<1>1. /\ UNCHANGED <<reply, edits>> /\ reply' \in Replies
      /\ actor' \in {"running", "discard", "draining", "empty", "down"}
  BY DEF DiscardBegin, DiscardPump, IInv, TypeOK, Replies
<1>2. CASE /\ UNCHANGED <<parser, opening, roots, pending>> /\ KeepRuntime
           /\ dropped' \in {"drained", "bare"} /\ (dropped' = "drained" => Drained \/ parser.tag = "Closed")
  <2>1. dropped' = "drained" => runtime' = "closed"
    BY <1>2 DEF Drained, KeepRuntime, IInv, RuntimePhase
  <2>2. CallsKeep
    BY <1>1, <1>2, <2>1, Numbers DEF CallsKeep, IInv, TypeOK
  <2>. QED
    BY <1>2, <2>2, CoreKept DEF KeepRuntime, core
<1>3. CASE (BeginCloseStep \/ CloseUnit) /\ UNCHANGED dropped
  BY <1>1, <1>3, BeginsClose, ClosesUnit DEF ClosingCall
<1>. QED
  BY <1>2, <1>3 DEF DiscardBegin, DiscardPump

-----------------------------------------------------------------------------
(* The theorems.                                                           *)

LEMMA InitHolds == Init => IInv
<1>. SUFFICES ASSUME Init PROVE IInv
  OBVIOUS
<1>1. First \in Version /\ First.rev = 1 /\ First.pages = 0 /\ First # NoVersion
  BY Numbers DEF First, Version, NoVersion
<1>2. NoLoad \in Openings /\ NoLoad.early = NoVersion /\ NoLoad.pages = 0 /\ NoLoad.adopted = 0
      /\ ~NoLoad.sealed /\ ~NoLoad.finalizing
  BY Numbers, VersionFacts DEF NoLoad, Openings
<1>3. /\ parser \in Parsers
      /\ \/ parser.tag = "Clean" /\ parser.of = First /\ parser.left = Work /\ roots = {"build"}
         \/ parser.tag = "Opening" /\ roots = {}
  <2>1. CASE parser = State("Clean", First, Work) /\ roots = {"build"}
    BY <1>1, <2>1, Numbers DEF State, Parsers, Tags
  <2>2. CASE parser = State("Opening", First, 0) /\ roots = {}
    BY <1>1, <2>2, Numbers DEF State, Parsers, Tags
  <2>. QED
    BY <2>1, <2>2 DEF Init
<1>4. TypeOK
  BY <1>1, <1>2, <1>3, Numbers, VersionFacts DEF Init, TypeOK, Parsers, Openings, Roots
<1>5. RuntimePhase /\ PendingPhase /\ LoadPhase /\ AdoptPhase /\ CallPhase
  BY <1>1, <1>2, <1>3 DEF Init, RuntimePhase, PendingPhase, LoadPhase, AdoptPhase, CallPhase
<1>6. WorkIsCurrent /\ OwnedRoots /\ NoPageLost /\ BacklogBounded
  BY <1>1, <1>2, <1>3, Numbers DEF Init, WorkIsCurrent, OwnedRoots, NoPageLost, BacklogBounded
<1>. QED
  BY <1>4, <1>5, <1>6 DEF IInv

LEMMA Inductive == IInv /\ [Next]_vars => IInv'
<1>. SUFFICES ASSUME IInv, [Next]_vars PROVE IInv'
  OBVIOUS
<1>1. CASE UNCHANGED vars
  <2>1. UNCHANGED core /\ UNCHANGED edits /\ ActorIdle /\ reply' \in Replies
    BY <1>1 DEF vars, core, ActorIdle, IInv, TypeOK, Replies
  <2>. QED
    BY <2>1, Unmoved
<1>2. CASE PumpPanics
  BY <1>2, PanicsStep DEF PumpPanics
<1>. QED
  BY <1>1, <1>2, PumpStep, PumpErrorStep, AppendPageStep, SealOpeningStep, EditStep, QueryStep,
     BeginCloseStepKeeps, PumpCloseStep, ActorStep, DiscardStep DEF Next

LEMMA Invariant == Spec => []IInv
  BY InitHolds, Inductive, PTL DEF Spec

\* In every phase of a parse, a load or a close, whatever fails: the parser
\* works on the current source, the roots of the arena are those the parser
\* will release, no admitted page is missing and the backlog stays bounded.
THEOREM DocumentSound == Spec => []DocumentInv
<1>1. IInv => DocumentInv
  BY DEF IInv, DocumentInv
<1>. QED
  BY <1>1, Invariant, PTL

\* A session that reports Closed, or that the actor drained before it dropped
\* it, has given back its source, its leases, its reclaims and its roots.
THEOREM ClosedDrained == Spec => []ClosedIsDrained
<1>1. IInv => ClosedIsDrained
  BY DEF IInv, ClosedIsDrained, RuntimePhase, CallPhase
<1>. QED
  BY <1>1, Invariant, PTL

-----------------------------------------------------------------------------
(* What a caller is told.                                                  *)

\* A step that answers something else than a view, or whose actor is not there.
LEMMA SaysNoView ==
    ASSUME NEW what \in {"none", "ok", "refused", "fault", "panicked"}, Say(what)
    PROVE  reply'.is = what
  BY DEF Say

LEMMA ViewsTrue ==
    ASSUME IInv, Next
    PROVE  ViewIsCurrent
<1>1. CASE Query
  <2>1. UNCHANGED <<source, parser, opening, runtime>>
    BY <1>1 DEF Query
  <2>2. CASE parser.tag = "Ready"
    <3>1. reply'.of = parser.of /\ parser.of = source /\ source.rev > 0
      BY <1>1, <2>2 DEF Query, IInv, WorkIsCurrent, RuntimePhase
    <3>. QED
      BY <2>1, <3>1, VersionFacts DEF ViewIsCurrent
  <2>3. CASE parser.tag # "Ready"
    BY <1>1, <2>1, <2>3 DEF Query, ViewIsCurrent
  <2>. QED
    BY <2>2, <2>3
<1>2. CASE Shutdown \/ DiscardBegin \/ DiscardPump
  BY <1>2 DEF Shutdown, DiscardBegin, DiscardPump, Running, ViewIsCurrent
<1>3. CASE Pump \/ PumpError \/ PumpClosing \/ PumpPanics
  BY <1>3, SaysNoView DEF Pump, PumpError, PumpClosing, PumpPanics, Fails, Panics, PumpClean, PumpCancellingClean,
     PumpAdopting, PumpReleasing, PumpOpening, ViewIsCurrent
<1>4. CASE AppendPage \/ SealOpening \/ BeginClose \/ PumpClose \/ Contained \/ CallEmpty
  BY <1>4, SaysNoView DEF AppendPage, SealOpening, BeginClose, PumpClose, Contained, CallEmpty, ViewIsCurrent
<1>5. ASSUME NEW expected, Edit(expected) PROVE ViewIsCurrent
  BY <1>5, SaysNoView DEF Edit, EditAt, EditOpening, EditReady, EditBuilding, EditSource, ViewIsCurrent
<1>. QED
  BY <1>1, <1>2, <1>3, <1>4, <1>5 DEF Next

\* The runtime takes an edit as a whole or not at all.
LEMMA SourceAtomic ==
    ASSUME IInv, EditSource, source.pages = opening.pages
    PROVE  EditIsAtomic
<1>1. CASE source' = NextRevision /\ Say("ok")
  <2>1. NextRevision = [rev |-> source.rev + 1, pages |-> opening.pages]
    BY DEF NextRevision, IInv, TypeOK, Version
  <2>. QED
    BY <1>1, <2>1, SaysNoView DEF EditIsAtomic
<1>2. CASE UNCHANGED source /\ Say("refused")
  BY <1>2, SaysNoView DEF EditIsAtomic
<1>. QED
  BY <1>1, <1>2 DEF EditSource

LEMMA EditsAtomic ==
    ASSUME IInv, Next
    PROVE  EditIsAtomic
<1>1. ASSUME NEW expected, Edit(expected) PROVE EditIsAtomic
  <2>1. CASE EditKeeps /\ (Say("refused") \/ Say("fault"))
    BY <2>1, SaysNoView DEF EditKeeps, EditIsAtomic
  <2>2. CASE parser.tag = "Opening" /\ EditOpening
    BY <2>2, SaysNoView DEF EditOpening, EditKeeps, EditIsAtomic
  <2>3. CASE (parser.tag = "Ready" /\ EditReady) \/ EditBuilding
    <3>1. EditSource /\ source.pages = opening.pages
      BY <2>3 DEF EditReady, EditBuilding, IInv, NoPageLost
    <3>. QED
      BY <3>1, SourceAtomic
  <2>. QED
    BY <1>1, <2>1, <2>2, <2>3 DEF Edit, EditAt
<1>2. CASE Pump \/ PumpError \/ PumpClosing \/ PumpPanics
  BY <1>2 DEF Pump, PumpError, PumpClosing, PumpPanics, Fails, Panics, EditIsAtomic
<1>3. CASE AppendPage \/ SealOpening \/ BeginClose \/ PumpClose \/ Contained \/ CallEmpty \/ Query
           \/ Shutdown \/ DiscardBegin \/ DiscardPump
  BY <1>3 DEF AppendPage, SealOpening, BeginClose, PumpClose, Contained, CallEmpty, Query, Shutdown, DiscardBegin,
     DiscardPump, EditIsAtomic
<1>. QED
  BY <1>1, <1>2, <1>3 DEF Next

\* A view that query_viewport gives is of the source as it is at that moment,
\* and an edit that apply_edit accepts is the next revision of the text with
\* every admitted page, while a refused one changes nothing of it.
THEOREM AnswersTrue == Spec => AnswersAreTrue
<1>1. IInv /\ [Next]_vars => [ViewIsCurrent /\ EditIsAtomic]_vars
  BY ViewsTrue, EditsAtomic
<1>. QED
  BY <1>1, Invariant, PTL DEF Spec, AnswersAreTrue

=============================================================================
