------------------------ MODULE SharedBackendProofs ------------------------
(***************************************************************************)
(* Proofs about the shared parser, for any finite number of leases and     *)
(* loads: the counter of holders is exact, a held parser is never          *)
(* disposed, at most one parser is alive, and LeaseContract is kept.       *)
(***************************************************************************)
EXTENDS SharedBackend, FiniteSetTheorems, SequenceTheorems, TLAPS

Live(l) == load[l] \in {"loading", "loaded"}

\* The queues hold exactly the waiting leases, each once, at its load.
QueuesExact ==
    /\ \A l \in Loads : \A i \in 1 .. Len(queue[l]) :
          lease[queue[l][i]] = "waiting" /\ of[queue[l][i]] = l
    /\ \A l \in Loads : \A i, j \in 1 .. Len(queue[l]) :
          queue[l][i] = queue[l][j] => i = j
    /\ \A c \in Leases : lease[c] = "waiting" =>
          /\ of[c] \in Loads
          /\ load[of[c]] \in {"loading", "loaded", "failed"}
          /\ \E i \in 1 .. Len(queue[of[c]]) : queue[of[c]][i] = c

\* Somebody waits for every load in progress.
LoadingAwaited == \A l \in Loads : load[l] = "loading" => queue[l] # <<>>

\* Once a parser is loaded, every earlier failure has been handed out: this
\* is what keeps a waiter of a failed load from being taken for a holder of
\* the parser.
FailuresHandedOut ==
    \A l, m \in Loads : load[l] = "loaded" /\ load[m] = "failed" => queue[m] = <<>>

HeldLive == \A c \in Leases : lease[c] = "held" =>
               of[c] \in Loads /\ load[of[c]] = "loaded" /\ parser = of[c]

LiveIsParser == \A l \in Loads : Live(l) <=> parser = l

LiveClaimed == \A l \in Loads : Live(l) => \E c \in Claims : of[c] = l

IInv == /\ TypeOK
        /\ HoldersExact
        /\ QueuesExact
        /\ LoadingAwaited
        /\ FailuresHandedOut
        /\ HeldLive
        /\ LiveIsParser
        /\ LiveClaimed

-----------------------------------------------------------------------------

LEMMA ClaimsFinite == IsFiniteSet(Claims) /\ Cardinality(Claims) \in Nat
<1>1. Claims \in SUBSET Leases
  BY DEF Claims
<1>2. IsFiniteSet(Claims)
  BY <1>1, LeasesAssumption, FS_Subset
<1>. QED
  BY <1>2, FS_CardinalityType

\* The head of a queue: the lease that is resumed next.
LEMMA HeadOfQueue ==
    ASSUME TypeOK, QueuesExact, NEW l \in Loads, queue[l] # <<>>
    PROVE  /\ Head(queue[l]) \in Leases
           /\ lease[Head(queue[l])] = "waiting"
           /\ of[Head(queue[l])] = l
           /\ Tail(queue[l]) \in Seq(Leases)
           /\ Len(Tail(queue[l])) = Len(queue[l]) - 1
           /\ Len(queue[l]) \in Nat \ {0}
           /\ queue[l][1] = Head(queue[l])
           /\ \A i \in 1 .. Len(Tail(queue[l])) :
                 i + 1 \in 1 .. Len(queue[l]) /\ Tail(queue[l])[i] = queue[l][i + 1]
<1>1. queue[l] \in Seq(Leases)
  BY DEF TypeOK
<1>2. Len(queue[l]) \in Nat \ {0}
  BY <1>1, EmptySeq
<1>3. /\ Head(queue[l]) \in Leases /\ Tail(queue[l]) \in Seq(Leases)
      /\ Len(Tail(queue[l])) = Len(queue[l]) - 1
      /\ \A i \in 1 .. Len(Tail(queue[l])) : Tail(queue[l])[i] = queue[l][i + 1]
  BY <1>1, HeadTailProperties
<1>4. Head(queue[l]) = queue[l][1] /\ 1 \in 1 .. Len(queue[l])
  BY <1>1, <1>2
<1>5. lease[Head(queue[l])] = "waiting" /\ of[Head(queue[l])] = l
  BY <1>4 DEF QueuesExact
<1>6. \A i \in 1 .. Len(Tail(queue[l])) : i + 1 \in 1 .. Len(queue[l])
  BY <1>2, <1>3
<1>. QED
  BY <1>2, <1>3, <1>4, <1>5, <1>6

\* Taking the head off a queue leaves the others where they are.
LEMMA Dequeued ==
    ASSUME TypeOK, QueuesExact, NEW l \in Loads, queue[l] # <<>>,
           queue' = [queue EXCEPT ![l] = Tail(@)],
           of' = of,
           NEW s, s # "waiting",
           lease' = [lease EXCEPT ![Head(queue[l])] = s],
           \A m \in Loads : load[m] \in {"loading", "loaded", "failed"} =>
                               load'[m] \in {"loading", "loaded", "failed"}
    PROVE  QueuesExact'
<1>. DEFINE c == Head(queue[l])
<1>1. /\ c \in Leases /\ lease[c] = "waiting" /\ of[c] = l
      /\ queue[l][1] = c /\ Len(queue[l]) \in Nat \ {0}
      /\ Len(Tail(queue[l])) = Len(queue[l]) - 1
      /\ \A i \in 1 .. Len(Tail(queue[l])) :
            i + 1 \in 1 .. Len(queue[l]) /\ Tail(queue[l])[i] = queue[l][i + 1]
  BY HeadOfQueue
<1>2. /\ queue'[l] = Tail(queue[l])
      /\ \A m \in Loads : m # l => queue'[m] = queue[m]
  BY DEF TypeOK
<1>3. /\ lease'[c] = s
      /\ \A d \in Leases : d # c => lease'[d] = lease[d]
  BY <1>1 DEF TypeOK
<1>. HIDE DEF c
<1>4. ASSUME NEW m \in Loads, NEW i \in 1 .. Len(queue'[m])
      PROVE  lease'[queue'[m][i]] = "waiting" /\ of'[queue'[m][i]] = m
  <2>1. CASE m = l
    <3>0. i \in 1 .. Len(Tail(queue[l])) /\ queue'[m][i] = Tail(queue[l])[i]
      BY <1>2, <2>1
    <3>1. i + 1 \in 1 .. Len(queue[l]) /\ queue'[m][i] = queue[l][i + 1]
      BY <1>1, <3>0
    <3>2. queue[l][i + 1] # c
      <4>1. i + 1 # 1 /\ 1 \in 1 .. Len(queue[l])
        BY <1>1
      <4>2. \A j, k \in 1 .. Len(queue[l]) : queue[l][j] = queue[l][k] => j = k
        BY DEF QueuesExact
      <4>3. queue[l][i + 1] # queue[l][1]
        BY <3>1, <4>1, <4>2
      <4>. QED
        BY <1>1, <4>3
    <3>3. queue[l][i + 1] \in Leases
      BY <3>1, ElementOfSeq DEF TypeOK
    <3>. QED
      BY <1>3, <2>1, <3>1, <3>2, <3>3 DEF QueuesExact
  <2>2. CASE m # l
    <3>1. queue'[m][i] = queue[m][i] /\ i \in 1 .. Len(queue[m])
      BY <1>2, <2>2
    <3>2. of[queue[m][i]] = m /\ lease[queue[m][i]] = "waiting"
      BY <3>1 DEF QueuesExact
    <3>3. queue[m][i] \in Leases
      BY <3>1, ElementOfSeq DEF TypeOK
    <3>. QED
      BY <1>1, <1>3, <2>2, <3>1, <3>2, <3>3
  <2>. QED
    BY <2>1, <2>2
<1>5. ASSUME NEW m \in Loads, NEW i \in 1 .. Len(queue'[m]), NEW j \in 1 .. Len(queue'[m]),
             queue'[m][i] = queue'[m][j]
      PROVE  i = j
  <2>1. CASE m = l
    <3>1. /\ i + 1 \in 1 .. Len(queue[l]) /\ queue'[m][i] = queue[l][i + 1]
          /\ j + 1 \in 1 .. Len(queue[l]) /\ queue'[m][j] = queue[l][j + 1]
      <4>1. /\ i \in 1 .. Len(Tail(queue[l])) /\ queue'[m][i] = Tail(queue[l])[i]
            /\ j \in 1 .. Len(Tail(queue[l])) /\ queue'[m][j] = Tail(queue[l])[j]
        BY <1>2, <2>1
      <4>. QED
        BY <1>1, <4>1
    <3>2. i + 1 = j + 1
      BY <1>5, <3>1 DEF QueuesExact
    <3>. QED
      BY <1>1, <1>2, <2>1, <3>2
  <2>2. CASE m # l
    BY <1>2, <1>5, <2>2 DEF QueuesExact
  <2>. QED
    BY <2>1, <2>2
<1>6. ASSUME NEW d \in Leases, lease'[d] = "waiting"
      PROVE  /\ of'[d] \in Loads
             /\ load'[of'[d]] \in {"loading", "loaded", "failed"}
             /\ \E i \in 1 .. Len(queue'[of'[d]]) : queue'[of'[d]][i] = d
  <2>1. d # c /\ lease[d] = "waiting"
    BY <1>3, <1>6
  <2>2. /\ of[d] \in Loads
        /\ load[of[d]] \in {"loading", "loaded", "failed"}
    BY <2>1 DEF QueuesExact
  <2>3. PICK i \in 1 .. Len(queue[of[d]]) : queue[of[d]][i] = d
    BY <2>1 DEF QueuesExact
  <2>4. CASE of[d] = l
    <3>1. i # 1
      BY <1>1, <2>1, <2>3, <2>4
    <3>2. i - 1 \in 1 .. Len(Tail(queue[l])) /\ (i - 1) + 1 = i
      BY <1>1, <2>3, <2>4, <3>1
    <3>3. Tail(queue[l])[i - 1] = d
      BY <1>1, <2>3, <2>4, <3>2
    <3>. QED
      BY <1>2, <2>2, <2>4, <3>2, <3>3
  <2>5. CASE of[d] # l
    BY <1>2, <2>2, <2>3, <2>5
  <2>. QED
    BY <2>4, <2>5
<1>. QED
  BY <1>4, <1>5, <1>6 DEF QueuesExact

-----------------------------------------------------------------------------
(* Asking for a lease.                                                     *)

LEMMA AwaitKeeps ==
    ASSUME IInv, NEW c \in Leases, NEW l \in Loads, lease[c] = "idle", Await(c, l),
           parser' = l,
           load' \in [Loads -> {"unused", "loading", "loaded", "failed", "disposed"}],
           \A m \in Loads : m # l => load'[m] = load[m],
           load'[l] \in {"loading", "loaded"},
           load'[l] = "loaded" <=> load[l] = "loaded",
           \A m \in Loads : m # l => ~Live(m)
    PROVE  IInv'
<1>. USE DEF IInv
<1>1. /\ lease' = [lease EXCEPT ![c] = "waiting"]
      /\ of' = [of EXCEPT ![c] = l]
      /\ queue' = [queue EXCEPT ![l] = Append(queue[l], c)]
      /\ holders' = holders + 1
  BY DEF Await
<1>2. queue[l] \in Seq(Leases)
  BY DEF TypeOK
<1>3. /\ Append(queue[l], c) \in Seq(Leases)
      /\ Append(queue[l], c) # <<>>
      /\ Len(Append(queue[l], c)) = Len(queue[l]) + 1
      /\ \A i \in 1 .. Len(queue[l]) : Append(queue[l], c)[i] = queue[l][i]
      /\ Append(queue[l], c)[Len(queue[l]) + 1] = c
      /\ Len(queue[l]) \in Nat
  BY <1>2, AppendProperties
<1>4. /\ lease'[c] = "waiting" /\ of'[c] = l
      /\ \A d \in Leases : d # c => lease'[d] = lease[d] /\ of'[d] = of[d]
      /\ queue'[l] = Append(queue[l], c)
      /\ \A m \in Loads : m # l => queue'[m] = queue[m]
  BY <1>1 DEF TypeOK
<1>5. TypeOK'
  BY <1>1, <1>3 DEF TypeOK
<1>6. HoldersExact'
  <2>1. Claims' = Claims \cup {c} /\ c \notin Claims
    BY <1>4 DEF Claims
  <2>2. Cardinality(Claims \cup {c}) = Cardinality(Claims) + 1
    BY <2>1, ClaimsFinite, FS_AddElement
  <2>. QED
    BY <1>1, <2>1, <2>2 DEF HoldersExact
<1>7. QueuesExact'
  <2>1. ASSUME NEW m \in Loads, NEW i \in 1 .. Len(queue[m])
        PROVE  queue[m][i] # c /\ queue[m][i] \in Leases
    <3>1. queue[m] \in Seq(Leases)
      BY DEF TypeOK
    <3>. QED
      BY <3>1, ElementOfSeq DEF QueuesExact
  <2>2. ASSUME NEW m \in Loads, NEW i \in 1 .. Len(queue'[m])
        PROVE  /\ lease'[queue'[m][i]] = "waiting" /\ of'[queue'[m][i]] = m
               /\ \/ i \in 1 .. Len(queue[m]) /\ queue'[m][i] = queue[m][i]
                  \/ m = l /\ i = Len(queue[l]) + 1 /\ queue'[m][i] = c
    <3>1. CASE i \in 1 .. Len(queue[m])
      <4>1. queue'[m][i] = queue[m][i]
        BY <1>3, <1>4, <3>1
      <4>2. lease[queue[m][i]] = "waiting" /\ of[queue[m][i]] = m
        BY <3>1 DEF QueuesExact
      <4>3. queue[m][i] # c /\ queue[m][i] \in Leases
        BY <2>1, <3>1
      <4>. QED
        BY <1>4, <3>1, <4>1, <4>2, <4>3
    <3>2. CASE i \notin 1 .. Len(queue[m])
      <4>1. m = l /\ i = Len(queue[l]) + 1
        BY <1>3, <1>4, <3>2
      <4>. QED
        BY <1>3, <1>4, <4>1
    <3>. QED
      BY <3>1, <3>2
  <2>3. ASSUME NEW m \in Loads, NEW i \in 1 .. Len(queue'[m]), NEW j \in 1 .. Len(queue'[m]),
               queue'[m][i] = queue'[m][j]
        PROVE  i = j
    <3>1. CASE i \in 1 .. Len(queue[m]) /\ queue'[m][i] = queue[m][i]
      <4>0. queue'[m][j] # c
        BY <2>1, <2>3, <3>1
      <4>1. j \in 1 .. Len(queue[m]) /\ queue'[m][j] = queue[m][j]
        BY <2>2, <4>0
      <4>2. queue[m][i] = queue[m][j]
        BY <2>3, <3>1, <4>1
      <4>. QED
        BY <3>1, <4>1, <4>2 DEF QueuesExact
    <3>2. CASE m = l /\ i = Len(queue[l]) + 1 /\ queue'[m][i] = c
      <4>1. m = l /\ j = Len(queue[l]) + 1
        BY <2>1, <2>2, <2>3, <3>2
      <4>. QED
        BY <3>2, <4>1
    <3>. QED
      BY <2>2, <3>1, <3>2
  <2>4. ASSUME NEW d \in Leases, lease'[d] = "waiting"
        PROVE  /\ of'[d] \in Loads
               /\ load'[of'[d]] \in {"loading", "loaded", "failed"}
               /\ \E i \in 1 .. Len(queue'[of'[d]]) : queue'[of'[d]][i] = d
    <3>1. CASE d = c
      <4>1. Len(queue[l]) + 1 \in 1 .. Len(queue'[l]) /\ queue'[l][Len(queue[l]) + 1] = c
        BY <1>3, <1>4
      <4>. QED
        BY <1>4, <3>1, <4>1
    <3>2. CASE d # c
      <4>1. lease[d] = "waiting" /\ of'[d] = of[d]
        BY <1>4, <2>4, <3>2
      <4>2. /\ of[d] \in Loads
            /\ load[of[d]] \in {"loading", "loaded", "failed"}
        BY <4>1 DEF QueuesExact
      <4>3. PICK i \in 1 .. Len(queue[of[d]]) : queue[of[d]][i] = d
        BY <4>1 DEF QueuesExact
      <4>4. load'[of[d]] \in {"loading", "loaded", "failed"}
        BY <4>2
      <4>5. i \in 1 .. Len(queue'[of[d]]) /\ queue'[of[d]][i] = d
        BY <1>3, <1>4, <4>2, <4>3
      <4>. QED
        BY <4>1, <4>2, <4>4, <4>5
    <3>. QED
      BY <3>1, <3>2
  <2>. QED
    BY <2>2, <2>3, <2>4 DEF QueuesExact
<1>8. LoadingAwaited'
  BY <1>3, <1>4 DEF LoadingAwaited
<1>9. FailuresHandedOut'
  BY <1>4 DEF FailuresHandedOut
<1>10. HeldLive'
  <2>1. ASSUME NEW d \in Leases, lease'[d] = "held"
        PROVE  of'[d] \in Loads /\ load'[of'[d]] = "loaded" /\ parser' = of'[d]
    <3>1. d # c /\ lease[d] = "held" /\ of'[d] = of[d]
      BY <1>4, <2>1
    <3>2. of[d] \in Loads /\ load[of[d]] = "loaded"
      BY <3>1 DEF HeldLive
    <3>3. of[d] = l
      BY <3>2 DEF Live
    <3>. QED
      BY <3>1, <3>2, <3>3
  <2>. QED
    BY <2>1 DEF HeldLive
<1>11. LiveIsParser'
  BY DEF LiveIsParser, Live
<1>12. LiveClaimed'
  <2>1. c \in Claims' /\ of'[c] = l
    BY <1>4 DEF Claims
  <2>2. \A m \in Loads : Live(m)' => m = l
    BY DEF Live
  <2>. QED
    BY <2>1, <2>2 DEF LiveClaimed
<1>. QED
  BY <1>5, <1>6, <1>7, <1>8, <1>9, <1>10, <1>11, <1>12

LEMMA LeaseLoadedKeeps ==
    ASSUME IInv, NEW c \in Leases, LeaseLoaded(c)
    PROVE  IInv'
<1>1. parser \in Loads /\ Live(parser) /\ \A m \in Loads : m # parser => ~Live(m)
  BY DEF IInv, TypeOK, LiveIsParser, LeaseLoaded
<1>2. load[parser] \in {"loading", "loaded"}
  BY <1>1 DEF Live
<1>. QED
  BY <1>1, <1>2, AwaitKeeps DEF LeaseLoaded, IInv, TypeOK

LEMMA LeaseLoadsKeeps ==
    ASSUME IInv, NEW c \in Leases, NEW l \in Loads, LeaseLoads(c, l)
    PROVE  IInv'
<1>1. parser = None /\ None \notin Loads
  BY LoadsAssumption DEF LeaseLoads, Loads
<1>2. \A m \in Loads : ~Live(m)
  BY <1>1 DEF IInv, LiveIsParser
<1>3. /\ load' = [load EXCEPT ![l] = "loading"] /\ load[l] = "unused"
      /\ lease[c] = "idle" /\ Await(c, l) /\ parser' = l
  BY DEF LeaseLoads
<1>4. /\ load' \in [Loads -> {"unused", "loading", "loaded", "failed", "disposed"}]
      /\ load'[l] = "loading"
      /\ \A m \in Loads : m # l => load'[m] = load[m]
  BY <1>3 DEF IInv, TypeOK
<1>. QED
  BY <1>2, <1>3, <1>4, AwaitKeeps

\* A call that fails at once was no claim and is none.
LEMMA LoaderThrowsKeeps ==
    ASSUME IInv, NEW c \in Leases, LoaderThrows(c)
    PROVE  IInv'
<1>. USE DEF IInv
<1>1. /\ lease[c] = "idle" /\ lease' = [lease EXCEPT ![c] = "failed"]
      /\ UNCHANGED <<parser, holders, load, of, queue>>
  BY DEF LoaderThrows
<1>2. /\ lease'[c] = "failed"
      /\ \A d \in Leases : d # c => lease'[d] = lease[d]
  BY <1>1 DEF TypeOK
<1>3. TypeOK'
  BY <1>1 DEF TypeOK
<1>4. Claims' = Claims
  BY <1>1, <1>2 DEF Claims
<1>5. HoldersExact'
  BY <1>1, <1>4 DEF HoldersExact
<1>6. QueuesExact'
  <2>1. ASSUME NEW m \in Loads, NEW i \in 1 .. Len(queue[m])
        PROVE  lease'[queue[m][i]] = "waiting"
    <3>1. queue[m][i] \in Leases
      BY ElementOfSeq DEF TypeOK
    <3>. QED
      BY <1>1, <1>2, <3>1 DEF QueuesExact
  <2>2. \A d \in Leases : lease'[d] = "waiting" => lease[d] = "waiting"
    BY <1>2
  <2>. QED
    BY <1>1, <2>1, <2>2 DEF QueuesExact
<1>7. LoadingAwaited' /\ FailuresHandedOut' /\ LiveIsParser'
  BY <1>1 DEF LoadingAwaited, FailuresHandedOut, LiveIsParser, Live
<1>8. HeldLive'
  BY <1>1, <1>2 DEF HeldLive
<1>9. LiveClaimed'
  BY <1>1, <1>4 DEF LiveClaimed, Live
<1>. QED
  BY <1>3, <1>5, <1>6, <1>7, <1>8, <1>9

-----------------------------------------------------------------------------
(* Going on after the load.                                                *)

\* The oldest waiter of l receives the parser.
LEMMA LentKeeps ==
    ASSUME IInv, NEW l \in Loads, queue[l] # <<>>,
           Lent(Head(queue[l])),
           queue' = [queue EXCEPT ![l] = Tail(@)],
           UNCHANGED of,
           load' = [load EXCEPT ![l] = "loaded"],
           load[l] \in {"loading", "loaded"},
           \A m \in Loads : load[m] = "failed" => queue[m] = <<>>
    PROVE  IInv'
<1>. USE DEF IInv
<1>. DEFINE c == Head(queue[l])
<1>1. /\ c \in Leases /\ lease[c] = "waiting" /\ of[c] = l
      /\ Tail(queue[l]) \in Seq(Leases)
  BY HeadOfQueue
<1>2. lease' = [lease EXCEPT ![c] = "held"] /\ UNCHANGED <<parser, holders>>
  BY DEF Lent
<1>3. /\ lease'[c] = "held"
      /\ \A d \in Leases : d # c => lease'[d] = lease[d]
      /\ load'[l] = "loaded"
      /\ \A m \in Loads : m # l => load'[m] = load[m]
      /\ \A m \in Loads : m # l => queue'[m] = queue[m]
  BY <1>1, <1>2 DEF TypeOK
<1>. HIDE DEF c
<1>4. TypeOK'
  BY <1>1, <1>2 DEF TypeOK
<1>5. Claims' = Claims
  BY <1>1, <1>3 DEF Claims
<1>6. HoldersExact'
  BY <1>2, <1>5 DEF HoldersExact
<1>7. QueuesExact'
  <2>1. \A m \in Loads : load[m] \in {"loading", "loaded", "failed"} =>
                             load'[m] \in {"loading", "loaded", "failed"}
    BY <1>3
  <2>. QED
    BY <1>2, <2>1, Dequeued DEF c
<1>8. \A m \in Loads : Live(m)' <=> Live(m)
  BY <1>3 DEF Live
<1>9. LiveIsParser' /\ parser = l
  BY <1>2, <1>8 DEF LiveIsParser, Live
<1>10. LoadingAwaited'
  BY <1>3 DEF LoadingAwaited
<1>11. FailuresHandedOut'
  BY <1>3 DEF FailuresHandedOut
<1>12. HeldLive'
  BY <1>1, <1>2, <1>3, <1>9 DEF HeldLive
<1>13. LiveClaimed'
  BY <1>5, <1>8 DEF LiveClaimed
<1>. QED
  BY <1>4, <1>6, <1>7, <1>9, <1>10, <1>11, <1>12, <1>13

\* The oldest waiter of l is refused; nothing is loaded at that moment.
LEMMA RefusedKeeps ==
    ASSUME IInv, NEW l \in Loads, queue[l] # <<>>,
           Refused(Head(queue[l]), l),
           queue' = [queue EXCEPT ![l] = Tail(@)],
           UNCHANGED of,
           load' = [load EXCEPT ![l] = "failed"],
           load[l] \in {"loading", "failed"}
    PROVE  IInv' /\ \A m \in Loads : load[m] # "loaded" /\ load'[m] # "loaded"
<1>. USE DEF IInv
<1>. DEFINE c == Head(queue[l])
<1>1. /\ c \in Leases /\ lease[c] = "waiting" /\ of[c] = l
      /\ Tail(queue[l]) \in Seq(Leases)
  BY HeadOfQueue
<1>2. /\ lease' = [lease EXCEPT ![c] = "failed"] /\ holders' = holders - 1
      /\ parser' = IF parser = l THEN None ELSE parser
  BY DEF Refused
<1>3. /\ lease'[c] = "failed"
      /\ \A d \in Leases : d # c => lease'[d] = lease[d]
      /\ load'[l] = "failed"
      /\ \A m \in Loads : m # l => load'[m] = load[m]
      /\ \A m \in Loads : m # l => queue'[m] = queue[m]
  BY <1>1, <1>2 DEF TypeOK
<1>4. \A m \in Loads : load[m] # "loaded"
  <2>1. CASE load[l] = "loading"
    <3>1. Live(l) /\ parser = l
      BY <2>1 DEF LiveIsParser, Live
    <3>. QED
      BY <2>1, <3>1 DEF LiveIsParser, Live
  <2>2. CASE load[l] = "failed"
    BY <2>2 DEF FailuresHandedOut
  <2>. QED
    BY <2>1, <2>2
<1>. HIDE DEF c
<1>5. Claims' = Claims \ {c} /\ c \in Claims
  BY <1>1, <1>3 DEF Claims
<1>6. HoldersExact' /\ holders' \in Nat
  <2>1. Cardinality(Claims \ {c}) = Cardinality(Claims) - 1
    BY <1>5, ClaimsFinite, FS_RemoveElement
  <2>2. IsFiniteSet(Claims \ {c})
    BY ClaimsFinite, FS_RemoveElement
  <2>3. Cardinality(Claims \ {c}) \in Nat
    BY <2>2, FS_CardinalityType
  <2>. QED
    BY <1>2, <1>5, <2>1, <2>3 DEF HoldersExact
<1>7. TypeOK'
  BY <1>1, <1>2, <1>6 DEF TypeOK
<1>8. QueuesExact'
  <2>1. \A m \in Loads : load[m] \in {"loading", "loaded", "failed"} =>
                             load'[m] \in {"loading", "loaded", "failed"}
    BY <1>3
  <2>. QED
    BY <1>2, <2>1, Dequeued DEF c
<1>9. \A m \in Loads : Live(m)' <=> Live(m) /\ m # l
  BY <1>3 DEF Live
<1>10. LiveIsParser'
  <2>1. None \notin Loads
    BY LoadsAssumption DEF Loads
  <2>. QED
    BY <1>2, <1>9, <2>1 DEF LiveIsParser
<1>11. LoadingAwaited'
  BY <1>3 DEF LoadingAwaited
<1>12. \A m \in Loads : load'[m] # "loaded"
  BY <1>3, <1>4
<1>13. FailuresHandedOut'
  BY <1>12 DEF FailuresHandedOut
<1>14. HeldLive'
  BY <1>1, <1>3, <1>4 DEF HeldLive
<1>15. LiveClaimed'
  <2>1. ASSUME NEW m \in Loads, Live(m)'
        PROVE  \E d \in Claims' : of'[d] = m
    <3>1. Live(m) /\ m # l
      BY <1>9, <2>1
    <3>2. PICK d \in Claims : of[d] = m
      BY <3>1 DEF LiveClaimed
    <3>. QED
      BY <1>1, <1>5, <3>1, <3>2
  <2>. QED
    BY <2>1 DEF LiveClaimed
<1>. QED
  BY <1>4, <1>6, <1>7, <1>8, <1>10, <1>11, <1>12, <1>13, <1>14, <1>15

LEMMA LoadEndsKeeps ==
    ASSUME IInv, NEW l \in Loads, NEW outcome \in {"loaded", "failed"}, LoadEnds(l, outcome)
    PROVE  IInv'
<1>1. queue[l] # <<>>
  BY DEF IInv, LoadingAwaited, LoadEnds
<1>2. CASE outcome = "loaded"
  BY <1>1, <1>2, LentKeeps DEF LoadEnds
<1>3. CASE outcome = "failed"
  BY <1>1, <1>3, RefusedKeeps DEF LoadEnds
<1>. QED
  BY <1>2, <1>3

LEMMA ResumeKeeps ==
    ASSUME IInv, NEW l \in Loads, Resume(l)
    PROVE  IInv'
<1>1. queue[l] # <<>> /\ load' = load /\ of' = of
  BY DEF Resume
<1>2. CASE load[l] = "loaded" /\ Lent(Head(queue[l]))
  <2>1. load' = [load EXCEPT ![l] = "loaded"]
    BY <1>1, <1>2 DEF IInv, TypeOK
  <2>2. \A m \in Loads : load[m] = "failed" => queue[m] = <<>>
    BY <1>2 DEF IInv, FailuresHandedOut
  <2>. QED
    BY <1>1, <1>2, <2>1, <2>2, LentKeeps DEF Resume
<1>3. CASE load[l] = "failed" /\ Refused(Head(queue[l]), l)
  <2>1. load' = [load EXCEPT ![l] = "failed"]
    BY <1>1, <1>3 DEF IInv, TypeOK
  <2>. QED
    BY <1>1, <1>3, <2>1, RefusedKeeps DEF Resume
<1>. QED
  BY <1>2, <1>3 DEF Resume

-----------------------------------------------------------------------------
(* Giving a lease back.                                                    *)

\* While a parser is held, every claim is on it.
LEMMA ClaimsOnParser ==
    ASSUME IInv, NEW c \in Leases, lease[c] = "held", NEW d \in Claims
    PROVE  of[d] = of[c] /\ of[c] \in Loads /\ load[of[c]] = "loaded" /\ parser = of[c]
<1>. USE DEF IInv
<1>1. of[c] \in Loads /\ load[of[c]] = "loaded" /\ parser = of[c]
  BY DEF HeldLive
<1>2. CASE lease[d] = "held"
  BY <1>1, <1>2 DEF HeldLive, Claims
<1>3. CASE lease[d] = "waiting"
  <2>1. /\ of[d] \in Loads /\ load[of[d]] \in {"loading", "loaded", "failed"}
        /\ \E i \in 1 .. Len(queue[of[d]]) : queue[of[d]][i] = d
    BY <1>3 DEF QueuesExact, Claims
  <2>2. load[of[d]] # "failed"
    <3>1. SUFFICES ASSUME load[of[d]] = "failed" PROVE FALSE
      OBVIOUS
    <3>2. queue[of[d]] = <<>>
      BY <1>1, <2>1, <3>1 DEF FailuresHandedOut
    <3>. QED
      BY <2>1, <3>2
  <2>3. Live(of[d])
    BY <2>1, <2>2 DEF Live
  <2>. QED
    BY <1>1, <2>1, <2>3 DEF LiveIsParser
<1>. QED
  BY <1>1, <1>2, <1>3 DEF Claims

LEMMA GivenBackKeeps ==
    ASSUME IInv, NEW c \in Leases, Dispose(c)
    PROVE  /\ IInv'
           /\ Claims' = Claims \ {c}
           /\ of[c] \in Loads
           /\ \A m \in Loads : load[m] = "loaded" <=> m = of[c]
           /\ \A m \in Loads : load'[m] = "loaded" <=> m = of[c] /\ Claims' # {}
<1>. USE DEF IInv
<1>1. lease[c] = "held" /\ lease' = [lease EXCEPT ![c] = "over"]
      /\ holders' = holders - 1 /\ of' = of /\ queue' = queue
  BY DEF Dispose
<1>2. of[c] \in Loads /\ load[of[c]] = "loaded" /\ parser = of[c]
  BY <1>1 DEF HeldLive
<1>3. /\ lease'[c] = "over"
      /\ \A d \in Leases : d # c => lease'[d] = lease[d]
  BY <1>1 DEF TypeOK
<1>4. Claims' = Claims \ {c} /\ c \in Claims
  BY <1>1, <1>3 DEF Claims
<1>5. IsFiniteSet(Claims') /\ Cardinality(Claims') = Cardinality(Claims) - 1
  BY <1>4, ClaimsFinite, FS_RemoveElement
<1>6. Cardinality(Claims') \in Nat
  BY <1>5, FS_CardinalityType
<1>7. HoldersExact' /\ holders' \in Nat
  BY <1>1, <1>5, <1>6 DEF HoldersExact
<1>8. holders' > 0 <=> Claims' # {}
  <2>1. holders' = Cardinality(Claims')
    BY <1>7 DEF HoldersExact
  <2>2. Cardinality(Claims') = 0 <=> Claims' = {}
    BY <1>5, FS_EmptySet
  <2>. QED
    BY <1>6, <2>1, <2>2
<1>9. \A m \in Loads : Live(m) <=> m = of[c]
  BY <1>2 DEF LiveIsParser
<1>10. \A m \in Loads : load[m] = "loaded" <=> m = of[c]
  BY <1>2, <1>9 DEF Live
<1>11. CASE holders' > 0 /\ UNCHANGED <<parser, load>>
  <2>1. TypeOK'
    BY <1>1, <1>7, <1>11 DEF TypeOK
  <2>2. QueuesExact'
    <3>1. ASSUME NEW m \in Loads, NEW i \in 1 .. Len(queue[m])
          PROVE  lease'[queue[m][i]] = "waiting"
      <4>1. queue[m][i] \in Leases
        BY ElementOfSeq DEF TypeOK
      <4>. QED
        BY <1>1, <1>3, <4>1 DEF QueuesExact
    <3>2. \A d \in Leases : lease'[d] = "waiting" => lease[d] = "waiting"
      BY <1>3
    <3>. QED
      BY <1>1, <1>11, <3>1, <3>2 DEF QueuesExact
  <2>3. LoadingAwaited' /\ FailuresHandedOut' /\ LiveIsParser'
    BY <1>1, <1>11 DEF LoadingAwaited, FailuresHandedOut, LiveIsParser, Live
  <2>4. HeldLive'
    BY <1>1, <1>3, <1>11 DEF HeldLive
  <2>5. LiveClaimed'
    <3>1. PICK d \in Claims' : TRUE
      BY <1>8, <1>11
    <3>2. of'[d] = of[c]
      BY <1>1, <1>4, ClaimsOnParser
    <3>3. \A m \in Loads : Live(m)' => m = of[c]
      BY <1>9, <1>11 DEF Live
    <3>. QED
      BY <3>2, <3>3 DEF LiveClaimed
  <2>. QED
    BY <1>2, <1>4, <1>7, <1>8, <1>10, <1>11, <2>1, <2>2, <2>3, <2>4, <2>5
<1>12. CASE /\ holders' <= 0 /\ parser' = None
            /\ load' = [load EXCEPT ![of[c]] = "disposed"]
  <2>0. Claims' = {}
    BY <1>7, <1>8, <1>12
  <2>1. TypeOK'
    BY <1>1, <1>7, <1>12 DEF TypeOK
  <2>2. load'[of[c]] = "disposed" /\ \A m \in Loads : m # of[c] => load'[m] = load[m]
    BY <1>2, <1>12 DEF TypeOK
  <2>3. QueuesExact'
    <3>1. ASSUME NEW m \in Loads, NEW i \in 1 .. Len(queue[m])
          PROVE  lease'[queue[m][i]] = "waiting"
      <4>1. queue[m][i] \in Leases
        BY ElementOfSeq DEF TypeOK
      <4>. QED
        BY <1>1, <1>3, <4>1 DEF QueuesExact
    <3>2. \A d \in Leases : lease'[d] # "waiting"
      BY <2>0 DEF Claims
    <3>. QED
      BY <1>1, <3>1, <3>2 DEF QueuesExact
  <2>4. \A m \in Loads : ~Live(m)'
    BY <1>9, <2>2 DEF Live
  <2>5. LiveIsParser'
    <3>1. None \notin Loads
      BY LoadsAssumption DEF Loads
    <3>. QED
      BY <1>12, <2>4, <3>1 DEF LiveIsParser
  <2>6. LoadingAwaited' /\ FailuresHandedOut' /\ LiveClaimed'
    BY <2>4 DEF LoadingAwaited, FailuresHandedOut, LiveClaimed, Live
  <2>7. HeldLive'
    BY <2>0 DEF HeldLive, Claims
  <2>8. \A m \in Loads : load'[m] # "loaded"
    BY <2>4 DEF Live
  <2>. QED
    BY <1>2, <1>4, <1>7, <1>10, <2>0, <2>1, <2>3, <2>5, <2>6, <2>7, <2>8
<1>. QED
  BY <1>11, <1>12 DEF Dispose

-----------------------------------------------------------------------------
(* The invariant and what it implies.                                      *)

LEMMA InitIInv == Init => IInv
<1>. SUFFICES ASSUME Init PROVE IInv
  OBVIOUS
<1>. USE DEF Init
<1>1. TypeOK
  BY EmptySeq DEF TypeOK
<1>2. Claims = {}
  BY DEF Claims
<1>3. HoldersExact
  BY <1>2, FS_EmptySet DEF HoldersExact
<1>4. QueuesExact
  <2>1. Len(<<>>) = 0
    OBVIOUS
  <2>2. \A l \in Loads : 1 .. Len(queue[l]) = {}
    BY <2>1
  <2>. QED
    BY <2>2 DEF QueuesExact
<1>5. LoadingAwaited /\ FailuresHandedOut /\ HeldLive
  BY DEF LoadingAwaited, FailuresHandedOut, HeldLive
<1>6. LiveIsParser /\ LiveClaimed
  <2>1. None \notin Loads
    BY LoadsAssumption DEF Loads
  <2>. QED
    BY <2>1 DEF LiveIsParser, LiveClaimed, Live
<1>. QED
  BY <1>1, <1>3, <1>4, <1>5, <1>6 DEF IInv

LEMMA NextIInv == IInv /\ [Next]_vars => IInv'
<1>. SUFFICES ASSUME IInv, [Next]_vars PROVE IInv'
  OBVIOUS
<1>1. CASE \E c \in Leases : LeaseLoaded(c)
  BY <1>1, LeaseLoadedKeeps
<1>2. CASE \E c \in Leases : LoaderThrows(c)
  BY <1>2, LoaderThrowsKeeps
<1>3. CASE \E c \in Leases : Dispose(c)
  BY <1>3, GivenBackKeeps
<1>4. CASE \E c \in Leases, l \in Loads : LeaseLoads(c, l)
  BY <1>4, LeaseLoadsKeeps
<1>5. CASE \E l \in Loads, outcome \in {"loaded", "failed"} : LoadEnds(l, outcome)
  BY <1>5, LoadEndsKeeps
<1>6. CASE \E l \in Loads : Resume(l)
  BY <1>6, ResumeKeeps
<1>7. CASE UNCHANGED vars
  BY <1>7 DEF vars, IInv, TypeOK, HoldersExact, Claims, QueuesExact, LoadingAwaited,
              FailuresHandedOut, HeldLive, LiveIsParser, LiveClaimed, Live
<1>. QED
  BY <1>1, <1>2, <1>3, <1>4, <1>5, <1>6, <1>7 DEF Next

\* The invariant the other theorems rest on.
THEOREM Invariant == Spec => []IInv
<1>. QED
  BY InitIInv, NextIInv, PTL DEF Spec

\* The shared parser's fields keep their types; in particular lease() and
\* _release never take _holders below zero.
THEOREM TypeCorrect == Spec => []TypeOK
<1>1. IInv => TypeOK
  BY DEF IInv
<1>. QED
  BY <1>1, Invariant, PTL

\* _holders always counts exactly the waiting and the held leases.
THEOREM HoldersAreClaims == Spec => []HoldersExact
<1>1. IInv => HoldersExact
  BY DEF IInv
<1>. QED
  BY <1>1, Invariant, PTL

\* _release never disposes a parser under a holder.
THEOREM HoldersKeepTheirParser == Spec => []HeldIsLive
<1>1. IInv => HeldIsLive
  BY DEF IInv, HeldLive, HeldIsLive
<1>. QED
  BY <1>1, Invariant, PTL

\* _parser is the one load alive, and lives only while it is claimed.
THEOREM AtMostOneParser == Spec => []OneLiveParser
<1>1. IInv => OneLiveParser
  <2>. SUFFICES ASSUME IInv PROVE OneLiveParser
    OBVIOUS
  <2>1. \A l \in Loads : load[l] \in {"loading", "loaded"} <=> parser = l
    BY DEF IInv, LiveIsParser, Live
  <2>2. parser # None => Claims # {}
    BY <2>1 DEF IInv, TypeOK, LiveClaimed, Live
  <2>. QED
    BY <2>1, <2>2 DEF OneLiveParser
<1>. QED
  BY <1>1, Invariant, PTL

\* All of this together, for any finite set of leases and any number of
\* loads: exact claims, one live parser, none disposed under a holder.
THEOREM LeasesSound == Spec => []LeaseInv
<1>. QED
  BY TypeCorrect, HoldersAreClaims, HoldersKeepTheirParser, AtMostOneParser, PTL DEF LeaseInv

-----------------------------------------------------------------------------
(* The contract is implemented.                                            *)

View(c) == CASE lease[c] = "idle"    -> "idle"
             [] lease[c] = "waiting" -> "pending"
             [] lease[c] = "held"    -> "held"
             [] OTHER                -> "over"

Alive == \E l \in Loads : load[l] = "loaded"

\* A step that changes one lease changes one claim.
LEMMA OneClaim ==
    ASSUME TypeOK, NEW c \in Leases, NEW s, lease' = [lease EXCEPT ![c] = s]
    PROVE  [d \in Leases |-> View(d)]' =
              [[d \in Leases |-> View(d)] EXCEPT ![c] = View(c)']
<1>1. \A d \in Leases : d # c => View(d)' = View(d)
  BY DEF TypeOK, View
<1>. QED
  BY <1>1

LEMMA InitContract == Init => Contract!Init
  BY DEF Init, Contract!Init

\* Every step is a step of the contract, or leaves the claims alone.
LEMMA StepContract ==
    ASSUME IInv, Next
    PROVE  Contract!Next
<1>. USE DEF IInv
<1>. DEFINE claims == [d \in Leases |-> View(d)]
<1>1. ASSUME NEW c \in Leases, LeaseLoaded(c)
      PROVE  Contract!Ask(c)
  <2>1. lease[c] = "idle" /\ lease' = [lease EXCEPT ![c] = "waiting"] /\ load' = load
    BY <1>1 DEF LeaseLoaded, Await
  <2>2. View(c) = "idle" /\ View(c)' = "pending"
    BY <2>1 DEF View, TypeOK
  <2>3. claims' = [claims EXCEPT ![c] = "pending"] /\ claims[c] = "idle"
    BY <2>1, <2>2, OneClaim
  <2>. QED
    BY <2>1, <2>3 DEF Contract!Ask, View
<1>2. ASSUME NEW c \in Leases, NEW l \in Loads, LeaseLoads(c, l)
      PROVE  Contract!Ask(c)
  <2>1. /\ lease[c] = "idle" /\ lease' = [lease EXCEPT ![c] = "waiting"]
        /\ load[l] = "unused" /\ load' = [load EXCEPT ![l] = "loading"]
    BY <1>2 DEF LeaseLoads, Await
  <2>2. View(c) = "idle" /\ View(c)' = "pending"
    BY <2>1 DEF View, TypeOK
  <2>3. claims' = [claims EXCEPT ![c] = "pending"] /\ claims[c] = "idle"
    BY <2>1, <2>2, OneClaim
  <2>4. \A m \in Loads : load'[m] = "loaded" <=> load[m] = "loaded"
    BY <2>1 DEF TypeOK
  <2>. QED
    BY <2>3, <2>4 DEF Contract!Ask, View
<1>3. ASSUME NEW c \in Leases, LoaderThrows(c)
      PROVE  Contract!Refuse(c)
  <2>1. /\ lease[c] = "idle" /\ lease' = [lease EXCEPT ![c] = "failed"]
        /\ load' = load /\ parser = None
    BY <1>3 DEF LoaderThrows
  <2>2. View(c) = "idle" /\ View(c)' = "over"
    BY <2>1 DEF View, TypeOK
  <2>3. claims' = [claims EXCEPT ![c] = "over"] /\ claims[c] = "idle"
    BY <2>1, <2>2, OneClaim
  <2>4. \A m \in Loads : load[m] # "loaded"
    BY <2>1, LoadsAssumption DEF LiveIsParser, Live, Loads
  <2>. QED
    BY <2>1, <2>3, <2>4 DEF Contract!Refuse, View
<1>4. ASSUME NEW l \in Loads, queue[l] # <<>>, Lent(Head(queue[l])), load'[l] = "loaded"
      PROVE  \E c \in Leases : Contract!Grant(c)
  <2>1. PICK c \in Leases : lease[c] = "waiting" /\ lease' = [lease EXCEPT ![c] = "held"]
    BY <1>4, HeadOfQueue DEF Lent
  <2>2. View(c) = "pending" /\ View(c)' = "held"
    BY <2>1 DEF View, TypeOK
  <2>3. claims' = [claims EXCEPT ![c] = "held"] /\ claims[c] = "pending"
    BY <2>1, <2>2, OneClaim
  <2>4. Contract!Grant(c)
    BY <1>4, <2>3 DEF Contract!Grant, View
  <2>. QED
    BY <2>4
<1>5. ASSUME NEW l \in Loads, queue[l] # <<>>, Refused(Head(queue[l]), l),
             \A m \in Loads : load[m] # "loaded" /\ load'[m] # "loaded"
      PROVE  \E c \in Leases : Contract!Refuse(c)
  <2>1. PICK c \in Leases : lease[c] = "waiting" /\ lease' = [lease EXCEPT ![c] = "failed"]
    BY <1>5, HeadOfQueue DEF Refused
  <2>2. View(c) = "pending" /\ View(c)' = "over"
    BY <2>1 DEF View, TypeOK
  <2>3. claims' = [claims EXCEPT ![c] = "over"] /\ claims[c] = "pending"
    BY <2>1, <2>2, OneClaim
  <2>4. Contract!Refuse(c)
    BY <1>5, <2>3 DEF Contract!Refuse, View
  <2>. QED
    BY <2>4
<1>6. ASSUME NEW l \in Loads, NEW outcome \in {"loaded", "failed"}, LoadEnds(l, outcome)
      PROVE  Contract!Next
  <2>1. queue[l] # <<>> /\ load[l] = "loading" /\ load' = [load EXCEPT ![l] = outcome]
    BY <1>6 DEF LoadingAwaited, LoadEnds
  <2>2. CASE outcome = "loaded"
    <3>1. Lent(Head(queue[l])) /\ load'[l] = "loaded"
      BY <1>6, <2>1, <2>2 DEF LoadEnds, TypeOK
    <3>. QED
      BY <1>4, <2>1, <3>1 DEF Contract!Next
  <2>3. CASE outcome = "failed"
    <3>1. Refused(Head(queue[l]), l)
      BY <1>6, <2>3 DEF LoadEnds
    <3>2. \A m \in Loads : load[m] # "loaded" /\ load'[m] # "loaded"
      BY <1>6, <2>1, <2>3, <3>1, RefusedKeeps DEF LoadEnds
    <3>. QED
      BY <1>5, <2>1, <3>1, <3>2 DEF Contract!Next
  <2>. QED
    BY <2>2, <2>3
<1>7. ASSUME NEW l \in Loads, Resume(l)
      PROVE  Contract!Next
  <2>1. queue[l] # <<>> /\ load' = load
    BY <1>7 DEF Resume
  <2>2. CASE load[l] = "loaded" /\ Lent(Head(queue[l]))
    BY <1>4, <2>1, <2>2 DEF Contract!Next
  <2>3. CASE load[l] = "failed" /\ Refused(Head(queue[l]), l)
    <3>1. \A m \in Loads : load[m] # "loaded"
      BY <2>1, <2>3 DEF FailuresHandedOut
    <3>. QED
      BY <1>5, <2>1, <2>3, <3>1 DEF Contract!Next
  <2>. QED
    BY <1>7, <2>2, <2>3 DEF Resume
<1>8. ASSUME NEW c \in Leases, Dispose(c)
      PROVE  Contract!Release(c)
  <2>1. lease[c] = "held" /\ lease' = [lease EXCEPT ![c] = "over"]
    BY <1>8 DEF Dispose
  <2>2. View(c) = "held" /\ View(c)' = "over"
    BY <2>1 DEF View, TypeOK
  <2>3. claims' = [claims EXCEPT ![c] = "over"] /\ claims[c] = "held"
    BY <2>1, <2>2, OneClaim
  <2>4. /\ Claims' = Claims \ {c}
        /\ of[c] \in Loads
        /\ \A m \in Loads : load'[m] = "loaded" <=> m = of[c] /\ Claims' # {}
    BY <1>8, GivenBackKeeps
  <2>5. (\E m \in Loads : load'[m] = "loaded") <=> Claims \ {c} # {}
    BY <2>4
  <2>6. \A d \in Leases : d \in Claims <=> claims[d] \in {"pending", "held"}
    BY DEF TypeOK, Claims, View
  <2>7. Claims \ {c} # {} <=> \E d \in Leases \ {c} : claims[d] \in {"pending", "held"}
    BY <2>6 DEF Claims
  <2>. QED
    BY <2>3, <2>5, <2>7 DEF Contract!Release, Contract!Open, View
<1>. QED
  BY <1>1, <1>2, <1>3, <1>6, <1>7, <1>8 DEF Next, Contract!Next

\* SharedBackend implements LeaseContract: a holder cannot tell the shared,
\* reference-counted parser from one of its own, except that a lease may be
\* refused while no parser is there.
THEOREM ImplementsContract == Spec => KeepsContract
<1>1. Init => Contract!Init
  BY InitContract
<1>2. IInv /\ [Next]_vars => [Contract!Next]_(Contract!contract)
  <2>1. CASE IInv /\ Next
    BY <2>1, StepContract
  <2>2. CASE UNCHANGED vars
    BY <2>2 DEF vars, Contract!contract
  <2>. QED
    BY <2>1, <2>2
<1>. QED
  BY <1>1, <1>2, Invariant, PTL DEF Spec, KeepsContract, Contract!Spec

=============================================================================
