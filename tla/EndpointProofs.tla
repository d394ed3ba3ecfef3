--------------------------- MODULE EndpointProofs ----------------------------
(***************************************************************************)
(* Proofs about the V3 source endpoint and its candidate, for any number   *)
(* of revisions and pages and for every set of things that may go wrong:   *)
(* the candidate works on the certified revision alone and can always be   *)
(* cancelled, the base it builds on is in one place together with its      *)
(* Green session, a delta starts from the publication acknowledged last, a *)
(* poisoned runtime serves nothing, and every fault is reported.           *)
(***************************************************************************)
EXTENDS Endpoint, SequenceTheorems, TLAPS

LEMMA Numbers ==
    /\ MaxRev \in Nat /\ MaxRev >= 1 /\ MaxPages \in Nat
    /\ Revs = OptRev \ {None} /\ None \in OptRev /\ OptRev \subseteq Nat
  BY MaxRevAssumption, MaxPagesAssumption DEF Revs, OptRev, None

-----------------------------------------------------------------------------
(* The recursive-Green slot.                                               *)

Ready == {"readyClean", "readyUpdate"}

Pends == [k : {"none", "readyClean", "readyUpdate"} \cup DOMAIN GreenNext, rev : OptRev, base : OptRev]

\* The queues that occur: a slot has at most one release under way, and its
\* closing adds one more.
Queues == {<<>>} \cup {<<b>> : b \in OptRev} \cup {<<None, None>>}

Slots == [installed : OptRev, cleanup : Queues, pend : Pends]

\* A build is begun by an idle slot, with the base; one session is in the slot.
GreenSound(g) ==
    /\ g \in Slots
    /\ g.pend.k = "none" => g.pend = NoGreen
    /\ g.pend.k # "none" => g.installed = None /\ g.cleanup = <<>>
    /\ g.pend.k \in {"adoption", "readyUpdate"} => g.pend.base < g.pend.rev
    /\ g.installed # None => g.cleanup \in {<<>>, <<None>>}

\* The session of base b is in the slot.
Holds(g, b) ==
    \/ g.installed = b
    \/ g.pend.base = b
    \/ g.cleanup # <<>> /\ Head(g.cleanup) = b

\* What the slot g has, the slot h has too.
Kept(g, h) == \A b \in Revs : Holds(g, b) => Holds(h, b)

LEMMA QueueFacts ==
    ASSUME NEW a, NEW b
    PROVE  /\ Len(<<>>) = 0 /\ Len(<<b>>) = 1 /\ Len(<<a, b>>) = 2
           /\ <<>> # <<b>> /\ <<>> # <<a, b>> /\ <<a>> # <<b, b>>
           /\ Head(<<b>>) = b /\ Head(<<a, b>>) = a
           /\ Append(<<>>, b) = <<b>> /\ Tail(<<b>>) = <<>> /\ Tail(<<a, b>>) = <<b>>
<1>1. Len(<<>>) = 0 /\ Len(<<b>>) = 1 /\ Len(<<a, b>>) = 2
  OBVIOUS
<1>2. <<>> # <<b>> /\ <<>> # <<a, b>> /\ <<a>> # <<b, b>>
  OBVIOUS
<1>3. Head(<<b>>) = b /\ Head(<<a, b>>) = a
  OBVIOUS
<1>4. Append(<<>>, b) = <<b>>
  OBVIOUS
<1>5. Tail(<<b>>) = <<>>
  OBVIOUS
<1>6. Tail(<<a, b>>) = <<b>>
  OBVIOUS
<1>. QED
  BY <1>1, <1>2, <1>3, <1>4, <1>5, <1>6

LEMMA TwoReleases == Append(<<None>>, None) = <<None, None>>
<1>1. /\ <<None>> \in Seq({None}) /\ Append(<<None>>, None) \in Seq({None})
      /\ <<None, None>> \in Seq({None})
  OBVIOUS
<1>2. /\ Len(Append(<<None>>, None)) = 2 /\ Len(<<None, None>>) = 2
      /\ \A i \in 1 .. 2 : Append(<<None>>, None)[i] = None
  BY <1>1, ElementOfSeq
<1>3. \A i \in 1 .. 2 : <<None, None>>[i] = None
  BY <1>1, <1>2, ElementOfSeq
<1>. QED
  BY <1>1, <1>2, <1>3, SeqEqual

LEMMA QueueTyped ==
    ASSUME NEW q \in Queues
    PROVE  /\ q \in Seq(OptRev) /\ Len(q) <= 2
           /\ q # <<>> => Head(q) \in OptRev /\ Tail(q) \in {<<>>, <<None>>} /\ (Head(q) # None => Tail(q) = <<>>) /\ Tail(q) # q
           /\ \A b \in Revs : (\E i \in DOMAIN q : q[i] = b) <=> q # <<>> /\ Head(q) = b
<1>. USE Numbers
<1>1. CASE q = <<>>
  BY <1>1
<1>2. ASSUME NEW b \in OptRev, q = <<b>>
      PROVE  /\ q \in Seq(OptRev) /\ Len(q) <= 2
             /\ q # <<>> => Head(q) \in OptRev /\ Tail(q) \in {<<>>, <<None>>} /\ (Head(q) # None => Tail(q) = <<>>) /\ Tail(q) # q
             /\ \A c \in Revs : (\E i \in DOMAIN q : q[i] = c) <=> q # <<>> /\ Head(q) = c
  <2>1. DOMAIN q = {1} /\ q[1] = b /\ Head(q) = b /\ q # <<>> /\ Tail(q) = <<>> /\ Len(q) = 1
        /\ Tail(q) # q
    BY <1>2, QueueFacts
  <2>2. q \in Seq(OptRev)
    BY <1>2
  <2>. QED
    BY <2>1, <2>2
<1>3. CASE q = <<None, None>>
  <2>1. DOMAIN q = {1, 2} /\ q[1] = None /\ q[2] = None /\ Head(q) = None /\ q # <<>>
    BY <1>3, QueueFacts
  <2>2. q \in Seq(OptRev) /\ Len(q) = 2 /\ Tail(q) = <<None>> /\ Tail(q) # q
    BY <1>3, QueueFacts
  <2>. QED
    BY <2>1, <2>2
<1>. QED
  BY <1>1, <1>2, <1>3 DEF Queues

\* A queue that no closing has lengthened.
Short(g) == g.cleanup # <<None, None>>

GreenStages == {"cleanPlan", "cleanBuild", "adoption", "cancelling"}

LEMMA StageNames == DOMAIN GreenNext = GreenStages
  BY DEF GreenNext, GreenStages

LEMMA NewGreenSound == GreenSound(NewGreen) /\ Short(NewGreen)
  BY Numbers, QueueFacts DEF GreenSound, NewGreen, NoGreen, Slots, Pends, Queues, Short, None

\* Cancelling leaves nothing being built, and loses nothing.
LEMMA GreenCancelSound ==
    ASSUME NEW g, GreenSound(g)
    PROVE  /\ GreenSound(GreenCancel(g)) /\ GreenCancel(g).pend = NoGreen
           /\ Kept(g, GreenCancel(g))
           /\ Short(g) => Short(GreenCancel(g))
           /\ g.pend.k = "none" => GreenCancel(g) = g
<1>. DEFINE h == GreenCancel(g)
<1>1. /\ g \in Slots /\ g.pend \in Pends /\ g.pend.base \in OptRev /\ NoGreen \in Pends
      /\ NoGreen.k = "none" /\ NoGreen.base = None
  BY Numbers DEF GreenSound, Slots, Pends, NoGreen
<1>2. CASE g.pend.k = "none"
  BY <1>1, <1>2 DEF GreenCancel, GreenSound, Kept
<1>3. CASE g.pend.k # "none"
  <2>1. g.installed = None /\ g.cleanup = <<>> /\ Append(g.cleanup, g.pend.base) = <<g.pend.base>>
        /\ Append(g.cleanup, None) = <<None>> /\ <<g.pend.base>> \in Queues /\ <<None>> \in Queues
    BY <1>1, <1>3, Numbers, QueueFacts DEF GreenSound, Queues
  <2>2. /\ h \in Slots /\ h.pend = NoGreen
        /\ \/ h.installed = g.pend.base /\ h.cleanup \in {<<>>, <<None>>}
           \/ h.installed = None /\ h.cleanup = <<g.pend.base>>
    <3>1. CASE g.pend.k = "cleanPlan"
      BY <1>1, <2>1, <3>1 DEF GreenCancel, Slots
    <3>2. CASE g.pend.k \in {"cleanBuild", "adoption", "cancelling"}
      BY <1>1, <2>1, <3>2 DEF GreenCancel, Slots
    <3>3. CASE g.pend.k \in {"readyClean", "readyUpdate"}
      BY <1>1, <2>1, <3>3 DEF GreenCancel, Slots
    <3>. QED
      BY <1>1, <1>3, <3>1, <3>2, <3>3, StageNames DEF Pends, GreenStages
  <2>3. GreenSound(h)
    BY <1>1, <2>2 DEF GreenSound
  <2>4. Kept(g, h)
    BY <2>1, <2>2, Numbers, QueueFacts DEF Kept, Holds
  <2>5. Short(h)
    BY <2>2, QueueFacts DEF Short
  <2>. QED
    BY <1>3, <2>2, <2>3, <2>4, <2>5
<1>. QED
  BY <1>2, <1>3

\* A slot that is closed is empty but for its queue.
LEMMA GreenCloseSound ==
    ASSUME NEW g, GreenSound(g), Short(g) \/ g.installed = None
    PROVE  /\ GreenSound(GreenClose(g)) /\ GreenClose(g).pend.k = "none" /\ GreenClose(g).installed = None
           /\ g.pend.k = "none" /\ g.installed = None => GreenClose(g) = g
<1>. DEFINE h == GreenCancel(g)
<1>1. /\ GreenSound(h) /\ h.pend = NoGreen /\ h \in Slots /\ h.installed \in OptRev
      /\ NoGreen.k = "none"
  BY GreenCancelSound DEF GreenSound, Slots, NoGreen
<1>2. CASE h.installed = None
  BY <1>1, <1>2, GreenCancelSound DEF GreenClose
<1>3. CASE h.installed # None
  <2>1. h.cleanup \in {<<>>, <<None>>}
    BY <1>1, <1>3 DEF GreenSound
  <2>2. Append(h.cleanup, None) \in {<<None>>, <<None, None>>} /\ Append(h.cleanup, None) \in Queues
    BY <2>1, Numbers, QueueFacts, TwoReleases DEF Queues
  <2>3. GreenClose(g) = [h EXCEPT !.installed = None, !.cleanup = Append(@, None)]
    BY <1>3 DEF GreenClose
  <2>4. /\ GreenClose(g) \in Slots /\ GreenClose(g).installed = None /\ GreenClose(g).pend = NoGreen
    BY <1>1, <2>2, <2>3, Numbers DEF Slots
  <2>5. g.pend.k = "none" => g.installed # None
    BY <1>3, GreenCancelSound
  <2>. QED
    BY <1>1, <2>4, <2>5 DEF GreenSound
<1>. QED
  BY <1>2, <1>3

\* The oldest release always ends: it gives its base back to an empty slot.
LEMMA GreenPollCleanupSound ==
    ASSUME NEW g, GreenSound(g)
    PROVE  /\ GreenSound(GreenPollCleanup(g)) /\ Short(GreenPollCleanup(g))
           /\ GreenPollCleanup(g).pend = g.pend /\ Kept(g, GreenPollCleanup(g))
           /\ g.cleanup # <<>> => GreenPollCleanup(g).cleanup = Tail(g.cleanup)
           /\ g.cleanup = <<>> => GreenPollCleanup(g) = g
<1>. DEFINE h == GreenPollCleanup(g)
<1>1. /\ g \in Slots /\ g.cleanup \in Queues /\ g.installed \in OptRev
  BY DEF GreenSound, Slots
<1>2. CASE g.cleanup = <<>>
  BY <1>2, QueueFacts DEF GreenPollCleanup, Kept, Short
<1>3. CASE g.cleanup # <<>>
  <2>1. /\ Head(g.cleanup) \in OptRev /\ Tail(g.cleanup) \in {<<>>, <<None>>}
        /\ Head(g.cleanup) # None => g.installed = None /\ Tail(g.cleanup) = <<>>
        /\ g.pend.k = "none" /\ <<>> \in Queues /\ <<None>> \in Queues
    <3>1. Head(g.cleanup) # None => g.installed = None
      BY <1>1, QueueFacts, <1>3 DEF GreenSound
    <3>. QED
      BY <1>1, <1>3, <3>1, QueueTyped, Numbers DEF GreenSound, Queues
  <2>. DEFINE base == IF Head(g.cleanup) = None THEN g.installed ELSE Head(g.cleanup)
  <2>2. h = [g EXCEPT !.cleanup = Tail(g.cleanup), !.installed = base] /\ base \in OptRev
        /\ Tail(g.cleanup) \in Queues
    BY <1>1, <1>3, <2>1 DEF GreenPollCleanup
  <2>3. /\ h \in Slots /\ h.pend = g.pend /\ h.cleanup = Tail(g.cleanup)
        /\ h.installed = base
    <3>. HIDE DEF base
    <3>. QED
      BY <1>1, <2>2 DEF Slots
  <2>4. GreenSound(h)
    BY <2>1, <2>3 DEF GreenSound
  <2>5. Kept(g, h)
    BY <1>3, <2>1, <2>3, Numbers DEF Kept, Holds
  <2>. QED
    BY <1>3, <2>1, <2>3, <2>4, <2>5, QueueFacts DEF Short
<1>. QED
  BY <1>2, <1>3

\* A poll of the build keeps its target and its base, and keeps it a build.
LEMMA GreenPollTargetSound ==
    ASSUME NEW g, GreenSound(g), GreenTargetPending(g), NEW h \in GreenPollTarget(g)
    PROVE  /\ GreenSound(h) /\ Kept(g, h) /\ h.cleanup = g.cleanup /\ h.installed = g.installed
           /\ h.pend.k # "none" /\ h.pend.rev = g.pend.rev /\ h.pend.base = g.pend.base
<1>1. PICK k \in GreenNext[g.pend.k] : h = [g EXCEPT !.pend.k = k]
  BY DEF GreenPollTarget
<1>2. /\ k \in GreenStages \cup Ready /\ (k \in {"adoption", "readyUpdate"} => g.pend.k = "adoption")
      /\ g \in Slots /\ g.pend \in Pends /\ g.pend.k # "none"
  BY <1>1 DEF GreenTargetPending, GreenNext, GreenStages, Ready, GreenSound, Slots
<1>3. /\ h \in Slots /\ h.pend.k = k /\ h.pend.rev = g.pend.rev /\ h.pend.base = g.pend.base
      /\ h.cleanup = g.cleanup /\ h.installed = g.installed
  BY <1>1, <1>2, StageNames DEF Slots, Pends, Ready
<1>4. GreenSound(h)
  BY <1>2, <1>3 DEF GreenSound, GreenStages, Ready
<1>. QED
  BY <1>2, <1>3, <1>4 DEF Kept, Holds, GreenStages, Ready

\* An idle slot begins the build of rev with what it has as the base.
LEMMA GreenStartSound ==
    ASSUME NEW g, GreenSound(g), g.pend.k = "none", g.cleanup = <<>>, NEW rev \in Revs
    PROVE  /\ LET h == GreenStartClean(g, rev)
              IN GreenSound(h) /\ Kept(g, h) /\ Short(h) /\ h.pend.k \in GreenStages /\ h.pend.rev = rev
           /\ \A base \in OptRev, declined \in BOOLEAN : base < rev =>
                LET h == GreenStartIncremental(g, base, rev, declined)
                IN GreenSound(h) /\ Kept(g, h) /\ Short(h) /\ h.pend.k \in GreenStages /\ h.pend.rev = rev
<1>1. g \in Slots /\ g.installed \in OptRev /\ g.pend = NoGreen /\ NoGreen.base = None
  BY DEF GreenSound, Slots, NoGreen
<1>2. ASSUME NEW k \in {"cleanPlan", "adoption"}, NEW base \in OptRev, k = "adoption" => base < rev,
             base = g.installed,
             NEW h, h = [g EXCEPT !.pend = [k |-> k, rev |-> rev, base |-> base], !.installed = None]
      PROVE  GreenSound(h) /\ Kept(g, h) /\ Short(h) /\ h.pend.k \in GreenStages /\ h.pend.rev = rev
  <2>1. [k |-> k, rev |-> rev, base |-> base] \in Pends
    BY <1>2, Numbers, StageNames DEF Pends, GreenStages
  <2>2. /\ h \in Slots /\ h.pend = [k |-> k, rev |-> rev, base |-> base]
        /\ h.installed = None /\ h.cleanup = <<>>
    BY <1>1, <1>2, <2>1, Numbers DEF Slots
  <2>3. GreenSound(h)
    BY <1>2, <2>2 DEF GreenSound
  <2>4. Kept(g, h)
    BY <1>1, <1>2, <2>2, Numbers DEF Kept, Holds
  <2>. QED
    BY <2>2, <2>3, <2>4, QueueFacts DEF Short, GreenStages
<1>3. LET h == GreenStartClean(g, rev)
      IN GreenSound(h) /\ Kept(g, h) /\ Short(h) /\ h.pend.k \in GreenStages /\ h.pend.rev = rev
  BY <1>1, <1>2 DEF GreenStartClean
<1>. QED
  BY <1>1, <1>2, <1>3 DEF GreenStartIncremental

\* What a build made replaces what the slot had.
LEMMA GreenCommitSound ==
    ASSUME NEW g, GreenSound(g), NEW ack \in Revs, GreenReadyFor(g, ack)
    PROVE  /\ GreenCommitOk(g, ack) /\ GreenSound(GreenCommit(g, ack))
           /\ Short(GreenCommit(g, ack)) /\ GreenCommit(g, ack).installed = ack
<1>1. /\ g \in Slots /\ g.installed = None /\ g.cleanup = <<>> /\ Append(<<>>, None) = <<None>>
      /\ <<>> \in Queues /\ <<None>> \in Queues /\ NoGreen \in Pends /\ NoGreen.k = "none"
  BY Numbers, QueueFacts DEF GreenSound, GreenReadyFor, Queues, NoGreen, Pends
<1>2. GreenCommitOk(g, ack)
  BY <1>1 DEF GreenCommitOk, GreenReadyFor, GreenSound
<1>3. GreenCommit(g, ack) \in Slots
  BY <1>1, Numbers DEF GreenCommit, Slots
<1>. QED
  BY <1>1, <1>2, <1>3, QueueFacts DEF GreenCommit, GreenSound, Short

-----------------------------------------------------------------------------
(* The candidate.                                                          *)

Stages == {"none", "parsing", "building"} \cup HoldsBase \cup Streams

\* The phases of a stream; the last ones are reached by a sealed one alone.
Sealing == {"needCommit", "awaitCommit", "awaitCommitHost", "awaitDelivery"}
Phases == {"needBegin", "awaitBegin", "needPacket", "awaitPacket", "awaitPacketHost"} \cup Sealing

Actives == [st : Stages, rev : OptRev, base : OptRev, sealed : BOOLEAN, phase : {"none"} \cup Phases]
Cleanups == [k : {"none", "drop", "restore"}, base : OptRev]
Cands == [active : Actives, retained : OptRev, cleanup : Cleanups, closing : BOOLEAN, green : Slots]

\* What a stage owns and where its stream is; only the list parser makes blocks.
ActiveSound(a) ==
    /\ a.st = "none" => a = Idle
    /\ a.st # "buildingBlocks"
    /\ a.st # "none" => a.rev # None
    /\ a.base # None <=> a.st \in HoldsBase
    /\ a.phase = "none" <=> a.st \notin Streams
    /\ a.phase \in Sealing => a.sealed

\* The base is in one place.
BaseSound(c) ==
    /\ c.cleanup.base # None <=> c.cleanup.k = "restore"
    /\ c.active.base # None \/ c.cleanup.base # None => c.retained = None

\* An active candidate has the slot build its revision, from before it left
\* its first stages until it is committed; the bases are older.
WorkSound(c) ==
    /\ IsActive(c) => /\ ~Cleaning(c)
                      /\ c.green.pend.k # "none" /\ c.green.pend.rev = c.active.rev
                      /\ \A o \in Owned(c) : o < c.active.rev
    /\ c.active.st \notin {"none"} \cup Parses => c.green.pend.k \in Ready

\* Closing empties the slot; before that the slot has the session of the base.
CloseSound(c) ==
    /\ ~Short(c.green) => c.closing
    /\ c.closing => ~IsActive(c) /\ c.green.pend.k = "none" /\ c.green.installed = None
    /\ ~c.closing => \A o \in Owned(c) : Holds(c.green, o)

CandSound(c) ==
    /\ c \in Cands /\ GreenSound(c.green) /\ ActiveSound(c.active)
    /\ BaseSound(c) /\ WorkSound(c) /\ CloseSound(c)

LEMMA StageFacts ==
    /\ Idle \in Actives /\ ActiveSound(Idle) /\ Idle.st = "none" /\ Idle.base = None
    /\ NoCleanup \in Cleanups /\ NoCleanup.k = "none" /\ NoCleanup.base = None
    /\ Drop \in Cleanups /\ Drop.k = "drop" /\ Drop.base = None
    /\ \A b \in OptRev : Restore(b) \in Cleanups /\ Restore(b).k = "restore" /\ Restore(b).base = b
  BY Numbers DEF Idle, Actives, Stages, ActiveSound, HoldsBase, LegacyBuilds, Streams, Sealing, Phases,
                 NoCleanup, Drop, Restore, Cleanups

LEMMA CandTyped ==
    ASSUME NEW c, CandSound(c)
    PROVE  /\ c \in Cands /\ c.active \in Actives /\ c.retained \in OptRev /\ c.cleanup \in Cleanups
           /\ c.cleanup.base \in OptRev /\ c.active.base \in OptRev /\ c.active.rev \in OptRev
           /\ c.closing \in BOOLEAN /\ c.green \in Slots
           /\ ~Cleaning(c) => c.cleanup = NoCleanup
           /\ ~IsActive(c) => c.active = Idle
  BY DEF CandSound, BaseSound, Cands, Actives, Cleanups, Cleaning, NoCleanup, ActiveSound, IsActive

LEMMA NewCandidateSound == CandSound(NewCandidate) /\ Owned(NewCandidate) = {}
<1>1. /\ NewCandidate \in Cands /\ NewCandidate.green = NewGreen /\ NewCandidate.active = Idle
      /\ NewCandidate.cleanup = NoCleanup /\ NewCandidate.retained = None /\ ~NewCandidate.closing
  BY Numbers, NewGreenSound, StageFacts DEF NewCandidate, Cands, GreenSound
<1>2. Owned(NewCandidate) = {}
  BY <1>1, StageFacts DEF Owned
<1>. QED
  BY <1>1, <1>2, NewGreenSound, StageFacts DEF CandSound, BaseSound, WorkSound, CloseSound, IsActive

\* A candidate without an active stage.
LEMMA IdleSound ==
    ASSUME NEW d, d \in Cands, d.active = Idle, GreenSound(d.green), BaseSound(d), CloseSound(d)
    PROVE  CandSound(d)
  BY StageFacts DEF CandSound, WorkSound, IsActive

\* A stage that gives way to another, or moves on within its stream.
LEMMA StageSound ==
    ASSUME NEW c, CandSound(c), IsActive(c),
           NEW a \in Actives, ActiveSound(a), a.st # "none",
           a.rev = c.active.rev, a.base = c.active.base,
           a.st \in Parses \/ c.green.pend.k \in Ready,
           NEW d \in Cands, d.active = a, d.green = c.green, d.closing = c.closing,
           d.retained = c.retained, d.cleanup = c.cleanup
    PROVE  CandSound(d) /\ Owned(d) = Owned(c)
<1>2. Owned(d) = Owned(c)
  BY DEF Owned
<1>3. BaseSound(d)
  BY DEF CandSound, BaseSound
<1>4. WorkSound(d)
  BY <1>2 DEF CandSound, WorkSound, IsActive, Cleaning
<1>5. CloseSound(d)
  BY <1>2 DEF CandSound, CloseSound, IsActive
<1>. QED
  BY <1>2, <1>3, <1>4, <1>5 DEF CandSound

\* What a cancellation relies on.
Cancellable(c) ==
    /\ c \in Cands /\ GreenSound(c.green) /\ ActiveSound(c.active) /\ BaseSound(c)
    /\ IsActive(c) => ~Cleaning(c)

LEMMA CancellableTyped ==
    ASSUME NEW c, Cancellable(c)
    PROVE  /\ c \in Cands /\ c.active \in Actives /\ c.retained \in OptRev /\ c.cleanup \in Cleanups
           /\ c.cleanup.base \in OptRev /\ c.active.base \in OptRev /\ c.active.rev \in OptRev
           /\ c.closing \in BOOLEAN /\ c.green \in Slots
           /\ ~Cleaning(c) => c.cleanup = NoCleanup
           /\ ~IsActive(c) => c.active = Idle
  BY DEF Cancellable, BaseSound, Cands, Actives, Cleanups, Cleaning, NoCleanup, ActiveSound, IsActive

\* A candidate can always be cancelled.
LEMMA AlwaysCancels ==
    ASSUME NEW c, Cancellable(c)
    PROVE  CancelOk(c)
  BY DEF CancelOk, Cancellable, BaseSound, ActiveSound, IsActive

\* Cancelling leaves nothing active and nothing being built; the base moves.
LEMMA CancelMoves ==
    ASSUME NEW c, Cancellable(c)
    PROVE  LET d == Cancel(c)
           IN /\ d \in Cands /\ d.active = Idle /\ d.green = GreenCancel(c.green) /\ d.closing = c.closing
              /\ BaseSound(d) /\ Owned(d) = Owned(c)
              /\ ~IsActive(c) => d.retained = c.retained /\ d.cleanup = c.cleanup
<1>. DEFINE a == c.active
            h == GreenCancel(c.green)
            d == Cancel(c)
<1>1. h \in Slots
  BY GreenCancelSound DEF Cancellable, GreenSound
<1>2. /\ d \in Cands /\ d.active = Idle /\ d.green = h /\ d.closing = c.closing
      /\ \/ /\ a.base # None /\ d.retained = None /\ d.cleanup = Restore(a.base)
            /\ c.retained = None /\ c.cleanup = NoCleanup
         \/ /\ a.base # None /\ d.retained = a.base /\ d.cleanup \in {NoCleanup, Drop}
            /\ c.retained = None /\ c.cleanup = NoCleanup
         \/ /\ a.base = None /\ d.retained = c.retained
            /\ d.cleanup = c.cleanup \/ (c.cleanup = NoCleanup /\ d.cleanup = Drop /\ IsActive(c))
  <2>1. a.base # None => IsActive(c) /\ ~Cleaning(c) /\ c.retained = None /\ c.cleanup = NoCleanup
    BY CancellableTyped DEF Cancellable, ActiveSound, BaseSound, HoldsBase, LegacyBuilds, IsActive
  <2>2. InStream(a) => a.base # None
    BY DEF InStream, HoldsBase, Cancellable, ActiveSound
  <2>. DEFINE cleanup == IF Cleaning(c) THEN c.cleanup
                         ELSE CASE InStream(a) -> Restore(a.base)
                                [] a.st \in {"none"} \cup Parses -> NoCleanup
                                [] OTHER -> Drop
              retained == IF InStream(a) \/ a.base = None THEN c.retained ELSE a.base
  <2>3. d = [c EXCEPT !.green = h, !.active = Idle, !.cleanup = cleanup, !.retained = retained]
    BY AlwaysCancels, CancellableTyped DEF Cancel, Cands
  <2>4. /\ cleanup \in Cleanups /\ retained \in OptRev
        /\ \/ /\ a.base # None /\ retained = None /\ cleanup = Restore(a.base)
              /\ c.retained = None /\ c.cleanup = NoCleanup
           \/ /\ a.base # None /\ retained = a.base /\ cleanup \in {NoCleanup, Drop}
              /\ c.retained = None /\ c.cleanup = NoCleanup
           \/ /\ a.base = None /\ retained = c.retained
              /\ cleanup = c.cleanup \/ (c.cleanup = NoCleanup /\ cleanup = Drop /\ IsActive(c))
    <3>1. CASE InStream(a)
      BY <2>1, <2>2, <3>1, CancellableTyped, StageFacts DEF InStream, Parses, ExactStarts
    <3>2. CASE ~InStream(a) /\ a.base # None
      BY <2>1, <3>2, CancellableTyped, StageFacts
    <3>3. CASE a.base = None /\ Cleaning(c)
      BY <2>2, <3>3, CancellableTyped
    <3>4. CASE a.base = None /\ ~Cleaning(c)
      BY <2>2, <3>4, CancellableTyped, StageFacts DEF IsActive
    <3>. QED
      BY <3>1, <3>2, <3>3, <3>4
  <2>5. PICK k \in Cleanups, r \in OptRev :
          /\ d = [c EXCEPT !.green = h, !.active = Idle, !.cleanup = k, !.retained = r]
          /\ \/ /\ a.base # None /\ r = None /\ k = Restore(a.base)
                /\ c.retained = None /\ c.cleanup = NoCleanup
             \/ /\ a.base # None /\ r = a.base /\ k \in {NoCleanup, Drop}
                /\ c.retained = None /\ c.cleanup = NoCleanup
             \/ /\ a.base = None /\ r = c.retained
                /\ k = c.cleanup \/ (c.cleanup = NoCleanup /\ k = Drop /\ IsActive(c))
    <3>. HIDE DEF cleanup, retained, d
    <3>. QED
      BY <2>3, <2>4
  <2>6. /\ d \in Cands /\ d.active = Idle /\ d.retained = r /\ d.cleanup = k /\ d.green = h
        /\ d.closing = c.closing
    <3>1. c \in Cands /\ Idle \in Actives /\ h \in Slots
      BY <1>1, CancellableTyped, StageFacts
    <3>. HIDE DEF d, h
    <3>. QED
      BY <2>5, <3>1 DEF Cands
  <2>. QED
    BY <2>5, <2>6
<1>3. Owned(d) = Owned(c)
  BY <1>2, CancellableTyped, StageFacts DEF Owned
<1>4. BaseSound(d)
  BY <1>2, CancellableTyped, StageFacts DEF Cancellable, BaseSound
<1>5. ~IsActive(c) => a.base = None
  BY CancellableTyped, StageFacts
<1>. QED
  BY <1>2, <1>3, <1>4, <1>5

LEMMA SoundIsCancellable ==
    ASSUME NEW c, CandSound(c)
    PROVE  Cancellable(c) /\ CancelOk(c)
  BY AlwaysCancels DEF CandSound, WorkSound, Cancellable

\* A candidate that has given up its stage and the slot's build, with its base.
Stopped(c, d) ==
    /\ CandSound(d) /\ d.active = Idle /\ d.green.pend = NoGreen /\ Kept(c.green, d.green)
    /\ d.closing = c.closing /\ Owned(d) = Owned(c)
    /\ ~IsActive(c) => d.retained = c.retained /\ d.cleanup = c.cleanup

LEMMA StopsWithBase ==
    ASSUME NEW c, CandSound(c), NEW d \in Cands, d.active = Idle, d.green = GreenCancel(c.green),
           d.closing = c.closing, BaseSound(d), Owned(d) = Owned(c),
           ~IsActive(c) => d.retained = c.retained /\ d.cleanup = c.cleanup
    PROVE  Stopped(c, d)
<1>. DEFINE h == GreenCancel(c.green)
<1>1. /\ GreenSound(h) /\ h.pend = NoGreen /\ Kept(c.green, h)
      /\ Short(c.green) => Short(h)
      /\ c.closing => h = c.green
  BY GreenCancelSound DEF CandSound, CloseSound
<1>2. ASSUME ~c.closing, NEW o \in Owned(d) PROVE Holds(h, o)
  <2>1. o \in Owned(c)
    BY <1>2
  <2>2. o \in Revs /\ Holds(c.green, o)
    BY <1>2, <2>1, CandTyped, Numbers DEF CandSound, CloseSound, Owned
  <2>. QED
    BY <1>1, <2>2 DEF Kept
<1>3. CloseSound(d)
  BY <1>1, <1>2, StageFacts DEF CandSound, CloseSound, IsActive
<1>. QED
  BY <1>1, <1>3, IdleSound DEF Stopped

LEMMA CancelSound ==
    ASSUME NEW c, CandSound(c)
    PROVE  Stopped(c, Cancel(c))
  BY CancelMoves, SoundIsCancellable, StopsWithBase

\* Before an edit: the base is there to be used again at once.
LEMMA CancelForEditSound ==
    ASSUME NEW c, CandSound(c)
    PROVE  Stopped(c, CancelForEdit(c))
<1>. DEFINE h == GreenCancel(c.green)
            d == CancelForEdit(c)
<1>1. h \in Slots /\ c \in Cands /\ Idle \in Actives /\ Drop \in Cleanups
      /\ c.active.base \in OptRev
  BY GreenCancelSound, CandTyped, StageFacts DEF CandSound, GreenSound
<1>2. CASE ~Cleaning(c) /\ InStream(c.active) /\ c.retained = None
  <2>1. d = [c EXCEPT !.green = h, !.active = Idle, !.retained = c.active.base, !.cleanup = Drop]
    BY <1>1, <1>2 DEF CancelForEdit, Cands
  <2>2. /\ d \in Cands /\ d.active = Idle /\ d.retained = c.active.base /\ d.cleanup = Drop
        /\ d.green = h /\ d.closing = c.closing
    <3>. HIDE DEF d, h
    <3>. QED
      BY <1>1, <2>1 DEF Cands
  <2>3. IsActive(c) /\ c.cleanup = NoCleanup
    BY <1>2, CandTyped DEF InStream, IsActive
  <2>4. BaseSound(d) /\ Owned(d) = Owned(c)
    BY <1>2, <2>2, <2>3, StageFacts DEF BaseSound, Owned
  <2>. QED
    BY <2>2, <2>3, <2>4, StopsWithBase
<1>3. CASE Cleaning(c)
  <2>1. d = [c EXCEPT !.green = h]
    BY <1>1, <1>3 DEF CancelForEdit, Cands
  <2>2. /\ d \in Cands /\ d.active = c.active /\ d.retained = c.retained /\ d.cleanup = c.cleanup
        /\ d.green = h /\ d.closing = c.closing
    <3>. HIDE DEF d, h
    <3>. QED
      BY <1>1, <2>1 DEF Cands
  <2>3. c.active = Idle
    BY <1>3, CandTyped DEF CandSound, WorkSound
  <2>4. BaseSound(d) /\ Owned(d) = Owned(c)
    BY <2>2 DEF BaseSound, Owned, CandSound
  <2>. QED
    BY <2>2, <2>3, <2>4, StopsWithBase
<1>4. CASE ~Cleaning(c) /\ ~(InStream(c.active) /\ c.retained = None)
  BY <1>4, CancelSound DEF CancelForEdit
<1>. QED
  BY <1>2, <1>3, <1>4

\* Nothing is left of the candidate.
Spent(c) ==
    /\ c.active = Idle /\ c.retained = None /\ c.cleanup = NoCleanup
    /\ c.green.installed = None /\ c.green.pend = NoGreen /\ c.green.cleanup = <<>>

LEMMA SpentOwnsNothing ==
    ASSUME NEW c, Spent(c)
    PROVE  Owned(c) = {} /\ ~CleanupPending(c) /\ ~IsActive(c)
  BY StageFacts DEF Spent, Owned, CleanupPending, Cleaning, IsActive, NoGreen

\* A candidate that is closing gives up its slot, its stage and what it retains.
LEMMA ScheduleCloseSound ==
    ASSUME NEW c, Cancellable(c), c.closing, Short(c.green) \/ c.green.installed = None
    PROVE  /\ CandSound(ScheduleClose(c)) /\ ScheduleClose(c).closing
           /\ Spent(c) => Spent(ScheduleClose(c))
<1>. DEFINE h == GreenClose(c.green)
            d == [c EXCEPT !.green = h]
            e == IF IsActive(d) THEN Cancel(d) ELSE d
<1>1. /\ GreenSound(h) /\ h.pend.k = "none" /\ h.installed = None /\ h \in Slots
  BY GreenCloseSound DEF Cancellable, GreenSound
<1>2. /\ d \in Cands /\ d.active = c.active /\ d.retained = c.retained /\ d.cleanup = c.cleanup
      /\ d.green = h /\ d.closing
  <2>. HIDE DEF h
  <2>. QED
    BY <1>1, CancellableTyped DEF Cands
<1>. HIDE DEF d
<1>3. Cancellable(d)
  BY <1>1, <1>2 DEF Cancellable, BaseSound, IsActive, Cleaning
<1>4. ASSUME NEW f \in Cands, f.active = Idle, f.closing, f.green = h, BaseSound(f)
      PROVE  CandSound(f)
  BY <1>1, <1>4, IdleSound, StageFacts DEF CloseSound, IsActive
<1>5. /\ e \in Cands /\ e.active = Idle /\ e.closing /\ e.green = h /\ BaseSound(e)
      /\ ~IsActive(d) => e = d
  <2>1. CASE IsActive(d)
    <3>1. GreenCancel(h) = h
      BY <1>1, GreenCancelSound
    <3>. QED
      BY <1>2, <1>3, <2>1, <3>1, CancelMoves
  <2>2. CASE ~IsActive(d)
    BY <1>2, <1>3, <2>2, CancellableTyped DEF Cancellable
  <2>. QED
    BY <2>1, <2>2
<1>. HIDE DEF e
<1>6. CASE Cleaning(c)
  <2>1. ScheduleClose(c) = d
    BY <1>6 DEF ScheduleClose, d, h
  <2>2. d.active = Idle
    BY <1>2, <1>3, <1>6, CancellableTyped DEF Cancellable, Cleaning
  <2>. QED
    BY <1>2, <1>3, <1>4, <1>6, <2>1, <2>2, StageFacts DEF Cancellable, Spent, Cleaning
<1>7. CASE ~Cleaning(c) /\ (IsActive(e) \/ Cleaning(e))
  <2>1. ScheduleClose(c) = e
    BY <1>7 DEF ScheduleClose, e, d, h
  <2>2. ~Spent(c)
    <3>1. Spent(c) => e = d
      BY <1>2, <1>5, StageFacts DEF Spent, IsActive
    <3>. QED
      BY <1>2, <1>5, <1>7, <3>1, StageFacts DEF Spent, Cleaning, IsActive
  <2>. QED
    BY <1>4, <1>5, <2>1, <2>2
<1>8. CASE ~Cleaning(c) /\ ~IsActive(e) /\ ~Cleaning(e)
  <2>1. ScheduleClose(c) = IF e.retained = None THEN e ELSE [e EXCEPT !.retained = None, !.cleanup = Drop]
    BY <1>8 DEF ScheduleClose, e, d, h
  <2>2. CASE e.retained = None
    <3>1. Spent(c) => Spent(e)
      <4>1. Spent(c) => e = d /\ h = c.green
        BY <1>2, <1>5, StageFacts, GreenCloseSound DEF Spent, IsActive, Cancellable, NoGreen
      <4>. QED
        BY <1>2, <4>1 DEF Spent
    <3>. QED
      BY <1>4, <1>5, <2>1, <2>2, <3>1
  <2>3. CASE e.retained # None
    <3>. DEFINE f == [e EXCEPT !.retained = None, !.cleanup = Drop]
    <3>1. /\ f \in Cands /\ f.active = Idle /\ f.closing /\ f.green = h
          /\ f.retained = None /\ f.cleanup = Drop
      BY <1>5, StageFacts, Numbers DEF Cands
    <3>. HIDE DEF f
    <3>2. BaseSound(f)
      BY <3>1, StageFacts DEF BaseSound
    <3>3. ~Spent(c)
      BY <1>2, <1>5, <2>3, StageFacts DEF Spent, IsActive
    <3>. QED
      BY <1>4, <2>1, <2>3, <3>1, <3>2, <3>3 DEF f
  <2>. QED
    BY <2>2, <2>3
<1>. QED
  BY <1>6, <1>7, <1>8

LEMMA CloseCandidateSound ==
    ASSUME NEW c, CandSound(c)
    PROVE  /\ CandSound(CloseCandidate(c)) /\ CloseCandidate(c).closing
           /\ Spent(c) => Spent(CloseCandidate(c))
<1>. DEFINE d == [c EXCEPT !.closing = TRUE]
<1>1. /\ d \in Cands /\ d.active = c.active /\ d.retained = c.retained /\ d.cleanup = c.cleanup
      /\ d.green = c.green /\ d.closing
  <2>1. c \in Cands /\ TRUE \in BOOLEAN
    BY CandTyped
  <2>2. d.closing
    BY <2>1 DEF Cands
  <2>3. d \in Cands
    BY <2>1 DEF Cands
  <2>. QED
    BY <2>1, <2>2, <2>3 DEF Cands
<1>. HIDE DEF d
<1>2. Cancellable(d)
  BY <1>1 DEF Cancellable, CandSound, WorkSound, BaseSound, IsActive, Cleaning
<1>3. Short(d.green) \/ d.green.installed = None
  BY <1>1 DEF CandSound, CloseSound
<1>4. Spent(c) => Spent(d)
  BY <1>1 DEF Spent
<1>. QED
  BY <1>1, <1>2, <1>3, <1>4, ScheduleCloseSound DEF CloseCandidate, d

\* A quantum of cleanup: before closing, nothing the candidate owns is lost.
Cleaned(c, d) ==
    /\ CandSound(d) /\ d.active = Idle /\ (d.closing <=> c.closing)
    /\ ~c.closing => /\ Owned(d) = Owned(c) /\ Kept(c.green, d.green) /\ d.green.pend = c.green.pend
                     /\ c.retained # None => d.retained = c.retained

LEMMA CleansOpen ==
    ASSUME NEW c, CandSound(c), ~c.closing,
           NEW d \in Cands, d.active = Idle, ~d.closing, BaseSound(d), Owned(d) = Owned(c),
           GreenSound(d.green), Short(d.green), Kept(c.green, d.green), d.green.pend = c.green.pend,
           c.retained # None => d.retained = c.retained
    PROVE  Cleaned(c, d)
<1>1. ASSUME NEW o \in Owned(d) PROVE Holds(d.green, o)
  <2>1. o \in Owned(c)
    BY <1>1
  <2>2. o \in Revs /\ Holds(c.green, o)
    BY <2>1, CandTyped, Numbers DEF CandSound, CloseSound, Owned
  <2>. QED
    BY <2>2 DEF Kept
<1>2. CloseSound(d)
  BY <1>1 DEF CloseSound
<1>. QED
  BY <1>2, IdleSound DEF Cleaned

LEMMA CleansClosing ==
    ASSUME NEW c, c.closing, NEW d, Cancellable(d), d.closing, Short(d.green) \/ d.green.installed = None
    PROVE  Cleaned(c, ScheduleClose(d))
<1>1. CandSound(ScheduleClose(d)) /\ ScheduleClose(d).closing
  BY ScheduleCloseSound
<1>2. ScheduleClose(d).active = Idle
  BY <1>1, CandTyped DEF CandSound, CloseSound
<1>. QED
  BY <1>1, <1>2 DEF Cleaned

LEMMA PollCleanupSound ==
    ASSUME NEW c, CandSound(c), ~IsActive(c)
    PROVE  Cleaned(c, PollCleanup(c))
<1>0. /\ c \in Cands /\ c.active = Idle /\ Cancellable(c) /\ GreenSound(c.green) /\ BaseSound(c)
      /\ Short(c.green) \/ c.closing
      /\ c.closing => c.green.installed = None /\ c.green.pend.k = "none"
      /\ c.green.cleanup \in Queues
  BY CandTyped, SoundIsCancellable DEF CandSound, CloseSound, Slots
<1>1. CASE c.green.cleanup = <<>> /\ Cleaning(c)
  <2>. DEFINE k == IF c.cleanup.k = "restore" /\ c.retained # None THEN Drop ELSE NoCleanup
              r == IF c.cleanup.k = "restore" /\ c.retained = None THEN c.cleanup.base ELSE c.retained
              d == [c EXCEPT !.cleanup = k, !.retained = r]
  <2>1. PollCleanup(c) = ScheduleClose(d)
    BY <1>0, <1>1 DEF PollCleanup, FinishCleanup, Cands
  <2>2. /\ k = NoCleanup /\ r \in OptRev
        /\ r = IF c.cleanup.base # None THEN c.cleanup.base ELSE c.retained
        /\ c.retained # None => r = c.retained
    BY <1>0, CandTyped DEF BaseSound
  <2>. HIDE DEF k, r
  <2>3. /\ d \in Cands /\ d.active = Idle /\ d.cleanup = NoCleanup /\ d.retained = r
        /\ d.green = c.green /\ (d.closing <=> c.closing)
    BY <1>0, <2>2, StageFacts DEF Cands
  <2>. HIDE DEF d
  <2>4. BaseSound(d) /\ Owned(d) = Owned(c)
    BY <1>0, <2>2, <2>3, StageFacts DEF BaseSound, Owned
  <2>5. CASE c.closing
    <3>1. Cancellable(d)
      BY <1>0, <2>3, <2>4, StageFacts DEF Cancellable, IsActive
    <3>. QED
      BY <1>0, <2>1, <2>3, <2>5, <3>1, CleansClosing
  <2>6. CASE ~c.closing
    <3>1. ScheduleClose(d) = d
      BY <2>3, <2>6 DEF ScheduleClose
    <3>2. Kept(c.green, d.green)
      BY <2>3 DEF Kept
    <3>. QED
      BY <1>0, <2>1, <2>2, <2>3, <2>4, <2>6, <3>1, <3>2, CleansOpen
  <2>. QED
    BY <2>5, <2>6
<1>2. CASE c.green.cleanup = <<>> /\ ~Cleaning(c)
  <2>1. PollCleanup(c) = ScheduleClose(c)
    BY <1>2 DEF PollCleanup
  <2>2. CASE c.closing
    BY <1>0, <2>1, <2>2, CleansClosing
  <2>3. CASE ~c.closing
    <3>1. ScheduleClose(c) = c
      BY <2>3 DEF ScheduleClose
    <3>2. Kept(c.green, c.green)
      BY DEF Kept
    <3>. QED
      BY <1>0, <2>1, <2>3, <3>1, <3>2, CleansOpen
  <2>. QED
    BY <2>2, <2>3
<1>3. CASE c.green.cleanup # <<>>
  <2>. DEFINE g == GreenPollCleanup(c.green)
              h == IF c.closing THEN GreenClose(g) ELSE g
              d == [c EXCEPT !.green = h]
  <2>1. /\ GreenSound(g) /\ Short(g) /\ g.pend = c.green.pend /\ Kept(c.green, g)
        /\ g.cleanup = Tail(c.green.cleanup)
    BY <1>0, <1>3, GreenPollCleanupSound
  <2>2. g # c.green
    BY <1>0, <1>3, <2>1, QueueTyped
  <2>3. /\ GreenSound(h) /\ h \in Slots
        /\ c.closing => h.pend.k = "none" /\ h.installed = None
        /\ ~c.closing => h = g
    BY <2>1, GreenCloseSound DEF GreenSound
  <2>4. PollCleanup(c) = IF d.green.cleanup # <<>> \/ Cleaning(d) THEN d ELSE ScheduleClose(d)
    BY <1>3, <2>2 DEF PollCleanup
  <2>. HIDE DEF h
  <2>5. /\ d \in Cands /\ d.active = Idle /\ d.cleanup = c.cleanup /\ d.retained = c.retained
        /\ d.green = h /\ (d.closing <=> c.closing)
    BY <1>0, <2>3 DEF Cands
  <2>. HIDE DEF d
  <2>6. BaseSound(d) /\ Owned(d) = Owned(c) /\ Cancellable(d)
    BY <1>0, <2>3, <2>5, StageFacts DEF BaseSound, Owned, Cancellable, IsActive
  <2>7. CASE c.closing
    <3>1. CloseSound(d)
      BY <2>3, <2>5, <2>7, StageFacts DEF CloseSound, IsActive
    <3>2. Cleaned(c, d)
      BY <2>3, <2>5, <2>6, <2>7, <3>1, IdleSound DEF Cleaned
    <3>3. Cleaned(c, ScheduleClose(d))
      BY <2>3, <2>5, <2>6, <2>7, CleansClosing
    <3>. QED
      BY <2>4, <3>2, <3>3
  <2>8. CASE ~c.closing
    <3>1. ScheduleClose(d) = d
      BY <2>5, <2>8 DEF ScheduleClose
    <3>2. Cleaned(c, d)
      BY <1>0, <2>1, <2>3, <2>5, <2>6, <2>8, CleansOpen
    <3>. QED
      BY <2>4, <3>1, <3>2
  <2>. QED
    BY <2>7, <2>8
<1>. QED
  BY <1>1, <1>2, <1>3

\* A candidate that is free starts on rev, which is newer than its base.
Started(c, d, rev) ==
    /\ CandSound(d) /\ IsActive(d) /\ d.active.rev = rev /\ d.active.phase = "none"
    /\ ~d.closing /\ Owned(d) = Owned(c) /\ Kept(c.green, d.green)

Free(c) == ~c.closing /\ ~IsActive(c) /\ ~Cleaning(c) /\ c.green.pend.k = "none" /\ c.green.cleanup = <<>>

LEMMA StartsWork ==
    ASSUME NEW c, CandSound(c), Free(c), NEW rev \in Revs, \A o \in Owned(c) : o < rev,
           NEW d \in Cands, ActiveSound(d.active), d.active.st \in Parses, d.active.rev = rev,
           BaseSound(d), Owned(d) = Owned(c), ~d.closing, ~Cleaning(d),
           GreenSound(d.green), Kept(c.green, d.green), Short(d.green),
           d.green.pend.k \in GreenStages, d.green.pend.rev = rev
    PROVE  Started(c, d, rev)
<1>1. IsActive(d) /\ d.active.phase = "none"
  BY DEF IsActive, Parses, ExactStarts, ActiveSound, Streams
<1>2. WorkSound(d)
  BY DEF WorkSound, GreenStages
<1>3. ASSUME NEW o \in Owned(d) PROVE Holds(d.green, o)
  <2>1. o \in Owned(c)
    BY <1>3
  <2>2. o \in Revs /\ Holds(c.green, o)
    BY <2>1, CandTyped, Numbers DEF CandSound, CloseSound, Owned, Free
  <2>. QED
    BY <2>2 DEF Kept
<1>4. CloseSound(d)
  BY <1>3 DEF CloseSound
<1>. QED
  BY <1>1, <1>2, <1>4 DEF CandSound, Started

LEMMA StartCleanSound ==
    ASSUME NEW c, CandSound(c), Free(c), NEW rev \in Revs, \A o \in Owned(c) : o < rev
    PROVE  StartOk(c) /\ Started(c, StartClean(c, rev), rev)
<1>. DEFINE h == GreenStartClean(c.green, rev)
            a == [Idle EXCEPT !.st = "parsing", !.rev = rev]
            d == StartClean(c, rev)
<1>1. /\ GreenSound(h) /\ Kept(c.green, h) /\ Short(h) /\ h.pend.k \in GreenStages /\ h.pend.rev = rev
      /\ h \in Slots
  BY GreenStartSound DEF CandSound, Free, GreenSound
<1>2. /\ a \in Actives /\ ActiveSound(a) /\ a.st \in Parses /\ a.rev = rev /\ a.base = None
  BY Numbers DEF Idle, Actives, Stages, ActiveSound, HoldsBase, LegacyBuilds, Streams, Parses, ExactStarts, Sealing, Phases
<1>3. d = [c EXCEPT !.active = a, !.green = h]
  BY CandTyped DEF StartClean, Cands
<1>4. /\ d \in Cands /\ d.active = a /\ d.green = h /\ d.retained = c.retained /\ d.cleanup = c.cleanup
      /\ ~d.closing
  <2>. HIDE DEF a, h, d
  <2>. QED
    <3>0. c \in Cands /\ a \in Actives /\ None \in OptRev
      BY <1>2, CandTyped, Numbers
    <3>1. (d.closing <=> c.closing) /\ d \in Cands /\ d.active = a /\ d.green = h
          /\ d.retained = c.retained /\ d.cleanup = c.cleanup
      BY <1>1, <1>2, <1>3, <3>0 DEF Cands
    <3>. QED
      BY <3>1 DEF Free
<1>. HIDE DEF a, h, d
<1>5. BaseSound(d) /\ Owned(d) = Owned(c) /\ ~Cleaning(d)
  BY <1>2, <1>4, CandTyped, StageFacts DEF Free, BaseSound, Owned, Cleaning, CandSound
<1>6. StartOk(c)
  BY DEF StartOk, Free, GreenBusy
<1>. QED
  BY <1>1, <1>2, <1>4, <1>5, <1>6, StartsWork DEF d

LEMMA StartIncrementalSound ==
    ASSUME NEW c, CandSound(c), Free(c), NEW rev \in Revs, \A o \in Owned(c) : o < rev,
           c.retained # None, NEW st \in ExactStarts, NEW declined \in BOOLEAN
    PROVE  StartIncrementalOk(c, c.retained, st) /\ Started(c, StartIncremental(c, rev, st, declined), rev)
<1>. DEFINE h == GreenStartIncremental(c.green, c.retained, rev, declined)
            a == [Idle EXCEPT !.st = st, !.rev = rev, !.base = c.retained]
            d == StartIncremental(c, rev, st, declined)
<1>0. c.retained \in OptRev /\ c.retained \in Owned(c) /\ c.retained < rev
  BY CandTyped DEF Owned
<1>1. /\ GreenSound(h) /\ Kept(c.green, h) /\ Short(h) /\ h.pend.k \in GreenStages /\ h.pend.rev = rev
      /\ h \in Slots
  BY <1>0, GreenStartSound DEF CandSound, Free, GreenSound
<1>2. /\ a \in Actives /\ ActiveSound(a) /\ a.st \in Parses /\ a.rev = rev /\ a.base = c.retained
  BY <1>0, Numbers DEF Idle, Actives, Stages, ActiveSound, HoldsBase, LegacyBuilds, Streams, Parses, ExactStarts, Sealing, Phases
<1>3. d = [c EXCEPT !.active = a, !.retained = None, !.green = h]
  BY CandTyped DEF StartIncremental, Cands
<1>4. /\ d \in Cands /\ d.active = a /\ d.green = h /\ d.retained = None /\ d.cleanup = c.cleanup
      /\ ~d.closing
  <2>. HIDE DEF a, h, d
  <2>. QED
    <3>0. c \in Cands /\ a \in Actives /\ None \in OptRev
      BY <1>2, CandTyped, Numbers
    <3>1. (d.closing <=> c.closing) /\ d \in Cands /\ d.active = a /\ d.green = h
          /\ d.retained = None /\ d.cleanup = c.cleanup
      BY <1>1, <1>2, <1>3, <3>0 DEF Cands
    <3>. QED
      BY <3>1 DEF Free
<1>. HIDE DEF a, h, d
<1>5. BaseSound(d) /\ Owned(d) = Owned(c) /\ ~Cleaning(d)
  BY <1>2, <1>4, CandTyped, StageFacts DEF Free, BaseSound, Owned, Cleaning, CandSound
<1>6. StartIncrementalOk(c, c.retained, st)
  <2>1. Holds(c.green, c.retained) /\ c.green.pend.base = None
    BY <1>0 DEF CandSound, CloseSound, Free, GreenSound, NoGreen
  <2>2. c.green.installed = c.retained
    BY <2>1 DEF Holds, Free
  <2>. QED
    BY <2>2 DEF StartIncrementalOk, StartOk, Free, GreenBusy, GreenOwns
<1>. QED
  BY <1>1, <1>2, <1>4, <1>5, <1>6, StartsWork DEF d

-----------------------------------------------------------------------------
(* Receipts and answers of the host.                                       *)

\* A stream that moves on to another phase.
LEMMA PhaseSound ==
    ASSUME NEW c, CandSound(c), c.active.st \in Streams,
           NEW phase \in Phases, NEW sealed \in BOOLEAN, phase \in Sealing => sealed,
           NEW d \in Cands, d.green = c.green, d.closing = c.closing, d.retained = c.retained,
           d.cleanup = c.cleanup, d.active.st = c.active.st, d.active.rev = c.active.rev,
           d.active.base = c.active.base, d.active.phase = phase, d.active.sealed = sealed
    PROVE  CandSound(d) /\ Owned(d) = Owned(c)
<1>1. IsActive(c) /\ c.green.pend.k \in Ready /\ c.active.st # "none"
  BY DEF CandSound, WorkSound, IsActive, Streams, Parses, ExactStarts
<1>2. d.active \in Actives
  BY DEF Cands
<1>3. ActiveSound(d.active)
  BY <1>1, Numbers DEF ActiveSound, CandSound, Phases, Sealing
<1>. QED
  BY <1>1, <1>2, <1>3, StageSound

Credits == {"begin", "packet", "commit", "delivery"}

LEMMA CreditNames ==
    /\ DOMAIN CreditPhase = Credits
    /\ CreditPhase["begin"] = "awaitBegin" /\ CreditPhase["packet"] = "awaitPacket"
    /\ CreditPhase["commit"] = "awaitCommit" /\ CreditPhase["delivery"] = "awaitDelivery"
    /\ CreditNext["begin"] = "needPacket" /\ CreditNext["packet"] = "awaitPacketHost"
    /\ CreditNext["commit"] = "awaitCommitHost"
  BY DEF CreditPhase, CreditNext, Credits

\* The stream awaits this credit.
Awaits(c, credit) == c.active.st \in Streams /\ c.active.phase = CreditPhase[credit]

\* A credit that the stream awaits is taken.
LEMMA AcceptSound ==
    ASSUME NEW c, CandSound(c), NEW credit \in Credits, Awaits(c, credit)
    PROVE  LET d == Accept(c, credit)
           IN /\ AcceptOk(c, credit) /\ CandSound(d) /\ (d.closing <=> c.closing) /\ ~c.closing
              /\ credit # "delivery" =>
                   /\ IsActive(d) /\ d.active.rev = c.active.rev /\ d.active.phase # "awaitDelivery"
                   /\ Owned(d) = Owned(c) /\ d.green = c.green
              /\ credit = "delivery" =>
                   /\ d.active = Idle /\ Owned(d) = {c.active.rev} /\ d.green.installed = c.active.rev
                   /\ c.active.rev \in Revs
<1>. DEFINE d == Accept(c, credit)
            a == c.active
<1>1. /\ IsActive(c) /\ ~c.closing /\ ~Cleaning(c) /\ c.cleanup = NoCleanup /\ a.rev \in Revs
      /\ c.green.pend.k \in Ready /\ c.green.pend.rev = a.rev
      /\ \A o \in Owned(c) : o < a.rev
      /\ c \in Cands /\ a \in Actives
  BY CandTyped, Numbers DEF CandSound, WorkSound, CloseSound, ActiveSound, Awaits, IsActive, Streams,
                            Parses, ExactStarts
<1>2. CASE credit # "delivery"
  <2>1. AcceptOk(c, credit) /\ d = [c EXCEPT !.active.phase = CreditNext[credit]]
    BY <1>2 DEF AcceptOk, Accept, Awaits
  <2>2. CreditNext[credit] \in Phases /\ CreditNext[credit] # "awaitDelivery"
    BY <1>2, CreditNames DEF Credits, Phases, Sealing
  <2>3. /\ d \in Cands /\ d.green = c.green /\ d.closing = c.closing /\ d.retained = c.retained
        /\ d.cleanup = c.cleanup /\ d.active.st = a.st /\ d.active.rev = a.rev
        /\ d.active.base = a.base /\ d.active.phase = CreditNext[credit] /\ d.active.sealed = a.sealed
    <3>. DEFINE phase == CreditNext[credit]
    <3>. HIDE DEF phase, d
    <3>. QED
      BY <1>1, <2>1, <2>2 DEF Cands, Actives, phase
  <2>4. CreditNext[credit] \in Sealing => a.sealed
    BY <1>2, CreditNames DEF Credits, Sealing, Awaits, CandSound, ActiveSound
  <2>5. a.sealed \in BOOLEAN
    BY <1>1 DEF Actives
  <2>6. CandSound(d) /\ Owned(d) = Owned(c)
    <3>. HIDE DEF d
    <3>. QED
      BY <2>2, <2>3, <2>4, <2>5, PhaseSound DEF Awaits
  <2>7. IsActive(d)
    BY <1>1, <2>3 DEF IsActive
  <2>. QED
    BY <1>1, <1>2, <2>1, <2>2, <2>3, <2>6, <2>7
<1>3. CASE credit = "delivery"
  <2>1. GreenReadyFor(c.green, a.rev)
    BY <1>1 DEF GreenReadyFor, Ready
  <2>. DEFINE h == GreenCommit(c.green, a.rev)
              k == IF c.retained = None /\ a.base = None THEN NoCleanup ELSE Drop
  <2>2. /\ GreenCommitOk(c.green, a.rev) /\ GreenSound(h) /\ Short(h) /\ h.installed = a.rev /\ h \in Slots
    BY <1>1, <2>1, GreenCommitSound DEF CandSound, GreenSound
  <2>3. /\ a.sealed
        /\ c.retained = None \/ (c.retained < a.rev /\ a.base = None)
    <3>1. a.sealed
      BY <1>3, CreditNames DEF Awaits, CandSound, ActiveSound, Sealing
    <3>2. c.retained # None => c.retained < a.rev /\ a.base = None
      BY <1>1 DEF Owned, CandSound, BaseSound
    <3>. QED
      BY <3>1, <3>2
  <2>4. AcceptOk(c, credit)
    BY <1>1, <1>3, <2>2, <2>3 DEF AcceptOk, FinishOk, Awaits
  <2>5. d = [c EXCEPT !.active = Idle, !.retained = a.rev, !.green = h, !.cleanup = k] /\ k \in {NoCleanup, Drop}
    BY <1>1, <1>3, <2>4 DEF Accept, FinishDelivery, Cands
  <2>. HIDE DEF k, h, d
  <2>6. k \in Cleanups
    BY <2>5, StageFacts
  <2>7. /\ d \in Cands /\ d.active = Idle /\ d.retained = a.rev /\ d.green = h /\ d.cleanup = k
        /\ (d.closing <=> c.closing)
    BY <1>1, <2>2, <2>5, <2>6, StageFacts, Numbers DEF Cands
  <2>8. Owned(d) = {a.rev} /\ BaseSound(d)
    BY <1>1, <2>5, <2>7, StageFacts, Numbers DEF Owned, BaseSound
  <2>9. CloseSound(d)
    BY <1>1, <2>2, <2>7, <2>8 DEF CloseSound, Holds
  <2>. QED
    BY <1>1, <1>3, <2>2, <2>4, <2>7, <2>8, <2>9, IdleSound DEF d
<1>. QED
  BY <1>2, <1>3

\* The host has refused, taken a packet, or committed a stream; its commit is
\* answered by the delivery at once, for the slot is ready.
LEMMA HostPollSound ==
    ASSUME NEW c, CandSound(c), AwaitsHost(c), NEW rejected \in BOOLEAN
    PROVE  LET p == HostPoll(c, rejected)
           IN /\ rejected => p.ev = "none" /\ p.c = Cancel(c)
              /\ ~rejected =>
                   /\ CandSound(p.c) /\ (p.c.closing <=> c.closing) /\ p.c.active.rev = c.active.rev
                   /\ Owned(p.c) = Owned(c) /\ p.c.green = c.green /\ IsActive(p.c)
                   /\ p.ev = "none" => p.c.active.phase # "awaitDelivery"
                   /\ p.ev # "none" => p.ev = "delivery" /\ Awaits(p.c, "delivery")
<1>. DEFINE p == HostPoll(c, rejected)
            a == c.active
<1>1. /\ c.active.st \in Streams /\ c \in Cands /\ a \in Actives /\ a.sealed \in BOOLEAN
      /\ IsActive(c) /\ c.green.pend.k \in Ready /\ c.green.pend.rev = a.rev
  BY CandTyped DEF AwaitsHost, Cands, Actives, IsActive, Streams, CandSound, WorkSound, Parses, ExactStarts
<1>2. CASE rejected
  BY <1>2 DEF HostPoll, Quiet
<1>3. ASSUME NEW phase \in Phases, phase \in Sealing => a.sealed,
             NEW d, d = [c EXCEPT !.active.phase = phase]
      PROVE  /\ CandSound(d) /\ (d.closing <=> c.closing) /\ d.active.rev = a.rev
             /\ Owned(d) = Owned(c) /\ d.green = c.green /\ IsActive(d)
             /\ d.active.phase = phase /\ d.active.st = a.st
  <2>1. /\ d \in Cands /\ d.green = c.green /\ d.closing = c.closing /\ d.retained = c.retained
        /\ d.cleanup = c.cleanup /\ d.active.st = a.st /\ d.active.rev = a.rev
        /\ d.active.base = a.base /\ d.active.phase = phase /\ d.active.sealed = a.sealed
    BY <1>1, <1>3 DEF Cands, Actives
  <2>2. CandSound(d) /\ Owned(d) = Owned(c)
    BY <1>1, <1>3, <2>1, PhaseSound
  <2>. QED
    BY <1>1, <2>1, <2>2 DEF IsActive
<1>4. CASE ~rejected /\ a.phase = "awaitPacketHost"
  <2>1. PICK phase \in {"needCommit", "needPacket"} :
          p = Quiet([c EXCEPT !.active.phase = phase]) /\ (phase = "needCommit" => a.sealed)
    BY <1>4 DEF HostPoll
  <2>2. phase \in Phases /\ (phase \in Sealing => a.sealed) /\ phase # "awaitDelivery"
    BY <2>1 DEF Phases, Sealing
  <2>3. p.c = [c EXCEPT !.active.phase = phase] /\ p.ev = "none"
    BY <2>1 DEF Quiet
  <2>. HIDE DEF p
  <2>. QED
    BY <1>3, <1>4, <2>2, <2>3 DEF p
<1>5. CASE ~rejected /\ a.phase = "awaitCommitHost"
  <2>. DEFINE f == [c EXCEPT !.active.phase = "awaitGreen"]
  <2>1. /\ f.active.st \in Streams /\ f.active.phase = "awaitGreen" /\ f.active.rev = a.rev
        /\ f.green = c.green
    BY <1>1 DEF Cands, Actives
  <2>2. DeliveryReady(f)
    BY <1>1, <2>1 DEF DeliveryReady, GreenReadyFor, Ready
  <2>3. p = Deliver(f)
    BY <1>5, <2>2 DEF HostPoll, DeliverIfReady
  <2>4. p.c = [f EXCEPT !.active.phase = "awaitDelivery"] /\ p.ev = "delivery"
    BY <2>3 DEF Deliver
  <2>5. [f EXCEPT !.active.phase = "awaitDelivery"] = [c EXCEPT !.active.phase = "awaitDelivery"]
    BY <1>1 DEF Cands, Actives
  <2>6. a.sealed /\ "awaitDelivery" \in Phases
    BY <1>5 DEF CandSound, ActiveSound, Sealing, Phases
  <2>. HIDE DEF p, f
  <2>7. /\ CandSound(p.c) /\ (p.c.closing <=> c.closing) /\ p.c.active.rev = a.rev
        /\ Owned(p.c) = Owned(c) /\ p.c.green = c.green /\ IsActive(p.c)
        /\ p.c.active.phase = "awaitDelivery" /\ p.c.active.st = a.st
    <3>. DEFINE q == p.c
    <3>1. q = [c EXCEPT !.active.phase = "awaitDelivery"]
      BY <2>4, <2>5
    <3>. HIDE DEF q
    <3>2. /\ CandSound(q) /\ (q.closing <=> c.closing) /\ q.active.rev = a.rev
          /\ Owned(q) = Owned(c) /\ q.green = c.green /\ IsActive(q)
          /\ q.active.phase = "awaitDelivery" /\ q.active.st = a.st
      BY <1>3, <2>6, <3>1
    <3>. QED
      BY <3>2 DEF q
  <2>8. Awaits(p.c, "delivery")
    BY <1>1, <2>7, CreditNames DEF Awaits
  <2>. QED
    BY <1>5, <2>4, <2>7, <2>8 DEF p
<1>. QED
  BY <1>2, <1>4, <1>5 DEF AwaitsHost

-----------------------------------------------------------------------------
(* Polls.                                                                  *)

\* What a poll p of c does: it never delivers, it starts nothing, and unless a
\* derivation failed it loses no base.
Polled(c, p, mayFail) ==
    /\ CandSound(p.c) /\ (p.c.closing <=> c.closing) /\ Owned(p.c) \subseteq Owned(c)
    /\ ~mayFail => Owned(p.c) = Owned(c) /\ Kept(c.green, p.c.green)
    /\ ~IsActive(c) => /\ ~IsActive(p.c) /\ p.ev = "none"
                       /\ c.retained # None => p.c.retained = c.retained
                       /\ c.green.pend.k = "none" => p.c.green.pend.k = "none"
    /\ IsActive(p.c) => /\ p.c.active.rev = c.active.rev
                        /\ p.c.active.phase = "awaitDelivery" => c.active.phase = "awaitDelivery"
    /\ p.ev # "none" => p.ev \in Credits \ {"delivery"} /\ Awaits(p.c, p.ev)

LEMMA ReadyStages ==
    ASSUME NEW c, CandSound(c), IsActive(c)
    PROVE  /\ ~GreenTargetPending(c.green) => c.green.pend.k \in Ready
           /\ c.active.st \notin Parses => c.green.pend.k \in Ready
           /\ ~c.closing /\ ~Cleaning(c) /\ c.cleanup = NoCleanup
           /\ c.active.st # "none" /\ c.active.st \in Stages /\ c.active.rev # None
           /\ ~DeliveryReady(c)
<1>1. c.green.pend.k \in {"none"} \cup GreenStages \cup Ready /\ c.green.pend.k # "none"
  BY StageNames DEF CandSound, WorkSound, Slots, Pends, Ready, Cands
<1>2. c.active.phase # "awaitGreen"
  BY CandTyped DEF Actives, Phases, Sealing
<1>. QED
  BY <1>1, <1>2, CandTyped DEF GreenTargetPending, GreenStages, Ready, CandSound, WorkSound, CloseSound,
                                IsActive, ActiveSound, Actives, DeliveryReady

\* While its revision is built the slot has the session of the base as the
\* base of that build: blocks are parked, an exact parse is overtaken.
LEMMA SlotHasBase ==
    ASSUME NEW c, CandSound(c), c.active.st \in HoldsBase
    PROVE  c.active.base # None /\ c.green.pend.base = c.active.base /\ c.green.pend.rev = c.active.rev
<1>1. /\ IsActive(c) /\ ~c.closing /\ c.active.base # None
      /\ c.green.installed = None /\ c.green.cleanup = <<>> /\ c.green.pend.rev = c.active.rev
  BY DEF CandSound, ActiveSound, WorkSound, CloseSound, GreenSound, IsActive, HoldsBase, LegacyBuilds
<1>2. c.active.base \in Owned(c)
  BY <1>1 DEF Owned
<1>. QED
  BY <1>1, <1>2 DEF CandSound, CloseSound, Holds

LEMMA BlocksAreParked ==
    ASSUME NEW c, CandSound(c), c.active.st \in LegacyBuilds
    PROVE  Parked(c)
<1>1. c.active.st \in HoldsBase
  BY DEF HoldsBase
<1>. QED
  BY <1>1, SlotHasBase DEF Parked, GreenOwns

LEMMA QuietFields ==
    ASSUME NEW c
    PROVE  Quiet(c).c = c /\ Quiet(c).ev = "none"
  BY DEF Quiet

\* The next stage of the derivation.
LEMMA StageDoneSound ==
    ASSUME NEW c, CandSound(c), IsActive(c), c.green.pend.k \in Ready, c.active.st \notin Streams,
           NEW st \in Stages \ {"none", "buildingBlocks"},
           st \in HoldsBase <=> c.active.st \in HoldsBase, NEW mayFail
    PROVE  Polled(c, StageDone(c, st), mayFail)
<1>. DEFINE phase == IF st \in Streams THEN "needBegin" ELSE "none"
            d == [c EXCEPT !.active.st = st, !.active.phase = phase]
            a == c.active
<1>0. c \in Cands /\ a \in Actives /\ phase \in {"none"} \cup Phases /\ phase \notin Sealing
      /\ phase # "awaitDelivery"
  BY CandTyped DEF Phases, Sealing
<1>1. StageDone(c, st).c = d /\ StageDone(c, st).ev = "none"
  BY DEF StageDone, Quiet
<1>2. phase = "none" <=> st \notin Streams
  OBVIOUS
<1>. HIDE DEF phase
<1>3. /\ d \in Cands /\ d.active \in Actives /\ d.green = c.green /\ (d.closing <=> c.closing)
      /\ d.closing = c.closing /\ d.retained = c.retained /\ d.cleanup = c.cleanup
      /\ d.active.st = st /\ d.active.phase = phase /\ d.active.rev = a.rev /\ d.active.base = a.base
  BY <1>0 DEF Cands, Actives
<1>. HIDE DEF d
<1>4. ActiveSound(d.active)
  BY <1>0, <1>2, <1>3, ReadyStages DEF ActiveSound, CandSound
<1>5. CandSound(d) /\ Owned(d) = Owned(c)
  BY <1>3, <1>4, StageSound
<1>. QED
  BY <1>0, <1>1, <1>3, <1>5 DEF Polled, Kept

\* A derivation that fails keeps at most what it had.
LEMMA FailureSound ==
    ASSUME NEW c, CandSound(c), IsActive(c), NEW k \in Cleanups, NEW r \in OptRev,
           NEW h \in {c.green, GreenCancel(c.green)}, k.base # None <=> k.k = "restore",
           k.base # None => r = None, r \in {c.retained, c.active.base}, k.base \in {None, c.active.base},
           NEW p, p.c = [c EXCEPT !.active = Idle, !.cleanup = k, !.retained = r, !.green = h], p.ev = "none"
    PROVE  Polled(c, p, TRUE)
<1>. DEFINE d == p.c
<1>1. /\ GreenSound(h) /\ Kept(c.green, h) /\ h \in Slots /\ (Short(c.green) => Short(h))
      /\ ~c.closing
  <2>1. GreenSound(h) /\ Kept(c.green, h) /\ (Short(c.green) => Short(h))
    BY GreenCancelSound DEF CandSound, Kept
  <2>. QED
    BY <2>1, ReadyStages DEF GreenSound
<1>2. c \in Cands /\ Idle \in Actives
  BY CandTyped, StageFacts
<1>3. /\ d \in Cands /\ d.active = Idle /\ d.cleanup = k /\ d.retained = r /\ d.green = h
      /\ (d.closing <=> c.closing)
  BY <1>1, <1>2 DEF Cands
<1>. HIDE DEF d
<1>4. Owned(d) \subseteq Owned(c) /\ BaseSound(d)
  BY <1>3, StageFacts DEF Owned, BaseSound
<1>5. ASSUME NEW o \in Owned(d) PROVE Holds(h, o)
  <2>1. o \in Owned(c)
    BY <1>4, <1>5
  <2>2. o \in Revs /\ Holds(c.green, o)
    BY <1>1, <2>1, CandTyped, Numbers DEF CandSound, CloseSound, Owned
  <2>. QED
    BY <1>1, <2>2 DEF Kept
<1>6. CloseSound(d)
  BY <1>1, <1>3, <1>5 DEF CloseSound, CandSound
<1>7. CandSound(d)
  BY <1>1, <1>3, <1>4, <1>6, IdleSound
<1>. QED
  BY <1>3, <1>4, <1>7, StageFacts DEF Polled, IsActive, d

\* All the ways in which a derivation fails.
LEMMA FailuresSound ==
    ASSUME NEW c, CandSound(c), IsActive(c)
    PROVE  /\ Polled(c, Fails(c), TRUE)
           /\ Polled(c, FailsSilently(c), TRUE)
           /\ Polled(c, FailsWithGreen(c), TRUE)
           /\ c.active.st \in HoldsBase => Polled(c, FailsKeepingBase(c), TRUE)
           /\ c.active.st \in HoldsBase => Polled(c, FailsRestoring(c), TRUE)
<1>1. /\ c \in Cands /\ Drop \in Cleanups /\ NoCleanup \in Cleanups /\ c.cleanup = NoCleanup
      /\ c.retained \in OptRev /\ c.active.base \in OptRev
      /\ Drop.base = None /\ Drop.k = "drop" /\ NoCleanup.base = None /\ NoCleanup.k = "none"
  BY CandTyped, StageFacts, ReadyStages
<1>2. Polled(c, Fails(c), TRUE)
  <2>1. Fails(c).c = [c EXCEPT !.active = Idle, !.cleanup = Drop, !.retained = c.retained, !.green = c.green]
        /\ Fails(c).ev = "none"
    BY <1>1 DEF Fails, Quiet, Cands
  <2>. QED
    BY <1>1, <2>1, FailureSound
<1>3. Polled(c, FailsSilently(c), TRUE)
  <2>1. FailsSilently(c).c = [c EXCEPT !.active = Idle, !.cleanup = NoCleanup, !.retained = c.retained, !.green = c.green]
        /\ FailsSilently(c).ev = "none"
    BY <1>1 DEF FailsSilently, Quiet, Cands
  <2>. QED
    BY <1>1, <2>1, FailureSound
<1>4. Polled(c, FailsWithGreen(c), TRUE)
  <2>1. FailsWithGreen(c).c = [c EXCEPT !.active = Idle, !.cleanup = Drop, !.retained = c.retained, !.green = GreenCancel(c.green)]
        /\ FailsWithGreen(c).ev = "none"
    BY <1>1 DEF FailsWithGreen, Quiet, Cands
  <2>. QED
    BY <1>1, <2>1, FailureSound
<1>5. ASSUME c.active.st \in HoldsBase PROVE c.active.base # None /\ c.retained = None
  BY <1>5 DEF CandSound, ActiveSound, BaseSound
<1>6. ASSUME c.active.st \in HoldsBase PROVE Polled(c, FailsKeepingBase(c), TRUE)
  <2>1. FailsKeepingBase(c).c = [c EXCEPT !.active = Idle, !.cleanup = Drop, !.retained = c.active.base, !.green = c.green]
        /\ FailsKeepingBase(c).ev = "none"
    BY <1>1, <1>5, <1>6 DEF FailsKeepingBase, Quiet, Cands
  <2>. QED
    BY <1>1, <2>1, FailureSound
<1>7. ASSUME c.active.st \in HoldsBase PROVE Polled(c, FailsRestoring(c), TRUE)
  <2>1. FailsRestoring(c).c = [c EXCEPT !.active = Idle, !.cleanup = Restore(c.active.base), !.retained = c.retained, !.green = c.green]
        /\ FailsRestoring(c).ev = "none"
    BY <1>1, <1>5, <1>7 DEF FailsRestoring, Quiet, Cands
  <2>2. /\ Restore(c.active.base) \in Cleanups /\ Restore(c.active.base).k = "restore"
        /\ Restore(c.active.base).base = c.active.base
    BY <1>1, StageFacts
  <2>. QED
    BY <1>1, <1>5, <1>7, <2>1, <2>2, FailureSound
<1>. QED
  BY <1>2, <1>3, <1>4, <1>6, <1>7

\* The frames of a stream.
LEMMA StreamPollsSound ==
    ASSUME NEW c, CandSound(c), c.active.st \in Streams, NEW p \in StreamPolls(c), NEW mayFail
    PROVE  Polled(c, p, mayFail)
<1>. DEFINE a == c.active
<1>0. c \in Cands /\ a \in Actives /\ a.sealed \in BOOLEAN /\ IsActive(c)
  BY CandTyped DEF Actives, IsActive, Streams
<1>1. ASSUME NEW phase \in Phases \ {"awaitDelivery"}, NEW sealed \in BOOLEAN, phase \in Sealing => sealed,
             NEW credit \in Credits \ {"delivery"}, phase = CreditPhase[credit],
             NEW d \in Cands, d.green = c.green, d.closing = c.closing, d.retained = c.retained,
             d.cleanup = c.cleanup, d.active.st = a.st, d.active.rev = a.rev,
             d.active.base = a.base, d.active.phase = phase, d.active.sealed = sealed,
             p = [c |-> d, ev |-> credit]
      PROVE  Polled(c, p, mayFail)
  <2>1. CandSound(d) /\ Owned(d) = Owned(c)
    BY <1>1, PhaseSound
  <2>2. Awaits(d, credit)
    BY <1>1 DEF Awaits
  <2>3. p.c = d /\ p.ev = credit
    BY <1>1
  <2>. QED
    BY <1>0, <1>1, <2>1, <2>2, <2>3 DEF Polled, Kept
<1>2. ASSUME NEW phase \in Phases, NEW d, d = [c EXCEPT !.active.phase = phase]
      PROVE  /\ d \in Cands /\ d.green = c.green /\ d.closing = c.closing /\ d.retained = c.retained
             /\ d.cleanup = c.cleanup /\ d.active.st = a.st /\ d.active.rev = a.rev
             /\ d.active.base = a.base /\ d.active.phase = phase /\ d.active.sealed = a.sealed
  BY <1>0, <1>2 DEF Cands, Actives
<1>3. CASE a.phase = "needBegin"
  <2>. DEFINE d == [c EXCEPT !.active.phase = "awaitBegin"]
  <2>1. p = [c |-> d, ev |-> "begin"]
    BY <1>3 DEF StreamPolls
  <2>2. "awaitBegin" \in Phases \ Sealing /\ "awaitBegin" # "awaitDelivery"
    BY DEF Phases, Sealing
  <2>3. /\ d \in Cands /\ d.green = c.green /\ d.closing = c.closing /\ d.retained = c.retained
        /\ d.cleanup = c.cleanup /\ d.active.st = a.st /\ d.active.rev = a.rev
        /\ d.active.base = a.base /\ d.active.phase = "awaitBegin" /\ d.active.sealed = a.sealed
    BY <1>2, <2>2
  <2>. HIDE DEF d
  <2>. QED
    BY <1>0, <1>1, <2>1, <2>2, <2>3, CreditNames DEF Credits
<1>4. CASE a.phase = "needPacket"
  <2>1. PICK end \in BOOLEAN :
          p = [c |-> [c EXCEPT !.active.phase = "awaitPacket", !.active.sealed = end], ev |-> "packet"]
    BY <1>4 DEF StreamPolls
  <2>2. "awaitPacket" \in Phases \ Sealing /\ "awaitPacket" # "awaitDelivery"
    BY DEF Phases, Sealing
  <2>. DEFINE f == [c EXCEPT !.active.phase = "awaitPacket"]
              d == [f EXCEPT !.active.sealed = end]
  <2>3. d = [c EXCEPT !.active.phase = "awaitPacket", !.active.sealed = end]
    BY <1>0 DEF Cands, Actives
  <2>4. /\ f \in Cands /\ f.green = c.green /\ f.closing = c.closing /\ f.retained = c.retained
        /\ f.cleanup = c.cleanup /\ f.active.st = a.st /\ f.active.rev = a.rev
        /\ f.active.base = a.base /\ f.active.phase = "awaitPacket"
    BY <1>0, <2>2 DEF Cands, Actives
  <2>. HIDE DEF f
  <2>5. /\ d \in Cands /\ d.green = c.green /\ d.closing = c.closing /\ d.retained = c.retained
        /\ d.cleanup = c.cleanup /\ d.active.st = a.st /\ d.active.rev = a.rev
        /\ d.active.base = a.base /\ d.active.phase = "awaitPacket" /\ d.active.sealed = end
    BY <2>4 DEF Cands, Actives
  <2>6. p = [c |-> d, ev |-> "packet"]
    BY <2>1, <2>3
  <2>. HIDE DEF d
  <2>. QED
    BY <1>1, <2>2, <2>5, <2>6, CreditNames DEF Credits
<1>6. CASE a.phase = "needCommit"
  <2>. DEFINE d == [c EXCEPT !.active.phase = "awaitCommit"]
  <2>1. p = [c |-> d, ev |-> "commit"]
    BY <1>6 DEF StreamPolls
  <2>2. "awaitCommit" \in Phases /\ "awaitCommit" # "awaitDelivery" /\ a.sealed
    BY <1>6 DEF Phases, Sealing, CandSound, ActiveSound
  <2>3. /\ d \in Cands /\ d.green = c.green /\ d.closing = c.closing /\ d.retained = c.retained
        /\ d.cleanup = c.cleanup /\ d.active.st = a.st /\ d.active.rev = a.rev
        /\ d.active.base = a.base /\ d.active.phase = "awaitCommit" /\ d.active.sealed = a.sealed
    BY <1>2, <2>2
  <2>. HIDE DEF d
  <2>. QED
    BY <1>0, <1>1, <2>1, <2>2, <2>3, CreditNames DEF Credits
<1>5. CASE a.phase \notin {"needBegin", "needPacket", "needCommit"}
  BY <1>5 DEF StreamPolls
<1>. QED
  BY <1>3, <1>4, <1>5, <1>6

\* A stage that is done, or fails.
LEMMA ActivePollsSound ==
    ASSUME NEW c, CandSound(c), IsActive(c), ~GreenTargetPending(c.green), ~Preempted(c),
           NEW mayFail \in BOOLEAN, NEW p \in ActivePolls(c, mayFail)
    PROVE  Polled(c, p, mayFail)
<1>. DEFINE st == c.active.st
<1>0. c.green.pend.k \in Ready /\ st \in Stages \ {"none"}
  BY ReadyStages
<1>1. ASSUME NEW to \in Stages \ {"none", "buildingBlocks"}, to \in HoldsBase <=> st \in HoldsBase, st \notin Streams,
             p = StageDone(c, to)
      PROVE  Polled(c, p, mayFail)
  BY <1>0, <1>1, StageDoneSound
<1>2. ASSUME mayFail,
             \/ p \in {Fails(c), FailsSilently(c), FailsWithGreen(c)}
             \/ st \in HoldsBase /\ p \in {FailsKeepingBase(c), FailsRestoring(c)}
      PROVE  Polled(c, p, mayFail)
  BY <1>2, FailuresSound
<1>3. CASE st = "parsing"
  <2>1. p = StageDone(c, "building") \/ (mayFail /\ p = FailsSilently(c))
    BY <1>3 DEF ActivePolls, FinishParsing, If, LegacyBuilds, Streams
  <2>. QED
    BY <1>1, <1>2, <1>3, <2>1 DEF Stages, HoldsBase, LegacyBuilds, Streams
<1>4. CASE st = "building"
  <2>1. p = StageDone(c, "streaming") \/ (mayFail /\ p = Fails(c))
    BY <1>4 DEF ActivePolls, FinishBuilding, If, LegacyBuilds, Streams
  <2>. QED
    BY <1>1, <1>2, <1>4, <2>1 DEF Stages, HoldsBase, LegacyBuilds, Streams
<1>5. CASE st = "parsingExact"
  <2>1. c.active.base # None /\ c.green.pend.base = c.active.base
    BY <1>5, SlotHasBase DEF HoldsBase
  <2>. QED
    BY <1>0, <1>5, <2>1 DEF Preempted, Ready
<1>6. CASE st = "parsingLocal"
  <2>1. \/ p \in {StageDone(c, "buildingLocal"), StageDone(c, "parsingFallback")}
        \/ mayFail /\ p \in {Fails(c), FailsSilently(c)}
    BY <1>6 DEF ActivePolls, FinishParsingLocal, If, LegacyBuilds, Streams
  <2>. QED
    BY <1>1, <1>2, <1>6, <2>1 DEF Stages, HoldsBase, LegacyBuilds, Streams
<1>7. CASE st = "parsingFallback"
  <2>1. /\ c.green.pend.base = c.active.base /\ c.green.pend.rev = c.active.rev
        /\ c.green.pend.k = "readyClean"
    BY <1>0, <1>7, SlotHasBase DEF HoldsBase, Preempted, Ready
  <2>2. p \in {StageDone(c, "buildingExact"), StageDone(c, "buildingFallback")} \/ (mayFail /\ p = Fails(c))
    BY <1>7, <2>1 DEF ActivePolls, FinishParsingFallback, If, LegacyBuilds, Streams
  <2>. QED
    BY <1>1, <1>2, <1>7, <2>2 DEF Stages, HoldsBase, LegacyBuilds, Streams
<1>8. CASE st = "buildingFallback"
  <2>1. p = StageDone(c, "streamingFallback") \/ (mayFail /\ p \in {Fails(c), FailsKeepingBase(c)})
    BY <1>8 DEF ActivePolls, FinishBuildingFallback, If, LegacyBuilds, Streams
  <2>. QED
    BY <1>1, <1>2, <1>8, <2>1 DEF Stages, HoldsBase, LegacyBuilds, Streams
<1>9. CASE st = "buildingExact"
  <2>1. \/ p = StageDone(c, "streamingExact")
        \/ mayFail /\ p \in {Fails(c), FailsKeepingBase(c), FailsRestoring(c)}
    BY <1>9 DEF ActivePolls, FinishBuildingExact, If, LegacyBuilds, Streams
  <2>. QED
    BY <1>1, <1>2, <1>9, <2>1 DEF Stages, HoldsBase, LegacyBuilds, Streams
<1>10. CASE st \in Streams
  <2>1. p \in StreamPolls(c)
    BY <1>10 DEF ActivePolls, LegacyBuilds, Streams
  <2>. QED
    BY <1>10, <2>1, StreamPollsSound
<1>11. CASE st \in LegacyBuilds
  <2>1. Parked(c)
    BY <1>11, BlocksAreParked
  <2>2. p \in FinishBuildingLegacy(c, mayFail)
    BY <1>11 DEF ActivePolls, LegacyBuilds, Streams
  <2>. QED
    BY <2>1, <2>2 DEF FinishBuildingLegacy
<1>12. CASE st = "awaitingGreen"
  <2>1. st \notin Streams /\ st \notin {"parsing", "building", "parsingExact", "parsingLocal", "parsingFallback",
                                        "buildingFallback", "buildingExact"} \cup LegacyBuilds
    BY <1>12 DEF Streams, LegacyBuilds
  <2>2. ActivePolls(c, mayFail) = {}
    BY <2>1 DEF ActivePolls
  <2>. QED
    BY <2>2
<1>. QED
  BY <1>0, <1>3, <1>4, <1>5, <1>6, <1>7, <1>8, <1>9, <1>10, <1>11, <1>12 DEF Stages, HoldsBase, LegacyBuilds, Streams

\* A parse that the slot has made needless.
LEMMA PreemptSound ==
    ASSUME NEW c, CandSound(c), IsActive(c), Preempted(c), NEW mayFail \in BOOLEAN, NEW p \in Preempt(c, mayFail)
    PROVE  Polled(c, p, mayFail)
<1>1. \/ p \in {StageDone(c, "buildingExact"), StageDone(c, "parsingFallback")}
      \/ mayFail /\ p = FailsWithGreen(c)
  BY DEF Preempt, If
<1>2. c.green.pend.k \in Ready /\ c.active.st \in HoldsBase \ Streams
  BY DEF Preempted, Ready, HoldsBase, LegacyBuilds, Streams
<1>3. "buildingExact" \in Stages \ {"none", "buildingBlocks"} /\ "parsingFallback" \in Stages \ {"none", "buildingBlocks"}
      /\ {"buildingExact", "parsingFallback"} \subseteq HoldsBase
  BY DEF Stages, HoldsBase
<1>. QED
  BY <1>1, <1>2, <1>3, StageDoneSound, FailuresSound

\* A slot that moves on alone.
LEMMA SlotPollSound ==
    ASSUME NEW c, CandSound(c), ~c.closing, NEW h, GreenSound(h), Kept(c.green, h), Short(h),
           IsActive(c) => /\ h.pend.k # "none" /\ h.pend.rev = c.active.rev
                          /\ c.active.st \notin Parses => h.pend.k \in Ready,
           c.green.pend.k = "none" => h.pend.k = "none",
           NEW p, p.c = [c EXCEPT !.green = h], p.ev = "none", NEW mayFail
    PROVE  Polled(c, p, mayFail)
<1>. DEFINE d == p.c
<1>1. c \in Cands /\ h \in Slots
  BY CandTyped DEF GreenSound
<1>2. /\ d \in Cands /\ d.green = h /\ (d.closing <=> c.closing) /\ d.retained = c.retained
      /\ d.cleanup = c.cleanup /\ d.active = c.active
  BY <1>1 DEF Cands
<1>. HIDE DEF d
<1>3. Owned(d) = Owned(c) /\ BaseSound(d) /\ ActiveSound(d.active)
  BY <1>2 DEF Owned, BaseSound, CandSound
<1>4. WorkSound(d)
  BY <1>2, <1>3 DEF WorkSound, CandSound, IsActive, Cleaning
<1>5. ASSUME NEW o \in Owned(d) PROVE Holds(h, o)
  <2>1. o \in Owned(c)
    BY <1>3, <1>5
  <2>2. o \in Revs /\ Holds(c.green, o)
    BY <2>1, CandTyped, Numbers DEF CandSound, CloseSound, Owned
  <2>. QED
    BY <2>2 DEF Kept
<1>6. CloseSound(d)
  BY <1>2, <1>5 DEF CloseSound
<1>7. CandSound(d)
  BY <1>2, <1>3, <1>4, <1>6 DEF CandSound
<1>. QED
  BY <1>2, <1>3, <1>7 DEF Polled, IsActive, d

LEMMA PollsSound ==
    ASSUME NEW c, CandSound(c), c.closing => Spent(c), NEW mayFail \in BOOLEAN, NEW p \in Polls(c, mayFail)
    PROVE  Polled(c, p, mayFail)
<1>0. /\ c.closing => ~Cleaning(c) /\ c.green.cleanup = <<>> /\ ~IsActive(c) /\ c.green.pend.k = "none"
      /\ c \in Cands /\ GreenSound(c.green) /\ c.green \in Slots
  BY StageFacts, CandTyped DEF Spent, Cleaning, IsActive, NoGreen, CandSound
<1>1. CASE Cleaning(c)
  <2>1. p = Quiet(PollCleanup(c)) /\ p.c = PollCleanup(c) /\ p.ev = "none"
    BY <1>1, QuietFields DEF Polls
  <2>2. ~IsActive(c) /\ ~c.closing
    BY <1>0, <1>1 DEF CandSound, WorkSound
  <2>3. Cleaned(c, p.c)
    BY <2>1, <2>2, PollCleanupSound
  <2>. QED
    BY <2>1, <2>2, <2>3, StageFacts DEF Cleaned, Polled, IsActive
<1>2. CASE ~Cleaning(c) /\ GreenTargetPending(c.green)
  <2>1. PICK h \in GreenPollTarget(c.green) : p = DeliverIfReady([c EXCEPT !.green = h])
    BY <1>2 DEF Polls
  <2>2. /\ GreenSound(h) /\ Kept(c.green, h) /\ h.cleanup = c.green.cleanup
        /\ h.pend.k # "none" /\ h.pend.rev = c.green.pend.rev /\ h \in Slots
    BY <1>0, <1>2, GreenPollTargetSound DEF GreenSound
  <2>3. c.green.pend.k # "none" /\ c.green.pend.k \notin Ready /\ ~c.closing
    BY <1>0, <1>2 DEF GreenTargetPending, Ready
  <2>. DEFINE d == [c EXCEPT !.green = h]
  <2>4. d.active = c.active
    BY <1>0 DEF Cands
  <2>5. ~DeliveryReady(d)
    <3>1. c.active.phase # "awaitGreen"
      BY CandTyped DEF Actives, Phases, Sealing
    <3>. QED
      BY <2>4, <3>1 DEF DeliveryReady
  <2>6. p.c = d /\ p.ev = "none"
    BY <2>1, <2>5, QuietFields DEF DeliverIfReady
  <2>7. IsActive(c) => /\ h.pend.rev = c.active.rev /\ c.active.st \in Parses
    BY <2>2, <2>3 DEF CandSound, WorkSound, IsActive
  <2>8. Short(h)
    BY <2>2, <2>3 DEF Short, CandSound, CloseSound
  <2>. QED
    BY <2>2, <2>3, <2>6, <2>7, <2>8, SlotPollSound
<1>3. CASE ~Cleaning(c) /\ ~GreenTargetPending(c.green) /\ IsActive(c)
  <2>1. ~DeliveryReady(c)
    BY <1>3, ReadyStages
  <2>2. p \in IF Preempted(c) THEN Preempt(c, mayFail) ELSE ActivePolls(c, mayFail)
    BY <1>3, <2>1 DEF Polls
  <2>. QED
    BY <1>3, <2>2, PreemptSound, ActivePollsSound
<1>4. CASE ~Cleaning(c) /\ ~GreenTargetPending(c.green) /\ ~IsActive(c)
  <2>1. ~DeliveryReady(c) /\ ~Preempted(c)
    BY <1>4, CandTyped, StageFacts DEF DeliveryReady, Preempted, Streams, IsActive
  <2>. DEFINE h == GreenPollCleanup(c.green)
  <2>2. c.green.cleanup # <<>> /\ p = Quiet([c EXCEPT !.green = h])
    BY <1>4, <2>1 DEF Polls, Cands
  <2>3. p.c = [c EXCEPT !.green = h] /\ p.ev = "none" /\ ~c.closing
    BY <1>0, <2>2, QuietFields
  <2>4. GreenSound(h) /\ Kept(c.green, h) /\ Short(h) /\ h.pend = c.green.pend
    BY <1>0, GreenPollCleanupSound
  <2>. QED
    BY <1>4, <2>3, <2>4, SlotPollSound
<1>. QED
  BY <1>1, <1>2, <1>3, <1>4

-----------------------------------------------------------------------------
(* The endpoint.                                                           *)

CertStates == {"NotStarted", "Scanning", "Publishing", "AwaitingPromotion", "ExternallyEligible"}
FactsStates == {"none", "clean", "incremental"}

Eps == [life : Lifecycles, out : Events, exhausted : BOOLEAN, latched : BOOLEAN, failed : BOOLEAN,
        reseed : BOOLEAN, seeding : BOOLEAN, pinst : Stamps, pedit : Stamps, pcert : Certs, pinc : Certs,
        facts : FactsStates, rt : Runtimes, poisoned : BOOLEAN, target : Stamps,
        observed : OptRev, activeCert : OptRev, lastCert : OptRev, cand : Cands, cert : CertStates]

\* The facts that a delta would start from.
FactsBase(rt) == IF rt.undo = None THEN rt.facts ELSE rt.undo

\* A certification is under way.
Deriving(e) == e.facts # "none" \/ e.pcert # NoCert \/ e.pinc # NoCert

\* Nothing is installed or derived.
Cleared(e) ==
    /\ ~Deriving(e) /\ e.pedit = NoStamp /\ e.target = NoStamp /\ e.observed = None
    /\ e.activeCert = None /\ e.lastCert = None /\ e.cert = "NotStarted"

\* What any fault may find.
Sane(e) ==
    /\ e \in Eps /\ CandSound(e.cand)
    /\ e.rt.live => e.rt.rev \in Revs
    /\ ~e.rt.live => Spent(e.cand) /\ ~e.poisoned

\* What a close, a poison or the end of the runtime has cleared stays so.
RestSound(e) ==
    /\ e.latched \/ e.poisoned \/ ~e.rt.live => Cleared(e)
    /\ e.latched => e.cand.closing /\ e.pinst = NoStamp
    /\ e.poisoned => e.cand.closing
    /\ e.cand.closing /\ ~e.poisoned /\ ~e.latched => Spent(e.cand)

\* What a scan and a certification being published rely on.
FactsSound(e) ==
    /\ e.pcert # NoCert \/ e.pinc # NoCert => e.facts = "none"
    /\ e.facts = "clean" \/ e.pcert # NoCert => e.rt.undo = None
    /\ e.facts = "incremental" =>
         e.rt.undo # None /\ e.rt.undo = e.lastCert /\ e.cand.retained = e.lastCert /\ ~e.cand.closing
    /\ e.pcert # NoCert =>
         e.pcert.rev = e.rt.rev /\ e.observed = e.rt.rev /\ e.rt.facts = e.rt.rev
    /\ e.pinc # NoCert =>
         /\ e.pinc.rev = e.rt.rev /\ e.observed = e.rt.rev /\ e.rt.facts = e.rt.rev
         /\ e.pinc.base = e.lastCert /\ e.cand.retained = e.lastCert
         /\ e.rt.undo = e.lastCert /\ e.lastCert # None /\ ~e.cand.closing

\* The candidate waits for them, free once they are complete.
WaitSound(e) ==
    /\ Deriving(e) \/ e.pedit # NoStamp => ~IsActive(e.cand) /\ e.cand.green.pend.k = "none"
    /\ e.pcert # NoCert \/ e.pinc # NoCert => ~Cleaning(e.cand) /\ e.cand.green.cleanup = <<>>

\* The bases are of earlier revisions, and one with the facts' revision is the
\* one published last.
BasesSound(e) ==
    ~e.cand.closing =>
      \A o \in Owned(e.cand) :
        /\ o <= e.rt.rev
        /\ IsActive(e.cand) \/ Deriving(e) \/ e.pedit # NoStamp => o < e.rt.rev
        /\ o = FactsBase(e.rt) => o = e.lastCert

\* The candidate works on the certified revision.
CurrentSound(e) ==
    IsActive(e.cand) =>
      /\ e.cand.active.rev = e.rt.rev /\ e.rt.rev = e.observed /\ e.rt.facts = e.rt.rev
      /\ e.target = Stamp(e.observed, "known") /\ e.cert = "ExternallyEligible"
      /\ e.activeCert = e.cand.active.rev \/ e.cand.active.phase = "awaitDelivery"

Core(e) == Sane(e) /\ RestSound(e) /\ FactsSound(e) /\ WaitSound(e) /\ BasesSound(e) /\ CurrentSound(e)

CertEvents == {"certPage", "certDone"}
DeltaEvents == {"deltaBegin", "deltaPage", "deltaDone"}

\* Where the lifecycle is, with the event that is outstanding.
LifeSound(e) ==
    /\ e.latched => e.life \in {"Closing", "Closed", "Removable", "Faulted"}
    /\ ~e.latched =>
         /\ e.life \notin {"Closing", "Closed", "Removable"}
         /\ e.out \notin CloseEvents
         /\ e.out = "opened" => e.life = "Opening"
         /\ e.out = "failed" => e.life = "Faulted"
         /\ e.out \notin {"none", "opened", "failed"} => e.life = "Open"
    /\ e.out \in {"drained", "closed"} \/ e.life \in {"AwaitingOpen", "Opening", "Closed", "Removable"} => ~e.rt.live
    /\ e.life = "Faulted" => e.failed \/ e.exhausted \/ e.latched
    /\ e.poisoned => e.life \in {"Faulted", "Closing"}
    /\ e.latched /\ e.life = "Faulted" => e.exhausted
    /\ e.cert = "Scanning" => e.facts # "none"
    /\ e.cert = "Scanning" /\ e.life = "Open" => e.out = "none"

\* What is pending is what the outstanding event announced.
OutSound(e) ==
    /\ e.pcert # NoCert => e.out \in CertEvents
    /\ e.pinc # NoCert => e.out \in DeltaEvents
    /\ e.pinst # NoStamp => e.out = "installSeed" \/ (e.exhausted /\ e.life = "Faulted")
    /\ e.pedit # NoStamp => e.out = "installEdit" \/ (e.exhausted /\ e.life = "Faulted")
    /\ ~e.latched =>
         /\ e.out \in CertEvents => e.pcert # NoCert
         /\ e.out \in DeltaEvents => e.pinc # NoCert
         /\ e.out = "certPage" => e.pcert.left > 0
         /\ e.out = "deltaPage" => e.pinc.left > 0
         /\ e.out = "installSeed" => e.pinst # NoStamp /\ ~e.rt.live
         /\ e.out = "installEdit" => e.pedit # NoStamp /\ e.pedit.rev = e.rt.rev /\ e.rt.live
         /\ e.out \in Credits => Awaits(e.cand, e.out)
         /\ e.out = "delivery" =>
              e.lastCert = e.cand.active.rev /\ e.rt.undo = None /\ e.activeCert = None

Sound(e) == Core(e) /\ LifeSound(e) /\ OutSound(e)

\* The inductive invariant.
IInv == Sound(ep) /\ faults \in Sessions

\* The endpoints e and f differ at most in their lifecycle and what it emits.
Same(e, f) ==
    /\ f \in Eps /\ f.cand = e.cand /\ f.rt = e.rt /\ f.cert = e.cert
    /\ (f.poisoned <=> e.poisoned) /\ (f.latched <=> e.latched) /\ (f.exhausted <=> e.exhausted)
    /\ f.pinst = e.pinst /\ f.pedit = e.pedit /\ f.pcert = e.pcert /\ f.pinc = e.pinc
    /\ f.facts = e.facts /\ f.target = e.target /\ f.observed = e.observed
    /\ f.activeCert = e.activeCert /\ f.lastCert = e.lastCert

LEMMA SameCore ==
    ASSUME NEW e, Core(e), NEW f, Same(e, f)
    PROVE  Core(f)
<1>1. Sane(f)
  BY DEF Core, Same, Sane
<1>2. RestSound(f)
  BY DEF Core, Same, RestSound, Cleared, Deriving
<1>3. FactsSound(f)
  BY DEF Core, Same, FactsSound
<1>4. WaitSound(f)
  BY DEF Core, Same, WaitSound, Deriving
<1>5. BasesSound(f)
  BY DEF Core, Same, BasesSound, Deriving
<1>6. CurrentSound(f)
  BY DEF Core, Same, CurrentSound
<1>. QED
  BY <1>1, <1>2, <1>3, <1>4, <1>5, <1>6 DEF Core

LEMMA StateTypes ==
    /\ NoStamp \in Stamps /\ NoCert \in Certs /\ NoRuntime \in Runtimes
    /\ "none" \in Events /\ "none" \in FactsStates
    /\ NoStamp.rev = None /\ NoCert.rev = None
    /\ NoRuntime.rev = None /\ NoRuntime.undo = None /\ NoRuntime.facts = None /\ ~NoRuntime.live
<1>1. NoStamp \in Stamps /\ NoStamp.rev = None
  BY DEF Stamps, NoStamp
<1>2. NoCert \in Certs /\ NoCert.rev = None
  BY Numbers DEF Certs, NoCert
<1>3. /\ NoRuntime \in Runtimes /\ NoRuntime.rev = None /\ NoRuntime.undo = None
      /\ NoRuntime.facts = None /\ ~NoRuntime.live
  BY Numbers DEF Runtimes, NoRuntime
<1>. QED
  BY <1>1, <1>2, <1>3 DEF Events, FactsStates

LEMMA EpTyped ==
    ASSUME NEW e \in Eps
    PROVE  /\ e.life \in Lifecycles /\ e.out \in Events /\ e.exhausted \in BOOLEAN /\ e.latched \in BOOLEAN
           /\ e.failed \in BOOLEAN /\ e.reseed \in BOOLEAN /\ e.seeding \in BOOLEAN /\ e.pinst \in Stamps
           /\ e.pedit \in Stamps /\ e.pcert \in Certs /\ e.pinc \in Certs /\ e.facts \in FactsStates
           /\ e.rt \in Runtimes /\ e.poisoned \in BOOLEAN /\ e.target \in Stamps /\ e.observed \in OptRev
           /\ e.activeCert \in OptRev /\ e.lastCert \in OptRev /\ e.cand \in Cands /\ e.cert \in CertStates
  BY DEF Eps

\* An emission changes the lifecycle at most, and puts one event out.
LEMMA EmitFields ==
    ASSUME NEW e \in Eps, e.out = "none", NEW event \in Events
    PROVE  LET f == Emit(e, event)
           IN /\ Same(e, f) /\ f.failed = e.failed
              /\ ~e.exhausted => f.out = event /\ f.life = e.life /\ EmitOk(e)
              /\ e.exhausted => f.out = "none" /\ f.life = "Faulted" /\ ~EmitOk(e)
<1>1. CASE ~e.exhausted
  <2>1. Emit(e, event) = [e EXCEPT !.out = event]
    BY <1>1 DEF Emit
  <2>. DEFINE f == [e EXCEPT !.out = event]
  <2>2. f \in Eps
    BY DEF Eps
  <2>3. Same(e, f) /\ f.failed = e.failed /\ f.out = event /\ f.life = e.life
    BY <2>2 DEF Eps, Same
  <2>. QED
    BY <1>1, <2>1, <2>3 DEF EmitOk
<1>2. CASE e.exhausted
  <2>1. Emit(e, event) = [e EXCEPT !.reseed = TRUE, !.life = "Faulted"]
    BY <1>2 DEF Emit
  <2>. DEFINE f == [e EXCEPT !.reseed = TRUE, !.life = "Faulted"]
  <2>2. f \in Eps
    BY DEF Eps, Lifecycles
  <2>3. Same(e, f) /\ f.failed = e.failed /\ f.out = "none" /\ f.life = "Faulted"
    BY <2>2 DEF Eps, Same
  <2>. QED
    BY <1>2, <2>1, <2>3 DEF EmitOk
<1>. QED
  BY <1>1, <1>2

\* Nothing is pending.
QuietOut(e) == e.pinst = NoStamp /\ e.pedit = NoStamp /\ e.pcert = NoCert /\ e.pinc = NoCert

\* A scan is of facts.
Scans(e) == e.cert = "Scanning" => e.facts # "none"

\* An endpoint whose event identities have run out faults, and says so no more.
LEMMA ExhaustedSound ==
    ASSUME NEW e, Core(e), Scans(e), e.pcert = NoCert, e.pinc = NoCert, e.exhausted,
           NEW f, Same(e, f), f.out = "none", f.life = "Faulted"
    PROVE  Sound(f)
<1>1. Core(f)
  BY SameCore
<1>2. LifeSound(f)
  BY DEF LifeSound, Same, Scans, CloseEvents
<1>3. OutSound(f)
  BY DEF OutSound, Same, CertEvents, DeltaEvents, Credits
<1>. QED
  BY <1>1, <1>2, <1>3 DEF Sound

\* A fault is reported, or has been, or the identities have run out.
LEMMA FailClosedSound ==
    ASSUME NEW e, Core(e), Scans(e), QuietOut(e), e.out = "none", ~e.latched
    PROVE  /\ Sound(FailClosed(e)) /\ Same(e, FailClosed(e))
           /\ FailClosed(e).life = "Faulted"
<1>0. e \in Eps
  BY DEF Core, Sane
<1>. DEFINE f == [e EXCEPT !.reseed = TRUE, !.life = "Faulted"]
            g == [f EXCEPT !.failed = TRUE]
<1>1. f \in Eps /\ Same(e, f) /\ (f.failed <=> e.failed) /\ f.out = "none" /\ f.life = "Faulted"
  <2>1. f \in Eps
    BY <1>0 DEF Eps, Lifecycles
  <2>. QED
    BY <1>0, <2>1 DEF Eps, Same
<1>2. ASSUME NEW h, Same(e, h), h.failed, h.life = "Faulted", h.out \in {"none", "failed"}
      PROVE  Sound(h)
  <2>1. Core(h)
    BY <1>2, SameCore
  <2>2. LifeSound(h)
    BY <1>2 DEF LifeSound, Same, Scans, CloseEvents
  <2>3. OutSound(h)
    BY <1>2 DEF OutSound, Same, QuietOut, CertEvents, DeltaEvents, Credits
  <2>. QED
    BY <2>1, <2>2, <2>3 DEF Sound
<1>3. CASE e.failed
  <2>1. FailClosed(e) = f
    BY <1>3 DEF FailClosed
  <2>. QED
    BY <1>1, <1>2, <1>3, <2>1
<1>4. CASE ~e.failed
  <2>1. FailClosed(e) = Emit(g, "failed")
    BY <1>4 DEF FailClosed
  <2>2. g \in Eps /\ Same(e, g) /\ g.failed /\ g.out = "none" /\ g.life = "Faulted"
    <3>. HIDE DEF f
    <3>1. TRUE \in BOOLEAN
      OBVIOUS
    <3>2. g \in Eps
      BY <1>1, <3>1 DEF Eps
    <3>3. Same(f, g) /\ g.out = f.out /\ g.life = f.life
      BY <1>1, <3>2 DEF Eps, Same
    <3>4. g.failed
      BY <1>1 DEF Eps
    <3>. QED
      BY <1>1, <3>2, <3>3, <3>4 DEF Same
  <2>. HIDE DEF g
  <2>. DEFINE h == Emit(g, "failed")
  <2>3. /\ Same(g, h) /\ h.failed = g.failed
        /\ ~g.exhausted => h.out = "failed" /\ h.life = g.life
        /\ g.exhausted => h.out = "none" /\ h.life = "Faulted"
    <3>1. "failed" \in Events
      BY DEF Events
    <3>. QED
      BY <2>2, <3>1, EmitFields
  <2>. HIDE DEF h
  <2>4. Same(e, h) /\ h.failed /\ h.life = "Faulted" /\ h.out \in {"none", "failed"}
    BY <2>2, <2>3 DEF Same
  <2>. QED
    BY <1>2, <2>1, <2>4 DEF h
<1>. QED
  BY <1>3, <1>4

\* What a runtime that gives up its facts keeps.
LEMMA CancelFactsKeeps ==
    ASSUME NEW rt \in Runtimes
    PROVE  /\ CancelFacts(rt) \in Runtimes /\ (CancelFacts(rt).live <=> rt.live)
           /\ CancelFacts(rt).rev = rt.rev /\ CancelFacts(rt).undo = None
           /\ CancelFacts(rt).facts = FactsBase(rt) /\ FactsBase(CancelFacts(rt)) = FactsBase(rt)
<1>1. None \in OptRev
  BY Numbers
<1>2. CancelFacts(rt) \in Runtimes
  BY <1>1 DEF CancelFacts, Runtimes
<1>3. /\ (CancelFacts(rt).live <=> rt.live)
      /\ CancelFacts(rt).rev = rt.rev /\ CancelFacts(rt).undo = None
      /\ CancelFacts(rt).facts = FactsBase(rt)
  BY DEF CancelFacts, Runtimes, FactsBase
<1>4. FactsBase(CancelFacts(rt)) = FactsBase(rt)
  BY <1>3 DEF FactsBase
<1>. QED
  BY <1>2, <1>3, <1>4

LEMMA SpentStays ==
    ASSUME NEW c, CandSound(c), Spent(c)
    PROVE  Spent(Cancel(c)) /\ Spent(CancelForEdit(c))
<1>1. GreenCancel(c.green) = c.green
  BY GreenCancelSound DEF CandSound, Spent, NoGreen
<1>2. ~IsActive(c) /\ ~Cleaning(c) /\ ~InStream(c.active)
  BY StageFacts DEF Spent, IsActive, Cleaning, InStream
<1>3. Spent(Cancel(c))
  BY <1>1, <1>2, SoundIsCancellable, CancelMoves DEF Spent
<1>. QED
  BY <1>2, <1>3 DEF CancelForEdit

\* The runtime that faults is given up, with all that was derived from it.
LEMMA PoisonRuntimeSound ==
    ASSUME NEW e, Sane(e), ~e.latched
    PROVE  LET f == PoisonRuntime(e)
           IN /\ Core(f) /\ QuietOut(f) /\ Scans(f) /\ f.out = e.out /\ f.life = e.life
              /\ (f.latched <=> e.latched) /\ (f.exhausted <=> e.exhausted) /\ f.cand.closing
<1>0. e \in Eps /\ CandSound(e.cand)
  BY DEF Sane
<1>1. /\ CandSound(CloseCandidate(e.cand)) /\ CloseCandidate(e.cand).closing
      /\ Spent(e.cand) => Spent(CloseCandidate(e.cand))
  BY <1>0, CloseCandidateSound
<1>2. PICK d \in Cands : d = CloseCandidate(e.cand)
  BY <1>1 DEF CandSound
<1>3. PICK rt \in Runtimes : rt = CancelFacts(e.rt)
  BY <1>0, EpTyped, CancelFactsKeeps
<1>4. (rt.live <=> e.rt.live) /\ rt.rev = e.rt.rev /\ rt.undo = None
  BY <1>0, <1>3, EpTyped, CancelFactsKeeps
<1>5. PICK p \in BOOLEAN : p <=> e.poisoned \/ e.rt.live
  OBVIOUS
<1>. DEFINE g == ClearPendings(e)
            f == PoisonRuntime(e)
<1>6. /\ g \in Eps /\ g.pinst = NoStamp /\ g.pedit = NoStamp /\ g.cand = e.cand /\ g.rt = e.rt
      /\ (g.poisoned <=> e.poisoned) /\ g.out = e.out /\ g.life = e.life
      /\ (g.latched <=> e.latched) /\ (g.exhausted <=> e.exhausted)
  <2>1. g \in Eps
    BY <1>0, StateTypes DEF Eps, ClearPendings
  <2>. QED
    BY <1>0, <2>1 DEF Eps, ClearPendings
<1>7. f = [g EXCEPT !.pcert = NoCert, !.pinc = NoCert, !.facts = "none", !.cand = d,
             !.rt = rt, !.poisoned = p, !.target = NoStamp, !.observed = None, !.activeCert = None,
             !.lastCert = None, !.cert = "NotStarted", !.reseed = TRUE]
  <2>1. (g.poisoned \/ e.rt.live) = p
    BY <1>0, <1>5, <1>6, EpTyped DEF Eps, Runtimes
  <2>. QED
    BY <1>2, <1>3, <1>6, <2>1 DEF PoisonRuntime
<1>. HIDE DEF g, f
<1>8. /\ f \in Eps /\ f.cand = d /\ f.rt = rt /\ (f.poisoned <=> p) /\ f.out = e.out /\ f.life = e.life
      /\ (f.latched <=> e.latched) /\ (f.exhausted <=> e.exhausted)
      /\ f.pinst = NoStamp /\ f.pedit = NoStamp /\ f.pcert = NoCert /\ f.pinc = NoCert /\ f.facts = "none"
      /\ f.target = NoStamp /\ f.observed = None /\ f.activeCert = None /\ f.lastCert = None
      /\ f.cert = "NotStarted"
  <2>1. f \in Eps
    BY <1>6, <1>7, StateTypes, Numbers DEF Eps, CertStates, FactsStates
  <2>. QED
    BY <1>6, <1>7, <2>1 DEF Eps
<1>9. CandSound(d) /\ d.closing /\ (Spent(e.cand) => Spent(d)) /\ ~IsActive(d)
  BY <1>1, <1>2 DEF CandSound, CloseSound
<1>10. Sane(f)
  BY <1>4, <1>5, <1>8, <1>9 DEF Sane
<1>11. RestSound(f)
  BY <1>4, <1>5, <1>8, <1>9 DEF Sane, RestSound, Cleared, Deriving
<1>12. FactsSound(f) /\ WaitSound(f)
  BY <1>4, <1>8, <1>9 DEF FactsSound, WaitSound, Deriving
<1>13. BasesSound(f) /\ CurrentSound(f)
  BY <1>8, <1>9 DEF BasesSound, CurrentSound
<1>14. Core(f)
  BY <1>10, <1>11, <1>12, <1>13 DEF Core
<1>. QED
  BY <1>8, <1>9, <1>14 DEF QuietOut, Scans, f

\* Whatever a fault finds, it leaves a sound endpoint.
LEMMA PoisonAndFailSound ==
    ASSUME NEW e, Sane(e), e.out = "none", ~e.latched
    PROVE  Sound(PoisonAndFail(e)) /\ PoisonAndFail(e).cand.closing
<1>. DEFINE f == PoisonRuntime(e)
<1>1. Core(f) /\ QuietOut(f) /\ Scans(f) /\ f.out = "none" /\ ~f.latched /\ f.cand.closing
  BY PoisonRuntimeSound
<1>. HIDE DEF f
<1>2. Sound(FailClosed(f)) /\ Same(f, FailClosed(f))
  BY <1>1, FailClosedSound
<1>. QED
  BY <1>1, <1>2 DEF PoisonAndFail, Same, f

\* What is derived is given up; the source stays, and so does the base.
Dropped(e, f) ==
    /\ f \in Eps /\ Stopped(e.cand, f.cand) /\ (Spent(e.cand) => Spent(f.cand))
    /\ f.rt = CancelFacts(e.rt) /\ f.pcert = NoCert /\ f.pinc = NoCert /\ f.facts = "none"
    /\ f.activeCert = None /\ f.lastCert = e.lastCert /\ f.target = e.target /\ f.observed = e.observed
    /\ f.pinst = e.pinst /\ f.pedit = e.pedit /\ f.out = e.out /\ f.life = e.life
    /\ (f.poisoned <=> e.poisoned) /\ (f.latched <=> e.latched) /\ (f.exhausted <=> e.exhausted)
    /\ (f.failed <=> e.failed) /\ f.cert = e.cert

LEMMA CancelDerivedSound ==
    ASSUME NEW e \in Eps, CandSound(e.cand)
    PROVE  CancelOk(e.cand) /\ Dropped(e, CancelDerived(e))
<1>1. Stopped(e.cand, Cancel(e.cand)) /\ CancelOk(e.cand) /\ (Spent(e.cand) => Spent(Cancel(e.cand)))
  BY CancelSound, SoundIsCancellable, SpentStays
<1>2. PICK d \in Cands : d = Cancel(e.cand)
  BY <1>1 DEF Stopped, CandSound
<1>3. PICK rt \in Runtimes : rt = CancelFacts(e.rt)
  BY EpTyped, CancelFactsKeeps
<1>. DEFINE g == [e EXCEPT !.cand = d]
            f == ClearDerived(g)
<1>4. g \in Eps /\ g.cand = d /\ g.rt = e.rt /\ g.out = e.out /\ g.life = e.life /\ g.cert = e.cert
  BY DEF Eps
<1>5. f = [g EXCEPT !.pcert = NoCert, !.pinc = NoCert, !.facts = "none", !.activeCert = None, !.rt = rt]
  BY <1>3, <1>4 DEF ClearDerived
<1>6. f = [e EXCEPT !.cand = d, !.pcert = NoCert, !.pinc = NoCert, !.facts = "none", !.activeCert = None, !.rt = rt]
  BY <1>5
<1>7. CancelDerived(e) = f
  BY <1>1, <1>2 DEF CancelDerived
<1>. HIDE DEF f, g
<1>8. f \in Eps
  BY <1>6, StateTypes, Numbers DEF Eps, FactsStates
<1>9. /\ f.cand = d /\ f.rt = rt /\ f.pcert = NoCert /\ f.pinc = NoCert /\ f.facts = "none"
      /\ f.activeCert = None /\ f.lastCert = e.lastCert /\ f.target = e.target /\ f.observed = e.observed
      /\ f.pinst = e.pinst /\ f.pedit = e.pedit /\ f.out = e.out /\ f.life = e.life
      /\ (f.poisoned <=> e.poisoned) /\ (f.latched <=> e.latched) /\ (f.exhausted <=> e.exhausted)
      /\ (f.failed <=> e.failed) /\ f.cert = e.cert
  BY <1>6, <1>8 DEF Eps
<1>. QED
  BY <1>1, <1>2, <1>3, <1>7, <1>8, <1>9 DEF Dropped

\* An open endpoint without a source to install or edit.
Awake(e) ==
    /\ e.out = "none" /\ e.life = "Open" /\ ~e.latched /\ ~e.poisoned
    /\ e.pinst = NoStamp /\ e.pedit = NoStamp

LEMMA SupersededSound ==
    ASSUME NEW e, Core(e), Awake(e)
    PROVE  Sound(Superseded(e))
<1>0. e \in Eps /\ CandSound(e.cand)
  BY DEF Core, Sane
<1>1. CancelOk(e.cand) /\ Dropped(e, CancelDerived(e))
  BY <1>0, CancelDerivedSound
<1>2. PICK g : g = CancelDerived(e)
  OBVIOUS
<1>. DEFINE f == [g EXCEPT !.cert = "NotStarted"]
<1>3. Superseded(e) = f
  BY <1>1, <1>2 DEF Superseded
<1>4. /\ f \in Eps /\ f.cand = g.cand /\ f.rt = g.rt /\ f.cert = "NotStarted" /\ f.out = g.out /\ f.life = g.life
      /\ (f.poisoned <=> g.poisoned) /\ (f.latched <=> g.latched) /\ (f.exhausted <=> g.exhausted)
      /\ f.pinst = g.pinst /\ f.pedit = g.pedit /\ f.pcert = g.pcert /\ f.pinc = g.pinc
      /\ f.facts = g.facts /\ f.target = g.target /\ f.observed = g.observed
      /\ f.activeCert = g.activeCert /\ f.lastCert = g.lastCert
  <2>0. g \in Eps
    BY <1>1, <1>2 DEF Dropped
  <2>1. f \in Eps
    BY <2>0 DEF Eps, CertStates
  <2>. QED
    BY <2>0, <2>1 DEF Eps
<1>. HIDE DEF f
<1>5. Dropped(e, g)
  BY <1>1, <1>2
<1>6. /\ (f.rt.live <=> e.rt.live) /\ f.rt.rev = e.rt.rev /\ f.rt.undo = None
      /\ FactsBase(f.rt) = FactsBase(e.rt)
  BY <1>0, <1>4, <1>5, EpTyped, CancelFactsKeeps DEF Dropped
<1>7. /\ CandSound(f.cand) /\ ~IsActive(f.cand) /\ Owned(f.cand) = Owned(e.cand)
      /\ (f.cand.closing <=> e.cand.closing) /\ (Spent(e.cand) => Spent(f.cand))
  BY <1>4, <1>5, StageFacts DEF Dropped, Stopped, IsActive
<1>8. Sane(f)
  BY <1>4, <1>5, <1>6, <1>7 DEF Sane, Core, Dropped
<1>9. RestSound(f)
  BY <1>4, <1>5, <1>6, <1>7 DEF RestSound, Core, Dropped, Cleared, Deriving, Awake
<1>10. FactsSound(f) /\ WaitSound(f) /\ CurrentSound(f)
  BY <1>4, <1>5, <1>6, <1>7 DEF Dropped, FactsSound, WaitSound, CurrentSound, Deriving, Awake
<1>11. BasesSound(f)
  BY <1>4, <1>5, <1>6, <1>7 DEF BasesSound, Core, Dropped, Deriving, Awake
<1>12. LifeSound(f)
  BY <1>4, <1>5 DEF LifeSound, Dropped, Awake, CloseEvents
<1>13. OutSound(f)
  BY <1>4, <1>5 DEF OutSound, Dropped, Awake, CertEvents, DeltaEvents, Credits
<1>. QED
  BY <1>3, <1>8, <1>9, <1>10, <1>11, <1>12, <1>13 DEF Sound, Core

\* What a scan is started on: the source is installed, and the bases are of
\* earlier revisions.
Installed(e) ==
    /\ Sane(e) /\ Awake(e) /\ e.rt.live
    /\ e.cand.closing => Spent(e.cand)
    /\ ~e.cand.closing => \A o \in Owned(e.cand) : o < e.rt.rev /\ (o = FactsBase(e.rt) => o = e.lastCert)

LEMMA ScanSound ==
    ASSUME NEW e, Installed(e), NEW f \in Eps, Stopped(e.cand, f.cand), Spent(e.cand) => Spent(f.cand),
           f.pcert = NoCert, f.pinc = NoCert, f.activeCert = None, f.cert = "Scanning",
           Awake(f), f.rt.live, f.rt.rev = e.rt.rev,
           \/ f.facts = "clean" /\ f.rt.undo = None /\ f.rt.facts = None
           \/ /\ f.facts = "incremental" /\ f.rt.undo = FactsBase(e.rt) /\ f.rt.undo # None
              /\ f.lastCert = f.rt.undo /\ f.cand.retained = f.rt.undo /\ ~f.cand.closing
              /\ f.lastCert = e.lastCert
    PROVE  Sound(f)
<1>1. /\ CandSound(f.cand) /\ ~IsActive(f.cand) /\ Owned(f.cand) = Owned(e.cand)
      /\ (f.cand.closing <=> e.cand.closing) /\ f.cand.green.pend = NoGreen
  BY StageFacts DEF Stopped, IsActive
<1>2. Sane(f) /\ RestSound(f)
  BY <1>1 DEF Sane, Installed, Awake, RestSound
<1>3. FactsSound(f) /\ WaitSound(f) /\ CurrentSound(f)
  BY <1>1 DEF FactsSound, WaitSound, CurrentSound, Deriving, Awake, NoGreen
<1>4. BasesSound(f)
  <2>. SUFFICES ASSUME ~f.cand.closing, NEW o \in Owned(f.cand)
                PROVE  o < f.rt.rev /\ o <= f.rt.rev /\ (o = FactsBase(f.rt) => o = f.lastCert)
    BY DEF BasesSound
  <2>1. o < e.rt.rev /\ (o = FactsBase(e.rt) => o = e.lastCert) /\ o # None
    BY <1>1 DEF Installed, Owned
  <2>2. o \in Nat /\ f.rt.rev \in Nat
    <3>1. o \in OptRev
      BY <1>1, CandTyped DEF Owned
    <3>2. f.rt.rev \in OptRev
      BY EpTyped DEF Runtimes
    <3>. QED
      BY <3>1, <3>2, Numbers
  <2>. QED
    BY <2>1, <2>2 DEF FactsBase
<1>5. LifeSound(f) /\ OutSound(f)
  BY DEF LifeSound, OutSound, Awake, CloseEvents, CertEvents, DeltaEvents, Credits
<1>. QED
  BY <1>2, <1>3, <1>4, <1>5 DEF Sound, Core

\* A scan from the start, or of the delta from the publication of the facts.
LEMMA StartSourceFactsSound ==
    ASSUME NEW e, Installed(e), NEW afterEdit \in BOOLEAN, NEW suits \in BOOLEAN
    PROVE  Sound(StartSourceFacts(e, afterEdit, suits))
<1>0. e \in Eps /\ CandSound(e.cand) /\ Awake(e) /\ e.rt.live
  BY DEF Installed, Sane
<1>1. CancelOk(e.cand) /\ Dropped(e, CancelDerived(e))
  BY <1>0, CancelDerivedSound
<1>2. PICK g : g = CancelDerived(e)
  OBVIOUS
<1>3. Dropped(e, g) /\ g \in Eps /\ Awake(g)
  BY <1>0, <1>1, <1>2 DEF Dropped, Awake
<1>4. /\ g.rt.live /\ g.rt.rev = e.rt.rev /\ g.rt.undo = None /\ g.rt.facts = FactsBase(e.rt)
      /\ g.rt \in Runtimes
  BY <1>0, <1>3, EpTyped, CancelFactsKeeps DEF Dropped
<1>. DEFINE base == afterEdit /\ e.pinc = NoCert /\ HasExactBaseFor(g.cand, g.rt.facts)
            i == [g EXCEPT !.rt = BeginIncremental(@), !.facts = "incremental", !.cert = "Scanning"]
            s == ScanClean(g, afterEdit)
<1>5. StartSourceFacts(e, afterEdit, suits) = IF base /\ suits THEN i ELSE s
  BY <1>1, <1>2 DEF StartSourceFacts
<1>6. ASSUME base
      PROVE  Sound(i)
  <2>1. PICK rt \in Runtimes : rt = BeginIncremental(g.rt)
    BY <1>4 DEF BeginIncremental, Runtimes
  <2>2. rt.live /\ rt.rev = g.rt.rev /\ rt.undo = g.rt.facts
    BY <1>4, <2>1 DEF BeginIncremental, Runtimes
  <2>3. i = [g EXCEPT !.rt = rt, !.facts = "incremental", !.cert = "Scanning"]
    BY <2>1
  <2>. HIDE DEF i
  <2>4. i \in Eps
    BY <1>3, <2>3 DEF Eps, FactsStates, CertStates
  <2>5. /\ i.cand = g.cand /\ i.rt = rt /\ i.facts = "incremental" /\ i.cert = "Scanning"
        /\ i.pcert = g.pcert /\ i.pinc = g.pinc /\ i.activeCert = g.activeCert /\ i.lastCert = g.lastCert
        /\ Awake(i)
    BY <1>3, <2>3, <2>4 DEF Eps, Awake
  <2>6. g.cand.retained = g.rt.facts /\ g.cand.retained # None /\ ~g.cand.closing
    BY <1>6 DEF HasExactBaseFor
  <2>7. g.cand.retained = e.lastCert
    <3>1. g.cand.retained \in Owned(e.cand) /\ ~e.cand.closing
      BY <1>3, <2>6 DEF Dropped, Stopped, Owned
    <3>. QED
      BY <1>4, <2>6, <3>1 DEF Installed
  <2>. QED
    BY <1>3, <1>4, <2>2, <2>4, <2>5, <2>6, <2>7, ScanSound DEF Dropped
<1>7. Sound(s)
  <2>1. PICK rt \in Runtimes : rt = BeginClean(g.rt)
    BY <1>4, Numbers DEF BeginClean, Runtimes
  <2>2. rt.live /\ rt.rev = g.rt.rev /\ rt.undo = None /\ rt.facts = None
    BY <1>4, <2>1 DEF BeginClean, Runtimes
  <2>3. PICK last \in OptRev : last = IF afterEdit THEN None ELSE g.lastCert
    BY <1>3, EpTyped, Numbers
  <2>4. s = [g EXCEPT !.rt = rt, !.facts = "clean", !.cert = "Scanning", !.lastCert = last]
    BY <2>1, <2>3 DEF ScanClean
  <2>. HIDE DEF s
  <2>5. s \in Eps
    BY <1>3, <2>4 DEF Eps, FactsStates, CertStates
  <2>6. /\ s.cand = g.cand /\ s.rt = rt /\ s.facts = "clean" /\ s.cert = "Scanning"
        /\ s.pcert = g.pcert /\ s.pinc = g.pinc /\ s.activeCert = g.activeCert /\ Awake(s)
    BY <1>3, <2>4, <2>5 DEF Eps, Awake
  <2>. QED
    BY <1>3, <1>4, <2>2, <2>5, <2>6, ScanSound DEF Dropped
<1>. QED
  BY <1>5, <1>6, <1>7

\* A certification goes on, or is complete.
LEMMA CertMoves ==
    ASSUME NEW e, Core(e), e.pcert # NoCert \/ e.pinc # NoCert, NEW cert \in CertStates
    PROVE  LET f == [e EXCEPT !.cert = cert]
           IN /\ Core(f) /\ f.cert = cert /\ f.out = e.out /\ f.life = e.life
              /\ f.pcert = e.pcert /\ f.pinc = e.pinc /\ f.pinst = e.pinst /\ f.pedit = e.pedit
              /\ (f.latched <=> e.latched) /\ (f.poisoned <=> e.poisoned) /\ (f.exhausted <=> e.exhausted)
<1>0. e \in Eps
  BY DEF Core, Sane
<1>. DEFINE f == [e EXCEPT !.cert = cert]
<1>1. f \in Eps
  BY <1>0 DEF Eps
<1>2. /\ f.cert = cert /\ f.out = e.out /\ f.life = e.life
      /\ f.pcert = e.pcert /\ f.pinc = e.pinc /\ f.pinst = e.pinst /\ f.pedit = e.pedit
      /\ (f.latched <=> e.latched) /\ (f.poisoned <=> e.poisoned) /\ (f.exhausted <=> e.exhausted)
      /\ f.cand = e.cand /\ f.rt = e.rt /\ f.facts = e.facts /\ f.target = e.target
      /\ f.observed = e.observed /\ f.activeCert = e.activeCert /\ f.lastCert = e.lastCert
  BY <1>0 DEF Eps
<1>. HIDE DEF f
<1>3. ~Cleared(e) /\ ~IsActive(f.cand) /\ Deriving(e)
  BY <1>2 DEF Cleared, Deriving, Core, WaitSound
<1>4. Sane(f) /\ RestSound(f)
  BY <1>1, <1>2, <1>3 DEF Core, Sane, RestSound
<1>5. FactsSound(f) /\ WaitSound(f) /\ CurrentSound(f)
  BY <1>2, <1>3 DEF Core, FactsSound, WaitSound, CurrentSound, Deriving
<1>6. BasesSound(f)
  BY <1>2, <1>3 DEF Core, BasesSound, Deriving
<1>. QED
  BY <1>2, <1>4, <1>5, <1>6 DEF Core, f

\* What is being published is pending.
Publishing(e, pending, page, done) ==
    \/ pending = e.pcert /\ pending # NoCert /\ e.pinc = NoCert /\ page = "certPage" /\ done = "certDone"
    \/ pending = e.pinc /\ pending # NoCert /\ e.pcert = NoCert /\ page = "deltaPage" /\ done = "deltaDone"

LEMMA EmitNextSound ==
    ASSUME NEW e, Core(e), Awake(e), NEW pending, NEW page, NEW done, Publishing(e, pending, page, done)
    PROVE  Sound(EmitNext(e, pending, page, done))
<1>0. e \in Eps
  BY DEF Core, Sane
<1>1. PICK more \in BOOLEAN : more <=> pending.left > 0
  OBVIOUS
<1>2. PICK cert \in {"Publishing", "AwaitingPromotion"} : cert = IF more THEN "Publishing" ELSE "AwaitingPromotion"
  OBVIOUS
<1>3. PICK event : event = IF more THEN page ELSE done
  OBVIOUS
<1>. DEFINE f == [e EXCEPT !.cert = cert]
<1>4. /\ Core(f) /\ f.cert = cert /\ f.out = "none" /\ f.life = "Open" /\ ~f.latched /\ ~f.poisoned
      /\ f.pcert = e.pcert /\ f.pinc = e.pinc /\ f.pinst = NoStamp /\ f.pedit = NoStamp
      /\ (f.exhausted <=> e.exhausted) /\ f \in Eps
  <2>1. cert \in CertStates /\ (e.pcert # NoCert \/ e.pinc # NoCert)
    BY DEF CertStates, Publishing
  <2>. HIDE DEF f
  <2>2. /\ Core(f) /\ f.cert = cert /\ f.out = e.out /\ f.life = e.life
        /\ f.pcert = e.pcert /\ f.pinc = e.pinc /\ f.pinst = e.pinst /\ f.pedit = e.pedit
        /\ (f.latched <=> e.latched) /\ (f.poisoned <=> e.poisoned) /\ (f.exhausted <=> e.exhausted)
    BY <2>1, CertMoves DEF f
  <2>. QED
    BY <2>2 DEF Awake, Core, Sane
<1>5. EmitNext(e, pending, page, done) = IF EmitOk(e) THEN Emit(f, event) ELSE PoisonAndFail(Emit(f, page))
  BY <1>1, <1>2, <1>3 DEF EmitNext
<1>. HIDE DEF f
<1>6. page \in Events /\ event \in Events
  BY <1>3 DEF Publishing, Events
<1>7. CASE ~e.exhausted
  <2>. DEFINE h == Emit(f, event)
  <2>1. Same(f, h) /\ h.out = event /\ h.life = "Open"
    BY <1>4, <1>6, <1>7, EmitFields
  <2>. HIDE DEF h
  <2>2. Core(h)
    BY <1>4, <2>1, SameCore
  <2>3. LifeSound(h)
    BY <1>2, <1>3, <1>4, <2>1 DEF LifeSound, Same, CloseEvents, Publishing
  <2>4. OutSound(h)
    BY <1>1, <1>3, <1>4, <2>1 DEF OutSound, Same, Publishing, CertEvents, DeltaEvents, Credits
  <2>5. EmitOk(e)
    BY <1>7 DEF EmitOk, Awake
  <2>. QED
    BY <1>5, <2>2, <2>3, <2>4, <2>5 DEF Sound, h
<1>8. CASE e.exhausted
  <2>. DEFINE h == Emit(f, page)
  <2>1. Same(f, h) /\ h.out = "none"
    BY <1>4, <1>6, <1>8, EmitFields
  <2>. HIDE DEF h
  <2>2. Sane(h) /\ ~h.latched
    BY <1>4, <2>1, SameCore DEF Core, Same
  <2>3. ~EmitOk(e)
    BY <1>8 DEF EmitOk
  <2>. QED
    BY <1>5, <2>1, <2>2, <2>3, PoisonAndFailSound DEF h
<1>. QED
  BY <1>7, <1>8

\* A scan that is complete is certified, or fails.
LEMMA FactsCompleteSound ==
    ASSUME NEW e, Sound(e), e.life = "Open", ~e.poisoned, e.cert = "Scanning", ~CleanupPending(e.cand),
           NEW pages \in 0..MaxPages
    PROVE  Sound(FactsComplete(e, pages))
<1>0. /\ e \in Eps /\ e.out = "none" /\ ~e.latched /\ e.pcert = NoCert /\ e.pinc = NoCert
      /\ e.pinst = NoStamp /\ e.pedit = NoStamp /\ e.facts # "none" /\ e.facts \in FactsStates
  BY EpTyped DEF Sound, Core, Sane, LifeSound, OutSound, CertEvents, DeltaEvents
<1>1. /\ e.rt.live /\ e.rt.rev \in Revs /\ ~IsActive(e.cand) /\ e.cand.green.pend.k = "none"
      /\ ~Cleaning(e.cand) /\ e.cand.green.cleanup = <<>>
  BY <1>0 DEF Sound, Core, Sane, RestSound, WaitSound, Cleared, Deriving, CleanupPending
<1>2. PICK rt \in Runtimes : rt = CompleteFacts(e.rt)
  BY <1>0, EpTyped DEF CompleteFacts, Runtimes
<1>3. rt.live /\ rt.rev = e.rt.rev /\ rt.facts = e.rt.rev /\ rt.undo = e.rt.undo
  BY <1>0, <1>1, <1>2, EpTyped DEF CompleteFacts, Runtimes
<1>4. PICK base \in OptRev : base = IF e.facts = "clean" THEN None ELSE e.rt.undo
  BY <1>0, EpTyped, Numbers DEF Runtimes
<1>. DEFINE f == [e EXCEPT !.rt = rt, !.facts = "none"]
            pending == [rev |-> e.rt.rev, base |-> base, left |-> pages]
            begun == [f EXCEPT !.pinc = pending, !.cert = "Publishing"]
            certified == [f EXCEPT !.pcert = pending]
            bad == ~MatchesTarget(e) \/ (e.facts = "incremental" /\ e.lastCert # e.rt.undo)
<1>5. FactsComplete(e, pages) =
        IF bad THEN PoisonAndFail(f)
        ELSE IF e.facts = "clean" THEN EmitNext(certified, pending, "certPage", "certDone")
        ELSE IF EmitOk(begun) THEN Emit(begun, "deltaBegin") ELSE PoisonAndFail(Emit(begun, "deltaBegin"))
  BY <1>2, <1>4 DEF FactsComplete
<1>6. /\ f \in Eps /\ f.rt = rt /\ f.facts = "none" /\ f.cand = e.cand /\ f.out = "none" /\ f.life = "Open"
      /\ ~f.latched /\ ~f.poisoned /\ (f.exhausted <=> e.exhausted) /\ f.pinst = NoStamp /\ f.pedit = NoStamp
      /\ f.pcert = NoCert /\ f.pinc = NoCert /\ f.lastCert = e.lastCert /\ f.observed = e.observed
      /\ f.target = e.target /\ f.activeCert = e.activeCert /\ f.cert = "Scanning"
  <2>1. f \in Eps
    BY <1>0 DEF Eps, FactsStates
  <2>. QED
    BY <1>0, <2>1 DEF Eps
<1>7. /\ pending \in Certs /\ pending # NoCert /\ pending.rev = e.rt.rev /\ pending.base = base
  BY <1>1, Numbers DEF Certs, NoCert
<1>. HIDE DEF f, pending
<1>8. Sane(f)
  BY <1>1, <1>3, <1>6 DEF Sane, Sound, Core
<1>9. CASE bad
  BY <1>5, <1>6, <1>8, <1>9, PoisonAndFailSound
<1>10. ASSUME ~bad, NEW h \in Eps, h.rt = rt, h.facts = "none", h.cand = e.cand, Awake(h),
              h.lastCert = e.lastCert, h.observed = e.observed,
              \/ h.pcert = pending /\ h.pinc = NoCert /\ e.facts = "clean"
              \/ h.pinc = pending /\ h.pcert = NoCert /\ e.facts = "incremental"
       PROVE  Core(h)
  <2>1. e.observed = e.rt.rev /\ (e.facts = "incremental" => e.lastCert = e.rt.undo)
    BY <1>10 DEF MatchesTarget
  <2>2. Sane(h) /\ RestSound(h)
    <3>1. h.cand.closing => Spent(h.cand)
      BY <1>0, <1>10 DEF Sound, Core, RestSound, Awake
    <3>. QED
      BY <1>1, <1>3, <1>10, <3>1 DEF Sane, Sound, Core, Awake, RestSound
  <2>3. FactsSound(h)
    BY <1>0, <1>3, <1>4, <1>7, <1>10, <2>1 DEF FactsSound, Sound, Core
  <2>4. WaitSound(h) /\ CurrentSound(h)
    BY <1>1, <1>10 DEF WaitSound, CurrentSound
  <2>5. BasesSound(h)
    <3>. SUFFICES ASSUME ~h.cand.closing, NEW o \in Owned(h.cand)
                  PROVE  o <= h.rt.rev /\ o < h.rt.rev /\ (o = FactsBase(h.rt) => o = h.lastCert)
      BY DEF BasesSound
    <3>1. o < e.rt.rev /\ o <= e.rt.rev
      BY <1>0, <1>10 DEF Sound, Core, BasesSound, Deriving
    <3>2. o # None /\ o \in OptRev
      BY <1>10, CandTyped DEF Owned, Sound, Core, Sane
    <3>3. FactsBase(h.rt) \in {e.rt.rev, e.lastCert}
      BY <1>0, <1>3, <1>10, <2>1 DEF FactsBase, Sound, Core, FactsSound, FactsStates
    <3>4. h.rt.rev = e.rt.rev /\ h.lastCert = e.lastCert
      BY <1>1, <1>3, <1>10
    <3>5. e.rt.rev \in Nat /\ o \in Nat
      BY <1>1, <3>2, Numbers
    <3>6. o # e.rt.rev
      BY <3>1, <3>5
    <3>. QED
      BY <3>1, <3>3, <3>4, <3>6
  <2>. QED
    BY <2>2, <2>3, <2>4, <2>5 DEF Core
<1>11. CASE ~bad /\ e.facts = "clean"
  <2>1. /\ certified \in Eps /\ certified.rt = rt /\ certified.facts = "none" /\ certified.cand = e.cand
        /\ certified.lastCert = e.lastCert /\ certified.observed = e.observed
        /\ certified.pcert = pending /\ certified.pinc = NoCert /\ Awake(certified)
    <3>1. certified \in Eps
      BY <1>6, <1>7 DEF Eps
    <3>. QED
      BY <1>6, <3>1 DEF Eps, Awake
  <2>. HIDE DEF certified
  <2>2. Core(certified)
    BY <1>10, <1>11, <2>1
  <2>3. Publishing(certified, pending, "certPage", "certDone")
    BY <1>7, <2>1 DEF Publishing
  <2>. QED
    BY <1>5, <1>11, <2>1, <2>2, <2>3, EmitNextSound
<1>12. CASE ~bad /\ e.facts = "incremental"
  <2>1. /\ begun \in Eps /\ begun.rt = rt /\ begun.facts = "none" /\ begun.cand = e.cand
        /\ begun.lastCert = e.lastCert /\ begun.observed = e.observed /\ begun.cert = "Publishing"
        /\ begun.pinc = pending /\ begun.pcert = NoCert /\ Awake(begun)
    <3>1. begun \in Eps
      BY <1>6, <1>7 DEF Eps, CertStates
    <3>. QED
      BY <1>6, <3>1 DEF Eps, Awake
  <2>. HIDE DEF begun
  <2>2. Core(begun)
    BY <1>10, <1>12, <2>1
  <2>. DEFINE h == Emit(begun, "deltaBegin")
  <2>3. /\ Same(begun, h)
        /\ ~begun.exhausted => h.out = "deltaBegin" /\ h.life = begun.life /\ EmitOk(begun)
        /\ begun.exhausted => h.out = "none" /\ ~EmitOk(begun)
    <3>1. "deltaBegin" \in Events /\ begun.out = "none"
      BY <2>1 DEF Events, Awake
    <3>. QED
      BY <2>1, <3>1, EmitFields
  <2>. HIDE DEF h
  <2>4. Core(h)
    BY <2>2, <2>3, SameCore
  <2>5. CASE ~begun.exhausted
    <3>1. LifeSound(h)
      BY <2>1, <2>3, <2>5 DEF LifeSound, Same, Awake, CloseEvents
    <3>2. OutSound(h)
      BY <1>7, <2>1, <2>3, <2>5 DEF OutSound, Same, Awake, CertEvents, DeltaEvents, Credits
    <3>. QED
      BY <1>5, <1>12, <2>3, <2>4, <2>5, <3>1, <3>2 DEF Sound, h
  <2>6. CASE begun.exhausted
    <3>1. Sane(h) /\ h.out = "none" /\ ~h.latched
      BY <2>1, <2>3, <2>4, <2>6 DEF Core, Same, Awake
    <3>. QED
      BY <1>5, <1>12, <2>3, <2>6, <3>1, PoisonAndFailSound DEF h
  <2>. QED
    BY <2>5, <2>6
<1>. QED
  BY <1>0, <1>9, <1>11, <1>12 DEF FactsStates

\* A certified revision is given to the candidate.
LEMMA PromoteSound ==
    ASSUME NEW e, Core(e), Awake(e), e.pcert # NoCert \/ e.pinc # NoCert,
           ~e.cand.closing, NEW d, Started(e.cand, d, e.rt.rev),
           NEW f \in Eps, f.cand = d, f.rt.live <=> e.rt.live, f.rt.rev = e.rt.rev, f.rt.facts = e.rt.facts,
           f.rt.undo = e.rt.undo, f.facts = e.facts, f.pcert = NoCert, f.pinc = NoCert,
           f.activeCert = e.rt.rev, f.target = Stamp(e.rt.rev, "known"), f.cert = "ExternallyEligible",
           f.observed = e.observed, f.lastCert = e.lastCert, Awake(f)
    PROVE  Sound(f)
<1>1. ~Cleared(e) /\ Deriving(e) /\ e.rt.live /\ e.rt.rev \in Revs /\ e.facts = "none"
  BY DEF Cleared, Deriving, Core, Sane, RestSound, FactsSound
<1>2. /\ CandSound(f.cand) /\ IsActive(f.cand) /\ f.cand.active.rev = e.rt.rev
      /\ f.cand.active.phase = "none" /\ ~f.cand.closing /\ Owned(f.cand) = Owned(e.cand)
  BY DEF Started
<1>3. Sane(f) /\ RestSound(f)
  BY <1>1, <1>2 DEF Sane, RestSound, Awake
<1>4. FactsSound(f) /\ WaitSound(f)
  BY <1>1 DEF FactsSound, WaitSound, Deriving, Awake
<1>5. CurrentSound(f)
  BY <1>1, <1>2 DEF CurrentSound, Core, FactsSound
<1>6. BasesSound(f)
  <2>1. FactsBase(f.rt) = FactsBase(e.rt)
    BY DEF FactsBase
  <2>. QED
    BY <1>1, <1>2, <2>1 DEF BasesSound, Core
<1>7. LifeSound(f) /\ OutSound(f)
  BY DEF LifeSound, OutSound, Awake, CloseEvents, CertEvents, DeltaEvents, Credits
<1>. QED
  BY <1>3, <1>4, <1>5, <1>6, <1>7 DEF Sound, Core

\* The candidate has waited for the certification, and is free.
LEMMA CertifiedIsFree ==
    ASSUME NEW e, Core(e), e.pcert # NoCert \/ e.pinc # NoCert, ~e.cand.closing
    PROVE  /\ CandSound(e.cand) /\ Free(e.cand) /\ e.rt.rev \in Revs /\ \A o \in Owned(e.cand) : o < e.rt.rev
           /\ e.pcert # NoCert => e.pcert.rev = e.rt.rev
           /\ e.pinc # NoCert => /\ e.pinc.rev = e.rt.rev /\ e.pinc.base = e.cand.retained
                                /\ e.cand.retained # None
<1>1. ~Cleared(e) /\ Deriving(e) /\ e.rt.live /\ e.rt.rev \in Revs
  BY DEF Cleared, Deriving, Core, Sane, RestSound
<1>2. CandSound(e.cand) /\ Free(e.cand)
  BY <1>1 DEF Core, Sane, WaitSound, Free
<1>3. \A o \in Owned(e.cand) : o < e.rt.rev
  BY <1>1 DEF Core, BasesSound
<1>. QED
  BY <1>1, <1>2, <1>3 DEF Core, FactsSound

LEMMA CertDoneSound ==
    ASSUME NEW e, Core(e), Awake(e), e.pcert # NoCert, e.pinc = NoCert
    PROVE  Sound(CertDone(e))
<1>0. e \in Eps /\ CandSound(e.cand)
  BY DEF Core, Sane
<1>1. PICK rt \in Runtimes : rt = [e.rt EXCEPT !.certified = None]
  BY <1>0, EpTyped, Numbers DEF Runtimes
<1>2. (rt.live <=> e.rt.live) /\ rt.rev = e.rt.rev /\ rt.facts = e.rt.facts /\ rt.undo = e.rt.undo
  BY <1>0, <1>1, EpTyped DEF Runtimes
<1>3. PICK rev : rev = e.pcert.rev
  OBVIOUS
<1>. DEFINE f == [e EXCEPT !.rt = rt]
            d == StartClean(f.cand, rev)
            g == [f EXCEPT !.cand = d]
<1>4. CertDone(e) = IF StartOk(e.cand) THEN Promote(g, rev) ELSE PoisonAndFail(f)
  BY <1>1, <1>3 DEF CertDone
<1>5. f \in Eps /\ f.cand = e.cand /\ f.rt = rt /\ f.out = "none" /\ ~f.latched /\ (f.poisoned <=> e.poisoned)
  BY <1>0 DEF Eps, Awake
<1>6. CASE ~StartOk(e.cand)
  <2>. HIDE DEF f
  <2>1. Sane(f)
    BY <1>2, <1>5 DEF Core, Sane
  <2>. QED
    BY <1>4, <1>5, <1>6, <2>1, PoisonAndFailSound
<1>7. CASE StartOk(e.cand)
  <2>1. ~e.cand.closing
    BY <1>7 DEF StartOk
  <2>2. Started(e.cand, d, e.rt.rev) /\ rev = e.rt.rev /\ rev \in Revs /\ rev \in OptRev
    BY <1>3, <1>5, <2>1, CertifiedIsFree, StartCleanSound, Numbers
  <2>3. PICK c \in Cands : c = d
    BY <2>2 DEF Started, CandSound
  <2>4. PICK t \in Stamps : t = Stamp(rev, "known")
    BY <2>2 DEF Stamps, Stamp
  <2>. DEFINE h == Promote(g, rev)
  <2>5. h = [e EXCEPT !.rt = rt, !.cand = c, !.activeCert = rev, !.target = t,
                      !.cert = "ExternallyEligible", !.pcert = NoCert, !.pinc = NoCert]
    BY <2>3, <2>4 DEF Promote
  <2>. HIDE DEF h, d
  <2>6. h \in Eps
    BY <1>0, <2>2, <2>5, StateTypes DEF Eps, CertStates
  <2>7. /\ h.rt = rt /\ h.cand = c /\ h.activeCert = rev /\ h.target = t /\ h.cert = "ExternallyEligible"
        /\ h.pcert = NoCert /\ h.pinc = NoCert /\ h.facts = e.facts /\ h.observed = e.observed
        /\ h.lastCert = e.lastCert
    BY <1>0, <2>5, <2>6 DEF Eps
  <2>8. Awake(h)
    BY <1>0, <2>5, <2>6 DEF Eps, Awake
  <2>9. Sound(h)
    BY <1>2, <2>1, <2>2, <2>3, <2>4, <2>6, <2>7, <2>8, PromoteSound
  <2>. QED
    BY <1>4, <1>7, <2>9 DEF h
<1>. QED
  BY <1>6, <1>7

LEMMA DeltaDoneSound ==
    ASSUME NEW e, Core(e), Awake(e), e.pcert = NoCert, e.pinc # NoCert,
           NEW st \in ExactStarts, NEW declined \in BOOLEAN
    PROVE  Sound(DeltaDone(e, st, declined))
<1>0. e \in Eps /\ CandSound(e.cand) /\ ~e.cand.closing
  BY DEF Core, Sane, FactsSound
<1>. DEFINE d == StartIncremental(e.cand, e.rt.rev, st, declined)
<1>1. /\ StartIncrementalOk(e.cand, e.pinc.base, st) /\ Started(e.cand, d, e.rt.rev)
      /\ e.pinc.rev = e.rt.rev /\ e.rt.rev \in OptRev /\ e.rt.rev \in Revs
  BY <1>0, CertifiedIsFree, StartIncrementalSound, Numbers
<1>2. PICK c \in Cands : c = d
  BY <1>1 DEF Started, CandSound
<1>3. PICK t \in Stamps : t = Stamp(e.rt.rev, "known")
  BY <1>1 DEF Stamps, Stamp
<1>4. PICK rev : rev = e.rt.rev
  OBVIOUS
<1>. DEFINE h == [e EXCEPT !.cand = c, !.activeCert = rev, !.target = t,
                      !.cert = "ExternallyEligible", !.pcert = NoCert, !.pinc = NoCert]
<1>5. DeltaDone(e, st, declined) = h
  BY <1>1, <1>2, <1>3, <1>4 DEF DeltaDone, Promote
<1>. HIDE DEF h, d
<1>6. h \in Eps
  BY <1>0, <1>1, <1>4, StateTypes DEF Eps, CertStates, h
<1>7. /\ h.rt = e.rt /\ h.cand = c /\ h.activeCert = rev /\ h.target = t /\ h.cert = "ExternallyEligible"
      /\ h.pcert = NoCert /\ h.pinc = NoCert /\ h.facts = e.facts /\ h.observed = e.observed
      /\ h.lastCert = e.lastCert
  BY <1>0, <1>6 DEF Eps, h
<1>8. Awake(h)
  BY <1>0, <1>6 DEF Eps, Awake, h
<1>. QED
  BY <1>0, <1>1, <1>2, <1>3, <1>4, <1>5, <1>6, <1>7, <1>8, PromoteSound

-----------------------------------------------------------------------------
(* The endpoint's candidate.                                               *)

\* A candidate that moves on, starting nothing.
LEMMA WorkMoves ==
    ASSUME NEW e, Core(e), Awake(e), e.pcert = NoCert, e.pinc = NoCert, e.rt.live, ~e.cand.closing,
           NEW d, CandSound(d), ~d.closing, Owned(d) \subseteq Owned(e.cand),
           IsActive(d) => /\ IsActive(e.cand) /\ d.active.rev = e.cand.active.rev
                          /\ e.activeCert = d.active.rev \/ d.active.phase = "awaitDelivery",
           ~IsActive(e.cand) => /\ e.cand.retained # None => d.retained = e.cand.retained
                                /\ e.cand.green.pend.k = "none" => d.green.pend.k = "none"
    PROVE  LET f == [e EXCEPT !.cand = d]
           IN /\ Core(f) /\ Awake(f) /\ f.cand = d /\ f.pcert = NoCert /\ f.pinc = NoCert
              /\ (f.exhausted <=> e.exhausted) /\ f.cert = e.cert /\ f.facts = e.facts
              /\ f.rt = e.rt /\ f.lastCert = e.lastCert /\ f.activeCert = e.activeCert
<1>0. e \in Eps /\ d \in Cands
  BY DEF Core, Sane, CandSound
<1>. DEFINE f == [e EXCEPT !.cand = d]
<1>1. f \in Eps
  BY <1>0 DEF Eps
<1>2. /\ Awake(f) /\ f.cand = d /\ f.pcert = NoCert /\ f.pinc = NoCert
      /\ (f.exhausted <=> e.exhausted) /\ f.cert = e.cert /\ f.facts = e.facts /\ f.pedit = NoStamp
      /\ f.rt = e.rt /\ f.lastCert = e.lastCert /\ f.activeCert = e.activeCert
      /\ f.observed = e.observed /\ f.target = e.target
  BY <1>0 DEF Eps, Awake
<1>. HIDE DEF f
<1>3. Sane(f) /\ RestSound(f)
  BY <1>1, <1>2 DEF Core, Sane, RestSound, Awake
<1>4. FactsSound(f) /\ WaitSound(f)
  BY <1>2 DEF Core, FactsSound, WaitSound, Deriving
<1>5. BasesSound(f)
  BY <1>2 DEF Core, BasesSound, Deriving, Awake
<1>6. CurrentSound(f)
  BY <1>2 DEF Core, CurrentSound
<1>. QED
  BY <1>2, <1>3, <1>4, <1>5, <1>6 DEF Core, f

\* A publication that is refused is stopped, and its base kept.
LEMMA RefusedSound ==
    ASSUME NEW e, Core(e), e.pcert = NoCert, e.pinc = NoCert
    PROVE  LET f == [e EXCEPT !.cand = Cancel(@), !.activeCert = None]
           IN /\ Core(f) /\ f.pcert = NoCert /\ f.pinc = NoCert /\ f.pinst = e.pinst /\ f.pedit = e.pedit
              /\ f.out = e.out /\ f.life = e.life /\ f.cert = e.cert /\ f.facts = e.facts /\ f.rt = e.rt
              /\ (f.latched <=> e.latched) /\ (f.poisoned <=> e.poisoned) /\ (f.exhausted <=> e.exhausted)
              /\ (f.failed <=> e.failed) /\ CancelOk(e.cand)
<1>0. e \in Eps /\ CandSound(e.cand)
  BY DEF Core, Sane
<1>1. Stopped(e.cand, Cancel(e.cand)) /\ CancelOk(e.cand) /\ (Spent(e.cand) => Spent(Cancel(e.cand)))
  BY <1>0, CancelSound, SoundIsCancellable, SpentStays
<1>2. PICK d \in Cands : d = Cancel(e.cand)
  BY <1>1 DEF Stopped, CandSound
<1>3. /\ CandSound(d) /\ ~IsActive(d) /\ d.green.pend.k = "none" /\ Owned(d) = Owned(e.cand)
      /\ (d.closing <=> e.cand.closing) /\ (~IsActive(e.cand) => d.retained = e.cand.retained)
      /\ (Spent(e.cand) => Spent(d))
  BY <1>1, <1>2, StageFacts DEF Stopped, IsActive, NoGreen
<1>. DEFINE f == [e EXCEPT !.cand = Cancel(@), !.activeCert = None]
<1>4. f = [e EXCEPT !.cand = d, !.activeCert = None]
  BY <1>2
<1>. HIDE DEF f
<1>5. f \in Eps
  BY <1>0, <1>4, Numbers DEF Eps
<1>6. /\ f.cand = d /\ f.pcert = NoCert /\ f.pinc = NoCert /\ f.pinst = e.pinst /\ f.pedit = e.pedit
      /\ f.out = e.out /\ f.life = e.life /\ f.cert = e.cert /\ f.facts = e.facts /\ f.rt = e.rt
      /\ (f.latched <=> e.latched) /\ (f.poisoned <=> e.poisoned) /\ (f.exhausted <=> e.exhausted)
      /\ (f.failed <=> e.failed) /\ f.target = e.target /\ f.observed = e.observed /\ f.activeCert = None
      /\ f.lastCert = e.lastCert
  BY <1>0, <1>4, <1>5 DEF Eps
<1>7. Sane(f) /\ RestSound(f)
  BY <1>3, <1>5, <1>6 DEF Core, Sane, RestSound, Cleared, Deriving
<1>8. FactsSound(f) /\ WaitSound(f) /\ CurrentSound(f)
  BY <1>3, <1>6 DEF Core, FactsSound, WaitSound, CurrentSound, Deriving
<1>9. BasesSound(f)
  BY <1>3, <1>6 DEF Core, BasesSound, Deriving
<1>. QED
  BY <1>1, <1>6, <1>7, <1>8, <1>9 DEF Core, f

\* A frame is emitted, and its credit awaited, or the endpoint faults.
LEMMA EmitCandidateSound ==
    ASSUME NEW e, Core(e), Awake(e), Scans(e), e.pcert = NoCert, e.pinc = NoCert,
           NEW credit \in Credits, Awaits(e.cand, credit),
           credit = "delivery" => e.lastCert = e.cand.active.rev /\ e.rt.undo = None /\ e.activeCert = None
    PROVE  Sound(EmitCandidate(e, credit))
<1>0. e \in Eps /\ e.out = "none" /\ credit \in Events
  BY DEF Core, Sane, Awake, Credits, Events
<1>. DEFINE h == Emit(e, credit)
<1>1. /\ Same(e, h)
      /\ ~e.exhausted => h.out = credit /\ h.life = e.life /\ EmitOk(e)
      /\ e.exhausted => h.out = "none" /\ h.life = "Faulted" /\ ~EmitOk(e)
  BY <1>0, EmitFields
<1>. HIDE DEF h
<1>2. Core(h)
  BY <1>1, SameCore
<1>3. e.cert # "Scanning"
  <2>1. IsActive(e.cand)
    BY DEF Awaits, IsActive, Streams
  <2>. QED
    BY <2>1 DEF Core, CurrentSound
<1>4. CASE ~e.exhausted
  <2>1. EmitCandidate(e, credit) = h
    BY <1>1, <1>4 DEF EmitCandidate, h
  <2>2. LifeSound(h)
    BY <1>1, <1>3, <1>4 DEF LifeSound, Same, Awake, CloseEvents, Credits
  <2>3. OutSound(h)
    BY <1>1, <1>4 DEF OutSound, Same, Awake, CertEvents, DeltaEvents, Credits
  <2>. QED
    BY <1>2, <2>1, <2>2, <2>3 DEF Sound
<1>5. CASE e.exhausted
  <2>. DEFINE f == [h EXCEPT !.cand = Cancel(@), !.activeCert = None]
  <2>1. EmitCandidate(e, credit) = f
    BY <1>1, <1>5 DEF EmitCandidate, h
  <2>2. h.pcert = NoCert /\ h.pinc = NoCert
    BY <1>1 DEF Same
  <2>. HIDE DEF f
  <2>3. /\ Core(f) /\ f.pcert = NoCert /\ f.pinc = NoCert /\ f.pinst = h.pinst /\ f.pedit = h.pedit
        /\ f.out = h.out /\ f.life = h.life /\ f.cert = h.cert /\ f.facts = h.facts
        /\ (f.latched <=> h.latched) /\ (f.poisoned <=> h.poisoned) /\ (f.exhausted <=> h.exhausted)
    BY <1>2, <2>2, RefusedSound DEF f
  <2>4. LifeSound(f)
    BY <1>1, <1>3, <1>5, <2>3 DEF LifeSound, Same, Awake, CloseEvents
  <2>5. OutSound(f)
    BY <1>1, <1>5, <2>3 DEF OutSound, Same, Awake, CertEvents, DeltaEvents, Credits
  <2>. QED
    BY <2>1, <2>3, <2>4, <2>5 DEF Sound
<1>. QED
  BY <1>4, <1>5

LEMMA OpenFacts ==
    ASSUME NEW e, Sound(e), e.life = "Open", e.out = "none"
    PROVE  Core(e) /\ Awake(e) /\ Scans(e) /\ e.pcert = NoCert /\ e.pinc = NoCert /\ e \in Eps
<1>1. ~e.latched
  BY DEF Sound, LifeSound
<1>2. e.pcert = NoCert /\ e.pinc = NoCert /\ e.pinst = NoStamp /\ e.pedit = NoStamp
  BY DEF Sound, OutSound, CertEvents, DeltaEvents
<1>. QED
  BY <1>1, <1>2 DEF Sound, LifeSound, Awake, Scans, Core, Sane

\* Nothing is outstanding: the endpoint waits for its client, or is to be polled.
LEMMA RestsSound ==
    ASSUME NEW e, Core(e), Awake(e), Scans(e), e.pcert = NoCert, e.pinc = NoCert
    PROVE  Sound(e)
  BY DEF Sound, LifeSound, OutSound, Awake, Scans, CloseEvents, CertEvents, DeltaEvents, Credits

LEMMA SpentNeverPolls ==
    ASSUME NEW c, Spent(c), NEW mayFail
    PROVE  Polls(c, mayFail) = {}
<1>1. ~Cleaning(c) /\ ~IsActive(c) /\ ~GreenTargetPending(c.green) /\ c.active.st = "none" /\ c.active.base = None
  BY StageFacts DEF Spent, Cleaning, IsActive, GreenTargetPending, NoGreen
<1>2. ~DeliveryReady(c) /\ ~Preempted(c)
  BY <1>1 DEF DeliveryReady, Preempted, Streams
<1>. QED
  BY <1>1, <1>2 DEF Polls, Spent

LEMMA DeliveredNeverPolls ==
    ASSUME NEW c, CandSound(c), c.active.phase = "awaitDelivery", NEW mayFail
    PROVE  Polls(c, mayFail) = {}
<1>1. c.active.st \in Streams
  BY DEF CandSound, ActiveSound
<1>2. IsActive(c) /\ c.active.st \notin Parses
  BY <1>1 DEF IsActive, Streams, Parses, ExactStarts
<1>3. ~Cleaning(c) /\ ~GreenTargetPending(c.green) /\ ~DeliveryReady(c) /\ ~Preempted(c)
  BY <1>1, <1>2, ReadyStages DEF Ready, GreenTargetPending, DeliveryReady, Preempted, Streams
<1>. QED
  BY <1>1, <1>2, <1>3 DEF Polls, ActivePolls, StreamPolls, Streams

LEMMA PollCandidateSound ==
    ASSUME NEW e, Sound(e), e.life = "Open", e.out = "none",
           NEW mayFail \in BOOLEAN, NEW p \in Polls(e.cand, mayFail)
    PROVE  LET f == [e EXCEPT !.cand = p.c]
           IN Sound(IF p.ev = "none" THEN f ELSE EmitCandidate(f, p.ev))
<1>1. Core(e) /\ Awake(e) /\ Scans(e) /\ e.pcert = NoCert /\ e.pinc = NoCert /\ e \in Eps
  BY OpenFacts
<1>2. CandSound(e.cand) /\ ~Spent(e.cand) /\ ~e.cand.closing /\ e.rt.live
  BY <1>1, SpentNeverPolls DEF Core, Sane, RestSound, Awake
<1>3. Polled(e.cand, p, mayFail) /\ e.cand.active.phase # "awaitDelivery"
  BY <1>2, PollsSound, DeliveredNeverPolls
<1>. DEFINE f == [e EXCEPT !.cand = p.c]
<1>4. /\ Core(f) /\ Awake(f) /\ f.cand = p.c /\ f.pcert = NoCert /\ f.pinc = NoCert
      /\ f.cert = e.cert /\ f.facts = e.facts
  <2>1. IsActive(p.c) => /\ IsActive(e.cand) /\ p.c.active.rev = e.cand.active.rev
                         /\ e.activeCert = p.c.active.rev
    BY <1>1, <1>2, <1>3 DEF Polled, Core, CurrentSound
  <2>. QED
    BY <1>1, <1>2, <1>3, <2>1, WorkMoves DEF Polled
<1>5. Scans(f)
  BY <1>1, <1>4 DEF Scans
<1>. HIDE DEF f
<1>6. CASE p.ev = "none"
  BY <1>4, <1>5, <1>6, RestsSound DEF f
<1>7. CASE p.ev # "none"
  <2>1. p.ev \in Credits /\ p.ev # "delivery" /\ Awaits(f.cand, p.ev)
    BY <1>3, <1>4, <1>7 DEF Polled
  <2>. QED
    BY <1>4, <1>5, <1>7, <2>1, EmitCandidateSound DEF f
<1>. QED
  BY <1>6, <1>7 DEF f

\* What an accepted or refused receipt does to the candidate.
LEMMA CandidateReceiptSound ==
    ASSUME NEW e, Core(e), Awake(e), Scans(e), e.pcert = NoCert, e.pinc = NoCert,
           NEW credit \in Credits, Awaits(e.cand, credit),
           credit = "delivery" => e.lastCert = e.cand.active.rev /\ e.rt.undo = None /\ e.activeCert = None,
           NEW d
    PROVE  Sound(CandidateReceipt(e, credit, d))
<1>1. CandSound(e.cand) /\ IsActive(e.cand) /\ CancelOk(e.cand) /\ ~Deriving(e) /\ ~Spent(e.cand) /\ e.rt.live
  <2>1. CandSound(e.cand) /\ IsActive(e.cand)
    BY DEF Core, Sane, Awaits, IsActive, Streams
  <2>. QED
    BY <2>1, SoundIsCancellable, SpentOwnsNothing DEF Core, Sane, WaitSound
<1>2. CASE d # "accepted"
  <2>. DEFINE f == [e EXCEPT !.cand = Cancel(@), !.activeCert = None]
  <2>1. CandidateReceipt(e, credit, d) = f
    BY <1>1, <1>2 DEF CandidateReceipt
  <2>. HIDE DEF f
  <2>2. Core(f) /\ Awake(f) /\ Scans(f) /\ f.pcert = NoCert /\ f.pinc = NoCert
    BY RefusedSound DEF f, Awake, Scans
  <2>. QED
    BY <2>1, <2>2, RestsSound
<1>3. CASE d = "accepted"
  <2>. DEFINE a == Accept(e.cand, credit)
              f == [e EXCEPT !.cand = a]
  <2>1. CandidateReceipt(e, credit, d) = f
    BY <1>3 DEF CandidateReceipt
  <2>2. /\ CandSound(a) /\ (a.closing <=> e.cand.closing) /\ ~e.cand.closing
        /\ credit # "delivery" => /\ IsActive(a) /\ a.active.rev = e.cand.active.rev
                                  /\ a.active.phase # "awaitDelivery"
                                  /\ Owned(a) = Owned(e.cand) /\ a.green = e.cand.green
        /\ credit = "delivery" => /\ a.active = Idle /\ Owned(a) = {e.cand.active.rev}
                                  /\ e.cand.active.rev \in Revs
    BY <1>1, AcceptSound
  <2>. HIDE DEF a
  <2>3. CASE credit # "delivery"
    <3>1. e.activeCert = e.cand.active.rev
      BY <1>1, <2>3, CreditNames DEF Core, CurrentSound, Awaits, Credits
    <3>. HIDE DEF f
    <3>2. Core(f) /\ Awake(f) /\ f.pcert = NoCert /\ f.pinc = NoCert /\ f.cert = e.cert /\ f.facts = e.facts
      BY <1>1, <2>2, <2>3, <3>1, WorkMoves DEF f
    <3>. QED
      BY <2>1, <3>2, RestsSound DEF Scans
  <2>4. CASE credit = "delivery"
    <3>0. e \in Eps /\ a \in Cands
      BY <2>2 DEF Core, Sane, CandSound
    <3>1. f \in Eps
      BY <3>0 DEF Eps
    <3>2. /\ Awake(f) /\ f.cand = a /\ f.pcert = NoCert /\ f.pinc = NoCert
          /\ f.cert = e.cert /\ f.facts = e.facts /\ f.pedit = NoStamp
          /\ f.rt = e.rt /\ f.lastCert = e.lastCert /\ f.activeCert = e.activeCert
          /\ f.observed = e.observed /\ f.target = e.target
      BY <3>0 DEF Eps, Awake
    <3>. HIDE DEF f
    <3>3. ~IsActive(a) /\ ~Deriving(f)
      BY <1>1, <2>2, <2>4, <3>2, StageFacts DEF IsActive, Deriving
    <3>4. Sane(f) /\ RestSound(f)
      BY <1>1, <2>2, <3>1, <3>2 DEF Core, Sane, RestSound, Awake
    <3>5. FactsSound(f) /\ WaitSound(f) /\ CurrentSound(f)
      BY <3>2, <3>3 DEF FactsSound, WaitSound, CurrentSound, Deriving
    <3>6. BasesSound(f)
      <4>1. e.cand.active.rev = e.rt.rev /\ e.rt.rev \in Nat
        BY <1>1, <2>2, <2>4, Numbers DEF Core, CurrentSound
      <4>. QED
        BY <2>2, <2>4, <3>2, <3>3, <4>1 DEF BasesSound
    <3>. QED
      BY <2>1, <3>2, <3>4, <3>5, <3>6, RestsSound DEF Core, Scans
  <2>. QED
    BY <2>3, <2>4
<1>. QED
  BY <1>2, <1>3

-----------------------------------------------------------------------------
(* The actions.                                                            *)

LEMMA HostAnswerKeeps ==
    ASSUME Sound(ep), NEW rejected \in BOOLEAN, HostAnswer(rejected)
    PROVE  Sound(ep')
<1>0. ep.life = "Open" /\ ep.out = "none" /\ AwaitsHost(ep.cand)
  BY DEF HostAnswer, EnsureOpen
<1>1. /\ Core(ep) /\ Awake(ep) /\ Scans(ep) /\ ep.pcert = NoCert /\ ep.pinc = NoCert /\ ep \in Eps
      /\ CandSound(ep.cand) /\ IsActive(ep.cand) /\ CancelOk(ep.cand)
  <2>1. Core(ep) /\ Awake(ep) /\ Scans(ep) /\ ep.pcert = NoCert /\ ep.pinc = NoCert /\ ep \in Eps
    BY <1>0, OpenFacts
  <2>2. CandSound(ep.cand) /\ IsActive(ep.cand)
    BY <1>0, <2>1 DEF AwaitsHost, IsActive, Streams, Core, Sane
  <2>. QED
    BY <2>1, <2>2, SoundIsCancellable
<1>2. /\ ~Spent(ep.cand) /\ ep.rt.live /\ ~ep.cand.closing
      /\ ep.activeCert = ep.cand.active.rev /\ ep.cand.active.rev # None
      /\ ep.cand.active.rev = ep.rt.rev /\ ep.rt.facts = ep.rt.rev
  <2>1. ~Spent(ep.cand) /\ ~ep.cand.closing
    BY <1>1, SpentOwnsNothing DEF CandSound, CloseSound
  <2>2. ep.cand.active.phase # "awaitDelivery"
    BY <1>0 DEF AwaitsHost
  <2>3. ep.cand.active.rev # None
    BY <1>1, ReadyStages
  <2>. QED
    BY <1>1, <2>1, <2>2, <2>3 DEF Core, Sane, CurrentSound
<1>. DEFINE p == HostPoll(ep.cand, rejected)
            f == [ep EXCEPT !.cand = p.c, !.activeCert = None]
            h == [ep EXCEPT !.cand = p.c]
            g == [f EXCEPT !.rt = CommitFacts(@), !.lastCert = ep.activeCert]
<1>3. /\ rejected => p.ev = "none" /\ p.c = Cancel(ep.cand)
      /\ ~rejected =>
           /\ CandSound(p.c) /\ (p.c.closing <=> ep.cand.closing) /\ p.c.active.rev = ep.cand.active.rev
           /\ Owned(p.c) = Owned(ep.cand) /\ p.c.green = ep.cand.green /\ IsActive(p.c)
           /\ p.ev = "none" => p.c.active.phase # "awaitDelivery"
           /\ p.ev # "none" => p.ev = "delivery" /\ Awaits(p.c, "delivery")
  BY <1>0, <1>1, HostPollSound
<1>4. ep' = IF p.ev = "delivery"
            THEN IF ep.activeCert = None THEN h
                 ELSE IF ep.activeCert # p.c.active.rev THEN PoisonAndFail(f)
                 ELSE EmitCandidate(g, "delivery")
            ELSE IF rejected /\ CancelOk(ep.cand) THEN f ELSE h
  BY DEF HostAnswer
<1>5. CASE rejected
  <2>1. f = [ep EXCEPT !.cand = Cancel(@), !.activeCert = None]
    BY <1>3, <1>5
  <2>2. Core(f) /\ Awake(f) /\ Scans(f) /\ f.pcert = NoCert /\ f.pinc = NoCert
    <3>. HIDE DEF f
    <3>. QED
      BY <1>1, <2>1, RefusedSound DEF Awake, Scans
  <2>3. ep' = f
    <3>. HIDE DEF f, g, h, p
    <3>. QED
      BY <1>1, <1>3, <1>4, <1>5
  <2>. QED
    BY <2>2, <2>3, RestsSound
<1>6. CASE ~rejected /\ p.ev = "none"
  <2>1. ep' = h
    <3>. HIDE DEF f, g, h, p
    <3>. QED
      BY <1>4, <1>6
  <2>. HIDE DEF p
  <2>2. Core(h) /\ Awake(h) /\ h.pcert = NoCert /\ h.pinc = NoCert /\ h.cert = ep.cert /\ h.facts = ep.facts
    BY <1>1, <1>2, <1>3, <1>6, WorkMoves
  <2>. QED
    BY <1>1, <2>1, <2>2, RestsSound DEF Scans
<1>7. CASE ~rejected /\ p.ev # "none"
  <2>1. ep' = EmitCandidate(g, "delivery")
    <3>. HIDE DEF f, g, h, p
    <3>. QED
      BY <1>2, <1>3, <1>4, <1>7
  <2>2. PICK c \in Cands : c = p.c
    BY <1>3, <1>7 DEF CandSound
  <2>3. PICK rt \in Runtimes : rt = CommitFacts(ep.rt)
    BY <1>1, EpTyped, Numbers DEF CommitFacts, Runtimes
  <2>4. (rt.live <=> ep.rt.live) /\ rt.rev = ep.rt.rev /\ rt.facts = ep.rt.facts /\ rt.undo = None
    BY <1>1, <2>3, EpTyped DEF CommitFacts, Runtimes
  <2>5. PICK last \in OptRev : last = ep.activeCert
    BY <1>1, EpTyped
  <2>6. g = [ep EXCEPT !.cand = c, !.activeCert = None, !.rt = rt, !.lastCert = last]
    BY <2>2, <2>3, <2>5
  <2>. HIDE DEF f, g, h, p
  <2>7. g \in Eps
    BY <1>1, <2>6, Numbers DEF Eps
  <2>8. /\ Awake(g) /\ g.cand = c /\ g.rt = rt /\ g.activeCert = None /\ g.lastCert = last
        /\ g.pcert = NoCert /\ g.pinc = NoCert /\ g.pedit = NoStamp /\ g.cert = ep.cert /\ g.facts = ep.facts
        /\ g.observed = ep.observed /\ g.target = ep.target
    BY <1>1, <2>6, <2>7 DEF Eps, Awake
  <2>9. ~Deriving(ep) /\ ~Deriving(g) /\ ep.facts = "none"
    BY <1>1, <2>8 DEF Core, WaitSound, Deriving
  <2>10. Sane(g) /\ RestSound(g)
    BY <1>1, <1>2, <1>3, <1>7, <2>2, <2>4, <2>7, <2>8 DEF Core, Sane, RestSound, Awake
  <2>11. FactsSound(g) /\ WaitSound(g)
    BY <2>8, <2>9 DEF FactsSound, WaitSound, Deriving
  <2>12. Awaits(c, "delivery") /\ c.active.phase = "awaitDelivery"
    BY <1>3, <1>7, <2>2, CreditNames DEF Awaits
  <2>13. CurrentSound(g)
    BY <1>1, <1>2, <1>3, <1>7, <2>2, <2>4, <2>8, <2>12 DEF Core, CurrentSound
  <2>14. BasesSound(g)
    <3>. SUFFICES ASSUME ~g.cand.closing, NEW o \in Owned(g.cand)
                  PROVE  o <= g.rt.rev /\ o < g.rt.rev /\ (o = FactsBase(g.rt) => o = g.lastCert)
      BY DEF BasesSound
    <3>0. o \in Owned(ep.cand)
      BY <1>3, <1>7, <2>2, <2>8
    <3>1. o < ep.rt.rev /\ o <= ep.rt.rev
      BY <1>1, <1>2, <3>0 DEF Core, BasesSound
    <3>2. o \in OptRev
      BY <1>1, <3>0, CandTyped DEF Owned
    <3>3. FactsBase(g.rt) = ep.rt.rev /\ ep.rt.rev \in Nat
      BY <1>1, <1>2, <2>4, <2>8, Numbers DEF FactsBase, Core, Sane
    <3>. QED
      BY <2>4, <2>8, <3>1, <3>2, <3>3, Numbers
  <2>15. Core(g) /\ Scans(g)
    BY <1>1, <2>8, <2>10, <2>11, <2>13, <2>14 DEF Core, Scans
  <2>. QED
    BY <1>2, <1>3, <1>7, <2>1, <2>2, <2>4, <2>5, <2>8, <2>12, <2>15, EmitCandidateSound DEF Credits
<1>. QED
  BY <1>5, <1>6, <1>7

\* The candidate of an endpoint that closes, or is poisoned, is released.
LEMMA ReleaseSound ==
    ASSUME NEW e, Core(e), e.latched \/ e.poisoned, e.rt.live
    PROVE  LET f == [e EXCEPT !.cand = PollCleanup(@)]
           IN Core(f) /\ f.out = e.out /\ f.life = e.life /\ (f.failed <=> e.failed) /\ f.cert = e.cert
                /\ f.facts = e.facts /\ (f.latched <=> e.latched) /\ (f.poisoned <=> e.poisoned)
                /\ (f.exhausted <=> e.exhausted) /\ f.pcert = e.pcert /\ f.pinc = e.pinc
                /\ f.pinst = e.pinst /\ f.pedit = e.pedit /\ f.rt = e.rt
<1>0. e \in Eps /\ CandSound(e.cand) /\ e.cand.closing /\ ~IsActive(e.cand) /\ Cleared(e)
  BY DEF Core, Sane, RestSound, CandSound, CloseSound
<1>1. Cleaned(e.cand, PollCleanup(e.cand))
  BY <1>0, PollCleanupSound
<1>2. PICK d \in Cands : d = PollCleanup(e.cand)
  BY <1>1 DEF Cleaned, CandSound
<1>3. CandSound(d) /\ d.closing /\ ~IsActive(d)
  BY <1>0, <1>1, <1>2, StageFacts DEF Cleaned, IsActive
<1>. DEFINE f == [e EXCEPT !.cand = PollCleanup(@)]
<1>4. f = [e EXCEPT !.cand = d]
  BY <1>2
<1>. HIDE DEF f
<1>5. f \in Eps
  BY <1>0, <1>4 DEF Eps
<1>6. /\ f.cand = d /\ f.out = e.out /\ f.life = e.life /\ (f.failed <=> e.failed) /\ f.cert = e.cert
      /\ f.facts = e.facts /\ (f.latched <=> e.latched) /\ (f.poisoned <=> e.poisoned)
      /\ (f.exhausted <=> e.exhausted) /\ f.pcert = e.pcert /\ f.pinc = e.pinc
      /\ f.pinst = e.pinst /\ f.pedit = e.pedit /\ f.rt = e.rt /\ f.target = e.target
      /\ f.observed = e.observed /\ f.activeCert = e.activeCert /\ f.lastCert = e.lastCert
  BY <1>0, <1>4, <1>5 DEF Eps
<1>7. Sane(f) /\ RestSound(f)
  BY <1>0, <1>3, <1>5, <1>6 DEF Core, Sane, RestSound, Cleared, Deriving
<1>8. FactsSound(f) /\ WaitSound(f) /\ BasesSound(f) /\ CurrentSound(f)
  BY <1>0, <1>3, <1>6 DEF FactsSound, WaitSound, BasesSound, CurrentSound, Cleared, Deriving, Core
<1>. QED
  BY <1>6, <1>7, <1>8 DEF Core, f

LEMMA ReleasedIsSpent ==
    ASSUME NEW c, CandSound(c), c.closing, ~CleanupPending(c)
    PROVE  Spent(c)
<1>1. ~Cleaning(c) /\ ~IsActive(c)
  BY DEF CleanupPending
<1>2. c.cleanup = NoCleanup /\ c.active = Idle
  BY <1>1, CandTyped
<1>3. c.green.pend = NoGreen
  BY DEF CleanupPending, CandSound, GreenSound
<1>. QED
  BY <1>2, <1>3 DEF CleanupPending, Spent

\* The runtime is closed after its candidate.
LEMMA RuntimeClosedSound ==
    ASSUME NEW e, Core(e), e.latched \/ e.poisoned, ~CleanupPending(e.cand)
    PROVE  LET f == [e EXCEPT !.rt = NoRuntime, !.poisoned = FALSE]
           IN Core(f) /\ f.out = e.out /\ f.life = e.life /\ (f.failed <=> e.failed) /\ f.cert = e.cert
                /\ f.facts = e.facts /\ (f.latched <=> e.latched) /\ ~f.poisoned /\ ~f.rt.live
                /\ (f.exhausted <=> e.exhausted) /\ f.pcert = e.pcert /\ f.pinc = e.pinc
                /\ f.pinst = e.pinst /\ f.pedit = e.pedit
<1>0. e \in Eps /\ CandSound(e.cand) /\ e.cand.closing /\ Cleared(e)
  BY DEF Core, Sane, RestSound
<1>1. Spent(e.cand) /\ ~IsActive(e.cand)
  BY <1>0, ReleasedIsSpent, SpentOwnsNothing
<1>. DEFINE f == [e EXCEPT !.rt = NoRuntime, !.poisoned = FALSE]
<1>2. FALSE \in BOOLEAN
  OBVIOUS
<1>3. f \in Eps
  BY <1>0, <1>2, StateTypes DEF Eps
<1>4. /\ f.rt = NoRuntime /\ f.cand = e.cand /\ f.out = e.out /\ f.life = e.life /\ (f.failed <=> e.failed)
      /\ f.cert = e.cert /\ f.facts = e.facts /\ (f.latched <=> e.latched)
      /\ (f.exhausted <=> e.exhausted) /\ f.pcert = e.pcert /\ f.pinc = e.pinc
      /\ f.pinst = e.pinst /\ f.pedit = e.pedit /\ f.target = e.target
      /\ f.observed = e.observed /\ f.activeCert = e.activeCert /\ f.lastCert = e.lastCert
  BY <1>0, <1>3 DEF Eps
<1>5. ~f.poisoned
  BY <1>0 DEF Eps
<1>. HIDE DEF f
<1>6. Sane(f) /\ RestSound(f)
  BY <1>0, <1>1, <1>3, <1>4, <1>5, StateTypes DEF Core, Sane, RestSound, Cleared, Deriving
<1>7. FactsSound(f) /\ WaitSound(f) /\ BasesSound(f) /\ CurrentSound(f)
  BY <1>0, <1>1, <1>4, StateTypes DEF FactsSound, WaitSound, BasesSound, CurrentSound, Cleared, Deriving, Core
<1>. QED
  BY <1>4, <1>5, <1>6, <1>7, StateTypes DEF Core, f

LEMMA PollPoisonedKeeps ==
    ASSUME Sound(ep), PollPoisoned
    PROVE  Sound(ep')
<1>0. ep.poisoned /\ Core(ep) /\ ep.rt.live
  BY DEF PollPoisoned, Sound, Core, Sane
<1>1. ~ep.latched => ep.out \in {"none", "failed"}
  BY <1>0, EpTyped DEF Sound, Core, Sane, LifeSound, Events, CloseEvents
<1>2. ASSUME NEW f, Core(f), f.out = ep.out, f.life = ep.life, f.failed <=> ep.failed, f.cert = ep.cert,
             f.facts = ep.facts, f.latched <=> ep.latched, f.poisoned => ep.poisoned, f.rt.live => ep.rt.live,
             f.exhausted <=> ep.exhausted, f.pcert = ep.pcert, f.pinc = ep.pinc,
             f.pinst = ep.pinst, f.pedit = ep.pedit
      PROVE  Sound(f)
  <2>1. LifeSound(f)
    BY <1>2 DEF Sound, LifeSound
  <2>2. OutSound(f)
    BY <1>1, <1>2 DEF Sound, OutSound, CertEvents, DeltaEvents, Credits
  <2>. QED
    BY <1>2, <2>1, <2>2 DEF Sound
<1>3. CASE CleanupPending(ep.cand)
  <2>1. ep' = [ep EXCEPT !.cand = PollCleanup(@)]
    BY <1>3 DEF PollPoisoned
  <2>. QED
    BY <1>0, <1>2, <2>1, ReleaseSound
<1>4. CASE ~CleanupPending(ep.cand)
  <2>1. ep' = [ep EXCEPT !.rt = NoRuntime, !.poisoned = FALSE]
    BY <1>4 DEF PollPoisoned
  <2>. QED
    BY <1>0, <1>2, <1>4, <2>1, RuntimeClosedSound
<1>. QED
  BY <1>3, <1>4

LEMMA DrainKeeps ==
    ASSUME Sound(ep), Drain
    PROVE  Sound(ep')
<1>0. ep.life = "Closing" /\ ep.out = "none" /\ ep.latched /\ Core(ep)
  BY DEF Drain, Sound, LifeSound
<1>1. Cleared(ep) /\ Scans(ep) /\ ep.pinst = NoStamp /\ ep.pedit = NoStamp
  BY <1>0 DEF Core, RestSound, Cleared, Scans
<1>2. ASSUME NEW f, Core(f), f.out = "none", f.life = "Closing", f.cert = ep.cert, f.facts = ep.facts,
             f.latched, f.pcert = ep.pcert, f.pinc = ep.pinc, f.pinst = NoStamp, f.pedit = NoStamp,
             NEW event \in {"drain", "drained"}, event = "drained" => ~f.rt.live
      PROVE  Sound(Emit(f, event))
  <2>. DEFINE h == Emit(f, event)
  <2>0. f \in Eps /\ event \in Events
    BY <1>2 DEF Core, Sane, Events, CloseEvents
  <2>1. /\ Same(f, h)
        /\ ~f.exhausted => h.out = event /\ h.life = "Closing"
        /\ f.exhausted => h.out = "none" /\ h.life = "Faulted"
    BY <1>2, <2>0, EmitFields
  <2>. HIDE DEF h
  <2>2. Core(h)
    BY <1>2, <2>1, SameCore
  <2>3. LifeSound(h)
    BY <1>1, <1>2, <2>1 DEF LifeSound, Same, Cleared
  <2>4. OutSound(h)
    BY <1>1, <1>2, <2>1 DEF OutSound, Same, Cleared, Deriving, CertEvents, DeltaEvents
  <2>. QED
    BY <2>2, <2>3, <2>4 DEF Sound, h
<1>3. CASE CleanupPending(ep.cand) /\ ep.rt.live /\ ep' = Emit([ep EXCEPT !.cand = PollCleanup(@)], "drain")
  <2>. DEFINE f == [ep EXCEPT !.cand = PollCleanup(@)]
  <2>1. /\ Core(f) /\ f.out = ep.out /\ f.life = ep.life /\ f.cert = ep.cert /\ f.facts = ep.facts
        /\ (f.latched <=> ep.latched) /\ f.pcert = ep.pcert /\ f.pinc = ep.pinc
        /\ f.pinst = ep.pinst /\ f.pedit = ep.pedit
    BY <1>0, <1>3, ReleaseSound
  <2>. HIDE DEF f
  <2>2. Sound(Emit(f, "drain"))
    BY <1>0, <1>1, <1>2, <2>1
  <2>. QED
    BY <1>3, <2>2 DEF f
<1>4. CASE ep' = Emit(ep, "drain")
  BY <1>0, <1>1, <1>2, <1>4
<1>5. CASE ~CleanupPending(ep.cand) /\ ep' = Emit([ep EXCEPT !.rt = NoRuntime, !.poisoned = FALSE], "drained")
  <2>. DEFINE f == [ep EXCEPT !.rt = NoRuntime, !.poisoned = FALSE]
  <2>1. /\ Core(f) /\ f.out = ep.out /\ f.life = ep.life /\ f.cert = ep.cert /\ f.facts = ep.facts
        /\ (f.latched <=> ep.latched) /\ f.pcert = ep.pcert /\ f.pinc = ep.pinc /\ ~f.rt.live
        /\ f.pinst = ep.pinst /\ f.pedit = ep.pedit
    BY <1>0, <1>5, RuntimeClosedSound
  <2>. HIDE DEF f
  <2>2. Sound(Emit(f, "drained"))
    BY <1>0, <1>1, <1>2, <2>1
  <2>. QED
    BY <1>5, <2>2 DEF f
<1>. QED
  BY <1>3, <1>4, <1>5 DEF Drain

\* While a scan is under way the candidate does not start.
LEMMA PollSourceFactsKeeps ==
    ASSUME Sound(ep), PollSourceFacts
    PROVE  Sound(ep')
<1>0. /\ ~ep.poisoned /\ ep.life = "Open" /\ ep.cert = "Scanning" /\ ep.out = "none"
      /\ Core(ep) /\ Awake(ep) /\ Scans(ep) /\ ep.pcert = NoCert /\ ep.pinc = NoCert
  <2>1. ~ep.poisoned /\ ep.life = "Open" /\ ep.cert = "Scanning"
    BY DEF PollSourceFacts
  <2>2. ep.out = "none"
    BY <2>1 DEF Sound, LifeSound
  <2>. QED
    BY <2>1, <2>2, OpenFacts
<1>1. CASE CleanupPending(ep.cand) /\ ep' = [ep EXCEPT !.cand = PollCleanup(@)]
  <2>1. Deriving(ep) /\ ep.rt.live /\ ~IsActive(ep.cand) /\ ep.cand.green.pend.k = "none" /\ CandSound(ep.cand)
    BY <1>0 DEF Scans, Core, Sane, RestSound, Cleared, WaitSound, Deriving
  <2>2. ~ep.cand.closing
    BY <1>0, <1>1, SpentOwnsNothing DEF Core, RestSound, Awake
  <2>3. Cleaned(ep.cand, PollCleanup(ep.cand))
    BY <2>1, PollCleanupSound
  <2>4. PICK d : d = PollCleanup(ep.cand)
    OBVIOUS
  <2>5. /\ CandSound(d) /\ ~d.closing /\ Owned(d) \subseteq Owned(ep.cand) /\ ~IsActive(d)
        /\ ep.cand.retained # None => d.retained = ep.cand.retained
        /\ d.green.pend.k = "none"
    BY <2>1, <2>2, <2>3, <2>4, StageFacts DEF Cleaned, IsActive
  <2>. DEFINE f == [ep EXCEPT !.cand = d]
  <2>6. Core(f) /\ Awake(f) /\ f.pcert = NoCert /\ f.pinc = NoCert /\ f.cert = ep.cert /\ f.facts = ep.facts
    BY <1>0, <2>1, <2>2, <2>5, WorkMoves
  <2>7. ep' = f
    BY <1>1, <2>4
  <2>. HIDE DEF f
  <2>. QED
    BY <1>0, <2>6, <2>7, RestsSound DEF Scans
<1>2. CASE ~CleanupPending(ep.cand) /\ \E pages \in 0..MaxPages : ep' = FactsComplete(ep, pages)
  BY <1>0, <1>2, FactsCompleteSound
<1>3. CASE ep' = PoisonAndFail(ep)
  BY <1>0, <1>3, PoisonAndFailSound DEF Core, Awake
<1>. QED
  BY <1>1, <1>2, <1>3 DEF PollSourceFacts

LEMMA BeginCloseKeeps ==
    ASSUME Sound(ep), BeginClose
    PROVE  Sound(ep')
<1>0. ep \in Eps /\ CandSound(ep.cand) /\ Core(ep)
  BY DEF Sound, Core, Sane
<1>1. /\ CandSound(CloseCandidate(ep.cand)) /\ CloseCandidate(ep.cand).closing
      /\ Spent(ep.cand) => Spent(CloseCandidate(ep.cand))
  BY <1>0, CloseCandidateSound
<1>2. PICK d \in Cands : d = CloseCandidate(ep.cand)
  BY <1>1 DEF CandSound
<1>3. PICK rt \in Runtimes : rt = CancelFacts(ep.rt)
  BY <1>0, EpTyped, CancelFactsKeeps
<1>4. (rt.live <=> ep.rt.live) /\ rt.rev = ep.rt.rev /\ rt.undo = None
  BY <1>0, <1>3, EpTyped, CancelFactsKeeps
<1>5. CandSound(d) /\ d.closing /\ (Spent(ep.cand) => Spent(d)) /\ ~IsActive(d)
  BY <1>1, <1>2 DEF CandSound, CloseSound
<1>. DEFINE g == ClearPendings(ep)
            h == ClearDerived(g)
            f == [h EXCEPT !.latched = TRUE, !.life = "Closing", !.cand = CloseCandidate(@),
                    !.cert = "NotStarted", !.target = NoStamp, !.observed = None, !.lastCert = None]
<1>6. ep' = f
  BY DEF BeginClose
<1>7. g \in Eps /\ g.rt = ep.rt /\ g.cand = ep.cand /\ g.pinst = NoStamp /\ g.pedit = NoStamp
      /\ (g.poisoned <=> ep.poisoned) /\ (g.exhausted <=> ep.exhausted) /\ g.out = ep.out
  <2>1. g \in Eps
    BY <1>0, StateTypes DEF Eps, ClearPendings
  <2>. QED
    BY <1>0, <2>1 DEF Eps, ClearPendings
<1>8. h = [g EXCEPT !.pcert = NoCert, !.pinc = NoCert, !.facts = "none", !.activeCert = None, !.rt = rt]
  BY <1>3, <1>7 DEF ClearDerived
<1>. HIDE DEF g, h
<1>9. /\ h \in Eps /\ h.rt = rt /\ h.cand = ep.cand /\ h.pinst = NoStamp /\ h.pedit = NoStamp
      /\ (h.poisoned <=> ep.poisoned) /\ (h.exhausted <=> ep.exhausted) /\ h.out = ep.out
      /\ h.pcert = NoCert /\ h.pinc = NoCert /\ h.facts = "none" /\ h.activeCert = None
  <2>1. h \in Eps
    BY <1>7, <1>8, StateTypes, Numbers DEF Eps
  <2>. QED
    BY <1>7, <1>8, <2>1 DEF Eps
<1>10. f = [h EXCEPT !.latched = TRUE, !.life = "Closing", !.cand = d,
                    !.cert = "NotStarted", !.target = NoStamp, !.observed = None, !.lastCert = None]
  BY <1>2, <1>9
<1>. HIDE DEF f
<1>11. TRUE \in BOOLEAN
  OBVIOUS
<1>12. f \in Eps
  BY <1>9, <1>10, <1>11, StateTypes, Numbers DEF Eps, Lifecycles, CertStates
<1>13. /\ f.rt = rt /\ f.cand = d /\ f.pinst = NoStamp /\ f.pedit = NoStamp /\ f.life = "Closing"
       /\ (f.poisoned <=> ep.poisoned) /\ (f.exhausted <=> ep.exhausted) /\ f.out = ep.out
       /\ f.pcert = NoCert /\ f.pinc = NoCert /\ f.facts = "none" /\ f.activeCert = None
       /\ f.target = NoStamp /\ f.observed = None /\ f.lastCert = None /\ f.cert = "NotStarted"
  BY <1>9, <1>10, <1>12 DEF Eps
<1>14. f.latched
  BY <1>9, <1>10 DEF Eps
<1>15. Sane(f) /\ RestSound(f)
  BY <1>0, <1>4, <1>5, <1>12, <1>13, <1>14 DEF Core, Sane, RestSound, Cleared, Deriving
<1>16. FactsSound(f) /\ WaitSound(f) /\ BasesSound(f) /\ CurrentSound(f)
  BY <1>4, <1>5, <1>13 DEF FactsSound, WaitSound, BasesSound, CurrentSound, Deriving
<1>17. LifeSound(f) /\ OutSound(f)
  BY <1>4, <1>13, <1>14 DEF Sound, LifeSound, OutSound
<1>. QED
  BY <1>6, <1>15, <1>16, <1>17 DEF Sound, Core

LEMMA OpenKeeps ==
    ASSUME Sound(ep), Open
    PROVE  Sound(ep')
<1>0. ep \in Eps /\ Core(ep) /\ ep.out = "none"
  BY DEF Sound, Core, Sane, Open
<1>1. ASSUME NEW f, Core(f), f.out = "none", f.life = "Opening", ~f.rt.live, f.exhausted <=> ep.exhausted,
             f.latched => f.exhausted, ~f.exhausted => f.pinst = NoStamp
      PROVE  Sound(Emit(f, "opened"))
  <2>. DEFINE h == Emit(f, "opened")
  <2>0. f \in Eps /\ "opened" \in Events /\ Scans(f)
    BY <1>1 DEF Core, Sane, RestSound, Events, Scans, Cleared
  <2>1. /\ Same(f, h)
        /\ ~f.exhausted => h.out = "opened" /\ h.life = "Opening"
        /\ f.exhausted => h.out = "none" /\ h.life = "Faulted"
    BY <1>1, <2>0, EmitFields
  <2>. HIDE DEF h
  <2>2. Cleared(f) /\ f.pcert = NoCert /\ f.pinc = NoCert /\ ~f.poisoned /\ f.pedit = NoStamp
    BY <1>1 DEF Core, RestSound, Sane, Cleared, Deriving
  <2>3. CASE f.exhausted
    BY <1>1, <2>0, <2>1, <2>2, <2>3, ExhaustedSound DEF h
  <2>4. CASE ~f.exhausted
    <3>1. Core(h)
      BY <1>1, <2>1, SameCore
    <3>2. LifeSound(h)
      BY <1>1, <2>0, <2>1, <2>2, <2>4 DEF LifeSound, Same, CloseEvents, Scans
    <3>3. OutSound(h)
      BY <1>1, <2>1, <2>2, <2>4 DEF OutSound, Same, CertEvents, DeltaEvents, Credits
    <3>. QED
      BY <3>1, <3>2, <3>3 DEF Sound, h
  <2>. QED
    BY <2>3, <2>4
<1>2. CASE ep.life = "AwaitingOpen" /\ ep' = Emit([ep EXCEPT !.life = "Opening"], "opened")
  <2>. DEFINE f == [ep EXCEPT !.life = "Opening"]
  <2>1. f \in Eps
    BY <1>0 DEF Eps, Lifecycles
  <2>2. Same(ep, f) /\ f.life = "Opening" /\ f.out = "none"
    BY <1>0, <2>1 DEF Eps, Same
  <2>. HIDE DEF f
  <2>3. Core(f)
    BY <1>0, <2>2, SameCore
  <2>4. ~ep.latched /\ ~ep.rt.live /\ ep.pinst = NoStamp
    BY <1>0, <1>2 DEF Sound, LifeSound, OutSound
  <2>. QED
    BY <1>1, <1>2, <2>2, <2>3, <2>4 DEF Same, f
<1>3. CASE /\ ep.life = "Faulted" /\ ~ep.rt.live
           /\ ep' = Emit([ep EXCEPT !.failed = FALSE, !.poisoned = FALSE, !.reseed = FALSE,
                                 !.target = NoStamp, !.observed = None, !.cert = "NotStarted",
                                 !.activeCert = None, !.lastCert = None, !.life = "Opening"], "opened")
  <2>. DEFINE f == [ep EXCEPT !.failed = FALSE, !.poisoned = FALSE, !.reseed = FALSE,
                                 !.target = NoStamp, !.observed = None, !.cert = "NotStarted",
                                 !.activeCert = None, !.lastCert = None, !.life = "Opening"]
  <2>0. FALSE \in BOOLEAN
    OBVIOUS
  <2>1. f \in Eps
    BY <1>0, <2>0, StateTypes, Numbers DEF Eps, Lifecycles, CertStates
  <2>2. /\ f.life = "Opening" /\ f.out = "none" /\ f.cand = ep.cand /\ f.rt = ep.rt /\ f.cert = "NotStarted"
        /\ (f.latched <=> ep.latched) /\ (f.exhausted <=> ep.exhausted)
        /\ f.pinst = ep.pinst /\ f.pedit = ep.pedit /\ f.pcert = ep.pcert /\ f.pinc = ep.pinc
        /\ f.facts = ep.facts /\ f.target = NoStamp /\ f.observed = None
        /\ f.activeCert = None /\ f.lastCert = None
    BY <1>0, <2>1 DEF Eps
  <2>3. ~f.poisoned
    BY <1>0 DEF Eps
  <2>. HIDE DEF f
  <2>4. Cleared(ep) /\ ~ep.poisoned
    BY <1>0, <1>3 DEF Core, RestSound, Sane
  <2>5. Same(ep, f)
    BY <2>1, <2>2, <2>3, <2>4 DEF Same, Cleared
  <2>6. Core(f)
    BY <1>0, <2>5, SameCore
  <2>7. (ep.latched => ep.exhausted) /\ (~ep.exhausted => ep.pinst = NoStamp)
    BY <1>0, <1>3 DEF Sound, LifeSound, OutSound
  <2>. QED
    BY <1>1, <1>3, <2>2, <2>6, <2>7 DEF f
<1>. QED
  BY <1>2, <1>3 DEF Open

LEMMA BadFrameKeeps ==
    ASSUME Sound(ep), BadFrame
    PROVE  Sound(ep')
<1>0. ep \in Eps /\ Core(ep) /\ Sane(ep) /\ ep.out = "none" /\ ~ep.latched
  BY OpenFacts DEF BadFrame, Core, Awake
<1>1. PICK f : f = PoisonRuntime(ep)
  OBVIOUS
<1>2. Core(f) /\ QuietOut(f) /\ Scans(f) /\ f.out = "none" /\ ~f.latched
  BY <1>0, <1>1, PoisonRuntimeSound
<1>3. f \in Eps
  BY <1>2 DEF Core, Sane
<1>. DEFINE g == ClearPendings(f)
<1>4. g \in Eps
  BY <1>3, StateTypes DEF Eps, ClearPendings
<1>5. Same(f, g) /\ g.out = f.out
  BY <1>2, <1>3, <1>4 DEF Eps, ClearPendings, Same, QuietOut
<1>. HIDE DEF g
<1>6. Core(g) /\ QuietOut(g) /\ Scans(g) /\ g.out = "none" /\ ~g.latched
  BY <1>2, <1>5, SameCore DEF Same, QuietOut, Scans
<1>7. Sound(FailClosed(g))
  BY <1>6, FailClosedSound
<1>. QED
  BY <1>1, <1>7 DEF BadFrame, g

LEMMA StampTyped ==
    ASSUME NEW rev \in Revs, NEW hash \in Hashes
    PROVE  Stamp(rev, hash) \in Stamps /\ Stamp(rev, hash).rev = rev /\ Stamp(rev, hash) # NoStamp
<1>1. hash \in {"known", "provisional", "wrong"}
  BY DEF Hashes
<1>2. Stamp(rev, hash) \in Stamps /\ Stamp(rev, hash).rev = rev
  BY <1>1 DEF Stamps, Stamp
<1>. QED
  BY <1>2, StateTypes, Numbers

LEMMA SnapshotKeeps ==
    ASSUME Sound(ep), Snapshot
    PROVE  Sound(ep')
<1>0. /\ ep \in Eps /\ Core(ep) /\ ep.out = "none" /\ ~ep.latched /\ ep.life = "Open"
      /\ Awake(ep) /\ Scans(ep) /\ ep.pcert = NoCert /\ ep.pinc = NoCert
  BY OpenFacts DEF Snapshot, EnsureOpen, Awake
<1>1. CASE ep' = RejectSeed(ep)
  <2>. DEFINE f == ClearPendings(ep)
  <2>1. f \in Eps
    BY <1>0, StateTypes DEF Eps, ClearPendings
  <2>2. Same(ep, f) /\ f.out = ep.out
    BY <1>0, <2>1 DEF Eps, ClearPendings, Same, Awake
  <2>. HIDE DEF f
  <2>3. Core(f) /\ QuietOut(f) /\ Scans(f) /\ f.out = "none" /\ ~f.latched
    BY <1>0, <2>2, SameCore DEF Same, QuietOut, Scans, Awake
  <2>. QED
    BY <1>1, <2>3, FailClosedSound DEF RejectSeed, f
<1>2. ASSUME NEW f, Core(f), Scans(f), f.pcert = NoCert, f.pinc = NoCert, f.out = "none", f.life = "Open",
             ~f.latched, ~f.poisoned, ~f.rt.live, f.pedit = NoStamp, NEW event,
             \/ event = "intermediateSeed" /\ f.pinst = NoStamp
             \/ event = "installSeed" /\ f.pinst # NoStamp
      PROVE  Sound(Emit(f, event))
  <2>. DEFINE h == Emit(f, event)
  <2>0. f \in Eps /\ event \in Events /\ f.cert = "NotStarted"
    BY <1>2 DEF Core, Sane, Events, RestSound, Cleared
  <2>1. /\ Same(f, h)
        /\ ~f.exhausted => h.out = event /\ h.life = "Open"
        /\ f.exhausted => h.out = "none" /\ h.life = "Faulted"
    BY <1>2, <2>0, EmitFields
  <2>. HIDE DEF h
  <2>2. CASE f.exhausted
    BY <1>2, <2>1, <2>2, ExhaustedSound DEF h
  <2>3. CASE ~f.exhausted
    <3>1. Core(h)
      BY <1>2, <2>1, SameCore
    <3>2. LifeSound(h)
      BY <1>2, <2>0, <2>1, <2>3 DEF LifeSound, Same, CloseEvents, Scans
    <3>3. OutSound(h)
      BY <1>2, <2>1, <2>3 DEF OutSound, Same, CertEvents, DeltaEvents, Credits
    <3>. QED
      BY <3>1, <3>2, <3>3 DEF Sound, h
  <2>. QED
    BY <2>2, <2>3
<1>3. CASE ~SnapshotRefused(ep) /\ ep' = Emit([ep EXCEPT !.seeding = TRUE], "intermediateSeed")
  <2>. DEFINE f == [ep EXCEPT !.seeding = TRUE]
  <2>0. TRUE \in BOOLEAN
    OBVIOUS
  <2>1. f \in Eps
    BY <1>0, <2>0 DEF Eps
  <2>2. Same(ep, f) /\ f.out = ep.out /\ f.life = ep.life
    BY <1>0, <2>1 DEF Eps, Same
  <2>. HIDE DEF f
  <2>3. Core(f)
    BY <1>0, <2>2, SameCore
  <2>4. Sound(Emit(f, "intermediateSeed"))
    BY <1>0, <1>2, <1>3, <2>2, <2>3 DEF Same, SnapshotRefused, Awake, Scans
  <2>. QED
    BY <1>3, <2>4 DEF f
<1>4. ASSUME ~SnapshotRefused(ep), NEW rev \in Revs, NEW hash \in Hashes,
             ep' = Emit([ep EXCEPT !.seeding = FALSE, !.pinst = Stamp(rev, hash)], "installSeed")
      PROVE  Sound(ep')
  <2>0. FALSE \in BOOLEAN
    OBVIOUS
  <2>1. PICK t \in Stamps : t = Stamp(rev, hash) /\ t # NoStamp
    BY <1>4, StampTyped
  <2>. DEFINE f == [ep EXCEPT !.seeding = FALSE, !.pinst = t]
  <2>2. f \in Eps
    BY <1>0, <2>0 DEF Eps
  <2>3. /\ f.cand = ep.cand /\ f.rt = ep.rt /\ f.cert = ep.cert /\ f.out = "none" /\ f.life = "Open"
        /\ (f.poisoned <=> ep.poisoned) /\ (f.latched <=> ep.latched) /\ (f.exhausted <=> ep.exhausted)
        /\ f.pinst = t /\ f.pedit = ep.pedit /\ f.pcert = ep.pcert /\ f.pinc = ep.pinc
        /\ f.facts = ep.facts /\ f.target = ep.target /\ f.observed = ep.observed
        /\ f.activeCert = ep.activeCert /\ f.lastCert = ep.lastCert
    BY <1>0, <2>2 DEF Eps
  <2>. HIDE DEF f
  <2>4. Sane(f) /\ RestSound(f)
    BY <1>0, <2>2, <2>3 DEF Core, Sane, RestSound, Cleared, Deriving
  <2>5. FactsSound(f) /\ WaitSound(f) /\ CurrentSound(f)
    BY <1>0, <2>3 DEF Core, FactsSound, WaitSound, CurrentSound, Deriving
  <2>6. BasesSound(f)
    BY <1>0, <2>3 DEF Core, BasesSound, Deriving
  <2>7. Sound(Emit(f, "installSeed"))
    BY <1>0, <1>2, <1>4, <2>1, <2>3, <2>4, <2>5, <2>6 DEF Core, SnapshotRefused, Awake, Scans
  <2>. QED
    BY <1>4, <2>1, <2>7 DEF f
<1>. QED
  BY <1>1, <1>3, <1>4 DEF Snapshot

LEMMA EditKeeps ==
    ASSUME Sound(ep), Edit
    PROVE  Sound(ep')
<1>0. /\ ep \in Eps /\ Core(ep) /\ ep.out = "none" /\ ~ep.latched /\ ep.life = "Open"
      /\ Awake(ep) /\ Scans(ep) /\ ep.pcert = NoCert /\ ep.pinc = NoCert /\ CandSound(ep.cand)
  BY OpenFacts DEF Edit, EnsureOpen, Awake, Core, Sane
<1>1. CASE ep' = RejectEdit(ep)
  BY <1>0, <1>1, PoisonAndFailSound DEF RejectEdit, Core
<1>2. /\ Stopped(ep.cand, CancelForEdit(ep.cand))
      /\ Spent(ep.cand) => Spent(CancelForEdit(ep.cand))
  BY <1>0, CancelForEditSound, SpentStays
<1>3. PICK d \in Cands : d = CancelForEdit(ep.cand)
  BY <1>2 DEF Stopped, CandSound
<1>. DEFINE f == [ep EXCEPT !.cand = d]
<1>4. CASE HasSource(ep) /\ ep' = PoisonAndFail([ep EXCEPT !.cand = CancelForEdit(@)])
  <2>1. f \in Eps /\ f.cand = d /\ f.rt = ep.rt /\ f.out = "none" /\ ~f.latched
    BY <1>0 DEF Eps
  <2>2. ep' = PoisonAndFail(f)
    BY <1>3, <1>4
  <2>. HIDE DEF f
  <2>3. Sane(f)
    BY <1>0, <1>2, <1>3, <1>4, <2>1 DEF Core, Sane, HasSource, Stopped
  <2>. QED
    BY <2>1, <2>2, <2>3, PoisonAndFailSound
<1>5. ASSUME HasSource(ep), ep.rt.rev < MaxRev, NEW hash \in Hashes,
             ep' = Emit([[ep EXCEPT !.cand = CancelForEdit(@)] EXCEPT !.rt.rev = ep.rt.rev + 1,
                              !.pedit = Stamp(ep.rt.rev + 1, hash), !.cert = "NotStarted"], "installEdit")
      PROVE  Sound(ep')
  <2>0. ep.rt \in Runtimes /\ ep.rt.live /\ ep.rt.rev \in Revs
    BY <1>0, <1>5, EpTyped DEF HasSource, Core, Sane
  <2>1. PICK rev \in Revs : rev = ep.rt.rev + 1 /\ rev \in OptRev /\ ep.rt.rev < rev /\ rev \in Nat
    <3>1. ep.rt.rev \in Nat /\ ep.rt.rev >= 1
      BY <2>0, Numbers DEF Revs
    <3>2. ep.rt.rev + 1 \in Revs /\ ep.rt.rev < ep.rt.rev + 1
      BY <1>5, <3>1, Numbers DEF Revs
    <3>. QED
      BY <3>2, Numbers
  <2>2. PICK t \in Stamps : t = Stamp(rev, hash) /\ t # NoStamp /\ t.rev = rev
    BY <1>5, <2>1, StampTyped
  <2>3. PICK rt \in Runtimes : rt = [ep.rt EXCEPT !.rev = rev]
    BY <2>0, <2>1 DEF Runtimes
  <2>4. rt.live /\ rt.rev = rev /\ rt.facts = ep.rt.facts /\ rt.undo = ep.rt.undo
    BY <2>0, <2>3 DEF Runtimes
  <2>. DEFINE g == [ep EXCEPT !.cand = d, !.rt = rt, !.pedit = t, !.cert = "NotStarted"]
  <2>5. ep' = Emit(g, "installEdit")
    BY <1>0, <1>3, <1>5, <2>1, <2>2, <2>3
  <2>6. g \in Eps
    BY <1>0 DEF Eps, CertStates
  <2>7. /\ g.cand = d /\ g.rt = rt /\ g.cert = "NotStarted" /\ g.out = "none" /\ g.life = "Open"
        /\ (g.poisoned <=> ep.poisoned) /\ (g.latched <=> ep.latched) /\ (g.exhausted <=> ep.exhausted)
        /\ g.pinst = ep.pinst /\ g.pedit = t /\ g.pcert = NoCert /\ g.pinc = NoCert
        /\ g.facts = ep.facts /\ g.target = ep.target /\ g.observed = ep.observed
        /\ g.activeCert = ep.activeCert /\ g.lastCert = ep.lastCert
    BY <1>0, <2>6 DEF Eps
  <2>. HIDE DEF g
  <2>8. /\ CandSound(d) /\ ~IsActive(d) /\ d.green.pend.k = "none" /\ Owned(d) = Owned(ep.cand)
        /\ (d.closing <=> ep.cand.closing) /\ (~IsActive(ep.cand) => d.retained = ep.cand.retained)
        /\ (Spent(ep.cand) => Spent(d))
    BY <1>2, <1>3, StageFacts DEF Stopped, IsActive, NoGreen
  <2>9. Sane(g) /\ RestSound(g)
    BY <1>0, <2>1, <2>4, <2>6, <2>7, <2>8 DEF Core, Sane, RestSound, Awake
  <2>10. FactsSound(g) /\ WaitSound(g) /\ CurrentSound(g)
    BY <1>0, <2>4, <2>7, <2>8 DEF Core, FactsSound, WaitSound, CurrentSound, Deriving
  <2>11. BasesSound(g)
    <3>. SUFFICES ASSUME ~g.cand.closing, NEW o \in Owned(g.cand)
                  PROVE  o <= g.rt.rev /\ o < g.rt.rev /\ (o = FactsBase(g.rt) => o = g.lastCert)
      BY DEF BasesSound
    <3>1. o \in Owned(ep.cand) /\ ~ep.cand.closing /\ o \in Nat
      BY <2>7, <2>8, CandTyped, Numbers DEF Owned
    <3>2. o <= ep.rt.rev /\ (o = FactsBase(ep.rt) => o = ep.lastCert)
      BY <1>0, <3>1 DEF Core, BasesSound
    <3>3. FactsBase(g.rt) = FactsBase(ep.rt)
      BY <2>4, <2>7 DEF FactsBase
    <3>4. ep.rt.rev \in Nat
      BY <2>0, Numbers
    <3>. QED
      BY <2>1, <2>4, <2>7, <3>1, <3>2, <3>3, <3>4
  <2>12. Core(g) /\ Scans(g)
    BY <2>7, <2>9, <2>10, <2>11 DEF Core, Scans
  <2>. DEFINE h == Emit(g, "installEdit")
  <2>13. /\ Same(g, h)
         /\ ~g.exhausted => h.out = "installEdit" /\ h.life = "Open"
         /\ g.exhausted => h.out = "none" /\ h.life = "Faulted"
    <3>1. "installEdit" \in Events
      BY DEF Events
    <3>. QED
      BY <2>6, <2>7, <3>1, EmitFields
  <2>. HIDE DEF h
  <2>14. CASE g.exhausted
    BY <2>5, <2>7, <2>12, <2>13, <2>14, ExhaustedSound DEF h
  <2>15. CASE ~g.exhausted
    <3>1. Core(h)
      BY <2>12, <2>13, SameCore
    <3>2. LifeSound(h)
      BY <1>0, <2>7, <2>13, <2>15 DEF LifeSound, Same, CloseEvents, Awake
    <3>3. OutSound(h)
      BY <1>0, <2>2, <2>4, <2>7, <2>13, <2>15 DEF OutSound, Same, CertEvents, DeltaEvents, Credits, Awake
    <3>. QED
      BY <2>5, <3>1, <3>2, <3>3 DEF Sound, h
  <2>. QED
    BY <2>14, <2>15
<1>. QED
  BY <1>1, <1>4, <1>5 DEF Edit, RejectEdit

LEMMA SupersedeKeeps ==
    ASSUME Sound(ep), Supersede
    PROVE  Sound(ep')
  BY OpenFacts, SupersededSound DEF Supersede, EnsureOpen

LEMMA IdsRunOutKeeps ==
    ASSUME Sound(ep), IdsRunOut
    PROVE  Sound(ep')
<1>0. ep \in Eps /\ TRUE \in BOOLEAN
  BY DEF Sound, Core, Sane
<1>. DEFINE f == [ep EXCEPT !.exhausted = TRUE]
<1>1. f \in Eps
  BY <1>0 DEF Eps
<1>2. /\ f.cand = ep.cand /\ f.rt = ep.rt /\ f.cert = ep.cert /\ f.out = ep.out /\ f.life = ep.life
      /\ (f.poisoned <=> ep.poisoned) /\ (f.latched <=> ep.latched) /\ (f.failed <=> ep.failed)
      /\ f.pinst = ep.pinst /\ f.pedit = ep.pedit /\ f.pcert = ep.pcert /\ f.pinc = ep.pinc
      /\ f.facts = ep.facts /\ f.target = ep.target /\ f.observed = ep.observed
      /\ f.activeCert = ep.activeCert /\ f.lastCert = ep.lastCert
  BY <1>0, <1>1 DEF Eps
<1>3. f.exhausted /\ ep' = f
  BY <1>0 DEF Eps, IdsRunOut
<1>. HIDE DEF f
<1>4. Sane(f) /\ RestSound(f)
  BY <1>1, <1>2 DEF Sound, Core, Sane, RestSound, Cleared, Deriving
<1>5. FactsSound(f) /\ WaitSound(f) /\ BasesSound(f) /\ CurrentSound(f)
  BY <1>2 DEF Sound, Core, FactsSound, WaitSound, BasesSound, CurrentSound, Deriving
<1>6. LifeSound(f) /\ OutSound(f)
  BY <1>2, <1>3 DEF Sound, LifeSound, OutSound
<1>. QED
  BY <1>3, <1>4, <1>5, <1>6 DEF Sound, Core

\* A page that has been sent is followed by the next, or by the completion.
LEMMA PageSent ==
    ASSUME NEW cert \in Certs, cert # NoCert, cert.rev # None, cert.left > 0
    PROVE  LET next == [cert EXCEPT !.left = @ - 1]
           IN next \in Certs /\ next # NoCert /\ next.rev = cert.rev /\ next.base = cert.base
<1>1. cert.left - 1 \in 0..MaxPages
  BY Numbers DEF Certs
<1>2. [cert EXCEPT !.left = @ - 1] \in Certs
  BY <1>1 DEF Certs
<1>. QED
  BY <1>2, StateTypes DEF Certs

LEMMA PagesSound ==
    ASSUME NEW e, Core(e), Awake(e)
    PROVE  /\ e.pcert # NoCert /\ e.pinc = NoCert /\ e.pcert.left > 0 => Sound(CertPage(e))
           /\ e.pinc # NoCert /\ e.pcert = NoCert /\ e.pinc.left > 0 => Sound(DeltaPage(e))
<1>0. e \in Eps
  BY DEF Core, Sane
<1>1. ASSUME NEW f \in Eps, f.cand = e.cand, f.rt = e.rt, f.cert = e.cert, Awake(f),
             f.facts = e.facts, f.target = e.target, f.observed = e.observed,
             f.activeCert = e.activeCert, f.lastCert = e.lastCert,
             f.pcert.rev = e.pcert.rev, f.pcert # NoCert <=> e.pcert # NoCert,
             f.pinc.rev = e.pinc.rev, f.pinc.base = e.pinc.base, f.pinc # NoCert <=> e.pinc # NoCert
      PROVE  Core(f)
  <2>1. Sane(f) /\ RestSound(f)
    BY <1>1 DEF Core, Sane, RestSound, Cleared, Deriving, Awake
  <2>2. FactsSound(f) /\ WaitSound(f) /\ CurrentSound(f)
    BY <1>1 DEF Core, FactsSound, WaitSound, CurrentSound, Deriving, Awake
  <2>3. BasesSound(f)
    BY <1>1 DEF Core, BasesSound, Deriving, Awake
  <2>. QED
    BY <2>1, <2>2, <2>3 DEF Core
<1>2. (e.pcert # NoCert \/ e.pinc # NoCert) => e.rt.rev \in Revs /\ e.rt.rev # None
  BY Numbers DEF Core, Sane, RestSound, Cleared, Deriving
<1>3. ASSUME e.pcert # NoCert, e.pinc = NoCert, e.pcert.left > 0
      PROVE  Sound(CertPage(e))
  <2>1. PICK n : n = [e.pcert EXCEPT !.left = @ - 1]
    OBVIOUS
  <2>2. n \in Certs /\ n # NoCert /\ n.rev = e.pcert.rev
    <3>1. e.pcert.rev # None
      BY <1>2, <1>3 DEF Core, FactsSound
    <3>. QED
      BY <1>0, <1>3, <2>1, <3>1, EpTyped, PageSent
  <2>. DEFINE f == [e EXCEPT !.pcert = n]
  <2>3. f \in Eps
    BY <1>0, <2>2 DEF Eps
  <2>4. /\ f.cand = e.cand /\ f.rt = e.rt /\ f.cert = e.cert /\ Awake(f)
        /\ f.facts = e.facts /\ f.target = e.target /\ f.observed = e.observed
        /\ f.activeCert = e.activeCert /\ f.lastCert = e.lastCert /\ f.pcert = n /\ f.pinc = e.pinc
    BY <1>0, <2>3 DEF Eps, Awake
  <2>5. CertPage(e) = EmitNext(f, f.pcert, "certPage", "certDone")
    BY <2>1 DEF CertPage
  <2>. HIDE DEF f
  <2>6. Core(f)
    BY <1>1, <1>3, <2>2, <2>3, <2>4
  <2>7. Publishing(f, f.pcert, "certPage", "certDone")
    BY <1>3, <2>2, <2>4 DEF Publishing
  <2>. QED
    BY <2>4, <2>5, <2>6, <2>7, EmitNextSound
<1>4. ASSUME e.pinc # NoCert, e.pcert = NoCert, e.pinc.left > 0
      PROVE  Sound(DeltaPage(e))
  <2>1. PICK n : n = [e.pinc EXCEPT !.left = @ - 1]
    OBVIOUS
  <2>2. n \in Certs /\ n # NoCert /\ n.rev = e.pinc.rev /\ n.base = e.pinc.base
    <3>1. e.pinc.rev # None
      BY <1>2, <1>4 DEF Core, FactsSound
    <3>. QED
      BY <1>0, <1>4, <2>1, <3>1, EpTyped, PageSent
  <2>. DEFINE f == [e EXCEPT !.pinc = n]
  <2>3. f \in Eps
    BY <1>0, <2>2 DEF Eps
  <2>4. /\ f.cand = e.cand /\ f.rt = e.rt /\ f.cert = e.cert /\ Awake(f)
        /\ f.facts = e.facts /\ f.target = e.target /\ f.observed = e.observed
        /\ f.activeCert = e.activeCert /\ f.lastCert = e.lastCert /\ f.pinc = n /\ f.pcert = e.pcert
    BY <1>0, <2>3 DEF Eps, Awake
  <2>5. DeltaPage(e) = EmitNext(f, f.pinc, "deltaPage", "deltaDone")
    BY <2>1 DEF DeltaPage
  <2>. HIDE DEF f
  <2>6. Core(f)
    BY <1>1, <1>4, <2>2, <2>3, <2>4
  <2>7. Publishing(f, f.pinc, "deltaPage", "deltaDone")
    BY <1>4, <2>2, <2>4 DEF Publishing
  <2>. QED
    BY <2>4, <2>5, <2>6, <2>7, EmitNextSound
<1>. QED
  BY <1>3, <1>4

\* A source that is installed, or refused.
LEMMA InstallSeedSound ==
    ASSUME NEW e, Core(e), e.out = "none", ~e.latched, ~e.poisoned, e.life = "Open",
           e.pinst # NoStamp, ~e.rt.live, e.pedit = NoStamp, NEW d
    PROVE  Sound(InstallSeed(e, d))
<1>0. e \in Eps /\ CandSound(e.cand) /\ Spent(e.cand) /\ Cleared(e)
  BY DEF Core, Sane, RestSound
<1>1. e.pinst.rev \in Revs /\ e.pinst \in Stamps /\ e.pinst.rev \in OptRev
  BY <1>0, EpTyped, Numbers DEF Stamps
<1>2. PICK rt \in Runtimes : rt = NewRuntime(e.pinst.rev)
  BY <1>1, Numbers DEF NewRuntime, NoRuntime, Runtimes
<1>3. rt.live /\ rt.rev = e.pinst.rev
  BY <1>2 DEF NewRuntime, NoRuntime
<1>. DEFINE f == [e EXCEPT !.pinst = NoStamp]
            g == [f EXCEPT !.rt = NewRuntime(e.pinst.rev), !.target = e.pinst,
                     !.observed = e.pinst.rev, !.reseed = FALSE]
<1>4. InstallSeed(e, d) = IF d = "accepted" THEN StartSourceFacts(g, FALSE, FALSE) ELSE FailClosed(f)
  BY DEF InstallSeed
<1>5. f \in Eps
  BY <1>0, StateTypes DEF Eps
<1>6. /\ f.cand = e.cand /\ f.rt = e.rt /\ f.cert = e.cert /\ f.out = "none" /\ f.life = "Open"
      /\ ~f.poisoned /\ ~f.latched /\ (f.exhausted <=> e.exhausted)
      /\ f.pinst = NoStamp /\ f.pedit = NoStamp /\ f.pcert = e.pcert /\ f.pinc = e.pinc
      /\ f.facts = e.facts /\ f.target = e.target /\ f.observed = e.observed
      /\ f.activeCert = e.activeCert /\ f.lastCert = e.lastCert
  BY <1>0, <1>5 DEF Eps
<1>7. g = [f EXCEPT !.rt = rt, !.target = e.pinst, !.observed = e.pinst.rev, !.reseed = FALSE]
  BY <1>2
<1>. HIDE DEF f
<1>8. CASE d # "accepted"
  <2>1. Sane(f) /\ RestSound(f)
    BY <1>5, <1>6 DEF Core, Sane, RestSound, Cleared, Deriving
  <2>2. FactsSound(f) /\ WaitSound(f) /\ CurrentSound(f)
    BY <1>6 DEF Core, FactsSound, WaitSound, CurrentSound, Deriving
  <2>3. BasesSound(f)
    BY <1>6 DEF Core, BasesSound, Deriving
  <2>4. QuietOut(f) /\ Scans(f)
    BY <1>0, <1>6 DEF QuietOut, Scans, Cleared, Deriving
  <2>. HIDE DEF g
  <2>. QED
    BY <1>4, <1>6, <1>8, <2>1, <2>2, <2>3, <2>4, FailClosedSound DEF Core
<1>9. CASE d = "accepted"
  <2>0. FALSE \in BOOLEAN
    OBVIOUS
  <2>. HIDE DEF g
  <2>1. g \in Eps
    BY <1>1, <1>5, <1>7, <2>0 DEF Eps
  <2>2. /\ g.cand = e.cand /\ g.rt = rt /\ g.out = "none" /\ g.life = "Open"
        /\ ~g.poisoned /\ ~g.latched /\ g.pinst = NoStamp /\ g.pedit = NoStamp
    BY <1>5, <1>6, <1>7, <2>1 DEF Eps
  <2>3. Installed(g)
    BY <1>0, <1>1, <1>3, <2>1, <2>2, SpentOwnsNothing DEF Installed, Sane, Awake
  <2>4. Sound(StartSourceFacts(g, FALSE, FALSE))
    BY <2>0, <2>3, StartSourceFactsSound
  <2>. QED
    BY <1>4, <1>9, <2>4
<1>. QED
  BY <1>8, <1>9

LEMMA InstallEditSound ==
    ASSUME NEW e, Core(e), e.out = "none", ~e.latched, ~e.poisoned, e.life = "Open", e.pinst = NoStamp,
           e.pedit # NoStamp, e.pedit.rev = e.rt.rev, e.rt.live, NEW d, NEW suits \in BOOLEAN
    PROVE  Sound(InstallEdit(e, d, suits))
<1>0. e \in Eps /\ CandSound(e.cand) /\ e.rt.rev \in Revs /\ e.rt.rev \in OptRev /\ e.pedit \in Stamps
  BY EpTyped, Numbers DEF Core, Sane
<1>. DEFINE f == [e EXCEPT !.pedit = NoStamp]
            g == [f EXCEPT !.target = e.pedit, !.observed = e.pedit.rev, !.reseed = FALSE]
<1>1. InstallEdit(e, d, suits) = IF d = "accepted" THEN StartSourceFacts(g, TRUE, suits) ELSE PoisonAndFail(f)
  BY DEF InstallEdit
<1>2. f \in Eps
  BY <1>0, StateTypes DEF Eps
<1>3. /\ f.cand = e.cand /\ f.rt = e.rt /\ f.out = "none" /\ f.life = "Open" /\ f.lastCert = e.lastCert
      /\ ~f.poisoned /\ ~f.latched /\ f.pinst = NoStamp /\ f.pedit = NoStamp
  BY <1>0, <1>2 DEF Eps
<1>. HIDE DEF f
<1>4. Sane(f)
  BY <1>2, <1>3 DEF Core, Sane
<1>5. g \in Eps
  <2>. FALSE \in BOOLEAN
    OBVIOUS
  <2>. QED
    BY <1>0, <1>2 DEF Eps
<1>6. /\ g.cand = e.cand /\ g.rt = e.rt /\ g.out = "none" /\ g.life = "Open" /\ g.lastCert = e.lastCert
      /\ ~g.poisoned /\ ~g.latched /\ g.pinst = NoStamp /\ g.pedit = NoStamp
  BY <1>2, <1>3, <1>5 DEF Eps
<1>. HIDE DEF g
<1>7. Installed(g)
  <2>1. Sane(g) /\ Awake(g)
    BY <1>5, <1>6 DEF Core, Sane, Awake
  <2>2. g.cand.closing => Spent(g.cand)
    BY <1>6 DEF Core, RestSound
  <2>3. ~g.cand.closing => \A o \in Owned(g.cand) : o < g.rt.rev /\ (o = FactsBase(g.rt) => o = g.lastCert)
    BY <1>6 DEF Core, BasesSound
  <2>. QED
    BY <1>6, <2>1, <2>2, <2>3 DEF Installed
<1>8. Sound(StartSourceFacts(g, TRUE, suits))
  <2>. TRUE \in BOOLEAN
    OBVIOUS
  <2>. QED
    BY <1>7, StartSourceFactsSound
<1>9. Sound(PoisonAndFail(f))
  BY <1>3, <1>4, PoisonAndFailSound
<1>. QED
  BY <1>1, <1>8, <1>9

LEMMA LatchedReceiptKeeps ==
    ASSUME Sound(ep), ep.latched, ep.out # "none", NEW d, NEW e, e = [ep EXCEPT !.out = "none"],
           \/ ep.out \notin CloseEvents /\ ep' = e
           \/ ep.out = "drain" /\ ep' = e
           \/ /\ ep.out = "drained"
              /\ ep' = IF d = "accepted" THEN Emit([e EXCEPT !.life = "Closed"], "closed") ELSE e
           \/ ep.out = "closed" /\ ep' = [e EXCEPT !.life = IF d = "accepted" THEN "Removable" ELSE "Closing"]
    PROVE  Sound(ep')
<1>0. ep \in Eps /\ Core(ep) /\ Cleared(ep) /\ ep.pinst = NoStamp
  BY DEF Sound, Core, Sane, RestSound
<1>1. e \in Eps /\ Same(ep, e) /\ e.life = ep.life /\ e.out = "none"
  <2>1. e \in Eps
    BY <1>0, StateTypes DEF Eps
  <2>. QED
    BY <1>0, <2>1 DEF Eps, Same
<1>2. ASSUME NEW f, Same(ep, f), f.out \in {"none", "closed"}, f.out = "closed" => ~ep.rt.live,
             \/ f.life = ep.life
             \/ f.life = "Closing"
             \/ f.life \in {"Closed", "Removable"} /\ ~ep.rt.live
             \/ f.life = "Faulted" /\ ep.exhausted
      PROVE  Sound(f)
  <2>1. Core(f)
    BY <1>0, <1>2, SameCore
  <2>2. LifeSound(f)
    BY <1>0, <1>2 DEF LifeSound, Same, Sound, Core, Sane, Cleared
  <2>3. OutSound(f)
    BY <1>0, <1>2 DEF OutSound, Same, Cleared, Deriving
  <2>. QED
    BY <2>1, <2>2, <2>3 DEF Sound
<1>3. CASE ep' = e
  BY <1>1, <1>2, <1>3
<1>4. CASE ep.out = "drained" /\ ep' = Emit([e EXCEPT !.life = "Closed"], "closed")
  <2>. DEFINE f == [e EXCEPT !.life = "Closed"]
              h == Emit(f, "closed")
  <2>1. f \in Eps
    BY <1>1 DEF Eps, Lifecycles
  <2>2. Same(e, f) /\ f.life = "Closed" /\ f.out = "none"
    BY <1>1, <2>1 DEF Eps, Same
  <2>. HIDE DEF f
  <2>3. "closed" \in Events
    BY DEF Events, CloseEvents
  <2>4. /\ Same(f, h)
        /\ ~f.exhausted => h.out = "closed" /\ h.life = f.life
        /\ f.exhausted => h.out = "none" /\ h.life = "Faulted"
    BY <2>1, <2>2, <2>3, EmitFields
  <2>. HIDE DEF h
  <2>5. ~ep.rt.live
    BY <1>4 DEF Sound, LifeSound
  <2>6. Same(ep, h)
    BY <1>1, <2>2, <2>4 DEF Same
  <2>7. Sound(h)
    BY <1>1, <1>2, <2>2, <2>4, <2>5, <2>6 DEF Same
  <2>. QED
    BY <1>4, <2>7 DEF h, f
<1>5. CASE ep.out = "closed" /\ ep' = [e EXCEPT !.life = IF d = "accepted" THEN "Removable" ELSE "Closing"]
  <2>1. PICK life \in {"Removable", "Closing"} : life = IF d = "accepted" THEN "Removable" ELSE "Closing"
    OBVIOUS
  <2>. DEFINE f == [e EXCEPT !.life = life]
  <2>2. f \in Eps
    BY <1>1, <2>1 DEF Eps, Lifecycles
  <2>3. Same(e, f) /\ f.life = life /\ f.out = "none"
    BY <1>1, <2>2 DEF Eps, Same
  <2>4. ep' = f
    BY <1>5, <2>1
  <2>. HIDE DEF f
  <2>5. ~ep.rt.live
    BY <1>5 DEF Sound, LifeSound
  <2>6. Same(ep, f)
    BY <1>1, <2>3 DEF Same
  <2>. QED
    BY <1>2, <2>1, <2>3, <2>4, <2>5, <2>6
<1>. QED
  BY <1>3, <1>4, <1>5

LEMMA ReceiptKeeps ==
    ASSUME Sound(ep), NEW d \in Dispositions, Receipt(d)
    PROVE  Sound(ep')
<1>. DEFINE e == [ep EXCEPT !.out = "none"]
<1>0. ep \in Eps /\ Core(ep) /\ ep.out # "none" /\ ep.out \in Events
  BY EpTyped DEF Sound, Core, Sane, Receipt
<1>1. e \in Eps /\ Same(ep, e) /\ e.life = ep.life /\ e.out = "none" /\ Core(e)
  <2>1. e \in Eps
    BY <1>0, StateTypes DEF Eps
  <2>2. Same(ep, e) /\ e.life = ep.life /\ e.out = "none"
    BY <1>0, <2>1 DEF Eps, Same
  <2>. QED
    BY <1>0, <2>1, <2>2, SameCore
<1>2. PICK suits \in BOOLEAN, st \in ExactStarts \cup {"none"}, declined \in BOOLEAN :
        /\ ep.out = "deltaDone" => st \in ExactStarts
        /\ ep' = IF ep.latched /\ ep.out \notin CloseEvents THEN e
                 ELSE HandleReceipt(e, ep.out, d, suits, st, declined)
  <2>1. CASE ep.latched /\ ep.out \notin CloseEvents
    <3>1. ep' = e
      BY <2>1 DEF Receipt
    <3>2. PICK st \in ExactStarts : TRUE
      BY DEF ExactStarts
    <3>. QED
      BY <2>1, <3>1, <3>2
  <2>2. CASE ~(ep.latched /\ ep.out \notin CloseEvents)
    <3>. DEFINE handled(suits, st, declined) == HandleReceipt(e, ep.out, d, suits, st, declined)
    <3>1. \E suits \in (IF ep.out = "installEdit" THEN BOOLEAN ELSE {FALSE}),
             st \in (IF ep.out = "deltaDone" THEN ExactStarts ELSE {"none"}),
             declined \in (IF ep.out = "deltaDone" THEN BOOLEAN ELSE {FALSE}) :
               ep' = handled(suits, st, declined)
      BY <2>2 DEF Receipt
    <3>. HIDE DEF handled
    <3>2. PICK suits \in BOOLEAN, st \in ExactStarts \cup {"none"}, declined \in BOOLEAN :
            (ep.out = "deltaDone" => st \in ExactStarts) /\ ep' = handled(suits, st, declined)
      BY <3>1
    <3>. QED
      BY <2>2, <3>2 DEF handled
  <2>. QED
    BY <2>1, <2>2
<1>3. CASE ep.latched
  <2>1. CASE ep.out \notin CloseEvents
    BY <1>0, <1>2, <1>3, <2>1, LatchedReceiptKeeps
  <2>2. CASE ep.out = "drain"
    BY <1>0, <1>2, <1>3, <2>2, LatchedReceiptKeeps DEF HandleReceipt, CloseEvents
  <2>3. CASE ep.out = "drained"
    BY <1>0, <1>2, <1>3, <2>3, LatchedReceiptKeeps DEF HandleReceipt, CloseEvents
  <2>4. CASE ep.out = "closed"
    BY <1>0, <1>2, <1>3, <2>4, LatchedReceiptKeeps DEF HandleReceipt, CloseEvents
  <2>. QED
    BY <2>1, <2>2, <2>3, <2>4 DEF CloseEvents
<1>4. CASE ~ep.latched
  <2>0. ep' = HandleReceipt(e, ep.out, d, suits, st, declined) /\ ep.out \notin CloseEvents
    BY <1>2, <1>4 DEF Sound, LifeSound
  <2>. HIDE DEF e
  <2>1. ~e.latched /\ Scans(e)
    BY <1>1, <1>4 DEF Sound, LifeSound, Same, Scans
  <2>2. ep.out \notin {"opened", "failed"} => e.life = "Open" /\ ~e.poisoned /\ e.cert # "Scanning"
    BY <1>0, <1>1, <1>4 DEF Sound, LifeSound, Same
  <2>3. /\ ep.out # "installSeed" /\ ep.life # "Faulted" => e.pinst = NoStamp
        /\ ep.out # "installEdit" /\ ep.life # "Faulted" => e.pedit = NoStamp
        /\ ep.out \notin CertEvents => e.pcert = NoCert
        /\ ep.out \notin DeltaEvents => e.pinc = NoCert
    BY <1>1 DEF Sound, OutSound, Same
  <2>4. /\ ep.out \in CertEvents => e.pcert # NoCert
        /\ ep.out \in DeltaEvents => e.pinc # NoCert
        /\ ep.out = "certPage" => e.pcert.left > 0
        /\ ep.out = "deltaPage" => e.pinc.left > 0
        /\ ep.out = "installSeed" => e.pinst # NoStamp /\ ~e.rt.live
        /\ ep.out = "installEdit" => e.pedit # NoStamp /\ e.pedit.rev = e.rt.rev /\ e.rt.live
        /\ ep.out \in Credits => Awaits(e.cand, ep.out)
        /\ ep.out = "delivery" =>
             e.lastCert = e.cand.active.rev /\ e.rt.undo = None /\ e.activeCert = None
    BY <1>1, <1>4 DEF Sound, OutSound, Same
  <2>5. CASE ep.out = "opened"
    <3>1. ep.life = "Opening" /\ ~e.poisoned
      BY <1>1, <1>4, <2>5 DEF Sound, LifeSound, Same
    <3>2. QuietOut(e)
      BY <2>3, <2>5, <3>1 DEF QuietOut, CertEvents, DeltaEvents
    <3>3. CASE d # "accepted"
      <4>1. ep' = FailClosed(e)
        BY <2>0, <2>5, <3>3 DEF HandleReceipt
      <4>. QED
        BY <1>1, <2>1, <3>2, <4>1, FailClosedSound
    <3>4. CASE d = "accepted"
      <4>. DEFINE f == [e EXCEPT !.life = "Open"]
      <4>1. ep' = f
        BY <2>0, <2>5, <3>4 DEF HandleReceipt
      <4>2. f \in Eps
        BY <1>1 DEF Eps, Lifecycles
      <4>3. Same(e, f) /\ f.life = "Open" /\ f.out = "none"
        BY <1>1, <4>2 DEF Eps, Same
      <4>. HIDE DEF f
      <4>4. Core(f) /\ Awake(f) /\ Scans(f) /\ f.pcert = NoCert /\ f.pinc = NoCert
        BY <1>1, <2>1, <3>1, <3>2, <4>3, SameCore DEF Same, Awake, Scans, QuietOut
      <4>. QED
        BY <4>1, <4>4, RestsSound
    <3>. QED
      BY <3>3, <3>4
  <2>6. CASE ep.out = "intermediateSeed"
    <3>1. Awake(e) /\ e.pcert = NoCert /\ e.pinc = NoCert
      BY <1>1, <2>1, <2>2, <2>3, <2>6 DEF Awake, CertEvents, DeltaEvents
    <3>2. CASE d # "accepted"
      <4>. DEFINE f == [e EXCEPT !.seeding = FALSE]
      <4>0. FALSE \in BOOLEAN
        OBVIOUS
      <4>1. ep' = FailClosed(f)
        BY <2>0, <2>6, <3>2 DEF HandleReceipt
      <4>2. f \in Eps
        BY <1>1, <4>0 DEF Eps
      <4>3. Same(e, f) /\ f.out = "none"
        BY <1>1, <4>2 DEF Eps, Same
      <4>. HIDE DEF f
      <4>4. Core(f) /\ Scans(f) /\ QuietOut(f) /\ ~f.latched
        BY <1>1, <2>1, <3>1, <4>3, SameCore DEF Same, Awake, Scans, QuietOut
      <4>. QED
        BY <4>1, <4>3, <4>4, FailClosedSound
    <3>3. CASE d = "accepted"
      <4>1. ep' = e
        BY <2>0, <2>6, <3>3 DEF HandleReceipt
      <4>. QED
        BY <1>1, <2>1, <3>1, <4>1, RestsSound
    <3>. QED
      BY <3>2, <3>3
  <2>7. CASE ep.out = "installSeed"
    <3>1. ep' = InstallSeed(e, d)
      BY <2>0, <2>7 DEF HandleReceipt
    <3>2. e.pedit = NoStamp
      BY <1>1, <2>2, <2>3, <2>7
    <3>. QED
      BY <1>1, <2>1, <2>2, <2>4, <2>7, <3>1, <3>2, InstallSeedSound
  <2>8. CASE ep.out = "installEdit"
    <3>1. ep' = InstallEdit(e, d, suits)
      BY <2>0, <2>8 DEF HandleReceipt
    <3>2. e.pinst = NoStamp
      BY <1>1, <2>2, <2>3, <2>8
    <3>. QED
      BY <1>1, <1>2, <2>1, <2>2, <2>4, <2>8, <3>1, <3>2, InstallEditSound
  <2>9. CASE ep.out \in CertEvents \cup DeltaEvents
    <3>1. Awake(e)
      BY <1>1, <2>1, <2>2, <2>3, <2>9 DEF Awake, CertEvents, DeltaEvents
    <3>2. Sound(Superseded(e)) /\ Sound(PoisonAndFail(e))
      BY <1>1, <2>1, <3>1, SupersededSound, PoisonAndFailSound DEF Core
    <3>3. CASE ep.out = "certPage"
      <4>1. ep' = CertReceipt(e, d, CertPage(e))
        BY <2>0, <3>3 DEF HandleReceipt
      <4>2. Sound(CertPage(e))
        BY <1>1, <2>3, <2>4, <3>1, <3>3, PagesSound DEF CertEvents, DeltaEvents
      <4>. QED
        BY <3>2, <4>1, <4>2 DEF CertReceipt
    <3>4. CASE ep.out = "certDone"
      <4>1. ep' = CertReceipt(e, d, CertDone(e))
        BY <2>0, <3>4 DEF HandleReceipt
      <4>2. Sound(CertDone(e))
        BY <1>1, <2>3, <2>4, <3>1, <3>4, CertDoneSound DEF CertEvents, DeltaEvents
      <4>. QED
        BY <3>2, <4>1, <4>2 DEF CertReceipt
    <3>5. CASE ep.out = "deltaBegin"
      <4>1. ep' = CertReceipt(e, d, DeltaBegin(e))
        BY <2>0, <3>5 DEF HandleReceipt
      <4>2. Publishing(e, e.pinc, "deltaPage", "deltaDone")
        BY <2>3, <2>4, <3>5 DEF CertEvents, DeltaEvents, Publishing
      <4>3. Sound(DeltaBegin(e))
        BY <1>1, <3>1, <4>2, EmitNextSound DEF DeltaBegin
      <4>. QED
        BY <3>2, <4>1, <4>3 DEF CertReceipt
    <3>6. CASE ep.out = "deltaPage"
      <4>1. ep' = CertReceipt(e, d, DeltaPage(e))
        BY <2>0, <3>6 DEF HandleReceipt
      <4>2. Sound(DeltaPage(e))
        BY <1>1, <2>3, <2>4, <3>1, <3>6, PagesSound DEF CertEvents, DeltaEvents
      <4>. QED
        BY <3>2, <4>1, <4>2 DEF CertReceipt
    <3>7. CASE ep.out = "deltaDone"
      <4>1. ep' = CertReceipt(e, d, DeltaDone(e, st, declined))
        BY <2>0, <3>7 DEF HandleReceipt
      <4>2. Sound(DeltaDone(e, st, declined))
        BY <1>1, <1>2, <2>3, <2>4, <3>1, <3>7, DeltaDoneSound DEF CertEvents, DeltaEvents
      <4>. QED
        BY <3>2, <4>1, <4>2 DEF CertReceipt
    <3>. QED
      BY <2>9, <3>3, <3>4, <3>5, <3>6, <3>7 DEF CertEvents, DeltaEvents
  <2>10. CASE ep.out \in Credits
    <3>1. Awake(e) /\ e.pcert = NoCert /\ e.pinc = NoCert
      BY <1>1, <2>1, <2>2, <2>3, <2>10 DEF Awake, CertEvents, DeltaEvents, Credits
    <3>2. ep' = CandidateReceipt(e, ep.out, d)
      BY <2>0, <2>10 DEF HandleReceipt, Credits
    <3>. QED
      BY <1>1, <2>1, <2>4, <2>10, <3>1, <3>2, CandidateReceiptSound
  <2>11. CASE ep.out = "failed"
    <3>1. ep.life = "Faulted" /\ (ep.failed \/ ep.exhausted)
      BY <1>4, <2>11 DEF Sound, LifeSound
    <3>. DEFINE f == [e EXCEPT !.life = "Faulted"]
    <3>2. f \in Eps
      BY <1>1 DEF Eps, Lifecycles
    <3>3. Same(e, f) /\ f.life = "Faulted" /\ f.out = "none" /\ (f.failed <=> e.failed)
      BY <1>1, <3>2 DEF Eps, Same
    <3>4. ep' = e \/ ep' = f
      BY <2>0, <2>11 DEF HandleReceipt
    <3>5. e.failed <=> ep.failed
      BY <1>0 DEF Eps, e
    <3>. HIDE DEF f
    <3>6. ASSUME NEW h, Same(ep, h), h.life = "Faulted", h.out = "none", h.failed <=> ep.failed
          PROVE  Sound(h)
      <4>1. Core(h)
        BY <1>0, <3>6, SameCore
      <4>2. LifeSound(h)
        BY <1>4, <3>1, <3>6 DEF Sound, LifeSound, Same, CloseEvents
      <4>3. OutSound(h)
        BY <1>4, <2>11, <3>1, <3>6 DEF Sound, OutSound, Same, CertEvents, DeltaEvents, Credits
      <4>. QED
        BY <4>1, <4>2, <4>3 DEF Sound
    <3>7. Same(ep, f)
      BY <1>1, <3>3 DEF Same
    <3>. QED
      BY <1>1, <3>1, <3>3, <3>4, <3>5, <3>6, <3>7
  <2>. QED
    BY <1>0, <2>0, <2>5, <2>6, <2>7, <2>8, <2>9, <2>10, <2>11
       DEF Events, CertEvents, DeltaEvents, Credits, CloseEvents
<1>. QED
  BY <1>3, <1>4

-----------------------------------------------------------------------------
(* The invariant, and what follows from it.                                *)

LEMMA InitSound == Init => IInv
<1>. SUFFICES ASSUME Init
              PROVE  Sound(ep) /\ faults \in Sessions
  BY DEF IInv
<1>1. faults \in Sessions
  BY DEF Init
<1>2. /\ ep.life = "AwaitingOpen" /\ ep.out = "none" /\ ep.exhausted = FALSE /\ ep.latched = FALSE
      /\ ep.failed = FALSE /\ ep.reseed = FALSE /\ ep.seeding = FALSE /\ ep.pinst = NoStamp
      /\ ep.pedit = NoStamp /\ ep.pcert = NoCert /\ ep.pinc = NoCert /\ ep.facts = "none"
      /\ ep.rt = NoRuntime /\ ep.poisoned = FALSE /\ ep.target = NoStamp /\ ep.observed = None
      /\ ep.cert = "NotStarted" /\ ep.activeCert = None /\ ep.lastCert = None /\ ep.cand = NewCandidate
  BY DEF Init
<1>3. CandSound(NewCandidate) /\ NewCandidate \in Cands /\ Spent(NewCandidate) /\ ~NewCandidate.closing
  <2>1. CandSound(NewCandidate) /\ NewCandidate \in Cands
    BY NewCandidateSound DEF CandSound
  <2>. QED
    BY <2>1 DEF Spent, NewCandidate, NewGreen
<1>4. ep \in Eps
  <2>. DEFINE cand == NewCandidate
              rt == NoRuntime
              stamp == NoStamp
              cert == NoCert
  <2>1. ep = [life |-> "AwaitingOpen", out |-> "none", exhausted |-> FALSE, latched |-> FALSE,
           failed |-> FALSE, reseed |-> FALSE, seeding |-> FALSE, pinst |-> stamp, pedit |-> stamp,
           pcert |-> cert, pinc |-> cert, facts |-> "none", rt |-> rt, poisoned |-> FALSE,
           target |-> stamp, observed |-> None, cert |-> "NotStarted",
           activeCert |-> None, lastCert |-> None, cand |-> cand]
    BY DEF Init
  <2>2. cand \in Cands /\ rt \in Runtimes /\ stamp \in Stamps /\ cert \in Certs /\ None \in OptRev /\ FALSE \in BOOLEAN
    BY <1>3, StateTypes, Numbers
  <2>. HIDE DEF cand, rt, stamp, cert
  <2>. QED
    BY <2>1, <2>2 DEF Eps, Lifecycles, Events, FactsStates, CertStates
<1>5. ~IsActive(ep.cand) /\ Spent(ep.cand) /\ ~ep.cand.closing /\ Owned(ep.cand) = {} /\ ~ep.rt.live
  BY <1>2, <1>3, SpentOwnsNothing, StateTypes
<1>6. Sane(ep) /\ RestSound(ep)
  BY <1>2, <1>3, <1>4, <1>5 DEF Sane, RestSound, Cleared, Deriving
<1>7. FactsSound(ep) /\ WaitSound(ep) /\ BasesSound(ep) /\ CurrentSound(ep)
  BY <1>2, <1>5 DEF FactsSound, WaitSound, BasesSound, CurrentSound, Deriving
<1>8. LifeSound(ep) /\ OutSound(ep)
  BY <1>2, <1>5 DEF LifeSound, OutSound, CloseEvents, CertEvents, DeltaEvents, Credits
<1>. QED
  BY <1>1, <1>6, <1>7, <1>8 DEF Sound, Core

LEMMA StepSound == IInv /\ [Next]_vars => IInv'
<1>. SUFFICES ASSUME IInv, [Next]_vars
              PROVE  IInv'
  OBVIOUS
<1>1. Sound(ep)
  BY DEF IInv
<1>2. faults' = faults
  BY DEF Next, vars
<1>3. ASSUME Sound(ep')
      PROVE  IInv'
  BY <1>2, <1>3 DEF IInv
<1>4. CASE UNCHANGED vars
  BY <1>1, <1>3, <1>4 DEF vars
<1>5. CASE Open
  BY <1>1, <1>3, <1>5, OpenKeeps
<1>6. CASE BadFrame
  BY <1>1, <1>3, <1>6, BadFrameKeeps
<1>7. CASE Snapshot
  BY <1>1, <1>3, <1>7, SnapshotKeeps
<1>8. CASE Edit
  BY <1>1, <1>3, <1>8, EditKeeps
<1>9. CASE Supersede
  BY <1>1, <1>3, <1>9, SupersedeKeeps
<1>10. CASE BeginClose
  BY <1>1, <1>3, <1>10, BeginCloseKeeps
<1>11. CASE Drain
  BY <1>1, <1>3, <1>11, DrainKeeps
<1>12. ASSUME NEW d \in Dispositions, Receipt(d)
       PROVE  IInv'
  BY <1>1, <1>3, <1>12, ReceiptKeeps
<1>13. CASE PollPoisoned
  BY <1>1, <1>3, <1>13, PollPoisonedKeeps
<1>14. CASE PollSourceFacts
  BY <1>1, <1>3, <1>14, PollSourceFactsKeeps
<1>15. CASE PollCandidate
  <2>1. PICK p \in Polls(ep.cand, "deriveFails" \in faults) :
          ep' = IF p.ev = "none" THEN [ep EXCEPT !.cand = p.c]
                ELSE EmitCandidate([ep EXCEPT !.cand = p.c], p.ev)
    BY <1>15 DEF PollCandidate
  <2>2. ep.life = "Open" /\ ep.out = "none" /\ ("deriveFails" \in faults) \in BOOLEAN
    BY <1>15 DEF PollCandidate
  <2>3. Sound(ep')
    BY <1>1, <2>1, <2>2, PollCandidateSound
  <2>. QED
    BY <1>3, <2>3
<1>16. ASSUME NEW rejected \in BOOLEAN, HostAnswer(rejected)
       PROVE  IInv'
  BY <1>1, <1>3, <1>16, HostAnswerKeeps
<1>17. CASE IdsRunOut
  BY <1>1, <1>3, <1>17, IdsRunOutKeeps
<1>. QED
  BY <1>4, <1>5, <1>6, <1>7, <1>8, <1>9, <1>10, <1>11, <1>12, <1>13, <1>14, <1>15, <1>16, <1>17 DEF Next, Step

\* The endpoint is always sound: the invariant that the results below follow from.
THEOREM EndpointIsSound == Spec => []IInv
  BY InitSound, StepSound, PTL DEF Spec

LEMMA CandsTyped == Cands \subseteq Candidates
<1>. SUFFICES ASSUME NEW c \in Cands
              PROVE  c \in Candidates
  OBVIOUS
<1>1. c.green \in Slots /\ c.active \in Actives /\ c = [active |-> c.active, retained |-> c.retained,
        cleanup |-> c.cleanup, closing |-> c.closing, green |-> c.green]
  BY DEF Cands
<1>2. c.green \in Greens
  <2>1. c.green.cleanup \in Seq(OptRev)
    BY <1>1, QueueTyped DEF Slots
  <2>2. c.green = [installed |-> c.green.installed, cleanup |-> c.green.cleanup, pend |-> c.green.pend]
    BY <1>1 DEF Slots
  <2>. QED
    BY <1>1, <2>1, <2>2 DEF Slots, Pends, Greens
<1>. DEFINE Ps == {"none", "needBegin", "needCommit", "awaitGreen", "awaitDelivery"}
                       \cup {CreditNext[k] : k \in DOMAIN CreditNext}
                       \cup {CreditPhase[k] : k \in DOMAIN CreditPhase}
<1>3. {"none"} \cup Phases \subseteq Ps
  <2>1. DOMAIN CreditNext = {"begin", "packet", "commit"}
    BY DEF CreditNext
  <2>. QED
    BY <2>1, CreditNames DEF Phases, Sealing, Credits
<1>. HIDE DEF Ps
<1>4. c.active \in [st : {"none", "parsing", "building"} \cup HoldsBase \cup Streams, rev : OptRev, base : OptRev,
                    sealed : BOOLEAN, phase : Ps]
  <2>1. c.active = [st |-> c.active.st, rev |-> c.active.rev, base |-> c.active.base,
                    sealed |-> c.active.sealed, phase |-> c.active.phase]
    BY <1>1 DEF Actives
  <2>2. c.active.phase \in Ps
    BY <1>1, <1>3 DEF Actives
  <2>. QED
    BY <1>1, <2>1, <2>2 DEF Actives, Stages
<1>. QED
  BY <1>1, <1>2, <1>4 DEF Cands, Cleanups, Candidates, Ps

\* A session that the slot has is in one place.
LEMMA PlacesOfGreen ==
    ASSUME NEW g, GreenSound(g)
    PROVE  /\ \A p, q \in GreenPlaces(g) : p = q
           /\ GreenPlaces(g) # {} <=> \E b \in Revs : Holds(g, b)
<1>1. /\ g.installed \in OptRev /\ g.pend.base \in OptRev /\ g.cleanup \in Queues
      /\ g.pend.base # None => g.installed = None /\ g.cleanup = <<>>
      /\ g.installed # None => g.cleanup \in {<<>>, <<None>>}
  <2>1. g.pend.base # None => g.pend.k # "none"
    BY DEF GreenSound, NoGreen
  <2>. QED
    BY <2>1 DEF GreenSound, Slots, Pends
<1>2. DOMAIN <<>> = {} /\ \A b \in OptRev : DOMAIN <<b>> = {1} /\ <<b>>[1] = b /\ Head(<<b>>) = b /\ <<b>> # <<>>
  OBVIOUS
<1>3. DOMAIN <<None, None>> = {1, 2} /\ \A i \in {1, 2} : <<None, None>>[i] = None
  OBVIOUS
<1>. DEFINE held == {j \in DOMAIN g.cleanup : g.cleanup[j] # None}
<1>4. /\ held \subseteq {1}
      /\ held # {} <=> g.cleanup # <<>> /\ Head(g.cleanup) # None
      /\ g.cleanup # <<>> => Head(g.cleanup) \in OptRev
  <2>1. CASE g.cleanup = <<>>
    BY <1>2, <2>1
  <2>2. CASE \E b \in OptRev : g.cleanup = <<b>>
    <3>1. PICK b \in OptRev : g.cleanup = <<b>>
      BY <2>2
    <3>2. DOMAIN g.cleanup = {1} /\ g.cleanup[1] = b /\ Head(g.cleanup) = b /\ g.cleanup # <<>>
      BY <1>2, <3>1
    <3>. QED
      BY <3>2
  <2>3. CASE g.cleanup = <<None, None>>
    <3>1. held = {}
      BY <1>3, <2>3
    <3>2. Head(g.cleanup) = None /\ g.cleanup # <<>>
      BY <2>3, QueueFacts
    <3>. QED
      BY <3>1, <3>2, Numbers
  <2>. QED
    BY <1>1, <2>1, <2>2, <2>3 DEF Queues
<1>5. GreenPlaces(g) = {<<"installed", 0>> : x \in {g.installed} \ {None}}
                          \cup {<<"pending", 0>> : x \in {g.pend.base} \ {None}}
                          \cup {<<"cleanup", i>> : i \in held}
  BY DEF GreenPlaces
<1>. HIDE DEF held
<1>6. CASE g.pend.base # None
  <2>1. GreenPlaces(g) = {<<"pending", 0>>}
    BY <1>1, <1>4, <1>5, <1>6
  <2>2. Holds(g, g.pend.base) /\ g.pend.base \in Revs
    BY <1>1, <1>6, Numbers DEF Holds
  <2>. QED
    BY <2>1, <2>2
<1>7. CASE g.pend.base = None /\ g.installed # None
  <2>1. g.cleanup # <<>> => Head(g.cleanup) = None
    BY <1>1, <1>7, QueueFacts
  <2>2. GreenPlaces(g) = {<<"installed", 0>>}
    BY <1>4, <1>5, <1>7, <2>1
  <2>3. Holds(g, g.installed) /\ g.installed \in Revs
    BY <1>1, <1>7, Numbers DEF Holds
  <2>. QED
    BY <2>2, <2>3
<1>8. CASE g.pend.base = None /\ g.installed = None
  <2>1. GreenPlaces(g) = {<<"cleanup", i>> : i \in held}
    BY <1>5, <1>8
  <2>2. \A p, q \in GreenPlaces(g) : p = q
    BY <1>4, <2>1
  <2>3. GreenPlaces(g) # {} <=> g.cleanup # <<>> /\ Head(g.cleanup) # None
    BY <1>4, <2>1
  <2>4. (\E b \in Revs : Holds(g, b)) <=> g.cleanup # <<>> /\ Head(g.cleanup) # None
    BY <1>4, <1>8, Numbers DEF Holds
  <2>. QED
    BY <2>2, <2>3, <2>4
<1>. QED
  BY <1>6, <1>7, <1>8

LEMMA EndpointInvHolds == IInv => EndpointInv
<1>. SUFFICES ASSUME IInv
              PROVE  EndpointInv
  OBVIOUS
<1>0. /\ Sound(ep) /\ Core(ep) /\ ep \in Eps /\ CandSound(ep.cand)
  BY DEF IInv, Sound, Core, Sane
<1>1. TypeOK
  <2>1. ep.cand \in Candidates
    BY <1>0, EpTyped, CandsTyped
  <2>2. ep = [life |-> ep.life, out |-> ep.out, exhausted |-> ep.exhausted, latched |-> ep.latched,
           failed |-> ep.failed, reseed |-> ep.reseed, seeding |-> ep.seeding, pinst |-> ep.pinst,
           pedit |-> ep.pedit, pcert |-> ep.pcert, pinc |-> ep.pinc, facts |-> ep.facts, rt |-> ep.rt,
           poisoned |-> ep.poisoned, target |-> ep.target, observed |-> ep.observed,
           activeCert |-> ep.activeCert, lastCert |-> ep.lastCert, cand |-> ep.cand, cert |-> ep.cert]
    BY <1>0 DEF Eps
  <2>. QED
    BY <1>0, <2>1, <2>2, EpTyped DEF TypeOK, FactsStates, CertStates
<1>2. PromotionFindsCandidateFree
  <2>1. ASSUME ep.out = "certDone", ~ep.latched, ~ep.cand.closing
        PROVE  StartOk(ep.cand)
    <3>1. ep.pcert # NoCert
      BY <1>0, <2>1 DEF Sound, OutSound, CertEvents
    <3>2. Free(ep.cand)
      BY <1>0, <2>1, <3>1, CertifiedIsFree
    <3>. QED
      BY <3>2 DEF Free, StartOk, GreenBusy
  <2>2. ASSUME ep.out = "deltaDone", ~ep.latched, ~ep.cand.closing, NEW st \in ExactStarts
        PROVE  StartIncrementalOk(ep.cand, ep.pinc.base, st)
    <3>1. ep.pinc # NoCert
      BY <1>0, <2>2 DEF Sound, OutSound, DeltaEvents
    <3>2. /\ Free(ep.cand) /\ ep.rt.rev \in Revs /\ \A o \in Owned(ep.cand) : o < ep.rt.rev
          /\ ep.pinc.base = ep.cand.retained /\ ep.cand.retained # None
      BY <1>0, <2>2, <3>1, CertifiedIsFree
    <3>3. TRUE \in BOOLEAN
      OBVIOUS
    <3>4. StartIncrementalOk(ep.cand, ep.cand.retained, st)
      BY <1>0, <3>2, <3>3, StartIncrementalSound
    <3>. QED
      BY <3>2, <3>4
  <2>. QED
    BY <2>1, <2>2 DEF PromotionFindsCandidateFree
<1>3. DeliveryIsCertified
  BY <1>0 DEF Sound, OutSound, DeliveryIsCertified
<1>4. CandidateIsCurrent
  BY <1>0 DEF Core, CurrentSound, CandidateIsCurrent
<1>5. CreditNeverWasted
  <2>. SUFFICES ASSUME ep.out \in Credits, ~ep.latched
                PROVE  AcceptOk(ep.cand, ep.out)
    BY CreditNames DEF CreditNeverWasted
  <2>1. Awaits(ep.cand, ep.out)
    BY <1>0 DEF Sound, OutSound
  <2>. QED
    BY <1>0, <2>1, AcceptSound
<1>6. AlwaysCancellable
  BY <1>0, SoundIsCancellable DEF AlwaysCancellable
<1>7. PoisonedNeverServes
  BY <1>0 DEF PoisonedNeverServes, Sound, Core, Sane, RestSound, LifeSound, Cleared, Deriving
<1>8. FaultIsReported
  BY <1>0 DEF Sound, LifeSound, FaultIsReported
<1>9. OneBase
  <2>1. \A p, q \in GreenPlaces(ep.cand.green) : p = q
    BY <1>0, PlacesOfGreen DEF CandSound
  <2>2. ep.cand.active.base # None => ep.cand.cleanup.base = None
    BY <1>0, StageFacts DEF CandSound, ActiveSound, WorkSound, BaseSound, IsActive, Cleaning
  <2>. QED
    BY <1>0, <2>1, <2>2 DEF OneBase, CandSound, BaseSound
<1>10. GreenFollowsBase
  <2>. SUFFICES ASSUME ~ep.cand.closing, NEW o \in Owned(ep.cand)
                PROVE  o \in {ep.cand.green.installed, ep.cand.green.pend.base}
                                \cup {ep.cand.green.cleanup[i] : i \in DOMAIN ep.cand.green.cleanup}
    BY DEF GreenFollowsBase
  <2>1. Holds(ep.cand.green, o) /\ ep.cand.green.cleanup \in Queues
    BY <1>0 DEF CandSound, CloseSound, GreenSound, Slots
  <2>2. o \in Revs
    BY <1>0, CandTyped, Numbers DEF Owned
  <2>3. ep.cand.green.cleanup # <<>> /\ Head(ep.cand.green.cleanup) = o
          => \E i \in DOMAIN ep.cand.green.cleanup : ep.cand.green.cleanup[i] = o
    BY <2>1, <2>2, QueueTyped
  <2>. QED
    BY <2>1, <2>3 DEF Holds
<1>11. GreenQueueBounded
  <2>1. ep.cand.green.cleanup \in Queues
    BY <1>0 DEF CandSound, GreenSound, Slots
  <2>2. /\ ep.cand.green.cleanup \in Seq(OptRev) /\ Len(ep.cand.green.cleanup) <= 2
    BY <2>1, QueueTyped
  <2>3. Len(ep.cand.green.cleanup) \in Nat
    BY <2>2, LenProperties
  <2>. QED
    BY <2>2, <2>3 DEF GreenQueueBounded
<1>12. LegacyBuildsAreParked
  BY <1>0, BlocksAreParked DEF LegacyBuildsAreParked, CandSound, ActiveSound
<1>. QED
  BY <1>1, <1>2, <1>3, <1>4, <1>5, <1>6, <1>7, <1>8, <1>9, <1>10, <1>11, <1>12 DEF EndpointInv

\* What every command, receipt and poll of the endpoint keeps, whatever goes wrong: the
\* candidate works on the certified revision alone, is free when it is to start and can
\* always be cancelled, its base is in one place with its Green session, a poisoned
\* runtime serves nothing, no credit is wasted, and every fault is reported.
THEOREM EndpointKeepsInv == Spec => []EndpointInv
  BY EndpointIsSound, EndpointInvHolds, PTL

\* A delta of source facts starts from the publication acknowledged last, which the
\* candidate still retains (start_source_facts, prepare_incremental).
THEOREM DeltaIsFromPublished == Spec => []DeltaFromPublished
<1>1. IInv => DeltaFromPublished
  BY DEF IInv, Sound, Core, FactsSound, DeltaFromPublished
<1>. QED
  BY <1>1, EndpointIsSound, PTL

-----------------------------------------------------------------------------
(* No step loses the base.                                                 *)

InSlot(c) == \E b \in Revs : Holds(c.green, b)

\* Of what the candidate c has to build on, d has some too, unless it is closed.
Carries(c, d) ==
    \/ d.closing
    \/ (Owned(c) # {} => Owned(d) # {}) /\ (InSlot(c) => InSlot(d))

LEMMA CarriesWays ==
    ASSUME NEW c, NEW d
    PROVE  /\ Carries(c, c)
           /\ Stopped(c, d) => Carries(c, d)
           /\ Owned(d) = Owned(c) /\ Kept(c.green, d.green) => Carries(c, d)
  BY DEF Carries, Stopped, InSlot, Kept

LEMMA EmitCarries ==
    ASSUME NEW e \in Eps, CandSound(e.cand), e.out = "none", NEW event
    PROVE  /\ event \in Events => Emit(e, event).cand = e.cand
           /\ event \in Events => Carries(e.cand, EmitCandidate(e, event).cand)
<1>. SUFFICES ASSUME event \in Events
              PROVE  Emit(e, event).cand = e.cand /\ Carries(e.cand, EmitCandidate(e, event).cand)
  OBVIOUS
<1>. DEFINE h == Emit(e, event)
            f == [h EXCEPT !.cand = Cancel(@), !.activeCert = None]
<1>1. Same(e, h)
  BY EmitFields
<1>2. EmitCandidate(e, event) \in {h, f}
  BY DEF EmitCandidate
<1>. HIDE DEF h
<1>3. f.cand = Cancel(e.cand)
  BY <1>1 DEF Same, Eps
<1>4. Stopped(e.cand, Cancel(e.cand))
  BY CancelSound
<1>. QED
  BY <1>1, <1>2, <1>3, <1>4, CarriesWays DEF Same, h

LEMMA CancelDerivedCarries ==
    ASSUME NEW e \in Eps, CandSound(e.cand)
    PROVE  /\ Carries(e.cand, CancelDerived(e).cand)
           /\ Carries(e.cand, Superseded(e).cand)
           /\ \A afterEdit, suits \in BOOLEAN : Carries(e.cand, StartSourceFacts(e, afterEdit, suits).cand)
<1>1. CancelOk(e.cand) /\ Dropped(e, CancelDerived(e))
  BY CancelDerivedSound
<1>2. PICK g : g = CancelDerived(e)
  OBVIOUS
<1>3. g \in Eps /\ Carries(e.cand, g.cand)
  BY <1>1, <1>2, CarriesWays DEF Dropped
<1>4. Superseded(e).cand = g.cand
  BY <1>1, <1>2, <1>3 DEF Superseded, Eps
<1>5. ASSUME NEW afterEdit \in BOOLEAN, NEW suits \in BOOLEAN
      PROVE  StartSourceFacts(e, afterEdit, suits).cand = g.cand
  <2>. DEFINE i == [g EXCEPT !.rt = BeginIncremental(@), !.facts = "incremental", !.cert = "Scanning"]
              s == ScanClean(g, afterEdit)
  <2>1. StartSourceFacts(e, afterEdit, suits) = i \/ StartSourceFacts(e, afterEdit, suits) = s
    BY <1>1, <1>2 DEF StartSourceFacts
  <2>2. i.cand = g.cand /\ s.cand = g.cand
    BY <1>3 DEF Eps, ScanClean
  <2>. QED
    BY <2>1, <2>2
<1>. QED
  BY <1>2, <1>3, <1>4, <1>5

LEMMA CertificationCarries ==
    ASSUME NEW e, Sane(e), Awake(e), NEW pending, NEW page \in Events, NEW done \in Events
    PROVE  Carries(e.cand, EmitNext(e, pending, page, done).cand)
<1>0. e \in Eps
  BY DEF Sane
<1>1. PICK more \in BOOLEAN : more <=> pending.left > 0
  OBVIOUS
<1>2. PICK cert \in CertStates : cert = IF more THEN "Publishing" ELSE "AwaitingPromotion"
  BY DEF CertStates
<1>. DEFINE f == [e EXCEPT !.cert = cert]
<1>3. f \in Eps
  BY <1>0 DEF Eps
<1>4. f.cand = e.cand /\ f.rt = e.rt /\ f.out = "none" /\ ~f.latched /\ ~f.poisoned
  BY <1>0 DEF Eps, Awake
<1>5. EmitNext(e, pending, page, done) =
        IF EmitOk(e) THEN Emit(f, IF more THEN page ELSE done) ELSE PoisonAndFail(Emit(f, page))
  BY <1>1, <1>2 DEF EmitNext
<1>. HIDE DEF f
<1>6. Sane(f)
  BY <1>0, <1>3, <1>4 DEF Sane, Awake
<1>7. PICK event \in Events : event = IF more THEN page ELSE done
  OBVIOUS
<1>8. CASE EmitOk(e)
  BY <1>3, <1>4, <1>5, <1>6, <1>7, <1>8, EmitCarries, CarriesWays DEF Sane
<1>9. CASE ~EmitOk(e)
  <2>1. f.exhausted
    BY <1>0, <1>9 DEF EmitOk, Awake, Eps, f
  <2>. DEFINE h == Emit(f, page)
  <2>2. Same(f, h) /\ h.out = "none"
    BY <1>3, <1>4, <2>1, EmitFields
  <2>. HIDE DEF h
  <2>3. Sane(h) /\ ~h.latched
    BY <1>4, <1>6, <2>2 DEF Same, Sane
  <2>. QED
    BY <1>5, <1>9, <2>2, <2>3, PoisonAndFailSound DEF h, Carries
<1>. QED
  BY <1>8, <1>9

LEMMA FailClosedCarries ==
    ASSUME NEW e \in Eps
    PROVE  FailClosed(e).cand = e.cand /\ ClearPendings(e).cand = e.cand /\ ClearPendings(e) \in Eps
<1>. DEFINE f == [e EXCEPT !.reseed = TRUE, !.life = "Faulted"]
            g == [f EXCEPT !.failed = TRUE]
<1>1. f \in Eps /\ f.cand = e.cand /\ f.out = e.out /\ (f.failed <=> e.failed)
  <2>1. f \in Eps
    BY DEF Eps, Lifecycles
  <2>. QED
    BY <2>1 DEF Eps
<1>2. g \in Eps /\ g.cand = e.cand /\ g.out = e.out
  <2>. HIDE DEF f
  <2>. TRUE \in BOOLEAN
    OBVIOUS
  <2>1. g \in Eps
    BY <1>1 DEF Eps
  <2>. QED
    BY <1>1, <2>1 DEF Eps
<1>3. e.out = "none" => Emit(g, "failed").cand = e.cand
  <2>. HIDE DEF g
  <2>1. "failed" \in Events
    BY DEF Events
  <2>. QED
    BY <1>2, <2>1, EmitFields DEF Same
<1>4. FailClosed(e).cand = e.cand
  <2>1. CASE e.latched
    BY <2>1 DEF FailClosed
  <2>2. CASE ~e.latched /\ (e.failed \/ e.out # "none")
    BY <1>1, <2>2 DEF FailClosed
  <2>3. CASE ~e.latched /\ ~(e.failed \/ e.out # "none")
    <3>1. FailClosed(e) = Emit(g, "failed")
      BY <2>3 DEF FailClosed
    <3>. QED
      BY <1>3, <2>3, <3>1
  <2>. QED
    BY <2>1, <2>2, <2>3
<1>5. ClearPendings(e) \in Eps
  BY StateTypes DEF Eps, ClearPendings
<1>6. ClearPendings(e).cand = e.cand
  BY <1>5 DEF Eps, ClearPendings
<1>. QED
  BY <1>4, <1>5, <1>6

LEMMA FactsCompleteCarries ==
    ASSUME NEW e, Core(e), Awake(e), e.cert = "Scanning", Scans(e), e.pcert = NoCert, e.pinc = NoCert, NEW pages \in 0..MaxPages
    PROVE  Carries(e.cand, FactsComplete(e, pages).cand)
<1>0. e \in Eps /\ e.facts # "none"
  BY DEF Core, Sane, Scans
<1>1. e.rt.live /\ e.rt.rev \in Revs
  BY <1>0 DEF Core, Sane, RestSound, Cleared, Deriving
<1>2. PICK rt \in Runtimes : rt = CompleteFacts(e.rt)
  BY <1>0, EpTyped DEF CompleteFacts, Runtimes
<1>3. rt.live /\ rt.rev = e.rt.rev
  BY <1>0, <1>1, <1>2, EpTyped DEF CompleteFacts, Runtimes
<1>4. PICK base \in OptRev : base = IF e.facts = "clean" THEN None ELSE e.rt.undo
  BY <1>0, EpTyped, Numbers DEF Runtimes
<1>. DEFINE f == [e EXCEPT !.rt = rt, !.facts = "none"]
            pending == [rev |-> e.rt.rev, base |-> base, left |-> pages]
            begun == [f EXCEPT !.pinc = pending, !.cert = "Publishing"]
            certified == [f EXCEPT !.pcert = pending]
<1>5. FactsComplete(e, pages) \in
        {PoisonAndFail(f), EmitNext(certified, pending, "certPage", "certDone"),
         IF EmitOk(begun) THEN Emit(begun, "deltaBegin") ELSE PoisonAndFail(Emit(begun, "deltaBegin"))}
  BY <1>2, <1>4 DEF FactsComplete
<1>6. f \in Eps /\ f.cand = e.cand /\ f.rt = rt /\ Awake(f) /\ (f.exhausted <=> e.exhausted)
  <2>1. f \in Eps
    BY <1>0 DEF Eps, FactsStates
  <2>. QED
    BY <1>0, <2>1 DEF Eps, Awake
<1>7. pending \in Certs
  BY <1>1, Numbers DEF Certs
<1>. HIDE DEF f, pending
<1>8. ASSUME NEW h \in Eps, h.cand = e.cand, h.rt = rt
      PROVE  Sane(h)
  BY <1>1, <1>3, <1>8 DEF Core, Sane
<1>9. Carries(e.cand, PoisonAndFail(f).cand)
  BY <1>6, <1>8, PoisonAndFailSound DEF Carries, Awake
<1>10. Carries(e.cand, EmitNext(certified, pending, "certPage", "certDone").cand)
  <2>1. certified \in Eps
    BY <1>6, <1>7 DEF Eps
  <2>2. certified.cand = e.cand /\ certified.rt = rt /\ Awake(certified)
    BY <1>6, <2>1 DEF Eps, Awake
  <2>. HIDE DEF certified
  <2>3. "certPage" \in Events /\ "certDone" \in Events
    BY DEF Events
  <2>. QED
    BY <1>8, <2>1, <2>2, <2>3, CertificationCarries
<1>11. Carries(e.cand, (IF EmitOk(begun) THEN Emit(begun, "deltaBegin") ELSE PoisonAndFail(Emit(begun, "deltaBegin"))).cand)
  <2>1. begun \in Eps
    BY <1>6, <1>7 DEF Eps, CertStates
  <2>2. begun.cand = e.cand /\ begun.rt = rt /\ Awake(begun)
    BY <1>6, <2>1 DEF Eps, Awake
  <2>. HIDE DEF begun
  <2>. DEFINE h == Emit(begun, "deltaBegin")
  <2>3. /\ Same(begun, h)
        /\ ~begun.exhausted => EmitOk(begun)
        /\ begun.exhausted => h.out = "none"
    <3>1. "deltaBegin" \in Events /\ begun.out = "none"
      BY <2>2 DEF Events, Awake
    <3>. QED
      BY <2>1, <3>1, EmitFields
  <2>. HIDE DEF h
  <2>4. h \in Eps /\ h.cand = e.cand /\ h.rt = rt /\ ~h.latched
    BY <2>2, <2>3 DEF Same, Awake
  <2>5. Sane(h)
    BY <1>8, <2>4
  <2>6. CASE EmitOk(begun)
    BY <2>4, <2>6, CarriesWays DEF h
  <2>7. CASE ~EmitOk(begun)
    BY <2>3, <2>4, <2>5, <2>7, PoisonAndFailSound DEF Carries, h
  <2>. QED
    BY <2>6, <2>7
<1>. QED
  BY <1>5, <1>9, <1>10, <1>11

LEMMA PoisonCarries ==
    ASSUME NEW e \in Eps, CandSound(e.cand)
    PROVE  /\ PoisonRuntime(e) \in Eps /\ PoisonRuntime(e).cand.closing
           /\ PoisonAndFail(e).cand.closing
<1>1. PICK d \in Cands : d = CloseCandidate(e.cand) /\ d.closing
  BY CloseCandidateSound DEF CandSound
<1>2. PICK rt \in Runtimes : rt = CancelFacts(e.rt)
  BY EpTyped, CancelFactsKeeps
<1>. DEFINE g == ClearPendings(e)
            f == PoisonRuntime(e)
<1>3. /\ g \in Eps /\ g.cand = e.cand /\ g.rt = e.rt /\ (g.poisoned \/ e.rt.live) \in BOOLEAN
  <2>1. g \in Eps /\ g.cand = e.cand
    BY FailClosedCarries
  <2>. QED
    BY <2>1 DEF Eps, ClearPendings
<1>4. PICK p \in BOOLEAN : p = (g.poisoned \/ e.rt.live)
  BY <1>3
<1>5. f = [g EXCEPT !.pcert = NoCert, !.pinc = NoCert, !.facts = "none", !.cand = d,
             !.rt = rt, !.poisoned = p, !.target = NoStamp, !.observed = None, !.activeCert = None,
             !.lastCert = None, !.cert = "NotStarted", !.reseed = TRUE]
  BY <1>1, <1>2, <1>3, <1>4 DEF PoisonRuntime
<1>. HIDE DEF g, f
<1>6. f \in Eps /\ f.cand = d
  <2>1. f \in Eps
    BY <1>3, <1>5, StateTypes, Numbers DEF Eps, CertStates, FactsStates
  <2>. QED
    BY <1>3, <1>5, <2>1 DEF Eps
<1>7. FailClosed(f).cand = f.cand
  BY <1>6, FailClosedCarries
<1>. QED
  BY <1>1, <1>6, <1>7 DEF PoisonAndFail, f

LEMMA CertDoneCarries ==
    ASSUME NEW e, Core(e), Awake(e), e.pcert # NoCert
    PROVE  Carries(e.cand, CertDone(e).cand)
<1>0. e \in Eps /\ CandSound(e.cand)
  BY DEF Core, Sane
<1>1. PICK rt \in Runtimes : rt = [e.rt EXCEPT !.certified = None]
  BY <1>0, EpTyped, Numbers DEF Runtimes
<1>2. PICK rev : rev = e.pcert.rev
  OBVIOUS
<1>. DEFINE f == [e EXCEPT !.rt = rt]
            d == StartClean(f.cand, rev)
            g == [f EXCEPT !.cand = d]
            h == Promote(g, rev)
<1>3. CertDone(e) = IF StartOk(e.cand) THEN h ELSE PoisonAndFail(f)
  BY <1>1, <1>2 DEF CertDone
<1>4. f \in Eps /\ f.cand = e.cand
  BY <1>0 DEF Eps
<1>5. CASE ~StartOk(e.cand)
  <2>. HIDE DEF f
  <2>. QED
    BY <1>0, <1>3, <1>4, <1>5, PoisonCarries DEF Carries
<1>6. CASE StartOk(e.cand)
  <2>1. ~e.cand.closing
    BY <1>6 DEF StartOk
  <2>2. Started(e.cand, d, e.rt.rev) /\ rev \in OptRev
    BY <1>2, <1>4, <2>1, CertifiedIsFree, StartCleanSound, Numbers
  <2>3. PICK c \in Cands : c = d
    BY <2>2 DEF Started, CandSound
  <2>4. PICK t \in Stamps : t = Stamp(rev, "known")
    BY <1>2, <2>1, CertifiedIsFree DEF Stamps, Stamp
  <2>5. h = [e EXCEPT !.rt = rt, !.cand = c, !.activeCert = rev, !.target = t,
                      !.cert = "ExternallyEligible", !.pcert = NoCert, !.pinc = NoCert]
    BY <2>3, <2>4 DEF Promote
  <2>. HIDE DEF h, d
  <2>6. h \in Eps
    BY <1>0, <2>2, <2>5, StateTypes DEF Eps, CertStates
  <2>7. h.cand = c
    BY <1>0, <2>5, <2>6 DEF Eps
  <2>. QED
    BY <1>3, <1>6, <2>2, <2>3, <2>7, CarriesWays DEF Started
<1>. QED
  BY <1>5, <1>6

LEMMA DeltaDoneCarries ==
    ASSUME NEW e, Core(e), Awake(e), e.pinc # NoCert, NEW st \in ExactStarts, NEW declined \in BOOLEAN
    PROVE  Carries(e.cand, DeltaDone(e, st, declined).cand)
<1>0. e \in Eps /\ CandSound(e.cand) /\ ~e.cand.closing
  BY DEF Core, Sane, FactsSound
<1>. DEFINE d == StartIncremental(e.cand, e.rt.rev, st, declined)
<1>1. /\ StartIncrementalOk(e.cand, e.pinc.base, st) /\ Started(e.cand, d, e.rt.rev)
      /\ e.pinc.rev = e.rt.rev /\ e.rt.rev \in OptRev /\ e.rt.rev \in Revs
  BY <1>0, CertifiedIsFree, StartIncrementalSound, Numbers
<1>2. PICK c \in Cands : c = d
  BY <1>1 DEF Started, CandSound
<1>3. PICK t \in Stamps : t = Stamp(e.rt.rev, "known")
  BY <1>1 DEF Stamps, Stamp
<1>4. PICK rev : rev = e.rt.rev
  OBVIOUS
<1>. DEFINE h == [e EXCEPT !.cand = c, !.activeCert = rev, !.target = t,
                      !.cert = "ExternallyEligible", !.pcert = NoCert, !.pinc = NoCert]
<1>5. DeltaDone(e, st, declined) = h
  BY <1>1, <1>2, <1>3, <1>4 DEF DeltaDone, Promote
<1>. HIDE DEF h, d
<1>6. h \in Eps
  BY <1>0, <1>1, <1>4, StateTypes DEF Eps, CertStates, h
<1>7. h.cand = c
  BY <1>0, <1>6 DEF Eps, h
<1>. QED
  BY <1>1, <1>2, <1>5, <1>7, CarriesWays DEF Started

LEMMA PagesCarry ==
    ASSUME NEW e, Core(e), Awake(e)
    PROVE  /\ e.pcert # NoCert /\ e.pcert.left > 0 => Carries(e.cand, CertPage(e).cand)
           /\ e.pinc # NoCert /\ e.pinc.left > 0 => Carries(e.cand, DeltaPage(e).cand)
           /\ Carries(e.cand, DeltaBegin(e).cand)
<1>0. e \in Eps /\ Sane(e)
  BY DEF Core, Sane
<1>1. ASSUME NEW f \in Eps, f.cand = e.cand, f.rt = e.rt, Awake(f)
      PROVE  Sane(f)
  BY <1>0, <1>1 DEF Sane, Awake
<1>2. (e.pcert # NoCert \/ e.pinc # NoCert) => e.rt.rev \in Revs /\ e.rt.rev # None
  BY Numbers DEF Core, Sane, RestSound, Cleared, Deriving
<1>3. "certPage" \in Events /\ "certDone" \in Events /\ "deltaPage" \in Events /\ "deltaDone" \in Events
  BY DEF Events
<1>4. ASSUME e.pcert # NoCert, e.pcert.left > 0
      PROVE  Carries(e.cand, CertPage(e).cand)
  <2>1. PICK n : n = [e.pcert EXCEPT !.left = @ - 1]
    OBVIOUS
  <2>2. n \in Certs
    <3>1. e.pcert.rev # None
      BY <1>2, <1>4 DEF Core, FactsSound
    <3>. QED
      BY <1>0, <1>4, <2>1, <3>1, EpTyped, PageSent
  <2>. DEFINE f == [e EXCEPT !.pcert = n]
  <2>3. f \in Eps
    BY <1>0, <2>2 DEF Eps
  <2>4. f.cand = e.cand /\ f.rt = e.rt /\ Awake(f)
    BY <1>0, <2>3 DEF Eps, Awake
  <2>5. CertPage(e) = EmitNext(f, f.pcert, "certPage", "certDone")
    BY <2>1 DEF CertPage
  <2>. HIDE DEF f
  <2>. QED
    BY <1>1, <1>3, <2>3, <2>4, <2>5, CertificationCarries
<1>5. ASSUME e.pinc # NoCert, e.pinc.left > 0
      PROVE  Carries(e.cand, DeltaPage(e).cand)
  <2>1. PICK n : n = [e.pinc EXCEPT !.left = @ - 1]
    OBVIOUS
  <2>2. n \in Certs
    <3>1. e.pinc.rev # None
      BY <1>2, <1>5 DEF Core, FactsSound
    <3>. QED
      BY <1>0, <1>5, <2>1, <3>1, EpTyped, PageSent
  <2>. DEFINE f == [e EXCEPT !.pinc = n]
  <2>3. f \in Eps
    BY <1>0, <2>2 DEF Eps
  <2>4. f.cand = e.cand /\ f.rt = e.rt /\ Awake(f)
    BY <1>0, <2>3 DEF Eps, Awake
  <2>5. DeltaPage(e) = EmitNext(f, f.pinc, "deltaPage", "deltaDone")
    BY <2>1 DEF DeltaPage
  <2>. HIDE DEF f
  <2>. QED
    BY <1>1, <1>3, <2>3, <2>4, <2>5, CertificationCarries
<1>6. Carries(e.cand, DeltaBegin(e).cand)
  BY <1>0, <1>3, CertificationCarries DEF DeltaBegin
<1>. QED
  BY <1>4, <1>5, <1>6

LEMMA InstallsCarry ==
    ASSUME NEW e, e \in Eps, CandSound(e.cand), NEW d, NEW suits \in BOOLEAN
    PROVE  /\ e.pinst # NoStamp => Carries(e.cand, InstallSeed(e, d).cand)
           /\ e.pedit # NoStamp => Carries(e.cand, InstallEdit(e, d, suits).cand)
<1>1. TRUE \in BOOLEAN /\ FALSE \in BOOLEAN
  OBVIOUS
<1>2. ASSUME e.pinst # NoStamp
      PROVE  Carries(e.cand, InstallSeed(e, d).cand)
  <2>1. e.pinst.rev \in Revs /\ e.pinst \in Stamps /\ e.pinst.rev \in OptRev
    BY <1>2, EpTyped, Numbers DEF Stamps
  <2>2. PICK rt \in Runtimes : rt = NewRuntime(e.pinst.rev)
    BY <2>1, Numbers DEF NewRuntime, NoRuntime, Runtimes
  <2>. DEFINE f == [e EXCEPT !.pinst = NoStamp]
              g == [f EXCEPT !.rt = rt, !.target = e.pinst, !.observed = e.pinst.rev, !.reseed = FALSE]
  <2>3. InstallSeed(e, d) = IF d = "accepted" THEN StartSourceFacts(g, FALSE, FALSE) ELSE FailClosed(f)
    BY <2>2 DEF InstallSeed
  <2>4. f \in Eps
    BY StateTypes DEF Eps
  <2>5. f.cand = e.cand
    BY <2>4 DEF Eps
  <2>. HIDE DEF f
  <2>6. g \in Eps
    BY <1>1, <2>1, <2>4 DEF Eps
  <2>7. g.cand = e.cand
    BY <2>4, <2>5, <2>6 DEF Eps
  <2>. HIDE DEF g
  <2>8. Carries(e.cand, StartSourceFacts(g, FALSE, FALSE).cand)
    BY <1>1, <2>6, <2>7, CancelDerivedCarries
  <2>9. Carries(e.cand, FailClosed(f).cand)
    BY <2>4, <2>5, FailClosedCarries, CarriesWays
  <2>. QED
    BY <2>3, <2>8, <2>9
<1>3. ASSUME e.pedit # NoStamp
      PROVE  Carries(e.cand, InstallEdit(e, d, suits).cand)
  <2>1. e.pedit \in Stamps /\ e.pedit.rev \in OptRev
    BY <1>3, EpTyped, Numbers DEF Stamps
  <2>. DEFINE f == [e EXCEPT !.pedit = NoStamp]
              g == [f EXCEPT !.target = e.pedit, !.observed = e.pedit.rev, !.reseed = FALSE]
  <2>2. InstallEdit(e, d, suits) = IF d = "accepted" THEN StartSourceFacts(g, TRUE, suits) ELSE PoisonAndFail(f)
    BY DEF InstallEdit
  <2>3. f \in Eps
    BY StateTypes DEF Eps
  <2>4. f.cand = e.cand
    BY <2>3 DEF Eps
  <2>. HIDE DEF f
  <2>5. g \in Eps
    BY <1>1, <2>1, <2>3 DEF Eps
  <2>6. g.cand = e.cand
    BY <2>3, <2>4, <2>5 DEF Eps
  <2>. HIDE DEF g
  <2>7. Carries(e.cand, StartSourceFacts(g, TRUE, suits).cand)
    BY <1>1, <2>5, <2>6, CancelDerivedCarries
  <2>8. Carries(e.cand, PoisonAndFail(f).cand)
    BY <2>3, <2>4, PoisonCarries DEF Carries
  <2>. QED
    BY <2>2, <2>7, <2>8
<1>. QED
  BY <1>2, <1>3

\* A delivery replaces the publication and the session by those of its revision.
LEMMA CandidateReceiptCarries ==
    ASSUME NEW e \in Eps, CandSound(e.cand), NEW credit \in Credits, Awaits(e.cand, credit), NEW d
    PROVE  Carries(e.cand, CandidateReceipt(e, credit, d).cand)
<1>1. CancelOk(e.cand)
  BY SoundIsCancellable
<1>2. CASE d # "accepted"
  <2>1. Stopped(e.cand, Cancel(e.cand))
    BY CancelSound
  <2>2. PICK c \in Cands : c = Cancel(e.cand)
    BY <2>1 DEF Stopped, CandSound
  <2>. DEFINE f == [e EXCEPT !.cand = c, !.activeCert = None]
  <2>3. CandidateReceipt(e, credit, d) = f
    BY <1>1, <1>2, <2>2 DEF CandidateReceipt
  <2>4. f \in Eps
    BY Numbers DEF Eps
  <2>5. f.cand = c
    BY <2>4 DEF Eps
  <2>. QED
    BY <2>1, <2>2, <2>3, <2>5, CarriesWays
<1>3. CASE d = "accepted"
  <2>. DEFINE a == Accept(e.cand, credit)
  <2>1. /\ CandSound(a)
        /\ credit # "delivery" => Owned(a) = Owned(e.cand) /\ a.green = e.cand.green
        /\ credit = "delivery" => /\ Owned(a) = {e.cand.active.rev} /\ a.green.installed = e.cand.active.rev
                                  /\ e.cand.active.rev \in Revs
    BY AcceptSound
  <2>2. PICK c \in Cands : c = a
    BY <2>1 DEF CandSound
  <2>. DEFINE f == [e EXCEPT !.cand = c]
  <2>3. CandidateReceipt(e, credit, d) = f
    BY <1>3, <2>2 DEF CandidateReceipt
  <2>4. f.cand = c
    BY DEF Eps
  <2>. HIDE DEF a, f
  <2>5. CASE credit # "delivery"
    BY <2>1, <2>2, <2>3, <2>4, <2>5, CarriesWays DEF Kept
  <2>6. CASE credit = "delivery"
    BY <2>1, <2>2, <2>3, <2>4, <2>6 DEF Carries, InSlot, Holds
  <2>. QED
    BY <2>5, <2>6
<1>. QED
  BY <1>2, <1>3

LEMMA ReceiptCarries ==
    ASSUME Sound(ep), NEW d \in Dispositions, Receipt(d)
    PROVE  Carries(ep.cand, ep'.cand)
<1>. DEFINE e == [ep EXCEPT !.out = "none"]
<1>0. ep \in Eps /\ Core(ep) /\ ep.out # "none" /\ ep.out \in Events
  BY EpTyped DEF Sound, Core, Sane, Receipt
<1>1. e \in Eps /\ Same(ep, e) /\ e.life = ep.life /\ e.out = "none" /\ Core(e)
  <2>1. e \in Eps
    BY <1>0, StateTypes DEF Eps
  <2>2. Same(ep, e) /\ e.life = ep.life /\ e.out = "none"
    BY <1>0, <2>1 DEF Eps, Same
  <2>. QED
    BY <1>0, <2>1, <2>2, SameCore
<1>2. PICK suits \in BOOLEAN, st \in ExactStarts \cup {"none"}, declined \in BOOLEAN :
        /\ ep.out = "deltaDone" => st \in ExactStarts
        /\ ep' = IF ep.latched /\ ep.out \notin CloseEvents THEN e
                 ELSE HandleReceipt(e, ep.out, d, suits, st, declined)
  <2>1. CASE ep.latched /\ ep.out \notin CloseEvents
    <3>1. ep' = e
      BY <2>1 DEF Receipt
    <3>2. PICK st \in ExactStarts : TRUE
      BY DEF ExactStarts
    <3>. QED
      BY <2>1, <3>1, <3>2
  <2>2. CASE ~(ep.latched /\ ep.out \notin CloseEvents)
    <3>. DEFINE handled(suits, st, declined) == HandleReceipt(e, ep.out, d, suits, st, declined)
    <3>1. \E suits \in (IF ep.out = "installEdit" THEN BOOLEAN ELSE {FALSE}),
             st \in (IF ep.out = "deltaDone" THEN ExactStarts ELSE {"none"}),
             declined \in (IF ep.out = "deltaDone" THEN BOOLEAN ELSE {FALSE}) :
               ep' = handled(suits, st, declined)
      BY <2>2 DEF Receipt
    <3>. HIDE DEF handled
    <3>2. PICK suits \in BOOLEAN, st \in ExactStarts \cup {"none"}, declined \in BOOLEAN :
            (ep.out = "deltaDone" => st \in ExactStarts) /\ ep' = handled(suits, st, declined)
      BY <3>1
    <3>. QED
      BY <2>2, <3>2 DEF handled
  <2>. QED
    BY <2>1, <2>2
<1>. HIDE DEF e
<1>3. e.cand = ep.cand /\ CandSound(e.cand) /\ (e.latched <=> ep.latched)
  BY <1>0, <1>1 DEF Same, Core, Sane
<1>. SUFFICES Carries(e.cand, ep'.cand)
  BY <1>3
\* The lifecycle moves, and the client may be told.
<1>4. ASSUME NEW life \in Lifecycles, NEW f, f = [e EXCEPT !.life = life]
      PROVE  f.cand = e.cand /\ (Emit(f, "closed")).cand = e.cand
  <2>1. f \in Eps
    BY <1>1, <1>4 DEF Eps
  <2>2. f.cand = e.cand /\ f.out = "none"
    BY <1>1, <1>4, <2>1 DEF Eps
  <2>3. "closed" \in Events
    BY DEF Events, CloseEvents
  <2>. QED
    BY <2>1, <2>2, <2>3, EmitFields DEF Same
<1>5. {"Open", "Faulted", "Closed", "Removable", "Closing"} \subseteq Lifecycles
  BY DEF Lifecycles
<1>6. CASE ep' = e
  BY <1>6, CarriesWays
<1>7. CASE ep' = HandleReceipt(e, ep.out, d, suits, st, declined) /\ ep.out \in {"opened", "failed"} \cup CloseEvents
  <2>1. FailClosed(e).cand = e.cand
    BY <1>1, FailClosedCarries
  <2>2. CASE ep.out = "opened"
    BY <1>4, <1>5, <1>7, <2>1, <2>2, CarriesWays DEF HandleReceipt
  <2>3. CASE ep.out = "failed"
    BY <1>4, <1>5, <1>7, <2>3, CarriesWays DEF HandleReceipt
  <2>4. CASE ep.out = "drain"
    BY <1>7, <2>4, CarriesWays DEF HandleReceipt
  <2>5. CASE ep.out = "drained"
    <3>1. ep' = IF d = "accepted" THEN Emit([e EXCEPT !.life = "Closed"], "closed") ELSE e
      BY <1>7, <2>5 DEF HandleReceipt
    <3>. QED
      BY <1>4, <1>5, <3>1, CarriesWays
  <2>6. CASE ep.out = "closed"
    <3>1. ep' = [e EXCEPT !.life = IF d = "accepted" THEN "Removable" ELSE "Closing"]
      BY <1>7, <2>6 DEF HandleReceipt
    <3>. QED
      BY <1>4, <1>5, <3>1, CarriesWays
  <2>. QED
    BY <1>7, <2>2, <2>3, <2>4, <2>5, <2>6 DEF CloseEvents
<1>8. CASE /\ ep' = HandleReceipt(e, ep.out, d, suits, st, declined) /\ ~ep.latched
           /\ ep.out \notin {"opened", "failed"} \cup CloseEvents
  <2>1. /\ e.out = "none" /\ e.life = "Open" /\ ~e.latched /\ ~e.poisoned
        /\ ep.out # "installSeed" => e.pinst = NoStamp
        /\ ep.out # "installEdit" => e.pedit = NoStamp
        /\ ep.out \notin CertEvents => e.pcert = NoCert
        /\ ep.out \notin DeltaEvents => e.pinc = NoCert
        /\ ep.out \in CertEvents => e.pcert # NoCert
        /\ ep.out \in DeltaEvents => e.pinc # NoCert
        /\ ep.out = "certPage" => e.pcert.left > 0
        /\ ep.out = "deltaPage" => e.pinc.left > 0
        /\ ep.out = "installSeed" => e.pinst # NoStamp
        /\ ep.out = "installEdit" => e.pedit # NoStamp
        /\ ep.out \in Credits => Awaits(e.cand, ep.out)
    BY <1>0, <1>1, <1>8 DEF Sound, LifeSound, OutSound, Same
  <2>2. CASE ep.out = "intermediateSeed"
    <3>. DEFINE f == [e EXCEPT !.seeding = FALSE]
    <3>0. FALSE \in BOOLEAN
      OBVIOUS
    <3>1. f \in Eps
      BY <1>1, <3>0 DEF Eps
    <3>2. f.cand = e.cand
      BY <1>1, <3>1 DEF Eps
    <3>3. ep' = IF d = "accepted" THEN e ELSE FailClosed(f)
      BY <1>8, <2>2 DEF HandleReceipt
    <3>. QED
      BY <3>1, <3>2, <3>3, FailClosedCarries, CarriesWays
  <2>3. CASE ep.out = "installSeed"
    <3>1. ep' = InstallSeed(e, d)
      BY <1>8, <2>3 DEF HandleReceipt
    <3>. QED
      BY <1>1, <1>2, <1>3, <2>1, <2>3, <3>1, InstallsCarry
  <2>4. CASE ep.out = "installEdit"
    <3>1. ep' = InstallEdit(e, d, suits)
      BY <1>8, <2>4 DEF HandleReceipt
    <3>. QED
      BY <1>1, <1>2, <1>3, <2>1, <2>4, <3>1, InstallsCarry
  <2>5. CASE ep.out \in CertEvents \cup DeltaEvents
    <3>1. Awake(e)
      BY <2>1, <2>5 DEF Awake, CertEvents, DeltaEvents
    <3>2. PICK accepted : /\ ep' = CertReceipt(e, d, accepted)
                          /\ accepted \in {CertPage(e), CertDone(e), DeltaBegin(e), DeltaPage(e), DeltaDone(e, st, declined)}
                          /\ Carries(e.cand, accepted.cand)
      <4>1. CASE ep.out = "certPage"
        <5>1. ep' = CertReceipt(e, d, CertPage(e))
          BY <1>8, <4>1 DEF HandleReceipt
        <5>. QED
          BY <1>1, <2>1, <3>1, <4>1, <5>1, PagesCarry DEF CertEvents
      <4>2. CASE ep.out = "certDone"
        <5>1. ep' = CertReceipt(e, d, CertDone(e))
          BY <1>8, <4>2 DEF HandleReceipt
        <5>. QED
          BY <1>1, <2>1, <3>1, <4>2, <5>1, CertDoneCarries DEF CertEvents
      <4>3. CASE ep.out = "deltaBegin"
        <5>1. ep' = CertReceipt(e, d, DeltaBegin(e))
          BY <1>8, <4>3 DEF HandleReceipt
        <5>. QED
          BY <1>1, <3>1, <5>1, PagesCarry
      <4>4. CASE ep.out = "deltaPage"
        <5>1. ep' = CertReceipt(e, d, DeltaPage(e))
          BY <1>8, <4>4 DEF HandleReceipt
        <5>. QED
          BY <1>1, <2>1, <3>1, <4>4, <5>1, PagesCarry DEF DeltaEvents
      <4>5. CASE ep.out = "deltaDone"
        <5>1. ep' = CertReceipt(e, d, DeltaDone(e, st, declined))
          BY <1>8, <4>5 DEF HandleReceipt
        <5>. QED
          BY <1>1, <1>2, <2>1, <3>1, <4>5, <5>1, DeltaDoneCarries DEF DeltaEvents
      <4>. QED
        BY <2>5, <4>1, <4>2, <4>3, <4>4, <4>5 DEF CertEvents, DeltaEvents
    <3>3. Carries(e.cand, Superseded(e).cand) /\ Carries(e.cand, PoisonAndFail(e).cand)
      BY <1>1, <1>3, CancelDerivedCarries, PoisonCarries DEF Carries
    <3>. QED
      BY <3>2, <3>3 DEF CertReceipt
  <2>6. CASE ep.out \in Credits
    <3>1. ep' = CandidateReceipt(e, ep.out, d)
      BY <1>8, <2>6 DEF HandleReceipt, Credits
    <3>. QED
      BY <1>1, <1>3, <2>1, <2>6, <3>1, CandidateReceiptCarries
  <2>. QED
    BY <1>0, <1>8, <2>2, <2>3, <2>4, <2>5, <2>6
       DEF Events, CertEvents, DeltaEvents, Credits, CloseEvents
<1>. QED
  BY <1>2, <1>6, <1>7, <1>8

LEMMA HostAnswerCarries ==
    ASSUME Sound(ep), NEW rejected \in BOOLEAN, HostAnswer(rejected)
    PROVE  Carries(ep.cand, ep'.cand)
<1>0. ep.life = "Open" /\ ep.out = "none" /\ AwaitsHost(ep.cand)
  BY DEF HostAnswer, EnsureOpen
<1>1. ep \in Eps /\ Core(ep) /\ CandSound(ep.cand) /\ CancelOk(ep.cand) /\ ep.activeCert = ep.cand.active.rev
  <2>1. ep \in Eps /\ Core(ep) /\ CandSound(ep.cand)
    BY DEF Sound, Core, Sane
  <2>2. IsActive(ep.cand) /\ ep.cand.active.phase # "awaitDelivery"
    BY <1>0 DEF AwaitsHost, IsActive, Streams
  <2>. QED
    BY <2>1, <2>2, SoundIsCancellable DEF Core, CurrentSound
<1>. DEFINE p == HostPoll(ep.cand, rejected)
            f == [ep EXCEPT !.cand = p.c, !.activeCert = None]
            h == [ep EXCEPT !.cand = p.c]
            g == [f EXCEPT !.rt = CommitFacts(@), !.lastCert = ep.activeCert]
<1>2. /\ rejected => p.ev = "none" /\ p.c = Cancel(ep.cand)
      /\ ~rejected => /\ CandSound(p.c) /\ p.c.active.rev = ep.cand.active.rev
                      /\ Owned(p.c) = Owned(ep.cand) /\ p.c.green = ep.cand.green
                      /\ p.ev # "none" => p.ev = "delivery"
  BY <1>0, <1>1, HostPollSound
<1>3. PICK c \in Cands : c = p.c /\ Carries(ep.cand, c) /\ (~rejected => CandSound(c))
  <2>1. CASE rejected
    <3>1. Stopped(ep.cand, Cancel(ep.cand))
      BY <1>1, CancelSound
    <3>. QED
      BY <1>2, <2>1, <3>1, CarriesWays DEF Stopped, CandSound
  <2>2. CASE ~rejected
    <3>1. p.c \in Cands /\ Kept(ep.cand.green, p.c.green)
      BY <1>2, <2>2 DEF CandSound, Kept
    <3>. QED
      BY <1>2, <2>2, <3>1, CarriesWays
  <2>. QED
    BY <2>1, <2>2
<1>4. ep' = IF p.ev = "delivery"
            THEN IF ep.activeCert = None THEN h
                 ELSE IF ep.activeCert # p.c.active.rev THEN PoisonAndFail(f)
                 ELSE EmitCandidate(g, "delivery")
            ELSE IF rejected /\ CancelOk(ep.cand) THEN f ELSE h
  BY DEF HostAnswer
<1>5. PICK rt \in Runtimes : rt = CommitFacts(ep.rt)
  BY <1>1, EpTyped, Numbers DEF CommitFacts, Runtimes
<1>6. PICK last \in OptRev : last = ep.activeCert
  BY <1>1, EpTyped
<1>7. /\ g = [ep EXCEPT !.cand = c, !.activeCert = None, !.rt = rt, !.lastCert = last]
      /\ f = [ep EXCEPT !.cand = c, !.activeCert = None] /\ h = [ep EXCEPT !.cand = c]
  BY <1>3, <1>5, <1>6
<1>. HIDE DEF f, g, h, p
<1>8. g \in Eps /\ f.cand = c /\ h.cand = c
  BY <1>1, <1>7, Numbers DEF Eps
<1>9. g.cand = c /\ g.out = "none"
  BY <1>0, <1>1, <1>7, <1>8 DEF Eps
<1>10. ~rejected => Carries(ep.cand, EmitCandidate(g, "delivery").cand)
  <2>. SUFFICES ASSUME ~rejected
                PROVE  Carries(ep.cand, EmitCandidate(g, "delivery").cand)
    OBVIOUS
  <2>1. "delivery" \in Events
    BY DEF Events
  <2>2. Carries(c, EmitCandidate(g, "delivery").cand)
    BY <1>3, <1>8, <1>9, <2>1, EmitCarries
  <2>3. Owned(c) = Owned(ep.cand) /\ c.green = ep.cand.green
    BY <1>2, <1>3
  <2>. QED
    BY <2>2, <2>3 DEF Carries, InSlot
<1>. QED
  BY <1>1, <1>2, <1>3, <1>4, <1>8, <1>10

\* Only a derivation that fails takes the base along.
LEMMA PollCandidateCarries ==
    ASSUME Sound(ep), PollCandidate, "deriveFails" \notin faults
    PROVE  Carries(ep.cand, ep'.cand)
<1>1. PICK p \in Polls(ep.cand, FALSE) :
        ep' = IF p.ev = "none" THEN [ep EXCEPT !.cand = p.c]
              ELSE EmitCandidate([ep EXCEPT !.cand = p.c], p.ev)
  <2>1. ("deriveFails" \in faults) = FALSE
    OBVIOUS
  <2>. QED
    BY <2>1 DEF PollCandidate
<1>2. ep.life = "Open" /\ ep.out = "none" /\ FALSE \in BOOLEAN
  BY DEF PollCandidate
<1>3. Core(ep) /\ Awake(ep) /\ ep \in Eps
  BY <1>2, OpenFacts
<1>4. CandSound(ep.cand) /\ ~ep.cand.closing
  BY <1>1, <1>3, SpentNeverPolls DEF Core, Sane, RestSound, Awake
<1>5. Polled(ep.cand, p, FALSE)
  BY <1>1, <1>2, <1>4, PollsSound
<1>6. PICK c \in Cands : c = p.c
  BY <1>5 DEF Polled, CandSound
<1>7. CandSound(c) /\ Owned(c) = Owned(ep.cand) /\ Kept(ep.cand.green, c.green) /\ p.ev \in Events
  <2>1. p.ev = "none" \/ p.ev \in Credits
    BY <1>5 DEF Polled
  <2>2. p.ev \in Events
    BY <2>1 DEF Credits, Events
  <2>. QED
    BY <1>5, <1>6, <2>2 DEF Polled
<1>. DEFINE f == [ep EXCEPT !.cand = c]
<1>8. f \in Eps
  BY <1>3 DEF Eps
<1>9. f.cand = c /\ f.out = "none"
  BY <1>2, <1>3, <1>8 DEF Eps
<1>10. ep' = IF p.ev = "none" THEN f ELSE EmitCandidate(f, p.ev)
  BY <1>1, <1>6
<1>. HIDE DEF f
<1>11. Carries(ep.cand, c) /\ Carries(c, EmitCandidate(f, p.ev).cand)
  BY <1>7, <1>8, <1>9, EmitCarries, CarriesWays
<1>12. Carries(ep.cand, EmitCandidate(f, p.ev).cand)
  BY <1>7, <1>11 DEF Carries, InSlot, Kept
<1>. QED
  BY <1>9, <1>10, <1>11, <1>12

LEMMA PollSourceFactsCarries ==
    ASSUME Sound(ep), PollSourceFacts
    PROVE  Carries(ep.cand, ep'.cand)
<1>0. /\ ~ep.poisoned /\ ep.life = "Open" /\ ep.cert = "Scanning" /\ ep.out = "none" /\ ep \in Eps
      /\ Core(ep) /\ Awake(ep) /\ Scans(ep) /\ ep.pcert = NoCert /\ ep.pinc = NoCert /\ CandSound(ep.cand)
  <2>1. ~ep.poisoned /\ ep.life = "Open" /\ ep.cert = "Scanning"
    BY DEF PollSourceFacts
  <2>2. ep.out = "none"
    BY <2>1 DEF Sound, LifeSound
  <2>. QED
    BY <2>1, <2>2, OpenFacts DEF Core, Sane
<1>1. CASE ep' = [ep EXCEPT !.cand = PollCleanup(@)]
  <2>1. ~IsActive(ep.cand)
    BY <1>0 DEF Scans, Core, WaitSound, Deriving
  <2>2. Cleaned(ep.cand, PollCleanup(ep.cand))
    BY <1>0, <2>1, PollCleanupSound
  <2>3. ep'.cand = PollCleanup(ep.cand)
    BY <1>0, <1>1 DEF Eps
  <2>. QED
    BY <2>2, <2>3, CarriesWays DEF Cleaned, Carries
<1>2. ASSUME NEW pages \in 0..MaxPages, ep' = FactsComplete(ep, pages)
      PROVE  Carries(ep.cand, ep'.cand)
  BY <1>0, <1>2, FactsCompleteCarries
<1>3. CASE ep' = PoisonAndFail(ep)
  BY <1>0, <1>3, PoisonCarries DEF Carries
<1>. QED
  BY <1>1, <1>2, <1>3 DEF PollSourceFacts

\* A release under a poisoned or closing endpoint keeps the candidate closed.
LEMMA ReleasesCarry ==
    ASSUME Sound(ep), PollPoisoned \/ Drain
    PROVE  Carries(ep.cand, ep'.cand)
<1>1. ep \in Eps /\ CandSound(ep.cand) /\ ep.cand.closing /\ "drain" \in Events /\ "drained" \in Events /\ FALSE \in BOOLEAN
  <2>1. ep.life = "Closing" => ep.latched
    BY DEF Sound, LifeSound
  <2>. QED
    BY <2>1 DEF Sound, Core, Sane, RestSound, PollPoisoned, Drain, Events, CloseEvents
<1>2. Cleaned(ep.cand, PollCleanup(ep.cand))
  BY <1>1, PollCleanupSound DEF CandSound, CloseSound
<1>3. PICK c \in Cands : c = PollCleanup(ep.cand) /\ c.closing
  BY <1>1, <1>2 DEF Cleaned, CandSound
<1>. DEFINE f == [ep EXCEPT !.cand = c]
            rt == NoRuntime
            g == [ep EXCEPT !.rt = rt, !.poisoned = FALSE]
<1>4. f \in Eps
  BY <1>1 DEF Eps
<1>5. rt \in Runtimes
  BY StateTypes
<1>6. g \in Eps
  <2>. HIDE DEF rt
  <2>. QED
    BY <1>1, <1>5 DEF Eps
<1>7. f.cand = c /\ f.out = ep.out /\ g.cand = ep.cand /\ g.out = ep.out
  BY <1>1, <1>4, <1>6 DEF Eps
<1>8. PICK event \in {"drain", "drained"} : ep' \in {f, g} \/ (ep.out = "none" /\ ep' \in {Emit(f, event), Emit(g, event), Emit(ep, event)})
  BY <1>3 DEF PollPoisoned, Drain
<1>. HIDE DEF f, g
<1>9. ep'.cand \in {f.cand, g.cand, ep.cand}
  BY <1>1, <1>4, <1>6, <1>7, <1>8, EmitFields DEF Same
<1>. QED
  BY <1>1, <1>3, <1>7, <1>9 DEF Carries

LEMMA ClosesCarry ==
    ASSUME Sound(ep), BeginClose \/ BadFrame
    PROVE  ep'.cand.closing
<1>0. ep \in Eps /\ CandSound(ep.cand) /\ FALSE \in BOOLEAN /\ TRUE \in BOOLEAN
  BY DEF Sound, Core, Sane
<1>1. CASE BadFrame
  <2>1. PoisonRuntime(ep) \in Eps /\ PoisonRuntime(ep).cand.closing
    BY <1>0, PoisonCarries
  <2>. QED
    BY <1>1, <2>1, FailClosedCarries DEF BadFrame
<1>2. CASE BeginClose
  <2>1. PICK d \in Cands : d = CloseCandidate(ep.cand) /\ d.closing
    BY <1>0, CloseCandidateSound DEF CandSound
  <2>2. ClearPendings(ep) \in Eps /\ ClearPendings(ep).cand = ep.cand
    BY <1>0, FailClosedCarries
  <2>3. PICK f \in Eps : f = ClearPendings(ep) /\ f.cand = ep.cand
    BY <2>2
  <2>4. PICK rt \in Runtimes : rt = CancelFacts(f.rt)
    BY <2>3, EpTyped, CancelFactsKeeps
  <2>5. PICK stamp \in Stamps, cert \in Certs : stamp = NoStamp /\ cert = NoCert
    BY StateTypes
  <2>. DEFINE g == [f EXCEPT !.pcert = cert, !.pinc = cert, !.facts = "none", !.activeCert = None, !.rt = rt]
              h == [g EXCEPT !.latched = TRUE, !.life = "Closing", !.cand = d, !.cert = "NotStarted",
                             !.target = stamp, !.observed = None, !.lastCert = None]
  <2>6. ep' = h
    BY <1>2, <2>1, <2>3, <2>4, <2>5 DEF BeginClose, ClearDerived
  <2>7. g \in Eps
    BY <2>3, <2>4, <2>5, Numbers DEF Eps, FactsStates
  <2>. HIDE DEF g
  <2>8. h \in Eps
    BY <1>0, <2>5, <2>7, Numbers DEF Eps, Lifecycles, CertStates
  <2>. QED
    BY <2>1, <2>6, <2>7, <2>8 DEF Eps
<1>. QED
  BY <1>1, <1>2

\* A command before the next source, or after a fault, leaves the candidate alone.
LEMMA CommandsKeep ==
    ASSUME Sound(ep), Open \/ Snapshot \/ IdsRunOut
    PROVE  ep'.cand = ep.cand
<1>0. ep \in Eps /\ FALSE \in BOOLEAN /\ TRUE \in BOOLEAN
  BY DEF Sound, Core, Sane
<1>1. ASSUME NEW f \in Eps, f.cand = ep.cand, f.out = "none",
             \E event \in {"opened", "intermediateSeed", "installSeed"} : ep' = Emit(f, event)
      PROVE  ep'.cand = ep.cand
  <2>1. {"opened", "intermediateSeed", "installSeed"} \subseteq Events
    BY DEF Events
  <2>. QED
    BY <1>1, <2>1, EmitFields DEF Same
<1>2. CASE Open
  <2>1. CASE ep' = Emit([ep EXCEPT !.life = "Opening"], "opened")
    <3>. DEFINE f == [ep EXCEPT !.life = "Opening"]
    <3>1. f \in Eps
      BY <1>0 DEF Eps, Lifecycles
    <3>2. f.cand = ep.cand /\ f.out = "none"
      BY <1>0, <1>2, <3>1 DEF Eps, Open
    <3>. HIDE DEF f
    <3>. QED
      BY <1>1, <2>1, <3>1, <3>2 DEF f
  <2>2. CASE ep' = Emit([ep EXCEPT !.failed = FALSE, !.poisoned = FALSE, !.reseed = FALSE,
                                   !.target = NoStamp, !.observed = None, !.cert = "NotStarted",
                                   !.activeCert = None, !.lastCert = None, !.life = "Opening"], "opened")
    <3>1. PICK stamp \in Stamps : stamp = NoStamp
      BY StateTypes
    <3>. DEFINE f == [ep EXCEPT !.failed = FALSE, !.poisoned = FALSE, !.reseed = FALSE,
                                !.target = stamp, !.observed = None, !.cert = "NotStarted",
                                !.activeCert = None, !.lastCert = None, !.life = "Opening"]
    <3>2. f \in Eps
      BY <1>0, Numbers DEF Eps, Lifecycles, CertStates
    <3>3. f.cand = ep.cand /\ f.out = "none"
      BY <1>0, <1>2, <3>2 DEF Eps, Open
    <3>4. ep' = Emit(f, "opened")
      BY <2>2, <3>1
    <3>. HIDE DEF f
    <3>. QED
      BY <1>1, <3>2, <3>3, <3>4
  <2>. QED
    BY <1>2, <2>1, <2>2 DEF Open
<1>3. CASE Snapshot
  <2>0. ep.out = "none"
    BY <1>3 DEF Snapshot, EnsureOpen
  <2>1. CASE ep' = RejectSeed(ep)
    BY <1>0, <2>1, FailClosedCarries DEF RejectSeed
  <2>2. CASE ep' = Emit([ep EXCEPT !.seeding = TRUE], "intermediateSeed")
    <3>. DEFINE f == [ep EXCEPT !.seeding = TRUE]
    <3>1. f \in Eps
      BY <1>0 DEF Eps
    <3>2. f.cand = ep.cand /\ f.out = "none"
      BY <1>0, <2>0, <3>1 DEF Eps
    <3>. HIDE DEF f
    <3>. QED
      BY <1>1, <2>2, <3>1, <3>2 DEF f
  <2>3. ASSUME NEW rev \in Revs, NEW hash \in Hashes,
               ep' = Emit([ep EXCEPT !.seeding = FALSE, !.pinst = Stamp(rev, hash)], "installSeed")
        PROVE  ep'.cand = ep.cand
    <3>1. PICK stamp \in Stamps : stamp = Stamp(rev, hash)
      BY StampTyped
    <3>. DEFINE f == [ep EXCEPT !.seeding = FALSE, !.pinst = stamp]
    <3>2. f \in Eps
      BY <1>0 DEF Eps
    <3>3. f.cand = ep.cand /\ f.out = "none"
      BY <1>0, <2>0, <3>2 DEF Eps
    <3>4. ep' = Emit(f, "installSeed")
      BY <2>3, <3>1
    <3>. HIDE DEF f
    <3>. QED
      BY <1>1, <3>2, <3>3, <3>4
  <2>. QED
    BY <1>3, <2>1, <2>2, <2>3 DEF Snapshot
<1>4. CASE IdsRunOut
  BY <1>0, <1>4 DEF Eps, IdsRunOut
<1>. QED
  BY <1>2, <1>3, <1>4

LEMMA EditCarries ==
    ASSUME Sound(ep), Edit
    PROVE  Carries(ep.cand, ep'.cand)
<1>0. ep \in Eps /\ Core(ep) /\ ep.out = "none" /\ CandSound(ep.cand)
  BY DEF Edit, EnsureOpen, Sound, Core, Sane
<1>1. CASE ep' = RejectEdit(ep)
  BY <1>0, <1>1, PoisonCarries DEF RejectEdit, Carries
<1>2. Stopped(ep.cand, CancelForEdit(ep.cand))
  BY <1>0, CancelForEditSound
<1>3. PICK d \in Cands : d = CancelForEdit(ep.cand) /\ CandSound(d) /\ Carries(ep.cand, d)
  BY <1>2, CarriesWays DEF Stopped, CandSound
<1>4. CASE ep' = PoisonAndFail([ep EXCEPT !.cand = CancelForEdit(@)])
  <2>. DEFINE f == [ep EXCEPT !.cand = d]
  <2>1. f \in Eps
    BY <1>0 DEF Eps
  <2>2. f.cand = d
    BY <1>0 DEF Eps
  <2>3. ep' = PoisonAndFail(f)
    BY <1>3, <1>4
  <2>. HIDE DEF f
  <2>. QED
    BY <1>3, <2>1, <2>2, <2>3, PoisonCarries DEF Carries
<1>5. ASSUME HasSource(ep), ep.rt.rev < MaxRev, NEW hash \in Hashes,
             ep' = Emit([[ep EXCEPT !.cand = CancelForEdit(@)] EXCEPT !.rt.rev = ep.rt.rev + 1,
                              !.pedit = Stamp(ep.rt.rev + 1, hash), !.cert = "NotStarted"], "installEdit")
      PROVE  Carries(ep.cand, ep'.cand)
  <2>0. ep.rt \in Runtimes /\ ep.rt.rev \in Revs
    BY <1>0, <1>5, EpTyped DEF HasSource, Core, Sane
  <2>1. PICK rev \in Revs : rev = ep.rt.rev + 1 /\ rev \in OptRev
    <3>1. ep.rt.rev \in Nat /\ ep.rt.rev >= 1
      BY <2>0, Numbers DEF Revs
    <3>2. ep.rt.rev + 1 \in Revs
      BY <1>5, <3>1, Numbers DEF Revs
    <3>. QED
      BY <3>2, Numbers
  <2>2. PICK t \in Stamps : t = Stamp(rev, hash)
    BY <1>5, <2>1, StampTyped
  <2>3. PICK rt \in Runtimes : rt = [ep.rt EXCEPT !.rev = rev]
    BY <2>0, <2>1 DEF Runtimes
  <2>. DEFINE g == [ep EXCEPT !.cand = d, !.rt = rt, !.pedit = t, !.cert = "NotStarted"]
  <2>4. ep' = Emit(g, "installEdit")
    BY <1>0, <1>3, <1>5, <2>1, <2>2, <2>3
  <2>5. g \in Eps
    BY <1>0 DEF Eps, CertStates
  <2>6. g.cand = d /\ g.out = "none"
    BY <1>0, <2>5 DEF Eps
  <2>. HIDE DEF g
  <2>7. "installEdit" \in Events
    BY DEF Events
  <2>. QED
    BY <1>3, <2>4, <2>5, <2>6, <2>7, EmitFields DEF Same
<1>. QED
  BY <1>1, <1>4, <1>5 DEF Edit, RejectEdit

\* What the endpoint has to build on, it has after every step but a close.
LEMMA StepCarries ==
    ASSUME Sound(ep), Step, "deriveFails" \notin faults
    PROVE  Carries(ep.cand, ep'.cand)
<1>1. CASE Open \/ Snapshot \/ IdsRunOut
  BY <1>1, CommandsKeep, CarriesWays
<1>2. CASE BeginClose \/ BadFrame
  BY <1>2, ClosesCarry DEF Carries
<1>3. CASE Edit
  BY <1>3, EditCarries
<1>4. CASE Supersede
  BY <1>4, CancelDerivedCarries DEF Supersede, Sound, Core, Sane
<1>5. CASE PollPoisoned \/ Drain
  BY <1>5, ReleasesCarry
<1>6. ASSUME NEW d \in Dispositions, Receipt(d)
      PROVE  Carries(ep.cand, ep'.cand)
  BY <1>6, ReceiptCarries
<1>7. CASE PollSourceFacts
  BY <1>7, PollSourceFactsCarries
<1>8. CASE PollCandidate
  BY <1>8, PollCandidateCarries
<1>9. ASSUME NEW rejected \in BOOLEAN, HostAnswer(rejected)
      PROVE  Carries(ep.cand, ep'.cand)
  BY <1>9, HostAnswerCarries
<1>. QED
  BY <1>1, <1>2, <1>3, <1>4, <1>5, <1>6, <1>7, <1>8, <1>9 DEF Step

\* No step but a close, or a derivation that fails, loses the publication or the
\* Green session that the next delta would start from (cancel_for_edit, the
\* cancellations, the cleanup actor and the deliveries move or replace them).
THEOREM BaseIsKept == Spec => BaseNeverLost
<1>1. IInv /\ IInv' /\ [Next]_vars =>
        [\/ "deriveFails" \in faults \/ ep'.cand.closing
         \/ /\ Owned(ep.cand) # {} => Owned(ep'.cand) # {}
            /\ GreenPlaces(ep.cand.green) # {} => GreenPlaces(ep'.cand.green) # {}]_vars
  <2>. SUFFICES ASSUME IInv, IInv', Step, "deriveFails" \notin faults, ~ep'.cand.closing
                PROVE  /\ Owned(ep.cand) # {} => Owned(ep'.cand) # {}
                       /\ GreenPlaces(ep.cand.green) # {} => GreenPlaces(ep'.cand.green) # {}
    BY DEF Next
  <2>1. Carries(ep.cand, ep'.cand)
    BY StepCarries DEF IInv
  <2>2. GreenSound(ep.cand.green) /\ GreenSound(ep'.cand.green)
    BY DEF IInv, Sound, Core, Sane, CandSound
  <2>3. /\ GreenPlaces(ep.cand.green) # {} <=> InSlot(ep.cand)
        /\ GreenPlaces(ep'.cand.green) # {} <=> InSlot(ep'.cand)
    BY <2>2, PlacesOfGreen DEF InSlot
  <2>. QED
    BY <2>1, <2>3 DEF Carries
<1>. QED
  BY <1>1, EndpointIsSound, PTL DEF Spec, BaseNeverLost

=============================================================================
