---------------------------- MODULE EditorProofs ----------------------------
(***************************************************************************)
(* Proofs about the editing kernel, for every set of sources, whatever the *)
(* parser makes of them and wherever selections land in them, and for      *)
(* every pair of caps of the history.                                      *)
(*                                                                         *)
(* The editor's history is an instance of the one HistoryProofs is about:  *)
(* what is proved there of a single history object is used here, with the  *)
(* editing states whose source the editor may show for its states.         *)
(***************************************************************************)
EXTENDS Editor, TLAPS

ShownStates == {s \in EditStates : Reads[s.source] \in Shown}

H == INSTANCE HistoryProofs WITH States <- ShownStates,
                                 Units <- [s \in EditStates |-> Length[s.source]],
                                 Times <- {0},
                                 CoalesceWindow <- 1,
                                 h <- ed.history,
                                 current <- EditState(ed),
                                 burst <- None

-----------------------------------------------------------------------------
(* The history the editor uses is the one of HistoryProofs.                *)

\* The assumptions of the history, of the editor's constants.
LEMMA HistoryAssumptions ==
    /\ \A s \in ShownStates : [t \in EditStates |-> Length[t.source]][s] \in Nat
    /\ MaxEntries \in Nat \ {0} /\ MaxSourceCodeUnits \in Nat /\ 1 \in Nat
    /\ {0} \subseteq Int /\ None \notin {0}
    /\ MaxGroup \in Nat
<1>1. ASSUME NEW s \in ShownStates
      PROVE  [t \in EditStates |-> Length[t.source]][s] \in Nat
  BY SourcesAssumption DEF ShownStates, EditStates
<1>. QED
  BY <1>1, CapsAssumption, BoundAssumption, NoneAssumption

LEMMA SameLibrary ==
    ASSUME NEW x
    PROVE  H!Min(x) = Min(x) /\ H!Last(x) = Last(x) /\ H!Cardinality(x) = Cardinality(x)
  BY DEF H!Min, Min, H!Last, Last, H!Cardinality, Cardinality

LEMMA SameStored ==
    ASSUME NEW x
    PROVE  H!StoredUnits(x) = StoredUnits(x)
<1>1. H!UnitPositions(x) = UnitPositions(x)
  BY DEF H!UnitPositions, UnitPositions
<1>. QED
  BY <1>1, SameLibrary DEF H!StoredUnits, StoredUnits

LEMMA SameDrop ==
    ASSUME NEW x, NEW k
    PROVE  /\ H!OverCap(x) <=> OverCap(x)
           /\ H!DropOldest(x, k) = DropOldest(x, k)
<1>1. H!OverCap(x) <=> OverCap(x)
  BY DEF H!OverCap, OverCap
<1>2. H!Dropped(x, k) = Dropped(x, k)
  BY DEF H!Dropped, Dropped
<1>3. H!DropOldest(x, k) = DropOldest(x, k)
  BY <1>2, SameStored, Zenon DEF H!DropOldest, DropOldest
<1>. QED
  BY <1>1, <1>3

LEMMA SameTrim ==
    ASSUME NEW x
    PROVE  H!Trim(x) = Trim(x)
<1>. DEFINE all == Len(x.undo) + Len(x.redo)
            there == {k \in 0 .. all : k = all \/ ~H!OverCap(H!DropOldest(x, k))}
            here == {k \in 0 .. all : k = all \/ ~OverCap(DropOldest(x, k))}
<1>1. H!Trim(x) = H!DropOldest(x, H!Min(there))
  BY DEF H!Trim
<1>2. Trim(x) = DropOldest(x, Min(here))
  BY DEF Trim
<1>3. there = here
  BY SameDrop, Zenon
<1>. HIDE DEF there, here
<1>. QED
  BY <1>1, <1>2, <1>3, SameDrop, SameLibrary

LEMMA SameAdd ==
    ASSUME NEW x, NEW s, NEW g
    PROVE  H!AddUndo(x, s, g) = AddUndo(x, s, g) /\ H!AddRedo(x, s, g) = AddRedo(x, s, g)
  BY DEF H!AddUndo, AddUndo, H!AddRedo, AddRedo

LEMMA SameBreak ==
    ASSUME NEW x
    PROVE  H!BreakCoalescing(x) = BreakCoalescing(x)
  BY DEF H!BreakCoalescing, BreakCoalescing

LEMMA SameClear ==
    ASSUME NEW x
    PROVE  H!ClearRedo(x) = ClearRedo(x) /\ H!Clear(x) = Clear(x)
<1>1. H!ClearRedo(x) = ClearRedo(x)
  BY SameStored, Zenon DEF H!ClearRedo, ClearRedo
<1>2. H!Clear(x) = Clear(x)
  BY SameStored, SameBreak, Zenon DEF H!Clear, Clear
<1>. QED
  BY <1>1, <1>2

LEMMA SameTarget ==
    ASSUME NEW x
    PROVE  H!TargetIndex(x) = TargetIndex(x) /\ H!TargetOf(x) = TargetOf(x)
<1>1. H!TargetIndex(x) = TargetIndex(x)
  BY SameLibrary, Zenon DEF H!TargetIndex, TargetIndex
<1>. QED
  BY <1>1, Zenon DEF H!TargetOf, TargetOf

LEMMA SameRecord ==
    ASSUME NEW x, NEW s, NEW typing
    PROVE  H!RecordState(x, s, typing, 0) = RecordState(x, s, typing, 0)
<1>. DEFINE opened == IF Joins(x, typing, 0) THEN x ELSE OpenGroup(x, s)
            there == IF H!Joins(x, typing, 0) THEN x ELSE H!OpenGroup(x, s)
            Stamped(t) == [t EXCEPT !.lastWasTyping = typing, !.lastTypingAt = 0]
<1>1. opened = there
  <2>1. H!Joins(x, typing, 0) <=> Joins(x, typing, 0)
    BY SameLibrary, Zenon DEF H!Joins, Joins
  <2>2. H!OpenGroup(x, s) = OpenGroup(x, s)
    BY SameAdd, Zenon DEF H!OpenGroup, OpenGroup
  <2>. QED
    BY <2>1, <2>2, Zenon
<1>2. RecordState(x, s, typing, 0)
        = LET y == Stamped(Trim(ClearRedo(opened)))
          IN  IF y.undo = <<>> \/ Last(y.undo).group # y.group THEN BreakCoalescing(y) ELSE y
  BY Zenon DEF RecordState
<1>3. H!RecordState(x, s, typing, 0)
        = LET y == Stamped(H!Trim(H!ClearRedo(there)))
          IN  IF y.undo = <<>> \/ H!Last(y.undo).group # y.group
              THEN H!BreakCoalescing(y) ELSE y
  BY Zenon DEF H!RecordState
<1>. HIDE DEF opened, there
<1>4. H!Trim(H!ClearRedo(there)) = Trim(ClearRedo(opened))
  BY <1>1, SameTrim, SameClear
<1>. DEFINE y == Stamped(Trim(ClearRedo(opened)))
<1>5. /\ RecordState(x, s, typing, 0)
           = IF y.undo = <<>> \/ Last(y.undo).group # y.group THEN BreakCoalescing(y) ELSE y
      /\ H!RecordState(x, s, typing, 0)
           = IF y.undo = <<>> \/ H!Last(y.undo).group # y.group
             THEN H!BreakCoalescing(y) ELSE y
  BY <1>2, <1>3, <1>4
<1>. HIDE DEF y
<1>. QED
  BY <1>5, SameLibrary, SameBreak

LEMMA SameSteps ==
    ASSUME NEW x, NEW s
    PROVE  H!UndoState(x, s) = UndoState(x, s) /\ H!RedoState(x, s) = RedoState(x, s)
<1>1. H!UndoState(x, s) = UndoState(x, s)
  BY SameTarget, SameStored, SameTrim, SameAdd, SameBreak, SameLibrary, Zenon
     DEF H!UndoState, UndoState
<1>2. H!RedoState(x, s) = RedoState(x, s)
  BY SameTrim, SameAdd, SameBreak, SameLibrary, Zenon DEF H!RedoState, RedoState
<1>. QED
  BY <1>1, <1>2

\* What HistoryProofs shows of the methods, as the editor calls them.
LEMMA HistoryCalls ==
    ASSUME NEW x, H!Good(x), NEW s \in ShownStates, NEW typing \in BOOLEAN
    PROVE  /\ H!Good(BreakCoalescing(x))
           /\ BreakCoalescing(x).undo = x.undo /\ BreakCoalescing(x).redo = x.redo
           /\ H!Good(Clear(x))
           /\ H!Good(RecordState(x, s, typing, 0))
           /\ x.undo # <<>> => /\ H!Good(UndoState(x, s))
                               /\ TargetOf(x.undo).state \in ShownStates
           /\ x.redo # <<>> => /\ H!Good(RedoState(x, s))
                               /\ TargetOf(x.redo).state \in ShownStates
           /\ RecordState(x, s, FALSE, 0).undo # <<>> =>
                 TargetOf(RecordState(x, s, FALSE, 0).undo).state = s
<1>1. /\ H!Good(BreakCoalescing(x))
      /\ BreakCoalescing(x).undo = x.undo /\ BreakCoalescing(x).redo = x.redo
  BY H!BreakKeeps, HistoryAssumptions, SameBreak
<1>2. H!Good(Clear(x))
  BY H!ClearKeeps, HistoryAssumptions, SameClear
<1>3. 0 \in {0}
  OBVIOUS
<1>4. H!Good(RecordState(x, s, typing, 0))
  BY <1>3, H!RecordKeeps, HistoryAssumptions, SameRecord
<1>5. ASSUME x.undo # <<>>
      PROVE  H!Good(UndoState(x, s)) /\ TargetOf(x.undo).state \in ShownStates
  BY <1>5, H!UndoKeeps, HistoryAssumptions, SameSteps, SameTarget
<1>6. ASSUME x.redo # <<>>
      PROVE  H!Good(RedoState(x, s)) /\ TargetOf(x.redo).state \in ShownStates
  BY <1>6, H!RedoKeeps, HistoryAssumptions, SameSteps, SameTarget
<1>7. ASSUME RecordState(x, s, FALSE, 0).undo # <<>>
      PROVE  TargetOf(RecordState(x, s, FALSE, 0).undo).state = s
  <2>1. H!RecordState(x, s, FALSE, 0) = RecordState(x, s, FALSE, 0)
    BY SameRecord
  <2>2. H!TargetOf(H!RecordState(x, s, FALSE, 0).undo).state = s
    BY <1>3, <1>7, <2>1, H!RecordTarget, HistoryAssumptions
  <2>. QED
    BY <2>1, <2>2, SameTarget
<1>. QED
  BY <1>1, <1>2, <1>4, <1>5, <1>6, <1>7

-----------------------------------------------------------------------------
(* The inductive invariant, of an editor e between two calls or within one. *)

Snaps == [source : Sources, selection : Selections, live : BOOLEAN]

Rejections == Refusals \cup Reasons \cup {None, "unsupportedEdit", "staleRevision"}

Editors == [snap : Snaps, pending : {None, Style},
            composition : EditStates \cup {None}, composed : Composed \cup {None},
            history : H!HistoryObject, force : BOOLEAN,
            rejection : Rejections, inert : BOOLEAN, told : Nat]

\* What is shown is what opening the source gives, with no typing intent
\* where it is not live.
Shows(force, snap, pending) ==
    /\ snap \in Snaps
    /\ Reads[snap.source] \in Shown
    /\ snap = Snapshot(force, snap.source, snap.selection)
    /\ pending \in {None, Style}
    /\ ~snap.live => pending = None

\* A composition can be cancelled: what it began with is what would be
\* shown again.
Resumable(force, s) ==
    /\ s \in ShownStates
    /\ Snapshot(force, s.source, s.selection).selection = s.selection
    /\ Shows(force, Snapshot(force, s.source, s.selection), s.pending)

WellFormed(e) ==
    /\ e \in Editors
    /\ Shows(e.force, e.snap, e.pending)
    /\ H!Good(e.history)
    /\ Composing(e) => Resumable(e.force, e.composition)

IInv == WellFormed(ed)

LEMMA SnapshotOf ==
    ASSUME NEW force \in BOOLEAN, NEW s \in Sources, NEW sel \in Selections
    PROVE  LET next == Snapshot(force, s, sel)
           IN  /\ next \in Snaps /\ next.source = s
               /\ next.live = (~force /\ Reads[s] = "live")
               /\ next = Snapshot(force, next.source, next.selection)
<1>. DEFINE live == ~force /\ Reads[s] = "live"
            to == Snap[live][s][sel]
<1>1. live \in BOOLEAN
  OBVIOUS
<1>2. Snapshot(force, s, sel) = [source |-> s, selection |-> to, live |-> live]
  BY Zenon DEF Snapshot
<1>3. Snapshot(force, s, to) = [source |-> s, selection |-> Snap[live][s][to], live |-> live]
  BY Zenon DEF Snapshot
<1>. HIDE DEF live
<1>4. to \in Selections /\ Snap[live][s][to] = to
  BY <1>1, SelectionsAssumption
<1>. HIDE DEF to
<1>5. Snapshot(force, s, sel) \in Snaps
  BY <1>1, <1>2, <1>4 DEF Snaps
<1>. QED
  BY <1>2, <1>3, <1>4, <1>5 DEF live

\* A shown source that is opened is shown well, with its pending style where
\* it is live.
LEMMA OpenShows ==
    ASSUME NEW force \in BOOLEAN, NEW s \in Sources, NEW sel \in Selections,
           Reads[s] \in Shown, NEW p \in {None, Style}
    PROVE  LET next == Snapshot(force, s, sel)
           IN  /\ next \in Snaps /\ next.source = s
               /\ Shows(force, next, IF next.live THEN p ELSE None)
<1>. DEFINE next == Snapshot(force, s, sel)
<1>1. next \in Snaps /\ next.source = s /\ next = Snapshot(force, next.source, next.selection)
  BY SnapshotOf
<1>. HIDE DEF next
<1>2. next.live \in BOOLEAN
  BY <1>1 DEF Snaps
<1>. QED
  BY <1>1, <1>2 DEF Shows, next

LEMMA RefusalOf ==
    ASSUME NEW e, NEW s \in Sources
    PROVE  /\ Refusal(e, s) \in Refusals \cup {None}
           /\ Refusal(e, s) = None => Reads[s] \in Shown
<1>1. Reads[s] \in Shown \cup {"invalid", "big"}
  BY SourcesAssumption
<1>2. /\ "invalidSource" # None /\ "sourceLimit" # None
      /\ {"invalidSource", "sourceLimit", "extractionDeviation"} = Refusals
  BY NoneAssumption DEF Refusals
<1>3. CASE Reads[s] = "invalid"
  <2>1. Refusal(e, s) = "invalidSource"
    BY <1>3 DEF Refusal
  <2>. QED
    BY <1>2, <2>1
<1>4. CASE Reads[s] = "big"
  <2>1. Refusal(e, s) = "sourceLimit"
    BY <1>4 DEF Refusal
  <2>. QED
    BY <1>2, <2>1
<1>5. CASE Reads[s] \in Shown
  <2>1. Reads[s] # "invalid" /\ Reads[s] # "big"
    BY <1>5 DEF Shown
  <2>2. Refusal(e, s) = "extractionDeviation" \/ Refusal(e, s) = None
    BY <2>1, Zenon DEF Refusal
  <2>. QED
    BY <1>2, <1>5, <2>2
<1>. QED
  BY <1>1, <1>3, <1>4, <1>5

\* The fields of a well formed editor.
LEMMA Fields ==
    ASSUME NEW e, WellFormed(e)
    PROVE  /\ e \in Editors
           /\ e.snap \in Snaps /\ e.snap.source \in Sources /\ e.snap.selection \in Selections
           /\ e.snap.live \in BOOLEAN
           /\ e.snap.live = (~e.force /\ Reads[e.snap.source] = "live")
           /\ e.pending \in {None, Style}
           /\ e.force \in BOOLEAN /\ e.told \in Nat /\ e.rejection \in Rejections
           /\ e.inert \in BOOLEAN
           /\ e.composed \in Composed \cup {None}
           /\ e.composition \in EditStates \cup {None}
           /\ Composing(e) => e.composition \in ShownStates
<1>1. e \in Editors /\ Shows(e.force, e.snap, e.pending)
  BY DEF WellFormed
<1>2. /\ e.snap \in Snaps /\ e.pending \in {None, Style}
      /\ e.force \in BOOLEAN /\ e.told \in Nat /\ e.rejection \in Rejections
      /\ e.inert \in BOOLEAN /\ e.composed \in Composed \cup {None}
      /\ e.composition \in EditStates \cup {None}
  BY <1>1 DEF Editors
<1>3. /\ e.snap.source \in Sources /\ e.snap.selection \in Selections
      /\ e.snap.live \in BOOLEAN
  BY <1>2 DEF Snaps
<1>4. e.snap = Snapshot(e.force, e.snap.source, e.snap.selection)
  BY <1>1 DEF Shows
<1>5. e.snap.live = (~e.force /\ Reads[e.snap.source] = "live")
  BY <1>2, <1>3, <1>4, SnapshotOf
<1>6. Composing(e) => e.composition \in ShownStates
  BY DEF WellFormed, Resumable
<1>. QED
  BY <1>1, <1>2, <1>3, <1>5, <1>6

\* The state an editor is in can be recorded, and begin a composition.
LEMMA StateOf ==
    ASSUME NEW e, WellFormed(e)
    PROVE  EditState(e) \in ShownStates /\ Resumable(e.force, EditState(e))
<1>. DEFINE s == EditState(e)
<1>1. Shows(e.force, e.snap, e.pending)
  BY DEF WellFormed
<1>2. s.source = e.snap.source /\ s.selection = e.snap.selection /\ s.pending = e.pending
  BY DEF EditState
<1>3. s \in EditStates
  BY Fields DEF EditState, EditStates
<1>. HIDE DEF s
<1>4. s \in ShownStates
  BY <1>1, <1>2, <1>3 DEF ShownStates, Shows
<1>5. Snapshot(e.force, s.source, s.selection) = e.snap
  BY <1>1, <1>2 DEF Shows
<1>. QED
  BY <1>1, <1>2, <1>4, <1>5 DEF Resumable, s

\* An editor made of a well formed one, in its mode and with its
\* composition or none.
LEMMA Built ==
    ASSUME NEW e, WellFormed(e), NEW f \in Editors, f.force = e.force,
           f.composition = e.composition \/ f.composition = None,
           Shows(e.force, f.snap, f.pending), H!Good(f.history)
    PROVE  WellFormed(f)
  BY DEF WellFormed, Composing

-----------------------------------------------------------------------------
(* The outcomes of the parts of a call.                                    *)

Outcomes == [e : Editors, did : {"applied", "refused", "threw"}]

\* Nothing of the editor that a caller can see or undo is changed.
Same(e, f) ==
    /\ f.snap = e.snap /\ f.pending = e.pending
    /\ f.composition = e.composition /\ f.composed = e.composed
    /\ Stacks(f) = Stacks(e)

\* What a command does to the editor e before it is published: it keeps the
\* mode and the composition, what is not applied changes nothing, and
\* during a composition neither stack is touched.
Done(e, r) ==
    /\ r \in Outcomes
    /\ WellFormed(r.e)
    /\ r.e.force = e.force /\ r.e.told = e.told /\ r.e.composition = e.composition
    /\ r.did # "applied" => Same(e, r.e)
    /\ Composing(e) => Stacks(r.e) = Stacks(e)

LEMMA OutcomeOf ==
    ASSUME NEW e, NEW did
    PROVE  /\ Outcome(e, did).e = e /\ Outcome(e, did).did = did
           /\ e \in Editors /\ did \in {"applied", "refused", "threw"}
                 => Outcome(e, did) \in Outcomes
  BY DEF Outcome, Outcomes

\* An editor with only the reason of a refusal changed, or found inert.
Inert(e) == [e EXCEPT !.inert = TRUE]

Rejected(e, why) == [e EXCEPT !.rejection = why]

\* An outcome that at most marks the editor.
LEMMA MarkDone ==
    ASSUME NEW e, WellFormed(e), NEW f \in Editors, NEW did \in {"refused", "threw"},
           f.snap = e.snap, f.pending = e.pending, f.history = e.history,
           f.composition = e.composition, f.composed = e.composed,
           f.force = e.force, f.told = e.told
    PROVE  Done(e, Outcome(f, did))
<1>1. Shows(e.force, e.snap, e.pending) /\ H!Good(e.history)
  BY DEF WellFormed
<1>2. WellFormed(f)
  BY <1>1, Built
<1>3. Same(e, f) /\ Stacks(f) = Stacks(e)
  BY DEF Same, Stacks
<1>. QED
  BY <1>2, <1>3, OutcomeOf DEF Done

LEMMA StopDone ==
    ASSUME NEW e, WellFormed(e)
    PROVE  /\ Done(e, Outcome(e, "refused")) /\ Done(e, Outcome(e, "threw"))
           /\ Done(e, Outcome(Inert(e), "refused"))
           /\ \A why \in Rejections : Done(e, Outcome(Rejected(e, why), "refused"))
<1>1. e \in Editors
  BY DEF WellFormed
<1>2. Done(e, Outcome(e, "refused")) /\ Done(e, Outcome(e, "threw"))
  BY <1>1, MarkDone
<1>3. Done(e, Outcome(Inert(e), "refused"))
  <2>. DEFINE f == Inert(e)
  <2>1. /\ f \in Editors /\ f.snap = e.snap /\ f.pending = e.pending
        /\ f.composition = e.composition /\ f.composed = e.composed /\ f.history = e.history
        /\ f.force = e.force /\ f.told = e.told
    BY <1>1 DEF Editors, Inert
  <2>. HIDE DEF f
  <2>2. Done(e, Outcome(f, "refused"))
    BY <2>1, MarkDone
  <2>. QED
    BY <2>2 DEF f
<1>4. ASSUME NEW why \in Rejections
      PROVE  Done(e, Outcome(Rejected(e, why), "refused"))
  <2>. DEFINE f == Rejected(e, why)
  <2>1. /\ f \in Editors /\ f.snap = e.snap /\ f.pending = e.pending
        /\ f.composition = e.composition /\ f.composed = e.composed /\ f.history = e.history
        /\ f.force = e.force /\ f.told = e.told
    BY <1>1 DEF Editors, Rejected
  <2>. HIDE DEF f
  <2>2. Done(e, Outcome(f, "refused"))
    BY <2>1, MarkDone
  <2>. QED
    BY <2>2 DEF f
<1>. QED
  BY <1>2, <1>3, <1>4

LEMMA SelectDone ==
    ASSUME NEW e, WellFormed(e), NEW sel \in Selections
    PROVE  Done(e, Select(e, sel)) /\ Select(e, sel).did \in {"applied", "refused"}
<1>. DEFINE to == Snap[e.snap.live][e.snap.source][sel]
            f == [e EXCEPT !.snap.selection = to, !.pending = None,
                           !.history = BreakCoalescing(@)]
<1>1. CASE to = e.snap.selection
  <2>1. Select(e, sel) = Outcome(e, "refused")
    BY <1>1 DEF Select
  <2>. QED
    BY <2>1, StopDone, OutcomeOf
<1>2. CASE to # e.snap.selection
  <2>1. Select(e, sel) = Outcome(f, "applied")
    BY <1>2 DEF Select
  <2>2. to \in Selections
    BY Fields, SelectionsAssumption
  <2>3. /\ H!Good(BreakCoalescing(e.history))
        /\ BreakCoalescing(e.history).undo = e.history.undo
        /\ BreakCoalescing(e.history).redo = e.history.redo
    BY StateOf, HistoryCalls DEF WellFormed
  <2>4. BreakCoalescing(e.history) \in H!HistoryObject
    BY <2>3 DEF H!Good
  <2>5. /\ f \in Editors
        /\ f.snap = [e.snap EXCEPT !.selection = to] /\ f.pending = None
        /\ f.history = BreakCoalescing(e.history)
        /\ f.force = e.force /\ f.told = e.told /\ f.composition = e.composition
    <3>. DEFINE next == [e.snap EXCEPT !.selection = to]
                broken == BreakCoalescing(e.history)
    <3>1. next \in Snaps
      BY <2>2, Fields DEF Snaps
    <3>2. f = [e EXCEPT !.snap = next, !.pending = None, !.history = broken]
      OBVIOUS
    <3>. HIDE DEF to, f, next, broken
    <3>3. e \in Editors
      BY Fields
    <3>4. f \in Editors
      BY <2>4, <3>1, <3>2, <3>3 DEF Editors, broken
    <3>5. /\ f.snap = next /\ f.pending = None /\ f.history = broken
          /\ f.force = e.force /\ f.told = e.told /\ f.composition = e.composition
      BY <3>2, <3>3 DEF Editors
    <3>. QED
      BY <3>4, <3>5 DEF next, broken
  <2>6. f.snap = Snapshot(e.force, e.snap.source, sel)
    <3>1. e.snap.live = (~e.force /\ Reads[e.snap.source] = "live")
      BY Fields
    <3>2. Snapshot(e.force, e.snap.source, sel)
            = [source |-> e.snap.source, selection |-> to, live |-> e.snap.live]
      BY <3>1, Zenon DEF Snapshot
    <3>3. [e.snap EXCEPT !.selection = to]
            = [source |-> e.snap.source, selection |-> to, live |-> e.snap.live]
      <4>. HIDE DEF to
      <4>. QED
        BY Fields DEF Snaps
    <3>. QED
      BY <2>5, <3>2, <3>3
  <2>7. Shows(e.force, f.snap, f.pending)
    <3>. HIDE DEF f
    <3>1. Reads[e.snap.source] \in Shown /\ None \in {None, Style}
      BY DEF WellFormed, Shows
    <3>2. Shows(e.force, f.snap, IF f.snap.live THEN None ELSE None)
      BY <2>6, <3>1, OpenShows, Fields
    <3>. QED
      BY <2>5, <3>2
  <2>. HIDE DEF f
  <2>8. WellFormed(f)
    BY <2>3, <2>5, <2>7, Built
  <2>9. Stacks(f) = Stacks(e)
    BY <2>3, <2>5 DEF Stacks
  <2>. QED
    BY <2>1, <2>5, <2>8, <2>9, OutcomeOf DEF Done
<1>. QED
  BY <1>1, <1>2

LEMMA AppliedDone ==
    ASSUME NEW e, WellFormed(e), NEW f \in Editors,
           f.force = e.force, f.told = e.told, f.composition = e.composition,
           Shows(e.force, f.snap, f.pending), H!Good(f.history),
           Composing(e) => Stacks(f) = Stacks(e)
    PROVE  Done(e, Outcome(f, "applied"))
<1>1. WellFormed(f)
  BY Built
<1>. QED
  BY <1>1, OutcomeOf DEF Done

LEMMA ParsedOf ==
    ASSUME NEW e, NEW s, NEW outcomes, NEW r \in Parsed(e, s, outcomes)
    PROVE  r \in outcomes \/ r = Outcome(e, "threw")
  BY Zenon DEF Parsed, Thrown

\* The text composed so far is no longer where it was put.
LEMMA UnplacedOf ==
    ASSUME NEW x \in Composed \cup {None}
    PROVE  (IF x = None THEN None ELSE [x EXCEPT !.placed = FALSE]) \in Composed \cup {None}
  BY DEF Composed

\* A history an edit in e may leave.
RecordedFrom(e, recorded) ==
    /\ H!Good(recorded)
    /\ Composing(e) => recorded = e.history

LEMMA CommitDone ==
    ASSUME NEW e, WellFormed(e), NEW recorded, RecordedFrom(e, recorded),
           NEW c \in EditStates, Reads[c.source] \in Shown
    PROVE  Done(e, Commit(e, recorded, c)) /\ Commit(e, recorded, c).did = "applied"
<1>. DEFINE next == Snapshot(e.force, c.source, c.selection)
            pending == IF next.live THEN c.pending ELSE None
            composed == IF e.composed = None THEN None ELSE [e.composed EXCEPT !.placed = FALSE]
            f == [e EXCEPT !.snap = next, !.pending = pending, !.composed = composed,
                           !.history = recorded]
<1>1. Commit(e, recorded, c) = Outcome(f, "applied")
  BY Zenon DEF Commit
<1>2. next \in Snaps /\ Shows(e.force, next, pending)
  <2>1. c.source \in Sources /\ c.selection \in Selections /\ c.pending \in {None, Style}
    BY DEF EditStates
  <2>. QED
    BY <2>1, Fields, OpenShows
<1>3. pending \in {None, Style}
  BY <1>2 DEF Shows
<1>4. composed \in Composed \cup {None}
  BY Fields, UnplacedOf
<1>5. recorded \in H!HistoryObject /\ H!Good(recorded)
  BY DEF H!Good, RecordedFrom
<1>6. e \in Editors
  BY Fields
<1>. HIDE DEF next, pending, composed
<1>7. f \in Editors
  BY <1>2, <1>3, <1>4, <1>5, <1>6 DEF Editors
<1>8. /\ f.snap = next /\ f.pending = pending /\ f.history = recorded
      /\ f.force = e.force /\ f.told = e.told /\ f.composition = e.composition
  BY <1>6 DEF Editors
<1>. HIDE DEF f
<1>9. Composing(e) => Stacks(f) = Stacks(e)
  BY <1>8 DEF RecordedFrom, Stacks
<1>10. Done(e, Outcome(f, "applied"))
  BY <1>2, <1>5, <1>7, <1>8, <1>9, AppliedDone
<1>. QED
  BY <1>1, <1>10, OutcomeOf

LEMMA AdmitDone ==
    ASSUME NEW e, WellFormed(e), NEW recorded, RecordedFrom(e, recorded),
           NEW c \in EditStates, NEW r \in Admit(e, recorded, c)
    PROVE  Done(e, r)
<1>1. c.source \in Sources
  BY DEF EditStates
<1>2. CASE r = Outcome(e, "threw")
  BY <1>2, StopDone
<1>3. CASE Refusal(e, c.source) # None /\ r # Outcome(e, "threw")
  <2>1. r = Outcome(Rejected(e, Refusal(e, c.source)), "refused")
    BY <1>3, ParsedOf, Zenon DEF Admit, Rejected
  <2>2. Refusal(e, c.source) \in Rejections
    BY <1>1, RefusalOf DEF Rejections
  <2>. QED
    BY <2>1, <2>2, StopDone
<1>4. CASE Refusal(e, c.source) = None /\ r # Outcome(e, "threw")
  <2>1. r = Commit(e, recorded, c)
    BY <1>4, ParsedOf, Zenon DEF Admit
  <2>. QED
    BY <1>1, <1>4, <2>1, RefusalOf, CommitDone
<1>. QED
  BY <1>2, <1>3, <1>4

LEMMA AttemptDone ==
    ASSUME NEW e, WellFormed(e), NEW recorded, RecordedFrom(e, recorded),
           NEW c \in EditStates, NEW r \in Attempt(e, recorded, c)
    PROVE  Done(e, r)
<1>1. CASE c.source # e.snap.source
  BY <1>1, AdmitDone DEF Attempt
<1>2. CASE c.source = e.snap.source
  <2>. DEFINE q == Select(e, c.selection)
  <2>1. c.selection \in Selections
    BY DEF EditStates
  <2>2. Done(e, q) /\ q.did \in {"applied", "refused"}
    BY <2>1, SelectDone
  <2>3. r = IF q.did = "applied" THEN q ELSE [q EXCEPT !.e.inert = TRUE]
    BY <1>2, Zenon DEF Attempt
  <2>4. CASE q.did = "applied"
    BY <2>2, <2>3, <2>4
  <2>5. CASE q.did # "applied"
    <3>1. q = Outcome(e, "refused")
      BY <2>5, OutcomeOf DEF Select
    <3>2. r = [q EXCEPT !.e.inert = TRUE]
      BY <2>3, <2>5
    <3>. HIDE DEF q
    <3>3. r = [q EXCEPT !.e = Inert(q.e)]
      BY <3>2, Zenon DEF Inert
    <3>4. r = Outcome(Inert(e), "refused")
      BY <3>1, <3>3 DEF Outcome
    <3>. QED
      BY <3>4, StopDone
  <2>. QED
    BY <2>4, <2>5
<1>. QED
  BY <1>1, <1>2

LEMMA EditDone ==
    ASSUME NEW e, WellFormed(e), NEW coalesce \in BOOLEAN, NEW r \in Edit(e, coalesce)
    PROVE  Done(e, r)
<1>. DEFINE recorded == Recorded(e, EditState(e), coalesce)
<1>1. RecordedFrom(e, recorded)
  <2>1. CASE Composing(e)
    <3>1. recorded = e.history
      BY <2>1 DEF Recorded
    <3>. QED
      BY <3>1 DEF RecordedFrom, WellFormed
  <2>2. CASE ~Composing(e)
    <3>1. recorded = RecordState(e.history, EditState(e), coalesce, 0)
      BY <2>2 DEF Recorded
    <3>2. H!Good(e.history) /\ EditState(e) \in ShownStates
      BY StateOf DEF WellFormed
    <3>. QED
      BY <2>2, <3>1, <3>2, HistoryCalls DEF RecordedFrom
  <2>. QED
    BY <2>1, <2>2
<1>. HIDE DEF recorded
<1>2. r = Outcome(e, "refused") \/ \E c \in Candidates : r \in Attempt(e, recorded, c)
  BY Zenon DEF Edit, NotKept, recorded
<1>3. Candidates \subseteq EditStates
  BY DEF Candidates
<1>. QED
  BY <1>1, <1>2, <1>3, StopDone, AttemptDone

\* A command that changes no more than the pending style, where there is one.
LEMMA RestyleDone ==
    ASSUME NEW e, WellFormed(e), NEW p \in {None, Style}, e.snap.live \/ p = None, NEW f,
           f = [e EXCEPT !.pending = p, !.history = BreakCoalescing(e.history)]
    PROVE  /\ Done(e, Outcome(f, "applied"))
           /\ p = e.pending => Done(e, Outcome(f, "refused"))
<1>. DEFINE b == BreakCoalescing(e.history)
<1>1. H!Good(b) /\ b.undo = e.history.undo /\ b.redo = e.history.redo
  BY StateOf, HistoryCalls DEF WellFormed
<1>2. b \in H!HistoryObject
  BY <1>1 DEF H!Good
<1>3. e \in Editors
  BY Fields
<1>4. f = [e EXCEPT !.pending = p, !.history = b]
  OBVIOUS
<1>. HIDE DEF b
<1>5. f \in Editors
  BY <1>2, <1>3, <1>4 DEF Editors
<1>6. /\ f.snap = e.snap /\ f.pending = p /\ f.history = b /\ f.composed = e.composed
      /\ f.force = e.force /\ f.told = e.told /\ f.composition = e.composition
  BY <1>3, <1>4 DEF Editors
<1>7. Stacks(f) = Stacks(e)
  BY <1>1, <1>6 DEF Stacks
<1>8. Shows(e.force, f.snap, f.pending)
  BY <1>6 DEF WellFormed, Shows
<1>9. Done(e, Outcome(f, "applied")) /\ WellFormed(f)
  BY <1>1, <1>5, <1>6, <1>7, <1>8, AppliedDone, Built
<1>10. p = e.pending => Same(e, f)
  BY <1>6, <1>7 DEF Same
<1>. QED
  BY <1>5, <1>6, <1>7, <1>9, <1>10, OutcomeOf DEF Done

LEMMA StyleDone ==
    ASSUME NEW e, WellFormed(e), NEW r \in SetStyle(e)
    PROVE  Done(e, r)
<1>. DEFINE p == IF e.pending = None THEN Style ELSE None
            f == [e EXCEPT !.pending = p, !.history = BreakCoalescing(e.history)]
<1>1. CASE ~e.snap.live
  BY <1>1, StopDone DEF SetStyle, NotKept
<1>2. CASE e.snap.live
  <2>1. r \in {Outcome(Inert(e), "refused"), Outcome(f, "applied")}
    BY <1>2 DEF SetStyle, Inert
  <2>2. p \in {None, Style}
    OBVIOUS
  <2>. HIDE DEF p
  <2>3. Done(e, Outcome(f, "applied"))
    <3>1. f = [e EXCEPT !.pending = p, !.history = BreakCoalescing(e.history)]
      OBVIOUS
    <3>. HIDE DEF f
    <3>. QED
      BY <1>2, <2>2, <3>1, RestyleDone
  <2>. QED
    BY <2>1, <2>3, StopDone
<1>. QED
  BY <1>1, <1>2, Fields

LEMMA PlaceDone ==
    ASSUME NEW e, WellFormed(e), NEW sel \in Selections
    PROVE  Done(e, Place(e, sel))
<1>. DEFINE f == [e EXCEPT !.history = BreakCoalescing(e.history), !.pending = None]
            g == [e EXCEPT !.pending = None, !.history = BreakCoalescing(e.history)]
            q == Select(e, sel)
<1>1. CASE ~e.snap.live
  BY <1>1, StopDone DEF Place, NotKept
<1>2. CASE e.snap.live /\ q.did = "applied"
  BY <1>2, SelectDone DEF Place
<1>3. CASE e.snap.live /\ q.did # "applied"
  <2>1. Place(e, sel) = Outcome(f, IF e.pending = None THEN "refused" ELSE "applied")
    BY <1>3, Zenon DEF Place
  <2>2. f = g
    BY Fields DEF Editors
  <2>3. g = [e EXCEPT !.pending = None, !.history = BreakCoalescing(e.history)]
    OBVIOUS
  <2>. HIDE DEF f, g
  <2>4. /\ Done(e, Outcome(g, "applied"))
        /\ None = e.pending => Done(e, Outcome(g, "refused"))
    BY <2>3, RestyleDone
  <2>. QED
    BY <2>1, <2>2, <2>4
<1>. QED
  BY <1>1, <1>2, <1>3

LEMMA StepDone ==
    ASSUME NEW e, WellFormed(e), ~Composing(e), NEW stack, NEW step, NEW r \in Step(e, stack, step),
           stack # <<>> => TargetOf(stack).state \in ShownStates /\ H!Good(step)
    PROVE  Done(e, r)
<1>. DEFINE t == TargetOf(stack).state
            next == Snapshot(e.force, t.source, t.selection)
            pending == IF next.live THEN t.pending ELSE None
            f == [e EXCEPT !.snap = next, !.pending = pending, !.history = step]
<1>1. CASE stack = <<>>
  <2>1. r = Outcome(Inert(e), "refused")
    BY <1>1 DEF Step, Inert
  <2>. QED
    BY <2>1, StopDone
<1>2. CASE stack # <<>>
  <2>1. r \in Parsed(e, t.source, {Outcome(f, "applied")})
    BY <1>2, Zenon DEF Step
  <2>2. t \in ShownStates /\ H!Good(step) /\ step \in H!HistoryObject
    BY <1>2 DEF H!Good
  <2>. HIDE DEF t
  <2>3. /\ t.source \in Sources /\ t.selection \in Selections /\ t.pending \in {None, Style}
        /\ Reads[t.source] \in Shown
    BY <2>2 DEF ShownStates, EditStates
  <2>4. next \in Snaps /\ Shows(e.force, next, pending)
    BY <2>3, Fields, OpenShows
  <2>5. pending \in {None, Style}
    BY <2>4 DEF Shows
  <2>6. e \in Editors
    BY Fields
  <2>. HIDE DEF next, pending
  <2>7. f \in Editors
    BY <2>2, <2>4, <2>5, <2>6 DEF Editors
  <2>8. /\ f.snap = next /\ f.pending = pending /\ f.history = step
        /\ f.force = e.force /\ f.told = e.told /\ f.composition = e.composition
    BY <2>6 DEF Editors
  <2>. HIDE DEF f
  <2>9. Done(e, Outcome(f, "applied"))
    BY <2>2, <2>4, <2>7, <2>8, AppliedDone
  <2>10. r = Outcome(f, "applied") \/ r = Outcome(e, "threw")
    BY <2>1, ParsedOf
  <2>. QED
    BY <2>9, <2>10, StopDone
<1>. QED
  BY <1>1, <1>2

LEMMA UndoRedoDone ==
    ASSUME NEW e, WellFormed(e), ~Composing(e), NEW r \in Undo(e) \cup Redo(e)
    PROVE  Done(e, r)
<1>1. H!Good(e.history) /\ EditState(e) \in ShownStates
  BY StateOf DEF WellFormed
<1>2. CASE r \in Undo(e)
  BY <1>1, <1>2, HistoryCalls, StepDone DEF Undo
<1>3. CASE r \in Redo(e)
  BY <1>1, <1>3, HistoryCalls, StepDone DEF Redo
<1>. QED
  BY <1>2, <1>3

\* The editor with the composed text noted.
Noted(e, x) == [e EXCEPT !.composed = x]

LEMMA NotedDone ==
    ASSUME NEW e, WellFormed(e), NEW q, Done(e, q), q.did = "applied",
           NEW x \in Composed \cup {None}
    PROVE  Done(e, [q EXCEPT !.e = Noted(q.e, x)])
<1>. DEFINE f == Noted(q.e, x)
            r == [q EXCEPT !.e = Noted(q.e, x)]
<1>1. q \in Outcomes /\ WellFormed(q.e) /\ q.e \in Editors
  BY DEF Done, WellFormed
<1>2. /\ f \in Editors /\ f.snap = q.e.snap /\ f.pending = q.e.pending
      /\ f.history = q.e.history /\ f.composition = q.e.composition
      /\ f.force = q.e.force /\ f.told = q.e.told
  BY <1>1 DEF Noted, Editors
<1>. HIDE DEF f
<1>3. r = Outcome(f, "applied")
  BY <1>1 DEF Outcomes, Outcome, f
<1>. HIDE DEF r
<1>4. Shows(e.force, f.snap, f.pending) /\ H!Good(f.history)
  BY <1>1, <1>2 DEF WellFormed, Done
<1>5. Composing(e) => Stacks(f) = Stacks(e)
  BY <1>2 DEF Done, Stacks
<1>6. f.force = e.force /\ f.told = e.told /\ f.composition = e.composition
  BY <1>2 DEF Done
<1>. QED
  BY <1>2, <1>3, <1>4, <1>5, <1>6, AppliedDone DEF r

LEMMA PutDone ==
    ASSUME NEW e, WellFormed(e), NEW where, NEW c \in Candidates, NEW r \in Put(e, where, c)
    PROVE  Done(e, r)
<1>. DEFINE x == [placed |-> TRUE,
                  apart |-> IF Placed(e) THEN e.composed.apart \/ where = "apart"
                            ELSE e.composed # None]
            d == [c EXCEPT !.pending = IF where = "code" THEN None ELSE e.pending]
<1>1. PICK q \in Attempt(e, e.history, d) :
         r = IF q.did # "applied" \/ where = "code" THEN q ELSE [q EXCEPT !.e.composed = x]
  BY Zenon DEF Put
<1>2. RecordedFrom(e, e.history)
  BY DEF RecordedFrom, WellFormed
<1>3. d \in EditStates
  BY Fields DEF Candidates, EditStates
<1>4. x \in Composed \cup {None}
  <2>1. CASE ~Placed(e)
    BY <2>1 DEF Composed
  <2>2. CASE Placed(e)
    <3>1. e.composed \in Composed
      BY <2>2, Fields DEF Placed
    <3>2. e.composed.apart \in BOOLEAN
      BY <3>1 DEF Composed
    <3>. QED
      BY <3>2 DEF Composed
  <2>. QED
    BY <2>1, <2>2
<1>. HIDE DEF d, x
<1>5. Done(e, q)
  BY <1>2, <1>3, AttemptDone
<1>6. CASE q.did # "applied" \/ where = "code"
  BY <1>1, <1>5, <1>6
<1>7. CASE ~(q.did # "applied" \/ where = "code")
  <2>1. r = [q EXCEPT !.e = Noted(q.e, x)]
    BY <1>1, <1>7, Zenon DEF Noted
  <2>. QED
    BY <1>4, <1>5, <1>7, <2>1, NotedDone
<1>. QED
  BY <1>6, <1>7

LEMMA ComposeDone ==
    ASSUME NEW e, WellFormed(e), NEW r \in Compose(e)
    PROVE  Done(e, r)
<1>. DEFINE places == {"apart", "code"} \cup IF Placed(e) THEN {"within"} ELSE {}
<1>1. r \in {Outcome(e, "refused"), Outcome(e, "threw")}
            \cup {Outcome(Rejected(e, why), "refused") : why \in Reasons}
            \cup UNION {Put(e, where, c) : where \in places, c \in Candidates}
  BY DEF Compose, NotKept, Thrown, Rejected
<1>. HIDE DEF places
<1>2. \/ r = Outcome(e, "refused") \/ r = Outcome(e, "threw")
      \/ \E why \in Reasons : r = Outcome(Rejected(e, why), "refused")
      \/ \E where \in places, c \in Candidates : r \in Put(e, where, c)
  BY <1>1
<1>3. Reasons \subseteq Rejections
  BY DEF Rejections
<1>. QED
  BY <1>2, <1>3, StopDone, PutDone

LEMMA DoDone ==
    ASSUME NEW e, WellFormed(e), NEW command \in Commands,
           Composing(e) => command \notin {"undo", "redo"}, NEW r \in Do(e, command)
    PROVE  Done(e, r)
<1>1. CASE command = "insert" /\ Composing(e) /\ e.snap.live
  <2>1. Do(e, command) = Compose(e)
    BY <1>1 DEF Do
  <2>. QED
    BY <2>1, ComposeDone
<1>2. CASE command \in {"insert", "edit"} /\ ~(command = "insert" /\ Composing(e) /\ e.snap.live)
  <2>1. Do(e, command) = Edit(e, command = "insert")
    BY <1>2, Zenon DEF Do
  <2>2. (command = "insert") \in BOOLEAN
    OBVIOUS
  <2>. QED
    BY <2>1, <2>2, EditDone
<1>3. CASE command = "style"
  <2>1. Do(e, command) = SetStyle(e)
    BY <1>3 DEF Do
  <2>. QED
    BY <2>1, StyleDone
<1>4. CASE command = "select"
  <2>1. Do(e, command) = {Select(e, sel) : sel \in Selections}
    BY <1>4, Zenon DEF Do
  <2>. QED
    BY <2>1, SelectDone
<1>5. CASE command = "place"
  <2>1. Do(e, command) = {Place(e, sel) : sel \in Selections}
    BY <1>5, Zenon DEF Do
  <2>. QED
    BY <2>1, PlaceDone
<1>6. CASE command = "undo"
  <2>1. Do(e, command) = Undo(e)
    BY <1>6 DEF Do
  <2>. QED
    BY <1>6, <2>1, UndoRedoDone
<1>7. CASE command = "redo"
  <2>1. Do(e, command) = Redo(e)
    BY <1>7 DEF Do
  <2>. QED
    BY <1>7, <2>1, UndoRedoDone
<1>. QED
  BY <1>1, <1>2, <1>3, <1>4, <1>5, <1>6, <1>7 DEF Commands

\* What a command does to the editor: as before, and it is published exactly
\* when it is applied.
Performed(e, r) ==
    /\ r \in Outcomes
    /\ WellFormed(r.e)
    /\ r.e.force = e.force /\ r.e.composition = e.composition
    /\ r.did = "applied" => r.e.told = e.told + 1
    /\ r.did # "applied" => Same(e, r.e) /\ r.e.told = e.told
    /\ Composing(e) => Stacks(r.e) = Stacks(e)

\* Fields that no one but the call in progress reads.
Like(e, f) ==
    /\ f \in Editors
    /\ f.snap = e.snap /\ f.pending = e.pending /\ f.history = e.history
    /\ f.composition = e.composition /\ f.composed = e.composed /\ f.force = e.force

LEMMA LikeKeeps ==
    ASSUME NEW e, WellFormed(e), NEW f, Like(e, f)
    PROVE  WellFormed(f) /\ Same(e, f) /\ Stacks(f) = Stacks(e)
<1>1. WellFormed(f)
  BY Built DEF Like, WellFormed
<1>. QED
  BY <1>1 DEF Like, Same, Stacks

LEMMA PublishedLike ==
    ASSUME NEW e, WellFormed(e)
    PROVE  /\ Like(e, Published(e)) /\ Published(e).told = e.told + 1
           /\ Like(e, Enter(e)) /\ Enter(e).told = 0
<1>1. e \in Editors /\ e.told + 1 \in Nat /\ None \in Rejections
  BY Fields DEF Rejections
<1>2. Published(e) \in Editors /\ Enter(e) \in Editors
  BY <1>1 DEF Published, Enter, Editors
<1>3. Like(e, Published(e)) /\ Published(e).told = e.told + 1
  BY <1>1, <1>2 DEF Like, Published, Editors
<1>4. Like(e, Enter(e)) /\ Enter(e).told = 0
  BY <1>1, <1>2 DEF Like, Enter, Editors
<1>. QED
  BY <1>3, <1>4

\* An outcome with its editor replaced.
LEMMA ReplacedOutcome ==
    ASSUME NEW r \in Outcomes, NEW f
    PROVE  [r EXCEPT !.e = f] = Outcome(f, r.did)
  BY DEF Outcomes, Outcome

LEMMA SettledPerformed ==
    ASSUME NEW e, WellFormed(e), NEW q, Done(e, q), NEW command, NEW r \in Settled(q, command)
    PROVE  Performed(e, r)
<1>1. q \in Outcomes /\ WellFormed(q.e)
  BY DEF Done
<1>2. q.did \in {"applied", "refused", "threw"} /\ q.e \in Editors
  BY <1>1 DEF Outcomes
<1>3. CASE q.did = "applied"
  <2>1. r = [q EXCEPT !.e = Published(q.e)]
    BY <1>3, Zenon DEF Settled
  <2>2. r = Outcome(Published(q.e), "applied")
    BY <1>1, <1>3, <2>1, ReplacedOutcome
  <2>3. Like(q.e, Published(q.e)) /\ Published(q.e).told = q.e.told + 1
    BY <1>1, PublishedLike
  <2>4. WellFormed(Published(q.e)) /\ Stacks(Published(q.e)) = Stacks(q.e)
    BY <1>1, <2>3, LikeKeeps
  <2>. QED
    BY <2>2, <2>3, <2>4, OutcomeOf DEF Done, Performed, Like
<1>4. CASE q.did # "applied" /\ r = q
  BY <1>4 DEF Done, Performed
<1>5. CASE q.did # "applied" /\ r # q
  <2>1. \E why \in {None, "unsupportedEdit"} : r = [q EXCEPT !.e.rejection = why]
    BY <1>5, Zenon DEF Settled
  <2>2. PICK why \in {None, "unsupportedEdit"} : r = [q EXCEPT !.e.rejection = why]
    BY <2>1
  <2>3. r = [q EXCEPT !.e = Rejected(q.e, why)]
    BY <2>2, Zenon DEF Rejected
  <2>4. r = Outcome(Rejected(q.e, why), q.did)
    BY <1>1, <2>3, ReplacedOutcome
  <2>5. Like(q.e, Rejected(q.e, why)) /\ Rejected(q.e, why).told = q.e.told
    BY <1>2 DEF Like, Rejected, Editors, Rejections
  <2>6. WellFormed(Rejected(q.e, why)) /\ Stacks(Rejected(q.e, why)) = Stacks(q.e)
    BY <1>1, <2>5, LikeKeeps
  <2>7. Same(e, Rejected(q.e, why))
    BY <1>5, <2>5, <2>6 DEF Done, Same, Like
  <2>. QED
    BY <1>2, <1>5, <2>4, <2>5, <2>6, <2>7, OutcomeOf DEF Done, Performed, Like
<1>. QED
  BY <1>3, <1>4, <1>5

LEMMA PerformPerformed ==
    ASSUME NEW e, WellFormed(e), NEW command \in Commands,
           Composing(e) => command \notin {"undo", "redo"}, NEW r \in Perform(e, command)
    PROVE  Performed(e, r)
<1>1. PICK q \in Do(e, command) : r \in Settled(q, command)
  BY Zenon DEF Perform
<1>. QED
  BY <1>1, DoDone, SettledPerformed

-----------------------------------------------------------------------------
(* The end of a composition.                                               *)

\* Typing the composed text anew leaves the history to _endComposition.
Retyped(e, r) == Done(e, r) /\ r.e.history = e.history

\* An editor with another snapshot and pending style.
LEMMA ShownAnew ==
    ASSUME NEW e, WellFormed(e), NEW next, NEW p, Shows(e.force, next, p), NEW f \in Editors,
           f.snap = next, f.pending = p, f.history = e.history, f.force = e.force,
           f.told = e.told, f.composition = e.composition, f.composed = e.composed
    PROVE  /\ Retyped(e, Outcome(f, "applied"))
           /\ next = e.snap /\ p = e.pending => Retyped(e, Outcome(f, "refused"))
<1>1. H!Good(f.history) /\ Stacks(f) = Stacks(e)
  BY DEF WellFormed, Stacks
<1>2. Done(e, Outcome(f, "applied")) /\ WellFormed(f)
  BY <1>1, AppliedDone, Built
<1>3. next = e.snap /\ p = e.pending => Same(e, f)
  BY <1>1 DEF Same
<1>. QED
  BY <1>1, <1>2, <1>3, OutcomeOf DEF Retyped, Done

LEMMA TypedRetyped ==
    ASSUME NEW e, WellFormed(e), e.snap.live, NEW c \in Candidates,
           Refusal(e, c.source) = None, NEW r \in Typed(e, c)
    PROVE  Retyped(e, r)
<1>. DEFINE next == Snapshot(e.force, c.source, c.selection)
            f == [e EXCEPT !.snap = next, !.pending = c.pending]
            g == [e EXCEPT !.pending = c.pending]
<1>1. /\ c.source \in Sources /\ c.selection \in Selections /\ c.pending \in {None, Style}
      /\ c.pending = None \/ Reads[c.source] = "live"
  BY DEF Candidates, EditStates
<1>2. Reads[c.source] \in Shown /\ ~e.force /\ e \in Editors
  BY <1>1, RefusalOf, Fields
<1>3. /\ next \in Snaps /\ next.source = c.source
      /\ next.live = (Reads[c.source] = "live")
      /\ Shows(e.force, next, IF next.live THEN c.pending ELSE None)
  BY <1>1, <1>2, Fields, SnapshotOf, OpenShows
<1>4. Shows(e.force, next, c.pending)
  <2>1. (IF next.live THEN c.pending ELSE None) = c.pending
    BY <1>1, <1>3
  <2>. QED
    BY <1>3, <2>1
<1>. HIDE DEF next
<1>5. CASE next.source # e.snap.source
  <2>1. r = Outcome(f, "applied")
    BY <1>5, Zenon DEF Typed, next
  <2>2. /\ f \in Editors /\ f.snap = next /\ f.pending = c.pending /\ f.history = e.history
        /\ f.force = e.force /\ f.told = e.told /\ f.composition = e.composition
        /\ f.composed = e.composed
    BY <1>1, <1>2, <1>3 DEF Editors
  <2>. HIDE DEF f
  <2>. QED
    BY <1>4, <2>1, <2>2, ShownAnew
<1>6. CASE next.source = e.snap.source
  <2>1. \/ r = Outcome(g, "applied")
        \/ r = Outcome(g, "refused") /\ c.pending = e.pending
    BY <1>6, Zenon DEF Typed, next
  <2>2. /\ g \in Editors /\ g.snap = e.snap /\ g.pending = c.pending /\ g.history = e.history
        /\ g.force = e.force /\ g.told = e.told /\ g.composition = e.composition
        /\ g.composed = e.composed
    BY <1>1, <1>2 DEF Editors
  <2>. HIDE DEF g
  <2>3. Shows(e.force, e.snap, c.pending)
    BY <1>1 DEF WellFormed, Shows
  <2>. QED
    BY <2>1, <2>2, <2>3, ShownAnew
<1>. QED
  BY <1>5, <1>6

LEMMA WithdrawnRetyped ==
    ASSUME NEW e, WellFormed(e), Composing(e), NEW why \in Reasons
    PROVE  Retyped(e, Withdrawn(e, why))
<1>. DEFINE before == e.composition
            next == Snapshot(e.force, before.source, before.selection)
            f == [e EXCEPT !.snap = next, !.pending = before.pending, !.rejection = why]
<1>1. Withdrawn(e, why) = Outcome(f, "applied")
  BY Zenon DEF Withdrawn
<1>2. Shows(e.force, next, before.pending)
  BY DEF WellFormed, Resumable
<1>3. next \in Snaps /\ before.pending \in {None, Style} /\ why \in Rejections /\ e \in Editors
  BY <1>2, Fields DEF Shows, Rejections
<1>. HIDE DEF next, before
<1>4. /\ f \in Editors /\ f.snap = next /\ f.pending = before.pending /\ f.history = e.history
      /\ f.force = e.force /\ f.told = e.told /\ f.composition = e.composition
      /\ f.composed = e.composed
  BY <1>3 DEF Editors
<1>. HIDE DEF f
<1>. QED
  BY <1>1, <1>2, <1>4, ShownAnew

LEMMA RetypeRetyped ==
    ASSUME NEW e, WellFormed(e), Composing(e), NEW r \in Retype(e)
    PROVE  Retyped(e, r)
<1>1. \/ r = Outcome(e, "refused") \/ r = Outcome(e, "threw")
      \/ e.snap.live /\ \E c \in Candidates : Refusal(e, c.source) = None /\ r \in Typed(e, c)
      \/ \E why \in Reasons : r = Withdrawn(e, why)
  <2>. DEFINE stop == \/ ~e.snap.live \/ e.snap.source = e.composition.source
                      \/ Placed(e) /\ e.composed.apart
              typed == {c \in Candidates : Refusal(e, c.source) = None}
              withdrawn == IF Placed(e) THEN {Withdrawn(e, why) : why \in Reasons} ELSE {}
              outcomes == {Outcome(e, "refused")} \cup
                          (IF Reads[e.composition.source] # "live" THEN {}
                           ELSE (UNION {Typed(e, c) : c \in typed}) \cup withdrawn)
  <2>1. CASE stop
    BY <2>1, Zenon DEF Retype
  <2>2. CASE ~stop
    <3>1. r \in Parsed(e, e.composition.source, outcomes)
      BY <2>2, Zenon DEF Retype
    <3>2. r \in outcomes \/ r = Outcome(e, "threw")
      BY <3>1, ParsedOf
    <3>3. r \in withdrawn => \E why \in Reasons : r = Withdrawn(e, why)
      BY Zenon
    <3>. DEFINE retyped == UNION {Typed(e, c) : c \in typed}
    <3>4. r \in retyped => \E c \in typed : r \in Typed(e, c)
      BY Zenon
    <3>5. outcomes = {Outcome(e, "refused")} \cup
                     (IF Reads[e.composition.source] # "live" THEN {} ELSE retyped \cup withdrawn)
      OBVIOUS
    <3>. HIDE DEF withdrawn, retyped
    <3>. HIDE DEF outcomes
    <3>6. r \in outcomes => r = Outcome(e, "refused") \/ r \in withdrawn \/ r \in retyped
      BY <3>5
    <3>. QED
      BY <2>2, <3>2, <3>3, <3>4, <3>6, Zenon
  <2>. QED
    BY <2>1, <2>2
<1>2. Retyped(e, Outcome(e, "refused")) /\ Retyped(e, Outcome(e, "threw"))
  BY StopDone, OutcomeOf DEF Retyped
<1>. QED
  BY <1>1, <1>2, TypedRetyped, WithdrawnRetyped

\* The end of e's composition is one undo step back to where it began, or
\* none where the source is as it was.
OneStep(e, f) ==
    IF f.snap.source = e.composition.source THEN Stacks(f) = Stacks(e)
    ELSE f.history.undo # <<>> => TargetOf(f.history.undo).state = e.composition

\* What _endComposition does to an editor that is composing.
Ends(e, r) ==
    /\ r \in Outcomes
    /\ WellFormed(r.e)
    /\ r.e.force = e.force /\ r.e.told = e.told
    /\ r.did = "threw" => Same(e, r.e)
    /\ r.did # "threw" => ~Composing(r.e) /\ OneStep(e, r.e)
    /\ r.did # "applied" => r.e.snap = e.snap /\ r.e.pending = e.pending

LEMMA EndedEnds ==
    ASSUME NEW e, WellFormed(e), Composing(e), NEW q, Retyped(e, q), q.did # "threw"
    PROVE  Ends(e, Outcome(Ended(e, q.e), q.did))
<1>. DEFINE f == q.e
            g == Ended(e, f)
            recorded == IF f.snap.source = e.composition.source THEN f.history
                        ELSE RecordState(f.history, e.composition, FALSE, 0)
            b == BreakCoalescing(recorded)
<1>1. /\ q \in Outcomes /\ WellFormed(f) /\ f \in Editors
      /\ f.force = e.force /\ f.told = e.told /\ f.history = e.history
      /\ q.did \in {"applied", "refused"}
  BY DEF Retyped, Done, WellFormed, Outcomes
<1>2. e.composition \in ShownStates /\ H!Good(e.history)
  BY Fields DEF WellFormed
<1>3. FALSE \in BOOLEAN
  OBVIOUS
<1>4. H!Good(recorded)
  BY <1>1, <1>2, <1>3, HistoryCalls
<1>5. g = [f EXCEPT !.composition = None, !.composed = None, !.history = b]
  BY Zenon DEF Ended
<1>. HIDE DEF f, g
<1>6. H!Good(b) /\ b.undo = recorded.undo /\ b.redo = recorded.redo
  <2>. HIDE DEF recorded
  <2>. QED
    BY <1>2, <1>3, <1>4, HistoryCalls
<1>7. b \in H!HistoryObject
  BY <1>6 DEF H!Good
<1>. HIDE DEF b
<1>8. g \in Editors
  BY <1>1, <1>5, <1>7 DEF Editors
<1>9. /\ g.snap = f.snap /\ g.pending = f.pending /\ g.force = e.force /\ g.told = e.told
      /\ g.composition = None /\ g.history = b
  BY <1>1, <1>5 DEF Editors
<1>10. Shows(f.force, f.snap, f.pending)
  BY <1>1 DEF WellFormed
<1>11. WellFormed(g) /\ ~Composing(g)
  BY <1>1, <1>6, <1>8, <1>9, <1>10, Built DEF Composing
<1>12. OneStep(e, g)
  <2>1. CASE f.snap.source = e.composition.source
    <3>1. recorded = e.history
      BY <1>1, <2>1
    <3>. QED
      BY <1>6, <1>9, <2>1, <3>1 DEF OneStep, Stacks
  <2>2. CASE f.snap.source # e.composition.source
    <3>1. recorded = RecordState(e.history, e.composition, FALSE, 0)
      BY <1>1, <2>2
    <3>. HIDE DEF recorded
    <3>2. recorded.undo # <<>> => TargetOf(recorded.undo).state = e.composition
      BY <1>2, <1>3, <3>1, HistoryCalls
    <3>. QED
      BY <1>6, <1>9, <2>2, <3>2 DEF OneStep
  <2>. QED
    BY <2>1, <2>2
<1>13. q.did # "applied" => g.snap = e.snap /\ g.pending = e.pending
  BY <1>9 DEF Retyped, Done, Same, f
<1>. QED
  BY <1>1, <1>8, <1>9, <1>11, <1>12, <1>13, OutcomeOf DEF Ends, f, g

LEMMA EndCompositionEnds ==
    ASSUME NEW e, WellFormed(e), Composing(e), NEW retype \in BOOLEAN,
           NEW r \in EndComposition(e, retype)
    PROVE  /\ Ends(e, r)
           /\ ~retype => r.did # "threw"
<1>1. PICK q \in IF retype THEN Retype(e) ELSE {Outcome(e, "refused")} :
         r = IF q.did = "threw" THEN q ELSE [q EXCEPT !.e = Ended(e, q.e)]
  BY Zenon DEF EndComposition
<1>2. Retyped(e, Outcome(e, "refused"))
  BY StopDone, OutcomeOf DEF Retyped
<1>3. Retyped(e, q) /\ q \in Outcomes
  BY <1>1, <1>2, RetypeRetyped DEF Retyped, Done
<1>4. CASE q.did = "threw"
  <2>1. r = q
    BY <1>1, <1>4
  <2>2. retype
    BY <1>1, <1>4, OutcomeOf
  <2>. QED
    BY <1>3, <1>4, <2>1, <2>2 DEF Retyped, Done, Ends, Same
<1>5. CASE q.did # "threw"
  <2>1. r = Outcome(Ended(e, q.e), q.did)
    BY <1>1, <1>3, <1>5, ReplacedOutcome
  <2>. QED
    BY <1>3, <1>5, <2>1, EndedEnds, OutcomeOf
<1>. QED
  BY <1>4, <1>5

\* What _commitComposition does: it also tells the listeners, if what they
\* show has changed.
Commits(e, r) ==
    /\ r \in Outcomes
    /\ WellFormed(r.e)
    /\ r.e.force = e.force /\ r.e.told \in {e.told, e.told + 1}
    /\ r.e.told = e.told => r.e.snap = e.snap /\ r.e.pending = e.pending
    /\ r.did = "threw" => Same(e, r.e) /\ r.e.told = e.told
    /\ r.did # "threw" => /\ ~Composing(r.e)
                          /\ Composing(e) => OneStep(e, r.e)
    /\ ~Composing(e) => r = Outcome(e, "refused")

LEMMA CommitCommits ==
    ASSUME NEW e, WellFormed(e), NEW r \in CommitComposition(e)
    PROVE  Commits(e, r)
<1>0. e \in Editors /\ e.told \in Nat
  BY Fields
<1>1. CASE ~Composing(e)
  <2>1. r = Outcome(e, "refused")
    BY <1>1 DEF CommitComposition
  <2>. QED
    BY <1>0, <1>1, <2>1, OutcomeOf DEF Commits
<1>2. CASE Composing(e)
  <2>1. PICK q \in EndComposition(e, TRUE) :
           r = IF q.did = "applied" THEN [q EXCEPT !.e = Published(q.e)] ELSE q
    BY <1>2, Zenon DEF CommitComposition
  <2>2. Ends(e, q) /\ q \in Outcomes /\ WellFormed(q.e)
    BY <1>2, EndCompositionEnds DEF Ends
  <2>3. CASE q.did = "applied"
    <3>. DEFINE f == Published(q.e)
    <3>1. r = Outcome(f, "applied")
      BY <2>1, <2>2, <2>3, ReplacedOutcome
    <3>2. Like(q.e, f) /\ f.told = e.told + 1
      BY <2>2, PublishedLike DEF Ends
    <3>. HIDE DEF f
    <3>3. WellFormed(f) /\ Stacks(f) = Stacks(q.e)
      BY <2>2, <3>2, LikeKeeps
    <3>4. ~Composing(f) /\ OneStep(e, f)
      BY <2>2, <2>3, <3>2, <3>3 DEF Ends, Like, Composing, OneStep
    <3>5. f.told # e.told /\ f.force = e.force /\ f \in Editors
      BY <1>0, <2>2, <3>2 DEF Ends, Like
    <3>. QED
      BY <1>2, <3>1, <3>2, <3>3, <3>4, <3>5, OutcomeOf DEF Commits
  <2>4. CASE q.did # "applied"
    <3>1. r = q
      BY <2>1, <2>4
    <3>. QED
      BY <1>2, <2>2, <2>4, <3>1 DEF Ends, Commits
  <2>. QED
    BY <2>3, <2>4
<1>. QED
  BY <1>1, <1>2

-----------------------------------------------------------------------------
(* The calls.                                                              *)

\* The editor at the start of a call.
LEMMA EnterKeeps ==
    ASSUME NEW e, WellFormed(e)
    PROVE  /\ WellFormed(Enter(e)) /\ Like(e, Enter(e)) /\ Enter(e).told = 0
           /\ Composing(Enter(e)) <=> Composing(e)
<1>1. Like(e, Enter(e)) /\ Enter(e).told = 0
  BY PublishedLike
<1>2. Composing(Enter(e)) <=> Composing(e)
  BY <1>1 DEF Like, Composing
<1>. QED
  BY <1>1, <1>2, LikeKeeps

LEMMA SameThrough ==
    ASSUME NEW e, NEW f, Like(e, f), NEW g, Same(f, g)
    PROVE  Same(e, g)
  BY DEF Like, Same, Stacks

\* What a call that ends no composition promises its caller.
Answered(e, r) ==
    /\ r \in Outcomes
    /\ WellFormed(r.e)
    /\ Quiet(r) => Same(e, r.e)

\* A performed command answers the call.
LEMMA PerformedAnswers ==
    ASSUME NEW e, WellFormed(e), NEW r, Performed(Enter(e), r)
    PROVE  /\ Answered(e, r)
           /\ Composing(e) => Stacks(r.e) = Stacks(e)
           /\ r.e.told = 0 => Same(e, r.e)
<1>1. WellFormed(Enter(e)) /\ Like(e, Enter(e)) /\ Enter(e).told = 0
  BY EnterKeeps
<1>2. r.did # "applied" => Same(e, r.e)
  BY <1>1, SameThrough DEF Performed
<1>3. r.did = "applied" => r.e.told = 1
  BY <1>1 DEF Performed
<1>4. Composing(e) => Stacks(r.e) = Stacks(e)
  BY <1>1, EnterKeeps DEF Performed, Like, Stacks
<1>. QED
  BY <1>2, <1>3, <1>4 DEF Answered, Quiet, Performed

LEMMA ApplyAnswers ==
    ASSUME NEW e, WellFormed(e), NEW command \in Commands, NEW r \in Apply(e, command)
    PROVE  /\ r \in Outcomes /\ WellFormed(r.e)
           /\ ~Composing(e) \/ command # "undo" => Answered(e, r)
           /\ Composing(e) /\ Composing(r.e) => Stacks(r.e) = Stacks(e)
           /\ command = "undo" /\ r.e.told = 0 => r.e.snap = e.snap /\ r.e.pending = e.pending
<1>. DEFINE entered == Enter(e)
<1>1. /\ WellFormed(entered) /\ Like(e, entered) /\ entered.told = 0
      /\ Composing(entered) <=> Composing(e)
  BY EnterKeeps
<1>2. CASE Composing(e) /\ command = "redo"
  <2>1. r = Outcome(Inert(entered), "refused")
    BY <1>2 DEF Apply, Inert
  <2>2. Done(entered, r)
    BY <1>1, <2>1, StopDone
  <2>3. Same(e, r.e)
    BY <1>1, <2>1, <2>2, OutcomeOf, SameThrough DEF Done
  <2>. QED
    BY <1>2, <2>2, <2>3 DEF Done, Answered, Same
<1>3. CASE ~(Composing(e) /\ command = "redo") /\ command # "undo"
  <2>1. PICK q \in {Outcome(entered, "refused")} :
           r \in IF q.did = "threw" THEN {q} ELSE Perform(q.e, command)
    BY <1>3, Zenon DEF Apply
  <2>2. r \in Perform(entered, command)
    BY <2>1, OutcomeOf
  <2>3. Performed(entered, r)
    BY <1>1, <1>3, <2>2, PerformPerformed
  <2>. QED
    BY <1>3, <2>3, PerformedAnswers DEF Performed
<1>4. CASE command = "undo"
  <2>1. PICK q \in CommitComposition(entered) :
           r \in IF q.did = "threw" THEN {q} ELSE Perform(q.e, command)
    BY <1>4, Zenon DEF Apply
  <2>2. Commits(entered, q)
    BY <1>1, <2>1, CommitCommits
  <2>3. CASE q.did = "threw"
    <3>1. r = q /\ Same(entered, r.e)
      BY <2>1, <2>2, <2>3 DEF Commits
    <3>2. Same(e, r.e)
      BY <1>1, <3>1, SameThrough
    <3>. QED
      BY <2>2, <3>1, <3>2 DEF Commits, Answered, Same
  <2>4. CASE q.did # "threw"
    <3>1. WellFormed(q.e) /\ ~Composing(q.e) /\ q.e.told \in {0, 1}
      BY <1>1, <2>2, <2>4 DEF Commits
    <3>2. Performed(q.e, r)
      BY <1>4, <2>1, <2>4, <3>1, PerformPerformed
    <3>3. ~Composing(r.e) /\ r \in Outcomes /\ WellFormed(r.e)
      BY <3>1, <3>2 DEF Performed, Composing
    <3>4. CASE ~Composing(e)
      <4>1. q.e = entered
        BY <1>1, <2>2, <3>4, OutcomeOf DEF Commits
      <4>. QED
        BY <3>2, <3>3, <3>4, <4>1, PerformedAnswers DEF Same
    <3>5. CASE Composing(e) /\ r.e.told = 0
      <4>1. Same(q.e, r.e) /\ q.e.told = 0
        BY <3>1, <3>2, <3>5 DEF Performed
      <4>2. q.e.snap = entered.snap /\ q.e.pending = entered.pending
        BY <1>1, <2>2, <4>1 DEF Commits
      <4>3. r.e.snap = e.snap /\ r.e.pending = e.pending
        BY <1>1, <4>1, <4>2 DEF Same, Like
      <4>. QED
        BY <1>4, <3>3, <3>5, <4>3
    <3>6. CASE Composing(e) /\ r.e.told # 0
      BY <1>4, <3>3, <3>6
    <3>. QED
      BY <3>4, <3>5, <3>6
  <2>. QED
    BY <2>3, <2>4
<1>. QED
  BY <1>2, <1>3, <1>4

LEMMA ApplyAfterAnswers ==
    ASSUME NEW e, WellFormed(e), Composing(e), NEW command \in Commands,
           NEW r \in ApplyAfterComposition(e, command)
    PROVE  Answered(e, r)
<1>. DEFINE entered == Enter(e)
<1>1. /\ WellFormed(entered) /\ Like(e, entered) /\ entered.told = 0 /\ Composing(entered)
      /\ e \in Editors
  BY EnterKeeps, Fields
<1>2. PICK p \in EndComposition(entered, TRUE) :
         r \in IF p.did = "threw" THEN {p}
               ELSE {IF q.did = "applied"
                     THEN [q EXCEPT !.e.rejection = IF @ = None THEN p.e.rejection ELSE @]
                     ELSE PutBack(e, q) : q \in Perform(Enter(p.e), command)}
  BY Zenon DEF ApplyAfterComposition
<1>3. Ends(entered, p)
  BY <1>1, EndCompositionEnds
<1>4. CASE p.did = "threw"
  <2>1. r = p /\ Same(entered, p.e)
    BY <1>2, <1>3, <1>4 DEF Ends
  <2>. QED
    BY <1>1, <1>3, <2>1, SameThrough DEF Answered, Ends
<1>5. CASE p.did # "threw"
  <2>1. PICK q \in Perform(Enter(p.e), command) :
           r = IF q.did = "applied"
               THEN [q EXCEPT !.e.rejection = IF @ = None THEN p.e.rejection ELSE @]
               ELSE PutBack(e, q)
    BY <1>2, <1>5, Zenon
  <2>2. /\ WellFormed(p.e) /\ ~Composing(p.e) /\ WellFormed(Enter(p.e))
        /\ ~Composing(Enter(p.e)) /\ Enter(p.e).told = 0
    BY <1>3, <1>5, EnterKeeps DEF Ends
  <2>3. Performed(Enter(p.e), q)
    BY <2>2, PerformPerformed
  <2>4. q \in Outcomes /\ WellFormed(q.e) /\ q.e \in Editors /\ p.e.rejection \in Rejections
        /\ q.did \in {"applied", "refused", "threw"}
    BY <2>2, <2>3, Fields DEF Performed, Outcomes
  <2>5. CASE q.did = "applied"
    <3>. DEFINE why == IF q.e.rejection = None THEN p.e.rejection ELSE q.e.rejection
                f == Rejected(q.e, why)
    <3>1. r = [q EXCEPT !.e = f]
      BY <2>1, <2>5, Zenon DEF Rejected
    <3>2. r = Outcome(f, "applied")
      BY <2>4, <2>5, <3>1, ReplacedOutcome
    <3>3. why \in Rejections
      BY <2>4, Fields
    <3>. HIDE DEF why
    <3>4. Like(q.e, f) /\ f.told = q.e.told
      BY <2>4, <3>3 DEF Like, Rejected, Editors
    <3>. HIDE DEF f
    <3>5. WellFormed(f) /\ f \in Editors
      BY <2>4, <3>4, LikeKeeps DEF Like
    <3>6. f.told = 1
      BY <2>2, <2>3, <2>5, <3>4 DEF Performed
    <3>. QED
      BY <3>2, <3>5, <3>6, OutcomeOf DEF Answered, Quiet
  <2>6. CASE q.did # "applied"
    <3>. DEFINE f == [e EXCEPT !.rejection = q.e.rejection, !.inert = q.e.inert,
                               !.told = q.e.told]
    <3>1. r = [q EXCEPT !.e = f]
      BY <2>1, <2>6, Zenon DEF PutBack
    <3>2. r = Outcome(f, q.did)
      BY <2>4, <3>1, ReplacedOutcome
    <3>3. q.e.rejection \in Rejections /\ q.e.inert \in BOOLEAN /\ q.e.told \in Nat
      BY <2>4, Fields
    <3>4. Like(e, f)
      BY <1>1, <3>3 DEF Like, Editors
    <3>. HIDE DEF f
    <3>5. WellFormed(f) /\ Same(e, f) /\ f \in Editors
      BY <3>4, LikeKeeps DEF Like
    <3>. QED
      BY <2>4, <3>2, <3>5, OutcomeOf DEF Answered
  <2>. QED
    BY <2>5, <2>6
<1>. QED
  BY <1>4, <1>5

\* A change that is published is no quiet answer.
LEMMA PublishedAnswers ==
    ASSUME NEW e, NEW f, WellFormed(f), f.told = 0
    PROVE  /\ Answered(e, Outcome(Published(f), "applied"))
           /\ Composing(Published(f)) <=> Composing(f)
<1>. DEFINE g == Published(f)
<1>1. Like(f, g) /\ g.told = 1
  BY PublishedLike
<1>. HIDE DEF g
<1>2. WellFormed(g) /\ g \in Editors
  BY <1>1, LikeKeeps DEF Like
<1>3. Answered(e, Outcome(g, "applied"))
  BY <1>1, <1>2, OutcomeOf DEF Answered, Quiet
<1>4. Composing(g) <=> Composing(f)
  BY <1>1 DEF Like, Composing
<1>. QED
  BY <1>3, <1>4 DEF g

\* A refusal, or a throw, before anything is changed.
LEMMA StopAnswers ==
    ASSUME NEW e, WellFormed(e)
    PROVE  /\ Answered(e, Outcome(Enter(e), "refused")) /\ Answered(e, Outcome(Enter(e), "threw"))
           /\ \A why \in Rejections : Answered(e, Outcome(Rejected(Enter(e), why), "refused"))
<1>1. WellFormed(Enter(e)) /\ Like(e, Enter(e))
  BY EnterKeeps
<1>2. ASSUME NEW r, Done(Enter(e), r), r.did # "applied"
      PROVE  Answered(e, r)
  BY <1>1, <1>2, SameThrough DEF Done, Answered
<1>. QED
  BY <1>1, <1>2, StopDone, OutcomeOf

LEMMA SpliceAnswers ==
    ASSUME NEW e, WellFormed(e), NEW s \in Sources, NEW sel \in Selections,
           NEW r \in Splice(e, s, sel)
    PROVE  /\ Answered(e, r)
           /\ Composing(e) /\ Composing(r.e) => Stacks(r.e) = Stacks(e)
<1>. DEFINE entered == Enter(e)
            q == Select(entered, sel)
            G(f) == [f EXCEPT !.snap = Snapshot(e.force, s, sel), !.pending = None,
                              !.history = RecordState(f.history, EditState(f), FALSE, 0)]
            ends == IF Composing(e) THEN {p.e : p \in EndComposition(entered, FALSE)}
                    ELSE {entered}
            outcomes == {Outcome(Published(G(f)), "applied") : f \in ends}
<1>1. /\ WellFormed(entered) /\ Like(e, entered) /\ entered.told = 0
      /\ Composing(entered) <=> Composing(e)
  BY EnterKeeps
<1>2. CASE s = e.snap.source
  <2>1. r = IF q.did = "applied" THEN [q EXCEPT !.e = Published(q.e)] ELSE q
    BY <1>2, Zenon DEF Splice
  <2>2. Done(entered, q)
    BY <1>1, SelectDone
  <2>. HIDE DEF q, entered
  <2>3. CASE q.did = "applied"
    <3>1. r = Outcome(Published(q.e), "applied")
      BY <2>1, <2>2, <2>3, ReplacedOutcome DEF Done
    <3>2. WellFormed(q.e) /\ q.e.told = 0
      BY <1>1, <2>2 DEF Done
    <3>3. Like(q.e, Published(q.e)) /\ Stacks(Published(q.e)) = Stacks(q.e)
      BY <3>2, PublishedLike, LikeKeeps
    <3>4. Composing(e) => Stacks(r.e) = Stacks(e)
      BY <1>1, <2>2, <3>1, <3>3, OutcomeOf DEF Done, Like, Stacks
    <3>. QED
      BY <3>1, <3>2, <3>4, PublishedAnswers
  <2>4. CASE q.did # "applied"
    <3>1. r = q /\ Same(e, r.e)
      BY <1>1, <2>1, <2>2, <2>4, SameThrough DEF Done
    <3>. QED
      BY <2>2, <3>1 DEF Done, Answered, Same
  <2>. QED
    BY <2>3, <2>4
<1>3. CASE s # e.snap.source /\ Refusal(e, s) # None
  <2>1. r = Outcome(Rejected(entered, Refusal(e, s)), "refused")
    BY <1>3, Zenon DEF Splice, Rejected
  <2>2. Refusal(e, s) \in Rejections
    BY RefusalOf DEF Rejections
  <2>3. Answered(e, r) /\ r.did # "applied"
    BY <2>1, <2>2, StopAnswers, OutcomeOf
  <2>. QED
    BY <2>3 DEF Answered, Quiet, Same
<1>4. CASE s # e.snap.source /\ Refusal(e, s) = None
  <2>1. r \in Parsed(entered, s, outcomes)
    BY <1>4, Zenon DEF Splice
  <2>2. CASE r = Outcome(entered, "threw")
    <3>1. Answered(e, r) /\ r.did # "applied"
      BY <2>2, StopAnswers, OutcomeOf
    <3>. QED
      BY <3>1 DEF Answered, Quiet, Same
  <2>3. CASE r \in outcomes
    <3>1. PICK f \in ends : r = Outcome(Published(G(f)), "applied")
      BY <2>3, Zenon
    <3>2. WellFormed(f) /\ f.force = e.force /\ f.told = 0 /\ ~Composing(f)
      <4>1. CASE ~Composing(e)
        BY <1>1, <3>1, <4>1 DEF Like
      <4>2. CASE Composing(e)
        <5>1. PICK p \in EndComposition(entered, FALSE) : f = p.e
          BY <3>1, <4>2, Zenon
        <5>. HIDE DEF entered
        <5>2. Ends(entered, p) /\ p.did # "threw"
          BY <1>1, <4>2, <5>1, EndCompositionEnds
        <5>. QED
          BY <1>1, <5>1, <5>2 DEF Ends, Like
      <4>. QED
        BY <4>1, <4>2
    <3>. DEFINE g == G(f)
                next == Snapshot(e.force, s, sel)
                recorded == RecordState(f.history, EditState(f), FALSE, 0)
    <3>3. Reads[s] \in Shown /\ None \in {None, Style} /\ FALSE \in BOOLEAN
      BY <1>4, RefusalOf
    <3>4. next \in Snaps /\ Shows(e.force, next, IF next.live THEN None ELSE None)
      BY <3>3, Fields, OpenShows
    <3>5. H!Good(recorded) /\ recorded \in H!HistoryObject
      BY <3>2, <3>3, StateOf, HistoryCalls DEF WellFormed, H!Good
    <3>6. f \in Editors
      BY <3>2, Fields
    <3>7. g = [f EXCEPT !.snap = next, !.pending = None, !.history = recorded]
      OBVIOUS
    <3>8. r = Outcome(Published(g), "applied")
      BY <3>1
    <3>. HIDE DEF g, next, recorded
    <3>9. /\ g \in Editors /\ g.snap = next /\ g.pending = None /\ g.history = recorded
          /\ g.force = f.force /\ g.told = f.told /\ g.composition = f.composition
      BY <3>4, <3>5, <3>6, <3>7 DEF Editors
    <3>10. WellFormed(g)
      BY <3>2, <3>4, <3>5, <3>9, Built
    <3>11. ~Composing(g) /\ g.told = 0
      BY <3>2, <3>9 DEF Composing
    <3>. QED
      BY <3>8, <3>10, <3>11, PublishedAnswers, OutcomeOf
  <2>. HIDE DEF outcomes, entered
  <2>. QED
    BY <2>1, <2>2, <2>3, ParsedOf
<1>. QED
  BY <1>2, <1>3, <1>4

LEMMA ReplaceAnswers ==
    ASSUME NEW e, WellFormed(e), NEW r \in ReplaceSourceRange(e)
    PROVE  /\ Answered(e, r)
           /\ Composing(e) /\ Composing(r.e) => Stacks(r.e) = Stacks(e)
<1>1. \/ r = Outcome(Rejected(Enter(e), "invalidSource"), "refused")
      \/ \E s \in Sources, sel \in Selections : r \in Splice(e, s, sel)
  BY DEF ReplaceSourceRange, Rejected
<1>2. CASE r = Outcome(Rejected(Enter(e), "invalidSource"), "refused")
  <2>1. "invalidSource" \in Rejections
    BY DEF Rejections, Refusals
  <2>2. Answered(e, r) /\ r.did # "applied"
    BY <1>2, <2>1, StopAnswers, OutcomeOf
  <2>. QED
    BY <2>2 DEF Answered, Quiet, Same
<1>. QED
  BY <1>1, <1>2, SpliceAnswers

LEMMA LoadAnswers ==
    ASSUME NEW e, WellFormed(e), NEW r \in LoadMarkdown(e)
    PROVE  Answered(e, r)
<1>. DEFINE entered == Enter(e)
            cleared == Clear(entered.history)
            Fresh(s) == Snapshot(e.force, s, Start)
            F(s) == [entered EXCEPT !.snap = Fresh(s), !.pending = None,
                                    !.composition = None, !.composed = None,
                                    !.history = cleared]
<1>1. PICK s \in Sources : r \in Load(e, s)
  BY Zenon DEF LoadMarkdown
<1>2. WellFormed(entered) /\ entered \in Editors /\ entered.told = 0 /\ entered.force = e.force
  BY EnterKeeps DEF Like
<1>3. CASE Refusal(e, s) # None
  <2>1. r = Outcome(Rejected(entered, Refusal(e, s)), "refused")
    BY <1>1, <1>3, Zenon DEF Load, Rejected
  <2>2. Refusal(e, s) \in Rejections
    BY RefusalOf DEF Rejections
  <2>. QED
    BY <2>1, <2>2, StopAnswers
<1>4. CASE Refusal(e, s) = None
  <2>. DEFINE next == Fresh(s)
              f == F(s)
  <2>1. r \in Parsed(entered, s, {Outcome(Published(f), "applied")})
    BY <1>1, <1>4, Zenon DEF Load
  <2>2. Reads[s] \in Shown /\ None \in {None, Style} /\ Start \in Selections
    BY <1>4, RefusalOf, SelectionsAssumption
  <2>3. next \in Snaps /\ Shows(e.force, next, IF next.live THEN None ELSE None)
    BY <2>2, Fields, OpenShows
  <2>4. H!Good(cleared) /\ cleared \in H!HistoryObject
    BY <1>2, StateOf, HistoryCalls DEF WellFormed, H!Good
  <2>. HIDE DEF next, cleared, entered
  <2>5. f = [entered EXCEPT !.snap = next, !.pending = None, !.composition = None,
                            !.composed = None, !.history = cleared]
    BY DEF next
  <2>. HIDE DEF f
  <2>6. /\ f \in Editors /\ f.snap = next /\ f.pending = None /\ f.history = cleared
        /\ f.force = entered.force /\ f.told = entered.told /\ f.composition = None
    BY <1>2, <2>3, <2>4, <2>5 DEF Editors
  <2>7. WellFormed(f) /\ f.told = 0
    BY <1>2, <2>3, <2>4, <2>6, Built
  <2>8. r = Outcome(Published(f), "applied") \/ r = Outcome(entered, "threw")
    BY <2>1, ParsedOf
  <2>. QED
    BY <2>7, <2>8, PublishedAnswers, StopAnswers DEF entered
<1>. QED
  BY <1>3, <1>4

LEMMA BeginKeeps ==
    ASSUME NEW e, WellFormed(e), NEW r \in BeginComposition(e)
    PROVE  WellFormed(r.e)
<1>. DEFINE entered == Enter(e)
            s == EditState(e)
            f == [entered EXCEPT !.composition = s, !.composed = None]
<1>1. WellFormed(entered) /\ entered \in Editors /\ Like(e, entered)
  BY EnterKeeps DEF Like
<1>2. CASE Composing(e)
  <2>1. r = Outcome(entered, "refused")
    BY <1>2 DEF BeginComposition
  <2>. QED
    BY <1>1, <2>1, OutcomeOf
<1>3. CASE ~Composing(e)
  <2>1. r = Outcome(f, "applied")
    BY <1>3 DEF BeginComposition
  <2>2. s \in ShownStates /\ Resumable(e.force, s) /\ s \in EditStates
    BY StateOf DEF ShownStates
  <2>. HIDE DEF s, entered
  <2>3. /\ f \in Editors /\ f.snap = entered.snap /\ f.pending = entered.pending
        /\ f.history = entered.history /\ f.force = entered.force /\ f.composition = s
    BY <1>1, <2>2 DEF Editors
  <2>. HIDE DEF f
  <2>4. WellFormed(f)
    BY <1>1, <2>2, <2>3 DEF WellFormed, Like
  <2>. QED
    BY <2>1, <2>4, OutcomeOf
<1>. QED
  BY <1>2, <1>3

LEMMA CancelAnswers ==
    ASSUME NEW e, WellFormed(e), NEW r \in CancelComposition(e)
    PROVE  /\ Answered(e, r)
           /\ Composing(e) /\ r.did = "applied" =>
                 EditState(r.e) = e.composition /\ Stacks(r.e) = Stacks(e)
<1>. DEFINE entered == Enter(e)
            before == e.composition
            next == Snapshot(e.force, before.source, before.selection)
            f == [entered EXCEPT !.snap = next, !.pending = before.pending,
                                 !.composition = None, !.composed = None]
<1>1. WellFormed(entered) /\ entered \in Editors /\ Like(e, entered) /\ entered.told = 0
  BY EnterKeeps DEF Like
<1>2. CASE ~Composing(e)
  <2>1. r = Outcome(entered, "refused")
    BY <1>2 DEF CancelComposition
  <2>. QED
    BY <1>2, <2>1, StopAnswers
<1>3. CASE Composing(e)
  <2>1. r \in Parsed(entered, before.source, {Outcome(Published(f), "applied")})
    BY <1>3, Zenon DEF CancelComposition
  <2>2. /\ before \in EditStates /\ next.selection = before.selection
        /\ Shows(e.force, next, before.pending)
    BY <1>3 DEF WellFormed, Resumable, ShownStates
  <2>3. /\ before = [source |-> before.source, selection |-> before.selection,
                     pending |-> before.pending]
        /\ before.source \in Sources /\ before.selection \in Selections
    BY <2>2 DEF EditStates
  <2>4. next.source = before.source
    BY <2>3, Fields, SnapshotOf
  <2>5. next \in Snaps /\ before.pending \in {None, Style}
    BY <2>2 DEF Shows
  <2>. HIDE DEF next, before, entered
  <2>6. /\ f \in Editors /\ f.snap = next /\ f.pending = before.pending
        /\ f.history = entered.history /\ f.force = entered.force
        /\ f.told = entered.told /\ f.composition = None
    BY <1>1, <2>5 DEF Editors
  <2>. HIDE DEF f
  <2>7. WellFormed(f) /\ f.told = 0
    <3>1. Shows(entered.force, f.snap, f.pending) /\ H!Good(f.history)
      BY <1>1, <2>2, <2>6 DEF Like, WellFormed
    <3>. QED
      BY <1>1, <2>6, <3>1, Built
  <2>8. EditState(f) = before /\ Stacks(f) = Stacks(e)
    BY <1>1, <2>2, <2>3, <2>4, <2>6 DEF EditState, Stacks, Like
  <2>9. EditState(Published(f)) = EditState(f) /\ Stacks(Published(f)) = Stacks(f)
    BY <2>7, PublishedLike DEF Like, EditState, Stacks
  <2>10. r = Outcome(Published(f), "applied") \/ r = Outcome(entered, "threw")
    BY <2>1, ParsedOf
  <2>11. CASE r = Outcome(Published(f), "applied")
    BY <2>7, <2>8, <2>9, <2>11, PublishedAnswers, OutcomeOf DEF before
  <2>12. CASE r = Outcome(entered, "threw")
    BY <2>12, StopAnswers, OutcomeOf DEF entered
  <2>. QED
    BY <2>10, <2>11, <2>12
<1>. QED
  BY <1>2, <1>3

\* What a call that commits an open composition promises: what its listeners
\* show changes only if they are told.
LEMMA CommittingCallKeeps ==
    ASSUME NEW e, WellFormed(e), NEW enabled \in BOOLEAN,
           NEW r \in CommitCall(e) \cup SetSourceMode(e, enabled)
    PROVE  /\ WellFormed(r.e)
           /\ r.e.told = 0 => r.e.snap = e.snap /\ r.e.pending = e.pending
<1>. DEFINE entered == Enter(e)
<1>1. WellFormed(entered) /\ Like(e, entered) /\ entered.told = 0
  BY EnterKeeps
<1>2. ASSUME NEW q, Commits(entered, q)
      PROVE  /\ WellFormed(q.e) /\ q.e.told \in {0, 1}
             /\ q.e.told = 0 => q.e.snap = e.snap /\ q.e.pending = e.pending
  BY <1>1, <1>2 DEF Commits, Like
<1>3. CASE r \in CommitCall(e)
  BY <1>1, <1>2, <1>3, CommitCommits DEF CommitCall
<1>4. CASE r \in SetSourceMode(e, enabled)
  <2>. DEFINE F(q) == [q.e EXCEPT !.force = enabled,
                                  !.snap = Snapshot(enabled, q.e.snap.source, q.e.snap.selection),
                                  !.pending = None, !.history = BreakCoalescing(q.e.history)]
  <2>1. PICK q \in CommitComposition(entered) :
           r \in IF q.did = "threw" THEN {q}
                 ELSE {Outcome(Published(F(q)), "applied")}
                      \cup IF Parses(enabled, q.e.snap.source) THEN {Thrown(q.e)} ELSE {}
    BY <1>4, Zenon DEF SetSourceMode
  <2>2. Commits(entered, q)
    BY <1>1, <2>1, CommitCommits
  <2>3. CASE r = q \/ r = Outcome(q.e, "threw")
    BY <1>2, <2>2, <2>3, OutcomeOf
  <2>4. CASE q.did # "threw" /\ r = Outcome(Published(F(q)), "applied")
    <3>. DEFINE next == Snapshot(enabled, q.e.snap.source, q.e.snap.selection)
                b == BreakCoalescing(q.e.history)
                f == F(q)
    <3>1. /\ WellFormed(q.e) /\ q.e \in Editors /\ ~Composing(q.e)
          /\ q.e.snap.source \in Sources /\ q.e.snap.selection \in Selections
          /\ q.e.told \in Nat
      BY <2>2, <2>4, Fields DEF Commits
    <3>2. Reads[q.e.snap.source] \in Shown /\ None \in {None, Style}
      BY <3>1 DEF WellFormed, Shows
    <3>3. next \in Snaps /\ Shows(enabled, next, IF next.live THEN None ELSE None)
      BY <3>1, <3>2, OpenShows
    <3>4. H!Good(b) /\ b \in H!HistoryObject
      BY <3>1, StateOf, HistoryCalls DEF WellFormed, H!Good
    <3>5. f = [q.e EXCEPT !.force = enabled, !.snap = next, !.pending = None, !.history = b]
      OBVIOUS
    <3>. HIDE DEF f, next, b
    <3>6. /\ f \in Editors /\ f.snap = next /\ f.pending = None /\ f.history = b
          /\ f.force = enabled /\ f.told = q.e.told /\ f.composition = q.e.composition
      BY <3>1, <3>3, <3>4, <3>5 DEF Editors
    <3>7. WellFormed(f)
      BY <3>1, <3>3, <3>4, <3>6 DEF WellFormed, Composing
    <3>8. Like(f, Published(f)) /\ Published(f).told = q.e.told + 1
      BY <3>6, <3>7, PublishedLike
    <3>9. WellFormed(Published(f)) /\ Published(f).told # 0
      BY <3>1, <3>7, <3>8, LikeKeeps
    <3>10. r = Outcome(Published(f), "applied")
      BY <2>4 DEF f
    <3>. QED
      BY <3>9, <3>10, OutcomeOf
  <2>5. \/ r = q \/ r = Outcome(q.e, "threw")
        \/ q.did # "threw" /\ r = Outcome(Published(F(q)), "applied")
    BY <2>1, Zenon DEF Thrown
  <2>. QED
    BY <2>3, <2>4, <2>5
<1>. QED
  BY <1>3, <1>4

\* A composition that is committed can be undone to where it began.
LEMMA CommitThenUndo ==
    ASSUME NEW e, WellFormed(e), Composing(e), NEW r \in CommitCall(e), r.did # "threw"
    PROVE  IF r.e.snap.source = e.composition.source THEN Stacks(r.e) = Stacks(e)
           ELSE \A q \in Undo(r.e) : q.did = "applied" =>
                   q.e.snap = Snapshot(e.force, e.composition.source, e.composition.selection)
<1>1. WellFormed(Enter(e)) /\ Like(e, Enter(e)) /\ Composing(Enter(e))
  BY EnterKeeps
<1>2. Commits(Enter(e), r)
  BY <1>1, CommitCommits DEF CommitCall
<1>3. OneStep(e, r.e) /\ r.e.force = e.force /\ r.e \in Editors
  BY <1>1, <1>2, Fields DEF Commits, Like, OneStep, Stacks
<1>4. CASE r.e.snap.source = e.composition.source
  BY <1>3, <1>4 DEF OneStep
<1>5. CASE r.e.snap.source # e.composition.source
  <2>1. ASSUME NEW q \in Undo(r.e), q.did = "applied"
        PROVE  q.e.snap = Snapshot(e.force, e.composition.source, e.composition.selection)
    <3>. DEFINE stack == r.e.history.undo
                step == UndoState(r.e.history, EditState(r.e))
                t == TargetOf(stack).state
                next == Snapshot(r.e.force, t.source, t.selection)
                p == IF next.live THEN t.pending ELSE None
                f == [r.e EXCEPT !.snap = next, !.pending = p, !.history = step]
    <3>1. CASE stack = <<>>
      <4>1. q = Outcome(Inert(r.e), "refused")
        BY <2>1, <3>1 DEF Undo, Step, Inert
      <4>. QED
        BY <2>1, <4>1, OutcomeOf
    <3>2. CASE stack # <<>>
      <4>1. q \in Parsed(r.e, t.source, {Outcome(f, "applied")})
        BY <3>2, Zenon DEF Undo, Step
      <4>2. t = e.composition
        BY <1>3, <1>5, <3>2 DEF OneStep
      <4>3. next = Snapshot(e.force, e.composition.source, e.composition.selection)
        BY <1>3, <4>2
      <4>. HIDE DEF next, p, step, t
      <4>4. f.snap = next
        BY <1>3 DEF Editors
      <4>. HIDE DEF f
      <4>5. q = Outcome(f, "applied")
        BY <2>1, <4>1, ParsedOf, OutcomeOf
      <4>. QED
        BY <4>3, <4>4, <4>5, OutcomeOf
    <3>. QED
      BY <3>1, <3>2
  <2>. QED
    BY <1>5, <2>1
<1>. QED
  BY <1>4, <1>5

-----------------------------------------------------------------------------
(* The invariant holds of every reachable editor, and the theorems.        *)

LEMMA InitWellFormed ==
    ASSUME Init
    PROVE  IInv
<1>1. PICK s \in Sources :
         /\ Reads[s] \in Shown
         /\ ed = [snap |-> Snapshot(FALSE, s, Start), pending |-> None,
                  composition |-> None, composed |-> None,
                  history |-> EmptyHistory, force |-> FALSE,
                  rejection |-> None, inert |-> FALSE, told |-> 0]
  BY DEF Init
<1>. DEFINE next == Snapshot(FALSE, s, Start)
<1>2. FALSE \in BOOLEAN /\ Start \in Selections /\ None \in {None, Style} /\ None \in Rejections
  BY SelectionsAssumption DEF Rejections
<1>3. next \in Snaps /\ next.source = s /\ next = Snapshot(FALSE, next.source, next.selection)
      /\ Shows(FALSE, next, IF next.live THEN None ELSE None)
  BY <1>1, <1>2, OpenShows, SnapshotOf
<1>. HIDE DEF next
<1>4. ed = [snap |-> next, pending |-> None, composition |-> None, composed |-> None,
            history |-> EmptyHistory, force |-> FALSE,
            rejection |-> None, inert |-> FALSE, told |-> 0]
  BY <1>1 DEF next
<1>5. EditState(ed) \in ShownStates
  <2>1. EditState(ed) = [source |-> s, selection |-> next.selection, pending |-> None]
    BY <1>3, <1>4 DEF EditState
  <2>2. next.selection \in Selections
    BY <1>3 DEF Snaps
  <2>. QED
    BY <1>1, <1>2, <2>1, <2>2 DEF ShownStates, EditStates
<1>6. H!Good(EmptyHistory)
  <2>1. H!EmptyHistory = EmptyHistory
    BY DEF H!EmptyHistory, EmptyHistory
  <2>2. H!Init
    BY <1>4, <1>5, <2>1 DEF H!Init
  <2>3. H!IInv
    BY <2>2, H!InitGood, HistoryAssumptions
  <2>. QED
    BY <1>4, <2>3 DEF H!IInv
<1>7. EmptyHistory \in H!HistoryObject
  BY <1>6 DEF H!Good
<1>8. ed \in Editors
  BY <1>2, <1>3, <1>4, <1>7 DEF Editors
<1>. QED
  BY <1>3, <1>4, <1>6, <1>8 DEF IInv, WellFormed, Composing

LEMMA NextKeeps ==
    ASSUME IInv, [Next]_ed
    PROVE  IInv'
<1>1. WellFormed(ed)
  BY DEF IInv
<1>2. ASSUME NEW outcomes, Call(outcomes), \A r \in outcomes : WellFormed(r.e)
      PROVE  IInv'
  <2>1. PICK r \in outcomes : ed' = Enter(r.e)
    BY <1>2 DEF Call
  <2>. QED
    BY <1>2, <2>1, EnterKeeps DEF IInv
<1>3. ASSUME NEW command \in Commands, Call(Apply(ed, command))
      PROVE  IInv'
  BY <1>1, <1>2, <1>3, ApplyAnswers
<1>4. ASSUME NEW command \in Commands, Composing(ed), Call(ApplyAfterComposition(ed, command))
      PROVE  IInv'
  BY <1>1, <1>2, <1>4, ApplyAfterAnswers DEF Answered
<1>5. CASE Call(SelectAllRefused(ed)) \/ Call(StaleCall(ed))
  <2>1. ASSUME NEW r \in SelectAllRefused(ed) \cup StaleCall(ed)
        PROVE  WellFormed(r.e)
    <3>1. \E why \in {"unsupportedEdit", "staleRevision"} :
             r = Outcome(Rejected(Enter(ed), why), "refused")
      BY <2>1, Zenon DEF SelectAllRefused, StaleCall, Rejected
    <3>2. {"unsupportedEdit", "staleRevision"} \subseteq Rejections
      BY DEF Rejections
    <3>. QED
      BY <1>1, <3>1, <3>2, StopAnswers DEF Answered
  <2>. QED
    BY <1>2, <1>5, <2>1
<1>6. CASE Call(ReplaceSourceRange(ed))
  BY <1>1, <1>2, <1>6, ReplaceAnswers DEF Answered
<1>7. CASE Call(LoadMarkdown(ed))
  BY <1>1, <1>2, <1>7, LoadAnswers DEF Answered
<1>8. CASE Call(BeginComposition(ed))
  BY <1>1, <1>2, <1>8, BeginKeeps
<1>9. CASE Call(CommitCall(ed))
  <2>1. TRUE \in BOOLEAN
    OBVIOUS
  <2>. QED
    BY <1>1, <1>2, <1>9, <2>1, CommittingCallKeeps
<1>10. CASE Call(CancelComposition(ed))
  BY <1>1, <1>2, <1>10, CancelAnswers DEF Answered
<1>11. ASSUME NEW enabled \in BOOLEAN, Call(SetSourceMode(ed, enabled))
       PROVE  IInv'
  BY <1>1, <1>2, <1>11, CommittingCallKeeps
<1>12. CASE UNCHANGED ed
  BY <1>12 DEF IInv
<1>. QED
  BY <1>3, <1>4, <1>5, <1>6, <1>7, <1>8, <1>9, <1>10, <1>11, <1>12 DEF Next

LEMMA Inductive == Spec => []IInv
<1>1. Init => IInv
  BY InitWellFormed
<1>2. IInv /\ [Next]_ed => IInv'
  BY NextKeeps
<1>. QED
  BY <1>1, <1>2, PTL DEF Spec

\* Whatever calls are made and whichever parses throw, the editor shows what
\* opening its source in its mode would show, and holds no typing intent
\* where nothing is live.
THEOREM EditorSound == Spec => []EditorInv
<1>1. IInv => EditorInv
  <2>. SUFFICES ASSUME IInv PROVE EditorInv
    OBVIOUS
  <2>1. WellFormed(ed)
    BY DEF IInv
  <2>2. ed.history \in HistoryObject
    <3>1. ed.history \in H!HistoryObject
      BY <2>1 DEF WellFormed, H!Good
    <3>2. ShownStates \subseteq EditStates
      BY DEF ShownStates
    <3>3. H!Entry \subseteq Entry
      BY <3>2 DEF H!Entry, Entry
    <3>4. Seq(H!Entry) \subseteq Seq(Entry)
      BY <3>3
    <3>. QED
      BY <3>1, <3>4 DEF H!HistoryObject, HistoryObject
  <2>3. TypeOK
    BY <2>1, <2>2, Fields DEF TypeOK, Snaps
  <2>4. SnapshotIsOfItsSource /\ SourceHasNoPending
    BY <2>1 DEF WellFormed, Shows, SnapshotIsOfItsSource, SourceHasNoPending
  <2>. QED
    BY <2>3, <2>4 DEF EditorInv
<1>. QED
  BY <1>1, Inductive, PTL

\* The history inside the editor keeps all that HistoryProofs shows of one
\* on its own: the editor calls its methods only where they may be called
\* and with states it may show.
THEOREM EditorHistorySound == Spec => []H!HistoryInv
<1>1. IInv => H!HistoryInv
  <2>. SUFFICES ASSUME IInv PROVE H!HistoryInv
    OBVIOUS
  <2>1. WellFormed(ed) /\ H!Good(ed.history)
    BY DEF IInv, WellFormed
  <2>2. EditState(ed) \in ShownStates
    BY <2>1, StateOf
  <2>. QED
    BY <2>1, <2>2 DEF H!HistoryInv, H!TypeOK, H!UnitsExact, H!WithinCaps, H!GroupsOrdered,
                      H!OpenGroupIsNewest, H!Good
<1>. QED
  BY <1>1, Inductive, PTL

\* A call that is refused, throws half-way or tells no listener leaves the
\* snapshot, the typing intent, the composition and both stacks as they were.
THEOREM RefusalsLeaveAll == Spec => []RefusedLeavesAll
<1>1. IInv => RefusedLeavesAll
  <2>. SUFFICES ASSUME IInv PROVE RefusedLeavesAll
    OBVIOUS
  <2>1. WellFormed(ed)
    BY DEF IInv
  <2>2. ASSUME NEW r, Answered(ed, r), Quiet(r)
        PROVE  Leaves(r)
    BY <2>2 DEF Answered, Same, Leaves
  <2>3. ASSUME NEW command \in Commands, ~Composing(ed) \/ command # "undo",
               NEW r \in Apply(ed, command), Quiet(r)
        PROVE  Leaves(r)
    BY <2>1, <2>2, <2>3, ApplyAnswers
  <2>4. ASSUME NEW command \in Commands, Composing(ed),
               NEW r \in ApplyAfterComposition(ed, command), Quiet(r)
        PROVE  Leaves(r)
    BY <2>1, <2>2, <2>4, ApplyAfterAnswers
  <2>5. ASSUME NEW r \in ReplaceSourceRange(ed) \cup LoadMarkdown(ed) \cup CancelComposition(ed),
               Quiet(r)
        PROVE  Leaves(r)
    BY <2>1, <2>2, <2>5, ReplaceAnswers, LoadAnswers, CancelAnswers
  <2>. QED
    BY <2>3, <2>4, <2>5 DEF RefusedLeavesAll
<1>. QED
  BY <1>1, Inductive, PTL

\* Whatever becomes of a call that commits an open composition, it tells its
\* listeners when what they show has changed.
THEOREM ChangesArePublished == Spec => []PublishedExactly
<1>1. IInv => PublishedExactly
  <2>. SUFFICES ASSUME IInv, NEW r \in CommittingCalls, r.e.told = 0
                PROVE  r.e.snap = ed.snap /\ r.e.pending = ed.pending
    BY DEF PublishedExactly
  <2>1. WellFormed(ed)
    BY DEF IInv
  <2>2. "undo" \in Commands
    BY DEF Commands
  <2>3. CASE r \in Apply(ed, "undo")
    BY <2>1, <2>2, <2>3, ApplyAnswers
  <2>4. ASSUME NEW enabled \in BOOLEAN, r \in CommitCall(ed) \cup SetSourceMode(ed, enabled)
        PROVE  r.e.snap = ed.snap /\ r.e.pending = ed.pending
    BY <2>1, <2>4, CommittingCallKeeps
  <2>. QED
    BY <2>3, <2>4 DEF CommittingCalls
<1>. QED
  BY <1>1, Inductive, PTL

\* Cancelling a composition restores what it began with, and the stacks.
THEOREM CancellingRestores == Spec => []CancelRestores
<1>1. IInv => CancelRestores
  BY CancelAnswers DEF IInv, CancelRestores
<1>. QED
  BY <1>1, Inductive, PTL

\* However many preedits, edits, refusals and selections lie within it, a
\* committed composition is one undo step to where it began, or none.
THEOREM CompositionUndoesAtOnce == Spec => []CompositionIsOneStep
<1>1. IInv => CompositionIsOneStep
  <2>. SUFFICES ASSUME IInv, Composing(ed) PROVE CompositionIsOneStep
    BY DEF CompositionIsOneStep
  <2>1. WellFormed(ed)
    BY DEF IInv
  <2>2. ASSUME NEW command \in Commands, NEW r \in Apply(ed, command), Composing(r.e)
        PROVE  Stacks(r.e) = Stacks(ed)
    BY <2>1, <2>2, ApplyAnswers
  <2>3. ASSUME NEW r \in ReplaceSourceRange(ed), Composing(r.e)
        PROVE  Stacks(r.e) = Stacks(ed)
    BY <2>1, <2>3, ReplaceAnswers
  <2>4. ASSUME NEW r \in UNION {Apply(ed, c) : c \in Commands}
        PROVE  \E c \in Commands : r \in Apply(ed, c)
    BY <2>4, Zenon
  <2>. QED
    BY <2>1, <2>2, <2>3, <2>4, CommitThenUndo DEF CompositionIsOneStep
<1>. QED
  BY <1>1, Inductive, PTL

=============================================================================
