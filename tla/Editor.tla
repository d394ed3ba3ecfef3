------------------------------- MODULE Editor -------------------------------
(***************************************************************************)
(* The editing kernel: FlarkEditor in                                      *)
(* packages/flark/lib/src/kernel/editor.dart with its parts composition,   *)
(* table_editing, snapshot and admission.                                  *)
(*                                                                         *)
(* The editor is the record ed.  A call runs to its end before the next    *)
(* one starts, so a method is an operator that gives the set of outcomes   *)
(* it may have: the editor it leaves, and whether it applied, was refused  *)
(* or threw.  What an edit makes of the text is an arbitrary candidate,    *)
(* what the parser makes of a source is Reads, and any parse may throw.    *)
(*                                                                         *)
(* Three fields of ed belong to the call in progress: rejection and inert, *)
(* which _enter resets, and told, by how much the call raised revision.    *)
(* Not modelled: the column vertical movement aims for and the two stages  *)
(* of Select All, which decide where a selection lands and nothing else.   *)
(***************************************************************************)
EXTENDS Integers, Sequences, SequencesExt

CONSTANTS
    Sources,     \* Markdown texts
    Reads,       \* what admission and the parser make of each of them
    Length,      \* its code units
    Selections,  \* selections
    Start,       \* the caret at offset 0
    Cell,        \* the caret in a table cell the source does not write
    Reasons,     \* why typing a composed text may be refused
    Snap,        \* where a selection lands, in a live or a source snapshot
    MaxEntries, MaxSourceCodeUnits,   \* the caps of the history
    MaxGroup,    \* model bound: undo groups a behaviour may open
    None         \* null

\* A source the editor may hold is rendered live, or shown as source since
\* its text or its parse is past the live limits or reads with a deviation.
Shown == {"live", "long", "wide", "deviant"}

ASSUME SourcesAssumption ==
    /\ Reads \in [Sources -> Shown \cup {"invalid", "big"}]
    /\ Length \in [Sources -> Nat]
    /\ \E s \in Sources : Reads[s] \in Shown
ASSUME SelectionsAssumption ==
    /\ {Start, Cell} \subseteq Selections
    /\ Snap \in [BOOLEAN -> [Sources -> [Selections -> Selections]]]
    /\ \A live \in BOOLEAN, s \in Sources, sel \in Selections :
          /\ Snap[live][s][Snap[live][s][sel]] = Snap[live][s][sel]
          /\ ~live => Snap[live][s][sel] # Cell
ASSUME CapsAssumption == /\ MaxEntries \in Nat \ {0}
                         /\ MaxSourceCodeUnits \in Nat
ASSUME BoundAssumption == MaxGroup \in Nat

\* A pending style: what the next typed text will be wrapped in.
Style == "style"

EditStates == [source : Sources, selection : Selections, pending : {None, Style}]

\* What is known of the text composed so far.
Composed == [placed : BOOLEAN, apart : BOOLEAN]

\* Why a source may be refused.
Refusals == {"invalidSource", "sourceLimit", "extractionDeviation"}

\* null is no value of a nullable field.
ASSUME NoneAssumption ==
    /\ None \notin EditStates /\ None \notin Composed
    /\ None \notin Refusals \cup {Style} /\ None \notin {0}

\* History is told the code units of a source.  All calls of a behaviour
\* fall in one coalescing window; module History varies the clock.
INSTANCE HistoryOps WITH States <- EditStates,
                         Units <- [s \in EditStates |-> Length[s.source]],
                         Times <- {0},
                         CoalesceWindow <- 1

VARIABLE ed   \* the editor

-----------------------------------------------------------------------------
(* Snapshots and admission.                                                *)

\* _projectSnapshot when nothing is thrown.
Snapshot(force, s, sel) ==
    LET live == ~force /\ Reads[s] = "live"
    IN  [source |-> s, selection |-> Snap[live][s][sel], live |-> live]

\* Whether building it calls the parser, which may throw.
Parses(force, s) == ~force /\ Reads[s] \in {"live", "wide", "deviant"}

\* Why _admits or the parser refuses a source, or None.  A source that the
\* parser reads with a deviation is refused to a live editor only.
Refusal(e, s) ==
    CASE Reads[s] = "invalid" -> "invalidSource"
      [] Reads[s] = "big" -> "sourceLimit"
      [] Reads[s] = "deviant" /\ e.snap.live -> "extractionDeviation"
      [] OTHER -> None

Composing(e) == e.composition # None

EditState(e) ==
    [source |-> e.snap.source, selection |-> e.snap.selection, pending |-> e.pending]

Outcome(e, did) == [e |-> e, did |-> did]

\* The call throws: nothing after the throwing parse is done.
Thrown(e) == Outcome(e, "threw")

\* A parse of s, with what follows when it succeeds.
Parsed(e, s, outcomes) ==
    outcomes \cup IF Parses(e.force, s) THEN {Thrown(e)} ELSE {}

-----------------------------------------------------------------------------
(* Selecting and committing.                                               *)

\* _select and _selectSource.
Select(e, sel) ==
    LET to == Snap[e.snap.live][e.snap.source][sel]
    IN  IF to = e.snap.selection THEN Outcome(e, "refused")
        ELSE Outcome([e EXCEPT !.snap.selection = to, !.pending = None,
                               !.history = BreakCoalescing(@)], "applied")

\* Where an edit may lead: a candidate source with its selection and, where
\* it can be shown live, the style it leaves pending.
Candidates == {c \in EditStates : c.pending = None \/ Reads[c.source] = "live"}

\* The history an edit leaves; a composition records its own step.
Recorded(e, left, coalesce) ==
    IF Composing(e) THEN e.history ELSE RecordState(e.history, left, coalesce, 0)

\* The end of _attempt.  Any text composed so far is no longer where it was
\* put.
Commit(e, recorded, c) ==
    LET next == Snapshot(e.force, c.source, c.selection)
    IN  Outcome([e EXCEPT
            !.snap = next,
            !.pending = IF next.live THEN c.pending ELSE None,
            !.composed = IF @ = None THEN None ELSE [@ EXCEPT !.placed = FALSE],
            !.history = recorded], "applied")

\* A source is admitted, parsed and committed, or nothing is changed.
Admit(e, recorded, c) ==
    Parsed(e, c.source,
           {IF Refusal(e, c.source) # None
            THEN Outcome([e EXCEPT !.rejection = Refusal(e, c.source)], "refused")
            ELSE Commit(e, recorded, c)})

\* _attempt with the candidate that its check, if it has one, keeps: one
\* that leaves the source as it is only moves the selection.
Attempt(e, recorded, c) ==
    IF c.source # e.snap.source THEN Admit(e, recorded, c)
    ELSE LET r == Select(e, c.selection)
         IN  {IF r.did = "applied" THEN r ELSE [r EXCEPT !.e.inert = TRUE]}

\* No spelling of the edit is kept, or the command does not apply here.
NotKept(e) == Outcome(e, "refused")

\* An editing command: every way it may go.  In a table cell the source does
\* not write (_withMissingCell), the cell's delimiters are prepared privately
\* and the edit is recorded as from the state before them, which a refusal
\* or a throw puts back.
Edit(e, coalesce) ==
    LET recorded == Recorded(e, EditState(e), coalesce)
    IN  {NotKept(e)} \cup UNION {Attempt(e, recorded, c) : c \in Candidates}

\* SetStyle, where it is no edit and no selection: the pending style is
\* already as asked, or is flipped.
SetStyle(e) ==
    IF ~e.snap.live THEN {NotKept(e)}
    ELSE {Outcome([e EXCEPT !.inert = TRUE], "refused"),
          Outcome([e EXCEPT !.pending = IF @ = None THEN Style ELSE None,
                            !.history = BreakCoalescing(@)], "applied")}

\* _place: a press clears the pending style even where the caret already is.
Place(e, sel) ==
    IF ~e.snap.live THEN NotKept(e)
    ELSE LET r == Select(e, sel)
         IN  IF r.did = "applied" THEN r
             ELSE Outcome([e EXCEPT !.history = BreakCoalescing(@), !.pending = None],
                          IF e.pending = None THEN "refused" ELSE "applied")

\* _undo and _redo: the entry that history would give is parsed first, and
\* only then is it taken from the stack.
Step(e, stack, step) ==
    IF stack = <<>> THEN {Outcome([e EXCEPT !.inert = TRUE], "refused")}
    ELSE LET t == TargetOf(stack).state
             next == Snapshot(e.force, t.source, t.selection)
         IN  Parsed(e, t.source,
                {Outcome([e EXCEPT !.snap = next,
                                   !.pending = IF next.live THEN t.pending ELSE None,
                                   !.history = step], "applied")})

Undo(e) == Step(e, e.history.undo, UndoState(e.history, EditState(e)))

Redo(e) == Step(e, e.history.redo, RedoState(e.history, EditState(e)))

-----------------------------------------------------------------------------
(* Composition.                                                            *)

\* composed says whether the composed text is still in the source as it was
\* put there (placed) and whether text was composed in more than one place
\* (apart).
Placed(e) == e.composed # None /\ e.composed.placed

\* The input method's text replaces a range of the source: within the text
\* composed so far, apart from it, or in code, as literal code.
Put(e, where, c) ==
    {IF r.did # "applied" \/ where = "code" THEN r
     ELSE [r EXCEPT !.e.composed =
              [placed |-> TRUE,
               apart |-> IF Placed(e) THEN e.composed.apart \/ where = "apart"
                         ELSE e.composed # None]] :
     r \in Attempt(e, e.history,
                   [c EXCEPT !.pending = IF where = "code" THEN None ELSE e.pending])}

\* _compose.  Outside code, unless the text lies within what was composed so
\* far or takes the whole source, typing it is tried first and its refusal
\* refuses it; the trial leaves no trace.
Compose(e) ==
    {NotKept(e), Thrown(e)}
    \cup {Outcome([e EXCEPT !.rejection = why], "refused") : why \in Reasons}
    \cup UNION {Put(e, where, c) :
                   where \in {"apart", "code"} \cup IF Placed(e) THEN {"within"} ELSE {},
                   c \in Candidates}

\* _typeComposed: what typing the composed text may lead to.  Applied when
\* that changed the snapshot or the pending style.
Typed(e, c) ==
    LET next == Snapshot(e.force, c.source, c.selection)
    IN  IF next.source # e.snap.source
        THEN {Outcome([e EXCEPT !.snap = next, !.pending = c.pending], "applied")}
        ELSE {Outcome([e EXCEPT !.pending = c.pending], did) :
                 did \in IF c.pending # e.pending THEN {"applied"}
                         ELSE IF e.pending = None THEN {"refused"}
                         ELSE {"applied", "refused"}}

\* Refused by typing, text composed in one place is withdrawn.
Withdrawn(e, why) ==
    Outcome([e EXCEPT !.snap = Snapshot(e.force, e.composition.source, e.composition.selection),
                      !.pending = e.composition.pending,
                      !.rejection = why], "applied")

\* _retypeComposition: what was composed is typed anew, from the state the
\* composition began in, over the range it replaced.
Retype(e) ==
    LET before == e.composition
        Unchanged == {Outcome(e, "refused")}
        typed == {c \in Candidates : Refusal(e, c.source) = None}
    IN  IF ~e.snap.live \/ e.snap.source = before.source \/ (Placed(e) /\ e.composed.apart)
        THEN Unchanged
        ELSE Parsed(e, before.source,
                Unchanged \cup
                (IF Reads[before.source] # "live" THEN {}
                 ELSE (UNION {Typed(e, c) : c \in typed})
                      \cup IF Placed(e) THEN {Withdrawn(e, why) : why \in Reasons} ELSE {}))

\* fault: the step is recorded from the composed text
EndedFromComposed(e, f) ==
    [f EXCEPT !.composition = None, !.composed = None,
              !.history = BreakCoalescing(
                 IF f.snap.source = e.composition.source THEN @
                 ELSE RecordState(@, EditState(e), FALSE, 0))]

\* The composition of e is over, with f shown: one undo step from the state
\* it began in.
Ended(e, f) ==
    [f EXCEPT !.composition = None, !.composed = None,
              !.history = BreakCoalescing(
                 IF f.snap.source = e.composition.source THEN @
                 ELSE RecordState(@, e.composition, FALSE, 0))]

\* _endComposition.
EndComposition(e, retype) ==
    {IF r.did = "threw" THEN r ELSE [r EXCEPT !.e = Ended(e, @)] :
     r \in IF retype THEN Retype(e) ELSE {Outcome(e, "refused")}}

-----------------------------------------------------------------------------
(* The calls of the editing API.                                           *)

\* _enter: the editor between calls, or at the start of one.
Enter(e) == [e EXCEPT !.rejection = None, !.inert = FALSE, !.told = 0]

\* _notify.
Published(e) == [e EXCEPT !.told = @ + 1]

\* fault: the committed text is not published
CommitCompositionSilent(e) ==
    IF ~Composing(e) THEN {Outcome(e, "refused")} ELSE EndComposition(e, TRUE)

\* _commitComposition: published when it changed what is shown.
CommitComposition(e) ==
    IF ~Composing(e) THEN {Outcome(e, "refused")}
    ELSE {IF r.did = "applied" THEN [r EXCEPT !.e = Published(@)] ELSE r :
          r \in EndComposition(e, TRUE)}

Commands == {"insert", "edit", "style", "select", "place", "undo", "redo"}

\* _applyLive, _applySource and _compose, by kind of command: a
\* keystroke, any other edit, a style, a selection, a press.
Do(e, command) ==
    CASE command = "insert" /\ Composing(e) /\ e.snap.live -> Compose(e)
      [] command = "style"  -> SetStyle(e)
      [] command = "select" -> {Select(e, sel) : sel \in Selections}
      [] command = "place"  -> {Place(e, sel) : sel \in Selections}
      [] command = "undo"   -> Undo(e)
      [] command = "redo"   -> Redo(e)
      [] OTHER              -> Edit(e, command = "insert")

\* The end of _apply: an applied command is published, and a refused one
\* gets a reason, save a selection, an inert command or a line shift.
Settled(r, command) ==
    IF r.did = "applied" THEN {[r EXCEPT !.e = Published(@)]}
    ELSE IF r.did = "threw" \/ r.e.inert \/ r.e.rejection # None THEN {r}
    ELSE {[r EXCEPT !.e.rejection = why] :
             why \in CASE command \in {"select", "place"} -> {None}
                       [] command = "edit" -> {None, "unsupportedEdit"}
                       [] OTHER -> {"unsupportedEdit"}}

\* _apply after its first steps.
Perform(e, command) == UNION {Settled(r, command) : r \in Do(e, command)}

\* _apply: undo ends a composition first; redo does nothing during one.
Apply(e, command) ==
    LET entered == Enter(e)
    IN  IF Composing(e) /\ command = "redo"
        THEN {Outcome([entered EXCEPT !.inert = TRUE], "refused")}
        ELSE UNION {IF r.did = "threw" THEN {r} ELSE Perform(r.e, command) :
                    r \in IF command = "undo" THEN CommitComposition(entered)
                          ELSE {Outcome(entered, "refused")}}

\* fault: only the snapshot is put back
PutBackSnapshot(saved, r) ==
    [r EXCEPT !.e.snap = saved.snap, !.e.pending = saved.pending,
              !.e.composition = saved.composition, !.e.composed = saved.composed]

\* The editing state of `saved' put back under the outcome of a later call.
PutBack(saved, r) ==
    [r EXCEPT !.e = [saved EXCEPT !.rejection = r.e.rejection, !.inert = r.e.inert,
                                  !.told = r.e.told]]

\* applyAfterComposition during a composition, which ends only if the
\* command applies; without one it is apply.
ApplyAfterComposition(e, command) ==
    UNION {IF r.did = "threw" THEN {r}
           ELSE {IF q.did = "applied"
                 THEN [q EXCEPT !.e.rejection = IF @ = None THEN r.e.rejection ELSE @]
                 ELSE PutBack(e, q) : q \in Perform(Enter(r.e), command)} :
           r \in EndComposition(Enter(e), TRUE)}

\* selectAll of the caret's code block where there is none; any other is
\* applied after the composition, as a selection.
SelectAllRefused(e) == {Outcome([Enter(e) EXCEPT !.rejection = "unsupportedEdit"], "refused")}

\* A splice is admitted before anything changes; an open composition ends
\* as it stands.
Splice(e, s, sel) ==
    LET entered == Enter(e)
        r == Select(entered, sel)
        Spliced(f) == Published([f EXCEPT !.snap = Snapshot(e.force, s, sel),
                                          !.pending = None,
                                          !.history = RecordState(@, EditState(f), FALSE, 0)])
    IN  IF s = e.snap.source
        THEN {IF r.did = "applied" THEN [r EXCEPT !.e = Published(@)] ELSE r}
        ELSE IF Refusal(e, s) # None
        THEN {Outcome([entered EXCEPT !.rejection = Refusal(e, s)], "refused")}
        ELSE Parsed(entered, s,
               {Outcome(Spliced(f), "applied") :
                   f \in IF Composing(e) THEN {q.e : q \in EndComposition(entered, FALSE)}
                         ELSE {entered}})

\* replaceSourceRange, of a range that lies in the source or does not.
ReplaceSourceRange(e) ==
    {Outcome([Enter(e) EXCEPT !.rejection = "invalidSource"], "refused")}
    \cup UNION {Splice(e, s, sel) : s \in Sources, sel \in Selections}

\* loadMarkdown: a document of its own, without history.
Load(e, s) ==
    LET entered == Enter(e)
    IN  IF Refusal(e, s) # None
        THEN {Outcome([entered EXCEPT !.rejection = Refusal(e, s)], "refused")}
        ELSE Parsed(entered, s,
               {Outcome(Published([entered EXCEPT
                   !.snap = Snapshot(e.force, s, Start),
                   !.pending = None, !.composition = None, !.composed = None,
                   !.history = Clear(@)]), "applied")})

LoadMarkdown(e) == UNION {Load(e, s) : s \in Sources}

BeginComposition(e) ==
    {IF Composing(e) THEN Outcome(Enter(e), "refused")
     ELSE Outcome([Enter(e) EXCEPT !.composition = EditState(e), !.composed = None], "applied")}

CommitCall(e) == CommitComposition(Enter(e))

\* fault: the typing intent is dropped, as a selection drops it
CancelCompositionUnstyled(e) ==
    LET before == e.composition
    IN  IF ~Composing(e) THEN {Outcome(Enter(e), "refused")}
        ELSE Parsed(Enter(e), before.source,
               {Outcome(Published([Enter(e) EXCEPT
                   !.snap = Snapshot(e.force, before.source, before.selection),
                   !.pending = None,
                   !.composition = None, !.composed = None]), "applied")})

CancelComposition(e) ==
    LET before == e.composition
    IN  IF ~Composing(e) THEN {Outcome(Enter(e), "refused")}
        ELSE Parsed(Enter(e), before.source,
               {Outcome(Published([Enter(e) EXCEPT
                   !.snap = Snapshot(e.force, before.source, before.selection),
                   !.pending = before.pending,
                   !.composition = None, !.composed = None]), "applied")})

\* fault: the mode is set before the parse that may throw
SetSourceModeFirst(e, enabled) ==
    UNION {IF r.did = "threw" THEN {r}
           ELSE {Outcome(Published([r.e EXCEPT
                    !.force = enabled,
                    !.snap = Snapshot(enabled, r.e.snap.source, r.e.snap.selection),
                    !.pending = None,
                    !.history = BreakCoalescing(@)]), "applied")}
                \cup (IF Parses(enabled, r.e.snap.source)
                      THEN {Thrown([r.e EXCEPT !.force = enabled])} ELSE {}) :
           r \in CommitComposition(Enter(e))}

\* setSourceMode: the composition is committed first; a parse that throws
\* leaves the mode as it was.
SetSourceMode(e, enabled) ==
    UNION {IF r.did = "threw" THEN {r}
           ELSE {Outcome(Published([r.e EXCEPT
                    !.force = enabled,
                    !.snap = Snapshot(enabled, r.e.snap.source, r.e.snap.selection),
                    !.pending = None,
                    !.history = BreakCoalescing(@)]), "applied")}
                \cup IF Parses(enabled, r.e.snap.source) THEN {Thrown(r.e)} ELSE {} :
           r \in CommitComposition(Enter(e))}

\* A call made for a revision the editor has left.
StaleCall(e) == {Outcome([Enter(e) EXCEPT !.rejection = "staleRevision"], "refused")}

-----------------------------------------------------------------------------
(* The editor as a state machine: one call after the other.                *)

Init == \E s \in Sources :
           /\ Reads[s] \in Shown
           /\ ed = [snap |-> Snapshot(FALSE, s, Start), pending |-> None,
                    composition |-> None, composed |-> None,
                    history |-> EmptyHistory, force |-> FALSE,
                    rejection |-> None, inert |-> FALSE, told |-> 0]

Call(outcomes) == \E r \in outcomes : /\ r.e.history.group <= MaxGroup
                                      /\ ed' = Enter(r.e)

Next == \/ \E command \in Commands : \/ Call(Apply(ed, command))
                                     \/ Composing(ed) /\ Call(ApplyAfterComposition(ed, command))
        \/ Call(SelectAllRefused(ed))
        \/ Call(ReplaceSourceRange(ed))
        \/ Call(LoadMarkdown(ed))
        \/ Call(BeginComposition(ed))
        \/ Call(CommitCall(ed))
        \/ Call(CancelComposition(ed))
        \/ \E enabled \in BOOLEAN : Call(SetSourceMode(ed, enabled))
        \/ Call(StaleCall(ed))

Spec == Init /\ [][Next]_ed

-----------------------------------------------------------------------------
(* Properties.  Those about calls are invariants that quantify over the    *)
(* outcomes of every call the editor may get in the state it is in.        *)

TypeOK ==
    /\ ed.snap \in [source : Sources, selection : Selections, live : BOOLEAN]
    /\ ed.pending \in {None, Style}
    /\ ed.composition \in EditStates \cup {None}
    /\ ed.composed \in Composed \cup {None}
    /\ ed.history \in HistoryObject
    /\ ed.force \in BOOLEAN

\* The snapshot shown is the one that opening its source would give: no
\* unadmitted source, no privately prepared table cell and no snapshot of
\* the other mode is ever left behind by a call.
SnapshotIsOfItsSource ==
    /\ Reads[ed.snap.source] \in Shown
    /\ ed.snap = Snapshot(ed.force, ed.snap.source, ed.snap.selection)

\* There is no typing intent in source mode, whichever call led there:
\* an edit past the live tier, an undo, a cancelled composition, a load.
SourceHasNoPending == ~ed.snap.live => ed.pending = None

\* What every call leaves behind, whether it applies, is refused or throws.
EditorInv == TypeOK /\ SnapshotIsOfItsSource /\ SourceHasNoPending

Stacks(e) == <<e.history.undo, e.history.redo>>

\* Nothing of the editor is changed by an outcome of a call.
Leaves(r) == /\ r.e.snap = ed.snap
             /\ r.e.pending = ed.pending
             /\ r.e.composition = ed.composition
             /\ r.e.composed = ed.composed
             /\ Stacks(r.e) = Stacks(ed)

Quiet(r) == r.did # "applied" \/ r.e.told = 0

\* A call that is refused, that throws half-way or that tells no listener
\* leaves the source, the selection, the mode, the typing intent, the
\* composition and the undo and redo stacks as they were: a command that
\* comes after a composition takes nothing of it unless it applies.
RefusedLeavesAll ==
    /\ \A command \in Commands :
          /\ (~Composing(ed) \/ command # "undo") =>
                \A r \in Apply(ed, command) : Quiet(r) => Leaves(r)
          /\ Composing(ed) =>
                \A r \in ApplyAfterComposition(ed, command) : Quiet(r) => Leaves(r)
    /\ \A r \in ReplaceSourceRange(ed) \cup LoadMarkdown(ed) \cup CancelComposition(ed) :
          Quiet(r) => Leaves(r)

\* The calls that commit an open composition whatever becomes of the rest.
CommittingCalls == CommitCall(ed) \cup Apply(ed, "undo")
                   \cup SetSourceMode(ed, TRUE) \cup SetSourceMode(ed, FALSE)

\* A call that commits a composition may be refused or throw after that; it
\* tells its listeners whenever what they show has changed, all the same.
PublishedExactly ==
    \A r \in CommittingCalls :
       r.e.told = 0 => r.e.snap = ed.snap /\ r.e.pending = ed.pending

\* Cancelling brings back exactly the source, selection, mode and typing
\* intent that the composition began with, and the stacks.
CancelRestores ==
    Composing(ed) => \A r \in CancelComposition(ed) : r.did = "applied" =>
       /\ EditState(r.e) = ed.composition
       /\ Stacks(r.e) = Stacks(ed)

\* A committed composition is one undo step back to the state it began in,
\* or none when it leaves the source as it was; until then no preedit, no
\* other edit and no undo of it has touched either stack.
CompositionIsOneStep ==
    Composing(ed) =>
       /\ \A r \in ReplaceSourceRange(ed) \cup UNION {Apply(ed, c) : c \in Commands} :
             Composing(r.e) => Stacks(r.e) = Stacks(ed)
       /\ \A r \in CommitCall(ed) : r.did # "threw" =>
             IF r.e.snap.source = ed.composition.source
             THEN Stacks(r.e) = Stacks(ed)
             ELSE \A q \in Undo(r.e) : q.did = "applied" =>
                     q.e.snap = Snapshot(ed.force, ed.composition.source,
                                         ed.composition.selection)

=============================================================================
