----------------------------- MODULE HistoryOps -----------------------------
(***************************************************************************)
(* The undo history of the editing kernel:                                 *)
(* packages/flark/lib/src/kernel/history.dart.                             *)
(*                                                                         *)
(* A History object is the record h; every method of the class is an       *)
(* operator on that record, so that the Editor module can use the very     *)
(* same operators.  An editing state (source, selection and pending style) *)
(* is an element of States; of a state the class reads only how many code  *)
(* units its source has, Units[s].  Module History is the class as a       *)
(* state machine; Editor is the kernel that owns one.                      *)
(***************************************************************************)
EXTENDS Integers, Sequences, SequencesExt

CONSTANTS
    States,              \* the editing states a history may hold
    Units,               \* code units of a state's source
    MaxEntries,          \* cap on undo and redo entries together
    MaxSourceCodeUnits,  \* cap on the code units both stacks hold
    CoalesceWindow,      \* longest pause that still continues a group
    Times,               \* readings of the owner's clock, in any order
    None                 \* a null time stamp or entry

ASSUME StatesAssumption == \A s \in States : Units[s] \in Nat
ASSUME LimitsAssumption == /\ MaxEntries \in Nat \ {0}
                           /\ MaxSourceCodeUnits \in Nat
                           /\ CoalesceWindow \in Nat
ASSUME TimesAssumption == Times \subseteq Int /\ None \notin Times

Entry == [state : States, group : Nat]

HistoryObject ==
    [undo : Seq(Entry), redo : Seq(Entry), units : Nat, group : Nat,
     lastTypingAt : Times \cup {None}, lastWasTyping : BOOLEAN]

EmptyHistory ==
    [undo |-> <<>>, redo |-> <<>>, units |-> 0, group |-> 0,
     lastTypingAt |-> None, lastWasTyping |-> FALSE]

-----------------------------------------------------------------------------
(* The methods of the class.  A definition marked `fault' is a method with *)
(* a plausible mistake; it is not used here and serves to show that the    *)
(* properties of the modules above notice that mistake.                    *)

\* The code units held by a stack, each named by its entry and its offset,
\* and their number.
UnitPositions(stack) ==
    UNION {{i} \X (1 .. Units[stack[i].state]) : i \in 1 .. Len(stack)}

StoredUnits(stack) == Cardinality(UnitPositions(stack))

BreakCoalescing(h) == [h EXCEPT !.lastWasTyping = FALSE, !.lastTypingAt = None]

AddUndo(h, s, g) == [h EXCEPT !.undo = Append(@, [state |-> s, group |-> g]),
                              !.units = @ + Units[s]]

AddRedo(h, s, g) == [h EXCEPT !.redo = Append(@, [state |-> s, group |-> g]),
                              !.units = @ + Units[s]]

ClearRedo(h) == [h EXCEPT !.redo = <<>>, !.units = @ - StoredUnits(h.redo)]

Clear(h) ==
    BreakCoalescing([h EXCEPT !.undo = <<>>, !.redo = <<>>,
                              !.units = @ - StoredUnits(h.undo) - StoredUnits(h.redo)])

OverCap(h) == \/ Len(h.undo) + Len(h.redo) > MaxEntries
              \/ h.units > MaxSourceCodeUnits

\* fault: all of undo goes before any of redo
DroppedUndoFirst(h, k) ==
    LET u == Len(h.undo)
    IN  IF k <= u THEN [undo |-> k, redo |-> 0] ELSE [undo |-> u, redo |-> k - u]

\* How many of the oldest entries of each stack are gone after _trim has
\* removed k entries: undo down to its newest entry, then redo down to its
\* newest, then the larger of the two that remain, then the other.
Dropped(h, k) ==
    LET u == Len(h.undo)
        r == Len(h.redo)
        spareUndo == IF u > 0 THEN u - 1 ELSE 0
        spareRedo == IF r > 0 THEN r - 1 ELSE 0
    IN  IF k <= spareUndo THEN [undo |-> k, redo |-> 0]
        ELSE IF k <= spareUndo + spareRedo
             THEN [undo |-> spareUndo, redo |-> k - spareUndo]
        ELSE IF k >= u + r THEN [undo |-> u, redo |-> r]
        ELSE IF Units[h.undo[u].state] >= Units[h.redo[r].state]
             THEN [undo |-> u, redo |-> spareRedo]
             ELSE [undo |-> spareUndo, redo |-> r]

\* fault: redo loses its newest entries instead of its oldest
DropNewestRedo(h, k) ==
    LET d == Dropped(h, k)
    IN  [h EXCEPT !.undo = SubSeq(@, d.undo + 1, Len(@)),
                  !.redo = SubSeq(@, 1, Len(@) - d.redo),
                  !.units = @ - StoredUnits(SubSeq(h.undo, 1, d.undo))
                              - StoredUnits(SubSeq(h.redo, Len(h.redo) - d.redo + 1,
                                                   Len(h.redo)))]


DropOldest(h, k) ==
    LET d == Dropped(h, k)
    IN  [h EXCEPT !.undo = SubSeq(@, d.undo + 1, Len(@)),
                  !.redo = SubSeq(@, d.redo + 1, Len(@)),
                  !.units = @ - StoredUnits(SubSeq(h.undo, 1, d.undo))
                              - StoredUnits(SubSeq(h.redo, 1, d.redo))]

\* The loop of _trim: the fewest removals after which neither cap is
\* exceeded, or every entry.
Trim(h) ==
    LET all == Len(h.undo) + Len(h.redo)
        enough == {k \in 0 .. all : k = all \/ ~OverCap(DropOldest(h, k))}
    IN  DropOldest(h, Min(enough))

\* fault: any earlier change in the window is joined, typed or not
JoinsAnything(h, typing, at) ==
    /\ typing
    /\ h.undo # <<>>
    /\ Last(h.undo).group = h.group
    /\ h.lastTypingAt # None
    /\ at - h.lastTypingAt \in 0 .. CoalesceWindow

\* Whether a change made at `at' joins the group that is open.
Joins(h, typing, at) ==
    /\ typing
    /\ h.lastWasTyping
    /\ h.undo # <<>>
    /\ Last(h.undo).group = h.group
    /\ h.lastTypingAt # None
    /\ at - h.lastTypingAt \in 0 .. CoalesceWindow

OpenGroup(h, s) == AddUndo([h EXCEPT !.group = @ + 1], s, h.group + 1)

RecordState(h, s, typing, at) ==
    LET opened  == IF Joins(h, typing, at) THEN h ELSE OpenGroup(h, s)
        trimmed == Trim(ClearRedo(opened))
        stamped == [trimmed EXCEPT !.lastWasTyping = typing, !.lastTypingAt = at]
    IN  IF stamped.undo = <<>> \/ Last(stamped.undo).group # stamped.group
        THEN BreakCoalescing(stamped)
        ELSE stamped

\* Position of the oldest entry of the newest group of a nonempty stack.
TargetIndex(stack) ==
    Min({i \in 1 .. Len(stack) :
            \A j \in i .. Len(stack) : stack[j].group = Last(stack).group})

TargetOf(stack) == IF stack = <<>> THEN None ELSE stack[TargetIndex(stack)]

\* fault: the state undo leaves behind is not counted against the caps
UndoStateUntrimmed(h, s) ==
    LET i == TargetIndex(h.undo)
        popped == [BreakCoalescing(h) EXCEPT
                      !.undo = SubSeq(@, 1, i - 1),
                      !.units = @ - StoredUnits(SubSeq(h.undo, i, Len(h.undo)))]
    IN  AddRedo(popped, s, Last(h.undo).group)

\* Both are called on a history that has something to undo or redo.
UndoState(h, s) ==
    LET i == TargetIndex(h.undo)
        popped == [BreakCoalescing(h) EXCEPT
                      !.undo = SubSeq(@, 1, i - 1),
                      !.units = @ - StoredUnits(SubSeq(h.undo, i, Len(h.undo)))]
    IN  Trim(AddRedo(popped, s, Last(h.undo).group))

RedoState(h, s) ==
    LET popped == [BreakCoalescing(h) EXCEPT
                      !.redo = SubSeq(@, 1, Len(@) - 1),
                      !.units = @ - Units[Last(h.redo).state]]
    IN  Trim(AddUndo(popped, s, Last(h.redo).group))

=============================================================================
