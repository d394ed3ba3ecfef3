------------------------------ MODULE History ------------------------------
(***************************************************************************)
(* The undo history as a state machine: the methods of HistoryOps called   *)
(* by an owner.  `current' is the editing state the owner hands to each    *)
(* call and replaces by what the call returns.                             *)
(***************************************************************************)
EXTENDS HistoryOps

CONSTANT MaxGroup        \* model bound: groups a behaviour may open

ASSUME BoundAssumption == MaxGroup \in Nat

VARIABLES
    h,        \* the History object
    current,  \* the owner's editing state
    burst     \* ghost: time of the last call if that was a typed change

vars == <<h, current, burst>>

Init == /\ h = EmptyHistory
        /\ current \in States
        /\ burst = None

-----------------------------------------------------------------------------
(* One action per call of the class.                                       *)

\* The owner records the state it is about to leave for `next'.
Record(next, typing, at) ==
    /\ h' = RecordState(h, current, typing, at)
    /\ h'.group <= MaxGroup
    /\ current' = next
    /\ burst' = IF typing THEN at ELSE None

Undo == /\ h.undo # <<>>
        /\ h' = UndoState(h, current)
        /\ current' = TargetOf(h.undo).state
        /\ burst' = None

Redo == /\ h.redo # <<>>
        /\ h' = RedoState(h, current)
        /\ current' = TargetOf(h.redo).state
        /\ burst' = None

\* A selection change, a composition or a mode switch closes the open group.
Break == /\ h' = BreakCoalescing(h)
         /\ burst' = None
         /\ UNCHANGED current

\* Loading another document forgets the history of this one.
Load(next) == /\ h' = Clear(h)
              /\ current' = next
              /\ burst' = None

Next == \/ \E next \in States, typing \in BOOLEAN, at \in Times :
              Record(next, typing, at)
        \/ Undo
        \/ Redo
        \/ Break
        \/ \E next \in States : Load(next)

Spec == Init /\ [][Next]_vars

-----------------------------------------------------------------------------
(* Properties.                                                             *)

\* Every field of the object has its type; the code unit counter never goes
\* negative (_storedSourceCodeUnits is only added to and subtracted from).
TypeOK ==
    /\ h \in HistoryObject
    /\ current \in States
    /\ burst \in Times \cup {None}

\* The counter is the exact size of the sources on both stacks, however
\* entries were pushed, popped, cleared and trimmed.
Exact(x) == x.units = StoredUnits(x.undo) + StoredUnits(x.redo)

UnitsExact == Exact(h)

\* After every call both shared caps hold: _trim never gives up early and no
\* call forgets it.
WithinCaps == ~OverCap(h)

\* The undo stack, and the redo stack read from its newest entry, form one
\* line of strictly increasing groups, none beyond the open one.  So a group
\* is one entry, undoing a group and redoing it move the same entry, and the
\* entry undoTarget promises is the entry undoState returns.
Ordered(x) ==
    /\ \A i, j \in 1 .. Len(x.undo) : i < j => x.undo[i].group < x.undo[j].group
    /\ \A i, j \in 1 .. Len(x.redo) : i < j => x.redo[j].group < x.redo[i].group
    /\ \A i \in 1 .. Len(x.undo), j \in 1 .. Len(x.redo) :
          x.undo[i].group < x.redo[j].group
    /\ \A i \in 1 .. Len(x.undo) : x.undo[i].group <= x.group
    /\ \A i \in 1 .. Len(x.redo) : x.redo[i].group <= x.group

GroupsOrdered == Ordered(h)

\* A group left open for typing is the newest undo entry and nothing can be
\* redone: typing that joins it never orphans a redo state.
OpenIsNewest(x) ==
    x.lastWasTyping =>
        /\ x.undo # <<>>
        /\ Last(x.undo).group = x.group
        /\ x.redo = <<>>
        /\ x.lastTypingAt # None

OpenGroupIsNewest == OpenIsNewest(h)

\* What every call of the history keeps: exact accounting, caps, one line of
\* groups, and a group open for typing that is really there to be joined.
HistoryInv ==
    TypeOK /\ UnitsExact /\ WithinCaps /\ GroupsOrdered /\ OpenGroupIsNewest

\* Everything a user can reach from here: what undo goes back to, the
\* current state, what redo goes forward to.
StatesOf(stack) == [i \in 1 .. Len(stack) |-> stack[i].state]

Timeline(hist, now) ==
    StatesOf(hist.undo) \o <<now>> \o Reverse(StatesOf(hist.redo))

\* Undo and redo only walk along the timeline: they move one step in their
\* direction and keep a contiguous part of it around the new position.  No
\* state is invented, repeated or reordered, whatever _trim removes.
StepsAlong ==
    \A step \in {-1, 1} :
        (IF step = 1 THEN Redo ELSE Undo) =>
           LET before == Timeline(h, current)
               after  == Timeline(h', current')
               shift  == Len(h.undo) + step - Len(h'.undo)
           IN  after = SubSeq(before, shift + 1, shift + Len(after))

\* Every undoState and redoState steps along the timeline.
WalksTimeline == [][StepsAlong]_vars

\* Both states can be held at once.
Fit(x, y) == MaxEntries >= 2 /\ Units[x] + Units[y] <= MaxSourceCodeUnits

\* "Preserve the immediately reachable state on each side when possible": an
\* undo that leaves another undo possible keeps both neighbours when the two
\* fit the caps; a redo likewise.
KeepsBoth ==
    /\ (Undo /\ Len(h.undo) > 1 /\ Fit(h.undo[Len(h.undo) - 1].state, current))
          => h'.undo # <<>> /\ h'.redo # <<>>
    /\ (Redo /\ Len(h.redo) > 1 /\ Fit(h.redo[Len(h.redo) - 1].state, current))
          => h'.undo # <<>> /\ h'.redo # <<>>

\* No _trim takes a neighbour that could stay.
NeighboursKept == [][KeepsBoth]_vars

\* Typing joins the previous undo step exactly when the call before it was
\* typing too, not later than the window allows, and left a step to join.  In
\* particular typing after an undo, a redo or a paste is a step of its own.
JoinsBurst ==
    burst' # None =>
        (h'.group = h.group <=>
            /\ burst # None
            /\ burst' - burst \in 0 .. CoalesceWindow
            /\ h.undo # <<>>)

\* Every recordState made by typing decides so.
BurstsJoin == [][JoinsBurst]_vars

-----------------------------------------------------------------------------
(* The loop of _trim as the code writes it.                                *)

\* _removeOldest of either stack.
OldestUndoGone(x) == [x EXCEPT !.undo = Tail(@), !.units = @ - Units[x.undo[1].state]]
OldestRedoGone(x) == [x EXCEPT !.redo = Tail(@), !.units = @ - Units[x.redo[1].state]]

\* The condition of the loop fails, or the loop breaks.
Stops(x) == ~OverCap(x) \/ (x.undo = <<>> /\ x.redo = <<>>)

\* One turn: the branches in the order of the code.
OneRemoved(x) ==
    LET u == Len(x.undo)
        r == Len(x.redo)
    IN  IF u > 1 THEN OldestUndoGone(x)
        ELSE IF r > 1 THEN OldestRedoGone(x)
        ELSE IF u > 0 /\ (r = 0 \/ Units[x.undo[1].state] >= Units[x.redo[1].state])
             THEN OldestUndoGone(x)
             ELSE OldestRedoGone(x)

\* After as many turns as there are entries the loop has stopped.
TrimLoop(x) ==
    LET all == Len(x.undo) + Len(x.redo)
        after[k \in 0 .. all] ==
            IF k = 0 THEN x
            ELSE LET before == after[k - 1]
                 IN  IF Stops(before) THEN before ELSE OneRemoved(before)
    IN  after[all]

\* Trim computes what the loop of _trim computes on whatever a call can hand
\* it: a reachable history with one more entry on either stack.
TrimIsTheLoop ==
    \A s \in States :
        /\ Trim(AddUndo(h, s, h.group + 1)) = TrimLoop(AddUndo(h, s, h.group + 1))
        /\ Trim(AddRedo(h, s, h.group + 1)) = TrimLoop(AddRedo(h, s, h.group + 1))

=============================================================================
