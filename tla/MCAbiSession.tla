---------------------------- MODULE MCAbiSession -----------------------------
(* Instances of AbiSession for TLC: four sessions, each used in its own way. *)
EXTENDS AbiSession

\* Undo at the limit of a history that holds two tokens and a splice more.
HistoryUse ==
    [lanes |-> {"source", "small", "replay", "release", "anchor"},
     owners |-> {"a"}, ids |-> {1, 2, 3}, groups |-> {0, 1}, lossy |-> FALSE,
     open |-> 1, budget |-> 165, bytes |-> 2, revs |-> 5, pumps |-> 1]

\* Groups of up to three edits on a source of three bytes.
GroupUse ==
    [lanes |-> {"source", "replay", "anchor"},
     owners |-> {"a"}, ids |-> {1, 2, 3, 4}, groups |-> {0, 1}, lossy |-> FALSE,
     open |-> 3, budget |-> 500, bytes |-> 3, revs |-> 5, pumps |-> 1]

\* Answers are lost and requests sent again, over every lane that edits.
ReplyUse ==
    [lanes |-> {"source", "intent", "staged", "small", "bulk", "replay", "anchor"},
     owners |-> {"a"}, ids |-> {1, 2}, groups |-> {0}, lossy |-> TRUE,
     open |-> 1, budget |-> 200, bytes |-> 1, revs |-> 4, pumps |-> 1]

\* The registry's tables, with two owners, and a close at any time.
TableUse ==
    [lanes |-> {"small", "bulk", "replay", "release", "anchor", "drop", "query",
                "transfer", "pump", "close"},
     owners |-> {"a", "b"}, ids |-> {1}, groups |-> {0}, lossy |-> FALSE,
     open |-> 1, budget |-> 140, bytes |-> 2, revs |-> 3, pumps |-> 2]

AllUses == {HistoryUse, GroupUse, ReplyUse, TableUse}
LossyUses == {ReplyUse}
=============================================================================
