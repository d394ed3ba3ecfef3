---------------------------- MODULE AbiHistoryOps ----------------------------
(***************************************************************************)
(* What the calls of the V4 C ABI compute (crates/flark_abi): splices of   *)
(* the source, the positions of anchors after one, and the bounded undo    *)
(* history of a session, a doubly linked list of tokens with the bytes it  *)
(* retains.  Offsets count bytes from zero, a range is [start, end).       *)
(***************************************************************************)
EXTENDS Integers, Sequences, FiniteSets, FiniteSetsExt

CONSTANTS TokenOverhead,    \* HISTORY_TOKEN_OVERHEAD_BYTES (64 in the code)
          SpliceOverhead,   \* HISTORY_SPLICE_OVERHEAD_BYTES (32)
          IntentCapacity,   \* MAX_SMALL_EDIT_BYTES: what an edit intent reserves
          MaxSteps,         \* MAX_COMPOSITE_HISTORY_STEPS
          MaxReplay         \* MAX_COMPOSITE_HISTORY_MATERIALIZED_BYTES

ASSUME HistoryAssumption ==
    /\ {TokenOverhead, SpliceOverhead, IntentCapacity,
        MaxSteps, MaxReplay} \subseteq Nat
    /\ TokenOverhead > 0 /\ MaxSteps > 0

-----------------------------------------------------------------------------
(* The source and its anchors.                                             *)

Spliced(text, a, b, new) ==
    SubSeq(text, 1, a) \o new \o SubSeq(text, b + 1, Len(text))

Bytes(text, a, b) == SubSeq(text, a + 1, b)

\* Mutant: a position behind the edit is not moved by what was inserted.
MapOffsetBehind(off, affinity, a, deleted, inserted) ==
    CASE off < a -> off
      [] off > a /\ off >= a + deleted -> off - deleted
      [] OTHER -> IF affinity = "up" THEN a ELSE a + inserted

MapOffset(off, affinity, a, deleted, inserted) ==
    CASE off < a -> off
      [] off > a /\ off >= a + deleted -> off - deleted + inserted
      [] OTHER -> IF affinity = "up" THEN a ELSE a + inserted

-----------------------------------------------------------------------------
(* The list of tokens.  A token undoes the edits of its splices, the last  *)
(* one first: it applies to history state .applies and leads to .target.   *)

\* The budget is the session's history_budget_bytes.
NoHistory(budget) ==
    [tokens |-> <<>>, head |-> 0, tail |-> 0, used |-> 0, count |-> 0,
     evicted |-> {}, budget |-> budget]

Cost(text) == TokenOverhead + Len(text)

Fits(h, bytes) == h.used + bytes <= h.budget

Detach(h, t) ==
    LET x == h.tokens[t]
    IN [h EXCEPT
          !.tokens = [u \in DOMAIN h.tokens \ {t} |->
                        [h.tokens[u] EXCEPT
                           !.next = IF u = x.previous THEN x.next ELSE @,
                           !.previous = IF u = x.next THEN x.previous ELSE @]],
          !.head = IF @ = t THEN x.next ELSE @,
          !.tail = IF @ = t THEN x.previous ELSE @,
          !.used = @ - x.retained,
          !.count = @ - 1]

\* A new token at the tail of the list.
Linked(h, t, x) ==
    [h EXCEPT
       !.tokens = [u \in DOMAIN h.tokens \cup {t} |->
                     IF u = t
                     THEN [applies |-> x.applies, target |-> x.target,
                           group |-> x.group, splices |-> x.splices,
                           retained |-> x.retained, owner |-> x.owner,
                           previous |-> h.tail, next |-> 0]
                     ELSE [h.tokens[u] EXCEPT !.next = IF u = h.tail THEN t ELSE @]],
       !.head = IF @ = 0 THEN t ELSE @,
       !.tail = t,
       !.used = @ + x.retained,
       !.count = @ + 1]

\* The tombstone of an evicted token; the oldest ones give way (the fixed limit
\* of 4096 tombstones is beyond every budget checked).
Buried(h, t) ==
    LET all == h.evicted \cup {t}
        most == h.budget \div TokenOverhead
    IN {u \in all : Cardinality({v \in all : v > u}) < most}

EvictOldest(h) ==
    LET t == h.head IN [Detach(h, t) EXCEPT !.evicted = Buried(h, t)]

\* The oldest tokens leave until `bytes` more fit.
EvictFor(h, bytes) ==
    LET after[k \in 0 .. h.count] ==
          IF k = 0 THEN h ELSE EvictOldest(after[k - 1])
        enough == {k \in 0 .. h.count : Fits(after[k], bytes)}
    IN after[Min(enough)]

Retain(h, t, x) ==
    IF x.retained > h.budget THEN h ELSE Linked(EvictFor(h, x.retained), t, x)

-----------------------------------------------------------------------------
(* An edit that must be undoable reserves its place before the source      *)
(* changes, evicting nothing, and gives it back when the source refuses.   *)

CanExtend(h, group, target, owner) ==
    /\ group # 0 /\ h.tail # 0
    /\ LET x == h.tokens[h.tail]
       IN /\ x.group = group /\ x.applies = target /\ x.owner = owner
          /\ x.next = 0 /\ Len(x.splices) < MaxSteps

Reservation(h, group, target, owner, bytes) ==
    IF CanExtend(h, group, target, owner)
    THEN SpliceOverhead + bytes ELSE TokenOverhead + bytes

\* What the list is between the reservation and the answer of the source.
Reserved(h, t, x, bytes) ==
    IF CanExtend(h, x.group, x.target, x.owner)
    THEN [h EXCEPT !.tokens[h.tail].retained = @ + SpliceOverhead + bytes,
                   !.used = @ + SpliceOverhead + bytes]
    ELSE Linked(h, t, [x EXCEPT !.splices = <<[start |-> 0, end |-> 0, text |-> <<>>]>>,
                                !.retained = TokenOverhead + bytes])

\* Mutant: a refused extension keeps the bytes it reserved.
RolledBackForgets(r, extended, bytes) ==
    IF extended
    THEN [r EXCEPT !.tokens[r.tail].retained = @ - (SpliceOverhead + bytes)]
    ELSE Detach(r, r.tail)

RolledBack(r, extended, bytes) ==
    IF extended
    THEN [r EXCEPT !.tokens[r.tail].retained = @ - (SpliceOverhead + bytes),
                   !.used = @ - (SpliceOverhead + bytes)]
    ELSE Detach(r, r.tail)

\* The reservation receives the inverse of the committed edit.
Finalized(r, extended, bytes, applies, splice) ==
    LET unused == bytes - Len(splice.text)
        x == r.tokens[r.tail]
    IN [r EXCEPT
          !.tokens[r.tail] =
             [x EXCEPT !.splices = IF extended THEN Append(@, splice) ELSE <<splice>>,
                       !.applies = applies,
                       !.retained = @ - unused],
          !.used = @ - unused]

-----------------------------------------------------------------------------
(* Undoing a group: its splices, last one first, become one splice.  The   *)
(* pieces of the code are taken byte by byte, so that a cut inside a piece *)
(* is a position: a byte of the current source is [step |-> 0, at |-> i],  *)
(* a restored one names the splice it comes from.                          *)

\* Mutant: the splices are undone in the order they were made.
PiecesForward(text, splices) ==
    LET n == Len(splices)
        From(step, len) == [i \in 1 .. len |-> [step |-> step, at |-> i]]
        undo[k \in 0 .. n] ==
          IF k = 0 THEN From(0, Len(text))
          ELSE Spliced(undo[k - 1], splices[k].start, splices[k].end,
                       From(k, Len(splices[k].text)))
    IN undo[n]

Pieces(text, splices) ==
    LET n == Len(splices)
        From(step, len) == [i \in 1 .. len |-> [step |-> step, at |-> i]]
        undo[k \in 0 .. n] ==
          IF k = 0 THEN From(0, Len(text))
          ELSE LET j == n - k + 1 IN
               Spliced(undo[k - 1], splices[j].start, splices[j].end,
                       From(j, Len(splices[j].text)))
    IN undo[n]

Materialized(text, splices) ==
    LET ps == Pieces(text, splices)
        prefix == Max({k \in 0 .. Len(ps) :
                         \A i \in 1 .. k : ps[i] = [step |-> 0, at |-> i]})
        suffix == Max({k \in 0 .. Len(ps) - prefix :
                         \A i \in 0 .. k - 1 :
                            ps[Len(ps) - i] = [step |-> 0, at |-> Len(text) - i]})
        Byte(p) == IF p.step = 0 THEN text[p.at] ELSE splices[p.step].text[p.at]
        middle == SubSeq(ps, prefix + 1, Len(ps) - suffix)
    IN [start |-> prefix, end |-> Len(text) - suffix,
        text |-> [i \in 1 .. Len(middle) |-> Byte(middle[i])]]

\* The edit that replays a token on the current source.
Replayed(text, x) ==
    IF Len(x.splices) = 1 THEN x.splices[1] ELSE Materialized(text, x.splices)

\* The splices of a token undone one after the other: what a replay must equal.
UndoneInTurn(text, splices) ==
    LET n == Len(splices)
        undo[k \in 0 .. n] ==
          IF k = 0 THEN text
          ELSE LET s == splices[n - k + 1]
               IN Spliced(undo[k - 1], s.start, s.end, s.text)
    IN undo[n]
=============================================================================
