------------------------------ MODULE AbiSession -----------------------------
(***************************************************************************)
(* One session of the V4 C ABI (crates/flark_abi) and the caller of it.    *)
(* Every call holds the registry's mutex from its first check to its       *)
(* answer, so a call is one step; what may go wrong is the order of the    *)
(* calls, an answer that is lost, and a call that is refused half way.     *)
(* The document is an actor of its own (module Document); here it is a     *)
(* source with a revision that accepts an edit or refuses it.              *)
(***************************************************************************)
EXTENDS AbiHistoryOps

CONSTANTS Uses,     \* the sessions examined: how each is configured and used
          MaxLive   \* bound: live anchors, continuations and transactions

\* A use: the calls made, the owner tokens, the caller's logical edit ids and
\* history groups (0 asks for none), whether an answer may be lost, the bytes
\* of the source at open, history_budget_bytes, max_document_bytes (and a
\* bound on every edit), and the bounds on revisions and unfinished pumps.
Use == [lanes : SUBSET {"source", "intent", "staged", "small", "bulk", "replay",
                        "release", "anchor", "drop", "query", "transfer",
                        "pump", "close"},
        owners : (SUBSET STRING) \ {{}}, ids : SUBSET (Nat \ {0}),
        groups : {g \in SUBSET Nat : 0 \in g},
        lossy : BOOLEAN, open : Nat, budget : Nat, bytes : Nat,
        revs : Nat \ {0}, pumps : Nat]

ASSUME UsesAssumption ==
    /\ \A u \in Uses : u \in Use /\ u.open <= u.bytes
    /\ MaxLive \in Nat

VARIABLES
    use,       \* which of Uses this session is; never changes
    sess,      \* phase, owner, progress token, close, handles of transactions
    doc,       \* the document actor: revision, source, parse, what its close drains
    hist,      \* the session's history tokens
    states,    \* history_state, next_history_state, the next history handle
    terms,     \* the receipts kept for a retry: source transaction, edit intent
    txns,      \* the registry's bulk transactions
    conts,     \* the registry's continuations: the revision of each
    anchors,   \* the registry's anchors: offset and affinity
    caller,    \* the revision it knows, what it may resend, what was answered
    commits,   \* history: how often each logical edit changed the source
    settled,   \* history: logical edits that reached a receipt
    seen       \* history: the source of each history state

vars == <<use, sess, doc, hist, states, terms, txns, conts, anchors, caller,
          commits, settled, seen>>

Handles == 1 .. MaxLive
Lanes == use.lanes
Ids == use.ids
MaxRev == use.revs
MaxBytes == use.bytes
Opened == [i \in 1 .. use.open |-> i]
None == [id |-> 0, result |-> 0]

Init ==
    /\ use \in Uses
    /\ \E o \in use.owners :
         sess = [phase |-> "creating", owner |-> o, progress |-> 0,
                 closing |-> FALSE, closed |-> FALSE, txns |-> {}]
    /\ doc = [rev |-> 1, text |-> Opened, ready |-> FALSE, drain |-> 1]
    /\ hist = NoHistory(use.budget)
    /\ states = [now |-> 1, next |-> 2, token |-> 1]
    /\ terms = [source |-> None, intent |-> None]
    /\ txns = <<>> /\ conts = <<>> /\ anchors = <<>>
    /\ caller = [known |-> 1, sent |-> {}, answered |-> {}]
    /\ commits = [i \in Ids |-> 0] /\ settled = {}
    /\ seen = [s \in {1} |-> Opened]

-----------------------------------------------------------------------------
(* A session that is open and not closing takes the calls of its owner.    *)

Owned == sess.phase \in {"creating", "open"}
Live == sess.phase = "open" /\ ~sess.closing

\* Mutant: any ordered mutation acknowledges.
AckOrderedAlways(revision) == [k \in {"source", "intent"} |-> None]

\* A mutation sent at the revision a receipt reports acknowledges the receipt.
AckOrdered(revision) ==
    [k \in {"source", "intent"} |->
       IF terms[k].id # 0 /\ terms[k].result = revision THEN None ELSE terms[k]]

Pending == IF terms.source.id # 0 THEN terms.source.id ELSE terms.intent.id

\* The caller learns a revision unless the answer is lost.
Learns(lost, revision) ==
    caller' = IF lost THEN caller ELSE [caller EXCEPT !.known = revision]

Losses == IF use.lossy THEN BOOLEAN ELSE {FALSE}

\* Ranges and lengths of replacement a caller may ask for.
Edits == {e \in [start : 0 .. MaxBytes, end : 0 .. MaxBytes, len : 0 .. 1] :
            /\ e.start <= e.end
            /\ e.end - e.start + e.len > 0}

InRange(e) == e.end <= Len(doc.text)

\* The bytes an edit inserts are told apart by the revision that brought them.
New(e) == [i \in 1 .. e.len |-> use.open + doc.rev]

\* DocumentActor: the source changes and the parse starts again.
Edited(a, b, new) ==
    /\ doc.rev < MaxRev
    /\ Len(Spliced(doc.text, a, b, new)) <= MaxBytes
    /\ doc' = [doc EXCEPT !.rev = @ + 1, !.text = Spliced(@, a, b, new),
                          !.ready = FALSE]

Moved(a, b, new) ==
    [h \in DOMAIN anchors |->
       [anchors[h] EXCEPT
          !.offset = MapOffset(@, anchors[h].affinity, a, b - a, Len(new))]]

\* What every call that commits an edit does to the session; `handles` are the
\* transactions it keeps.
Committed(a, b, new, handles) ==
    /\ Edited(a, b, new)
    /\ sess' = [sess EXCEPT !.progress = 0, !.txns = handles]
    /\ conts' = <<>>
    /\ states' = [states EXCEPT !.now = states.next, !.next = @ + 1, !.token = @ + 1]
    /\ seen' = [s \in DOMAIN seen \cup {states.next} |->
                  IF s = states.next THEN doc'.text ELSE seen[s]]

InverseOf(a, b, new) ==
    [start |-> a, end |-> a + Len(new), text |-> Bytes(doc.text, a, b)]

Token(group, splice) ==
    [applies |-> states.next, target |-> states.now, group |-> group,
     splices |-> <<splice>>, retained |-> Cost(splice.text), owner |-> sess.owner]

Without(f, h) == [u \in DOMAIN f \ {h} |-> f[u]]
With(f, h, x) == [u \in DOMAIN f \cup {h} |-> IF u = h THEN x ELSE f[u]]

-----------------------------------------------------------------------------
(* Opening, pumping and owning a session.                                  *)

\* The staged source becomes a document, which is pumped at once.
CreateCommit(done) ==
    /\ sess.phase = "creating" /\ ~sess.closing
    /\ sess' = [sess EXCEPT !.phase = "open", !.progress = 1]
    /\ doc' = [doc EXCEPT !.ready = done]
    /\ UNCHANGED <<hist, states, terms, txns, conts, anchors, caller,
                   commits, settled, seen>>

CreateAbort ==
    /\ sess.phase = "creating" /\ ~sess.closing
    /\ sess' = [sess EXCEPT !.phase = "gone"]
    /\ UNCHANGED <<doc, hist, states, terms, txns, conts, anchors, caller,
                   commits, settled, seen>>

\* The caller passes the token it was last given.
Pump(done) ==
    /\ "pump" \in Lanes /\ Live /\ caller.known = doc.rev
    /\ doc.ready => done
    /\ ~done => sess.progress < use.pumps
    /\ sess' = [sess EXCEPT !.progress =
                  IF done THEN 0 ELSE IF @ = 0 THEN 2 ELSE @ + 1]
    /\ doc' = [doc EXCEPT !.ready = done]
    /\ UNCHANGED <<hist, states, terms, txns, conts, anchors, caller,
                   commits, settled, seen>>

\* A first pump takes its token before it finds the session busy or the
\* revision stale.
PumpRefused ==
    /\ "pump" \in Lanes /\ Owned /\ ~sess.closing /\ sess.progress = 0
    /\ sess.phase = "creating" \/ caller.known # doc.rev
    /\ sess' = [sess EXCEPT !.progress = 1]
    /\ UNCHANGED <<doc, hist, states, terms, txns, conts, anchors, caller,
                   commits, settled, seen>>

Cancel ==
    /\ "pump" \in Lanes /\ sess.phase = "open" /\ sess.progress # 0
    /\ sess' = [sess EXCEPT !.progress = 0]
    /\ UNCHANGED <<doc, hist, states, terms, txns, conts, anchors, caller,
                   commits, settled, seen>>

TransferOwner(o) ==
    /\ "transfer" \in Lanes /\ Live /\ o # sess.owner
    /\ sess.progress = 0 /\ sess.txns = {} /\ DOMAIN conts = {}
    /\ sess' = [sess EXCEPT !.owner = o]
    /\ hist' = [hist EXCEPT !.tokens =
                  [t \in DOMAIN @ |-> [@[t] EXCEPT !.owner = o]]]
    /\ UNCHANGED <<doc, states, terms, txns, conts, anchors, caller,
                   commits, settled, seen>>

-----------------------------------------------------------------------------
(* Anchors and continuations.                                              *)

AnchorCreate(h, offset, affinity) ==
    /\ "anchor" \in Lanes /\ Live /\ caller.known = doc.rev
    /\ h \notin DOMAIN anchors /\ \A u \in DOMAIN anchors : u < h
    /\ offset <= Len(doc.text)
    /\ anchors' = With(anchors, h, [offset |-> offset, affinity |-> affinity])
    /\ UNCHANGED <<sess, doc, hist, states, terms, txns, conts, caller,
                   commits, settled, seen>>

\* Also while the session closes.
AnchorRelease(h) ==
    /\ "drop" \in Lanes /\ Owned
    /\ anchors' = Without(anchors, h)
    /\ UNCHANGED <<sess, doc, hist, states, terms, txns, conts, caller,
                   commits, settled, seen>>

\* A page that does not reach the end of its range leaves a continuation.
QueryViewport(h) ==
    /\ "query" \in Lanes /\ Live /\ caller.known = doc.rev
    /\ h \notin DOMAIN conts
    /\ conts' = With(conts, h, doc.rev)
    /\ UNCHANGED <<sess, doc, hist, states, terms, txns, anchors, caller,
                   commits, settled, seen>>

\* A continuation ends with its last page, or is released; a page in the
\* middle replaces it by one like it.
ContinuationEnds(h) ==
    /\ Live
    /\ conts' = Without(conts, h)
    /\ UNCHANGED <<sess, doc, hist, states, terms, txns, anchors, caller,
                   commits, settled, seen>>

-----------------------------------------------------------------------------
(* The literal lane: an edit whose answer is not kept.                     *)

SmallEdit(e, lost) ==
    /\ "small" \in Lanes /\ Live /\ caller.known = doc.rev /\ InRange(e)
    /\ terms' = AckOrdered(doc.rev)
    /\ Committed(e.start, e.end, New(e), sess.txns)
    /\ anchors' = Moved(e.start, e.end, New(e))
    /\ hist' = Retain(hist, states.token, Token(0, InverseOf(e.start, e.end, New(e))))
    /\ Learns(lost, doc.rev + 1)
    /\ UNCHANGED <<txns, commits, settled>>

\* A small edit, a replay or the begin of a bulk edit that is refused (its
\* revision, its range, the actor) has already acknowledged.
OrderedRefused ==
    /\ Lanes \cap {"small", "bulk", "replay"} # {} /\ Live
    /\ terms' = AckOrdered(caller.known)
    /\ UNCHANGED <<sess, doc, hist, states, txns, conts, anchors, caller,
                   commits, settled, seen>>

-----------------------------------------------------------------------------
(* Logical edits: a request the caller may send again until it has the     *)
(* answer.  The session keeps the receipt of the last one.  A request that *)
(* is refused before anything is reserved or staged changes nothing, and   *)
(* may be made again as if for the first time.                             *)

Slot(r) == IF r.kind = "intent" THEN "intent" ELSE "source"

UsedIds == caller.answered \cup {r.id : r \in caller.sent}

\* Requests under way whose answer the caller does not have, or a new one, that acknowledges an
\* edit whose answer the caller has, or none.
Requests(kind, edits, groups, handles) ==
    {r \in caller.sent : r.kind = kind}
    \cup {[kind |-> kind, id |-> i, base |-> caller.known, ack |-> a,
           edit |-> e, group |-> g, txn |-> h] :
             i \in {i \in Ids \ UsedIds : \A k \in Ids \ UsedIds : i <= k},
             a \in {0} \cup caller.answered,
             e \in edits, g \in groups, h \in handles}

AnsweredWith(r, lost, revision) ==
    caller' = IF lost
              THEN [caller EXCEPT !.sent = @ \cup {r}]
              ELSE [caller EXCEPT
                      !.sent = @ \ {r},
                      !.answered = @ \cup {r.id},
                      !.known = IF revision > @ THEN revision ELSE @]

\* A request whose receipt is held gets it again.
Recall(r, lost) ==
    /\ Live /\ terms[Slot(r)].id = r.id
    /\ AnsweredWith(r, lost, terms[Slot(r)].result)
    /\ UNCHANGED <<sess, doc, hist, states, terms, txns, conts, anchors,
                   commits, settled, seen>>

\* Otherwise the receipt that is held must be the one acknowledged.
Admitted(r) == Live /\ Pending # r.id /\ Pending = r.ack

Settled(r, revision) ==
    /\ terms' = [k \in {"source", "intent"} |->
                   IF k = Slot(r) THEN [id |-> r.id, result |-> revision] ELSE None]
    /\ settled' = settled \cup {r.id}

Counted(r) == commits' = [commits EXCEPT ![r.id] = @ + 1]

\* The caller's selection follows the edit it asked for.
Selected(a, b, new, sel) ==
    [Moved(a, b, new) EXCEPT ![sel] = [offset |-> a + Len(new), affinity |-> "down"]]

\* What a source transaction checks before it reserves its history.
SourceReady(r) ==
    /\ DOMAIN anchors # {} /\ r.base = doc.rev /\ InRange(r.edit)
    /\ Fits(hist, Reservation(hist, r.group, states.now, sess.owner,
                              r.edit.end - r.edit.start))

SourceTransaction(r, sel, lost) ==
    LET e == r.edit
        deleted == e.end - e.start
        extended == CanExtend(hist, r.group, states.now, sess.owner)
        inverse == InverseOf(e.start, e.end, New(e))
        reserved == Reserved(hist, states.token, Token(r.group, inverse), deleted)
    IN
    /\ Admitted(r) /\ SourceReady(r)
    /\ \/ /\ Committed(e.start, e.end, New(e), sess.txns)
          /\ hist' = Finalized(reserved, extended, deleted, states.next, inverse)
          /\ anchors' = Selected(e.start, e.end, New(e), sel)
          /\ Settled(r, doc.rev + 1) /\ Counted(r)
          /\ AnsweredWith(r, lost, doc.rev + 1)
          /\ UNCHANGED txns
       \/ /\ hist' = RolledBack(reserved, extended, deleted)   \* the actor refuses
          /\ UNCHANGED <<sess, doc, states, terms, txns, conts, anchors, caller,
                         commits, settled, seen>>

\* An edit intent reserves the largest inverse it may need, unless a
\* composition makes it do nothing.
IntentReady(r) == r.base = doc.rev /\ \E h \in DOMAIN anchors : anchors[h].affinity = "down"
IntentFits == Fits(hist, TokenOverhead + IntentCapacity)
IntentReserved ==
    Reserved(hist, states.token,
             Token(0, [start |-> 0, end |-> 0, text |-> <<>>]), IntentCapacity)

\* The document resolves the intent to an edit.
IntentApplied(r, e, lost) ==
    LET inverse == InverseOf(e.start, e.end, New(e)) IN
    /\ Admitted(r) /\ IntentReady(r) /\ IntentFits
    /\ InRange(e) /\ e.end - e.start <= IntentCapacity
    /\ Committed(e.start, e.end, New(e), sess.txns)
    /\ hist' = Finalized(IntentReserved, FALSE, IntentCapacity, states.next, inverse)
    /\ anchors' = Moved(e.start, e.end, New(e))
    /\ Settled(r, doc.rev + 1) /\ Counted(r)
    /\ AnsweredWith(r, lost, doc.rev + 1)
    /\ UNCHANGED txns

\* It changes nothing (a receipt is kept all the same), or the actor refuses.
IntentUnapplied(r, composing, refused, lost) ==
    /\ Admitted(r) /\ IntentReady(r) /\ (composing \/ IntentFits)
    /\ hist' = IF composing THEN hist
               ELSE RolledBack(IntentReserved, FALSE, IntentCapacity)
    /\ IF refused
       THEN UNCHANGED <<terms, settled, caller>>
       ELSE AnsweredWith(r, lost, doc.rev) /\ Settled(r, doc.rev)
    /\ UNCHANGED <<sess, doc, states, txns, conts, anchors, commits, seen>>

-----------------------------------------------------------------------------
(* Bulk edits: a replacement staged over several calls, checked and its    *)
(* inverse captured in units of work, then committed on the literal lane   *)
(* or as a logical edit.                                                   *)

BulkBegin(h, e) ==
    /\ "bulk" \in Lanes /\ Live /\ caller.known = doc.rev /\ InRange(e)
    /\ Len(doc.text) - (e.end - e.start) + e.len <= MaxBytes
    /\ h \notin DOMAIN txns \cup sess.txns
    /\ terms' = AckOrdered(doc.rev)
    /\ txns' = With(txns, h,
                 [base |-> doc.rev, edit |-> e, filled |-> e.len = 0,
                  checked |-> e.len = 0, captured |-> e.start = e.end,
                  capturing |-> TokenOverhead + e.end - e.start <= hist.budget,
                  inverse |-> <<>>, request |-> 0])
    /\ sess' = [sess EXCEPT !.txns = @ \cup {h}]
    /\ UNCHANGED <<doc, hist, states, conts, anchors, caller, commits, settled, seen>>

BulkAppend(h) ==
    /\ Live /\ ~txns[h].filled
    /\ txns' = [txns EXCEPT ![h].filled = TRUE]
    /\ UNCHANGED <<sess, doc, hist, states, terms, conts, anchors, caller,
                   commits, settled, seen>>

BulkAbort(h) ==
    /\ "bulk" \in Lanes /\ Live
    /\ txns' = Without(txns, h)
    /\ sess' = [sess EXCEPT !.txns = @ \ {h}]
    /\ UNCHANGED <<doc, hist, states, terms, conts, anchors, caller,
                   commits, settled, seen>>

\* The units of work a transaction still needs, and n of them done.
Checks(x) == IF x.checked THEN 0 ELSE 1
Captures(x) == IF x.captured \/ ~x.capturing THEN 0 ELSE 1

Worked(x, n) ==
    [x EXCEPT !.checked = TRUE,
              !.captured = @ \/ ~x.capturing \/ n > Checks(x),
              !.inverse = IF Captures(x) = 1 /\ n > Checks(x)
                          THEN Bytes(doc.text, x.edit.start, x.edit.end) ELSE @]

BulkReady(h) ==
    Live /\ caller.known = doc.rev /\ txns[h].base = doc.rev /\ txns[h].filled

\* The call answers BudgetExhausted unless a unit is left over.
BulkPauses(h, n) ==
    /\ BulkReady(h) /\ txns[h].request = 0
    /\ n <= Checks(txns[h]) + Captures(txns[h])
    /\ txns' = [txns EXCEPT ![h] = Worked(@, n)]
    /\ UNCHANGED <<sess, doc, hist, states, terms, conts, anchors, caller,
                   commits, settled, seen>>

BulkCommit(h, lost) ==
    LET x == Worked(txns[h], 3)
        e == x.edit
        inverse == [start |-> e.start, end |-> e.start + e.len, text |-> x.inverse]
    IN
    /\ BulkReady(h) /\ x.request = 0
    /\ Committed(e.start, e.end, New(e), sess.txns \ {h})
    /\ txns' = Without(txns, h)
    /\ anchors' = Moved(e.start, e.end, New(e))
    /\ hist' = IF x.capturing THEN Retain(hist, states.token, Token(0, inverse)) ELSE hist
    /\ Learns(lost, doc.rev + 1)
    /\ UNCHANGED <<terms, commits, settled>>

\* The actor fails a commit: the transaction is gone from the registry, its
\* handle stays with the session.
BulkLost(h) ==
    /\ BulkReady(h) /\ txns[h].request = 0
    /\ txns' = Without(txns, h)
    /\ UNCHANGED <<sess, doc, hist, states, terms, conts, anchors, caller,
                   commits, settled, seen>>

\* A staged source transaction binds the bulk transaction to its request.
StagedReady(r) ==
    /\ DOMAIN anchors # {} /\ r.base = doc.rev /\ r.txn \in DOMAIN txns
    /\ txns[r.txn].base = r.base /\ txns[r.txn].filled
    /\ txns[r.txn].request \in {0, r.id}

StagedPauses(r, n) ==
    LET x == txns[r.txn] IN
    /\ Admitted(r) /\ StagedReady(r)
    /\ n <= Checks(x) + Captures(x)
    /\ txns' = [txns EXCEPT ![r.txn] = [Worked(x, n) EXCEPT !.request = r.id]]
    /\ caller' = [caller EXCEPT !.sent = @ \cup {r}]
    /\ UNCHANGED <<sess, doc, hist, states, terms, conts, anchors,
                   commits, settled, seen>>

StagedTransaction(r, sel, lost) ==
    LET x == [Worked(txns[r.txn], 3) EXCEPT !.request = r.id]
        e == x.edit
        inverse == [start |-> e.start, end |-> e.start + e.len, text |-> x.inverse]
        linked == Linked(hist, states.token, Token(0, inverse))
    IN
    /\ Admitted(r) /\ StagedReady(r)
    /\ IF x.capturing /\ Fits(hist, Cost(x.inverse))
       THEN \/ /\ Committed(e.start, e.end, New(e), sess.txns \ {r.txn})
               /\ hist' = linked
               /\ txns' = Without(txns, r.txn)
               /\ anchors' = Selected(e.start, e.end, New(e), sel)
               /\ Settled(r, doc.rev + 1) /\ Counted(r)
               /\ AnsweredWith(r, lost, doc.rev + 1)
            \/ /\ hist' = Detach(linked, states.token)        \* the actor refuses
               /\ txns' = [txns EXCEPT ![r.txn] = x]
               /\ caller' = [caller EXCEPT !.sent = @ \cup {r}]
               /\ UNCHANGED <<sess, doc, states, terms, conts, anchors,
                              commits, settled, seen>>
       ELSE /\ txns' = [txns EXCEPT ![r.txn] = x]
            /\ caller' = [caller EXCEPT !.sent = @ \cup {r}]
            /\ UNCHANGED <<sess, doc, hist, states, terms, conts, anchors,
                           commits, settled, seen>>

-----------------------------------------------------------------------------
(* Undo and redo: a token is replayed on the state it applies to, and is   *)
(* replaced by the token of the way back.                                  *)

Replayable(x) == x.owner = sess.owner /\ x.applies = states.now

HistoryReplay(t, lost) ==
    LET x == hist.tokens[t]
        s == Replayed(doc.text, x)
        back == [start |-> s.start, end |-> s.start + Len(s.text),
                 text |-> Bytes(doc.text, s.start, s.end)]
    IN
    /\ "replay" \in Lanes /\ Live /\ caller.known = doc.rev
    /\ Replayable(x)
    /\ s.start <= s.end /\ s.end <= Len(doc.text)
    /\ Len(x.splices) > 1 => s.end - s.start <= MaxReplay /\ Len(s.text) <= MaxReplay
    /\ terms' = AckOrdered(doc.rev)
    /\ Edited(s.start, s.end, s.text)
    /\ states' = [states EXCEPT !.now = x.target, !.token = @ + 1]
    /\ sess' = [sess EXCEPT !.progress = 0]
    /\ conts' = <<>>
    /\ anchors' = Moved(s.start, s.end, s.text)
    /\ hist' = Retain(Detach(hist, t), states.token,
                      [applies |-> x.target, target |-> x.applies, group |-> 0,
                       splices |-> <<back>>, retained |-> Cost(back.text),
                       owner |-> sess.owner])
    /\ Learns(lost, doc.rev + 1)
    /\ UNCHANGED <<txns, commits, settled, seen>>

\* Also while the session closes.
HistoryRelease(t) ==
    /\ "release" \in Lanes /\ sess.phase = "open" /\ caller.known = doc.rev
    /\ hist.tokens[t].owner = sess.owner
    /\ hist' = Detach(hist, t)
    /\ UNCHANGED <<sess, doc, states, terms, txns, conts, anchors, caller,
                   commits, settled, seen>>

\* Releasing an evicted token takes its tombstone.
EvictedRelease(t) ==
    /\ "release" \in Lanes /\ Owned
    /\ hist' = [hist EXCEPT !.evicted = @ \ {t}]
    /\ UNCHANGED <<sess, doc, states, terms, txns, conts, anchors, caller,
                   commits, settled, seen>>

-----------------------------------------------------------------------------
(* Close: each unit of work drops one thing the session still has, and the *)
(* document closes last.                                                   *)

Drain(s) ==
    \/ /\ s.txns # {}
       /\ sess' = [s EXCEPT !.txns = @ \ {Min(@)}]
       /\ txns' = Without(txns, Min(s.txns))
       /\ UNCHANGED <<conts, anchors, hist, doc>>
    \/ /\ s.txns = {} /\ DOMAIN conts # {}
       /\ conts' = Without(conts, Min(DOMAIN conts))
       /\ sess' = s /\ UNCHANGED <<txns, anchors, hist, doc>>
    \/ /\ s.txns = {} /\ DOMAIN conts = {} /\ DOMAIN anchors # {}
       /\ anchors' = Without(anchors, Min(DOMAIN anchors))
       /\ sess' = s /\ UNCHANGED <<txns, conts, hist, doc>>
    \/ /\ s.txns = {} /\ DOMAIN conts = {} /\ DOMAIN anchors = {}
       /\ hist.head # 0
       /\ hist' = Detach(hist, hist.head)
       /\ sess' = s /\ UNCHANGED <<txns, conts, anchors, doc>>
    \/ /\ s.txns = {} /\ DOMAIN conts = {} /\ DOMAIN anchors = {}
       /\ hist.head = 0 /\ hist.evicted # {}
       /\ hist' = [hist EXCEPT !.evicted = @ \ {Min(@)}]
       /\ sess' = s /\ UNCHANGED <<txns, conts, anchors, doc>>
    \/ /\ s.txns = {} /\ DOMAIN conts = {} /\ DOMAIN anchors = {}
       /\ hist.head = 0 /\ hist.evicted = {}
       /\ doc' = [doc EXCEPT !.drain = IF s.phase = "open" /\ @ > 0 THEN @ - 1 ELSE @]
       /\ sess' = [s EXCEPT !.closed = s.phase = "creating" \/ doc.drain = 0]
       /\ UNCHANGED <<txns, conts, anchors, hist>>

CloseBegin ==
    /\ "close" \in Lanes /\ Owned /\ ~sess.closing
    /\ Drain([sess EXCEPT !.closing = TRUE])
    /\ UNCHANGED <<states, terms, caller, commits, settled, seen>>

ClosePump ==
    /\ Owned /\ sess.closing
    /\ Drain(sess)
    /\ UNCHANGED <<states, terms, caller, commits, settled, seen>>

CloseFinish ==
    /\ Owned /\ sess.closing /\ sess.closed
    /\ sess.txns = {} /\ DOMAIN conts = {} /\ DOMAIN anchors = {}
    /\ hist.head = 0 /\ hist.evicted = {}
    /\ sess' = [sess EXCEPT !.phase = "gone"]
    /\ UNCHANGED <<doc, hist, states, terms, txns, conts, anchors, caller,
                   commits, settled, seen>>

-----------------------------------------------------------------------------
Source ==
    \E r \in IF "source" \in Lanes THEN Requests("source", Edits, use.groups, {0}) ELSE {},
       lost \in Losses :
       \/ Recall(r, lost)
       \/ \E sel \in DOMAIN anchors : SourceTransaction(r, sel, lost)

AnyEdit == [start |-> 0, end |-> 0, len |-> 1]   \* not used by these requests

Intent ==
    \E r \in IF "intent" \in Lanes THEN Requests("intent", {AnyEdit}, {0}, {0}) ELSE {},
       lost \in Losses :
       \/ Recall(r, lost)
       \/ \E e \in Edits : IntentApplied(r, e, lost)
       \/ \E composing, refused \in BOOLEAN : IntentUnapplied(r, composing, refused, lost)

Staged ==
    \E r \in IF "staged" \in Lanes THEN Requests("staged", {AnyEdit}, {0}, DOMAIN txns) ELSE {},
       lost \in Losses :
       \/ Recall(r, lost)
       \/ \E sel \in DOMAIN anchors : StagedTransaction(r, sel, lost)
       \/ \E n \in 1 .. 2 : StagedPauses(r, n)

Bulk ==
    \/ \E h \in Handles, e \in Edits : BulkBegin(h, e)
    \/ \E h \in DOMAIN txns :
         \/ BulkAppend(h) \/ BulkAbort(h) \/ BulkLost(h)
         \/ \E n \in 1 .. 2 : BulkPauses(h, n)
         \/ \E lost \in Losses : BulkCommit(h, lost)

Literal ==
    \/ \E e \in Edits, lost \in Losses : SmallEdit(e, lost)
    \/ OrderedRefused

Undo ==
    \/ \E t \in DOMAIN hist.tokens, lost \in Losses : HistoryReplay(t, lost)
    \/ \E t \in DOMAIN hist.tokens : HistoryRelease(t)
    \/ \E t \in hist.evicted : EvictedRelease(t)

Views ==
    \/ \E h \in Handles, offset \in 0 .. MaxBytes, affinity \in {"up", "down"} :
         AnchorCreate(h, offset, affinity)
    \/ \E h \in DOMAIN anchors : AnchorRelease(h)
    \/ \E h \in Handles : QueryViewport(h)
    \/ \E h \in DOMAIN conts : ContinuationEnds(h)

Control ==
    \/ \E done \in BOOLEAN : CreateCommit(done) \/ Pump(done)
    \/ CreateAbort \/ PumpRefused \/ Cancel
    \/ \E o \in use.owners : TransferOwner(o)

Closing == CloseBegin \/ ClosePump \/ CloseFinish

Call == Source \/ Intent \/ Staged \/ Bulk \/ Literal \/ Undo \/ Views
        \/ Control \/ Closing

Next == Call /\ UNCHANGED use

Spec == Init /\ [][Next]_vars

-----------------------------------------------------------------------------
(* Properties.                                                             *)

Splices == [start : Nat, end : Nat, text : Seq(1 .. use.open + MaxRev)]

\* The type invariant of the session's entry and of the registry.
TypeOK ==
    /\ sess \in [phase : {"creating", "open", "gone"}, owner : use.owners,
                 progress : 0 .. use.pumps + 1, closing : BOOLEAN,
                 closed : BOOLEAN, txns : SUBSET Handles]
    /\ doc.rev \in 1 .. MaxRev /\ doc.ready \in BOOLEAN /\ doc.drain \in {0, 1}
    /\ doc.text \in Seq(1 .. use.open + MaxRev) /\ Len(doc.text) <= MaxBytes
    /\ \A t \in DOMAIN hist.tokens :
         /\ Len(hist.tokens[t].splices) \in 1 .. MaxSteps
         /\ \A i \in DOMAIN hist.tokens[t].splices : hist.tokens[t].splices[i] \in Splices
    /\ states.now \in 1 .. states.next - 1 /\ DOMAIN seen = 1 .. states.next - 1
    /\ \A k \in {"source", "intent"} :
         terms[k].id \in Ids \cup {0} /\ terms[k].result \in 0 .. MaxRev
    /\ DOMAIN txns \subseteq Handles /\ DOMAIN conts \subseteq Handles
    /\ \A h \in DOMAIN anchors :
         h \in Handles /\ anchors[h].offset \in 0 .. Len(doc.text)
    /\ caller.known \in 1 .. doc.rev /\ caller.answered \subseteq Ids

\* The history is one list: its links agree both ways from head to tail, it
\* counts its tokens, charges exactly the bytes they hold (no reservation of a
\* refused edit, no byte of an evicted one) and keeps within its budget.
HistoryIsChain ==
    LET T == DOMAIN hist.tokens
        Held(x) == TokenOverhead + SpliceOverhead * (Len(x.splices) - 1)
                   + MapThenSumSet(LAMBDA i : Len(x.splices[i].text), DOMAIN x.splices)
    IN
    /\ hist.count = Cardinality(T)
    /\ hist.used = MapThenSumSet(LAMBDA t : hist.tokens[t].retained, T)
    /\ hist.used <= hist.budget
    /\ hist.head \in T \cup {0} /\ hist.tail \in T \cup {0}
    /\ T # {} => hist.head # 0 /\ hist.tail # 0
    /\ \A t \in T :
         LET x == hist.tokens[t] IN
         /\ x.retained = Held(x)
         /\ (x.previous = 0) <=> (t = hist.head)
         /\ (x.next = 0) <=> (t = hist.tail)
         /\ x.next # 0 => /\ x.next \in T /\ x.next > t
                          /\ hist.tokens[x.next].previous = t

\* A history state names one source for ever: whenever the session is in a state,
\* through edits, undo and redo in any order, groups, evictions and releases, the
\* source is the one that state was made with; and undoing a token's splices in
\* turn leads from the source it applies to, to the source of its target.
StateNamesSource ==
    /\ doc.text = seen[states.now]
    /\ \A t \in DOMAIN hist.tokens :
         LET x == hist.tokens[t]
         IN UndoneInTurn(seen[x.applies], x.splices) = seen[x.target]

\* A token is usable by whoever owns the session, also after a migration.
HistoryFollowsOwner ==
    \A t \in DOMAIN hist.tokens : hist.tokens[t].owner = sess.owner

\* A logical edit changes the source at most once, whatever is lost and resent, and
\* its receipt is kept until the caller has it: no other call of that caller can
\* take its place.
ReceiptHeld ==
    \A i \in Ids : /\ commits[i] <= 1
                   /\ commits[i] > 0 /\ i \notin caller.answered => Pending = i

\* As the comment of acknowledge_edit_terminal_for_ordered_mutation says, an
\* ordered mutation acknowledges only what the caller has received: every logical
\* edit that reached a receipt still has it while its answer is outstanding.
AckProvesReceipt ==
    \A i \in settled \ caller.answered : Pending = i

\* A continuation that exists is one of the current revision.
ContinuationIsCurrent == \A h \in DOMAIN conts : conts[h] = doc.rev

\* Every transaction of the registry is one the close of the session will find.
TransactionIsNamed == sess.phase # "gone" => DOMAIN txns \subseteq sess.txns

\* A session that is gone leaves nothing in the registry.
GoneLeavesNothing ==
    sess.phase = "gone" =>
      /\ DOMAIN txns = {} /\ DOMAIN conts = {} /\ DOMAIN anchors = {}
      /\ DOMAIN hist.tokens = {}

BytesBefore(text, offset) == {text[i] : i \in 1 .. offset}
AllBytes(text) == BytesBefore(text, Len(text))

\* An anchor keeps its place: over every edit, undo and redo that is one splice
\* (a group's undo is not) and sets no selection, the bytes that survive stay on
\* the side of the anchor they were on.
AnchorKeepsPlace ==
    doc'.rev # doc.rev /\ commits' = commits /\ use.groups = {0} =>
      \A h \in DOMAIN anchors \cap DOMAIN anchors' :
        \A c \in AllBytes(doc.text) \cap AllBytes(doc'.text) :
          (c \in BytesBefore(doc.text, anchors[h].offset))
            <=> (c \in BytesBefore(doc'.text, anchors'[h].offset))

\* An edit that must be undoable (source transaction, intent, staged) comes with
\* the token that undoes it, and no token is evicted to make room for it.
RequiredIsUndoable ==
    commits' # commits =>
      /\ DOMAIN hist.tokens \subseteq DOMAIN hist.tokens'
      /\ \E t \in DOMAIN hist'.tokens : hist'.tokens[t].applies = states'.now

\* What a close has still to drop.
Left == Cardinality(sess.txns) + Cardinality(DOMAIN conts) + Cardinality(DOMAIN anchors)
        + hist.count + Cardinality(hist.evicted) + doc.drain

\* Each unit of a close drops one thing and brings none back, whatever else the
\* caller releases meanwhile, so a close that is pumped ends.
CloseAdvances == ClosePump /\ ~sess.closed => Left' < Left \/ sess'.closed

\* What a call may never do to the anchors, the history or a close under way.
CallsKeepPromises == [][AnchorKeepsPlace /\ RequiredIsUndoable /\ CloseAdvances]_vars

\* What every call keeps of the session's entry and of the registry's tables.
AbiInv ==
    /\ TypeOK
    /\ HistoryIsChain
    /\ HistoryFollowsOwner
    /\ ContinuationIsCurrent
    /\ TransactionIsNamed
    /\ GoneLeavesNothing
=============================================================================
