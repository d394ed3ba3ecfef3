# Flark in TLA+

A verification development kept beside the code of Flark, a live Markdown
editor: TLA+ modules translated from the source, TLC runs on small instances,
and TLAPS proofs for every value of the constants. Paths are relative to the
repository root; `F/` is `packages/flark/lib/src/`, `V3/` is
`legacy/native_v3_comrak_bridge/src/` and `V4/` is
`legacy/v4/flark/native/comrak_bridge/crates/`.

## 1. The system

Flark edits Markdown text in place. A host-independent Dart kernel owns the
text, the selection and the undo history; a Rust parser (comrak) turns text
into a render model; a session ties parser, kernel and host together; two
hosts (Flutter, Fleury) translate input events and paint.

The repository also keeps two earlier engines in Rust under `legacy/`, and
they are by far its largest part. `legacy/docs/README.md` calls their guides
superseded; the code is there with its tests, so it is modelled as it stands.
V3 is a worker that keeps a replica of the document, certifies each revision
and streams it to a host store under credits and receipts. V4 is a library: a
document actor that parses in bounded steps, behind a C ABI with handles,
undo history and receipts for retries.

| component | state it keeps | operations | talks to |
|---|---|---|---|
| undo history (`F/kernel/history.dart`) | undo and redo stacks, a running size, the open typing group | record, undo, redo, clear, break, checkpoint, restore | called by the editor |
| editing kernel (`F/kernel/editor.dart`, `composition.dart`, `snapshot.dart`, `table_editing.dart`, `admission.dart`) | snapshot (rendered or source), selection, pending style, revision, forced source mode, composition | apply, applyAfterComposition, begin/commit/cancelComposition, replaceSourceRange, loadMarkdown, setSourceMode, selectAll | parser (synchronously), listeners, history |
| shared parser (`F/session/shared_backend.dart`) | the parser or its load, a count of holders | lease, release | sessions and readers, asynchronously |
| session (`F/session/session.dart`) | status, text, revision, lease, editor, pending changes | start, retry, load, edit, attach, dispose | loader, editor, listeners, the changes stream |
| reader (`F/session/reader.dart`) | status, lease, document | start, update, select, retry, dispose | loader |
| candidate edits and structural commands (`F/kernel/edits.dart`, `inline_formatting.dart`, `typed_lines.dart`, ...) | none | which text a command tries | parser |
| parser and transports (`native/flark_parse`, `F/parse`) | input buffer, Wasm instance | parse, grow, dispose | called by the editor |
| preview decoding (`packages/flark_fleury/lib/src/image_decode*.dart`, `image_previews.dart`) | active and queued decodes, the epoch of a preview | decode, drain, cancel, time out | isolates, the network |
| platform input (`packages/flark_flutter/lib/src/controller.dart`, `input_context.dart`) | composing range, last received value, window | receive, receiveDeltas, finish | the input method |
| hosts (`packages/flark_flutter`, `packages/flark_fleury`) | focus, dialogs, scroll, layout | gestures, keys, clipboard, resource dialogs | session, controller |
| highlighting (`packages/flark_codemirror`) | none between lines but a mode's state | tokenize | hosts |
| V3 registries (`V3/v3_registry.rs`, `v3_host_registry.rs`) | slots with generations, a free list, counters, a lock per object | create, call, remove, emergency destroy | any number of threads |
| V3 endpoint (`V3/v3_endpoint.rs`) | lifecycle, source replica, certification, the outstanding event | open, seed, edit, close, receipts, polls | client, candidate, engine runtime |
| V3 candidate (`V3/v3_candidate_endpoint*.rs`) | the parse or build in hand, the retained base, the stream, the Green slot | start, poll, credit, cancel, deliver | endpoint, host |
| V4 document (`V4/flark_runtime/src/document.rs`, `actor.rs`, `V4/flark_engine/src/document.rs`) | the parse state and what it owns, the progressive load, retired sources, pending reclaims | edit, page, seal, pump, close, shut down | parser, arena, the ABI |
| V4 ABI (`V4/flark_abi/src/implementation.rs`) | sessions, transactions, continuations, anchors, history tokens, receipts | create, edits of five kinds, undo and redo, transfer, close | the foreign caller, the document |

What is hard in it, and what makes each part right:

* **History.** Two stacks share two caps (entries and stored code units); a
  running counter is added to and subtracted from in many places; typing
  joins the open step by a clock that may run backwards. Right means: the
  counter is exact, the caps hold after every call, both stacks form one line
  that undo and redo only walk along, and trimming keeps the nearest states.
* **Kernel.** A call may be refused or throw after several of its parts have
  run (a composition ended, text retyped, the mode switched). Right means:
  refused calls leave everything as it was, a composition is one undo step
  and is cancelled exactly, and the snapshot always belongs to its source.
* **Shared parser.** Leases wait on one future; when it fails, each waiter's
  catch block runs in turn and callers may retry or dispose in between. Right
  means: exact claims, one live parser, none disposed under a holder.
* **Session.** Publication is synchronous and re-entrant: a listener may
  edit, load, retry or dispose from within the publication of another call,
  and leases or failures may arrive late. Right means: every edit reported
  once and in order, every lease given back, every attempt answered.
* **Reader.** The same re-entrancy and late answers, with less checking: only
  its status keeps two attempts apart. Right means: the latest text shown,
  attempts that never overlap, one lease, every attempt answered.
* **Previews.** Cancellation, a timeout, a late answer and a change of uri
  meet in a queue all editors share. Right means: a job completed once, a slot
  given back once, no stale image, every load and job ends.
* **V3 registries.** A call holds an `Arc` between two locks while another
  thread removes the same handle; generations run out. Right means: no handle
  ever names a second object, the counters and the free list stay exact, no
  call waits.
* **V3 endpoint and candidate.** Edits overtake parses, builds and streams;
  three records of the last publication must agree when a delta starts. Right
  means: deltas start from what was published last, nothing obsolete is
  published, the base is kept in one place and never lost, closes end.
* **V4 document.** Edits, pages, faults and closes meet a parse at any phase,
  each owning other roots. Right means: nothing obsolete is built on or
  shown, every root released once, a closed session holds nothing.
* **V4 ABI.** Answers are lost and requests repeated; history has a budget and
  groups. Right means: one edit is applied once, a token is replayed only on
  the state it was made for, nothing is left after a close.

`PROJECT.json` lists every component, with the reason where one is left out,
and every hazard at the line where it bites.

## 2. The modules

| module | models | used by |
|---|---|---|
| `HistoryOps` | every method of `History` as an operator on a record | `History`, `Editor` |
| `History` | the class as a state machine, and its properties | `MCHistory`, `HistoryProofs` |
| `Editor` | `FlarkEditor`'s calls, on an instance of `HistoryOps` | `MCEditor`, `EditorProofs` |
| `LeaseContract` | abstract: what the holder of a lease is promised | `SharedBackend` |
| `SharedBackend` | `SharedBackend`, shown to implement `LeaseContract` | `MCSharedBackend`, `SharedBackendProofs` |
| `Session` | `FlarkSession` | `MCSession`, `SessionProofs` |
| `Reader` | `FlarkReader`, the read-only path | `MCReader`, `DisplayProofs` |
| `ImagePreview` | the preview widget, its loader, the decode queue and both decoders | `MCImagePreview`, `DisplayProofs` |
| `Registry` | both V3 registries and the threads that call them | `MCRegistry`, `LegacyProofs` |
| `CandidateOps` | the candidate and the Green slot, as operators on a record | `Endpoint` |
| `Endpoint` | the V3 endpoint over `CandidateOps`, its client and its host | `MCEndpoint`, `EndpointProofs` |
| `Document` | the V4 document session, its runtime and its actor | `MCDocument`, `LegacyProofs` |
| `AbiHistoryOps` | the undo history of a V4 session as operators: tokens, groups, splices, anchors | `AbiSession` |
| `AbiSession` | one session of the V4 ABI and its caller | `MCAbiSession`, `AbiProofs` |

Definitions keep the source's names where TLA+ allows it; those commented
*fault* or *mutant* are the definition below them with a plausible mistake,
which shows that a property notices it. They are part of no specification.
Where one module of proofs extends two components, the names both would use
carry the component's (`RegistryInit`, `PreviewSpec`).

**HistoryOps, History.** A history is a record with the fields of the class:
`undo`, `redo` (oldest first), `units` (`_storedSourceCodeUnits`), `group`,
`lastWasTyping`, `lastTypingAt`. An editing state is a constant of which only
the length of its source matters (`Units`). `_trim`'s loop is written as the
number of entries it removes from each stack (`Dropped`), so that it can be
reasoned about in one step; `TrimLoop` is the loop as the code writes it, one
removal per turn, and `TrimIsTheLoop` compares the two. Every call of the class is an action, and `current` is
the owner's editing state, which the class is handed and returns. `Times`
may be anything: the clock can go backwards, as `DateTime.now()` can.

**Editor.** The editor is one record `ed`. Calls do not interleave, so a
method is an operator giving the set of its outcomes: the editor it leaves,
and whether it applied, was refused or threw. What an edit makes of the text
is an arbitrary candidate; what admission and the parser make of a text is
the constant `Reads`: rendered live, shown as source because the text or its
parse is past the live limits, read with a deviation, or refused; and any
parse may throw. `Snap` is where a selection lands in a snapshot. The order
of the effects of every call (`_enter`, the composition's end, the attempt,
the history step, `_notify`, the restoring `finally` or `catch`) is the
code's. Left out: the column that vertical movement aims for and the two
stages of Select All, which only decide where a selection lands.

**SharedBackend, LeaseContract.** One call of `lease()` is a lease; one call
of the loader is a load. When a load ends, Dart resumes those awaiting it in
the order they began to wait, before any other future completes; what a
resumed caller does synchronously comes in between, and the model lets it do
anything. `LeaseContract` speaks of holders only: a lease is asked for, then
granted or refused, then disposed, and a parser is alive while held. The
refinement mapping is in `SharedBackend` (`KeepsContract`).

**Session.** `stack` holds the calls in progress. A `notify` frame is a
publication whose listeners are running, a `send` frame the loop that
reports changes, and the others are what a method does after its publication
has returned. Calls are enabled from outside (an empty stack) or from a
listener (a `notify` or `send` frame on top), so every nesting is explored.
The editor is the source it holds: module `Editor` says how calls change it.
`edits` is a history variable: what was edited, in order; `heard` is what the
stream has reported. A session disposed within a report of a change leaves the
stream open, since a stream that is firing refuses to be closed. Left out: the attached owner, the host's command handler
and resource presenter, and `expectedRevision`, which only refuses calls.

**Reader.** The frames of `stack` are as in `Session`: listeners running, an
attempt (`opened`, `failed`) that will complete its own future once they
return, and a retry that will notify again because the loader threw at once.
A document is the text it shows, rendered or as source; `select` is only the
notification it causes.

**ImagePreview.** A step is what runs between two awaits. A load is named by
its preview and its epoch; its record holds the caller (`_load`), the loader,
the token, the job, and for isolates the worker and the completer it answers.
The platform (`browser`) is chosen at the start and never changes. A client
is closed exactly when its token is cancelled, so the token stands for both;
`kill` is a request to stop, after which the worker counts as gone. Left out:
the size limits and the chunks of a download, which only make it fail.

**Registry.** All that happens under the registry's lock is one step; the
clone of the `Arc`, `try_lock`, the operation and each drop are steps of their
own, so threads interleave there. `hosts` chooses between the two registries,
which differ in what they admit. A panic poisons the object's lock. `issued`
is a history variable: the handles given out and their objects. An allocation
that fails is a refusal and changes nothing.

**CandidateOps, Endpoint.** The endpoint is a record `ep` with the candidate
inside; every command, receipt, host answer and poll is an action. A job of
many polls is the one poll that ends its stage, since the polls between change
nothing that another call sees. The engine runtime (persistent source facts)
is not in the repository; its operators (`NoRuntime` to `CommitFacts`) are
modelled from their use and marked external, with the assumption that a clean
scan drops the persistent facts. Event ids are kept only as exhausted or not.
What may go wrong in a session is `faults`, chosen at the start among
`Sessions`. An exact build is named by its structural path: `buildingExact` is of
the slot's session, `buildingLocal` of the blocks that the list parser made,
`buildingBlocks` of the blocks of another parser. The code puts a build of blocks
back, and answers the poll with an error, while the slot owns the session of its
base (`V3/v3_candidate_endpoint.rs:6002`); such a candidate is `Parked`, and a
poll that is refused is not a step. The caller may give the endpoint up at that
error, as the native isolate does (nothing more happens), or edit, supersede or
close. A batch of edits may be refused half way, after the candidate was stopped,
and the runtime is closed by any number of grants. The hot-inline and viewport
lanes are left out.

**Document.** A source version is a revision and a number of pages; a parser
object is the version it parses, the work it still needs and the arena roots
it owns. A pump does one unit of work. `poll_retirement`'s alternation between
arena and sources is a choice. A cancelled clean build asserts until the
index of its winner is drained; a build whose cancellation outlives its turns
is leaked, and close still ends. A poisoned store refuses pages, faults at the
next edit, and can still be sealed; an edit during a load that the store
refuses faults the session. Internal errors of `begin_release`,
`begin_cancel` and `poll_cancel` are left out.

**AbiHistoryOps, AbiSession.** The registry has one mutex, so a call is one
step. A source is a sequence of bytes told apart by the revision that
inserted them; a group's undo is built from pieces byte by byte, as in the
code. The caller knows the revision of the last answer it received, may
resend what it sent, and acknowledges honestly; a refused request leaves no
trace. `Uses` are the four ways a session is used, each with its calls and
bounds. Handles are abstracted, history tokens are increasing numbers. Left
out: a document actor that panicked or could not start, `session_inspect`,
and the owner check of an eviction, which cannot fail for tokens of one
session.

## 3. The runs

Every run is `tlc -workers 2 -config <cfg> <module>`.

| run | instance | shows |
|---|---|---|
| `history` (`MCHistory`) | sources of 0, 2, 3 and 6 code units under a cap of 5, three entries, three times, four groups | `HistoryInv` (types, the exact counter, the caps, groups in order, the open group newest), `TrimIsTheLoop`, and as action properties `WalksTimeline`, `NeighboursKept`, `BurstsJoin` |
| `editor` (`MCEditor`) | five sources, one of each way of being read; two selections, one in a table cell the source does not write; one undo entry, two groups | `EditorInv` (the snapshot belongs to its source and mode, no typing intent in source mode), `RefusedLeavesAll`, `PublishedExactly`, `CancelRestores`, `CompositionIsOneStep` |
| `shared_backend` (`MCSharedBackend`) | four leases, three loads | `LeaseInv` (exact claims, holders' parsers alive, one parser), the refinement `KeepsContract`, the liveness `LeasesSettle` |
| `session` (`MCSession`) | two documents and a refused one, three attempts, four changes, calls under up to four frames | `SessionInv` (nothing stuck, listeners see the present, one lease), `ChangesAreTheEdits`, `DisposedIsFinal`, the liveness `Settles` |
| `reader` (`MCReader`) | two texts, three attempts, calls under up to three frames | `ReaderInv` (one lease, no overlap, ready agrees), `ShowsLatest`, `Settles` |
| `image` (`MCImagePreview`) | two previews, one of which changes its uri, one decoder, a queue of one, both platforms | `ImageInv` (completed once, slots exact, no worker without a slot), `QueueIsLive`, `ShowsItsUri`, `Progress` |
| `registry` (`MCRegistry`) | two threads (symmetric), two fresh endpoints or hosts, generations up to 2, four objects | `RegistryInv` (objects in use registered, locks owned, accounts exact, an admitted object finds a slot), `HandleNamesOne`, `NeverWaits`, `FreshLeavesHeadroom` |
| `endpoint` (`MCEndpoint`) | five revisions, up to two pages of facts, every fault | `EndpointInv`, `DeltaFromPublished`, `BaseNeverLost`, `Progress` (publications by every lane that can publish, and closes) |
| `document` (`MCDocument`) | three edits, two pages, two retired sources, two units of work, every failure | `DocumentInv`, `ClosedIsDrained`, `AnswersAreTrue`, `Progress` (the parse converges, closes and discards end) |
| `document_fault` (`MCDocument`) | one edit, an adoption that errs | violates `FaultIsTyped`: see Findings |
| `abi` (`MCAbiSession`) | four uses: history at its budget, groups, lost answers over every lane, tables under transfer and close | `AbiInv`, `StateNamesSource`, `ReceiptHeld`, `CallsKeepPromises` (anchors keep their place, required edits can be undone, every unit of a close drops something) |
| `abi_ack` (`MCAbiSession`) | the lossy use | violates `AckProvesReceipt`: see Findings |

Each passing run's first invariant includes the types of its module. Why the bounds are enough:

* *history*: 6 exceeds the code unit cap alone, 2 and 3 fit it together
  exactly and 3 and 3 do not; three entries make the entry cap bite while both
  stacks hold something; three times around a window of 1 give a gap inside
  it, one outside it, and one backwards.
* *editor*: the properties relate one call, or one composition, to the state
  before it; one entry on each stack and two groups are enough for a
  composition to record, to be undone and to be redone, and for the cap to
  remove what it recorded. The caps themselves are `History`'s subject.
* *shared_backend*: a load that fails with two waiters, a third that retries
  between their resumptions, and one that comes after everything is over; the
  third load is the retry of a retry.
* *session*: an outer call, a listener's call in its publication and a third
  in that one's reach every pair of frames that can lie on each other; two
  accepted documents suffice to tell an edit that changes the text from one
  that does not.
* *image*: an active job, a queued one and a third that finds the queue full;
  a job whose preview moved on, cancelled in every phase. The previews are
  alike, so it does not matter which of them has two loads.
* *registry*: two threads can hold one object while it is removed, and four
  objects in slots of two generations exhaust a slot and reuse another.
* *endpoint*: a publication, a delta from it, a delta overtaken by an edit and
  one more after the recovery of its base need four revisions; a fifth lets an
  edit arrive in the last of them.
* *document*: an edit during a build, another during the cancellation it
  caused, and a third that finds two retired sources; a first page that is
  adopted and a last one that meets the seal.
* *abi*: each use is bounded so that its subject is reached (a budget of two
  tokens and a splice, groups of up to three steps, two logical edits whose
  answers may be lost). `MaxBytes` is both `max_document_bytes` and a bound on every edit.
  `AnchorKeepsPlace` speaks of calls that set no selection, in sessions without
  groups: an anchor inside a stretch that a group replaced collapses when the
  group is undone.
* *reader*: within the publication of an opening a listener can make an
  update that throws, retry, and be told of the next failure, and a second
  attempt can be overtaken by a third.

The deadlock check is off where the system may stop: every lease is over, a
session, reader, preview, endpoint or document is disposed or closed, and the
bounds end the calls.

**Fairness.** `SharedBackend` assumes that loads end, that the event loop
resumes waiters, and that holders dispose their leases; the last is the
contract of `FlarkBackendLease`, and only `ParserFreed` needs it. `Session`
assumes that its own code runs on, that the loader answers each call, and
that a listener returns, perhaps after calls of its own: strong fairness for
the two frames of listeners, since a call from a listener disables its return
until the call is over. `Reader` assumes the same; there each depth of the
stack has its own strong fairness, so that the listeners of an outer
publication return too, and the answer of the loader is strongly fair since
the event loop only gets to it between calls. None of them obliges anyone to
edit, retry or dispose.

`ImagePreview` assumes that the event loop runs what is ready, that the timer
fires, that a spawn succeeds or fails and that a promise settles; nothing of a
download or of an isolate's answer. `Endpoint` assumes that the client polls
and drains, that it accepts the events it is sent (strongly fair, since an
edit may replace one), that its host answers, that a stream is finite and that a
runtime is closed by finitely many grants (`Drain` is strongly fair for the grant
that completes, since an event withholds it until its receipt). `Publishes` says
that an installed revision is published unless the client edits, supersedes,
refuses or closes, the session faults, or the list parser has led to a parked
build; its outcome is that build itself, so it still says that every other lane
publishes and that a parked build stops no later revision. A close is not promised once the event ids have run out, which the code leaves
to `emergency_destroy`. `Document` assumes a host that pumps until it is ready
and pumps the closes it began, and an actor thread that runs its discard; a
pump during a close faults the session, and then nothing is promised.

## 4. The proofs

`tlapm` checks every leaf of eight modules: `HistoryProofs`, `EditorProofs`,
`SharedBackendProofs`, `SessionProofs`, `DisplayProofs` (reader and previews),
`LegacyProofs` (registries and V4 document), `EndpointProofs` and `AbiProofs`.
The theorems hold for every value of the constants that satisfies the named
ASSUMEs:

* any set of editing states with natural lengths, any caps, window and clock;
* any way of reading texts and of landing selections (`Reads`, `Snap`, of which
  it is assumed that a selection that has landed stays where it is, and that
  only a rendered text has table cells);
* any finite set of leases; any documents of which some are refused; any
  number of attempts, changes and nested calls;
* any set of previews with any number of loads each, any positive limits of the
  decode queue;
* any finite set of threads, any number of slots, generations and objects;
* any number of edits, pages, retired sources and units of work, and every set
  of failures;
* any revisions, pages of facts and faults of an endpoint;
* any uses of a session of the ABI, any overheads, budgets and limits, of which
  it is assumed that a token costs something, that a group may have a step and
  that there is a first revision.

The bounds of the models are constants like the others.

**HistoryProofs**: `HistorySound`, which is `HistoryInv`, from `TypeCorrect`,
`CounterExact`, `CapsHold`, `OneLineOfGroups`, `OpenGroupNewest`. The
invariants hold together: the counter stays non-negative only because it is
exact, an undo moves one entry only because groups are strictly increasing
along the line, and a record joins safely only because an open group is the
newest one. `IInv` is their conjunction (`Good`). The size of a stack is the
cardinality of the set of its code unit positions, which spares a recursive
sum: pushing, dropping the oldest and concatenating become facts about
disjoint unions of finite sets. The one minimum in `_trim` exists because
removing everything always fits the caps. The action properties follow:
`UndoAndRedoWalk` splits a call into moving one entry over the current state
(`TimelineMoves`: the timeline is the same) and trimming (`TimelineTrimmed`: a
contiguous part of it); `NeighboursStay` shows that removing all but the newest
entry of each stack already fits, so the fewest removals stop there at the
latest; `TypingJoins` needs the further invariant `BurstKnown`, that the object
remembers a typed call unless its step was trimmed away. `TrimLoops` is
`TrimIsTheLoop`: each branch of the loop drops the entry `Dropped` counts next
(`DropStep`, `TurnDrops`), and the loop stops at the fewest drops that satisfy the
caps (`LoopTrims`, by the first turn at which the two could differ).

**EditorProofs**: `EditorSound`, which is `EditorInv`, and `RefusalsLeaveAll`,
`ChangesArePublished`, `CancellingRestores`, `CompositionUndoesAtOnce`; and
`EditorHistorySound`, that the editor's history is sound as `History` is. A
call is the set of its outcomes, so what is preserved is `WellFormed` of the
editor in an outcome: the snapshot is what opening its source shows in the mode
the editor is in (`Shows`), what a composition began with would be shown again
just as it was (`Resumable`, without which it could not be cancelled exactly),
and the history is `Good` and holds only editing states that were shown. There
is a lemma for each operator the calls are built from, and the calls combine
them. What the history's operators keep is not proved again: `EditorProofs`
instances `HistoryProofs` for the editor's history and shows that both name the
same operators. `CompositionUndoesAtOnce` needs that a commit records the
composition's beginning, and that this entry is what undo returns to
(`RecordTarget`), or was trimmed away at once.

**SharedBackendProofs**: `LeasesSound`, which is `LeaseInv`, from `TypeCorrect`,
`HoldersAreClaims`, `HoldersKeepTheirParser`, `AtMostOneParser`; and
`ImplementsContract`. The count is the cardinality of the waiting and held
leases; to keep it exact one needs that each waiting lease is in exactly the
queue of its load, once, that a load that is over has only waiters still to be
resumed, that `_parser` is exactly the live load, and that a live load is
claimed. From these follows that `_release` reaching zero has no holder left.
The refinement maps every step to a step of `LeaseContract` or a stutter.

**SessionProofs**: `SessionSound`, which is `SessionInv`, from `TypeCorrect`,
`OneLease`, `ChangesExact`, `SeesNow`, `QuietBetweenCalls`, `FinalDisposal`. None is
inductive: each depends on what the interrupted calls will do when they go on.
`IInv` therefore ties the flags to the stack. `EditorOnTop`: `_loadingDocument`
is up only while the editor is called by `loadMarkdown`, with nothing above it,
so no listener's edit can be taken for a load. `PublicationsOnStack`:
`_publicationDepth` is the number of `notify` frames, `_sendingChanges` says
whether the one `send` frame is there, and while a change is pending there is a
frame that will report it. `StillOpening`: an attempt that has yet to call the
loader, or waits for it, has not opened the session nor given it a lease.
`ClosedIsDisposed`: the stream closes only after disposal, which leaves nothing
to report.

**DisplayProofs, the reader**: `ReaderSound` (`ReaderInv`), `LatestShown`, `DisposalIsFinal`.
That the future of an attempt agrees with the status holds between calls only,
so the invariant says it of every moment (`FutureIsOwed`): the future agrees, or
a frame on the stack will make it agree, and none will make it disagree. With it
go `FramesOfAttempts`, that a frame which completes a future completes that of
an attempt begun before, and `Untouched`, that nothing has happened yet to
attempts to come; `OneLease` and `NoOverlap` are inductive with these.

**DisplayProofs, the previews**: `ImageSound` (`ImageInv`), `QueueLive`, `UriShown`. The
invariant says of a load in itself (`Sane`) that its job is completed once and
only after the download, waits only while it is wanted, and that its isolate
works only while the job decodes; and of all of them (`Agree`) that the queue
holds each waiting job once and the slots in use are the jobs that run. Each
step changes one load, and its lemma says which slot and which place in the
queue it gives up; `DrainStep` is the one that takes both.

**LegacyProofs, the registries**: `RegistrySound` (`RegistryInv`), `HandlesAreUnique`,
`HeadroomKept`. The free list lives inside the slots. `AccountsExact` says
without recursion that it visits every free slot once: no free slot is the
successor of two, the head is the successor of none, and any set of free slots
that holds the head and is closed under successors is all of them; allocating and recycling keep this at the head. The counters are
cardinalities, and free, resident and exhausted slots partition the pushed ones,
which gives the head room. A handle names one object because an issued handle
is never ahead of its slot, and one that is level with it is not on the free
list (`IssuedSound`); a slot that is recycled moves on, or is exhausted.

**LegacyProofs, the document**: `DocumentSound` (`DocumentInv`), `ClosedDrained`,
`AnswersTrue`. `DocumentInv` itself says which roots each state of the parse
owns and of what text. To be inductive it needs what the phases imply for one
another: the runtime is open until the parser has gone, and one that is closed
holds nothing (`RuntimePhase`, of which `ClosedDrained` is a consequence);
nothing is being reclaimed while a parse goes on (`PendingPhase`); a load works
on what it adopted, all of it once sealed (`LoadPhase`); an adoption that has
worked has a target (`AdoptPhase`). There is one lemma per step and phase.

**EndpointProofs**: `EndpointKeepsInv` (`EndpointInv`), `DeltaIsFromPublished`,
`BaseIsKept`; the inductive invariant is `Sound` (`EndpointIsSound`). It has a part
for each thing a later call relies on. `CandSound`: what the candidate owns in
each of its stages, and of which revision; `GreenSound`: what the Green slot holds
meanwhile. `RestSound`: what a close, a poison or the end of the runtime cleared
stays so; `LifeSound`: what the endpoint's lifecycle allows the candidate to be
doing. `FactsSound`, `BasesSound` and `CurrentSound`: which of the three records of
the last publication agree, and when; `DeltaIsFromPublished` is a consequence.
`WaitSound` and `OutSound`: what an edit that waits and an event that is out still
owe. `BaseIsKept` is about a step: it follows the base through each
operator of `CandidateOps` (`Carries`), from retained through active, stream and
cleanup back to retained. That a build of blocks is always parked
(`LegacyBuildsAreParked`) follows from `CandSound`: while a revision is built the
slot has nothing installed and no release queued, so the session of the base can
only be the base of its own build (`SlotHasBase`); the same fact shows that an
ordinary exact parse is always overtaken by the slot, and that a clean parse finds
the slot's session of its target, so that no parser but the list's makes blocks. The proof found that two arms of the CASE in `Cancel` of
`CandidateOps` overlapped, so that the model left open which was meant; they now
exclude each other, in the order of the code's `if`s.

**AbiProofs**: `SessionIsSound` (`AbiInv`), `StatesNameSources`
(`StateNamesSource`), `ReceiptsAreHeld` (`ReceiptHeld`), `CallsKeepTheirPromises`
(`CallsKeepPromises`).
The inductive invariant `SessionInv` says:

* `ReceiptInv`: a request under way has not been answered and its edit was made
  at most once; one that was made and not answered is pending, so no other call
  can be admitted.
* `SourceSound`: the source is that of the current state, and the sources ever
  seen are well typed. No byte occurs twice in any of them (`Genuine`), and each is
  older than the next byte an edit brings (`Clock`).
* `HistSound`: the history is a chain in the order of its handles, charged
  exactly; `TokenSound`: the splices of every token lead from the source it applies
  to, to that of its target, and every splice fits the source it is made on. In a
  session without groups a token is one splice (`Alone`), and the bytes it takes are
  none of those it brings (`Apart`).
* `TxnsSound`: a transaction of the current revision that captured its inverse
  holds the bytes its commit will replace, so the token it leaves is right.
* `SessSound` and `ViewsSound`: what the phases, the close, the continuations and the
  anchors allow.

Eviction, rollback and finalisation of reservations, and extension of a group
each keep `Chain` by a lemma of their own; `EvictFor` is a recursive function of the
number evicted, and what it keeps is shown by induction on that number. The sums
of the history, which the operators compute by folding over a set, are compared
with a closed form (`Weight`: the cardinality of a heap with as many elements as
there are bytes), so that removing or growing a token is a fact about disjoint
unions. The undo of a group as one splice is `Materialized`: every position of the
pieces stands for the byte that undoing in turn puts there (`Stands`), a common
prefix and suffix are positions of the current source, and what is between them is
the replacement (`Leads`). That an anchor keeps its place is read off the two sources of
a step: because no byte occurs twice, the byte an anchor marks is the same byte
after one splice exactly when it survives it (`Survives`, `PlaceKept`), and an undo or a
redo without groups is one splice by `Alone`. What a close has left is counted term by
term (`LeftSum`), and every unit of work takes one from one term. TLC checked `SessionInv` on the 692,872 distinct states of
the run `abi` before it was proved.

Induction over naturals is used in set form (`NatSet`: a set with zero that is
closed under successor holds every natural number, from `WFMin`), which needs no
operator as a parameter; recursive functions are within reach of it.

**Only model-checked**:

* Liveness under fairness (`LeasesSettle`, `Settles`, `Progress`) and `NeverWaits`,
  which is stated with ENABLED: the prover does neither. Every other property of a
  run that passes is a theorem; the two runs that TLC finds
  violated (section 5) are TLC's alone.

## 5. Findings

Shown by a run (the first by an invariant that holds, and is proved, where the
documents promise the contrary; the others by a violated property):

* `endpoint`. The list parser's lane never publishes. Its plan is made at
  `V3/v3_endpoint.rs:999`, `start_incremental` gives the slot the base it parses
  from (`V3/v3_candidate_endpoint.rs:1916`), the slot's finished build does not
  take it over (4590), and the build of its blocks is then put back by every
  poll with `InvalidState`, because the slot owns that base (6002). The
  architecture says that the parser "hands it to the existing exact block-tree
  splice" and gives the transitions its build and stream take
  (`docs/architecture/v3/architecture_summary.md:686-691`), and the endpoint's
  test expects an `ExactBaseDelta` after the lane was entered
  (`V3/v3_endpoint.rs:4835-4843`). `EndpointInv` says that the build is parked in
  every state (`LegacyBuildsAreParked`), for any number of revisions by
  `EndpointKeepsInv`. A session whose bases all carry recursive-Green restarts
  does not meet it, since the lane's plan is declined there (the candidate's
  tests say that Green authority supersedes the lane); the model allows the lane
  from any base.
* `document_fault`. `advance_one` passes an error of `adoption.poll` on with
  `?` (`V4/flark_runtime/src/document.rs:977`), which drops the adoption and
  its unreleased base. The destructor's assertion turns the typed error into a
  panic; the actor discards the session. The comment at line 1063 warns of
  exactly that in `advance_clean`.
* `abi_ack`. An edit intent that changes nothing keeps a receipt at the
  revision its caller already knows. The next ordered edit at that revision
  drops the receipt (`V4/flark_abi/src/implementation.rs:608`), though the
  comment above says that a caller that lost the reply cannot submit that
  revision.

Met while modelling, without a run:

* `V3/v3_endpoint.rs:951` says that a rapid edit recovers the base of the
  candidate it supersedes; while another cleanup is unfinished and no base is
  retained, `cancel_for_edit` refuses (`V3/v3_candidate_endpoint.rs:1655`), and
  the edit poisons the runtime instead. The client is told and can recover.
* A recovered endpoint (`V3/v3_endpoint.rs:788`) keeps a candidate whose
  `closing` was set by the drain (`V3/v3_candidate_endpoint.rs:7669`) and is
  never reset, so its next start is refused as Busy (1724).
* `V4/flark_runtime/src/actor.rs:411` says that shutdown never falls back to a
  bare drop of the session; `close` at 413 returns at its first error, as it
  does for a session a panic left in mid-transition, and drops it undrained.
* `V4/flark_abi/src/implementation.rs:1715` says that completed progress clears
  the stored token, so that the session reads as idle; a create that is ready
  at once answers Complete with the token it stored at 1617 still there.

## 6. What is not modelled

* How comrak and the V4 recogniser read Markdown, the extraction in Rust and
  the projections: functions of a text, with no state between calls. The
  models keep what a caller can observe of them: how long, what they own, how
  they fail.
* Which candidate texts each structural command tries; the attempt they all
  end in is modelled with an arbitrary candidate. The same holds of V4 edit
  intents.
* The V3 host store, the wires, the viewport and hot-inline lanes, and the V4
  arena with its trees, journals and codecs. They are most of the legacy lines:
  data structures whose correctness is about contents rather than about
  orderings. The host's answers are arbitrary in `Endpoint`.
* Of the V4 ABI: negotiation, validation of records, several sessions on one
  registry, progressive opening calls, read-only queries, UTF-8 and UTF-16.
* Generality of the V4 ABI's calls that no property turns on: the selection an
  edit asks for is one anchor at the end of its replacement, where the code takes
  any base and extent; intents need an anchor of downward affinity, where
  `ToggleTaskChecked` takes any; every edit stays within `MaxBytes`, where replays
  and intents are not bounded by `max_document_bytes`; and an error of the actor
  that loses a staged transaction is not an outcome. The session is already the
  largest instance that is explored.
* Layout, painting, gestures, themes, highlighting, generated code.
* Platform input (a value the platform repeats, `controller.dart:230`; windows
  with CRLF, `input_context.dart:166`), the transports (a trapped instance,
  `backend_web.dart:288`; capacity at the u32 limit, `parser_memory.dart:36`)
  and the hosts' clipboard and resource sessions (the document changes while
  the clipboard is awaited, `flark_flutter/lib/src/editor.dart:809`): planned.

## 7. Plan

Done, in this order: `HistoryOps` and `History` with proofs; `SharedBackend`
refining `LeaseContract` with proofs; `Editor`; `Session` with proofs;
`Reader`; `Registry`; `CandidateOps` and `Endpoint`; `Document`;
`AbiHistoryOps` and `AbiSession`; `ImagePreview`; the proofs of `Reader`,
`Registry`, `Document`, `ImagePreview` and `Editor`, with the action properties of
`History`; the proofs of `Endpoint` and `AbiSession`. Every safety property the runs check is
now a theorem, but for `NeverWaits` (section 4).

Next to model: sessions and readers over `SharedBackend`; the input context's
CRLF windows as functions against "the edit applied to the document, other CRs
kept"; the hosts' clipboard over `Editor`; buffer growth and the replaced Wasm
instance; the viewport lane of the V3 candidate; the V4 progressive opening
calls.
