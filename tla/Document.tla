------------------------------ MODULE Document ------------------------------
(***************************************************************************)
(* One document of the V4 engine: the DocumentSession state machine        *)
(* (flark_runtime/src/document.rs), the source and arena bookkeeping of the*)
(* DocumentRuntime it drives (flark_engine/src/document.rs) and the actor  *)
(* thread that owns it (flark_runtime/src/actor.rs).                       *)
(*                                                                         *)
(* A source version is a revision and the number of transport pages it     *)
(* holds.  Parser objects are known by the version they parse, the work    *)
(* they still need and the arena roots they own; what they compute is not  *)
(* modelled.  A pump is given one work unit, so a pump of n units is n     *)
(* steps that no other call separates.                                     *)
(***************************************************************************)
EXTENDS Naturals, Sequences

CONSTANTS
    MaxEdits,     \* bound: edit calls the clients make
    MaxPages,     \* bound: transport pages of a progressive open
    MaxRetired,   \* DocumentRuntimeConfig.max_retired_sources
    Work,         \* work units a parse, and the reclaim of a root, need
    Faults        \* the failures the environment may inject

ASSUME DocumentAssumption ==
    /\ MaxEdits \in Nat
    /\ MaxPages \in Nat
    /\ MaxRetired \in Nat \ {0}
    /\ Work \in Nat \ {0}
    /\ Faults \subseteq {"parse", "adopt", "adoptStart", "fallback",
                         "undrained", "edit", "page", "panic", "pumpClosing"}

VARIABLES
    parser,    \* ParseState: its tag and what the tag owns
    source,    \* the runtime's current source version, or NoVersion
    opening,   \* OpeningState: the store, the load, its certified viewport
    roots,     \* live arena roots: parser objects not yet begun releasing
    pending,   \* reclaims the arena has still to make
    retired,   \* superseded source leases still held
    runtime,   \* DocumentState: "open", "closing" or "closed"
    actor,     \* the actor thread
    reply,     \* the answer to the last call
    edits,     \* edit calls made so far
    dropped    \* how the session was destroyed

vars == <<parser, source, opening, roots, pending, retired, runtime, actor,
          reply, edits, dropped>>

NoVersion == [rev |-> 0, pages |-> 0]

Version == [rev : 0..MaxEdits + 1, pages : 0..MaxPages]

Closing == {"ClosingClean", "ClosingAdoption", "ClosingSession",
            "ClosingRuntime"}

Tags == {"Opening", "Clean", "CancellingClean", "Ready", "Adopting",
         "CancellingAdoption", "ReleasingBaseForTarget",
         "ReleasingBaseForClean", "Closed", "Faulted", "Transition"}
            \cup Closing

Roots == {"build", "base", "target", "early"}

TypeOK ==
    /\ parser \in [tag : Tags, of : Version, left : 0..Work, next : BOOLEAN]
    /\ source \in Version
    /\ opening \in [pages : 0..MaxPages, adopted : 0..MaxPages,
                    poisoned : BOOLEAN, sealRequested : BOOLEAN,
                    sealed : BOOLEAN, finalizing : BOOLEAN,
                    slice : BOOLEAN, early : Version]
    /\ roots \subseteq Roots
    /\ pending \in 0..Work
    /\ retired \in 0..MaxRetired + 1
    /\ runtime \in {"open", "closing", "closed"}
    /\ actor \in {"running", "discard", "draining", "empty", "down"}
    /\ reply \in [is : {"none", "ok", "view", "refused", "fault", "panicked"},
                  of : Version]
    /\ edits \in 0..MaxEdits
    /\ dropped \in {"no", "drained", "bare"}

Say(what) == reply' = [is |-> what, of |-> NoVersion]

State(tag, of, left) == [tag |-> tag, of |-> of, left |-> left, next |-> FALSE]

NoLoad == [pages |-> 0, adopted |-> 0, poisoned |-> FALSE,
           sealRequested |-> FALSE, sealed |-> FALSE, finalizing |-> FALSE,
           slice |-> FALSE, early |-> NoVersion]

First == [rev |-> 1, pages |-> 0]

\* DocumentSession::begin and begin_opening.
Init ==
    /\ \/ parser = State("Clean", First, Work) /\ roots = {"build"}
       \/ parser = State("Opening", First, 0) /\ roots = {}
    /\ source = First
    /\ opening = NoLoad
    /\ pending = 0
    /\ retired = 0
    /\ runtime = "open"
    /\ actor = "running"
    /\ reply = [is |-> "none", of |-> NoVersion]
    /\ edits = 0
    /\ dropped = "no"

-----------------------------------------------------------------------------
(* The runtime and its arena.                                              *)

\* begin_release of a session or a viewport, begin_cancel of a build or an
\* adoption: its roots leave their owner and become reclaims of the arena.
BeginRelease(released) ==
    /\ roots' = roots \ released
    /\ pending' = pending + (IF released \cap roots = {} THEN 0 ELSE Work)

ReleaseBase == BeginRelease({"base"})

\* A build gives up its build session, its writer and its journal; an adoption
\* gives up the target it may have sealed, and keeps its base.
CancelBuild == BeginRelease({"build"})
CancelAdoption == BeginRelease({"target"})

\* poll_release and poll_cancel: one reclaim; complete once none is pending.
Reclaimed == IF pending = 0 THEN 0 ELSE pending - 1

\* DocumentRuntime::begin_close: the live source becomes a retired lease, on
\* the margin kept for close; a second call does nothing.
RuntimeBeginClose ==
    IF runtime = "open"
    THEN /\ runtime' = "closing"
         /\ retired' = retired + 1
         /\ source' = NoVersion
    ELSE UNCHANGED <<runtime, retired, source>>

\* Mutant: only the source lane is asked whether it is empty.
SourceDrained(leases, reclaims) == leases = 0

\* The tail of poll_retirement: a closing runtime is closed once nothing is
\* retired, pending or resident.
RuntimeDrained(leases, reclaims) ==
    /\ leases = 0
    /\ reclaims = 0
    /\ roots = {}

\* poll_retirement(1): one source lease or one arena reclaim.
Retire ==
    \/ retired > 0 /\ retired' = retired - 1 /\ UNCHANGED pending
    \/ pending > 0 /\ pending' = pending - 1 /\ UNCHANGED retired

Retiring == retired > 0 \/ pending > 0

SettleRuntime ==
    runtime' = IF runtime = "closing" /\ RuntimeDrained(retired', pending')
               THEN "closed" ELSE runtime

\* A source edit retires the previous root; refused when the backlog is full.
CanRetire == retired < MaxRetired

NextRevision == [source EXCEPT !.rev = @ + 1]

-----------------------------------------------------------------------------
(* The actor.  A panic is contained; the session is then closed, or just   *)
(* dropped when the panic left the parser in transition.                   *)

Drained == runtime = "closed" /\ RuntimeDrained(retired, pending)

Running == actor = "running"

ActorIdle == UNCHANGED <<actor, dropped>>

\* A parser object that still owns roots asserts in its destructor: the panic
\* leaves ParseState::Transition, which close() refuses.
Panics ==
    /\ Say("panicked")
    /\ parser' = State("Transition", NoVersion, 0)
    /\ actor' = "empty"
    /\ dropped' = "bare"
    /\ UNCHANGED <<source, opening, roots, pending, retired, runtime, edits>>

\* An error of a pump: the parser object falls out of scope.
Fails(owned) ==
    IF owned = {}
    THEN /\ Say("fault")
         /\ parser' = State("Faulted", NoVersion, 0)
         /\ ActorIdle
         /\ UNCHANGED <<source, opening, roots, pending, retired, runtime,
                        edits>>
    ELSE Panics

-----------------------------------------------------------------------------
(* pump(1): retirement first, then one transition of the parser.           *)

\* begin_clean_build over the current source.
StartClean ==
    /\ parser' = State("Clean", source, Work)
    /\ roots' = roots \cup {"build"}

\* advance_clean.  A build that fails is cancelled and drained here, or, when
\* its reclaims take too many turns, forgotten with the reclaims pending.
PumpClean ==
    \/ /\ parser.of # source \/ "parse" \in Faults
       /\ Say("fault")
       /\ parser' = State("Faulted", NoVersion, 0)
       /\ roots' = roots \ {"build"}
       /\ \/ UNCHANGED pending
          \/ "undrained" \in Faults /\ pending' = pending + Work
    \/ /\ parser.of = source
       /\ parser.left > 0
       /\ Say("ok")
       /\ parser' = [parser EXCEPT !.left = @ - 1]
       /\ UNCHANGED <<roots, pending>>
    \/ /\ parser.of = source
       /\ parser.left = 0
       /\ Say("ok")
       /\ parser' = State("Ready", parser.of, 0)
       /\ roots' = (roots \ {"build"}) \cup {"base"}
       /\ UNCHANGED pending

\* Mutant: the drained build is kept instead of being replaced.
CancellingCleanStays ==
    /\ Say("ok")
    /\ parser' = [parser EXCEPT !.left = IF @ > 0 THEN @ - 1 ELSE @]
    /\ UNCHANGED <<roots, pending>>

\* A cancelled build first drains its own index, then the arena; pump has
\* retired whatever was pending, so the poll that follows completes.
PumpCancellingClean ==
    /\ Say("ok")
    /\ IF parser.left > 0
       THEN parser' = [parser EXCEPT !.left = @ - 1] /\ UNCHANGED roots
       ELSE StartClean
    /\ UNCHANGED pending

\* Adopting, when the poll succeeds: work on the target, completion, or the
\* answer that only a clean build can serve this edit.
PumpAdopting ==
    /\ parser.of = source
    /\ Say("ok")
    /\ \/ /\ parser.left > 0
          /\ parser' = [parser EXCEPT !.left = @ - 1]
          /\ roots' = roots \cup {"target"}
          /\ UNCHANGED pending
       \/ /\ parser.left = 0
          /\ parser' = State("ReleasingBaseForTarget", parser.of, 0)
          /\ ReleaseBase
       \/ /\ "fallback" \in Faults
          /\ parser' = State("CancellingAdoption", NoVersion, 0)
          /\ CancelAdoption

PumpReleasing ==
    /\ Say("ok")
    /\ \/ /\ parser.tag = "CancellingAdoption"
          /\ parser' = State("ReleasingBaseForClean", NoVersion, 0)
          /\ ReleaseBase
       \/ /\ parser.tag = "ReleasingBaseForTarget"
          /\ parser' = State("Ready", parser.of, 0)
          /\ roots' = (roots \ {"target"}) \cup {"base"}
          /\ UNCHANGED pending
       \/ /\ parser.tag = "ReleasingBaseForClean"
          /\ StartClean
          /\ UNCHANGED pending

-----------------------------------------------------------------------------
(* A progressive open: pages are admitted to the store while the parser    *)
(* works on the text it has adopted; the first slice may be certified.     *)

\* certify_first_slice_candidate may or may not certify the slice.
Certify(slice, version) ==
    IF slice THEN {NoVersion, version} ELSE {NoVersion}

HoldEarly(early) ==
    roots' = (roots \ {"early"}) \cup (IF early = NoVersion THEN {} ELSE {"early"})

\* M11ProgressiveOpenSession::poll with parser work left: the poll that
\* captures the first slice also tries to certify it.
OpeningScan ==
    /\ parser.left > 0
    /\ parser' = [parser EXCEPT !.left = @ - 1]
    /\ UNCHANGED source
    /\ \/ UNCHANGED <<opening, roots>>
       \/ /\ ~opening.slice /\ ~opening.sealed
          /\ \E early \in Certify(TRUE, source) :
                /\ opening' = [opening EXCEPT !.slice = TRUE, !.early = early]
                /\ HoldEarly(early)

Starved == parser.left = 0 /\ ~opening.sealed

\* Starved with pages outstanding: they are adopted together, the previous
\* replica is retired and drained, and the viewport is certified anew.
OpeningAdopt ==
    /\ Starved
    /\ opening.pages # opening.adopted
    /\ source' = [source EXCEPT !.pages = opening.pages]
    /\ \E early \in Certify(opening.slice, source') :
          /\ opening' = [opening EXCEPT !.adopted = opening.pages,
                                        !.sealed = opening.sealRequested,
                                        !.early = early]
          /\ HoldEarly(early)
    /\ \E left \in (IF opening.sealRequested THEN {Work} ELSE {0, Work}) :
          parser' = State("Opening", source', left)

\* Starved with everything adopted: seal if asked to, otherwise wait.
OpeningStarved ==
    /\ Starved
    /\ opening.pages = opening.adopted
    /\ UNCHANGED source
    /\ \E early \in (IF opening.early = NoVersion
                      THEN Certify(opening.slice, source)
                      ELSE {opening.early}) :
          /\ opening' = [opening EXCEPT !.sealed = opening.sealRequested,
                                        !.early = early]
          /\ HoldEarly(early)
    /\ parser' = IF opening.sealRequested
                 THEN [parser EXCEPT !.left = Work] ELSE parser

\* The sealed text is parsed: the compact parse is released (finalizing), and
\* then the ordinary clean build begins.
OpeningComplete ==
    /\ parser.left = 0
    /\ opening.sealed
    /\ UNCHANGED source
    /\ IF opening.finalizing
       THEN StartClean /\ UNCHANGED <<opening, pending>>
       ELSE /\ opening' = [opening EXCEPT !.finalizing = TRUE,
                                          !.slice = FALSE,
                                          !.early = NoVersion]
            /\ BeginRelease({"early"})
            /\ UNCHANGED parser

PumpOpening ==
    /\ Say("ok")
    /\ \/ (OpeningScan \/ OpeningAdopt \/ OpeningStarved) /\ UNCHANGED pending
       \/ OpeningComplete

-----------------------------------------------------------------------------
\* What the parser object still owns when an error drops it.  A cancelled
\* build asserts until its own index is drained.
Owned ==
    IF parser.tag = "ClosingClean" /\ parser.left > 0
    THEN {"build"} ELSE roots

Pump ==
    /\ Running
    /\ \/ /\ parser.tag = "Faulted"
          /\ Say("fault")
          /\ UNCHANGED <<parser, source, opening, roots, pending, retired,
                         runtime, edits>>
          /\ ActorIdle
       \/ /\ parser.tag \in Tags \ ({"Faulted", "Closed"} \cup Closing)
          /\ Retiring
          /\ Retire
          /\ Say("ok")
          /\ ActorIdle
          /\ UNCHANGED <<parser, source, opening, roots, runtime, edits>>
       \/ /\ ~Retiring
          /\ \/ parser.tag = "Clean" /\ PumpClean /\ UNCHANGED <<opening, source>>
             \/ /\ parser.tag = "CancellingClean"
                /\ PumpCancellingClean
                /\ UNCHANGED <<opening, source>>
             \/ parser.tag = "Adopting" /\ PumpAdopting /\ UNCHANGED <<opening, source>>
             \/ PumpReleasing /\ UNCHANGED <<opening, source>>
             \/ parser.tag = "Opening" /\ PumpOpening
             \/ /\ parser.tag = "Ready"
                /\ Say("ok")
                /\ UNCHANGED <<parser, opening, source, roots, pending>>
          /\ ActorIdle
          /\ UNCHANGED <<retired, runtime, edits>>

\* A pump whose poll fails outside the clean build: the adoption (its target
\* is not current, or the parser errs), or the progressive open.
PumpError ==
    /\ Running
    /\ ~Retiring
    /\ \/ parser.tag = "Adopting" /\ (parser.of # source \/ "adopt" \in Faults)
       \/ parser.tag = "Opening" /\ ~opening.finalizing /\ "parse" \in Faults
    /\ Fails(Owned)

\* pump while closing: retirement still runs, then Busy faults the session.
PumpClosing ==
    /\ Running
    /\ "pumpClosing" \in Faults
    /\ parser.tag \in Closing \cup {"Closed"}
    /\ IF Retiring
       THEN /\ Retire
            /\ SettleRuntime
            /\ Say("ok")
            /\ ActorIdle
            /\ UNCHANGED <<parser, source, opening, roots, edits>>
       ELSE Fails(Owned)

-----------------------------------------------------------------------------
(* The load's own calls.                                                   *)

\* opening_append_page: a page the store rejects poisons it.
AppendPage ==
    /\ Running
    /\ \/ /\ parser.tag = "Opening" /\ ~opening.sealRequested
          /\ ~opening.poisoned /\ opening.pages < MaxPages
          /\ Say("ok")
          /\ opening' = [opening EXCEPT !.pages = @ + 1]
       \/ /\ parser.tag = "Opening" /\ ~opening.sealRequested
          /\ opening.poisoned \/ "page" \in Faults
          /\ Say("refused")
          /\ opening' = [opening EXCEPT !.poisoned = TRUE]
       \/ /\ parser.tag # "Opening" \/ opening.sealRequested
          /\ Say("refused")
          /\ UNCHANGED opening
    /\ ActorIdle
    /\ UNCHANGED <<parser, source, roots, pending, retired, runtime, edits>>

\* seal_opening.
SealOpening ==
    /\ Running
    /\ IF parser.tag = "Opening"
       THEN Say("ok") /\ opening' = [opening EXCEPT !.sealRequested = TRUE]
       ELSE Say("refused") /\ UNCHANGED opening
    /\ ActorIdle
    /\ UNCHANGED <<parser, source, roots, pending, retired, runtime, edits>>

-----------------------------------------------------------------------------
(* apply_edit.                                                             *)

EditKeeps == UNCHANGED <<parser, source, opening, roots, pending, retired>>

\* Mutant: the source is replaced before its capacity is checked.
EditSourceFirst ==
    /\ source' = NextRevision
    /\ IF CanRetire
       THEN retired' = retired + 1 /\ Say("ok")
       ELSE UNCHANGED retired /\ Say("refused")

\* The runtime takes the edit, or refuses it and keeps its source.
EditSource ==
    \/ /\ CanRetire
       /\ source' = NextRevision
       /\ retired' = retired + 1
       /\ Say("ok")
    \/ /\ ~CanRetire \/ "edit" \in Faults
       /\ UNCHANGED <<source, retired>>
       /\ Say("refused")

\* A ready base starts a local adoption of the edit, or is released for a
\* clean build when no restart point serves it; a refusal keeps it ready.
EditReady ==
    /\ EditSource
    /\ UNCHANGED opening
    /\ \/ /\ source' = source
          /\ UNCHANGED <<parser, roots, pending>>
       \/ /\ source' # source
          /\ \/ /\ parser' = State("Adopting", source', Work)
                /\ UNCHANGED <<roots, pending>>
             \/ /\ "adoptStart" \in Faults
                /\ parser' = State("ReleasingBaseForClean", NoVersion, 0)
                /\ ReleaseBase

\* Mutant: the build goes on over the text it began with.
EditBuildingGoesOn ==
    /\ EditSource
    /\ parser.tag \in {"Clean", "CancellingClean"}
    /\ UNCHANGED <<opening, parser, roots, pending>>

\* While building, the work in progress is cancelled first, whatever the
\* source then says of the edit.
EditBuilding ==
    /\ EditSource
    /\ UNCHANGED opening
    /\ \/ /\ parser.tag = "Clean"
          /\ parser' = State("CancellingClean", NoVersion, Work)
          /\ CancelBuild
       \/ /\ parser.tag = "Adopting"
          /\ parser' = State("CancellingAdoption", NoVersion, 0)
          /\ CancelAdoption
       \/ /\ parser.tag \in {"CancellingClean", "CancellingAdoption",
                             "ReleasingBaseForClean"}
          /\ UNCHANGED <<parser, roots, pending>>

\* The store refuses an edit once a page has poisoned it, or out of its range.
StoreRefuses == opening.poisoned \/ "edit" \in Faults

\* apply_opening_edit: the load restarts from the edited store, on a new
\* runtime; the old one is drained here.  A refusal by the store comes after
\* the parser was released, and faults the session.
EditOpening ==
    \/ "edit" \in Faults /\ EditKeeps /\ Say("refused")
    \/ /\ StoreRefuses
       /\ Say("fault")
       /\ parser' = State("Faulted", NoVersion, 0)
       /\ opening' = [opening EXCEPT !.early = NoVersion]
       /\ roots' = roots \ {"early"}
       /\ UNCHANGED <<source, pending, retired>>
    \/ /\ ~opening.poisoned
       /\ Say("ok")
       /\ source' = [rev |-> source.rev + 1, pages |-> opening.pages]
       /\ opening' = [NoLoad EXCEPT !.pages = opening.pages,
                                    !.adopted = opening.pages,
                                    !.sealRequested = opening.sealRequested]
       /\ \E left \in {0, Work} : parser' = State("Opening", source', left)
       /\ roots' = roots \ {"early"}
       /\ pending' = 0
       /\ retired' = 0

\* Tags in which an edit is answered Busy.
EditBusy == Closing \cup {"Closed", "ReleasingBaseForTarget"}

EditAt ==
    \/ parser.tag = "Opening" /\ EditOpening
    \/ parser.tag = "Ready" /\ EditReady
    \/ parser.tag \notin EditBusy \cup {"Opening", "Ready", "Faulted"} /\ EditBuilding
    \/ parser.tag \in EditBusy /\ EditKeeps /\ Say("refused")
    \/ parser.tag = "Faulted" /\ EditKeeps /\ Say("fault")

Edit(expected) ==
    /\ Running
    /\ edits < MaxEdits
    /\ edits' = edits + 1
    /\ IF expected = source.rev THEN EditAt ELSE EditKeeps /\ Say("refused")
    /\ ActorIdle
    /\ UNCHANGED runtime

\* query_viewport at the current revision.
Query ==
    /\ Running
    /\ reply' = IF parser.tag = "Ready"
                THEN [is |-> "view", of |-> parser.of]
                ELSE IF /\ parser.tag = "Opening"
                        /\ opening.early # NoVersion
                        /\ opening.early = source
                THEN [is |-> "view", of |-> opening.early]
                ELSE [is |-> IF parser.tag = "Faulted" THEN "fault" ELSE "refused",
                      of |-> NoVersion]
    /\ ActorIdle
    /\ UNCHANGED <<parser, source, opening, roots, pending, retired, runtime,
                   edits>>

-----------------------------------------------------------------------------
(* Close.                                                                  *)

KeepRuntime == UNCHANGED <<source, retired, runtime>>

\* begin_close, when it succeeds.
BeginCloseStep ==
    \/ /\ parser.tag \in {"Opening", "Faulted"}
       /\ parser' = State("ClosingRuntime", NoVersion, 0)
       /\ opening' = [opening EXCEPT !.early = NoVersion]
       /\ roots' = roots \ {"early"}
       /\ UNCHANGED pending
       /\ RuntimeBeginClose
    \/ /\ KeepRuntime
       /\ UNCHANGED opening
       /\ \/ /\ parser.tag = "Clean"
             /\ parser' = State("ClosingClean", NoVersion, Work)
             /\ CancelBuild
          \/ /\ parser.tag = "Ready"
             /\ parser' = State("ClosingSession", NoVersion, 0)
             /\ ReleaseBase
          \/ /\ parser.tag = "Adopting"
             /\ parser' = State("ClosingAdoption", NoVersion, 0)
             /\ CancelAdoption
          \/ /\ UNCHANGED <<roots, pending>>
             /\ \/ /\ parser.tag = "CancellingClean"
                   /\ parser' = State("ClosingClean", NoVersion, parser.left)
                \/ /\ parser.tag = "CancellingAdoption"
                   /\ parser' = State("ClosingAdoption", NoVersion, 0)
                \/ /\ parser.tag = "ReleasingBaseForClean"
                   /\ parser' = State("ClosingSession", NoVersion, 0)
                \/ /\ parser.tag = "ReleasingBaseForTarget"
                   /\ parser' = [State("ClosingSession", NoVersion, 0)
                                    EXCEPT !.next = TRUE]

CloseRefused == Closing \cup {"Closed", "Transition"}

BeginClose ==
    /\ Running
    /\ IF parser.tag \in CloseRefused
       THEN /\ Say("refused")
            /\ UNCHANGED <<parser, opening, roots, pending>>
            /\ KeepRuntime
       ELSE Say("ok") /\ BeginCloseStep
    /\ ActorIdle
    /\ UNCHANGED edits

\* The parser is gone: the runtime begins to close.
CloseRuntime ==
    /\ parser' = State("ClosingRuntime", NoVersion, 0)
    /\ RuntimeBeginClose

\* advance_close_one.
CloseUnit ==
    /\ UNCHANGED opening
    /\ \/ /\ parser.tag = "ClosingClean"
          /\ UNCHANGED roots
          /\ IF parser.left > 0
             THEN /\ parser' = [parser EXCEPT !.left = @ - 1]
                  /\ UNCHANGED pending
                  /\ KeepRuntime
             ELSE /\ pending' = Reclaimed
                  /\ IF Reclaimed = 0 THEN CloseRuntime
                     ELSE UNCHANGED parser /\ KeepRuntime
       \/ /\ parser.tag = "ClosingAdoption"
          /\ KeepRuntime
          /\ IF Reclaimed = 0
             THEN /\ parser' = State("ClosingSession", NoVersion, 0)
                  /\ roots' = roots \ {"base"}
                  /\ pending' = Work
             ELSE pending' = Reclaimed /\ UNCHANGED <<parser, roots>>
       \/ /\ parser.tag = "ClosingSession"
          /\ IF Reclaimed > 0
             THEN /\ pending' = Reclaimed
                  /\ UNCHANGED <<parser, roots>>
                  /\ KeepRuntime
             ELSE IF parser.next
             THEN /\ parser' = [parser EXCEPT !.next = FALSE]
                  /\ roots' = roots \ {"target"}
                  /\ pending' = Work
                  /\ KeepRuntime
             ELSE pending' = 0 /\ UNCHANGED roots /\ CloseRuntime
       \/ /\ parser.tag = "ClosingRuntime"
          /\ UNCHANGED <<source, roots>>
          /\ IF runtime # "closed" /\ Retiring
             THEN Retire ELSE UNCHANGED <<retired, pending>>
          /\ SettleRuntime
          /\ parser' = IF runtime' = "closed"
                       THEN State("Closed", NoVersion, 0) ELSE parser

PumpClose ==
    /\ Running
    /\ IF parser.tag \in Closing
       THEN CloseUnit /\ Say("ok")
       ELSE /\ Say(IF parser.tag = "Closed" THEN "ok" ELSE "refused")
            /\ UNCHANGED <<parser, opening, roots, pending>>
            /\ KeepRuntime
    /\ ActorIdle
    /\ UNCHANGED edits

-----------------------------------------------------------------------------
(* The actor's own steps.                                                  *)

\* An operation that panics without touching the parser state, such as a
\* query: the reply is Panicked and the session is discarded.
Contained ==
    /\ Running
    /\ "panic" \in Faults
    /\ Say("panicked")
    /\ actor' = "discard"
    /\ UNCHANGED <<parser, source, opening, roots, pending, retired, runtime,
                   edits, dropped>>

\* A panic inside pump, which leaves the parser in transition.
PumpPanics ==
    /\ Running
    /\ "panic" \in Faults
    /\ ~Retiring
    /\ parser.tag \notin {"Ready", "Faulted", "Closed"} \cup Closing
    /\ Panics

\* Drop for DocumentActor.
Shutdown ==
    /\ actor \in {"running", "empty"}
    /\ actor' = IF Running THEN "discard" ELSE "down"
    /\ UNCHANGED <<parser, source, opening, roots, pending, retired, runtime,
                   reply, edits, dropped>>

\* Any call on a session that was discarded.
CallEmpty ==
    /\ actor = "empty"
    /\ Say("panicked")
    /\ UNCHANGED <<parser, source, opening, roots, pending, retired, runtime,
                   actor, edits, dropped>>

\* discard: close() begins the close; refused, the session is just dropped.
DiscardBegin ==
    /\ actor = "discard"
    /\ UNCHANGED <<reply, edits>>
    /\ IF parser.tag \in CloseRefused
       THEN /\ actor' = IF reply.is = "panicked" THEN "empty" ELSE "down"
            /\ dropped' = IF Drained THEN "drained" ELSE "bare"
            /\ UNCHANGED <<parser, opening, roots, pending>>
            /\ KeepRuntime
       ELSE /\ actor' = "draining"
            /\ UNCHANGED dropped
            /\ BeginCloseStep

DiscardPump ==
    /\ actor = "draining"
    /\ UNCHANGED <<reply, edits>>
    /\ IF parser.tag = "Closed"
       THEN /\ actor' = IF reply.is = "panicked" THEN "empty" ELSE "down"
            /\ dropped' = "drained"
            /\ UNCHANGED <<parser, opening, roots, pending>>
            /\ KeepRuntime
       ELSE CloseUnit /\ UNCHANGED <<actor, dropped>>

Next ==
    \/ Pump \/ PumpError \/ PumpClosing
    \/ AppendPage \/ SealOpening
    \/ \E expected \in 0..MaxEdits + 1 : Edit(expected)
    \/ Query
    \/ BeginClose \/ PumpClose
    \/ Contained \/ PumpPanics
    \/ Shutdown \/ CallEmpty \/ DiscardBegin \/ DiscardPump

Spec == Init /\ [][Next]_vars

(***************************************************************************)
(* Fairness: the host pumps a document until it is ready and pump_closes   *)
(* one it has begun to close; the actor thread, once it discards a session,*)
(* runs.  Nothing is promised of edits, pages, seal or shutdown.           *)
(***************************************************************************)
FairSpec ==
    /\ Spec
    /\ WF_vars(Pump)
    /\ WF_vars(PumpClose /\ parser.tag \in Closing)
    /\ WF_vars(DiscardBegin \/ DiscardPump)

-----------------------------------------------------------------------------
(* Safety.                                                                 *)

\* What the parser is working on, or has finished and is about to publish, is
\* the runtime's current source: an edit that arrives at any phase of a build,
\* an adoption or a release cancels the work it makes obsolete (apply_edit).
WorkIsCurrent ==
    /\ parser.tag \in {"Clean", "Adopting", "ReleasingBaseForTarget", "Ready"}
          => parser.of = source
    /\ opening.early # NoVersion => opening.early = source

\* The roots alive in the arena are exactly those the parser state will
\* release: no transition of pump, apply_edit or close forgets one.
OwnedRoots ==
    /\ parser.tag = "Clean" => roots = {"build"}
    /\ parser.tag = "Adopting" => roots \in {{"base"}, {"base", "target"}}
    /\ parser.tag \in {"Ready", "CancellingAdoption", "ClosingAdoption"} => roots = {"base"}
    /\ parser.tag = "ReleasingBaseForTarget" => roots = {"target"}
    /\ parser.tag = "ClosingSession" => roots = IF parser.next THEN {"target"} ELSE {}
    /\ parser.tag = "Opening" => roots = IF opening.early = NoVersion THEN {} ELSE {"early"}
    /\ parser.tag \in {"CancellingClean", "ReleasingBaseForClean", "ClosingClean",
                       "ClosingRuntime", "Closed", "Faulted"} => roots = {}

\* A session that reports Closed, or that the actor took care to drain before
\* it let go of it, has released everything: the source, the retired leases,
\* the reclaims and every root, whichever phase it was in when the close began,
\* including a fault whose reclaims were left pending.
ClosedIsDrained ==
    parser.tag = "Closed" \/ dropped = "drained" =>
       /\ runtime = "closed" /\ source = NoVersion
       /\ retired = 0 /\ pending = 0 /\ roots = {}

\* No page the store admitted is missing from the document the load hands to
\* the clean build, and the hand-over waits for the seal.
NoPageLost ==
    parser.tag \in {"Clean", "CancellingClean", "Ready", "Adopting",
                   "CancellingAdoption", "ReleasingBaseForClean",
                   "ReleasingBaseForTarget"} =>
       source.pages = opening.pages /\ (opening.pages > 0 => opening.sealRequested)

\* The retired leases never exceed the configured limit by more than the one
\* that begin_close takes on its reserved margin.
BacklogBounded ==
    retired <= MaxRetired + (IF runtime = "open" THEN 0 ELSE 1)

\* What every call, pump and discard keeps, in every phase of the parse.
DocumentInv ==
    TypeOK /\ WorkIsCurrent /\ OwnedRoots /\ NoPageLost /\ BacklogBounded

\* A view answers for the source as it is when the answer is given: no reply
\* shows facts of a revision or a load generation that has been superseded.
ViewIsCurrent ==
    reply'.is = "view" /\ Running' => reply'.of = source' /\ source' # NoVersion

\* An edit that is refused leaves the document's text as it was, and one that
\* is accepted is the next revision, with every page admitted so far.
EditIsAtomic ==
    edits' # edits =>
       IF reply'.is = "ok"
       THEN source' = [rev |-> source.rev + 1, pages |-> opening.pages]
       ELSE source' = source

\* What a caller is told is so, of a view and of an edit, in every phase.
AnswersAreTrue == [][ViewIsCurrent /\ EditIsAtomic]_vars

\* An error of the parser reaches the caller as a typed fault; it never stops
\* the session with a contained panic (the comment of advance_clean).
FaultIsTyped == reply.is # "panicked"

-----------------------------------------------------------------------------
(* Liveness.                                                               *)

\* While the host pumps, a document settles: every edit, in whatever phase it
\* arrived, is followed by a parse of the text it left.
ParseConverges ==
    []<>(\/ ~Running
         \/ parser.tag \in {"Ready", "Faulted", "Closed"} \cup Closing
         \/ parser.tag = "Opening" /\ ~opening.sealRequested)

\* A close that began completes, unless a pump, which has no place there,
\* faults the document first.
CloseCompletes ==
    parser.tag \in Closing /\ Running ~> parser.tag \in {"Closed", "Faulted"} \/ ~Running

\* The owner that drops the actor is not left waiting for its thread, and a
\* contained panic is followed by an actor that answers again.
DiscardEnds == actor \in {"discard", "draining"} ~> actor \in {"empty", "down"}

\* Nothing that was begun is left hanging: parse, close or discard.
Progress == ParseConverges /\ CloseCompletes /\ DiscardEnds
=============================================================================
