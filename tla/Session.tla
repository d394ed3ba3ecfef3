------------------------------ MODULE Session -------------------------------
(***************************************************************************)
(* FlarkSession, packages/flark/lib/src/session/session.dart: opening a    *)
(* document with a leased parser, publishing its state to listeners,       *)
(* reporting edits on the changes stream, and disposal.                    *)
(*                                                                         *)
(* Publishing is synchronous and listeners may call the session again, so  *)
(* one call can be in the middle of many.  stack holds what is in          *)
(* progress, the innermost last: a "notify" frame is a publication whose   *)
(* listeners are running, a "send" frame the loop that reports changes,    *)
(* the others what their method does once its publication is over.         *)
(* A call is made from outside, when the stack is empty, or by a listener. *)
(*                                                                         *)
(* The editor is the source it holds; module Editor says how a call        *)
(* changes it, and that a call that publishes nothing changes nothing.     *)
(* Left out: the attached owner, the host's command handler and resource   *)
(* presenter, and expectedRevision, which only refuses calls.              *)
(***************************************************************************)
EXTENDS Integers, Sequences

CONSTANTS
    Docs,         \* Markdown sources
    Refused,      \* those flarkSourceRefusal refuses
    MaxAttempts,  \* model bound: attempts to open
    MaxRevision,  \* model bound: changes of the document
    MaxDepth,     \* model bound: frames under a call
    None          \* null

ASSUME DocsAssumption == Refused \subseteq Docs /\ None \notin Docs
ASSUME BoundsAssumption == /\ MaxAttempts \in Nat \ {0}
                           /\ {MaxRevision, MaxDepth} \subseteq Nat
                           /\ None \notin Nat

VARIABLES
    status, markdown, revision, error,
    editor,           \* the source of _editor, or None
    lease,            \* _lease: the attempt it was lent to, or None
    attempt,          \* which attempt _attempt belongs to
    pendingChanges, loadingDocument, publicationDepth, sendingChanges,
    closed,           \* whether the changes stream is closed
    state,            \* _state, as last published
    ready,            \* the future of each attempt: "open", "ok" or "error"
    loads,            \* the call of the loader that each attempt makes
    leases,           \* the lease each of them got
    stack,            \* the calls in progress
    edits, heard      \* what was edited, and what changes has reported

document == <<status, markdown, revision, error, editor, loadingDocument>>
opening  == <<attempt, ready, loads, lease, leases>>
changes  == <<pendingChanges, sendingChanges, closed, heard>>
vars == <<document, opening, changes, publicationDepth, state, stack, edits>>

Attempts == 1 .. MaxAttempts

Frame(at, arg) == [at |-> at, arg |-> arg]

\* The innermost frame, which runs, and those under it.
Top == stack[Len(stack)]
Under == SubSeq(stack, 1, Len(stack) - 1)
Running == IF stack = <<>> THEN "none" ELSE Top.at

\* Whether application code runs now: none of the session's, or a listener.
Listening == Running \in {"none", "notify", "send"}

MayCall == Listening /\ Len(stack) <= MaxDepth

Current == [markdown |-> markdown, revision |-> revision, status |-> status,
            error |-> error, editor |-> status = "ready"]

-----------------------------------------------------------------------------
(* Publishing.                                                             *)

\* _publish up to its listeners; `rest' is what follows the publication.
Publish(rest) ==
    /\ state' = Current'
    /\ publicationDepth' = publicationDepth + 1
    /\ stack' = Append(rest, Frame("notify", None))

Deliver ==
    /\ heard' = Append(heard, Head(pendingChanges))
    /\ pendingChanges' = Tail(pendingChanges)
    /\ UNCHANGED closed

HasChange == pendingChanges # <<>> /\ ~closed

\* The end of _publish, when the listeners have been told: the outermost
\* publication starts to report changes.
NotifyReturns ==
    /\ Running = "notify"
    /\ publicationDepth' = publicationDepth - 1
    /\ IF publicationDepth = 1 /\ ~sendingChanges /\ HasChange
       THEN /\ Deliver
            /\ sendingChanges' = TRUE
            /\ stack' = Append(Under, Frame("send", None))
       ELSE stack' = Under /\ UNCHANGED changes
    /\ UNCHANGED <<document, opening, state, edits>>

\* The loop goes on once those who hear of a change return.
SendNext ==
    /\ Running = "send"
    /\ IF HasChange THEN Deliver /\ UNCHANGED <<sendingChanges, stack>>
                    ELSE /\ sendingChanges' = FALSE
                         /\ stack' = Under
                         /\ UNCHANGED <<pendingChanges, closed, heard>>
    /\ UNCHANGED <<document, opening, publicationDepth, state, edits>>

-----------------------------------------------------------------------------
(* Editing and loading.                                                    *)

\* fault: edits made while a load is published count as loaded
EditedStillLoading(d, rest) ==
    /\ editor' = d
    /\ markdown' = d
    /\ revision' = revision + 1
    /\ pendingChanges' = IF ~loadingDocument /\ markdown # d
                         THEN Append(pendingChanges, d) ELSE pendingChanges
    /\ UNCHANGED <<loadingDocument, status, error>>
    /\ Publish(rest)

\* _edited, which the editor calls once its source is d.
Edited(d, rest) ==
    /\ editor' = d
    /\ markdown' = d
    /\ revision' = revision + 1
    /\ pendingChanges' = IF ~loadingDocument /\ markdown # d
                         THEN Append(pendingChanges, d) ELSE pendingChanges
    /\ loadingDocument' = FALSE
    /\ UNCHANGED <<status, error>>
    /\ Publish(rest)

\* command, replaceSourceRange, selectAll or setSourceMode applied, or a
\* host's own call of the editor: to another source or to the same.
Edit(d) ==
    /\ MayCall /\ status = "ready" /\ revision < MaxRevision
    /\ d \notin Refused
    /\ Edited(d, stack)
    /\ edits' = IF d # markdown THEN Append(edits, d) ELSE edits
    /\ UNCHANGED <<opening, sendingChanges, closed, heard>>

\* loadMarkdown without an editor: the document to open, once one can be.
LoadEarly(d) ==
    /\ MayCall /\ status \in {"loading", "failed"} /\ revision < MaxRevision
    /\ d \notin Refused
    /\ markdown' = d
    /\ revision' = revision + 1
    /\ UNCHANGED <<status, error, editor, loadingDocument, opening, changes, edits>>
    /\ Publish(stack)

\* loadMarkdown of an open session calls the editor,
LoadMarkdown(d) ==
    /\ MayCall /\ status = "ready" /\ revision < MaxRevision
    /\ d \notin Refused
    /\ loadingDocument' = TRUE
    /\ stack' = Append(Append(stack, Frame("load", None)), Frame("editor", d))
    /\ UNCHANGED <<status, markdown, revision, error, editor, opening, changes,
                   publicationDepth, state, edits>>

\* which loads it,
EditorLoads ==
    /\ Running = "editor"
    /\ Edited(Top.arg, Under)
    /\ UNCHANGED <<opening, sendingChanges, closed, heard, edits>>

\* or refuses it or throws,
EditorRefuses ==
    /\ Running = "editor"
    /\ stack' = Under
    /\ UNCHANGED <<document, opening, changes, publicationDepth, state, edits>>

\* and returns.
LoadReturns ==
    /\ Running = "load"
    /\ loadingDocument' = FALSE
    /\ stack' = Under
    /\ UNCHANGED <<status, markdown, revision, error, editor, opening, changes,
                   publicationDepth, state, edits>>

-----------------------------------------------------------------------------
(* Opening.                                                                *)

\* retryLoading, and _start up to its publication.
Retry ==
    /\ MayCall /\ status = "failed" /\ attempt < MaxAttempts
    /\ attempt' = attempt + 1
    /\ IF markdown \in Refused
       THEN /\ status' = "failed" /\ error' = TRUE
            /\ UNCHANGED <<markdown, revision, editor, loadingDocument>>
            /\ Publish(Append(stack, Frame("failed", attempt + 1)))
       ELSE /\ status' = "loading" /\ error' = FALSE
            /\ UNCHANGED <<markdown, revision, editor, loadingDocument>>
            /\ Publish(Append(stack, Frame("start", attempt + 1)))
    /\ UNCHANGED <<ready, loads, lease, leases, changes, edits>>

\* The loader is asked for a lease, whatever listeners have done meanwhile.
CallLoader ==
    /\ Running = "start"
    /\ loads' = [loads EXCEPT ![Top.arg] = "running"]
    /\ stack' = Under
    /\ UNCHANGED <<document, attempt, ready, lease, leases, changes,
                   publicationDepth, state, edits>>

\* Whether attempt a is no longer the one to finish.
Overtaken(a) == status = "disposed" \/ attempt # a

\* The catch block of attempt a, its lease put away.
Fail(a, rest) ==
    IF Overtaken(a)
    THEN /\ stack' = rest
         /\ UNCHANGED <<document, publicationDepth, state>>
    ELSE /\ status' = "failed" /\ error' = TRUE
         /\ UNCHANGED <<markdown, revision, editor, loadingDocument>>
         /\ Publish(Append(rest, Frame("failed", a)))

\* The loader throws as it is called,
LoaderThrows ==
    /\ Running = "start"
    /\ Fail(Top.arg, Under)
    /\ UNCHANGED <<opening, changes, edits>>

\* or its future fails.
LoadFails(a) ==
    /\ stack = <<>> /\ loads[a] = "running"
    /\ loads' = [loads EXCEPT ![a] = "done"]
    /\ Fail(a, stack)
    /\ UNCHANGED <<attempt, ready, lease, leases, changes, edits>>

\* fault: it is put away without being disposed
LateLeaseDropped(a) ==
    /\ stack = <<>> /\ loads[a] = "running" /\ Overtaken(a)
    /\ loads' = [loads EXCEPT ![a] = "done"]
    /\ leases' = [leases EXCEPT ![a] = "held"]
    /\ UNCHANGED <<document, attempt, ready, lease, changes, publicationDepth,
                   state, stack, edits>>

\* The lease comes too late: it is disposed.
LateLease(a) ==
    /\ stack = <<>> /\ loads[a] = "running" /\ Overtaken(a)
    /\ loads' = [loads EXCEPT ![a] = "done"]
    /\ leases' = [leases EXCEPT ![a] = "disposed"]
    /\ UNCHANGED <<document, attempt, ready, lease, changes, publicationDepth,
                   state, stack, edits>>

\* fault: opens whether or not the session is still there
OpensAnyway(a) ==
    /\ stack = <<>> /\ loads[a] = "running"
    /\ loads' = [loads EXCEPT ![a] = "done"]
    /\ lease' = a
    /\ leases' = [leases EXCEPT ![a] = "held"]
    /\ editor' = markdown
    /\ status' = "ready"
    /\ UNCHANGED <<markdown, revision, error, loadingDocument>>
    /\ Publish(Append(stack, Frame("opened", a)))
    /\ UNCHANGED <<attempt, ready, changes, edits>>

\* The lease comes and the document opens,
Opens(a) ==
    /\ stack = <<>> /\ loads[a] = "running" /\ ~Overtaken(a)
    /\ loads' = [loads EXCEPT ![a] = "done"]
    /\ lease' = a
    /\ leases' = [leases EXCEPT ![a] = "held"]
    /\ editor' = markdown
    /\ status' = "ready"
    /\ UNCHANGED <<markdown, revision, error, loadingDocument>>
    /\ Publish(Append(stack, Frame("opened", a)))
    /\ UNCHANGED <<attempt, ready, changes, edits>>

\* fault: the lease of a document that does not open is kept
OpenThrowsKeepsLease(a) ==
    /\ stack = <<>> /\ loads[a] = "running" /\ ~Overtaken(a)
    /\ loads' = [loads EXCEPT ![a] = "done"]
    /\ leases' = [leases EXCEPT ![a] = "held"]
    /\ lease' = None
    /\ Fail(a, stack)
    /\ UNCHANGED <<attempt, ready, changes, edits>>

\* or its first parse throws.
OpenThrows(a) ==
    /\ stack = <<>> /\ loads[a] = "running" /\ ~Overtaken(a)
    /\ loads' = [loads EXCEPT ![a] = "done"]
    /\ leases' = [leases EXCEPT ![a] = "disposed"]
    /\ lease' = None
    /\ Fail(a, stack)
    /\ UNCHANGED <<attempt, ready, changes, edits>>

\* A future is completed once.
Complete(a, how) == [ready EXCEPT ![a] = IF @ = "open" THEN how ELSE @]

\* The attempt's future is completed once its outcome has been published.
AttemptEnds ==
    /\ Running \in {"opened", "failed"}
    /\ ready' = Complete(Top.arg,
                         IF Top.at = "opened" THEN "ok" ELSE "error")
    /\ stack' = Under
    /\ UNCHANGED <<document, attempt, loads, lease, leases, changes,
                   publicationDepth, state, edits>>

-----------------------------------------------------------------------------
(* Disposal.                                                               *)

Dispose ==
    /\ MayCall /\ status # "disposed"
    /\ status' = "disposed"
    /\ editor' = None
    /\ leases' = [a \in Attempts |-> IF a = lease THEN "disposed" ELSE leases[a]]
    /\ lease' = None
    /\ pendingChanges' = <<>>
    /\ ready' = Complete(attempt, "error")
    /\ UNCHANGED <<markdown, revision, error, loadingDocument, attempt, loads,
                   sendingChanges, closed, heard, edits>>
    /\ Publish(Append(stack, Frame("dispose", None)))

\* Within a report of a change the stream is firing, and its close throws.
DisposeReturns ==
    /\ Running = "dispose"
    /\ closed' = ~sendingChanges
    /\ stack' = Under
    /\ UNCHANGED <<document, opening, pendingChanges, sendingChanges, heard,
                   publicationDepth, state, edits>>

-----------------------------------------------------------------------------

\* After the constructor, which has no listeners yet: it has asked for a
\* lease, or refused its document.
Init ==
    /\ markdown \in Docs
    /\ status = IF markdown \in Refused THEN "failed" ELSE "loading"
    /\ error = (markdown \in Refused)
    /\ revision = 0 /\ editor = None /\ loadingDocument = FALSE
    /\ attempt = 1 /\ lease = None
    /\ ready = [a \in Attempts |-> IF a = 1 /\ markdown \in Refused THEN "error" ELSE "open"]
    /\ loads = [a \in Attempts |-> IF a = 1 /\ markdown \notin Refused THEN "running" ELSE "none"]
    /\ leases = [a \in Attempts |-> "none"]
    /\ pendingChanges = <<>> /\ sendingChanges = FALSE /\ closed = FALSE
    /\ heard = <<>> /\ edits = <<>>
    /\ publicationDepth = 0
    /\ state = Current
    /\ stack = <<>>

\* What the application calls.
Calls == \/ \E d \in Docs : Edit(d) \/ LoadEarly(d) \/ LoadMarkdown(d)
         \/ Retry
         \/ Dispose

\* What goes on once the listeners that run return.
Unwind == \/ NotifyReturns \/ SendNext
          \/ EditorLoads \/ EditorRefuses \/ LoadReturns
          \/ CallLoader \/ LoaderThrows
          \/ AttemptEnds \/ DisposeReturns

\* The loader's answer to attempt a.
Answer(a) == LoadFails(a) \/ LateLease(a) \/ Opens(a) \/ OpenThrows(a)

Next == Calls \/ Unwind \/ \E a \in Attempts : Answer(a)

\* A listener returns, after any number of calls of its own; the session's
\* own code runs on, and the loader answers.
Fairness == /\ WF_vars(Unwind)
            /\ SF_vars(NotifyReturns) /\ SF_vars(SendNext)
            /\ \A a \in Attempts : WF_vars(Answer(a))

Spec == Init /\ [][Next]_vars /\ Fairness

-----------------------------------------------------------------------------
(* Properties.                                                             *)

Statuses == {"loading", "ready", "failed", "disposed"}
Labels == {"notify", "send", "editor", "load", "start", "opened", "failed", "dispose"}

TypeOK ==
    /\ status \in Statuses /\ markdown \in Docs /\ revision \in Nat
    /\ error \in BOOLEAN /\ editor \in Docs \cup {None} /\ loadingDocument \in BOOLEAN
    /\ attempt \in Attempts /\ lease \in Attempts \cup {None}
    /\ ready \in [Attempts -> {"open", "ok", "error"}]
    /\ loads \in [Attempts -> {"none", "running", "done"}]
    /\ leases \in [Attempts -> {"none", "held", "disposed"}]
    /\ pendingChanges \in Seq(Docs) /\ heard \in Seq(Docs) /\ edits \in Seq(Docs)
    /\ sendingChanges \in BOOLEAN /\ closed \in BOOLEAN
    /\ publicationDepth \in Nat
    /\ state \in [markdown : Docs, revision : Nat, status : Statuses,
                  error : BOOLEAN, editor : BOOLEAN]
    /\ stack \in Seq([at : Labels, arg : Docs \cup Attempts \cup {None}])

\* Every edit that changes the source is reported once, in order, however
\* edits and loads are nested in each other's notifications; a load never is.
ChangesAreTheEdits ==
    IF status = "disposed" THEN heard = SubSeq(edits, 1, Len(heard))
                           ELSE heard \o pendingChanges = edits

\* Between calls nothing is left over: every change has been reported, and
\* no flag is up that would swallow or hold back the next one.
NothingStuck ==
    stack = <<>> => /\ pendingChanges = <<>>
                    /\ publicationDepth = 0
                    /\ ~sendingChanges /\ ~loadingDocument

\* What was last published is what the session is: a listener that runs
\* after an earlier one has edited, loaded, retried or disposed reads no
\* state the session has left.
ListenersSeeNow == state = Current

\* The session holds exactly the lease it has not disposed, only while it
\* has an editor, and an open session's text is its editor's.
OwnsOneLease ==
    /\ \A a \in Attempts : leases[a] = "held" <=> lease = a
    /\ status = "ready" <=> lease # None
    /\ status = "ready" => editor = markdown
    /\ status # "ready" => editor = None

\* What holds of the session at every moment, inside a nested call too.
SessionInv == TypeOK /\ NothingStuck /\ ListenersSeeNow /\ OwnsOneLease

\* A disposed session stays disposed and holds nothing, though a lease, an
\* error or the end of an interrupted call may still reach it.
DisposedIsFinal ==
    [][status = "disposed" => /\ status' = "disposed"
                              /\ state'.status = "disposed"
                              /\ editor' = None /\ lease' = None
                              /\ heard' = heard]_vars

\* ready completes for every attempt: opened, failed, refused, overtaken by
\* a retry from within its own failure's publication, or disposed.
AttemptsSettle ==
    \A a \in Attempts : attempt >= a ~> ready[a] # "open"

\* After disposal every lease goes back, the late one included.
LeasesReturned ==
    status = "disposed" ~> \A a \in Attempts : loads[a] # "running" /\ leases[a] # "held"

\* Nothing is owed for ever: every attempt to open is answered, and after
\* disposal every lease has gone back.
Settles == AttemptsSettle /\ LeasesReturned

=============================================================================
