------------------------------- MODULE Reader -------------------------------
(***************************************************************************)
(* FlarkReader, packages/flark/lib/src/session/reader.dart: the read-only  *)
(* path.  It opens a document with a leased parser, follows the host's     *)
(* text, and opens again after a failure.                                  *)
(*                                                                         *)
(* As in module Session, listeners run in the middle of a call and may     *)
(* call the reader; stack holds what is in progress, the innermost last.   *)
(* Unlike the session's, an attempt that gets its lease only asks whether  *)
(* the reader is disposed, not whether it is still the latest attempt.     *)
(*                                                                         *)
(* A text the parser refuses is shown as source; only a parser that has    *)
(* stopped working makes update throw.  selection is not kept: select only *)
(* notifies.                                                               *)
(***************************************************************************)
EXTENDS Integers, Sequences

CONSTANTS
    Docs,         \* Markdown texts
    MaxAttempts,  \* model bound: attempts to open
    MaxDepth,     \* model bound: frames under a call
    None          \* null

ASSUME DocsAssumption == None \notin Docs
ASSUME BoundsAssumption == /\ MaxAttempts \in Nat \ {0}
                           /\ MaxDepth \in Nat
                           /\ None \notin Nat

VARIABLES
    status, markdown,
    document,   \* the text _document shows, or None
    lease,      \* _lease: the attempt it was lent to, or None
    attempt,    \* which attempt _attempt and _ready belong to
    ready,      \* the future of each attempt: "open", "ok" or "error"
    loads,      \* the call of the loader each attempt makes
    leases,     \* the lease each of them got
    stack       \* the calls in progress

display == <<status, markdown, document>>
opening == <<lease, attempt, ready, loads, leases>>
vars == <<display, opening, stack>>

Attempts == 1 .. MaxAttempts

Frame(at, arg) == [at |-> at, arg |-> arg]

Top == stack[Len(stack)]
Under == SubSeq(stack, 1, Len(stack) - 1)
Running == IF stack = <<>> THEN "none" ELSE Top.at

\* Application code runs: none of the reader's, or a listener.
MayCall == Running \in {"none", "notify"} /\ Len(stack) <= MaxDepth

\* _notify, and what is left of the call once the listeners return.
Notify(rest) == stack' = Append(rest, Frame("notify", None))

NotifyReturns == /\ Running = "notify"
                 /\ stack' = Under
                 /\ UNCHANGED <<display, opening>>

-----------------------------------------------------------------------------
(* What the host calls.                                                    *)

\* update while there is no document: it will be opened with the new text.
UpdateEarly(d) ==
    /\ MayCall /\ status \in {"loading", "failed"} /\ d # markdown
    /\ markdown' = d
    /\ Notify(stack)
    /\ UNCHANGED <<status, document, opening>>

Update(d) ==
    /\ MayCall /\ status = "ready" /\ d # markdown
    /\ markdown' = d
    /\ document' = d
    /\ Notify(stack)
    /\ UNCHANGED <<status, opening>>

\* fault: the reader goes on as if the text had been taken
UpdateThrowsUnnoticed(d) ==
    /\ MayCall /\ status = "ready" /\ d # markdown
    /\ markdown' = d
    /\ Notify(stack)
    /\ UNCHANGED <<status, document, opening>>

\* The parser has stopped working: the lease is kept until retry or dispose.
UpdateThrows(d) ==
    /\ MayCall /\ status = "ready" /\ d # markdown
    /\ markdown' = d
    /\ status' = "failed"
    /\ Notify(stack)
    /\ UNCHANGED <<document, opening>>

Select == /\ MayCall /\ status = "ready"
          /\ Notify(stack)
          /\ UNCHANGED <<display, opening>>

\* A completer is completed only if it is not completed yet.
Complete(a, how) == [ready EXCEPT ![a] = IF @ = "open" THEN how ELSE @]

GiveBack == [a \in Attempts |-> IF a = lease THEN "disposed" ELSE leases[a]]

\* fault: a second attempt beside the one that loads
StartOverlapping ==
    /\ MayCall /\ status \in {"failed", "loading"} /\ attempt < MaxAttempts
    /\ leases' = GiveBack
    /\ lease' = None
    /\ document' = None
    /\ attempt' = attempt + 1
    /\ UNCHANGED <<markdown, ready>>

\* retry up to the call of the loader.
Start == /\ MayCall /\ status = "failed" /\ attempt < MaxAttempts
         /\ leases' = GiveBack
         /\ lease' = None
         /\ document' = None
         /\ attempt' = attempt + 1
         /\ UNCHANGED <<markdown, ready>>

\* The loader returns a future and retry notifies,
Retry == /\ Start
         /\ status' = "loading"
         /\ loads' = [loads EXCEPT ![attempt + 1] = "running"]
         /\ Notify(stack)

\* or it throws at once: that is published, then retry notifies again.
RetryThrows == /\ Start
               /\ status' = "failed"
               /\ Notify(stack \o <<Frame("again", None), Frame("failed", attempt + 1)>>)
               /\ UNCHANGED loads

\* dispose has cleared the listeners.
NotifyAgain == /\ Running = "again"
               /\ IF status = "disposed" THEN stack' = Under ELSE Notify(Under)
               /\ UNCHANGED <<display, opening>>

\* Nobody is notified.
Dispose ==
    /\ MayCall /\ status # "disposed"
    /\ status' = "disposed"
    /\ ready' = Complete(attempt, "error")
    /\ document' = None
    /\ leases' = GiveBack
    /\ lease' = None
    /\ UNCHANGED <<markdown, attempt, loads, stack>>

-----------------------------------------------------------------------------
(* What the loader answers.                                                *)

Answered(a) == /\ stack = <<>> /\ loads[a] = "running"
               /\ loads' = [loads EXCEPT ![a] = "done"]
               /\ UNCHANGED <<markdown, attempt>>

\* The catch block, after the lease was disposed.
Fail(a) ==
    IF status = "disposed"
    THEN ready' = Complete(a, "error") /\ UNCHANGED <<status, stack>>
    ELSE /\ status' = "failed"
         /\ Notify(Append(stack, Frame("failed", a)))
         /\ UNCHANGED ready

LoadFails(a) == /\ Answered(a)
                /\ Fail(a)
                /\ UNCHANGED <<document, lease, leases>>

LateLease(a) ==
    /\ Answered(a) /\ status = "disposed"
    /\ leases' = [leases EXCEPT ![a] = "disposed"]
    /\ ready' = Complete(a, "error")
    /\ UNCHANGED <<status, document, lease, stack>>

\* The text of now is opened, whatever it was when the attempt began.
Opens(a) ==
    /\ Answered(a) /\ status # "disposed"
    /\ lease' = a
    /\ leases' = [leases EXCEPT ![a] = "held"]
    /\ document' = markdown
    /\ status' = "ready"
    /\ Notify(Append(stack, Frame("opened", a)))
    /\ UNCHANGED ready

\* The first parse throws: _lease, set before it, is cleared again.
OpenThrows(a) ==
    /\ Answered(a) /\ status # "disposed"
    /\ leases' = [leases EXCEPT ![a] = "disposed"]
    /\ lease' = None
    /\ Fail(a)
    /\ UNCHANGED document

Outcome == IF Top.at = "opened" THEN "ok" ELSE "error"

\* fault: an overtaken attempt does not answer
AttemptEndsIfLatest ==
    /\ Running \in {"opened", "failed"}
    /\ ready' = IF Top.arg = attempt THEN Complete(Top.arg, Outcome) ELSE ready
    /\ stack' = Under
    /\ UNCHANGED <<display, lease, attempt, loads, leases>>

\* Its listeners told, the attempt completes its own future.
AttemptEnds ==
    /\ Running \in {"opened", "failed"}
    /\ ready' = Complete(Top.arg, Outcome)
    /\ stack' = Under
    /\ UNCHANGED <<display, lease, attempt, loads, leases>>

-----------------------------------------------------------------------------

\* After the constructor: the loader has been called, or has thrown.
Init ==
    /\ markdown \in Docs /\ document = None
    /\ status \in {"loading", "failed"}
    /\ lease = None /\ attempt = 1
    /\ ready = [a \in Attempts |-> IF a = 1 /\ status = "failed" THEN "error" ELSE "open"]
    /\ loads = [a \in Attempts |-> IF a = 1 /\ status = "loading" THEN "running" ELSE "none"]
    /\ leases = [a \in Attempts |-> "none"]
    /\ stack = <<>>

Calls == \/ \E d \in Docs : UpdateEarly(d) \/ Update(d) \/ UpdateThrows(d)
         \/ Select \/ Retry \/ RetryThrows \/ Dispose

Answer(a) == LoadFails(a) \/ LateLease(a) \/ Opens(a) \/ OpenThrows(a)

Next == \/ Calls
        \/ NotifyReturns \/ NotifyAgain \/ AttemptEnds
        \/ \E a \in Attempts : Answer(a)

Spec == Init /\ [][Next]_vars

\* The listeners of each publication return, though they may make calls of
\* their own first; the reader's own code runs on and the loader answers.
Fairness == /\ \A n \in 1 .. MaxDepth + 4 : SF_vars(Len(stack) = n /\ NotifyReturns)
            /\ WF_vars(NotifyAgain) /\ WF_vars(AttemptEnds)
            /\ \A a \in Attempts : SF_vars(Answer(a))

FairSpec == Spec /\ Fairness

-----------------------------------------------------------------------------
(* Properties.                                                             *)

\* No future is completed twice: that would throw in the middle of a call.
TypeOK ==
    /\ status \in {"loading", "ready", "failed", "disposed"}
    /\ markdown \in Docs /\ document \in Docs \cup {None}
    /\ lease \in Attempts \cup {None} /\ attempt \in Attempts
    /\ ready \in [Attempts -> {"open", "ok", "error"}]
    /\ loads \in [Attempts -> {"none", "running", "done"}]
    /\ leases \in [Attempts -> {"none", "held", "disposed"}]
    /\ stack \in Seq([at : {"notify", "again", "opened", "failed"},
                      arg : Attempts \cup {None}])

\* A reader that is ready shows the host's latest text, given before or
\* after it opened, or from within a notification.
ShowsLatest == status = "ready" => document = markdown

\* There is never more than the one lease the reader holds, none while it
\* loads or once it is disposed, and one whenever it shows a document.
OneLease ==
    /\ \A a \in Attempts : leases[a] = "held" <=> lease = a
    /\ status \in {"loading", "disposed"} => lease = None /\ document = None
    /\ status = "ready" => lease # None

\* What _start leaves unchecked never happens: a load under way belongs to
\* the latest attempt, of a reader that is loading or was disposed.
NoOverlap ==
    \A a \in Attempts : loads[a] = "running" => a = attempt /\ status \in {"loading", "disposed"}

\* Between calls the future the reader hands out agrees with its status,
\* however an attempt was overtaken from within its own publication.
ReadyAgrees ==
    stack = <<>> => /\ status = "ready" => ready[attempt] = "ok"
                    /\ status = "loading" => ready[attempt] = "open"
                    /\ status \in {"failed", "disposed"} => ready[attempt] # "open"

\* What holds of the reader at every moment, inside a notification too.
ReaderInv == TypeOK /\ OneLease /\ NoOverlap /\ ReadyAgrees

\* A disposed reader stays so, and neither shows nor holds anything.
DisposedIsFinal ==
    [][status = "disposed" => status' = "disposed" /\ document' = None /\ lease' = None]_vars

\* Every attempt is answered.
AttemptsSettle == \A a \in Attempts : attempt >= a ~> ready[a] # "open"

\* After disposal every lease goes back, the late one included.
LeasesReturned ==
    status = "disposed" ~> \A a \in Attempts : loads[a] # "running" /\ leases[a] # "held"

\* Disposal is final and nothing is owed for ever: every attempt to open is
\* answered, and after disposal every lease has gone back.
Settles == DisposedIsFinal /\ AttemptsSettle /\ LeasesReturned

=============================================================================
