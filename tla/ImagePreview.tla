---------------------------- MODULE ImagePreview -----------------------------
(***************************************************************************)
(* Image previews of the terminal host: each mounted preview downloads and *)
(* decodes the image of its uri under a token of its own, and all of them  *)
(* share one queue with a few decoders (image_previews.dart,               *)
(* image_decode.dart and its two platforms).                               *)
(*                                                                         *)
(* A step is what runs between two awaits: a callback, or the rest of an   *)
(* async function after the future it waits for.  A load is named by its   *)
(* preview and the epoch it was started in.                                *)
(*                                                                         *)
(* PreviewSpec, PreviewTypeOK and the like carry the module's name because *)
(* DisplayProofs extends it together with Reader.                          *)
(***************************************************************************)
EXTENDS Integers, Sequences, FiniteSets, SequencesExt

CONSTANTS Previews,   \* mounted preview widgets
          MaxActive,  \* maxActive
          MaxQueued,  \* maxQueued
          MaxEpoch    \* bound: loads of each preview

ASSUME PreviewAssumption ==
    /\ MaxActive \in Nat \ {0} /\ MaxQueued \in Nat \ {0}
    /\ MaxEpoch \in [Previews -> Nat]

Loads == UNION {{p} \X (1 .. MaxEpoch[p]) : p \in Previews}

VARIABLES
    browser,  \* the platform the program is built for: promises or isolates
    epoch,    \* _epoch of each preview
    mounted,  \* whether its state is mounted
    shown,    \* what it shows, and the epoch that put it there
    load,     \* the loads: the caller, the loader, the token, the job
    queue,    \* PreviewDecodeQueue._queue
    active    \* PreviewDecodeQueue._active

previewVars == <<browser, epoch, mounted, shown, load, queue, active>>

-----------------------------------------------------------------------------
(* A load.  `caller` is _load, which waits with a timeout; `loader` is     *)
(* loadPreviewImage; `job` is the job and its run; `isolate` is the worker *)
(* of a native job and `answer` the completer it reports to.               *)

NoLoad == [caller |-> "none", loader |-> "none", cancelled |-> FALSE,
           job |-> "none", done |-> 0, isolate |-> "none", answer |-> "open"]

RunningLoads == {l \in Loads : load[l].job \in {"decoding", "leaving"}}

\* A worker that exists and was not told to stop.
Working(x) == x.isolate \in {"started", "known"}

PreviewInit ==
    /\ browser \in BOOLEAN
    /\ epoch = [p \in Previews |-> 0]
    /\ mounted = [p \in Previews |-> TRUE]
    /\ shown = [p \in Previews |-> [what |-> "nothing", of |-> 0]]
    /\ load = [l \in Loads |-> NoLoad]
    /\ queue = <<>> /\ active = 0

\* Mutant: a job that already runs is completed too.
CancelledTwice(x) ==
    IF x.cancelled THEN x ELSE
    [x EXCEPT !.cancelled = TRUE,
              !.job = IF @ = "queued" THEN "failed" ELSE @,
              !.done = IF x.job \in {"queued", "decoding"} THEN @ + 1 ELSE @,
              !.answer = IF x.job = "decoding" /\ ~browser /\ @ = "open" THEN "bad" ELSE @,
              !.isolate = IF x.job = "decoding" /\ @ = "known" THEN "gone" ELSE @]

\* The token is cancelled and calls its listeners: a queued job leaves the queue
\* and fails; a native decoder is killed if it is known by then.
Cancelled(x) ==
    IF x.cancelled THEN x ELSE
    [x EXCEPT !.cancelled = TRUE,
              !.job = IF @ = "queued" THEN "failed" ELSE @,
              !.done = IF x.job = "queued" THEN @ + 1 ELSE @,
              !.answer = IF x.job = "decoding" /\ ~browser /\ @ = "open" THEN "bad" ELSE @,
              !.isolate = IF x.job = "decoding" /\ @ = "known" THEN "gone" ELSE @]

\* Mutant: a cancelled job keeps its place in the queue.
LeaveStays(l) == queue

\* _queue.remove(job).
Leave(l) == RemoveFirst(queue, l)

-----------------------------------------------------------------------------
(* The widget: initState, didUpdateWidget, dispose.                        *)

Started(http) ==
    IF http THEN [NoLoad EXCEPT !.caller = "waiting", !.loader = "download"]
            ELSE [NoLoad EXCEPT !.caller = "over"]

\* _load up to its await; the load before it is cancelled.  A uri that is not
\* http shows the error at once.
Load(p, http) ==
    LET e == epoch[p] + 1
        old == <<p, epoch[p]>>
    IN
    /\ mounted[p] /\ e <= MaxEpoch[p]
    /\ epoch' = [epoch EXCEPT ![p] = e]
    /\ load' = [l \in Loads |-> IF l = old THEN Cancelled(load[l])
                               ELSE IF l = <<p, e>> THEN Started(http)
                               ELSE load[l]]
    /\ queue' = Leave(old)
    /\ shown' = [shown EXCEPT ![p] =
                   [what |-> IF http THEN "nothing" ELSE "error", of |-> e]]
    /\ UNCHANGED <<browser, mounted, active>>

DisposePreview(p) ==
    LET old == <<p, epoch[p]>> IN
    /\ mounted[p] /\ epoch[p] > 0
    /\ mounted' = [mounted EXCEPT ![p] = FALSE]
    /\ epoch' = [epoch EXCEPT ![p] = @ + 1]
    /\ load' = [load EXCEPT ![old] = Cancelled(@)]
    /\ queue' = Leave(old)
    /\ UNCHANGED <<browser, shown, active>>

\* Mutant: the answer is shown whatever happened meanwhile.
ShowAnyway(l, what) ==
    shown' = [shown EXCEPT ![l[1]] = [what |-> what, of |-> l[2]]]

\* setState, if the widget is mounted and still in the epoch of the load.
Show(l, what) ==
    shown' = IF mounted[l[1]] /\ epoch[l[1]] = l[2]
             THEN [shown EXCEPT ![l[1]] = [what |-> what, of |-> l[2]]]
             ELSE shown

\* Mutant: a load that ends leaves its token alone.
FinishForgets(l, what) ==
    /\ Show(l, what)
    /\ load' = [load EXCEPT ![l].caller = "over"]
    /\ UNCHANGED <<browser, epoch, mounted, queue, active>>

\* The rest of _load: the loader has answered, or 15 seconds have passed.
Finish(l, what) ==
    /\ Show(l, what)
    /\ load' = [load EXCEPT ![l] = [Cancelled(@) EXCEPT !.caller = "over"]]
    /\ queue' = Leave(l)
    /\ UNCHANGED <<browser, epoch, mounted, active>>

LoaderAnswered(l) ==
    /\ load[l].caller = "waiting" /\ load[l].loader \in {"ok", "failed"}
    /\ Finish(l, IF load[l].loader = "ok" THEN "image" ELSE "error")

TimedOut(l) ==
    /\ load[l].caller = "waiting" /\ load[l].loader \in {"download", "decode"}
    /\ Finish(l, "error")

-----------------------------------------------------------------------------
(* The queue.                                                              *)

\* The jobs that start: the oldest ones, as many as there are free slots.
Drained(ld, q, n) ==
    LET free == MaxActive - n
        k == IF Len(q) < free THEN Len(q) ELSE free
        starting == {q[i] : i \in 1 .. k}
    IN /\ load' = [l \in Loads |->
                     IF l \in starting
                     THEN [ld[l] EXCEPT !.job = "decoding",
                                        !.isolate = IF browser THEN "none" ELSE "starting"]
                     ELSE ld[l]]
       /\ queue' = SubSeq(q, k + 1, Len(q))
       /\ active' = n + k

\* The download ends.  A token that was cancelled, a refused response or a
\* full queue end the load; otherwise its bytes become a job.
Downloaded(l, good) ==
    LET go == good /\ ~load[l].cancelled /\ Len(queue) < MaxQueued IN
    /\ load[l].loader = "download"
    /\ IF go
       THEN Drained([load EXCEPT ![l].loader = "decode", ![l].job = "queued"],
                    Append(queue, l), active)
       ELSE /\ load' = [load EXCEPT ![l].loader = "failed"]
            /\ UNCHANGED <<queue, active>>
    /\ UNCHANGED <<browser, epoch, mounted, shown>>

\* The rest of _run: the job is completed, its slot given back, the next starts.
Leaves(l) ==
    LET x == load[l]
        ok == x.answer = "ok" /\ ~x.cancelled
    IN
    /\ x.job = "leaving"
    /\ Drained([load EXCEPT ![l].job = IF ok THEN "ok" ELSE "failed",
                            ![l].done = @ + 1, ![l].answer = "open"],
               queue, active - 1)
    /\ UNCHANGED <<browser, epoch, mounted, shown>>

\* The rest of loadPreviewImage.
Decoded(l) ==
    /\ load[l].loader = "decode" /\ load[l].job \in {"ok", "failed"}
    /\ load' = [load EXCEPT ![l].loader = load[l].job]
    /\ UNCHANGED <<browser, epoch, mounted, shown, queue, active>>

-----------------------------------------------------------------------------
(* decodePreviewPlatform with isolates.                                    *)

Decoding(l) == load[l].job = "decoding"

\* The isolate starts, before the caller of spawn hears of it.
IsolateStarts(l) ==
    /\ ~browser /\ Decoding(l) /\ load[l].isolate = "starting"
    /\ load' = [load EXCEPT ![l].isolate = "started"]
    /\ UNCHANGED <<browser, epoch, mounted, shown, queue, active>>

\* It sends its result and exits, or dies.
IsolateAnswers(l, good) ==
    /\ ~browser /\ Decoding(l) /\ Working(load[l]) /\ load[l].answer = "open"
    /\ load' = [load EXCEPT ![l].answer = IF good THEN "ok" ELSE "bad"]
    /\ UNCHANGED <<browser, epoch, mounted, shown, queue, active>>

\* The await of spawn ends; a load cancelled meanwhile kills the isolate now.
Spawned(l) ==
    /\ ~browser /\ Decoding(l) /\ load[l].isolate = "started"
    /\ load' = [load EXCEPT ![l].isolate = IF load[l].cancelled THEN "gone" ELSE "known"]
    /\ UNCHANGED <<browser, epoch, mounted, shown, queue, active>>

\* The result is there: the finally block kills the isolate and closes the port.
PlatformEnds(l) ==
    /\ ~browser /\ Decoding(l)
    /\ load[l].answer # "open" /\ load[l].isolate \in {"known", "gone"}
    /\ load' = [load EXCEPT ![l].job = "leaving", ![l].isolate = "gone"]
    /\ UNCHANGED <<browser, epoch, mounted, shown, queue, active>>

SpawnFails(l) ==
    /\ ~browser /\ Decoding(l) /\ load[l].isolate = "starting"
    /\ load' = [load EXCEPT ![l].job = "leaving", ![l].isolate = "gone",
                            ![l].answer = "bad"]
    /\ UNCHANGED <<browser, epoch, mounted, shown, queue, active>>

\* In a browser nothing hears the cancellation: the promise that is pending
\* settles, and the token is checked then.
PromiseSettles(l, good) ==
    /\ browser /\ Decoding(l)
    /\ load' = [load EXCEPT ![l].job = "leaving",
                            ![l].answer = IF good /\ ~load[l].cancelled THEN "ok" ELSE "bad"]
    /\ UNCHANGED <<browser, epoch, mounted, shown, queue, active>>

-----------------------------------------------------------------------------
Platform(l) ==
    \/ IsolateStarts(l) \/ Spawned(l) \/ PlatformEnds(l) \/ SpawnFails(l)
    \/ \E good \in BOOLEAN : PromiseSettles(l, good)

PreviewNext ==
    \/ \E p \in Previews : (\E http \in BOOLEAN : Load(p, http)) \/ DisposePreview(p)
    \/ \E l \in Loads :
         \/ LoaderAnswered(l) \/ TimedOut(l) \/ Leaves(l) \/ Decoded(l) \/ Platform(l)
         \/ \E good \in BOOLEAN : Downloaded(l, good) \/ IsolateAnswers(l, good)

PreviewSpec == PreviewInit /\ [][PreviewNext]_previewVars

\* The event loop runs what is ready, a timer fires, a spawn succeeds or fails
\* and a promise settles; a download may hang and an isolate may never answer.
\* The steps of each of the two groups follow one another.
PreviewFairSpec ==
    /\ PreviewSpec
    /\ \A l \in Loads :
         /\ WF_previewVars(LoaderAnswered(l) \/ TimedOut(l))
         /\ WF_previewVars(Platform(l) \/ Leaves(l) \/ Decoded(l))

-----------------------------------------------------------------------------
(* Properties.                                                             *)

\* What every reachable state keeps.  A job is completed once, whatever the order of
\* its answer, the cancellation and the timeout: completing a Completer again throws.
\* The slots in use are the jobs that run, and no isolate that was not told to stop
\* outlives the slot of its job, so the decoders really are bounded by maxActive.
ImageInv ==
    /\ browser \in BOOLEAN
    /\ epoch \in [Previews -> Nat] /\ mounted \in [Previews -> BOOLEAN]
    /\ shown \in [Previews -> [what : {"nothing", "image", "error"}, of : Nat]]
    /\ load \in [Loads ->
          [caller : {"none", "waiting", "over"},
           loader : {"none", "download", "decode", "ok", "failed"},
           cancelled : BOOLEAN,
           job : {"none", "queued", "decoding", "leaving", "ok", "failed"},
           done : 0 .. 1,
           isolate : {"none", "starting", "started", "known", "gone"},
           answer : {"open", "ok", "bad"}]]
    /\ queue \in Seq(Loads) /\ active \in 0 .. MaxActive
    /\ \A l \in Loads : load[l].done = IF load[l].job \in {"ok", "failed"} THEN 1 ELSE 0
    /\ active = Cardinality(RunningLoads)
    /\ \A l \in Loads : Working(load[l]) => l \in RunningLoads

\* The queue has only jobs that someone waits for, none of them while a slot is
\* free, and never more than its limit.
QueueIsLive ==
    /\ Len(queue) <= MaxQueued
    /\ ToSet(queue) = {l \in Loads : load[l].job = "queued"}
    /\ Cardinality(ToSet(queue)) = Len(queue)
    /\ \A l \in ToSet(queue) : ~load[l].cancelled
    /\ queue # <<>> => active = MaxActive

\* A mounted preview shows nothing but the outcome of its own uri: an image or an
\* error of an earlier load that arrives late is dropped.
ShowsItsUri ==
    \A p \in Previews : mounted[p] => shown[p].of = epoch[p]

\* Every load ends, also when the download hangs; and a slot comes back, also from a
\* decoder that never answers and from a load that is cancelled while its isolate is
\* being spawned, so every job leaves the queue.
Progress ==
    \A l \in Loads :
        /\ load[l].caller = "waiting" ~> load[l].caller = "over"
        /\ load[l].job \in {"queued", "decoding"} ~> load[l].job \in {"ok", "failed"}
=============================================================================
