---------------------------- MODULE DisplayProofs ---------------------------
(***************************************************************************)
(* Proofs about the two components that only show something.               *)
(*                                                                         *)
(* The reader, for any texts and any number of attempts and nested calls:  *)
(* one lease, no overlapping loads, futures that agree with the status,    *)
(* the latest text shown, and disposal for good.                           *)
(*                                                                         *)
(* The image previews, for any set of previews, any number of loads and    *)
(* any limits of the decode queue: a job is completed once and its slot is *)
(* counted, the queue holds the jobs that are waited for and none while a  *)
(* slot is free, and a preview shows the outcome of its uri.               *)
(***************************************************************************)
EXTENDS Reader, ImagePreview, FiniteSetTheorems, SequenceTheorems, TLAPS

Frames == [at : {"notify", "again", "opened", "failed"}, arg : Attempts \cup {None}]

\* The frames on a stack.
On(s) == {s[i] : i \in 1 .. Len(s)}

\* The calls that will complete the future of an attempt once they go on.
Owes(f, a) == f.at \in {"opened", "failed"} /\ f.arg = a

\* A frame that completes a future completes that of an attempt begun before.
FramesOfAttempts ==
    \A f \in On(stack) : f.at \in {"opened", "failed"} => f.arg \in Attempts /\ f.arg <= attempt

\* Nothing has happened yet to the attempts to come.
Untouched ==
    \A a \in Attempts : a > attempt => ready[a] = "open" /\ loads[a] = "none"

\* The future of the latest attempt agrees with the status, or a frame on the
\* stack will make it agree.
FutureIsOwed ==
    /\ status = "ready" =>
          /\ \/ ready[attempt] = "ok"
             \/ /\ ready[attempt] = "open"
                /\ \E f \in On(stack) : Owes(f, attempt)
          /\ \A f \in On(stack) : ~(f.at = "failed" /\ f.arg = attempt)
    /\ status = "loading" =>
          /\ ready[attempt] = "open"
          /\ \A f \in On(stack) : ~Owes(f, attempt)
    /\ status = "failed" => \/ ready[attempt] # "open"
                            \/ \E f \in On(stack) : Owes(f, attempt)
    /\ status = "disposed" => ready[attempt] # "open"

\* The inductive invariant.
IInv == /\ TypeOK
        /\ FramesOfAttempts
        /\ Untouched
        /\ FutureIsOwed
        /\ OneLease
        /\ NoOverlap
        /\ ShowsLatest

-----------------------------------------------------------------------------
(* The stack.                                                              *)

LEMMA PushFrame ==
    ASSUME NEW s \in Seq(Frames), NEW f \in Frames
    PROVE  /\ Append(s, f) \in Seq(Frames)
           /\ On(Append(s, f)) = On(s) \cup {f}
<1>1. /\ Append(s, f) \in Seq(Frames)
      /\ Len(Append(s, f)) = Len(s) + 1
      /\ \A i \in 1 .. Len(s) : Append(s, f)[i] = s[i]
      /\ Append(s, f)[Len(s) + 1] = f
      /\ Len(s) \in Nat
  BY AppendProperties
<1>2. 1 .. Len(Append(s, f)) = (1 .. Len(s)) \cup {Len(s) + 1}
  BY <1>1
<1>. QED
  BY <1>1, <1>2 DEF On

LEMMA PushTwo ==
    ASSUME NEW s \in Seq(Frames), NEW f \in Frames, NEW g \in Frames
    PROVE  /\ s \o <<f, g>> \in Seq(Frames)
           /\ On(s \o <<f, g>>) = On(s) \cup {f, g}
<1>. DEFINE t == s \o <<f, g>>
<1>1. <<f, g>> \in Seq(Frames) /\ Len(<<f, g>>) = 2 /\ Len(s) \in Nat
  OBVIOUS
<1>2. /\ t \in Seq(Frames)
      /\ Len(t) = Len(s) + 2
      /\ \A i \in 1 .. Len(s) + 2 : t[i] = IF i <= Len(s) THEN s[i] ELSE <<f, g>>[i - Len(s)]
  BY <1>1, ConcatProperties
<1>3. t[Len(s) + 1] = f /\ t[Len(s) + 2] = g /\ \A i \in 1 .. Len(s) : t[i] = s[i]
  BY <1>1, <1>2
<1>4. 1 .. Len(t) = (1 .. Len(s)) \cup {Len(s) + 1, Len(s) + 2}
  BY <1>1, <1>2
<1>. HIDE DEF t
<1>5. On(t) = On(s) \cup {f, g}
  BY <1>3, <1>4 DEF On
<1>. QED
  BY <1>2, <1>5 DEF t

LEMMA FrameFacts ==
    ASSUME NEW at \in {"notify", "again", "opened", "failed"}, NEW arg \in Attempts \cup {None}
    PROVE  Frame(at, arg) \in Frames /\ Frame(at, arg).at = at /\ Frame(at, arg).arg = arg
  BY DEF Frame, Frames

\* A stack that is not empty has a running frame on top of the others.
LEMMA PopFrame ==
    ASSUME stack \in Seq(Frames), Running # "none"
    PROVE  /\ Under \in Seq(Frames)
           /\ Top \in Frames
           /\ Running = Top.at
           /\ On(stack) = On(Under) \cup {Top}
<1>1. stack # <<>> /\ Running = Top.at
  BY DEF Running
<1>2. Len(stack) \in Nat /\ Len(stack) >= 1 /\ Top \in Frames
  BY <1>1 DEF Top
<1>3. /\ Under \in Seq(Frames)
      /\ Len(Under) = IF 1 <= Len(stack) - 1 THEN Len(stack) - 1 - 1 + 1 ELSE 0
      /\ \A i \in 1 .. Len(stack) - 1 - 1 + 1 : Under[i] = stack[1 + i - 1]
  <2>1. \A i \in 1 .. Len(stack) - 1 : stack[i] \in Frames
    BY <1>2
  <2>. QED
    BY <1>2, <2>1, SubSeqProperties DEF Under
<1>4. Len(Under) = Len(stack) - 1
  <2>1. PICK n \in Nat : n = Len(stack) /\ n >= 1
    BY <1>2
  <2>2. Len(Under) = IF 1 <= n - 1 THEN n - 1 - 1 + 1 ELSE 0
    BY <1>3, <2>1, Zenon
  <2>3. (IF 1 <= n - 1 THEN n - 1 - 1 + 1 ELSE 0) = n - 1
    BY <2>1
  <2>. QED
    BY <2>1, <2>2, <2>3
<1>5. \A i \in 1 .. Len(stack) - 1 : Under[i] = stack[i]
  BY <1>2, <1>3
<1>6. 1 .. Len(stack) = (1 .. Len(Under)) \cup {Len(stack)}
  BY <1>2, <1>4
<1>. QED
  BY <1>1, <1>2, <1>3, <1>4, <1>5, <1>6 DEF On, Top

LEMMA StackType == TypeOK => stack \in Seq(Frames)
  BY DEF TypeOK, Frames

-----------------------------------------------------------------------------
(* The steps, one lemma for each kind.                                     *)

LEMMA Initially == Init => IInv
<1>. SUFFICES ASSUME Init PROVE IInv
  OBVIOUS
<1>1. On(stack) = {}
  BY DEF Init, On
<1>2. TypeOK
  BY BoundsAssumption DEF Init, TypeOK, Attempts
<1>3. 1 \in Attempts /\ attempt = 1
  BY BoundsAssumption DEF Init, Attempts
<1>4. FramesOfAttempts /\ Untouched /\ FutureIsOwed
  BY <1>1, <1>3 DEF Init, FramesOfAttempts, Untouched, FutureIsOwed
<1>5. OneLease /\ NoOverlap /\ ShowsLatest
  BY <1>3, BoundsAssumption DEF Init, OneLease, NoOverlap, ShowsLatest, Attempts
<1>. QED
  BY <1>2, <1>4, <1>5 DEF IInv

\* A publication adds nothing that owes an answer.
LEMMA Notified ==
    ASSUME NEW s \in Seq(Frames), Notify(s)
    PROVE  /\ stack' \in Seq(Frames)
           /\ On(stack') = On(s) \cup {Frame("notify", None)}
  BY FrameFacts, PushFrame DEF Notify

\* What holds of the stack when a call or a publication changes nothing but
\* what is shown.
LEMMA Published ==
    ASSUME IInv, Notify(stack)
    PROVE  /\ stack' \in Seq(Frames)
           /\ UNCHANGED attempt => FramesOfAttempts'
           /\ \A a \in Attempts : (\E f \in On(stack) : Owes(f, a)) <=> (\E f \in On(stack)' : Owes(f, a))
           /\ \A f \in On(stack)' : f \in On(stack) \/ f.at = "notify"
<1>1. /\ stack' \in Seq(Frames)
      /\ On(stack') = On(stack) \cup {Frame("notify", None)}
  BY StackType, Notified DEF IInv
<1>2. Frame("notify", None).at = "notify"
  BY FrameFacts
<1>3. On(stack)' = On(stack')
  BY DEF On
<1>. QED
  BY <1>1, <1>2, <1>3 DEF IInv, FramesOfAttempts, Owes

\* A call that publishes and neither opens, retries nor disposes.
LEMMA ShownSteps ==
    ASSUME IInv, NEW d \in Docs, UpdateEarly(d) \/ Update(d) \/ UpdateThrows(d) \/ Select
    PROVE  IInv'
<1>1. Notify(stack) /\ UNCHANGED opening /\ attempt \in Attempts
  BY DEF UpdateEarly, Update, UpdateThrows, Select, IInv, TypeOK
<1>2. TypeOK'
  BY <1>1, Published DEF UpdateEarly, Update, UpdateThrows, Select, IInv, TypeOK, display, opening, Frames
<1>3. FramesOfAttempts' /\ Untouched' /\ NoOverlap'
  BY <1>1, Published DEF UpdateEarly, Update, UpdateThrows, Select, IInv, Untouched, NoOverlap,
                         display, opening
<1>4. FutureIsOwed'
  BY <1>1, Published DEF UpdateEarly, Update, UpdateThrows, Select, IInv, FutureIsOwed,
                         display, opening, Owes
<1>5. OneLease' /\ ShowsLatest'
  BY <1>1 DEF UpdateEarly, Update, UpdateThrows, Select, IInv, OneLease, ShowsLatest,
              display, opening
<1>. QED
  BY <1>2, <1>3, <1>4, <1>5 DEF IInv

\* The next attempt begins: nothing has been answered of it and the lease of
\* the one before has gone back.
LEMMA StartFacts ==
    ASSUME IInv, Start
    PROVE  /\ attempt + 1 \in Attempts /\ attempt' = attempt + 1
           /\ ready[attempt + 1] = "open"
           /\ \A f \in On(stack) : ~Owes(f, attempt + 1)
           /\ \A a \in Attempts : loads[a] # "running"
           /\ leases' \in [Attempts -> {"none", "held", "disposed"}]
           /\ \A a \in Attempts : leases'[a] # "held"
           /\ lease' = None /\ document' = None /\ UNCHANGED <<markdown, ready>>
<1>1. attempt \in Attempts /\ attempt + 1 \in Attempts /\ attempt' = attempt + 1
  BY BoundsAssumption DEF IInv, TypeOK, Start, Attempts
<1>2. /\ leases' \in [Attempts -> {"none", "held", "disposed"}]
      /\ \A a \in Attempts : leases'[a] # "held"
  BY DEF IInv, TypeOK, OneLease, Start, GiveBack
<1>3. ready[attempt + 1] = "open"
  BY <1>1 DEF IInv, Untouched, Attempts
<1>4. \A f \in On(stack) : ~Owes(f, attempt + 1)
  BY <1>1 DEF IInv, FramesOfAttempts, Owes, Attempts
<1>5. \A a \in Attempts : loads[a] # "running"
  BY DEF IInv, NoOverlap, Start
<1>. QED
  BY <1>1, <1>2, <1>3, <1>4, <1>5 DEF Start

LEMMA RetryStep ==
    ASSUME IInv, Retry
    PROVE  IInv'
<1>1. Start /\ Notify(stack)
  BY DEF Retry
<1>2. attempt \in Attempts /\ attempt < attempt + 1 /\ attempt + 1 \in Attempts
  BY <1>1, StartFacts DEF IInv, TypeOK, Attempts
<1>3. TypeOK'
  BY <1>1, <1>2, StartFacts, Published DEF Retry, IInv, TypeOK, Frames
<1>4. FramesOfAttempts'
  BY <1>1, <1>2, StartFacts, Published DEF IInv, FramesOfAttempts, Attempts
<1>5. Untouched'
  <2>1. \A a \in Attempts : a > attempt + 1 => a > attempt /\ a # attempt + 1
    BY <1>2, BoundsAssumption DEF Attempts
  <2>. QED
    BY <1>1, <1>2, <2>1, StartFacts DEF Retry, IInv, TypeOK, Untouched
<1>6. FutureIsOwed'
  BY <1>1, <1>2, StartFacts, Published DEF Retry, FutureIsOwed
<1>7. OneLease' /\ ShowsLatest'
  BY <1>1, <1>2, StartFacts, BoundsAssumption DEF Retry, OneLease, ShowsLatest, Attempts
<1>8. NoOverlap'
  BY <1>1, <1>2, StartFacts DEF Retry, IInv, TypeOK, NoOverlap
<1>. QED
  BY <1>3, <1>4, <1>5, <1>6, <1>7, <1>8 DEF IInv

LEMMA RetryThrowsStep ==
    ASSUME IInv, RetryThrows
    PROVE  IInv'
<1>. DEFINE f == Frame("again", None)
            g == Frame("failed", attempt + 1)
            s == stack \o <<f, g>>
<1>1. Start /\ Notify(s)
  BY DEF RetryThrows
<1>2. attempt \in Attempts /\ attempt < attempt + 1 /\ attempt + 1 \in Attempts
  BY <1>1, StartFacts DEF IInv, TypeOK, Attempts
<1>3. /\ f \in Frames /\ f.at = "again"
      /\ g \in Frames /\ g.at = "failed" /\ g.arg = attempt + 1
  BY <1>2, FrameFacts
<1>4. Frame("notify", None).at = "notify"
  BY FrameFacts
<1>. HIDE DEF f, g
<1>5. s \in Seq(Frames) /\ On(s) = On(stack) \cup {f, g}
  BY <1>3, PushTwo, StackType DEF IInv
<1>. HIDE DEF s
<1>6. stack' \in Seq(Frames) /\ On(stack)' = On(stack) \cup {f, g, Frame("notify", None)}
  <2>1. On(stack)' = On(stack')
    BY DEF On
  <2>. QED
    BY <1>1, <1>5, <2>1, Notified
<1>7. TypeOK'
  BY <1>1, <1>2, <1>6, StartFacts DEF RetryThrows, IInv, TypeOK, Frames
<1>8. FramesOfAttempts'
  BY <1>1, <1>2, <1>3, <1>4, <1>6, StartFacts DEF IInv, FramesOfAttempts, Attempts
<1>9. Untouched'
  <2>1. \A a \in Attempts : a > attempt + 1 => a > attempt /\ a # attempt + 1
    BY <1>2, BoundsAssumption DEF Attempts
  <2>. QED
    BY <1>1, <1>2, <2>1, StartFacts DEF RetryThrows, IInv, TypeOK, Untouched
<1>10. FutureIsOwed'
  BY <1>1, <1>2, <1>3, <1>6, StartFacts DEF RetryThrows, FutureIsOwed, Owes
<1>11. OneLease' /\ ShowsLatest' /\ NoOverlap'
  BY <1>1, <1>2, StartFacts, BoundsAssumption DEF RetryThrows, OneLease, ShowsLatest, NoOverlap, Attempts
<1>. QED
  BY <1>7, <1>8, <1>9, <1>10, <1>11 DEF IInv

LEMMA Completed ==
    ASSUME IInv, NEW a \in Attempts, NEW how \in {"ok", "error"}
    PROVE  /\ Complete(a, how) \in [Attempts -> {"open", "ok", "error"}]
           /\ \A b \in Attempts : b # a => Complete(a, how)[b] = ready[b]
           /\ Complete(a, how)[a] = IF ready[a] = "open" THEN how ELSE ready[a]
  BY DEF IInv, TypeOK, Complete

LEMMA DisposeStep ==
    ASSUME IInv, Dispose
    PROVE  IInv'
<1>1. attempt \in Attempts /\ ready' = Complete(attempt, "error") /\ UNCHANGED <<attempt, stack, loads>>
  BY DEF Dispose, IInv, TypeOK
<1>2. leases' \in [Attempts -> {"none", "held", "disposed"}] /\ \A a \in Attempts : leases'[a] # "held"
  BY DEF Dispose, GiveBack, IInv, TypeOK, OneLease
<1>3. TypeOK'
  BY <1>1, <1>2, Completed DEF Dispose, IInv, TypeOK
<1>4. On(stack)' = On(stack)
  BY <1>1 DEF On
<1>5. FramesOfAttempts' /\ Untouched' /\ FutureIsOwed'
  BY <1>1, <1>4, Completed DEF Dispose, IInv, FramesOfAttempts, Untouched, FutureIsOwed, Attempts
<1>6. OneLease' /\ ShowsLatest' /\ NoOverlap'
  BY <1>1, <1>2, BoundsAssumption DEF Dispose, IInv, OneLease, ShowsLatest, NoOverlap, Attempts
<1>. QED
  BY <1>3, <1>5, <1>6 DEF IInv

\* A frame is taken off the stack.
LEMMA Popped ==
    ASSUME IInv, Running # "none", stack' = Under
    PROVE  /\ stack' \in Seq(Frames)
           /\ On(stack) = On(stack)' \cup {Top}
           /\ Top \in Frames /\ Running = Top.at
<1>1. On(stack)' = On(Under)
  BY DEF On
<1>. QED
  BY <1>1, PopFrame, StackType DEF IInv

\* The listeners have been told: what was owed is still owed.
LEMMA NotifySteps ==
    ASSUME IInv, NotifyReturns \/ NotifyAgain
    PROVE  IInv'
<1>1. /\ UNCHANGED <<display, opening>>
      /\ Running \in {"notify", "again"} /\ Running # "none"
      /\ stack' = Under \/ Notify(Under)
  BY DEF NotifyReturns, NotifyAgain
<1>2. /\ stack' \in Seq(Frames)
      /\ \A f \in On(stack)' : f \in On(stack) \/ f.at = "notify"
      /\ \A f \in On(stack) : f \in On(stack)' \/ f.at \in {"notify", "again"}
  <2>1. CASE stack' = Under
    BY <1>1, <2>1, Popped
  <2>2. CASE Notify(Under)
    <3>1. /\ Under \in Seq(Frames) /\ On(stack) = On(Under) \cup {Top}
          /\ Top.at \in {"notify", "again"}
      BY <1>1, PopFrame, StackType DEF IInv
    <3>2. stack' \in Seq(Frames) /\ On(stack') = On(Under) \cup {Frame("notify", None)}
      BY <2>2, <3>1, Notified
    <3>3. On(stack)' = On(stack') /\ Frame("notify", None).at = "notify"
      BY FrameFacts DEF On
    <3>. QED
      BY <3>1, <3>2, <3>3
  <2>. QED
    BY <1>1, <2>1, <2>2
<1>3. TypeOK'
  BY <1>1, <1>2 DEF IInv, TypeOK, display, opening, Frames
<1>4. FramesOfAttempts' /\ FutureIsOwed'
  BY <1>1, <1>2 DEF IInv, FramesOfAttempts, FutureIsOwed, Owes, display, opening
<1>5. Untouched' /\ OneLease' /\ NoOverlap' /\ ShowsLatest'
  BY <1>1 DEF IInv, Untouched, OneLease, NoOverlap, ShowsLatest, display, opening
<1>. QED
  BY <1>3, <1>4, <1>5 DEF IInv

\* An attempt completes its own future; that of a ready reader's latest
\* attempt only with success.
LEMMA AttemptEndsStep ==
    ASSUME IInv, AttemptEnds
    PROVE  IInv'
<1>1. /\ Running \in {"opened", "failed"} /\ Running # "none" /\ stack' = Under
      /\ UNCHANGED <<display, lease, attempt, loads, leases>>
      /\ ready' = Complete(Top.arg, Outcome)
  BY DEF AttemptEnds
<1>2. /\ stack' \in Seq(Frames)
      /\ On(stack) = On(stack)' \cup {Top}
      /\ Top \in Frames /\ Top.at \in {"opened", "failed"}
  BY <1>1, Popped
<1>3. Top.arg \in Attempts /\ Top.arg <= attempt /\ Outcome \in {"ok", "error"}
  BY <1>2 DEF IInv, FramesOfAttempts, Outcome
<1>4. PICK b \in Attempts : b = Top.arg
  BY <1>3
<1>5. /\ ready' \in [Attempts -> {"open", "ok", "error"}]
      /\ \A c \in Attempts : c # b => ready'[c] = ready[c]
      /\ ready'[b] = IF ready[b] = "open" THEN Outcome ELSE ready[b]
  BY <1>1, <1>3, <1>4, Completed
<1>6. TypeOK'
  BY <1>1, <1>2, <1>5 DEF IInv, TypeOK, display, Frames
<1>7. FramesOfAttempts'
  BY <1>1, <1>2 DEF IInv, FramesOfAttempts
<1>8. Untouched'
  <2>1. \A c \in Attempts : c > attempt => c # b
    BY <1>3, <1>4, BoundsAssumption DEF IInv, TypeOK, Attempts
  <2>. QED
    BY <1>1, <1>5, <2>1 DEF IInv, Untouched
<1>9. FutureIsOwed'
  <2>1. attempt \in Attempts
    BY DEF IInv, TypeOK
  <2>2. CASE b = attempt
    <3>1. status # "loading" /\ (status = "ready" => Outcome = "ok")
      BY <1>2, <1>4, <2>2 DEF IInv, FutureIsOwed, Owes, Outcome
    <3>2. ready'[attempt] # "open" /\ (ready[attempt] = "ok" => ready'[attempt] = "ok")
      BY <1>3, <1>5, <2>1, <2>2
    <3>3. status = "ready" => ready'[attempt] = "ok"
      BY <3>1, <3>2, <1>5, <2>2 DEF IInv, FutureIsOwed
    <3>. QED
      BY <1>1, <1>2, <3>1, <3>2, <3>3 DEF IInv, FutureIsOwed, display
  <2>3. CASE b # attempt
    <3>1. ready'[attempt] = ready[attempt] /\ ~Owes(Top, attempt)
      BY <1>4, <1>5, <2>1, <2>3 DEF Owes
    <3>. QED
      BY <1>1, <1>2, <3>1 DEF IInv, FutureIsOwed, display
  <2>. QED
    BY <2>2, <2>3
<1>10. OneLease' /\ NoOverlap' /\ ShowsLatest'
  BY <1>1 DEF IInv, OneLease, NoOverlap, ShowsLatest, display
<1>. QED
  BY <1>6, <1>7, <1>8, <1>9, <1>10 DEF IInv

\* What is known of an attempt when the loader answers it: it is the latest
\* one, and unless the reader was disposed nothing else is under way.
LEMMA AnswerFacts ==
    ASSUME IInv, NEW a \in Attempts, Answered(a)
    PROVE  /\ a = attempt /\ UNCHANGED <<markdown, attempt>>
           /\ On(stack) = {} /\ stack \in Seq(Frames)
           /\ status \in {"loading", "disposed"}
           /\ lease = None /\ document = None
           /\ \A b \in Attempts : leases[b] # "held"
           /\ loads' \in [Attempts -> {"none", "running", "done"}]
           /\ \A b \in Attempts : loads'[b] # "running" /\ (b > attempt => loads'[b] = "none")
<1>1. a = attempt /\ status \in {"loading", "disposed"} /\ On(stack) = {}
  BY DEF Answered, IInv, NoOverlap, On
<1>2. lease = None /\ document = None /\ \A b \in Attempts : leases[b] # "held"
  BY <1>1, BoundsAssumption DEF IInv, OneLease, Attempts
<1>3. \A b \in Attempts : b # a => loads[b] # "running"
  BY <1>1 DEF IInv, NoOverlap
<1>4. \A b \in Attempts : b > a => b # a
  BY BoundsAssumption DEF Attempts
<1>5. /\ loads' \in [Attempts -> {"none", "running", "done"}]
      /\ \A b \in Attempts : loads'[b] # "running" /\ (b > attempt => loads'[b] = "none")
  BY <1>1, <1>3, <1>4 DEF Answered, IInv, TypeOK, Untouched
<1>. QED
  BY <1>1, <1>2, <1>5, StackType DEF Answered, IInv

\* A publication on top of a frame, with nothing else in progress.
LEMMA PublishedOver ==
    ASSUME IInv, On(stack) = {}, NEW at \in {"opened", "failed"}, NEW a \in Attempts,
           Notify(Append(stack, Frame(at, a)))
    PROVE  /\ stack' \in Seq(Frames)
           /\ On(stack)' = {Frame(at, a), Frame("notify", None)}
<1>1. Frame(at, a) \in Frames
  BY FrameFacts
<1>2. /\ Append(stack, Frame(at, a)) \in Seq(Frames)
      /\ On(Append(stack, Frame(at, a))) = {Frame(at, a)}
  BY <1>1, PushFrame, StackType DEF IInv
<1>3. On(stack)' = On(stack')
  BY DEF On
<1>. QED
  BY <1>2, <1>3, Notified

\* An attempt that failed: what the catch block keeps.
LEMMA FailKeeps ==
    ASSUME IInv, NEW a \in Attempts, Answered(a), Fail(a)
    PROVE  /\ status' \in {"failed", "disposed"} /\ stack' \in Seq(Frames)
           /\ ready' \in [Attempts -> {"open", "ok", "error"}]
           /\ FramesOfAttempts' /\ Untouched' /\ FutureIsOwed'
<1>1. attempt = a /\ attempt' = a /\ a <= a
  BY AnswerFacts, BoundsAssumption DEF Attempts
<1>2. \A b \in Attempts : b > a => b # a
  BY BoundsAssumption DEF Attempts
<1>3. CASE status = "disposed"
  <2>1. ready' = Complete(a, "error") /\ UNCHANGED <<status, stack>>
    BY <1>3 DEF Fail
  <2>2. On(stack)' = {}
    BY <2>1, AnswerFacts DEF On
  <2>3. ready' \in [Attempts -> {"open", "ok", "error"}] /\ Untouched'
    <3>1. /\ ready' \in [Attempts -> {"open", "ok", "error"}]
          /\ \A b \in Attempts : b # a => ready'[b] = ready[b]
      BY <2>1, Completed
    <3>2. \A b \in Attempts : b > a => loads'[b] = "none"
      BY <1>1, AnswerFacts
    <3>. QED
      BY <1>1, <1>2, <3>1, <3>2 DEF IInv, Untouched
  <2>4. FutureIsOwed'
    BY <1>1, <1>3, <2>1, Completed DEF FutureIsOwed
  <2>. QED
    BY <1>3, <2>1, <2>2, <2>3, <2>4, AnswerFacts DEF FramesOfAttempts
<1>4. CASE status # "disposed"
  <2>1. status' = "failed" /\ Notify(Append(stack, Frame("failed", a))) /\ UNCHANGED ready
    BY <1>4 DEF Fail
  <2>2. /\ stack' \in Seq(Frames)
        /\ On(stack)' = {Frame("failed", a), Frame("notify", None)}
    BY <2>1, AnswerFacts, PublishedOver
  <2>3. /\ Frame("failed", a).at = "failed" /\ Frame("failed", a).arg = a
        /\ Frame("notify", None).at = "notify"
    BY FrameFacts
  <2>4. FramesOfAttempts' /\ FutureIsOwed'
    BY <1>1, <2>1, <2>2, <2>3 DEF FramesOfAttempts, FutureIsOwed, Owes
  <2>5. ready' \in [Attempts -> {"open", "ok", "error"}] /\ Untouched'
    BY <1>1, <2>1, AnswerFacts DEF IInv, TypeOK, Untouched
  <2>. QED
    BY <2>1, <2>2, <2>4, <2>5
<1>. QED
  BY <1>3, <1>4

LEMMA LoadFailsStep ==
    ASSUME IInv, NEW a \in Attempts, LoadFails(a)
    PROVE  IInv'
<1>1. Answered(a) /\ Fail(a) /\ UNCHANGED <<document, lease, leases>>
  BY DEF LoadFails
<1>2. TypeOK'
  BY <1>1, AnswerFacts, FailKeeps DEF IInv, TypeOK, Frames
<1>3. OneLease' /\ NoOverlap' /\ ShowsLatest'
  BY <1>1, AnswerFacts, FailKeeps DEF IInv, OneLease, NoOverlap, ShowsLatest
<1>. QED
  BY <1>1, <1>2, <1>3, FailKeeps DEF IInv

LEMMA OpenThrowsStep ==
    ASSUME IInv, NEW a \in Attempts, OpenThrows(a)
    PROVE  IInv'
<1>1. /\ Answered(a) /\ Fail(a) /\ UNCHANGED document /\ lease' = None
      /\ leases' = [leases EXCEPT ![a] = "disposed"]
  BY DEF OpenThrows
<1>2. TypeOK'
  BY <1>1, AnswerFacts, FailKeeps DEF IInv, TypeOK, Frames
<1>3. OneLease' /\ NoOverlap' /\ ShowsLatest'
  BY <1>1, AnswerFacts, FailKeeps, BoundsAssumption
     DEF IInv, TypeOK, OneLease, NoOverlap, ShowsLatest, Attempts
<1>. QED
  BY <1>1, <1>2, <1>3, FailKeeps DEF IInv

LEMMA LateLeaseStep ==
    ASSUME IInv, NEW a \in Attempts, LateLease(a)
    PROVE  IInv'
<1>1. /\ Answered(a) /\ Fail(a) /\ status = "disposed" /\ UNCHANGED <<status, document, lease>>
      /\ leases' = [leases EXCEPT ![a] = "disposed"]
  BY DEF LateLease, Fail
<1>2. TypeOK'
  BY <1>1, AnswerFacts, FailKeeps DEF IInv, TypeOK, Frames
<1>3. OneLease' /\ NoOverlap' /\ ShowsLatest'
  BY <1>1, AnswerFacts, FailKeeps, BoundsAssumption
     DEF IInv, TypeOK, OneLease, NoOverlap, ShowsLatest, Attempts
<1>. QED
  BY <1>1, <1>2, <1>3, FailKeeps DEF IInv

\* The latest attempt opens, with no lease held and nothing else in progress.
LEMMA OpensStep ==
    ASSUME IInv, NEW a \in Attempts, Opens(a)
    PROVE  IInv'
<1>1. /\ Answered(a) /\ status = "loading" /\ status' = "ready"
      /\ lease' = a /\ leases' = [leases EXCEPT ![a] = "held"]
      /\ document' = markdown /\ UNCHANGED ready
      /\ Notify(Append(stack, Frame("opened", a)))
  BY AnswerFacts DEF Opens
<1>2. attempt = a /\ attempt' = a /\ a <= a /\ a # None
  BY <1>1, AnswerFacts, BoundsAssumption DEF Attempts
<1>3. /\ stack' \in Seq(Frames)
      /\ On(stack)' = {Frame("opened", a), Frame("notify", None)}
  BY <1>1, AnswerFacts, PublishedOver
<1>4. /\ Frame("opened", a).at = "opened" /\ Frame("opened", a).arg = a
      /\ Frame("notify", None).at = "notify"
  BY FrameFacts
<1>5. TypeOK'
  BY <1>1, <1>3, AnswerFacts DEF IInv, TypeOK, Frames
<1>6. FramesOfAttempts'
  BY <1>2, <1>3, <1>4 DEF FramesOfAttempts
<1>7. FutureIsOwed'
  BY <1>1, <1>2, <1>3, <1>4 DEF IInv, FutureIsOwed, Owes
<1>8. Untouched'
  BY <1>1, <1>2, AnswerFacts DEF IInv, Untouched
<1>9. OneLease' /\ NoOverlap' /\ ShowsLatest'
  BY <1>1, <1>2, AnswerFacts DEF IInv, TypeOK, OneLease, NoOverlap, ShowsLatest
<1>. QED
  BY <1>5, <1>6, <1>7, <1>8, <1>9 DEF IInv

-----------------------------------------------------------------------------
(* The theorems.                                                           *)

LEMMA Inductive == IInv /\ [Next]_vars => IInv'
<1>. SUFFICES ASSUME IInv, [Next]_vars PROVE IInv'
  OBVIOUS
<1>1. CASE \E d \in Docs : UpdateEarly(d) \/ Update(d) \/ UpdateThrows(d)
  BY <1>1, ShownSteps
<1>2. CASE Select
  <2>1. markdown \in Docs
    BY DEF IInv, TypeOK
  <2>. QED
    BY <1>2, <2>1, ShownSteps
<1>3. CASE Retry \/ RetryThrows
  BY <1>3, RetryStep, RetryThrowsStep
<1>4. CASE Dispose
  BY <1>4, DisposeStep
<1>5. CASE NotifyReturns \/ NotifyAgain
  BY <1>5, NotifySteps
<1>6. CASE AttemptEnds
  BY <1>6, AttemptEndsStep
<1>7. CASE \E a \in Attempts : Answer(a)
  BY <1>7, LoadFailsStep, LateLeaseStep, OpensStep, OpenThrowsStep DEF Answer
<1>8. CASE UNCHANGED vars
  <2>1. On(stack)' = On(stack)
    BY <1>8 DEF vars, On
  <2>. QED
    BY <1>8, <2>1 DEF vars, display, opening, IInv, TypeOK, FramesOfAttempts, Untouched, FutureIsOwed,
                      OneLease, NoOverlap, ShowsLatest
<1>. QED
  BY <1>1, <1>2, <1>3, <1>4, <1>5, <1>6, <1>7, <1>8 DEF Next, Calls

LEMMA Invariant == Spec => []IInv
  BY Initially, Inductive, PTL DEF Spec

\* With nothing on the stack nothing is owed.
LEMMA AgreesWhenIdle == IInv => ReaderInv
<1>1. stack = <<>> => On(stack) = {}
  BY DEF On
<1>. QED
  BY <1>1 DEF IInv, ReaderInv, ReadyAgrees, FutureIsOwed

\* At every moment, inside a notification too, the reader holds the one lease
\* it has not given back, no load overlaps another although _start never asks
\* whether its attempt is still the latest, and between calls the future of
\* the latest attempt agrees with the status.
THEOREM ReaderSound == Spec => []ReaderInv
  BY Invariant, AgreesWhenIdle, PTL

\* A reader that is ready shows the text the host gave last, whether update
\* was called while it loaded, between calls or by a listener.
THEOREM LatestShown == Spec => []ShowsLatest
<1>1. IInv => ShowsLatest
  BY DEF IInv
<1>. QED
  BY <1>1, Invariant, PTL

\* Disposal is final: no call, listener or late answer of the loader takes a
\* disposed reader anywhere else or gives it a document or a lease again.
THEOREM DisposalIsFinal == Spec => DisposedIsFinal
<1>. DEFINE Stays == status = "disposed" => status' = "disposed" /\ document' = None /\ lease' = None
<1>1. IInv /\ [Next]_vars => [Stays]_vars
  <2>. SUFFICES ASSUME IInv, IInv', Next, status = "disposed" PROVE status' = "disposed"
    BY Inductive DEF IInv, OneLease
  <2>. QED
    BY DEF Next, Calls, UpdateEarly, Update, UpdateThrows, Select, Retry, RetryThrows, Start, Dispose,
           NotifyReturns, NotifyAgain, AttemptEnds, Answer, LoadFails, LateLease, Opens, OpenThrows,
           Fail, display
<1>. QED
  BY <1>1, Invariant, PTL DEF Spec, DisposedIsFinal

-----------------------------------------------------------------------------
(* The image previews.                                                     *)

Records == [caller : {"none", "waiting", "over"},
            loader : {"none", "download", "decode", "ok", "failed"},
            cancelled : BOOLEAN,
            job : {"none", "queued", "decoding", "leaving", "ok", "failed"},
            done : 0 .. 1,
            isolate : {"none", "starting", "started", "known", "gone"},
            answer : {"open", "ok", "bad"}]

\* A load in itself: its job is completed once, exists only after the download,
\* waits only while it is wanted, and its isolate lives only as long as it runs.
Sane(x) ==
    /\ x \in Records
    /\ x.done = IF x.job \in {"ok", "failed"} THEN 1 ELSE 0
    /\ x.loader \in {"none", "download"} => x.job = "none" /\ x.isolate = "none"
    /\ x.job = "queued" => ~x.cancelled
    /\ Working(x) => x.job = "decoding"
    /\ browser => ~Working(x)

RunningIn(ld) == {l \in Loads : ld[l].job \in {"decoding", "leaving"}}

\* The loads, the queue and the slots agree: the queue holds each queued job
\* once, and the slots in use are the jobs that run.
Agree(ld, q, n) ==
    /\ ld \in [Loads -> Records]
    /\ q \in Seq(Loads)
    /\ \A i, j \in 1 .. Len(q) : q[i] = q[j] => i = j
    /\ \A i \in 1 .. Len(q) : ld[q[i]].job = "queued"
    /\ \A l \in Loads : ld[l].job = "queued" => \E i \in 1 .. Len(q) : q[i] = l
    /\ n \in Int
    /\ IsFiniteSet(RunningIn(ld)) /\ Cardinality(RunningIn(ld)) = n

\* The widgets.  A load that was not begun is untouched; the shape of the rest.
Widgets ==
    /\ epoch \in [Previews -> Nat] /\ mounted \in [Previews -> BOOLEAN]
    /\ shown \in [Previews -> [what : {"nothing", "image", "error"}, of : Nat]]
    /\ \A l \in Loads : l[2] > epoch[l[1]] => load[l] = NoLoad
    /\ \A p \in Previews : mounted[p] => epoch[p] <= MaxEpoch[p] /\ shown[p].of = epoch[p]

\* The inductive invariant.
PreviewIInv ==
    /\ browser \in BOOLEAN
    /\ Widgets
    /\ \A l \in Loads : Sane(load[l])
    /\ Agree(load, queue, active)
    /\ active <= MaxActive /\ Len(queue) <= MaxQueued
    /\ queue # <<>> => active = MaxActive

-----------------------------------------------------------------------------
(* Sequences and sets.                                                     *)

LEMMA Numbers == MaxActive \in Nat /\ MaxActive >= 1 /\ MaxQueued \in Nat /\ MaxEpoch \in [Previews -> Nat]
  BY PreviewAssumption

LEMMA LoadFacts ==
    ASSUME NEW l \in Loads
    PROVE  l[1] \in Previews /\ l[2] \in 1 .. MaxEpoch[l[1]] /\ l[2] \in Nat /\ l = <<l[1], l[2]>>
  BY Numbers DEF Loads

\* The place an element is removed from.
LEMMA FirstPlace ==
    ASSUME NEW S, NEW s \in Seq(S), NEW e, NEW i \in 1 .. Len(s), s[i] = e,
           \A m, k \in 1 .. Len(s) : s[m] = s[k] => m = k
    PROVE  RemoveFirst(s, e) = SubSeq(s, 1, i - 1) \o SubSeq(s, i + 1, Len(s))
<1>1. {k \in 1 .. Len(s) : s[k] = e} = {i}
  OBVIOUS
<1>2. Min({i}) = i
  BY DEF Min
<1>3. SelectInSeq(s, LAMBDA v : v = e) = i
  BY <1>1, <1>2 DEF SelectInSeq
<1>. QED
  BY <1>3 DEF RemoveFirst, RemoveAt

\* What is before and what is after a place, joined.
LEMMA Joined ==
    ASSUME NEW S, NEW s, NEW n \in Nat, NEW i \in 1 .. n,
           NEW a \in Seq(S), NEW b \in Seq(S), Len(a) = i - 1, Len(b) = n - i,
           \A j \in 1 .. i - 1 : a[j] = s[j], \A j \in 1 .. n - i : b[j] = s[i + j]
    PROVE  /\ a \o b \in Seq(S) /\ Len(a \o b) = n - 1
           /\ \A j \in 1 .. n - 1 : (a \o b)[j] = IF j < i THEN s[j] ELSE s[j + 1]
<1>1. /\ a \o b \in Seq(S) /\ Len(a \o b) = Len(a) + Len(b)
      /\ \A j \in 1 .. Len(a) + Len(b) : (a \o b)[j] = IF j <= Len(a) THEN a[j] ELSE b[j - Len(a)]
  BY ConcatProperties
<1>2. Len(a) + Len(b) = n - 1
  OBVIOUS
<1>3. ASSUME NEW j \in 1 .. n - 1
      PROVE  (a \o b)[j] = IF j < i THEN s[j] ELSE s[j + 1]
  <2>0. (a \o b)[j] = IF j <= i - 1 THEN a[j] ELSE b[j - (i - 1)]
    BY <1>1, <1>2
  <2>1. CASE j < i
    <3>1. j \in 1 .. i - 1 /\ j <= i - 1
      BY <2>1
    <3>. QED
      BY <2>0, <2>1, <3>1
  <2>2. CASE ~(j < i)
    <3>1. j - (i - 1) \in 1 .. n - i /\ i + (j - (i - 1)) = j + 1 /\ ~(j <= i - 1)
      BY <2>2
    <3>. QED
      BY <2>0, <2>2, <3>1
  <2>. QED
    BY <2>1, <2>2
<1>. QED
  BY <1>1, <1>2, <1>3

LEMMA Removed ==
    ASSUME NEW S, NEW s \in Seq(S), NEW e, NEW i \in 1 .. Len(s), s[i] = e,
           \A m, k \in 1 .. Len(s) : s[m] = s[k] => m = k
    PROVE  /\ RemoveFirst(s, e) \in Seq(S) /\ Len(RemoveFirst(s, e)) = Len(s) - 1
           /\ \A j \in 1 .. Len(s) - 1 : RemoveFirst(s, e)[j] = IF j < i THEN s[j] ELSE s[j + 1]
<1>. DEFINE a == SubSeq(s, 1, i - 1)
            b == SubSeq(s, i + 1, Len(s))
<1>1. Len(s) \in Nat /\ i \in Int
  BY LenProperties
<1>2. a \in Seq(S) /\ Len(a) = i - 1 /\ \A j \in 1 .. i - 1 : a[j] = s[j]
  BY <1>1, SubSeqProperties
<1>3. b \in Seq(S) /\ Len(b) = Len(s) - i /\ \A j \in 1 .. Len(s) - i : b[j] = s[i + j]
  BY <1>1, SubSeqProperties
<1>4. RemoveFirst(s, e) = a \o b
  BY FirstPlace
<1>. HIDE DEF a, b
<1>5. /\ a \o b \in Seq(S) /\ Len(a \o b) = Len(s) - 1
      /\ \A j \in 1 .. Len(s) - 1 : (a \o b)[j] = IF j < i THEN s[j] ELSE s[j + 1]
  BY <1>1, <1>2, <1>3, Joined
<1>. QED
  BY <1>4, <1>5

\* An element that is not there.
LEMMA NotRemoved ==
    ASSUME NEW s, NEW e, \A i \in 1 .. Len(s) : s[i] # e
    PROVE  RemoveFirst(s, e) = s
  BY DEF RemoveFirst

\* The first k elements of a sequence without repetition.
LEMMA FirstCounted ==
    ASSUME NEW S, NEW s \in Seq(S), NEW k \in Nat, k <= Len(s),
           \A m, j \in 1 .. Len(s) : s[m] = s[j] => m = j,
           NEW T, T = {s[i] : i \in 1 .. k}
    PROVE  IsFiniteSet(T) /\ Cardinality(T) = k
<1>. DEFINE f == [i \in 1 .. k |-> s[i]]
<1>1. Len(s) \in Nat /\ 1 .. k \subseteq 1 .. Len(s)
  BY LenProperties
<1>2. f \in Bijection(1 .. k, T)
  BY <1>1 DEF Bijection, Injection, Surjection, IsInjective
<1>3. IsFiniteSet(1 .. k) /\ Cardinality(1 .. k) = k
  BY FS_Interval
<1>4. ExistsBijection(1 .. k, T)
  BY <1>2 DEF ExistsBijection
<1>. QED
  BY <1>3, <1>4, FS_Bijection

-----------------------------------------------------------------------------
(* The loads, the queue and the slots stay in agreement.                   *)

\* A load moves on, and its job stays queued, stays in its slot, or stays out.
LEMMA AgreesSame ==
    ASSUME NEW ld, NEW q, NEW n, Agree(ld, q, n), NEW l \in Loads, NEW x \in Records,
           x.job = "queued" <=> ld[l].job = "queued",
           x.job \in {"decoding", "leaving"} <=> ld[l].job \in {"decoding", "leaving"}
    PROVE  Agree([ld EXCEPT ![l] = x], q, n)
<1>1. [ld EXCEPT ![l] = x] \in [Loads -> Records]
  BY DEF Agree
<1>2. RunningIn([ld EXCEPT ![l] = x]) = RunningIn(ld)
  BY DEF Agree, RunningIn
<1>3. \A i \in 1 .. Len(q) : q[i] \in Loads
  BY DEF Agree
<1>. QED
  BY <1>1, <1>2, <1>3 DEF Agree

\* A load e is cancelled: its job is queued no more, and keeps its slot.
Ends(ld, e, new) ==
    /\ new \in [Loads -> Records]
    /\ \A l \in Loads : l # e => new[l].job = ld[l].job
    /\ e \in Loads => /\ new[e].job # "queued"
                      /\ new[e].job \in {"decoding", "leaving"} <=> ld[e].job \in {"decoding", "leaving"}

LEMMA AgreesLeave ==
    ASSUME NEW ld, NEW q, NEW n, Agree(ld, q, n), NEW e, NEW new, Ends(ld, e, new)
    PROVE  /\ Agree(new, RemoveFirst(q, e), n)
           /\ Len(RemoveFirst(q, e)) <= Len(q)
           /\ RemoveFirst(q, e) # <<>> => q # <<>>
<1>. USE DEF Ends
<1>1. q \in Seq(Loads) /\ Len(q) \in Nat /\ \A i \in 1 .. Len(q) : q[i] \in Loads
  BY LenProperties DEF Agree
<1>2. RunningIn(new) = RunningIn(ld)
  BY DEF RunningIn
<1>3. CASE \A i \in 1 .. Len(q) : q[i] # e
  <2>1. RemoveFirst(q, e) = q
    BY <1>3, NotRemoved
  <2>2. \A i \in 1 .. Len(q) : new[q[i]].job = "queued"
    BY <1>1, <1>3 DEF Agree
  <2>3. \A l \in Loads : new[l].job = "queued" => \E i \in 1 .. Len(q) : q[i] = l
    BY DEF Agree
  <2>. QED
    BY <1>1, <1>2, <2>1, <2>2, <2>3 DEF Agree
<1>4. ASSUME NEW i \in 1 .. Len(q), q[i] = e
      PROVE  /\ Agree(new, RemoveFirst(q, e), n)
             /\ Len(RemoveFirst(q, e)) <= Len(q)
             /\ RemoveFirst(q, e) # <<>> => q # <<>>
  <2>. DEFINE r == RemoveFirst(q, e)
  <2>1. \A m, k \in 1 .. Len(q) : q[m] = q[k] => m = k
    BY DEF Agree
  <2>2. /\ r \in Seq(Loads) /\ Len(r) = Len(q) - 1
        /\ \A j \in 1 .. Len(q) - 1 : r[j] = IF j < i THEN q[j] ELSE q[j + 1]
    BY <1>1, <1>4, <2>1, Removed
  <2>. HIDE DEF r
  <2>3. ASSUME NEW m \in 1 .. Len(r), NEW k \in 1 .. Len(r), r[m] = r[k]
        PROVE  m = k
    <3>1. m \in 1 .. Len(q) - 1 /\ k \in 1 .. Len(q) - 1
      BY <1>1, <2>2
    <3>2. r[m] = (IF m < i THEN q[m] ELSE q[m + 1]) /\ r[k] = IF k < i THEN q[k] ELSE q[k + 1]
      BY <2>2, <3>1
    <3>3. m \in 1 .. Len(q) /\ k \in 1 .. Len(q) /\ m + 1 \in 1 .. Len(q) /\ k + 1 \in 1 .. Len(q)
      BY <1>1, <3>1
    <3>4. (IF m < i THEN m ELSE m + 1) = IF k < i THEN k ELSE k + 1
      <4>1. CASE m < i /\ k < i
        BY <2>1, <2>3, <3>2, <3>3, <4>1
      <4>2. CASE m < i /\ ~(k < i)
        BY <2>1, <2>3, <3>2, <3>3, <4>2
      <4>3. CASE ~(m < i) /\ k < i
        BY <2>1, <2>3, <3>2, <3>3, <4>3
      <4>4. CASE ~(m < i) /\ ~(k < i)
        BY <2>1, <2>3, <3>2, <3>3, <4>4
      <4>. QED
        BY <4>1, <4>2, <4>3, <4>4
    <3>. QED
      BY <1>1, <3>1, <3>4
  <2>4. ASSUME NEW m \in 1 .. Len(r)
        PROVE  new[r[m]].job = "queued"
    <3>1. m \in 1 .. Len(q) - 1 /\ m \in 1 .. Len(q) /\ m + 1 \in 1 .. Len(q)
      BY <1>1, <2>2
    <3>2. PICK j \in 1 .. Len(q) : r[m] = q[j] /\ j # i
      BY <1>1, <2>2, <3>1
    <3>3. q[j] # e /\ ld[q[j]].job = "queued"
      BY <1>4, <2>1, <3>2 DEF Agree
    <3>. QED
      BY <1>1, <3>2, <3>3
  <2>5. ASSUME NEW l \in Loads, new[l].job = "queued"
        PROVE  \E m \in 1 .. Len(r) : r[m] = l
    <3>1. l # e /\ ld[l].job = "queued"
      BY <2>5
    <3>2. PICK j \in 1 .. Len(q) : q[j] = l
      BY <3>1 DEF Agree
    <3>3. j # i
      BY <1>4, <3>1, <3>2
    <3>4. CASE j < i
      <4>1. j \in 1 .. Len(q) - 1
        BY <1>1, <3>4
      <4>. QED
        BY <2>2, <3>2, <3>4, <4>1
    <3>5. CASE j > i
      <4>1. j - 1 \in 1 .. Len(q) - 1 /\ ~(j - 1 < i) /\ (j - 1) + 1 = j
        BY <1>1, <3>5
      <4>. QED
        BY <2>2, <3>2, <4>1
    <3>. QED
      BY <1>1, <3>3, <3>4, <3>5
  <2>6. Agree(new, r, n)
    BY <1>2, <2>2, <2>3, <2>4, <2>5 DEF Agree
  <2>7. Len(r) <= Len(q) /\ q # <<>>
    BY <1>1, <1>4, <2>2
  <2>. QED
    BY <2>6, <2>7 DEF r
<1>. QED
  BY <1>3, <1>4

\* The first k jobs of the queue start.
LEMMA AgreesDrain ==
    ASSUME NEW ld, NEW q, NEW n, Agree(ld, q, n), NEW k \in Nat, k <= Len(q),
           NEW new \in [Loads -> Records],
           \A l \in Loads : IF l \in {q[i] : i \in 1 .. k} THEN new[l].job = "decoding" ELSE new[l] = ld[l]
    PROVE  Agree(new, SubSeq(q, k + 1, Len(q)), n + k)
<1>1. /\ q \in Seq(Loads) /\ Len(q) \in Nat /\ \A i \in 1 .. Len(q) : q[i] \in Loads
      /\ \A m, j \in 1 .. Len(q) : q[m] = q[j] => m = j
  BY LenProperties DEF Agree
<1>. DEFINE starting == {q[i] : i \in 1 .. k}
            r == SubSeq(q, k + 1, Len(q))
<1>2. /\ r \in Seq(Loads) /\ Len(r) = Len(q) - k
      /\ \A j \in 1 .. Len(q) - k : r[j] = q[k + j]
  <2>1. \A i \in k + 1 .. Len(q) : q[i] \in Loads
    BY <1>1
  <2>. QED
    BY <1>1, <2>1, SubSeqProperties
<1>4. starting \subseteq Loads /\ \A l \in starting : ld[l].job = "queued"
  BY <1>1 DEF Agree
<1>. HIDE DEF r, starting
<1>3. IsFiniteSet(starting) /\ Cardinality(starting) = k
  <2>1. starting = {q[i] : i \in 1 .. k}
    BY DEF starting
  <2>. QED
    BY <1>1, <2>1, FirstCounted
<1>5. \A l \in Loads : IF l \in starting THEN new[l].job = "decoding" ELSE new[l] = ld[l]
  BY DEF starting
<1>6. RunningIn(new) = RunningIn(ld) \cup starting /\ RunningIn(ld) \cap starting = {}
  <2>1. RunningIn(ld) \cap starting = {}
    BY <1>4 DEF RunningIn
  <2>2. ASSUME NEW l PROVE l \in RunningIn(new) <=> l \in RunningIn(ld) \cup starting
    BY <1>4, <1>5 DEF RunningIn
  <2>. QED
    BY <2>1, <2>2
<1>7. IsFiniteSet(RunningIn(new)) /\ Cardinality(RunningIn(new)) = n + k
  <2>1. IsFiniteSet(RunningIn(ld)) /\ Cardinality(RunningIn(ld)) = n /\ n \in Int
    BY DEF Agree
  <2>2. Cardinality(RunningIn(ld) \cap starting) = 0
    BY <1>6, FS_EmptySet
  <2>3. /\ IsFiniteSet(RunningIn(ld) \cup starting)
        /\ Cardinality(RunningIn(ld) \cup starting)
              = Cardinality(RunningIn(ld)) + Cardinality(starting) - Cardinality(RunningIn(ld) \cap starting)
    BY <1>3, <2>1, FS_Union
  <2>. QED
    BY <1>3, <1>6, <2>1, <2>2, <2>3
<1>8. \A m, j \in 1 .. Len(r) : r[m] = r[j] => m = j
  <2>1. ASSUME NEW m \in 1 .. Len(r), NEW j \in 1 .. Len(r), r[m] = r[j] PROVE m = j
    <3>1. r[m] = q[k + m] /\ r[j] = q[k + j] /\ k + m \in 1 .. Len(q) /\ k + j \in 1 .. Len(q)
      BY <1>1, <1>2
    <3>2. k + m = k + j
      BY <1>1, <2>1, <3>1
    <3>. QED
      BY <1>1, <1>2, <3>2
  <2>. QED
    BY <2>1
<1>9. ASSUME NEW m \in 1 .. Len(r) PROVE new[r[m]].job = "queued"
  <2>1. r[m] = q[k + m] /\ k + m \in 1 .. Len(q) /\ k + m \notin 1 .. k
    BY <1>1, <1>2
  <2>2. r[m] \notin starting
    <3>1. 1 .. k \subseteq 1 .. Len(q)
      BY <1>1
    <3>. QED
      BY <1>1, <2>1, <3>1 DEF starting
  <2>. QED
    BY <1>1, <1>5, <2>1, <2>2 DEF Agree
<1>10. ASSUME NEW l \in Loads, new[l].job = "queued" PROVE \E m \in 1 .. Len(r) : r[m] = l
  <2>1. l \notin starting /\ ld[l].job = "queued"
    BY <1>5, <1>10
  <2>2. PICK i \in 1 .. Len(q) : q[i] = l
    BY <2>1 DEF Agree
  <2>3. i \notin 1 .. k
    BY <2>1, <2>2 DEF starting
  <2>4. i - k \in 1 .. Len(r) /\ k + (i - k) = i
    BY <1>1, <1>2, <2>3
  <2>. QED
    BY <1>2, <2>2, <2>4
<1>11. n + k \in Int
  BY DEF Agree
<1>. QED
  BY <1>2, <1>7, <1>8, <1>9, <1>10, <1>11 DEF Agree, r

-----------------------------------------------------------------------------
(* The steps.                                                              *)

\* A load that is told to stop, whatever it was doing.
LEMMA CancelledSane ==
    ASSUME browser \in BOOLEAN, NEW x, Sane(x)
    PROVE  /\ Sane(Cancelled(x)) /\ Cancelled(x).job # "queued"
           /\ Cancelled(x).job \in {"decoding", "leaving"} <=> x.job \in {"decoding", "leaving"}
<1>1. CASE x.cancelled
  BY <1>1 DEF Sane, Cancelled
<1>2. CASE ~x.cancelled
  <2>. DEFINE y == [x EXCEPT !.cancelled = TRUE,
                             !.job = IF @ = "queued" THEN "failed" ELSE @,
                             !.done = IF x.job = "queued" THEN @ + 1 ELSE @,
                             !.answer = IF x.job = "decoding" /\ ~browser /\ @ = "open" THEN "bad" ELSE @,
                             !.isolate = IF x.job = "decoding" /\ @ = "known" THEN "gone" ELSE @]
  <2>1. Cancelled(x) = y
    BY <1>2 DEF Cancelled
  <2>2. x \in Records
    BY DEF Sane
  <2>3. /\ y.cancelled = TRUE /\ y.caller = x.caller /\ y.loader = x.loader
        /\ y.job = IF x.job = "queued" THEN "failed" ELSE x.job
        /\ y.done = IF x.job = "queued" THEN x.done + 1 ELSE x.done
        /\ y.answer = IF x.job = "decoding" /\ ~browser /\ x.answer = "open" THEN "bad" ELSE x.answer
        /\ y.isolate = IF x.job = "decoding" /\ x.isolate = "known" THEN "gone" ELSE x.isolate
    BY <2>2 DEF Records
  <2>4. y.done \in 0 .. 1 /\ y.done = IF y.job \in {"ok", "failed"} THEN 1 ELSE 0
    BY <2>2, <2>3 DEF Sane, Records
  <2>5. y \in Records
    BY <2>2, <2>4 DEF Records
  <2>. HIDE DEF y
  <2>6. Sane(y)
    BY <2>3, <2>4, <2>5 DEF Sane, Working
  <2>. QED
    BY <2>1, <2>3, <2>6
<1>. QED
  BY <1>1, <1>2 DEF Sane, Records

\* A load goes on by itself: its job keeps its place or its slot.
LEMMA LocalStep ==
    ASSUME PreviewIInv, NEW l \in Loads, NEW x, Sane(x), load' = [load EXCEPT ![l] = x], load[l] # NoLoad,
           x.job = "queued" <=> load[l].job = "queued",
           x.job \in {"decoding", "leaving"} <=> load[l].job \in {"decoding", "leaving"},
           UNCHANGED <<browser, epoch, mounted, shown, queue, active>>
    PROVE  PreviewIInv'
<1>1. Agree(load', queue, active)
  BY AgreesSame DEF PreviewIInv, Sane
<1>2. load \in [Loads -> Records]
  BY DEF PreviewIInv, Agree
<1>3. \A k \in Loads : Sane(load'[k])
  BY <1>2 DEF PreviewIInv
<1>4. Widgets'
  BY <1>2 DEF PreviewIInv, Widgets
<1>. QED
  BY <1>1, <1>3, <1>4 DEF PreviewIInv, Agree, RunningIn, Sane, Working

LEMMA PlatformStep ==
    ASSUME PreviewIInv, NEW l \in Loads, Platform(l) \/ \E good \in BOOLEAN : IsolateAnswers(l, good)
    PROVE  PreviewIInv'
<1>. DEFINE x == load[l]
<1>1. /\ x \in Records /\ Sane(x) /\ x.job = "decoding" /\ x # NoLoad /\ browser \in BOOLEAN
      /\ load \in [Loads -> Records]
      /\ UNCHANGED <<browser, epoch, mounted, shown, queue, active>>
  BY DEF PreviewIInv, Agree, Sane, NoLoad, Platform, IsolateStarts, Spawned, PlatformEnds, SpawnFails, PromiseSettles,
         IsolateAnswers, Decoding
<1>2. CASE IsolateStarts(l)
  <2>1. load' = [load EXCEPT ![l] = [x EXCEPT !.isolate = "started"]] /\ ~browser
    BY <1>1, <1>2 DEF IsolateStarts
  <2>2. Sane([x EXCEPT !.isolate = "started"])
    BY <1>1, <2>1 DEF Sane, Records, Working
  <2>. QED
    BY <1>1, <2>1, <2>2, LocalStep DEF Records
<1>3. CASE Spawned(l)
  <2>. DEFINE to == IF x.cancelled THEN "gone" ELSE "known"
  <2>1. load' = [load EXCEPT ![l] = [x EXCEPT !.isolate = to]] /\ ~browser
    BY <1>1, <1>3 DEF Spawned
  <2>2. Sane([x EXCEPT !.isolate = to])
    BY <1>1, <2>1 DEF Sane, Records, Working
  <2>. QED
    BY <1>1, <2>1, <2>2, LocalStep DEF Records
<1>4. CASE PlatformEnds(l)
  <2>1. load' = [load EXCEPT ![l] = [x EXCEPT !.job = "leaving", !.isolate = "gone"]]
    BY <1>1, <1>4 DEF PlatformEnds
  <2>2. Sane([x EXCEPT !.job = "leaving", !.isolate = "gone"])
    BY <1>1 DEF Sane, Records, Working
  <2>. QED
    BY <1>1, <2>1, <2>2, LocalStep DEF Records
<1>5. CASE SpawnFails(l)
  <2>1. load' = [load EXCEPT ![l] = [x EXCEPT !.job = "leaving", !.isolate = "gone", !.answer = "bad"]]
    BY <1>1, <1>5 DEF SpawnFails
  <2>2. Sane([x EXCEPT !.job = "leaving", !.isolate = "gone", !.answer = "bad"])
    BY <1>1 DEF Sane, Records, Working
  <2>. QED
    BY <1>1, <2>1, <2>2, LocalStep DEF Records
<1>6. ASSUME NEW good \in BOOLEAN, PromiseSettles(l, good) PROVE PreviewIInv'
  <2>. DEFINE a == IF good /\ ~x.cancelled THEN "ok" ELSE "bad"
  <2>1. load' = [load EXCEPT ![l] = [x EXCEPT !.job = "leaving", !.answer = a]] /\ browser
    BY <1>1, <1>6 DEF PromiseSettles
  <2>2. Sane([x EXCEPT !.job = "leaving", !.answer = a])
    BY <1>1, <2>1 DEF Sane, Records, Working
  <2>. QED
    BY <1>1, <2>1, <2>2, LocalStep DEF Records
<1>7. ASSUME NEW good \in BOOLEAN, IsolateAnswers(l, good) PROVE PreviewIInv'
  <2>. DEFINE a == IF good THEN "ok" ELSE "bad"
  <2>1. load' = [load EXCEPT ![l] = [x EXCEPT !.answer = a]]
    BY <1>1, <1>7 DEF IsolateAnswers
  <2>2. Sane([x EXCEPT !.answer = a])
    BY <1>1 DEF Sane, Records, Working
  <2>. QED
    BY <1>1, <2>1, <2>2, LocalStep DEF Records
<1>. QED
  BY <1>2, <1>3, <1>4, <1>5, <1>6, <1>7 DEF Platform

LEMMA DecodedStep ==
    ASSUME PreviewIInv, NEW l \in Loads, Decoded(l)
    PROVE  PreviewIInv'
<1>. DEFINE x == load[l]
<1>1. /\ x \in Records /\ Sane(x) /\ x.job \in {"ok", "failed"} /\ x # NoLoad /\ load \in [Loads -> Records]
      /\ UNCHANGED <<browser, epoch, mounted, shown, queue, active>>
      /\ load' = [load EXCEPT ![l] = [x EXCEPT !.loader = x.job]]
  BY DEF PreviewIInv, Agree, Sane, NoLoad, Decoded
<1>2. Sane([x EXCEPT !.loader = x.job])
  BY <1>1 DEF Sane, Records, Working
<1>. QED
  BY <1>1, <1>2, LocalStep DEF Records

\* Jobs start while slots are free.
LEMMA DrainStep ==
    ASSUME browser \in BOOLEAN, Widgets, NEW ld, NEW q, NEW n, Agree(ld, q, n), n <= MaxActive,
           Len(q) <= MaxQueued, \A l \in Loads : Sane(ld[l]),
           \A l \in Loads : l[2] > epoch[l[1]] => ld[l] = NoLoad,
           Drained(ld, q, n), UNCHANGED <<browser, epoch, mounted, shown>>
    PROVE  PreviewIInv'
<1>. DEFINE free == MaxActive - n
            k == IF Len(q) < free THEN Len(q) ELSE free
            starting == {q[i] : i \in 1 .. k}
            to == IF browser THEN "none" ELSE "starting"
<1>1. /\ q \in Seq(Loads) /\ Len(q) \in Nat /\ n \in Int /\ ld \in [Loads -> Records]
      /\ \A i \in 1 .. Len(q) : q[i] \in Loads /\ ld[q[i]].job = "queued"
  BY LenProperties DEF Agree
<1>2. k \in Nat /\ k <= Len(q) /\ n + k <= MaxActive /\ (k = Len(q) \/ n + k = MaxActive)
  BY <1>1, Numbers
<1>3. /\ load' = [l \in Loads |-> IF l \in starting
                                  THEN [ld[l] EXCEPT !.job = "decoding", !.isolate = to] ELSE ld[l]]
      /\ queue' = SubSeq(q, k + 1, Len(q))
      /\ active' = n + k
  BY DEF Drained
<1>4. \A l \in starting : l \in Loads /\ ld[l].job = "queued"
  BY <1>1, <1>2
<1>. HIDE DEF free, k, starting
<1>5. ASSUME NEW l \in Loads, ld[l].job = "queued"
      PROVE  Sane([ld[l] EXCEPT !.job = "decoding", !.isolate = to])
  <2>. DEFINE x == ld[l]
              y == [x EXCEPT !.job = "decoding", !.isolate = to]
  <2>1. x \in Records /\ Sane(x) /\ x.job = "queued" /\ to \in {"none", "starting"}
    BY <1>1, <1>5
  <2>. HIDE DEF x, to
  <2>2. /\ y \in Records /\ y.job = "decoding" /\ y.isolate = to /\ y.done = x.done
        /\ y.loader = x.loader /\ y.cancelled = x.cancelled
    BY <2>1 DEF Records
  <2>. HIDE DEF y
  <2>3. Sane(y)
    BY <2>1, <2>2 DEF Sane, Working
  <2>. QED
    BY <2>3 DEF x, y
<1>6. ASSUME NEW l \in Loads
      PROVE  /\ load'[l] \in Records /\ Sane(load'[l])
             /\ IF l \in starting THEN load'[l].job = "decoding" ELSE load'[l] = ld[l]
  <2>1. CASE l \in starting
    <3>1. load'[l] = [ld[l] EXCEPT !.job = "decoding", !.isolate = to]
      BY <1>3, <2>1
    <3>2. load'[l].job = "decoding"
      BY <1>1, <3>1 DEF Records
    <3>3. Sane(load'[l])
      BY <1>4, <1>5, <2>1, <3>1
    <3>4. load'[l] \in Records
      BY <3>3 DEF Sane
    <3>. QED
      BY <2>1, <3>2, <3>3, <3>4
  <2>2. CASE l \notin starting
    <3>1. load'[l] = ld[l]
      BY <1>3, <2>2
    <3>. QED
      BY <1>1, <2>2, <3>1
  <2>. QED
    BY <2>1, <2>2
<1>7. load' \in [Loads -> Records]
  BY <1>3, <1>6
<1>8. Agree(load', queue', active')
  BY <1>2, <1>3, <1>6, <1>7, AgreesDrain DEF starting
<1>9. Len(queue') = Len(q) - k
  <2>1. \A i \in k + 1 .. Len(q) : q[i] \in Loads
    BY <1>1, <1>2
  <2>2. Len(SubSeq(q, k + 1, Len(q))) = IF k + 1 <= Len(q) THEN Len(q) - (k + 1) + 1 ELSE 0
    BY <1>1, <1>2, <2>1, SubSeqProperties
  <2>3. queue' = SubSeq(q, k + 1, Len(q))
    BY <1>3
  <2>4. Len(q) - k = IF k + 1 <= Len(q) THEN Len(q) - (k + 1) + 1 ELSE 0
    BY <1>1, <1>2
  <2>. QED
    BY <2>2, <2>3, <2>4
<1>10. ASSUME NEW l \in Loads, l[2] > epoch[l[1]] PROVE load'[l] = NoLoad
  BY <1>4, <1>6, <1>10 DEF NoLoad
<1>11. Widgets'
  BY <1>10 DEF Widgets
<1>12. queue' # <<>> => active' = MaxActive
  <2>1. ASSUME k = Len(q) PROVE queue' = <<>>
    BY <1>8, <1>9, <2>1, EmptySeq DEF Agree
  <2>. QED
    BY <1>2, <1>3, <2>1
<1>13. active' <= MaxActive /\ Len(queue') <= MaxQueued
  <2>1. active' = n + k
    BY <1>3
  <2>2. Len(q) - k <= MaxQueued
    BY <1>1, <1>2, Numbers
  <2>. QED
    BY <1>2, <1>9, <2>1, <2>2
<1>. QED
  BY <1>6, <1>8, <1>11, <1>12, <1>13 DEF PreviewIInv, Agree, RunningIn, Sane, Working

\* A load is cancelled, and leaves the queue if it was there.
LEMMA CancelStep ==
    ASSUME browser \in BOOLEAN, \A l \in Loads : Sane(load[l]), Agree(load, queue, active),
           active <= MaxActive, Len(queue) <= MaxQueued, queue # <<>> => active = MaxActive,
           NEW e, Ends(load, e, load'), queue' = Leave(e), UNCHANGED <<browser, active>>,
           \A l \in Loads : Sane(load'[l]), Widgets'
    PROVE  PreviewIInv'
<1>1. /\ Agree(load', RemoveFirst(queue, e), active)
      /\ Len(RemoveFirst(queue, e)) <= Len(queue)
      /\ RemoveFirst(queue, e) # <<>> => queue # <<>>
  BY AgreesLeave
<1>2. Agree(load', queue', active') /\ Len(queue') <= Len(queue) /\ (queue' # <<>> => queue # <<>>)
  BY <1>1 DEF Leave
<1>3. Len(queue) \in Nat /\ Len(queue') \in Nat
  BY <1>2, LenProperties DEF Agree
<1>4. Len(queue') <= MaxQueued
  BY <1>2, <1>3, Numbers
<1>. QED
  BY <1>2, <1>4 DEF PreviewIInv, Agree, RunningIn, Sane, Working

LEMMA FinishStep ==
    ASSUME PreviewIInv, NEW l \in Loads, NEW what \in {"image", "error"}, load[l].caller = "waiting", Finish(l, what)
    PROVE  PreviewIInv'
<1>. DEFINE y == [Cancelled(load[l]) EXCEPT !.caller = "over"]
<1>1. /\ browser \in BOOLEAN /\ load \in [Loads -> Records] /\ Sane(load[l]) /\ load[l] # NoLoad
      /\ UNCHANGED <<browser, epoch, mounted, active>> /\ queue' = Leave(l)
      /\ load' = [load EXCEPT ![l] = y] /\ Widgets
  BY DEF PreviewIInv, Agree, Finish, NoLoad
<1>2. /\ Sane(Cancelled(load[l])) /\ Cancelled(load[l]).job # "queued"
      /\ Cancelled(load[l]).job \in {"decoding", "leaving"} <=> load[l].job \in {"decoding", "leaving"}
  BY <1>1, CancelledSane
<1>3. /\ Sane(y) /\ y \in Records /\ y.job # "queued"
      /\ y.job \in {"decoding", "leaving"} <=> load[l].job \in {"decoding", "leaving"}
  BY <1>2 DEF Sane, Records, Working
<1>. HIDE DEF y
<1>4. /\ load' \in [Loads -> Records] /\ load'[l] = y
      /\ \A k \in Loads : k # l => load'[k] = load[k]
  BY <1>1, <1>3
<1>5. shown' \in [Previews -> [what : {"nothing", "image", "error"}, of : Nat]]
      /\ \A p \in Previews : mounted[p] => shown'[p].of = epoch[p]
  <2>1. l[1] \in Previews /\ l[2] \in Nat
    BY LoadFacts
  <2>2. CASE mounted[l[1]] /\ epoch[l[1]] = l[2] /\ shown' = [shown EXCEPT ![l[1]] = [what |-> what, of |-> l[2]]]
    BY <1>1, <2>1, <2>2 DEF Widgets
  <2>3. CASE UNCHANGED shown
    BY <1>1, <2>3 DEF Widgets
  <2>. QED
    BY <2>2, <2>3 DEF Finish, Show
<1>6. Widgets'
  BY <1>1, <1>4, <1>5 DEF Widgets
<1>7. \A k \in Loads : Sane(load'[k])
  BY <1>3, <1>4 DEF PreviewIInv
<1>8. Ends(load, l, load')
  BY <1>3, <1>4 DEF Ends
<1>. QED
  BY <1>1, <1>6, <1>7, <1>8, CancelStep DEF PreviewIInv

LEMMA DisposePreviewStep ==
    ASSUME PreviewIInv, NEW p \in Previews, DisposePreview(p)
    PROVE  PreviewIInv'
<1>. DEFINE old == <<p, epoch[p]>>
            y == Cancelled(load[old])
<1>1. /\ browser \in BOOLEAN /\ load \in [Loads -> Records] /\ Widgets /\ epoch[p] \in Nat
      /\ UNCHANGED <<browser, shown, active>> /\ queue' = Leave(old)
      /\ load' = [load EXCEPT ![old] = y] /\ mounted[p] /\ epoch[p] > 0
      /\ mounted' = [mounted EXCEPT ![p] = FALSE] /\ epoch' = [epoch EXCEPT ![p] = @ + 1]
  BY DEF PreviewIInv, Agree, DisposePreview, Widgets
<1>2. old \in Loads
  BY <1>1, Numbers DEF Widgets, Loads
<1>3. /\ Sane(y) /\ y.job # "queued"
      /\ y.job \in {"decoding", "leaving"} <=> load[old].job \in {"decoding", "leaving"}
  BY <1>1, <1>2, CancelledSane DEF PreviewIInv
<1>4. y \in Records
  BY <1>3 DEF Sane
<1>5. /\ load' \in [Loads -> Records] /\ load'[old] = y
      /\ \A k \in Loads : k # old => load'[k] = load[k]
  BY <1>1, <1>2, <1>4
<1>6. ASSUME NEW l \in Loads, l[2] > epoch'[l[1]] PROVE load'[l] = NoLoad
  <2>1. l[1] \in Previews /\ l[2] \in Nat /\ epoch[l[1]] \in Nat
    BY <1>1, LoadFacts DEF Widgets
  <2>2. l[2] > epoch[l[1]]
    BY <1>1, <1>6, <2>1 DEF Widgets
  <2>3. l # old
    BY <1>1, <2>1, <2>2
  <2>. QED
    BY <1>1, <1>5, <2>2, <2>3 DEF Widgets
<1>7. Widgets'
  <2>1. epoch' \in [Previews -> Nat] /\ mounted' \in [Previews -> BOOLEAN]
    BY <1>1 DEF Widgets
  <2>2. \A r \in Previews : mounted'[r] => r # p /\ mounted[r] /\ epoch'[r] = epoch[r]
    BY <1>1 DEF Widgets
  <2>. QED
    BY <1>1, <1>6, <2>1, <2>2 DEF Widgets
<1>8. \A k \in Loads : Sane(load'[k])
  BY <1>3, <1>5 DEF PreviewIInv
<1>. HIDE DEF old, y
<1>9. Ends(load, old, load')
  BY <1>2, <1>3, <1>5 DEF Ends
<1>. QED
  BY <1>1, <1>7, <1>8, <1>9, CancelStep DEF PreviewIInv

LEMMA NoLoadSane == /\ NoLoad \in Records /\ Sane(NoLoad)
                    /\ NoLoad.job = "none" /\ NoLoad.isolate = "none" /\ NoLoad.done = 0
  BY DEF NoLoad, Records, Sane, Working

LEMMA StartedSane ==
    ASSUME NEW http \in BOOLEAN
    PROVE  Sane(Started(http)) /\ Started(http).job = "none" /\ Started(http) \in Records
<1>1. CASE http
  <2>. DEFINE y == [NoLoad EXCEPT !.caller = "waiting", !.loader = "download"]
  <2>1. y \in Records /\ y.job = "none" /\ y.isolate = "none" /\ y.done = 0
    BY NoLoadSane DEF Records
  <2>2. Started(http) = y
    BY <1>1 DEF Started
  <2>. HIDE DEF y
  <2>. QED
    BY <2>1, <2>2 DEF Sane, Working
<1>2. CASE ~http
  <2>. DEFINE y == [NoLoad EXCEPT !.caller = "over"]
  <2>1. y \in Records /\ y.job = "none" /\ y.isolate = "none" /\ y.done = 0
    BY NoLoadSane DEF Records
  <2>2. Started(http) = y
    BY <1>2 DEF Started
  <2>. HIDE DEF y
  <2>. QED
    BY <2>1, <2>2 DEF Sane, Working
<1>. QED
  BY <1>1, <1>2

LEMMA LoadStep ==
    ASSUME PreviewIInv, NEW p \in Previews, NEW http \in BOOLEAN, Load(p, http)
    PROVE  PreviewIInv'
<1>. DEFINE e == epoch[p] + 1
            old == <<p, epoch[p]>>
            new == <<p, e>>
<1>1. /\ browser \in BOOLEAN /\ load \in [Loads -> Records] /\ Widgets /\ epoch[p] \in Nat
      /\ UNCHANGED <<browser, mounted, active>> /\ queue' = Leave(old)
      /\ mounted[p] /\ e <= MaxEpoch[p] /\ epoch' = [epoch EXCEPT ![p] = e]
      /\ shown' = [shown EXCEPT ![p] = [what |-> IF http THEN "nothing" ELSE "error", of |-> e]]
  BY DEF PreviewIInv, Agree, Load, Widgets
<1>2. load' = [l \in Loads |-> IF l = old THEN Cancelled(load[l]) ELSE IF l = new THEN Started(http) ELSE load[l]]
  BY DEF Load
<1>3. new \in Loads /\ old # new /\ e \in Nat
  BY <1>1, Numbers DEF Loads
<1>4. load[new] = NoLoad
  <2>1. new[2] > epoch[new[1]]
    BY <1>1
  <2>. QED
    BY <1>1, <1>3, <2>1 DEF Widgets
<1>5. Sane(Started(http)) /\ Started(http).job = "none" /\ Started(http) \in Records
  BY StartedSane
<1>6. NoLoad.job = "none"
  BY DEF NoLoad
<1>. HIDE DEF old, new
<1>7. ASSUME NEW l \in Loads
      PROVE  /\ Sane(load'[l]) /\ load'[l] \in Records
             /\ l # old => load'[l].job = load[l].job
             /\ l = old => /\ load'[l].job # "queued"
                           /\ load'[l].job \in {"decoding", "leaving"} <=> load[l].job \in {"decoding", "leaving"}
             /\ l # old /\ l # new => load'[l] = load[l]
  <2>1. CASE l = old
    <3>1. load'[l] = Cancelled(load[l]) /\ Sane(load[l])
      BY <1>2, <2>1 DEF PreviewIInv
    <3>2. /\ Sane(load'[l]) /\ load'[l].job # "queued"
          /\ load'[l].job \in {"decoding", "leaving"} <=> load[l].job \in {"decoding", "leaving"}
      BY <1>1, <3>1, CancelledSane
    <3>3. load'[l] \in Records
      BY <3>2 DEF Sane
    <3>. QED
      BY <2>1, <3>2, <3>3
  <2>2. CASE l = new
    <3>1. load'[l] = Started(http) /\ load[l].job = "none"
      BY <1>2, <1>3, <1>4, <1>6, <2>2
    <3>. QED
      BY <1>3, <1>5, <2>2, <3>1
  <2>3. CASE l # old /\ l # new
    <3>1. load'[l] = load[l] /\ Sane(load[l]) /\ load[l] \in Records
      BY <1>1, <1>2, <2>3 DEF PreviewIInv
    <3>. QED
      BY <2>3, <3>1
  <2>. QED
    BY <2>1, <2>2, <2>3
<1>8. load' \in [Loads -> Records]
  BY <1>2, <1>7
<1>9. Ends(load, old, load')
  BY <1>7, <1>8 DEF Ends
<1>10. ASSUME NEW l \in Loads, l[2] > epoch'[l[1]] PROVE load'[l] = NoLoad
  <2>1. l[1] \in Previews /\ l[2] \in Nat /\ epoch[l[1]] \in Nat
    BY <1>1, LoadFacts DEF Widgets
  <2>2. l[2] > epoch[l[1]] /\ (l[1] = p => l[2] > e)
    BY <1>1, <1>3, <1>10, <2>1 DEF Widgets
  <2>3. l # old /\ l # new
    BY <1>1, <1>3, <2>1, <2>2 DEF old, new
  <2>. QED
    BY <1>1, <1>7, <2>2, <2>3 DEF Widgets
<1>11. Widgets'
  <2>1. epoch' \in [Previews -> Nat]
    BY <1>1, <1>3 DEF Widgets
  <2>2. shown' \in [Previews -> [what : {"nothing", "image", "error"}, of : Nat]]
    BY <1>1, <1>3 DEF Widgets
  <2>3. \A r \in Previews : mounted'[r] => epoch'[r] <= MaxEpoch[r] /\ shown'[r].of = epoch'[r]
    BY <1>1 DEF Widgets
  <2>. QED
    BY <1>1, <1>10, <2>1, <2>2, <2>3 DEF Widgets
<1>. QED
  BY <1>1, <1>7, <1>9, <1>11, CancelStep DEF PreviewIInv

\* A new job at the end of the queue.
LEMMA AgreesAppend ==
    ASSUME NEW ld, NEW q, NEW n, Agree(ld, q, n), NEW l \in Loads, NEW x \in Records,
           ld[l].job = "none", x.job = "queued"
    PROVE  Agree([ld EXCEPT ![l] = x], Append(q, l), n) /\ Len(Append(q, l)) = Len(q) + 1
<1>. DEFINE new == [ld EXCEPT ![l] = x]
            r == Append(q, l)
<1>1. /\ new \in [Loads -> Records] /\ new[l] = x /\ \A k \in Loads : k # l => new[k] = ld[k]
      /\ ld \in [Loads -> Records]
  BY DEF Agree
<1>2. /\ q \in Seq(Loads) /\ Len(q) \in Nat /\ \A i \in 1 .. Len(q) : q[i] \in Loads /\ q[i] # l
  BY LenProperties DEF Agree
<1>3. r \in Seq(Loads) /\ Len(r) = Len(q) + 1 /\ (\A i \in 1 .. Len(q) : r[i] = q[i]) /\ r[Len(q) + 1] = l
  BY <1>2, AppendProperties
<1>. HIDE DEF new, r
<1>4. RunningIn(new) = RunningIn(ld)
  BY <1>1 DEF RunningIn
<1>5. \A i \in 1 .. Len(r) : i \in 1 .. Len(q) \/ i = Len(q) + 1
  BY <1>2, <1>3
<1>6. \A i, j \in 1 .. Len(r) : r[i] = r[j] => i = j
  BY <1>2, <1>3, <1>5 DEF Agree
<1>7. \A i \in 1 .. Len(r) : new[r[i]].job = "queued"
  BY <1>1, <1>2, <1>3, <1>5 DEF Agree
<1>8. \A k \in Loads : new[k].job = "queued" => \E i \in 1 .. Len(r) : r[i] = k
  <2>1. Len(q) + 1 \in 1 .. Len(r) /\ 1 .. Len(q) \subseteq 1 .. Len(r)
    BY <1>2, <1>3
  <2>. QED
    BY <1>1, <1>3, <2>1 DEF Agree
<1>9. Agree(new, r, n)
  BY <1>1, <1>3, <1>4, <1>6, <1>7, <1>8 DEF Agree
<1>. QED
  BY <1>3, <1>9 DEF new, r

LEMMA DownloadedStep ==
    ASSUME PreviewIInv, NEW l \in Loads, NEW good \in BOOLEAN, Downloaded(l, good)
    PROVE  PreviewIInv'
<1>. DEFINE x == load[l]
            go == good /\ ~x.cancelled /\ Len(queue) < MaxQueued
<1>1. /\ x \in Records /\ Sane(x) /\ x.loader = "download" /\ x.job = "none" /\ x.isolate = "none" /\ x # NoLoad
      /\ load \in [Loads -> Records] /\ browser \in BOOLEAN
      /\ UNCHANGED <<browser, epoch, mounted, shown>>
  BY DEF PreviewIInv, Agree, Sane, NoLoad, Downloaded
<1>2. CASE ~go
  <2>1. load' = [load EXCEPT ![l] = [x EXCEPT !.loader = "failed"]] /\ UNCHANGED <<queue, active>>
    BY <1>1, <1>2 DEF Downloaded
  <2>2. Sane([x EXCEPT !.loader = "failed"])
    BY <1>1 DEF Sane, Records, Working
  <2>. QED
    BY <1>1, <2>1, <2>2, LocalStep DEF Records
<1>3. CASE go
  <2>. DEFINE y == [x EXCEPT !.loader = "decode", !.job = "queued"]
              ld == [load EXCEPT ![l] = y]
  <2>1. Drained(ld, Append(queue, l), active) /\ ~x.cancelled
    <3>1. ld = [load EXCEPT ![l].loader = "decode", ![l].job = "queued"]
      BY <1>1 DEF Records
    <3>. QED
      BY <1>3, <3>1 DEF Downloaded
  <2>2. Sane(y) /\ y \in Records /\ y.job = "queued"
    BY <1>1, <2>1 DEF Sane, Records, Working
  <2>. HIDE DEF y
  <2>3. Agree(ld, Append(queue, l), active) /\ Len(Append(queue, l)) = Len(queue) + 1
    BY <1>1, <2>2, AgreesAppend DEF PreviewIInv
  <2>4. Len(Append(queue, l)) <= MaxQueued
    <3>1. Len(queue) \in Nat
      BY LenProperties DEF PreviewIInv, Agree
    <3>. QED
      BY <1>3, <2>3, <3>1, Numbers
  <2>5. \A k \in Loads : Sane(ld[k])
    BY <1>1, <2>2 DEF PreviewIInv
  <2>6. \A k \in Loads : k[2] > epoch[k[1]] => ld[k] = NoLoad
    BY <1>1 DEF PreviewIInv, Widgets
  <2>. HIDE DEF ld
  <2>. QED
    BY <1>1, <2>1, <2>3, <2>4, <2>5, <2>6, DrainStep DEF PreviewIInv
<1>. QED
  BY <1>2, <1>3

\* A job that ran gives its slot back.
LEMMA AgreesFree ==
    ASSUME NEW ld, NEW q, NEW n, Agree(ld, q, n), NEW l \in Loads, NEW x \in Records,
           ld[l].job = "leaving", x.job \in {"ok", "failed"}
    PROVE  Agree([ld EXCEPT ![l] = x], q, n - 1)
<1>. DEFINE new == [ld EXCEPT ![l] = x]
<1>1. /\ new \in [Loads -> Records] /\ new[l] = x /\ \A k \in Loads : k # l => new[k] = ld[k]
      /\ ld \in [Loads -> Records] /\ n \in Int /\ n - 1 \in Int
      /\ \A i \in 1 .. Len(q) : q[i] \in Loads /\ q[i] # l
  BY DEF Agree
<1>. HIDE DEF new
<1>2. RunningIn(new) = RunningIn(ld) \ {l} /\ l \in RunningIn(ld)
  BY <1>1 DEF RunningIn
<1>3. IsFiniteSet(RunningIn(new)) /\ Cardinality(RunningIn(new)) = n - 1
  <2>1. IsFiniteSet(RunningIn(ld)) /\ Cardinality(RunningIn(ld)) = n
    BY DEF Agree
  <2>. QED
    BY <1>1, <1>2, <2>1, FS_RemoveElement
<1>4. Agree(new, q, n - 1)
  BY <1>1, <1>3 DEF Agree
<1>. QED
  BY <1>4 DEF new

LEMMA LeavesStep ==
    ASSUME PreviewIInv, NEW l \in Loads, Leaves(l)
    PROVE  PreviewIInv'
<1>. DEFINE x == load[l]
            to == IF x.answer = "ok" /\ ~x.cancelled THEN "ok" ELSE "failed"
            y == [x EXCEPT !.job = to, !.done = @ + 1, !.answer = "open"]
            ld == [load EXCEPT ![l] = y]
<1>1. /\ x \in Records /\ Sane(x) /\ x.job = "leaving" /\ x # NoLoad
      /\ load \in [Loads -> Records] /\ browser \in BOOLEAN
      /\ UNCHANGED <<browser, epoch, mounted, shown>>
  BY DEF PreviewIInv, Agree, Sane, NoLoad, Leaves
<1>2. Drained(ld, queue, active - 1)
  <2>1. ld = [load EXCEPT ![l].job = to, ![l].done = @ + 1, ![l].answer = "open"]
    BY <1>1 DEF Records
  <2>. QED
    BY <2>1 DEF Leaves
<1>3. x.done = 0 /\ to \in {"ok", "failed"}
  BY <1>1 DEF Sane
<1>. HIDE DEF to
<1>4. Sane(y) /\ y \in Records /\ y.job \in {"ok", "failed"}
  <2>1. /\ y \in Records /\ y.job = to /\ y.done = 1 /\ y.isolate = x.isolate /\ y.loader = x.loader
        /\ y.cancelled = x.cancelled
    <3>1. y = [x EXCEPT !.job = to, !.done = 1, !.answer = "open"]
      BY <1>3
    <3>. HIDE DEF x
    <3>2. to \in {"none", "queued", "decoding", "leaving", "ok", "failed"} /\ 1 \in 0 .. 1
      BY <1>3
    <3>3. [x EXCEPT !.job = to, !.done = 1, !.answer = "open"] \in Records
      BY <1>1, <3>2 DEF Records
    <3>. QED
      BY <1>1, <3>1, <3>3 DEF Records
  <2>. HIDE DEF y
  <2>. QED
    BY <1>1, <1>3, <2>1 DEF Sane, Working
<1>. HIDE DEF y
<1>5. Agree(ld, queue, active - 1)
  BY <1>1, <1>4, AgreesFree DEF PreviewIInv
<1>6. active - 1 <= MaxActive
  BY Numbers DEF PreviewIInv, Agree
<1>7. \A k \in Loads : Sane(ld[k])
  BY <1>1, <1>4 DEF PreviewIInv
<1>8. \A k \in Loads : k[2] > epoch[k[1]] => ld[k] = NoLoad
  BY <1>1 DEF PreviewIInv, Widgets
<1>. HIDE DEF ld
<1>. QED
  BY <1>1, <1>2, <1>5, <1>6, <1>7, <1>8, DrainStep DEF PreviewIInv

-----------------------------------------------------------------------------
(* The theorems.                                                           *)

LEMMA InitHolds == PreviewInit => PreviewIInv
<1>. SUFFICES ASSUME PreviewInit PROVE PreviewIInv
  OBVIOUS
<1>1. load = [l \in Loads |-> NoLoad] /\ queue = <<>> /\ active = 0
  BY DEF PreviewInit
<1>2. RunningIn(load) = {}
  BY <1>1, NoLoadSane DEF RunningIn
<1>3. Agree(load, queue, active)
  <2>1. load \in [Loads -> Records] /\ \A l \in Loads : load[l].job # "queued"
    BY <1>1, NoLoadSane
  <2>2. queue \in Seq(Loads) /\ Len(queue) = 0 /\ 1 .. Len(queue) = {}
    BY <1>1
  <2>3. IsFiniteSet(RunningIn(load)) /\ Cardinality(RunningIn(load)) = 0
    BY <1>2, FS_EmptySet
  <2>. QED
    BY <1>1, <2>1, <2>2, <2>3 DEF Agree
<1>4. Widgets
  BY <1>1, Numbers DEF PreviewInit, Widgets
<1>. QED
  BY <1>1, <1>3, <1>4, NoLoadSane, Numbers DEF PreviewIInv, PreviewInit

LEMMA PreviewInductive == PreviewIInv /\ [PreviewNext]_previewVars => PreviewIInv'
<1>. SUFFICES ASSUME PreviewIInv, [PreviewNext]_previewVars PROVE PreviewIInv'
  OBVIOUS
<1>1. CASE UNCHANGED previewVars
  BY <1>1 DEF previewVars, PreviewIInv, Widgets, Agree, RunningIn, Sane, Working
<1>2. ASSUME NEW l \in Loads, LoaderAnswered(l) \/ TimedOut(l) PROVE PreviewIInv'
  <2>1. load[l].caller = "waiting" /\ \E what \in {"image", "error"} : Finish(l, what)
    BY <1>2 DEF LoaderAnswered, TimedOut
  <2>. QED
    BY <2>1, FinishStep
<1>. QED
  BY <1>1, <1>2, LoadStep, DisposePreviewStep, LeavesStep, DecodedStep, PlatformStep, DownloadedStep DEF PreviewNext

LEMMA PreviewInvariant == PreviewSpec => []PreviewIInv
  BY InitHolds, PreviewInductive, PTL DEF PreviewSpec

\* A job of the decode queue is completed once, the slots in use are exactly the
\* jobs that run, and no isolate that was not told to stop outlives its slot:
\* the decoders are bounded by maxActive whatever is cancelled or times out.
THEOREM ImageSound == PreviewSpec => []ImageInv
<1>1. PreviewIInv => ImageInv
  <2>. SUFFICES ASSUME PreviewIInv PROVE ImageInv
    OBVIOUS
  <2>1. RunningLoads = RunningIn(load)
    BY DEF RunningLoads, RunningIn
  <2>2. active = Cardinality(RunningLoads) /\ active \in 0 .. MaxActive
    BY <2>1, FS_CardinalityType, Numbers DEF PreviewIInv, Agree
  <2>3. \A l \in Loads : Working(load[l]) => l \in RunningLoads
    BY DEF PreviewIInv, Sane, RunningLoads
  <2>. QED
    BY <2>2, <2>3 DEF PreviewIInv, Widgets, Agree, Sane, ImageInv, Records
<1>. QED
  BY <1>1, PreviewInvariant, PTL

\* The decode queue holds each job that is waited for once, none that was
\* cancelled, none while a slot is free, and never more than maxQueued.
THEOREM QueueLive == PreviewSpec => []QueueIsLive
<1>1. PreviewIInv => QueueIsLive
  <2>. SUFFICES ASSUME PreviewIInv PROVE QueueIsLive
    OBVIOUS
  <2>1. /\ queue \in Seq(Loads) /\ Len(queue) \in Nat /\ DOMAIN queue = 1 .. Len(queue)
        /\ \A i \in 1 .. Len(queue) : queue[i] \in Loads
        /\ \A i, j \in 1 .. Len(queue) : queue[i] = queue[j] => i = j
    BY LenProperties DEF PreviewIInv, Agree
  <2>2. ToSet(queue) = {queue[i] : i \in 1 .. Len(queue)}
    BY <2>1 DEF ToSet
  <2>3. Cardinality(ToSet(queue)) = Len(queue)
    BY <2>1, <2>2, FirstCounted
  <2>4. ToSet(queue) = {l \in Loads : load[l].job = "queued"}
    BY <2>1, <2>2 DEF PreviewIInv, Agree
  <2>5. \A l \in ToSet(queue) : ~load[l].cancelled
    BY <2>4 DEF PreviewIInv, Sane
  <2>. QED
    BY <2>3, <2>4, <2>5 DEF PreviewIInv, QueueIsLive
<1>. QED
  BY <1>1, PreviewInvariant, PTL

\* A mounted preview shows nothing but the outcome of its present uri: _load
\* drops what an earlier load brings late.
THEOREM UriShown == PreviewSpec => []ShowsItsUri
<1>1. PreviewIInv => ShowsItsUri
  BY DEF PreviewIInv, Widgets, ShowsItsUri
<1>. QED
  BY <1>1, PreviewInvariant, PTL

=============================================================================
