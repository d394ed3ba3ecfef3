--------------------------- MODULE SessionProofs ----------------------------
(***************************************************************************)
(* Proofs about the session, for any documents and any number of attempts, *)
(* changes and nested calls: it holds exactly the lease it has not given   *)
(* back, edits are reported exactly and in order, nothing is left over     *)
(* between calls, and disposal is final.                                   *)
(***************************************************************************)
EXTENDS Session, FiniteSetTheorems, SequenceTheorems, TLAPS

Frames == [at : Labels, arg : Docs \cup Attempts \cup {None}]

\* The publications in progress on a stack.
Notifying(s) == {i \in 1 .. Len(s) : s[i].at = "notify"}

\* The kinds of frames on a stack, and the attempts it is starting.
At(s) == {s[i].at : i \in 1 .. Len(s)}
Starting(s) == {s[i].arg : i \in {j \in 1 .. Len(s) : s[j].at = "start"}}

\* The editor is called by the innermost call only, under the load that
\* calls it; the flag is up only between the two.
EditorOnTop ==
    /\ \A i \in 1 .. Len(stack) : stack[i].at = "editor" =>
          /\ i = Len(stack)
          /\ i > 1 /\ stack[i - 1].at = "load"
          /\ stack[i].arg \in Docs
          /\ status = "ready"
          /\ loadingDocument
    /\ loadingDocument => Running \in {"editor", "load"}

\* An attempt that has still to call the loader, or waits for it, has not
\* opened the session and has given it no lease.
StillOpening ==
    /\ \A a \in Starting(stack) : /\ a \in Attempts
                                  /\ a <= attempt
                                  /\ a = attempt => status # "ready"
                                  /\ lease # a
    /\ \A a \in Attempts : loads[a] = "running" =>
          /\ a <= attempt
          /\ a = attempt => status # "ready"
          /\ lease # a

\* The depth and the flag of the loop are those of a stack.
Balanced(s, depth, sending) ==
    /\ depth = Cardinality(Notifying(s))
    /\ sending <=> "send" \in At(s)
    /\ \A i, j \in 1 .. Len(s) : s[i].at = "send" /\ s[j].at = "send" => i = j

\* While a change waits, something on the stack will report it.
PublicationsOnStack ==
    /\ Balanced(stack, publicationDepth, sendingChanges)
    /\ pendingChanges # <<>> => "notify" \in At(stack) \/ "send" \in At(stack)

\* Only disposal closes the stream, and it leaves nothing to report.
ClosedIsDisposed ==
    /\ closed => status = "disposed"
    /\ "dispose" \in At(stack) => status = "disposed"
    /\ status = "disposed" => pendingChanges = <<>>

IInv == /\ TypeOK
        /\ EditorOnTop
        /\ StillOpening
        /\ PublicationsOnStack
        /\ ClosedIsDisposed
        /\ OwnsOneLease
        /\ ListenersSeeNow
        /\ ChangesAreTheEdits

-----------------------------------------------------------------------------
(* The stack.                                                              *)

LEMMA Push ==
    ASSUME NEW S, NEW s \in Seq(S), NEW f \in S
    PROVE  /\ Append(s, f) \in Seq(S)
           /\ Len(Append(s, f)) = Len(s) + 1
           /\ Append(s, f)[Len(s) + 1] = f
           /\ \A i \in 1 .. Len(s) : Append(s, f)[i] = s[i]
           /\ Append(s, f) # <<>>
  OBVIOUS

LEMMA Pop ==
    ASSUME NEW S, NEW s \in Seq(S), s # <<>>
    PROVE  /\ SubSeq(s, 1, Len(s) - 1) \in Seq(S)
           /\ Len(SubSeq(s, 1, Len(s) - 1)) = Len(s) - 1
           /\ \A i \in 1 .. Len(s) - 1 : SubSeq(s, 1, Len(s) - 1)[i] = s[i]
           /\ s[Len(s)] \in S
           /\ Len(s) \in Nat /\ Len(s) >= 1
<1>1. Len(s) \in Nat /\ Len(s) >= 1 /\ s[Len(s)] \in S
  OBVIOUS
<1>2. 1 \in Int /\ Len(s) - 1 \in Int /\ \A i \in 1 .. Len(s) - 1 : s[i] \in S
  BY <1>1
<1>3. /\ SubSeq(s, 1, Len(s) - 1) \in Seq(S)
      /\ Len(SubSeq(s, 1, Len(s) - 1))
            = IF 1 <= Len(s) - 1 THEN Len(s) - 1 - 1 + 1 ELSE 0
      /\ \A i \in 1 .. Len(s) - 1 - 1 + 1 : SubSeq(s, 1, Len(s) - 1)[i] = s[1 + i - 1]
  BY <1>2, SubSeqProperties
<1>4. Len(SubSeq(s, 1, Len(s) - 1)) = Len(s) - 1
  <2>1. PICK k : k = Len(SubSeq(s, 1, Len(s) - 1))
    OBVIOUS
  <2>2. PICK n \in Nat : n = Len(s) /\ n >= 1
    BY <1>1
  <2>3. k = IF 1 <= n - 1 THEN n - 1 - 1 + 1 ELSE 0
    BY <1>3, <2>1, <2>2, Zenon
  <2>4. CASE 1 <= n - 1
    <3>1. k = n - 1 - 1 + 1
      BY <2>3, <2>4
    <3>. QED
      BY <2>1, <2>2, <3>1
  <2>5. CASE ~(1 <= n - 1)
    BY <2>1, <2>2, <2>3, <2>5
  <2>. QED
    BY <2>4, <2>5
<1>5. ASSUME NEW i \in 1 .. Len(s) - 1
      PROVE  SubSeq(s, 1, Len(s) - 1)[i] = s[i]
  <2>1. i \in 1 .. Len(s) - 1 - 1 + 1 /\ 1 + i - 1 = i
    BY <1>1
  <2>. QED
    BY <1>3, <2>1
<1>. QED
  BY <1>1, <1>3, <1>4, <1>5

LEMMA FrameType ==
    ASSUME NEW at \in Labels, NEW arg \in Docs \cup Attempts \cup {None}
    PROVE  Frame(at, arg) \in Frames /\ Frame(at, arg).at = at /\ Frame(at, arg).arg = arg
  BY DEF Frame, Frames

LEMMA StackType == TypeOK => stack \in Seq(Frames)
  BY DEF TypeOK, Frames

\* A stack that is not empty has a running frame, and one under it.
LEMMA TopFrame ==
    ASSUME TypeOK, Running # "none"
    PROVE  /\ stack # <<>>
           /\ Under \in Seq(Frames)
           /\ Len(Under) = Len(stack) - 1
           /\ \A i \in 1 .. Len(stack) - 1 : Under[i] = stack[i]
           /\ Top \in Frames
           /\ Running = Top.at
           /\ Len(stack) \in Nat /\ Len(stack) >= 1
<1>1. stack # <<>> /\ stack \in Seq(Frames) /\ Running = Top.at
  BY StackType DEF Running
<1>. QED
  BY <1>1, Pop DEF Under, Top

LEMMA PushAt ==
    ASSUME NEW s \in Seq(Frames), NEW f \in Frames
    PROVE  /\ At(Append(s, f)) = At(s) \cup {f.at}
           /\ Starting(Append(s, f)) = IF f.at = "start" THEN Starting(s) \cup {f.arg}
                                      ELSE Starting(s)
<1>1. Len(s) \in Nat
  OBVIOUS
<1>2. 1 .. Len(Append(s, f)) = (1 .. Len(s)) \cup {Len(s) + 1}
  BY <1>1, Push
<1>3. At(Append(s, f)) = At(s) \cup {f.at}
  BY <1>1, <1>2, Push DEF At
<1>4. CASE f.at = "start"
  BY <1>1, <1>2, <1>3, <1>4, Push DEF Starting
<1>5. CASE f.at # "start"
  BY <1>1, <1>2, <1>3, <1>5, Push DEF Starting
<1>. QED
  BY <1>4, <1>5

LEMMA PopAt ==
    ASSUME TypeOK, Running # "none"
    PROVE  /\ At(stack) = At(Under) \cup {Running}
           /\ Starting(Under) \subseteq Starting(stack)
           /\ Running = "start" => Top.arg \in Starting(stack)
<1>1. /\ Len(stack) \in Nat /\ Len(stack) >= 1
      /\ Len(Under) = Len(stack) - 1
      /\ \A i \in 1 .. Len(stack) - 1 : Under[i] = stack[i]
      /\ Running = stack[Len(stack)].at
  BY TopFrame DEF Top
<1>2. 1 .. Len(stack) = (1 .. Len(Under)) \cup {Len(stack)}
  BY <1>1
<1>. QED
  BY <1>1, <1>2 DEF At, Starting, Top

LEMMA EmptyAt == stack = <<>> => At(stack) = {} /\ Starting(stack) = {} /\ Notifying(stack) = {}
  BY DEF At, Starting, Notifying

LEMMA NotifyingFinite ==
    ASSUME NEW s \in Seq(Frames)
    PROVE  IsFiniteSet(Notifying(s)) /\ Cardinality(Notifying(s)) \in Nat
<1>1. IsFiniteSet(1 .. Len(s))
  BY FS_Interval
<1>2. Notifying(s) \in SUBSET (1 .. Len(s))
  BY DEF Notifying
<1>. QED
  BY <1>1, <1>2, FS_Subset, FS_CardinalityType

LEMMA PushNotify ==
    ASSUME NEW s \in Seq(Frames), NEW f \in Frames
    PROVE  Cardinality(Notifying(Append(s, f)))
              = Cardinality(Notifying(s)) + (IF f.at = "notify" THEN 1 ELSE 0)
<1>1. CASE f.at = "notify"
  <2>1. Notifying(Append(s, f)) = Notifying(s) \cup {Len(s) + 1}
    BY <1>1, Push DEF Notifying
  <2>2. Len(s) + 1 \notin Notifying(s)
    BY DEF Notifying
  <2>. QED
    BY <1>1, <2>1, <2>2, NotifyingFinite, FS_AddElement
<1>2. CASE f.at # "notify"
  <2>1. Notifying(Append(s, f)) = Notifying(s)
    BY <1>2, Push DEF Notifying
  <2>. QED
    BY <1>2, <2>1, NotifyingFinite
<1>. QED
  BY <1>1, <1>2

LEMMA PopNotify ==
    ASSUME TypeOK, Running # "none"
    PROVE  Cardinality(Notifying(stack))
              = Cardinality(Notifying(Under)) + (IF Running = "notify" THEN 1 ELSE 0)
<1>0. stack \in Seq(Frames)
  BY StackType
<1>1. CASE Running = "notify"
  <2>1. Notifying(stack) = Notifying(Under) \cup {Len(stack)}
    BY <1>1, <1>0, TopFrame DEF Notifying, Top
  <2>2. Len(stack) \notin Notifying(Under)
    BY <1>0, TopFrame DEF Notifying
  <2>. QED
    BY <1>1, <2>1, <2>2, TopFrame, NotifyingFinite, FS_AddElement
<1>2. CASE Running # "notify"
  <2>1. Notifying(stack) = Notifying(Under)
    BY <1>2, <1>0, TopFrame DEF Notifying, Top
  <2>. QED
    BY <1>2, <2>1, TopFrame, NotifyingFinite
<1>. QED
  BY <1>1, <1>2

LEMMA BalancedPush ==
    ASSUME NEW s \in Seq(Frames), NEW f \in Frames, NEW depth \in Nat, NEW sending \in BOOLEAN,
           Balanced(s, depth, sending),
           f.at = "send" => ~sending
    PROVE  Balanced(Append(s, f), IF f.at = "notify" THEN depth + 1 ELSE depth,
                    sending \/ f.at = "send")
<1>1. (IF f.at = "notify" THEN depth + 1 ELSE depth) = Cardinality(Notifying(Append(s, f)))
  BY PushNotify DEF Balanced
<1>2. (sending \/ f.at = "send") <=> "send" \in At(Append(s, f))
  BY PushAt DEF Balanced
<1>3. ASSUME NEW i \in 1 .. Len(Append(s, f)), NEW j \in 1 .. Len(Append(s, f)),
             Append(s, f)[i].at = "send", Append(s, f)[j].at = "send"
      PROVE  i = j
  <2>1. /\ Len(Append(s, f)) = Len(s) + 1 /\ Len(s) \in Nat
        /\ Append(s, f)[Len(s) + 1] = f
        /\ \A k \in 1 .. Len(s) : Append(s, f)[k] = s[k]
    BY Push
  <2>2. CASE f.at = "send"
    <3>1. \A k \in 1 .. Len(s) : s[k].at # "send"
      BY <2>2 DEF Balanced, At
    <3>. QED
      BY <1>3, <2>1, <3>1
  <2>3. CASE f.at # "send"
    <3>1. i \in 1 .. Len(s) /\ j \in 1 .. Len(s)
      BY <1>3, <2>1, <2>3
    <3>2. s[i].at = "send" /\ s[j].at = "send"
      BY <1>3, <2>1, <3>1
    <3>. QED
      BY <3>1, <3>2 DEF Balanced
  <2>. QED
    BY <2>2, <2>3
<1>. QED
  BY <1>1, <1>2, <1>3 DEF Balanced

LEMMA BalancedPop ==
    ASSUME TypeOK, Running # "none", Balanced(stack, publicationDepth, sendingChanges)
    PROVE  Balanced(Under, IF Running = "notify" THEN publicationDepth - 1 ELSE publicationDepth,
                    sendingChanges /\ Running # "send")
<1>0. /\ Len(stack) \in Nat /\ Len(stack) >= 1
      /\ Len(Under) = Len(stack) - 1 /\ Under \in Seq(Frames)
      /\ \A i \in 1 .. Len(stack) - 1 : Under[i] = stack[i]
      /\ stack[Len(stack)].at = Running
  BY TopFrame DEF Top
<1>1. (IF Running = "notify" THEN publicationDepth - 1 ELSE publicationDepth)
         = Cardinality(Notifying(Under))
  BY <1>0, PopNotify, NotifyingFinite DEF Balanced
<1>2. \A i, j \in 1 .. Len(Under) : Under[i].at = "send" /\ Under[j].at = "send" => i = j
  BY <1>0 DEF Balanced
<1>3. (sendingChanges /\ Running # "send") <=> "send" \in At(Under)
  <2>1. CASE Running = "send"
    <3>1. SUFFICES ASSUME NEW i \in 1 .. Len(Under), Under[i].at = "send"
                   PROVE  FALSE
      BY <2>1 DEF At
    <3>2. i \in 1 .. Len(stack) /\ Len(stack) \in 1 .. Len(stack) /\ i # Len(stack)
          /\ stack[i].at = "send" /\ stack[Len(stack)].at = "send"
      BY <1>0, <2>1, <3>1
    <3>. QED
      BY <3>2 DEF Balanced
  <2>2. CASE Running # "send"
    BY <2>2, PopAt DEF Balanced
  <2>. QED
    BY <2>1, <2>2
<1>. QED
  BY <1>1, <1>2, <1>3 DEF Balanced

-----------------------------------------------------------------------------
(* Types.                                                                  *)

LEMMA PublishType ==
    ASSUME NEW rest \in Seq(Frames), publicationDepth \in Nat, Publish(rest)
    PROVE  stack' \in Seq(Frames) /\ publicationDepth' \in Nat /\ state' = Current'
<1>1. Frame("notify", None) \in Frames
  BY FrameType DEF Labels
<1>. QED
  BY <1>1, Push DEF Publish

LEMMA EditedType ==
    ASSUME TypeOK, NEW d \in Docs, NEW rest \in Seq(Frames), Edited(d, rest),
           edits' \in Seq(Docs), UNCHANGED <<opening, sendingChanges, closed, heard>>
    PROVE  TypeOK'
<1>1. stack' \in Seq(Frames) /\ publicationDepth' \in Nat /\ state' = Current'
  BY PublishType DEF Edited, TypeOK
<1>2. pendingChanges' \in Seq(Docs)
  BY DEF TypeOK, Edited
<1>3. /\ status' \in Statuses /\ markdown' \in Docs /\ revision' \in Nat
      /\ error' \in BOOLEAN /\ editor' \in Docs /\ loadingDocument' \in BOOLEAN
  <2>1. status' = status /\ error' = error /\ loadingDocument' = FALSE
    BY DEF Edited
  <2>2. markdown' = d /\ editor' = d /\ revision' = revision + 1
    BY DEF Edited
  <2>3. revision' \in Nat
    BY <2>2 DEF TypeOK
  <2>. QED
    BY <2>1, <2>2, <2>3, Zenon DEF TypeOK
<1>4. state' \in [markdown : Docs, revision : Nat, status : Statuses,
                  error : BOOLEAN, editor : BOOLEAN]
  BY <1>1, <1>3 DEF Current
<1>. QED
  BY <1>1, <1>2, <1>3, <1>4 DEF TypeOK, Frames, opening

LEMMA FailType ==
    ASSUME TypeOK, NEW a \in Attempts, NEW rest \in Seq(Frames), Fail(a, rest)
    PROVE  /\ stack' \in Seq(Frames) /\ publicationDepth' \in Nat
           /\ status' \in Statuses /\ markdown' \in Docs /\ revision' \in Nat
           /\ error' \in BOOLEAN /\ editor' \in Docs \cup {None}
           /\ loadingDocument' \in BOOLEAN
           /\ state' \in [markdown : Docs, revision : Nat, status : Statuses,
                          error : BOOLEAN, editor : BOOLEAN]
<1>1. CASE Overtaken(a)
  BY <1>1 DEF Fail, TypeOK, document
<1>2. CASE ~Overtaken(a)
  <2>1. Append(rest, Frame("failed", a)) \in Seq(Frames)
    BY FrameType, Push DEF Labels
  <2>2. stack' \in Seq(Frames) /\ publicationDepth' \in Nat /\ state' = Current'
    BY <1>2, <2>1, PublishType DEF Fail, TypeOK
  <2>. QED
    BY <1>2, <2>2 DEF Fail, TypeOK, Current, Statuses
<1>. QED
  BY <1>1, <1>2

\* A queue of changes keeps its type when its head is reported.
LEMMA DeliverType ==
    ASSUME TypeOK, HasChange, Deliver
    PROVE  pendingChanges' \in Seq(Docs) /\ heard' \in Seq(Docs) /\ closed' \in BOOLEAN
<1>1. pendingChanges \in Seq(Docs) /\ pendingChanges # <<>> /\ heard \in Seq(Docs)
  BY DEF TypeOK, HasChange
<1>2. Head(pendingChanges) \in Docs /\ Tail(pendingChanges) \in Seq(Docs)
  BY <1>1
<1>. QED
  BY <1>1, <1>2 DEF Deliver, TypeOK

LEMMA TypeStep ==
    ASSUME TypeOK, EditorOnTop, StillOpening, PublicationsOnStack, Next
    PROVE  TypeOK'
<1>0. stack \in Seq(Frames) /\ publicationDepth \in Nat
  BY StackType DEF TypeOK
<1>1. ASSUME NEW d \in Docs, Edit(d) PROVE TypeOK'
  <2>1. edits' \in Seq(Docs)
    BY <1>1 DEF Edit, TypeOK
  <2>. QED
    BY <1>1, <2>1, <1>0, EditedType DEF Edit
<1>2. ASSUME NEW d \in Docs, LoadEarly(d) PROVE TypeOK'
  <2>1. stack' \in Seq(Frames) /\ publicationDepth' \in Nat /\ state' = Current'
    BY <1>0, <1>2, PublishType DEF LoadEarly
  <2>. QED
    BY <1>2, <2>1 DEF LoadEarly, TypeOK, Frames, Current, opening, changes
<1>3. ASSUME NEW d \in Docs, LoadMarkdown(d) PROVE TypeOK'
  <2>1. Frame("editor", d) \in Frames /\ Frame("load", None) \in Frames
    BY FrameType DEF Labels
  <2>2. stack' \in Seq(Frames)
    BY <1>0, <2>1, <1>3, Push DEF LoadMarkdown
  <2>. QED
    BY <1>3, <2>2 DEF LoadMarkdown, TypeOK, Frames, opening, changes
<1>4. ASSUME Retry PROVE TypeOK'
  <2>1. attempt + 1 \in Attempts
    BY <1>4, BoundsAssumption DEF Retry, TypeOK, Attempts
  <2>2. /\ Append(stack, Frame("failed", attempt + 1)) \in Seq(Frames)
        /\ Append(stack, Frame("start", attempt + 1)) \in Seq(Frames)
    BY <1>0, <2>1, FrameType, Push DEF Labels
  <2>3. stack' \in Seq(Frames) /\ publicationDepth' \in Nat /\ state' = Current'
    BY <1>0, <1>4, <2>2, PublishType DEF Retry
  <2>. QED
    BY <1>4, <2>1, <2>3 DEF Retry, TypeOK, Frames, Current, changes, Statuses
<1>5. ASSUME Dispose PROVE TypeOK'
  <2>1. Append(stack, Frame("dispose", None)) \in Seq(Frames)
    BY <1>0, FrameType, Push DEF Labels
  <2>2. stack' \in Seq(Frames) /\ publicationDepth' \in Nat /\ state' = Current'
    BY <1>0, <1>5, <2>1, PublishType DEF Dispose
  <2>3. ready' \in [Attempts -> {"open", "ok", "error"}]
    BY <1>5 DEF Dispose, Complete, TypeOK
  <2>4. pendingChanges' \in Seq(Docs)
    BY <1>5 DEF Dispose
  <2>5. leases' \in [Attempts -> {"none", "held", "disposed"}]
    BY <1>5 DEF Dispose, TypeOK
  <2>. QED
    BY <1>5, <2>2, <2>3, <2>4, <2>5 DEF Dispose, TypeOK, Frames, Current, Statuses
<1>6. ASSUME NotifyReturns PROVE TypeOK'
  <2>1. Running = "notify" /\ Running # "none"
    BY <1>6 DEF NotifyReturns
  <2>2. Under \in Seq(Frames) /\ Cardinality(Notifying(Under)) \in Nat
    BY <2>1, TopFrame, NotifyingFinite
  <2>3. publicationDepth' \in Nat
    BY <1>0, <1>6, <2>1, <2>2, PopNotify DEF NotifyReturns, PublicationsOnStack, Balanced
  <2>4. Append(Under, Frame("send", None)) \in Seq(Frames)
    BY <2>2, FrameType, Push DEF Labels
  <2>5. stack' \in Seq(Frames)
    BY <1>6, <2>2, <2>4 DEF NotifyReturns
  <2>6. /\ pendingChanges' \in Seq(Docs) /\ heard' \in Seq(Docs) /\ closed' \in BOOLEAN
        /\ sendingChanges' \in BOOLEAN
    BY <1>6, DeliverType DEF NotifyReturns, TypeOK, changes
  <2>. QED
    BY <1>6, <2>3, <2>5, <2>6 DEF NotifyReturns, TypeOK, Frames, document, opening
<1>7. ASSUME SendNext PROVE TypeOK'
  <2>1. Under \in Seq(Frames)
    BY <1>7, TopFrame DEF SendNext
  <2>2. stack' \in Seq(Frames)
    BY <1>0, <1>7, <2>1 DEF SendNext
  <2>3. /\ pendingChanges' \in Seq(Docs) /\ heard' \in Seq(Docs) /\ closed' \in BOOLEAN
        /\ sendingChanges' \in BOOLEAN
    BY <1>7, DeliverType DEF SendNext, TypeOK
  <2>. QED
    BY <1>7, <2>2, <2>3 DEF SendNext, TypeOK, Frames, document, opening
<1>8. ASSUME EditorLoads PROVE TypeOK'
  <2>1. Under \in Seq(Frames) /\ Top.at = "editor" /\ Len(stack) \in 1 .. Len(stack)
    BY <1>8, TopFrame DEF EditorLoads
  <2>2. Top.arg \in Docs
    BY <2>1 DEF EditorOnTop, Top
  <2>3. edits' \in Seq(Docs)
    BY <1>8 DEF EditorLoads, TypeOK
  <2>. QED
    BY <1>8, <2>1, <2>2, <2>3, EditedType DEF EditorLoads
<1>9. ASSUME \/ EditorRefuses \/ LoadReturns \/ CallLoader \/ AttemptEnds \/ DisposeReturns
      PROVE  TypeOK'
  <2>1. Under \in Seq(Frames)
    BY <1>9, TopFrame
       DEF EditorRefuses, LoadReturns, CallLoader, AttemptEnds, DisposeReturns
  <2>2. CASE EditorRefuses
    BY <2>1, <2>2 DEF EditorRefuses, TypeOK, Frames, document, opening, changes
  <2>3. CASE LoadReturns
    BY <2>1, <2>3 DEF LoadReturns, TypeOK, Frames, opening, changes
  <2>4. CASE CallLoader
    BY <2>1, <2>4 DEF CallLoader, TypeOK, Frames, document, changes
  <2>5. CASE AttemptEnds
    BY <2>1, <2>5 DEF AttemptEnds, Complete, TypeOK, Frames, document, changes
  <2>6. CASE DisposeReturns
    BY <2>1, <2>6 DEF DisposeReturns, TypeOK, Frames, document, opening
  <2>. QED
    BY <1>9, <2>2, <2>3, <2>4, <2>5, <2>6
<1>10. ASSUME LoaderThrows PROVE TypeOK'
  <2>1. Under \in Seq(Frames) /\ Top.at = "start" /\ Len(stack) \in 1 .. Len(stack)
    BY <1>10, TopFrame DEF LoaderThrows
  <2>2. Top.arg \in Attempts
    BY <1>10, PopAt DEF StillOpening, LoaderThrows
  <2>. QED
    BY <1>10, <2>1, <2>2, FailType DEF LoaderThrows, TypeOK, Frames, changes, opening
<1>11. ASSUME NEW a \in Attempts, LoadFails(a) PROVE TypeOK'
  BY <1>11, <1>0, FailType DEF LoadFails, TypeOK, Frames, changes
<1>12. ASSUME NEW a \in Attempts, OpenThrows(a) PROVE TypeOK'
  BY <1>12, <1>0, FailType DEF OpenThrows, TypeOK, Frames, changes
<1>13. ASSUME NEW a \in Attempts, LateLease(a) PROVE TypeOK'
  BY <1>13 DEF LateLease, TypeOK, document, changes
<1>14. ASSUME NEW a \in Attempts, Opens(a) PROVE TypeOK'
  <2>1. Append(stack, Frame("opened", a)) \in Seq(Frames)
    BY <1>0, FrameType, Push DEF Labels
  <2>2. stack' \in Seq(Frames) /\ publicationDepth' \in Nat /\ state' = Current'
    BY <1>0, <1>14, <2>1, PublishType DEF Opens
  <2>. QED
    BY <1>14, <2>2 DEF Opens, TypeOK, Frames, Current, changes, Statuses
<1>. QED
  BY <1>1, <1>2, <1>3, <1>4, <1>5, <1>6, <1>7, <1>8, <1>9, <1>10, <1>11, <1>12, <1>13, <1>14
     DEF Next, Calls, Unwind, Answer

-----------------------------------------------------------------------------
(* The stack from step to step.                                            *)

LEMMA Published ==
    ASSUME NEW rest \in Seq(Frames), Publish(rest)
    PROVE  /\ At(stack') = At(rest) \cup {"notify"}
           /\ Starting(stack') = Starting(rest)
           /\ Cardinality(Notifying(stack')) = Cardinality(Notifying(rest)) + 1
           /\ Len(stack') = Len(rest) + 1
           /\ \A i \in 1 .. Len(rest) : stack'[i] = rest[i]
           /\ stack'[Len(rest) + 1].at = "notify"
           /\ Running' = "notify"
           /\ publicationDepth' = publicationDepth + 1
           /\ state' = Current'
<1>1. /\ Frame("notify", None) \in Frames
      /\ Frame("notify", None).at = "notify"
  BY FrameType DEF Labels
<1>2. stack' = Append(rest, Frame("notify", None))
  BY DEF Publish
<1>3. stack' # <<>> /\ Len(stack') = Len(rest) + 1 /\ stack'[Len(rest) + 1].at = "notify"
  BY <1>1, <1>2, Push
<1>4. Running' = "notify"
  BY <1>3 DEF Running, Top
<1>. QED
  BY <1>1, <1>2, <1>3, <1>4, Push, PushAt, PushNotify DEF Publish

\* The same, over a frame that goes on once the publication is over.
LEMMA PublishedOver ==
    ASSUME NEW s \in Seq(Frames), NEW at \in Labels \ {"notify"},
           NEW arg \in Docs \cup Attempts \cup {None},
           Publish(Append(s, Frame(at, arg)))
    PROVE  /\ At(stack') = At(s) \cup {at, "notify"}
           /\ Starting(stack') = IF at = "start" THEN Starting(s) \cup {arg} ELSE Starting(s)
           /\ Cardinality(Notifying(stack')) = Cardinality(Notifying(s)) + 1
           /\ Len(stack') = Len(s) + 2
           /\ \A i \in 1 .. Len(s) : stack'[i] = s[i]
           /\ stack'[Len(s) + 1].at = at /\ stack'[Len(s) + 2].at = "notify"
           /\ Running' = "notify"
           /\ publicationDepth' = publicationDepth + 1
           /\ state' = Current'
<1>1. Frame(at, arg) \in Frames /\ Frame(at, arg).at = at /\ Frame(at, arg).arg = arg
  BY FrameType
<1>2. PICK t \in Seq(Frames) : t = Append(s, Frame(at, arg))
  BY <1>1, Push
<1>3. /\ At(t) = At(s) \cup {at}
      /\ Starting(t) = IF at = "start" THEN Starting(s) \cup {arg} ELSE Starting(s)
  BY <1>1, <1>2, PushAt
<1>4. Cardinality(Notifying(t)) = Cardinality(Notifying(s))
  BY <1>1, <1>2, PushNotify, NotifyingFinite
<1>5. /\ Len(t) = Len(s) + 1 /\ Len(s) \in Nat
      /\ \A i \in 1 .. Len(s) : t[i] = s[i]
      /\ t[Len(s) + 1].at = at
  BY <1>1, <1>2, Push
<1>6. /\ At(stack') = At(t) \cup {"notify"}
      /\ Starting(stack') = Starting(t)
      /\ Cardinality(Notifying(stack')) = Cardinality(Notifying(t)) + 1
      /\ Len(stack') = Len(t) + 1
      /\ \A i \in 1 .. Len(t) : stack'[i] = t[i]
      /\ stack'[Len(t) + 1].at = "notify"
      /\ Running' = "notify"
      /\ publicationDepth' = publicationDepth + 1
      /\ state' = Current'
  BY <1>2, Published
<1>7. At(stack') = At(s) \cup {at, "notify"}
  BY <1>3, <1>6
<1>8. /\ Len(stack') = Len(s) + 2
      /\ \A i \in 1 .. Len(s) : stack'[i] = s[i]
      /\ stack'[Len(s) + 1].at = at /\ stack'[Len(s) + 2].at = "notify"
  BY <1>5, <1>6
<1>. QED
  BY <1>3, <1>4, <1>6, <1>7, <1>8

\* Nothing but the editor's own frame is on top of a load that has called it.
LEMMA NoEditor ==
    ASSUME TypeOK, EditorOnTop, Running # "editor"
    PROVE  "editor" \notin At(stack)
<1>1. SUFFICES ASSUME NEW i \in 1 .. Len(stack), stack[i].at = "editor"
               PROVE  FALSE
  BY DEF At
<1>2. i = Len(stack) /\ stack # <<>>
  BY <1>1, StackType DEF EditorOnTop
<1>. QED
  BY <1>1, <1>2 DEF Running, Top

\* Where no editor frame is and no flag is up, EditorOnTop holds.
LEMMA EditorGone ==
    ASSUME "editor" \notin At(stack), ~loadingDocument
    PROVE  EditorOnTop
  BY DEF EditorOnTop, At

\* What a publication from within a listener does to the stack.
LEMMA CallFrames ==
    ASSUME TypeOK, EditorOnTop, Listening
    PROVE  /\ stack \in Seq(Frames)
           /\ "editor" \notin At(stack)
           /\ ~loadingDocument
<1>1. Running # "editor" /\ Running # "load"
  BY DEF Listening
<1>. QED
  BY <1>1, NoEditor, StackType DEF EditorOnTop

\* A frame that ends, with what is left of the stack.
LEMMA ReturnFrames ==
    ASSUME TypeOK, EditorOnTop, Running \notin {"none", "editor"}
    PROVE  /\ Under \in Seq(Frames)
           /\ "editor" \notin At(Under)
           /\ Running # "load" => ~loadingDocument
<1>1. At(Under) \subseteq At(stack)
  BY PopAt
<1>. QED
  BY <1>1, NoEditor, TopFrame DEF EditorOnTop

LEMMA EditorStep ==
    ASSUME TypeOK, EditorOnTop, StillOpening, Next
    PROVE  EditorOnTop'
<1>e. ASSUME "editor" \notin At(stack'), ~loadingDocument'
      PROVE  EditorOnTop'
  BY <1>e, EditorGone DEF EditorOnTop, At, Running, Top
<1>1. ASSUME NEW d \in Docs, Edit(d) \/ LoadEarly(d) PROVE EditorOnTop'
  <2>1. /\ stack \in Seq(Frames) /\ "editor" \notin At(stack) /\ ~loadingDocument
        /\ Publish(stack)
    BY <1>1, CallFrames DEF Edit, Edited, LoadEarly, MayCall
  <2>2. "editor" \notin At(stack')
    BY <2>1, Published
  <2>3. ~loadingDocument'
    BY <1>1, <2>1 DEF Edit, Edited, LoadEarly
  <2>. QED
    BY <2>2, <2>3, <1>e
<1>2. ASSUME NEW d \in Docs, LoadMarkdown(d) PROVE EditorOnTop'
  <2>1. stack \in Seq(Frames) /\ "editor" \notin At(stack)
    BY <1>2, CallFrames DEF LoadMarkdown, MayCall
  <2>2. /\ Frame("editor", d) \in Frames /\ Frame("load", None) \in Frames
        /\ Frame("editor", d).at = "editor" /\ Frame("editor", d).arg = d
        /\ Frame("load", None).at = "load"
    BY FrameType DEF Labels
  <2>3. PICK s \in Seq(Frames) : s = Append(stack, Frame("load", None))
    BY <2>1, <2>2, Push
  <2>4. /\ Len(s) = Len(stack) + 1 /\ Len(stack) \in Nat
        /\ s[Len(s)].at = "load"
        /\ \A i \in 1 .. Len(s) : s[i].at # "editor"
    BY <2>1, <2>2, <2>3, Push DEF At
  <2>5. /\ stack' = Append(s, Frame("editor", d))
        /\ status' = "ready" /\ loadingDocument'
    BY <1>2, <2>3 DEF LoadMarkdown
  <2>6. /\ Len(stack') = Len(s) + 1 /\ stack' # <<>>
        /\ stack'[Len(s) + 1] = Frame("editor", d)
        /\ \A i \in 1 .. Len(s) : stack'[i] = s[i]
    BY <2>2, <2>5, Push
  <2>7. Running' = "editor"
    BY <2>2, <2>6 DEF Running, Top
  <2>8. ASSUME NEW i \in 1 .. Len(stack'), stack'[i].at = "editor"
        PROVE  i = Len(stack') /\ i > 1 /\ i - 1 = Len(s) /\ stack'[i] = Frame("editor", d)
    BY <2>4, <2>6, <2>8
  <2>9. stack'[Len(s)].at = "load"
    BY <2>4, <2>6
  <2>. QED
    BY <2>2, <2>5, <2>7, <2>8, <2>9 DEF EditorOnTop
<1>3. ASSUME Retry PROVE EditorOnTop'
  <2>1. stack \in Seq(Frames) /\ "editor" \notin At(stack) /\ ~loadingDocument
    BY <1>3, CallFrames DEF Retry, MayCall
  <2>2. attempt + 1 \in Attempts
    BY <1>3, BoundsAssumption DEF Retry, TypeOK, Attempts
  <2>3. \E at \in {"failed", "start"} : Publish(Append(stack, Frame(at, attempt + 1)))
    BY <1>3 DEF Retry
  <2>4. PICK at \in {"failed", "start"} : Publish(Append(stack, Frame(at, attempt + 1)))
    BY <2>3
  <2>5. at \in Labels \ {"notify"} /\ at # "editor"
    BY DEF Labels
  <2>6. "editor" \notin At(stack')
    BY <2>1, <2>2, <2>4, <2>5, PublishedOver
  <2>. QED
    BY <1>3, <2>1, <2>6, <1>e DEF Retry
<1>4. ASSUME Dispose PROVE EditorOnTop'
  <2>1. stack \in Seq(Frames) /\ "editor" \notin At(stack) /\ ~loadingDocument
    BY <1>4, CallFrames DEF Dispose, MayCall
  <2>2. At(stack') = At(stack) \cup {"dispose", "notify"}
    BY <1>4, <2>1, PublishedOver DEF Dispose, Labels
  <2>3. "editor" \notin At(stack')
    BY <2>1, <2>2
  <2>. QED
    BY <1>4, <2>1, <2>3, <1>e DEF Dispose
<1>5. ASSUME NotifyReturns PROVE EditorOnTop'
  <2>1. Under \in Seq(Frames) /\ "editor" \notin At(Under) /\ ~loadingDocument
    BY <1>5, ReturnFrames DEF NotifyReturns
  <2>2. Frame("send", None) \in Frames /\ Frame("send", None).at = "send"
    BY FrameType DEF Labels
  <2>3. stack' = Under \/ stack' = Append(Under, Frame("send", None))
    BY <1>5 DEF NotifyReturns
  <2>4. "editor" \notin At(stack')
    BY <2>1, <2>2, <2>3, PushAt
  <2>. QED
    BY <1>5, <2>1, <2>4, <1>e DEF NotifyReturns, document
<1>6. ASSUME SendNext PROVE EditorOnTop'
  <2>1. "editor" \notin At(Under) /\ ~loadingDocument
    BY <1>6, ReturnFrames DEF SendNext
  <2>2. "editor" \notin At(stack)
    BY <1>6, NoEditor DEF SendNext
  <2>3. stack' = Under \/ stack' = stack
    BY <1>6 DEF SendNext
  <2>4. "editor" \notin At(stack')
    BY <2>1, <2>2, <2>3
  <2>. QED
    BY <1>6, <2>1, <2>4, <1>e DEF SendNext, document
<1>7. ASSUME EditorLoads \/ EditorRefuses PROVE EditorOnTop'
  <2>1. /\ Running = "editor" /\ Under \in Seq(Frames)
        /\ Len(stack) \in Nat /\ Len(stack) >= 1 /\ Len(Under) = Len(stack) - 1
        /\ \A i \in 1 .. Len(stack) - 1 : Under[i] = stack[i]
        /\ stack[Len(stack)].at = "editor"
    BY <1>7, TopFrame DEF EditorLoads, EditorRefuses, Top
  <2>2. Len(stack) > 1 /\ stack[Len(stack) - 1].at = "load" /\ loadingDocument
    BY <2>1 DEF EditorOnTop
  <2>3. "editor" \notin At(Under)
    <3>1. SUFFICES ASSUME NEW i \in 1 .. Len(Under), Under[i].at = "editor"
                   PROVE  FALSE
      BY DEF At
    <3>2. i \in 1 .. Len(stack) /\ stack[i].at = "editor" /\ i # Len(stack)
      BY <2>1, <3>1
    <3>. QED
      BY <3>2 DEF EditorOnTop
  <2>4. CASE EditorLoads
    <3>1. "editor" \notin At(stack')
      BY <2>1, <2>3, <2>4, Published DEF EditorLoads, Edited
    <3>2. ~loadingDocument'
      BY <2>4 DEF EditorLoads, Edited
    <3>. QED
      BY <3>1, <3>2, <1>e
  <2>5. CASE EditorRefuses
    <3>1. stack' = Under
      BY <2>5 DEF EditorRefuses
    <3>2. Running' = "load"
      <4>1. Under # <<>> /\ Under[Len(Under)] = stack[Len(stack) - 1]
        BY <2>1, <2>2
      <4>. QED
        BY <2>2, <3>1, <4>1 DEF Running, Top
    <3>3. \A i \in 1 .. Len(stack') : stack'[i].at # "editor"
      BY <2>3, <3>1 DEF At
    <3>. QED
      BY <3>2, <3>3 DEF EditorOnTop
  <2>. QED
    BY <1>7, <2>4, <2>5
<1>8. ASSUME LoadReturns \/ CallLoader \/ AttemptEnds \/ DisposeReturns PROVE EditorOnTop'
  <2>1. /\ "editor" \notin At(Under) /\ stack' = Under
        /\ LoadReturns \/ ~loadingDocument
    BY <1>8, ReturnFrames DEF LoadReturns, CallLoader, AttemptEnds, DisposeReturns
  <2>2. ~loadingDocument'
    BY <1>8, <2>1 DEF LoadReturns, CallLoader, AttemptEnds, DisposeReturns, document
  <2>. QED
    BY <2>1, <2>2, <1>e
<1>f. ASSUME NEW a \in Attempts, NEW rest \in Seq(Frames), Fail(a, rest),
             "editor" \notin At(rest), ~loadingDocument
      PROVE  EditorOnTop'
  <2>2. stack' = rest \/ Publish(Append(rest, Frame("failed", a)))
    BY <1>f DEF Fail
  <2>3. CASE stack' = rest
    BY <1>f, <2>3, <1>e DEF Fail, document
  <2>4. CASE Publish(Append(rest, Frame("failed", a)))
    <3>1. "failed" \in Labels \ {"notify"} /\ a \in Docs \cup Attempts \cup {None}
      BY DEF Labels
    <3>2. At(stack') = At(rest) \cup {"failed", "notify"}
      BY <2>4, <3>1, PublishedOver
    <3>3. "editor" \notin At(stack')
      BY <1>f, <3>2
    <3>. QED
      BY <1>f, <3>3, <1>e DEF Fail, document
  <2>. QED
    BY <2>2, <2>3, <2>4
<1>9. ASSUME LoaderThrows PROVE EditorOnTop'
  <2>1. Under \in Seq(Frames) /\ "editor" \notin At(Under) /\ ~loadingDocument
    BY <1>9, ReturnFrames DEF LoaderThrows
  <2>2. Top.arg \in Attempts
    BY <1>9, PopAt DEF StillOpening, LoaderThrows
  <2>. QED
    BY <1>9, <2>1, <2>2, <1>f DEF LoaderThrows
<1>10. ASSUME NEW a \in Attempts, Answer(a) PROVE EditorOnTop'
  <2>1. /\ stack = <<>> /\ stack \in Seq(Frames) /\ "editor" \notin At(stack)
        /\ ~loadingDocument
    BY <1>10, CallFrames DEF Answer, LoadFails, LateLease, Opens, OpenThrows, Listening, Running
  <2>2. CASE LoadFails(a) \/ OpenThrows(a)
    BY <2>1, <2>2, <1>f DEF LoadFails, OpenThrows
  <2>3. CASE LateLease(a)
    BY <2>1, <2>3, <1>e DEF LateLease, document
  <2>4. CASE Opens(a)
    <3>1. Publish(Append(stack, Frame("opened", a)))
      BY <2>4 DEF Opens
    <3>3. At(stack') = At(stack) \cup {"opened", "notify"}
      BY <2>1, <3>1, PublishedOver DEF Labels
    <3>2. "editor" \notin At(stack')
      BY <2>1, <3>3
    <3>. QED
      BY <2>1, <2>4, <3>2, <1>e DEF Opens
  <2>. QED
    BY <1>10, <2>2, <2>3, <2>4 DEF Answer
<1>. QED
  BY <1>1, <1>2, <1>3, <1>4, <1>5, <1>6, <1>7, <1>8, <1>9, <1>10 DEF Next, Calls, Unwind

LEMMA OpeningStep ==
    ASSUME TypeOK, StillOpening, OwnsOneLease, Next
    PROVE  StillOpening'
<1>0. stack \in Seq(Frames) /\ None \notin Attempts
  BY StackType, BoundsAssumption DEF Attempts
<1>k. ASSUME Starting(stack') \subseteq Starting(stack),
             attempt' = attempt, lease' = lease \/ lease' = None,
             status' = status \/ status' # "ready",
             \A a \in Attempts : loads'[a] = "running" => loads[a] = "running"
      PROVE  StillOpening'
  BY <1>0, <1>k DEF StillOpening
<1>1. ASSUME NEW d \in Docs, Edit(d) \/ LoadEarly(d) PROVE StillOpening'
  <2>1. Publish(stack) /\ status' = status /\ UNCHANGED opening
    BY <1>1 DEF Edit, Edited, LoadEarly
  <2>2. Starting(stack') \subseteq Starting(stack)
    BY <1>0, <2>1, Published
  <2>. QED
    BY <2>1, <2>2, <1>k DEF opening
<1>2. ASSUME NEW d \in Docs, LoadMarkdown(d) PROVE StillOpening'
  <2>1. /\ Frame("editor", d) \in Frames /\ Frame("editor", d).at = "editor"
        /\ Frame("load", None) \in Frames /\ Frame("load", None).at = "load"
    BY FrameType DEF Labels
  <2>2. PICK s \in Seq(Frames) : s = Append(stack, Frame("load", None))
    BY <1>0, <2>1, Push
  <2>3. Starting(s) = Starting(stack)
    BY <1>0, <2>1, <2>2, PushAt
  <2>4. Starting(stack') = Starting(s)
    BY <1>2, <2>1, <2>2, PushAt DEF LoadMarkdown
  <2>. QED
    BY <1>2, <2>3, <2>4, <1>k DEF LoadMarkdown, opening
<1>3. ASSUME Retry PROVE StillOpening'
  <2>1. attempt + 1 \in Attempts /\ attempt \in Nat
    BY <1>3, BoundsAssumption DEF Retry, TypeOK, Attempts
  <2>2. PICK at \in {"failed", "start"} : Publish(Append(stack, Frame(at, attempt + 1)))
    BY <1>3 DEF Retry
  <2>3. at \in Labels \ {"notify"}
    BY DEF Labels
  <2>4. Starting(stack') \subseteq Starting(stack) \cup {attempt + 1}
    BY <1>0, <2>1, <2>2, <2>3, PublishedOver
  <2>5. attempt' = attempt + 1 /\ status' # "ready" /\ loads' = loads
    BY <1>3 DEF Retry
  <2>6. ASSUME NEW a \in Attempts, a <= attempt PROVE a <= attempt'
    BY <2>1, <2>5, <2>6 DEF Attempts
  <2>7. attempt' <= attempt'
    BY <2>1, <2>5
  <2>8. lease' = None
    BY <1>3 DEF Retry, OwnsOneLease
  <2>. QED
    BY <1>0, <2>1, <2>4, <2>5, <2>6, <2>7, <2>8 DEF StillOpening
<1>4. ASSUME Dispose PROVE StillOpening'
  <2>1. Publish(Append(stack, Frame("dispose", None)))
    BY <1>4 DEF Dispose
  <2>2. Starting(stack') = Starting(stack)
    BY <1>0, <2>1, PublishedOver DEF Labels
  <2>. QED
    BY <1>4, <2>2, <1>k DEF Dispose
<1>5. ASSUME NotifyReturns PROVE StillOpening'
  <2>1. Under \in Seq(Frames) /\ Starting(Under) \subseteq Starting(stack)
    BY <1>5, PopAt, TopFrame DEF NotifyReturns
  <2>2. Frame("send", None) \in Frames /\ Frame("send", None).at = "send"
    BY FrameType DEF Labels
  <2>3. stack' = Under \/ stack' = Append(Under, Frame("send", None))
    BY <1>5 DEF NotifyReturns
  <2>4. Starting(stack') \subseteq Starting(stack)
    BY <2>1, <2>2, <2>3, PushAt
  <2>. QED
    BY <1>5, <2>4, <1>k DEF NotifyReturns, document, opening
<1>6. ASSUME SendNext \/ EditorRefuses \/ LoadReturns \/ AttemptEnds \/ DisposeReturns
      PROVE  StillOpening'
  <2>1. Starting(Under) \subseteq Starting(stack)
    BY <1>6, PopAt
       DEF SendNext, EditorRefuses, LoadReturns, AttemptEnds, DisposeReturns
  <2>2. /\ stack' = Under \/ stack' = stack
        /\ attempt' = attempt /\ status' = status /\ loads' = loads /\ lease' = lease
    BY <1>6 DEF SendNext, EditorRefuses, LoadReturns, AttemptEnds, DisposeReturns,
                document, opening
  <2>. QED
    BY <2>1, <2>2, <1>k
<1>7. ASSUME EditorLoads PROVE StillOpening'
  <2>1. Under \in Seq(Frames) /\ Starting(Under) \subseteq Starting(stack)
    BY <1>7, PopAt, TopFrame DEF EditorLoads
  <2>2. Starting(stack') = Starting(Under)
    BY <1>7, <2>1, Published DEF EditorLoads, Edited
  <2>. QED
    BY <1>7, <2>1, <2>2, <1>k DEF EditorLoads, Edited, opening
<1>8. ASSUME CallLoader PROVE StillOpening'
  <2>1. Starting(Under) \subseteq Starting(stack) /\ Top.arg \in Starting(stack)
    BY <1>8, PopAt DEF CallLoader
  <2>2. /\ stack' = Under /\ status' = status /\ attempt' = attempt /\ lease' = lease
        /\ loads' = [loads EXCEPT ![Top.arg] = "running"]
    BY <1>8 DEF CallLoader, document
  <2>. QED
    BY <2>1, <2>2 DEF StillOpening, TypeOK
<1>f. ASSUME NEW a \in Attempts, NEW rest \in Seq(Frames), Fail(a, rest),
             Starting(rest) \subseteq Starting(stack),
             attempt' = attempt, lease' = lease \/ lease' = None,
             \A b \in Attempts : loads'[b] = "running" => loads[b] = "running"
      PROVE  StillOpening'
  <2>1. stack' = rest \/ Publish(Append(rest, Frame("failed", a)))
    BY <1>f DEF Fail
  <2>2. Starting(stack') = Starting(rest)
    BY <2>1, PublishedOver DEF Labels
  <2>3. status' = status \/ status' # "ready"
    BY <1>f DEF Fail, document
  <2>. QED
    BY <1>f, <2>2, <2>3, <1>k
<1>9. ASSUME LoaderThrows PROVE StillOpening'
  <2>1. /\ Under \in Seq(Frames) /\ Starting(Under) \subseteq Starting(stack)
        /\ Top.arg \in Starting(stack)
    BY <1>9, PopAt, TopFrame DEF LoaderThrows
  <2>2. Top.arg \in Attempts
    BY <2>1 DEF StillOpening
  <2>. QED
    BY <1>9, <2>1, <2>2, <1>f DEF LoaderThrows, opening
<1>10. ASSUME NEW a \in Attempts, LoadFails(a) \/ OpenThrows(a) PROVE StillOpening'
  <2>1. /\ Fail(a, stack) /\ attempt' = attempt /\ lease' \in {lease, None}
        /\ loads' = [loads EXCEPT ![a] = "done"]
    BY <1>10 DEF LoadFails, OpenThrows
  <2>2. \A b \in Attempts : loads'[b] = "running" => loads[b] = "running"
    BY <2>1 DEF TypeOK
  <2>. QED
    BY <1>0, <2>1, <2>2, <1>f
<1>11. ASSUME NEW a \in Attempts, LateLease(a) PROVE StillOpening'
  <2>1. \A b \in Attempts : loads'[b] = "running" => loads[b] = "running"
    BY <1>11 DEF LateLease, TypeOK
  <2>. QED
    BY <1>11, <2>1, <1>k DEF LateLease, document
<1>12. ASSUME NEW a \in Attempts, Opens(a) PROVE StillOpening'
  <2>1. Publish(Append(stack, Frame("opened", a)))
    BY <1>12 DEF Opens
  <2>2. Starting(stack') = Starting(stack)
    BY <1>0, <2>1, PublishedOver DEF Labels
  <2>3. Starting(stack') = {}
    BY <1>12, <2>2, EmptyAt DEF Opens
  <2>4. /\ a = attempt /\ attempt' = attempt /\ lease' = a
        /\ loads' = [loads EXCEPT ![a] = "done"]
    BY <1>12 DEF Opens, Overtaken
  <2>5. \A b \in Attempts : loads'[b] = "running" => b # attempt' /\ loads[b] = "running"
    BY <2>4 DEF TypeOK
  <2>. QED
    BY <2>3, <2>4, <2>5 DEF StillOpening
<1>. QED
  BY <1>1, <1>2, <1>3, <1>4, <1>5, <1>6, <1>7, <1>8, <1>9, <1>10, <1>11, <1>12
     DEF Next, Calls, Unwind, Answer

\* A publication is counted.
LEMMA BalancedPublish ==
    ASSUME NEW rest \in Seq(Frames), TypeOK, Publish(rest),
           Balanced(rest, publicationDepth, sendingChanges),
           sendingChanges' = sendingChanges
    PROVE  PublicationsOnStack'
<1>1. Frame("notify", None) \in Frames /\ Frame("notify", None).at = "notify"
  BY FrameType DEF Labels
<1>2. publicationDepth \in Nat /\ sendingChanges \in BOOLEAN
  BY DEF TypeOK
<1>3. Balanced(Append(rest, Frame("notify", None)), publicationDepth + 1, sendingChanges)
  BY <1>1, <1>2, BalancedPush
<1>4. Balanced(stack, publicationDepth, sendingChanges)'
  BY <1>3 DEF Publish, Balanced, Notifying, At
<1>5. "notify" \in At(stack')
  BY Published
<1>. QED
  BY <1>4, <1>5 DEF PublicationsOnStack, At

\* Frames of the session's own methods count for nothing.
LEMMA BalancedPlain ==
    ASSUME NEW s \in Seq(Frames), NEW at \in Labels \ {"notify", "send"},
           NEW arg \in Docs \cup Attempts \cup {None},
           TypeOK, Balanced(s, publicationDepth, sendingChanges)
    PROVE  /\ Append(s, Frame(at, arg)) \in Seq(Frames)
           /\ Balanced(Append(s, Frame(at, arg)), publicationDepth, sendingChanges)
           /\ At(Append(s, Frame(at, arg))) = At(s) \cup {at}
<1>1. Frame(at, arg) \in Frames /\ Frame(at, arg).at = at
  BY FrameType
<1>2. publicationDepth \in Nat /\ sendingChanges \in BOOLEAN
  BY DEF TypeOK
<1>3. at # "notify" /\ at # "send"
  OBVIOUS
<1>4. (sendingChanges \/ at = "send") = sendingChanges
  BY <1>2, <1>3
<1>. QED
  BY <1>1, <1>2, <1>3, <1>4, BalancedPush, PushAt, Push

LEMMA PublicationsStep ==
    ASSUME TypeOK, EditorOnTop, StillOpening, PublicationsOnStack, ClosedIsDisposed, Next
    PROVE  PublicationsOnStack'
<1>0. /\ stack \in Seq(Frames) /\ publicationDepth \in Nat /\ sendingChanges \in BOOLEAN
      /\ Balanced(stack, publicationDepth, sendingChanges)
  BY StackType DEF TypeOK, PublicationsOnStack
<1>1. ASSUME NEW d \in Docs, Edit(d) \/ LoadEarly(d) PROVE PublicationsOnStack'
  <2>1. Publish(stack) /\ sendingChanges' = sendingChanges
    BY <1>1 DEF Edit, Edited, LoadEarly, changes
  <2>. QED
    BY <1>0, <2>1, BalancedPublish
<1>2. ASSUME NEW d \in Docs, LoadMarkdown(d) PROVE PublicationsOnStack'
  <2>1. {"load", "editor"} \subseteq Labels \ {"notify", "send"}
    BY DEF Labels
  <2>2. PICK s \in Seq(Frames) : /\ s = Append(stack, Frame("load", None))
                                 /\ Balanced(s, publicationDepth, sendingChanges)
                                 /\ At(s) = At(stack) \cup {"load"}
    BY <1>0, <2>1, BalancedPlain
  <2>3. /\ stack' = Append(s, Frame("editor", d)) /\ publicationDepth' = publicationDepth
        /\ sendingChanges' = sendingChanges /\ pendingChanges' = pendingChanges
    BY <1>2, <2>2 DEF LoadMarkdown, changes
  <2>4. /\ Balanced(stack', publicationDepth, sendingChanges)
        /\ At(stack') = At(s) \cup {"editor"}
    BY <2>1, <2>2, <2>3, BalancedPlain
  <2>5. Balanced(stack, publicationDepth, sendingChanges)'
    BY <2>3, <2>4 DEF Balanced, Notifying, At
  <2>6. pendingChanges' # <<>> => "notify" \in At(stack') \/ "send" \in At(stack')
    BY <2>2, <2>3, <2>4 DEF PublicationsOnStack
  <2>. QED
    BY <2>5, <2>6 DEF PublicationsOnStack, At
<1>o. ASSUME NEW s \in Seq(Frames), NEW at \in Labels \ {"notify", "send"},
             NEW arg \in Docs \cup Attempts \cup {None},
             Balanced(s, publicationDepth, sendingChanges),
             Publish(Append(s, Frame(at, arg))), sendingChanges' = sendingChanges
      PROVE  PublicationsOnStack'
  BY <1>o, BalancedPlain, BalancedPublish
<1>3. ASSUME Retry PROVE PublicationsOnStack'
  <2>1. attempt + 1 \in Attempts
    BY <1>3, BoundsAssumption DEF Retry, TypeOK, Attempts
  <2>2. PICK at \in {"failed", "start"} : Publish(Append(stack, Frame(at, attempt + 1)))
    BY <1>3 DEF Retry
  <2>3. at \in Labels \ {"notify", "send"}
    BY DEF Labels
  <2>4. sendingChanges' = sendingChanges
    BY <1>3 DEF Retry, changes
  <2>. QED
    BY <1>0, <2>1, <2>2, <2>3, <2>4, <1>o
<1>4. ASSUME Dispose PROVE PublicationsOnStack'
  <2>1. Publish(Append(stack, Frame("dispose", None))) /\ sendingChanges' = sendingChanges
    BY <1>4 DEF Dispose
  <2>2. "dispose" \in Labels \ {"notify", "send"}
    BY DEF Labels
  <2>. QED
    BY <1>0, <2>1, <2>2, <1>o
<1>5. ASSUME NotifyReturns PROVE PublicationsOnStack'
  <2>1. /\ Running = "notify" /\ Under \in Seq(Frames)
        /\ publicationDepth' = publicationDepth - 1
    BY <1>5, TopFrame DEF NotifyReturns
  <2>2. Balanced(Under, publicationDepth - 1, sendingChanges)
    <3>1. Balanced(Under, IF Running = "notify" THEN publicationDepth - 1 ELSE publicationDepth,
                   sendingChanges /\ Running # "send")
      BY <1>0, <2>1, BalancedPop
    <3>2. (sendingChanges /\ Running # "send") = sendingChanges
      BY <1>0, <2>1
    <3>. QED
      BY <2>1, <3>1, <3>2
  <2>3. publicationDepth - 1 = Cardinality(Notifying(Under)) /\ publicationDepth - 1 \in Nat
    BY <2>1, <2>2, NotifyingFinite DEF Balanced
  <2>4. CASE publicationDepth = 1 /\ ~sendingChanges /\ HasChange
    <3>1. stack' = Append(Under, Frame("send", None)) /\ sendingChanges' = TRUE
      BY <1>5, <2>4 DEF NotifyReturns
    <3>2. Frame("send", None) \in Frames /\ Frame("send", None).at = "send"
      BY FrameType DEF Labels
    <3>3. Balanced(Append(Under, Frame("send", None)), publicationDepth - 1, TRUE)
      <4>1. Balanced(Append(Under, Frame("send", None)),
                     IF Frame("send", None).at = "notify" THEN publicationDepth - 1 + 1
                                                          ELSE publicationDepth - 1,
                     sendingChanges \/ Frame("send", None).at = "send")
        BY <1>0, <2>1, <2>2, <2>3, <2>4, <3>2, BalancedPush
      <4>. QED
        BY <3>2, <4>1
    <3>4. "send" \in At(stack')
      BY <2>1, <3>1, <3>2, PushAt
    <3>5. Balanced(stack, publicationDepth, sendingChanges)'
      BY <2>1, <3>1, <3>3 DEF Balanced, Notifying, At
    <3>. QED
      BY <3>4, <3>5 DEF PublicationsOnStack, At
  <2>5. CASE ~(publicationDepth = 1 /\ ~sendingChanges /\ HasChange)
    <3>1. stack' = Under /\ sendingChanges' = sendingChanges /\ pendingChanges' = pendingChanges
      BY <1>5, <2>5 DEF NotifyReturns, changes
    <3>2. Balanced(stack, publicationDepth, sendingChanges)'
      BY <2>1, <2>2, <3>1 DEF Balanced, Notifying, At
    <3>3. ASSUME pendingChanges # <<>>
          PROVE  "notify" \in At(Under) \/ "send" \in At(Under)
      <4>1. HasChange
        BY <3>3 DEF HasChange, ClosedIsDisposed
      <4>2. CASE sendingChanges
        BY <2>2, <4>2 DEF Balanced
      <4>3. CASE publicationDepth # 1
        <5>1. Cardinality(Notifying(Under)) # 0
          BY <1>0, <2>3, <4>3
        <5>2. Notifying(Under) # {}
          BY <5>1, FS_EmptySet
        <5>. QED
          BY <5>2 DEF Notifying, At
      <4>. QED
        BY <2>5, <4>1, <4>2, <4>3
    <3>. QED
      BY <3>1, <3>2, <3>3 DEF PublicationsOnStack, At
  <2>. QED
    BY <2>4, <2>5
<1>6. ASSUME SendNext PROVE PublicationsOnStack'
  <2>1. Running = "send" /\ publicationDepth' = publicationDepth
    BY <1>6 DEF SendNext
  <2>2. CASE HasChange
    <3>1. stack' = stack /\ sendingChanges' = sendingChanges
      BY <1>6, <2>2 DEF SendNext
    <3>2. "send" \in At(stack')
      BY <2>1, <3>1, PopAt
    <3>3. Balanced(stack, publicationDepth, sendingChanges)'
      BY <1>0, <2>1, <3>1 DEF Balanced, Notifying, At
    <3>. QED
      BY <3>2, <3>3 DEF PublicationsOnStack, At
  <2>3. CASE ~HasChange
    <3>1. stack' = Under /\ sendingChanges' = FALSE /\ pendingChanges' = pendingChanges
      BY <1>6, <2>3 DEF SendNext
    <3>2. pendingChanges = <<>>
      BY <2>3 DEF HasChange, ClosedIsDisposed
    <3>3. Balanced(Under, publicationDepth, FALSE)
      BY <1>0, <2>1, BalancedPop
    <3>4. Balanced(stack, publicationDepth, sendingChanges)'
      BY <2>1, <3>1, <3>3 DEF Balanced, Notifying, At
    <3>. QED
      BY <3>1, <3>2, <3>4 DEF PublicationsOnStack
  <2>. QED
    BY <2>2, <2>3
<1>u. ASSUME Running \notin {"none", "notify", "send"}
      PROVE  /\ Under \in Seq(Frames)
             /\ Balanced(Under, publicationDepth, sendingChanges)
             /\ pendingChanges # <<>> => "notify" \in At(Under) \/ "send" \in At(Under)
  <2>1. Balanced(Under, IF Running = "notify" THEN publicationDepth - 1 ELSE publicationDepth,
                 sendingChanges /\ Running # "send")
    BY <1>0, <1>u, BalancedPop
  <2>2. (sendingChanges /\ Running # "send") = sendingChanges
    BY <1>0, <1>u
  <2>3. Balanced(Under, publicationDepth, sendingChanges)
    BY <1>u, <2>1, <2>2
  <2>4. At(stack) = At(Under) \cup {Running}
    BY <1>u, PopAt
  <2>. QED
    BY <1>u, <2>3, <2>4, TopFrame DEF PublicationsOnStack
<1>r. ASSUME NEW s, stack' = s, publicationDepth' = publicationDepth,
             sendingChanges' = sendingChanges, pendingChanges' = pendingChanges,
             Balanced(s, publicationDepth, sendingChanges),
             pendingChanges # <<>> => "notify" \in At(s) \/ "send" \in At(s)
      PROVE  PublicationsOnStack'
  <2>1. Balanced(stack, publicationDepth, sendingChanges)'
    BY <1>r DEF Balanced, Notifying, At
  <2>. QED
    BY <1>r, <2>1 DEF PublicationsOnStack, At
<1>7. ASSUME EditorLoads PROVE PublicationsOnStack'
  <2>1. Running = "editor" /\ Publish(Under) /\ sendingChanges' = sendingChanges
    BY <1>7 DEF EditorLoads, Edited
  <2>. QED
    BY <2>1, <1>u, BalancedPublish
<1>8. ASSUME EditorRefuses \/ LoadReturns \/ CallLoader \/ AttemptEnds \/ DisposeReturns
      PROVE  PublicationsOnStack'
  <2>1. /\ Running \notin {"none", "notify", "send"}
        /\ stack' = Under /\ publicationDepth' = publicationDepth
        /\ sendingChanges' = sendingChanges /\ pendingChanges' = pendingChanges
    BY <1>8 DEF EditorRefuses, LoadReturns, CallLoader, AttemptEnds, DisposeReturns, changes
  <2>. QED
    BY <2>1, <1>u, <1>r
<1>f. ASSUME NEW a \in Attempts, NEW rest \in Seq(Frames), Fail(a, rest), UNCHANGED changes,
             Balanced(rest, publicationDepth, sendingChanges),
             pendingChanges # <<>> => "notify" \in At(rest) \/ "send" \in At(rest)
      PROVE  PublicationsOnStack'
  <2>1. sendingChanges' = sendingChanges /\ pendingChanges' = pendingChanges
    BY <1>f DEF changes
  <2>2. CASE Overtaken(a)
    <3>1. stack' = rest /\ publicationDepth' = publicationDepth
      BY <1>f, <2>2 DEF Fail
    <3>. QED
      BY <1>f, <2>1, <3>1, <1>r
  <2>3. CASE ~Overtaken(a)
    <3>1. Publish(Append(rest, Frame("failed", a)))
      BY <1>f, <2>3 DEF Fail
    <3>2. "failed" \in Labels \ {"notify", "send"}
      BY DEF Labels
    <3>. QED
      BY <1>f, <2>1, <3>1, <3>2, <1>o
  <2>. QED
    BY <2>2, <2>3
<1>9. ASSUME LoaderThrows PROVE PublicationsOnStack'
  <2>1. Running = "start" /\ Fail(Top.arg, Under) /\ UNCHANGED changes
    BY <1>9 DEF LoaderThrows
  <2>2. Top.arg \in Attempts
    BY <2>1, PopAt DEF StillOpening
  <2>. QED
    BY <2>1, <2>2, <1>u, <1>f
<1>10. ASSUME NEW a \in Attempts, Answer(a) PROVE PublicationsOnStack'
  <2>1. CASE LoadFails(a) \/ OpenThrows(a)
    <3>1. Fail(a, stack) /\ UNCHANGED changes
      BY <2>1 DEF LoadFails, OpenThrows
    <3>. QED
      BY <1>0, <3>1, <1>f DEF PublicationsOnStack
  <2>2. CASE LateLease(a)
    <3>1. /\ stack' = stack /\ publicationDepth' = publicationDepth
          /\ sendingChanges' = sendingChanges /\ pendingChanges' = pendingChanges
      BY <2>2 DEF LateLease, changes
    <3>. QED
      BY <1>0, <3>1, <1>r DEF PublicationsOnStack
  <2>3. CASE Opens(a)
    <3>1. Publish(Append(stack, Frame("opened", a))) /\ sendingChanges' = sendingChanges
      BY <2>3 DEF Opens, changes
    <3>2. "opened" \in Labels \ {"notify", "send"}
      BY DEF Labels
    <3>. QED
      BY <1>0, <3>1, <3>2, <1>o
  <2>. QED
    BY <1>10, <2>1, <2>2, <2>3 DEF Answer
<1>. QED
  BY <1>1, <1>2, <1>3, <1>4, <1>5, <1>6, <1>7, <1>8, <1>9, <1>10 DEF Next, Calls, Unwind

LEMMA ClosedStep ==
    ASSUME TypeOK, EditorOnTop, StillOpening, ClosedIsDisposed, Next
    PROVE  ClosedIsDisposed'
<1>0. stack \in Seq(Frames)
  BY StackType
<1>k. ASSUME "dispose" \in At(stack') => "dispose" \in At(stack),
             status # "disposed" \/ status' = "disposed",
             status' = "disposed" => status = "disposed",
             closed' = closed,
             pendingChanges = <<>> => pendingChanges' = <<>>
      PROVE  ClosedIsDisposed'
  BY <1>k DEF ClosedIsDisposed, At
<1>1. ASSUME NEW d \in Docs, Edit(d) PROVE ClosedIsDisposed'
  <2>1. /\ Publish(stack) /\ closed' = closed /\ status' = status /\ status = "ready"
    BY <1>1 DEF Edit, Edited
  <2>2. "dispose" \notin At(stack')
    BY <1>0, <2>1, Published DEF ClosedIsDisposed
  <2>. QED
    BY <2>1, <2>2 DEF ClosedIsDisposed, At
<1>2. ASSUME NEW d \in Docs, LoadEarly(d) PROVE ClosedIsDisposed'
  <2>1. /\ Publish(stack) /\ UNCHANGED changes /\ status' = status
    BY <1>2 DEF LoadEarly
  <2>2. At(stack') = At(stack) \cup {"notify"}
    BY <1>0, <2>1, Published
  <2>. QED
    BY <2>1, <2>2, <1>k DEF changes
<1>3. ASSUME NEW d \in Docs, LoadMarkdown(d) PROVE ClosedIsDisposed'
  <2>1. /\ Frame("editor", d) \in Frames /\ Frame("editor", d).at = "editor"
        /\ Frame("load", None) \in Frames /\ Frame("load", None).at = "load"
    BY FrameType DEF Labels
  <2>2. PICK s \in Seq(Frames) : s = Append(stack, Frame("load", None))
    BY <1>0, <2>1, Push
  <2>3. At(s) = At(stack) \cup {"load"}
    BY <1>0, <2>1, <2>2, PushAt
  <2>4. At(stack') = At(s) \cup {"editor"}
    BY <1>3, <2>1, <2>2, PushAt DEF LoadMarkdown
  <2>5. UNCHANGED changes /\ status' = status
    BY <1>3 DEF LoadMarkdown
  <2>. QED
    BY <2>3, <2>4, <2>5, <1>k DEF changes
<1>4. ASSUME Retry PROVE ClosedIsDisposed'
  <2>1. attempt + 1 \in Attempts
    BY <1>4, BoundsAssumption DEF Retry, TypeOK, Attempts
  <2>2. PICK at \in {"failed", "start"} : Publish(Append(stack, Frame(at, attempt + 1)))
    BY <1>4 DEF Retry
  <2>3. at \in Labels \ {"notify"} /\ at # "dispose"
    BY DEF Labels
  <2>4. At(stack') = At(stack) \cup {at, "notify"}
    BY <1>0, <2>1, <2>2, <2>3, PublishedOver
  <2>5. UNCHANGED changes /\ status = "failed" /\ status' # "disposed"
    BY <1>4 DEF Retry
  <2>. QED
    BY <2>3, <2>4, <2>5, <1>k DEF changes
<1>5. ASSUME Dispose PROVE ClosedIsDisposed'
  BY <1>5 DEF Dispose, ClosedIsDisposed
<1>6. ASSUME NotifyReturns PROVE ClosedIsDisposed'
  <2>1. Under \in Seq(Frames) /\ At(stack) = At(Under) \cup {Running}
    BY <1>6, PopAt, TopFrame DEF NotifyReturns
  <2>2. Frame("send", None) \in Frames /\ Frame("send", None).at = "send"
    BY FrameType DEF Labels
  <2>3. stack' = Under \/ stack' = Append(Under, Frame("send", None))
    BY <1>6 DEF NotifyReturns
  <2>4. At(stack') = At(Under) \/ At(stack') = At(Under) \cup {"send"}
    BY <2>1, <2>2, <2>3, PushAt
  <2>5. /\ status' = status /\ closed' = closed
        /\ pendingChanges = <<>> => pendingChanges' = <<>>
    BY <1>6 DEF NotifyReturns, Deliver, HasChange, changes, document
  <2>. QED
    BY <2>1, <2>4, <2>5, <1>k
<1>7. ASSUME SendNext PROVE ClosedIsDisposed'
  <2>1. At(stack) = At(Under) \cup {Running}
    BY <1>7, PopAt DEF SendNext
  <2>2. stack' = Under \/ stack' = stack
    BY <1>7 DEF SendNext
  <2>3. /\ status' = status /\ closed' = closed
        /\ pendingChanges = <<>> => pendingChanges' = <<>>
    BY <1>7 DEF SendNext, Deliver, HasChange, changes, document
  <2>. QED
    BY <2>1, <2>2, <2>3, <1>k
<1>8. ASSUME EditorLoads PROVE ClosedIsDisposed'
  <2>1. /\ Running = "editor" /\ Publish(Under) /\ closed' = closed /\ status' = status
    BY <1>8 DEF EditorLoads, Edited
  <2>2. Under \in Seq(Frames) /\ At(stack) = At(Under) \cup {Running} /\ status = "ready"
    <3>1. stack[Len(stack)].at = "editor" /\ Len(stack) \in 1 .. Len(stack)
      BY <2>1, TopFrame DEF Top
    <3>. QED
      BY <2>1, <3>1, PopAt, TopFrame DEF EditorOnTop
  <2>3. At(stack') = At(Under) \cup {"notify"}
    BY <2>1, <2>2, Published
  <2>4. "dispose" \notin At(stack')
    BY <2>2, <2>3 DEF ClosedIsDisposed
  <2>. QED
    BY <2>1, <2>2, <2>4 DEF ClosedIsDisposed, At
<1>9. ASSUME EditorRefuses \/ LoadReturns \/ CallLoader \/ AttemptEnds PROVE ClosedIsDisposed'
  <2>1. At(stack) = At(Under) \cup {Running}
    BY <1>9, PopAt DEF EditorRefuses, LoadReturns, CallLoader, AttemptEnds
  <2>2. stack' = Under /\ status' = status /\ UNCHANGED changes
    BY <1>9 DEF EditorRefuses, LoadReturns, CallLoader, AttemptEnds, document
  <2>. QED
    BY <2>1, <2>2, <1>k DEF changes
<1>10. ASSUME DisposeReturns PROVE ClosedIsDisposed'
  <2>1. Running = "dispose" /\ status' = status /\ pendingChanges' = pendingChanges
    BY <1>10 DEF DisposeReturns, document
  <2>2. status = "disposed"
    BY <2>1, PopAt DEF ClosedIsDisposed
  <2>. QED
    BY <2>1, <2>2 DEF ClosedIsDisposed
<1>f. ASSUME NEW a \in Attempts, NEW rest \in Seq(Frames), Fail(a, rest), UNCHANGED changes,
             At(rest) \subseteq At(stack)
      PROVE  ClosedIsDisposed'
  <2>1. CASE Overtaken(a)
    <3>1. stack' = rest /\ status' = status
      BY <1>f, <2>1 DEF Fail, document
    <3>. QED
      BY <1>f, <3>1, <1>k DEF changes
  <2>2. CASE ~Overtaken(a)
    <3>1. /\ Publish(Append(rest, Frame("failed", a))) /\ status' = "failed"
          /\ status # "disposed"
      BY <1>f, <2>2 DEF Fail, Overtaken
    <3>2. At(stack') = At(rest) \cup {"failed", "notify"}
      BY <3>1, PublishedOver DEF Labels
    <3>. QED
      BY <1>f, <3>1, <3>2, <1>k DEF changes
  <2>. QED
    BY <2>1, <2>2
<1>11. ASSUME LoaderThrows PROVE ClosedIsDisposed'
  <2>1. Running = "start" /\ Fail(Top.arg, Under) /\ UNCHANGED changes
    BY <1>11 DEF LoaderThrows
  <2>2. Under \in Seq(Frames) /\ At(Under) \subseteq At(stack) /\ Top.arg \in Attempts
    BY <2>1, PopAt, TopFrame DEF StillOpening
  <2>. QED
    BY <2>1, <2>2, <1>f
<1>12. ASSUME NEW a \in Attempts, Answer(a) PROVE ClosedIsDisposed'
  <2>1. CASE LoadFails(a) \/ OpenThrows(a)
    <3>1. Fail(a, stack) /\ UNCHANGED changes
      BY <2>1 DEF LoadFails, OpenThrows
    <3>. QED
      BY <1>0, <3>1, <1>f
  <2>2. CASE LateLease(a)
    <3>1. stack' = stack /\ status' = status /\ UNCHANGED changes
      BY <2>2 DEF LateLease, document
    <3>. QED
      BY <3>1, <1>k DEF changes
  <2>3. CASE Opens(a)
    <3>1. /\ Publish(Append(stack, Frame("opened", a))) /\ UNCHANGED changes
          /\ status # "disposed" /\ status' = "ready"
      BY <2>3 DEF Opens, Overtaken
    <3>2. At(stack') = At(stack) \cup {"opened", "notify"}
      BY <1>0, <3>1, PublishedOver DEF Labels
    <3>. QED
      BY <3>1, <3>2, <1>k DEF changes
  <2>. QED
    BY <1>12, <2>1, <2>2, <2>3 DEF Answer
<1>. QED
  BY <1>1, <1>2, <1>3, <1>4, <1>5, <1>6, <1>7, <1>8, <1>9, <1>10, <1>11, <1>12
     DEF Next, Calls, Unwind

LEMMA LeaseStep ==
    ASSUME TypeOK, EditorOnTop, StillOpening, OwnsOneLease, Next
    PROVE  OwnsOneLease'
<1>0. status \in Statuses /\ None \notin Attempts
  BY BoundsAssumption DEF TypeOK, Attempts
<1>k. ASSUME lease' = lease, leases' = leases, editor' = editor, markdown' = markdown,
             status' = status \/ (status # "ready" /\ status' # "ready")
      PROVE  OwnsOneLease'
  BY <1>k DEF OwnsOneLease
<1>1. ASSUME NEW d \in Docs, Edit(d) PROVE OwnsOneLease'
  BY <1>1 DEF Edit, Edited, OwnsOneLease, opening
<1>2. ASSUME NEW d \in Docs, LoadEarly(d) PROVE OwnsOneLease'
  BY <1>2 DEF LoadEarly, OwnsOneLease, opening
<1>3. ASSUME NEW d \in Docs, LoadMarkdown(d) PROVE OwnsOneLease'
  BY <1>3, <1>k DEF LoadMarkdown, opening
<1>4. ASSUME Retry PROVE OwnsOneLease'
  BY <1>4, <1>k DEF Retry
<1>5. ASSUME Dispose PROVE OwnsOneLease'
  <2>1. /\ status' = "disposed" /\ editor' = None /\ lease' = None
        /\ \A a \in Attempts : leases'[a] = IF a = lease THEN "disposed" ELSE leases[a]
    BY <1>5 DEF Dispose
  <2>2. \A a \in Attempts : leases'[a] # "held"
    BY <2>1 DEF OwnsOneLease
  <2>. QED
    BY <1>0, <2>1, <2>2 DEF OwnsOneLease
<1>6. ASSUME \/ NotifyReturns \/ SendNext \/ EditorRefuses \/ LoadReturns
             \/ CallLoader \/ AttemptEnds \/ DisposeReturns
      PROVE  OwnsOneLease'
  BY <1>6, <1>k DEF NotifyReturns, SendNext, EditorRefuses, LoadReturns, CallLoader,
                    AttemptEnds, DisposeReturns, document, opening
<1>7. ASSUME EditorLoads PROVE OwnsOneLease'
  <2>1. stack[Len(stack)].at = "editor" /\ Len(stack) \in 1 .. Len(stack)
    BY <1>7, TopFrame DEF EditorLoads, Top
  <2>2. status = "ready"
    BY <2>1 DEF EditorOnTop
  <2>. QED
    BY <1>7, <2>2 DEF EditorLoads, Edited, OwnsOneLease, opening
\* An attempt that has not been overtaken has left the session unopened.
<1>n. ASSUME NEW a \in Attempts, a \in Starting(stack) \/ loads[a] = "running", ~Overtaken(a)
      PROVE  status # "ready" /\ lease = None
  BY <1>n DEF Overtaken, StillOpening, OwnsOneLease
<1>f. ASSUME NEW a \in Attempts, NEW rest, Fail(a, rest),
             a \in Starting(stack) \/ loads[a] = "running"
      PROVE  /\ editor' = editor /\ markdown' = markdown
             /\ status' = status \/ (status # "ready" /\ status' # "ready")
  <2>1. CASE Overtaken(a)
    BY <1>f, <2>1 DEF Fail, document
  <2>2. CASE ~Overtaken(a)
    BY <1>f, <1>n, <2>2 DEF Fail
  <2>. QED
    BY <2>1, <2>2
<1>8. ASSUME LoaderThrows PROVE OwnsOneLease'
  <2>1. Running = "start" /\ Fail(Top.arg, Under) /\ lease' = lease /\ leases' = leases
    BY <1>8 DEF LoaderThrows, opening
  <2>2. Top.arg \in Starting(stack) /\ Top.arg \in Attempts
    BY <2>1, PopAt DEF StillOpening
  <2>. QED
    BY <2>1, <2>2, <1>f, <1>k
<1>9. ASSUME NEW a \in Attempts, LoadFails(a) PROVE OwnsOneLease'
  <2>1. Fail(a, stack) /\ loads[a] = "running" /\ lease' = lease /\ leases' = leases
    BY <1>9 DEF LoadFails
  <2>. QED
    BY <2>1, <1>f, <1>k
\* The lease that comes was never held.
<1>l. ASSUME NEW a \in Attempts, loads[a] = "running", lease # a,
             leases' = [leases EXCEPT ![a] = "disposed"]
      PROVE  \A b \in Attempts : leases'[b] = "held" <=> lease = b
  BY <1>l DEF OwnsOneLease, TypeOK
<1>10. ASSUME NEW a \in Attempts, LateLease(a) PROVE OwnsOneLease'
  <2>1. /\ loads[a] = "running" /\ leases' = [leases EXCEPT ![a] = "disposed"]
        /\ lease' = lease /\ status' = status /\ editor' = editor /\ markdown' = markdown
    BY <1>10 DEF LateLease, document
  <2>2. lease # a
    BY <2>1 DEF StillOpening
  <2>. QED
    BY <2>1, <2>2, <1>l DEF OwnsOneLease
<1>11. ASSUME NEW a \in Attempts, OpenThrows(a) PROVE OwnsOneLease'
  <2>1. /\ loads[a] = "running" /\ ~Overtaken(a) /\ Fail(a, stack)
        /\ leases' = [leases EXCEPT ![a] = "disposed"] /\ lease' = None
    BY <1>11 DEF OpenThrows
  <2>2. status # "ready" /\ lease = None
    BY <2>1, <1>n
  <2>3. \A b \in Attempts : leases'[b] = "held" <=> lease = b
    BY <1>0, <2>1, <2>2, <1>l
  <2>4. editor' = editor /\ status' # "ready"
    BY <2>1, <2>2, <1>f
  <2>. QED
    BY <2>1, <2>2, <2>3, <2>4 DEF OwnsOneLease
<1>12. ASSUME NEW a \in Attempts, Opens(a) PROVE OwnsOneLease'
  <2>1. /\ loads[a] = "running" /\ ~Overtaken(a)
        /\ leases' = [leases EXCEPT ![a] = "held"] /\ lease' = a
        /\ status' = "ready" /\ editor' = markdown /\ markdown' = markdown
    BY <1>12 DEF Opens
  <2>2. lease = None
    BY <2>1, <1>n
  <2>3. \A b \in Attempts : leases'[b] = "held" <=> b = a
    BY <1>0, <2>1, <2>2 DEF OwnsOneLease, TypeOK
  <2>. QED
    BY <1>0, <2>1, <2>3 DEF OwnsOneLease
<1>. QED
  BY <1>1, <1>2, <1>3, <1>4, <1>5, <1>6, <1>7, <1>8, <1>9, <1>10, <1>11, <1>12
     DEF Next, Calls, Unwind, Answer

-----------------------------------------------------------------------------
(* What listeners see, and what is reported to them.                       *)

LEMMA SeeNowStep ==
    ASSUME ListenersSeeNow, Next
    PROVE  ListenersSeeNow'
<1>k. ASSUME state' = state, markdown' = markdown, revision' = revision,
             status' = status, error' = error
      PROVE  ListenersSeeNow'
  BY <1>k, Zenon DEF ListenersSeeNow, Current
<1>p. ASSUME NEW rest, Publish(rest) PROVE ListenersSeeNow'
  BY <1>p DEF Publish, ListenersSeeNow
<1>f. ASSUME NEW a, NEW rest, Fail(a, rest) PROVE ListenersSeeNow'
  <2>1. CASE Overtaken(a)
    BY <1>f, <2>1, <1>k DEF Fail, document
  <2>2. CASE ~Overtaken(a)
    BY <1>f, <2>2, <1>p DEF Fail
  <2>. QED
    BY <2>1, <2>2
<1>1. ASSUME NEW d \in Docs, Edit(d) \/ LoadEarly(d) PROVE ListenersSeeNow'
  BY <1>1, <1>p DEF Edit, Edited, LoadEarly
<1>2. ASSUME NEW d \in Docs, LoadMarkdown(d) PROVE ListenersSeeNow'
  BY <1>2, <1>k DEF LoadMarkdown
<1>3. ASSUME Retry \/ Dispose \/ EditorLoads PROVE ListenersSeeNow'
  BY <1>3, <1>p DEF Retry, Dispose, EditorLoads, Edited
<1>4. ASSUME NotifyReturns \/ SendNext \/ EditorRefuses \/ CallLoader
                \/ AttemptEnds \/ DisposeReturns
      PROVE  ListenersSeeNow'
  BY <1>4, <1>k DEF NotifyReturns, SendNext, EditorRefuses, CallLoader, AttemptEnds,
                    DisposeReturns, document
<1>5. ASSUME LoadReturns PROVE ListenersSeeNow'
  BY <1>5, <1>k DEF LoadReturns
<1>6. ASSUME LoaderThrows PROVE ListenersSeeNow'
  BY <1>6, <1>f DEF LoaderThrows
<1>7. ASSUME NEW a \in Attempts, LoadFails(a) \/ OpenThrows(a) PROVE ListenersSeeNow'
  BY <1>7, <1>f DEF LoadFails, OpenThrows
<1>8. ASSUME NEW a \in Attempts, LateLease(a) PROVE ListenersSeeNow'
  BY <1>8, <1>k DEF LateLease, document
<1>9. ASSUME NEW a \in Attempts, Opens(a) PROVE ListenersSeeNow'
  BY <1>9, <1>p DEF Opens
<1>. QED
  BY <1>1, <1>2, <1>3, <1>4, <1>5, <1>6, <1>7, <1>8, <1>9
     DEF Next, Calls, Unwind, Answer

\* A change queued is a change to be heard of,
LEMMA Queued ==
    ASSUME NEW S, NEW h \in Seq(S), NEW p \in Seq(S), NEW d \in S
    PROVE  h \o Append(p, d) = Append(h \o p, d)
  OBVIOUS

\* reporting it moves it over,
LEMMA Moved ==
    ASSUME NEW S, NEW h \in Seq(S), NEW p \in Seq(S), p # <<>>
    PROVE  Append(h, Head(p)) \o Tail(p) = h \o p
  OBVIOUS

\* and what was heard of comes first.
LEMMA HeardFirst ==
    ASSUME NEW S, NEW h \in Seq(S), NEW p \in Seq(S)
    PROVE  h = SubSeq(h \o p, 1, Len(h))
  OBVIOUS

LEMMA ChangesStep ==
    ASSUME TypeOK, EditorOnTop, StillOpening, ClosedIsDisposed, ChangesAreTheEdits, Next
    PROVE  ChangesAreTheEdits'
<1>0. heard \in Seq(Docs) /\ pendingChanges \in Seq(Docs) /\ edits \in Seq(Docs)
  BY DEF TypeOK
<1>k. ASSUME heard' = heard, pendingChanges' = pendingChanges, edits' = edits,
             status' = "disposed" <=> status = "disposed"
      PROVE  ChangesAreTheEdits'
  BY <1>k DEF ChangesAreTheEdits
<1>1. ASSUME NEW d \in Docs, Edit(d) PROVE ChangesAreTheEdits'
  <2>1. /\ ~loadingDocument
        /\ status = "ready" /\ status' = "ready" /\ heard' = heard
        /\ edits' = IF d # markdown THEN Append(edits, d) ELSE edits
        /\ pendingChanges' = IF ~loadingDocument /\ markdown # d
                             THEN Append(pendingChanges, d) ELSE pendingChanges
    BY <1>1, CallFrames DEF Edit, Edited, MayCall
  <2>2. heard \o pendingChanges = edits
    BY <2>1 DEF ChangesAreTheEdits
  <2>3. CASE d = markdown
    BY <2>1, <2>2, <2>3 DEF ChangesAreTheEdits
  <2>4. CASE d # markdown
    <3>1. pendingChanges' = Append(pendingChanges, d) /\ edits' = Append(edits, d)
      BY <2>1, <2>4
    <3>2. heard \o Append(pendingChanges, d) = Append(edits, d)
      BY <1>0, <2>2, Queued
    <3>. QED
      BY <2>1, <3>1, <3>2 DEF ChangesAreTheEdits
  <2>. QED
    BY <2>3, <2>4
<1>2. ASSUME NEW d \in Docs, LoadEarly(d) \/ LoadMarkdown(d) PROVE ChangesAreTheEdits'
  BY <1>2, <1>k DEF LoadEarly, LoadMarkdown, changes
<1>3. ASSUME Retry PROVE ChangesAreTheEdits'
  BY <1>3, <1>k DEF Retry, changes
<1>4. ASSUME Dispose PROVE ChangesAreTheEdits'
  <2>1. /\ status # "disposed" /\ status' = "disposed" /\ heard' = heard /\ edits' = edits
    BY <1>4 DEF Dispose
  <2>2. heard \o pendingChanges = edits
    BY <2>1 DEF ChangesAreTheEdits
  <2>3. heard = SubSeq(edits, 1, Len(heard))
    BY <1>0, <2>2, HeardFirst
  <2>. QED
    BY <2>1, <2>3 DEF ChangesAreTheEdits
<1>d. ASSUME HasChange, Deliver, edits' = edits, status' = status
      PROVE  ChangesAreTheEdits'
  <2>1. pendingChanges # <<>> /\ status # "disposed"
    BY <1>d DEF HasChange, ClosedIsDisposed
  <2>2. Append(heard, Head(pendingChanges)) \o Tail(pendingChanges) = heard \o pendingChanges
    BY <1>0, <2>1, Moved
  <2>. QED
    BY <1>d, <2>1, <2>2 DEF Deliver, ChangesAreTheEdits
<1>5. ASSUME NotifyReturns PROVE ChangesAreTheEdits'
  BY <1>5, <1>d, <1>k DEF NotifyReturns, changes, document
<1>6. ASSUME SendNext PROVE ChangesAreTheEdits'
  BY <1>6, <1>d, <1>k DEF SendNext, document
<1>7. ASSUME EditorLoads PROVE ChangesAreTheEdits'
  <2>1. stack[Len(stack)].at = "editor" /\ Len(stack) \in 1 .. Len(stack)
    BY <1>7, TopFrame DEF EditorLoads, Top
  <2>2. loadingDocument
    BY <2>1 DEF EditorOnTop
  <2>. QED
    BY <1>7, <2>2, <1>k DEF EditorLoads, Edited
<1>8. ASSUME EditorRefuses \/ LoadReturns \/ CallLoader \/ AttemptEnds \/ DisposeReturns
      PROVE  ChangesAreTheEdits'
  BY <1>8, <1>k DEF EditorRefuses, LoadReturns, CallLoader, AttemptEnds, DisposeReturns,
                    changes, document
<1>f. ASSUME NEW a, NEW rest, Fail(a, rest), UNCHANGED changes, edits' = edits
      PROVE  ChangesAreTheEdits'
  <2>1. status' = "disposed" <=> status = "disposed"
    BY <1>f DEF Fail, Overtaken, document
  <2>. QED
    BY <1>f, <2>1, <1>k DEF changes
<1>9. ASSUME LoaderThrows PROVE ChangesAreTheEdits'
  BY <1>9, <1>f DEF LoaderThrows
<1>10. ASSUME NEW a \in Attempts, LoadFails(a) \/ OpenThrows(a) PROVE ChangesAreTheEdits'
  BY <1>10, <1>f DEF LoadFails, OpenThrows
<1>11. ASSUME NEW a \in Attempts, LateLease(a) PROVE ChangesAreTheEdits'
  BY <1>11, <1>k DEF LateLease, document, changes
<1>12. ASSUME NEW a \in Attempts, Opens(a) PROVE ChangesAreTheEdits'
  BY <1>12, <1>k DEF Opens, Overtaken, changes
<1>. QED
  BY <1>1, <1>2, <1>3, <1>4, <1>5, <1>6, <1>7, <1>8, <1>9, <1>10, <1>11, <1>12
     DEF Next, Calls, Unwind, Answer

-----------------------------------------------------------------------------
(* The inductive invariant, and what follows from it.                      *)

LEMMA InitIInv == Init => IInv
<1>1. SUFFICES ASSUME Init PROVE IInv
  OBVIOUS
<1>2. 1 \in Attempts /\ None \notin Attempts
  BY BoundsAssumption DEF Attempts
<1>3. Current \in [markdown : Docs, revision : Nat, status : Statuses,
                   error : BOOLEAN, editor : BOOLEAN]
  BY <1>1 DEF Init, Current, Statuses
<1>4. TypeOK
  <2>1. /\ ready \in [Attempts -> {"open", "ok", "error"}]
        /\ loads \in [Attempts -> {"none", "running", "done"}]
        /\ leases \in [Attempts -> {"none", "held", "disposed"}]
    BY <1>1 DEF Init
  <2>2. /\ pendingChanges \in Seq(Docs) /\ heard \in Seq(Docs) /\ edits \in Seq(Docs)
        /\ stack \in Seq(Frames)
    BY <1>1 DEF Init
  <2>3. /\ markdown \in Docs /\ status \in Statuses /\ revision \in Nat
        /\ publicationDepth \in Nat /\ attempt \in Attempts /\ state = Current
    BY <1>1, <1>2 DEF Init, Statuses
  <2>4. /\ loadingDocument \in BOOLEAN /\ sendingChanges \in BOOLEAN /\ closed \in BOOLEAN
        /\ editor = None /\ lease = None
    BY <1>1 DEF Init
  <2>5. error \in BOOLEAN
    <3>1. error = (markdown \in Refused)
      BY <1>1 DEF Init
    <3>2. (markdown \in Refused) \in BOOLEAN
      OBVIOUS
    <3>. QED
      BY <3>1, <3>2, Zenon
  <2>. QED
    BY <1>3, <2>1, <2>2, <2>3, <2>4, <2>5 DEF TypeOK, Frames
<1>5. At(stack) = {} /\ Starting(stack) = {} /\ Notifying(stack) = {} /\ Len(stack) = 0
  BY <1>1, EmptyAt DEF Init
<1>6. EditorOnTop
  BY <1>1, <1>5, EditorGone DEF Init
<1>7. StillOpening
  BY <1>1, <1>2, <1>5 DEF Init, StillOpening, Attempts
<1>8. PublicationsOnStack
  BY <1>1, <1>5, FS_EmptySet DEF Init, PublicationsOnStack, Balanced
<1>9. ClosedIsDisposed
  BY <1>1, <1>5 DEF Init, ClosedIsDisposed
<1>10. OwnsOneLease
  BY <1>1, <1>2 DEF Init, OwnsOneLease
<1>11. ListenersSeeNow /\ ChangesAreTheEdits
  BY <1>1 DEF Init, ListenersSeeNow, ChangesAreTheEdits
<1>. QED
  BY <1>4, <1>6, <1>7, <1>8, <1>9, <1>10, <1>11 DEF IInv

LEMMA NextIInv == IInv /\ [Next]_vars => IInv'
<1>1. CASE IInv /\ Next
  <2>1. TypeOK' /\ EditorOnTop' /\ StillOpening'
    BY <1>1, TypeStep, EditorStep, OpeningStep DEF IInv
  <2>2. PublicationsOnStack' /\ ClosedIsDisposed'
    BY <1>1, PublicationsStep, ClosedStep DEF IInv
  <2>3. OwnsOneLease' /\ ListenersSeeNow' /\ ChangesAreTheEdits'
    BY <1>1, LeaseStep, SeeNowStep, ChangesStep DEF IInv
  <2>. QED
    BY <2>1, <2>2, <2>3 DEF IInv
<1>2. CASE IInv /\ UNCHANGED vars
  <2>0. /\ UNCHANGED <<status, markdown, revision, error, editor, loadingDocument>>
        /\ UNCHANGED <<attempt, ready, loads, lease, leases>>
        /\ UNCHANGED <<pendingChanges, sendingChanges, closed, heard>>
        /\ UNCHANGED <<publicationDepth, state, stack, edits>>
    BY <1>2 DEF vars, document, opening, changes
  <2>1. TypeOK'
    BY <1>2, <2>0 DEF IInv, TypeOK
  <2>2. EditorOnTop'
    BY <1>2, <2>0 DEF IInv, EditorOnTop, Running, Top
  <2>3. StillOpening'
    BY <1>2, <2>0 DEF IInv, StillOpening, Starting
  <2>4. PublicationsOnStack'
    BY <1>2, <2>0 DEF IInv, PublicationsOnStack, Balanced, At, Notifying
  <2>5. ClosedIsDisposed'
    BY <1>2, <2>0 DEF IInv, ClosedIsDisposed, At
  <2>6. OwnsOneLease'
    BY <1>2, <2>0 DEF IInv, OwnsOneLease
  <2>7. ListenersSeeNow'
    BY <1>2, <2>0, Zenon DEF IInv, ListenersSeeNow, Current
  <2>8. ChangesAreTheEdits'
    BY <1>2, <2>0 DEF IInv, ChangesAreTheEdits
  <2>. QED
    BY <2>1, <2>2, <2>3, <2>4, <2>5, <2>6, <2>7, <2>8 DEF IInv
<1>. QED
  BY <1>1, <1>2

\* The invariant from which the others follow: it ties the flags of
\* FlarkSession to the calls in progress.
THEOREM Invariant == Spec => []IInv
<1>1. Init => IInv
  BY InitIInv
<1>2. IInv /\ [Next]_vars => IInv'
  BY NextIInv
<1>. QED
  BY <1>1, <1>2, PTL DEF Spec

\* The session's fields keep their types, whatever listeners call.
THEOREM TypeCorrect == Spec => []TypeOK
<1>1. IInv => TypeOK
  BY DEF IInv
<1>. QED
  BY <1>1, Invariant, PTL

\* However attempts to open overtake each other, the session holds exactly
\* the lease it has not disposed, and only with an editor.
THEOREM OneLease == Spec => []OwnsOneLease
<1>1. IInv => OwnsOneLease
  BY DEF IInv
<1>. QED
  BY <1>1, Invariant, PTL

\* Every edit that changes the source is reported once and in order on
\* changes, and no load is, at any depth of calls from listeners.
THEOREM ChangesExact == Spec => []ChangesAreTheEdits
<1>1. IInv => ChangesAreTheEdits
  BY DEF IInv
<1>. QED
  BY <1>1, Invariant, PTL

\* A listener never reads a state the session has left.
THEOREM SeesNow == Spec => []ListenersSeeNow
<1>1. IInv => ListenersSeeNow
  BY DEF IInv
<1>. QED
  BY <1>1, Invariant, PTL

\* When no call is in progress no change waits and no flag of _publish,
\* _edited or loadMarkdown is left up.
THEOREM QuietBetweenCalls == Spec => []NothingStuck
<1>1. IInv => NothingStuck
  <2>1. SUFFICES ASSUME IInv, stack = <<>>
                 PROVE  /\ pendingChanges = <<>> /\ publicationDepth = 0
                        /\ ~sendingChanges /\ ~loadingDocument
    BY DEF NothingStuck
  <2>2. At(stack) = {} /\ Notifying(stack) = {}
    BY <2>1, EmptyAt
  <2>3. pendingChanges = <<>> /\ ~sendingChanges
    BY <2>1, <2>2 DEF IInv, PublicationsOnStack, Balanced
  <2>4. publicationDepth = 0
    BY <2>1, <2>2, FS_EmptySet DEF IInv, PublicationsOnStack, Balanced
  <2>5. ~loadingDocument
    BY <2>1 DEF IInv, EditorOnTop, Running
  <2>. QED
    BY <2>3, <2>4, <2>5
<1>. QED
  BY <1>1, Invariant, PTL

\* All of this together: at every moment, inside any depth of nested calls,
\* the session's flags, lease, editor and published state agree.
THEOREM SessionSound == Spec => []SessionInv
<1>. QED
  BY TypeCorrect, QuietBetweenCalls, SeesNow, OneLease, PTL DEF SessionInv

\* After dispose no step of an interrupted call, and no answer of the
\* loader, changes what the session is or reports.
THEOREM FinalDisposal == Spec => DisposedIsFinal
<1> DEFINE Final == status = "disposed" => /\ status' = "disposed"
                                           /\ state'.status = "disposed"
                                           /\ editor' = None /\ lease' = None
                                           /\ heard' = heard
<1>1. IInv /\ IInv' /\ [Next]_vars => [Final]_vars
  <2>1. SUFFICES ASSUME IInv, IInv', Next, status = "disposed"
                 PROVE  /\ status' = "disposed" /\ state'.status = "disposed"
                        /\ editor' = None /\ lease' = None /\ heard' = heard
    OBVIOUS
  <2>2. ~HasChange
    BY <2>1 DEF IInv, ClosedIsDisposed, HasChange
  <2>3. \A a : Overtaken(a)
    BY <2>1 DEF Overtaken
  <2>4. status' = "disposed" /\ heard' = heard
    <3>1. CASE Calls
      BY <2>1, <3>1 DEF Calls, Edit, LoadEarly, LoadMarkdown, Retry, Dispose
    <3>2. CASE Unwind
      BY <2>1, <2>2, <2>3, <3>2
         DEF Unwind, NotifyReturns, SendNext, EditorLoads, Edited, EditorRefuses, LoadReturns,
             CallLoader, LoaderThrows, Fail, AttemptEnds, DisposeReturns, document, changes
    <3>3. CASE \E a \in Attempts : Answer(a)
      BY <2>1, <2>3, <3>3 DEF Answer, LoadFails, Fail, LateLease, Opens, OpenThrows,
                              document, changes
    <3>. QED
      BY <2>1, <3>1, <3>2, <3>3 DEF Next
  <2>5. state'.status = "disposed"
    BY <2>1, <2>4 DEF IInv, ListenersSeeNow, Current
  <2>6. editor' = None /\ lease' = None
    BY <2>1, <2>4 DEF IInv, OwnsOneLease
  <2>. QED
    BY <2>4, <2>5, <2>6
<1>. QED
  BY <1>1, Invariant, PTL DEF Spec, DisposedIsFinal

=============================================================================
