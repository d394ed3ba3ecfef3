---------------------------- MODULE CandidateOps ----------------------------
(***************************************************************************)
(* The V3 candidate endpoint (v3_candidate_endpoint.rs) and its            *)
(* recursive-Green slot (v3_candidate_endpoint_recursive_green.rs), as     *)
(* operators on a record.  A candidate turns one certified source revision *)
(* into a publication and streams it to the host.  A publication, a        *)
(* session, a source or an acknowledgement is the revision it is of, 0 is  *)
(* None.  A parser job, a writer and a frame stream take any number of     *)
(* polls: a poll that runs out of fuel changes nothing the model keeps, so *)
(* only the poll that ends a stage is a step.  The hot-inline and viewport *)
(* lanes are not part of the record.                                       *)
(***************************************************************************)
EXTENDS Naturals, Sequences

None == 0

------------------------------------------------------------------------------
(* The recursive-Green slot: the installed session, the session being built *)
(* (which owns the installed one as its base meanwhile) and a queue of      *)
(* releases; an entry is the base it gives back when it ends, 0 for none.   *)

NoGreen == [k |-> "none", rev |-> None, base |-> None]

NewGreen == [installed |-> None, pend |-> NoGreen, cleanup |-> <<>>]

GreenBusy(g) ==
  \/ g.pend.k # "none"
  \/ (g.cleanup # <<>> /\ g.installed = None)

GreenStartClean(g, rev) ==
  [g EXCEPT !.pend = [k |-> "cleanPlan", rev |-> rev, base |-> g.installed], !.installed = None]

(* Adoption is tried only from the session of the very base being replaced; *)
(* "declined" is begin_local_adoption handing the base back.                *)
GreenStartIncremental(g, base, rev, declined) ==
  IF g.installed = base /\ base # None /\ ~declined
  THEN [g EXCEPT !.pend = [k |-> "adoption", rev |-> rev, base |-> base], !.installed = None]
  ELSE GreenStartClean(g, rev)

GreenTargetPending(g) == g.pend.k \in {"cleanPlan", "cleanBuild", "adoption", "cancelling"}

(* The stages that poll_target can move a build to. *)
GreenNext == [cleanPlan |-> {"cleanBuild"}, cleanBuild |-> {"readyClean"},
              adoption |-> {"readyUpdate", "cancelling"}, cancelling |-> {"cleanPlan"}]

GreenPollTarget(g) == {[g EXCEPT !.pend.k = k] : k \in GreenNext[g.pend.k]}

GreenReadyFor(g, ack) == g.pend.k \in {"readyClean", "readyUpdate"} /\ g.pend.rev = ack

GreenCommitOk(g, ack) ==
  /\ GreenReadyFor(g, ack)
  /\ g.installed = None
  /\ g.pend.k = "readyUpdate" => g.pend.base < ack

GreenCommit(g, ack) ==
  [installed |-> ack, pend |-> NoGreen,
   cleanup |-> IF g.pend.base = None THEN g.cleanup ELSE Append(g.cleanup, None)]

(* A build under way keeps its base until its cancellation has been polled; *)
(* a finished one gives it back at once.                                    *)
GreenCancel(g) ==
  CASE g.pend.k = "none" -> g
    [] g.pend.k = "cleanPlan" -> [g EXCEPT !.pend = NoGreen, !.installed = g.pend.base]
    [] g.pend.k \in {"cleanBuild", "adoption", "cancelling"} ->
         [g EXCEPT !.pend = NoGreen, !.cleanup = Append(@, g.pend.base)]
    [] g.pend.k \in {"readyClean", "readyUpdate"} ->
         [g EXCEPT !.pend = NoGreen, !.installed = g.pend.base, !.cleanup = Append(@, None)]

GreenClose(g) ==
  LET h == GreenCancel(g)
  IN IF h.installed = None THEN h
     ELSE [h EXCEPT !.installed = None, !.cleanup = Append(@, None)]

(* The oldest release ends; giving a base back to an occupied slot is       *)
(* refused, and then the queue never moves again.                           *)
GreenPollCleanup(g) ==
  IF g.cleanup = <<>> \/ (Head(g.cleanup) # None /\ g.installed # None) THEN g
  ELSE [g EXCEPT !.cleanup = Tail(@),
                 !.installed = IF Head(g.cleanup) = None THEN @ ELSE Head(g.cleanup)]

------------------------------------------------------------------------------
(* The candidate.  An active stage whose name ends in Exact or Fallback owns *)
(* the base it is made from: as the base of its stream until the last frame  *)
(* seals it (Exact), or beside the stream (Fallback).                        *)

Idle == [st |-> "none", rev |-> None, base |-> None, phase |-> "none", sealed |-> FALSE]

(* A cleanup only drops what it holds, or gives its base back at the end     *)
(* (ExactStreamAndRestore).                                                  *)
NoCleanup == [k |-> "none", base |-> None]
Drop == [k |-> "drop", base |-> None]
Restore(base) == [k |-> "restore", base |-> base]

NewCandidate == [active |-> Idle, retained |-> None, cleanup |-> NoCleanup,
                 closing |-> FALSE, green |-> NewGreen]

IsActive(c) == c.active.st # "none"
Cleaning(c) == c.cleanup.k # "none"

CleanupPending(c) ==
  \/ Cleaning(c)
  \/ c.green.pend.k # "none" \/ c.green.cleanup # <<>>
  \/ (c.closing /\ (IsActive(c) \/ c.retained # None \/ c.green.installed # None))

HasExactBaseFor(c, source) == ~c.closing /\ ~IsActive(c) /\ c.retained # None /\ c.retained = source

StartOk(c) == ~c.closing /\ ~IsActive(c) /\ ~GreenBusy(c.green)

StartClean(c, rev) ==
  [c EXCEPT !.active = [Idle EXCEPT !.st = "parsing", !.rev = rev],
            !.green = GreenStartClean(@, rev)]

GreenOwns(g, base) == base \in {g.installed, g.pend.base} \ {None}

(* A base with a recursive-Green restart is only waited for if the slot has it. *)
StartIncrementalOk(c, base, st) ==
  /\ StartOk(c) /\ c.retained = base /\ base # None
  /\ st = "awaitingGreen" => GreenOwns(c.green, base)

(* The restart the base offers decides where the parse starts. *)
StartIncremental(c, rev, st, declined) ==
  [c EXCEPT !.active = [Idle EXCEPT !.st = st, !.rev = rev, !.base = c.retained],
            !.retained = None,
            !.green = GreenStartIncremental(@, c.retained, rev, declined)]

------------------------------------------------------------------------------
(* Cancellation.  An exact base goes back to be retained at once, except from *)
(* a stream that still holds it, which gives it back when it has been closed. *)

(* parsingExact is the leading or the ordinary crop of the base's text. *)
ExactStarts == {"parsingExact", "awaitingGreen", "parsingLocal", "parsingFallback"}
Parses == {"parsing"} \cup ExactStarts

(* An exact build is of the slot's session (buildingExact) or of the legacy   *)
(* blocks: what the list parser made (buildingLocal), or any other parser.    *)
LegacyBuilds == {"buildingLocal", "buildingBlocks"}

HoldsBase == {"parsingExact", "awaitingGreen", "parsingLocal", "parsingFallback", "buildingExact",
              "buildingFallback", "streamingExact", "streamingFallback"} \cup LegacyBuilds

InStream(a) == a.st = "streamingExact" /\ ~a.sealed

CancelOk(c) ==
  IF Cleaning(c) THEN c.active.st \in {"none", "parsing"}
  ELSE c.active.st \in HoldsBase => c.retained = None

CancelDropsBase(c) ==
  IF ~CancelOk(c) THEN [c EXCEPT !.green = GreenCancel(@)]
  ELSE [c EXCEPT !.green = GreenCancel(@), !.active = Idle,
                 !.cleanup = IF Cleaning(c) \/ ~IsActive(c) THEN @ ELSE Drop]

Cancel(c) ==
  LET d == [c EXCEPT !.green = GreenCancel(@)]
      a == c.active
      cleanup == IF Cleaning(c) THEN c.cleanup
                 ELSE CASE InStream(a) -> Restore(a.base)
                        [] a.st \in {"none"} \cup Parses -> NoCleanup
                        [] OTHER -> Drop
  IN IF ~CancelOk(c) THEN d
     ELSE [d EXCEPT !.active = Idle, !.cleanup = cleanup,
                    !.retained = IF InStream(a) \/ a.base = None THEN @ ELSE a.base]

CancelForEditOk(c) ==
  IF Cleaning(c) THEN ~IsActive(c) /\ c.retained # None ELSE CancelOk(c)

(* Before an edit the base is taken out of the stream straight away, so that *)
(* the next incremental transaction finds it.                                *)
CancelForEdit(c) ==
  IF ~Cleaning(c) /\ InStream(c.active) /\ c.retained = None
  THEN [c EXCEPT !.green = GreenCancel(@), !.active = Idle, !.retained = c.active.base, !.cleanup = Drop]
  ELSE IF Cleaning(c) THEN [c EXCEPT !.green = GreenCancel(@)]
  ELSE Cancel(c)

(* Closing: the slot, then the active candidate, then the retained base. *)
ScheduleClose(c) ==
  LET d == [c EXCEPT !.green = GreenClose(@)]
      e == IF IsActive(d) THEN Cancel(d) ELSE d
  IN CASE ~c.closing -> c
       [] c.closing /\ Cleaning(c) -> d
       [] c.closing /\ ~Cleaning(c) /\ (IsActive(e) \/ Cleaning(e)) -> e
       [] OTHER -> IF e.retained = None THEN e ELSE [e EXCEPT !.retained = None, !.cleanup = Drop]

CloseCandidate(c) == ScheduleClose([c EXCEPT !.closing = TRUE])

(* One quantum of cleanup: the slot's queue first, then the cleanup actor. *)
FinishCleanup(c) ==
  ScheduleClose([c EXCEPT !.cleanup = IF @.k = "restore" /\ c.retained # None THEN Drop ELSE NoCleanup,
                          !.retained = IF c.cleanup.k = "restore" /\ @ = None THEN c.cleanup.base ELSE @])

PollCleanup(c) ==
  LET g == GreenPollCleanup(c.green)
      d == [c EXCEPT !.green = IF c.closing THEN GreenClose(g) ELSE g]
  IN IF c.green.cleanup = <<>>
     THEN IF Cleaning(c) THEN FinishCleanup(c) ELSE ScheduleClose(c)
     ELSE CASE g = c.green -> c
            [] g # c.green /\ (d.green.cleanup # <<>> \/ Cleaning(d)) -> d
            [] OTHER -> ScheduleClose(d)

------------------------------------------------------------------------------
(* The poll: what one grant of transitions can do, with the event it emits.  *)

Streams == {"streaming", "streamingExact", "streamingFallback"}

Quiet(c) == [c |-> c, ev |-> "none"]

DeliveryReady(c) ==
  c.active.st \in Streams /\ c.active.phase = "awaitGreen" /\ GreenReadyFor(c.green, c.active.rev)

Deliver(c) == [c |-> [c EXCEPT !.active.phase = "awaitDelivery"], ev |-> "delivery"]

DeliverIfReady(c) == IF DeliveryReady(c) THEN Deliver(c) ELSE Quiet(c)

StageDone(c, st) ==
  Quiet([c EXCEPT !.active.st = st, !.active.phase = IF st \in Streams THEN "needBegin" ELSE "none"])

(* A stage fails after it has given up its job: what it made is dropped, and *)
(* its base with it unless the base had been given back before.              *)
Fails(c) == Quiet([c EXCEPT !.active = Idle, !.cleanup = Drop])
FailsSilently(c) == Quiet([c EXCEPT !.active = Idle])
FailsKeepingBase(c) ==
  IF c.retained # None THEN Quiet([c EXCEPT !.active = Idle])
  ELSE Quiet([c EXCEPT !.active = Idle, !.cleanup = Drop, !.retained = c.active.base])
FailsRestoring(c) == Quiet([c EXCEPT !.active = Idle, !.cleanup = Restore(c.active.base)])
FailsWithGreen(c) == Quiet([c EXCEPT !.active = Idle, !.cleanup = Drop, !.green = GreenCancel(@)])

If(mayFail, outcomes) == IF mayFail THEN outcomes ELSE {}

PreemptedAwaitingOnly(c) ==
  /\ c.active.base # None /\ c.green.pend.base = c.active.base
  /\ \/ c.green.pend.k = "readyUpdate" /\ c.active.st \in {"awaitingGreen", "parsingFallback"}
     \/ c.green.pend.k = "readyClean" /\ c.active.st = "awaitingGreen"

(* An exact parse is not carried on once the slot has the same target from    *)
(* the same base: an update is the parse, a clean build asks for a clean one. *)
Preempted(c) ==
  /\ c.active.base # None /\ c.green.pend.base = c.active.base
  /\ \/ c.green.pend.k = "readyUpdate" /\ c.active.st \in {"parsingExact", "awaitingGreen", "parsingFallback"}
     \/ c.green.pend.k = "readyClean" /\ c.active.st \in {"parsingExact", "awaitingGreen"}

Preempt(c, mayFail) ==
  {StageDone(c, IF c.green.pend.k = "readyUpdate" THEN "buildingExact" ELSE "parsingFallback")}
    \cup If(mayFail, {FailsWithGreen(c)})

FinishParsing(c, mayFail) == {StageDone(c, "building")} \cup If(mayFail, {FailsSilently(c)})

FinishBuilding(c, mayFail) == {StageDone(c, "streaming")} \cup If(mayFail, {Fails(c)})

(* A crop that the text declines is parsed again, from the start. *)
FinishParsingExact(c, mayFail) ==
  {StageDone(c, "buildingBlocks"), StageDone(c, "parsingFallback")} \cup If(mayFail, {Fails(c)})

FinishParsingLocal(c, mayFail) ==
  {StageDone(c, "buildingLocal"), StageDone(c, "parsingFallback")}
    \cup If(mayFail, {Fails(c), FailsSilently(c)})

(* A clean parse is exact if it can reuse the base's references, beside the   *)
(* slot's session of the same target, or without one the base's blocks.       *)
FinishParsingFallback(c, mayFail) ==
  LET withGreen == c.green.pend.k = "readyClean" /\ c.green.pend.base = c.active.base
                     /\ c.green.pend.rev = c.active.rev
  IN {StageDone(c, IF withGreen THEN "buildingExact" ELSE "buildingBlocks"),
      StageDone(c, "buildingFallback")} \cup If(mayFail, {Fails(c)})

FinishBuildingFallback(c, mayFail) ==
  {StageDone(c, "streamingFallback")} \cup If(mayFail, {Fails(c), FailsKeepingBase(c)})

FinishBuildingExact(c, mayFail) ==
  {StageDone(c, "streamingExact")}
    \cup If(mayFail, {Fails(c), FailsKeepingBase(c), FailsRestoring(c)})

(* A build of blocks is put back, and the poll refused, for as long as the    *)
(* slot owns the session of its base.                                         *)
Parked(c) == c.active.st \in LegacyBuilds /\ GreenOwns(c.green, c.active.base)

FinishBuildingLegacy(c, mayFail) == IF Parked(c) THEN {} ELSE FinishBuildingExact(c, mayFail)

(* poll_event: an end packet has sealed the stream. *)
StreamPolls(c) ==
  CASE c.active.phase = "needBegin" -> {[c |-> [c EXCEPT !.active.phase = "awaitBegin"], ev |-> "begin"]}
    [] c.active.phase = "needPacket" ->
         {[c |-> [c EXCEPT !.active.phase = "awaitPacket", !.active.sealed = end], ev |-> "packet"]
            : end \in BOOLEAN}
    [] c.active.phase = "needCommit" -> {[c |-> [c EXCEPT !.active.phase = "awaitCommit"], ev |-> "commit"]}
    [] OTHER -> {}

(* A candidate that awaits the slot has nothing of its own to do. *)
ActivePolls(c, mayFail) ==
  CASE c.active.st = "parsing" -> FinishParsing(c, mayFail)
    [] c.active.st = "building" -> FinishBuilding(c, mayFail)
    [] c.active.st = "parsingExact" -> FinishParsingExact(c, mayFail)
    [] c.active.st = "parsingLocal" -> FinishParsingLocal(c, mayFail)
    [] c.active.st = "parsingFallback" -> FinishParsingFallback(c, mayFail)
    [] c.active.st = "buildingFallback" -> FinishBuildingFallback(c, mayFail)
    [] c.active.st = "buildingExact" -> FinishBuildingExact(c, mayFail)
    [] c.active.st \in LegacyBuilds -> FinishBuildingLegacy(c, mayFail)
    [] c.active.st \in Streams -> StreamPolls(c)
    [] OTHER -> {}

(* The slot's build is finished before the candidate moves, so a committed    *)
(* stream finds it ready.                                                     *)
Polls(c, mayFail) ==
  IF Cleaning(c) THEN {Quiet(PollCleanup(c))}
  ELSE IF GreenTargetPending(c.green)
       THEN {DeliverIfReady([c EXCEPT !.green = g]) : g \in GreenPollTarget(c.green)}
  ELSE IF DeliveryReady(c) THEN {Deliver(c)}
  ELSE IF Preempted(c) THEN Preempt(c, mayFail)
  ELSE IF IsActive(c) THEN ActivePolls(c, mayFail)
  ELSE IF c.green.cleanup # <<>> THEN {Quiet([c EXCEPT !.green = GreenPollCleanup(@)])}
  ELSE {}

------------------------------------------------------------------------------
(* Receipts and host polls of the stream. *)

CreditNext == [begin |-> "needPacket", packet |-> "awaitPacketHost", commit |-> "awaitCommitHost"]
CreditPhase == [begin |-> "awaitBegin", packet |-> "awaitPacket", commit |-> "awaitCommit",
                delivery |-> "awaitDelivery"]

FinishOk(c) ==
  /\ ~c.closing /\ ~Cleaning(c) /\ c.active.sealed
  /\ c.retained = None \/ (c.retained < c.active.rev /\ c.active.base = None)
  /\ GreenCommitOk(c.green, c.active.rev)

FinishDelivery(c) ==
  [c EXCEPT !.active = Idle, !.retained = c.active.rev,
            !.green = GreenCommit(@, c.active.rev),
            !.cleanup = IF c.retained = None /\ c.active.base = None THEN NoCleanup ELSE Drop]

AcceptOk(c, credit) ==
  /\ c.active.st \in Streams /\ c.active.phase = CreditPhase[credit]
  /\ credit = "delivery" => FinishOk(c)

Accept(c, credit) ==
  IF ~AcceptOk(c, credit) THEN c
  ELSE IF credit = "delivery" THEN FinishDelivery(c)
  ELSE [c EXCEPT !.active.phase = CreditNext[credit]]

AwaitsHost(c) == c.active.st \in Streams /\ c.active.phase \in {"awaitPacketHost", "awaitCommitHost"}

HostPoll(c, rejected) ==
  CASE rejected -> Quiet(Cancel(c))
    [] ~rejected /\ c.active.phase = "awaitPacketHost" ->
         Quiet([c EXCEPT !.active.phase = IF c.active.sealed THEN "needCommit" ELSE "needPacket"])
    [] OTHER -> DeliverIfReady([c EXCEPT !.active.phase = "awaitGreen"])
=============================================================================
