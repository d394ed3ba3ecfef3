------------------------------ MODULE Endpoint ------------------------------
(***************************************************************************)
(* The V3 source endpoint (v3_endpoint.rs): one document's worker side,    *)
(* called by its client through commands, receipts, host-poll responses    *)
(* and polls that carry fuel.  It keeps the source replica in an engine    *)
(* runtime, certifies each revision by its source facts (a clean scan, or  *)
(* a delta from the revision published last) and has its candidate         *)
(* (CandidateOps) publish the certified revision.                          *)
(*                                                                         *)
(* One event may be outstanding: until its exact receipt arrives only that *)
(* receipt, a close and the polls get through, so a refused command or a   *)
(* receipt for another event changes nothing and is not a step.  Event ids *)
(* are a u32 that is never reused; of their value only whether they have   *)
(* run out is kept.  A source is its revision; a stamp's hash is left open *)
(* ("provisional"), right ("known") or wrong.                              *)
(*                                                                         *)
(* The engine runtime with its source facts is code the repository does    *)
(* not hold; its operators below are modelled from their use and external. *)
(***************************************************************************)
EXTENDS CandidateOps

CONSTANTS
  MaxRev,   \* revisions are 1..MaxRev
  MaxPages, \* the most source-fact pages of one certification
  Sessions  \* for each session examined, what may go wrong: see FaultKinds

FaultKinds == {"misuse", "badFrame", "badSeed", "badEdit", "wrongHash", "stale", "reject", "hostReject",
               "factsError", "deriveFails", "idsRunOut", "supersede", "close"}

ASSUME MaxRevAssumption == MaxRev \in Nat \ {0}
ASSUME MaxPagesAssumption == MaxPages \in Nat
ASSUME SessionsAssumption == Sessions \subseteq SUBSET FaultKinds

VARIABLES
  ep,      \* the endpoint
  faults   \* what may go wrong in this session; never changes

vars == <<ep, faults>>

Revs == 1..MaxRev

------------------------------------------------------------------------------
(* The engine runtime.  facts is the revision of the persistent source facts, *)
(* undo the one an uncommitted delta goes back to; certified is the certified *)
(* source of a clean scan until it is taken.                                  *)

NoRuntime == [live |-> FALSE, rev |-> None, job |-> "none", facts |-> None,
              undo |-> None, certified |-> None]

NewRuntime(rev) == [NoRuntime EXCEPT !.live = TRUE, !.rev = rev]

CancelFacts(rt) ==
  [rt EXCEPT !.job = "none", !.certified = None, !.undo = None,
             !.facts = IF rt.undo = None THEN @ ELSE rt.undo]

(* A clean scan starts from nothing: the facts of an earlier revision are gone. *)
BeginClean(rt) == [rt EXCEPT !.job = "clean", !.facts = None, !.undo = None, !.certified = None]

BeginIncremental(rt) == [rt EXCEPT !.job = "incremental", !.undo = rt.facts]

CompleteFacts(rt) ==
  [rt EXCEPT !.job = "none", !.facts = rt.rev,
             !.certified = IF rt.job = "clean" THEN rt.rev ELSE @]

CommitFacts(rt) == [rt EXCEPT !.undo = None]

------------------------------------------------------------------------------
NoStamp == [rev |-> None, hash |-> "none"]
Stamp(rev, hash) == [rev |-> rev, hash |-> hash]

(* A certification being published: the revision, the base it is a delta of  *)
(* and the pages still to send.                                              *)
NoCert == [rev |-> None, base |-> None, left |-> 0]

Init ==
  /\ faults \in Sessions
  /\ ep = [life |-> "AwaitingOpen", out |-> "none", exhausted |-> FALSE, latched |-> FALSE,
           failed |-> FALSE, reseed |-> FALSE, seeding |-> FALSE, pinst |-> NoStamp, pedit |-> NoStamp,
           pcert |-> NoCert, pinc |-> NoCert, facts |-> "none", rt |-> NoRuntime, poisoned |-> FALSE,
           target |-> NoStamp, observed |-> None, cert |-> "NotStarted",
           activeCert |-> None, lastCert |-> None, cand |-> NewCandidate]

------------------------------------------------------------------------------
(* Emitting and failing. *)

EmitOk(e) == e.out = "none" /\ ~e.exhausted

Emit(e, event) ==
  CASE e.out # "none" -> e
    [] e.out = "none" /\ e.exhausted -> [e EXCEPT !.reseed = TRUE, !.life = "Faulted"]
    [] OTHER -> [e EXCEPT !.out = event]

EmitCandidate(e, event) ==
  IF EmitOk(e) THEN Emit(e, event)
  ELSE [Emit(e, event) EXCEPT !.cand = Cancel(@), !.activeCert = None]

FailClosed(e) ==
  LET f == [e EXCEPT !.reseed = TRUE, !.life = "Faulted"]
  IN CASE e.latched -> e
       [] ~e.latched /\ (e.failed \/ e.out # "none") -> f
       [] OTHER -> Emit([f EXCEPT !.failed = TRUE], "failed")

ClearPendings(e) == [e EXCEPT !.seeding = FALSE, !.pinst = NoStamp, !.pedit = NoStamp]

(* The runtime is closed and its candidate told to give everything back. *)
PoisonRuntime(e) ==
  [ClearPendings(e) EXCEPT
     !.pcert = NoCert, !.pinc = NoCert, !.facts = "none", !.cand = CloseCandidate(@),
     !.rt = CancelFacts(@), !.poisoned = @ \/ e.rt.live,
     !.target = NoStamp, !.observed = None, !.activeCert = None, !.lastCert = None,
     !.cert = "NotStarted", !.reseed = TRUE]

PoisonAndFail(e) == FailClosed(PoisonRuntime(e))

ClearDerived(e) ==
  [e EXCEPT !.pcert = NoCert, !.pinc = NoCert, !.facts = "none", !.activeCert = None,
            !.rt = CancelFacts(@)]

CancelDerived(e) ==
  LET f == [e EXCEPT !.cand = Cancel(@)]
  IN IF CancelOk(e.cand) THEN ClearDerived(f) ELSE PoisonAndFail(f)

(* A derived result that the client called stale, or superseded, is dropped *)
(* and nothing is certified until the next edit.                            *)
Superseded(e) ==
  IF CancelOk(e.cand) THEN [CancelDerived(e) EXCEPT !.cert = "NotStarted"] ELSE CancelDerived(e)

------------------------------------------------------------------------------
(* Source facts.  After an edit a delta is tried if the facts, the candidate's *)
(* base and the last publication are of one revision; "suits" is what the      *)
(* planner and the parser's restart authority say of the edit.                 *)

ScanCleanKeepsBase(e, afterEdit) ==
  [e EXCEPT !.rt.job = "clean", !.facts = "clean", !.cert = "Scanning",
            !.lastCert = IF afterEdit THEN None ELSE @]

ScanClean(e, afterEdit) ==
  [e EXCEPT !.rt = BeginClean(@), !.facts = "clean", !.cert = "Scanning",
            !.lastCert = IF afterEdit THEN None ELSE @]

StartSourceFacts(e, afterEdit, suits) ==
  LET f == CancelDerived(e)
      base == afterEdit /\ e.pinc = NoCert /\ HasExactBaseFor(f.cand, f.rt.facts)
  IN CASE ~CancelOk(e.cand) -> f
       [] CancelOk(e.cand) /\ base /\ suits ->
            [f EXCEPT !.rt = BeginIncremental(@), !.facts = "incremental", !.cert = "Scanning"]
       [] OTHER -> ScanClean(f, afterEdit)

(* The next page of a certification, or its completion. *)
EmitNext(e, pending, page, done) ==
  LET more == pending.left > 0
      f == [e EXCEPT !.cert = IF more THEN "Publishing" ELSE "AwaitingPromotion"]
  IN IF EmitOk(e) THEN Emit(f, IF more THEN page ELSE done)
     ELSE PoisonAndFail(Emit(f, page))

MatchesTarget(e) == e.target.rev = e.rt.rev /\ e.observed = e.rt.rev /\ e.target.hash # "wrong"

FactsComplete(e, pages) ==
  LET f == [e EXCEPT !.rt = CompleteFacts(@), !.facts = "none"]
      pending == [rev |-> e.rt.rev, base |-> IF e.facts = "clean" THEN None ELSE e.rt.undo, left |-> pages]
      begun == [f EXCEPT !.pinc = pending, !.cert = "Publishing"]
  IN CASE ~MatchesTarget(e) \/ (e.facts = "incremental" /\ e.lastCert # e.rt.undo) -> PoisonAndFail(f)
       [] MatchesTarget(e) /\ e.facts = "clean" ->
            EmitNext([f EXCEPT !.pcert = pending], pending, "certPage", "certDone")
       [] OTHER -> IF EmitOk(begun) THEN Emit(begun, "deltaBegin")
                   ELSE PoisonAndFail(Emit(begun, "deltaBegin"))

Promote(e, rev) ==
  [e EXCEPT !.activeCert = rev, !.target = Stamp(rev, "known"), !.cert = "ExternallyEligible",
            !.pcert = NoCert, !.pinc = NoCert]

------------------------------------------------------------------------------
(* The commands. *)

EnsureOpen == ep.life = "Open" /\ ~ep.latched /\ ep.out = "none"

Open ==
  /\ ep.out = "none"
  /\ \/ ep.life = "AwaitingOpen" /\ ep' = Emit([ep EXCEPT !.life = "Opening"], "opened")
     \/ /\ ep.life = "Faulted" /\ ~ep.rt.live
        /\ ep' = Emit([ep EXCEPT !.failed = FALSE, !.poisoned = FALSE, !.reseed = FALSE,
                                 !.target = NoStamp, !.observed = None, !.cert = "NotStarted",
                                 !.activeCert = None, !.lastCert = None, !.life = "Opening"], "opened")

(* dispatch of a frame that does not decode. *)
BadFrame ==
  /\ "badFrame" \in faults
  /\ ep.life = "Open" /\ ep.out = "none"
  /\ ep' = FailClosed(ClearPendings(PoisonRuntime(ep)))

RejectSeed(e) == FailClosed(ClearPendings(e))

Hashes == {"known", "provisional"} \cup (IF "wrongHash" \in faults THEN {"wrong"} ELSE {})

SnapshotRefused(e) == e.rt.live \/ e.poisoned \/ e.pinst # NoStamp

(* A page of a seed: a middle one, the last one, or one that does not fit. *)
Snapshot ==
  /\ EnsureOpen
  /\ \/ /\ "badSeed" \in faults \/ ("misuse" \in faults /\ SnapshotRefused(ep))
        /\ ep' = RejectSeed(ep)
     \/ /\ ~SnapshotRefused(ep) /\ ~ep.seeding
        /\ ep' = Emit([ep EXCEPT !.seeding = TRUE], "intermediateSeed")
     \/ /\ ~SnapshotRefused(ep)
        /\ \E rev \in Revs, hash \in Hashes :
             ep' = Emit([ep EXCEPT !.seeding = FALSE, !.pinst = Stamp(rev, hash)], "installSeed")

RejectEdit(e) == PoisonAndFail(e)

HasSource(e) == e.target # NoStamp /\ e.observed # None /\ e.rt.live /\ ~e.seeding
                  /\ e.pinst = NoStamp /\ e.pedit = NoStamp

(* An edit of the installed revision, or one that does not fit it; a batch may *)
(* be refused half way, when the candidate has been stopped.                   *)
Edit ==
  /\ EnsureOpen
  /\ \/ /\ "badEdit" \in faults \/ ("misuse" \in faults /\ ~HasSource(ep))
        /\ ep' = RejectEdit(ep)
     \/ /\ "badEdit" \in faults /\ HasSource(ep) /\ CancelForEditOk(ep.cand)
        /\ ep' = RejectEdit([ep EXCEPT !.cand = CancelForEdit(@)])
     \/ /\ HasSource(ep) /\ ep.rt.rev < MaxRev
        /\ LET f == [ep EXCEPT !.cand = CancelForEdit(@)]
               rev == ep.rt.rev + 1
           IN \/ ~CancelForEditOk(ep.cand) /\ ep' = PoisonAndFail(f)
              \/ /\ CancelForEditOk(ep.cand)
                 /\ \E hash \in Hashes :
                      ep' = Emit([f EXCEPT !.rt.rev = rev, !.pedit = Stamp(rev, hash),
                                           !.cert = "NotStarted"], "installEdit")

Supersede ==
  /\ "supersede" \in faults
  /\ EnsureOpen
  /\ ep' = Superseded(ep)

BeginClose ==
  /\ "close" \in faults
  /\ ep.life \notin {"AwaitingOpen", "Closed", "Removable"}
  /\ ep' = [ClearDerived(ClearPendings(ep)) EXCEPT
              !.latched = TRUE, !.life = "Closing", !.cand = CloseCandidate(@),
              !.cert = "NotStarted", !.target = NoStamp, !.observed = None, !.lastCert = None]

(* One drain grant: the candidate's cleanup, then the runtime's, which may     *)
(* take several, then nothing.                                                 *)
Drain ==
  /\ ep.life = "Closing" /\ ep.out = "none"
  /\ \/ /\ CleanupPending(ep.cand) /\ ep.rt.live
        /\ ep' = Emit([ep EXCEPT !.cand = PollCleanup(@)], "drain")
     \/ /\ ~CleanupPending(ep.cand) /\ ep.rt.live
        /\ ep' = Emit(ep, "drain")
     \/ /\ ~CleanupPending(ep.cand)
        /\ ep' = Emit([ep EXCEPT !.rt = NoRuntime, !.poisoned = FALSE], "drained")

------------------------------------------------------------------------------
(* Receipts. *)

Dispositions == {"accepted"} \cup (IF "stale" \in faults THEN {"stale"} ELSE {})
                  \cup (IF "reject" \in faults THEN {"rejected"} ELSE {})

(* A page or completion is accepted, found stale, or refused. *)
CertReceipt(e, d, accepted) ==
  CASE d = "accepted" -> accepted
    [] d = "stale" -> Superseded(e)
    [] OTHER -> PoisonAndFail(e)

InstallSeed(e, d) ==
  LET f == [e EXCEPT !.pinst = NoStamp]
      g == [f EXCEPT !.rt = NewRuntime(e.pinst.rev), !.target = e.pinst,
                     !.observed = e.pinst.rev, !.reseed = FALSE]
  IN IF d = "accepted" THEN StartSourceFacts(g, FALSE, FALSE) ELSE FailClosed(f)

InstallEdit(e, d, suits) ==
  LET f == [e EXCEPT !.pedit = NoStamp]
      g == [f EXCEPT !.target = e.pedit, !.observed = e.pedit.rev, !.reseed = FALSE]
  IN IF d = "accepted" THEN StartSourceFacts(g, TRUE, suits) ELSE PoisonAndFail(f)

CertPage(e) ==
  LET f == [e EXCEPT !.pcert.left = @ - 1] IN EmitNext(f, f.pcert, "certPage", "certDone")

CertDone(e) ==
  LET f == [e EXCEPT !.rt.certified = None]
  IN IF StartOk(e.cand) THEN Promote([f EXCEPT !.cand = StartClean(@, e.pcert.rev)], e.pcert.rev)
     ELSE PoisonAndFail(f)

DeltaBegin(e) == EmitNext(e, e.pinc, "deltaPage", "deltaDone")

DeltaPage(e) ==
  LET f == [e EXCEPT !.pinc.left = @ - 1] IN EmitNext(f, f.pinc, "deltaPage", "deltaDone")

DeltaDone(e, st, declined) ==
  IF StartIncrementalOk(e.cand, e.pinc.base, st)
  THEN Promote([e EXCEPT !.cand = StartIncremental(@, e.pinc.rev, st, declined)], e.pinc.rev)
  ELSE PoisonAndFail([e EXCEPT !.pinc = NoCert])

CandidateReceipt(e, credit, d) ==
  CASE d = "accepted" -> [e EXCEPT !.cand = Accept(@, credit)]
    [] d # "accepted" /\ ~CancelOk(e.cand) -> [e EXCEPT !.cand = Cancel(@)]
    [] OTHER -> [e EXCEPT !.cand = Cancel(@), !.activeCert = None]

(* The exact receipt of event t, e having given its credit back. *)
HandleReceipt(e, t, d, suits, st, declined) ==
  CASE t = "opened" -> IF d = "accepted" THEN [e EXCEPT !.life = "Open"] ELSE FailClosed(e)
    [] t = "intermediateSeed" ->
         IF d = "accepted" THEN e ELSE FailClosed([e EXCEPT !.seeding = FALSE])
    [] t = "installSeed" -> InstallSeed(e, d)
    [] t = "installEdit" -> InstallEdit(e, d, suits)
    [] t = "certPage" -> CertReceipt(e, d, CertPage(e))
    [] t = "certDone" -> CertReceipt(e, d, CertDone(e))
    [] t = "deltaBegin" -> CertReceipt(e, d, DeltaBegin(e))
    [] t = "deltaPage" -> CertReceipt(e, d, DeltaPage(e))
    [] t = "deltaDone" -> CertReceipt(e, d, DeltaDone(e, st, declined))
    [] t \in {"begin", "packet", "commit", "delivery"} -> CandidateReceipt(e, t, d)
    [] t = "failed" -> IF d = "accepted" THEN [e EXCEPT !.life = "Faulted"] ELSE e
    [] t = "drain" -> e
    [] t = "drained" ->
         IF d = "accepted" THEN Emit([e EXCEPT !.life = "Closed"], "closed") ELSE e
    [] t = "closed" -> [e EXCEPT !.life = IF d = "accepted" THEN "Removable" ELSE "Closing"]

CloseEvents == {"drain", "drained", "closed"}

Receipt(d) ==
  /\ ep.out # "none"
  /\ LET e == [ep EXCEPT !.out = "none"]
     IN IF ep.latched /\ ep.out \notin CloseEvents THEN ep' = e
        ELSE \E suits \in (IF ep.out = "installEdit" THEN BOOLEAN ELSE {FALSE}),
                st \in (IF ep.out = "deltaDone" THEN ExactStarts ELSE {"none"}),
                declined \in (IF ep.out = "deltaDone" THEN BOOLEAN ELSE {FALSE}) :
               ep' = HandleReceipt(e, ep.out, d, suits, st, declined)

------------------------------------------------------------------------------
(* The polls. *)

(* A poisoned runtime is closed once the candidate has given everything back. *)
PollPoisoned ==
  /\ ep.poisoned
  /\ ep' = IF CleanupPending(ep.cand) THEN [ep EXCEPT !.cand = PollCleanup(@)]
           ELSE [ep EXCEPT !.rt = NoRuntime, !.poisoned = FALSE]

ScanIgnoringCleanup ==
  /\ ~ep.poisoned /\ ep.life = "Open" /\ ep.cert = "Scanning"
  /\ \E pages \in 0..MaxPages : ep' = FactsComplete(ep, pages)

(* While a scan is under way the candidate's cleanup goes first. *)
PollSourceFacts ==
  /\ ~ep.poisoned /\ ep.life = "Open" /\ ep.cert = "Scanning"
  /\ \/ CleanupPending(ep.cand) /\ ep' = [ep EXCEPT !.cand = PollCleanup(@)]
     \/ ~CleanupPending(ep.cand) /\ \E pages \in 0..MaxPages : ep' = FactsComplete(ep, pages)
     \/ /\ "factsError" \in faults /\ ~CleanupPending(ep.cand)
        /\ ep' = PoisonAndFail(ep)

PollCandidate ==
  /\ ep.life = "Open" /\ ep.out = "none"
  /\ \E p \in Polls(ep.cand, "deriveFails" \in faults) :
       LET f == [ep EXCEPT !.cand = p.c]
       IN ep' = IF p.ev = "none" THEN f ELSE EmitCandidate(f, p.ev)

(* dispatch_host_poll: the host has taken a packet, committed, or refused. *)
HostAnswer(rejected) ==
  /\ EnsureOpen /\ AwaitsHost(ep.cand)
  /\ rejected => "hostReject" \in faults
  /\ LET p == HostPoll(ep.cand, rejected)
         f == [ep EXCEPT !.cand = p.c, !.activeCert = None]
     IN ep' = CASE p.ev = "delivery" /\ ep.activeCert = None -> [ep EXCEPT !.cand = p.c]
                [] p.ev = "delivery" /\ ep.activeCert # None ->
                     IF ep.activeCert # p.c.active.rev THEN PoisonAndFail(f)
                     ELSE EmitCandidate([f EXCEPT !.rt = CommitFacts(@), !.lastCert = ep.activeCert],
                                        "delivery")
                [] p.ev # "delivery" /\ rejected /\ CancelOk(ep.cand) -> f
                [] OTHER -> [ep EXCEPT !.cand = p.c]

(* The u32 event identity has been used up by the last event. *)
IdsRunOut ==
  /\ "idsRunOut" \in faults /\ ep.life # "AwaitingOpen"
  /\ ep' = [ep EXCEPT !.exhausted = TRUE]

Step ==
  \/ Open \/ BadFrame \/ Snapshot \/ Edit \/ Supersede \/ BeginClose \/ Drain
  \/ \E d \in Dispositions : Receipt(d)
  \/ PollPoisoned \/ PollSourceFacts \/ PollCandidate
  \/ \E rejected \in BOOLEAN : HostAnswer(rejected)
  \/ IdsRunOut

Next == Step /\ UNCHANGED faults

Spec == Init /\ [][Next]_vars

(* The client keeps draining and polling, does not refuse every event (nor   *)
(* every Closed) for ever, a runtime is closed by finitely many grants and a *)
(* stream has finitely many frames; commands are its choice.                 *)
Fairness ==
  /\ WF_ep(Drain) /\ SF_ep(Drain /\ ep'.out = "drained")
  /\ SF_ep(Receipt("accepted"))
  /\ SF_ep(ep.out = "closed" /\ Receipt("accepted"))
  /\ WF_ep(PollPoisoned) /\ WF_ep(PollSourceFacts) /\ WF_ep(PollCandidate)
  /\ SF_ep(PollCandidate /\ ep'.cand.active.sealed)
  /\ WF_ep(HostAnswer(FALSE))

FairSpec == Spec /\ Fairness

------------------------------------------------------------------------------
Lifecycles == {"AwaitingOpen", "Opening", "Open", "Faulted", "Closing", "Closed", "Removable"}
Events == {"none", "opened", "intermediateSeed", "installSeed", "installEdit", "certPage", "certDone",
           "deltaBegin", "deltaPage", "deltaDone", "begin", "packet", "commit", "delivery",
           "failed"} \cup CloseEvents
OptRev == 0..MaxRev
Stamps == {NoStamp} \cup [rev : Revs, hash : {"known", "provisional", "wrong"}]
Certs == [rev : OptRev, base : OptRev, left : 0..MaxPages]
Greens == [installed : OptRev, cleanup : Seq(OptRev),
           pend : [k : {"none", "readyClean", "readyUpdate"} \cup DOMAIN GreenNext, rev : OptRev, base : OptRev]]
Candidates ==
  [active : [st : {"none", "parsing", "building"} \cup HoldsBase \cup Streams, rev : OptRev, base : OptRev, sealed : BOOLEAN,
             phase : {"none", "needBegin", "needCommit", "awaitGreen", "awaitDelivery"}
                       \cup {CreditNext[k] : k \in DOMAIN CreditNext}
                       \cup {CreditPhase[k] : k \in DOMAIN CreditPhase}],
   retained : OptRev, cleanup : [k : {"none", "drop", "restore"}, base : OptRev],
   closing : BOOLEAN, green : Greens]
Runtimes == [live : BOOLEAN, rev : OptRev, job : {"none", "clean", "incremental"},
             facts : OptRev, undo : OptRev, certified : OptRev]

(* Every field has its type. *)
TypeOK ==
  ep \in [life : Lifecycles, out : Events, exhausted : BOOLEAN, latched : BOOLEAN, failed : BOOLEAN,
          reseed : BOOLEAN, seeding : BOOLEAN, pinst : Stamps, pedit : Stamps, pcert : Certs, pinc : Certs,
          facts : {"none", "clean", "incremental"}, rt : Runtimes, poisoned : BOOLEAN, target : Stamps,
          observed : OptRev, activeCert : OptRev, lastCert : OptRev, cand : Candidates,
          cert : {"NotStarted", "Scanning", "Publishing", "AwaitingPromotion", "ExternallyEligible"}]

(* A delta of source facts starts from the revision whose publication was     *)
(* acknowledged last, and the candidate still retains that publication: the   *)
(* three that start_source_facts and prepare_incremental compare never part,  *)
(* whatever was cancelled, found stale or edited in between.                  *)
DeltaFromPublished ==
  /\ ep.facts = "incremental" => ep.rt.undo = ep.lastCert /\ ep.cand.retained = ep.lastCert
  /\ ep.pinc # NoCert => ep.pinc.base = ep.lastCert /\ ep.cand.retained = ep.lastCert

(* When a certification is about to be promoted, the candidate can start: the *)
(* cleanup that poll_source_facts runs ahead of the scan has left nothing     *)
(* active, and the Green slot has its base back (unless the candidate was     *)
(* closed by an earlier fault).                                               *)
PromotionFindsCandidateFree ==
  /\ ep.out = "certDone" /\ ~ep.latched /\ ~ep.cand.closing => StartOk(ep.cand)
  /\ ep.out = "deltaDone" /\ ~ep.latched /\ ~ep.cand.closing =>
       \A st \in ExactStarts : StartIncrementalOk(ep.cand, ep.pinc.base, st)

(* Whenever a delivery is announced, the revision delivered has become the    *)
(* certified base of the next delta and its facts are committed: only         *)
(* dispatch_host_poll does so, hence no delivery may leave by poll_candidate. *)
DeliveryIsCertified ==
  ep.out = "delivery" /\ ~ep.latched =>
    ep.lastCert = ep.cand.active.rev /\ ep.rt.undo = None /\ ep.activeCert = None

(* The candidate only ever works on the installed, certified revision: an     *)
(* edit, a stale receipt or a supersession has stopped it before the source   *)
(* or the certification moved on.                                             *)
CandidateIsCurrent ==
  IsActive(ep.cand) /\ ~ep.cand.closing =>
    /\ ep.cand.active.rev = ep.rt.rev /\ ep.rt.rev = ep.observed
    /\ ep.target = Stamp(ep.observed, "known")
    /\ ep.cert = "ExternallyEligible"

(* A receipt that the client accepts is never refused by the candidate, which *)
(* would then wait for a credit that has already been spent.                  *)
CreditNeverWasted ==
  ep.out \in DOMAIN CreditPhase /\ ~ep.latched => AcceptOk(ep.cand, ep.out)

(* A candidate can always be cancelled: it never works while a cancelled one  *)
(* is being released, and never holds a base beside a retained one (cancel    *)
(* refuses both, and begin_close would stop half way).                        *)
AlwaysCancellable == CancelOk(ep.cand)

(* A poisoned runtime, half edited perhaps, serves nothing: no source is      *)
(* installed, no candidate works on it and no session is open over it.        *)
PoisonedNeverServes ==
  ep.poisoned => /\ ep.rt.live /\ ep.cand.closing /\ ep.life \in {"Faulted", "Closing"}
                 /\ ep.target = NoStamp /\ ep.facts = "none" /\ ep.activeCert = None

(* The client is told of every fault: fail_closed drops the Failed event when *)
(* another one is outstanding, so no fault may happen while one is.           *)
FaultIsReported == ep.life = "Faulted" => ep.failed \/ ep.exhausted \/ ep.latched

GreenPlaces(g) ==
  {<<"installed", 0>> : x \in {g.installed} \ {None}} \cup {<<"pending", 0>> : x \in {g.pend.base} \ {None}}
    \cup {<<"cleanup", i>> : i \in {j \in DOMAIN g.cleanup : g.cleanup[j] # None}}

Owned(c) == {c.retained, c.active.base, c.cleanup.base} \ {None}

(* The Green session a build starts from is in one place: installed, held by  *)
(* the build, or held by the cancellation that will give it back; so is the   *)
(* publication that the candidate builds on.                                  *)
OneBase ==
  /\ \A p, q \in GreenPlaces(ep.cand.green) : p = q
  /\ ep.cand.active.base = None \/ (ep.cand.retained = None /\ ep.cand.cleanup.base = None)
  /\ ep.cand.cleanup.base = None \/ ep.cand.retained = None

(* The publication to build on and the Green session to build on go together: *)
(* wherever cancellations, deliveries and failures have put them, they are of *)
(* the same revision, which awaiting a recursive-Green restart relies on.     *)
GreenFollowsBase ==
  ~ep.cand.closing =>
    Owned(ep.cand) \subseteq {ep.cand.green.installed, ep.cand.green.pend.base}
                                \cup {ep.cand.green.cleanup[i] : i \in DOMAIN ep.cand.green.cleanup}

(* The slot's queue of releases stays short, although edits may come faster   *)
(* than it is polled.                                                         *)
GreenQueueBounded == Len(ep.cand.green.cleanup) <= 4

(* A list edit is never published by the list parser's own lane: what it has  *)
(* made is built from a base whose session the slot always owns, so its build *)
(* is refused by every poll until the candidate is cancelled.  Nothing else   *)
(* that is built is of blocks.                                                *)
LegacyBuildsAreParked ==
  /\ ep.cand.active.st \in LegacyBuilds => Parked(ep.cand)
  /\ ep.cand.active.st # "buildingBlocks"

(* What every command, receipt and poll keeps, whatever goes wrong. *)
EndpointInv ==
  /\ TypeOK
  /\ PromotionFindsCandidateFree
  /\ DeliveryIsCertified
  /\ CandidateIsCurrent
  /\ CreditNeverWasted
  /\ AlwaysCancellable
  /\ PoisonedNeverServes
  /\ FaultIsReported
  /\ OneBase
  /\ GreenFollowsBase
  /\ GreenQueueBounded
  /\ LegacyBuildsAreParked

(* No step but a close loses the publication or the Green session that the    *)
(* next delta would start from; it is kept, moved or replaced.  A derivation  *)
(* that fails may take them along, and the next revision is scanned clean.    *)
BaseNeverLost ==
  [][\/ "deriveFails" \in faults \/ ep'.cand.closing
     \/ /\ Owned(ep.cand) # {} => Owned(ep'.cand) # {}
        /\ GreenPlaces(ep.cand.green) # {} => GreenPlaces(ep'.cand.green) # {}]_vars

(* A close that is drained and acknowledged ends, unless the event ids it     *)
(* needs have run out.                                                        *)
CloseCompletes == ep.latched ~> ep.life = "Removable" \/ ep.exhausted

(* The client or the host refused the revision's publication, which then waits *)
(* for the next edit.                                                          *)
Refused(e) == e.cert = "ExternallyEligible" /\ ~IsActive(e.cand) /\ e.activeCert = None

(* An installed revision is published, unless the client edits it, supersedes *)
(* it, refuses it or closes, the session faults first, or the list parser has *)
(* led to a build that is parked: no cleanup, Green build or credit is waited *)
(* for in vain, by whatever other lane the revision is made, and a parked     *)
(* build stops no later revision.  (A revision whose derivation fails waits   *)
(* for the next edit.)                                                        *)
Publishes ==
  \A r \in Revs :
    "deriveFails" \notin faults /\ ep.life = "Open" /\ ep.observed = r /\ ep.cert = "Scanning"
      ~> \/ ep.cand.retained = r \/ Refused(ep) \/ ep.cert = "NotStarted"
         \/ ep.observed # r \/ ep.life # "Open"
         \/ ep.cand.active.st = "buildingLocal" /\ Parked(ep.cand)

(* Nothing that was begun is left hanging. *)
Progress == Publishes /\ CloseCompletes

=============================================================================
