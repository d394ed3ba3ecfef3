--------------------------- MODULE SharedBackend ---------------------------
(***************************************************************************)
(* One parser lent to every holder of a lease:                             *)
(* packages/flark/lib/src/session/shared_backend.dart.                     *)
(*                                                                         *)
(* A lease is one call of lease(); a load is one call of the loader, named *)
(* by its number, and stands for the future it returns and the parser that *)
(* future yields.  When a load ends, Dart resumes the calls awaiting it    *)
(* one after the other, in the order they began to wait, and before any    *)
(* other future completes; what a resumed caller does at once (ask for     *)
(* another lease, dispose the one it got) comes in between.                *)
(***************************************************************************)
EXTENDS Integers, Sequences, FiniteSets

CONSTANTS Leases,    \* calls of lease()
          MaxLoads,  \* model bound: calls of the loader
          None       \* the null _parser

ASSUME LeasesAssumption == IsFiniteSet(Leases)
ASSUME LoadsAssumption == MaxLoads \in Nat /\ None \notin Nat

Loads == 1 .. MaxLoads

VARIABLES
    parser,   \* _parser: the load in use, or None
    holders,  \* _holders
    load,     \* each load: unused, loading, loaded, failed or disposed
    lease,    \* each lease: idle, waiting, held, failed or over
    of,       \* the load a lease waits for or holds
    queue     \* the leases awaiting each load, oldest first

vars == <<parser, holders, load, lease, of, queue>>

Init == /\ parser = None
        /\ holders = 0
        /\ load = [l \in Loads |-> "unused"]
        /\ lease = [c \in Leases |-> "idle"]
        /\ of = [c \in Leases |-> None]
        /\ queue = [l \in Loads |-> <<>>]

-----------------------------------------------------------------------------
(* A definition marked `fault' is the one below it with a plausible        *)
(* mistake; it only serves to show that the properties notice it.          *)

Await(c, l) == /\ holders' = holders + 1
               /\ lease' = [lease EXCEPT ![c] = "waiting"]
               /\ of' = [of EXCEPT ![c] = l]
               /\ queue' = [queue EXCEPT ![l] = Append(@, c)]

\* lease() while a parser is loading or loaded.
LeaseLoaded(c) == /\ lease[c] = "idle"
                  /\ parser # None
                  /\ Await(c, parser)
                  /\ UNCHANGED <<parser, load>>

\* lease() that starts a load; the loads are numbered in order.
LeaseLoads(c, l) == /\ lease[c] = "idle"
                    /\ parser = None
                    /\ load[l] = "unused"
                    /\ \A m \in 1 .. l - 1 : load[m] # "unused"
                    /\ parser' = l
                    /\ load' = [load EXCEPT ![l] = "loading"]
                    /\ Await(c, l)

\* A loader that throws rather than failing its future records nothing.
LoaderThrows(c) == /\ lease[c] = "idle"
                   /\ parser = None
                   /\ lease' = [lease EXCEPT ![c] = "failed"]
                   /\ UNCHANGED <<parser, holders, load, of, queue>>

\* lease() goes on with the parser it awaited.
Lent(c) == /\ lease' = [lease EXCEPT ![c] = "held"]
           /\ UNCHANGED <<parser, holders>>

\* fault: a failed lease keeps its place among the holders
RefusedCounted(c, l) == /\ lease' = [lease EXCEPT ![c] = "failed"]
                        /\ parser' = IF parser = l THEN None ELSE parser
                        /\ UNCHANGED holders

\* lease() goes on in its catch block: a newer load stays.
Refused(c, l) == /\ lease' = [lease EXCEPT ![c] = "failed"]
                 /\ holders' = holders - 1
                 /\ parser' = IF parser = l THEN None ELSE parser

\* fault: the others waiting for a failed load are not told
LoadEndsForOne(l, outcome) ==
    /\ load[l] = "loading"
    /\ \A m \in Loads : load[m] = "failed" => queue[m] = <<>>
    /\ load' = [load EXCEPT ![l] = outcome]
    /\ IF outcome = "loaded" THEN Lent(Head(queue[l])) ELSE Refused(Head(queue[l]), l)
    /\ queue' = [queue EXCEPT ![l] = IF outcome = "failed" THEN <<>> ELSE Tail(@)]
    /\ UNCHANGED of

\* The load ends and resumes its oldest waiter.  No load ends while another
\* one's failure is still being handed out.
LoadEnds(l, outcome) ==
    /\ load[l] = "loading"
    /\ \A m \in Loads : load[m] = "failed" => queue[m] = <<>>
    /\ load' = [load EXCEPT ![l] = outcome]
    /\ IF outcome = "loaded" THEN Lent(Head(queue[l])) ELSE Refused(Head(queue[l]), l)
    /\ queue' = [queue EXCEPT ![l] = Tail(@)]
    /\ UNCHANGED of

\* The next waiter of a load that has ended, or a lease that began to wait
\* for a parser already there.
Resume(l) ==
    /\ queue[l] # <<>>
    /\ \/ load[l] = "loaded" /\ Lent(Head(queue[l]))
       \/ load[l] = "failed" /\ Refused(Head(queue[l]), l)
    /\ queue' = [queue EXCEPT ![l] = Tail(@)]
    /\ UNCHANGED <<load, of>>

\* fault: disposing a lease twice releases twice
DisposeTwice(c) ==
    /\ lease[c] \in {"held", "over"}
    /\ lease' = [lease EXCEPT ![c] = "over"]
    /\ holders' = holders - 1
    /\ \/ holders' > 0 /\ UNCHANGED <<parser, load>>
       \/ /\ holders' <= 0
          /\ parser' = None
          /\ load' = [load EXCEPT ![of[c]] = "disposed"]
    /\ UNCHANGED <<of, queue>>

\* _LentBackend.dispose and _release: the last holder disposes the parser.
\* A second dispose of the same lease finds no backend and does nothing.
Dispose(c) ==
    /\ lease[c] = "held"
    /\ lease' = [lease EXCEPT ![c] = "over"]
    /\ holders' = holders - 1
    /\ \/ holders' > 0 /\ UNCHANGED <<parser, load>>
       \/ /\ holders' <= 0
          /\ parser' = None
          /\ load' = [load EXCEPT ![of[c]] = "disposed"]
    /\ UNCHANGED <<of, queue>>

Next == \/ \E c \in Leases : LeaseLoaded(c) \/ LoaderThrows(c) \/ Dispose(c)
        \/ \E c \in Leases, l \in Loads : LeaseLoads(c, l)
        \/ \E l \in Loads, outcome \in {"loaded", "failed"} : LoadEnds(l, outcome)
        \/ \E l \in Loads : Resume(l)

Spec == Init /\ [][Next]_vars

\* A load ends some time, the event loop resumes what awaits a finished
\* future, and every holder disposes its lease some time.
Fairness == /\ \A l \in Loads : /\ WF_vars(\E outcome \in {"loaded", "failed"} :
                                              LoadEnds(l, outcome))
                                /\ WF_vars(Resume(l))
            /\ \A c \in Leases : WF_vars(Dispose(c))

FairSpec == Spec /\ Fairness

-----------------------------------------------------------------------------
(* Properties.                                                             *)

TypeOK == /\ parser \in Loads \cup {None}
          /\ holders \in Nat
          /\ load \in [Loads -> {"unused", "loading", "loaded", "failed", "disposed"}]
          /\ lease \in [Leases -> {"idle", "waiting", "held", "failed", "over"}]
          /\ of \in [Leases -> Loads \cup {None}]
          /\ queue \in [Loads -> Seq(Leases)]

\* The leases that count: disposed not yet, or still waiting for a load.
Claims == {c \in Leases : lease[c] \in {"waiting", "held"}}

\* _holders is the number of leases not yet disposed and of leases still
\* waiting, on every path through lease() and _release.
HoldersExact == holders = Cardinality(Claims)

\* No holder ever has its parser disposed under it: what a lease holds is
\* loaded, not disposed, and the one parser now shared.
HeldIsLive == \A c \in Leases :
                 lease[c] = "held" => load[of[c]] = "loaded" /\ parser = of[c]

\* _parser is the only load alive: a second parser is never loaded beside
\* it, and no idle parser stays behind once the last claim is gone.
OneLiveParser ==
    /\ \A l \in Loads : load[l] \in {"loading", "loaded"} <=> parser = l
    /\ parser # None => Claims # {}

\* What lease() and _release keep between any two resumptions.
LeaseInv == TypeOK /\ HoldersExact /\ HeldIsLive /\ OneLiveParser

Contract == INSTANCE LeaseContract WITH
    claim <- [c \in Leases |-> CASE lease[c] = "idle"    -> "idle"
                                 [] lease[c] = "waiting" -> "pending"
                                 [] lease[c] = "held"    -> "held"
                                 [] OTHER                -> "over"],
    alive <- \E l \in Loads : load[l] = "loaded"

\* The holders' view is kept: LeaseContract is implemented.
KeepsContract == Contract!Spec

\* Every lease asked for is granted or refused, whatever fails meanwhile.
EveryLeaseAnswered ==
    \A c \in Leases : lease[c] = "waiting" ~> lease[c] \in {"held", "failed"}

\* A loaded parser is disposed once its holders are done with it.
ParserFreed == \A l \in Loads : load[l] = "loaded" ~> load[l] = "disposed"

\* Nothing is owed for ever, to a lease or by a parser.
LeasesSettle == EveryLeaseAnswered /\ ParserFreed

=============================================================================
