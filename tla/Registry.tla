------------------------------ MODULE Registry ------------------------------
(***************************************************************************)
(* The two process-wide registries of the V3 bridge: v3_registry.rs (parser *)
(* endpoints) and v3_host_registry.rs (candidate hosts).  Both hand out     *)
(* (slot, generation) handles for reference-counted objects, each behind    *)
(* its own lock, and differ only in what they admit.                        *)
(*                                                                          *)
(* Everything done under the registry's lock is one step; what a thread     *)
(* does between two locks (clone of the Arc, try_lock, the operation, the   *)
(* drops) is a step each, so calls on any threads interleave there.         *)
(*                                                                          *)
(* RegistryInit, RegistrySpec and the like carry the module's name because  *)
(* LegacyProofs extends it together with Document.                          *)
(***************************************************************************)
EXTENDS Naturals, FiniteSets

CONSTANTS
  Threads,        \* the threads calling into the registry
  NoThread,       \* the holder of a free lock
  MaxFresh,       \* maximum_fresh_endpoints, or maximum_hosts
  MaxGeneration,  \* u32::MAX in the code
  MaxObjects      \* bound: the objects ever created

ASSUME ThreadsAssumption == IsFiniteSet(Threads) /\ NoThread \notin Threads
ASSUME BoundsAssumption ==
  MaxFresh \in Nat \ {0} /\ MaxGeneration \in Nat \ {0} /\ MaxObjects \in Nat

None == 0
Slots == 1 .. 2 * MaxFresh
Objects == 1 .. MaxObjects
NoHandle == <<1, 1>>   \* an idle thread's handle, which nothing reads
Handles == Slots \X (1 .. MaxGeneration)

VARIABLES
  hosts,       \* whether this is the registry of hosts, or the one of endpoints
  len,         \* slots.len()
  generation,  \* of each slot
  object,      \* the slot's Arc, or None
  nextFree,    \* the slot's next_free, or None
  exhausted,   \* generation_exhausted
  freeHead,    \* free_head, or None
  resident,    \* resident_endpoints / resident_hosts
  exhaustedSlots,
  created,     \* objects created so far; the next one is created + 1
  lock,        \* each object's mutex: the thread holding it, or None
  poisoned,    \* objects whose mutex a panic has poisoned
  removable,   \* objects whose close is finished (Removable / is_removable)
  pc, arc, handle, op,   \* each thread: where it is, its Arc, its arguments
  issued       \* history: the handles given out, with the object of each

slotVars == <<len, generation, object, nextFree, exhausted, freeHead, resident, exhaustedSlots>>
objectVars == <<created, lock, poisoned, removable>>
threadVars == <<pc, arc, handle, op>>
registryVars == <<hosts, slotVars, objectVars, threadVars, issued>>

\* maximum_slots: a registry of endpoints holds every one of them twice over,
\* beside its replacement.
MaxSlots == IF hosts THEN MaxFresh ELSE 2 * MaxFresh

Admissions == IF hosts THEN {"host"} ELSE {"fresh", "recovery"}

\* Arc::strong_count: the slot's reference and the threads' clones.
StrongCount(o) ==
  Cardinality({s \in Slots : object[s] = o}) + Cardinality({t \in Threads : arc[t] = o})

\* The first word of a handle is the slot's index plus one: Slots is 1-based here.
ValidateHandle(h) ==
  /\ h[1] <= len
  /\ generation[h[1]] = h[2]
  /\ object[h[1]] # None

CanAdmitFresh ==
  /\ resident + 1 <= MaxFresh
  /\ 2 * (resident + 1) <= MaxSlots - exhaustedSlots

\* Mutant: the slots lost to exhausted generations are not counted.
AdmitsIgnoringExhausted(a) ==
  CASE a = "fresh"    -> resident + 1 <= MaxFresh
    [] a = "recovery" -> resident < MaxSlots
    [] a = "host"     -> resident < MaxSlots

Admits(a) ==
  CASE a = "fresh"    -> CanAdmitFresh
    [] a = "recovery" -> resident < MaxSlots
    [] a = "host"     -> resident < MaxSlots - exhaustedSlots

(***************************************************************************)
(* insert: the head of the free list, else a new slot, else refused.        *)
(***************************************************************************)
InsertReused ==
  /\ freeHead # None
  /\ object' = [object EXCEPT ![freeHead] = created + 1]
  /\ nextFree' = [nextFree EXCEPT ![freeHead] = None]
  /\ freeHead' = nextFree[freeHead]
  /\ issued' = issued \cup {<<<<freeHead, generation[freeHead]>>, created + 1>>}
  /\ UNCHANGED <<len, generation>>

InsertPushed ==
  /\ freeHead = None
  /\ len < MaxSlots
  /\ len' = len + 1
  /\ generation' = [generation EXCEPT ![len + 1] = 1]
  /\ object' = [object EXCEPT ![len + 1] = created + 1]
  /\ issued' = issued \cup {<<<<len + 1, 1>>, created + 1>>}
  /\ UNCHANGED <<nextFree, freeHead>>

Insert(t, a) ==
  /\ pc[t] = "idle"
  /\ created < MaxObjects
  /\ Admits(a)
  /\ InsertReused \/ InsertPushed
  /\ created' = created + 1
  /\ resident' = resident + 1
  /\ UNCHANGED <<exhausted, exhaustedSlots, lock, poisoned, removable, threadVars>>

(***************************************************************************)
(* A call on a handle.  resolve clones the Arc under the registry's lock;   *)
(* a handle that is not live is refused there and nothing changes.          *)
(***************************************************************************)
Resolve(t, h, o) ==
  /\ pc[t] = "idle"
  /\ ValidateHandle(h)
  /\ pc' = [pc EXCEPT ![t] = "resolved"]
  /\ arc' = [arc EXCEPT ![t] = object[h[1]]]
  /\ handle' = [handle EXCEPT ![t] = h]
  /\ op' = [op EXCEPT ![t] = o]
  /\ UNCHANGED <<slotVars, objectVars, issued>>

\* Mutant: the call waits for the lock.
TryLockWaiting(t) ==
  LET o == arc[t] IN
  /\ pc[t] = "resolved"
  /\ lock[o] = NoThread
  /\ lock' = [lock EXCEPT ![o] = t]
  /\ pc' = [pc EXCEPT ![t] = IF o \in poisoned THEN "guarded" ELSE op[t]]
  /\ UNCHANGED <<slotVars, created, poisoned, removable, arc, handle, op, issued>>

\* try_lock: WouldBlock ends the call as InUse.  A poisoned lock is taken and
\* refused: its guard lives until the call returns.
TryLock(t) ==
  LET o == arc[t] IN
  /\ pc[t] = "resolved"
  /\ \/ /\ lock[o] # NoThread
        /\ pc' = [pc EXCEPT ![t] = "leaving"]
        /\ UNCHANGED lock
     \/ /\ lock[o] = NoThread
        /\ lock' = [lock EXCEPT ![o] = t]
        /\ pc' = [pc EXCEPT ![t] = IF o \in poisoned THEN "guarded" ELSE op[t]]
  /\ UNCHANGED <<slotVars, created, poisoned, removable, arc, handle, op, issued>>

\* with_endpoint / with_host: the operation ends, perhaps having finished the
\* object's close, or it panics, which poisons the lock as the guard unwinds.
Operate(t) ==
  LET o == arc[t] IN
  /\ pc[t] = "with"
  /\ pc' = [pc EXCEPT ![t] = "guarded"]
  /\ \/ removable' \in {removable, removable \cup {o}} /\ UNCHANGED poisoned
     \/ poisoned' = poisoned \cup {o} /\ UNCHANGED removable
  /\ UNCHANGED <<slotVars, created, lock, arc, handle, op, issued>>

\* Mutant: an exhausted slot goes back on the free list with its last generation.
RecycleSaturating(s) ==
  /\ object' = [object EXCEPT ![s] = None]
  /\ resident' = resident - 1
  /\ generation' = [generation EXCEPT ![s] = IF @ < MaxGeneration THEN @ + 1 ELSE @]
  /\ nextFree' = [nextFree EXCEPT ![s] = freeHead]
  /\ freeHead' = s
  /\ UNCHANGED <<exhausted, exhaustedSlots>>

\* recycle: the slot's generation moves on before the slot can be used again;
\* a slot whose generation cannot move on is never used again.
Recycle(s) ==
  /\ object' = [object EXCEPT ![s] = None]
  /\ resident' = resident - 1
  /\ \/ /\ generation[s] < MaxGeneration
        /\ generation' = [generation EXCEPT ![s] = @ + 1]
        /\ nextFree' = [nextFree EXCEPT ![s] = freeHead]
        /\ freeHead' = s
        /\ UNCHANGED <<exhausted, exhaustedSlots>>
     \/ /\ generation[s] = MaxGeneration
        /\ exhausted' = exhausted \cup {s}
        /\ nextFree' = [nextFree EXCEPT ![s] = None]
        /\ exhaustedSlots' = exhaustedSlots + 1
        /\ UNCHANGED <<generation, freeHead>>

\* Mutant: other owners of the Arc are not counted.
RemoveAllowedShared(t) ==
  /\ arc[t] \in removable
  /\ ValidateHandle(handle[t])
  /\ object[handle[t][1]] = arc[t]

\* remove, once it holds the object's lock and has found it removable: under
\* the registry's lock the handle is checked again and nobody else may own the
\* Arc.  On success the slot's Arc goes to this thread, which drops the guard
\* and both references outside the lock.
RemoveAllowed(t) ==
  /\ arc[t] \in removable
  /\ ValidateHandle(handle[t])
  /\ object[handle[t][1]] = arc[t]
  /\ StrongCount(arc[t]) = 2

Remove(t) ==
  /\ pc[t] = "remove"
  /\ \/ /\ RemoveAllowed(t)
        /\ Recycle(handle[t][1])
        /\ UNCHANGED len
     \/ /\ ~RemoveAllowed(t)
        /\ UNCHANGED slotVars
  /\ pc' = [pc EXCEPT ![t] = "guarded"]
  /\ UNCHANGED <<objectVars, arc, handle, op, issued>>

\* The guard is dropped first, the Arc after it.
DropGuard(t) ==
  /\ pc[t] = "guarded"
  /\ lock' = [lock EXCEPT ![arc[t]] = NoThread]
  /\ pc' = [pc EXCEPT ![t] = "leaving"]
  /\ UNCHANGED <<slotVars, created, poisoned, removable, arc, handle, op, issued>>

\* The last reference destroys the object.
DropArc(t) ==
  LET gone == {o \in {arc[t]} : StrongCount(o) = 1} IN
  /\ pc[t] = "leaving"
  /\ poisoned' = poisoned \ gone
  /\ removable' = removable \ gone
  /\ arc' = [arc EXCEPT ![t] = None]
  /\ pc' = [pc EXCEPT ![t] = "idle"]
  /\ handle' = [handle EXCEPT ![t] = NoHandle]
  /\ op' = [op EXCEPT ![t] = "with"]
  /\ UNCHANGED <<slotVars, created, lock, issued>>

\* emergency_destroy: never touches the object's lock, so it also takes a
\* poisoned object; refused while any call owns the Arc.  The object's Drop
\* runs after the registry's lock is released.
EmergencyAllowed(h) == StrongCount(object[h[1]]) = 1

EmergencyDestroy(t, h) ==
  /\ pc[t] = "idle"
  /\ ValidateHandle(h)
  /\ EmergencyAllowed(h)
  /\ Recycle(h[1])
  /\ arc' = [arc EXCEPT ![t] = object[h[1]]]
  /\ handle' = [handle EXCEPT ![t] = h]
  /\ op' = [op EXCEPT ![t] = "destroy"]
  /\ pc' = [pc EXCEPT ![t] = "leaving"]
  /\ UNCHANGED <<len, objectVars, issued>>

RegistryInit ==
  /\ hosts \in BOOLEAN
  /\ len = 0
  /\ generation = [s \in Slots |-> 1]
  /\ object = [s \in Slots |-> None]
  /\ nextFree = [s \in Slots |-> None]
  /\ exhausted = {}
  /\ freeHead = None
  /\ resident = 0
  /\ exhaustedSlots = 0
  /\ created = 0
  /\ lock = [o \in Objects |-> NoThread]
  /\ poisoned = {}
  /\ removable = {}
  /\ pc = [t \in Threads |-> "idle"]
  /\ arc = [t \in Threads |-> None]
  /\ handle = [t \in Threads |-> NoHandle]
  /\ op = [t \in Threads |-> "with"]
  /\ issued = {}

\* A client may use any handle it was ever given, live or stale.
Given == {i[1] : i \in issued}

Call(t) ==
  \/ \E a \in Admissions : Insert(t, a)
  \/ \E h \in Given, o \in {"with", "remove"} : Resolve(t, h, o)
  \/ \E h \in Given : EmergencyDestroy(t, h)

Step(t) == TryLock(t) \/ Operate(t) \/ Remove(t) \/ DropGuard(t) \/ DropArc(t)

RegistryNext == UNCHANGED hosts /\ \E t \in Threads : Call(t) \/ Step(t)

RegistrySpec == RegistryInit /\ [][RegistryNext]_registryVars

-----------------------------------------------------------------------------
Free == {s \in 1 .. len : object[s] = None /\ s \notin exhausted}

RegistryTypeOK ==
  /\ hosts \in BOOLEAN
  /\ len \in 0 .. MaxSlots
  /\ generation \in [Slots -> 1 .. MaxGeneration]
  /\ object \in [Slots -> Objects \cup {None}]
  /\ nextFree \in [Slots -> Slots \cup {None}]
  /\ exhausted \subseteq Slots
  /\ freeHead \in Slots \cup {None}
  /\ resident \in 0 .. MaxSlots
  /\ exhaustedSlots \in 0 .. MaxSlots
  /\ created \in 0 .. MaxObjects
  /\ lock \in [Objects -> Threads \cup {NoThread}]
  /\ poisoned \subseteq Objects /\ removable \subseteq Objects
  /\ pc \in [Threads -> {"idle", "resolved", "with", "remove", "guarded", "leaving"}]
  /\ arc \in [Threads -> Objects \cup {None}]
  /\ handle \in [Threads -> Handles]
  /\ op \in [Threads -> {"with", "remove", "destroy"}]
  /\ issued \subseteq (Handles \X Objects)

\* A call works on the object its handle was issued for, and that object stays
\* registered under that handle until the call lets go of its lock: neither
\* remove nor emergency_destroy takes an object from under a call (the strong
\* counts in v3_registry.rs remove and emergency_destroy).
InUseIsRegistered ==
  \A t \in Threads : pc[t] \in {"resolved", "with", "remove"} =>
    /\ object[handle[t][1]] = arc[t]
    /\ generation[handle[t][1]] = handle[t][2]
    /\ <<handle[t], arc[t]>> \in issued

\* One call at a time mutates an object, and never one a panic has poisoned
\* (with_endpoint / with_host: try_lock).
ExclusiveAndSound ==
  \A t \in Threads : pc[t] \in {"with", "remove"} =>
    /\ lock[arc[t]] = t
    /\ arc[t] \notin poisoned
    /\ \A u \in Threads \ {t} : pc[u] \in {"with", "remove"} => arc[u] # arc[t]

\* A lock is held only by a call that will drop its guard: nothing, not even a
\* panic, leaves an object locked behind it (and so InUse for good).
LockHasOwner ==
  \A o \in Objects : lock[o] # NoThread =>
    arc[lock[o]] = o /\ pc[lock[o]] \in {"with", "remove", "guarded"}

\* The free list, followed from free_head, visits exactly the empty slots whose
\* generation is not exhausted, each once; the counters are exact (insert and
\* recycle; their debug_asserts).
AccountsExact ==
  /\ resident = Cardinality({s \in Slots : object[s] # None})
  /\ exhaustedSlots = Cardinality(exhausted)
  /\ freeHead # None => freeHead \in Free
  /\ \A s \in Free : nextFree[s] # None => nextFree[s] \in Free /\ nextFree[s] # freeHead
  /\ \A r, s \in Free : nextFree[r] = nextFree[s] /\ nextFree[r] # None => r = s
  /\ \A X \in SUBSET Free :
       (freeHead # None => freeHead \in X) /\ (\A s \in X : nextFree[s] # None => nextFree[s] \in X)
         => X = Free

\* A host is refused only when no slot can be had: an admitted insert finds one
\* (create's reusable_capacity against its free list and its growth).
AdmissionFindsSlot ==
  \A a \in Admissions \ {"recovery"} : Admits(a) => freeHead # None \/ len < MaxSlots

\* What every step of any thread keeps.
RegistryInv ==
  /\ RegistryTypeOK
  /\ InUseIsRegistered
  /\ ExclusiveAndSound
  /\ LockHasOwner
  /\ AccountsExact
  /\ AdmissionFindsSlot

\* A handle names one object for good: it is never issued a second time, for
\* another object, however often its slot is reused (recycle's generation).
HandleNamesOne == \A i, j \in issued : (i[1] = j[1] <=> i[2] = j[2])

\* A fresh admission leaves a slot that can really be had, from the free list or
\* by growing, for a replacement of every resident endpoint, its own included:
\* what the comment in can_admit_fresh promises.
FreshLeavesHeadroom ==
  [][\A t \in Threads : Insert(t, "fresh") =>
       Cardinality(Free') + (MaxSlots - len') >= resident']_registryVars

\* No call ever waits for another, whatever panicked or was removed meanwhile:
\* one that is under way can always take its next step, so it returns.
NeverWaits == \A t \in Threads : pc[t] # "idle" => ENABLED Step(t)

=============================================================================
