------------------------- MODULE AdmissionAuthority -------------------------
(***************************************************************************)
(* The Strict-mode admission authority of host/authority.ts with the lease *)
(* registry (host/leases.ts) and the durable root ledger (host/ledger.ts)  *)
(* it drives, in one process that may crash and be started again.          *)
(*                                                                         *)
(* JavaScript runs one thread: a step is what runs between two awaits.     *)
(* Acquisitions and removals take their turn in a promise-chained section; *)
(* `serial' is that chain, its head the operation that is running, `stage' *)
(* the await the head is suspended at.  Everything else - a new call, an   *)
(* abort, a child binding, a release, closing, draining, a crash - may run *)
(* at each of those awaits.                                                *)
(***************************************************************************)
EXTENDS Naturals, Sequences, FiniteSets

CONSTANTS
  Roots, Parents, Children,
  RootOf,         \* parent -> the root its lineage resolves to
  Calls,          \* the acquire() calls of one process life
  Operation,      \* call -> its operation
  ParentOf,       \* call -> request.parentSessionId
  ChildOf,        \* call -> request.childSessionId, or NoChild
  RunIds,         \* call -> child ids the runtime may bind its permit to
  NoChild, Nobody,
  Limits,         \* AdmissionLimits
  SeedLedgers,    \* ledgers an earlier process may have left
  MaxCrashes      \* bound: restarts

NewOperations == {"new-one-shot", "new-continuable"}
Operations == NewOperations \cup {"cold-resume"}

LedgerRow == [admittedTotal: Nat, admittedChildrenByParent: [Parents -> Nat]]

(* assertLimits: positive, and no limit beyond one that contains it.       *)
LimitsCoherent ==
  /\ Limits \in [perRootActive: Nat \ {0}, globalActive: Nat \ {0},
                 perRootAdmittedTotal: Nat \ {0}, perParentChildren: Nat \ {0}]
  /\ Limits.perRootActive <= Limits.globalActive
  /\ Limits.perRootActive <= Limits.perRootAdmittedTotal
  /\ Limits.perParentChildren <= Limits.perRootAdmittedTotal
ASSUME LimitsAssumption == LimitsCoherent
ASSUME CallsAssumption ==
  /\ IsFiniteSet(Calls)
  /\ RootOf \in [Parents -> Roots]
  /\ Operation \in [Calls -> Operations]
  /\ ParentOf \in [Calls -> Parents]
  /\ ChildOf \in [Calls -> Children \cup {NoChild}]
  /\ RunIds \in [Calls -> SUBSET Children]
  /\ \A call \in Calls : Operation[call] = "cold-resume" => ChildOf[call] # NoChild
ASSUME NullAssumption == NoChild \notin Children /\ Nobody \notin Calls \cup Parents
ASSUME BoundAssumption == SeedLedgers \subseteq [Roots -> LedgerRow] /\ MaxCrashes \in Nat

LimitCodes == {"ROOT_TOTAL_LIMIT", "PARENT_CHILD_LIMIT", "ROOT_ACTIVE_LIMIT",
               "GLOBAL_ACTIVE_LIMIT"}
Codes == LimitCodes \cup {"ADMISSION_CLOSED", "ADMISSION_UNAVAILABLE",
          "ADMISSION_BINDING_CONFLICT", "ADMISSION_STATE_IO"}

VARIABLES
  status,          \* call -> idle, queued, granted, aborted or its denial code
  signal,          \* call -> whether its AbortSignal has fired
  releaseStarted,  \* call -> AdmissionPermit.releaseStarted of its permit
  serial,          \* SerialSection's chain of operations, the running one first
  stage,           \* the await the running operation is at
  result,          \* what the running operation ends with
  admissionClosed, \* AdmissionAuthority.admissionClosed (= registry draining)
  drain,           \* how far drain() has come
  barrier,         \* operations drain()'s serial.idle() still waits for
  leases,          \* ActiveLeaseRegistry.leases
  activeByRoot,    \* ActiveLeaseRegistry.activeByRoot (an absent key reads as 0)
  childClaims,     \* ActiveLeaseRegistry.childClaims, by the claiming call
  permitCounter,   \* ActiveLeaseRegistry.permitCounter
  lineage,         \* RootResolver.bound: child -> the parent it was bound under
  ledger,          \* the durable rows
  charged,         \* history: calls of this process life the ledger charged
  issuedBefore,    \* history: permits issued by earlier process lives
  crashes          \* restarts so far

callVars == <<status, signal, releaseStarted>>
sectionVars == <<serial, stage, result>>
drainVars == <<admissionClosed, drain, barrier>>
registryVars == <<leases, activeByRoot, childClaims, permitCounter>>
durableVars == <<ledger, charged, issuedBefore, crashes>>
vars == <<callVars, sectionVars, drainVars, registryVars, lineage, durableVars>>

Jobs == [kind: {"acquire", "release"}, call: Calls]
Lease == [permitId: Nat, call: Calls, childSessionId: Children \cup {NoChild},
          phase: {"active", "draining"}]
Stages == {"start", "guard", "resolve", "reserve", "put", "committed",
           "finished", "settled"}
Outcomes == {"none", "permit", "abort"} \cup Codes

RootOfCall(call) == RootOf[ParentOf[call]]
IsNew(call) == Operation[call] \in NewOperations
LeasesOf(root) == {l \in leases : RootOfCall(l.call) = root}
LeaseOf(call) == CHOOSE l \in leases : l.call = call

(* Constant functions a fresh process starts from.                         *)
OnCalls(value) == [c \in Calls |-> value]
NoOwner == [c \in Children |-> Nobody]

(* A process starts open and empty on whatever ledger it finds.            *)
FreshProcess ==
  /\ status = OnCalls("idle") /\ signal = OnCalls(FALSE)
  /\ releaseStarted = OnCalls(FALSE)
  /\ serial = <<>> /\ stage = "start" /\ result = "none"
  /\ admissionClosed = FALSE /\ drain = "none" /\ barrier = 0
  /\ leases = {} /\ activeByRoot = [r \in Roots |-> 0]
  /\ childClaims = NoOwner /\ permitCounter = 0
  /\ lineage = NoOwner /\ charged = {}

Init == FreshProcess /\ ledger \in SeedLedgers /\ issuedBefore = 0 /\ crashes = 0

-----------------------------------------------------------------------------
(* Calls into the authority.                                               *)

(* acquire(): a closed authority denies at once; an open one appends to    *)
(* the serial section in the same step.                                    *)
AcquireClosed(call) ==
  /\ status[call] = "idle" /\ admissionClosed
  /\ status' = [status EXCEPT ![call] = "ADMISSION_CLOSED"]
  /\ UNCHANGED <<signal, releaseStarted, sectionVars, drainVars, registryVars,
                 lineage, durableVars>>

Acquire(call) ==
  /\ status[call] = "idle" /\ ~admissionClosed
  /\ status' = [status EXCEPT ![call] = "queued"]
  /\ serial' = Append(serial, [kind |-> "acquire", call |-> call])
  /\ UNCHANGED <<signal, releaseStarted, stage, result, drainVars, registryVars,
                 lineage, durableVars>>

(* The caller's AbortSignal fires while its acquire() is pending.          *)
Abort(call) ==
  /\ status[call] = "queued" /\ ~signal[call]
  /\ signal' = [signal EXCEPT ![call] = TRUE]
  /\ UNCHANGED <<status, releaseStarted, sectionVars, drainVars, registryVars,
                 lineage, durableVars>>

(* inspectBinding() answering 'available'.  'duplicate' changes nothing,   *)
(* and neither do the conflicts: another expected child, a claim by        *)
(* another permit, another bound child.                                    *)
Bindable(call, child) ==
  /\ ChildOf[call] \in {NoChild, child}
  /\ childClaims[child] \in {Nobody, call}
  /\ LeaseOf(call).childSessionId = NoChild

(* AdmissionPermit.bindChild(): synchronous and outside the section.  The  *)
(* resolver keeps every binding it accepted and rejects another parent.    *)
BindChild(call, child) ==
  /\ status[call] = "granted" /\ ~releaseStarted[call]
  /\ Bindable(call, child)
  /\ lineage[child] \in {Nobody, ParentOf[call]}
  /\ lineage' = [lineage EXCEPT ![child] = ParentOf[call]]
  /\ leases' = {IF l.call = call THEN [l EXCEPT !.childSessionId = child] ELSE l
                  : l \in leases}
  /\ childClaims' = [childClaims EXCEPT ![child] = call]
  /\ UNCHANGED <<callVars, sectionVars, drainVars, activeByRoot, permitCounter,
                 durableVars>>

(* AdmissionPermit.release(): the first one joins the section; a repeat    *)
(* waits for it and only records a duplicate.                              *)
Release(call) ==
  /\ status[call] = "granted" /\ ~releaseStarted[call]
  /\ releaseStarted' = [releaseStarted EXCEPT ![call] = TRUE]
  /\ serial' = Append(serial, [kind |-> "release", call |-> call])
  /\ UNCHANGED <<status, signal, stage, result, drainVars, registryVars,
                 lineage, durableVars>>

Draining(ls) == {[l EXCEPT !.phase = "draining"] : l \in ls}

CloseAdmission ==
  /\ ~admissionClosed
  /\ admissionClosed' = TRUE
  /\ leases' = Draining(leases)
  /\ UNCHANGED <<callVars, sectionVars, drain, barrier, activeByRoot, childClaims,
                 permitCounter, lineage, durableVars>>

\* Mutant: drain() does not wait for the section to be idle.
ChainTailIgnored(chain) == 0

(* serial.idle() is the chain's tail at the time of the call: what is      *)
(* appended later is not waited for.                                       *)
ChainTail(chain) == Len(chain)

Drain ==
  /\ drain = "none"
  /\ drain' = "idling"
  /\ barrier' = ChainTail(serial)
  /\ admissionClosed' = TRUE
  /\ leases' = Draining(leases)
  /\ UNCHANGED <<callVars, sectionVars, activeByRoot, childClaims, permitCounter,
                 lineage, durableVars>>

(* whenEmpty(): at once when no lease is left, else woken by remove().     *)
SectionIdle ==
  /\ drain = "idling" /\ barrier = 0
  /\ drain' = IF leases = {} THEN "drained" ELSE "emptying"
  /\ UNCHANGED <<callVars, sectionVars, admissionClosed, barrier, registryVars,
                 lineage, durableVars>>

-----------------------------------------------------------------------------
(* The running operation of the section.                                   *)

At(kind, call, where) ==
  serial # <<>> /\ Head(serial) = [kind |-> kind, call |-> call] /\ stage = where

Goto(where) == stage' = where /\ UNCHANGED result
Finish(outcome) == stage' = "finished" /\ result' = outcome

(* The steps below leave the queue, the calls and the ledger alone unless  *)
(* they say otherwise.                                                     *)
Elsewhere == UNCHANGED <<callVars, serial, drain, barrier, lineage, issuedBefore,
                         crashes>>
NoEffect == UNCHANGED <<admissionClosed, registryVars, ledger, charged>>

(* The closure's first step: an abort, then assertOpen - again, for the    *)
(* call may have queued since acquire() looked - then the await of         *)
(* guard.assertHeld().                                                     *)
EntryVerdict(call) ==
  IF signal[call] THEN "abort"
  ELSE IF admissionClosed THEN "ADMISSION_CLOSED"
  ELSE "accepted"

EnterSection(call) ==
  /\ At("acquire", call, "start")
  /\ IF EntryVerdict(call) = "accepted" THEN Goto("guard")
     ELSE Finish(EntryVerdict(call))
  /\ Elsewhere /\ NoEffect

GuardAnswers(call) ==
  /\ At("acquire", call, "guard")
  /\ \/ Finish("ADMISSION_UNAVAILABLE")
     \/ signal[call] /\ Finish("abort")
     \/ ~signal[call] /\ Goto("resolve")
  /\ Elsewhere /\ NoEffect

(* assertChildAvailable(): the requested child is claimed by no lease.     *)
ChildAvailable(call) ==
  ChildOf[call] # NoChild => childClaims[ChildOf[call]] = Nobody

(* roots.resolve() failing, or answering an aborted call; and the clock    *)
(* failing after it answered.                                              *)
ResolveFails(call) ==
  /\ At("acquire", call, "resolve")
  /\ \/ Finish("ADMISSION_UNAVAILABLE")
     \/ signal[call] /\ Finish("abort")
     \/ ~signal[call] /\ ChildAvailable(call) /\ Finish("ADMISSION_STATE_IO")
  /\ Elsewhere /\ NoEffect

ResolveMeetsClaim(call) ==
  /\ At("acquire", call, "resolve") /\ ~signal[call]
  /\ ~ChildAvailable(call)
  /\ Finish("ADMISSION_BINDING_CONFLICT")
  /\ Elsewhere /\ NoEffect

ResolveAnswersNew(call) ==
  /\ At("acquire", call, "resolve") /\ ~signal[call]
  /\ IsNew(call) /\ ChildAvailable(call)
  /\ Goto("reserve")
  /\ Elsewhere /\ NoEffect

\* Mutant: the global check counts the leases of the root alone.
ActiveCapacityByRoot(root) ==
  IF activeByRoot[root] >= Limits.perRootActive THEN "ROOT_ACTIVE_LIMIT"
  ELSE IF activeByRoot[root] >= Limits.globalActive THEN "GLOBAL_ACTIVE_LIMIT"
  ELSE "accepted"

(* assertRootThenGlobalCapacity()                                          *)
ActiveCapacity(root) ==
  IF activeByRoot[root] >= Limits.perRootActive THEN "ROOT_ACTIVE_LIMIT"
  ELSE IF Cardinality(leases) >= Limits.globalActive THEN "GLOBAL_ACTIVE_LIMIT"
  ELSE "accepted"

(* leases.insert(): a lease in the phase of the registry; a requested      *)
(* child is claimed, and a cold resume is bound to it.                     *)
Insert(call) ==
  /\ leases' = leases \cup
       {[permitId |-> permitCounter, call |-> call,
         childSessionId |-> IF IsNew(call) THEN NoChild ELSE ChildOf[call],
         phase |-> IF admissionClosed THEN "draining" ELSE "active"]}
  /\ activeByRoot' = [activeByRoot EXCEPT ![RootOfCall(call)] = @ + 1]
  /\ childClaims' = IF ChildOf[call] = NoChild THEN childClaims
                    ELSE [childClaims EXCEPT ![ChildOf[call]] = call]
  /\ permitCounter' = permitCounter + 1

(* A cold resume is decided and inserted in the step that learns its root. *)
ResolveAnswersResume(call) ==
  /\ At("acquire", call, "resolve") /\ ~signal[call]
  /\ ~IsNew(call) /\ ChildAvailable(call)
  /\ \/ /\ ActiveCapacity(RootOfCall(call)) = "accepted"
        /\ Insert(call) /\ Finish("permit")
     \/ /\ ActiveCapacity(RootOfCall(call)) # "accepted"
        /\ Finish(ActiveCapacity(RootOfCall(call))) /\ UNCHANGED registryVars
  /\ Elsewhere /\ UNCHANGED <<admissionClosed, ledger, charged>>

\* Mutant: active capacity is checked before the cumulative limits.
ReserveVerdictActiveFirst(call) ==
  LET root == RootOfCall(call)
      row == ledger[root]
  IN  IF ActiveCapacity(root) # "accepted" THEN ActiveCapacity(root)
      ELSE IF row.admittedTotal >= Limits.perRootAdmittedTotal
        THEN "ROOT_TOTAL_LIMIT"
      ELSE IF row.admittedChildrenByParent[ParentOf[call]] >= Limits.perParentChildren
        THEN "PARENT_CHILD_LIMIT"
      ELSE "accepted"

(* reserveNewLocked() from the row it has read to its write.               *)
ReserveVerdict(call) ==
  LET root == RootOfCall(call)
      row == ledger[root]
  IN  IF row.admittedTotal >= Limits.perRootAdmittedTotal
        THEN "ROOT_TOTAL_LIMIT"
      ELSE IF row.admittedChildrenByParent[ParentOf[call]] >= Limits.perParentChildren
        THEN "PARENT_CHILD_LIMIT"
      ELSE ActiveCapacity(root)

(* reserveNewLocked() up to its write.  readCurrentRow() may throw, and    *)
(* then no limit has been compared yet.                                    *)
ReserveNew(call) ==
  /\ At("acquire", call, "reserve")
  /\ \/ Finish("ADMISSION_STATE_IO")
     \/ ReserveVerdict(call) = "accepted" /\ Goto("put")
     \/ ReserveVerdict(call) # "accepted" /\ Finish(ReserveVerdict(call))
  /\ Elsewhere /\ NoEffect

(* The next row: one more child of the root, and of the parent.            *)
Charge(call) ==
  /\ ledger' = [ledger EXCEPT
       ![RootOfCall(call)].admittedTotal = @ + 1,
       ![RootOfCall(call)].admittedChildrenByParent[ParentOf[call]] = @ + 1]
  /\ charged' = charged \cup {call}

PutFails(call) ==
  /\ At("acquire", call, "put")
  /\ Finish("ADMISSION_STATE_IO")
  /\ Elsewhere /\ NoEffect

(* The row becomes durable: the linearisation point of a new child.        *)
PutCommits(call) ==
  /\ At("acquire", call, "put")
  /\ Goto("committed") /\ Charge(call)
  /\ Elsewhere /\ UNCHANGED <<admissionClosed, registryVars>>

InsertCommitted(call) ==
  /\ At("acquire", call, "committed")
  /\ ChildAvailable(call)
  /\ Insert(call) /\ Finish("permit")
  /\ Elsewhere /\ UNCHANGED <<admissionClosed, ledger, charged>>

(* The insertion throws after the write: the authority closes for good.    *)
InsertConflicts(call) ==
  /\ At("acquire", call, "committed")
  /\ ~ChildAvailable(call)
  /\ admissionClosed' = TRUE
  /\ leases' = Draining(leases)
  /\ Finish("ADMISSION_STATE_IO")
  /\ Elsewhere
  /\ UNCHANGED <<activeByRoot, childClaims, permitCounter, ledger, charged>>

\* Mutant: the signal is consulted once more after the insertion.
SettlementRechecking(call) ==
  IF signal[call] \/ result = "abort" THEN "aborted"
  ELSE IF result = "permit" THEN "granted" ELSE result

(* acquire()'s continuation: a permit is handed over whether or not its    *)
(* signal fired meanwhile; an error of an aborted call is no denial.       *)
Settlement(call) ==
  IF result = "permit" THEN "granted"
  ELSE IF signal[call] \/ result = "abort" THEN "aborted"
  ELSE result

Deliver(call) ==
  /\ At("acquire", call, "finished")
  /\ status' = [status EXCEPT ![call] = Settlement(call)]
  /\ stage' = "settled"
  /\ UNCHANGED <<signal, releaseStarted, serial, result, drainVars, registryVars,
                 lineage, durableVars>>

\* Mutant: the child a permit was bound to stays claimed after its removal.
ClaimsDroppingExpected(call) ==
  [c \in Children |-> IF childClaims[c] = call /\ c = ChildOf[call] THEN Nobody
                      ELSE childClaims[c]]

ClaimsWithout(call) ==
  [c \in Children |-> IF childClaims[c] = call THEN Nobody ELSE childClaims[c]]

\* Mutant: the last removal wakes nobody.
WakingNobody(left) == drain

(* The last removal wakes whoever waits in whenEmpty().                    *)
Waking(left) == IF left = {} /\ drain = "emptying" THEN "drained" ELSE drain

(* leases.remove() in the section.                                         *)
RemoveLease(call) ==
  /\ At("release", call, "start")
  /\ leases' = leases \ {LeaseOf(call)}
  /\ activeByRoot' = [activeByRoot EXCEPT ![RootOfCall(call)] = @ - 1]
  /\ childClaims' = ClaimsWithout(call)
  /\ drain' = Waking(leases')
  /\ stage' = "settled"
  /\ UNCHANGED <<callVars, serial, result, admissionClosed, barrier, permitCounter,
                 lineage, durableVars>>

CountDown(n) == IF n > 0 THEN n - 1 ELSE 0

Pop ==
  /\ serial' = Tail(serial) /\ stage' = "start" /\ result' = "none"
  /\ barrier' = CountDown(barrier)
  /\ UNCHANGED <<callVars, admissionClosed, drain, registryVars, lineage,
                 durableVars>>

\* Mutant: a rejected operation rejects the chain's tail.
AdvancePoisoned == stage = "settled" /\ result \in {"none", "permit"} /\ Pop

(* The tail promise resolves, a rejection swallowed, and the next          *)
(* operation may start.                                                    *)
Advance == stage = "settled" /\ Pop

-----------------------------------------------------------------------------
\* Mutant: the counts were kept in memory.
RecoveredNothing == [r \in Roots |->
  [admittedTotal |-> 0, admittedChildrenByParent |-> [p \in Parents |-> 0]]]
Recovered == ledger

(* The process dies and another one starts on the ledger it left.          *)
Crash ==
  /\ crashes < MaxCrashes
  /\ crashes' = crashes + 1
  /\ issuedBefore' = issuedBefore + permitCounter + (IF stage = "committed" THEN 1 ELSE 0)
  /\ status' = OnCalls("idle") /\ signal' = OnCalls(FALSE)
  /\ releaseStarted' = OnCalls(FALSE)
  /\ serial' = <<>> /\ stage' = "start" /\ result' = "none"
  /\ admissionClosed' = FALSE /\ drain' = "none" /\ barrier' = 0
  /\ leases' = {} /\ activeByRoot' = [r \in Roots |-> 0]
  /\ childClaims' = NoOwner /\ permitCounter' = 0
  /\ lineage' = NoOwner /\ charged' = {}
  /\ ledger' = Recovered

SectionStep ==
  \/ \E call \in Calls :
       \/ EnterSection(call)         \/ GuardAnswers(call)
       \/ ResolveFails(call)         \/ ResolveMeetsClaim(call)
       \/ ResolveAnswersNew(call)    \/ ResolveAnswersResume(call)
       \/ ReserveNew(call)           \/ PutFails(call)
       \/ PutCommits(call)           \/ InsertCommitted(call)
       \/ InsertConflicts(call)      \/ Deliver(call)
       \/ RemoveLease(call)
  \/ Advance

Next ==
  \/ \E call \in Calls : \/ AcquireClosed(call) \/ Acquire(call) \/ Abort(call)
                         \/ Release(call)
  \/ \E call \in Calls : \E child \in RunIds[call] : BindChild(call, child)
  \/ CloseAdmission \/ Drain \/ SectionIdle
  \/ SectionStep
  \/ Crash

Spec == Init /\ [][Next]_vars

(* The event loop runs what is runnable, the guard, the storage and the    *)
(* session headers answer every call (well or badly), and the runtime      *)
(* releases every permit it was handed once the child is quiescent.        *)
Fairness ==
  /\ WF_vars(SectionStep)
  /\ WF_vars(SectionIdle)
  /\ \A call \in Calls : WF_vars(Release(call))

FairSpec == Spec /\ Fairness

-----------------------------------------------------------------------------
(* What must hold.                                                         *)

(* The shape of the state.                                                 *)
TypeOK ==
  /\ status \in [Calls -> {"idle", "queued", "granted", "aborted"} \cup Codes]
  /\ signal \in [Calls -> BOOLEAN]
  /\ releaseStarted \in [Calls -> BOOLEAN]
  /\ serial \in Seq(Jobs)
  /\ stage \in Stages
  /\ result \in Outcomes
  /\ admissionClosed \in BOOLEAN
  /\ drain \in {"none", "idling", "emptying", "drained"}
  /\ barrier \in Nat
  /\ leases \subseteq Lease
  /\ activeByRoot \in [Roots -> Nat]
  /\ childClaims \in [Children -> Calls \cup {Nobody}]
  /\ permitCounter \in Nat
  /\ lineage \in [Children -> Parents \cup {Nobody}]
  /\ ledger \in [Roots -> LedgerRow]
  /\ charged \subseteq Calls
  /\ issuedBefore \in Nat
  /\ crashes \in Nat

(* The active limits hold of the leases themselves, whatever was admitted, *)
(* resumed, removed or aborted during another call's awaits (the check of  *)
(* reserveNewLocked is made before the write, the insertion after it).     *)
ActiveWithinLimits ==
  /\ Cardinality(leases) <= Limits.globalActive
  /\ \A root \in Roots : Cardinality(LeasesOf(root)) <= Limits.perRootActive

(* The children a lease owns: the one it was requested for, the one bound. *)
OwnedBy(l) == {ChildOf[l.call], l.childSessionId} \ {NoChild}

(* The registry's three maps describe one set of leases: the per-root      *)
(* counts are exact, the claims are exactly the children of live leases,   *)
(* so no child is owned twice and none stays claimed by a permit that is   *)
(* gone (leases.ts:81-272), and a lease drains exactly when admission has  *)
(* closed.                                                                 *)
RegistryCoherent ==
  /\ \A root \in Roots : activeByRoot[root] = Cardinality(LeasesOf(root))
  /\ \A child \in Children, call \in Calls :
       childClaims[child] = call <=>
         \E l \in leases : l.call = call /\ child \in OwnedBy(l)
  /\ \A l \in leases : l.phase = "draining" <=> admissionClosed

(* Every lease is in the hands of a caller that can release it: its call   *)
(* was granted, or the permit is on its way to the caller.  An aborted or  *)
(* denied call leaves no lease behind to count against the limits for ever *)
(* (the tail of acquire, authority.ts:320-377).                            *)
NoOrphanLease ==
  \A l \in leases : \/ status[l.call] = "granted"
                    \/ status[l.call] = "queued" /\ At("acquire", l.call, "finished")
                         /\ result = "permit"

(* A denied or aborted acquisition charged nothing: "denial changes no     *)
(* authoritative state" (docs/architecture.md:313).                        *)
DenialChangesNothing ==
  \A call \in charged : status[call] \in {"queued", "granted"}

(* When drain() resolves the authority is quiet for good: no lease is left,*)
(* and no acquisition is in the section that could still write the ledger  *)
(* or insert one, so the service may close the ledger and give up process  *)
(* ownership (drain, authority.ts:387-394).                                *)
DrainedIsQuiet ==
  drain = "drained" =>
    /\ leases = {}
    /\ \A i \in DOMAIN serial : serial[i].kind = "release"

(* Every acquisition settles: whatever fails, aborts or closes meanwhile,  *)
(* its caller gets a permit or an error.                                   *)
CallsSettle ==
  \A call \in Calls : status[call] = "queued" ~> status[call] # "queued"

(* A drain that began completes (or the process dies): the permits that    *)
(* were live then, and those still in flight, all come back.               *)
DrainCompletes == drain \in {"idling", "emptying"} ~> drain \in {"drained", "none"}
=============================================================================
