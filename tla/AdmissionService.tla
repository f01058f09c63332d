-------------------------- MODULE AdmissionService --------------------------
(***************************************************************************)
(* The service of host/service.ts in one process: what a strict start-up   *)
(* acquires and gives back, and the order of disposal, while the runtime   *)
(* starts, ends and rolls back runs through the registered policy.         *)
(*                                                                         *)
(* A step of a service is what runs between two of its awaits; its stage   *)
(* names the await it is at.  A service is one call of apply(): a plugin   *)
(* may be loaded again, before the last instance has gone too.  The guard  *)
(* and the ledger are reduced to who owns them (see ProcessGuard and       *)
(* AdmissionAuthority for how).                                            *)
(***************************************************************************)
EXTENDS FiniteSets

CONSTANTS Services, NoService, Runs

ASSUME ServicesAssumption ==
  NoService \notin Services /\ {"undefined", "null"} \cap Services = {}

VARIABLES
  stage,    \* service -> the await it is at
  ledger,   \* service -> its RootLedgerStore
  errors,   \* service -> steps of its that failed
  owner,    \* the service whose guard holds the ownership path
  policy,   \* SubagentRuntime.admissionPolicy: undefined, a service's, or null
  run,      \* run -> where it is
  permit    \* run -> the service whose permit it asks for or holds

vars == <<stage, ledger, errors, owner, policy, run, permit>>
runtime == <<run, permit>>

Starting == {"guarding", "asserting", "opening", "listing", "walking", "reading"}
Cleaning == {"cleanup-close", "cleanup-release"}
Disposing == {"draining", "closing", "releasing"}
Finished == {"unavailable", "disposed"}
Stages == {"off", "audit", "strict"} \cup Starting \cup Cleaning \cup Disposing \cup Finished
Steps == {"assertHeld", "close", "release"}

Init ==
  /\ stage = [s \in Services |-> "off"]
  /\ ledger = [s \in Services |-> "none"]
  /\ errors = [s \in Services |-> {}]
  /\ owner = NoService /\ policy = "undefined"
  /\ run = [r \in Runs |-> "idle"] /\ permit = [r \in Runs |-> NoService]

At(s, here, there) == stage[s] = here /\ stage' = [stage EXCEPT ![s] = there]
Failed(s, step) == errors' = [errors EXCEPT ![s] = @ \cup {step}]

(* sessions.list() shows a session of origin subagent.                     *)
LiveSubagents == {r \in Runs : run[r] \in {"live", "stuck"}}

-----------------------------------------------------------------------------
(* createSubagentAdmissionService                                          *)

(* The configured mode and selectAdmissionMode() decide before any         *)
(* resource is acquired.                                                   *)
Preflight(s) ==
  /\ At(s, "off", "guarding") \/ At(s, "off", "audit") \/ At(s, "off", "unavailable")
  /\ UNCHANGED <<ledger, errors, owner, policy, runtime>>

(* One owner of the path, be it of the same process.                       *)
AcquireGuard(s) ==
  /\ \/ owner = NoService /\ At(s, "guarding", "asserting") /\ owner' = s
     \/ At(s, "guarding", "unavailable") /\ UNCHANGED owner
  /\ UNCHANGED <<ledger, errors, policy, runtime>>

(* The guard is not released when it cannot be asserted.                   *)
AssertHeld(s) ==
  /\ \/ At(s, "asserting", "opening") /\ UNCHANGED errors
     \/ At(s, "asserting", "unavailable") /\ Failed(s, "assertHeld")
  /\ UNCHANGED <<ledger, owner, policy, runtime>>

OpenLedger(s) ==
  /\ \/ At(s, "opening", "listing") /\ ledger' = [ledger EXCEPT ![s] = "open"]
     \/ At(s, "opening", "cleanup-release") /\ UNCHANGED ledger
  /\ UNCHANGED <<errors, owner, policy, runtime>>

\* Mutant: only the guard is given back.
CleanUpGuardOnly(s, here) == At(s, here, "cleanup-release") /\ UNCHANGED ledger

(* cleanupStrictResources(): close() shuts the store before it waits.      *)
CleanUp(s, here) ==
  At(s, here, "cleanup-close") /\ ledger' = [ledger EXCEPT ![s] = "closing"]

ListSessions(s) ==
  /\ \/ LiveSubagents = {} /\ At(s, "listing", "walking") /\ UNCHANGED ledger
     \/ CleanUp(s, "listing")
  /\ UNCHANGED <<errors, owner, policy, runtime>>

WalkHeaders(s) ==
  /\ \/ At(s, "walking", "reading") /\ UNCHANGED ledger
     \/ CleanUp(s, "walking")
  /\ UNCHANGED <<errors, owner, policy, runtime>>

\* Mutant: the sessions listed at the start of the bootstrap are trusted.
BootstrapQuietTrusted == TRUE

BootstrapQuiet == LiveSubagents = {}

(* The rows are read; then, without an await, no subagent is found live    *)
(* and the policy is registered - unless one is, or was, in this process.  *)
ReadRowsAndRegister(s) ==
  /\ \/ /\ BootstrapQuiet /\ policy = "undefined"
        /\ At(s, "reading", "strict") /\ policy' = s /\ UNCHANGED ledger
     \/ ~(BootstrapQuiet /\ policy = "undefined")
        /\ CleanUp(s, "reading") /\ UNCHANGED policy
  /\ UNCHANGED <<errors, owner, runtime>>

ReadRowsFails(s) ==
  CleanUp(s, "reading") /\ UNCHANGED <<errors, owner, policy, runtime>>

\* Mutant: a ledger that cannot be closed ends what it is part of.
LedgerClosedOrStuck(s, here, there) ==
  /\ "close" \notin errors[s]
  /\ \/ At(s, here, there) /\ ledger' = [ledger EXCEPT ![s] = "closed"] /\ UNCHANGED errors
     \/ stage[s] = here /\ Failed(s, "close") /\ UNCHANGED <<stage, ledger>>
  /\ UNCHANGED <<owner, policy, runtime>>

(* The ledger is closed, well or badly.                                    *)
LedgerClosed(s, here, there) ==
  /\ At(s, here, there)
  /\ ledger' = [ledger EXCEPT ![s] = "closed"]
  /\ UNCHANGED errors \/ Failed(s, "close")
  /\ UNCHANGED <<owner, policy, runtime>>

(* A release that fails may have moved the directory away or not.          *)
GuardReleased(s, here, there) ==
  /\ At(s, here, there)
  /\ \/ owner' = NoService /\ UNCHANGED errors
     \/ owner' \in {owner, NoService} /\ Failed(s, "release")
  /\ UNCHANGED <<ledger, policy, runtime>>

-----------------------------------------------------------------------------
(* dispose(), which the loader calls when apply() has resolved.            *)

\* Mutant: the policy is forgotten.
DisposeForgetting(s) ==
  /\ \/ At(s, "strict", "draining") /\ policy' = "undefined"
     \/ stage[s] \in {"audit", "unavailable"} /\ At(s, stage[s], "disposed")
        /\ UNCHANGED policy
  /\ UNCHANGED <<ledger, errors, owner, runtime>>

(* Admission closes and the policy becomes a tombstone before any await.   *)
Dispose(s) ==
  /\ \/ At(s, "strict", "draining") /\ policy' = "null"
     \/ stage[s] \in {"audit", "unavailable"} /\ At(s, stage[s], "disposed")
        /\ UNCHANGED policy
  /\ UNCHANGED <<ledger, errors, owner, runtime>>

\* Mutant: an acquisition under way is not waited for.
DrainedLeases(s) ==
  \A r \in Runs : permit[r] = s => run[r] \in {"queued", "admitting"}

Drained(s) == \A r \in Runs : permit[r] # s

AuthorityDrained(s) ==
  /\ Drained(s)
  /\ At(s, "draining", "closing") /\ ledger' = [ledger EXCEPT ![s] = "closing"]
  /\ UNCHANGED <<errors, owner, policy, runtime>>

\* Mutant: the guard goes before the ledger.
CloseGuardFirst(s) == GuardReleased(s, "closing", "releasing")

CloseLedger(s) == LedgerClosed(s, "closing", "releasing")
ReleaseGuard(s) == GuardReleased(s, "releasing", "disposed")

ServiceStep(s) ==
  \/ AcquireGuard(s) \/ AssertHeld(s) \/ OpenLedger(s) \/ ListSessions(s)
  \/ WalkHeaders(s) \/ ReadRowsAndRegister(s) \/ ReadRowsFails(s)
  \/ LedgerClosed(s, "cleanup-close", "cleanup-release")
  \/ GuardReleased(s, "cleanup-release", "unavailable")
  \/ AuthorityDrained(s) \/ CloseLedger(s) \/ ReleaseGuard(s)

-----------------------------------------------------------------------------
(* The runs of the runtime, as the seam patch treats them.                 *)

service == <<stage, ledger, errors, owner, policy>>
Goes(r, here, there) == run[r] = here /\ run' = [run EXCEPT ![r] = there]

(* acquireAdmission() captures the policy; a tombstone denies.             *)
StartRun(r) ==
  /\ \/ policy = "undefined" /\ Goes(r, "idle", "preparing") /\ UNCHANGED permit
     \/ /\ policy \in Services
        /\ Goes(r, "idle", "queued") /\ permit' = [permit EXCEPT ![r] = policy]
  /\ UNCHANGED service

GiveUp(r) == permit' = [permit EXCEPT ![r] = NoService]

(* The authority's section: open, or closed since.                         *)
EnterSection(r) ==
  /\ run[r] = "queued"
  /\ IF stage[permit[r]] = "strict"
     THEN Goes(r, "queued", "admitting") /\ UNCHANGED permit
     ELSE Goes(r, "queued", "idle") /\ GiveUp(r)
  /\ UNCHANGED service

(* A row of an open ledger, under a guard that is held; or a denial.       *)
Admit(r) ==
  /\ \/ /\ Goes(r, "admitting", "preparing") /\ UNCHANGED permit
        /\ ledger[permit[r]] = "open" /\ owner = permit[r]
     \/ Goes(r, "admitting", "idle") /\ GiveUp(r)
  /\ UNCHANGED service

(* What a run ends with: its permit goes through the section, or there is  *)
(* none.                                                                   *)
EndFrom(r, here) == Goes(r, here, IF permit[r] = NoService THEN "idle" ELSE "leaving")

(* The provider publishes the child, or fails.                             *)
Publish(r) ==
  /\ Goes(r, "preparing", "live") \/ EndFrom(r, "preparing")
  /\ UNCHANGED <<permit, service>>

(* A disposal that fails keeps the permit, for nothing proves quiescence.  *)
DisposeRun(r) ==
  /\ EndFrom(r, "live") \/ Goes(r, "live", "stuck")
  /\ UNCHANGED <<permit, service>>

ReleasePermit(r) == Goes(r, "leaving", "idle") /\ GiveUp(r) /\ UNCHANGED service

RunStep(r) ==
  EnterSection(r) \/ Admit(r) \/ Publish(r) \/ DisposeRun(r) \/ ReleasePermit(r)

-----------------------------------------------------------------------------
Next ==
  \/ \E s \in Services : Preflight(s) \/ Dispose(s) \/ ServiceStep(s)
  \/ \E r \in Runs : StartRun(r) \/ RunStep(r)

Spec == Init /\ [][Next]_vars

(* Guard, storage and sessions answer, well or badly; the runtime brings   *)
(* each run on.  Nothing has to be started or disposed of.                 *)
FairSpec ==
  Spec /\ (\A s \in Services : WF_vars(ServiceStep(s))) /\ \A r \in Runs : WF_vars(RunStep(r))

-----------------------------------------------------------------------------
Phases == {"idle", "queued", "admitting", "preparing", "live", "stuck", "leaving"}

(* The shape of the state.                                                 *)
TypeOK ==
  /\ stage \in [Services -> Stages]
  /\ ledger \in [Services -> {"none", "open", "closing", "closed"}]
  /\ errors \in [Services -> SUBSET Steps]
  /\ owner \in Services \cup {NoService}
  /\ policy \in Services \cup {"undefined", "null"}
  /\ run \in [Runs -> Phases] /\ permit \in [Runs -> Services \cup {NoService}]
  /\ \A r \in Runs : run[r] \in {"queued", "admitting", "leaving"} => permit[r] # NoService

(* Ownership outlives the ledger: whichever stage failed, and whatever     *)
(* another instance does meanwhile, a ledger that is open or being closed  *)
(* belongs to the owner of the path (service.ts:182-295, 913-919).         *)
OwnershipCoversLedger ==
  \A s \in Services : ledger[s] \in {"open", "closing"} => owner = s

(* The ledger outlives the admissions: while a run asks for a permit or    *)
(* holds one, the service that issues it keeps its ledger open and the     *)
(* path its own (service.ts:396-428).                                      *)
ResourcesOutlivePermits ==
  \A r \in Runs : permit[r] # NoService =>
    ledger[permit[r]] = "open" /\ owner = permit[r]

(* A service that is gone left the path to others, or a step on the way    *)
(* failed; and no ledger is left open (service.ts:182-295, 913-919).       *)
NothingLeftBehind ==
  \A s \in Services : stage[s] \in Finished =>
    /\ ledger[s] \in {"none", "closed"}
    /\ owner = s => errors[s] \cap {"assertHeld", "release"} # {}

(* The policy is registered in no state that shows a live subagent without *)
(* a permit, although start-up awaits between its checks (service.ts:279). *)
RegistersOnlyWhenQuiet ==
  [][\A s \in Services : policy' = s /\ policy # s =>
       \A r \in Runs : permit[r] = NoService => run[r] \notin {"live", "stuck"}]_vars

(* Once a policy was registered no run starts without a permit in this     *)
(* process ever again, for its unloading leaves a tombstone.               *)
NoUncoveredStart ==
  [][policy # "undefined" =>
       /\ policy' # "undefined"
       /\ \A r \in Runs :
            run[r] = "idle" /\ run'[r] # "idle" => permit'[r] # NoService]_vars

(* What the architecture says of every strict state: an active activation  *)
(* owns a permit (docs/architecture.md:310).                               *)
EveryActivationOwnsPermit ==
  \A s \in Services, r \in Runs :
    stage[s] = "strict" /\ run[r] = "live" => permit[r] # NoService

(* A start-up ends, a failed one with its resources given back.            *)
StartUpEnds ==
  \A s \in Services : stage[s] \in Starting \cup Cleaning ~> stage[s] \in {"strict", "unavailable"}

(* Disposal completes although steps fail, unless the disposal of a run    *)
(* that holds a permit did (service.ts:413-428).                           *)
DisposalCompletes ==
  \A s \in Services :
    stage[s] \in Disposing ~>
      stage[s] = "disposed" \/ \E r \in Runs : run[r] = "stuck" /\ permit[r] = s
=============================================================================
