# A verification project for dsh-subagent-admission

`dsh-subagent-admission` is a TypeScript extension that puts an admission
authority in front of a subagent runtime: before a parent session starts a
child (a one-shot run, a continuable child, or the cold resume of one) the
runtime asks for a *permit*; the authority answers from active limits (per
root, global) and cumulative limits (per root, per parent), charges new
children to a durable ledger, and gets the permit back when the child is
quiescent. This directory holds TLA+ models of that system, TLC instances and
TLAPS proofs. Paths below are relative to `src/packages/dsh-subagent-admission/src/`
unless they start with `docs/` or `patches/`.

## 1. Inventory

| Part | State it keeps | Operations | Hard behaviour |
|---|---|---|---|
| State model (`host/state-model.ts`) | lifecycle, active counters, cumulative counts, permits, id counter | new admission, cold resume, resident follow-up, bind, release, unload, restart | none: pure; redundant counters must agree |
| Authority (`host/authority.ts`) | serial section (promise tail), `admissionClosed`, memoized drain; a permit object per call | `acquire`, `bindChild`, `release`, `closeAdmission`, `drain` | four awaits inside `acquire`, aborts at each, binds outside the section, closing while calls are in flight |
| Lease registry (`host/leases.ts`) | leases, `activeByRoot`, `childClaims`, empty waiters, `permitCounter` | `insert`, `bind`, `remove`, `markDraining`, `whenEmpty` | three maps that must describe one set; a lost wake-up would hang `drain` |
| Root ledger (`host/ledger.ts`, `ledger-spec.ts`) | durable rows, own promise tail, `closed` | `reserveNew`, `read`, `close` | check, callback and write must be one section; crash around the write |
| Root resolver (`host/root-resolver.ts`) | memoized roots, child bindings | `resolve`, `bindChild` | walks headers with an await per step; cycles, missing headers |
| Process guard (`host/process-guard.ts`) | a directory and an owner file on disk | `acquire`, `assertHeld`, `release` | several processes on one file system, crashes between any two system calls |
| Service (`host/service.ts`) | mode, guard, ledger, authority, bootstrap view, disposal | create, `beginDrain`, dispose | staged acquisition with rollback, order of disposal |
| Compatibility, config (`host/compatibility.ts`, `config.ts`) | none | mode selection, validation | pure decision tables |
| Telemetry (`host/telemetry.ts`) | projection, revision, bounded history, watchers | record, snapshot, watch | long poll: change, timeout and abort race; lost updates |
| Snapshot controller (`client/controller.ts`) | generation, active request, backoff | start, stop, poll | replies of an earlier session arriving late; re-entrant listeners |
| Runtime seam (`patches/dsh-subagent-admission-seam-slim.patch`) | the registered policy, the permit of each run or activation | register, one-shot start, continuable start, cold resume, bind, disposal | a permit has to be released exactly once on every failure path |
| Evidence tooling (`scripts/*.mts`) | resources of a run (worktrees, fixtures, browsers, journals), child processes, the reports, the manifest | the evidence scripts, `collect` and `check` of the release evidence, a baseline refresh | children that speak, die or hang; cleanup on every path out; a source edited while its evidence is collected |

How they interact. The runtime seam calls `acquire` of the policy registered by
the service. `acquire` runs in the authority's serial section and there awaits
the process guard (`assertHeld`), the resolver (`resolve`) and the ledger
(`reserveNew`), which calls back into the lease registry for capacity before
its write; the lease is inserted after it. `bindChild` runs synchronously, in
whatever step of the runtime calls it, against registry and resolver; `release`
queues on the serial section. Events go to telemetry, which wakes the
controller's long poll. Disposal closes admission, drains the authority, closes
the ledger and gives up the process guard, in that order.

What makes each part correct:

- *Authority, registry, ledger*: active limits hold of the leases themselves;
  a new child is charged exactly once, on the durable write, and never
  refunded; a denied or aborted call leaves nothing behind; no lease is
  orphaned; no child has two leases; every call settles; a drain completes,
  and then nothing happens any more; a crash loses permits, not charges.
- *Process guard*: at most one process believes it owns the directory; a dead
  owner's directory is taken over only after the owner is proven dead; a
  process removes only what it wrote.
- *Resolver*: a child keeps the root and parent it was first bound with; a root
  that cannot be proven is never memoized.
- *Service*: whatever stage fails, what was acquired is released; ownership
  outlives the ledger, the ledger outlives the authority.
- *Seam*: one permit per activation, released exactly once, after quiescence.
- *Telemetry, controller*: no change is missed by a watcher that was told an
  older revision; only the newest session's replies are shown.

What makes the tooling correct: a check that passes vouches for no more than its
collection saw, nothing is rejected without a cause in the tree or in what
others did meanwhile, a crash report is written of a child that was really
killed, and whatever a script took it gives back.

## 2. Plan

In order of importance; all but the last three are built.

1. **AdmissionModel** (+ `AdmissionModelProofs`): the state model, which is the
   abstract specification of admission: one transition per admitted operation.
2. **AdmissionAuthority** (+ `AdmissionAuthorityProofs`), composed of authority,
   registry and ledger, and **AdmissionRefinement**, which shows that it implements
   AdmissionModel (proved in `AdmissionAuthorityProofs` too).
3. **ProcessGuard** (+ `ProcessGuardProofs`): several processes on one path.
4. **AdmissionService** (+ `AdmissionServiceProofs`): staged start-up with rollback
   and disposal, composed with guard, ledger, authority and runtime reduced to
   what the service sees of them; two instances in one process.
5. **SnapshotWatch** (+ `SnapshotWatchProofs`): telemetry's revision, watchers,
   timeout and abort with the client's controller.
6. **SubagentSeam** (+ `SubagentSeamProofs`): permits across one-shot starts,
   continuable starts, cold resumes, rollback and disposal.
7. **RootResolver** (+ `RootResolverProofs`): the walk with an await per header,
   concurrent with binds and the bootstrap's catalog.
8. **AdmissionShapes**, **ScriptRuns**, **ReleaseEvidence** (+
   `ReleaseEvidenceProofs`): the measured workloads, the evidence scripts as
   processes, and the collection and check over them.
9. Left: **ModeSelection**, the order of the mode decision as a pure operator.
10. Left: to AdmissionService, the audit observer's pairing of start and end, and
    telemetry's ledger cache.
11. Left: to SnapshotWatch, the bounded history and the controller's listeners.

## 3. Modules and their correspondence to the code

### AdmissionModel (`host/state-model.ts`)

`transitionModel` is a pure function from state and command to state. Every
command that changes the state is an action (`NewAdmission`, `ColdResume`,
`Bind`, `Release`, `Unload`, `Restart`); commands that are denied, and the
resident follow-up, leave the state as it is and are stuttering steps, so a
verdict is an operator (`NewAdmissionVerdict`, `ColdResumeVerdict`) and the
guard of an action is that the verdict is `accepted`. Request ids, policy epochs
and error wording are left out. `permitCounter` stands for the id suffix; it
survives `Restart`, as in the code.

### AdmissionAuthority (`host/authority.ts`, `leases.ts`, `ledger.ts`)

A step is what runs between two awaits. `serial` is the promise chain of
`SerialSection`, its head the running operation, `stage` the await it is at:

| `stage` | awaiting | leaves by |
|---|---|---|
| `start` | its turn | `EnterSection`, `RemoveLease` |
| `guard` | `guard.assertHeld()` | `GuardAnswers` |
| `resolve` | `roots.resolve()` | `ResolveFails`, `ResolveMeetsClaim`, `ResolveAnswersNew`, `ResolveAnswersResume` |
| `reserve` | the ledger's own turn | `ReserveNew`: the read, which may throw, then the limits |
| `put` | the durable write | `PutFails`, `PutCommits` |
| `committed` | the reservation's promise | `InsertCommitted`, `InsertConflicts` |
| `finished` | `acquire()`'s continuation | `Deliver` |
| `settled` | the chain's tail | `Advance` |

`Acquire`, `Abort`, `BindChild`, `Release`, `CloseAdmission`, `Drain` and `Crash`
may happen at any of those awaits. `drain()` is three stages: it takes the
chain's tail (`barrier` counts the operations before it), waits for it, then for
the registry to be empty. `Crash` replaces the process by a fresh one on the
ledger it left. `charged` and `issuedBefore` record history for the properties
and the refinement; nothing reads them.

Left out: telemetry events; the branch of `release` for a lease that is
already gone, which nothing reaches; a duplicate release, which only waits; the
ledger's own promise tail, which has one operation at a time from the section. A
row that cannot be read is `ADMISSION_STATE_IO` before any limit is compared. A
storage write that reports failure is taken to have written nothing, which is
what the storage-domain contract in `tests/ledger.contract.ts` requires of it.

### AdmissionRefinement

Maps the authority to AdmissionModel. A new child is admitted in the step that
makes its ledger row durable, a resumed one in the step that inserts its lease.
Admission counts as closed only when no acquisition that passed `assertOpen` is
left in the section: such a call still completes, and the state model admits
nothing while draining. A cold resume's child counts as bound when its permit is
handed over. `Crash` is `Restart`. A call that is denied is a stutter, whatever
it is told; `VerdictsAgree` adds that limit codes, passes and failed writes are
the model's own in that state. The model has no ledger that cannot be read, so
the property leaves that denial out.

### ProcessGuard (`host/process-guard.ts`)

A step is one file system call of one process. The file system is a map from
names (`path`, `quarantined[nonce]`, `away[nonce]`) to directories, and for each
directory its `owner.json` and temporary files; directories and records are
named by the process that made them, which stands for `dev`/`ino`. Everything
that the code does by path is done by path in the model: publication writes into
whatever directory is there. `readPinnedOwner` is one step: what it compares is
lost for good once lost, so its last look decides. `rename` onto an empty
directory succeeds, as POSIX has it. `misled` is history: some contender's probe
found an owner dead whose record it had read and which had given the guard up in
a release since (`MistakesRelease`). `OneOwner` holds until then, orderly releases
and the takeovers after them included. A process tries to acquire once; nonces
and process ids are not reused; only guards touch the path.

### AdmissionService (`host/service.ts`, with the seam's `acquireAdmission`)

`createSubagentAdmissionService` and `dispose` are sequences of awaits; `stage`
names the one a service is at:

| `stage` | awaiting | leaves by |
|---|---|---|
| `guarding`, `asserting` | `acquireGuard`, `assertHeld` | `AcquireGuard`, `AssertHeld` |
| `opening` | `openLedger` | `OpenLedger` |
| `listing`, `walking` | `persistence.list`, the resolver's walk | `ListSessions`, `WalkHeaders` |
| `reading` | the ledger rows; the rest, up to the registration, is synchronous | `ReadRowsAndRegister`, `ReadRowsFails` |
| `cleanup-close`, `cleanup-release` | `cleanupStrictResources` | `LedgerClosed`, `GuardReleased` |
| `strict` | disposal | `Dispose` |
| `draining`, `closing`, `releasing` | the three steps of `finishDisposal` | `AuthorityDrained`, `CloseLedger`, `ReleaseGuard` |

Each may fail where the code has a `catch`; `errors` keeps what failed (the
`errors` of `finishDisposal`, and what start-up swallows). `policy` is the runtime's
slot: undefined, a service's, or the tombstone `null`. A run asks (`queued`,
`admitting`), prepares, lives, and gives its permit back, or is `stuck` when its
disposal failed; runs that found no policy hold none. A service is one `apply()`:
two of them stand for a plugin loaded again before the last instance is gone.
The walk over headers and the reading of rows are one await each. The drain of
a failed registration waits for nothing, since no policy was ever registered.

### SnapshotWatch (`host/telemetry.ts`, `client/controller.ts`)

Every `start()` begins a `poll()` loop that lives until it notices that it was
superseded, so `loops` has one per start, each with its request or reply:

| phase | the loop is |
|---|---|
| `getting`, `watching` | sending `get`, `watch` |
| `waiting` | a waiter in `changeWaiters` |
| `woken` | resolved by change or timeout, its snapshot not yet taken |
| `answered`, `failed` | a reply, or an error, on its way to the client |
| `backoff`, `ended` | in `waitForRetry`, returned |

A snapshot is its session, epoch and revision. `HostRestarts` gives a fresh epoch
and fails open requests, but replies already sent still arrive; a reply to `get`
cannot be recalled, for `get` takes no signal. `RemoteFails` is the transport. A
settled waiter has left `changeWaiters`, so a second outcome finds nothing: that
is the phase. Left out: listeners and the lengths of the backoff, and in the
host the projection itself and the bounded history.

### SubagentSeam (`patches/dsh-subagent-admission-seam-slim.patch`)

Each start is one call of the patched runtime, at `pc`, with the permit it owns
and the child it makes; `disposal` is the memoized disposal of a run or an
activation. A step is what happens between two awaits.

| | awaiting | leaves by |
|---|---|---|
| `acquiring` | the policy's `acquire` | `Granted`, `Denied` |
| `starting` | the provider's `start` (one-shot) | `RunPublished`, `RunUndone`, `StartFails` |
| `preparing` | the preparation of a new child | `Prepared`, `ThrowsUnguarded`, `StartFails` |
| `creating` | the agent handle | `Activated`, `StartFails` |
| `submitting` | the first prompt of an activation | `Submitted`, `SubmissionFails` |
| `releasing` | the release of the permit of a failed start | `ReleaseAnswered` |
| disposal `children` | the disposal of what the activation owns | `DisposeChild`, `ChildrenGone` |
| disposal `handle`, `rollback` | the disposal of the handle | `HandleGone`, `HandleFails` |
| disposal `permit`, `rollback-permit` | the release of its permit | `PermitAnswered` |

`releases` counts, as far as it matters: on which permits `release()` was called,
and on which twice. `Unregister` is the tombstone, `Abort` the caller's signal. The
runtime around the patch is external: it is there as outcomes. Left out: the
lock of a child and the lookup of a resident activation; each start is of a
child of its own.

### RootResolver (`host/root-resolver.ts`, `BootstrapHeaders` in `host/service.ts`)

`walk` has each `resolve()`: the session it is `at`, and the `path` it has come. A
header is looked for among the live sessions (`InspectLive`), in the bootstrap's
catalog (`InspectCached`), then in persistence (`AskPersistence`,
`PersistenceAnswers`), and consumed in the step that has it: a circle, a lineage
beyond `MaxHeaders` and a disagreement with what is known fail the walk; a root
or a memoized lineage ends it. `ListSessions`, `BootNext` and `BootEnds` are the
bootstrap; `BindChild` is synchronous, at any of those awaits. `Claims` is what
the host's stores may answer for a session: more than one parent stands for
headers that were rewritten, or differ between stores. A walk's `faulty` records
that it failed for a store's error or contradiction, or an abort, and is read by
a property only.

### AdmissionShapes, ScriptRuns, ReleaseEvidence (`scripts/*.mts`)

*AdmissionShapes* evaluates, as operators, what the workloads of
`reproduce-131.mts`, `benchmark.mts` and the packed Strict proof drive through an
authority, and the counts they report. *ScriptRuns* writes each script as its
sequence of steps with those of its `finally` blocks (take or drop a resource,
run a command, supervise a child, write a report); a slot runs one script, and
its step that throws goes on in the `finally` blocks. Supervision is the code's
own, child by child: `SeesMarker`, `CrashExit`, `CrashTimesOut` of the crash
fixture, `WebReady`, `WebExit`, `WebTimesOut`, `StopWeb` of the packed install,
`StockClose`, `StockTimesOut`, `StockOverflows` of the stock stress; a child
speaks and dies by itself at any moment. *ReleaseEvidence* adds the collection
(`Collect` to `CleanRoots`), its check as a predicate of a state (`CheckPasses`),
and what others do: an edit, a baseline refresh, a script run apart.
The commands the scripts call are external: they end, well or badly. A hash is
what it is taken of.

The working tree (`source`) is the number of edits and what the scripts compare
of it: the patch, the plugin's version, the installed version of each of the two
npm packages, and `compatibility/baseline.json` with its official commit (which
stands for the package version at it), targets, npm tags and Discussion.
Versions count from the one that scripts have in constants (`NamedVersion`, which
is `0.1.0-rc.6` for the runtime and `0.1.0-rc.1` for the plugin). `Edit` may also
change documents with a copy in the package, the patch, the target, the plugin's
version or the dependencies; `Refresh` rewrites the baseline and may find the
official head, either npm tag and the Discussion moved. A report names the edits
it was made from, the commit, the versions and the tarball (`Written`), and
`AllValid` compares them as the validators do: `BaselineValid`, `PackageValid`,
`PatchValid`, and in `EvidenceValid` the commit and versions of `VersionsValid`, the
counts of `MeasurementsValid`, the picture and the tarball. `Identities` is what the
manifest names of them. `begun` (the edit a collection began at) and `touched`
(what others changed since) are history.

## 4. Runs

| Run | Instance | Shows |
|---|---|---|
| `model` | 2 roots, 2 parents, tight limits, seeds above them | counters exact, limits, no refund, one charge per child |
| `authority_safety` | a one-shot and a continuable call of one root, a cold one of another; root and global limit 2, one crash; a one-shot run id may collide | active limits, registry coherence, no orphaned lease, silence after drain |
| `authority_implements` | a one-shot call and a cold resume of one root; fresh, used and spent ledgers; global limit 1, one crash, fairness | refinement; limit codes, passes and failed writes are the state model's; calls settle, drains complete |
| `collision` | as `authority_safety` with two calls | *violation*: a denied call stays charged (section 7) |
| `service` | two loads of the plugin, two runs, any step failing, fairness | ownership outlives ledger, ledger outlives permits; nothing left behind; registration beside no live subagent; no uncovered start after it; start-up and disposal end |
| `service_coverage` | as `service` | *violation*: an activation without a permit (section 7) |
| `guard` | four processes that die, fail, release and exit | no second live owner unless a contender was misled about a release; a lone contender takes over; release destroys only its own record |
| `guard_handover` | three of them | *violation*: two live owners (section 7) |
| `watch` | two sessions, two starts, two host processes, one lost request, fairness | only the active session is shown, and never an older state; every change is shown without a timeout's help; superseded loops end |
| `seam` | a one-shot run, a continuable child and the cold resume of a child of its own, fairness | a permit is given back at most once, not before its child is gone, by every start that fails; descendants first; disposals settle |
| `roots` | a bootstrap and two walks over four headers, one more than the limit; one may become a root, one close a circle, fairness | what is answered is a whole lineage, for good; a walk fails only for cause; every walk ends |
| `release` | one collection, one interference at any moment (an edit of documents, patch, target, plugin or dependencies; a refresh that finds commit, npm tags or Discussion moved; a script run apart), fairness | a passing check is honest, what is rejected has a cause, crash evidence is earned, everything is given back, a collection ends |

Why the bounds are enough. *Authority*: the section runs one operation at a time,
so an interleaving involves the running operation, one that queued behind it,
and a permit acting outside; three calls give all of them, for both kinds of
admission, in one root and across roots. Limits are tight enough for every code
to be answered. One crash suffices because nothing but the ledger and the
issued ids survives it. The proofs of section 6 have none of these bounds.
*Guard*: a wrong takeover needs a former owner, a stale contender and the
successor it disturbs; the fourth process adds a second contender. *Service*: the
stages of one service are sequential, so what can go wrong needs a second
service, one run under a permit and one without. *Watch*: two starts switch
sessions with the old loop still under way (the proofs have any number); one
revision in each of two epochs makes equal numbers mean different states. *Seam*:
starts touch each other only as parent and child, so a parent, a child and an
unrelated run are all the relations there are. *Roots*: two walks and the
bootstrap meet on shared headers; the limit is one less than the longest chain, so
it is met and exceeded. *Release*: a collection is sequential, and one
interference can fall between any two of its steps, or before the first: the
six kinds of edit and four of refresh tell apart the comparisons
of the check (a patch with and without its target, one npm tag or the other);
what is left of an earlier
collection is not exercised with one, and is left to the proofs. The measurements are computed for 56
children, as the check demands, and 20 iterations, which bound how deep TLC's
evaluation of a workload nests. `Procs` is a symmetry set: no process is named.
`MaxCrashes`, the finite `Calls` (one `acquire()` per id and process life),
`MaxStarts`, `MaxCollections` and one attempt per process bound the state spaces;
each may leave the system with nothing to do, hence `CHECK_DEADLOCK FALSE`.

## 5. Fairness

`FairSpec` of AdmissionAuthority assumes weak fairness of

- `SectionStep`: a settled promise's continuation runs, and guard, resolver and
  storage answer each call, well or badly. The code sets no timeouts, so this is
  an assumption on its dependencies, not a fact about it; a storage call that
  hangs hangs the authority, and is listed as a hazard.
- `SectionIdle`: `drain()`'s continuation runs.
- `Release(call)` for each call: the runtime releases each permit it was handed
  when the child is quiescent (docs/architecture.md, section 5). A drain cannot
  complete otherwise.

Calls, aborts, binds, closing, draining and crashing are not fair.

`FairSpec` of AdmissionService: weak fairness of each service's steps (guard,
storage and sessions answer, well or badly) and of each run's (the runtime
brings it on). Starting runs and disposing are not fair. `DisposalCompletes`
leaves out the case of a run whose disposal failed: it keeps its permit, and the
drain waits for it for ever, as the seam intends.

`FairSpec` of SnapshotWatch: weak fairness of each loop's steps (requests are
served, replies delivered, backoffs end). `Timeout` is not fair, so that a
timeout cannot hide a lost change; events, restarts, losses and the user's
starts and stops are not fair either, and bounded.

`FairSpec` of SubagentSeam: weak fairness of each start's steps and of each
disposal's: what the patch awaits settles, well or badly. Starts, aborts,
disposals and the tombstone are not fair.

`FairSpec` of RootResolver: weak fairness of the bootstrap's loop and of each
walk's steps: the stores answer each question, well or badly.

`FairSpec` of ReleaseEvidence: weak fairness of the collection with the script it
runs, timers included, and of SIGKILL taking effect. A child need not speak,
end, or heed SIGTERM, which is why `CollectionSettles` names the web server that
never became ready: nothing stops that one, and its parent waits for it.

## 6. Proofs

Checked by TLAPS for all values of the constants, from the named assumptions of
the modules (limits are positive and coherent; sessions, parents and processes
are any sets, `Procs` and `Calls` finite; null values are none of them, and an
idle slot is neither a slot's nor a script's name).

*AdmissionModelProofs.* The inductive invariant `IInv` joins types, finiteness of
the permits, `IdsDistinct`, the agreement of counters with permits, and the
limits. Neither limits nor counters are inductive alone: the code checks limits
on counters, so they bound the permits only through the agreement; and the
agreement needs ids distinct, for a bind replaces one record by another and a
release drops one, which changes a count by one only if records with one id are
one record. From it: `TypeCorrect`, `CountersExact`, `LimitsHold`, and the action
properties `NeverRefunded`, `ChargedOnce`, `IdentityKept`.

*AdmissionAuthorityProofs.* Types, `LimitsHold`, `RegistryStaysCoherent`,
`LeasesAreOwned`, `DrainedStaysQuiet`, with aborts, binds, releases, closing, draining and
crashes at every await. `IInv` says what a job in the section tells of its call
(`JobState`: an acquisition in the section is of a call that waits, a release of one
that was granted and still has its lease), so that a lease is of exactly one
call, granted or on its way (`LeaseState`). Leases are then counted by the calls
that hold them (`Holders`), which is what makes an insertion add one and a removal
subtract one; the limits follow because the capacity found before the write
still stands after it: nothing else inserts while the section is held
(`CountState`). `DrainState` follows the barrier: an acquisition in the section
after closing stands before it.

Its second half is the refinement. `Implements`: every behaviour of the authority is, under
the mapping of AdmissionRefinement, one of AdmissionModel, step by step;
`SameAnswers`: a limit code, a pass or a failed write at a deciding await is what
the model answers in that state (`ADMISSION_STATE_IO` for a row that cannot be
read is outside it: the code compares no limit then, the model would); `DenialIsFree`: who is
denied was charged nothing. They assume `FreshIds`: no other call asks for the id
of a new child or is bound to it. The `collision` run shows that this cannot be
dropped, and it is a fact of the runtime (ids of new children are generated), not
of the code here. `RInv` adds to the authority's invariant that permit ids are
distinct and below the counter, that a process life issues one permit per call at
most, that the row found to have room still has it at the write, and that a
charge belongs to a call that is served or about to be. The write is
`NewAdmission`, the insertion after it a stutter; the insertion of a resumed child
is `ColdResume`; delivering a permit to its caller is `Bind` where its child was
known before; closing and draining are `Unload` once no acquisition is past
`assertOpen`; a crash is `Restart`.

*ProcessGuardProofs.* `TypeCorrect`, and `OneOwnerUnlessMisled`: there is never a
second live owner, for any number of processes that die, fail, release and exit,
until a contender's probe finds an owner dead that released after its record was
read. The invariant `OwnerInv`: from its `mkdir` to the rename of its release a live
process finds its own directory at the path (`MakerAtPath`); so records lie in
their authors' directories (`OwnRecords`), and only the dead are quarantined
(`DeadQuarantined`); and what a contender decided from stays true
(`DecisionsStand`): the record it read is still at the path, or was quarantined
under its own nonce, where it makes a second rename to that name fail, and its
author, found dead, is dead; only before the probe may the author have given the
record up (`Gone`), and a probe that finds such an author alive ends the attempt. One
that finds it dead is `MistakesRelease`: there `DecisionsStand` breaks, which is the
finding below, so the hypothesis cannot be dropped.
`SoloIsNeverRefused`: a contender that begins on a free path or a dead owner's
directory, and is not disturbed, is never refused; `SoloInv` follows its
attempts: whatever the path holds is at every step what that step of `acquire()`
can deal with, and a second attempt finds the path free. `OthersRecordsStay`: no
other step of a process is taken for its dismantling, and that one removes a
record only where it found its own.

*AdmissionServiceProofs.* Six theorems, for any number of loads and runs: types,
`LedgerUnderOwnership`, `PermitsUnderResources`, `ResourcesGivenBack`,
`RegistrationQuiet`, `StartsCovered`. None is inductive alone, because each looks at
other services' steps: `IInv` ties stages to resources. A service at an owning
stage is the owner (`StagesOwn`), so no two are, and releasing takes the path from
nobody else; the ledger's state is a function of the stage (`LedgerFollowsStage`);
the registered policy is that of a strict service (`PolicyIsStrict`), so a permit
belongs to a service that is strict or draining (`PermitsFollowStage`).

*SubagentSeamProofs.* For any set of starts in any ownership: types, `ReleasedOnce`,
`PermitsHeld`, `RejectionsReturn`, `AncestorsLast`. The invariant says what each phase of
a call (`CallState`) and each stage of a disposal (`DisposalState`) tells of permit
and child, that a permit still to be given back was never released, and that an
activation whose disposal has passed its children counts none (`Family`).

*SnapshotWatchProofs.* Types, `ActiveIsShown`, `ShownForward`: whatever older loops
still receive, what is shown is of the active session and not older than what was
shown of it. The invariant: what a loop has in hand was a snapshot of its own
session, a reply is not earlier than the cursor it was asked with, no two loops
share a generation, and the cursor of the current loop is what is shown.

*RootResolverProofs.* For any set of headers and any walks: types, `LineagesOnly`,
`FailuresHaveCause`, `LineagesStay`. A walk under way came along a chain of known
headers to where it is (`WalkState`), and a header that is known stays as it is, so
what rests on it does too.

*ReleaseEvidenceProofs.* For any slots, collections, edits, refreshes and scripts run
apart: `ChecksAreHonest`, `CrashesAreEarned`, `AllIsGivenBack`, `RejectionsHaveACause`,
all from one invariant (`Collected`). The scripts are tables of steps, so what the
proofs need of a table is first proved of each (`WellFormedScripts`): what a body
takes is dropped in its `finally` blocks, a spawn is followed by its await, a
crash is reported after its child was awaited. `Footing` then says of every slot
where its script is and what it may hold there (`Tidy`), and whether its child is
minded (`Minded`) or was really killed (`Crashed`); of every crash report, that
its child was killed; and of what is left, which script left it. `Collecting` is of
the collection. Whatever others do, its reports read no edit older than its
beginning, and an edit or a stranger's report is on record (`Spanned`), which is
all that `ChecksAreHonest` needs. While nobody edits, refreshes or runs a script
apart, moreover (`Alone`): the commands before the present one have done their work
(`Progress`), what is packed is of this edit (`Packing`), the command under way works
with the baseline's commit (`Pinned`), each report names this tree's versions,
commit and tarball (`Honest`), and what is validated stays valid and is what the
manifest binds (`Bound`). Neither half says anything of how many collections there
were, so evidence left by an earlier one is covered.

`ChecksAreHonest` promises as much as the code keeps, and no more: each report by
the collection's commands read edits from the collection's beginning to the tree as
it is. If no edit overlapped the collection the two are one; if one did, that each
report is of the tree as it is would be false (section 7). `RejectionsHaveACause` is about what
nobody touched since the collection began, whatever happened before it: if the
commands passed, it is rejected only where the tree is not `Releasable`, or its
picture was to stay and is another's; and the check of its manifest passes. Its
hypothesis, `MeasurementsValid`, is that the workloads measure what the check of the
evidence asks for. It is a fact about constants, and not about all of them (the
check asks for exactly 56 children); run `release` evaluates it.

Every invariant and every action property that a passing run checks is stated by
one of these theorems. Only model-checked are the liveness properties, since
fairness and ENABLED are beyond TLAPS here: `CallsSettle`, `DrainCompletes`,
`StartUpEnds`, `DisposalCompletes`, `LatestIsShown`, `SupersededLoopsEnd`,
`DisposalsSettle`, `WalksEnd`, `CollectionSettles`. So is `MeasurementsValid`: it
folds over the requests of a workload, and the provers cannot evaluate that.

## 7. Findings

*collision*: `acquire()` finds the requested child unclaimed, then awaits the
durable write; `bindChild` is synchronous and may claim that child for another
permit meanwhile. The insertion then throws after the commit: the call is denied,
its root and parent stay charged, and admission closes for good. The
documentation says that a denial changes no authoritative state, and calls the
insertion non-throwing. It takes a provider that returns the id of another,
pending child for a one-shot run.

*guard_handover*: a contender reads an owner's record; the owner releases in
order and exits; a third process makes and publishes its directory; the
contender finds the pid it read dead and no quarantine of that nonce, and renames
the third process's live directory away, then makes its own. Both pass
`assertHeld` at some time and can be in an admission together (or the third one,
overtaken before publication, publishes into the contender's directory). The
design document requires that two live owners be impossible. The displaced
owner does fail closed at its next `assertHeld`.

*service_coverage*: a start that finds no policy registered goes on without one;
until its child is published, sessions do not list it. Start-up looks for live
subagents again right before it registers, so none is live then; but one may
still be preparing, and becomes live in a strict state without a permit. The
architecture document says that every active activation owns one. What does
hold, and is proved, is that no live subagent is uncovered at the registration
(`RegistrationQuiet`) and that nothing starts uncovered after it (`StartsCovered`).

Not a finding, but seen on the way: when `assertHeld()` fails after `acquire()`
succeeded, start-up ends without releasing the guard (service.ts:180-192), so the
path stays owned by a live process. `NothingLeftBehind` names that exception.

Also seen, in the tooling: `collect()` fingerprints the source after its commands
have run and been validated (release-evidence.mts:657), and no validator compares a
report with the source it was made from. An edit made between the measurement and
the fingerprint is bound to a report that never saw it, and the check passes, where
docs/reproduction.md:89 says that the manifest binds the report to the exact source
fingerprint. `CheckIsHonest` therefore says how old a report may be. Then: a cached checkout whose `git init` succeeded and
whose `git remote add` did not is taken for made, and every later fetch of it
fails until it is deleted (packed-install.mts:361); and `strictTargetsCurrent` is
vacuously true of a baseline that names no target (refresh-baseline.mts:324),
which the check of the evidence rejects by itself, for it asks for exactly one.
And reports name versions from constants: `0.1.0-rc.6` is the stock version that
run-strict-conformance.mts:450 writes and the runtime that release-evidence.mts:503
asks of the benchmark, while the check compares with `baseline.npm` (:436, :462). After a
refresh that finds npm's `next` moved, or after an upgrade, a collection that
nobody disturbs is rejected until the scripts are edited; `Releasable` names these
versions as a cause, so `RejectedForACause` is not violated by it.

Two hazards have no property. A storage write that never answers holds the
section for ever (ledger.ts:191): the code has no timeout, so nothing holds
without the fairness assumed. A process that dies between the making of its
directory and the publication of its record leaves one no later start takes over
(process-guard.ts:246): that is the documented choice, manual recovery.

## 8. Not modelled

*Product.* Mode selection, compatibility and configuration (pure decision tables,
planned); the audit observer's pairing of start and end; telemetry's ledger
cache, projection and bounded history; the controller's listeners; the view.
Process-id reuse (it only makes the guard refuse), changes to the ownership
directory by anything but guards, symbolic links, file permissions; the
validation of ids and configured numbers; freezing and detached copies; wording
of errors. The compound seam patch, which the slim one supersedes.

*Tooling.* The snapshot comparison of the benchmark, the fetches of the baseline
refresh, option parsing, report formats and hashes beyond what they are taken of,
the size check of the patch, continuous integration, tests and fixtures; and that
somebody kills a script.
