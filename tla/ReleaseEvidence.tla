-------------------------- MODULE ReleaseEvidence --------------------------
(***************************************************************************)
(* The release evidence (scripts/release-evidence.mts): a collection that  *)
(* runs the evidence scripts of ScriptRuns one after another and binds     *)
(* their reports to a fingerprint of the source, and the check of what it  *)
(* wrote.  Meanwhile somebody may edit the source, refresh the baseline    *)
(* (scripts/refresh-baseline.mts) or run a script apart.                   *)
(***************************************************************************)
EXTENDS ScriptRuns

CONSTANTS
  Collector,      \* the slot of the collection's commands
  ApartScripts,   \* what may be run apart from a collection
  MaxCollections, \* bounds: collections, and what others do meanwhile:
  MaxOthers,      \* edits, refreshes and runs apart,
  Edits,          \* what an edit may change besides the source itself,
  Moves           \* and what a refresh may find moved

ASSUME CollectorAssumption == Collector \in Slots /\ ApartScripts \subseteq DOMAIN Scripts
ASSUME OthersAssumption ==
  /\ Edits \subseteq SUBSET ({"documents", "patch", "plugin", "target"} \cup Packages)
  /\ Moves \subseteq SUBSET ({"commit", "discussion"} \cup Packages)

VARIABLES
  collector, \* pc, the command it is at, --promote-screenshot once read, the
             \* identities it validated; history: the edit it began at
  manifest,  \* evidence/manifest.json, or None
  touched,   \* history: what others changed of what this collection depends on
  used       \* what is used up of the bounds

collectVars == <<collector, manifest>>
vars == <<scriptVars, collectVars, touched, used>>

\* Mutant: the commands forget a report that the evidence set needs.
CollectCommandsForgetting ==
  <<"docs", "conformance", "crashJson", "packed", "benchmark", "reproduction">>

CollectCommands ==
  <<"docs", "conformance", "crashJson", "crashSqlite", "packed", "benchmark",
    "reproduction">>

Stopped == {"failed", "rejected", "stale-picture"}
Nothing == [r \in Reports |-> None]

\* compatibility/baseline.json: a commit stands for its package version too,
\* and observed for what a refresh rewrites though nothing moved.
Baselines ==
  [commit : {0}, targets : {{[commit |-> 0, patch |-> 0]}, {}}, current : {TRUE},
   npm : [Packages -> {NamedVersion}], discussion : {0}, observed : {0}]

Init ==
  /\ source \in [edit : {0}, synced : {FALSE}, picture : {0}, patch : {0},
                 plugin : {NamedVersion}, runtime : [Packages -> {NamedVersion}],
                 baseline : Baselines]
  /\ run = [s \in Slots |-> NoProcess] /\ kid = [s \in Slots |-> NoKid]
  /\ fixtures = {} /\ cache = [c \in {} |-> "absent"] /\ tarball = -1
  /\ evidence = Nothing /\ left = {}
  /\ collector = [pc |-> "idle", at |-> 0, promote |-> FALSE, identities |-> None,
                  begun |-> 0]
  /\ manifest = None /\ touched = {}
  /\ used = [collections |-> 0, others |-> 0]

Uses(what) == used' = [used EXCEPT ![what] = @ + 1]

-----------------------------------------------------------------------------
(* Others.                                                                 *)

Moved(n, what, moved) == IF what \in moved THEN n + 1 ELSE n
Released(versions, moved) == [p \in Packages |-> Moved(versions[p], p, moved)]

\* An edit: of documents that have a copy in the package, of the patch, of
\* the plugin's version, of a dependency, or of the baseline's target.
Edited(tree, changed) ==
  LET patch == Moved(tree.patch, "patch", changed)
      target == [commit |-> tree.baseline.commit, patch |-> patch]
  IN  [tree EXCEPT !.edit = @ + 1, !.synced = @ /\ "documents" \notin changed,
         !.patch = patch, !.plugin = Moved(@, "plugin", changed),
         !.runtime = Released(@, changed),
         !.baseline = IF "target" \in changed
                      THEN [@ EXCEPT !.targets = {target}, !.current = TRUE] ELSE @]

Edit ==
  /\ used.others < MaxOthers /\ Uses("others")
  /\ \E changed \in Edits : source' = Edited(source, changed)
  /\ touched' = touched \cup {"edit"}
  /\ UNCHANGED <<run, kid, fixtures, cache, tarball, evidence, left, collectVars>>

\* buildBaseline() --write: the official head, the dist-tags of npm and the
\* Discussion may have moved; the targets stay.
Refreshed(baseline, moved) ==
  LET commit == Moved(baseline.commit, "commit", moved) IN
  [baseline EXCEPT !.commit = commit, !.npm = Released(@, moved),
     !.discussion = Moved(@, "discussion", moved), !.observed = @ + 1,
     !.current = \A t \in baseline.targets : t.commit = commit]

Refresh ==
  /\ used.others < MaxOthers /\ Uses("others")
  /\ \E moved \in Moves :
        source' = [source EXCEPT !.baseline = Refreshed(source.baseline, moved)]
  /\ touched' = touched \cup {"refresh"}
  /\ UNCHANGED <<run, kid, fixtures, cache, tarball, evidence, left, collectVars>>

Apart(s) ==
  /\ s # Collector
  /\ \/ /\ used.others < MaxOthers /\ Uses("others")
        /\ \E script \in ApartScripts : Starts(s, script)
     \/ (Works(s) \/ Exits(s)) /\ UNCHANGED used
  /\ touched' = touched \cup (IF evidence' # evidence THEN {"report"} ELSE {})
                       \cup (IF tarball' # tarball THEN {"pack"} ELSE {})
  /\ UNCHANGED collectVars

-----------------------------------------------------------------------------
(* A collection.                                                           *)

Goto(pc) == collector' = [collector EXCEPT !.pc = pc]
Fails == collector' = [collector EXCEPT !.pc = "failed", !.at = 0]

RemoveOldEvidence ==
  evidence' = Nothing /\ manifest' = None

Collect ==
  /\ collector.pc \in {"idle", "ended"} \cup Stopped
  /\ used.collections < MaxCollections /\ Uses("collections")
  /\ collector' = [pc |-> "commands", at |-> 1, promote |-> FALSE, identities |-> None,
                   begun |-> source.edit]
  /\ RemoveOldEvidence /\ touched' = {}
  /\ UNCHANGED <<treeVars, run, kid, left>>

RunCommand ==
  /\ collector.pc = "commands" /\ collector.at <= Len(CollectCommands)
  /\ Goto("waiting") /\ Starts(Collector, CollectCommands[collector.at])
  /\ UNCHANGED <<manifest, touched, used>>

CommandEnds ==
  /\ collector.pc = "waiting" /\ Exits(Collector)
  /\ IF run[Collector].failed THEN Fails
     ELSE collector' = [collector EXCEPT !.pc = "commands", !.at = @ + 1]
  /\ UNCHANGED <<manifest, touched, used>>

\* parseBaseline(): one target, the official commit.
BaselineValid ==
  /\ \E t \in source.baseline.targets :
        source.baseline.targets = {t} /\ t.commit = source.baseline.commit
  /\ source.baseline.current

\* parsePackage(), and currentPatchHash() as the target names it.
PackageValid == source.plugin = NamedVersion
PatchValid == \A t \in source.baseline.targets : t.patch = source.patch

\* validateReproduction() and validateBenchmark()
MeasurementsValid ==
  LET reproduction == ReproductionReport(Children)
      benchmark == BenchmarkReport(Iterations, 1)
  IN  /\ reproduction.requestedChildren = 56
      /\ reproduction.providerStarts = 4 /\ reproduction.peakRootActive = 4
      /\ reproduction.rootDenials = 5
      /\ reproduction.probeStarts = 6
      /\ reproduction.probeDenial = "GLOBAL_ACTIVE_LIMIT"
      /\ benchmark.iterations = Iterations /\ benchmark.contention = 64

\* The commit and the versions that the reports name: validateConformance(),
\* validatePacked() and validateBenchmark().
VersionsValid ==
  LET conformance == evidence["conformance"]
      packed == evidence["packed-install"]
      benchmark == evidence["benchmark"]
  IN  /\ conformance.commit = source.baseline.commit
      /\ conformance.runtime["dsh"] = source.baseline.npm["dsh"]
      /\ packed.runtime = source.baseline.npm
      /\ packed.commit = source.baseline.commit
      /\ benchmark.plugin = source.plugin /\ benchmark.runtime["dsh"] = NamedVersion

\* validateEvidenceSet(), with validateTarball() and the hash of the picture.
EvidenceValid ==
  /\ \A r \in Reports : evidence[r] # None
  /\ VersionsValid /\ MeasurementsValid
  /\ evidence["screenshot"].packed = evidence["packed-install"].packed
  /\ tarball = evidence["packed-install"].packed

AllValid == BaselineValid /\ PackageValid /\ PatchValid /\ EvidenceValid

\* What a manifest names and a check compares; package stands for the hashes
\* that validateEvidenceSet() returns.
Identities ==
  [plugin |-> source.plugin, patch |-> source.patch, commit |-> source.baseline.commit,
   npm |-> source.baseline.npm, discussion |-> source.baseline.discussion,
   package |-> evidence["packed-install"].packed]

Validate ==
  /\ collector.pc = "commands" /\ collector.at > Len(CollectCommands)
  /\ collector' = IF AllValid
       THEN [collector EXCEPT !.pc = "promoting", !.identities = Identities]
       ELSE [collector EXCEPT !.pc = "rejected"]
  /\ UNCHANGED <<scriptVars, manifest, touched, used>>

\* With --promote-screenshot or without, the picture in docs/ must be the one
\* packed-install.mts reported when that was validated.
Promote ==
  /\ collector.pc = "promoting"
  /\ \E promote \in BOOLEAN :
       /\ source' = [source EXCEPT !.picture =
            IF promote THEN evidence["screenshot"].packed ELSE @]
       /\ collector' = [collector EXCEPT !.promote = promote,
            !.pc = IF source'.picture = collector.identities.package
                   THEN "writing" ELSE "stale-picture"]
  /\ UNCHANGED <<run, kid, fixtures, cache, tarball, evidence, left, manifest,
                 touched, used>>

\* sourceFingerprint() of a tree, which evidence/ is no part of.
Fingerprint(tree) == tree

\* artifactRecords() reads the reports again.  touched and begun are history.
WriteManifest ==
  /\ collector.pc = "writing"
  /\ manifest' = [source |-> Fingerprint(source), identities |-> collector.identities,
                  artifacts |-> evidence, touched |-> touched, begun |-> collector.begun]
  /\ Goto("cleaning")
  /\ UNCHANGED <<scriptVars, touched, used>>

\* cleanReportedTemporaryRoot(): the root a report names, whoever wrote it.
Rooted == {<<"conformance", "conformance">>, <<"crashJson", "crash-json">>,
           <<"crashSqlite", "crash-sqlite">>}

CleanRoots ==
  /\ collector.pc = "cleaning"
  /\ left' = left \ {<<evidence[pair[2]].by, pair[1], "evidence-root">> : pair \in Rooted}
  /\ Goto("ended")
  /\ UNCHANGED <<treeVars, run, kid, evidence, manifest, touched, used>>

CollectorActs ==
  \/ RunCommand \/ CommandEnds \/ Validate \/ Promote \/ WriteManifest \/ CleanRoots
  \/ Works(Collector) /\ UNCHANGED <<collectVars, touched, used>>

KidsAct(s) == KidActs(s) /\ UNCHANGED <<collectVars, touched, used>>
Killed(s) == KidDies(s, "SIGKILL") /\ UNCHANGED <<collectVars, touched, used>>

Next ==
  \/ Edit \/ Refresh \/ Collect \/ CollectorActs
  \/ \E s \in Slots : Apart(s) \/ KidsAct(s)

Spec == Init /\ [][Next]_vars

\* A collection goes on, its timers fire, and SIGKILL kills.  A child need
\* not speak, end, or heed SIGTERM.
FairSpec ==
  Spec /\ WF_vars(CollectorActs) /\ WF_vars(Killed(Collector))

-----------------------------------------------------------------------------
(* The check: validateManifest() in a state.                               *)

\* Mutant: the check compares the reports, but not the source.
CheckPassesUnbound ==
  /\ manifest # None
  /\ AllValid
  /\ manifest.identities = Identities
  /\ manifest.artifacts = evidence
  /\ source.picture = evidence["packed-install"].packed

CheckPasses ==
  /\ manifest # None
  /\ AllValid
  /\ manifest.identities = Identities
  /\ manifest.source = Fingerprint(source)
  /\ manifest.artifacts = evidence
  /\ source.picture = evidence["packed-install"].packed

-----------------------------------------------------------------------------
(* Properties.                                                             *)

(* A check that passes speaks of this source or of nothing older than its  *)
(* collection.  The one target of the baseline is the official commit and  *)
(* the patch in the tree.  Every report a command of the collection made   *)
(* read edits from the one the collection began at to this one; the two    *)
(* are the same unless the source was edited while it was collected, and   *)
(* only a script run apart meanwhile can have put in a report that is not  *)
(* the collection's.                                                       *)
CheckIsHonest ==
  CheckPasses =>
    /\ source.baseline.targets
         = {[commit |-> source.baseline.commit, patch |-> source.patch]}
    /\ manifest.begun = source.edit \/ "edit" \in manifest.touched
    /\ \A r \in Reports :
         IF evidence[r].by = Collector
         THEN evidence[r].read \subseteq manifest.begun..source.edit
         ELSE "report" \in manifest.touched

(* A tree the scripts can make evidence of: its plugin and its runtime are *)
(* the versions they have in constants, npm's tags name the runtime that   *)
(* is installed, and the target is of the patch.                           *)
Releasable ==
  /\ PackageValid /\ PatchValid
  /\ source.baseline.npm["dsh"] = NamedVersion
  /\ source.runtime = source.baseline.npm

(* Nothing is rejected but for a cause: a collection whose commands have   *)
(* passed fails because others touched the tree meanwhile, because of the  *)
(* versions or the patch in the tree, or because the picture was to stay;  *)
(* and the check of a manifest, because others touched the tree since its  *)
(* collection began.                                                       *)
RejectedForACause ==
  /\ collector.pc = "rejected" => touched # {} \/ ~Releasable
  /\ collector.pc = "stale-picture" => touched # {} \/ ~collector.promote
  /\ manifest # None /\ ~CheckPasses => touched # {}

(* A crash report is only written of a child that SIGKILL killed after the *)
(* ledger was committed: the report says so in constants.                  *)
CrashEvidenceIsEarned ==
  \A r \in {"crash-json", "crash-sqlite"} : evidence[r] # None => evidence[r].killed

(* A script gives back what it took, however it ended: fixtures, browsers, *)
(* journals, temporary roots and children.  What may stay is an evidence   *)
(* root, until a collection that ended has cleaned it, a worktree whose    *)
(* removal could not start, and a web server that never became ready.      *)
EverythingGivenBack ==
  /\ \A item \in left : item[3] \in {"evidence-root", "stuck-worktree"}
  /\ collector.pc = "ended" /\ touched = {} =>
       \A item \in left : item[1] = Collector => item[3] # "evidence-root"
  /\ \A f \in fixtures : \E s \in Slots : f \in run[s].holds
  /\ \A s \in Slots : run[s].phase = "over" /\ kid[s].alive =>
       kid[s].sent = "SIGKILL" \/ kid[s].timedOut

(* A collection ends, but behind a web server that never became ready:     *)
(* nobody stops that one, and the process that spawned it waits for it.    *)
WaitsForServer ==
  /\ run[Collector].phase = "over" /\ kid[Collector].alive /\ kid[Collector].timedOut

CollectionSettles ==
  (collector.pc = "commands")
    ~> (collector.pc \in {"ended"} \cup Stopped \/ WaitsForServer)
=============================================================================
