----------------------------- MODULE ScriptRuns -----------------------------
(***************************************************************************)
(* The evidence scripts of scripts/ as processes that share one working    *)
(* tree.  A script is a sequence of steps with the steps of its finally    *)
(* blocks; a step takes or gives back a resource, runs a command, or       *)
(* supervises a child process, and what a step cannot do throws to the     *)
(* finally blocks.  The commands themselves are external: they end, well   *)
(* or badly.                                                               *)
(*                                                                         *)
(* A fixture lies at one path for every run of a script; every other       *)
(* resource is a run's own (mkdtemp, a child, a browser).  Nobody kills a  *)
(* script.                                                                 *)
(***************************************************************************)
EXTENDS AdmissionShapes

CONSTANTS
  Slots,       \* the script processes there may be at one time
  Idle,        \* a slot without one
  Iterations,  \* --iterations of the benchmark
  Children     \* --children of the reproduction

ASSUME ScriptsAssumption == Iterations \in Nat \ {0} /\ Children \in Nat \ {0}

VARIABLES
  source,   \* the working tree: how often edited, and what of it is compared
  run,      \* a slot's process: where it is, what it holds, read and packed
  kid,      \* a slot's supervised child process
  fixtures, \* the generated fixtures that lie in the tree
  cache,    \* .cache/deepseek-harness/, how far each commit's checkout is
  tarball,  \* the edit that dist/<plugin>.tgz was packed from, or -1
  evidence, \* evidence/: the last report of each kind, or None
  left      \* <<slot, script, resource>> that outlived a run's finally blocks

None == [by |-> Idle]
treeVars == <<source, fixtures, cache, tarball>>
scriptVars == <<source, run, kid, fixtures, cache, tarball, evidence, left>>

Fixtures == {"stock-fixture", "crash-fixture"}

\* The npm packages the evidence names, and the version that the scripts have
\* in constants: versions count from theirs.
Packages == {"dsh", "dsh-subagent"}
NamedVersion == 0
NoKid == [alive |-> FALSE, spoke |-> FALSE, sent |-> "nothing", by |-> "nobody",
          seen |-> FALSE, timedOut |-> FALSE]

-----------------------------------------------------------------------------
(* The scripts.  do is what a step does, on what it does it to.            *)

Do(do, on) == [do |-> do, on |-> on]
Command(needs) == Do("command", needs)
Script(body, finally) == [body |-> body, finally |-> finally]

\* The steps of run-strict-conformance.mts, packed-install.mts and
\* verify-seam-patch.mts that make a patched worktree of the cached checkout.
PatchedWorktree ==
  <<Do("baseline", "target"), Do("checkout", {}), Command({}), Do("take", "worktree"),
    Command({"worktree"})>>

Conformance ==
  Script(SubSeq(PatchedWorktree, 1, 3)
           \o <<Do("pack", {}), Do("take", "evidence-root"),
                Do("take", "stock-fixture"), Command({"stock-fixture"}),
                Do("take", "worktree"), Command({"worktree"}),
                Do("report", "conformance")>>,
         <<Do("drop", "stock-fixture"), Do("drop", "worktree")>>)

Verify ==
  Script(<<Do("baseline", "commit")>> \o SubSeq(PatchedWorktree, 2, 5),
         <<Do("drop", "worktree")>>)

\* runStrictProof() and captureGui() within runPackedInstall().
StrictProof == PatchedWorktree \o <<Do("drop", "worktree")>>

CaptureGui ==
  <<Do("take", "browser"), Command({"web"}), Do("report", "screenshot"),
    Do("drop", "browser")>>

\* Mutant: the web process is stopped on the way out of a success only.
PackedInstallStoppingOnce ==
  Script(<<Do("take", "temporary-root"), Do("pack", {}), Command({}),
           Do("spawn", "web"), Do("await", "web"), Command({"web"})>>
           \o CaptureGui \o StrictProof
           \o <<Do("stop", "web"), Do("report", "packed-install")>>,
         <<Do("drop", "browser"), Do("drop", "worktree"),
           Do("drop", "temporary-root")>>)

PackedInstall ==
  Script(<<Do("take", "temporary-root"), Do("pack", {}), Command({}),
           Do("spawn", "web"), Do("await", "web"), Command({"web"})>>
           \o CaptureGui \o StrictProof
           \o <<Do("stop", "web"), Do("report", "packed-install")>>,
         <<Do("drop", "browser"), Do("drop", "worktree"), Do("stop", "web"),
           Do("drop", "temporary-root")>>)

CrashFixture(report) ==
  Script(<<Do("take", "evidence-root"), Do("take", "crash-fixture"),
           Do("spawn", "crash"), Do("await", "crash"),
           Command({"crash-fixture"}), Do("report", report)>>,
         <<Do("drop", "crash-fixture")>>)

Reproduction ==
  Script(<<Do("take", "journal"), Do("measure", "reproduction"),
           Do("drop", "journal"), Do("baseline", "target"), Do("report", "reproduction")>>,
         <<Do("drop", "journal")>>)

\* With --allow-stock-stress, and without --output.
StockReproduction ==
  Script(<<Do("take", "stock-journal"), Do("spawn", "stock"), Do("await", "stock"),
           Do("drop", "stock-journal")>>
           \o SubSeq(Reproduction.body, 1, 4),
         <<Do("drop", "stock-journal"), Do("drop", "journal")>>)

Benchmark ==
  Script(<<Do("measure", "benchmark"), Do("report", "benchmark")>>, <<>>)

SyncDocs == Script(<<Do("sync", {})>>, <<>>)

Scripts ==
  [conformance |-> Conformance, verify |-> Verify, packed |-> PackedInstall,
   crashJson |-> CrashFixture("crash-json"),
   crashSqlite |-> CrashFixture("crash-sqlite"),
   reproduction |-> Reproduction, stock |-> StockReproduction,
   benchmark |-> Benchmark, docs |-> SyncDocs]

\* An idle slot is none of them.
ASSUME IdleAssumption == Idle \notin Slots /\ Idle \notin DOMAIN Scripts

Reports == {"conformance", "screenshot", "packed-install", "crash-json",
            "crash-sqlite", "reproduction", "benchmark"}

-----------------------------------------------------------------------------
(* Control: a body, then the finally blocks, whatever happened.            *)

Running(s) == run[s].script # Idle
Part(r) == Scripts[r.script][r.phase]
At(s, do) ==
  /\ Running(s) /\ run[s].phase # "over"
  /\ Part(run[s])[run[s].at].do = do
On(s) == Part(run[s])[run[s].at].on

Finally(r) ==
  IF Scripts[r.script].finally = <<>> THEN [r EXCEPT !.phase = "over", !.at = 0]
  ELSE [r EXCEPT !.phase = "finally", !.at = 1]

Onward(r) ==
  IF r.at < Len(Part(r)) THEN [r EXCEPT !.at = @ + 1]
  ELSE IF r.phase = "body" THEN Finally(r)
  ELSE [r EXCEPT !.phase = "over", !.at = 0]

\* What throws in a body goes to the finally blocks, and what throws in one
\* of those to the next.
Thrown(r) ==
  [(IF r.phase = "body" THEN Finally(r) ELSE Onward(r)) EXCEPT !.failed = TRUE]

Becomes(s, r) == run' = [run EXCEPT ![s] = r]
Holding(s, resources) == [run[s] EXCEPT !.holds = resources]
Reading(s) == [run[s] EXCEPT !.read = @ \cup {source.edit}]
Throws(s) == Becomes(s, Thrown(run[s])) /\ UNCHANGED <<treeVars, kid, evidence, left>>

\* A command that fails, and what fails to start, does nothing else.
MayThrow(s) ==
  /\ \E do \in {"command", "checkout", "take", "pack", "sync", "measure", "spawn"} :
        At(s, do)
  /\ Throws(s)

NoProcess == [script |-> Idle, phase |-> "over", at |-> 0, failed |-> FALSE,
              holds |-> {}, read |-> {}, packed |-> -1, commit |-> -1,
              making |-> FALSE]

Starts(s, script) ==
  /\ ~Running(s)
  /\ Becomes(s, [NoProcess EXCEPT !.script = script, !.phase = "body", !.at = 1])
  /\ UNCHANGED <<treeVars, kid, evidence, left>>

\* A process that has nothing more to do exits when its child is gone.
Exits(s) ==
  /\ Running(s) /\ run[s].phase = "over" /\ ~kid[s].alive
  /\ Becomes(s, NoProcess) /\ kid' = [kid EXCEPT ![s] = NoKid]
  /\ left' = left \cup {<<s, run[s].script, r>> : r \in run[s].holds}
  /\ UNCHANGED <<treeVars, evidence>>

-----------------------------------------------------------------------------
(* Commands and resources.                                                 *)

\* parseBaseline() and readIdentity() want a target of the official commit,
\* the one of verify-seam-patch.mts only that commit.
Baseline(s) ==
  /\ At(s, "baseline")
  /\ IF On(s) = "target" => \E t \in source.baseline.targets : t.commit = source.baseline.commit
       THEN /\ Becomes(s, [Onward(run[s]) EXCEPT !.commit = source.baseline.commit])
            /\ UNCHANGED <<treeVars, kid, evidence, left>>
       ELSE Throws(s)

\* ensureExactCheckout(), a git command at a time: init and remote add of a
\* checkout that had no .git, fetch and checkout of one without the commit.
\* A fetch needs the remote.
Cached(commit) == IF commit \in DOMAIN cache THEN cache[commit] ELSE "absent"
Caches(commit, state) ==
  cache' = [c \in DOMAIN cache \cup {commit} |-> IF c = commit THEN state ELSE cache[c]]

Checkout(s) ==
  LET commit == run[s].commit IN
  /\ At(s, "checkout")
  /\ \/ /\ Cached(commit) = "absent" /\ Caches(commit, "initialised")
        /\ Becomes(s, [run[s] EXCEPT !.making = TRUE])
     \/ /\ Cached(commit) = "initialised" /\ run[s].making /\ Caches(commit, "remote")
        /\ Becomes(s, [run[s] EXCEPT !.making = FALSE])
     \/ Cached(commit) = "remote" /\ Caches(commit, "exact") /\ UNCHANGED run
     \/ Cached(commit) = "exact" /\ Becomes(s, Onward(run[s])) /\ UNCHANGED cache
  /\ UNCHANGED <<source, fixtures, tarball, kid, evidence, left>>

\* A command run in what it needs: a fixture that still lies in the tree, of
\* the stock runtime that validateStock() names, a web server that still
\* answers.
Needed(s) ==
  /\ On(s) \cap Fixtures \subseteq fixtures
  /\ "stock-fixture" \in On(s) => source.runtime["dsh-subagent"] = NamedVersion
  /\ "web" \in On(s) => kid[s].alive

Commands(s) ==
  /\ At(s, "command") /\ Needed(s)
  /\ Becomes(s, Onward(Reading(s)))
  /\ UNCHANGED <<treeVars, kid, evidence, left>>

Pack(s) ==
  /\ At(s, "pack")
  /\ Becomes(s, [Onward(Reading(s)) EXCEPT !.packed = source.edit])
  /\ tarball' = source.edit
  /\ UNCHANGED <<source, fixtures, cache, kid, evidence, left>>

\* syncPackageDocs()
Sync(s) ==
  /\ At(s, "sync")
  /\ Becomes(s, Onward(run[s])) /\ source' = [source EXCEPT !.synced = TRUE]
  /\ UNCHANGED <<fixtures, cache, tarball, kid, evidence, left>>

Take(s) ==
  /\ At(s, "take")
  /\ Becomes(s, Onward(Holding(s, run[s].holds \cup {On(s)})))
  /\ fixtures' = fixtures \cup ({On(s)} \cap Fixtures)
  /\ UNCHANGED <<source, cache, tarball, kid, evidence, left>>

\* rmSync() with force, of a fixture whoever made it; browser.close().
Drop(s) ==
  /\ At(s, "drop")
  /\ Becomes(s, Onward(Holding(s, run[s].holds \ {On(s)})))
  /\ fixtures' = fixtures \ {On(s)}
  /\ UNCHANGED <<source, cache, tarball, kid, evidence, left>>

\* `git worktree remove' that cannot start throws past the rmSync() after it.
WorktreeStays(s) ==
  /\ At(s, "drop") /\ On(s) = "worktree" /\ "worktree" \in run[s].holds
  /\ Becomes(s, [Thrown(run[s]) EXCEPT !.holds = (@ \ {"worktree"}) \cup {"stuck-worktree"}])
  /\ UNCHANGED <<treeVars, kid, evidence, left>>

\* What a workload measured; its own checks may throw.
Measured(what) ==
  IF what = "benchmark" THEN BenchmarkReport(Iterations, 1)
  ELSE ReproductionReport(Children)

Measure(s) ==
  /\ At(s, "measure")
  /\ IF Measured(On(s)).threw THEN Throws(s)
     ELSE Becomes(s, Onward(Reading(s))) /\ UNCHANGED <<treeVars, kid, evidence, left>>

\* A report, of which edits of the source, with what of it a later step
\* compares: the tarball, the official commit, the versions of the plugin and
\* of the runtime, which conformance has in a constant, and how a crash
\* fixture's child died.
Written(s, report) ==
  [by |-> s, read |-> run[s].read, commit |-> run[s].commit, plugin |-> source.plugin,
   runtime |-> IF report = "conformance" THEN [p \in Packages |-> NamedVersion]
               ELSE source.runtime,
   packed |-> IF report \in {"packed-install", "screenshot"} THEN run[s].packed ELSE -1,
   killed |-> run[s].script \in {"crashJson", "crashSqlite"}
                => kid[s].spoke /\ kid[s].by = "SIGKILL"]

Report(s) ==
  /\ At(s, "report")
  /\ Becomes(s, Onward(run[s]))
  /\ evidence' = [evidence EXCEPT ![On(s)] = Written(s, On(s))]
  /\ UNCHANGED <<treeVars, kid, left>>

-----------------------------------------------------------------------------
(* Supervised children.  To speak is to write the marker of a committed    *)
(* ledger, the URL of a ready server, or a worker's result; what was said  *)
(* stays in the pipe.                                                      *)

Kid(s, k) == kid' = [kid EXCEPT ![s] = k]
NoTrace == UNCHANGED <<treeVars, evidence, left>>

Spawn(s) ==
  /\ At(s, "spawn")
  /\ Becomes(s, Onward(Reading(s))) /\ Kid(s, [NoKid EXCEPT !.alive = TRUE])
  /\ NoTrace

KidSpeaks(s) ==
  /\ kid[s].alive /\ ~kid[s].spoke /\ Kid(s, [kid[s] EXCEPT !.spoke = TRUE])
  /\ NoTrace /\ UNCHANGED run

\* A signal that was sent, or its own end.
KidDies(s, by) ==
  /\ kid[s].alive /\ by \in {kid[s].sent, "itself"} \ {"nothing"}
  /\ Kid(s, [kid[s] EXCEPT !.alive = FALSE, !.by = by])
  /\ NoTrace /\ UNCHANGED run

Awaits(s, what) == At(s, "await") /\ On(s) = what
Resolves(s) == Becomes(s, Onward(run[s]))
Rejects(s) == Becomes(s, Thrown(run[s]))

\* killAfterCommit(): the marker is answered with SIGKILL, which fails when
\* the child is gone.
SeesMarker(s) ==
  /\ Awaits(s, "crash") /\ kid[s].spoke /\ ~kid[s].seen
  /\ Kid(s, [kid[s] EXCEPT !.seen = TRUE,
                           !.sent = IF kid[s].alive THEN "SIGKILL" ELSE @])
  /\ IF kid[s].alive THEN UNCHANGED run ELSE Rejects(s)
  /\ NoTrace

\* Mutant: an exit after the marker will do, whatever the cause.
CrashExitAnyCause(s) ==
  /\ Awaits(s, "crash") /\ ~kid[s].alive
  /\ IF kid[s].seen THEN Resolves(s) ELSE Rejects(s)
  /\ NoTrace /\ UNCHANGED kid

CrashExit(s) ==
  /\ Awaits(s, "crash") /\ ~kid[s].alive
  /\ IF kid[s].seen /\ kid[s].by = "SIGKILL" THEN Resolves(s) ELSE Rejects(s)
  /\ NoTrace /\ UNCHANGED kid

\* Mutant: the timeout no longer guards the wait for the marker.
CrashTimesOutMarked(s) ==
  /\ Awaits(s, "crash") /\ kid[s].seen
  /\ Rejects(s) /\ Kid(s, [kid[s] EXCEPT !.sent = "SIGKILL"])
  /\ NoTrace

CrashTimesOut(s) ==
  /\ Awaits(s, "crash")
  /\ Rejects(s) /\ Kid(s, [kid[s] EXCEPT !.sent = "SIGKILL"])
  /\ NoTrace

\* startWeb(): the server is the caller's, to stop, once it is ready.  A poll
\* reads the output before the exit code.
WebReady(s) ==
  /\ Awaits(s, "web") /\ kid[s].spoke
  /\ Becomes(s, [Onward(run[s]) EXCEPT !.holds = @ \cup {"web"}])
  /\ NoTrace /\ UNCHANGED kid

WebExit(s) ==
  /\ Awaits(s, "web") /\ ~kid[s].spoke /\ ~kid[s].alive
  /\ Rejects(s) /\ NoTrace /\ UNCHANGED kid

WebTimesOut(s) ==
  /\ Awaits(s, "web") /\ ~kid[s].spoke
  /\ Rejects(s) /\ Kid(s, [kid[s] EXCEPT !.timedOut = TRUE])
  /\ NoTrace

\* stopChild() of the server there is, if any: SIGTERM, then SIGKILL.
StopWeb(s) ==
  /\ At(s, "stop")
  /\ IF "web" \notin run[s].holds \/ ~kid[s].alive
       THEN /\ Becomes(s, Onward(Holding(s, run[s].holds \ {"web"})))
            /\ UNCHANGED kid
       ELSE /\ kid[s].sent # "SIGKILL" /\ UNCHANGED run
            /\ Kid(s, [kid[s] EXCEPT !.sent = IF @ = "nothing" THEN "SIGTERM"
                                              ELSE "SIGKILL"])
  /\ NoTrace

\* runStockWorker(): its close answers, and a timeout only kills it.
StockClose(s) ==
  /\ Awaits(s, "stock") /\ ~kid[s].alive
  /\ IF ~kid[s].timedOut /\ kid[s].spoke THEN Resolves(s) ELSE Rejects(s)
  /\ NoTrace /\ UNCHANGED kid

StockTimesOut(s) ==
  /\ Awaits(s, "stock") /\ ~kid[s].timedOut
  /\ Kid(s, [kid[s] EXCEPT !.timedOut = TRUE,
                           !.sent = IF kid[s].alive THEN "SIGKILL" ELSE @])
  /\ NoTrace /\ UNCHANGED run

StockOverflows(s) ==
  /\ Awaits(s, "stock") /\ kid[s].alive
  /\ Rejects(s) /\ Kid(s, [kid[s] EXCEPT !.sent = "SIGKILL"])
  /\ NoTrace

Supervises(s) ==
  \/ SeesMarker(s) \/ CrashExit(s) \/ CrashTimesOut(s)
  \/ WebReady(s) \/ WebExit(s) \/ WebTimesOut(s) \/ StopWeb(s)
  \/ StockClose(s) \/ StockTimesOut(s) \/ StockOverflows(s)

\* What a process does of its own accord, but start and exit.
Works(s) ==
  \/ MayThrow(s) \/ Baseline(s) \/ Checkout(s) \/ Commands(s) \/ Pack(s) \/ Sync(s)
  \/ Take(s) \/ Drop(s) \/ WorktreeStays(s) \/ Measure(s) \/ Report(s)
  \/ Spawn(s) \/ Supervises(s)

KidActs(s) == KidSpeaks(s) \/ \E by \in {"itself", "SIGTERM", "SIGKILL"} : KidDies(s, by)
=============================================================================
