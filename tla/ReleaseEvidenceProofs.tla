----------------------- MODULE ReleaseEvidenceProofs -----------------------
(***************************************************************************)
(* The evidence scripts and the release evidence, for any number of slots, *)
(* runs and changes of the source.                                         *)
(***************************************************************************)
EXTENDS ReleaseEvidence, TLAPS

-----------------------------------------------------------------------------
(* The scripts, step by step.                                              *)

Body(c) == Scripts[c].body
End(c) == Scripts[c].finally

LEMMA WorktreeSteps ==
  /\ Len(PatchedWorktree) = 5
  /\ PatchedWorktree[1] = Do("baseline", "target") /\ PatchedWorktree[2] = Do("checkout", {})
  /\ PatchedWorktree[3] = Command({}) /\ PatchedWorktree[4] = Do("take", "worktree")
  /\ PatchedWorktree[5] = Command({"worktree"})
BY DEF PatchedWorktree

LEMMA ConformanceSteps ==
  LET body == Body("conformance") end == End("conformance") IN
  /\ Len(body) = 10
  /\ body[1] = Do("baseline", "target") /\ body[2] = Do("checkout", {})
  /\ body[3] = Command({}) /\ body[4] = Do("pack", {})
  /\ body[5] = Do("take", "evidence-root") /\ body[6] = Do("take", "stock-fixture")
  /\ body[7] = Command({"stock-fixture"}) /\ body[8] = Do("take", "worktree")
  /\ body[9] = Command({"worktree"}) /\ body[10] = Do("report", "conformance")
  /\ Len(end) = 2
  /\ end[1] = Do("drop", "stock-fixture") /\ end[2] = Do("drop", "worktree")
BY DEF Body, End, Scripts, Script, Conformance, PatchedWorktree

LEMMA VerifySteps ==
  LET body == Body("verify") end == End("verify") IN
  /\ Len(body) = 5
  /\ body[1] = Do("baseline", "commit") /\ body[2] = Do("checkout", {})
  /\ body[3] = Command({}) /\ body[4] = Do("take", "worktree")
  /\ body[5] = Command({"worktree"})
  /\ Len(end) = 1
  /\ end[1] = Do("drop", "worktree")
BY WorktreeSteps DEF Body, End, Scripts, Script, Verify

LEMMA PackedSteps ==
  LET body == Body("packed") end == End("packed") IN
  /\ Len(body) = 18
  /\ body[1] = Do("take", "temporary-root") /\ body[2] = Do("pack", {})
  /\ body[3] = Command({}) /\ body[4] = Do("spawn", "web")
  /\ body[5] = Do("await", "web") /\ body[6] = Command({"web"})
  /\ body[7] = Do("take", "browser") /\ body[8] = Command({"web"})
  /\ body[9] = Do("report", "screenshot") /\ body[10] = Do("drop", "browser")
  /\ body[11] = Do("baseline", "target") /\ body[12] = Do("checkout", {})
  /\ body[13] = Command({}) /\ body[14] = Do("take", "worktree")
  /\ body[15] = Command({"worktree"}) /\ body[16] = Do("drop", "worktree")
  /\ body[17] = Do("stop", "web") /\ body[18] = Do("report", "packed-install")
  /\ Len(end) = 4
  /\ end[1] = Do("drop", "browser") /\ end[2] = Do("drop", "worktree")
  /\ end[3] = Do("stop", "web") /\ end[4] = Do("drop", "temporary-root")
BY DEF Body, End, Scripts, Script, PackedInstall, StrictProof, PatchedWorktree, CaptureGui

LEMMA CrashJsonSteps ==
  LET body == Body("crashJson") end == End("crashJson") IN
  /\ Len(body) = 6
  /\ body[1] = Do("take", "evidence-root") /\ body[2] = Do("take", "crash-fixture")
  /\ body[3] = Do("spawn", "crash") /\ body[4] = Do("await", "crash")
  /\ body[5] = Command({"crash-fixture"}) /\ body[6] = Do("report", "crash-json")
  /\ Len(end) = 1
  /\ end[1] = Do("drop", "crash-fixture")
BY DEF Body, End, Scripts, Script, CrashFixture

LEMMA CrashSqliteSteps ==
  LET body == Body("crashSqlite") end == End("crashSqlite") IN
  /\ Len(body) = 6
  /\ body[1] = Do("take", "evidence-root") /\ body[2] = Do("take", "crash-fixture")
  /\ body[3] = Do("spawn", "crash") /\ body[4] = Do("await", "crash")
  /\ body[5] = Command({"crash-fixture"}) /\ body[6] = Do("report", "crash-sqlite")
  /\ Len(end) = 1
  /\ end[1] = Do("drop", "crash-fixture")
BY DEF Body, End, Scripts, Script, CrashFixture

LEMMA ReproductionSteps ==
  LET body == Body("reproduction") end == End("reproduction") IN
  /\ Len(body) = 5
  /\ body[1] = Do("take", "journal") /\ body[2] = Do("measure", "reproduction")
  /\ body[3] = Do("drop", "journal") /\ body[4] = Do("baseline", "target")
  /\ body[5] = Do("report", "reproduction")
  /\ Len(end) = 1
  /\ end[1] = Do("drop", "journal")
BY DEF Body, End, Scripts, Script, Reproduction

LEMMA StockSteps ==
  LET body == Body("stock") end == End("stock") IN
  /\ Len(body) = 8
  /\ body[1] = Do("take", "stock-journal") /\ body[2] = Do("spawn", "stock")
  /\ body[3] = Do("await", "stock") /\ body[4] = Do("drop", "stock-journal")
  /\ body[5] = Do("take", "journal") /\ body[6] = Do("measure", "reproduction")
  /\ body[7] = Do("drop", "journal") /\ body[8] = Do("baseline", "target")
  /\ Len(end) = 2
  /\ end[1] = Do("drop", "stock-journal") /\ end[2] = Do("drop", "journal")
BY DEF Body, End, Scripts, Script, StockReproduction, Reproduction

LEMMA BenchmarkSteps ==
  LET body == Body("benchmark") end == End("benchmark") IN
  /\ Len(body) = 2
  /\ body[1] = Do("measure", "benchmark") /\ body[2] = Do("report", "benchmark")
  /\ Len(end) = 0
BY DEF Body, End, Scripts, Script, Benchmark

LEMMA DocsSteps ==
  LET body == Body("docs") end == End("docs") IN
  /\ Len(body) = 1
  /\ body[1] = Do("sync", {})
  /\ Len(end) = 0
BY DEF Body, End, Scripts, Script, SyncDocs

Rooting == {"conformance", "crashJson", "crashSqlite"}
Crashing == {"crashJson", "crashSqlite"}

(* What a script takes its finally blocks give back, but an evidence root. *)
Takes(c, step) ==
  step.do = "take" =>
    /\ step.on \in {"evidence-root", "stock-fixture", "crash-fixture", "worktree",
                    "temporary-root", "browser", "journal", "stock-journal"}
    /\ IF step.on = "evidence-root" THEN c \in Rooting
       ELSE \E j \in 1..Len(End(c)) : End(c)[j] = Do("drop", step.on)

(* A step of its own awaits a child that was spawned, a web server is      *)
(* stopped on the way out, and only stopping gives it back.                *)
Awaited(c, i) ==
  LET step == Body(c)[i] IN
  /\ step.do = "spawn" => i < Len(Body(c)) /\ Body(c)[i + 1].do = "await"
  /\ step.do = "await" => step.on \in {"web", "crash", "stock"}
  /\ step.do = "await" /\ step.on = "web" =>
       \E j \in 1..Len(End(c)) : End(c)[j] = Do("stop", "web")
  /\ step.do = "drop" => step.on # "web"
  /\ step.do = "stop" => step.on = "web"

(* A crash is reported after its child was awaited.                        *)
CrashOrder(c, i) ==
  LET step == Body(c)[i] IN
  /\ step.do = "report" => step.on \in Reports
  /\ step.do = "report" /\ step.on \in {"crash-json", "crash-sqlite"} =>
       c \in Crashing /\ i >= 5
  /\ c \in Crashing /\ step.do \in {"spawn", "await", "stop"} => i <= 4
  /\ c \in Crashing /\ step.do = "await" => step.on = "crash"
  /\ c \in Crashing /\ i = 4 => step.do = "await"

Proper(c, i) == Takes(c, Body(c)[i]) /\ Awaited(c, i) /\ CrashOrder(c, i)

GivesBackOnly(c) ==
  \A j \in 1..Len(End(c)) :
    /\ End(c)[j].do \in {"drop", "stop"}
    /\ End(c)[j].do = "stop" <=> End(c)[j].on = "web"

WellFormed(c) ==
  /\ Len(Body(c)) \in Nat \ {0} /\ Len(End(c)) \in Nat
  /\ End(c) = <<>> <=> Len(End(c)) = 0
  /\ GivesBackOnly(c)
  /\ \A i \in 1..Len(Body(c)) : Proper(c, i)

LEMMA ScriptNames ==
  DOMAIN Scripts = {"conformance", "verify", "packed", "crashJson", "crashSqlite",
                    "reproduction", "stock", "benchmark", "docs"}
BY DEF Scripts

LEMMA PackedWeb ==
  LET body == Body("packed") IN
  Len(body) = 18 /\ body[4] = Do("spawn", "web") /\ body[5] = Do("await", "web")
BY PackedSteps

LEMMA PackedEnd ==
  LET end == End("packed") IN
  /\ Len(end) = 4
  /\ end[1] = Do("drop", "browser") /\ end[2] = Do("drop", "worktree")
  /\ end[3] = Do("stop", "web") /\ end[4] = Do("drop", "temporary-root")
BY PackedSteps

LEMMA ConformanceProper == \A i \in 1..Len(Body("conformance")) : Proper("conformance", i)
<1> SUFFICES ASSUME NEW i \in 1..10 PROVE Proper("conformance", i)
  BY ConformanceSteps
<1>1. CASE i \in 1..2
  BY <1>1, ConformanceSteps
  DEF Proper, Takes, Awaited, CrashOrder, Do, Command, Rooting, Crashing, Reports
<1>2. CASE i \in 3..5
  BY <1>2, ConformanceSteps
  DEF Proper, Takes, Awaited, CrashOrder, Do, Command, Rooting, Crashing, Reports
<1>3. CASE i \in 6..8
  BY <1>3, ConformanceSteps
  DEF Proper, Takes, Awaited, CrashOrder, Do, Command, Rooting, Crashing, Reports
<1>4. CASE i \in 9..10
  BY <1>4, ConformanceSteps
  DEF Proper, Takes, Awaited, CrashOrder, Do, Command, Rooting, Crashing, Reports
<1> QED
  BY <1>1, <1>2, <1>3, <1>4

LEMMA VerifyProper == \A i \in 1..Len(Body("verify")) : Proper("verify", i)
BY VerifySteps
DEF Proper, Takes, Awaited, CrashOrder, Do, Command, Rooting, Crashing, Reports

LEMMA PackedProper == \A i \in 1..Len(Body("packed")) : Proper("packed", i)
<1> SUFFICES ASSUME NEW i \in 1..18 PROVE Proper("packed", i)
  BY PackedSteps
<1>1. CASE i = 1
  BY <1>1, PackedSteps
  DEF Proper, Takes, Awaited, CrashOrder, Do, Command, Rooting, Crashing, Reports
<1>2. CASE i \in 2..3
  BY <1>2, PackedSteps
  DEF Proper, Takes, Awaited, CrashOrder, Do, Command, Rooting, Crashing, Reports
<1>3. CASE i = 4
  BY <1>3, PackedWeb
  DEF Proper, Takes, Awaited, CrashOrder, Do, Command, Rooting, Crashing, Reports
<1>4. CASE i = 5
  BY <1>4, PackedSteps
  DEF Proper, Takes, Awaited, CrashOrder, Do, Command, Rooting, Crashing, Reports
<1>5. CASE i = 6
  BY <1>5, PackedSteps
  DEF Proper, Takes, Awaited, CrashOrder, Do, Command, Rooting, Crashing, Reports
<1>6. CASE i \in 7..9
  BY <1>6, PackedSteps
  DEF Proper, Takes, Awaited, CrashOrder, Do, Command, Rooting, Crashing, Reports
<1>7. CASE i \in 10..12
  BY <1>7, PackedSteps
  DEF Proper, Takes, Awaited, CrashOrder, Do, Command, Rooting, Crashing, Reports
<1>8. CASE i \in 13..15
  BY <1>8, PackedSteps
  DEF Proper, Takes, Awaited, CrashOrder, Do, Command, Rooting, Crashing, Reports
<1>9. CASE i \in 16..18
  BY <1>9, PackedSteps
  DEF Proper, Takes, Awaited, CrashOrder, Do, Command, Rooting, Crashing, Reports
<1> QED
  BY <1>1, <1>2, <1>3, <1>4, <1>5, <1>6, <1>7, <1>8, <1>9

LEMMA CrashJsonProper == \A i \in 1..Len(Body("crashJson")) : Proper("crashJson", i)
BY CrashJsonSteps
DEF Proper, Takes, Awaited, CrashOrder, Do, Command, Rooting, Crashing, Reports

LEMMA CrashSqliteProper == \A i \in 1..Len(Body("crashSqlite")) : Proper("crashSqlite", i)
BY CrashSqliteSteps
DEF Proper, Takes, Awaited, CrashOrder, Do, Command, Rooting, Crashing, Reports

LEMMA ReproductionProper == \A i \in 1..Len(Body("reproduction")) : Proper("reproduction", i)
BY ReproductionSteps
DEF Proper, Takes, Awaited, CrashOrder, Do, Command, Rooting, Crashing, Reports

LEMMA StockProper == \A i \in 1..Len(Body("stock")) : Proper("stock", i)
<1> SUFFICES ASSUME NEW i \in 1..8 PROVE Proper("stock", i)
  BY StockSteps
<1>1. CASE i \in 1..2
  BY <1>1, StockSteps
  DEF Proper, Takes, Awaited, CrashOrder, Do, Command, Rooting, Crashing, Reports
<1>2. CASE i \in 3..5
  BY <1>2, StockSteps
  DEF Proper, Takes, Awaited, CrashOrder, Do, Command, Rooting, Crashing, Reports
<1>3. CASE i \in 6..8
  BY <1>3, StockSteps
  DEF Proper, Takes, Awaited, CrashOrder, Do, Command, Rooting, Crashing, Reports
<1> QED
  BY <1>1, <1>2, <1>3

LEMMA BenchmarkProper == \A i \in 1..Len(Body("benchmark")) : Proper("benchmark", i)
BY BenchmarkSteps
DEF Proper, Takes, Awaited, CrashOrder, Do, Command, Rooting, Crashing, Reports

LEMMA DocsProper == \A i \in 1..Len(Body("docs")) : Proper("docs", i)
BY DocsSteps
DEF Proper, Takes, Awaited, CrashOrder, Do, Command, Rooting, Crashing, Reports

LEMMA AllGiveBackOnly == \A c \in DOMAIN Scripts : GivesBackOnly(c)
<1>1. GivesBackOnly("conformance")
  BY ConformanceSteps DEF GivesBackOnly, Do
<1>2. GivesBackOnly("verify")
  BY VerifySteps DEF GivesBackOnly, Do
<1>3. GivesBackOnly("packed")
  BY PackedEnd DEF GivesBackOnly, Do
<1>4. GivesBackOnly("crashJson")
  BY CrashJsonSteps DEF GivesBackOnly, Do
<1>5. GivesBackOnly("crashSqlite")
  BY CrashSqliteSteps DEF GivesBackOnly, Do
<1>6. GivesBackOnly("reproduction")
  BY ReproductionSteps DEF GivesBackOnly, Do
<1>7. GivesBackOnly("stock")
  BY StockSteps DEF GivesBackOnly, Do
<1>8. GivesBackOnly("benchmark")
  BY BenchmarkSteps DEF GivesBackOnly, Do
<1>9. GivesBackOnly("docs")
  BY DocsSteps DEF GivesBackOnly, Do
<1> QED
  BY <1>1, <1>2, <1>3, <1>4, <1>5, <1>6, <1>7, <1>8, <1>9, ScriptNames

LEMMA EmptyEnd == \A c \in DOMAIN Scripts : End(c) = <<>> <=> Len(End(c)) = 0
BY ScriptNames
   DEF End, Scripts, Script, Conformance, Verify, PackedInstall, CrashFixture, Reproduction,
       StockReproduction, Benchmark, SyncDocs

LEMMA WellFormedScripts == \A c \in DOMAIN Scripts : WellFormed(c)
<1>1. WellFormed("conformance")
  BY ConformanceSteps, ConformanceProper, EmptyEnd, AllGiveBackOnly, ScriptNames DEF WellFormed
<1>2. WellFormed("verify")
  BY VerifySteps, VerifyProper, EmptyEnd, AllGiveBackOnly, ScriptNames DEF WellFormed
<1>3. WellFormed("packed")
  BY PackedSteps, PackedProper, EmptyEnd, AllGiveBackOnly, ScriptNames DEF WellFormed
<1>4. WellFormed("crashJson")
  BY CrashJsonSteps, CrashJsonProper, EmptyEnd, AllGiveBackOnly, ScriptNames DEF WellFormed
<1>5. WellFormed("crashSqlite")
  BY CrashSqliteSteps, CrashSqliteProper, EmptyEnd, AllGiveBackOnly, ScriptNames DEF WellFormed
<1>6. WellFormed("reproduction")
  BY ReproductionSteps, ReproductionProper, EmptyEnd, AllGiveBackOnly, ScriptNames DEF WellFormed
<1>7. WellFormed("stock")
  BY StockSteps, StockProper, EmptyEnd, AllGiveBackOnly, ScriptNames DEF WellFormed
<1>8. WellFormed("benchmark")
  BY BenchmarkSteps, BenchmarkProper, EmptyEnd, AllGiveBackOnly, ScriptNames DEF WellFormed
<1>9. WellFormed("docs")
  BY DocsSteps, DocsProper, EmptyEnd, AllGiveBackOnly, ScriptNames DEF WellFormed
<1> QED
  BY <1>1, <1>2, <1>3, <1>4, <1>5, <1>6, <1>7, <1>8, <1>9, ScriptNames

-----------------------------------------------------------------------------
(* A slot: its process r and its child k.                                  *)

Resources ==
  {"evidence-root", "stuck-worktree", "stock-fixture", "crash-fixture", "worktree",
   "temporary-root", "browser", "journal", "stock-journal", "web"}
Lasting == {"evidence-root", "stuck-worktree"}

RunType ==
  [script : DOMAIN Scripts \cup {Idle}, phase : {"body", "finally", "over"}, at : Nat,
   failed : BOOLEAN, holds : SUBSET Resources, read : SUBSET Nat, packed : Int,
   commit : Int, making : BOOLEAN]

KidType ==
  [alive : BOOLEAN, spoke : BOOLEAN, sent : {"nothing", "SIGTERM", "SIGKILL"},
   by : {"nobody", "itself", "SIGTERM", "SIGKILL"}, seen : BOOLEAN, timedOut : BOOLEAN]

(* A process is at a step, and only an intact one in its body.             *)
Placed(r) ==
  /\ r.script \in DOMAIN Scripts
  /\ r.phase = "body" => r.at \in 1..Len(Body(r.script)) /\ ~r.failed
  /\ r.phase = "finally" => r.at \in 1..Len(End(r.script))

(* The finally blocks that are still to come give x back.                  *)
GivesBack(r, x) ==
  \E j \in 1..Len(End(r.script)) :
    /\ End(r.script)[j].on = x
    /\ r.phase = "body" \/ (r.phase = "finally" /\ j >= r.at)

Tidy(r) ==
  /\ \A x \in r.holds \ Lasting : GivesBack(r, x)
  /\ "evidence-root" \in r.holds => r.script \in Rooting

(* Somebody minds a child that lives: its process waits for it, or will    *)
(* stop it, or it was sent what it cannot refuse, or nobody could.         *)
Awaiting(r) == r.phase = "body" /\ Body(r.script)[r.at].do = "await"
Minded(r, k) ==
  k.alive => Awaiting(r) \/ k.sent = "SIGKILL" \/ k.timedOut \/ "web" \in r.holds

(* From step 5 of a crash fixture on its child has committed, and been     *)
(* killed.                                                                 *)
Crashed(r, k) ==
  /\ k.seen => k.spoke
  /\ r.script \in Crashing /\ r.phase = "body" /\ r.at >= 5 =>
       ~k.alive /\ k.spoke /\ k.by = "SIGKILL"

SlotOK(r, k) ==
  IF r.script = Idle THEN r = NoProcess /\ k = NoKid
  ELSE Placed(r) /\ Tidy(r) /\ Minded(r, k) /\ Crashed(r, k)

(* Where a process goes on, and where what it throws takes it.             *)
OnTo(r, q) ==
  /\ q.script = r.script /\ q.failed = r.failed
  /\ \/ r.at < Len(Part(r)) /\ q.phase = r.phase /\ q.at = r.at + 1
     \/ /\ r.at = Len(Part(r)) /\ r.phase = "body" /\ Len(End(r.script)) > 0
        /\ q.phase = "finally" /\ q.at = 1
     \/ /\ r.at = Len(Part(r)) /\ (r.phase = "body" => Len(End(r.script)) = 0)
        /\ q.phase = "over" /\ q.at = 0

OutTo(r, q) ==
  /\ q.script = r.script /\ q.failed
  /\ \/ r.phase = "body" /\ Len(End(r.script)) > 0 /\ q.phase = "finally" /\ q.at = 1
     \/ r.phase = "body" /\ Len(End(r.script)) = 0 /\ q.phase = "over" /\ q.at = 0
     \/ /\ r.phase = "finally" /\ r.at < Len(Part(r))
        /\ q.phase = "finally" /\ q.at = r.at + 1
     \/ r.phase = "finally" /\ r.at = Len(Part(r)) /\ q.phase = "over" /\ q.at = 0

SameBelongings(r, q) ==
  /\ q.holds = r.holds /\ q.read = r.read /\ q.packed = r.packed
  /\ q.commit = r.commit /\ q.making = r.making

LEMMA PartOf ==
  ASSUME NEW r, r.script \in DOMAIN Scripts
  PROVE  /\ r.phase = "body" => Part(r) = Body(r.script)
         /\ r.phase = "finally" => Part(r) = End(r.script)
BY DEF Part, Body, End

LEMMA Lengths ==
  ASSUME NEW r, Placed(r)
  PROVE  /\ Len(Body(r.script)) \in Nat \ {0} /\ Len(End(r.script)) \in Nat
         /\ End(r.script) = <<>> <=> Len(End(r.script)) = 0
BY WellFormedScripts DEF Placed, WellFormed

LEMMA OnwardPlace ==
  ASSUME NEW r \in RunType, Placed(r), r.phase # "over", NEW q, q = Onward(r)
  PROVE  q \in RunType /\ OnTo(r, q) /\ SameBelongings(r, q)
<1>1. Len(End(r.script)) \in Nat /\ (End(r.script) = <<>> <=> Len(End(r.script)) = 0)
  BY Lengths
<1>2. /\ Len(Part(r)) \in Nat /\ r.at \in 1..Len(Part(r)) /\ r.phase \in {"body", "finally"}
      /\ r.failed \in BOOLEAN /\ r.at \in Nat
  BY PartOf, Lengths DEF Placed, RunType
<1>3. CASE r.at < Len(Part(r))
  <2>1. q \in RunType /\ SameBelongings(r, q) /\ q.failed = r.failed
    BY <1>2, <1>3 DEF Onward, RunType, SameBelongings
  <2>2. q.script = r.script /\ q.phase = r.phase /\ q.at = r.at + 1
    BY <1>2, <1>3 DEF Onward, RunType
  <2> QED
    BY <1>3, <2>1, <2>2 DEF OnTo
<1>4. CASE ~(r.at < Len(Part(r))) /\ r.phase = "body" /\ End(r.script) # <<>>
  <2>1. q \in RunType /\ SameBelongings(r, q) /\ q.failed = r.failed
    BY <1>4 DEF Onward, Finally, End, RunType, SameBelongings
  <2>2. q.script = r.script /\ q.phase = "finally" /\ q.at = 1
    BY <1>4 DEF Onward, Finally, End, RunType
  <2> QED
    BY <1>1, <1>2, <1>4, <2>1, <2>2 DEF OnTo
<1>5. CASE ~(r.at < Len(Part(r))) /\ ~(r.phase = "body" /\ End(r.script) # <<>>)
  <2>1. q \in RunType /\ SameBelongings(r, q) /\ q.failed = r.failed
    BY <1>5 DEF Onward, Finally, End, RunType, SameBelongings
  <2>2. q.script = r.script /\ q.phase = "over" /\ q.at = 0
    BY <1>5 DEF Onward, Finally, End, RunType
  <2> QED
    BY <1>1, <1>2, <1>5, <2>1, <2>2 DEF OnTo
<1> QED
  BY <1>3, <1>4, <1>5

LEMMA ThrownPlace ==
  ASSUME NEW r \in RunType, Placed(r), r.phase # "over", NEW q, q = Thrown(r)
  PROVE  q \in RunType /\ OutTo(r, q) /\ SameBelongings(r, q)
<1>1. Len(End(r.script)) \in Nat /\ (End(r.script) = <<>> <=> Len(End(r.script)) = 0)
  BY Lengths
<1>2. r.phase \in {"body", "finally"}
  BY DEF RunType
<1>3. CASE r.phase = "body" /\ End(r.script) = <<>>
  <2>1. q \in RunType /\ SameBelongings(r, q) /\ q.failed = TRUE
    BY <1>3 DEF Thrown, Finally, End, RunType, SameBelongings
  <2>2. q.script = r.script /\ q.phase = "over" /\ q.at = 0
    BY <1>3 DEF Thrown, Finally, End, RunType
  <2> QED
    BY <1>1, <1>3, <2>1, <2>2 DEF OutTo
<1>4. CASE r.phase = "body" /\ End(r.script) # <<>>
  <2>1. q \in RunType /\ SameBelongings(r, q) /\ q.failed = TRUE
    BY <1>4 DEF Thrown, Finally, End, RunType, SameBelongings
  <2>2. q.script = r.script /\ q.phase = "finally" /\ q.at = 1
    BY <1>4 DEF Thrown, Finally, End, RunType
  <2> QED
    BY <1>1, <1>4, <2>1, <2>2 DEF OutTo
<1>5. CASE r.phase = "finally"
  <2>1. q = [Onward(r) EXCEPT !.failed = TRUE]
    BY <1>5 DEF Thrown
  <2>2. Onward(r) \in RunType /\ OnTo(r, Onward(r)) /\ SameBelongings(r, Onward(r))
    BY OnwardPlace
  <2> QED
    BY <1>5, <2>1, <2>2 DEF RunType, OnTo, OutTo, SameBelongings
<1> QED
  BY <1>2, <1>3, <1>4, <1>5

LEMMA PlaceKept ==
  ASSUME NEW r \in RunType, NEW q \in RunType, Placed(r), r.phase # "over",
         OnTo(r, q) \/ OutTo(r, q)
  PROVE  /\ Placed(q)
         /\ \A x : GivesBack(r, x) /\ (r.phase = "finally" => End(r.script)[r.at].on # x) =>
              GivesBack(q, x)
<1>1. /\ Len(Body(r.script)) \in Nat /\ Len(End(r.script)) \in Nat
      /\ r.script \in DOMAIN Scripts /\ q.script = r.script
  BY Lengths DEF Placed, OnTo, OutTo
<1>2. /\ r.phase = "body" => Part(r) = Body(r.script) /\ r.at \in 1..Len(Body(r.script)) /\ ~r.failed
      /\ r.phase = "finally" => Part(r) = End(r.script) /\ r.at \in 1..Len(End(r.script))
      /\ r.phase \in {"body", "finally"} /\ r.at \in Nat
  BY <1>1, PartOf DEF RunType, Placed
<1>3. Placed(q)
  <2>1. q.phase = "body" => q.at \in 1..Len(Body(r.script)) /\ ~q.failed
    BY <1>1, <1>2 DEF OnTo, OutTo
  <2>2. q.phase = "finally" => q.at \in 1..Len(End(r.script))
    BY <1>1, <1>2 DEF OnTo, OutTo
  <2> QED
    BY <1>1, <2>1, <2>2 DEF Placed
<1>4. ASSUME NEW x, GivesBack(r, x), r.phase = "finally" => End(r.script)[r.at].on # x
      PROVE  GivesBack(q, x)
  <2>1. PICK j \in 1..Len(End(r.script)) :
          /\ End(r.script)[j].on = x
          /\ r.phase = "body" \/ (r.phase = "finally" /\ j >= r.at)
    BY <1>4 DEF GivesBack
  <2>2. r.phase = "finally" => j > r.at
    BY <1>1, <1>2, <1>4, <2>1
  <2>3. q.script = r.script /\ (q.phase = "body" \/ (q.phase = "finally" /\ j >= q.at))
    BY <1>1, <1>2, <2>1, <2>2 DEF OnTo, OutTo
  <2> QED
    BY <2>1, <2>3 DEF GivesBack
<1> QED
  BY <1>3, <1>4

Versions == [Packages -> Nat]
TargetType == [commit : Nat, patch : Nat]
BaselineType ==
  [commit : Nat, targets : SUBSET TargetType, current : BOOLEAN, npm : Versions,
   discussion : Nat, observed : Nat]
SourceType ==
  [edit : Nat, synced : BOOLEAN, picture : Int, patch : Nat, plugin : Nat,
   runtime : Versions, baseline : BaselineType]

SlotsOK ==
  /\ source \in SourceType
  /\ run \in [Slots -> RunType] /\ kid \in [Slots -> KidType]
  /\ \A s \in Slots : SlotOK(run[s], kid[s])

LEMMA MoveKept ==
  ASSUME NEW r \in RunType, NEW q \in RunType, NEW k \in KidType, NEW l \in KidType,
         SlotOK(r, k), r.script # Idle, r.phase # "over", OnTo(r, q) \/ OutTo(r, q),
         \A x \in q.holds \ Lasting :
           GivesBack(r, x) /\ (r.phase = "finally" => End(r.script)[r.at].on # x),
         "evidence-root" \in q.holds => r.script \in Rooting,
         Minded(q, l), Crashed(q, l)
  PROVE  SlotOK(q, l)
<1>1. Placed(r) /\ q.script = r.script
  BY DEF SlotOK, OnTo, OutTo
<1>2. Placed(q) /\ \A x \in q.holds \ Lasting : GivesBack(q, x)
  BY <1>1, PlaceKept
<1> QED
  BY <1>1, <1>2 DEF SlotOK, Tidy

LEMMA InBody ==
  ASSUME NEW r \in RunType, Placed(r), r.phase = "body"
  PROVE  /\ Proper(r.script, r.at) /\ r.at \in 1..Len(Body(r.script))
         /\ r.script \in DOMAIN Scripts /\ r.at \in Nat
BY WellFormedScripts DEF WellFormed, Placed, RunType

(* A process that goes past a step that neither awaits nor takes anything, *)
(* or is thrown out of it.                                                 *)
LEMMA QuietMove ==
  ASSUME NEW r \in RunType, NEW q \in RunType, NEW k \in KidType,
         SlotOK(r, k), r.script # Idle, r.phase = "body",
         Body(r.script)[r.at].do # "await", OnTo(r, q) \/ OutTo(r, q), q.holds = r.holds
  PROVE  SlotOK(q, k)
<1>1. Placed(r) /\ Tidy(r) /\ Minded(r, k) /\ Crashed(r, k)
  BY DEF SlotOK
<1>2. q.phase = "body" => q.at = r.at + 1 /\ q.script = r.script
  BY DEF OnTo, OutTo
<1>3. Crashed(q, k)
  <2>1. r.script \in Crashing => r.at # 4
    BY <1>1, InBody DEF Proper, CrashOrder
  <2> QED
    BY <1>1, <1>2, <2>1, InBody DEF Crashed
<1>4. Minded(q, k)
  BY <1>1 DEF Minded, Awaiting
<1> QED
  BY <1>1, <1>3, <1>4, MoveKept DEF Tidy

SamePlace(r, q) ==
  q.script = r.script /\ q.phase = r.phase /\ q.at = r.at /\ q.failed = r.failed

LEMMA OnwardFrom ==
  ASSUME NEW r \in RunType, NEW p \in RunType, Placed(r), r.phase # "over", SamePlace(r, p),
         NEW q, q = Onward(p)
  PROVE  q \in RunType /\ OnTo(r, q) /\ SameBelongings(p, q)
<1>1. Placed(p) /\ p.phase # "over"
  BY DEF SamePlace, Placed
<1>2. q \in RunType /\ OnTo(p, q) /\ SameBelongings(p, q)
  BY <1>1, OnwardPlace
<1>3. Part(p) = Part(r)
  BY DEF Part, SamePlace
<1> QED
  BY <1>2, <1>3 DEF OnTo, SamePlace

LEMMA OneSlot ==
  ASSUME SlotsOK, NEW s \in Slots, NEW q \in RunType, NEW l \in KidType, SlotOK(q, l),
         run' = [run EXCEPT ![s] = q], kid' = [kid EXCEPT ![s] = l] \/ (kid' = kid /\ l = kid[s]),
         source' \in SourceType
  PROVE  SlotsOK'
<1>1. run' \in [Slots -> RunType] /\ kid' \in [Slots -> KidType]
  BY DEF SlotsOK
<1>2. \A t \in Slots \ {s} : run'[t] = run[t] /\ kid'[t] = kid[t]
  BY DEF SlotsOK
<1>3. run'[s] = q /\ kid'[s] = l
  BY DEF SlotsOK
<1>4. \A t \in Slots : SlotOK(run'[t], kid'[t])
  BY <1>2, <1>3 DEF SlotsOK
<1> QED
  BY <1>1, <1>4 DEF SlotsOK

LEMMA StepAt ==
  ASSUME SlotsOK, NEW s \in Slots, NEW do, At(s, do)
  PROVE  LET r == run[s] IN
         /\ r \in RunType /\ kid[s] \in KidType /\ SlotOK(r, kid[s])
         /\ r.script # Idle /\ r.phase # "over"
         /\ Placed(r) /\ Tidy(r) /\ Minded(r, kid[s]) /\ Crashed(r, kid[s])
         /\ \/ /\ r.phase = "body" /\ Body(r.script)[r.at] = Part(r)[r.at]
               /\ Body(r.script)[r.at].do = do /\ Proper(r.script, r.at)
            \/ /\ r.phase = "finally" /\ End(r.script)[r.at] = Part(r)[r.at]
               /\ End(r.script)[r.at].do = do
               /\ do \in {"drop", "stop"} /\ (do = "stop" <=> On(s) = "web")
<1> DEFINE r == run[s]
<1>1. /\ r \in RunType /\ kid[s] \in KidType /\ SlotOK(r, kid[s])
      /\ r.script # Idle /\ r.phase # "over" /\ Part(r)[r.at].do = do
  BY DEF SlotsOK, At, Running
<1>2. Placed(r) /\ Tidy(r) /\ Minded(r, kid[s]) /\ Crashed(r, kid[s])
  BY <1>1 DEF SlotOK
<1>3. r.phase \in {"body", "finally"} /\ r.script \in DOMAIN Scripts
  BY <1>1, <1>2 DEF RunType, Placed
<1>4. CASE r.phase = "body"
  BY <1>1, <1>2, <1>3, <1>4, PartOf, InBody
<1>5. CASE r.phase = "finally"
  <2>1. Part(r) = End(r.script) /\ r.at \in 1..Len(End(r.script)) /\ On(s) = End(r.script)[r.at].on
    BY <1>2, <1>3, <1>5, PartOf DEF Placed, On
  <2>2. GivesBackOnly(r.script)
    BY <1>3, AllGiveBackOnly
  <2> QED
    BY <1>1, <1>2, <1>5, <2>1, <2>2 DEF GivesBackOnly
<1> QED
  BY <1>1, <1>2, <1>3, <1>4, <1>5

-----------------------------------------------------------------------------
(* The tree and what was left of the runs.                                 *)

ReportType ==
  [by : Slots, read : SUBSET Nat, commit : Int, plugin : Nat, runtime : Versions,
   packed : Int, killed : BOOLEAN]

TreeOK ==
  /\ fixtures \subseteq Fixtures
  /\ \A f \in fixtures : \E s \in Slots : f \in run[s].holds
  /\ tarball \in Int
  /\ source.baseline.current <=>
       \A t \in source.baseline.targets : t.commit = source.baseline.commit
  /\ \A t, u \in source.baseline.targets : t = u

EvidenceOK ==
  /\ evidence \in [Reports -> ReportType \cup {None}]
  /\ \A e \in {"crash-json", "crash-sqlite"} : evidence[e] # None => evidence[e].killed
  /\ collector.pc = "promoting" => \A e \in Reports : evidence[e] # None

LeftOK ==
  \A item \in left :
    \E s \in Slots, c \in DOMAIN Scripts, x \in Lasting :
      item = <<s, c, x>> /\ (x = "evidence-root" => c \in Rooting)

-----------------------------------------------------------------------------
(* The collection.                                                         *)

Pcs == {"idle", "commands", "waiting", "promoting", "writing", "cleaning", "ended"} \cup Stopped
Beyond == {"promoting", "writing", "cleaning", "ended", "rejected", "stale-picture"}

(* A collection is past step j of its command i.                           *)
Past(i, j) ==
  \/ collector.pc \in Beyond
  \/ collector.pc \in {"commands", "waiting"} /\ collector.at > i
  \/ /\ collector.pc = "waiting" /\ collector.at = i /\ ~run[Collector].failed
     /\ run[Collector].phase # "body" \/ run[Collector].at > j

Targeted(baseline) == \E t \in baseline.targets : t.commit = baseline.commit

(* What a step has brought about that later ones depend on.                *)
Achieved(step) ==
  /\ step.do = "report" => evidence[step.on] # None
  /\ step.do = "sync" => source.synced
  /\ step.do = "baseline" /\ step.on = "target" => Targeted(source.baseline)

Progress ==
  \A i \in 1..7 : \A j \in 1..Len(Body(CollectCommands[i])) :
    Past(i, j) => Achieved(Body(CollectCommands[i])[j])

Packing ==
  LET r == run[Collector] IN
  /\ r.packed = source.edit => tarball = source.edit
  /\ r.phase = "body" =>
       \A j \in 1..(r.at - 1) : Body(r.script)[j].do = "pack" => r.packed = source.edit

Pinned ==
  LET r == run[Collector] IN
  r.phase = "body" =>
    \A j \in 1..(r.at - 1) :
      Body(r.script)[j].do = "baseline" => r.commit = source.baseline.commit

Honest ==
  /\ \A e \in {"screenshot", "packed-install"} :
       evidence[e] # None => evidence[e].packed = source.edit /\ tarball = source.edit
  /\ \A e \in {"conformance", "packed-install"} :
       evidence[e] # None => evidence[e].commit = source.baseline.commit
  /\ evidence["conformance"] # None =>
       evidence["conformance"].runtime["dsh"] = NamedVersion
  /\ \A e \in {"packed-install", "benchmark"} :
       evidence[e] # None => /\ evidence[e].runtime = source.runtime
                             /\ evidence[e].plugin = source.plugin

Bound ==
  /\ manifest # None \/ collector.pc = "writing" =>
       source.picture = evidence["packed-install"].packed
  /\ manifest # None => /\ manifest.source = source /\ manifest.artifacts = evidence
                        /\ manifest.identities = Identities
  /\ manifest # None \/ collector.pc \in {"promoting", "writing"} => AllValid
  /\ collector.pc \in {"promoting", "writing"} => collector.identities = Identities

(* As long as others leave what it depends on alone.                       *)
Alone == Progress /\ Packing /\ Pinned /\ Honest /\ Bound

Touches == {"edit", "refresh", "report", "pack"}
IdentityType ==
  [plugin : Nat, patch : Nat, commit : Nat, npm : Versions, discussion : Nat, package : Int]
CollectorType ==
  [pc : Pcs, at : Nat, promote : BOOLEAN, identities : IdentityType \cup {None}, begun : Nat]
ManifestType ==
  [source : SourceType, identities : IdentityType \cup {None},
   artifacts : [Reports -> ReportType \cup {None}], touched : SUBSET Touches, begun : Nat]

CollectorOK ==
  /\ collector \in CollectorType /\ touched \in SUBSET Touches
  /\ Running(Collector) <=> collector.pc = "waiting"
  /\ collector.pc = "waiting" =>
       collector.at \in 1..7 /\ run[Collector].script = CollectCommands[collector.at]
  /\ collector.pc = "commands" => collector.at \in 1..8

(* Whatever others do, the collection's reports read no edit older than    *)
(* it, and what put in another's report, or another edit, is on record.    *)
Within(e, begun, edit) == e.by = Collector => e.read \subseteq begun..edit
Foreign(e, others) == e # None /\ e.by # Collector => "report" \in others

Spanned ==
  /\ collector.begun <= source.edit
  /\ collector.begun = source.edit \/ "edit" \in touched
  /\ run[Collector].read \subseteq collector.begun..source.edit
  /\ \A e \in Reports :
       Within(evidence[e], collector.begun, source.edit) /\ Foreign(evidence[e], touched)

ManifestOK ==
  manifest # None =>
    /\ collector.pc \in {"cleaning", "ended"}
    /\ manifest \in ManifestType
    /\ manifest.begun = manifest.source.edit \/ "edit" \in manifest.touched
    /\ \A e \in Reports :
         /\ Within(manifest.artifacts[e], manifest.begun, manifest.source.edit)
         /\ Foreign(manifest.artifacts[e], manifest.touched)

CleanOK ==
  collector.pc = "ended" /\ touched = {} =>
    \A item \in left : item[1] = Collector => item[3] # "evidence-root"

RejectOK ==
  /\ collector.pc = "rejected" => touched # {} \/ ~Releasable \/ ~MeasurementsValid
  /\ collector.pc = "stale-picture" => touched # {} \/ ~collector.promote

-----------------------------------------------------------------------------
(* What the process of a slot does of its own accord.                      *)

Achieves(step) ==
  /\ step.do = "report" => evidence'[step.on] # None
  /\ step.do = "sync" => source'.synced
  /\ step.do = "baseline" /\ step.on = "target" => Targeted(source'.baseline)

Goes(s) ==
  LET r == run[s]
      q == run'[s]
  IN  \/ SamePlace(r, q)
      \/ OutTo(r, q)
      \/ /\ OnTo(r, q)
         /\ r.phase = "body" =>
              /\ Achieves(Body(r.script)[r.at])
              /\ Body(r.script)[r.at].do = "pack" => q.packed = source.edit
              /\ Body(r.script)[r.at].do = "baseline" => q.commit = source.baseline.commit

Writes(s) ==
  /\ At(s, "report")
  /\ evidence' = [evidence EXCEPT ![On(s)] = Written(s, On(s))]
  /\ tarball' = tarball /\ source' = source

Behaves(s) ==
  /\ run' = [run EXCEPT ![s] = run'[s]] /\ Goes(s)
  /\ run'[s].read \subseteq run[s].read \cup {source.edit}
  /\ source' = source \/ source' = [source EXCEPT !.synced = TRUE]
  /\ \/ run'[s].packed = run[s].packed /\ tarball' = tarball
     \/ run'[s].packed = source.edit /\ tarball' = source.edit
  /\ run'[s].commit \in {run[s].commit, source.baseline.commit}
  /\ fixtures' \subseteq fixtures \cup Fixtures
  /\ \A f \in fixtures' : f \in run'[s].holds \/ f \in fixtures \ run[s].holds
  /\ left' = left
  /\ evidence' = evidence \/ Writes(s)

(* Nothing but its process and its child changed.                          *)
LEMMA ItsOwn ==
  ASSUME SlotsOK, NEW s \in Slots, NEW q \in RunType, NEW l \in KidType, SlotOK(q, l),
         Becomes(s, q), kid' = [kid EXCEPT ![s] = l] \/ (kid' = kid /\ l = kid[s]),
         UNCHANGED <<treeVars, evidence, left>>,
         q.read \subseteq run[s].read \cup {source.edit}, q.packed = run[s].packed,
         q.commit = run[s].commit,
         run[s].holds \cap Fixtures \subseteq q.holds, fixtures \subseteq Fixtures,
         \/ SamePlace(run[s], q)
         \/ OutTo(run[s], q)
         \/ /\ OnTo(run[s], q)
            /\ run[s].phase = "body" =>
                 Body(run[s].script)[run[s].at].do \notin {"report", "sync", "baseline", "pack"}
  PROVE  SlotsOK' /\ Behaves(s)
<1>1. source' = source /\ fixtures' = fixtures /\ tarball' = tarball
  BY DEF treeVars
<1>2. run' = [run EXCEPT ![s] = q] /\ run'[s] = q
  BY DEF Becomes, SlotsOK
<1>3. SlotsOK'
  BY <1>1, <1>2, OneSlot DEF SlotsOK
<1>4. Goes(s)
  BY <1>2 DEF Goes, Achieves
<1> QED
  BY <1>1, <1>2, <1>3, <1>4 DEF Behaves

(* What throws in a body goes to the finally blocks.                       *)
LEMMA ThrowsOut ==
  ASSUME SlotsOK, NEW s \in Slots, NEW do, At(s, do), do \notin {"drop", "stop"},
         NEW l \in KidType, Becomes(s, Thrown(run[s])),
         kid' = [kid EXCEPT ![s] = l] \/ (kid' = kid /\ l = kid[s]),
         UNCHANGED <<treeVars, evidence, left>>, fixtures \subseteq Fixtures,
         l.seen => l.spoke,
         l.alive => (do # "await" /\ l = kid[s]) \/ l.sent = "SIGKILL" \/ l.timedOut
  PROVE  SlotsOK' /\ Behaves(s)
<1> DEFINE r == run[s]
<1>1. /\ r \in RunType /\ kid[s] \in KidType /\ SlotOK(r, kid[s]) /\ r.script # Idle
      /\ r.phase = "body" /\ Placed(r) /\ Tidy(r) /\ Minded(r, kid[s])
      /\ Body(r.script)[r.at].do = do
  BY StepAt
<1> HIDE DEF r
<1> SUFFICES ASSUME NEW q, q = Thrown(r)
             PROVE  SlotsOK' /\ Behaves(s)
  OBVIOUS
<1>2. q \in RunType /\ OutTo(r, q) /\ SameBelongings(r, q)
  BY <1>1, ThrownPlace
<1>3. q.phase # "body"
  BY <1>1, <1>2 DEF OutTo
<1>4. Minded(q, l) /\ Crashed(q, l)
  BY <1>1, <1>2, <1>3 DEF Minded, Crashed, Awaiting, SameBelongings
<1>5. SlotOK(q, l)
  BY <1>1, <1>2, <1>4, MoveKept DEF Tidy, SameBelongings
<1> QED
  BY <1>2, <1>5, ItsOwn DEF r, SameBelongings

LEMMA MayThrowKeeps ==
  ASSUME SlotsOK, fixtures \subseteq Fixtures, NEW s \in Slots, MayThrow(s)
  PROVE  SlotsOK' /\ Behaves(s)
<1>1. PICK do \in {"command", "checkout", "take", "pack", "sync", "measure", "spawn"} : At(s, do)
  BY DEF MayThrow
<1>2. kid[s] \in KidType /\ Crashed(run[s], kid[s])
  BY <1>1, StepAt
<1>3. /\ Becomes(s, Thrown(run[s])) /\ kid' = kid
      /\ UNCHANGED <<treeVars, evidence, left>>
  BY DEF MayThrow, Throws
<1> QED
  BY <1>1, <1>2, <1>3, ThrowsOut DEF Crashed

(* The baseline is read, or refused.                                       *)
LEMMA BaselineKeeps ==
  ASSUME SlotsOK, fixtures \subseteq Fixtures, NEW s \in Slots, Baseline(s)
  PROVE  SlotsOK' /\ Behaves(s)
<1> DEFINE r == run[s]
<1>1. /\ r \in RunType /\ kid[s] \in KidType /\ SlotOK(r, kid[s]) /\ r.script # Idle
      /\ r.phase = "body" /\ Placed(r) /\ Crashed(r, kid[s])
      /\ Body(r.script)[r.at].do = "baseline" /\ At(s, "baseline")
  BY StepAt DEF Baseline
<1>2. UNCHANGED <<treeVars, kid, evidence, left>>
  BY DEF Baseline, Throws
<1>3. CASE On(s) = "target" /\ ~Targeted(source.baseline)
  <2>1. Becomes(s, Thrown(run[s]))
    BY <1>3 DEF Baseline, Throws, Targeted
  <2> QED
    BY <1>1, <1>2, <2>1, ThrowsOut DEF Crashed
<1>4. CASE On(s) = "target" => Targeted(source.baseline)
  <2>1. PICK o : /\ o = Onward(r)
                 /\ Becomes(s, [o EXCEPT !.commit = source.baseline.commit])
    BY <1>4 DEF Baseline, Targeted
  <2>2. o \in RunType /\ OnTo(r, o) /\ SameBelongings(r, o)
    BY <1>1, <2>1, OnwardPlace
  <2>3. PICK q : q = [o EXCEPT !.commit = source.baseline.commit] /\ Becomes(s, q)
    BY <2>1
  <2>4. /\ q \in RunType /\ OnTo(r, q) /\ q.holds = r.holds /\ q.read = r.read
        /\ q.packed = r.packed /\ q.commit = source.baseline.commit
    <3>1. source.baseline.commit \in Int
      BY DEF SlotsOK, SourceType, BaselineType
    <3>2. /\ q \in RunType /\ SamePlace(o, q) /\ q.holds = o.holds /\ q.read = o.read
          /\ q.packed = o.packed /\ q.commit = source.baseline.commit
      BY <2>2, <2>3, <3>1 DEF RunType, SamePlace
    <3> QED
      BY <2>2, <3>2 DEF OnTo, SamePlace, SameBelongings
  <2>5. SlotOK(q, kid[s])
    BY <1>1, <2>4, QuietMove
  <2>6. source' = source /\ fixtures' = fixtures /\ tarball' = tarball
    BY <1>2 DEF treeVars
  <2>7. run' = [run EXCEPT ![s] = q] /\ run'[s] = q
    BY <2>3 DEF Becomes, SlotsOK
  <2>8. SlotsOK'
    BY <1>1, <1>2, <2>4, <2>5, <2>6, <2>7, OneSlot DEF SlotsOK
  <2>9. On(s) = Body(r.script)[r.at].on
    BY <1>1, PartOf DEF On, Placed
  <2>10. Goes(s)
    BY <1>1, <1>4, <2>4, <2>6, <2>7, <2>9 DEF Goes, Achieves
  <2> QED
    BY <1>2, <2>4, <2>6, <2>7, <2>8, <2>10 DEF Behaves
<1> QED
  BY <1>3, <1>4

(* A process that goes on from a step of its body that awaits nothing.     *)
LEMMA GoesOn ==
  ASSUME SlotsOK, NEW s \in Slots, NEW do, At(s, do), do \notin {"await", "drop", "stop"},
         NEW p \in RunType, SamePlace(run[s], p), p.holds = run[s].holds,
         NEW q, q = Onward(p)
  PROVE  q \in RunType /\ OnTo(run[s], q) /\ SameBelongings(p, q) /\ SlotOK(q, kid[s])
<1> DEFINE r == run[s]
<1>1. /\ r \in RunType /\ kid[s] \in KidType /\ SlotOK(r, kid[s]) /\ r.script # Idle
      /\ r.phase = "body" /\ Placed(r) /\ Body(r.script)[r.at].do = do
  BY StepAt
<1> HIDE DEF r
<1>2. q \in RunType /\ OnTo(r, q) /\ SameBelongings(p, q)
  BY <1>1, OnwardFrom DEF r
<1>3. SlotOK(q, kid[s])
  BY <1>1, <1>2, QuietMove DEF r, SameBelongings
<1> QED
  BY <1>2, <1>3 DEF r

LEMMA ReadingPlace ==
  ASSUME SlotsOK, NEW s \in Slots
  PROVE  /\ Reading(s) \in RunType /\ SamePlace(run[s], Reading(s))
         /\ Reading(s).holds = run[s].holds /\ Reading(s).packed = run[s].packed
         /\ Reading(s).commit = run[s].commit
         /\ Reading(s).read = run[s].read \cup {source.edit}
BY DEF Reading, SlotsOK, RunType, SourceType, SamePlace

(* The source was read, and nothing else in the tree changed.              *)
LEMMA ReadsOn ==
  ASSUME SlotsOK, fixtures \subseteq Fixtures, NEW s \in Slots, NEW do, At(s, do),
         do \in {"command", "measure"},
         Becomes(s, Onward(Reading(s))), UNCHANGED <<treeVars, kid, evidence, left>>
  PROVE  SlotsOK' /\ Behaves(s)
<1>1. PICK p : p = Reading(s)
  OBVIOUS
<1>2. /\ p \in RunType /\ SamePlace(run[s], p) /\ p.holds = run[s].holds
      /\ p.packed = run[s].packed /\ p.commit = run[s].commit
      /\ p.read = run[s].read \cup {source.edit}
  BY <1>1, ReadingPlace
<1>3. PICK q : q = Onward(p) /\ Becomes(s, q)
  BY <1>1
<1>4. q \in RunType /\ OnTo(run[s], q) /\ SameBelongings(p, q) /\ SlotOK(q, kid[s])
  BY <1>2, <1>3, GoesOn
<1>5. kid[s] \in KidType /\ (run[s].phase = "body" => Body(run[s].script)[run[s].at].do = do)
  BY StepAt
<1> QED
  BY <1>2, <1>3, <1>4, <1>5, ItsOwn DEF SameBelongings

LEMMA CommandsKeeps ==
  ASSUME SlotsOK, fixtures \subseteq Fixtures, NEW s \in Slots, Commands(s)
  PROVE  SlotsOK' /\ Behaves(s)
BY ReadsOn DEF Commands

LEMMA MeasureKeeps ==
  ASSUME SlotsOK, fixtures \subseteq Fixtures, NEW s \in Slots, Measure(s)
  PROVE  SlotsOK' /\ Behaves(s)
<1>1. CASE Measured(On(s)).threw
  <2>1. kid[s] \in KidType /\ Crashed(run[s], kid[s])
    BY StepAt DEF Measure
  <2> QED
    BY <1>1, <2>1, ThrowsOut DEF Measure, Throws, Crashed
<1>2. CASE ~Measured(On(s)).threw
  BY <1>2, ReadsOn DEF Measure
<1> QED
  BY <1>1, <1>2

(* Nobody but Checkout looks at making.                                    *)
LEMMA CheckoutKeeps ==
  ASSUME SlotsOK, fixtures \subseteq Fixtures, NEW s \in Slots, Checkout(s)
  PROVE  SlotsOK' /\ Behaves(s)
<1> DEFINE r == run[s]
<1>1. /\ r \in RunType /\ kid[s] \in KidType /\ SlotOK(r, kid[s]) /\ r.script # Idle
      /\ r.phase = "body" /\ Placed(r) /\ Tidy(r) /\ Minded(r, kid[s]) /\ Crashed(r, kid[s])
      /\ Body(r.script)[r.at].do = "checkout" /\ At(s, "checkout")
  BY StepAt DEF Checkout
<1> HIDE DEF r
<1>2. UNCHANGED <<source, fixtures, tarball, kid, evidence, left>>
  BY DEF Checkout
<1>3. PICK q : /\ q \in RunType /\ Becomes(s, q) /\ SlotOK(q, kid[s])
               /\ SamePlace(r, q) \/ OnTo(r, q)
               /\ q.holds = r.holds /\ q.read = r.read /\ q.packed = r.packed
               /\ q.commit = r.commit
  <2>1. ASSUME NEW q, NEW m \in BOOLEAN, q = [r EXCEPT !.making = m]
        PROVE  /\ q \in RunType /\ SlotOK(q, kid[s]) /\ SamePlace(r, q)
               /\ q.holds = r.holds /\ q.read = r.read /\ q.packed = r.packed
               /\ q.commit = r.commit
    <3>1. /\ q \in RunType /\ SamePlace(r, q)
          /\ q.holds = r.holds /\ q.read = r.read /\ q.packed = r.packed
          /\ q.commit = r.commit
      BY <1>1, <2>1 DEF RunType, SamePlace
    <3> QED
      BY <1>1, <3>1
      DEF SlotOK, SamePlace, Placed, Tidy, Minded, Crashed, Awaiting, GivesBack
  <2>2. CASE UNCHANGED run
    BY <1>1, <2>2 DEF Becomes, SlotsOK, SamePlace, r
  <2>3. CASE Becomes(s, [r EXCEPT !.making = TRUE])
    BY <2>1, <2>3
  <2>4. CASE Becomes(s, [r EXCEPT !.making = FALSE])
    BY <2>1, <2>4
  <2>5. CASE Becomes(s, Onward(r))
    <3>1. PICK q : q = Onward(r) /\ Becomes(s, q)
      BY <2>5
    <3>2. q \in RunType /\ OnTo(r, q) /\ SameBelongings(r, q) /\ SlotOK(q, kid[s])
      BY <1>1, <3>1, GoesOn DEF r, SamePlace
    <3> QED
      BY <3>1, <3>2 DEF SameBelongings
  <2> QED
    BY <2>2, <2>3, <2>4, <2>5 DEF Checkout, r
<1>4. run' = [run EXCEPT ![s] = q] /\ run'[s] = q
  BY <1>3 DEF Becomes, SlotsOK
<1>5. SlotsOK'
  BY <1>1, <1>2, <1>3, <1>4, OneSlot DEF SlotsOK
<1>6. Goes(s)
  BY <1>1, <1>3, <1>4 DEF Goes, Achieves, r
<1> QED
  BY <1>2, <1>3, <1>4, <1>5, <1>6 DEF Behaves, r

LEMMA PackKeeps ==
  ASSUME SlotsOK, fixtures \subseteq Fixtures, NEW s \in Slots, Pack(s)
  PROVE  SlotsOK' /\ Behaves(s)
<1>1. PICK p : p = Reading(s)
  OBVIOUS
<1>2. /\ p \in RunType /\ SamePlace(run[s], p) /\ p.holds = run[s].holds
      /\ p.read = run[s].read \cup {source.edit} /\ p.commit = run[s].commit
  BY <1>1, ReadingPlace
<1>3. PICK o : o = Onward(p) /\ Becomes(s, [o EXCEPT !.packed = source.edit])
  BY <1>1 DEF Pack
<1>4. o \in RunType /\ OnTo(run[s], o) /\ SameBelongings(p, o) /\ SlotOK(o, kid[s])
  BY <1>2, <1>3, GoesOn DEF Pack
<1>5. PICK q : q = [o EXCEPT !.packed = source.edit] /\ Becomes(s, q)
  BY <1>3
<1>6. /\ q \in RunType /\ SamePlace(o, q) /\ q.holds = o.holds /\ q.read = o.read
      /\ q.packed = source.edit /\ q.commit = o.commit
  BY <1>4, <1>5 DEF RunType, SlotsOK, SourceType, SamePlace
<1>7. SlotOK(q, kid[s]) /\ OnTo(run[s], q)
  <2>1. o.script # Idle
    BY <1>4, StepAt DEF OnTo, Pack
  <2>2. SlotOK(q, kid[s])
    BY <1>4, <1>6, <2>1
    DEF SlotOK, SamePlace, Placed, Tidy, Minded, Crashed, Awaiting, GivesBack
  <2> QED
    BY <1>4, <1>6, <2>2 DEF SamePlace, OnTo
<1>8. /\ kid[s] \in KidType
      /\ run[s].phase = "body" => Body(run[s].script)[run[s].at].do = "pack"
  BY StepAt DEF Pack
<1>9. run' = [run EXCEPT ![s] = q] /\ run'[s] = q
  BY <1>5 DEF Becomes, SlotsOK
<1>10. SlotsOK'
  BY <1>6, <1>7, <1>8, <1>9, OneSlot DEF SlotsOK, Pack
<1>11. Goes(s)
  BY <1>6, <1>7, <1>8, <1>9 DEF Goes, Achieves
<1> QED
  BY <1>2, <1>4, <1>6, <1>9, <1>10, <1>11 DEF Behaves, SameBelongings, Pack

LEMMA SyncKeeps ==
  ASSUME SlotsOK, fixtures \subseteq Fixtures, NEW s \in Slots, Sync(s)
  PROVE  SlotsOK' /\ Behaves(s)
<1>1. /\ run[s] \in RunType /\ kid[s] \in KidType
      /\ run[s].phase = "body" => Body(run[s].script)[run[s].at].do = "sync"
  BY StepAt DEF Sync
<1>2. PICK q : q = Onward(run[s]) /\ Becomes(s, q)
  BY DEF Sync
<1>3. q \in RunType /\ OnTo(run[s], q) /\ SameBelongings(run[s], q) /\ SlotOK(q, kid[s])
  BY <1>1, <1>2, GoesOn DEF Sync, SamePlace
<1>4. run' = [run EXCEPT ![s] = q] /\ run'[s] = q
  BY <1>2 DEF Becomes, SlotsOK
<1>5. /\ source' = [source EXCEPT !.synced = TRUE] /\ source' \in SourceType
      /\ source'.synced
  BY DEF Sync, SlotsOK, SourceType
<1>6. SlotsOK'
  BY <1>1, <1>3, <1>4, <1>5, OneSlot DEF Sync
<1>7. Goes(s)
  BY <1>1, <1>3, <1>4, <1>5 DEF Goes, Achieves
<1> QED
  BY <1>3, <1>4, <1>5, <1>6, <1>7 DEF Behaves, SameBelongings, Sync

LEMMA HoldingPlace ==
  ASSUME SlotsOK, NEW s \in Slots, NEW held \in SUBSET Resources
  PROVE  /\ Holding(s, held) \in RunType /\ SamePlace(run[s], Holding(s, held))
         /\ Holding(s, held).holds = held /\ Holding(s, held).packed = run[s].packed
         /\ Holding(s, held).read = run[s].read
         /\ Holding(s, held).commit = run[s].commit
BY DEF Holding, SlotsOK, RunType, SamePlace

(* What is taken, the finally blocks give back.                            *)
LEMMA TakeKeeps ==
  ASSUME SlotsOK, fixtures \subseteq Fixtures, NEW s \in Slots, Take(s)
  PROVE  SlotsOK' /\ Behaves(s)
<1> DEFINE r == run[s]
<1>1. /\ r \in RunType /\ kid[s] \in KidType /\ SlotOK(r, kid[s]) /\ r.script # Idle
      /\ r.phase = "body" /\ Placed(r) /\ Tidy(r) /\ Minded(r, kid[s]) /\ Crashed(r, kid[s])
      /\ Body(r.script)[r.at].do = "take" /\ On(s) = Body(r.script)[r.at].on
      /\ Proper(r.script, r.at) /\ At(s, "take")
  BY StepAt DEF Take, On
<1> HIDE DEF r
<1>2. /\ On(s) \in Resources
      /\ On(s) \in Lasting \/ GivesBack(r, On(s))
      /\ On(s) = "evidence-root" => r.script \in Rooting
  BY <1>1 DEF Proper, Takes, Resources, Lasting, GivesBack, Do
<1>3. PICK held : held = r.holds \cup {On(s)} /\ held \in SUBSET Resources
  <2>1. r.holds \in SUBSET Resources
    BY <1>1 DEF RunType
  <2>2. r.holds \cup {On(s)} \in SUBSET Resources
    BY <1>2, <2>1
  <2> QED
    BY <2>2
<1>4. PICK p : p = Holding(s, held)
  OBVIOUS
<1>5. /\ p \in RunType /\ SamePlace(r, p) /\ p.holds = held /\ p.packed = r.packed
      /\ p.read = r.read /\ p.commit = r.commit
  BY <1>3, <1>4, HoldingPlace DEF r
<1>6. PICK q : q = Onward(p) /\ Becomes(s, q)
  BY <1>3, <1>4 DEF Take, r
<1>7. q \in RunType /\ OnTo(r, q) /\ SameBelongings(p, q)
  BY <1>1, <1>5, <1>6, OnwardFrom
<1>8. SlotOK(q, kid[s])
  <2>1. /\ \A x \in q.holds \ Lasting : GivesBack(r, x)
        /\ "evidence-root" \in q.holds => r.script \in Rooting
    BY <1>1, <1>2, <1>3, <1>5, <1>7 DEF Tidy, SameBelongings
  <2>2. Minded(q, kid[s])
    BY <1>1, <1>3, <1>5, <1>7 DEF Minded, Awaiting, SameBelongings
  <2>3. Crashed(q, kid[s])
    <3>1. /\ r.script \in Crashing => r.at # 4
          /\ r.at \in Nat /\ (q.phase = "body" => q.at = r.at + 1 /\ q.script = r.script)
      BY <1>1, <1>7 DEF Proper, CrashOrder, RunType, OnTo
    <3> QED
      BY <1>1, <3>1 DEF Crashed
  <2> QED
    BY <1>1, <1>7, <2>1, <2>2, <2>3, MoveKept
<1>9. run' = [run EXCEPT ![s] = q] /\ run'[s] = q
  BY <1>6 DEF Becomes, SlotsOK
<1>10. SlotsOK'
  BY <1>1, <1>7, <1>8, <1>9, OneSlot DEF Take, SlotsOK
<1>11. Goes(s)
  BY <1>1, <1>7, <1>9 DEF Goes, Achieves, r
<1>12. /\ fixtures' \subseteq fixtures \cup Fixtures
       /\ \A f \in fixtures' : f \in run'[s].holds \/ f \in fixtures \ run[s].holds
  BY <1>3, <1>5, <1>7, <1>9 DEF Take, SameBelongings, r
<1> QED
  BY <1>5, <1>7, <1>9, <1>10, <1>11, <1>12 DEF Behaves, SameBelongings, Take, r

(* What is given back at a step of the body or of the finally blocks.      *)
LEMMA GivesUp ==
  ASSUME SlotsOK, NEW s \in Slots, NEW do \in {"drop", "stop"}, At(s, do),
         NEW q \in RunType, OnTo(run[s], q) \/ OutTo(run[s], q),
         q.holds \subseteq run[s].holds \cup {"stuck-worktree"},
         run[s].phase = "finally" => On(s) \notin q.holds,
         kid[s].alive => "web" \notin run[s].holds \/ "web" \in q.holds
  PROVE  SlotOK(q, kid[s])
<1> DEFINE r == run[s]
<1>1. /\ r \in RunType /\ kid[s] \in KidType /\ SlotOK(r, kid[s]) /\ r.script # Idle
      /\ r.phase # "over" /\ Placed(r) /\ Tidy(r) /\ Minded(r, kid[s]) /\ Crashed(r, kid[s])
      /\ \/ r.phase = "body" /\ Body(r.script)[r.at].do = do /\ Proper(r.script, r.at)
         \/ r.phase = "finally" /\ On(s) = End(r.script)[r.at].on
  BY StepAt DEF On
<1> HIDE DEF r
<1>2. /\ \A x \in q.holds \ Lasting :
           GivesBack(r, x) /\ (r.phase = "finally" => End(r.script)[r.at].on # x)
      /\ "evidence-root" \in q.holds => r.script \in Rooting
  BY <1>1 DEF Tidy, Lasting, r
<1>3. Minded(q, kid[s])
  BY <1>1 DEF Minded, Awaiting, r
<1>4. Crashed(q, kid[s])
  <2>1. r.phase = "body" /\ r.script \in Crashing => r.at # 4
    BY <1>1 DEF Proper, CrashOrder
  <2>2. q.phase = "body" => r.phase = "body" /\ q.at = r.at + 1 /\ q.script = r.script
    BY DEF OnTo, OutTo, r
  <2> QED
    BY <1>1, <2>1, <2>2 DEF Crashed, RunType
<1> QED
  BY <1>1, <1>2, <1>3, <1>4, MoveKept DEF r

LEMMA DropKeeps ==
  ASSUME SlotsOK, fixtures \subseteq Fixtures, NEW s \in Slots, Drop(s)
  PROVE  SlotsOK' /\ Behaves(s)
<1>1. /\ run[s] \in RunType /\ kid[s] \in KidType /\ run[s].phase # "over" /\ Placed(run[s])
      /\ On(s) # "web"
      /\ run[s].phase = "body" => Body(run[s].script)[run[s].at].do = "drop"
  BY StepAt DEF Drop, On, Proper, Awaited
<1>2. PICK held : held = run[s].holds \ {On(s)} /\ held \in SUBSET Resources
  BY <1>1 DEF RunType
<1>3. PICK p : p = Holding(s, held)
  OBVIOUS
<1>4. /\ p \in RunType /\ SamePlace(run[s], p) /\ p.holds = held
      /\ p.packed = run[s].packed /\ p.read = run[s].read /\ p.commit = run[s].commit
  BY <1>2, <1>3, HoldingPlace
<1>5. PICK q : q = Onward(p) /\ Becomes(s, q)
  BY <1>2, <1>3 DEF Drop
<1>6. q \in RunType /\ OnTo(run[s], q) /\ SameBelongings(p, q)
  BY <1>1, <1>4, <1>5, OnwardFrom
<1>7. SlotOK(q, kid[s])
  BY <1>1, <1>2, <1>4, <1>6, GivesUp DEF Drop, SameBelongings
<1>8. run' = [run EXCEPT ![s] = q] /\ run'[s] = q
  BY <1>5 DEF Becomes, SlotsOK
<1>9. SlotsOK'
  BY <1>1, <1>6, <1>7, <1>8, OneSlot DEF Drop, SlotsOK
<1>10. Goes(s)
  BY <1>1, <1>6, <1>8 DEF Goes, Achieves
<1>11. /\ fixtures' \subseteq fixtures \cup Fixtures
       /\ \A f \in fixtures' : f \in run'[s].holds \/ f \in fixtures \ run[s].holds
  BY <1>2, <1>4, <1>6, <1>8 DEF Drop, SameBelongings
<1> QED
  BY <1>4, <1>6, <1>8, <1>9, <1>10, <1>11 DEF Behaves, SameBelongings, Drop

LEMMA WorktreeStaysKeeps ==
  ASSUME SlotsOK, fixtures \subseteq Fixtures, NEW s \in Slots, WorktreeStays(s)
  PROVE  SlotsOK' /\ Behaves(s)
<1>1. /\ run[s] \in RunType /\ kid[s] \in KidType /\ run[s].phase # "over" /\ Placed(run[s])
  BY StepAt DEF WorktreeStays
<1>2. PICK o : /\ o = Thrown(run[s])
               /\ Becomes(s, [o EXCEPT !.holds = (@ \ {"worktree"}) \cup {"stuck-worktree"}])
  BY DEF WorktreeStays
<1>3. o \in RunType /\ OutTo(run[s], o) /\ SameBelongings(run[s], o)
  BY <1>1, <1>2, ThrownPlace
<1>4. PICK q : /\ q = [o EXCEPT !.holds = (@ \ {"worktree"}) \cup {"stuck-worktree"}]
               /\ Becomes(s, q)
  BY <1>2
<1>5. /\ q \in RunType /\ SamePlace(o, q) /\ q.read = o.read /\ q.packed = o.packed
      /\ q.commit = o.commit /\ q.holds = (o.holds \ {"worktree"}) \cup {"stuck-worktree"}
  BY <1>3, <1>4 DEF RunType, SamePlace, Resources
<1>6. OutTo(run[s], q)
  BY <1>3, <1>5 DEF OutTo, SamePlace
<1>7. SlotOK(q, kid[s])
  BY <1>3, <1>5, <1>6, GivesUp DEF WorktreeStays, SameBelongings
<1> QED
  BY <1>1, <1>3, <1>4, <1>5, <1>6, <1>7, ItsOwn DEF WorktreeStays, SameBelongings, Fixtures

LEMMA ReportKeeps ==
  ASSUME SlotsOK, fixtures \subseteq Fixtures, NEW s \in Slots, Report(s),
         DOMAIN evidence = Reports
  PROVE  SlotsOK' /\ Behaves(s)
<1>1. /\ run[s] \in RunType /\ kid[s] \in KidType /\ run[s].phase = "body"
      /\ Body(run[s].script)[run[s].at].do = "report"
      /\ On(s) = Body(run[s].script)[run[s].at].on /\ On(s) \in Reports
  BY StepAt DEF Report, On, Proper, CrashOrder
<1>2. PICK q : q = Onward(run[s]) /\ Becomes(s, q)
  BY DEF Report
<1>3. q \in RunType /\ OnTo(run[s], q) /\ SameBelongings(run[s], q) /\ SlotOK(q, kid[s])
  BY <1>1, <1>2, GoesOn DEF Report, SamePlace
<1>4. run' = [run EXCEPT ![s] = q] /\ run'[s] = q
  BY <1>2 DEF Becomes, SlotsOK
<1>5. UNCHANGED <<source, fixtures, tarball, kid, left>>
  BY DEF Report, treeVars
<1>6. SlotsOK'
  BY <1>1, <1>3, <1>4, <1>5, OneSlot DEF SlotsOK
<1>7. evidence'[On(s)] # None
  <2>1. evidence'[On(s)] = Written(s, On(s))
    BY <1>1 DEF Report
  <2>2. Written(s, On(s)).by = s /\ None.by = Idle /\ s # Idle
    BY IdleAssumption DEF Written, None
  <2> QED
    BY <2>1, <2>2
<1>8. Goes(s)
  BY <1>1, <1>3, <1>4, <1>7 DEF Goes, Achieves
<1>9. Writes(s)
  BY <1>5 DEF Writes, Report
<1> QED
  BY <1>3, <1>4, <1>5, <1>6, <1>8, <1>9 DEF Behaves, SameBelongings

(* A child is spawned by a step that the next one awaits.                  *)
LEMMA SpawnKeeps ==
  ASSUME SlotsOK, fixtures \subseteq Fixtures, NEW s \in Slots, Spawn(s)
  PROVE  SlotsOK' /\ Behaves(s)
<1> DEFINE r == run[s]
<1>1. /\ r \in RunType /\ kid[s] \in KidType /\ SlotOK(r, kid[s]) /\ r.script # Idle
      /\ r.phase = "body" /\ Placed(r) /\ Tidy(r) /\ Body(r.script)[r.at].do = "spawn"
      /\ Proper(r.script, r.at)
  BY StepAt DEF Spawn
<1> HIDE DEF r
<1>2. PICK p : p = Reading(s)
  OBVIOUS
<1>3. /\ p \in RunType /\ SamePlace(r, p) /\ p.holds = r.holds
      /\ p.packed = r.packed /\ p.commit = r.commit /\ p.read = r.read \cup {source.edit}
  BY <1>2, ReadingPlace DEF r
<1>4. PICK q : q = Onward(p) /\ Becomes(s, q)
  BY <1>2 DEF Spawn
<1>5. q \in RunType /\ OnTo(r, q) /\ SameBelongings(p, q)
  BY <1>1, <1>3, <1>4, OnwardFrom
<1>6. PICK l : l = [NoKid EXCEPT !.alive = TRUE] /\ kid' = [kid EXCEPT ![s] = l]
  BY DEF Spawn, Kid
<1>7. l \in KidType /\ ~l.seen
  BY <1>6 DEF NoKid, KidType
<1>8. /\ q.phase = "body" /\ q.at = r.at + 1 /\ q.script = r.script
      /\ Body(r.script)[q.at].do = "await"
  <2>1. r.at < Len(Body(r.script)) /\ Body(r.script)[r.at + 1].do = "await"
    BY <1>1 DEF Proper, Awaited
  <2>2. Part(r) = Body(r.script)
    BY <1>1, PartOf DEF Placed
  <2>3. Len(Body(r.script)) \in Nat /\ r.at \in Nat
    BY <1>1, Lengths DEF RunType
  <2> QED
    BY <1>1, <1>5, <2>1, <2>2, <2>3 DEF OnTo
<1>9. Minded(q, l)
  BY <1>8 DEF Minded, Awaiting
<1>10. Crashed(q, l)
  <2>1. r.script \in Crashing => r.at <= 4 /\ r.at # 4
    BY <1>1 DEF Proper, CrashOrder
  <2>2. r.script \in Crashing => ~(q.at >= 5)
    BY <1>1, <1>8, <2>1 DEF RunType
  <2> QED
    BY <1>7, <1>8, <2>2 DEF Crashed
<1>11. SlotOK(q, l)
  BY <1>1, <1>3, <1>5, <1>7, <1>9, <1>10, MoveKept DEF Tidy, SameBelongings
<1> QED
  BY <1>1, <1>3, <1>4, <1>5, <1>6, <1>7, <1>11, ItsOwn DEF Spawn, NoTrace, SameBelongings, r

(* A child changes, and its process stays where it is.                     *)
LEMMA KidChanges ==
  ASSUME SlotsOK, fixtures \subseteq Fixtures, NEW s \in Slots, NEW l \in KidType,
         SlotOK(run[s], l), kid' = [kid EXCEPT ![s] = l], UNCHANGED run, NoTrace
  PROVE  SlotsOK' /\ Behaves(s)
<1>1. run[s] \in RunType /\ SamePlace(run[s], run[s]) /\ Becomes(s, run[s])
  BY DEF SlotsOK, SamePlace, Becomes
<1> QED
  BY <1>1, ItsOwn DEF NoTrace

(* A process that awaits what has come goes on.                            *)
LEMMA AwaitedGoesOn ==
  ASSUME SlotsOK, NEW s \in Slots, At(s, "await"),
         NEW q, q = Onward(run[s])
  PROVE  /\ q \in RunType /\ OnTo(run[s], q) /\ SameBelongings(run[s], q)
         /\ (~kid[s].alive /\ (On(s) = "crash" => kid[s].spoke /\ kid[s].by = "SIGKILL"))
              => SlotOK(q, kid[s])
<1> DEFINE r == run[s]
<1>1. /\ r \in RunType /\ kid[s] \in KidType /\ SlotOK(r, kid[s]) /\ r.script # Idle
      /\ r.phase = "body" /\ Placed(r) /\ Tidy(r) /\ Crashed(r, kid[s])
      /\ Body(r.script)[r.at].do = "await" /\ On(s) = Body(r.script)[r.at].on
      /\ Proper(r.script, r.at)
  BY StepAt DEF On
<1> HIDE DEF r
<1>2. q \in RunType /\ OnTo(r, q) /\ SameBelongings(r, q)
  BY <1>1, OnwardPlace DEF r
<1>3. ASSUME ~kid[s].alive, On(s) = "crash" => kid[s].spoke /\ kid[s].by = "SIGKILL"
      PROVE  SlotOK(q, kid[s])
  <2>1. r.script \in Crashing => On(s) = "crash"
    BY <1>1 DEF Proper, CrashOrder
  <2>2. q.script = r.script
    BY <1>2 DEF OnTo
  <2>3. Minded(q, kid[s]) /\ Crashed(q, kid[s])
    BY <1>1, <1>3, <2>1, <2>2 DEF Minded, Crashed
  <2> QED
    BY <1>1, <1>2, <2>3, MoveKept DEF Tidy, SameBelongings
<1> QED
  BY <1>2, <1>3 DEF r

LEMMA ResolvesKeeps ==
  ASSUME SlotsOK, fixtures \subseteq Fixtures, NEW s \in Slots, At(s, "await"), Resolves(s),
         ~kid[s].alive, On(s) = "crash" => kid[s].spoke /\ kid[s].by = "SIGKILL",
         UNCHANGED kid, NoTrace
  PROVE  SlotsOK' /\ Behaves(s)
<1>1. /\ kid[s] \in KidType
      /\ run[s].phase = "body" => Body(run[s].script)[run[s].at].do = "await"
  BY StepAt
<1>2. PICK q : q = Onward(run[s]) /\ Becomes(s, q)
  BY DEF Resolves
<1>3. q \in RunType /\ OnTo(run[s], q) /\ SameBelongings(run[s], q) /\ SlotOK(q, kid[s])
  BY <1>2, AwaitedGoesOn
<1> QED
  BY <1>1, <1>2, <1>3, ItsOwn DEF NoTrace, SameBelongings

LEMMA RejectsKeeps ==
  ASSUME SlotsOK, fixtures \subseteq Fixtures, NEW s \in Slots, At(s, "await"), Rejects(s),
         NEW l \in KidType, kid' = [kid EXCEPT ![s] = l] \/ (kid' = kid /\ l = kid[s]), NoTrace,
         l.seen => l.spoke, l.alive => l.sent = "SIGKILL" \/ l.timedOut
  PROVE  SlotsOK' /\ Behaves(s)
BY ThrowsOut DEF Rejects, NoTrace

LEMMA AwaitsFacts ==
  ASSUME SlotsOK, NEW s \in Slots, NEW what, Awaits(s, what)
  PROVE  /\ kid[s] \in KidType /\ SlotOK(run[s], kid[s]) /\ At(s, "await") /\ On(s) = what
         /\ run[s] \in RunType /\ run[s].script # Idle /\ run[s].phase = "body"
         /\ Placed(run[s]) /\ Tidy(run[s]) /\ Awaiting(run[s])
         /\ kid[s].seen => kid[s].spoke
         /\ run[s].script \in Crashing => ~(run[s].at >= 5)
<1>1. At(s, "await") /\ On(s) = what
  BY DEF Awaits
<1>2. /\ kid[s] \in KidType /\ SlotOK(run[s], kid[s])
      /\ run[s] \in RunType /\ run[s].script # Idle /\ run[s].phase = "body"
      /\ Placed(run[s]) /\ Tidy(run[s]) /\ Crashed(run[s], kid[s])
      /\ Body(run[s].script)[run[s].at].do = "await" /\ Proper(run[s].script, run[s].at)
  BY <1>1, StepAt
<1>3. run[s].script \in Crashing => ~(run[s].at >= 5)
  <2>1. run[s].script \in Crashing => run[s].at <= 4
    BY <1>2 DEF Proper, CrashOrder
  <2> QED
    BY <1>2, <2>1 DEF RunType
<1> QED
  BY <1>1, <1>2, <1>3 DEF Awaiting, Crashed

(* The child of a process that goes on waiting.                            *)
LEMMA StillAwaits ==
  ASSUME SlotsOK, NEW s \in Slots, NEW what, Awaits(s, what), NEW l \in KidType,
         l.seen => l.spoke
  PROVE  SlotOK(run[s], l)
BY AwaitsFacts DEF SlotOK, Minded, Crashed

LEMMA CrashKeeps ==
  ASSUME SlotsOK, fixtures \subseteq Fixtures, NEW s \in Slots,
         SeesMarker(s) \/ CrashExit(s) \/ CrashTimesOut(s)
  PROVE  SlotsOK' /\ Behaves(s)
<1>1. /\ Awaits(s, "crash") /\ At(s, "await") /\ NoTrace /\ kid[s] \in KidType
      /\ kid[s].seen => kid[s].spoke
  BY AwaitsFacts DEF SeesMarker, CrashExit, CrashTimesOut
<1>2. ASSUME SeesMarker(s) PROVE SlotsOK' /\ Behaves(s)
  <2>1. PICK l : /\ l = [kid[s] EXCEPT !.seen = TRUE,
                                       !.sent = IF kid[s].alive THEN "SIGKILL" ELSE @]
                 /\ kid' = [kid EXCEPT ![s] = l]
    BY <1>2 DEF SeesMarker, Kid
  <2>2. l \in KidType /\ l.spoke /\ l.alive = kid[s].alive
    BY <1>1, <1>2, <2>1 DEF SeesMarker, KidType
  <2>3. CASE kid[s].alive
    BY <1>1, <1>2, <2>1, <2>2, <2>3, StillAwaits, KidChanges DEF SeesMarker
  <2>4. CASE ~kid[s].alive
    BY <1>1, <1>2, <2>1, <2>2, <2>4, RejectsKeeps DEF SeesMarker
  <2> QED
    BY <2>3, <2>4
<1>3. ASSUME CrashExit(s) PROVE SlotsOK' /\ Behaves(s)
  <2>1. CASE kid[s].seen /\ kid[s].by = "SIGKILL"
    BY <1>1, <1>3, <2>1, ResolvesKeeps DEF CrashExit
  <2>2. CASE ~(kid[s].seen /\ kid[s].by = "SIGKILL")
    BY <1>1, <1>3, <2>2, RejectsKeeps DEF CrashExit
  <2> QED
    BY <2>1, <2>2
<1>4. ASSUME CrashTimesOut(s) PROVE SlotsOK' /\ Behaves(s)
  <2>1. PICK l : l = [kid[s] EXCEPT !.sent = "SIGKILL"] /\ kid' = [kid EXCEPT ![s] = l]
    BY <1>4 DEF CrashTimesOut, Kid
  <2>2. l \in KidType /\ l.sent = "SIGKILL" /\ l.seen = kid[s].seen /\ l.spoke = kid[s].spoke
    BY <1>1, <2>1 DEF KidType
  <2> QED
    BY <1>1, <1>4, <2>1, <2>2, RejectsKeeps DEF CrashTimesOut
<1> QED
  BY <1>2, <1>3, <1>4

LEMMA StockKeeps ==
  ASSUME SlotsOK, fixtures \subseteq Fixtures, NEW s \in Slots,
         StockClose(s) \/ StockTimesOut(s) \/ StockOverflows(s)
  PROVE  SlotsOK' /\ Behaves(s)
<1>1. /\ Awaits(s, "stock") /\ At(s, "await") /\ NoTrace /\ kid[s] \in KidType
      /\ On(s) = "stock" /\ (kid[s].seen => kid[s].spoke)
  BY AwaitsFacts DEF StockClose, StockTimesOut, StockOverflows
<1>2. ASSUME StockClose(s) PROVE SlotsOK' /\ Behaves(s)
  <2>1. CASE ~kid[s].timedOut /\ kid[s].spoke
    BY <1>1, <1>2, <2>1, ResolvesKeeps DEF StockClose
  <2>2. CASE ~(~kid[s].timedOut /\ kid[s].spoke)
    BY <1>1, <1>2, <2>2, RejectsKeeps DEF StockClose
  <2> QED
    BY <2>1, <2>2
<1>3. ASSUME StockTimesOut(s) PROVE SlotsOK' /\ Behaves(s)
  <2>1. PICK l : /\ l = [kid[s] EXCEPT !.timedOut = TRUE,
                                       !.sent = IF kid[s].alive THEN "SIGKILL" ELSE @]
                 /\ kid' = [kid EXCEPT ![s] = l]
    BY <1>3 DEF StockTimesOut, Kid
  <2>2. l \in KidType /\ l.seen = kid[s].seen /\ l.spoke = kid[s].spoke
    BY <1>1, <2>1 DEF KidType
  <2> QED
    BY <1>1, <1>3, <2>1, <2>2, StillAwaits, KidChanges DEF StockTimesOut
<1>4. ASSUME StockOverflows(s) PROVE SlotsOK' /\ Behaves(s)
  <2>1. PICK l : l = [kid[s] EXCEPT !.sent = "SIGKILL"] /\ kid' = [kid EXCEPT ![s] = l]
    BY <1>4 DEF StockOverflows, Kid
  <2>2. l \in KidType /\ l.sent = "SIGKILL" /\ l.seen = kid[s].seen /\ l.spoke = kid[s].spoke
    BY <1>1, <2>1 DEF KidType
  <2> QED
    BY <1>1, <1>4, <2>1, <2>2, RejectsKeeps DEF StockOverflows
<1> QED
  BY <1>2, <1>3, <1>4

LEMMA WebKeeps ==
  ASSUME SlotsOK, fixtures \subseteq Fixtures, NEW s \in Slots,
         WebReady(s) \/ WebExit(s) \/ WebTimesOut(s)
  PROVE  SlotsOK' /\ Behaves(s)
<1> DEFINE r == run[s]
<1>1. /\ Awaits(s, "web") /\ At(s, "await") /\ NoTrace /\ kid[s] \in KidType
      /\ kid[s].seen => kid[s].spoke
      /\ r \in RunType /\ SlotOK(r, kid[s]) /\ r.script # Idle /\ r.phase = "body"
      /\ Placed(r) /\ Tidy(r) /\ On(s) = "web"
      /\ r.script \in Crashing => ~(r.at >= 5)
  BY AwaitsFacts DEF WebReady, WebExit, WebTimesOut
<1>2. /\ On(s) = Body(r.script)[r.at].on /\ Body(r.script)[r.at].do = "await"
      /\ Proper(r.script, r.at)
  BY <1>1, StepAt DEF On
<1> HIDE DEF r
<1>3. ASSUME WebReady(s) PROVE SlotsOK' /\ Behaves(s)
  <2>1. PICK o : o = Onward(r) /\ Becomes(s, [o EXCEPT !.holds = @ \cup {"web"}])
    BY <1>3 DEF WebReady, r
  <2>2. o \in RunType /\ OnTo(r, o) /\ SameBelongings(r, o)
    BY <1>1, <2>1, OnwardPlace
  <2>3. PICK q : q = [o EXCEPT !.holds = @ \cup {"web"}] /\ Becomes(s, q)
    BY <2>1
  <2>4. /\ q \in RunType /\ SamePlace(o, q) /\ q.read = o.read /\ q.packed = o.packed
        /\ q.commit = o.commit /\ q.holds = o.holds \cup {"web"}
    BY <2>2, <2>3 DEF RunType, SamePlace, Resources
  <2>5. OnTo(r, q)
    BY <2>2, <2>4 DEF OnTo, SamePlace
  <2>6. GivesBack(r, "web")
    BY <1>1, <1>2 DEF Proper, Awaited, GivesBack, Do
  <2>7. /\ \A x \in q.holds \ Lasting : GivesBack(r, x)
        /\ "evidence-root" \in q.holds => r.script \in Rooting
    BY <1>1, <2>2, <2>4, <2>6 DEF Tidy, SameBelongings
  <2>8. Minded(q, kid[s]) /\ Crashed(q, kid[s])
    <3>1. r.script \notin Crashing
      BY <1>1, <1>2 DEF Proper, CrashOrder
    <3>2. q.script = r.script
      BY <2>5 DEF OnTo
    <3> QED
      BY <1>1, <2>4, <3>1, <3>2 DEF Minded, Crashed
  <2>9. SlotOK(q, kid[s])
    BY <1>1, <2>4, <2>5, <2>7, <2>8, MoveKept
  <2> QED
    BY <1>1, <1>2, <1>3, <2>2, <2>3, <2>4, <2>5, <2>9, ItsOwn
    DEF WebReady, NoTrace, SameBelongings, r
<1>4. ASSUME WebExit(s) PROVE SlotsOK' /\ Behaves(s)
  BY <1>1, <1>4, RejectsKeeps DEF WebExit
<1>5. ASSUME WebTimesOut(s) PROVE SlotsOK' /\ Behaves(s)
  <2>1. PICK l : l = [kid[s] EXCEPT !.timedOut = TRUE] /\ kid' = [kid EXCEPT ![s] = l]
    BY <1>5 DEF WebTimesOut, Kid
  <2>2. l \in KidType /\ l.timedOut /\ l.seen = kid[s].seen /\ l.spoke = kid[s].spoke
    BY <1>1, <2>1 DEF KidType
  <2> QED
    BY <1>1, <1>5, <2>1, <2>2, RejectsKeeps DEF WebTimesOut
<1> QED
  BY <1>3, <1>4, <1>5

LEMMA StopWebKeeps ==
  ASSUME SlotsOK, fixtures \subseteq Fixtures, NEW s \in Slots, StopWeb(s)
  PROVE  SlotsOK' /\ Behaves(s)
<1>1. /\ run[s] \in RunType /\ kid[s] \in KidType /\ SlotOK(run[s], kid[s])
      /\ run[s].script # Idle /\ run[s].phase # "over" /\ Placed(run[s]) /\ Tidy(run[s])
      /\ Crashed(run[s], kid[s]) /\ Minded(run[s], kid[s])
      /\ run[s].phase = "body" => Body(run[s].script)[run[s].at].do = "stop"
      /\ On(s) = "web" /\ At(s, "stop") /\ NoTrace
  BY StepAt DEF StopWeb, On, Proper, Awaited
<1>2. CASE "web" \notin run[s].holds \/ ~kid[s].alive
  <2>1. PICK held : held = run[s].holds \ {"web"} /\ held \in SUBSET Resources
    BY <1>1 DEF RunType
  <2>2. PICK p : p = Holding(s, held)
    OBVIOUS
  <2>3. /\ p \in RunType /\ SamePlace(run[s], p) /\ p.holds = held
        /\ p.packed = run[s].packed /\ p.read = run[s].read
        /\ p.commit = run[s].commit
    BY <2>1, <2>2, HoldingPlace
  <2>4. PICK q : q = Onward(p) /\ Becomes(s, q) /\ UNCHANGED kid
    BY <1>2, <2>1, <2>2 DEF StopWeb
  <2>5. q \in RunType /\ OnTo(run[s], q) /\ SameBelongings(p, q)
    BY <1>1, <2>3, <2>4, OnwardFrom
  <2>6. SlotOK(q, kid[s])
    BY <1>1, <1>2, <2>1, <2>3, <2>5, GivesUp DEF SameBelongings
  <2> QED
    BY <1>1, <2>1, <2>3, <2>4, <2>5, <2>6, ItsOwn DEF NoTrace, SameBelongings, Fixtures
<1>3. CASE ~("web" \notin run[s].holds \/ ~kid[s].alive)
  <2>1. PICK l : /\ l = [kid[s] EXCEPT !.sent = IF @ = "nothing" THEN "SIGTERM" ELSE "SIGKILL"]
                 /\ kid' = [kid EXCEPT ![s] = l] /\ UNCHANGED run
    BY <1>3 DEF StopWeb, Kid
  <2>2. /\ l \in KidType /\ l.seen = kid[s].seen /\ l.spoke = kid[s].spoke
        /\ l.alive = kid[s].alive /\ l.by = kid[s].by /\ "web" \in run[s].holds
    BY <1>1, <1>3, <2>1 DEF KidType
  <2>3. SlotOK(run[s], l)
    BY <1>1, <2>2 DEF SlotOK, Minded, Crashed
  <2> QED
    BY <1>1, <2>1, <2>2, <2>3, KidChanges
<1> QED
  BY <1>2, <1>3

(* Every step of a script.                                                 *)
LEMMA WorksKeeps ==
  ASSUME SlotsOK, fixtures \subseteq Fixtures, DOMAIN evidence = Reports,
         NEW s \in Slots, Works(s)
  PROVE  SlotsOK' /\ Behaves(s)
<1>1. CASE Supervises(s)
  BY <1>1, CrashKeeps, WebKeeps, StopWebKeeps, StockKeeps DEF Supervises
<1>2. CASE MayThrow(s) \/ Baseline(s) \/ Checkout(s) \/ Commands(s) \/ Pack(s) \/ Sync(s)
  BY <1>2, MayThrowKeeps, BaselineKeeps, CheckoutKeeps, CommandsKeeps, PackKeeps, SyncKeeps
<1>3. CASE Take(s) \/ Drop(s) \/ WorktreeStays(s) \/ Measure(s) \/ Report(s) \/ Spawn(s)
  BY <1>3, TakeKeeps, DropKeeps, WorktreeStaysKeeps, MeasureKeeps, ReportKeeps, SpawnKeeps
<1> QED
  BY <1>1, <1>2, <1>3 DEF Works

-----------------------------------------------------------------------------
(* What starts, exits and dies.                                            *)

LEMMA StartsKeeps ==
  ASSUME SlotsOK, NEW s \in Slots, NEW c \in DOMAIN Scripts, Starts(s, c)
  PROVE  /\ SlotsOK' /\ UNCHANGED <<treeVars, evidence, left>>
         /\ run' = [run EXCEPT ![s] = run'[s]] /\ run'[s].script = c /\ run'[s].phase = "body"
         /\ run'[s].at = 1 /\ ~run'[s].failed /\ run[s] = NoProcess
         /\ run'[s].holds = {} /\ run'[s].read = {} /\ run'[s].packed = -1
<1>1. PICK q : /\ q = [NoProcess EXCEPT !.script = c, !.phase = "body", !.at = 1]
               /\ Becomes(s, q)
  BY DEF Starts
<1>2. /\ q \in RunType /\ q.script = c /\ q.phase = "body" /\ q.at = 1 /\ ~q.failed
      /\ q.holds = {} /\ q.read = {} /\ q.packed = -1
  <2>1. q = [script |-> c, phase |-> "body", at |-> 1, failed |-> FALSE,
             holds |-> {}, read |-> {}, packed |-> -1, commit |-> -1,
             making |-> FALSE]
    BY <1>1 DEF NoProcess
  <2> QED
    BY <2>1 DEF RunType
<1>3. run[s] = NoProcess /\ kid[s] = NoKid /\ kid[s] \in KidType
  BY DEF Starts, Running, SlotsOK, SlotOK
<1>4. SlotOK(q, kid[s])
  <2>1. Placed(q)
    <3>1. Len(Body(c)) \in Nat \ {0}
      BY WellFormedScripts DEF WellFormed
    <3> QED
      BY <1>2, <3>1 DEF Placed
  <2>2. Tidy(q) /\ Minded(q, kid[s]) /\ Crashed(q, kid[s])
    BY <1>2, <1>3 DEF Tidy, Minded, Crashed, NoKid
  <2>3. q.script # Idle
    BY <1>2, IdleAssumption
  <2> QED
    BY <2>1, <2>2, <2>3 DEF SlotOK
<1>5. run' = [run EXCEPT ![s] = q] /\ run'[s] = q
  BY <1>1 DEF Becomes, SlotsOK
<1>6. UNCHANGED <<treeVars, kid, evidence, left>>
  BY DEF Starts
<1>7. SlotsOK'
  BY <1>2, <1>3, <1>4, <1>5, <1>6, OneSlot DEF SlotsOK, treeVars
<1> QED
  BY <1>2, <1>3, <1>5, <1>6, <1>7

LEMMA ExitsKeeps ==
  ASSUME SlotsOK, NEW s \in Slots, Exits(s)
  PROVE  /\ SlotsOK' /\ UNCHANGED <<treeVars, evidence>>
         /\ run' = [run EXCEPT ![s] = NoProcess] /\ run'[s] = NoProcess
         /\ run[s].phase = "over" /\ run[s].script \in DOMAIN Scripts
         /\ left' = left \cup {<<s, run[s].script, x>> : x \in run[s].holds}
         /\ \A x \in run[s].holds :
              x \in Lasting /\ (x = "evidence-root" => run[s].script \in Rooting)
<1>1. NoProcess \in RunType /\ NoKid \in KidType /\ SlotOK(NoProcess, NoKid)
  BY DEF NoProcess, NoKid, RunType, KidType, SlotOK
<1>2. /\ run' = [run EXCEPT ![s] = NoProcess] /\ kid' = [kid EXCEPT ![s] = NoKid]
      /\ UNCHANGED <<treeVars, evidence>> /\ run[s].phase = "over" /\ run[s].script # Idle
      /\ left' = left \cup {<<s, run[s].script, x>> : x \in run[s].holds}
  BY DEF Exits, Becomes, Running
<1>3. SlotsOK' /\ run'[s] = NoProcess
  BY <1>1, <1>2, OneSlot DEF SlotsOK, treeVars
<1>4. Placed(run[s]) /\ Tidy(run[s])
  BY <1>2 DEF SlotsOK, SlotOK
<1> QED
  BY <1>2, <1>3, <1>4 DEF Placed, Tidy, GivesBack

LEMMA KidActsKeeps ==
  ASSUME SlotsOK, NEW s \in Slots, KidActs(s)
  PROVE  SlotsOK' /\ UNCHANGED <<run, treeVars, evidence, left>>
<1>1. /\ run[s] \in RunType /\ kid[s] \in KidType /\ SlotOK(run[s], kid[s]) /\ kid[s].alive
      /\ UNCHANGED <<run, treeVars, evidence, left>>
  BY DEF KidActs, KidSpeaks, KidDies, NoTrace, SlotsOK
<1>2. /\ run[s].script # Idle /\ Placed(run[s]) /\ Tidy(run[s]) /\ Minded(run[s], kid[s])
      /\ Crashed(run[s], kid[s])
  BY <1>1 DEF SlotOK, NoKid
<1>3. ASSUME NEW l \in KidType, kid' = [kid EXCEPT ![s] = l],
             l.spoke \/ l.spoke = kid[s].spoke, l.seen = kid[s].seen,
             l.alive => l.sent = kid[s].sent /\ l.timedOut = kid[s].timedOut
      PROVE  SlotsOK'
  <2>1. Minded(run[s], l) /\ Crashed(run[s], l)
    BY <1>1, <1>2, <1>3 DEF Minded, Crashed
  <2>2. SlotOK(run[s], l)
    BY <1>2, <2>1 DEF SlotOK
  <2>3. run' = [run EXCEPT ![s] = run[s]] /\ source' \in SourceType
    BY <1>1 DEF SlotsOK, treeVars
  <2> QED
    BY <1>1, <1>3, <2>2, <2>3, OneSlot
<1>4. ASSUME KidSpeaks(s) PROVE SlotsOK'
  <2>1. PICK l : l = [kid[s] EXCEPT !.spoke = TRUE] /\ kid' = [kid EXCEPT ![s] = l]
    BY <1>4 DEF KidSpeaks, Kid
  <2>2. /\ l \in KidType /\ l.spoke /\ l.seen = kid[s].seen /\ l.sent = kid[s].sent
        /\ l.timedOut = kid[s].timedOut
    BY <1>1, <2>1 DEF KidType
  <2> QED
    BY <1>3, <2>1, <2>2
<1>5. ASSUME NEW by \in {"itself", "SIGTERM", "SIGKILL"}, KidDies(s, by) PROVE SlotsOK'
  <2>1. PICK l : /\ l = [kid[s] EXCEPT !.alive = FALSE, !.by = by]
                 /\ kid' = [kid EXCEPT ![s] = l]
    BY <1>5 DEF KidDies, Kid
  <2>2. l \in KidType /\ ~l.alive /\ l.spoke = kid[s].spoke /\ l.seen = kid[s].seen
    BY <1>1, <2>1 DEF KidType
  <2> QED
    BY <1>3, <2>1, <2>2
<1> QED
  BY <1>1, <1>4, <1>5 DEF KidActs

-----------------------------------------------------------------------------
(* The tree, the reports and what is left, as the slots act.               *)

Footing == SlotsOK /\ TreeOK /\ EvidenceOK /\ LeftOK

LEMMA WorksSameScript ==
  ASSUME NEW s \in Slots, Behaves(s)
  PROVE  run'[s].script = run[s].script
BY DEF Behaves, Goes, SamePlace, OnTo, OutTo

LEMMA ReportsStay ==
  ASSUME SlotsOK, EvidenceOK, NEW s \in Slots, Behaves(s)
  PROVE  \A e \in Reports : evidence[e] # None => evidence'[e] # None
<1>1. Written(s, On(s)) # None
  <2>1. Written(s, On(s)).by = s /\ None.by = Idle /\ s # Idle
    BY IdleAssumption DEF Written, None
  <2> QED
    BY <2>1
<1> QED
  BY <1>1 DEF Behaves, Writes, EvidenceOK

(* A crash is reported of a child that committed and was killed.           *)
LEMMA WrittenType ==
  ASSUME SlotsOK, EvidenceOK, NEW s \in Slots, At(s, "report")
  PROVE  /\ On(s) \in Reports /\ Written(s, On(s)) \in ReportType
         /\ On(s) \in {"crash-json", "crash-sqlite"} => Written(s, On(s)).killed
<1>1. /\ run[s] \in RunType /\ kid[s] \in KidType /\ Crashed(run[s], kid[s])
      /\ run[s].phase = "body" /\ On(s) = Body(run[s].script)[run[s].at].on
      /\ Body(run[s].script)[run[s].at].do = "report" /\ Proper(run[s].script, run[s].at)
  BY StepAt DEF On
<1>2. On(s) \in Reports
  BY <1>1 DEF Proper, CrashOrder
<1>3. On(s) \in {"crash-json", "crash-sqlite"} => kid[s].spoke /\ kid[s].by = "SIGKILL"
  BY <1>1 DEF Proper, CrashOrder, Crashed
<1>4. run[s].read \in SUBSET Nat /\ run[s].packed \in Int /\ run[s].commit \in Int
  BY <1>1 DEF RunType
<1>5. PICK killed \in BOOLEAN :
        killed = (run[s].script \in {"crashJson", "crashSqlite"}
                    => kid[s].spoke /\ kid[s].by = "SIGKILL")
  OBVIOUS
<1>6. PICK packed \in Int :
        packed = IF On(s) \in {"packed-install", "screenshot"} THEN run[s].packed ELSE -1
  BY <1>4
<1>7. PICK runtime \in Versions :
        runtime = IF On(s) = "conformance" THEN [p \in Packages |-> NamedVersion]
                  ELSE source.runtime
  <2>1. [p \in Packages |-> NamedVersion] \in Versions
    BY DEF Versions, NamedVersion
  <2>2. source.runtime \in Versions
    BY DEF SlotsOK, SourceType
  <2> QED
    BY <2>1, <2>2
<1>8. /\ Written(s, On(s)) = [by |-> s, read |-> run[s].read, commit |-> run[s].commit,
                              plugin |-> source.plugin, runtime |-> runtime,
                              packed |-> packed, killed |-> killed]
      /\ Written(s, On(s)) \in ReportType
  <2>1. Written(s, On(s)) = [by |-> s, read |-> run[s].read, commit |-> run[s].commit,
                            plugin |-> source.plugin, runtime |-> runtime,
                            packed |-> packed, killed |-> killed]
    BY <1>5, <1>6, <1>7 DEF Written
  <2>2. source.plugin \in Nat
    BY DEF SlotsOK, SourceType
  <2> QED
    BY <1>4, <2>1, <2>2 DEF ReportType
<1>9. On(s) \in {"crash-json", "crash-sqlite"} => killed
  BY <1>3, <1>5
<1> QED
  BY <1>2, <1>8, <1>9

LEMMA WorksFooting ==
  ASSUME Footing, NEW s \in Slots, Works(s), UNCHANGED collector
  PROVE  Footing' /\ Behaves(s)
<1>1. SlotsOK' /\ Behaves(s)
  BY WorksKeeps DEF Footing, TreeOK, EvidenceOK
<1>2. TreeOK'
  <2>1. fixtures' \subseteq Fixtures /\ tarball' \in Int
    BY <1>1 DEF Footing, TreeOK, Behaves, SlotsOK, SourceType
  <2>2. ASSUME NEW f \in fixtures' PROVE \E t \in Slots : f \in run'[t].holds
    <3>1. CASE f \in run'[s].holds
      BY <3>1
    <3>2. CASE f \in fixtures \ run[s].holds
      <4>1. PICK t \in Slots : f \in run[t].holds
        BY <3>2 DEF Footing, TreeOK
      <4>2. t # s /\ run'[t] = run[t]
        BY <1>1, <3>2, <4>1 DEF Behaves, Footing, SlotsOK
      <4> QED
        BY <4>1, <4>2
    <3> QED
      BY <1>1, <3>1, <3>2 DEF Behaves
  <2>3. source'.baseline = source.baseline
    BY <1>1 DEF Behaves, Footing, SlotsOK, SourceType
  <2> QED
    BY <2>1, <2>2, <2>3 DEF TreeOK, Footing
<1>3. EvidenceOK'
  <2>1. \A e \in Reports : evidence[e] # None => evidence'[e] # None
    BY <1>1, ReportsStay DEF Footing
  <2>2. CASE evidence' = evidence
    BY <2>2 DEF Footing, EvidenceOK
  <2>3. CASE Writes(s)
    <3>1. /\ On(s) \in Reports /\ Written(s, On(s)) \in ReportType
          /\ On(s) \in {"crash-json", "crash-sqlite"} => Written(s, On(s)).killed
      BY <2>3, WrittenType DEF Writes, Footing
    <3>2. evidence' = [evidence EXCEPT ![On(s)] = Written(s, On(s))]
      BY <2>3 DEF Writes
    <3> QED
      BY <2>1, <3>1, <3>2 DEF Footing, EvidenceOK
  <2> QED
    BY <1>1, <2>2, <2>3 DEF Behaves
<1>4. LeftOK'
  BY <1>1 DEF Behaves, Footing, LeftOK
<1> QED
  BY <1>1, <1>2, <1>3, <1>4 DEF Footing

(* Slots change, and nobody lets go of a fixture.                          *)
LEMMA TreeStays ==
  ASSUME TreeOK, UNCHANGED treeVars,
         \A s \in Slots : run[s].holds \cap Fixtures \subseteq run'[s].holds
  PROVE  TreeOK'
BY DEF TreeOK, treeVars

LEMMA StartsFooting ==
  ASSUME Footing, NEW s \in Slots, NEW c \in DOMAIN Scripts, Starts(s, c),
         collector'.pc # "promoting" \/ UNCHANGED collector
  PROVE  Footing'
<1>1. /\ SlotsOK' /\ UNCHANGED <<treeVars, evidence, left>>
      /\ run' = [run EXCEPT ![s] = run'[s]] /\ run[s] = NoProcess
  BY StartsKeeps DEF Footing
<1>2. \A t \in Slots : run[t].holds \cap Fixtures \subseteq run'[t].holds
  BY <1>1 DEF Footing, SlotsOK, NoProcess
<1> QED
  BY <1>1, <1>2, TreeStays DEF Footing, EvidenceOK, LeftOK

LEMMA ExitsFooting ==
  ASSUME Footing, NEW s \in Slots, Exits(s),
         collector'.pc # "promoting" \/ UNCHANGED collector
  PROVE  Footing'
<1>1. /\ SlotsOK' /\ UNCHANGED <<treeVars, evidence>>
      /\ run' = [run EXCEPT ![s] = NoProcess]
      /\ run[s].script \in DOMAIN Scripts
      /\ left' = left \cup {<<s, run[s].script, x>> : x \in run[s].holds}
      /\ \A x \in run[s].holds :
              x \in Lasting /\ (x = "evidence-root" => run[s].script \in Rooting)
  BY ExitsKeeps DEF Footing
<1>2. \A t \in Slots : run[t].holds \cap Fixtures \subseteq run'[t].holds
  BY <1>1 DEF Footing, SlotsOK, Lasting, Fixtures
<1>3. LeftOK'
  BY <1>1 DEF Footing, LeftOK
<1> QED
  BY <1>1, <1>2, <1>3, TreeStays DEF Footing, EvidenceOK

LEMMA KidActsFooting ==
  ASSUME Footing, NEW s \in Slots, KidActs(s), UNCHANGED collector
  PROVE  Footing'
<1>1. SlotsOK' /\ UNCHANGED <<run, treeVars, evidence, left>>
  BY KidActsKeeps DEF Footing
<1> QED
  BY <1>1, TreeStays DEF Footing, EvidenceOK, LeftOK

LEMMA ReleasedType ==
  ASSUME NEW versions \in Versions, NEW moved
  PROVE  Released(versions, moved) \in Versions
BY DEF Released, Versions, Moved

LEMMA EditFooting ==
  ASSUME Footing, Edit
  PROVE  Footing' /\ source'.edit = source.edit + 1
<1>1. PICK changed \in Edits : source' = Edited(source, changed)
  BY DEF Edit
<1>2. UNCHANGED <<run, kid, fixtures, cache, tarball, evidence, left, collector>>
  BY DEF Edit, collectVars
<1>3. /\ source \in SourceType /\ source.baseline \in BaselineType
      /\ source.baseline.current <=>
           \A t \in source.baseline.targets : t.commit = source.baseline.commit
      /\ \A t, u \in source.baseline.targets : t = u
  BY DEF Footing, SlotsOK, TreeOK, SourceType
<1>4. PICK patch \in Nat : patch = Moved(source.patch, "patch", changed)
  BY <1>3 DEF Moved, SourceType
<1>5. PICK plugin \in Nat : plugin = Moved(source.plugin, "plugin", changed)
  BY <1>3 DEF Moved, SourceType
<1>6. PICK runtime \in Versions : runtime = Released(source.runtime, changed)
  BY <1>3, ReleasedType DEF SourceType
<1>7. PICK synced \in BOOLEAN : synced = (source.synced /\ "documents" \notin changed)
  OBVIOUS
<1>8. PICK target \in TargetType :
        target = [commit |-> source.baseline.commit, patch |-> patch]
  BY <1>3 DEF TargetType, BaselineType
<1>9. PICK baseline \in BaselineType :
        /\ baseline = IF "target" \in changed
                      THEN [source.baseline EXCEPT !.targets = {target}, !.current = TRUE]
                      ELSE source.baseline
        /\ baseline.current <=> \A t \in baseline.targets : t.commit = baseline.commit
        /\ \A t, u \in baseline.targets : t = u
  <2>1. CASE "target" \in changed
    <3>1. PICK b : b = [source.baseline EXCEPT !.targets = {target}, !.current = TRUE]
      OBVIOUS
    <3>2. /\ b \in BaselineType /\ b.targets = {target} /\ b.current
          /\ b.commit = source.baseline.commit
      BY <1>3, <3>1 DEF BaselineType
    <3>3. /\ b.current <=> \A t \in b.targets : t.commit = b.commit
          /\ \A t, u \in b.targets : t = u
      BY <1>8, <3>2
    <3> QED
      BY <2>1, <3>1, <3>2, <3>3
  <2>2. CASE "target" \notin changed
    BY <1>3, <2>2
  <2> QED
    BY <2>1, <2>2
<1>10. /\ source' \in SourceType /\ source'.baseline = baseline
       /\ source'.edit = source.edit + 1
  <2>1. source' = [edit |-> source.edit + 1, synced |-> synced, picture |-> source.picture,
                   patch |-> patch, plugin |-> plugin, runtime |-> runtime,
                   baseline |-> baseline]
    BY <1>1, <1>3, <1>4, <1>5, <1>6, <1>7, <1>8, <1>9 DEF Edited, SourceType
  <2> QED
    BY <1>3, <2>1 DEF SourceType
<1> QED
  BY <1>2, <1>9, <1>10 DEF Footing, SlotsOK, TreeOK, EvidenceOK, LeftOK

LEMMA RefreshFooting ==
  ASSUME Footing, Refresh
  PROVE  Footing' /\ source'.edit = source.edit
<1>1. PICK moved \in Moves :
        source' = [source EXCEPT !.baseline = Refreshed(source.baseline, moved)]
  BY DEF Refresh
<1>2. UNCHANGED <<run, kid, fixtures, cache, tarball, evidence, left, collector>>
  BY DEF Refresh, collectVars
<1>3. /\ source \in SourceType /\ source.baseline \in BaselineType
      /\ \A t, u \in source.baseline.targets : t = u
  BY DEF Footing, SlotsOK, TreeOK, SourceType
<1>4. PICK commit \in Nat : commit = Moved(source.baseline.commit, "commit", moved)
  BY <1>3 DEF Moved, BaselineType
<1>5. PICK npm \in Versions : npm = Released(source.baseline.npm, moved)
  BY <1>3, ReleasedType DEF BaselineType
<1>6. PICK discussion \in Nat :
        discussion = Moved(source.baseline.discussion, "discussion", moved)
  BY <1>3 DEF Moved, BaselineType
<1>7. PICK current \in BOOLEAN :
        current = (\A t \in source.baseline.targets : t.commit = commit)
  OBVIOUS
<1>8. PICK baseline \in BaselineType :
        /\ baseline = Refreshed(source.baseline, moved)
        /\ baseline.current <=> \A t \in baseline.targets : t.commit = baseline.commit
        /\ baseline.targets = source.baseline.targets
  <2>1. Refreshed(source.baseline, moved)
          = [source.baseline EXCEPT !.commit = commit, !.npm = npm,
               !.discussion = discussion, !.observed = @ + 1, !.current = current]
    BY <1>3, <1>4, <1>5, <1>6, <1>7 DEF Refreshed, BaselineType
  <2>2. PICK b : b = [commit |-> commit, targets |-> source.baseline.targets,
                      current |-> current, npm |-> npm, discussion |-> discussion,
                      observed |-> source.baseline.observed + 1]
    OBVIOUS
  <2>3. b = Refreshed(source.baseline, moved)
    BY <1>3, <2>1, <2>2 DEF BaselineType
  <2>4. b \in BaselineType
    BY <1>3, <2>2 DEF BaselineType
  <2>5. /\ b.current <=> \A t \in b.targets : t.commit = b.commit
        /\ b.targets = source.baseline.targets
    BY <1>7, <2>2
  <2> QED
    BY <2>3, <2>4, <2>5
<1>9. /\ source' \in SourceType /\ source'.baseline = baseline
      /\ source'.edit = source.edit
  BY <1>1, <1>3, <1>8 DEF SourceType
<1> QED
  BY <1>2, <1>3, <1>8, <1>9 DEF Footing, SlotsOK, TreeOK, EvidenceOK, LeftOK

LEMMA CollectFooting ==
  ASSUME Footing, Collect
  PROVE  Footing'
<1>1. /\ evidence' = [r \in Reports |-> None] /\ collector'.pc = "commands"
      /\ UNCHANGED <<source, fixtures, cache, tarball, run, kid, left>>
  BY DEF Collect, RemoveOldEvidence, Nothing, treeVars
<1> QED
  BY <1>1 DEF Footing, SlotsOK, TreeOK, EvidenceOK, LeftOK, Reports

LEMMA ValidateFooting ==
  ASSUME Footing, Validate, collector \in CollectorType
  PROVE  Footing'
<1>1. UNCHANGED <<source, run, kid, fixtures, cache, tarball, evidence, left>>
  BY DEF Validate, scriptVars
<1>2. collector'.pc = "promoting" => \A e \in Reports : evidence[e] # None
  BY DEF Validate, AllValid, EvidenceValid, CollectorType
<1> QED
  BY <1>1, <1>2 DEF Footing, SlotsOK, TreeOK, EvidenceOK, LeftOK

LEMMA PromoteFooting ==
  ASSUME Footing, Promote
  PROVE  Footing'
<1>1. PICK promote \in BOOLEAN :
        /\ source' = [source EXCEPT !.picture =
             IF promote THEN evidence["screenshot"].packed ELSE @]
        /\ collector' = [collector EXCEPT !.promote = promote,
             !.pc = IF source'.picture = collector.identities.package
                    THEN "writing" ELSE "stale-picture"]
  BY DEF Promote
<1>2. UNCHANGED <<run, kid, fixtures, cache, tarball, evidence, left>>
      /\ collector.pc = "promoting"
  BY DEF Promote
<1>3. evidence["screenshot"].packed \in Int
  <2>1. evidence["screenshot"] \in ReportType
    BY <1>2 DEF Footing, EvidenceOK, Reports
  <2> QED
    BY <2>1 DEF ReportType
<1>4. /\ source' \in SourceType /\ source'.baseline = source.baseline
  BY <1>1, <1>3 DEF Footing, SlotsOK, SourceType
<1>5. EvidenceOK'
  BY <1>2 DEF Footing, EvidenceOK
<1> QED
  BY <1>2, <1>4, <1>5 DEF Footing, SlotsOK, TreeOK, LeftOK

LEMMA WriteManifestFooting ==
  ASSUME Footing, WriteManifest, collector \in CollectorType
  PROVE  Footing'
<1>1. UNCHANGED <<source, run, kid, fixtures, cache, tarball, evidence, left>>
      /\ collector'.pc = "cleaning"
  BY DEF WriteManifest, scriptVars, Goto, CollectorType
<1> QED
  BY <1>1 DEF Footing, SlotsOK, TreeOK, EvidenceOK, LeftOK

LEMMA CleanRootsFooting ==
  ASSUME Footing, CleanRoots, collector \in CollectorType
  PROVE  Footing'
<1>1. UNCHANGED <<source, run, kid, fixtures, cache, tarball, evidence>>
      /\ collector'.pc = "ended" /\ left' \subseteq left
  BY DEF CleanRoots, treeVars, Goto, CollectorType
<1> QED
  BY <1>1 DEF Footing, SlotsOK, TreeOK, EvidenceOK, LeftOK

-----------------------------------------------------------------------------
(* The commands of a collection.                                           *)

LEMMA CommandNames ==
  /\ Len(CollectCommands) = 7
  /\ CollectCommands[1] = "docs" /\ CollectCommands[2] = "conformance"
  /\ CollectCommands[3] = "crashJson" /\ CollectCommands[4] = "crashSqlite"
  /\ CollectCommands[5] = "packed" /\ CollectCommands[6] = "benchmark"
  /\ CollectCommands[7] = "reproduction"
BY DEF CollectCommands

LEMMA CommandsAreScripts == \A i \in 1..7 : CollectCommands[i] \in DOMAIN Scripts
BY CommandNames, ScriptNames

LEMMA PackedReports ==
  LET body == Body("packed") IN
  /\ Len(body) = 18 /\ body[1] = Do("take", "temporary-root") /\ body[2] = Do("pack", {})
  /\ body[9] = Do("report", "screenshot") /\ body[18] = Do("report", "packed-install")
BY PackedSteps

LEMMA NoStockReport == \A i \in 1..Len(Body("stock")) : Body("stock")[i].do # "report"
<1> SUFFICES ASSUME NEW i \in 1..8 PROVE Body("stock")[i].do # "report"
  BY StockSteps
<1>1. CASE i \in 1..4
  BY <1>1, StockSteps DEF Do
<1>2. CASE i \in 5..8
  BY <1>2, StockSteps DEF Do
<1> QED
  BY <1>1, <1>2

(* A web server is photographed, and the packed package reported, of the   *)
(* tarball that was packed before.                                         *)
LEMMA PackedFirst ==
  ASSUME NEW c \in DOMAIN Scripts, NEW i \in 1..Len(Body(c)), Body(c)[i].do = "report",
         Body(c)[i].on \in {"screenshot", "packed-install"}
  PROVE  \E j \in 1..(i - 1) : Body(c)[j].do = "pack"
<1>1. CASE c = "packed"
  <2>1. /\ Len(Body(c)) = 18 /\ Body(c)[1] = Do("take", "temporary-root")
        /\ Body(c)[2] = Do("pack", {})
    BY <1>1, PackedReports
  <2>2. i \notin {1, 2}
    BY <2>1 DEF Do
  <2> QED
    BY <2>1, <2>2 DEF Do
<1>2. CASE c = "conformance"
  <2>1. Body(c)[4].do = "pack" /\ Len(Body(c)) = 10
    BY <1>2, ConformanceSteps DEF Do
  <2>2. i \notin 1..4
    BY <1>2, ConformanceSteps DEF Do, Command
  <2> QED
    BY <2>1, <2>2
<1>3. CASE c = "verify"
  BY <1>3, VerifySteps DEF Do, Command
<1>4. CASE c = "crashJson"
  BY <1>4, CrashJsonSteps DEF Do, Command
<1>5. CASE c = "crashSqlite"
  BY <1>5, CrashSqliteSteps DEF Do, Command
<1>6. CASE c = "reproduction"
  BY <1>6, ReproductionSteps DEF Do
<1>7. CASE c = "stock"
  BY <1>7, NoStockReport
<1>8. CASE c \in {"benchmark", "docs"}
  BY <1>8, BenchmarkSteps, DocsSteps DEF Do
<1> QED
  BY <1>1, <1>2, <1>3, <1>4, <1>5, <1>6, <1>7, <1>8, ScriptNames

LEMMA PackedBefore == \A i \in 1..11 : i # 9 => Body("packed")[i].do # "report"
<1> SUFFICES ASSUME NEW i \in 1..11, i # 9 PROVE Body("packed")[i].do # "report"
  OBVIOUS
<1>1. CASE i \in 1..3
  BY <1>1, PackedSteps DEF Do, Command
<1>2. CASE i \in 4..6
  BY <1>2, PackedSteps DEF Do, Command
<1>3. CASE i \in 7..8
  BY <1>3, PackedSteps DEF Do, Command
<1>4. CASE i \in 10..11
  BY <1>4, PackedSteps DEF Do, Command
<1> QED
  BY <1>1, <1>2, <1>3, <1>4

(* Conformance and the packed package are reported of the official commit  *)
(* that the baseline named before.                                         *)
LEMMA BaselineFirst ==
  ASSUME NEW c \in DOMAIN Scripts, NEW i \in 1..Len(Body(c)), Body(c)[i].do = "report",
         Body(c)[i].on \in {"conformance", "packed-install"}
  PROVE  \E j \in 1..(i - 1) : Body(c)[j].do = "baseline"
<1>1. CASE c = "packed"
  <2>1. Len(Body(c)) = 18 /\ Body(c)[11].do = "baseline"
    BY <1>1, PackedSteps DEF Do
  <2>2. i # 9
    BY <1>1, PackedReports DEF Do
  <2>3. i \notin 1..11
    BY <1>1, <2>2, PackedBefore
  <2> QED
    BY <2>1, <2>3
<1>2. CASE c = "conformance"
  <2>1. Body(c)[1].do = "baseline" /\ Len(Body(c)) = 10
    BY <1>2, ConformanceSteps DEF Do
  <2> QED
    BY <2>1
<1>3. CASE c = "verify"
  BY <1>3, VerifySteps DEF Do, Command
<1>4. CASE c = "crashJson"
  BY <1>4, CrashJsonSteps DEF Do, Command
<1>5. CASE c = "crashSqlite"
  BY <1>5, CrashSqliteSteps DEF Do, Command
<1>6. CASE c = "reproduction"
  BY <1>6, ReproductionSteps DEF Do
<1>7. CASE c = "stock"
  BY <1>7, NoStockReport
<1>8. CASE c \in {"benchmark", "docs"}
  BY <1>8, BenchmarkSteps, DocsSteps DEF Do
<1> QED
  BY <1>1, <1>2, <1>3, <1>4, <1>5, <1>6, <1>7, <1>8, ScriptNames

(* A collection that is beyond its commands has every report.              *)
LEMMA AllDone ==
  ASSUME Progress, \A i \in 1..7 : \A j \in 1..Len(Body(CollectCommands[i])) : Past(i, j)
  PROVE  /\ \A e \in Reports : evidence[e] # None
         /\ source.synced /\ Targeted(source.baseline)
<1>1. ASSUME NEW i \in 1..7, NEW j \in 1..Len(Body(CollectCommands[i]))
      PROVE  Achieved(Body(CollectCommands[i])[j])
  BY <1>1 DEF Progress
<1>2. source.synced
  <2>1. Achieved(Body("docs")[1])
    BY <1>1, CommandNames, DocsSteps
  <2> QED
    BY <2>1, DocsSteps DEF Achieved, Do
<1>3. Targeted(source.baseline) /\ evidence["conformance"] # None
  <2>1. Achieved(Body("conformance")[1]) /\ Achieved(Body("conformance")[10])
    BY <1>1, CommandNames, ConformanceSteps
  <2> QED
    BY <2>1, ConformanceSteps DEF Achieved, Do
<1>4. evidence["crash-json"] # None
  <2>1. Achieved(Body("crashJson")[6])
    BY <1>1, CommandNames, CrashJsonSteps
  <2> QED
    BY <2>1, CrashJsonSteps DEF Achieved, Do
<1>5. evidence["crash-sqlite"] # None
  <2>1. Achieved(Body("crashSqlite")[6])
    BY <1>1, CommandNames, CrashSqliteSteps
  <2> QED
    BY <2>1, CrashSqliteSteps DEF Achieved, Do
<1>6. evidence["screenshot"] # None /\ evidence["packed-install"] # None
  <2>1. Achieved(Body("packed")[9]) /\ Achieved(Body("packed")[18])
    BY <1>1, CommandNames, PackedReports
  <2>2. Body("packed")[9] = Do("report", "screenshot") /\ Body("packed")[18] = Do("report", "packed-install")
    BY PackedReports
  <2> QED
    BY <2>1, <2>2 DEF Achieved, Do
<1>7. evidence["benchmark"] # None
  <2>1. Achieved(Body("benchmark")[2])
    BY <1>1, CommandNames, BenchmarkSteps
  <2> QED
    BY <2>1, BenchmarkSteps DEF Achieved, Do
<1>8. evidence["reproduction"] # None
  <2>1. Achieved(Body("reproduction")[5])
    BY <1>1, CommandNames, ReproductionSteps
  <2> QED
    BY <2>1, ReproductionSteps DEF Achieved, Do
<1> QED
  BY <1>2, <1>3, <1>4, <1>5, <1>6, <1>7, <1>8 DEF Reports

-----------------------------------------------------------------------------
(* The collection, as the slots act and others touch the tree.             *)

Collecting ==
  /\ CollectorOK /\ Spanned /\ ManifestOK /\ CleanOK /\ RejectOK
  /\ touched = {} => Alone

LEMMA WorksRunning ==
  ASSUME NEW s, Works(s)
  PROVE  Running(s)
BY DEF Works, MayThrow, Baseline, Checkout, Commands, Pack, Sync, Take, Drop, WorktreeStays,
       Measure, Report, Spawn, Supervises, SeesMarker, CrashExit, CrashTimesOut, WebReady,
       WebExit, WebTimesOut, StopWeb, StockClose, StockTimesOut, StockOverflows, Awaits, At

LEMMA CommandReports ==
  ASSUME NEW i \in 1..7, NEW j \in 1..Len(Body(CollectCommands[i])),
         Body(CollectCommands[i])[j].do = "report"
  PROVE  Body(CollectCommands[i])[j].on \in Reports
BY CommandsAreScripts, WellFormedScripts DEF WellFormed, Proper, CrashOrder

LEMMA SyncedOnly ==
  ASSUME SlotsOK, source' = source \/ source' = [source EXCEPT !.synced = TRUE]
  PROVE  /\ source'.edit = source.edit /\ source'.picture = source.picture
         /\ source'.patch = source.patch /\ source'.plugin = source.plugin
         /\ source'.runtime = source.runtime /\ source'.baseline = source.baseline
         /\ source.synced => source'.synced
BY DEF SlotsOK, SourceType

(* Nothing that was on record is lost, and what is new is on record.       *)
LEMMA SpannedKept ==
  ASSUME Spanned, SlotsOK, CollectorOK, collector'.begun = collector.begun,
         source'.edit = source.edit, touched \subseteq touched',
         run'[Collector].read \subseteq run[Collector].read \cup {source.edit},
         \A e \in Reports :
           \/ evidence'[e] = evidence[e]
           \/ /\ Within(evidence'[e], collector.begun, source.edit)
              /\ Foreign(evidence'[e], touched')
  PROVE  Spanned'
<1>1. source.edit \in collector.begun..source.edit
  BY DEF Spanned, SlotsOK, SourceType, CollectorOK, CollectorType
<1>2. \A e \in Reports : /\ Within(evidence'[e], collector.begun, source.edit)
                         /\ Foreign(evidence'[e], touched')
  BY DEF Spanned, Foreign
<1> QED
  BY <1>1, <1>2 DEF Spanned, Within, Foreign

LEMMA ValidKept ==
  ASSUME UNCHANGED <<evidence, tarball>>, source'.patch = source.patch,
         source'.plugin = source.plugin, source'.runtime = source.runtime,
         source'.baseline = source.baseline
  PROVE  AllValid' = AllValid /\ Identities' = Identities
<1>1. BaselineValid' = BaselineValid /\ PackageValid' = PackageValid /\ PatchValid' = PatchValid
  BY DEF BaselineValid, PackageValid, PatchValid
<1>2. MeasurementsValid' = MeasurementsValid /\ VersionsValid' = VersionsValid
  BY DEF MeasurementsValid, VersionsValid
<1>3. EvidenceValid' = EvidenceValid
  BY <1>2 DEF EvidenceValid
<1>4. Identities' = Identities
  BY DEF Identities
<1> QED
  BY <1>1, <1>3, <1>4 DEF AllValid

(* What leaves the collection as it is.                                    *)
LEMMA Aside ==
  ASSUME SlotsOK, Collecting, UNCHANGED collectVars,
         run'[Collector].script = run[Collector].script,
         touched' \in SUBSET Touches, touched \subseteq touched',
         touched' = {} => source' = source \/ source' = [source EXCEPT !.synced = TRUE],
         \A item \in left' : item \in left \/ item[1] # Collector
  PROVE  CollectorOK' /\ ManifestOK' /\ CleanOK' /\ RejectOK'
<1>1. collector' = collector /\ manifest' = manifest
  BY DEF collectVars
<1>2. CollectorOK'
  BY <1>1 DEF Collecting, CollectorOK, Running
<1>3. ManifestOK'
  BY <1>1 DEF Collecting, ManifestOK
<1>4. CleanOK'
  BY <1>1 DEF Collecting, CleanOK
<1>5. touched' = {} => touched = {} /\ Releasable' = Releasable
  BY SyncedOnly DEF Releasable, PackageValid, PatchValid
<1>6. MeasurementsValid' = MeasurementsValid
  BY DEF MeasurementsValid
<1>7. RejectOK'
  BY <1>1, <1>5, <1>6 DEF Collecting, RejectOK
<1> QED
  BY <1>2, <1>3, <1>4, <1>7

LEMMA SyncedAgain ==
  ASSUME SlotsOK, source.synced, source' = [source EXCEPT !.synced = TRUE]
  PROVE  source' = source
BY DEF SlotsOK, SourceType

(* A collection with a manifest, or about to write one, is beyond all of   *)
(* its commands.                                                           *)
LEMMA ManifestDone ==
  ASSUME Collecting, Progress, collector.pc \in Beyond
  PROVE  /\ \A e \in Reports : evidence[e] # None
         /\ source.synced /\ Targeted(source.baseline)
BY AllDone DEF Past

(* Others that leave what the collection depends on alone.                 *)
LEMMA Bystander ==
  ASSUME SlotsOK, Collecting, touched = {}, UNCHANGED collectVars,
         run'[Collector] = run[Collector], evidence' = evidence, tarball' = tarball,
         source' = source \/ source' = [source EXCEPT !.synced = TRUE]
  PROVE  Alone'
<1>1. Alone /\ collector' = collector /\ manifest' = manifest
  BY DEF Collecting, collectVars
<1>2. /\ source'.edit = source.edit /\ source'.picture = source.picture
      /\ source'.patch = source.patch /\ source'.plugin = source.plugin
      /\ source'.runtime = source.runtime /\ source'.baseline = source.baseline
      /\ source.synced => source'.synced
  BY SyncedOnly
<1>3. Progress'
  <2> SUFFICES ASSUME NEW i \in 1..7, NEW j \in 1..Len(Body(CollectCommands[i])), Past(i, j)'
               PROVE  Achieved(Body(CollectCommands[i])[j])'
    BY DEF Progress, Body
  <2>1. Past(i, j)
    BY <1>1 DEF Past
  <2>2. Achieved(Body(CollectCommands[i])[j])
    BY <1>1, <2>1 DEF Alone, Progress
  <2> QED
    BY <1>2, <2>2 DEF Achieved, Body
<1>4. Packing' /\ Pinned' /\ Honest'
  BY <1>1, <1>2 DEF Alone, Packing, Pinned, Honest, Body
<1>5. Bound'
  <2>1. manifest # None => source' = source
    <3>1. manifest # None => collector.pc \in Beyond
      BY DEF Collecting, ManifestOK, Beyond
    <3> QED
      BY <1>1, <3>1, ManifestDone, SyncedAgain DEF Alone
  <2>2. AllValid' = AllValid /\ Identities' = Identities
    BY <1>2, ValidKept
  <2> QED
    BY <1>1, <1>2, <2>1, <2>2 DEF Alone, Bound
<1> QED
  BY <1>3, <1>4, <1>5 DEF Alone

(* A command of the collection takes a step.                               *)
LEMMA CommandProgress ==
  ASSUME Footing, Collecting, Progress, Behaves(Collector), UNCHANGED collectVars,
         collector.pc = "waiting"
  PROVE  Progress'
<1> DEFINE r == run[Collector]
           q == run'[Collector]
<1>1. /\ collector' = collector /\ r \in RunType /\ q.script = r.script
      /\ collector.at \in 1..7 /\ r.script = CollectCommands[collector.at]
      /\ r.script # Idle /\ SlotOK(r, kid[Collector])
  BY CollectorAssumption, WorksSameScript
  DEF Collecting, CollectorOK, Footing, SlotsOK, collectVars, Running
<1>2. Placed(r)
  BY <1>1 DEF SlotOK
<1>3. /\ Len(Body(r.script)) \in Nat /\ r.at \in Nat
      /\ r.phase = "body" => Part(r) = Body(r.script)
  BY <1>1, <1>2, Lengths, PartOf DEF Placed, RunType
<1>4. ASSUME NEW i \in 1..7, NEW j \in 1..Len(Body(CollectCommands[i])), Past(i, j)'
      PROVE  Achieved(Body(CollectCommands[i])[j])'
  <2> DEFINE step == Body(CollectCommands[i])[j]
  <2>1. CASE Past(i, j)
    <3>1. Achieved(step)
      BY <2>1 DEF Progress
    <3>2. step.do = "report" => step.on \in Reports
      BY CommandReports
    <3>3. step.do = "report" => evidence'[step.on] # None
      BY <3>1, <3>2, CollectorAssumption, ReportsStay DEF Achieved, Footing
    <3>4. /\ source'.baseline = source.baseline
          /\ source.synced => source'.synced
      BY DEF Behaves, Footing, SlotsOK, SourceType
    <3> QED
      BY <3>1, <3>3, <3>4 DEF Achieved, Body
  <2>2. CASE ~Past(i, j)
    <3>1. /\ collector.at = i /\ ~q.failed /\ (q.phase # "body" \/ q.at > j)
          /\ ~(~r.failed /\ (r.phase # "body" \/ r.at > j))
      BY <1>1, <1>4, <2>2 DEF Past, Beyond
    <3>2. OnTo(r, q) /\ (r.phase = "body" => Achieves(Body(r.script)[r.at]))
      BY <3>1 DEF Behaves, Goes, SamePlace, OutTo
    <3>3. r.phase = "body" /\ ~(r.at > j)
      BY <3>1, <3>2 DEF OnTo
    <3>4. r.at = j
      BY <1>1, <1>3, <3>1, <3>2, <3>3 DEF OnTo
    <3> QED
      BY <1>1, <3>1, <3>2, <3>3, <3>4 DEF Achieved, Achieves, Body
  <2> QED
    BY <2>1, <2>2
<1> QED
  BY <1>4 DEF Progress, Body

(* What it packed is what lies in dist/.                                   *)
LEMMA CommandPacking ==
  ASSUME Footing, Packing, Behaves(Collector), run[Collector].script # Idle
  PROVE  Packing'
<1> DEFINE r == run[Collector]
           q == run'[Collector]
<1>1. source'.edit = source.edit
  BY DEF Behaves, Footing, SlotsOK, SourceType
<1>2. q.packed = source.edit => tarball' = source.edit
  BY DEF Behaves, Packing
<1>3. r.at \in Nat /\ q.script = r.script
  BY CollectorAssumption, WorksSameScript DEF Footing, SlotsOK, RunType
<1>4. ASSUME q.phase = "body", NEW j \in 1..(q.at - 1), Body(q.script)[j].do = "pack"
      PROVE  q.packed = source.edit
  <2>1. CASE SamePlace(r, q)
    <3>1. r.packed = source.edit
      BY <1>3, <1>4, <2>1 DEF Packing, SamePlace
    <3> QED
      BY <3>1 DEF Behaves
  <2>2. CASE OnTo(r, q)
    <3>1. r.phase = "body" /\ q.at = r.at + 1
      BY <1>4, <2>2 DEF OnTo
    <3>2. CASE j = r.at
      <4>1. Body(r.script)[r.at].do = "pack"
        BY <1>3, <1>4, <3>2
      <4>2. ~OutTo(r, q)
        BY <1>4 DEF OutTo
      <4>3. ~SamePlace(r, q) /\ Goes(Collector)
        BY <1>3, <3>1 DEF SamePlace, Behaves
      <4> QED
        BY <3>1, <4>1, <4>2, <4>3 DEF Goes
    <3>3. CASE j # r.at
      <4>1. j \in 1..(r.at - 1)
        BY <1>3, <1>4, <3>1, <3>3
      <4>2. Body(r.script)[j].do = "pack"
        BY <1>3, <1>4
      <4>3. r.packed = source.edit
        BY <3>1, <4>1, <4>2 DEF Packing
      <4> QED
        BY <4>3 DEF Behaves
    <3> QED
      BY <3>2, <3>3
  <2>3. ~OutTo(r, q)
    BY <1>4 DEF OutTo
  <2> QED
    BY <2>1, <2>2, <2>3 DEF Behaves, Goes
<1> QED
  BY <1>1, <1>2, <1>4 DEF Packing, Body

(* The commit it took from the baseline is the one that is still there.    *)
LEMMA CommandPinned ==
  ASSUME Footing, Pinned, Behaves(Collector), run[Collector].script # Idle
  PROVE  Pinned'
<1> DEFINE r == run[Collector]
           q == run'[Collector]
<1>1. source'.baseline = source.baseline
  BY DEF Behaves, Footing, SlotsOK, SourceType
<1>2. r.at \in Nat /\ q.script = r.script
  BY CollectorAssumption, WorksSameScript DEF Footing, SlotsOK, RunType
<1>3. ASSUME q.phase = "body", NEW j \in 1..(q.at - 1), Body(q.script)[j].do = "baseline"
      PROVE  q.commit = source.baseline.commit
  <2>1. CASE SamePlace(r, q)
    <3>1. r.commit = source.baseline.commit
      BY <1>2, <1>3, <2>1 DEF Pinned, SamePlace
    <3> QED
      BY <3>1 DEF Behaves
  <2>2. CASE OnTo(r, q)
    <3>1. r.phase = "body" /\ q.at = r.at + 1
      BY <1>3, <2>2 DEF OnTo
    <3>2. CASE j = r.at
      <4>1. Body(r.script)[r.at].do = "baseline"
        BY <1>2, <1>3, <3>2
      <4>2. ~OutTo(r, q)
        BY <1>3 DEF OutTo
      <4>3. ~SamePlace(r, q) /\ Goes(Collector)
        BY <1>2, <3>1 DEF SamePlace, Behaves
      <4> QED
        BY <3>1, <4>1, <4>2, <4>3 DEF Goes
    <3>3. CASE j # r.at
      <4>1. j \in 1..(r.at - 1)
        BY <1>2, <1>3, <3>1, <3>3
      <4>2. Body(r.script)[j].do = "baseline"
        BY <1>2, <1>3
      <4>3. r.commit = source.baseline.commit
        BY <3>1, <4>1, <4>2 DEF Pinned
      <4> QED
        BY <4>3 DEF Behaves
    <3> QED
      BY <3>2, <3>3
  <2>3. ~OutTo(r, q)
    BY <1>3 DEF OutTo
  <2> QED
    BY <2>1, <2>2, <2>3 DEF Behaves, Goes
<1> QED
  BY <1>1, <1>3 DEF Pinned, Body

(* What it reports is of the versions in the tree, of that commit and of   *)
(* what it packed.                                                         *)
LEMMA CommandHonest ==
  ASSUME Footing, Packing, Pinned, Honest, Behaves(Collector), run[Collector].script # Idle
  PROVE  Honest'
<1> DEFINE r == run[Collector]
<1>1. /\ source'.edit = source.edit /\ source'.plugin = source.plugin
      /\ source'.runtime = source.runtime /\ source'.baseline = source.baseline
  BY DEF Behaves, Footing, SlotsOK, SourceType
<1>2. tarball = source.edit => tarball' = source.edit
  BY DEF Behaves
<1>3. CASE evidence' = evidence
  BY <1>1, <1>2, <1>3 DEF Honest
<1>4. CASE Writes(Collector)
  <2>1. PICK on \in Reports : /\ on = On(Collector)
                              /\ evidence' = [evidence EXCEPT ![on] = Written(Collector, on)]
    BY <1>4, CollectorAssumption, WrittenType DEF Writes, Footing
  <2>2. evidence'[on] = Written(Collector, on) /\ \A e \in Reports \ {on} : evidence'[e] = evidence[e]
    BY <2>1 DEF Footing, EvidenceOK
  <2>3. /\ r.phase = "body" /\ r \in RunType /\ Placed(r)
        /\ Body(r.script)[r.at].do = "report" /\ on = Body(r.script)[r.at].on
    BY <1>4, <2>1, CollectorAssumption, StepAt DEF Writes, Footing, On
  <2>4. r.at \in 1..Len(Body(r.script)) /\ r.script \in DOMAIN Scripts
    BY <2>3 DEF Placed
  <2>5. \A e \in {"screenshot", "packed-install"} :
          evidence'[e] # None => evidence'[e].packed = source.edit /\ tarball' = source.edit
    <3>1. ASSUME on \in {"screenshot", "packed-install"}
          PROVE  Written(Collector, on).packed = source.edit /\ tarball = source.edit
      <4>1. \E j \in 1..(r.at - 1) : Body(r.script)[j].do = "pack"
        BY <2>3, <2>4, <3>1, PackedFirst
      <4>2. r.packed = source.edit
        BY <2>3, <4>1 DEF Packing
      <4> QED
        BY <3>1, <4>2 DEF Packing, Written
    <3> QED
      BY <1>2, <2>2, <3>1 DEF Honest, Reports
  <2>6. \A e \in {"conformance", "packed-install"} :
          evidence'[e] # None => evidence'[e].commit = source.baseline.commit
    <3>1. ASSUME on \in {"conformance", "packed-install"}
          PROVE  Written(Collector, on).commit = source.baseline.commit
      <4>1. \E j \in 1..(r.at - 1) : Body(r.script)[j].do = "baseline"
        BY <2>3, <2>4, <3>1, BaselineFirst
      <4>2. r.commit = source.baseline.commit
        BY <2>3, <4>1 DEF Pinned
      <4> QED
        BY <4>2 DEF Written
    <3> QED
      BY <2>2, <3>1 DEF Honest, Reports
  <2>7. evidence'["conformance"] # None =>
          evidence'["conformance"].runtime["dsh"] = NamedVersion
    <3>1. on = "conformance" => Written(Collector, on).runtime["dsh"] = NamedVersion
      BY DEF Written, Packages
    <3> QED
      BY <2>2, <3>1 DEF Honest, Reports
  <2>8. \A e \in {"packed-install", "benchmark"} :
          evidence'[e] # None => /\ evidence'[e].runtime = source.runtime
                                 /\ evidence'[e].plugin = source.plugin
    <3>1. on \in {"packed-install", "benchmark"} =>
            /\ Written(Collector, on).runtime = source.runtime
            /\ Written(Collector, on).plugin = source.plugin
      BY DEF Written
    <3> QED
      BY <2>2, <3>1 DEF Honest, Reports
  <2> QED
    BY <1>1, <2>5, <2>6, <2>7, <2>8 DEF Honest
<1> QED
  BY <1>3, <1>4 DEF Behaves

LEMMA CommandWorks ==
  ASSUME Footing, Collecting, Works(Collector), UNCHANGED <<collectVars, touched, used>>
  PROVE  Footing' /\ Collecting'
<1>1. Footing' /\ Behaves(Collector) /\ collector' = collector
  BY CollectorAssumption, WorksFooting DEF collectVars
<1>2. run[Collector].script # Idle /\ collector.pc = "waiting"
  BY WorksRunning DEF Running, Collecting, CollectorOK
<1>3. run'[Collector].script = run[Collector].script
  BY <1>1, CollectorAssumption, WorksSameScript
<1>4. left' = left /\ (source' = source \/ source' = [source EXCEPT !.synced = TRUE])
  BY <1>1 DEF Behaves
<1>5. CollectorOK' /\ ManifestOK' /\ CleanOK' /\ RejectOK'
  BY <1>3, <1>4, Aside DEF Collecting, CollectorOK, Footing
<1>6. Spanned'
  <2>1. /\ source'.edit = source.edit
        /\ run'[Collector].read \subseteq run[Collector].read \cup {source.edit}
    BY <1>1, <1>4, SyncedOnly DEF Footing, Behaves
  <2>2. ASSUME NEW e \in Reports, evidence'[e] # evidence[e]
        PROVE  /\ Within(evidence'[e], collector.begun, source.edit)
               /\ Foreign(evidence'[e], touched')
    <3>1. evidence'[e] = Written(Collector, On(Collector))
      BY <1>1, <2>2 DEF Behaves, Writes, Footing, EvidenceOK
    <3>2. evidence'[e].by = Collector /\ evidence'[e].read = run[Collector].read
      BY <3>1 DEF Written
    <3> QED
      BY <3>2 DEF Within, Foreign, Collecting, Spanned
  <2> QED
    BY <1>1, <2>1, <2>2, SpannedKept DEF Collecting, Footing
<1>7. ASSUME touched = {} PROVE Alone'
  <2>1. Progress' /\ Packing' /\ Pinned' /\ Honest'
    BY <1>1, <1>2, <1>7, CommandProgress, CommandPacking, CommandPinned, CommandHonest
    DEF Collecting, Alone
  <2>2. Bound'
    BY <1>1, <1>2 DEF Bound, Collecting, ManifestOK, collectVars
  <2> QED
    BY <2>1, <2>2 DEF Alone
<1> QED
  BY <1>1, <1>5, <1>6, <1>7 DEF Collecting

LEMMA ApartActs ==
  ASSUME Footing, Collecting, NEW s \in Slots, Apart(s)
  PROVE  Footing' /\ Collecting'
<1>1. /\ s # Collector /\ UNCHANGED collectVars /\ collector' = collector
      /\ touched' = touched \cup (IF evidence' # evidence THEN {"report"} ELSE {})
                            \cup (IF tarball' # tarball THEN {"pack"} ELSE {})
  BY DEF Apart, collectVars
<1>2. /\ Footing' /\ run' = [run EXCEPT ![s] = run'[s]]
      /\ source' = source \/ source' = [source EXCEPT !.synced = TRUE]
      /\ \A item \in left' : item \in left \/ item[1] = s
      /\ evidence' = evidence \/ Writes(s)
  <2>1. CASE \E script \in ApartScripts : Starts(s, script)
    <3>1. PICK script \in DOMAIN Scripts : Starts(s, script)
      BY <2>1, CollectorAssumption
    <3>2. /\ Footing' /\ run' = [run EXCEPT ![s] = run'[s]]
          /\ UNCHANGED <<treeVars, evidence, left>>
      BY <1>1, <3>1, StartsFooting, StartsKeeps DEF Footing
    <3> QED
      BY <3>2 DEF treeVars
  <2>2. CASE Works(s)
    <3>1. Footing' /\ Behaves(s)
      BY <1>1, <2>2, WorksFooting
    <3> QED
      BY <3>1 DEF Behaves
  <2>3. CASE Exits(s)
    <3>1. /\ Footing' /\ run' = [run EXCEPT ![s] = run'[s]] /\ UNCHANGED <<treeVars, evidence>>
          /\ left' = left \cup {<<s, run[s].script, x>> : x \in run[s].holds}
      BY <1>1, <2>3, ExitsFooting, ExitsKeeps DEF Footing
    <3> QED
      BY <3>1 DEF treeVars
  <2> QED
    BY <2>1, <2>2, <2>3 DEF Apart
<1>3. run'[Collector] = run[Collector]
  BY <1>1, <1>2, CollectorAssumption DEF Footing, SlotsOK
<1>4. CollectorOK' /\ ManifestOK' /\ CleanOK' /\ RejectOK'
  <2>1. touched' \in SUBSET Touches /\ touched \subseteq touched'
    BY <1>1 DEF Collecting, CollectorOK, Touches
  <2> QED
    BY <1>1, <1>2, <1>3, <2>1, Aside DEF Footing
<1>5. Spanned'
  <2>1. ASSUME NEW e \in Reports, evidence'[e] # evidence[e]
        PROVE  evidence'[e].by # Collector /\ "report" \in touched'
    <3>1. evidence'[e] = Written(s, On(s))
      BY <1>2, <2>1 DEF Writes, Footing, EvidenceOK
    <3> QED
      BY <1>1, <2>1, <3>1 DEF Written
  <2>2. source'.edit = source.edit
    BY <1>2, SyncedOnly DEF Footing
  <2> QED
    BY <1>1, <1>3, <2>1, <2>2, SpannedKept DEF Collecting, Footing, Within, Foreign
<1>6. ASSUME touched' = {} PROVE Alone'
  <2>1. touched = {} /\ evidence' = evidence /\ tarball' = tarball
    BY <1>1, <1>6
  <2> QED
    BY <1>1, <1>2, <1>3, <2>1, Bystander DEF Footing
<1> QED
  BY <1>2, <1>4, <1>5, <1>6 DEF Collecting

LEMMA KidsActs ==
  ASSUME Footing, Collecting, NEW s \in Slots, KidsAct(s)
  PROVE  Footing' /\ Collecting'
<1>1. UNCHANGED <<collectVars, touched, used>> /\ KidActs(s) /\ collector' = collector
  BY DEF KidsAct, collectVars
<1>2. Footing' /\ UNCHANGED <<run, treeVars, evidence, left>>
  BY <1>1, KidActsFooting, KidActsKeeps DEF Footing
<1>3. source' = source /\ tarball' = tarball
  BY <1>2 DEF treeVars
<1>4. CollectorOK' /\ ManifestOK' /\ CleanOK' /\ RejectOK'
  BY <1>1, <1>2, <1>3, Aside DEF Collecting, CollectorOK, Footing
<1>5. Spanned'
  BY <1>1, <1>2, <1>3, SpannedKept DEF Collecting, Footing
<1>6. ASSUME touched = {} PROVE Alone'
  BY <1>1, <1>2, <1>3, <1>6, Bystander DEF Footing
<1> QED
  BY <1>1, <1>2, <1>4, <1>5, <1>6 DEF Collecting

(* Whoever edits the source or refreshes the baseline has touched it.      *)
LEMMA OthersTouch ==
  ASSUME Footing, Collecting, Edit \/ Refresh
  PROVE  Footing' /\ Collecting'
<1>1. Footing'
  BY EditFooting, RefreshFooting
<1>2. /\ UNCHANGED <<run, evidence, left, collectVars>> /\ collector' = collector
      /\ \/ Edit /\ touched' = touched \cup {"edit"}
         \/ Refresh /\ touched' = touched \cup {"refresh"}
  BY DEF Edit, Refresh, collectVars
<1>3. touched' \in SUBSET Touches /\ touched \subseteq touched' /\ touched' # {}
  BY <1>2 DEF Collecting, CollectorOK, Touches
<1>4. CollectorOK' /\ ManifestOK' /\ CleanOK' /\ RejectOK'
  BY <1>2, <1>3, Aside DEF Footing
<1>5. CASE Edit /\ touched' = touched \cup {"edit"}
  <2>1. /\ source'.edit = source.edit + 1 /\ source.edit \in Nat
        /\ collector.begun \in Nat
    BY <1>5, EditFooting DEF Footing, SlotsOK, SourceType, Collecting, CollectorOK, CollectorType
  <2>2. collector.begun..source.edit \subseteq collector.begun..source'.edit
    BY <2>1
  <2>3. Spanned'
    BY <1>2, <1>5, <2>1, <2>2 DEF Collecting, Spanned, Within, Foreign
  <2> QED
    BY <1>1, <1>3, <1>4, <2>3 DEF Collecting
<1>6. CASE Refresh /\ touched' = touched \cup {"refresh"}
  <2>1. Spanned'
    BY <1>2, <1>3, <1>6, RefreshFooting, SpannedKept DEF Collecting, Footing
  <2> QED
    BY <1>1, <1>3, <1>4, <2>1 DEF Collecting
<1> QED
  BY <1>2, <1>5, <1>6

-----------------------------------------------------------------------------
(* The collection's own steps.                                             *)

LEMMA CollectorFields ==
  ASSUME Collecting
  PROVE  /\ collector \in CollectorType
         /\ DOMAIN collector = {"pc", "at", "promote", "identities", "begun"}
BY DEF Collecting, CollectorOK, CollectorType

(* Without a command the collector's slot is idle.                         *)
LEMMA NoCommand ==
  ASSUME Footing, Collecting, collector.pc # "waiting"
  PROVE  run[Collector] = NoProcess
BY CollectorAssumption DEF Collecting, CollectorOK, Running, Footing, SlotsOK, SlotOK

LEMMA CollectKeeps ==
  ASSUME Footing, Collecting, Collect
  PROVE  Footing' /\ Collecting'
<1>1. /\ collector' = [pc |-> "commands", at |-> 1, promote |-> FALSE,
                       identities |-> None, begun |-> source.edit]
      /\ evidence' = [r \in Reports |-> None] /\ manifest' = None /\ touched' = {}
      /\ UNCHANGED <<source, tarball, run>> /\ collector.pc # "waiting"
  BY DEF Collect, RemoveOldEvidence, Nothing, treeVars, Stopped
<1>2. run[Collector] = NoProcess /\ source.edit \in Nat
  BY <1>1, NoCommand DEF Footing, SlotsOK, SourceType
<1>3. CollectorOK'
  <2>1. collector' \in CollectorType
    <3>1. "commands" \in Pcs
      BY DEF Pcs
    <3> QED
      BY <1>1, <1>2, <3>1 DEF CollectorType
  <2>2. collector'.pc = "commands" /\ collector'.at = 1 /\ run'[Collector].script = Idle
    BY <1>1, <1>2 DEF NoProcess
  <2> QED
    BY <1>1, <2>1, <2>2 DEF CollectorOK, Running
<1>4. ManifestOK' /\ CleanOK' /\ RejectOK'
  BY <1>1 DEF ManifestOK, CleanOK, RejectOK
<1>5. Spanned'
  <2>1. None.by # Collector
    BY CollectorAssumption, IdleAssumption DEF None
  <2> QED
    BY <1>1, <1>2, <2>1 DEF Spanned, Within, Foreign, NoProcess
<1>6. Alone'
  <2>1. Progress'
    BY <1>1 DEF Progress, Past, Beyond
  <2>2. Packing' /\ Pinned'
    BY <1>1, <1>2 DEF Packing, Pinned, NoProcess
  <2>3. Honest'
    BY <1>1 DEF Honest, Reports
  <2>4. Bound'
    BY <1>1 DEF Bound
  <2> QED
    BY <2>1, <2>2, <2>3, <2>4 DEF Alone
<1> QED
  BY <1>3, <1>4, <1>5, <1>6, CollectFooting DEF Collecting

LEMMA RunCommandKeeps ==
  ASSUME Footing, Collecting, RunCommand
  PROVE  Footing' /\ Collecting'
<1>1. /\ collector.pc = "commands" /\ collector.at \in 1..7
      /\ collector' = [collector EXCEPT !.pc = "waiting"]
      /\ Starts(Collector, CollectCommands[collector.at])
      /\ UNCHANGED <<manifest, touched>>
  BY CommandNames DEF RunCommand, Goto, Collecting, CollectorOK
<1>2. /\ collector'.pc = "waiting" /\ collector'.at = collector.at
      /\ collector'.begun = collector.begun /\ collector' \in CollectorType
      /\ CollectCommands[collector.at] \in DOMAIN Scripts
  BY <1>1, CollectorFields, CommandsAreScripts DEF Pcs, CollectorType
<1>3. /\ UNCHANGED <<treeVars, evidence, left>>
      /\ run'[Collector].script = CollectCommands[collector.at]
      /\ run'[Collector].phase = "body" /\ run'[Collector].at = 1
      /\ run'[Collector].read = {} /\ run'[Collector].packed = -1
  BY <1>1, <1>2, CollectorAssumption, StartsKeeps DEF Footing
<1>4. Footing'
  BY <1>1, <1>2, CollectorAssumption, StartsFooting
<1>5. manifest = None /\ source' = source /\ tarball' = tarball
  BY <1>1, <1>3 DEF Collecting, ManifestOK, treeVars
<1>6. CollectorOK'
  <2>1. run'[Collector].script # Idle
    BY <1>2, <1>3, IdleAssumption
  <2> QED
    BY <1>1, <1>2, <1>3, <2>1 DEF CollectorOK, Running, Collecting
<1>7. ManifestOK' /\ CleanOK' /\ RejectOK'
  BY <1>1, <1>2, <1>5 DEF ManifestOK, CleanOK, RejectOK
<1>8. Spanned'
  BY <1>1, <1>2, <1>3, <1>5, SpannedKept DEF Collecting, Footing
<1>9. ASSUME touched = {} PROVE Alone'
  <2>1. Alone
    BY <1>9 DEF Collecting
  <2>2. Progress'
    <3> SUFFICES ASSUME NEW i \in 1..7, NEW j \in 1..Len(Body(CollectCommands[i])),
                        Past(i, j)'
                 PROVE  Achieved(Body(CollectCommands[i])[j])'
      BY DEF Progress, Body
    <3>1. Past(i, j)
      BY <1>1, <1>2, <1>3 DEF Past, Beyond
    <3> QED
      BY <1>3, <1>5, <2>1, <3>1 DEF Alone, Progress, Achieved, Body
  <2>3. Packing' /\ Pinned'
    BY <1>3, <1>5 DEF Packing, Pinned, Footing, SlotsOK, SourceType
  <2>4. Honest'
    BY <1>3, <1>5, <2>1 DEF Alone, Honest
  <2>5. Bound'
    BY <1>1, <1>2, <1>5 DEF Bound
  <2> QED
    BY <2>2, <2>3, <2>4, <2>5 DEF Alone
<1> QED
  BY <1>1, <1>4, <1>6, <1>7, <1>8, <1>9 DEF Collecting

LEMMA CommandEndsKeeps ==
  ASSUME Footing, Collecting, CommandEnds
  PROVE  Footing' /\ Collecting'
<1> DEFINE r == run[Collector]
<1>1. /\ collector.pc = "waiting" /\ Exits(Collector) /\ collector.at \in 1..7
      /\ UNCHANGED <<manifest, touched>>
  BY DEF CommandEnds, Collecting, CollectorOK
<1>2. /\ SlotsOK' /\ UNCHANGED <<treeVars, evidence>> /\ run'[Collector] = NoProcess
      /\ r.phase = "over"
  BY <1>1, CollectorAssumption, ExitsKeeps DEF Footing
<1>3. /\ collector' \in CollectorType /\ collector'.begun = collector.begun
      /\ \/ r.failed /\ collector'.pc = "failed"
         \/ ~r.failed /\ collector'.pc = "commands" /\ collector'.at = collector.at + 1
  <2>1. CASE r.failed
    <3>1. collector' = [collector EXCEPT !.pc = "failed", !.at = 0]
      BY <2>1 DEF CommandEnds, Fails
    <3> QED
      BY <2>1, <3>1, CollectorFields DEF Pcs, Stopped, CollectorType
  <2>2. CASE ~r.failed
    <3>1. PICK next \in Nat : next = collector.at + 1
      BY <1>1
    <3>2. collector' = [collector EXCEPT !.pc = "commands", !.at = next]
      BY <2>2, <3>1, CollectorFields DEF CommandEnds, CollectorType
    <3> QED
      BY <2>2, <3>1, <3>2, CollectorFields DEF Pcs, CollectorType
  <2> QED
    BY <2>1, <2>2
<1>4. Footing'
  BY <1>1, <1>3, CollectorAssumption, ExitsFooting
<1>5. manifest = None /\ source' = source /\ tarball' = tarball
  BY <1>1, <1>2 DEF Collecting, ManifestOK, treeVars
<1>6. CollectorOK'
  BY <1>1, <1>2, <1>3 DEF CollectorOK, Running, NoProcess, Collecting
<1>7. ManifestOK' /\ CleanOK' /\ RejectOK'
  BY <1>1, <1>3, <1>5 DEF ManifestOK, CleanOK, RejectOK
<1>8. Spanned'
  BY <1>1, <1>2, <1>3, <1>5, SpannedKept DEF Collecting, Footing, NoProcess
<1>9. ASSUME touched = {} PROVE Alone'
  <2>1. Alone
    BY <1>9 DEF Collecting
  <2>2. Progress'
    <3> SUFFICES ASSUME NEW i \in 1..7, NEW j \in 1..Len(Body(CollectCommands[i])),
                        Past(i, j)'
                 PROVE  Achieved(Body(CollectCommands[i])[j])'
      BY DEF Progress, Body
    <3>1. Past(i, j)
      BY <1>1, <1>2, <1>3 DEF Past, Beyond
    <3> QED
      BY <1>2, <1>5, <2>1, <3>1 DEF Alone, Progress, Achieved, Body
  <2>3. Packing' /\ Pinned'
    BY <1>2, <1>5 DEF Packing, Pinned, NoProcess, Footing, SlotsOK, SourceType
  <2>4. Honest'
    BY <1>2, <1>5, <2>1 DEF Alone, Honest
  <2>5. Bound'
    BY <1>1, <1>3, <1>5 DEF Bound
  <2> QED
    BY <2>2, <2>3, <2>4, <2>5 DEF Alone
<1> QED
  BY <1>1, <1>4, <1>6, <1>7, <1>8, <1>9 DEF Collecting

(* A step of the collection after its commands keeps what they achieved.   *)
LEMMA StillDone ==
  ASSUME Progress, \A i \in 1..7 : \A j \in 1..Len(Body(CollectCommands[i])) : Past(i, j),
         UNCHANGED evidence, source'.synced = source.synced,
         source'.baseline = source.baseline
  PROVE  Progress'
BY DEF Progress, Achieved, Body

(* What the commands achieved and nobody touched is valid.                 *)
LEMMA Valid ==
  ASSUME Footing, Alone, MeasurementsValid, Releasable,
         \A i \in 1..7 : \A j \in 1..Len(Body(CollectCommands[i])) : Past(i, j)
  PROVE  AllValid
<1>1. (\A e \in Reports : evidence[e] # None) /\ Targeted(source.baseline)
  BY AllDone DEF Alone
<1>2. BaselineValid
  <2>1. PICK t \in source.baseline.targets : t.commit = source.baseline.commit
    BY <1>1 DEF Targeted
  <2>2. source.baseline.targets = {t}
    BY DEF Footing, TreeOK
  <2>3. source.baseline.current
    BY <2>1, <2>2 DEF Footing, TreeOK
  <2> QED
    BY <2>1, <2>2, <2>3 DEF BaselineValid
<1>3. VersionsValid
  <2>1. /\ evidence["conformance"] # None /\ evidence["packed-install"] # None
        /\ evidence["benchmark"] # None
    BY <1>1 DEF Reports
  <2>2. source.runtime = source.baseline.npm /\ source.baseline.npm["dsh"] = NamedVersion
    BY DEF Releasable
  <2> QED
    BY <2>1, <2>2 DEF VersionsValid, Alone, Honest
<1>4. EvidenceValid
  BY <1>1, <1>3 DEF EvidenceValid, Alone, Honest, Reports
<1> QED
  BY <1>2, <1>4 DEF AllValid, Releasable

LEMMA ValidateKeeps ==
  ASSUME Footing, Collecting, Validate
  PROVE  Footing' /\ Collecting'
<1>1. /\ collector.pc = "commands" /\ collector.at = 8
      /\ UNCHANGED <<source, run, tarball, evidence, left, manifest, touched>>
      /\ collector' = IF AllValid
           THEN [collector EXCEPT !.pc = "promoting", !.identities = Identities]
           ELSE [collector EXCEPT !.pc = "rejected"]
  BY CommandNames DEF Validate, Collecting, CollectorOK, scriptVars
<1>2. /\ collector' \in CollectorType /\ collector'.begun = collector.begun
      /\ \/ AllValid /\ collector'.pc = "promoting" /\ collector'.identities = Identities
         \/ ~AllValid /\ collector'.pc = "rejected"
  <2>1. CASE AllValid
    <3>1. Identities \in IdentityType
      <4>1. evidence["packed-install"] \in ReportType
        BY <2>1 DEF AllValid, EvidenceValid, Footing, EvidenceOK, Reports
      <4>2. source \in SourceType /\ source.baseline \in BaselineType
        BY DEF Footing, SlotsOK, SourceType
      <4> QED
        BY <4>1, <4>2 DEF Identities, IdentityType, ReportType, SourceType, BaselineType
    <3>2. PICK identities \in IdentityType : identities = Identities
      BY <3>1
    <3>3. collector' = [collector EXCEPT !.pc = "promoting", !.identities = identities]
      BY <1>1, <2>1, <3>2
    <3> QED
      BY <2>1, <3>2, <3>3, CollectorFields DEF Pcs, CollectorType
  <2>2. CASE ~AllValid
    BY <1>1, <2>2, CollectorFields DEF Pcs, Stopped, CollectorType
  <2> QED
    BY <2>1, <2>2
<1>3. \A i \in 1..7 : \A j \in 1..Len(Body(CollectCommands[i])) : Past(i, j)
  BY <1>1 DEF Past
<1>4. Footing'
  BY CollectorFields, ValidateFooting
<1>5. manifest = None
  BY <1>1 DEF Collecting, ManifestOK
<1>6. CollectorOK'
  BY <1>1, <1>2 DEF CollectorOK, Running, Collecting
<1>7. ManifestOK' /\ CleanOK'
  BY <1>1, <1>2, <1>5 DEF ManifestOK, CleanOK
<1>8. RejectOK'
  <2>1. touched = {} /\ MeasurementsValid /\ Releasable => AllValid
    BY <1>3, Valid DEF Collecting
  <2>2. MeasurementsValid' = MeasurementsValid /\ Releasable' = Releasable
    BY <1>1 DEF MeasurementsValid, Releasable, PackageValid, PatchValid
  <2> QED
    BY <1>1, <1>2, <2>1, <2>2 DEF RejectOK
<1>9. Spanned'
  BY <1>1, <1>2, SpannedKept DEF Collecting, Footing
<1>10. ASSUME touched = {} PROVE Alone'
  <2>1. Alone
    BY <1>10 DEF Collecting
  <2>2. Progress'
    BY <1>1, <1>3, <2>1, StillDone DEF Alone
  <2>3. Packing' /\ Pinned' /\ Honest'
    BY <1>1, <2>1 DEF Alone, Packing, Pinned, Honest, Body
  <2>4. Bound'
    <3>1. AllValid' = AllValid /\ Identities' = Identities
      BY <1>1, ValidKept
    <3> QED
      BY <1>1, <1>2, <1>5, <3>1 DEF Bound
  <2> QED
    BY <2>2, <2>3, <2>4 DEF Alone
<1> QED
  BY <1>1, <1>4, <1>6, <1>7, <1>8, <1>9, <1>10 DEF Collecting

LEMMA PromoteKeeps ==
  ASSUME Footing, Collecting, Promote
  PROVE  Footing' /\ Collecting'
<1>1. /\ collector.pc = "promoting" /\ UNCHANGED <<run, tarball, evidence, left, manifest, touched>>
      /\ \A e \in Reports : evidence[e] # None
  BY DEF Promote, Footing, EvidenceOK
<1>2. PICK promote \in BOOLEAN :
        /\ source' = [source EXCEPT !.picture =
             IF promote THEN evidence["screenshot"].packed ELSE @]
        /\ collector' = [collector EXCEPT !.promote = promote,
             !.pc = IF source'.picture = collector.identities.package
                    THEN "writing" ELSE "stale-picture"]
  BY DEF Promote
<1>3. /\ source'.edit = source.edit /\ source'.synced = source.synced
      /\ source'.baseline = source.baseline /\ source'.patch = source.patch
      /\ source'.plugin = source.plugin /\ source'.runtime = source.runtime
      /\ promote => source'.picture = evidence["screenshot"].packed
  BY <1>2 DEF Footing, SlotsOK, SourceType
<1>4. /\ collector' \in CollectorType /\ collector'.begun = collector.begun
      /\ collector'.promote = promote /\ collector'.identities = collector.identities
      /\ \/ /\ collector'.pc = "writing"
            /\ source'.picture = collector.identities.package
         \/ /\ collector'.pc = "stale-picture"
            /\ source'.picture # collector.identities.package
  <2>1. PICK pc \in Pcs :
          pc = IF source'.picture = collector.identities.package
               THEN "writing" ELSE "stale-picture"
    BY DEF Pcs, Stopped
  <2>2. collector' = [collector EXCEPT !.promote = promote, !.pc = pc]
    BY <1>2, <2>1
  <2> QED
    BY <2>1, <2>2, CollectorFields DEF CollectorType
<1>5. \A i \in 1..7 : \A j \in 1..Len(Body(CollectCommands[i])) : Past(i, j)
  BY <1>1 DEF Past, Beyond
<1>6. Footing'
  BY PromoteFooting
<1>7. manifest = None
  BY <1>1 DEF Collecting, ManifestOK
<1>8. CollectorOK'
  BY <1>1, <1>4 DEF CollectorOK, Running, Collecting
<1>9. ManifestOK' /\ CleanOK'
  BY <1>1, <1>4, <1>7 DEF ManifestOK, CleanOK
<1>10. touched = {} =>
         /\ evidence["screenshot"].packed = evidence["packed-install"].packed
         /\ collector.identities.package = evidence["packed-install"].packed
  BY <1>1 DEF Collecting, Alone, Honest, Bound, Identities, Reports
<1>11. RejectOK'
  BY <1>1, <1>3, <1>4, <1>10 DEF RejectOK
<1>12. Spanned'
  BY <1>1, <1>3, <1>4, SpannedKept DEF Collecting, Footing
<1>13. ASSUME touched = {} PROVE Alone'
  <2>1. Alone
    BY <1>13 DEF Collecting
  <2>2. Progress'
    BY <1>1, <1>3, <1>5, <2>1, StillDone DEF Alone
  <2>3. Packing' /\ Pinned' /\ Honest'
    BY <1>1, <1>3, <2>1 DEF Alone, Packing, Pinned, Honest, Body
  <2>4. Bound'
    <3>1. AllValid' = AllValid /\ Identities' = Identities
      BY <1>1, <1>3, ValidKept
    <3> QED
      BY <1>1, <1>4, <1>7, <1>10, <1>13, <2>1, <3>1 DEF Alone, Bound
  <2> QED
    BY <2>2, <2>3, <2>4 DEF Alone
<1> QED
  BY <1>1, <1>6, <1>8, <1>9, <1>11, <1>12, <1>13 DEF Collecting

LEMMA WriteManifestKeeps ==
  ASSUME Footing, Collecting, WriteManifest
  PROVE  Footing' /\ Collecting'
<1>1. /\ collector.pc = "writing" /\ UNCHANGED <<source, run, tarball, evidence, left, touched>>
      /\ manifest' = [source |-> source, identities |-> collector.identities,
                      artifacts |-> evidence, touched |-> touched,
                      begun |-> collector.begun]
      /\ collector' = [collector EXCEPT !.pc = "cleaning"]
  BY DEF WriteManifest, Goto, Fingerprint, scriptVars
<1>2. /\ collector' \in CollectorType /\ collector'.pc = "cleaning"
      /\ collector'.begun = collector.begun
  BY <1>1, CollectorFields DEF Pcs, CollectorType
<1>3. \A i \in 1..7 : \A j \in 1..Len(Body(CollectCommands[i])) : Past(i, j)
  BY <1>1 DEF Past, Beyond
<1>4. Footing'
  BY CollectorFields, WriteManifestFooting
<1>5. CollectorOK'
  BY <1>1, <1>2 DEF CollectorOK, Running, Collecting
<1>6. ManifestOK'
  <2>1. manifest' \in ManifestType
    <3>1. source \in SourceType /\ evidence \in [Reports -> ReportType \cup {None}]
      BY DEF Footing, SlotsOK, EvidenceOK
    <3>2. /\ collector.identities \in IdentityType \cup {None} /\ collector.begun \in Nat
          /\ touched \in SUBSET Touches
      BY DEF Collecting, CollectorOK, CollectorType
    <3> QED
      BY <1>1, <3>1, <3>2 DEF ManifestType
  <2>2. /\ manifest'.source = source /\ manifest'.artifacts = evidence
        /\ manifest'.touched = touched /\ manifest'.begun = collector.begun
    BY <1>1
  <2> QED
    BY <1>2, <2>1, <2>2 DEF ManifestOK, Collecting, Spanned, Within, Foreign
<1>7. CleanOK' /\ RejectOK'
  BY <1>1, <1>2 DEF CleanOK, RejectOK
<1>8. Spanned'
  BY <1>1, <1>2, SpannedKept DEF Collecting, Footing
<1>9. ASSUME touched = {} PROVE Alone'
  <2>1. Alone
    BY <1>9 DEF Collecting
  <2>2. Progress'
    BY <1>1, <1>3, <2>1, StillDone DEF Alone
  <2>3. Packing' /\ Pinned' /\ Honest'
    BY <1>1, <2>1 DEF Alone, Packing, Pinned, Honest, Body
  <2>4. Bound'
    <3>1. AllValid' = AllValid /\ Identities' = Identities
      BY <1>1, ValidKept
    <3> QED
      BY <1>1, <1>2, <2>1, <3>1 DEF Alone, Bound
  <2> QED
    BY <2>2, <2>3, <2>4 DEF Alone
<1> QED
  BY <1>1, <1>4, <1>5, <1>6, <1>7, <1>8, <1>9 DEF Collecting

(* The roots that the reports name are those the commands left.            *)
LEMMA CleanRootsKeeps ==
  ASSUME Footing, Collecting, CleanRoots
  PROVE  Footing' /\ Collecting'
<1>1. /\ collector.pc = "cleaning"
      /\ UNCHANGED <<source, run, tarball, evidence, manifest, touched>>
      /\ left' = left \ {<<evidence[pair[2]].by, pair[1], "evidence-root">> : pair \in Rooted}
      /\ collector' = [collector EXCEPT !.pc = "ended"]
  BY DEF CleanRoots, Goto, treeVars
<1>2. /\ collector' \in CollectorType /\ collector'.pc = "ended"
      /\ collector'.begun = collector.begun
  BY <1>1, CollectorFields DEF Pcs, CollectorType
<1>3. \A i \in 1..7 : \A j \in 1..Len(Body(CollectCommands[i])) : Past(i, j)
  BY <1>1 DEF Past, Beyond
<1>4. Footing'
  BY CollectorFields, CleanRootsFooting
<1>5. CollectorOK'
  BY <1>1, <1>2 DEF CollectorOK, Running, Collecting
<1>6. ManifestOK' /\ RejectOK'
  BY <1>1, <1>2 DEF Collecting, ManifestOK, RejectOK
<1>7. CleanOK'
  <2> SUFFICES ASSUME touched = {}, NEW item \in left', item[1] = Collector,
                      item[3] = "evidence-root"
               PROVE  FALSE
    BY <1>1 DEF CleanOK
  <2>1. PICK s \in Slots, c \in DOMAIN Scripts, x \in Lasting :
          item = <<s, c, x>> /\ (x = "evidence-root" => c \in Rooting)
    BY <1>1 DEF Footing, LeftOK
  <2>2. s = Collector /\ x = "evidence-root" /\ c \in Rooting
    BY <2>1
  <2>3. \A e \in Reports : evidence[e].by = Collector
    BY <1>3, AllDone DEF Collecting, Alone, Spanned, Foreign
  <2>4. \E pair \in Rooted : pair[1] = c /\ evidence[pair[2]].by = Collector
    BY <2>2, <2>3 DEF Rooted, Rooting, Reports
  <2> QED
    BY <1>1, <2>1, <2>2, <2>4
<1>8. Spanned'
  BY <1>1, <1>2, SpannedKept DEF Collecting, Footing
<1>9. ASSUME touched = {} PROVE Alone'
  <2>1. Alone
    BY <1>9 DEF Collecting
  <2>2. Progress'
    BY <1>1, <1>3, <2>1, StillDone DEF Alone
  <2>3. Packing' /\ Pinned' /\ Honest'
    BY <1>1, <2>1 DEF Alone, Packing, Pinned, Honest, Body
  <2>4. Bound'
    <3>1. AllValid' = AllValid /\ Identities' = Identities
      BY <1>1, ValidKept
    <3> QED
      BY <1>1, <1>2, <2>1, <3>1 DEF Alone, Bound
  <2> QED
    BY <2>2, <2>3, <2>4 DEF Alone
<1> QED
  BY <1>1, <1>4, <1>5, <1>6, <1>7, <1>8, <1>9 DEF Collecting

-----------------------------------------------------------------------------
(* The invariant, and the theorems.                                        *)

LEMMA InitHolds ==
  ASSUME Init
  PROVE  Footing /\ Collecting
<1>1. /\ source \in [edit : {0}, synced : {FALSE}, picture : {0}, patch : {0},
                     plugin : {NamedVersion}, runtime : [Packages -> {NamedVersion}],
                     baseline : Baselines]
      /\ run = [s \in Slots |-> NoProcess] /\ kid = [s \in Slots |-> NoKid]
      /\ fixtures = {} /\ tarball = -1 /\ left = {} /\ evidence = [r \in Reports |-> None]
      /\ collector = [pc |-> "idle", at |-> 0, promote |-> FALSE, identities |-> None,
                      begun |-> 0]
      /\ manifest = None /\ touched = {}
  BY DEF Init, Nothing
<1>2. NoProcess \in RunType /\ NoKid \in KidType
  BY DEF NoProcess, NoKid, RunType, KidType
<1>3. NamedVersion \in Nat /\ [Packages -> {NamedVersion}] \subseteq Versions
  BY DEF NamedVersion, Versions
<1>4. /\ source.baseline \in BaselineType /\ source.baseline.current
      /\ \A t \in source.baseline.targets : t = [commit |-> 0, patch |-> 0]
      /\ source.baseline.commit = 0
  <2>1. source.baseline \in Baselines
    BY <1>1
  <2>2. PICK targets \in {{[commit |-> 0, patch |-> 0]}, {}},
             npm \in [Packages -> {NamedVersion}] :
          source.baseline = [commit |-> 0, targets |-> targets, current |-> TRUE,
                             npm |-> npm, discussion |-> 0, observed |-> 0]
    BY <2>1 DEF Baselines
  <2>3. targets \in SUBSET TargetType
    BY DEF TargetType
  <2> QED
    BY <1>3, <2>2, <2>3 DEF BaselineType
<1>5. source \in SourceType /\ source.edit = 0
  <2>1. PICK runtime \in [Packages -> {NamedVersion}], baseline \in Baselines :
          source = [edit |-> 0, synced |-> FALSE, picture |-> 0, patch |-> 0,
                    plugin |-> NamedVersion, runtime |-> runtime, baseline |-> baseline]
    BY <1>1
  <2>2. baseline = source.baseline
    BY <2>1
  <2> QED
    BY <1>3, <1>4, <2>1, <2>2 DEF SourceType
<1>6. SlotsOK
  <2>1. SlotOK(NoProcess, NoKid)
    BY DEF SlotOK, NoProcess
  <2> QED
    BY <1>1, <1>2, <1>5, <2>1 DEF SlotsOK
<1>7. TreeOK
  BY <1>1, <1>4 DEF TreeOK
<1>8. EvidenceOK /\ LeftOK
  BY <1>1 DEF EvidenceOK, LeftOK, Reports
<1>9. run[Collector] = NoProcess
  BY <1>1, CollectorAssumption
<1>10. CollectorOK
  <2>1. collector \in CollectorType /\ collector.pc = "idle"
    <3>1. "idle" \in Pcs
      BY DEF Pcs
    <3> QED
      BY <1>1, <3>1 DEF CollectorType
  <2>2. run[Collector].script = Idle
    BY <1>9 DEF NoProcess
  <2> QED
    BY <1>1, <2>1, <2>2 DEF CollectorOK, Running
<1>11. ManifestOK /\ CleanOK /\ RejectOK
  BY <1>1 DEF ManifestOK, CleanOK, RejectOK
<1>12. Spanned
  <2>1. None.by # Collector
    BY CollectorAssumption, IdleAssumption DEF None
  <2> QED
    BY <1>1, <1>5, <1>9, <2>1 DEF Spanned, Within, Foreign, NoProcess
<1>13. Alone
  <2>1. Progress
    BY <1>1 DEF Progress, Past, Beyond
  <2>2. run[Collector].packed = -1 /\ run[Collector].phase = "over"
    BY <1>9 DEF NoProcess
  <2>3. Packing /\ Pinned
    BY <1>5, <2>2 DEF Packing, Pinned
  <2>4. Honest
    BY <1>1 DEF Honest, Reports
  <2>5. Bound
    BY <1>1 DEF Bound
  <2> QED
    BY <2>1, <2>3, <2>4, <2>5 DEF Alone
<1> QED
  BY <1>6, <1>7, <1>8, <1>10, <1>11, <1>12, <1>13 DEF Footing, Collecting

LEMMA StutterHolds ==
  ASSUME Footing, Collecting, UNCHANGED vars
  PROVE  Footing' /\ Collecting'
<1>1. UNCHANGED <<source, run, kid, fixtures, tarball, evidence, left, collector, manifest,
                  touched>>
  BY DEF vars, scriptVars, collectVars
<1>2. Footing'
  BY <1>1 DEF Footing, SlotsOK, TreeOK, EvidenceOK, LeftOK
<1>3. CollectorOK' /\ ManifestOK' /\ CleanOK' /\ RejectOK'
  BY <1>1, Aside DEF Collecting, CollectorOK, collectVars, Footing
<1>4. Spanned'
  BY <1>1, SpannedKept DEF Collecting, Footing
<1>5. ASSUME touched = {} PROVE Alone'
  BY <1>1, <1>5, Bystander DEF Footing, collectVars
<1> QED
  BY <1>1, <1>2, <1>3, <1>4, <1>5 DEF Collecting

LEMMA NextHolds ==
  ASSUME Footing, Collecting, [Next]_vars
  PROVE  Footing' /\ Collecting'
<1>1. CASE Edit \/ Refresh
  BY <1>1, OthersTouch
<1>2. CASE Collect
  BY <1>2, CollectKeeps
<1>3. CASE CollectorActs
  BY <1>3, RunCommandKeeps, CommandEndsKeeps, ValidateKeeps, PromoteKeeps, WriteManifestKeeps,
     CleanRootsKeeps, CommandWorks
  DEF CollectorActs
<1>4. CASE \E s \in Slots : Apart(s) \/ KidsAct(s)
  BY <1>4, ApartActs, KidsActs
<1>5. CASE UNCHANGED vars
  BY <1>5, StutterHolds
<1> QED
  BY <1>1, <1>2, <1>3, <1>4, <1>5 DEF Next

(* The invariant itself, whatever is collected, edited, refreshed or run   *)
(* apart: every process, checkout and report is where the step table of    *)
(* its script has it, and a collection nobody touched keeps to its plan.   *)
THEOREM Collected == Spec => [](Footing /\ Collecting)
<1>1. Init => Footing /\ Collecting
  BY InitHolds
<1>2. (Footing /\ Collecting) /\ [Next]_vars => (Footing /\ Collecting)'
  BY NextHolds
<1> QED
  BY <1>1, <1>2, PTL DEF Spec

(* A check that passes speaks of this source, but it does not bind every   *)
(* report to it.  Its manifest's collection began at this edit, or the     *)
(* source was edited during the collection; a report by a command of the   *)
(* collection read no edit older than the one it began at, and a report    *)
(* by anybody else was put in by a script run apart meanwhile.  Before and *)
(* after the collection anything may have been edited, refreshed and run.  *)
THEOREM ChecksAreHonest == Spec => []CheckIsHonest
<1>1. Footing /\ Collecting => CheckIsHonest
  <2> SUFFICES ASSUME Footing, Collecting, CheckPasses
               PROVE  /\ source.baseline.targets
                           = {[commit |-> source.baseline.commit, patch |-> source.patch]}
                      /\ manifest.begun = source.edit \/ "edit" \in manifest.touched
                      /\ \A r \in Reports :
                           IF evidence[r].by = Collector
                           THEN evidence[r].read \subseteq manifest.begun..source.edit
                           ELSE "report" \in manifest.touched
    BY DEF CheckIsHonest
  <2>1. source.baseline.targets = {[commit |-> source.baseline.commit, patch |-> source.patch]}
    <3>1. PICK t \in source.baseline.targets :
            source.baseline.targets = {t} /\ t.commit = source.baseline.commit
      BY DEF CheckPasses, AllValid, BaselineValid
    <3>2. t.patch = source.patch
      BY DEF CheckPasses, AllValid, PatchValid
    <3>3. t \in TargetType
      BY DEF Footing, SlotsOK, SourceType, BaselineType
    <3>4. t = [commit |-> source.baseline.commit, patch |-> source.patch]
      BY <3>1, <3>2, <3>3 DEF TargetType
    <3> QED
      BY <3>1, <3>4
  <2>2. manifest # None /\ manifest.artifacts = evidence /\ manifest.source = source
    BY DEF CheckPasses, Fingerprint
  <2>3. \A r \in Reports : evidence[r] # None
    BY DEF CheckPasses, AllValid, EvidenceValid
  <2> QED
    BY <2>1, <2>2, <2>3 DEF Collecting, ManifestOK, Within, Foreign
<1> QED
  BY <1>1, Collected, PTL

(* A crash report is only written of a child that SIGKILL killed after the *)
(* ledger was committed.                                                   *)
THEOREM CrashesAreEarned == Spec => []CrashEvidenceIsEarned
<1>1. Footing /\ Collecting => CrashEvidenceIsEarned
  BY DEF Footing, EvidenceOK, CrashEvidenceIsEarned
<1> QED
  BY <1>1, Collected, PTL

(* Whatever a script took it has given back when it is over, but what may  *)
(* stay: evidence roots, worktrees whose removal could not start, and the  *)
(* server that never became ready.                                         *)
THEOREM AllIsGivenBack == Spec => []EverythingGivenBack
<1>1. Footing /\ Collecting => EverythingGivenBack
  <2> SUFFICES ASSUME Footing, Collecting PROVE EverythingGivenBack
    OBVIOUS
  <2>1. \A item \in left : item[3] \in {"evidence-root", "stuck-worktree"}
    BY DEF Footing, LeftOK, Lasting
  <2>2. collector.pc = "ended" /\ touched = {} =>
          \A item \in left : item[1] = Collector => item[3] # "evidence-root"
    BY DEF Collecting, CleanOK
  <2>3. \A f \in fixtures : \E s \in Slots : f \in run[s].holds
    BY DEF Footing, TreeOK
  <2>4. ASSUME NEW s \in Slots, run[s].phase = "over", kid[s].alive
        PROVE  kid[s].sent = "SIGKILL" \/ kid[s].timedOut
    <3>1. SlotOK(run[s], kid[s])
      BY DEF Footing, SlotsOK
    <3>2. Tidy(run[s]) /\ Minded(run[s], kid[s])
      BY <2>4, <3>1 DEF SlotOK, NoKid
    <3>3. "web" \notin run[s].holds
      BY <2>4, <3>2 DEF Tidy, GivesBack, Lasting
    <3> QED
      BY <2>4, <3>2, <3>3 DEF Minded, Awaiting
  <2> QED
    BY <2>1, <2>2, <2>3, <2>4 DEF EverythingGivenBack
<1> QED
  BY <1>1, Collected, PTL

(* With workloads that measure what the evidence check asks for, whatever  *)
(* was edited, refreshed and run before a collection: if the tree is       *)
(* releasable, what its commands report is not rejected, and the check of  *)
(* its manifest passes, as long as nobody touches the tree after its       *)
(* beginning.                                                              *)
THEOREM RejectionsHaveACause ==
  ASSUME MeasurementsValid
  PROVE  Spec => []RejectedForACause
<1>1. Footing /\ Collecting => RejectedForACause
  <2> SUFFICES ASSUME Footing, Collecting PROVE RejectedForACause
    OBVIOUS
  <2>1. /\ collector.pc = "rejected" => touched # {} \/ ~Releasable
        /\ collector.pc = "stale-picture" => touched # {} \/ ~collector.promote
    BY DEF Collecting, RejectOK
  <2>2. ASSUME manifest # None, touched = {} PROVE CheckPasses
    <3>1. Bound
      BY <2>2 DEF Collecting, Alone
    <3>2. /\ AllValid /\ manifest.identities = Identities
          /\ manifest.source = source /\ manifest.artifacts = evidence
          /\ source.picture = evidence["packed-install"].packed
      BY <2>2, <3>1 DEF Bound
    <3> QED
      BY <2>2, <3>2 DEF CheckPasses, Fingerprint
  <2> QED
    BY <2>1, <2>2 DEF RejectedForACause
<1> QED
  BY <1>1, Collected, PTL
=============================================================================
