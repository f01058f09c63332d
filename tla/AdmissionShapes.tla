--------------------------- MODULE AdmissionShapes ---------------------------
(***************************************************************************)
(* The measured workloads of scripts/reproduce-131.mts and                 *)
(* scripts/benchmark.mts, and the packed Strict proof of                   *)
(* tests/conformance: what they drive through an AdmissionAuthority over   *)
(* an in-memory ledger, and the counts that come out.  Requests reach the  *)
(* authority's serial section one at a time, those of a race in the order  *)
(* they were made, so a workload is a sequence of requests.                *)
(*                                                                         *)
(* The kernel of a fixture is a record: roots, a session's root; charges,  *)
(* the ledger's counter of every root and parent; active, the leases of a  *)
(* root; writes to the ledger; peak, the most leases held at once.  log is *)
(* what became of each request.                                            *)
(***************************************************************************)
EXTENDS Naturals, Sequences, FiniteSetsExt, TLC

\* DEFAULT_LIMITS, and the limits of a benchmark fixture.
DefaultLimits == [globalActive |-> 6, perRootActive |-> 4,
                  perRootAdmittedTotal |-> 24, perParentChildren |-> 8]

BenchmarkLimits(iterations, warmup) ==
  LET cumulative == Max({256, (iterations + warmup + 1) * 64})
  IN  [DefaultLimits EXCEPT !.perRootAdmittedTotal = cumulative,
                            !.perParentChildren = cumulative]

Fresh(roots) ==
  [roots |-> [r \in roots |-> r], totals |-> [r \in roots |-> 0],
   children |-> <<>>, active |-> [r \in roots |-> 0],
   writes |-> 0, peak |-> 0, log |-> <<>>]

Count(counter, key) == IF key \in DOMAIN counter THEN counter[key] ELSE 0
Held(kernel) == MapThenSumSet(LAMBDA r : kernel.active[r], DOMAIN kernel.active)
Logged(kernel, what) ==
  Cardinality({i \in DOMAIN kernel.log : kernel.log[i] = what})

(* reserveNew() of the fixtures' ledgers with assertActiveCapacity(); a    *)
(* cold resume reserves nothing.                                           *)
Verdict(kernel, limits, new, root, parent) ==
  IF new /\ kernel.totals[root] >= limits.perRootAdmittedTotal THEN "ROOT_TOTAL_LIMIT"
  ELSE IF new /\ Count(kernel.children, parent) >= limits.perParentChildren
    THEN "PARENT_CHILD_LIMIT"
  ELSE IF kernel.active[root] >= limits.perRootActive THEN "ROOT_ACTIVE_LIMIT"
  ELSE IF Held(kernel) >= limits.globalActive THEN "GLOBAL_ACTIVE_LIMIT"
  ELSE "accepted"

Charge(kernel, root, parent) ==
  [kernel EXCEPT !.totals[root] = @ + 1,
                 !.children = (parent :> Count(@, parent) + 1) @@ @,
                 !.writes = @ + 1]

(* prepare(), and for a named child bindChild() and provider.start().      *)
Prepare(kernel, limits, request) ==
  LET root == kernel.roots[request.root]
      verdict == Verdict(kernel, limits, request.new, root, request.parent)
      granted == IF request.new THEN Charge(kernel, root, request.parent) ELSE kernel
  IN  IF verdict # "accepted" THEN [kernel EXCEPT !.log = Append(@, verdict)]
      ELSE [granted EXCEPT
              !.active[root] = @ + 1,
              !.peak = Max({@, Held(kernel) + 1}),
              !.roots = (request.child :> root) @@ @,
              !.log = Append(@, verdict)]

ReleaseAll(kernel) ==
  [kernel EXCEPT !.active = [r \in DOMAIN @ |-> 0], !.log = <<>>]

\* The requests in turn; a shape suppresses those of a parent it never bound.
Drive(kernel, limits, requests) ==
  LET after[i \in 0..Len(requests)] ==
        IF i = 0 THEN kernel
        ELSE LET before == after[i - 1] IN
             IF requests[i].root \in DOMAIN before.roots
               THEN Prepare(before, limits, requests[i])
               ELSE [before EXCEPT !.log = Append(@, "suppressed")]
  IN  after[Len(requests)]

-----------------------------------------------------------------------------
(* reproduce-131.mts.  The root is 0, and child n is n.                    *)

\* buildTopology(): the parent of a node is half its number.
Topology(requestedChildren) ==
  [n \in 1..requestedChildren |->
     LET parent == IF n = 1 THEN 0 ELSE (n - 2) \div 2 + 1
     IN  [new |-> TRUE, root |-> parent, parent |-> parent, child |-> n]]

StrictShape(requestedChildren) ==
  Drive(Fresh({0}), DefaultLimits, Topology(requestedChildren))

\* The throw of runStrictShapeWithJournal(): a shape that broke a limit.
ShapeHolds(shape) ==
  LET accepted == Logged(shape, "accepted") IN
  /\ accepted <= DefaultLimits.perRootActive
  /\ shape.writes = accepted
  /\ shape.peak <= DefaultLimits.globalActive
  /\ \A r \in DOMAIN shape.active : shape.active[r] <= DefaultLimits.perRootActive

\* runGlobalProbe(), and packed-strict.e2e.ts: two roots, taking turns.
GlobalProbe ==
  LET request(i) == [new |-> TRUE, root |-> i % 2, parent |-> i % 2, child |-> i + 2]
  IN  Drive(Fresh({0, 1}), DefaultLimits, [i \in 1..7 |-> request(i + 1)])

ProbeHolds(probe) ==
  /\ Logged(probe, "accepted") = 6
  /\ probe.log[7] = "GLOBAL_ACTIVE_LIMIT"

ReproductionReport(requestedChildren) ==
  LET shape == StrictShape(requestedChildren) IN
  [requestedChildren |-> requestedChildren,
   providerStarts |-> Logged(shape, "accepted"),
   peakRootActive |-> shape.active[0],
   rootDenials |-> Logged(shape, "ROOT_ACTIVE_LIMIT"),
   probeStarts |-> Logged(GlobalProbe, "accepted"),
   probeDenial |-> GlobalProbe.log[7],
   threw |-> ~ShapeHolds(shape) \/ ~ProbeHolds(GlobalProbe)]

-----------------------------------------------------------------------------
(* benchmark.mts.  Every request has a parent of its own, n, under a root, *)
(* and binds no child.                                                     *)

Contention == 64

Request(new, root, n) ==
  [new |-> new, root |-> root, parent |-> n, child |-> root]

\* benchmarkDenied(): six holders on two roots, then denials of a third.
DeniedHolds(iterations, warmup) ==
  LET limits == BenchmarkLimits(iterations, warmup)
      holding == Drive(Fresh(0..2), limits, [i \in 1..6 |-> Request(TRUE, i % 2, i)])
      denied == Drive(holding, limits,
                      [i \in 1..iterations |-> Request(TRUE, 2, i)])
  IN  /\ Logged(denied, "GLOBAL_ACTIVE_LIMIT") = iterations
      /\ denied.writes = holding.writes

\* One accepted request after another, each released before the next:
\* benchmarkAcceptedNew() when new, benchmarkColdResume() and
\* benchmarkRelease() when not.
OneByOne(new, iterations, warmup) ==
  LET after[i \in 0..iterations] ==
        IF i = 0 THEN Fresh({0})
        ELSE ReleaseAll(Prepare(after[i - 1], BenchmarkLimits(iterations, warmup),
                                Request(new, 0, i)))
  IN  after[iterations]

\* runRaceBatch(): 64 prepares at once over sixteen roots.
RaceBatch(kernel, limits, batch) ==
  Drive(kernel, limits,
        [i \in 1..Contention |-> Request(TRUE, (i - 1) % 16, batch * Contention + i)])

BatchHolds(kernel) ==
  /\ Logged(kernel, "accepted") = 6
  /\ Logged(kernel, "GLOBAL_ACTIVE_LIMIT") = 58

ConcurrentReserveHolds(iterations, warmup) ==
  LET limits == BenchmarkLimits(iterations, warmup)
      raced[i \in 0..iterations] ==
        IF i = 0 THEN [held |-> TRUE, kernel |-> Fresh(0..15)]
        ELSE LET before == raced[i - 1]
                 after == RaceBatch(before.kernel, limits, i)
             IN  IF before.held THEN [held |-> BatchHolds(after), kernel |-> ReleaseAll(after)]
                 ELSE before
  IN  /\ raced[iterations].held
      /\ raced[iterations].kernel.writes = iterations * 6

BenchmarkReport(iterations, warmup) ==
  [iterations |-> iterations, warmup |-> warmup, contention |-> Contention,
   threw |-> \/ ~DeniedHolds(iterations, warmup)
             \/ OneByOne(TRUE, iterations, warmup).writes # iterations
             \/ OneByOne(FALSE, iterations, warmup).writes # 0
             \/ ~ConcurrentReserveHolds(iterations, warmup)]
=============================================================================
