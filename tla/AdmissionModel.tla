--------------------------- MODULE AdmissionModel ---------------------------
(***************************************************************************)
(* The pure reference machine of host/state-model.ts: what subagent        *)
(* admission promises, one atomic transition per command, with neither     *)
(* storage nor concurrency.  AdmissionAuthority implements it.             *)
(*                                                                         *)
(* A denied or an acknowledged command returns the very state it was given *)
(* (state-model.ts:118, :124), so it is a stuttering step here and has no  *)
(* action; the verdict operators say when a command is denied, and how.    *)
(***************************************************************************)
EXTENDS Naturals, FiniteSets

CONSTANTS
  Roots, Parents, Children,   \* the session ids a command may name
  NoChild,                    \* the null child of an unbound permit
  Limits,                     \* AdmissionLimits
  SeedTotals,                 \* counts a fresh state may be seeded with
  MaxPermits                  \* bound: permits ever issued

ASSUME LimitsAssumption ==
  Limits \in [perRootActive: Nat, globalActive: Nat,
              perRootAdmittedTotal: Nat, perParentChildren: Nat]
ASSUME NoChildAssumption == NoChild \notin Children
ASSUME SeedAssumption == SeedTotals \subseteq Nat
ASSUME BoundAssumption == MaxPermits \in Nat

VARIABLES
  lifecycle,          \* "open" or "draining"
  globalActive,       \* the counter of live permits
  rootActive,         \* root -> live permits (an absent key reads as 0)
  rootAdmittedTotal,  \* root -> children ever admitted
  parentChildren,     \* parent -> children ever admitted
  permits,            \* the live permits, as a set of records
  permitCounter       \* the source of permit ids

vars == <<lifecycle, globalActive, rootActive, rootAdmittedTotal,
          parentChildren, permits, permitCounter>>

NewOperations == {"new-one-shot", "new-continuable"}
Operations == NewOperations \cup {"cold-resume"}

Permit == [permitId: Nat, rootId: Roots, parentId: Parents,
           operation: Operations, childId: Children \cup {NoChild}]

PermitsOf(root) == {p \in permits : p.rootId = root}

(***************************************************************************)
(* createAdmissionState: open and empty; the cumulative counts may be      *)
(* seeded, above the limit too when a limit was lowered since they were    *)
(* written.                                                                *)
(***************************************************************************)
Init ==
  /\ lifecycle = "open"
  /\ globalActive = 0
  /\ rootActive = [r \in Roots |-> 0]
  /\ rootAdmittedTotal \in [Roots -> SeedTotals]
  /\ parentChildren \in [Parents -> SeedTotals]
  /\ permits = {}
  /\ permitCounter = 0

-----------------------------------------------------------------------------
(* The verdicts, in the order the checks are made.                         *)

\* Mutant: the limit is compared off by one.
RootActiveFullOffByOne(root) == rootActive[root] > Limits.perRootActive
RootActiveFull(root) == rootActive[root] >= Limits.perRootActive

GlobalActiveFull == globalActive >= Limits.globalActive

ColdResumeVerdict(root) ==
  IF lifecycle # "open"        THEN "ADMISSION_CLOSED"
  ELSE IF RootActiveFull(root) THEN "ROOT_ACTIVE_LIMIT"
  ELSE IF GlobalActiveFull     THEN "GLOBAL_ACTIVE_LIMIT"
  ELSE "accepted"

NewAdmissionVerdict(root, parent, ledgerFailure) ==
  IF lifecycle # "open" THEN "ADMISSION_CLOSED"
  ELSE IF rootAdmittedTotal[root] >= Limits.perRootAdmittedTotal
    THEN "ROOT_TOTAL_LIMIT"
  ELSE IF parentChildren[parent] >= Limits.perParentChildren
    THEN "PARENT_CHILD_LIMIT"
  ELSE IF ColdResumeVerdict(root) # "accepted" THEN ColdResumeVerdict(root)
  ELSE IF ledgerFailure THEN "ADMISSION_STATE_IO"
  ELSE "accepted"

-----------------------------------------------------------------------------
(* The accepted transitions.                                               *)

Increment(counts, key) == [counts EXCEPT ![key] = @ + 1]

\* Mutant: a cold resume is charged like a new child.
ChargedAlways(cumulative, counts, key) == Increment(counts, key)

Charged(cumulative, counts, key) ==
  IF cumulative THEN Increment(counts, key) ELSE counts

\* Mutant: the key is deleted on every decrement, not only on the last.
DecrementDeleting(counts, key) == [counts EXCEPT ![key] = 0]

Decrement(counts, key) == [counts EXCEPT ![key] = IF @ > 1 THEN @ - 1 ELSE 0]

Activate(operation, root, parent, cumulative) ==
  /\ permitCounter < MaxPermits
  /\ permits' = permits \cup
       {[permitId |-> permitCounter, rootId |-> root, parentId |-> parent,
         operation |-> operation, childId |-> NoChild]}
  /\ globalActive' = globalActive + 1
  /\ rootActive' = Increment(rootActive, root)
  /\ rootAdmittedTotal' = Charged(cumulative, rootAdmittedTotal, root)
  /\ parentChildren' = Charged(cumulative, parentChildren, parent)
  /\ permitCounter' = permitCounter + 1
  /\ UNCHANGED lifecycle

NewAdmission(operation, root, parent, ledgerFailure) ==
  /\ NewAdmissionVerdict(root, parent, ledgerFailure) = "accepted"
  /\ Activate(operation, root, parent, TRUE)

ColdResume(root, parent) ==
  /\ ColdResumeVerdict(root) = "accepted"
  /\ Activate("cold-resume", root, parent, FALSE)

Bound(permit, child) ==
  /\ permits' = (permits \ {permit}) \cup {[permit EXCEPT !.childId = child]}
  /\ UNCHANGED <<lifecycle, globalActive, rootActive, rootAdmittedTotal,
                 parentChildren, permitCounter>>

(* A missing permit and the child already bound are acknowledged; another  *)
(* bound child is denied; none of the three changes the state.             *)
Bind(permit, child) == permit.childId = NoChild /\ Bound(permit, child)

\* Mutant: releasing a permit refunds the admission it was charged for.
ReleaseRefunding(permit) ==
  /\ permits' = permits \ {permit}
  /\ globalActive' = globalActive - 1
  /\ rootActive' = Decrement(rootActive, permit.rootId)
  /\ rootAdmittedTotal' = Decrement(rootAdmittedTotal, permit.rootId)
  /\ UNCHANGED <<lifecycle, parentChildren, permitCounter>>

Release(permit) ==
  /\ permits' = permits \ {permit}
  /\ globalActive' = globalActive - 1
  /\ rootActive' = Decrement(rootActive, permit.rootId)
  /\ UNCHANGED <<lifecycle, rootAdmittedTotal, parentChildren, permitCounter>>

Unload ==
  /\ lifecycle = "open"
  /\ lifecycle' = "draining"
  /\ UNCHANGED <<globalActive, rootActive, rootAdmittedTotal, parentChildren,
                 permits, permitCounter>>

Restart ==
  /\ lifecycle' = "open"
  /\ globalActive' = 0
  /\ rootActive' = [r \in Roots |-> 0]
  /\ permits' = {}
  /\ UNCHANGED <<rootAdmittedTotal, parentChildren, permitCounter>>

Next ==
  \/ \E operation \in NewOperations, root \in Roots, parent \in Parents,
        ledgerFailure \in BOOLEAN :
       NewAdmission(operation, root, parent, ledgerFailure)
  \/ \E root \in Roots, parent \in Parents : ColdResume(root, parent)
  \/ \E permit \in permits, child \in Children : Bind(permit, child)
  \/ \E permit \in permits : Release(permit)
  \/ Unload
  \/ Restart

Spec == Init /\ [][Next]_vars

-----------------------------------------------------------------------------
(* What the machine promises.                                              *)

(* The shape of the state (AdmissionState, state-model.ts:42-52).          *)
TypeOK ==
  /\ lifecycle \in {"open", "draining"}
  /\ globalActive \in Nat
  /\ rootActive \in [Roots -> Nat]
  /\ rootAdmittedTotal \in [Roots -> Nat]
  /\ parentChildren \in [Parents -> Nat]
  /\ permits \subseteq Permit
  /\ permitCounter \in Nat

(* The redundant counters never drift from the permits they count: the     *)
(* global one is the number of live permits and each root's is the number  *)
(* of its own (the comment at state-model.ts:38-40, over activate and      *)
(* transitionRelease).                                                     *)
CountersAgree ==
  /\ globalActive = Cardinality(permits)
  /\ \A root \in Roots : rootActive[root] = Cardinality(PermitsOf(root))

(* However admissions, resumes, releases and restarts interleave, the live *)
(* permits themselves (not the counters) stay within both active limits    *)
(* (the checks of transitionNewAdmission and transitionColdResume).        *)
ActiveWithinLimits ==
  /\ Cardinality(permits) <= Limits.globalActive
  /\ \A root \in Roots : Cardinality(PermitsOf(root)) <= Limits.perRootActive

(* Cumulative counts are never refunded, by a release, an unload or a      *)
(* restart (state-model.ts:39-40).                                         *)
CumulativeNeverRefunded ==
  [][/\ \A root \in Roots : rootAdmittedTotal'[root] >= rootAdmittedTotal[root]
     /\ \A parent \in Parents : parentChildren'[parent] >= parentChildren[parent]]_vars

(* The permits a step issues, and those of them that are charged.          *)
Issued == {p \in permits' : p.permitId >= permitCounter}
IssuedNew == {p \in Issued : p.operation \in NewOperations}

RootCharged(root) ==
  LET new == {p \in IssuedNew : p.rootId = root}
  IN  /\ rootAdmittedTotal'[root] = rootAdmittedTotal[root] + Cardinality(new)
      /\ new # {} => rootAdmittedTotal'[root] <= Limits.perRootAdmittedTotal

ParentCharged(parent) ==
  LET new == {p \in IssuedNew : p.parentId = parent}
  IN  /\ parentChildren'[parent] = parentChildren[parent] + Cardinality(new)
      /\ new # {} => parentChildren'[parent] <= Limits.perParentChildren

(* A charge and a new child are the same event: totals move exactly when a *)
(* permit of a new child is issued, by one, for its root and its parent,   *)
(* and never beyond a limit; a cold resume is free (activate's cumulative  *)
(* flag under the two callers' checks).                                    *)
ChargedExactlyOnce ==
  [][/\ \A root \in Roots : RootCharged(root)
     /\ \A parent \in Parents : ParentCharged(parent)]_vars

(* The live permit p is what q is after a step: the same activation.       *)
Continues(p, q) ==
  /\ p.permitId = q.permitId
  /\ p.rootId = q.rootId /\ p.parentId = q.parentId
  /\ p.operation = q.operation
  /\ p.childId \in {NoChild, q.childId}

(* A permit id names one activation for ever: a live permit keeps its root,*)
(* its parent, its operation and, once bound, its child, and an id issued  *)
(* before a restart is never issued again (permitCounter survives restart, *)
(* state-model.ts:50-51).                                                  *)
PermitIdentity ==
  [][\A q \in permits' \ Issued : \E p \in permits : Continues(p, q)]_vars
=============================================================================
