---------------------------- MODULE SubagentSeam ----------------------------
(***************************************************************************)
(* Who owns an admission permit in the subagent runtime, as the seam patch *)
(* (patches/dsh-subagent-admission-seam-slim.patch) makes it: a start call *)
(* acquires the permit, hands it to the run or to the activation it makes, *)
(* and whoever owns it last gives it back.  One-shot runs, new continuable *)
(* children and cold resumes are start calls; a step is what happens       *)
(* between two awaits of one call or of one disposal.                      *)
(*                                                                         *)
(* The runtime around the patch is external: it appears as the outcomes of *)
(* what the patch awaits.  Each start is of a child of its own; the child  *)
(* lock and the lookup of a resident activation are left out.              *)
(***************************************************************************)
EXTENDS FiniteSets

CONSTANTS
  Starts,
  OneShots,       \* the starts made with start()
  Resumes,        \* the cold resumes; the others are new continuable children
  OwnerOf,        \* start -> the start whose child is its parent, or NoOwner
  NoOwner

ASSUME StartsAssumption ==
  /\ OneShots \subseteq Starts /\ Resumes \subseteq Starts \ OneShots
  /\ NoOwner \notin Starts
  /\ OwnerOf \in [Starts -> (Starts \ OneShots) \cup {NoOwner}]

VARIABLES
  closed,     \* the policy was unregistered: admissionPolicy is null
  pc,         \* the start call
  aborted,    \* its signal
  permit,     \* the permit of the call
  releases,   \* the permits on which release() was called, and those called twice
  child,      \* the run or the agent handle that the call made
  owned,      \* the children their parent activation counts
  disposal    \* the memoized disposal of the run or activation

vars == <<closed, pc, aborted, permit, releases, child, owned, disposal>>

Phases == {"idle", "acquiring", "starting", "preparing", "creating", "submitting",
           "running", "undoing", "releasing", "awaiting", "failed"}
Stages == {"none", "children", "handle", "rollback", "permit", "rollback-permit",
           "settled", "failed"}

Init ==
  /\ closed = FALSE
  /\ pc = [s \in Starts |-> "idle"] /\ aborted = {}
  /\ permit = [s \in Starts |-> "none"]
  /\ releases = [once |-> {}, twice |-> {}]
  /\ child = [s \in Starts |-> "none"] /\ owned = {}
  /\ disposal = [s \in Starts |-> "none"]

Goto(s, phase) == pc' = [pc EXCEPT ![s] = phase]
Stage(s, stage) == disposal' = [disposal EXCEPT ![s] = stage]
Children(s) == {c \in owned : OwnerOf[c] = s}

(* release() is called; the policy answers in a step of its own.           *)
CallRelease(s) ==
  /\ permit' = [permit EXCEPT ![s] = "releasing"]
  /\ releases' = [once |-> releases.once \cup {s},
                  twice |-> releases.twice \cup (releases.once \cap {s})]

NoRelease == UNCHANGED <<permit, releases>>

(* The release that was called is answered, or rejected.                   *)
Answered(s, outcome) ==
  /\ permit[s] = "releasing"
  /\ permit' = [permit EXCEPT ![s] = outcome]
  /\ UNCHANGED releases

-----------------------------------------------------------------------------
(* The agent of an activation runs, and may start children, once that was  *)
(* started and until it is gone.                                           *)
Working(s) == child[s] = "live" /\ disposal[s] # "rollback"

(* acquireAdmission(): nothing is asked of a closed policy.                *)
Request(s) ==
  /\ pc[s] = "idle"
  /\ OwnerOf[s] # NoOwner => Working(OwnerOf[s])
  /\ Goto(s, IF closed \/ s \in aborted THEN "failed" ELSE "acquiring")
  /\ UNCHANGED <<closed, aborted, child, owned, disposal>> /\ NoRelease

Denied(s) ==
  /\ pc[s] = "acquiring"
  /\ Goto(s, "failed")
  /\ UNCHANGED <<closed, aborted, child, owned, disposal>> /\ NoRelease

NextAwait(s) ==
  IF s \in OneShots THEN "starting" ELSE IF s \in Resumes THEN "creating" ELSE "preparing"

(* The permit is granted - the policy may have closed meanwhile - and the  *)
(* signal is looked at before anything is made.                            *)
Granted(s) ==
  /\ pc[s] = "acquiring"
  /\ IF s \in aborted
     THEN Goto(s, "releasing") /\ CallRelease(s)
     ELSE /\ Goto(s, NextAwait(s))
          /\ permit' = [permit EXCEPT ![s] = "held"] /\ UNCHANGED releases
  /\ UNCHANGED <<closed, aborted, child, owned, disposal>>

\* Mutant: a start that fails forgets its permit.
StartFailsForgetting(s) ==
  /\ pc[s] \in {"starting", "preparing", "creating"}
  /\ Goto(s, "failed") /\ NoRelease
  /\ UNCHANGED <<closed, aborted, child, owned, disposal>>

(* What was awaited rejects before there is a child: rejectAfterPermit-    *)
(* Release() and rejectAfterAdmissionRelease().                            *)
StartFails(s) ==
  /\ pc[s] \in {"starting", "preparing", "creating"}
  /\ Goto(s, "releasing") /\ CallRelease(s)
  /\ UNCHANGED <<closed, aborted, child, owned, disposal>>

(* The call itself waits for the release, and then rejects.                *)
ReleaseAnswered(s) ==
  /\ pc[s] = "releasing"
  /\ \E outcome \in {"released", "stuck"} : Answered(s, outcome)
  /\ Goto(s, "failed")
  /\ UNCHANGED <<closed, aborted, child, owned, disposal>>

-----------------------------------------------------------------------------
(* start(), after provider.start() resolved: the signal and bindChild(),   *)
(* which may reject the binding, are passed at once.                       *)
\* Mutant: a run that cannot be bound is not disposed of before the release.
RunPublishedForgetting(s) ==
  /\ pc[s] = "starting"
  /\ child' = [child EXCEPT ![s] = "live"]
  /\ \/ s \notin aborted /\ Goto(s, "running") /\ NoRelease
     \/ Goto(s, "releasing") /\ CallRelease(s)
  /\ UNCHANGED <<closed, aborted, owned, disposal>>

RunPublished(s) ==
  /\ pc[s] = "starting"
  /\ child' = [child EXCEPT ![s] = "live"]
  /\ \/ s \notin aborted /\ Goto(s, "running")
     \/ Goto(s, "undoing")
  /\ UNCHANGED <<closed, aborted, owned, disposal>> /\ NoRelease

(* rejectAfterRunRollback(): the run is disposed of, then the permit goes. *)
RunUndone(s) ==
  /\ pc[s] = "undoing"
  /\ \/ /\ child' = [child EXCEPT ![s] = "gone"]
        /\ Goto(s, "releasing") /\ CallRelease(s)
     \/ /\ child' = [child EXCEPT ![s] = "stuck"]
        /\ Goto(s, "failed") /\ NoRelease
  /\ UNCHANGED <<closed, aborted, owned, disposal>>

\* Mutant: every dispose() of a run is a disposal of its own.
DisposeRunUnmemoized(s) ==
  /\ s \in OneShots /\ pc[s] = "running" /\ disposal[s] \in {"none", "settled"}
  /\ Stage(s, "handle")
  /\ UNCHANGED <<closed, pc, aborted, child, owned>> /\ NoRelease

(* holdPermit(): the first dispose() of the run begins its disposal.       *)
DisposeRun(s) ==
  /\ s \in OneShots /\ pc[s] = "running" /\ disposal[s] = "none"
  /\ Stage(s, "handle")
  /\ UNCHANGED <<closed, pc, aborted, child, owned>> /\ NoRelease

-----------------------------------------------------------------------------
(* startContinuable(): the provider prepared, and the lock was obtained.   *)
Prepared(s) ==
  /\ pc[s] = "preparing"
  /\ Goto(s, "creating")
  /\ UNCHANGED <<closed, aborted, child, owned, disposal>> /\ NoRelease

(* materializeOwnsPermit is set before materialize() is called, whose try  *)
(* begins later: what throws between the two releases nothing.             *)
ThrowsUnguarded(s) ==
  /\ pc[s] = "creating"
  /\ Goto(s, "failed")
  /\ UNCHANGED <<closed, aborted, child, owned, disposal>> /\ NoRelease

(* assertAdmitting(): the parent's activation is not being disposed of.    *)
Admitting(s) == OwnerOf[s] # NoOwner => disposal[OwnerOf[s]] = "none"

(* The agent is made, and the activation with it: in one step it is        *)
(* published, bound and started, or its rollback begins, before or after   *)
(* its parent came to count it.                                            *)
Activated(s) ==
  /\ pc[s] = "creating"
  /\ child' = [child EXCEPT ![s] = "live"]
  /\ \/ /\ s \notin aborted /\ Admitting(s) /\ owned' = owned \cup {s}
        /\ \/ Goto(s, "submitting") /\ UNCHANGED disposal
           \/ Goto(s, "awaiting") /\ Stage(s, "rollback")
     \/ Goto(s, "awaiting") /\ Stage(s, "rollback") /\ UNCHANGED owned
  /\ UNCHANGED <<closed, aborted>> /\ NoRelease

Submitted(s) ==
  /\ pc[s] = "submitting"
  /\ Goto(s, "running")
  /\ UNCHANGED <<closed, aborted, child, owned, disposal>> /\ NoRelease

(* dispose(): its first call begins the memoized transaction.              *)
Begun(s) == IF disposal[s] = "none" THEN Stage(s, "children") ELSE UNCHANGED disposal

SubmissionFails(s) ==
  /\ pc[s] = "submitting"
  /\ Goto(s, "awaiting") /\ Begun(s)
  /\ UNCHANGED <<closed, aborted, child, owned>> /\ NoRelease

(* The call that began a rollback or a disposal waits for its end.         *)
CallEnds(s) ==
  /\ pc[s] = "awaiting" /\ disposal[s] \in {"settled", "failed"}
  /\ Goto(s, "failed")
  /\ UNCHANGED <<closed, aborted, child, owned, disposal>> /\ NoRelease

(* The activation settles, idle and without children, or is drained.       *)
DisposeActivation(s) ==
  /\ s \notin OneShots /\ pc[s] \in {"submitting", "running"} /\ disposal[s] = "none"
  /\ Stage(s, "children")
  /\ UNCHANGED <<closed, pc, aborted, child, owned>> /\ NoRelease

-----------------------------------------------------------------------------
(* The steps of a disposal.  Owned children go first.                      *)
DisposeChild(s, c) ==
  /\ disposal[s] = "children" /\ c \in Children(s) /\ disposal[c] = "none"
  /\ Stage(c, "children")
  /\ UNCHANGED <<closed, pc, aborted, child, owned>> /\ NoRelease

ChildrenGone(s) ==
  /\ disposal[s] = "children" /\ Children(s) = {}
  /\ Stage(s, "handle")
  /\ UNCHANGED <<closed, pc, aborted, child, owned>> /\ NoRelease

(* The handle cannot be disposed of: the permit is kept for good.          *)
HandleFails(s) ==
  /\ disposal[s] \in {"handle", "rollback"}
  /\ child' = [child EXCEPT ![s] = "stuck"]
  /\ Stage(s, "failed") /\ owned' = owned \ {s}
  /\ UNCHANGED <<closed, pc, aborted>> /\ NoRelease

\* Mutant: the parent is woken before the permit is given back.
HandleGoneWaking(s) ==
  /\ disposal[s] \in {"handle", "rollback"}
  /\ child' = [child EXCEPT ![s] = "gone"]
  /\ Stage(s, "permit") /\ CallRelease(s)
  /\ owned' = owned \ {s}
  /\ UNCHANGED <<closed, pc, aborted>>

(* The handle is gone.  A rollback lets go of the parent before it asks    *)
(* for the release, a disposal after the release was answered.             *)
HandleGone(s) ==
  /\ disposal[s] \in {"handle", "rollback"}
  /\ child' = [child EXCEPT ![s] = "gone"]
  /\ CallRelease(s)
  /\ \/ disposal[s] = "handle" /\ Stage(s, "permit") /\ UNCHANGED owned
     \/ disposal[s] = "rollback" /\ Stage(s, "rollback-permit") /\ owned' = owned \ {s}
  /\ UNCHANGED <<closed, pc, aborted>>

\* Mutant: a release that is rejected leaves the child to its parent.
PermitAnsweredKeeping(s) ==
  /\ disposal[s] \in {"permit", "rollback-permit"}
  /\ \/ Answered(s, "released") /\ Stage(s, "settled") /\ owned' = owned \ {s}
     \/ Answered(s, "stuck") /\ Stage(s, "failed") /\ UNCHANGED owned
  /\ UNCHANGED <<closed, pc, aborted, child>>

PermitAnswered(s) ==
  /\ disposal[s] \in {"permit", "rollback-permit"}
  /\ \/ Answered(s, "released") /\ Stage(s, "settled")
     \/ Answered(s, "stuck") /\ Stage(s, "failed")
  /\ owned' = owned \ {s}
  /\ UNCHANGED <<closed, pc, aborted, child>>

-----------------------------------------------------------------------------
(* The disposer of the registration: a tombstone, for good.                *)
Unregister ==
  /\ ~closed /\ closed' = TRUE
  /\ UNCHANGED <<pc, aborted, child, owned, disposal>> /\ NoRelease

Abort(s) ==
  /\ s \notin aborted /\ pc[s] \notin {"running", "failed"}
  /\ aborted' = aborted \cup {s}
  /\ UNCHANGED <<closed, pc, child, owned, disposal>> /\ NoRelease

CallStep(s) ==
  \/ Denied(s) \/ Granted(s) \/ StartFails(s) \/ ReleaseAnswered(s)
  \/ RunPublished(s) \/ RunUndone(s)
  \/ Prepared(s) \/ ThrowsUnguarded(s) \/ Activated(s)
  \/ Submitted(s) \/ SubmissionFails(s) \/ CallEnds(s)

DisposalStep(s) ==
  \/ \E c \in Starts : DisposeChild(s, c)
  \/ ChildrenGone(s) \/ HandleFails(s) \/ HandleGone(s) \/ PermitAnswered(s)

Next ==
  \/ Unregister
  \/ \E s \in Starts :
       \/ Request(s) \/ Abort(s) \/ DisposeRun(s) \/ DisposeActivation(s)
       \/ CallStep(s) \/ DisposalStep(s)

Spec == Init /\ [][Next]_vars

(* What is awaited settles; nobody need dispose of anything.               *)
FairSpec == Spec /\ \A s \in Starts : WF_vars(CallStep(s)) /\ WF_vars(DisposalStep(s))

-----------------------------------------------------------------------------
(* The shape of the state.                                                 *)
TypeOK ==
  /\ closed \in BOOLEAN /\ pc \in [Starts -> Phases] /\ aborted \subseteq Starts
  /\ permit \in [Starts -> {"none", "held", "releasing", "released", "stuck"}]
  /\ releases \in [once : SUBSET Starts, twice : SUBSET Starts]
  /\ child \in [Starts -> {"none", "live", "gone", "stuck"}]
  /\ owned \subseteq Starts
  /\ disposal \in [Starts -> Stages]

(* However a start fails, is aborted, rolled back, drained or disposed of  *)
(* twice, release() is called at most once on a permit.                    *)
ReleasedAtMostOnce == releases.twice = {}

(* No permit is given up, or asked to be, while the child it admitted is   *)
(* there: "released only after ... quiescence" (docs/upstream-seam.md:81,  *)
(* 86-91).                                                                 *)
HeldWhileChildIsThere ==
  \A s \in Starts : child[s] \in {"live", "stuck"} => permit[s] = "held"

(* Code that is not guarded threw.                                         *)
Unguarded(s) == s \notin OneShots /\ permit[s] = "held" /\ child[s] = "none"

(* When a start call rejects, its permit has been given back: or else the  *)
(* child could not be disposed of, the policy rejected the release, or the *)
(* unguarded code before the agent's creation threw.                       *)
RejectedMeansReturned ==
  \A s \in Starts : pc[s] = "failed" =>
    \/ permit[s] \in {"none", "released"}
    \/ child[s] = "stuck" \/ permit[s] = "stuck" \/ Unguarded(s)

(* The permit of an activation that was started and is not beyond help.    *)
Holding(s) ==
  /\ permit[s] \in {"held", "releasing"} /\ child[s] # "none"
  /\ disposal[s] \notin {"rollback", "rollback-permit", "failed"}

(* An ancestor's permit is released after those of its owned descendants,  *)
(* however the disposals of several of them overlap: "child-first teardown *)
(* releases a descendant's permit before waking its parent owner"          *)
(* (docs/upstream-seam.md:82-84).  A rollback wakes the parent first.      *)
AncestorsOutliveDescendants ==
  \A s \in Starts \ OneShots :
    OwnerOf[s] # NoOwner /\ Holding(s) => permit[OwnerOf[s]] # "released"

(* A disposal that began ends, whoever waits for whom: a parent for its    *)
(* children, a start for the disposal a drain began.                       *)
DisposalsSettle ==
  \A s \in Starts : disposal[s] # "none" ~> disposal[s] \in {"settled", "failed"}
=============================================================================
