------------------------- MODULE SubagentSeamProofs -------------------------
(***************************************************************************)
(* The permits of the subagent seam, for any set of starts and any tree of *)
(* their parents.  The inductive invariant says, for each start, what the  *)
(* phase of its call and the stage of its disposal tell of its permit and  *)
(* its child, and how the children an activation counts hold it back.      *)
(***************************************************************************)
EXTENDS SubagentSeam, TLAPS

(* A child is there, and its permit held.                                  *)
Hosting(s) == permit[s] = "held" /\ child[s] = "live"

CallState(s) ==
  disposal[s] = "none" =>
    /\ pc[s] \in {"idle", "acquiring"} => permit[s] = "none" /\ child[s] = "none"
    /\ pc[s] \in {"starting", "preparing", "creating"} =>
         permit[s] = "held" /\ child[s] = "none"
    /\ pc[s] \in {"submitting", "running", "undoing"} => Hosting(s)
    /\ pc[s] = "releasing" => permit[s] = "releasing" /\ child[s] \in {"none", "gone"}
    /\ pc[s] = "failed" =>
         \/ child[s] \in {"none", "gone"} /\ permit[s] \in {"none", "released", "stuck"}
         \/ child[s] = "stuck" /\ permit[s] = "held"
         \/ Unguarded(s)
    /\ pc[s] # "awaiting"

DisposalState(s) ==
  /\ disposal[s] # "none" => pc[s] \in {"submitting", "running", "awaiting", "failed"}
  /\ disposal[s] # "none" /\ pc[s] = "failed" => disposal[s] \in {"settled", "failed"}
  /\ disposal[s] \in {"children", "handle", "rollback"} => Hosting(s)
  /\ disposal[s] \in {"permit", "rollback-permit"} =>
       permit[s] = "releasing" /\ child[s] = "gone"
  /\ disposal[s] = "settled" => permit[s] = "released" /\ child[s] = "gone"
  /\ disposal[s] = "failed" =>
       \/ permit[s] = "held" /\ child[s] = "stuck"
       \/ permit[s] = "stuck" /\ child[s] = "gone"

KindState(s) ==
  /\ s \in OneShots => pc[s] \notin {"preparing", "creating", "submitting", "awaiting"}
  /\ s \notin OneShots =>
       /\ pc[s] \notin {"starting", "undoing"}
       /\ disposal[s] = "none" /\ pc[s] \in {"releasing", "failed"} => child[s] = "none"

OwnedState(s) ==
  /\ s \in owned =>
       /\ s \notin OneShots
       /\ disposal[s] \in {"none", "children", "handle", "permit", "rollback"}
       /\ disposal[s] = "none" => pc[s] \in {"submitting", "running"}
  /\ s \notin OneShots /\ child[s] # "none"
       /\ disposal[s] \in {"none", "children", "handle", "permit"} => s \in owned

(* What holds of one start, whatever the others do.                        *)
Local(s) ==
  /\ CallState(s) /\ DisposalState(s) /\ KindState(s) /\ OwnedState(s)
  /\ permit[s] \in {"none", "held"} => s \notin releases.once

(* What a start and the one that owns it have to do with each other.       *)
Family(s) ==
  OwnerOf[s] # NoOwner =>
    /\ pc[s] # "idle" => child[OwnerOf[s]] # "none"
    /\ s \in owned => disposal[OwnerOf[s]] \in {"none", "children"}

IInv ==
  /\ TypeOK /\ releases.twice = {}
  /\ \A s \in Starts : Local(s) /\ Family(s)

-----------------------------------------------------------------------------
(* A step of a start concerns that start alone.                            *)
Same(t) ==
  /\ pc'[t] = pc[t] /\ permit'[t] = permit[t] /\ child'[t] = child[t]
  /\ disposal'[t] = disposal[t]
  /\ (t \in releases'.once) = (t \in releases.once)
  /\ (t \in owned') = (t \in owned)

Concerns(s) == \A t \in Starts \ {s} : Same(t)

(* What a step of a start preserves of itself.                             *)
Preserves(s) == TypeOK' /\ releases'.twice = {} /\ Concerns(s) /\ Local(s)'

LEMMA CallsRelease ==
  ASSUME TypeOK, releases.twice = {}, NEW s \in Starts,
         permit[s] \in {"none", "held"} => s \notin releases.once,
         permit[s] \in {"none", "held"}, CallRelease(s)
  PROVE  /\ releases' \in [once : SUBSET Starts, twice : SUBSET Starts]
         /\ releases'.twice = {} /\ releases'.once = releases.once \cup {s}
         /\ permit' = [permit EXCEPT ![s] = "releasing"]
BY DEF CallRelease, TypeOK

LEMMA CallSteps ==
  ASSUME TypeOK, releases.twice = {}, NEW s \in Starts, Local(s),
         Request(s) \/ Denied(s) \/ Granted(s) \/ StartFails(s) \/ ReleaseAnswered(s) \/ Abort(s)
  PROVE  Preserves(s)
<1> USE DEF Goto, Stage, NoRelease, Answered, Preserves, Concerns, Same, Local,
        CallState, DisposalState, KindState, OwnedState, Hosting, Unguarded, TypeOK, Phases, Stages
<1>1. CASE Request(s)
  BY <1>1 DEF Request
<1>2. CASE Denied(s)
  BY <1>2 DEF Denied
<1>3. CASE Granted(s)
  BY <1>3, CallsRelease DEF Granted, NextAwait
<1>4. CASE StartFails(s)
  BY <1>4, CallsRelease DEF StartFails
<1>5. CASE ReleaseAnswered(s)
  BY <1>5 DEF ReleaseAnswered
<1>6. CASE Abort(s)
  BY <1>6 DEF Abort
<1> QED
  BY <1>1, <1>2, <1>3, <1>4, <1>5, <1>6

LEMMA OneShotSteps ==
  ASSUME TypeOK, releases.twice = {}, NEW s \in Starts, Local(s),
         RunPublished(s) \/ RunUndone(s) \/ DisposeRun(s)
  PROVE  Preserves(s)
<1> USE DEF Goto, Stage, NoRelease, Answered, Preserves, Concerns, Same, Local,
        CallState, DisposalState, KindState, OwnedState, Hosting, Unguarded, TypeOK, Phases, Stages
<1>1. CASE RunPublished(s)
  BY <1>1 DEF RunPublished
<1>2. CASE RunUndone(s)
  BY <1>2, CallsRelease DEF RunUndone
<1>3. CASE DisposeRun(s)
  BY <1>3 DEF DisposeRun
<1> QED
  BY <1>1, <1>2, <1>3

LEMMA ContinuableSteps ==
  ASSUME TypeOK, releases.twice = {}, NEW s \in Starts, Local(s),
         Prepared(s) \/ ThrowsUnguarded(s) \/ Activated(s) \/ Submitted(s) \/ SubmissionFails(s) \/ CallEnds(s) \/ DisposeActivation(s)
  PROVE  Preserves(s)
<1> USE DEF Goto, Stage, NoRelease, Answered, Preserves, Concerns, Same, Local,
        CallState, DisposalState, KindState, OwnedState, Hosting, Unguarded, TypeOK, Phases, Stages
<1>1. CASE Prepared(s)
  BY <1>1 DEF Prepared
<1>2. CASE ThrowsUnguarded(s)
  BY <1>2 DEF ThrowsUnguarded
<1>3. CASE Activated(s)
  BY <1>3 DEF Activated, Admitting
<1>4. CASE Submitted(s)
  BY <1>4 DEF Submitted
<1>5. CASE SubmissionFails(s)
  BY <1>5 DEF SubmissionFails, Begun
<1>6. CASE CallEnds(s)
  BY <1>6 DEF CallEnds
<1>7. CASE DisposeActivation(s)
  BY <1>7 DEF DisposeActivation
<1> QED
  BY <1>1, <1>2, <1>3, <1>4, <1>5, <1>6, <1>7

LEMMA DisposalSteps ==
  ASSUME TypeOK, releases.twice = {}, NEW s \in Starts, Local(s),
         ChildrenGone(s) \/ HandleFails(s) \/ HandleGone(s) \/ PermitAnswered(s)
  PROVE  Preserves(s)
<1> USE DEF Goto, Stage, NoRelease, Answered, Preserves, Concerns, Same, Local,
        CallState, DisposalState, KindState, OwnedState, Hosting, Unguarded, TypeOK, Phases, Stages
<1>1. CASE ChildrenGone(s)
  BY <1>1 DEF ChildrenGone
<1>2. CASE HandleFails(s)
  BY <1>2 DEF HandleFails
<1>3. CASE HandleGone(s)
  BY <1>3, CallsRelease DEF HandleGone
<1>4. CASE PermitAnswered(s)
  BY <1>4 DEF PermitAnswered
<1> QED
  BY <1>1, <1>2, <1>3, <1>4

LEMMA ChildSteps ==
  ASSUME TypeOK, releases.twice = {}, NEW s \in Starts, NEW c \in Starts, Local(c),
         DisposeChild(s, c)
  PROVE  Preserves(c)
BY DEF DisposeChild, Children, Stage, NoRelease, Preserves, Concerns, Same, Local,
       CallState, DisposalState, KindState, OwnedState, Hosting, TypeOK, Phases, Stages

(* The actions of one start, and those of a parent on its child.           *)
OwnStep(s) ==
  \/ Request(s) \/ Abort(s) \/ DisposeRun(s) \/ DisposeActivation(s) \/ CallStep(s)
  \/ ChildrenGone(s) \/ HandleFails(s) \/ HandleGone(s) \/ PermitAnswered(s)

LEMMA NextSplits ==
  ASSUME Next
  PROVE  \/ Unregister
         \/ \E s \in Starts : OwnStep(s) \/ \E c \in Starts : DisposeChild(s, c)
BY DEF Next, OwnStep, DisposalStep

LEMMA OwnSteps ==
  ASSUME TypeOK, releases.twice = {}, NEW s \in Starts, Local(s), OwnStep(s)
  PROVE  Preserves(s)
BY CallSteps, OneShotSteps, ContinuableSteps, DisposalSteps DEF OwnStep, CallStep

LEMMA Elsewhere ==
  ASSUME NEW t \in Starts, Local(t), Same(t)
  PROVE  Local(t)'
BY DEF Local, Same, CallState, DisposalState, KindState, OwnedState, Hosting, Unguarded

LEMMA Preserved ==
  ASSUME IInv, NEW s \in Starts, Preserves(s)
  PROVE  TypeOK' /\ releases'.twice = {} /\ \A t \in Starts : Local(t)'
BY Elsewhere DEF IInv, Preserves, Concerns

-----------------------------------------------------------------------------
(* What a step may do to the two facts of a family: a child is not unmade, *)
(* a call begins under a parent that is there, a child is counted by a     *)
(* parent that admits, and a parent goes on when no child is left.         *)
Advances(t) ==
  /\ child[t] # "none" => child'[t] # "none"
  /\ pc[t] = "idle" /\ pc'[t] # "idle" /\ OwnerOf[t] # NoOwner => Working(OwnerOf[t])
  /\ t \in owned' => t \in owned \/ (Admitting(t) /\ pc[t] = "creating")
  /\ disposal[t] = "none" =>
       disposal'[t] \in {"none", "children"} \/ t \in OneShots \/ pc[t] = "creating"
  /\ disposal[t] = "children" => disposal'[t] = "children" \/ Children(t) = {}

LEMMA OwnAdvances ==
  ASSUME TypeOK, NEW s \in Starts, Local(s), OwnStep(s), NEW t \in Starts
  PROVE  Advances(t)
<1> USE DEF Goto, Stage, NoRelease, TypeOK, Advances
<1>1. CASE Request(s) \/ Denied(s) \/ Granted(s) \/ StartFails(s) \/ ReleaseAnswered(s) \/ Abort(s)
  BY <1>1 DEF Request, Denied, Granted, StartFails, ReleaseAnswered, Abort
<1>2. CASE RunPublished(s) \/ RunUndone(s) \/ DisposeRun(s)
  BY <1>2 DEF RunPublished, RunUndone, DisposeRun
<1>3. CASE Activated(s)
  BY <1>3 DEF Activated, Local, DisposalState
<1>4. CASE Prepared(s) \/ ThrowsUnguarded(s) \/ Submitted(s) \/ CallEnds(s)
  BY <1>4 DEF Prepared, ThrowsUnguarded, Submitted, CallEnds
<1>5. CASE SubmissionFails(s) \/ DisposeActivation(s)
  BY <1>5 DEF SubmissionFails, DisposeActivation, Begun
<1>6. CASE ChildrenGone(s)
  BY <1>6 DEF ChildrenGone
<1>7. CASE HandleFails(s) \/ HandleGone(s)
  BY <1>7 DEF HandleFails, HandleGone
<1>8. CASE PermitAnswered(s)
  BY <1>8 DEF PermitAnswered
<1> QED
  BY <1>1, <1>2, <1>3, <1>4, <1>5, <1>6, <1>7, <1>8 DEF OwnStep, CallStep

LEMMA ChildAdvances ==
  ASSUME TypeOK, NEW s \in Starts, NEW c \in Starts, DisposeChild(s, c), NEW t \in Starts
  PROVE  Advances(t)
BY DEF DisposeChild, Stage, NoRelease, TypeOK, Advances

LEMMA FamilyKept ==
  ASSUME IInv, \A t \in Starts : Advances(t), TypeOK', NEW t \in Starts
  PROVE  Family(t)'
<1> SUFFICES ASSUME OwnerOf[t] # NoOwner
             PROVE  /\ pc'[t] # "idle" => child'[OwnerOf[t]] # "none"
                    /\ t \in owned' => disposal'[OwnerOf[t]] \in {"none", "children"}
  BY DEF Family
<1> DEFINE o == OwnerOf[t]
<1>1. o \in Starts \ OneShots
  BY StartsAssumption
<1>2. Local(t) /\ Family(t) /\ Local(o)
  BY <1>1 DEF IInv
<1>3. ASSUME pc'[t] # "idle"
      PROVE  child'[o] # "none"
  BY <1>1, <1>2, <1>3 DEF Advances, Family, Working
<1>4. ASSUME t \in owned'
      PROVE  disposal'[o] \in {"none", "children"}
  <2>1. pc[t] # "idle" /\ child[o] # "none"
    BY <1>2, <1>4 DEF Advances, Family, Local, OwnedState, DisposalState
  <2>2. disposal[o] \in {"none", "children"}
    BY <1>2, <1>4 DEF Advances, Family, Admitting
  <2>3. disposal[o] = "none" => pc[o] # "creating"
    BY <1>2, <2>1 DEF Local, CallState
  <2>4. disposal[o] = "children" => t \in Children(o)
    <3>1. CASE t \in owned
      BY <3>1, <1>1, <1>2 DEF IInv, TypeOK, Children
    <3>2. CASE Admitting(t)
      BY <3>2 DEF Admitting
    <3> QED
      BY <3>1, <3>2, <1>4 DEF Advances
  <2> QED
    BY <1>1, <2>2, <2>3, <2>4 DEF Advances
<1> QED
  BY <1>3, <1>4

LEMMA Inductive ==
  ASSUME IInv, [Next]_vars
  PROVE  IInv'
<1>1. CASE UNCHANGED vars
  BY <1>1 DEF vars, IInv, TypeOK, Local, Family, CallState, DisposalState, KindState,
              OwnedState, Hosting, Unguarded
<1>2. CASE Unregister
  BY <1>2 DEF Unregister, NoRelease, IInv, TypeOK, Local, Family, CallState, DisposalState,
              KindState, OwnedState, Hosting, Unguarded
<1>3. ASSUME NEW s \in Starts, OwnStep(s)
      PROVE  IInv'
  <2>1. Preserves(s)
    BY <1>3, OwnSteps DEF IInv
  <2>2. \A t \in Starts : Advances(t)
    BY <1>3, OwnAdvances DEF IInv
  <2> QED
    BY <2>1, <2>2, Preserved, FamilyKept DEF IInv
<1>4. ASSUME NEW s \in Starts, NEW c \in Starts, DisposeChild(s, c)
      PROVE  IInv'
  <2>1. Preserves(c)
    BY <1>4, ChildSteps DEF IInv
  <2>2. \A t \in Starts : Advances(t)
    BY <1>4, ChildAdvances DEF IInv
  <2> QED
    BY <2>1, <2>2, Preserved, FamilyKept DEF IInv
<1> QED
  BY <1>1, <1>2, <1>3, <1>4, NextSplits

LEMMA InitHolds ==
  ASSUME Init
  PROVE  IInv
BY DEF Init, IInv, TypeOK, Local, Family, CallState, DisposalState, KindState, OwnedState,
       Hosting, Unguarded, Phases, Stages

(* Every reachable state has a place for every start, its permit, its      *)
(* child and its disposal.                                                 *)
THEOREM Invariance == Spec => []IInv
BY InitHolds, Inductive, PTL DEF Spec

(* No variable of the seam leaves its type, whatever calls overlap.        *)
THEOREM TypeCorrect == Spec => []TypeOK
<1>1. IInv => TypeOK
  BY DEF IInv
<1> QED
  BY <1>1, Invariance, PTL

(* release() is called at most once on each permit, however the call fails *)
(* and whoever disposes of the child.                                      *)
THEOREM ReleasedOnce == Spec => []ReleasedAtMostOnce
<1>1. IInv => ReleasedAtMostOnce
  BY DEF IInv, ReleasedAtMostOnce
<1> QED
  BY <1>1, Invariance, PTL

(* A permit is held for as long as the run or the agent it admitted is     *)
(* there.                                                                  *)
THEOREM PermitsHeld == Spec => []HeldWhileChildIsThere
<1>1. IInv => HeldWhileChildIsThere
  <2> SUFFICES ASSUME IInv, NEW s \in Starts, child[s] \in {"live", "stuck"}
               PROVE  permit[s] = "held"
    BY DEF HeldWhileChildIsThere
  <2>1. Local(s) /\ TypeOK
    BY DEF IInv
  <2> QED
    BY <2>1 DEF Local, CallState, DisposalState, Hosting, Unguarded, TypeOK, Phases, Stages
<1> QED
  BY <1>1, Invariance, PTL

(* A start call that rejects has given its permit back, unless the child,  *)
(* the policy or unguarded code stands in the way.                         *)
THEOREM RejectionsReturn == Spec => []RejectedMeansReturned
<1>1. IInv => RejectedMeansReturned
  <2> SUFFICES ASSUME IInv, NEW s \in Starts, pc[s] = "failed"
               PROVE  \/ permit[s] \in {"none", "released"}
                      \/ child[s] = "stuck" \/ permit[s] = "stuck" \/ Unguarded(s)
    BY DEF RejectedMeansReturned
  <2>1. Local(s) /\ TypeOK
    BY DEF IInv
  <2> QED
    BY <2>1 DEF Local, CallState, DisposalState, TypeOK, Stages
<1> QED
  BY <1>1, Invariance, PTL

(* However deep the tree of children, an ancestor's permit outlives those  *)
(* of the descendants it counts.                                           *)
THEOREM AncestorsLast == Spec => []AncestorsOutliveDescendants
<1>1. IInv => AncestorsOutliveDescendants
  <2> SUFFICES ASSUME IInv, NEW s \in Starts \ OneShots, OwnerOf[s] # NoOwner, Holding(s)
               PROVE  permit[OwnerOf[s]] # "released"
    BY DEF AncestorsOutliveDescendants
  <2> DEFINE o == OwnerOf[s]
  <2>1. o \in Starts \ OneShots /\ Local(s) /\ Family(s) /\ Local(o) /\ TypeOK
    BY StartsAssumption DEF IInv
  <2>2. s \in owned
    BY <2>1 DEF Holding, Local, OwnedState, DisposalState, TypeOK, Stages
  <2>3. disposal[o] \in {"none", "children"} /\ child[o] # "none"
    BY <2>1, <2>2 DEF Family, Local, OwnedState, DisposalState
  <2> QED
    BY <2>1, <2>3 DEF Local, CallState, DisposalState, KindState, Hosting, Unguarded, TypeOK, Phases
<1> QED
  BY <1>1, Invariance, PTL
=============================================================================
