------------------------ MODULE AdmissionModelProofs ------------------------
(***************************************************************************)
(* The state model keeps its counters exact and its limits for every       *)
(* choice of sessions, limits and seeds.                                   *)
(***************************************************************************)
EXTENDS AdmissionModel, FiniteSetTheorems, TLAPS

(* The permits of a root among a set of them.                              *)
Of(S, root) == {p \in S : p.rootId = root}

(* A live permit's id was issued, and names it alone: without this a bind, *)
(* which replaces a record by another one, could merge two permits.        *)
IdsDistinct ==
  \A p \in permits :
    /\ p.permitId < permitCounter
    /\ \A q \in permits : p.permitId = q.permitId => p = q

(* The inductive invariant.  The limits are checked on the counters, so    *)
(* they hold of the permits only together with the agreement of the two.   *)
IInv ==
  /\ TypeOK
  /\ IsFiniteSet(permits)
  /\ IdsDistinct
  /\ CountersAgree
  /\ ActiveWithinLimits

-----------------------------------------------------------------------------
(* Counting the permits of a root.                                         *)

LEMMA OfFinite ==
  ASSUME NEW S, IsFiniteSet(S), NEW root
  PROVE  IsFiniteSet(Of(S, root)) /\ Cardinality(Of(S, root)) \in Nat
<1>1. Of(S, root) \subseteq S
  BY DEF Of
<1>2. IsFiniteSet(Of(S, root))
  BY <1>1, FS_Subset
<1> QED
  BY <1>2, FS_CardinalityType

LEMMA CountAdded ==
  ASSUME NEW S, IsFiniteSet(S), NEW e, e \notin S, NEW T, T = S \cup {e}, NEW root
  PROVE  /\ Cardinality(T) = Cardinality(S) + 1
         /\ Cardinality(Of(T, root)) =
              IF e.rootId = root THEN Cardinality(Of(S, root)) + 1
                                 ELSE Cardinality(Of(S, root))
<1>1. Cardinality(T) = Cardinality(S) + 1
  BY FS_AddElement
<1>2. CASE e.rootId = root
  <2>1. Of(T, root) = Of(S, root) \cup {e} /\ e \notin Of(S, root)
    BY <1>2 DEF Of
  <2>2. Cardinality(Of(S, root) \cup {e}) = Cardinality(Of(S, root)) + 1
    BY <2>1, OfFinite, FS_AddElement
  <2> QED
    BY <1>1, <1>2, <2>1, <2>2
<1>3. CASE e.rootId # root
  <2>1. Of(T, root) = Of(S, root)
    BY <1>3 DEF Of
  <2> QED
    BY <1>1, <1>3, <2>1
<1> QED
  BY <1>2, <1>3

LEMMA CountRemoved ==
  ASSUME NEW S, IsFiniteSet(S), NEW e \in S, NEW root
  PROVE  /\ Cardinality(S \ {e}) = Cardinality(S) - 1
         /\ Cardinality(Of(S \ {e}, root)) =
              IF e.rootId = root THEN Cardinality(Of(S, root)) - 1
                                 ELSE Cardinality(Of(S, root))
<1>1. Cardinality(S \ {e}) = Cardinality(S) - 1
  BY FS_RemoveElement
<1>2. CASE e.rootId = root
  <2>1. Of(S \ {e}, root) = Of(S, root) \ {e} /\ e \in Of(S, root)
    BY <1>2 DEF Of
  <2> QED
    BY <1>1, <1>2, <2>1, OfFinite, FS_RemoveElement
<1>3. CASE e.rootId # root
  <2>1. Of(S \ {e}, root) = Of(S, root)
    BY <1>3 DEF Of
  <2> QED
    BY <1>1, <1>3, <2>1
<1> QED
  BY <1>2, <1>3

-----------------------------------------------------------------------------
(* The invariant holds initially and every transition keeps it.            *)

LEMMA InitIInv == Init => IInv
<1> SUFFICES ASSUME Init PROVE IInv
  OBVIOUS
<1>1. TypeOK
  BY SeedAssumption DEF Init, TypeOK
<1>2. IsFiniteSet(permits) /\ Cardinality(permits) = 0
  BY FS_EmptySet DEF Init
<1>3. \A root \in Roots : Cardinality(PermitsOf(root)) = 0
  BY FS_EmptySet DEF Init, PermitsOf
<1>4. CountersAgree /\ ActiveWithinLimits
  BY <1>2, <1>3, LimitsAssumption DEF Init, CountersAgree, ActiveWithinLimits
<1> QED
  BY <1>1, <1>2, <1>4 DEF Init, IInv, IdsDistinct

(* A permit is issued with a new id, in a state with room for it.          *)
LEMMA ActivateIInv ==
  ASSUME IInv,
         NEW operation \in Operations, NEW root \in Roots, NEW parent \in Parents,
         NEW cumulative \in BOOLEAN,
         ColdResumeVerdict(root) = "accepted",
         Activate(operation, root, parent, cumulative)
  PROVE  IInv'
<1> DEFINE new == [permitId |-> permitCounter, rootId |-> root, parentId |-> parent,
                   operation |-> operation, childId |-> NoChild]
<1>0. /\ permits' = permits \cup {new} /\ new \notin permits /\ new \in Permit
      /\ new.rootId = root /\ new.permitId = permitCounter
  BY DEF Activate, IInv, TypeOK, IdsDistinct, Permit
<1> HIDE DEF new
<1>a. IsFiniteSet(permits)
  BY DEF IInv
<1>1. TypeOK'
  BY <1>0 DEF Activate, IInv, TypeOK, Increment, Charged
<1>2. IsFiniteSet(permits)'
  BY <1>0, <1>a, FS_AddElement
<1>3. IdsDistinct'
  BY <1>0 DEF Activate, IInv, TypeOK, IdsDistinct, Permit
<1>4. CountersAgree'
  <2>1. (globalActive = Cardinality(permits))'
    BY <1>0, FS_AddElement DEF Activate, IInv, CountersAgree
  <2>2. ASSUME NEW r \in Roots
        PROVE  rootActive'[r] = Cardinality(Of(permits', r))
    <3>1. Cardinality(Of(permits', r)) =
            IF new.rootId = r THEN Cardinality(Of(permits, r)) + 1
                        ELSE Cardinality(Of(permits, r))
      BY <1>0, <1>a, CountAdded
    <3>2. rootActive[r] = Cardinality(Of(permits, r))
      BY DEF IInv, CountersAgree, PermitsOf, Of
    <3> QED
      BY <1>0, <3>1, <3>2 DEF Activate, IInv, TypeOK, Increment
  <2> QED
    BY <2>1, <2>2 DEF CountersAgree, PermitsOf, Of
<1>5. globalActive < Limits.globalActive /\ rootActive[root] < Limits.perRootActive
  BY LimitsAssumption DEF ColdResumeVerdict, RootActiveFull, GlobalActiveFull, IInv, TypeOK
<1>6. ActiveWithinLimits'
  <2>1. globalActive' <= Limits.globalActive
    BY <1>5, LimitsAssumption DEF Activate, IInv, TypeOK
  <2>2. ASSUME NEW r \in Roots
        PROVE  rootActive'[r] <= Limits.perRootActive
    BY <1>5, LimitsAssumption DEF Activate, Increment, IInv, TypeOK, CountersAgree, ActiveWithinLimits
  <2> QED
    BY <2>1, <2>2, <1>4 DEF CountersAgree, ActiveWithinLimits
<1> QED
  BY <1>1, <1>2, <1>3, <1>4, <1>6 DEF IInv

(* Binding replaces a permit by the same permit with a child.              *)
LEMMA BindIInv ==
  ASSUME IInv, NEW permit \in permits, NEW child \in Children, Bind(permit, child)
  PROVE  IInv'
<1> DEFINE bound == [permit EXCEPT !.childId = child]
           rest == permits \ {permit}
<1>0. /\ permits' = rest \cup {bound} /\ bound \notin rest /\ bound \in Permit
      /\ bound.rootId = permit.rootId /\ bound.permitId = permit.permitId
  BY DEF Bind, Bound, IInv, TypeOK, IdsDistinct, Permit
<1>a. IsFiniteSet(permits)
  BY DEF IInv
<1>1. TypeOK'
  BY <1>0 DEF Bind, Bound, IInv, TypeOK
<1>2. /\ IsFiniteSet(rest) /\ IsFiniteSet(permits)'
      /\ Cardinality(rest) = Cardinality(permits) - 1
  <2>1. IsFiniteSet(rest) /\ Cardinality(rest) = Cardinality(permits) - 1
    BY <1>a, FS_RemoveElement
  <2> HIDE DEF rest, bound
  <2> QED
    BY <1>0, <2>1, FS_AddElement
<1>3. IdsDistinct'
  BY <1>0 DEF Bind, Bound, IInv, TypeOK, IdsDistinct, Permit
<1>4. Cardinality(permits') = Cardinality(permits)
  <2>1. Cardinality(permits) \in Nat
    BY <1>a, FS_CardinalityType
  <2>2. Cardinality(permits') = Cardinality(rest) + 1
    <3> HIDE DEF rest, bound
    <3> QED
      BY <1>0, <1>2, FS_AddElement
  <2> QED
    BY <1>2, <2>1, <2>2
<1>5. ASSUME NEW r \in Roots
      PROVE  Cardinality(Of(permits', r)) = Cardinality(Of(permits, r))
  <2>1. Cardinality(Of(permits', r)) =
          IF permit.rootId = r THEN Cardinality(Of(rest, r)) + 1
                               ELSE Cardinality(Of(rest, r))
    <3> HIDE DEF rest, bound
    <3> QED
      BY <1>0, <1>2, CountAdded
  <2>2. Cardinality(Of(rest, r)) =
          IF permit.rootId = r THEN Cardinality(Of(permits, r)) - 1
                               ELSE Cardinality(Of(permits, r))
    BY <1>a, CountRemoved
  <2>3. Cardinality(Of(permits, r)) \in Nat
    BY OfFinite DEF IInv
  <2> QED
    BY <2>1, <2>2, <2>3
<1>6. UNCHANGED <<globalActive, rootActive>>
  BY DEF Bind, Bound
<1>7. CountersAgree'
  BY <1>4, <1>5, <1>6 DEF IInv, CountersAgree, PermitsOf, Of
<1>8. ActiveWithinLimits'
  BY <1>4, <1>5 DEF IInv, ActiveWithinLimits, PermitsOf, Of
<1> QED
  BY <1>1, <1>2, <1>3, <1>7, <1>8 DEF IInv

(* A release counts one permit less, in its own root only.                 *)
LEMMA ReleaseIInv ==
  ASSUME IInv, NEW permit \in permits, Release(permit)
  PROVE  IInv'
<1>0. permits' = permits \ {permit} /\ permit \in Permit
  BY DEF Release, IInv, TypeOK
<1>1. IsFiniteSet(permits)'
  BY <1>0, FS_RemoveElement DEF IInv
<1>2. Cardinality(permits') = Cardinality(permits) - 1
  BY <1>0, FS_RemoveElement DEF IInv
<1>3. Cardinality(permits) \in Nat /\ Cardinality(permits') \in Nat
  BY <1>1, FS_CardinalityType DEF IInv
<1>4. ASSUME NEW r \in Roots
      PROVE  /\ Cardinality(Of(permits', r)) =
                  IF permit.rootId = r THEN Cardinality(Of(permits, r)) - 1
                                       ELSE Cardinality(Of(permits, r))
             /\ Cardinality(Of(permits, r)) \in Nat
             /\ Cardinality(Of(permits', r)) \in Nat
  BY <1>0, <1>1, CountRemoved, OfFinite DEF IInv
<1>5. ASSUME NEW r \in Roots
      PROVE  rootActive'[r] = Cardinality(Of(permits', r))
  <2>1. rootActive[r] = Cardinality(Of(permits, r))
    BY DEF IInv, CountersAgree, PermitsOf, Of
  <2> QED
    BY <1>4, <2>1, <1>0 DEF Release, Decrement, IInv, TypeOK, Permit
<1>6. CountersAgree'
  BY <1>2, <1>5 DEF Release, IInv, CountersAgree, PermitsOf, Of
<1>7. TypeOK'
  <2>1. globalActive' \in Nat
    BY <1>3, <1>6 DEF CountersAgree
  <2>2. rootActive' \in [Roots -> Nat]
    <3>1. \A n \in Nat : (IF n > 1 THEN n - 1 ELSE 0) \in Nat
      OBVIOUS
    <3> QED
      BY <1>0, <3>1 DEF Release, Decrement, IInv, TypeOK, Permit
  <2> QED
    BY <1>0, <2>1, <2>2 DEF Release, IInv, TypeOK
<1>8. IdsDistinct'
  BY <1>0 DEF Release, IInv, IdsDistinct
<1>9. ActiveWithinLimits'
  <2>1. Cardinality(permits') <= Limits.globalActive
    BY <1>2, <1>3, LimitsAssumption DEF IInv, ActiveWithinLimits
  <2>2. ASSUME NEW r \in Roots
        PROVE  Cardinality(Of(permits', r)) <= Limits.perRootActive
    <3>1. Cardinality(Of(permits, r)) <= Limits.perRootActive
      BY DEF IInv, ActiveWithinLimits, PermitsOf, Of
    <3> QED
      BY <1>4, <3>1, LimitsAssumption
  <2> QED
    BY <2>1, <2>2 DEF ActiveWithinLimits, PermitsOf, Of
<1> QED
  BY <1>1, <1>6, <1>7, <1>8, <1>9 DEF IInv

LEMMA RestartIInv == ASSUME IInv, Restart PROVE IInv'
<1>1. TypeOK'
  BY DEF Restart, IInv, TypeOK
<1>2. IsFiniteSet(permits') /\ Cardinality(permits') = 0
  BY FS_EmptySet DEF Restart
<1>3. \A root \in Roots : Cardinality(Of(permits', root)) = 0
  BY FS_EmptySet DEF Restart, Of
<1>4. CountersAgree' /\ ActiveWithinLimits'
  BY <1>2, <1>3, LimitsAssumption DEF Restart, CountersAgree, ActiveWithinLimits, PermitsOf, Of
<1> QED
  BY <1>1, <1>2, <1>4 DEF Restart, IInv, IdsDistinct

LEMMA NextIInv == ASSUME IInv, [Next]_vars PROVE IInv'
<1>1. ASSUME NEW operation \in NewOperations, NEW root \in Roots, NEW parent \in Parents,
             NEW ledgerFailure \in BOOLEAN,
             NewAdmission(operation, root, parent, ledgerFailure)
      PROVE  IInv'
  <2>1. ColdResumeVerdict(root) = "accepted"
    BY <1>1 DEF NewAdmission, NewAdmissionVerdict
  <2> QED
    BY <1>1, <2>1, ActivateIInv DEF NewAdmission, Operations
<1>2. ASSUME NEW root \in Roots, NEW parent \in Parents, ColdResume(root, parent)
      PROVE  IInv'
  BY <1>2, ActivateIInv DEF ColdResume, Operations
<1>3. ASSUME NEW permit \in permits, NEW child \in Children, Bind(permit, child)
      PROVE  IInv'
  BY <1>3, BindIInv
<1>4. ASSUME NEW permit \in permits, Release(permit)
      PROVE  IInv'
  BY <1>4, ReleaseIInv
<1>5. CASE Unload
  BY <1>5 DEF Unload, IInv, TypeOK, IdsDistinct, CountersAgree, ActiveWithinLimits, PermitsOf
<1>6. CASE Restart
  BY <1>6, RestartIInv
<1>7. CASE UNCHANGED vars
  BY <1>7 DEF vars, IInv, TypeOK, IdsDistinct, CountersAgree, ActiveWithinLimits, PermitsOf
<1> QED
  BY <1>1, <1>2, <1>3, <1>4, <1>5, <1>6, <1>7 DEF Next

THEOREM Invariance == Spec => []IInv
BY InitIInv, NextIInv, PTL DEF Spec

(* The state keeps its shape: in particular no release makes a counter     *)
(* negative.                                                               *)
THEOREM TypeCorrect == Spec => []TypeOK
BY Invariance, PTL DEF IInv

(* The counters of the state model are exact (state-model.ts:38-40).       *)
THEOREM CountersExact == Spec => []CountersAgree
BY Invariance, PTL DEF IInv

(* No interleaving of commands exceeds an active limit.                    *)
THEOREM LimitsHold == Spec => []ActiveWithinLimits
BY Invariance, PTL DEF IInv

-----------------------------------------------------------------------------
(* The action properties.                                                  *)

(* Steps that issue no permit: what they leave was there before.           *)
NothingIssued ==
  /\ \A q \in permits' :
       /\ q.permitId < permitCounter
       /\ \E p \in permits : Continues(p, q)
  /\ UNCHANGED <<rootAdmittedTotal, parentChildren>>

(* Steps that issue one, charged exactly when it is a new child's.         *)
Issuing(operation, root, parent, cumulative) ==
  /\ Activate(operation, root, parent, cumulative)
  /\ cumulative <=> operation \in NewOperations
  /\ cumulative =>
       /\ rootAdmittedTotal[root] < Limits.perRootAdmittedTotal
       /\ parentChildren[parent] < Limits.perParentChildren

LEMMA StepKinds ==
  ASSUME IInv, [Next]_vars
  PROVE  \/ NothingIssued
         \/ \E operation \in Operations, root \in Roots, parent \in Parents,
              cumulative \in BOOLEAN : Issuing(operation, root, parent, cumulative)
<1>1. ASSUME NEW operation \in NewOperations, NEW root \in Roots, NEW parent \in Parents,
             NEW ledgerFailure \in BOOLEAN,
             NewAdmission(operation, root, parent, ledgerFailure)
      PROVE  operation \in Operations /\ Issuing(operation, root, parent, TRUE)
  <2>1. /\ ~(rootAdmittedTotal[root] >= Limits.perRootAdmittedTotal)
        /\ ~(parentChildren[parent] >= Limits.perParentChildren)
    BY <1>1 DEF NewAdmission, NewAdmissionVerdict
  <2>2. /\ rootAdmittedTotal[root] \in Nat /\ parentChildren[parent] \in Nat
        /\ Limits.perRootAdmittedTotal \in Nat /\ Limits.perParentChildren \in Nat
    BY LimitsAssumption DEF IInv, TypeOK
  <2>3. rootAdmittedTotal[root] < Limits.perRootAdmittedTotal
    BY <2>1, <2>2
  <2>4. parentChildren[parent] < Limits.perParentChildren
    BY <2>1, <2>2
  <2>5. Activate(operation, root, parent, TRUE)
    BY <1>1 DEF NewAdmission
  <2> QED
    BY <2>3, <2>4, <2>5 DEF Operations, Issuing
<1>2. ASSUME NEW root \in Roots, NEW parent \in Parents, ColdResume(root, parent)
      PROVE  "cold-resume" \in Operations /\ Issuing("cold-resume", root, parent, FALSE)
  BY <1>2 DEF ColdResume, Operations, NewOperations, Issuing
<1>3. ASSUME NEW permit \in permits, NEW child \in Children, Bind(permit, child)
      PROVE  NothingIssued
  BY <1>3 DEF Bind, Bound, NothingIssued, Continues, IInv, TypeOK, IdsDistinct, Permit
<1>4. ASSUME NEW permit \in permits, Release(permit)
      PROVE  NothingIssued
  BY <1>4 DEF Release, NothingIssued, Continues, IInv, IdsDistinct
<1>5. CASE Unload
  BY <1>5 DEF Unload, NothingIssued, Continues, IInv, IdsDistinct
<1>6. CASE Restart
  BY <1>6 DEF Restart, NothingIssued
<1>7. CASE UNCHANGED vars
  BY <1>7 DEF vars, NothingIssued, Continues, IInv, IdsDistinct
<1> QED
  BY <1>1, <1>2, <1>3, <1>4, <1>5, <1>6, <1>7 DEF Next

(* Cumulative counts never go down.                                        *)
THEOREM NeverRefunded == Spec => CumulativeNeverRefunded
<1>1. ASSUME IInv, [Next]_vars
      PROVE  /\ \A root \in Roots : rootAdmittedTotal'[root] >= rootAdmittedTotal[root]
             /\ \A parent \in Parents : parentChildren'[parent] >= parentChildren[parent]
  <2>1. CASE NothingIssued
    BY <1>1, <2>1 DEF NothingIssued, IInv, TypeOK
  <2>2. ASSUME NEW operation, NEW root \in Roots, NEW parent \in Parents,
               NEW cumulative \in BOOLEAN, Issuing(operation, root, parent, cumulative)
        PROVE  /\ \A r \in Roots : rootAdmittedTotal'[r] >= rootAdmittedTotal[r]
               /\ \A p \in Parents : parentChildren'[p] >= parentChildren[p]
    BY <1>1, <2>2 DEF Issuing, Activate, Charged, Increment, IInv, TypeOK
  <2> QED
    BY <1>1, <2>1, <2>2, StepKinds
<1> QED
  BY <1>1, Invariance, PTL DEF Spec, CumulativeNeverRefunded

(* An id names one permit, across restarts too.                            *)
THEOREM IdentityKept == Spec => PermitIdentity
<1>1. ASSUME IInv, [Next]_vars
      PROVE  \A q \in permits' \ Issued : \E p \in permits : Continues(p, q)
  <2>1. CASE NothingIssued
    BY <2>1 DEF NothingIssued
  <2>2. ASSUME NEW operation, NEW root, NEW parent, NEW cumulative,
               Issuing(operation, root, parent, cumulative)
        PROVE  \A q \in permits' \ Issued : q \in permits
    BY <1>1, <2>2 DEF Issuing, Activate, Issued, IInv, TypeOK
  <2> QED
    BY <1>1, <2>1, <2>2, StepKinds DEF Continues
<1> QED
  BY <1>1, Invariance, PTL DEF Spec, PermitIdentity

(* A total moves exactly when a new child's permit is issued, by one, and  *)
(* within its limit.                                                       *)
THEOREM ChargedOnce == Spec => ChargedExactlyOnce
<1>0. ASSUME NEW e PROVE Cardinality({e}) = 1
  BY FS_Singleton
<1>a. Cardinality({}) = 0
  BY FS_EmptySet
<1>1. ASSUME IInv, [Next]_vars
      PROVE  /\ \A root \in Roots : RootCharged(root)
             /\ \A parent \in Parents : ParentCharged(parent)
  <2>1. CASE NothingIssued
    <3>1. Issued = {}
      <4>1. permits' \subseteq Permit /\ permitCounter \in Nat
        BY <1>1, NextIInv DEF IInv, TypeOK
      <4> QED
        BY <2>1, <4>1 DEF NothingIssued, Issued, Permit
    <3>2. \A r \in Roots : rootAdmittedTotal'[r] = rootAdmittedTotal[r] + 0
      BY <1>1, <2>1 DEF NothingIssued, IInv, TypeOK
    <3>3. \A q \in Parents : parentChildren'[q] = parentChildren[q] + 0
      BY <1>1, <2>1 DEF NothingIssued, IInv, TypeOK
    <3>4. ASSUME NEW r \in Roots PROVE RootCharged(r)
      <4>1. {p \in IssuedNew : p.rootId = r} = {}
        BY <3>1 DEF IssuedNew
      <4> QED
        BY <1>a, <3>2, <4>1 DEF RootCharged
    <3>5. ASSUME NEW q \in Parents PROVE ParentCharged(q)
      <4>1. {p \in IssuedNew : p.parentId = q} = {}
        BY <3>1 DEF IssuedNew
      <4> QED
        BY <1>a, <3>3, <4>1 DEF ParentCharged
    <3> QED
      BY <3>4, <3>5
  <2>2. ASSUME NEW operation \in Operations, NEW root \in Roots, NEW parent \in Parents,
               NEW cumulative \in BOOLEAN, Issuing(operation, root, parent, cumulative)
        PROVE  /\ \A r \in Roots : RootCharged(r)
               /\ \A q \in Parents : ParentCharged(q)
    <3> DEFINE e == [permitId |-> permitCounter, rootId |-> root, parentId |-> parent,
                     operation |-> operation, childId |-> NoChild]
    <3>1. /\ Issued = {e} /\ e.rootId = root /\ e.parentId = parent
          /\ e.operation = operation
      BY <1>1, <2>2 DEF Issuing, Activate, Issued, IInv, TypeOK, IdsDistinct, Permit
    <3>2. /\ rootAdmittedTotal' = Charged(cumulative, rootAdmittedTotal, root)
          /\ parentChildren' = Charged(cumulative, parentChildren, parent)
      BY <2>2 DEF Issuing, Activate
    <3> HIDE DEF e
    <3>3. ASSUME NEW r \in Roots
          PROVE  {p \in IssuedNew : p.rootId = r} =
                   IF cumulative /\ r = root THEN {e} ELSE {}
      BY <2>2, <3>1 DEF IssuedNew, Issuing
    <3>4. ASSUME NEW q \in Parents
          PROVE  {p \in IssuedNew : p.parentId = q} =
                   IF cumulative /\ q = parent THEN {e} ELSE {}
      BY <2>2, <3>1 DEF IssuedNew, Issuing
    <3>5. ASSUME NEW r \in Roots PROVE RootCharged(r)
      <4>1. /\ rootAdmittedTotal'[r] = rootAdmittedTotal[r] +
                   IF cumulative /\ r = root THEN 1 ELSE 0
            /\ cumulative /\ r = root =>
                 rootAdmittedTotal'[r] <= Limits.perRootAdmittedTotal
        BY <1>1, <2>2, <3>2, LimitsAssumption DEF Issuing, Charged, Increment, IInv, TypeOK
      <4> QED
        BY <1>0, <1>a, <3>3, <4>1 DEF RootCharged
    <3>6. ASSUME NEW q \in Parents PROVE ParentCharged(q)
      <4>1. /\ parentChildren'[q] = parentChildren[q] +
                   IF cumulative /\ q = parent THEN 1 ELSE 0
            /\ cumulative /\ q = parent =>
                 parentChildren'[q] <= Limits.perParentChildren
        BY <1>1, <2>2, <3>2, LimitsAssumption DEF Issuing, Charged, Increment, IInv, TypeOK
      <4> QED
        BY <1>0, <1>a, <3>4, <4>1 DEF ParentCharged
    <3> QED
      BY <3>5, <3>6
  <2> QED
    BY <1>1, <2>1, <2>2, StepKinds
<1> QED
  BY <1>1, Invariance, PTL DEF Spec, ChargedExactlyOnce
=============================================================================
