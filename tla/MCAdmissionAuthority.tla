------------------------ MODULE MCAdmissionAuthority ------------------------
(***************************************************************************)
(* Small instances of AdmissionAuthority for TLC.  Parents p1 and p2       *)
(* belong to root r1, p3 to r2.  `shot' starts a one-shot child under p1,  *)
(* `cont' a continuable child y under p1, `cold' resumes y under p1, and   *)
(* `other' starts a one-shot child in the other root.                      *)
(***************************************************************************)
EXTENDS AdmissionRefinement, TLC

CONSTANTS r1, r2, p1, p2, p3, x, y, z, shot, cont, cold, other

MCRootOf == [p \in Parents |-> IF p = p3 THEN r2 ELSE r1]
MCOperation == [c \in Calls |->
  CASE c = cont -> "new-continuable" [] c = cold -> "cold-resume"
    [] OTHER -> "new-one-shot"]
MCParentOf == [c \in Calls |-> IF c = other THEN p3 ELSE p1]
MCChildOf == [c \in Calls |-> IF c \in {cont, cold} THEN y ELSE NoChild]
\* The same with `cold' resuming a child of the other root.
MCApartParentOf == [c \in Calls |-> IF c \in {cold, other} THEN p3 ELSE p1]
MCApartChildOf == [c \in Calls |->
  CASE c = cont -> y [] c = cold -> z [] OTHER -> NoChild]

\* The runtime binds a run's own id; ids of different runs differ.
MCRunIds == [c \in Calls |->
  CASE c = shot -> {x} [] c = other -> {z} [] OTHER -> {y}]

\* A provider may return, as the id of a one-shot run, that of another child.
MCCollidingRunIds == [c \in Calls |->
  CASE c = shot -> {x, y} [] c = cold -> {z} [] OTHER -> {y}]

EmptyRow == [admittedTotal |-> 0, admittedChildrenByParent |-> [p \in Parents |-> 0]]
EmptyLedger == [r \in Roots |-> EmptyRow]
\* p1 has had one child, p2 the other two of its root.
UsedLedger == [EmptyLedger EXCEPT ![r1] =
  [admittedTotal |-> 2,
   admittedChildrenByParent |-> [EmptyRow.admittedChildrenByParent EXCEPT ![p1] = 1]]]

\* Both the root and p1 have spent their totals.
SpentLedger == [EmptyLedger EXCEPT ![r1] =
  [admittedTotal |-> 3,
   admittedChildrenByParent |-> [EmptyRow.admittedChildrenByParent EXCEPT ![p1] = 2]]]

MCSeedLedgers == {EmptyLedger, UsedLedger, SpentLedger}
MCEmptyLedgers == {EmptyLedger}

\* Two leases in all, in one root or in both.
MCTwoActive == [perRootActive |-> 2, globalActive |-> 2,
                perRootAdmittedTotal |-> 3, perParentChildren |-> 2]
\* One lease at a time, in whichever root.
MCGlobalTight == [perRootActive |-> 1, globalActive |-> 1,
                  perRootAdmittedTotal |-> 3, perParentChildren |-> 2]
=============================================================================
