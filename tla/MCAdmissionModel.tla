-------------------------- MODULE MCAdmissionModel --------------------------
(* A small instance of AdmissionModel for TLC.                             *)
EXTENDS AdmissionModel, TLC

\* Every limit is reached before the bound on permits is.
MCLimits == [perRootActive |-> 2, globalActive |-> 3,
             perRootAdmittedTotal |-> 3, perParentChildren |-> 2]

\* Sessions and children are interchangeable in every action and property.
MCSymmetry ==
  Permutations(Roots) \cup Permutations(Parents) \cup Permutations(Children)
=============================================================================
