--------------------------- MODULE MCSubagentSeam ---------------------------
(***************************************************************************)
(* A new continuable child, whose agent resumes an earlier child of its    *)
(* own, beside a one-shot run.                                             *)
(***************************************************************************)
EXTENDS SubagentSeam

CONSTANTS shot, parent, resumed

MCOwnerOf == [s \in Starts |-> IF s = resumed THEN parent ELSE NoOwner]
=============================================================================
