--------------------------- MODULE MCRootResolver ---------------------------
(***************************************************************************)
(* A lineage of one header more than the limit.  The header of mid may     *)
(* also name no parent, which makes another root of it, and that of top    *)
(* its own descendant, which makes a circle.                               *)
(***************************************************************************)
EXTENDS RootResolver

CONSTANTS twig, leaf, mid, top, c1, c2

MCClaims ==
  [s \in Sessions |->
     CASE s = twig -> {leaf} [] s = leaf -> {mid}
       [] s = mid -> {top, Root} [] s = top -> {Root, leaf}]
=============================================================================
