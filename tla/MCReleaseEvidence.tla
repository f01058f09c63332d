------------------------- MODULE MCReleaseEvidence -------------------------
(***************************************************************************)
(* One collection with one script run apart, one change of the source or   *)
(* one refresh of the baseline, at any moment.                             *)
(***************************************************************************)
EXTENDS ReleaseEvidence

CONSTANTS release, apart

EditsChecked == {{}, {"documents"}, {"patch"}, {"patch", "target"}, {"plugin"}, Packages}
MovesChecked == {{}, {"commit"}, {"dsh"}, {"dsh-subagent", "discussion"}}
=============================================================================
