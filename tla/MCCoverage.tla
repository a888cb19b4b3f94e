----------------------------- MODULE MCCoverage -----------------------------
(* Two roots, the spawned pipeline and the one of an import, two Memories    *)
(* that may share a stamp.                                                   *)
EXTENDS Coverage
=============================================================================
