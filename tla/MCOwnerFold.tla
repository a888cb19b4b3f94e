---------------------------- MODULE MCOwnerFold ----------------------------
(* Three people and the user; Memories about two of the people at once,    *)
(* about the user, and about two Relationships that a merge makes one.     *)
EXTENDS OwnerFold
=============================================================================
