------------------------------ MODULE MCHermes ------------------------------
(* A conversation with the user and a scheduled job, in a gateway whose     *)
(* configuration names one of two spaces.                                   *)
EXTENDS Hermes
=============================================================================
