--------------------------- MODULE MCProviderGate ---------------------------
(* Three callers are enough for a holder, a waiter and an arrival that     *)
(* competes with it; every caller may use every tier.                      *)
EXTENDS ProviderGate
=============================================================================
