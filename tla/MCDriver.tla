-------------------------------- MODULE MCDriver -------------------------------
(****************************************************************************)
(* The driver of a run whose program is to be one the theorems speak of.    *)
(****************************************************************************)
EXTENDS MCBowknot

\* The preconditions of the theorems are met.
ASSUME DriverIsCovered == Sheltered /\ Covered /\ Delegating
===============================================================================
