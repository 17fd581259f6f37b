--------------------------- MODULE MCCreateCharge ---------------------------
(* Instances of CreateCharge for TLC. *)
EXTENDS CreateChargeRefinement, CreateChargeInv, TLC

\* Requests, tenants and keys are interchangeable in the safety runs.
Symmetry == Permutations(Requests) \cup Permutations(Tenants) \cup Permutations(Keys)
=============================================================================
