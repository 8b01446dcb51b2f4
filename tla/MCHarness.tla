----------------------------- MODULE MCHarness -----------------------------
(* Two accounts, as model values; the bounds are in the configuration.     *)
EXTENDS Harness, TLC

\* The accounts play the same part.
Symmetry == Permutations(Accounts)
=============================================================================
