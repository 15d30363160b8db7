-------------------------- MODULE MCMlsStoreReset ---------------------------
(* MlsStoreReset for TLC.  Workers are interchangeable. *)
EXTENDS MlsStoreReset, TLC

Symmetry == Permutations(Workers)
=============================================================================
