----------------------------- MODULE MCSquadEvent -----------------------------
(* Instances of SquadEvent for TLC. *)
EXTENDS SquadEvent, TLC

\* The tasks of a device are interchangeable.
Symmetry == Permutations(Handlers)
=============================================================================
