---------------------------- MODULE MCSessionLock ----------------------------
(* Instances of SessionLock for TLC. *)
EXTENDS SessionLock, TLC

\* Ids of tasks, loops and commands are interchangeable.
Ids == Permutations(TaskIds) \cup Permutations(ScanIds) \cup Permutations(Workers)
=============================================================================
