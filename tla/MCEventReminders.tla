-------------------------- MODULE MCEventReminders --------------------------
(* Instances of EventReminders for TLC. *)
EXTENDS EventReminders, TLC

\* Scan loops differ only in their name.
Interchangeable == Permutations(Loops)
=============================================================================
