-------------------------- MODULE MCDirectMessages --------------------------
(* One text and its edits. *)
EXTENDS DirectMessages, TLC

Target == [e \in Edits |-> CHOOSE t \in Texts : TRUE]
\* A text of the user or one of the peer, with its edits.
Authors == {{}, Rumors}
Interchangeable == Permutations(Commands)
=============================================================================
