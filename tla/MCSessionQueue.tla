--------------------------- MODULE MCSessionQueue ---------------------------
(* Small instances of SessionQueue: turns of one kind are interchangeable. *)
EXTENDS SessionQueue

Symmetry == Permutations(Prompts) \cup Permutations(Autos) \cup Permutations(Manuals)
=============================================================================
