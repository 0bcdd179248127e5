-------------------------- MODULE MCPaletteSender ---------------------------
(***************************************************************************)
(* Small instances of PaletteSender: jobs and threads are interchangeable. *)
(***************************************************************************)
EXTENDS PaletteSender, TLC

Symmetry == Permutations(Jobs) \cup Permutations(Threads)

=============================================================================
