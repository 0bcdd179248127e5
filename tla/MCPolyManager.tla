--------------------------- MODULE MCPolyManager ----------------------------
(***************************************************************************)
(* Small instances of PolyManager.                                         *)
(***************************************************************************)
EXTENDS PolyManager, TLC

(* Header 1 names the first keepers, and header 4 the next ones. *)
OneChange == [h \in Heights |-> CASE h = 1 -> "k1" [] h = 4 -> "k2" [] OTHER -> NoKeepers]

(* Deposits before and after the change: no epoch header proves one. *)
AroundTheChange == [d \in Deposits |-> IF d = "d1" THEN 2 ELSE IF d = "d2" THEN 2 ELSE 4]

(* Neither the ids nor the routes can be told apart. *)
Symmetry == Permutations(TxIds) \cup Permutations(Routes)

=============================================================================
