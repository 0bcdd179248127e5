---------------------------- MODULE MCPolyRelay -----------------------------
(***************************************************************************)
(* Small instances of PolyRelay.                                           *)
(***************************************************************************)
EXTENDS PolyRelay

Heights == 0..MaxHeight

(* Header 1 names the first keepers, and header 3 the next ones. *)
OneChange == [h \in Heights |-> CASE h = 1 -> "k1" [] h = 3 -> "k2" [] OTHER -> NoKeepers]

(* Deposits before and after the change: no epoch header proves one. *)
AroundTheChange == [d \in Deposits |-> IF d = "d3" THEN 3 ELSE 1]

=============================================================================
