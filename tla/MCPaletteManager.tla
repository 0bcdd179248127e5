-------------------------- MODULE MCPaletteManager --------------------------
(***************************************************************************)
(* Small instances of PaletteManager.                                      *)
(***************************************************************************)
EXTENDS PaletteManager

OneDeposit == [d \in {1} |-> 1]

(* Deposit 1 is in block 1 and deposit 2 in block 2. *)
EarlyDeposits == [d \in 1..2 |-> d]

(* The validators change in block 4, when a proof under block 2 may be in flight. *)
LateChange == [h \in 0..MaxHeight |-> IF h < 4 THEN "v1" ELSE "v2"]

(* They change in block 2 and back in block 3. *)
ThereAndBack == [h \in 0..MaxHeight |-> IF h = 2 THEN "v2" ELSE "v1"]

=============================================================================
