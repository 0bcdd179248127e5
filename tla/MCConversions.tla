--------------------------- MODULE MCConversions ----------------------------
(***************************************************************************)
(* Small ranges for Conversions: a byte is below 4, a uint32 has one byte, *)
(* a uint64 two, and a hash four.                                          *)
(***************************************************************************)
EXTENDS Conversions

Addresses == [key \in Keys |-> (7 * key) % 10]

(* Indexes around 2^8 and 2^64, chains around 2^32. *)
SomeEvents ==
  [index : {0, 1, 3, 4, 5, 14, 15, 16, 17, 32}, txHash : {<<0, 0, 0, 0>>, <<3, 1, 2, 0>>},
   rawdata : {<<>>, <<1>>, <<3, 0, 2>>}, toChainId : {0, 3, 4, 6}]

SomeHeights == {0, 3, 4, 15}

(* Contract 1 takes deposits from chain 2 only, and from every chain once  *)
(* it is listed again; contract 2 has chains of the other direction only.  *)
SomeTargets ==
  LET inbound == [f \in {"inbound"} |-> <<2>>]
      outbound == [f \in {"outbound"} |-> <<2>>]
      both == [f \in {"inbound", "outbound"} |-> IF f = "inbound" THEN <<3, 2>> ELSE <<>>]
  IN {<<>>,
      << [c \in {1} |-> inbound] >>,
      << [c \in {1, 2} |-> IF c = 1 THEN inbound ELSE outbound] >>,
      << [c \in {1} |-> inbound], [c \in {1} |-> outbound] >>,
      << [c \in {2} |-> both], [c \in {1} |-> outbound] >>}

=============================================================================
