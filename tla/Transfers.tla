----------------------------- MODULE Transfers ------------------------------
(***************************************************************************)
(* What the relayer does with the data of a transfer.                      *)
(*                                                                         *)
(*   palette -> poly  an event of palette's ECCM becomes a record, that is *)
(*                    a key of bucket Retry (BoltDB), and is read back     *)
(*                    when the proof of the transfer is asked for;         *)
(*   poly -> palette  the value that an audit path proves says for which   *)
(*                    contract a deposit is.                               *)
(*                                                                         *)
(* Bytes are numbers below Base, and integers have their number of bytes:  *)
(* a smaller Base and fewer bytes keep every boundary, and make the ranges *)
(* small.  A length before a string of bytes is one element.               *)
(***************************************************************************)
EXTENDS Integers, Sequences, SequencesExt

CONSTANTS
  Nibble,      \* 16 in the code: what a hex digit counts
  Uint32Len,   \* 4: the bytes of a uint32
  Uint64Len,   \* 8: the bytes of a uint64
  HashLen      \* 32: the bytes of a hash, and of a word of a contract

ASSUME TransfersAssumption ==
  /\ Nibble \in Nat \ {0, 1}
  /\ Uint32Len \in Nat \ {0}
  /\ Uint64Len \in Nat \ {0}
  /\ HashLen \in Nat \ {0}
  /\ Uint64Len <= HashLen

Base == Nibble * Nibble

Byte == 0..(Base - 1)

(* Base^n, in the form that proofs can use. *)
Power[n \in Nat] == IF n = 0 THEN 1 ELSE Base * Power[n - 1]

Uint32 == 0..(Power[Uint32Len] - 1)
Uint64 == 0..(Power[Uint64Len] - 1)

-----------------------------------------------------------------------------
(* ZeroCopySink, ZeroCopySource, hex and big.Int.                          *)

(* The len digits of n, the last one first. *)
LittleEndian(n, len) == [i \in 1..len |-> (n \div Power[i - 1]) % Base]

WriteVarBytes(s) == <<Len(s)>> \o s

(* A read returns what it reads and what is left; after a read that runs   *)
(* out of the source, so do those that follow.                             *)
Eof == [data |-> <<>>, rest |-> <<>>, eof |-> TRUE]

NextBytes(source, n) ==
  IF Len(source) < n THEN Eof
  ELSE [data |-> SubSeq(source, 1, n), rest |-> SubSeq(source, n + 1, Len(source)), eof |-> FALSE]

NextVarBytes(source) ==
  IF source = <<>> THEN Eof ELSE NextBytes(Tail(source), Head(source))

FromLittleEndian(s) ==
  LET value[i \in 0..Len(s)] == IF i = 0 THEN 0 ELSE value[i - 1] + s[i] * Power[i - 1]
  IN value[Len(s)]

(* big.Int: the digits of n without a leading zero. *)
BigBytes(n) ==
  LET len == CHOOSE l \in 0..n : n < Power[l] /\ (l = 0 \/ Power[l - 1] <= n)
  IN Reverse(LittleEndian(n, len))

HexEncode(s) ==
  [i \in 1..(2 * Len(s)) |->
     IF i % 2 = 1 THEN s[(i + 1) \div 2] \div Nibble ELSE s[i \div 2] % Nibble]

(* big.Int as a hex number has no leading zero. *)
HexNumber(n) ==
  LET text == HexEncode(BigBytes(n))
  IN IF text # <<>> /\ Head(text) = 0 THEN Tail(text) ELSE text

NotHex == <<-1>>
HexDecode(text) ==
  IF Len(text) % 2 = 1 THEN NotHex
  ELSE [i \in 1..(Len(text) \div 2) |-> Nibble * text[2 * i - 1] + text[2 * i]]

-----------------------------------------------------------------------------
(* palette -> poly.                                                        *)

(* "00" is for 0, and looks at the low 64 bits only. *)
EncodeBigInt(n) == IF n % Power[Uint64Len] = 0 THEN <<0, 0>> ELSE HexEncode(BigBytes(n))

(* toChain is a uint32, ToChainId a uint64. *)
AsGiven(toChainId) == toChainId
ToChain(toChainId) == toChainId % Power[Uint32Len]

(* serializeCrossTransfer: the fields, of event evt in block height. *)
CrossTransfer(evt, height) ==
  [txIndex |-> EncodeBigInt(evt.index), txId |-> evt.txHash, value |-> evt.rawdata,
   toChain |-> ToChain(evt.toChainId), height |-> height]

HashFirst(t) ==
  WriteVarBytes(t.txId) \o WriteVarBytes(t.txIndex) \o WriteVarBytes(t.value)
    \o LittleEndian(t.toChain, Uint32Len) \o LittleEndian(t.height, Uint64Len)

Serialization(t) ==
  WriteVarBytes(t.txIndex) \o WriteVarBytes(t.txId) \o WriteVarBytes(t.value)
    \o LittleEndian(t.toChain, Uint32Len) \o LittleEndian(t.height, Uint64Len)

NoTransfer == <<>>

NarrowHeight(source) ==
  LET txIndex == NextVarBytes(source)
      txId    == NextVarBytes(txIndex.rest)
      value   == NextVarBytes(txId.rest)
      toChain == NextBytes(value.rest, Uint32Len)
      height  == NextBytes(toChain.rest, Uint32Len)
  IN IF height.eof THEN NoTransfer
     ELSE [txIndex |-> txIndex.data, txId |-> txId.data, value |-> value.data,
           toChain |-> FromLittleEndian(toChain.data), height |-> FromLittleEndian(height.data)]

Deserialization(source) ==
  LET txIndex == NextVarBytes(source)
      txId    == NextVarBytes(txIndex.rest)
      value   == NextVarBytes(txId.rest)
      toChain == NextBytes(value.rest, Uint32Len)
      height  == NextBytes(toChain.rest, Uint64Len)
  IN IF height.eof THEN NoTransfer
     ELSE [txIndex |-> txIndex.data, txId |-> txId.data, value |-> value.data,
           toChain |-> FromLittleEndian(toChain.data), height |-> FromLittleEndian(height.data)]

LeftPadBytes(s, len) == IF len <= Len(s) THEN s ELSE [i \in 1..(len - Len(s)) |-> 0] \o s

(* mappingKeyAt: what is hashed to the slot of an entry of a mapping.      *)
MappingKeyAt(position1, position2) ==
  IF HexDecode(position1) = NotHex \/ HexDecode(position2) = NotHex THEN NotHex
  ELSE LeftPadBytes(HexDecode(position1), HashLen) \o LeftPadBytes(HexDecode(position2), HashLen)

(* The mapping of ECCD from the index of a transfer to its hash is at 1.   *)
GetMappingKey(txIndex) == MappingKeyAt(txIndex, <<0, 1>>)

-----------------------------------------------------------------------------
(* poly -> palette.                                                        *)

NoPath == [value |-> <<>>, pos |-> <<>>, hashs |-> <<>>]

(* The nodes that the rest of the path is taken for: by the size of their  *)
(* hashes, although each of them has a byte before its hash.               *)
NodesRoundedUp(rest) == (Len(rest) + HashLen - 1) \div HashLen
NodesIn(rest) == Len(rest) \div HashLen

ParseAuditPath(path) ==
  LET value == NextVarBytes(path)
      size  == NodesIn(value.rest)
      At(i) == (i - 1) * (HashLen + 1) + 1
  IN IF value.eof \/ Len(value.rest) < size * (HashLen + 1) THEN NoPath
     ELSE [value |-> value.data,
           pos   |-> [i \in 1..size |-> value.rest[At(i)]],
           hashs |-> [i \in 1..size |-> SubSeq(value.rest, At(i) + 1, At(i) + HashLen)]]

(* The configuration: for each entry a map from contracts to a map from    *)
(* "inbound" and "outbound" to chains.  No chains stand for all of them.   *)
ChainsOf(arr, field) == IF field \in DOMAIN arr THEN arr[field] ELSE <<>>

IsChainID(arr, chain, field) ==
  ChainsOf(arr, field) = <<>> \/ Contains(ChainsOf(arr, field), chain)

CheckContract(targets, contract, field, chain) ==
  \E i \in DOMAIN targets :
    contract \in DOMAIN targets[i] /\ IsChainID(targets[i][contract], chain, field)

(* The value is a merkle value: here the contract and the chain it is from. *)
MerkleValue(value) == [contract |-> value[1], fromChain |-> value[2]]

(* handleDepositEvents hands the deposit to a sender. *)
HandsOn(targets, path) ==
  LET value == ParseAuditPath(path).value
  IN /\ value # <<>>
     /\ CheckContract(targets, MerkleValue(value).contract, "inbound", MerkleValue(value).fromChain)

=============================================================================
