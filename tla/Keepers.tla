------------------------------ MODULE Keepers -------------------------------
(***************************************************************************)
(* Keys, keepers and signatures of poly, as the relayer converts them for  *)
(* palette's contracts (manager/utils.go, utils/poly/poly.go).             *)
(*                                                                         *)
(* A key is a number, and stands for its bytes; hashes and signatures are  *)
(* what can be told about them.                                            *)
(***************************************************************************)
EXTENDS Integers, Sequences, FiniteSets, SequencesExt

CONSTANTS
  Keys,      \* a set of numbers
  AddressOf, \* the tail of the hash of each key: in no order related to the keys
  SigLen     \* 65: the bytes of a signature palette understands

ASSUME KeepersAssumption ==
  /\ Keys \subseteq Nat /\ IsFiniteSet(Keys)
  /\ SigLen \in Nat \ {0}

(* No two keys have one address: a collision of the hash is left out.      *)
ASSUME NoCollision ==
  /\ AddressOf \in [Keys -> Nat]
  /\ \A a, b \in Keys : AddressOf[a] = AddressOf[b] => a = b

-----------------------------------------------------------------------------
(* The keepers that a header names.                                        *)

AsListed(peers) == peers

(* keypair.SortPublicKeys *)
SortPublicKeys(peers) ==
  LET order == CHOOSE p \in Bijection(DOMAIN peers, DOMAIN peers) :
                 \A i, j \in DOMAIN peers : i < j => peers[p[i]] <= peers[p[j]]
  IN [i \in DOMAIN peers |-> peers[order[i]]]

KeccakAddress(key) == AddressOf[key]

(* assemblePubKeyList: the keys, for changeBookKeeper, and the keepers.    *)
PubKeyList(peers) == SortPublicKeys(peers)

KeepersSink(peers) ==
  LET keys == SortPublicKeys(peers)
  IN <<Len(keys)>> \o FlattenSeq([i \in DOMAIN keys |-> <<1, KeccakAddress(keys[i])>>])

(* ECCD keeps the keepers of the keys that changeBookKeeper names, as they *)
(* are listed.                                                             *)
CurEpochConPubKeyBytes(pubKeyList) ==
  <<Len(pubKeyList)>>
    \o FlattenSeq([i \in DOMAIN pubKeyList |-> <<1, KeccakAddress(pubKeyList[i])>>])

(* isEpoch, of a header that names peers. *)
IsEpoch(rawKeepers, peers) == rawKeepers # KeepersSink(peers)

DeserializeKeepers(raw) == [i \in 1..raw[1] |-> raw[2 * i + 1]]

-----------------------------------------------------------------------------
(* The signatures of a header.                                             *)

(* A signature: who has made it, whether it is over the hash in question,  *)
(* and whether its scheme has a form that palette understands.             *)
Signatures == [key : Keys, overHash : BOOLEAN, eth : BOOLEAN]

(* ontsig.ConvertToEthCompatible: SigLen bytes, or an error and none.      *)
ConvertToEthCompatible(sig) == IF sig.eth THEN [i \in 1..SigLen |-> sig] ELSE <<>>

OnlyIfAllConvert(sigData) ==
  IF \A i \in DOMAIN sigData : sigData[i].eth
  THEN FlattenSeq([i \in DOMAIN sigData |-> ConvertToEthCompatible(sigData[i])])
  ELSE <<>>

(* The error of a conversion is dropped, and the signature with it. *)
AssembleHeaderSigs(sigData) ==
  FlattenSeq([i \in DOMAIN sigData |-> ConvertToEthCompatible(sigData[i])])

NoSigs == <<>>

RawMultiSigsToList(raw) ==
  IF Len(raw) % SigLen # 0 THEN NoSigs
  ELSE [i \in 1..(Len(raw) \div SigLen) |-> SubSeq(raw, (i - 1) * SigLen + 1, i * SigLen)]

(* crypto.Ecrecover gives another key if the signature is over another     *)
(* hash; BytesToAddress takes the tail of the key.                         *)
NoKeeper == -1
Ecrecover(sig) == IF sig[1].overHash THEN sig[1].key ELSE NoKeeper

RecoverSignersFromMultiSigs(sigs) == [i \in DOMAIN sigs |-> Ecrecover(sigs[i])]

CountsSigners(signers, keepers, m) ==
  Cardinality({i \in DOMAIN signers : Contains(keepers, signers[i])}) >= m

ContainsMAddress(signers, keepers, m) ==
  Cardinality({i \in DOMAIN keepers : Contains(signers, keepers[i])}) >= m

VerifySig(raw, keepers, m) ==
  /\ RawMultiSigsToList(raw) # NoSigs
  /\ ContainsMAddress(RecoverSignersFromMultiSigs(RawMultiSigsToList(raw)), keepers, m)

=============================================================================
