---------------------------- MODULE Conversions -----------------------------
(***************************************************************************)
(* The conversions of Transfers and Keepers, each on all inputs of a small *)
(* range.  A behaviour is one use of one of them: input is what the code   *)
(* is given, and output what it makes of it.                               *)
(***************************************************************************)
EXTENDS Transfers, Keepers, FiniteSets

CONSTANTS
  Events,       \* events of palette's ECCM, each with its number
  Heights,      \* blocks they are in
  Targets,      \* configurations of the target contracts
  Contracts,
  Chains,
  MaxNodes,     \* bound: the nodes of an audit path
  MaxSigs,      \* bound: the signatures of a header
  Nothing

ASSUME ConversionsAssumption ==
  /\ Events \subseteq [index : Nat, txHash : Seq(Byte), rawdata : Seq(Byte), toChainId : Uint64]
  /\ Heights \subseteq Uint64
  /\ MaxNodes \in Nat
  /\ MaxSigs \in Nat

VARIABLES op, input, output

vars == <<op, input, output>>

Init == op = "none" /\ input = Nothing /\ output = Nothing

Use(name, in, out) ==
  /\ op' = name
  /\ input' = in
  /\ output' = out

(* fetchLockEvents writes the record, and handleDepositEvents reads it.    *)
Record(evt, height) ==
  LET transfer == CrossTransfer(evt, height)
  IN Use("record", [evt |-> evt, height |-> height],
         [transfer |-> transfer, read |-> Deserialization(Serialization(transfer))])

(* A deposit whose audit path has a number of nodes.                       *)
AuditPath(contract, chain, nodes) ==
  WriteVarBytes(<<contract, chain>>) \o [i \in 1..(nodes * (HashLen + 1)) |-> i % Base]

Deposit(targets, contract, chain, nodes) ==
  Use("deposit", [targets |-> targets, contract |-> contract, chain |-> chain, nodes |-> nodes],
      HandsOn(targets, AuditPath(contract, chain, nodes)))

(* One header names peers, and is sent to palette; another one is compared *)
(* with what palette knows then.                                           *)
PeerLists == {p \in SeqOf(Keys, Cardinality(Keys)) : p # <<>> /\ Cardinality(ToSet(p)) = Len(p)}

Epoch(known, peers) ==
  Use("epoch", [known |-> known, peers |-> peers],
      IsEpoch(CurEpochConPubKeyBytes(PubKeyList(known)), peers))

(* A header with signatures is checked for m of the keepers, which come in *)
(* the form that ECCD has them in.                                         *)
RawKeepers(keepers) ==
  <<Len(keepers)>> \o FlattenSeq([i \in DOMAIN keepers |-> <<1, keepers[i]>>])

Verify(sigData, keepers, m) ==
  Use("verify", [sigData |-> sigData, keepers |-> keepers, m |-> m],
      VerifySig(AssembleHeaderSigs(sigData), DeserializeKeepers(RawKeepers(keepers)), m))

Next ==
  /\ op = "none"
  /\ \/ \E evt \in Events, height \in Heights : Record(evt, height)
     \/ \E targets \in Targets, contract \in Contracts, chain \in Chains, nodes \in 0..MaxNodes :
          Deposit(targets, contract, chain, nodes)
     \/ \E known, peers \in PeerLists : Epoch(known, peers)
     \/ \E sigData \in SeqOf(Signatures, MaxSigs), keepers \in PeerLists, m \in 1..Cardinality(Keys) :
          Verify(sigData, keepers, m)

Spec == Init /\ [][Next]_vars

-----------------------------------------------------------------------------
(* Properties.                                                             *)

(* The record has the fields the Go struct has room for. *)
TypeOK ==
  /\ op \in {"none", "record", "deposit", "epoch", "verify"}
  /\ op = "record" =>
       /\ output.transfer.txIndex \in Seq(0..(Nibble - 1))
       /\ output.transfer.toChain \in Uint32
       /\ output.transfer.height \in Uint64
  /\ op \in {"deposit", "epoch", "verify"} => output \in BOOLEAN

(* What fetchLockEvents has put into bucket Retry is what                  *)
(* handleDepositEvents takes out of it, whatever the lengths of its fields *)
(* and up to the last height: a record never reads as another transfer.    *)
RecordsComeBack == op = "record" => output.read = output.transfer

(* What is proved to poly is the entry of the transfer: the key that       *)
(* getProof makes of the record is the slot of the event's index in the    *)
(* mapping of ECCD, for every index below 2^64.                            *)
KeyIsOfIndex ==
  op = "record" /\ input.evt.index \in Uint64
  => GetMappingKey(output.read.txIndex)
       = Reverse(LittleEndian(input.evt.index, HashLen)) \o Reverse(LittleEndian(1, HashLen))

(* The order of the keys of a bucket. *)
Before(s, t) ==
  \E n \in 0..Len(s) :
    /\ n < Len(t)
    /\ SubSeq(s, 1, n) = SubSeq(t, 1, n)
    /\ n = Len(s) \/ s[n + 1] < t[n + 1]

(* The records are in the order of the events, so that the first of a full *)
(* bucket, those that a scan gets to see, are the oldest (BoltDB numbers   *)
(* them so).                                                               *)
RecordsAreInOrder ==
  op = "record" /\ input.evt.index \in Uint64
  => \A evt \in Events, height \in Heights :
       evt.index < input.evt.index
       => Before(Serialization(CrossTransfer(evt, height)), Serialization(output.transfer))

(* A deposit is handed on if the configuration wants it, and its path has  *)
(* fewer nodes than a hash has bytes; a longer path reads as no value.     *)
DepositsAreHandedOn ==
  op = "deposit"
  => output = /\ CheckContract(input.targets, input.contract, "inbound", input.chain)
              /\ input.nodes < HashLen

(* Two headers with the same keepers are of one epoch, in whatever order   *)
(* they name them, and headers with other keepers never are.               *)
KeepersAreCompared ==
  op = "epoch" => (output <=> ToSet(input.known) # ToSet(input.peers))

(* The signatures of a header are enough if m of the keepers have made     *)
(* them, in whatever order they come: nobody is counted twice, and one     *)
(* that cannot be converted does not spoil the others.                     *)
EnoughSignaturesVerify ==
  op = "verify"
  => LET Signed(k) == \E i \in DOMAIN input.sigData :
                        input.sigData[i] = [key |-> k, overHash |-> TRUE, eth |-> TRUE]
     IN output <=> Cardinality({k \in ToSet(input.keepers) : Signed(k)}) >= input.m

=============================================================================
