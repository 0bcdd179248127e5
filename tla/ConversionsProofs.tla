-------------------------- MODULE ConversionsProofs -------------------------
(***************************************************************************)
(* Proofs about Conversions, for every number of bytes, every range of     *)
(* inputs, and audit paths and lists of every length.                      *)
(*                                                                         *)
(* A behaviour uses one conversion, so that Made, which says that output   *)
(* is what the code makes of input, is inductive; the work is in what each *)
(* conversion computes (TransfersProofs, KeepersProofs, and the lemmas     *)
(* here).                                                                  *)
(***************************************************************************)
EXTENDS Conversions, TransfersProofs, KeepersProofs

RecordMade ==
  op = "record"
  => \E evt \in Events, height \in Heights :
       LET transfer == CrossTransfer(evt, height)
       IN /\ input = [evt |-> evt, height |-> height]
          /\ output = [transfer |-> transfer, read |-> Deserialization(Serialization(transfer))]

DepositMade ==
  op = "deposit"
  => \E targets \in Targets, contract \in Contracts, chain \in Chains, nodes \in Nat :
       /\ input = [targets |-> targets, contract |-> contract, chain |-> chain, nodes |-> nodes]
       /\ output = HandsOn(targets, AuditPath(contract, chain, nodes))

EpochMade ==
  op = "epoch"
  => \E known, peers \in PeerLists :
       /\ input = [known |-> known, peers |-> peers]
       /\ output = IsEpoch(CurEpochConPubKeyBytes(PubKeyList(known)), peers)

VerifyMade ==
  op = "verify"
  => \E sigData \in SeqOf(Signatures, MaxSigs), keepers \in PeerLists,
        m \in 1..Cardinality(Keys) :
       /\ input = [sigData |-> sigData, keepers |-> keepers, m |-> m]
       /\ output = VerifySig(AssembleHeaderSigs(sigData),
                             DeserializeKeepers(RawKeepers(keepers)), m)

Made ==
  /\ op \in {"none", "record", "deposit", "epoch", "verify"}
  /\ RecordMade
  /\ DepositMade
  /\ EpochMade
  /\ VerifyMade

(* Made is inductive.                                                      *)
LEMMA MadeKept == Spec => []Made
<1> USE DEF Made, RecordMade, DepositMade, EpochMade, VerifyMade
<1>1. Init => Made
  BY DEF Init
<1>2. Made /\ [Next]_vars => Made'
  <2> SUFFICES ASSUME Made, [Next]_vars PROVE Made'
    OBVIOUS
  <2>1. CASE UNCHANGED vars
    BY <2>1 DEF vars
  <2>2. ASSUME NEW evt \in Events, NEW height \in Heights, Record(evt, height)
        PROVE  Made'
    BY <2>2 DEF Record, Use
  <2>3. ASSUME NEW targets \in Targets, NEW contract \in Contracts, NEW chain \in Chains,
               NEW nodes \in 0..MaxNodes, Deposit(targets, contract, chain, nodes)
        PROVE  Made'
    <3>1. nodes \in Nat
      BY ConversionsAssumption
    <3> QED
      BY <2>3, <3>1 DEF Deposit, Use
  <2>4. ASSUME NEW known \in PeerLists, NEW peers \in PeerLists, Epoch(known, peers)
        PROVE  Made'
    BY <2>4 DEF Epoch, Use
  <2>5. ASSUME NEW sigData \in SeqOf(Signatures, MaxSigs), NEW keepers \in PeerLists,
               NEW m \in 1..Cardinality(Keys), Verify(sigData, keepers, m)
        PROVE  Made'
    BY <2>5 DEF Verify, Use
  <2> QED
    BY <2>1, <2>2, <2>3, <2>4, <2>5 DEF Next
<1> QED
  BY <1>1, <1>2, PTL DEF Spec

-----------------------------------------------------------------------------
(* Deposits.                                                               *)

(* The value and the nodes of an audit path.                               *)
LEMMA AuditPathIs ==
  ASSUME NEW contract \in Contracts, NEW chain \in Chains, NEW nodes \in Nat
  PROVE  LET value == NextVarBytes(AuditPath(contract, chain, nodes))
         IN /\ ~ value.eof
            /\ value.data = <<contract, chain>>
            /\ Len(value.rest) = nodes * (HashLen + 1)
<1> DEFINE S == Nat \cup Contracts \cup Chains
           len == nodes * (HashLen + 1)
           rest == [i \in 1..len |-> i % Base]
<1>1. len \in Nat
  BY TransfersAssumption
<1>2. rest \in Seq(S) /\ Len(rest) = len
  <2>1. \A i \in 1..len : i % Base \in S
    BY <1>1, BaseType
  <2> HIDE DEF S, len
  <2> QED
    BY <1>1, <2>1
<1>3. <<contract, chain>> \in Seq(S) /\ Nat \subseteq S
  OBVIOUS
<1>4. AuditPath(contract, chain, nodes) = WriteVarBytes(<<contract, chain>>) \o rest
  BY DEF AuditPath
<1> HIDE DEF S, rest
<1>5. NextVarBytes(AuditPath(contract, chain, nodes))
        = [data |-> <<contract, chain>>, rest |-> rest, eof |-> FALSE]
  BY <1>2, <1>3, <1>4, VarBytesComeBack
<1> QED
  BY <1>2, <1>5

(* The nodes are counted right below as many as a hash has bytes, and from *)
(* then on more are looked for than there are.                             *)
LEMMA NodesCounted ==
  ASSUME NEW nodes \in Nat, NEW rest, Len(rest) = nodes * (HashLen + 1)
  PROVE  /\ NodesIn(rest) \in Nat
         /\ Len(rest) < NodesIn(rest) * (HashLen + 1) <=> nodes >= HashLen
<1> DEFINE size == (nodes * (HashLen + 1)) \div HashLen
<1>1. HashLen \in Nat /\ HashLen > 0
  BY TransfersAssumption
<1>2. nodes * (HashLen + 1) = HashLen * nodes + nodes /\ nodes * (HashLen + 1) \in Nat
  BY <1>1
<1>3. NodesIn(rest) = size /\ size \in Nat
  BY <1>1, <1>2, Division DEF NodesIn
<1>4. CASE nodes < HashLen
  <2>1. size = nodes
    BY <1>1, <1>2, <1>4, DivisionIs
  <2> QED
    BY <1>1, <1>2, <1>3, <1>4, <2>1
<1>5. CASE nodes >= HashLen
  <2>1. nodes * (HashLen + 1) = HashLen * size + ((nodes * (HashLen + 1)) % HashLen)
        /\ (nodes * (HashLen + 1)) % HashLen < HashLen
        /\ (nodes * (HashLen + 1)) % HashLen \in Nat
    BY <1>1, <1>2, Division
  <2>2. HashLen * (size + 1) > HashLen * (nodes + 1)
    BY <1>1, <1>2, <1>3, <1>5, <2>1
  <2>3. size > nodes
    <3> HIDE DEF size
    <3>1. size <= nodes => HashLen * (size + 1) <= HashLen * (nodes + 1)
      BY <1>1, <1>3
    <3> QED
      BY <1>1, <1>3, <2>2, <3>1
  <2>4. size * (HashLen + 1) > nodes * (HashLen + 1)
    <3> HIDE DEF size
    <3> QED
      BY <1>1, <1>3, <2>3
  <2> QED
    BY <1>1, <1>3, <1>5, <2>4
<1> QED
  BY <1>1, <1>4, <1>5

(* A deposit is handed on if its path is short enough and its target       *)
(* wanted.                                                                 *)
LEMMA DepositIs ==
  ASSUME NEW targets, NEW contract \in Contracts, NEW chain \in Chains, NEW nodes \in Nat
  PROVE  HandsOn(targets, AuditPath(contract, chain, nodes))
           <=> nodes < HashLen /\ CheckContract(targets, contract, "inbound", chain)
<1> DEFINE path == AuditPath(contract, chain, nodes)
           value == NextVarBytes(path)
<1>1. /\ ~ value.eof
      /\ value.data = <<contract, chain>>
      /\ Len(value.rest) = nodes * (HashLen + 1)
  BY AuditPathIs
<1> HIDE DEF value
<1>2. Len(value.rest) < NodesIn(value.rest) * (HashLen + 1) <=> nodes >= HashLen
  BY <1>1, NodesCounted
<1>3. HashLen \in Nat
  BY TransfersAssumption
<1>4. CASE nodes < HashLen
  <2>1. ~ (Len(value.rest) < NodesIn(value.rest) * (HashLen + 1))
    BY <1>2, <1>3, <1>4
  <2>2. ParseAuditPath(path).value = <<contract, chain>>
    BY <1>1, <2>1 DEF ParseAuditPath, value
  <2>3. /\ <<contract, chain>> # <<>>
        /\ MerkleValue(<<contract, chain>>).contract = contract
        /\ MerkleValue(<<contract, chain>>).fromChain = chain
    BY DEF MerkleValue
  <2> QED
    BY <1>4, <2>2, <2>3, Zenon DEF HandsOn
<1>5. CASE nodes >= HashLen
  <2>1. ParseAuditPath(path) = NoPath
    BY <1>2, <1>5, Zenon DEF ParseAuditPath, value
  <2>2. ParseAuditPath(path).value = <<>>
    BY <2>1 DEF NoPath
  <2>3. ~ (nodes < HashLen)
    BY <1>3, <1>5
  <2> QED
    BY <2>2, <2>3, Zenon DEF HandsOn
<1> QED
  BY <1>3, <1>4, <1>5

(* For every configuration, contract, chain and length of an audit path, a *)
(* deposit goes on to a sender if the configuration wants it and its path  *)
(* has fewer nodes than a hash has bytes.                                  *)
THEOREM DepositsHandedOn == Spec => []DepositsAreHandedOn
<1>1. Made => DepositsAreHandedOn
  <2> SUFFICES ASSUME Made, op = "deposit"
               PROVE  output = /\ CheckContract(input.targets, input.contract, "inbound",
                                                input.chain)
                               /\ input.nodes < HashLen
    BY DEF DepositsAreHandedOn
  <2>1. PICK targets \in Targets, contract \in Contracts, chain \in Chains, nodes \in Nat :
          /\ input = [targets |-> targets, contract |-> contract, chain |-> chain,
                      nodes |-> nodes]
          /\ output = HandsOn(targets, AuditPath(contract, chain, nodes))
    BY DEF Made, DepositMade
  <2>2. /\ input.targets = targets /\ input.contract = contract
        /\ input.chain = chain /\ input.nodes = nodes
    BY <2>1
  <2>3. output <=> nodes < HashLen /\ CheckContract(targets, contract, "inbound", chain)
    BY <2>1, DepositIs, Zenon
  <2>4. output \in BOOLEAN
    BY <2>1, Zenon DEF HandsOn
  <2> QED
    BY <2>2, <2>3, <2>4, Zenon
<1> QED
  BY <1>1, MadeKept, PTL

-----------------------------------------------------------------------------
(* Records.                                                                *)

(* The fields of a transfer have the types of the Go struct.               *)
LEMMA TransferType ==
  ASSUME NEW evt \in Events, NEW height \in Heights
  PROVE  LET t == CrossTransfer(evt, height)
         IN /\ evt.index \in Nat
            /\ t = [txIndex |-> EncodeBigInt(evt.index), txId |-> evt.txHash,
                    value |-> evt.rawdata, toChain |-> ToChain(evt.toChainId),
                    height |-> height]
            /\ t.txIndex \in Seq(Digit)
            /\ t.txId \in Seq(Byte)
            /\ t.value \in Seq(Byte)
            /\ t.toChain \in Uint32
            /\ t.height \in Uint64
<1>1. /\ evt.index \in Nat /\ evt.txHash \in Seq(Byte) /\ evt.rawdata \in Seq(Byte)
      /\ evt.toChainId \in Uint64 /\ height \in Uint64
  BY ConversionsAssumption
<1>2. ToChain(evt.toChainId) \in Uint32
  <2>1. evt.toChainId \in Nat
    BY <1>1, PowerIs, TransfersAssumption DEF Uint64
  <2> QED
    BY <2>1, Division, PowerPositive, TransfersAssumption DEF ToChain, Uint32
<1>3. EncodeBigInt(evt.index) \in Seq(Digit)
  BY <1>1, EncodeBigIntType
<1> QED
  BY <1>1, <1>2, <1>3 DEF CrossTransfer

(* A transfer is what its record reads as.                                 *)
LEMMA TransferComesBack ==
  ASSUME NEW evt \in Events, NEW height \in Heights
  PROVE  LET t == CrossTransfer(evt, height) IN Deserialization(Serialization(t)) = t
<1> DEFINE t == CrossTransfer(evt, height)
<1>1. Byte \subseteq Nat /\ Digit \subseteq Nat
  BY BaseType DEF Byte, Digit
<1>2. /\ t.txIndex \in Seq(Digit) /\ t.txId \in Seq(Byte) /\ t.value \in Seq(Byte)
      /\ t.toChain \in Uint32 /\ t.height \in Uint64
  BY TransferType
<1>3. t = [txIndex |-> t.txIndex, txId |-> t.txId, value |-> t.value,
           toChain |-> t.toChain, height |-> t.height]
  BY TransferType
<1> HIDE DEF t
<1>4. t.txIndex \in Seq(Nat) /\ t.txId \in Seq(Nat) /\ t.value \in Seq(Nat)
  BY <1>1, <1>2, Widen
<1>5. Deserialization(Serialization(t))
        = [txIndex |-> t.txIndex, txId |-> t.txId, value |-> t.value,
           toChain |-> t.toChain, height |-> t.height]
  BY <1>2, <1>4, RecordComesBack
<1> QED
  BY <1>3, <1>5 DEF t

(* What a use of the record does.                                          *)
LEMMA RecordIs ==
  ASSUME Made, op = "record"
  PROVE  \E evt \in Events, height \in Heights :
           /\ input.evt = evt
           /\ output.transfer = CrossTransfer(evt, height)
           /\ output.read = CrossTransfer(evt, height)
<1>1. PICK evt \in Events, height \in Heights :
        LET transfer == CrossTransfer(evt, height)
        IN /\ input = [evt |-> evt, height |-> height]
           /\ output = [transfer |-> transfer, read |-> Deserialization(Serialization(transfer))]
  BY DEF Made, RecordMade
<1>2. Deserialization(Serialization(CrossTransfer(evt, height))) = CrossTransfer(evt, height)
  BY TransferComesBack
<1> QED
  BY <1>1, <1>2

(* The record of every event fits its Go struct, and the checks of the     *)
(* other conversions have an answer.                                       *)
THEOREM TypeCorrect == Spec => []TypeOK
<1>1. Made => TypeOK
  <2> SUFFICES ASSUME Made PROVE TypeOK
    OBVIOUS
  <2>1. op = "record" => /\ output.transfer.txIndex \in Seq(0..(Nibble - 1))
                         /\ output.transfer.toChain \in Uint32
                         /\ output.transfer.height \in Uint64
    BY RecordIs, TransferType DEF Digit
  <2>2. op = "deposit" => output \in BOOLEAN
    BY Zenon DEF Made, DepositMade, HandsOn
  <2>3. op = "epoch" => output \in BOOLEAN
    BY Zenon DEF Made, EpochMade, IsEpoch
  <2>4. op = "verify" => output \in BOOLEAN
    BY Zenon DEF Made, VerifyMade, VerifySig
  <2> QED
    BY <2>1, <2>2, <2>3, <2>4 DEF Made, TypeOK
<1> QED
  BY <1>1, MadeKept, PTL

(* What fetchLockEvents stores is what handleDepositEvents reads, for all  *)
(* hashes, payloads, chains and heights.                                   *)
THEOREM RecordsReadBack == Spec => []RecordsComeBack
<1>1. Made => RecordsComeBack
  BY RecordIs DEF RecordsComeBack
<1> QED
  BY <1>1, MadeKept, PTL

(* The key that is proved to poly is the slot of the event's index, for    *)
(* every index in 64 bits.                                                 *)
THEOREM KeysAreOfIndexes == Spec => []KeyIsOfIndex
<1>1. Made => KeyIsOfIndex
  <2> SUFFICES ASSUME Made, op = "record", input.evt.index \in Uint64
               PROVE  GetMappingKey(output.read.txIndex)
                        = Reverse(LittleEndian(input.evt.index, HashLen))
                            \o Reverse(LittleEndian(1, HashLen))
    BY DEF KeyIsOfIndex
  <2>1. PICK evt \in Events, height \in Heights :
          input.evt = evt /\ output.read = CrossTransfer(evt, height)
    BY RecordIs
  <2>2. output.read.txIndex = EncodeBigInt(evt.index)
    BY <2>1, TransferType
  <2> QED
    BY <2>1, <2>2, KeyIs
<1> QED
  BY <1>1, MadeKept, PTL

(* A record begins with the length of its index and with the index.        *)
BeginsWith(s, h) ==
  /\ s \in Seq(Nat)
  /\ Len(s) > Len(h)
  /\ s[1] = Len(h)
  /\ \A i \in 1..Len(h) : s[i + 1] = h[i]

(* What is written later leaves the beginning as it is.                    *)
LEMMA StaysBeginning ==
  ASSUME NEW s, NEW h \in Seq(Nat), BeginsWith(s, h), NEW x \in Seq(Nat)
  PROVE  BeginsWith(s \o x, h)
<1>1. s \in Seq(Nat) /\ Len(s) > Len(h)
  BY DEF BeginsWith
<1> DEFINE all == s \o x
<1>2. all \in Seq(Nat) /\ Len(all) > Len(h)
  BY <1>1
<1>3. \A i \in 1..(Len(h) + 1) : all[i] = s[i]
  BY <1>1
<1> HIDE DEF all
<1>4. all[1] = s[1]
  BY <1>3
<1>5. \A i \in 1..Len(h) : all[i + 1] = s[i + 1]
  BY <1>3
<1>6. BeginsWith(all, h)
  BY <1>2, <1>4, <1>5 DEF BeginsWith
<1> QED
  BY <1>6 DEF all

(* A record begins with the text of its index.                             *)
LEMMA RecordBegins ==
  ASSUME NEW evt \in Events, NEW height \in Heights
  PROVE  BeginsWith(Serialization(CrossTransfer(evt, height)), EncodeBigInt(evt.index))
<1> DEFINE t == CrossTransfer(evt, height)
           h == EncodeBigInt(evt.index)
           toChain == LittleEndian(t.toChain, Uint32Len)
           bytes == LittleEndian(t.height, Uint64Len)
<1>1. Byte \subseteq Nat /\ Digit \subseteq Nat
  BY BaseType DEF Byte, Digit
<1>2. /\ t.txIndex = h /\ h \in Seq(Digit) /\ t.txId \in Seq(Byte) /\ t.value \in Seq(Byte)
      /\ t.toChain \in Uint32 /\ t.height \in Uint64
  BY TransferType
<1>3. t.toChain \in Nat /\ t.height \in Nat
  BY <1>2, PowerIs, TransfersAssumption DEF Uint32, Uint64
<1>4. toChain \in Seq(Byte) /\ bytes \in Seq(Byte)
  BY <1>3, LittleEndianType, TransfersAssumption
<1>5. Serialization(t)
        = WriteVarBytes(h) \o WriteVarBytes(t.txId) \o WriteVarBytes(t.value) \o toChain \o bytes
  BY <1>2 DEF Serialization
<1> HIDE DEF t, h, toChain, bytes
<1>6. /\ h \in Seq(Nat) /\ t.txId \in Seq(Nat) /\ t.value \in Seq(Nat)
      /\ toChain \in Seq(Nat) /\ bytes \in Seq(Nat)
  BY <1>1, <1>2, <1>4, Widen
<1>7. WriteVarBytes(t.txId) \in Seq(Nat) /\ WriteVarBytes(t.value) \in Seq(Nat)
  BY <1>6 DEF WriteVarBytes
<1>8. BeginsWith(WriteVarBytes(h), h)
  BY <1>6 DEF BeginsWith, WriteVarBytes
<1> DEFINE a == WriteVarBytes(h)
           b == a \o WriteVarBytes(t.txId)
           c == b \o WriteVarBytes(t.value)
           d == c \o toChain
<1>9. BeginsWith(b, h)
  <2> HIDE DEF a
  <2> QED
    BY <1>6, <1>7, <1>8, StaysBeginning DEF a
<1>10. BeginsWith(c, h)
  <2> HIDE DEF b
  <2> QED
    BY <1>6, <1>7, <1>9, StaysBeginning
<1>11. BeginsWith(d, h)
  <2> HIDE DEF c
  <2> QED
    BY <1>6, <1>10, StaysBeginning
<1>12. BeginsWith(d \o bytes, h)
  <2> HIDE DEF d
  <2> QED
    BY <1>6, <1>11, StaysBeginning
<1> QED
  BY <1>5, <1>12 DEF t, h

(* Records are ordered by how their texts are.                             *)
LEMMA OrderOfRecords ==
  ASSUME NEW s, NEW t, NEW h \in Seq(Nat), NEW g \in Seq(Nat), BeginsWith(s, h), BeginsWith(t, g),
         Len(h) < Len(g) \/ (Len(h) = Len(g) /\ \E k : DifferAt(h, g, k))
  PROVE  Before(s, t)
<1>1. /\ s \in Seq(Nat) /\ Len(s) > Len(h) /\ s[1] = Len(h)
      /\ \A i \in 1..Len(h) : s[i + 1] = h[i]
      /\ t \in Seq(Nat) /\ Len(t) > Len(g) /\ t[1] = Len(g)
      /\ \A i \in 1..Len(g) : t[i + 1] = g[i]
  BY DEF BeginsWith
<1>2. CASE Len(h) < Len(g)
  <2>1. 0 \in 0..Len(s) /\ 0 < Len(t) /\ s[0 + 1] < t[0 + 1]
    BY <1>1, <1>2
  <2>2. SubSeq(s, 1, 0) = SubSeq(t, 1, 0)
    BY <1>1
  <2> QED
    BY <2>1, <2>2 DEF Before
<1>3. CASE Len(h) = Len(g) /\ \E k : DifferAt(h, g, k)
  <2>1. PICK k : DifferAt(h, g, k)
    BY <1>3
  <2>2. k \in 1..Len(h) /\ h[k] < g[k] /\ \A i \in 1..(k - 1) : h[i] = g[i]
    BY <2>1 DEF DifferAt
  <2>3. k \in 0..Len(s) /\ k < Len(t) /\ s[k + 1] < t[k + 1]
    <3>1. s[k + 1] = h[k] /\ t[k + 1] = g[k]
      BY <1>1, <1>3, <2>2
    <3>2. k \in 0..Len(s) /\ k < Len(t)
      <4>1. /\ Len(h) \in Nat /\ Len(s) \in Nat /\ Len(t) \in Nat
            /\ Len(s) > Len(h) /\ Len(t) > Len(h)
        BY <1>1, <1>3
      <4>2. k \in 1..Len(h)
        BY <2>2
      <4> QED
        BY ONLY <4>1, <4>2
    <3> QED
      BY <2>2, <3>1, <3>2, Zenon
  <2>4. ASSUME NEW i \in 1..k PROVE s[i] = t[i]
    <3>1. CASE i = 1
      BY <1>1, <1>3, <3>1
    <3>2. CASE i # 1
      <4>1. i - 1 \in 1..(k - 1) /\ i - 1 \in 1..Len(h) /\ (i - 1) + 1 = i
        BY <2>2, <3>2
      <4>2. s[(i - 1) + 1] = h[i - 1] /\ t[(i - 1) + 1] = g[i - 1] /\ h[i - 1] = g[i - 1]
        BY <1>1, <1>3, <2>2, <4>1
      <4> QED
        BY <4>1, <4>2
    <3> QED
      BY <3>1, <3>2
  <2>5. SubSeq(s, 1, k) = [i \in 1..k |-> s[i]] /\ SubSeq(t, 1, k) = [i \in 1..k |-> t[i]]
    BY <1>1, <1>3, <2>2
  <2>6. SubSeq(s, 1, k) = SubSeq(t, 1, k)
    BY <2>4, <2>5
  <2> QED
    BY <2>3, <2>6 DEF Before
<1> QED
  BY <1>2, <1>3

(* Bucket Retry has the records in the order of the events, for all        *)
(* indexes in 64 bits.                                                     *)
THEOREM RecordsOrdered == Spec => []RecordsAreInOrder
<1>1. Made => RecordsAreInOrder
  <2> SUFFICES ASSUME Made, op = "record", input.evt.index \in Uint64,
                      NEW e \in Events, NEW height \in Heights, e.index < input.evt.index
               PROVE  Before(Serialization(CrossTransfer(e, height)), Serialization(output.transfer))
    BY DEF RecordsAreInOrder
  <2>1. PICK evt \in Events, h \in Heights :
          input.evt = evt /\ output.transfer = CrossTransfer(evt, h)
    BY RecordIs
  <2>2. e.index \in Uint64 /\ evt.index \in Uint64 /\ e.index < evt.index
    <3>1. e.index \in Nat /\ evt.index \in Uint64
      BY <2>1, ConversionsAssumption
    <3>2. Power[Uint64Len] \in Nat
      BY PowerIs, TransfersAssumption
    <3> QED
      BY <2>1, <3>1, <3>2 DEF Uint64
  <2> DEFINE s == EncodeBigInt(e.index)
             t == EncodeBigInt(evt.index)
  <2>3. Len(s) < Len(t) \/ (Len(s) = Len(t) /\ \E k : DifferAt(s, t, k))
    BY <2>2, TextsAreInOrder
  <2>4. /\ BeginsWith(Serialization(CrossTransfer(e, height)), s)
        /\ BeginsWith(Serialization(CrossTransfer(evt, h)), t)
    BY RecordBegins
  <2>5. s \in Seq(Nat) /\ t \in Seq(Nat)
    <3>1. s \in Seq(Digit) /\ t \in Seq(Digit)
      BY TransferType
    <3>2. Digit \subseteq Nat
      BY BaseType DEF Digit
    <3> HIDE DEF s, t
    <3> QED
      BY <3>1, <3>2, Widen
  <2> HIDE DEF s, t
  <2>6. Before(Serialization(CrossTransfer(e, height)), Serialization(CrossTransfer(evt, h)))
    BY <2>3, <2>4, <2>5, OrderOfRecords
  <2> QED
    BY <2>1, <2>6
<1> QED
  BY <1>1, MadeKept, PTL

-----------------------------------------------------------------------------
(* Keepers and signatures.                                                 *)

(* A list of peers names at least one key, and none twice.                 *)
LEMMA PeerListIs ==
  ASSUME NEW p \in PeerLists
  PROVE  /\ p \in Seq(Nat) /\ Len(p) > 0
         /\ NoTwice(p)
         /\ ToSet(p) \subseteq Keys
<1>1. PICK n \in 0..Cardinality(Keys) : p \in [1..n -> Keys]
  BY DEF PeerLists, SeqOf
<1>2. p # <<>> /\ Cardinality(ToSet(p)) = Len(p)
  BY DEF PeerLists
<1>3. n \in Nat
  BY <1>1
<1>4. p \in Seq(Keys)
  BY <1>1, <1>3
<1>5. Keys \subseteq Nat
  BY KeepersAssumption
<1>6. p \in Seq(Nat)
  BY <1>4, <1>5, Widen
<1>7. NoTwice(p)
  BY <1>2, <1>4, CountedOnce
<1>8. Len(p) > 0
  BY <1>2, <1>6
<1>9. ToSet(p) \subseteq Keys
  BY <1>1 DEF ToSet
<1> QED
  BY <1>6, <1>7, <1>8, <1>9

(* Headers are of one epoch if they have the same keepers, in whatever     *)
(* order each names them, for lists of every length.                       *)
THEOREM KeepersCompared == Spec => []KeepersAreCompared
<1>1. Made => KeepersAreCompared
  <2> SUFFICES ASSUME Made, op = "epoch"
               PROVE  output <=> ToSet(input.known) # ToSet(input.peers)
    BY DEF KeepersAreCompared
  <2>1. PICK known \in PeerLists, peers \in PeerLists :
          /\ input = [known |-> known, peers |-> peers]
          /\ output = IsEpoch(CurEpochConPubKeyBytes(PubKeyList(known)), peers)
    BY Zenon DEF Made, EpochMade
  <2>2. /\ known \in Seq(Nat) /\ Len(known) > 0 /\ NoTwice(known) /\ ToSet(known) \subseteq Keys
        /\ peers \in Seq(Nat) /\ Len(peers) > 0 /\ NoTwice(peers) /\ ToSet(peers) \subseteq Keys
    BY PeerListIs
  <2>3. IsEpoch(CurEpochConPubKeyBytes(PubKeyList(known)), peers)
          <=> ToSet(known) # ToSet(peers)
    BY <2>2, EpochsDiffer
  <2>4. input.known = known /\ input.peers = peers
    BY <2>1
  <2> QED
    BY <2>1, <2>3, <2>4, Zenon
<1> QED
  BY <1>1, MadeKept, PTL

(* The keepers are read as they were written.                              *)
LEMMA KeepersRead ==
  ASSUME NEW p \in PeerLists
  PROVE  DeserializeKeepers(RawKeepers(p)) = p
<1> DEFINE S == Nat
<1>1. Nat \subseteq S /\ p \in Seq(S) /\ Len(p) > 0
  BY PeerListIs
<1> HIDE DEF S
<1>2. DeserializeKeepers(Raw(p)) = p
  BY <1>1, KeepersComeBack
<1>3. RawKeepers(p) = Raw(p)
  BY Zenon DEF RawKeepers, Raw, Pairs
<1> QED
  BY <1>2, <1>3

(* A header verifies if and only if m of the keepers have signed it, each  *)
(* counted once, for every number of signatures and of keepers.            *)
THEOREM SignaturesSuffice == Spec => []EnoughSignaturesVerify
<1>1. Made => EnoughSignaturesVerify
  <2> SUFFICES ASSUME Made, op = "verify"
               PROVE  output <=> Cardinality({k \in ToSet(input.keepers) :
                                                HasSigned(input.sigData, k)}) >= input.m
    BY Zenon DEF EnoughSignaturesVerify, HasSigned
  <2>1. PICK sigData \in SeqOf(Signatures, MaxSigs), keepers \in PeerLists,
             m \in 1..Cardinality(Keys) :
          /\ input = [sigData |-> sigData, keepers |-> keepers, m |-> m]
          /\ output = VerifySig(AssembleHeaderSigs(sigData),
                                DeserializeKeepers(RawKeepers(keepers)), m)
    BY Zenon DEF Made, VerifyMade
  <2>2. sigData \in Seq(Signatures)
    <3>1. PICK n \in 0..MaxSigs : sigData \in [1..n -> Signatures]
      BY DEF SeqOf
    <3>2. n \in Nat
      BY <3>1
    <3> QED
      BY <3>1, <3>2
  <2>3. /\ keepers \in Seq(Nat) /\ NoTwice(keepers) /\ ToSet(keepers) \subseteq Keys
        /\ m \in Nat /\ m > 0
    <3>1. Cardinality(Keys) \in Nat
      BY KeepersAssumption, FS_CardinalityType
    <3> QED
      BY <3>1, PeerListIs
  <2>4. VerifySig(AssembleHeaderSigs(sigData), keepers, m)
          <=> Cardinality({k \in ToSet(keepers) : HasSigned(sigData, k)}) >= m
    BY <2>2, <2>3, SignaturesVerify
  <2>5. DeserializeKeepers(RawKeepers(keepers)) = keepers
    BY KeepersRead
  <2>6. input.sigData = sigData /\ input.keepers = keepers /\ input.m = m
    BY <2>1
  <2> QED
    BY <2>1, <2>4, <2>5, <2>6, Zenon
<1> QED
  BY <1>1, MadeKept, PTL

=============================================================================
