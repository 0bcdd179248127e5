------------------------- MODULE PolyManagerProofs --------------------------
(***************************************************************************)
(* Proofs about PolyManager, for every value of its constants:             *)
(*                                                                         *)
(*   TypeCorrect        []TypeOK                                           *)
(*   EpochsAreRelayed   []EpochsOnPalette                                  *)
(*   DepositsAreKept    []OnlyEpochsLoseDeposits                           *)
(*                                                                         *)
(* each under the conditions on the start and on the chain that are named  *)
(* below, and whatever else goes wrong.                                    *)
(***************************************************************************)
EXTENDS PolyManager, TLAPS

(* The conditions.  Palette's epoch can be read at the start: height 0,    *)
(* which stands for an error, has no predecessor that can be saved.  No    *)
(* height is forced above the header palette was initialised with.  No     *)
(* header that names new keepers proves a deposit.                         *)
ReadsEpoch == 0 < InitEpoch /\ "initRead" \notin Faults

StartsInEpoch == \A h \in StartHeights : h <= InitEpoch

NoEpochProvesADeposit ==
  \A d \in Deposits : DepositHeight[d] < MaxHeight => ~ IsEpochHeader(DepositHeight[d] + 1)

-----------------------------------------------------------------------------
(* Types.  What MonitorChain and a route have in hand is set exactly where *)
(* it is read, and the headers a block needs have been made.               *)

InBlock == pcM \in {"events", "put"}

Registers ==
  /\ pcM # "down" => 0 < currentHeight
  /\ dbHeight < MaxHeight
  /\ pcM \in {"events", "put", "header", "wait"} => ValidStateHeight <= polyHeight
  /\ InBlock => SigHeight <= polyHeight /\ todo \subseteq EventsOf(currentHeight)
  /\ pcM = "put" => put # NoTx /\ target \in Routes
  /\ pcM # "put" => put = NoTx
  /\ pcM = "wait" <=> sent[Monitor] # NoTxId
  /\ \A r \in Routes : sending[r] = NoTx => sent[r] = NoTxId

TypeInv == TypeOK /\ Registers

-----------------------------------------------------------------------------
(* The keepers.                                                            *)

(* What is accepted moves palette to a header that names keepers.          *)
HeadersInPool ==
  \A i \in TxIds :
    pool[i] # NoTx /\ pool[i].deposit = NoDeposit => IsEpochHeader(pool[i].sigs)

(* Palette does not need the header h: it has passed it, or the header     *)
(* names the keepers palette knows.                                        *)
NotNeeded(h) ==
  IsEpochHeader(h) /\ paletteEpoch < h => NewKeepers[h] = NewKeepers[paletteEpoch]

(* MonitorChain knows of the block it is at whether its header is needed,  *)
(* and waits for one only while palette can still take it.                 *)
HeaderInHand ==
  /\ InBlock =>
       /\ IF isEpoch THEN IsEpochHeader(ValidStateHeight) ELSE NotNeeded(ValidStateHeight)
       /\ cnt => ~ IsEpochHeader(ValidStateHeight)
  /\ pcM = "header" => IsEpochHeader(ValidStateHeight)
  /\ pcM = "wait" =>
       \/ ValidStateHeight <= paletteEpoch
       \/ pool[sent[Monitor]] = HeaderTx /\ Verifies(ValidStateHeight)

EpochInv ==
  /\ EpochsOnPalette
  /\ IsEpochHeader(paletteEpoch)
  /\ lastEpoch <= paletteEpoch
  /\ HeadersInPool
  /\ HeaderInHand

-----------------------------------------------------------------------------
(* The deposits.                                                           *)

(* The call for d that is proved under the next header. *)
OwnTx(d) == [deposit |-> d, sigs |-> DepositHeight[d] + 1]

InChannel(tx) == \E r \in Routes : \E k \in DOMAIN queue[r] : queue[r][k] = tx
InHand(tx) == put = tx \/ \E r \in Routes : sending[r] = tx /\ sent[r] = NoTxId
AtNode(tx) == \E i \in TxIds : pool[i] = tx

(* The call is on its way, or there is no need of it. *)
Kept(d) ==
  \/ InChannel(OwnTx(d)) \/ InHand(OwnTx(d)) \/ AtNode(OwnTx(d))
  \/ d \in executed
  \/ d \in dropped

(* The relayer will not come to the block of d any more. *)
Passed(d) ==
  \/ DepositHeight[d] < currentHeight
  \/ DepositHeight[d] <= dbHeight
  \/ InBlock /\ DepositHeight[d] = currentHeight /\ d \notin todo

DepositInv ==
  \A d \in Deposits :
    InitEpoch <= DepositHeight[d] /\ Passed(d) /\ Verifies(DepositHeight[d] + 1) => Kept(d)

-----------------------------------------------------------------------------
(* Lemmas.                                                                 *)

LEMMA TypeInvInit == ReadsEpoch /\ Init => TypeInv
<1> SUFFICES ASSUME ReadsEpoch, Init PROVE TypeInv
  OBVIOUS
<1>1. /\ polyHeight \in Heights /\ paletteEpoch \in InitEpoch..MaxHeight
      /\ dbHeight \in Heights /\ currentHeight \in Heights /\ workEnd \in 0..(Word - 1)
      /\ lastEpoch \in Heights /\ crashes \in 0..MaxCrashes
  BY ConstantsAssumption DEF Init, Heights
<1>2. queue \in [Routes -> Seq(Jobs)] /\ \A r \in Routes : Len(queue[r]) <= ChanLen
  BY ConstantsAssumption DEF Init
<1>3. isEpoch \in BOOLEAN /\ cnt \in BOOLEAN
  BY Zenon DEF Init
<1>4. TypeOK
  BY <1>1, <1>2, <1>3, ConstantsAssumption DEF Init, TypeOK, Threads
<1>5. Registers
  BY ConstantsAssumption DEF Init, Registers, InBlock, Threads, Heights, ReadsEpoch
<1> QED
  BY <1>4, <1>5 DEF TypeInv

(* The headers of a block depend on these variables only.                  *)
LEMMA SameBlock ==
  ASSUME UNCHANGED <<currentHeight, lastEpoch, isEpoch>>
  PROVE  UNCHANGED <<ValidStateHeight, SigHeight, EventsOf(currentHeight)>>
BY DEF ValidStateHeight, SigHeight, NeedsAnchor, IsCurr, AnchorHeight, EventsOf

(* What a step of the process leaves of a block that it is done with.      *)
LEMMA NoBlockTypes ==
  ASSUME NoBlock
  PROVE  /\ lastEpoch' \in Heights /\ isEpoch' \in BOOLEAN /\ todo' \subseteq Deposits
         /\ cnt' \in BOOLEAN /\ put' = NoTx /\ target' \in Threads
<1>1. lastEpoch' \in Heights /\ target' \in Threads
  BY ConstantsAssumption DEF NoBlock, Heights, Threads
<1>2. isEpoch' \in BOOLEAN /\ cnt' \in BOOLEAN /\ put' = NoTx /\ todo' \subseteq Deposits
  BY Zenon DEF NoBlock
<1> QED
  BY <1>1, <1>2

(* The process dies.                                                       *)
LEMMA DownTypes ==
  ASSUME TypeInv, Down
  PROVE  TypeInv'
<1> USE DEF Down, TypeInv, TypeOK, paletteVars
<1>1. dropped' \subseteq Deposits
  <2>1. \A tx \in InMemory : tx \in Jobs
    BY DEF InMemory, RangeOf
  <2> QED
    BY <2>1 DEF Jobs
<1>2. TypeOK'
  BY <1>1, NoBlockTypes, ConstantsAssumption
<1>3. Registers'
  BY NoBlockTypes, ConstantsAssumption DEF Registers, InBlock, Threads
<1> QED
  BY <1>2, <1>3

LEMMA TypeInvStep ==
  ASSUME ReadsEpoch, TypeInv, [Next]_vars
  PROVE  TypeInv'
<1> USE ConstantsAssumption
    DEF TypeInv, TypeOK, Registers, InBlock, paletteVars, blockVars, monVars, routeVars,
        histVars, Threads
<1>1. CASE NewBlock
  <2>1. ValidStateHeight \in Nat /\ SigHeight \in Nat
    BY DEF ValidStateHeight, SigHeight, NeedsAnchor, IsCurr, AnchorHeight, Heights
  <2>2. polyHeight' \in Heights /\ polyHeight \in Nat /\ polyHeight' = polyHeight + 1
    BY <1>1 DEF NewBlock, Heights
  <2>3. TypeOK'
    BY <1>1, <2>2 DEF NewBlock
  <2>4. Registers'
    BY <1>1, <2>1, <2>2, SameBlock DEF NewBlock
  <2> QED
    BY <2>3, <2>4
<1>2. ASSUME NEW i \in TxIds, ExecuteTx(i) PROVE TypeInv'
  <2>1. pool[i] \in Txs
    BY <1>2 DEF ExecuteTx
  <2>2. pool[i].sigs \in Heights /\ (pool[i].deposit # NoDeposit => pool[i].deposit \in Deposits)
    BY <2>1 DEF Txs
  <2>3. \/ paletteEpoch' = paletteEpoch
        \/ paletteEpoch < pool[i].sigs /\ paletteEpoch' = pool[i].sigs
    BY <1>2 DEF ExecuteTx, Accepts, Verifies
  <2>4. paletteEpoch' \in InitEpoch..MaxHeight
    BY <2>2, <2>3 DEF Heights
  <2>5. executed' \subseteq Deposits
    BY <1>2, <2>2 DEF ExecuteTx
  <2>6. pool' \in [TxIds -> Txs \cup {NoTx}]
    BY <1>2 DEF ExecuteTx
  <2> QED
    BY <1>2, <2>4, <2>5, <2>6, SameBlock DEF ExecuteTx
<1>3. CASE OtherRelayer
  <2>1. paletteEpoch' \in InitEpoch..MaxHeight /\ executed' \subseteq Deposits
    BY <1>3 DEF OtherRelayer, Heights, Verifies
  <2> QED
    BY <1>3, <2>1, SameBlock DEF OtherRelayer
<1>4. CASE Crash
  BY <1>4, DownTypes DEF Crash
<1>5. CASE ReadBlockPanics
  BY <1>5, DownTypes DEF ReadBlockPanics
<1>6. ASSUME NEW start \in StartHeights, StartManager(start) PROVE TypeInv'
  <2>1. currentHeight' \in Heights /\ 0 < currentHeight'
    BY <1>6 DEF StartManager, FindLastEpochHeight, ReadsEpoch, Heights
  <2> QED
    BY <1>6, <2>1 DEF StartManager
<1>7. CASE Tick
  <2>1. workEnd' \in 0..(Word - 1)
    BY <1>7 DEF Tick, WorkHeightEnd, Sub32, ONT_USEFUL_BLOCK_NUM, Heights
  <2> QED
    BY <1>7, <2>1 DEF Tick
<1>8. CASE BeginBlock
  <2>1. lastEpoch' \in Heights
    BY <1>8 DEF BeginBlock, FindLastEpochHeight, Heights
  <2> QED
    BY <1>8, <2>1 DEF BeginBlock
<1>9. CASE ReadBlock
  <2>1. SigHeight' <= polyHeight
    BY <1>9 DEF ReadBlock, SigHeight, NeedsAnchor, IsCurr, ValidStateHeight, AnchorHeight
  <2>2. isEpoch' \in BOOLEAN
    BY <1>9 DEF ReadBlock, NamesNewKeepers, IsEpochHeader
  <2> QED
    BY <1>9, <2>1, <2>2 DEF ReadBlock, ValidStateHeight, EventsOf
<1>10. CASE ReadBlockFails
  BY <1>10, NoBlockTypes DEF ReadBlockFails
<1>11. ASSUME NEW d \in Deposits, AlreadyRelayed(d) PROVE TypeInv'
  BY <1>11, SameBlock DEF AlreadyRelayed, NextEvent
<1>12. ASSUME NEW d \in Deposits, NEW r \in Routes, Dispatch(d, r) PROVE TypeInv'
  <2>1. SigHeight \in Heights
    BY <1>12 DEF Dispatch, NextEvent, SigHeight, NeedsAnchor, IsCurr, AnchorHeight,
                 ValidStateHeight, Heights
  <2>2. put' \in Jobs /\ put' # NoTx
    BY <1>12, <2>1 DEF Dispatch, DepositTx, Jobs, Txs
  <2> QED
    BY <1>12, <2>2, SameBlock DEF Dispatch, NextEvent
<1>13. ASSUME NEW d \in Deposits, ProofFails(d) PROVE TypeInv'
  BY <1>13, SameBlock DEF ProofFails, NextEvent
<1>14. CASE PutJob
  <2>1. queue' \in [Routes -> Seq(Jobs)] /\ \A r \in Routes : Len(queue'[r]) <= ChanLen
    BY <1>14 DEF PutJob, HasRoom
  <2> QED
    BY <1>14, <2>1, SameBlock DEF PutJob, AfterPut
<1>15. CASE EndBlock
  BY <1>15, NoBlockTypes DEF EndBlock, NextBlock, ValidStateHeight, Heights
<1>16. CASE BeginHeader
  BY <1>16 DEF BeginHeader, ValidStateHeight
<1>17. CASE EndLoop
  BY <1>17 DEF EndLoop
<1>18. CASE SaveHeight
  <2>1. dbHeight' \in Heights /\ dbHeight' < MaxHeight
    BY <1>18 DEF SaveHeight, LastHandled, Sub32, Heights
  <2> QED
    BY <1>18, <2>1 DEF SaveHeight
<1>19. ASSUME NEW r \in Routes, TakeJob(r) PROVE TypeInv'
  <2>1. Head(queue[r]) \in Jobs /\ Tail(queue[r]) \in Seq(Jobs)
        /\ Len(Tail(queue[r])) <= ChanLen
    BY <1>19 DEF TakeJob, NextJob
  <2>2. /\ queue' \in [Routes -> Seq(Jobs)] /\ \A s \in Routes : Len(queue'[s]) <= ChanLen
        /\ sending' \in [Routes -> Jobs \cup {NoTx}]
        /\ \A s \in Routes : sending'[s] = NoTx => sending[s] = NoTx
    BY <1>19, <2>1 DEF TakeJob, NextJob, Jobs, Txs
  <2> QED
    BY <1>19, <2>2, SameBlock DEF TakeJob, NextJob
<1>20. ASSUME NEW t \in Threads, NEW i \in TxIds, Send(t, i) PROVE TypeInv'
  <2>1. Call(t) \in Txs
    BY <1>20 DEF Send, Sends, Call, HeaderTx, ValidStateHeight, Txs, Jobs, Heights
  <2>2. /\ pool' \in [TxIds -> Txs \cup {NoTx}]
        /\ sent' \in [Threads -> TxIds \cup {NoTxId}]
    BY <1>20, <2>1 DEF Send
  <2>3. CASE t = Monitor
    BY <1>20, <2>2, <2>3, SameBlock DEF Send, Sends
  <2>4. CASE t \in Routes
    BY <1>20, <2>2, <2>4, SameBlock DEF Send, Sends
  <2> QED
    BY <2>3, <2>4
<1>21. ASSUME NEW t \in Threads, GiveUp(t), pool' \in [TxIds -> Txs \cup {NoTx}],
              dropped' \subseteq Deposits
       PROVE  TypeInv'
  <2>1. CASE t = Monitor
    BY <1>21, <2>1, NoBlockTypes DEF GiveUp, Sends
  <2>2. CASE t \in Routes
    BY <1>21, <2>2, SameBlock DEF GiveUp, Sends
  <2> QED
    BY <2>1, <2>2
<1>22. ASSUME NEW t \in Threads, NEW i \in TxIds, ReplyLost(t, i) PROVE TypeInv'
  <2>1. Call(t) \in Txs
    BY <1>22 DEF ReplyLost, GiveUp, Sends, Call, HeaderTx, ValidStateHeight, Txs, Jobs, Heights
  <2>2. pool' \in [TxIds -> Txs \cup {NoTx}] /\ dropped' \subseteq Deposits
    BY <1>22, <2>1 DEF ReplyLost
  <2> QED
    BY <1>21, <1>22, <2>2 DEF ReplyLost
<1>23. ASSUME NEW t \in Threads, Refused(t) PROVE TypeInv'
  BY <1>21, <1>23 DEF Refused
<1>24. ASSUME NEW t \in Threads, SendFails(t) PROVE TypeInv'
  <2>1. dropped' \subseteq Deposits
    BY <1>24 DEF SendFails, LoseCall, GiveUp, Sends, Jobs
  <2> QED
    BY <1>21, <1>24, <2>1 DEF SendFails, LoseCall
<1>25. ASSUME NEW t \in Threads, Confirm(t) PROVE TypeInv'
  <2>1. CASE t = Monitor
    BY <1>25, <2>1, NoBlockTypes DEF Confirm, NextBlock, ValidStateHeight, Heights
  <2>2. CASE t \in Routes
    BY <1>25, <2>2, SameBlock DEF Confirm
  <2> QED
    BY <2>1, <2>2
<1>26. CASE UNCHANGED vars
  BY <1>26, SameBlock DEF vars
<1> QED
  BY <1>1, <1>2, <1>3, <1>4, <1>5, <1>6, <1>7, <1>8, <1>9, <1>10, <1>11, <1>12, <1>13,
     <1>14, <1>15, <1>16, <1>17, <1>18, <1>19, <1>20, <1>22, <1>23, <1>24, <1>25, <1>26
     DEF Next, MonitorChain, SendTxToPalette

LEMMA TypesAreKept == ReadsEpoch /\ Spec => []TypeInv
<1>1. ReadsEpoch => []ReadsEpoch
  <2>1. ReadsEpoch => ReadsEpoch'
    BY DEF ReadsEpoch
  <2> QED
    BY <2>1, PTL
<1>2. ReadsEpoch /\ TypeInv /\ [Next]_vars => TypeInv'
  BY TypeInvStep
<1> QED
  BY <1>1, <1>2, TypeInvInit, PTL DEF Spec

(* Every variable keeps its type, if palette's epoch can be read when the  *)
(* process starts: a start at height 0 would save the height before it.    *)
THEOREM TypeCorrect == ReadsEpoch /\ Spec => []TypeOK
<1>1. TypeInv => TypeOK
  BY DEF TypeInv
<1> QED
  BY <1>1, TypesAreKept, PTL

-----------------------------------------------------------------------------
(* The keepers: EpochInv is inductive.                                     *)

(* What the invariant speaks of has these types.                           *)
LEMMA HeightTypes ==
  ASSUME ReadsEpoch, TypeInv
  PROVE  /\ Heights \subseteq Nat
         /\ paletteEpoch \in Heights /\ polyHeight \in Heights /\ lastEpoch \in Heights
         /\ currentHeight \in Heights /\ dbHeight \in Heights
         /\ InitEpoch \in Heights /\ 0 < InitEpoch /\ InitEpoch <= paletteEpoch
         /\ ValidStateHeight = currentHeight + 1
         /\ pcM \in {"events", "put", "header", "wait"} => ValidStateHeight \in Heights
BY ConstantsAssumption DEF TypeInv, TypeOK, Registers, Heights, ReadsEpoch, ValidStateHeight

LEMMA EpochInvInit == ReadsEpoch /\ Init => EpochInv
BY ConstantsAssumption
   DEF Init, EpochInv, EpochsOnPalette, HeadersInPool, HeaderInHand, InBlock, IsEpochHeader,
       Heights, ReadsEpoch

epochVars == <<paletteEpoch, pool, dbHeight, pcM, currentHeight, lastEpoch, isEpoch, cnt,
               sent[Monitor]>>

LEMMA EpochInvUnchanged ==
  ASSUME EpochInv, UNCHANGED epochVars
  PROVE  EpochInv'
BY DEF EpochInv, EpochsOnPalette, HeadersInPool, HeaderInHand, InBlock, NotNeeded, HeaderTx,
       Verifies, ValidStateHeight, epochVars

(* Palette goes to another header that names keepers, or stays where it is.*)
EpochMoves ==
  \/ paletteEpoch' = paletteEpoch
  \/ /\ paletteEpoch' \in Heights
     /\ paletteEpoch < paletteEpoch'
     /\ IsEpochHeader(paletteEpoch')

(* Where the headers up to h - 1 are behind the relayer, palette can only  *)
(* come to know the keepers it knows already: what it verified, it still   *)
(* does until it passes h, and nothing that it did not.                    *)
LEMMA VerifiesMoves ==
  ASSUME ReadsEpoch, TypeInv, EpochInv, EpochMoves,
         NEW h \in Nat, h <= currentHeight + 1 \/ h <= dbHeight + 2
  PROVE  /\ paletteEpoch' < h => NewKeepers[paletteEpoch'] = NewKeepers[paletteEpoch]
         /\ Verifies(h) /\ paletteEpoch' < h =>
              \E e \in Heights : SignedBy(h, e) /\ NewKeepers[e] = NewKeepers[paletteEpoch']
         /\ (\E e \in Heights : SignedBy(h, e) /\ paletteEpoch' < h
                                /\ NewKeepers[e] = NewKeepers[paletteEpoch']) => Verifies(h)
<1>1. paletteEpoch' < h => NewKeepers[paletteEpoch'] = NewKeepers[paletteEpoch]
  BY HeightTypes DEF EpochMoves, EpochInv, EpochsOnPalette
<1>2. paletteEpoch' < h => paletteEpoch < h
  BY HeightTypes DEF EpochMoves
<1> QED
  BY <1>1, <1>2 DEF Verifies

(* Palette executes something, and the process does nothing.               *)
LEMMA EpochInvPalette ==
  ASSUME ReadsEpoch, TypeInv, EpochInv, EpochMoves,
         UNCHANGED <<dbHeight, monVars, sent>>,
         \A i \in TxIds : pool'[i] = pool[i] \/ pool'[i] = NoTx,
         pcM = "wait" =>
           \/ ValidStateHeight <= paletteEpoch'
           \/ pool'[sent[Monitor]] = pool[sent[Monitor]]
  PROVE  EpochInv'
<1> USE DEF monVars, blockVars
<1>1. EpochsOnPalette'
  <2> SUFFICES ASSUME NEW h \in Heights, IsEpochHeader(h), paletteEpoch' < h,
                      h <= currentHeight \/ h <= dbHeight + 1
               PROVE  NewKeepers[h] = NewKeepers[paletteEpoch']
    BY DEF EpochsOnPalette
  <2>1. NewKeepers[paletteEpoch'] = NewKeepers[paletteEpoch]
    BY VerifiesMoves, HeightTypes
  <2>2. paletteEpoch < h
    BY HeightTypes DEF EpochMoves
  <2> QED
    BY <2>1, <2>2 DEF EpochInv, EpochsOnPalette
<1>2. IsEpochHeader(paletteEpoch)' /\ (lastEpoch <= paletteEpoch)'
  <2>1. IsEpochHeader(paletteEpoch')
    BY DEF EpochMoves, EpochInv
  <2>2. lastEpoch <= paletteEpoch'
    BY HeightTypes DEF EpochMoves, EpochInv
  <2> QED
    BY <2>1, <2>2 DEF IsEpochHeader
<1>3. HeadersInPool'
  BY DEF EpochInv, HeadersInPool
<1>4. InBlock /\ NotNeeded(ValidStateHeight) => NotNeeded(ValidStateHeight)'
  <2> SUFFICES ASSUME InBlock, NotNeeded(ValidStateHeight), IsEpochHeader(ValidStateHeight),
                      paletteEpoch' < ValidStateHeight
               PROVE  NewKeepers[ValidStateHeight] = NewKeepers[paletteEpoch']
    BY DEF NotNeeded, ValidStateHeight
  <2>1. ValidStateHeight \in Heights /\ ValidStateHeight <= currentHeight + 1
    BY HeightTypes DEF InBlock
  <2>2. NewKeepers[paletteEpoch'] = NewKeepers[paletteEpoch] /\ paletteEpoch < ValidStateHeight
    BY <2>1, VerifiesMoves, HeightTypes DEF EpochMoves
  <2> QED
    BY <2>2 DEF NotNeeded
<1>5. ASSUME pcM = "wait", paletteEpoch' < ValidStateHeight
      PROVE  pool'[sent[Monitor]] = HeaderTx /\ Verifies(ValidStateHeight)'
  <2>1. paletteEpoch < ValidStateHeight
    BY <1>5, HeightTypes DEF EpochMoves
  <2>2. pool[sent[Monitor]] = HeaderTx /\ Verifies(ValidStateHeight)
    BY <1>5, <2>1, HeightTypes DEF EpochInv, HeaderInHand
  <2>3. pool'[sent[Monitor]] = pool[sent[Monitor]]
    BY <1>5, HeightTypes DEF EpochMoves
  <2>4. ValidStateHeight \in Heights /\ ValidStateHeight <= currentHeight + 1
    BY <1>5, HeightTypes
  <2>5. \E e \in Heights : SignedBy(ValidStateHeight, e)
                           /\ NewKeepers[e] = NewKeepers[paletteEpoch']
    BY <1>5, <2>2, <2>4, VerifiesMoves, HeightTypes
  <2> QED
    BY <1>5, <2>2, <2>3, <2>5 DEF Verifies, ValidStateHeight
<1>6. HeaderInHand'
  <2>1. UNCHANGED <<ValidStateHeight, HeaderTx, pcM, isEpoch, cnt, sent>>
    BY DEF ValidStateHeight, HeaderTx
  <2>2. pcM = "wait" => (\/ ValidStateHeight <= paletteEpoch
                         \/ pool[sent[Monitor]] = HeaderTx /\ Verifies(ValidStateHeight))'
    BY <1>5, <2>1, HeightTypes DEF EpochMoves
  <2> QED
    BY <1>4, <2>1, <2>2 DEF EpochInv, HeaderInHand, InBlock
<1> QED
  BY <1>1, <1>2, <1>3, <1>6 DEF EpochInv

(* A transaction is executed.  If it is the header that MonitorChain waits *)
(* for, palette takes it.                                                  *)
LEMMA EpochInvExecute ==
  ASSUME ReadsEpoch, TypeInv, EpochInv, NEW i \in TxIds, ExecuteTx(i)
  PROVE  EpochInv'
<1>1. pool[i] \in Txs /\ pool[i] # NoTx /\ pool[i].sigs \in Heights
  BY DEF ExecuteTx, TypeInv, TypeOK, Txs
<1>2. EpochMoves
  BY <1>1 DEF ExecuteTx, Accepts, Verifies, EpochMoves, EpochInv, HeadersInPool
<1>3. UNCHANGED <<dbHeight, monVars, sent>>
  BY DEF ExecuteTx, routeVars
<1>4. \A j \in TxIds : /\ pool'[j] = pool[j] \/ pool'[j] = NoTx
                       /\ j # i => pool'[j] = pool[j]
  BY DEF ExecuteTx, TypeInv, TypeOK
<1>5. ASSUME pcM = "wait", sent[Monitor] = i, ~ ValidStateHeight <= paletteEpoch
      PROVE  ValidStateHeight <= paletteEpoch'
  <2>1. pool[i] = HeaderTx /\ Verifies(ValidStateHeight)
    BY <1>5 DEF EpochInv, HeaderInHand
  <2>2. Accepts(pool[i]) /\ pool[i].deposit = NoDeposit /\ pool[i].sigs = ValidStateHeight
    BY <2>1, ConstantsAssumption DEF Accepts, HeaderTx, TypeInv, TypeOK
  <2>3. paletteEpoch' = ValidStateHeight
    BY <2>2 DEF ExecuteTx
  <2> QED
    BY <2>3, <1>5, HeightTypes
<1>6. sent[Monitor] \in TxIds \cup {NoTxId} /\ (pcM = "wait" => sent[Monitor] \in TxIds)
  BY DEF TypeInv, TypeOK, Registers, Threads
<1>7. pcM = "wait" => \/ ValidStateHeight <= paletteEpoch'
                      \/ pool'[sent[Monitor]] = pool[sent[Monitor]]
  BY <1>2, <1>4, <1>5, <1>6, HeightTypes DEF EpochMoves
<1> QED
  BY <1>2, <1>3, <1>4, <1>7, EpochInvPalette

(* Another relayer sends what palette takes. *)
LEMMA EpochInvOther ==
  ASSUME ReadsEpoch, TypeInv, EpochInv, OtherRelayer
  PROVE  EpochInv'
<1>1. EpochMoves
  BY DEF OtherRelayer, EpochMoves, Verifies
<1>2. UNCHANGED <<dbHeight, monVars, sent, pool>>
  BY DEF OtherRelayer, routeVars
<1> QED
  BY <1>1, <1>2, EpochInvPalette

(* The process dies, and starts again.                                     *)
LEMMA EpochInvDown ==
  ASSUME ReadsEpoch, TypeInv, EpochInv, Down
  PROVE  EpochInv'
BY HeightTypes
   DEF Down, NoBlock, paletteVars, EpochInv, EpochsOnPalette, HeadersInPool, HeaderInHand, InBlock

(* A start is not above palette's epoch, unless it is at the saved height. *)
LEMMA EpochInvStart ==
  ASSUME ReadsEpoch, StartsInEpoch, TypeInv, EpochInv,
         NEW start \in StartHeights, StartManager(start)
  PROVE  EpochInv'
<1>1. currentHeight' <= paletteEpoch \/ currentHeight' = dbHeight
  BY HeightTypes, ConstantsAssumption
     DEF StartManager, FindLastEpochHeight, ReadsEpoch, StartsInEpoch
<1>2. currentHeight' \in Heights
  BY HeightTypes, ConstantsAssumption DEF StartManager, FindLastEpochHeight, ReadsEpoch
<1>3. EpochsOnPalette'
  BY <1>1, <1>2, HeightTypes DEF StartManager, EpochInv, EpochsOnPalette, paletteVars
<1> QED
  BY <1>3 DEF StartManager, EpochInv, HeadersInPool, HeaderInHand, InBlock, paletteVars, blockVars

(* The block at currentHeight is passed: its header is not needed.         *)
LEMMA EpochInvNextBlock ==
  ASSUME ReadsEpoch, TypeInv, EpochInv, NextBlock, NotNeeded(ValidStateHeight),
         UNCHANGED <<paletteVars, dbHeight>>
  PROVE  EpochInv'
<1>1. currentHeight' = ValidStateHeight
  BY DEF NextBlock, ValidStateHeight
<1>2. EpochsOnPalette'
  <2> SUFFICES ASSUME NEW h \in Heights, IsEpochHeader(h), paletteEpoch < h,
                      h <= currentHeight + 1 \/ h <= dbHeight + 1
               PROVE  NewKeepers[h] = NewKeepers[paletteEpoch]
    BY <1>1, HeightTypes DEF EpochsOnPalette, paletteVars
  <2>1. CASE h = ValidStateHeight
    BY <2>1 DEF NotNeeded
  <2>2. CASE h # ValidStateHeight
    BY <2>2, HeightTypes DEF EpochInv, EpochsOnPalette
  <2> QED
    BY <2>1, <2>2
<1> QED
  BY <1>2, HeightTypes
     DEF NextBlock, NoBlock, EpochInv, HeadersInPool, HeaderInHand, InBlock, paletteVars

(* A deposit is never proved under a header that names new keepers.        *)
LEMMA NoEpochInBlock ==
  ASSUME ReadsEpoch, NoEpochProvesADeposit, TypeInv, InBlock,
         NEW d \in Deposits, DepositHeight[d] = currentHeight
  PROVE  ~ IsEpochHeader(ValidStateHeight)
<1>1. DepositHeight[d] < MaxHeight /\ ValidStateHeight = DepositHeight[d] + 1
  BY HeightTypes, ConstantsAssumption DEF InBlock, Heights
<1> QED
  BY <1>1 DEF NoEpochProvesADeposit

(* EstimateGas has verified a header that is sent.                         *)
LEMMA EpochInvSend ==
  ASSUME ReadsEpoch, TypeInv, EpochInv, NEW t \in Threads, NEW i \in TxIds,
         Send(t, i) \/ ReplyLost(t, i)
  PROVE  EpochInv'
<1>1. /\ Sends(t) /\ Accepts(Call(t)) /\ pool[i] = NoTx
      /\ pool' = [pool EXCEPT ![i] = Call(t)]
      /\ UNCHANGED <<paletteEpoch, dbHeight, currentHeight>>
      /\ lastEpoch' \in {lastEpoch, 0}
  BY DEF Send, ReplyLost, GiveUp, NoBlock, blockVars
<1>2. \A j \in TxIds : pool'[j] = IF j = i THEN Call(t) ELSE pool[j]
  BY <1>1 DEF TypeInv, TypeOK
<1>3. HeadersInPool'
  <2>1. Call(t).deposit = NoDeposit => t = Monitor
    BY <1>1, ConstantsAssumption DEF Call, Sends, Threads, TypeInv, TypeOK, Jobs
  <2>2. Call(t).deposit = NoDeposit => IsEpochHeader(Call(t).sigs)
    BY <1>1, <2>1 DEF Call, Sends, HeaderTx, EpochInv, HeaderInHand
  <2> QED
    BY <1>2, <2>2 DEF HeadersInPool, EpochInv
<1>4. EpochsOnPalette' /\ IsEpochHeader(paletteEpoch)' /\ (lastEpoch <= paletteEpoch)'
  BY <1>1, HeightTypes DEF EpochInv, EpochsOnPalette, IsEpochHeader
<1>5. HeaderInHand'
  <2>1. CASE t = Monitor /\ Send(t, i)
    <3>1. /\ pcM' = "wait" /\ sent'[Monitor] = i /\ pool'[i] = HeaderTx
          /\ Verifies(ValidStateHeight)
      BY <1>1, <1>2, <2>1 DEF Send, Call, Accepts, HeaderTx, TypeInv, TypeOK
    <3>2. Verifies(ValidStateHeight)' /\ HeaderTx' = HeaderTx
      BY <1>1, <3>1 DEF Verifies, ValidStateHeight, HeaderTx
    <3> QED
      BY <3>1, <3>2 DEF HeaderInHand, InBlock
  <2>2. CASE t = Monitor /\ ReplyLost(t, i)
    BY <2>2 DEF ReplyLost, GiveUp, HeaderInHand, InBlock
  <2>3. CASE t \in Routes
    <3>1. /\ UNCHANGED <<pcM, isEpoch, cnt, ValidStateHeight, HeaderTx>>
          /\ sent'[Monitor] = sent[Monitor]
      BY <2>3, <1>1, ConstantsAssumption
         DEF Send, ReplyLost, GiveUp, blockVars, ValidStateHeight, HeaderTx, TypeInv, TypeOK,
             Threads
    <3>2. pcM = "wait" => sent[Monitor] \in TxIds
      BY DEF TypeInv, TypeOK, Registers, Threads
    <3>3. pcM = "wait" /\ pool[sent[Monitor]] = HeaderTx =>
            pool'[sent[Monitor]] = HeaderTx
      <4>1. pcM = "wait" => HeaderTx \in Txs
        BY HeightTypes DEF HeaderTx, Txs
      <4> QED
        BY <1>1, <1>2, <3>2, <4>1, ConstantsAssumption
    <3> QED
      BY <1>1, <3>1, <3>3 DEF EpochInv, HeaderInHand, InBlock, NotNeeded, Verifies
  <2> QED
    BY <2>1, <2>2, <2>3 DEF Threads
<1> QED
  BY <1>3, <1>4, <1>5 DEF EpochInv

(* A call that is not sent leaves the chain as it is. *)
LEMMA EpochInvGiveUp ==
  ASSUME ReadsEpoch, TypeInv, EpochInv, NEW t \in Threads, GiveUp(t), UNCHANGED pool
  PROVE  EpochInv'
<1>1. CASE t = Monitor
  BY <1>1, HeightTypes
     DEF GiveUp, NoBlock, EpochInv, EpochsOnPalette, HeadersInPool, HeaderInHand, InBlock
<1>2. CASE t \in Routes
  <2>1. sent'[Monitor] = sent[Monitor]
    BY <1>2, ConstantsAssumption DEF GiveUp, TypeInv, TypeOK, Threads
  <2> QED
    BY <1>2, <2>1, ConstantsAssumption, EpochInvUnchanged DEF GiveUp, blockVars, epochVars
<1> QED
  BY <1>1, <1>2 DEF Threads

(* MonitorChain passes the block of a header when its transaction is gone: *)
(* palette has the header then.                                            *)
LEMMA HeaderConfirmed ==
  ASSUME ReadsEpoch, TypeInv, EpochInv, Confirm(Monitor)
  PROVE  pcM = "wait" /\ ValidStateHeight <= paletteEpoch
<1>1. pcM = "wait" /\ pool[sent[Monitor]] = NoTx
  BY DEF Confirm, Confirmed, TypeInv, Registers
<1>2. HeaderTx \in Txs
  BY <1>1, HeightTypes DEF HeaderTx, Txs
<1> QED
  BY <1>1, <1>2, ConstantsAssumption DEF EpochInv, HeaderInHand

LEMMA EpochInvConfirm ==
  ASSUME ReadsEpoch, TypeInv, EpochInv, NEW t \in Threads, Confirm(t)
  PROVE  EpochInv'
<1>1. CASE t = Monitor
  <2>1. NotNeeded(ValidStateHeight)
    BY <1>1, HeaderConfirmed, HeightTypes DEF NotNeeded
  <2> QED
    BY <1>1, <2>1, EpochInvNextBlock DEF Confirm
<1>2. CASE t \in Routes
  <2>1. sent'[Monitor] = sent[Monitor]
    BY <1>2, ConstantsAssumption DEF Confirm, TypeInv, TypeOK, Threads
  <2> QED
    BY <1>2, <2>1, ConstantsAssumption, EpochInvUnchanged
       DEF Confirm, blockVars, paletteVars, epochVars
<1> QED
  BY <1>1, <1>2 DEF Threads

LEMMA EpochInvStep ==
  ASSUME ReadsEpoch, StartsInEpoch, NoEpochProvesADeposit, TypeInv, EpochInv, [Next]_vars
  PROVE  EpochInv'
<1> USE DEF paletteVars, blockVars, monVars, routeVars, histVars
<1>1. CASE NewBlock
  BY <1>1, EpochInvUnchanged DEF NewBlock, epochVars
<1>2. ASSUME NEW i \in TxIds, ExecuteTx(i) PROVE EpochInv'
  BY <1>2, EpochInvExecute
<1>3. CASE OtherRelayer
  BY <1>3, EpochInvOther
<1>4. CASE Crash \/ ReadBlockPanics
  BY <1>4, EpochInvDown DEF Crash, ReadBlockPanics
<1>5. ASSUME NEW start \in StartHeights, StartManager(start) PROVE EpochInv'
  BY <1>5, EpochInvStart
<1>6. CASE Tick
  BY <1>6 DEF Tick, EpochInv, EpochsOnPalette, HeadersInPool, HeaderInHand, InBlock
<1>7. CASE BeginBlock
  BY <1>7, HeightTypes
     DEF BeginBlock, FindLastEpochHeight, EpochInv, EpochsOnPalette, HeadersInPool, HeaderInHand,
         InBlock
<1>8. CASE ReadBlock
  <2>1. HeaderInHand'
    BY <1>8 DEF ReadBlock, HeaderInHand, InBlock, NotNeeded, NamesNewKeepers, ValidStateHeight
  <2> QED
    BY <1>8, <2>1 DEF ReadBlock, EpochInv, EpochsOnPalette, HeadersInPool
<1>9. CASE ReadBlockFails
  BY <1>9, HeightTypes
     DEF ReadBlockFails, NoBlock, EpochInv, EpochsOnPalette, HeadersInPool, HeaderInHand, InBlock
<1>10. ASSUME NEW d \in Deposits,
              AlreadyRelayed(d) \/ ProofFails(d) \/ \E r \in Routes : Dispatch(d, r)
       PROVE  EpochInv'
  <2>1. InBlock /\ d \in EventsOf(currentHeight)
    BY <1>10 DEF AlreadyRelayed, Dispatch, ProofFails, NextEvent, InBlock, TypeInv, Registers
  <2>2. ~ IsEpochHeader(ValidStateHeight)
    BY <2>1, NoEpochInBlock DEF EventsOf
  <2>3. UNCHANGED <<paletteVars, dbHeight, currentHeight, lastEpoch, isEpoch, sent>>
        /\ pcM' \in {"events", "put"}
    BY <1>10 DEF AlreadyRelayed, Dispatch, ProofFails, NextEvent
  <2>4. HeaderInHand'
    BY <2>1, <2>2, <2>3 DEF EpochInv, HeaderInHand, InBlock, NotNeeded, ValidStateHeight
  <2> QED
    BY <2>3, <2>4 DEF EpochInv, EpochsOnPalette, HeadersInPool
<1>11. CASE PutJob
  BY <1>11
     DEF PutJob, AfterPut, EpochInv, EpochsOnPalette, HeadersInPool, HeaderInHand, InBlock,
         NotNeeded, ValidStateHeight
<1>12. CASE EndBlock
  <2>1. NotNeeded(ValidStateHeight)
    BY <1>12, HeightTypes
       DEF EndBlock, HandleHeader, IsCurr, EpochInv, HeaderInHand, InBlock, NotNeeded
  <2> QED
    BY <1>12, <2>1, EpochInvNextBlock DEF EndBlock
<1>13. CASE BeginHeader
  BY <1>13
     DEF BeginHeader, HandleHeader, EpochInv, EpochsOnPalette, HeadersInPool, HeaderInHand,
         InBlock, ValidStateHeight
<1>14. CASE EndLoop
  BY <1>14 DEF EndLoop, EpochInv, EpochsOnPalette, HeadersInPool, HeaderInHand, InBlock
<1>15. CASE SaveHeight
  <2>1. dbHeight' = dbHeight \/ dbHeight' + 1 = currentHeight
    BY <1>15, HeightTypes DEF SaveHeight, LastHandled, Sub32, TypeInv, Registers
  <2>2. EpochsOnPalette'
    BY <1>15, <2>1 DEF SaveHeight, EpochInv, EpochsOnPalette
  <2> QED
    BY <1>15, <2>2 DEF SaveHeight, EpochInv, HeadersInPool, HeaderInHand, InBlock
<1>16. ASSUME NEW r \in Routes, TakeJob(r) PROVE EpochInv'
  BY <1>16, EpochInvUnchanged DEF TakeJob, NextJob, epochVars
<1>17. ASSUME NEW t \in Threads, NEW i \in TxIds, Send(t, i) \/ ReplyLost(t, i)
       PROVE  EpochInv'
  BY <1>17, EpochInvSend
<1>18. ASSUME NEW t \in Threads, Refused(t) \/ SendFails(t) PROVE EpochInv'
  BY <1>18, EpochInvGiveUp DEF Refused, SendFails, LoseCall
<1>19. ASSUME NEW t \in Threads, Confirm(t) PROVE EpochInv'
  BY <1>19, EpochInvConfirm
<1>20. CASE UNCHANGED vars
  BY <1>20, EpochInvUnchanged DEF vars, epochVars
<1> QED
  BY <1>1, <1>2, <1>3, <1>4, <1>5, <1>6, <1>7, <1>8, <1>9, <1>10, <1>11, <1>12, <1>13,
     <1>14, <1>15, <1>16, <1>17, <1>18, <1>19, <1>20
     DEF Next, MonitorChain, SendTxToPalette

(* MonitorChain never leaves behind a header that palette needs: for any   *)
(* chain, any number of routes, crashes and other relayers, and whatever   *)
(* fails after the start.                                                  *)
THEOREM EpochsAreRelayed ==
  ReadsEpoch /\ StartsInEpoch /\ NoEpochProvesADeposit /\ Spec => []EpochsOnPalette
<1> DEFINE Conditions == ReadsEpoch /\ StartsInEpoch /\ NoEpochProvesADeposit
<1>1. Conditions /\ Init => TypeInv /\ EpochInv
  BY TypeInvInit, EpochInvInit
<1>2. Conditions /\ TypeInv /\ EpochInv /\ [Next]_vars => (TypeInv /\ EpochInv)'
  BY TypeInvStep, EpochInvStep
<1>3. EpochInv => EpochsOnPalette
  BY DEF EpochInv
<1>4. Conditions => []Conditions
  <2>1. Conditions => Conditions'
    BY DEF ReadsEpoch, StartsInEpoch, NoEpochProvesADeposit, IsEpochHeader
  <2> QED
    BY <2>1, PTL
<1> HIDE DEF Conditions
<1>5. Conditions /\ Spec => []EpochsOnPalette
  BY <1>1, <1>2, <1>3, <1>4, PTL DEF Spec
<1> QED
  BY <1>5 DEF Conditions

-----------------------------------------------------------------------------
(* The deposits: DepositInv is inductive.                                  *)

LEMMA DepositInvInit == ReadsEpoch /\ Init => DepositInv
BY ConstantsAssumption DEF Init, DepositInv, Passed, InBlock, Heights, ReadsEpoch

(* The call for a deposit whose block is passed is one.                    *)
LEMMA OwnTxIsTx ==
  ASSUME ReadsEpoch, TypeInv, NEW d \in Deposits, Passed(d)
  PROVE  /\ DepositHeight[d] + 1 \in Heights
         /\ DepositHeight[d] + 1 <= currentHeight + 1 \/ DepositHeight[d] + 1 <= dbHeight + 2
         /\ OwnTx(d) # NoTx
         /\ OwnTx(d).deposit = d /\ OwnTx(d).sigs = DepositHeight[d] + 1
<1>1. /\ DepositHeight[d] + 1 \in Heights
      /\ DepositHeight[d] + 1 <= currentHeight + 1 \/ DepositHeight[d] + 1 <= dbHeight + 2
  BY HeightTypes, ConstantsAssumption DEF Passed, InBlock, Heights, TypeInv, Registers
<1>2. OwnTx(d) \in Txs
  BY <1>1 DEF OwnTx, Txs
<1> QED
  BY <1>1, <1>2, ConstantsAssumption DEF OwnTx

(* The invariant is kept by a step that passes no deposit without keeping  *)
(* it, and forgets none that palette takes.                                *)
LEMMA DepositInvByCases ==
  ASSUME ReadsEpoch, TypeInv, EpochInv, DepositInv, EpochMoves,
         \A d \in Deposits :
           /\ Verifies(DepositHeight[d] + 1)' /\ Passed(d)' => Passed(d) \/ Kept(d)'
           /\ Passed(d) /\ Verifies(DepositHeight[d] + 1) /\ Kept(d) => Kept(d)'
  PROVE  DepositInv'
<1> SUFFICES ASSUME NEW d \in Deposits, InitEpoch <= DepositHeight[d],
                    Passed(d)', Verifies(DepositHeight[d] + 1)', ~ Kept(d)'
             PROVE  FALSE
  BY DEF DepositInv
<1>1. Passed(d)
  OBVIOUS
<1>2. DepositHeight[d] + 1 \in Nat
      /\ (DepositHeight[d] + 1 <= currentHeight + 1 \/ DepositHeight[d] + 1 <= dbHeight + 2)
  BY <1>1, OwnTxIsTx, HeightTypes
<1>3. Verifies(DepositHeight[d] + 1)
  BY <1>2, VerifiesMoves DEF Verifies
<1> QED
  BY <1>1, <1>3 DEF DepositInv

(* Palette and its epoch are left alone by the process. *)
LEMMA DepositInvProcess ==
  ASSUME ReadsEpoch, TypeInv, EpochInv, DepositInv, UNCHANGED paletteEpoch,
         \A d \in Deposits :
           /\ Verifies(DepositHeight[d] + 1) /\ Passed(d)' => Passed(d) \/ Kept(d)'
           /\ Passed(d) /\ Verifies(DepositHeight[d] + 1) /\ Kept(d) => Kept(d)'
  PROVE  DepositInv'
<1>1. \A d \in Deposits : Verifies(DepositHeight[d] + 1)' <=> Verifies(DepositHeight[d] + 1)
  BY DEF Verifies
<1>2. EpochMoves
  BY DEF EpochMoves
<1> QED
  BY <1>1, <1>2, DepositInvByCases

depositVars == <<paletteVars, dbHeight, currentHeight, routeVars, put, dropped>>

(* MonitorChain goes on, with no deposit in hand.                          *)
LEMMA DepositInvGoesOn ==
  ASSUME ReadsEpoch, TypeInv, EpochInv, DepositInv, UNCHANGED depositVars,
         InBlock' => InBlock /\ UNCHANGED todo
  PROVE  DepositInv'
<1>1. \A d \in Deposits : Passed(d)' => Passed(d)
  BY DEF Passed, depositVars
<1>2. \A d \in Deposits : Kept(d)' <=> Kept(d)
  BY DEF Kept, InChannel, InHand, AtNode, OwnTx, depositVars, paletteVars, routeVars
<1> QED
  BY <1>1, <1>2, DepositInvProcess DEF depositVars, paletteVars

(* Palette takes a call that is proved under the header of its epoch, or   *)
(* has executed the deposit.                                               *)
LEMMA DepositInvExecute ==
  ASSUME ReadsEpoch, TypeInv, EpochInv, DepositInv, NEW i \in TxIds, ExecuteTx(i)
  PROVE  DepositInv'
<1>1. pool[i].sigs \in Heights
  BY DEF ExecuteTx, TypeInv, TypeOK, Txs
<1>2. EpochMoves
  BY <1>1 DEF ExecuteTx, Accepts, Verifies, EpochMoves, EpochInv, HeadersInPool
<1>3. \A j \in TxIds : j # i => pool'[j] = pool[j]
  BY DEF ExecuteTx, TypeInv, TypeOK
<1>4. executed \subseteq executed'
  BY DEF ExecuteTx
<1>5. ASSUME NEW d \in Deposits, Passed(d), Verifies(DepositHeight[d] + 1), pool[i] = OwnTx(d)
      PROVE  d \in executed'
  <2>1. pool[i].deposit = d /\ pool[i].sigs = DepositHeight[d] + 1 /\ d # NoDeposit
    BY <1>5, OwnTxIsTx, ConstantsAssumption
  <2> QED
    BY <1>5, <2>1 DEF ExecuteTx, Accepts
<1>6. \A d \in Deposits : Passed(d)' => Passed(d)
  BY DEF ExecuteTx, Passed, InBlock, monVars, blockVars
<1>7. \A d \in Deposits :
        Passed(d) /\ Verifies(DepositHeight[d] + 1) /\ Kept(d) => Kept(d)'
  BY <1>3, <1>4, <1>5
     DEF ExecuteTx, Kept, InChannel, InHand, AtNode, OwnTx, monVars, blockVars, routeVars,
         histVars
<1> QED
  BY <1>2, <1>6, <1>7, DepositInvByCases

LEMMA DepositInvOther ==
  ASSUME ReadsEpoch, TypeInv, EpochInv, DepositInv, OtherRelayer
  PROVE  DepositInv'
<1>1. EpochMoves
  BY DEF OtherRelayer, EpochMoves, Verifies
<1>2. \A d \in Deposits : Passed(d)' => Passed(d)
  BY DEF OtherRelayer, Passed, InBlock, monVars, blockVars
<1>3. \A d \in Deposits : Kept(d) => Kept(d)'
  BY DEF OtherRelayer, Kept, InChannel, InHand, AtNode, OwnTx, monVars, blockVars, routeVars,
         histVars
<1> QED
  BY <1>1, <1>2, <1>3, DepositInvByCases

(* What is in memory when the process dies is in dropped. *)
LEMMA DepositInvDown ==
  ASSUME ReadsEpoch, TypeInv, EpochInv, DepositInv, Down
  PROVE  DepositInv'
<1>1. \A d \in Deposits : Passed(d)' => Passed(d)
  BY DEF Down, Passed, InBlock
<1>2. ASSUME NEW d \in Deposits, Passed(d), InChannel(OwnTx(d)) \/ InHand(OwnTx(d))
      PROVE  d \in dropped'
  <2>1. OwnTx(d) \in InMemory
    BY <1>2, OwnTxIsTx DEF InChannel, InHand, InMemory, RangeOf
  <2> QED
    BY <1>2, <2>1, OwnTxIsTx DEF Down
<1>3. \A d \in Deposits : Passed(d) /\ Kept(d) => Kept(d)'
  BY <1>2 DEF Down, Kept, AtNode, OwnTx, paletteVars
<1> QED
  BY <1>1, <1>3, DepositInvProcess DEF Down, paletteVars

(* The relayer starts at palette's epoch or below it, where nothing is     *)
(* verified, or at the saved height.                                       *)
LEMMA DepositInvStart ==
  ASSUME ReadsEpoch, StartsInEpoch, TypeInv, EpochInv, DepositInv,
         NEW start \in StartHeights, StartManager(start)
  PROVE  DepositInv'
<1>1. /\ currentHeight' \in Nat
      /\ currentHeight' <= paletteEpoch \/ currentHeight' = dbHeight
  BY HeightTypes, ConstantsAssumption
     DEF StartManager, FindLastEpochHeight, ReadsEpoch, StartsInEpoch
<1>2. \A d \in Deposits : Verifies(DepositHeight[d] + 1) /\ Passed(d)' => Passed(d)
  <2> SUFFICES ASSUME NEW d \in Deposits, Verifies(DepositHeight[d] + 1), Passed(d)'
               PROVE  Passed(d)
    OBVIOUS
  <2>1. DepositHeight[d] < currentHeight' \/ DepositHeight[d] <= dbHeight
    BY DEF StartManager, Passed, InBlock
  <2>2. paletteEpoch < DepositHeight[d] + 1
    BY DEF Verifies
  <2>3. DepositHeight[d] \in Nat /\ paletteEpoch \in Nat /\ dbHeight \in Nat
    BY HeightTypes, ConstantsAssumption
  <2>4. DepositHeight[d] <= dbHeight
    BY <1>1, <2>1, <2>2, <2>3
  <2> QED
    BY <2>4 DEF Passed
<1>3. \A d \in Deposits : Kept(d) => Kept(d)'
  BY DEF StartManager, Kept, InChannel, InHand, AtNode, OwnTx, paletteVars, blockVars,
         routeVars, histVars
<1> QED
  BY <1>2, <1>3, DepositInvProcess DEF StartManager, paletteVars

(* An event is dealt with: palette has the deposit, or MonitorChain has a  *)
(* call of its own for it in hand, or its proof cannot be read.            *)
LEMMA DepositInvEvent ==
  ASSUME ReadsEpoch, NoEpochProvesADeposit, TypeInv, EpochInv, DepositInv, NEW e \in Deposits,
         AlreadyRelayed(e) \/ ProofFails(e) \/ \E r \in Routes : Dispatch(e, r)
  PROVE  DepositInv'
<1>1. /\ NextEvent(e) /\ InBlock /\ InBlock' /\ put = NoTx /\ e \in EventsOf(currentHeight)
      /\ UNCHANGED <<paletteVars, routeVars, dbHeight, currentHeight>>
      /\ todo' = todo \ {e}
  BY DEF AlreadyRelayed, ProofFails, Dispatch, NextEvent, InBlock, TypeInv, Registers, paletteVars,
         routeVars
<1>2. DepositHeight[e] = currentHeight
  BY <1>1 DEF EventsOf
<1>3. ASSUME Verifies(DepositHeight[e] + 1)
      PROVE  Kept(e)'
  <2>1. CASE AlreadyRelayed(e)
    BY <1>1, <2>1 DEF AlreadyRelayed, Kept, paletteVars
  <2>2. CASE ProofFails(e)
    BY <2>2 DEF ProofFails, Kept
  <2>3. ASSUME NEW r \in Routes, Dispatch(e, r) PROVE Kept(e)'
    <3>1. ~ isEpoch
      BY <1>1, <1>2, NoEpochInBlock DEF EpochInv, HeaderInHand
    <3>2. IsCurr /\ ValidStateHeight = DepositHeight[e] + 1
      BY <1>2, <1>3, HeightTypes DEF IsCurr, EpochInv, Verifies
    <3>3. SigHeight = DepositHeight[e] + 1
      BY <3>1, <3>2 DEF SigHeight, NeedsAnchor
    <3>4. put' = OwnTx(e)
      BY <2>3, <3>3 DEF Dispatch, DepositTx, OwnTx
    <3> QED
      BY <3>4 DEF Kept, InHand, OwnTx
  <2> QED
    BY <2>1, <2>2, <2>3
<1>4. \A d \in Deposits : Passed(d)' => Passed(d) \/ d = e
  BY <1>1, <1>2 DEF Passed
<1>5. ASSUME NEW d \in Deposits, d # e, Passed(d), Kept(d)
      PROVE  Kept(d)'
  <2>1. put # OwnTx(d)
    BY <1>1, <1>5, OwnTxIsTx
  <2>2. d \in dropped => d \in dropped'
    BY <1>5 DEF AlreadyRelayed, ProofFails, Dispatch
  <2> QED
    BY <1>1, <1>5, <2>1, <2>2
       DEF Kept, InChannel, InHand, AtNode, OwnTx, paletteVars, routeVars
<1> QED
  BY <1>1, <1>3, <1>4, <1>5, DepositInvProcess DEF paletteVars

(* The job goes into the channel. *)
LEMMA DepositInvPut ==
  ASSUME ReadsEpoch, TypeInv, EpochInv, DepositInv, PutJob
  PROVE  DepositInv'
<1>1. /\ InBlock /\ target \in Routes /\ queue[target] \in Seq(Jobs) /\ put \in Jobs
      /\ queue' = [queue EXCEPT ![target] = Append(@, put)]
      /\ UNCHANGED <<paletteVars, dbHeight, currentHeight, todo, sending, sent, dropped>>
  BY DEF PutJob, AfterPut, TypeInv, TypeOK, Registers, InBlock, paletteVars, histVars
<1>2. /\ \A r \in Routes : r # target => queue'[r] = queue[r]
      /\ queue'[target] = Append(queue[target], put)
  BY <1>1 DEF TypeInv, TypeOK
<1>3. /\ \A k \in DOMAIN queue[target] : k \in DOMAIN queue'[target]
                                         /\ queue'[target][k] = queue[target][k]
      /\ Len(queue[target]) + 1 \in DOMAIN queue'[target]
      /\ queue'[target][Len(queue[target]) + 1] = put
  BY <1>1, <1>2
<1>4. \A tx : InChannel(tx) => InChannel(tx)'
  BY <1>2, <1>3 DEF InChannel
<1>5. \A tx : tx = put => InChannel(tx)'
  BY <1>1, <1>3 DEF InChannel
<1>6. \A d \in Deposits : Kept(d) => Kept(d)'
  BY <1>1, <1>4, <1>5 DEF Kept, InHand, AtNode, OwnTx, paletteVars
<1>7. \A d \in Deposits : Passed(d)' => Passed(d)
  BY <1>1 DEF Passed
<1> QED
  BY <1>1, <1>6, <1>7, DepositInvProcess DEF paletteVars

(* A route takes the first job of its channel. *)
LEMMA DepositInvTake ==
  ASSUME ReadsEpoch, TypeInv, EpochInv, DepositInv, NEW r \in Routes, TakeJob(r)
  PROVE  DepositInv'
<1>1. /\ sending[r] = NoTx /\ sent[r] = NoTxId /\ queue[r] \in Seq(Jobs) /\ queue[r] # <<>>
      /\ UNCHANGED <<paletteVars, dbHeight, pcM, currentHeight, todo, put, sent, dropped>>
  BY DEF TakeJob, NextJob, TypeInv, TypeOK, Registers, monVars, blockVars, histVars
<1>2. /\ \A s \in Routes : s # r => queue'[s] = queue[s] /\ sending'[s] = sending[s]
      /\ queue'[r] = Tail(queue[r]) /\ sending'[r] = queue[r][1]
  BY <1>1 DEF TakeJob, NextJob, TypeInv, TypeOK
<1>3. \A k \in DOMAIN queue[r] :
        k = 1 \/ (k - 1 \in DOMAIN queue'[r] /\ queue'[r][k - 1] = queue[r][k])
  BY <1>1, <1>2
<1>4. \A tx : InChannel(tx) => InChannel(tx)' \/ InHand(tx)'
  <2> SUFFICES ASSUME NEW tx, NEW s \in Routes, NEW k \in DOMAIN queue[s], queue[s][k] = tx
               PROVE  InChannel(tx)' \/ InHand(tx)'
    BY DEF InChannel
  <2>1. CASE s # r
    BY <1>2, <2>1 DEF InChannel
  <2>2. CASE s = r /\ k = 1
    BY <1>1, <1>2, <2>2 DEF InHand
  <2>3. CASE s = r /\ k # 1
    BY <1>3, <2>3 DEF InChannel
  <2> QED
    BY <2>1, <2>2, <2>3
<1>5. \A tx : tx # NoTx /\ InHand(tx) => InHand(tx)'
  BY <1>1, <1>2 DEF InHand
<1>6. \A d \in Deposits : Passed(d) /\ Kept(d) => Kept(d)'
  <2> SUFFICES ASSUME NEW d \in Deposits, Passed(d), Kept(d)
               PROVE  Kept(d)'
    OBVIOUS
  <2>1. OwnTx(d) # NoTx /\ OwnTx(d)' = OwnTx(d)
    BY OwnTxIsTx DEF OwnTx
  <2> DEFINE tx == OwnTx(d)
  <2>2. InChannel(tx) \/ InHand(tx) => (InChannel(tx) \/ InHand(tx))'
    <3> HIDE DEF tx
    <3> QED
      BY <1>4, <1>5, <2>1 DEF InChannel, InHand, tx, OwnTx
  <2> QED
    BY <1>1, <2>2 DEF Kept, AtNode, OwnTx, paletteVars
<1>7. \A d \in Deposits : Passed(d)' => Passed(d)
  BY <1>1 DEF Passed, InBlock
<1> QED
  BY <1>1, <1>6, <1>7, DepositInvProcess DEF paletteVars

(* A call leaves a goroutine's hand for the node of palette. *)
LEMMA DepositInvSend ==
  ASSUME ReadsEpoch, TypeInv, EpochInv, DepositInv, NEW t \in Threads, NEW i \in TxIds,
         Send(t, i) \/ ReplyLost(t, i)
  PROVE  DepositInv'
<1>1. /\ Sends(t) /\ pool[i] = NoTx /\ pool' = [pool EXCEPT ![i] = Call(t)]
      /\ UNCHANGED <<paletteEpoch, executed, dbHeight, currentHeight, queue, dropped>>
      /\ InBlock' => InBlock /\ UNCHANGED todo
      /\ put' = put
  <2>1. t = Monitor => put = NoTx /\ ~ InBlock
    BY DEF Send, ReplyLost, GiveUp, Sends, TypeInv, Registers, InBlock
  <2>2. CASE t = Monitor
    BY <2>1, <2>2 DEF Send, ReplyLost, GiveUp, NoBlock, blockVars, histVars, InBlock
  <2>3. CASE t # Monitor
    BY <2>3 DEF Send, ReplyLost, GiveUp, blockVars, histVars, InBlock
  <2> QED
    BY <2>2, <2>3
<1>2. \A j \in TxIds : pool'[j] = IF j = i THEN Call(t) ELSE pool[j]
  BY <1>1 DEF TypeInv, TypeOK
<1>3. \A r \in Routes : r # t => sending'[r] = sending[r] /\ sent'[r] = sent[r]
  BY ConstantsAssumption DEF Send, ReplyLost, GiveUp, TypeInv, TypeOK, Threads
<1>4. t \in Routes => Call(t) = sending[t]
  BY ConstantsAssumption DEF Call
<1>5. \A d \in Deposits : Passed(d) /\ Kept(d) => Kept(d)'
  <2> SUFFICES ASSUME NEW d \in Deposits, Passed(d), Kept(d)
               PROVE  Kept(d)'
    OBVIOUS
  <2>1. OwnTx(d) # NoTx
    BY OwnTxIsTx
  <2>2. CASE AtNode(OwnTx(d))
    BY <1>1, <1>2, <2>1, <2>2 DEF Kept, AtNode, OwnTx
  <2>3. CASE InHand(OwnTx(d))
    BY <1>1, <1>2, <1>3, <1>4, <2>3 DEF Kept, InHand, AtNode, OwnTx
  <2> QED
    BY <1>1, <2>2, <2>3 DEF Kept, InChannel, OwnTx
<1>6. \A d \in Deposits : Passed(d)' => Passed(d)
  BY <1>1 DEF Passed
<1> QED
  BY <1>1, <1>5, <1>6, DepositInvProcess

(* A route gives up a call that palette refuses: it has the deposit, or it *)
(* has left the epoch.  With another error the deposit is dropped.         *)
LEMMA DepositInvGiveUp ==
  ASSUME ReadsEpoch, TypeInv, EpochInv, DepositInv, NEW t \in Threads,
         Refused(t) \/ SendFails(t)
  PROVE  DepositInv'
<1>1. /\ GiveUp(t) /\ UNCHANGED <<paletteVars, dbHeight, currentHeight, queue>>
      /\ InBlock' => InBlock /\ UNCHANGED todo
      /\ put' = put /\ dropped \subseteq dropped'
  <2>1. GiveUp(t) /\ (t = Monitor => put = NoTx /\ ~ InBlock)
    BY DEF Refused, SendFails, LoseCall, GiveUp, Sends, TypeInv, Registers, InBlock
  <2>2. CASE t = Monitor
    BY <2>1, <2>2 DEF Refused, SendFails, LoseCall, GiveUp, NoBlock, blockVars, InBlock, paletteVars
  <2>3. CASE t # Monitor
    BY <2>3 DEF Refused, SendFails, LoseCall, GiveUp, blockVars, InBlock, paletteVars
  <2> QED
    BY <2>2, <2>3
<1>2. \A r \in Routes : r # t => sending'[r] = sending[r] /\ sent'[r] = sent[r]
  BY ConstantsAssumption DEF Refused, SendFails, LoseCall, GiveUp, TypeInv, TypeOK, Threads
<1>3. ASSUME NEW d \in Deposits, Passed(d), Verifies(DepositHeight[d] + 1), t \in Routes,
             sending[t] = OwnTx(d)
      PROVE  d \in executed \/ d \in dropped'
  <2>1. Call(t) = OwnTx(d) /\ t # Monitor
    BY <1>3, ConstantsAssumption DEF Call
  <2>2. CASE Refused(t)
    BY <1>3, <2>1, <2>2, OwnTxIsTx DEF Refused, Accepts
  <2>3. CASE SendFails(t)
    BY <1>3, <2>1, <2>3, OwnTxIsTx DEF SendFails, LoseCall
  <2> QED
    BY <2>2, <2>3
<1>4. \A d \in Deposits :
        Passed(d) /\ Verifies(DepositHeight[d] + 1) /\ Kept(d) => Kept(d)'
  BY <1>1, <1>2, <1>3 DEF Kept, InChannel, InHand, AtNode, OwnTx, paletteVars
<1>5. \A d \in Deposits : Passed(d)' => Passed(d)
  BY <1>1 DEF Passed
<1> QED
  BY <1>1, <1>4, <1>5, DepositInvProcess DEF paletteVars

(* The block at currentHeight is passed: its deposits are all dealt with,  *)
(* or palette has left the epoch of its header.                            *)
LEMMA DepositInvNextBlock ==
  ASSUME ReadsEpoch, TypeInv, EpochInv, DepositInv, NextBlock, put = NoTx,
         UNCHANGED <<paletteVars, dbHeight, queue, sending, dropped>>,
         \A r \in Routes : sent'[r] = sent[r],
         (InBlock /\ todo = {}) \/ ValidStateHeight <= paletteEpoch
  PROVE  DepositInv'
<1>1. \A d \in Deposits : Verifies(DepositHeight[d] + 1) /\ Passed(d)' => Passed(d)
  <2> SUFFICES ASSUME NEW d \in Deposits, Verifies(DepositHeight[d] + 1), Passed(d)'
               PROVE  Passed(d)
    OBVIOUS
  <2>1. DepositHeight[d] < currentHeight + 1 \/ DepositHeight[d] <= dbHeight
    BY DEF NextBlock, Passed, InBlock
  <2>2. paletteEpoch < DepositHeight[d] + 1
    BY DEF Verifies
  <2>3. DepositHeight[d] \in Nat
    BY HeightTypes, ConstantsAssumption
  <2> QED
    BY <2>1, <2>2, <2>3, HeightTypes DEF Passed
<1>2. \A d \in Deposits : Kept(d) => Kept(d)'
  BY DEF NextBlock, NoBlock, Kept, InChannel, InHand, AtNode, OwnTx, paletteVars
<1> QED
  BY <1>1, <1>2, DepositInvProcess DEF paletteVars

(* A call that is sent is not in hand any more when it is confirmed. *)
LEMMA DepositInvConfirm ==
  ASSUME ReadsEpoch, TypeInv, EpochInv, DepositInv, NEW t \in Threads, Confirm(t)
  PROVE  DepositInv'
<1>1. CASE t = Monitor
  <2>1. put = NoTx /\ ValidStateHeight <= paletteEpoch
    BY <1>1, HeaderConfirmed DEF TypeInv, Registers
  <2>2. /\ NextBlock /\ UNCHANGED <<paletteVars, dbHeight, queue, sending, dropped>>
        /\ sent' = [sent EXCEPT ![Monitor] = NoTxId]
    BY <1>1 DEF Confirm, histVars
  <2>3. \A r \in Routes : sent'[r] = sent[r]
    BY <2>2, ConstantsAssumption DEF TypeInv, TypeOK, Threads
  <2> QED
    BY <2>1, <2>2, <2>3, DepositInvNextBlock
<1>2. CASE t \in Routes
  <2>1. /\ sent[t] # NoTxId
        /\ UNCHANGED <<paletteVars, dbHeight, currentHeight, pcM, todo, put, queue, dropped>>
        /\ \A r \in Routes : r # t => sending'[r] = sending[r] /\ sent'[r] = sent[r]
    BY <1>2, ConstantsAssumption DEF Confirm, blockVars, histVars, TypeInv, TypeOK, Threads
  <2>2. \A d \in Deposits : Kept(d) => Kept(d)'
    BY <2>1 DEF Kept, InChannel, InHand, AtNode, OwnTx, paletteVars
  <2>3. \A d \in Deposits : Passed(d)' => Passed(d)
    BY <2>1 DEF Passed, InBlock
  <2> QED
    BY <2>1, <2>2, <2>3, DepositInvProcess DEF paletteVars
<1> QED
  BY <1>1, <1>2 DEF Threads

LEMMA DepositInvStep ==
  ASSUME ReadsEpoch, StartsInEpoch, NoEpochProvesADeposit, TypeInv, EpochInv, DepositInv,
         [Next]_vars
  PROVE  DepositInv'
<1> USE DEF monVars, blockVars, histVars, InBlock
<1>1. CASE NewBlock
  BY <1>1, DepositInvGoesOn DEF NewBlock, depositVars
<1>2. ASSUME NEW i \in TxIds, ExecuteTx(i) PROVE DepositInv'
  BY <1>2, DepositInvExecute
<1>3. CASE OtherRelayer
  BY <1>3, DepositInvOther
<1>4. CASE Crash \/ ReadBlockPanics
  BY <1>4, DepositInvDown DEF Crash, ReadBlockPanics
<1>5. ASSUME NEW start \in StartHeights, StartManager(start) PROVE DepositInv'
  BY <1>5, DepositInvStart
<1>6. CASE Tick \/ BeginBlock \/ BeginHeader \/ EndLoop
  BY <1>6, DepositInvGoesOn DEF Tick, BeginBlock, BeginHeader, EndLoop, depositVars
<1>7. CASE ReadBlock
  <2>1. \A d \in Deposits : Passed(d)' => Passed(d)
    BY <1>7 DEF ReadBlock, Passed, EventsOf
  <2>2. \A d \in Deposits : Kept(d) => Kept(d)'
    BY <1>7 DEF ReadBlock, Kept, InChannel, InHand, AtNode, OwnTx, paletteVars, routeVars
  <2> QED
    BY <1>7, <2>1, <2>2, DepositInvProcess DEF ReadBlock, paletteVars
<1>8. CASE ReadBlockFails
  <2>1. put = NoTx
    BY <1>8 DEF ReadBlockFails, TypeInv, Registers
  <2> QED
    BY <1>8, <2>1, DepositInvGoesOn DEF ReadBlockFails, NoBlock, depositVars
<1>9. ASSUME NEW d \in Deposits,
             AlreadyRelayed(d) \/ ProofFails(d) \/ \E r \in Routes : Dispatch(d, r)
      PROVE  DepositInv'
  BY <1>9, DepositInvEvent
<1>10. CASE PutJob
  BY <1>10, DepositInvPut
<1>11. CASE EndBlock
  <2>1. put = NoTx
    BY <1>11 DEF EndBlock, TypeInv, Registers
  <2> QED
    BY <1>11, <2>1, DepositInvNextBlock DEF EndBlock, routeVars
<1>12. CASE SaveHeight
  <2>1. dbHeight' = dbHeight \/ dbHeight' + 1 = currentHeight
    BY <1>12, HeightTypes DEF SaveHeight, LastHandled, Sub32, TypeInv, Registers
  <2>2. dbHeight' \in Nat
    BY <1>12, <2>1, TypeInvStep, HeightTypes DEF TypeInv, TypeOK
  <2>3. \A d \in Deposits : Passed(d)' => Passed(d)
    BY <1>12, <2>1, <2>2, HeightTypes, ConstantsAssumption DEF SaveHeight, Passed
  <2>4. \A d \in Deposits : Kept(d) => Kept(d)'
    BY <1>12 DEF SaveHeight, Kept, InChannel, InHand, AtNode, OwnTx, paletteVars, routeVars
  <2> QED
    BY <1>12, <2>3, <2>4, DepositInvProcess DEF SaveHeight, paletteVars
<1>13. ASSUME NEW r \in Routes, TakeJob(r) PROVE DepositInv'
  BY <1>13, DepositInvTake
<1>14. ASSUME NEW t \in Threads, NEW i \in TxIds, Send(t, i) \/ ReplyLost(t, i)
       PROVE  DepositInv'
  BY <1>14, DepositInvSend
<1>15. ASSUME NEW t \in Threads, Refused(t) \/ SendFails(t) PROVE DepositInv'
  BY <1>15, DepositInvGiveUp
<1>16. ASSUME NEW t \in Threads, Confirm(t) PROVE DepositInv'
  BY <1>16, DepositInvConfirm
<1>17. CASE UNCHANGED vars
  BY <1>17, DepositInvGoesOn DEF vars, depositVars
<1> QED
  BY <1>1, <1>2, <1>3, <1>4, <1>5, <1>6, <1>7, <1>8, <1>9, <1>10, <1>11, <1>12, <1>13,
     <1>14, <1>15, <1>16, <1>17
     DEF Next, MonitorChain, SendTxToPalette

(* A deposit that is proved under a header of palette's epoch is on its    *)
(* way if its call is anywhere.                                            *)
LEMMA KeptIsOnItsWay ==
  ASSUME ReadsEpoch, TypeInv, DepositInv
  PROVE  OnlyEpochsLoseDeposits
<1> SUFFICES ASSUME NEW d \in Deposits, InitEpoch <= DepositHeight[d],
                    DepositHeight[d] < currentHeight, InEpoch(d)
             PROVE  d \in executed \/ OnItsWay(d) \/ d \in dropped
  BY DEF OnlyEpochsLoseDeposits
<1>1. Passed(d)
  BY DEF Passed
<1>2. Verifies(DepositHeight[d] + 1)
  BY HeightTypes DEF InEpoch, SignedBy, Verifies
<1>3. Kept(d)
  BY <1>1, <1>2 DEF DepositInv
<1>4. InChannel(OwnTx(d)) \/ InHand(OwnTx(d)) \/ AtNode(OwnTx(d)) => OwnTx(d) \in Carried
  BY <1>1, OwnTxIsTx DEF InChannel, InHand, AtNode, Carried, InMemory, RangeOf
<1>5. OwnTx(d) \in Carried => OnItsWay(d)
  BY <1>1, <1>2, OwnTxIsTx DEF OnItsWay
<1> QED
  BY <1>3, <1>4, <1>5 DEF Kept

(* The relayer loses a deposit only if palette has left the epoch of the   *)
(* header that proves it, or for a cause that is recorded in dropped, with *)
(* any number of crashes, routes and other relayers and full channels.     *)
THEOREM DepositsAreKept ==
  ReadsEpoch /\ StartsInEpoch /\ NoEpochProvesADeposit /\ Spec => []OnlyEpochsLoseDeposits
<1> DEFINE Conditions == ReadsEpoch /\ StartsInEpoch /\ NoEpochProvesADeposit
<1> DEFINE Inv == TypeInv /\ EpochInv /\ DepositInv
<1>1. Conditions /\ Init => Inv
  BY TypeInvInit, EpochInvInit, DepositInvInit
<1>2. Conditions /\ Inv /\ [Next]_vars => Inv'
  BY TypeInvStep, EpochInvStep, DepositInvStep
<1>3. Conditions /\ Inv => OnlyEpochsLoseDeposits
  BY KeptIsOnItsWay
<1>4. Conditions => []Conditions
  <2>1. Conditions => Conditions'
    BY DEF ReadsEpoch, StartsInEpoch, NoEpochProvesADeposit, IsEpochHeader
  <2> QED
    BY <2>1, PTL
<1> HIDE DEF Conditions, Inv
<1>5. Conditions /\ Spec => []OnlyEpochsLoseDeposits
  BY <1>1, <1>2, <1>3, <1>4, PTL DEF Spec
<1> QED
  BY <1>5 DEF Conditions

=============================================================================
