------------------------ MODULE PaletteManagerProofs ------------------------
(***************************************************************************)
(* Proofs about PaletteManager, for every value of its constants:          *)
(*                                                                         *)
(*   TypeCorrect       []TypeOK                                            *)
(*   EpochsOnPolySafe  []EpochsOnPoly, whatever goes wrong                 *)
(*   ProofsAreSafe     []SafeProof, if no start height is below the safe   *)
(*                     block distance                                      *)
(*   NothingLost, ImplementsOutbox                                         *)
(*                     []NoDepositLost and IsOutbox, if no fault loses     *)
(*                     a deposit                                           *)
(***************************************************************************)
EXTENDS PaletteManager, TLAPS

Up == pcM \notin {"down", "init"}

Handling == pcM \in {"commit", "confirm", "fetch", "events", "record"}

-----------------------------------------------------------------------------
(* Types.  The registers of a goroutine hold something exactly where its   *)
(* program counter says so.                                                *)

Registers ==
  /\ Handling => sync < paletteHeight
  /\ pcM = "confirm" => syncTx \in TxIds
  /\ pcM = "record" => curEvent \in Deposits
  /\ pcD \in {"record", "delete"} => curTx \in TxIds /\ curDeposit \in Deposits
  /\ checkMap \subseteq CheckKeys(check)
  /\ pcC = "delete" => checkTx \in TxIds \ checkMap
  /\ Up <=> pcD # "down"
  /\ Up <=> pcC # "down"

TypeInv == TypeOK /\ Registers

-----------------------------------------------------------------------------
(* The validators.                                                         *)

IsHeader(t) == polyTx[t].deposit = NoDeposit /\ polyTx[t].status # "unused"

(* A header that poly can still take on changes the validators, is the     *)
(* first to do so, and MonitorChain has not passed it.                     *)
PendingHeaders ==
  \A t \in TxIds :
    IsHeader(t) /\ polyTx[t].status = "pending" /\ polyTx[t].height > polyEpoch =>
      /\ ValsetAt[polyTx[t].height] # ValsetAt[polyEpoch]
      /\ \A h \in Heights : polyEpoch < h /\ h < polyTx[t].height =>
           ValsetAt[h] = ValsetAt[polyEpoch]
      /\ sync <= polyTx[t].height
      /\ dbHeight < polyTx[t].height

DecidedHeaders ==
  \A t \in TxIds :
    IsHeader(t) /\ polyTx[t].status \in {"ok", "failed"} => polyTx[t].height <= polyEpoch

SavedBlocks ==
  \A h \in Heights : polyEpoch < h /\ h <= dbHeight => ValsetAt[h] = ValsetAt[polyEpoch]

(* lastEpoch may be older than poly's epoch, or have the height of one     *)
(* epoch and the validators of the next: only as long as MonitorChain is   *)
(* not above poly's epoch.                                                 *)
LastEpochIsPolys ==
  /\ lastEpoch.height <= polyEpoch
  /\ Up => /\ lastEpoch.valset # ValsetAt[polyEpoch] => sync <= polyEpoch
           /\ lastEpoch.height = polyEpoch => lastEpoch.valset = ValsetAt[polyEpoch]

BlockInHand ==
  /\ pcM = "commit" => lastEpoch.valset # ValsetAt[sync]
  /\ pcM = "confirm" =>
       IsHeader(syncTx) /\ polyTx[syncTx].height = sync
  /\ pcM \in {"fetch", "events", "record"} =>
       /\ sync <= polyEpoch \/ ValsetAt[sync] = ValsetAt[polyEpoch]
       /\ lastEpoch.valset # ValsetAt[polyEpoch] => sync < polyEpoch

EpochInv ==
  /\ EpochsOnPoly
  /\ PendingHeaders
  /\ DecidedHeaders
  /\ SavedBlocks
  /\ LastEpochIsPolys
  /\ BlockInHand

-----------------------------------------------------------------------------
(* The distance of a proof.                                                *)

StartsAreHigh ==
  /\ SafeBlockDistance <= Genesis
  /\ \A h \in ForceHeights : SafeBlockDistance <= h

HeightsAreHigh ==
  /\ dbHeight = 0 \/ SafeBlockDistance <= dbHeight
  /\ pcM # "down" => SafeBlockDistance <= lastEpoch.height
  /\ Up => SafeBlockDistance <= sync /\ SafeBlockDistance <= depositHeight

SafeInv == SafeProof /\ HeightsAreHigh

-----------------------------------------------------------------------------
(* The deposits.                                                           *)

NothingLoses == Faults \cap {"filter", "stall", "db"} = {}

SentDeposits ==
  \A t \in TxIds :
    /\ polyTx[t].status = "unused" => polyTx[t].deposit = NoDeposit
    /\ check[t] # NoDeposit => polyTx[t].deposit = check[t]
    /\ polyTx[t].deposit # NoDeposit =>
         /\ polyTx[t].deposit \in Kept \cup done
         /\ polyTx[t].status = "ok" => polyTx[t].deposit \in done

(* MonitorDeposit works on deposits that are still in Retry, and removes   *)
(* one only after it is in Check.                                          *)
DepositsInHand ==
  /\ batch \subseteq retry
  /\ pcD \in {"record", "delete"} =>
       /\ curDeposit \in retry \ batch
       /\ polyTx[curTx].deposit = curDeposit
       /\ polyTx[curTx].status \in {"pending", "dropped"}
  /\ pcD = "delete" => check[curTx] = curDeposit

KeptWithout(t) == retry \cup {check[u] : u \in CheckKeys(check) \ {t}}

(* CheckDeposit forgets a transaction whose deposit is safe elsewhere.     *)
CheckInHand ==
  pcC = "delete" =>
    /\ polyTx[checkTx].status \in {"ok", "failed"}
    /\ check[checkTx] # NoDeposit
    /\ check[checkTx] \in done \cup KeptWithout(checkTx)

(* MonitorChain has not forgotten an event of the block it is at.          *)
EventsInHand ==
  pcM \in {"events", "record"} =>
    \A d \in Deposits : DepositHeight[d] = sync =>
      d \in evts \/ (pcM = "record" /\ d = curEvent) \/ d \in Kept \cup done

(* Until a first block is saved, the relayer has not left the block poly   *)
(* was initialised with.                                                   *)
FirstBlock ==
  dbHeight = 0 =>
    /\ polyEpoch = Genesis
    /\ sync <= Genesis
    /\ lastEpoch.height <= Genesis
    /\ \A t \in TxIds : IsHeader(t) => polyTx[t].height <= Genesis

(* Block 0 is never handled: a saved height of 0 means that none is saved. *)
NotBlockZero ==
  /\ pcM # "down" => 0 < lastEpoch.height
  /\ Up => 0 < sync

KeepInv ==
  /\ NoDepositLost
  /\ SentDeposits
  /\ DepositsInHand
  /\ CheckInHand
  /\ EventsInHand
  /\ FirstBlock
  /\ NotBlockZero

-----------------------------------------------------------------------------
(* Lemmas.                                                                 *)

(* A scan of Retry returns deposits that are in it, and a scan of Check    *)
(* transactions that are in it: a truncated scan leaves keys out and       *)
(* invents none.                                                           *)
LEMMA ScansAreSubsets ==
  /\ GetAllRetry(retry) \subseteq retry
  /\ \A S \in GetAllCheck(check) : S \subseteq CheckKeys(check)
BY DEF GetAllRetry, GetAllCheck

(* A start height is a block of the chain, and none above the saved height,*)
(* or, if none is saved, above the height of poly's epoch.                 *)
LEMMA StartHeightIsKnown ==
  ASSUME TypeOK, NEW force \in ForceHeights \cup {0}
  PROVE  /\ StartHeight(force) \in Heights
         /\ StartHeight(force) <= IF dbHeight = 0 THEN lastEpoch.height ELSE dbHeight
BY ConstantsAssumption DEF StartHeight, TypeOK, Heights

(* The types hold initially.                                               *)
LEMMA TypeInvInit == Init => TypeInv
BY ConstantsAssumption
   DEF Init, TypeInv, TypeOK, Registers, Up, Handling, Heights, Valsets, TxStates, Unused,
       NoDeposit, NoTx, CheckKeys

(* Every step keeps the types, and the registers where they are needed.    *)
LEMMA TypeInvStep ==
  ASSUME TypeInv, [Next]_vars
  PROVE  TypeInv'
<1> USE ConstantsAssumption
    DEF TypeInv, TypeOK, Registers, Up, Handling, chainVars, polyVars, dbVars, monVars,
        depVars, chkVars
<1>1. CASE NewBlock
  BY <1>1 DEF NewBlock, Heights
<1>2. ASSUME NEW t \in TxIds, ExecuteTx(t) PROVE TypeInv'
  <2>1. /\ polyTx[t].deposit \in Deposits \cup {NoDeposit}
        /\ polyTx[t].height \in Heights
    BY DEF TxStates
  <2>2. polyTx' \in [TxIds -> TxStates]
    BY <1>2, <2>1 DEF ExecuteTx, Becomes, TxStates
  <2>3. done' \subseteq Deposits
    BY <1>2, <2>1 DEF ExecuteTx
  <2>4. polyEpoch' = polyEpoch \/ (polyEpoch' = polyTx[t].height /\ polyTx[t].height > polyEpoch)
    BY <1>2 DEF ExecuteTx, Succeeds
  <2>5. polyEpoch' \in Genesis..MaxHeight
    BY <2>1, <2>4 DEF Heights
  <2> QED
    BY <1>2, <2>2, <2>3, <2>5 DEF ExecuteTx
<1>3. ASSUME NEW t \in TxIds, DropTx(t) PROVE TypeInv'
  BY <1>3 DEF DropTx, Becomes, TxStates
<1>4. CASE Crash
  BY <1>4 DEF Crash, CheckKeys, NoDeposit
<1>5. CASE FindLastEpoch
  BY <1>5 DEF FindLastEpoch, Heights
<1>6. ASSUME NEW force \in ForceHeights \cup {0}, StartManager(force) PROVE TypeInv'
  <2>1. StartHeight(force) \in Heights
    BY StartHeightIsKnown
  <2>2. lastEpoch' \in [height : Heights, valset : Valsets]
    BY <1>6 DEF StartManager, Valsets, Heights
  <2> QED
    BY <1>6, <2>1, <2>2 DEF StartManager
<1>7. CASE HandleHeader
  BY <1>7 DEF HandleHeader, BlockToHandle
<1>8. CASE SubmitHeader
  BY <1>8 DEF SubmitHeader, Send, TxStates
<1>9. CASE SubmitHeaderFails
  BY <1>9 DEF SubmitHeaderFails
<1>10. CASE ConfirmHeader
  BY <1>10 DEF ConfirmHeader, Valsets
<1>11. CASE FetchEvents
  BY <1>11 DEF FetchEvents
<1>12. ASSUME NEW d \in Deposits, CheckEvent(d) PROVE TypeInv'
  BY <1>12 DEF CheckEvent
<1>13. CASE RecordEvent
  BY <1>13 DEF RecordEvent, PutRetry
<1>14. CASE FinishBlock
  BY <1>14 DEF FinishBlock, Heights
<1>15. CASE StartScan
  BY <1>15, ScansAreSubsets DEF StartScan
<1>16. ASSUME NEW d \in Deposits, SkipDeposit(d) PROVE TypeInv'
  BY <1>16 DEF SkipDeposit, NextInBatch
<1>17. ASSUME NEW d \in Deposits, AlreadyDone(d) PROVE TypeInv'
  <2>1. retry' \subseteq Deposits /\ batch' \subseteq Deposits
    BY <1>17 DEF AlreadyDone, DeleteRetry
  <2> QED
    BY <1>17, <2>1 DEF AlreadyDone
<1>18. ASSUME NEW d \in Deposits, SubmitProof(d) PROVE TypeInv'
  <2>1. SafeHeight \in Heights
    BY <1>18 DEF SubmitProof, SafeHeight, Heights
  <2>2. polyTx' \in [TxIds -> TxStates]
    BY <1>18, <2>1 DEF SubmitProof, Send, TxStates
  <2>3. curTx' \in TxIds /\ curDeposit' = d /\ pcD = "scan" /\ pcD' = "record"
    BY <1>18 DEF SubmitProof, NextInBatch
  <2> QED
    BY <1>18, <2>2, <2>3 DEF SubmitProof
<1>19. CASE RecordSubmission
  <2>1. curTx \in TxIds /\ curDeposit \in Deposits /\ curDeposit # NoDeposit
    BY <1>19 DEF RecordSubmission, NoDeposit
  <2>2. /\ check' \in [TxIds -> Deposits \cup {NoDeposit}]
        /\ \A t \in TxIds : check[t] # NoDeposit => check'[t] # NoDeposit
    BY <1>19, <2>1 DEF RecordSubmission, PutCheck
  <2>3. CheckKeys(check) \subseteq CheckKeys(check)'
    BY <2>2 DEF CheckKeys
  <2> QED
    BY <1>19, <2>1, <2>2, <2>3 DEF RecordSubmission
<1>20. CASE DropSubmitted
  BY <1>20 DEF DropSubmitted, DeleteRetry
<1>21. CASE EndScan
  BY <1>21 DEF EndScan, Heights
<1>22. CASE StartCheck
  BY <1>22, ScansAreSubsets DEF StartCheck, CheckKeys
<1>23. ASSUME NEW t \in TxIds, SkipCheck(t) PROVE TypeInv'
  BY <1>23 DEF SkipCheck
<1>24. ASSUME NEW t \in TxIds, ReadEvent(t) PROVE TypeInv'
  <2>1. check[t] \in Deposits
    BY <1>24 DEF ReadEvent, CheckKeys, NoDeposit
  <2> QED
    BY <1>24, <2>1 DEF ReadEvent, PutRetry
<1>25. CASE ForgetTx
  BY <1>25 DEF ForgetTx, DeleteCheck, CheckKeys
<1>26. CASE EndCheck
  BY <1>26 DEF EndCheck
<1>27. CASE UNCHANGED vars
  BY <1>27 DEF vars, CheckKeys
<1> QED
  BY <1>1, <1>2, <1>3, <1>4, <1>5, <1>6, <1>7, <1>8, <1>9, <1>10, <1>11, <1>12, <1>13,
     <1>14, <1>15, <1>16, <1>17, <1>18, <1>19, <1>20, <1>21, <1>22, <1>23, <1>24, <1>25,
     <1>26, <1>27
     DEF Next, MonitorChain, MonitorDeposit, CheckDeposit

(* Every variable keeps its type, and every register of a goroutine is set *)
(* where the goroutine reads it.                                           *)
THEOREM TypeCorrect == Spec => []TypeOK
<1>1. Init => TypeInv
  BY TypeInvInit
<1>2. TypeInv /\ [Next]_vars => TypeInv'
  BY TypeInvStep
<1>3. TypeInv => TypeOK
  BY DEF TypeInv
<1> QED
  BY <1>1, <1>2, <1>3, PTL DEF Spec

-----------------------------------------------------------------------------
(* The validators: EpochInv is inductive.                                  *)

epochVars == <<polyTx, polyEpoch, dbHeight, pcM, sync, lastEpoch, syncTx>>

(* What the invariant speaks of has these types.                           *)
LEMMA EpochTypes ==
  ASSUME TypeInv
  PROVE  /\ polyEpoch \in Nat /\ sync \in Nat /\ dbHeight \in Nat /\ Genesis \in Nat
         /\ polyEpoch \in Heights /\ sync \in Heights /\ dbHeight \in Heights
         /\ lastEpoch.height \in Nat
         /\ \A h \in Heights : h \in Nat
         /\ \A t \in TxIds : polyTx[t].height \in Heights
BY ConstantsAssumption DEF TypeInv, TypeOK, Heights, TxStates

LEMMA EpochInvInit == Init => EpochInv
BY ConstantsAssumption
   DEF Init, EpochInv, EpochsOnPoly, PendingHeaders, DecidedHeaders, SavedBlocks,
       LastEpochIsPolys, BlockInHand, Up, IsHeader, Unused, Heights

LEMMA EpochInvUnchanged ==
  ASSUME EpochInv, UNCHANGED epochVars
  PROVE  EpochInv'
BY DEF EpochInv, EpochsOnPoly, PendingHeaders, DecidedHeaders, SavedBlocks,
       LastEpochIsPolys, BlockInHand, Up, IsHeader, epochVars

(* Poly executes a transaction.  A header that becomes poly's epoch is the *)
(* first change after the previous one, so no block that MonitorChain has  *)
(* passed lies above it, and no other pending header can follow.           *)
LEMMA EpochInvExecute ==
  ASSUME TypeInv, EpochInv, NEW t \in TxIds, ExecuteTx(t)
  PROVE  EpochInv'
<1>1. /\ UNCHANGED <<dbHeight, pcM, sync, lastEpoch, syncTx>>
      /\ polyTx[t].status = "pending"
      /\ polyTx'[t].deposit = polyTx[t].deposit
      /\ polyTx'[t].height = polyTx[t].height
      /\ polyTx'[t].status \in {"ok", "failed"}
      /\ \A u \in TxIds \ {t} : polyTx'[u] = polyTx[u]
  BY DEF TypeInv, TypeOK, ExecuteTx, Becomes, monVars, dbVars
<1>2. /\ \A u \in TxIds : IsHeader(u)' <=> IsHeader(u)
      /\ \A u \in TxIds : polyTx'[u].height = polyTx[u].height
  BY <1>1 DEF IsHeader
<1>3. CASE IsHeader(t) /\ polyTx[t].height > polyEpoch
  <2>1. polyEpoch' = polyTx[t].height
    BY <1>3 DEF ExecuteTx, Succeeds, IsHeader
  <2>2. /\ ValsetAt[polyEpoch'] # ValsetAt[polyEpoch]
        /\ sync <= polyEpoch' /\ dbHeight < polyEpoch'
        /\ \A h \in Heights : polyEpoch < h /\ h < polyEpoch' => ValsetAt[h] = ValsetAt[polyEpoch]
        /\ polyEpoch < polyEpoch' /\ polyEpoch' \in Heights
    BY <1>1, <1>3, <2>1, EpochTypes DEF EpochInv, PendingHeaders
  <2>3. EpochsOnPoly' /\ SavedBlocks'
    BY <1>1, <2>2, EpochTypes DEF EpochsOnPoly, SavedBlocks
  <2>4. PendingHeaders'
    <3> SUFFICES ASSUME NEW u \in TxIds, IsHeader(u)', polyTx'[u].status = "pending",
                        polyTx'[u].height > polyEpoch'
                 PROVE  FALSE
      BY DEF PendingHeaders
    <3>1. u # t /\ IsHeader(u) /\ polyTx[u].status = "pending" /\ polyTx[u].height > polyEpoch'
      BY <1>1, <1>2
    <3>2. polyTx[u].height > polyEpoch
      BY <3>1, <2>2, EpochTypes
    <3>3. ValsetAt[polyEpoch'] = ValsetAt[polyEpoch]
      BY <3>1, <3>2, <2>2, EpochTypes DEF EpochInv, PendingHeaders
    <3> QED
      BY <3>3, <2>2
  <2>5. DecidedHeaders'
    BY <1>1, <1>2, <2>1, <2>2, EpochTypes DEF EpochInv, DecidedHeaders
  <2>6. LastEpochIsPolys'
    BY <1>1, <2>2, EpochTypes DEF EpochInv, LastEpochIsPolys, Up
  <2>7. BlockInHand'
    <3>1. pcM \in {"fetch", "events", "record"} => sync < polyEpoch'
      BY <2>2, EpochTypes DEF EpochInv, BlockInHand
    <3>2. pcM = "confirm" => IsHeader(syncTx)' /\ polyTx'[syncTx].height = sync
      BY <1>1, <1>2 DEF EpochInv, BlockInHand, IsHeader, TypeInv, Registers
    <3>3. pcM = "commit" => lastEpoch.valset # ValsetAt[sync]
      BY DEF EpochInv, BlockInHand
    <3> QED
      BY <1>1, <2>2, <3>1, <3>2, <3>3, EpochTypes DEF BlockInHand, IsHeader
  <2> QED
    BY <2>3, <2>4, <2>5, <2>6, <2>7 DEF EpochInv
<1>4. CASE ~ (IsHeader(t) /\ polyTx[t].height > polyEpoch)
  <2>1. polyEpoch' = polyEpoch
    BY <1>1, <1>4 DEF ExecuteTx, Succeeds, IsHeader
  <2>2. EpochsOnPoly' /\ SavedBlocks' /\ LastEpochIsPolys'
    BY <1>1, <2>1 DEF EpochInv, EpochsOnPoly, SavedBlocks, LastEpochIsPolys, Up
  <2>3. PendingHeaders'
    BY <1>1, <1>2, <2>1 DEF EpochInv, PendingHeaders
  <2>4. DecidedHeaders'
    BY <1>1, <1>2, <1>4, <2>1, EpochTypes DEF EpochInv, DecidedHeaders
  <2>5. BlockInHand'
    BY <1>1, <1>2, <2>1 DEF EpochInv, BlockInHand, IsHeader, TypeInv, Registers
  <2> QED
    BY <2>2, <2>3, <2>4, <2>5 DEF EpochInv
<1> QED
  BY <1>3, <1>4

(* Poly drops a transaction.                                               *)
LEMMA EpochInvDrop ==
  ASSUME TypeInv, EpochInv, NEW t \in TxIds, DropTx(t)
  PROVE  EpochInv'
<1>1. /\ UNCHANGED <<polyEpoch, dbHeight, pcM, sync, lastEpoch, syncTx>>
      /\ polyTx[t].status = "pending"
      /\ polyTx'[t] = [status |-> "dropped", deposit |-> polyTx[t].deposit,
                       height |-> polyTx[t].height]
      /\ \A u \in TxIds \ {t} : polyTx'[u] = polyTx[u]
  BY DEF TypeInv, TypeOK, DropTx, Becomes, monVars, dbVars
<1>2. /\ \A u \in TxIds : IsHeader(u)' <=> IsHeader(u)
      /\ \A u \in TxIds : polyTx'[u].height = polyTx[u].height
  BY <1>1 DEF IsHeader
<1>3. EpochsOnPoly' /\ SavedBlocks' /\ LastEpochIsPolys'
  BY <1>1 DEF EpochInv, EpochsOnPoly, SavedBlocks, LastEpochIsPolys, Up
<1>4. PendingHeaders' /\ DecidedHeaders'
  BY <1>1, <1>2 DEF EpochInv, PendingHeaders, DecidedHeaders
<1>5. BlockInHand'
  BY <1>1, <1>2 DEF EpochInv, BlockInHand, IsHeader, TypeInv, Registers
<1> QED
  BY <1>3, <1>4, <1>5 DEF EpochInv

(* A transaction that carries a proof is not a header.                     *)
LEMMA EpochInvSubmitProof ==
  ASSUME TypeInv, EpochInv, NEW d \in Deposits, SubmitProof(d)
  PROVE  EpochInv'
<1>1. PICK t \in TxIds : Fresh(t) /\ Send(t, d, SafeHeight)
  BY DEF SubmitProof
<1>2. /\ UNCHANGED <<polyEpoch, dbHeight, pcM, sync, lastEpoch, syncTx>>
      /\ polyTx[t].status = "unused"
      /\ polyTx'[t].deposit # NoDeposit
      /\ \A u \in TxIds \ {t} : polyTx'[u] = polyTx[u]
  BY <1>1, ConstantsAssumption
     DEF TypeInv, TypeOK, SubmitProof, Send, Fresh, monVars, dbVars, NoDeposit
<1>3. /\ ~ IsHeader(t) /\ ~ IsHeader(t)'
      /\ \A u \in TxIds \ {t} : IsHeader(u)' <=> IsHeader(u)
  BY <1>2 DEF IsHeader
<1>4. EpochsOnPoly' /\ SavedBlocks' /\ LastEpochIsPolys'
  BY <1>2 DEF EpochInv, EpochsOnPoly, SavedBlocks, LastEpochIsPolys, Up
<1>5. PendingHeaders' /\ DecidedHeaders'
  BY <1>2, <1>3 DEF EpochInv, PendingHeaders, DecidedHeaders
<1>6. BlockInHand'
  BY <1>2, <1>3 DEF EpochInv, BlockInHand, TypeInv, Registers
<1> QED
  BY <1>4, <1>5, <1>6 DEF EpochInv

(* The other steps of the process and of its start.                        *)
LEMMA EpochInvStart ==
  ASSUME TypeInv, EpochInv, NEW force \in ForceHeights \cup {0}, StartManager(force)
  PROVE  EpochInv'
<1>1. /\ UNCHANGED <<polyTx, polyEpoch, dbHeight, syncTx>>
      /\ pcM' = "loop" /\ sync' = StartHeight(force)
      /\ lastEpoch'.height = lastEpoch.height
      /\ lastEpoch'.valset = ValsetAt[polyEpoch]
  BY DEF StartManager, polyVars, dbVars
<1>2. /\ sync' \in Heights
      /\ sync' <= dbHeight \/ sync' <= polyEpoch
  BY <1>1, StartHeightIsKnown, EpochTypes DEF EpochInv, LastEpochIsPolys, TypeInv
<1>3. EpochsOnPoly' /\ SavedBlocks'
  BY <1>1, <1>2, EpochTypes DEF EpochInv, EpochsOnPoly, SavedBlocks, Heights
<1>4. PendingHeaders' /\ DecidedHeaders'
  BY <1>1, <1>2, EpochTypes DEF EpochInv, PendingHeaders, DecidedHeaders, IsHeader, Heights
<1>5. LastEpochIsPolys' /\ BlockInHand'
  BY <1>1 DEF EpochInv, LastEpochIsPolys, BlockInHand, Up
<1> QED
  BY <1>3, <1>4, <1>5 DEF EpochInv

LEMMA EpochInvCrash ==
  ASSUME TypeInv, EpochInv, Crash \/ FindLastEpoch
  PROVE  EpochInv'
<1>1. /\ UNCHANGED <<polyTx, polyEpoch, dbHeight, sync>>
      /\ pcM' \in {"down", "init"}
      /\ lastEpoch'.height = lastEpoch.height \/ lastEpoch'.height = polyEpoch
  BY DEF Crash, FindLastEpoch, polyVars, dbVars
<1>2. EpochsOnPoly' /\ SavedBlocks' /\ PendingHeaders' /\ DecidedHeaders'
  BY <1>1 DEF EpochInv, EpochsOnPoly, SavedBlocks, PendingHeaders, DecidedHeaders, IsHeader
<1>3. LastEpochIsPolys' /\ BlockInHand'
  BY <1>1, EpochTypes DEF EpochInv, LastEpochIsPolys, BlockInHand, Up
<1> QED
  BY <1>2, <1>3 DEF EpochInv

(* A step of MonitorChain that neither sends a header nor finishes a block.*)
LEMMA EpochInvSameBlock ==
  ASSUME TypeInv, EpochInv,
         UNCHANGED <<polyTx, polyEpoch, dbHeight, sync>>,
         Up, Up', BlockInHand', LastEpochIsPolys'
  PROVE  EpochInv'
BY DEF EpochInv, EpochsOnPoly, SavedBlocks, PendingHeaders, DecidedHeaders, IsHeader

LEMMA EpochInvHandleHeader ==
  ASSUME TypeInv, EpochInv, HandleHeader
  PROVE  EpochInv'
<1>1. /\ UNCHANGED <<polyTx, polyEpoch, dbHeight, sync, lastEpoch>>
      /\ pcM = "loop" /\ pcM' \in {"commit", "fetch"}
  BY DEF HandleHeader, polyVars, dbVars
<1>2. LastEpochIsPolys'
  BY <1>1 DEF EpochInv, LastEpochIsPolys, Up
<1>3. CASE sync > lastEpoch.height /\ IsEpoch
  BY <1>1, <1>2, <1>3, EpochInvSameBlock DEF HandleHeader, IsEpoch, BlockInHand, Up
<1>4. CASE ~ (sync > lastEpoch.height /\ IsEpoch)
  <2>1. pcM' = "fetch"
    BY <1>4 DEF HandleHeader
  <2>2. sync <= lastEpoch.height \/ lastEpoch.valset = ValsetAt[sync]
    BY <1>4, EpochTypes DEF IsEpoch
  <2>3. sync <= polyEpoch \/ ValsetAt[sync] = ValsetAt[polyEpoch]
    BY <1>1, <2>2, EpochTypes DEF EpochInv, LastEpochIsPolys, Up
  <2>4. lastEpoch.valset # ValsetAt[polyEpoch] => sync < polyEpoch
    BY <1>1, <2>2, EpochTypes DEF EpochInv, LastEpochIsPolys, Up
  <2> QED
    BY <1>1, <1>2, <2>1, <2>3, <2>4, EpochInvSameBlock DEF BlockInHand, Up
<1> QED
  BY <1>3, <1>4

(* The header of the block at hand changes the validators, and MonitorChain*)
(* has seen no other change above poly's epoch.                            *)
LEMMA EpochInvSubmitHeader ==
  ASSUME TypeInv, EpochInv, SubmitHeader
  PROVE  EpochInv'
<1>1. PICK t \in TxIds : Fresh(t) /\ Send(t, NoDeposit, sync) /\ syncTx' = t
  BY DEF SubmitHeader
<1>2. /\ UNCHANGED <<polyEpoch, dbHeight, sync, lastEpoch>>
      /\ pcM = "commit" /\ pcM' = "confirm" /\ sync > polyEpoch
      /\ polyTx'[t] = [status |-> "pending", deposit |-> NoDeposit, height |-> sync]
      /\ \A u \in TxIds \ {t} : polyTx'[u] = polyTx[u]
  BY <1>1 DEF TypeInv, TypeOK, SubmitHeader, Send, dbVars
<1>3. /\ IsHeader(t)'
      /\ \A u \in TxIds \ {t} : IsHeader(u)' <=> IsHeader(u)
  BY <1>2 DEF IsHeader
<1>4. ValsetAt[sync] # ValsetAt[polyEpoch]
  BY <1>2, EpochTypes DEF EpochInv, BlockInHand, LastEpochIsPolys, Up
<1>5. dbHeight < sync
  BY <1>2, <1>4, EpochTypes DEF EpochInv, SavedBlocks
<1>6. EpochsOnPoly' /\ SavedBlocks' /\ LastEpochIsPolys'
  BY <1>2 DEF EpochInv, EpochsOnPoly, SavedBlocks, LastEpochIsPolys, Up
<1>7. PendingHeaders'
  <2>1. PendingHeaders!(t)'
    BY <1>2, <1>4, <1>5, EpochTypes DEF EpochInv, EpochsOnPoly
  <2> QED
    BY <1>2, <1>3, <2>1 DEF EpochInv, PendingHeaders
<1>8. DecidedHeaders'
  BY <1>2, <1>3 DEF EpochInv, DecidedHeaders
<1>9. BlockInHand'
  BY <1>1, <1>2, <1>3 DEF BlockInHand
<1> QED
  BY <1>6, <1>7, <1>8, <1>9 DEF EpochInv

LEMMA EpochInvConfirm ==
  ASSUME TypeInv, EpochInv, ConfirmHeader
  PROVE  EpochInv'
<1>1. /\ UNCHANGED <<polyTx, polyEpoch, dbHeight, sync>>
      /\ pcM = "confirm" /\ pcM' = "fetch"
      /\ lastEpoch' = [height |-> sync, valset |-> ValsetAt[sync]]
      /\ polyTx[syncTx].status \in {"ok", "failed"} /\ syncTx \in TxIds
  BY DEF ConfirmHeader, HeaderInBlock, polyVars, dbVars, TypeInv, Registers
<1>2. sync <= polyEpoch
  BY <1>1 DEF EpochInv, BlockInHand, DecidedHeaders
<1>3. ValsetAt[sync] # ValsetAt[polyEpoch] => sync < polyEpoch
  BY <1>2, EpochTypes
<1>4. LastEpochIsPolys' /\ BlockInHand'
  BY <1>1, <1>2, <1>3, EpochTypes DEF LastEpochIsPolys, BlockInHand, Up
<1> QED
  BY <1>1, <1>4, EpochInvSameBlock DEF Up

LEMMA EpochInvFinishBlock ==
  ASSUME TypeInv, EpochInv, FinishBlock
  PROVE  EpochInv'
<1>1. /\ UNCHANGED <<polyTx, polyEpoch, lastEpoch>>
      /\ pcM = "events" /\ pcM' = "loop"
      /\ dbHeight' \in {sync, dbHeight} /\ sync' = sync + 1
  BY DEF FinishBlock, polyVars
<1>2. /\ sync <= polyEpoch \/ ValsetAt[sync] = ValsetAt[polyEpoch]
      /\ lastEpoch.valset # ValsetAt[polyEpoch] => sync < polyEpoch
  BY <1>1 DEF EpochInv, BlockInHand
<1>3. EpochsOnPoly'
  BY <1>1, <1>2, EpochTypes DEF EpochInv, EpochsOnPoly
<1>4. SavedBlocks'
  <2>1. CASE dbHeight' = dbHeight
    BY <1>1, <2>1 DEF EpochInv, SavedBlocks
  <2>2. CASE dbHeight' = sync
    <3> SUFFICES ASSUME NEW h \in Heights, polyEpoch < h, h <= sync
                 PROVE  ValsetAt[h] = ValsetAt[polyEpoch]
      BY <1>1, <2>2 DEF SavedBlocks
    <3>1. CASE h = sync
      BY <1>2, <3>1, EpochTypes
    <3>2. CASE h < sync
      BY <3>2 DEF EpochInv, EpochsOnPoly
    <3> QED
      BY <3>1, <3>2, EpochTypes
  <2> QED
    BY <1>1, <2>1, <2>2
<1>5. PendingHeaders'
  <2> SUFFICES ASSUME NEW t \in TxIds, IsHeader(t), polyTx[t].status = "pending",
                      polyTx[t].height > polyEpoch
               PROVE  sync < polyTx[t].height
    BY <1>1, EpochTypes DEF EpochInv, PendingHeaders, IsHeader
  <2>1. sync <= polyTx[t].height /\ ValsetAt[polyTx[t].height] # ValsetAt[polyEpoch]
    BY DEF EpochInv, PendingHeaders
  <2>2. sync # polyTx[t].height
    BY <1>2, <2>1, EpochTypes
  <2> QED
    BY <2>1, <2>2, EpochTypes
<1>6. DecidedHeaders' /\ LastEpochIsPolys' /\ BlockInHand'
  BY <1>1, <1>2, EpochTypes
     DEF EpochInv, DecidedHeaders, LastEpochIsPolys, BlockInHand, IsHeader, Up
<1> QED
  BY <1>3, <1>4, <1>5, <1>6 DEF EpochInv

(* The rest of a block.                                                    *)
LEMMA EpochInvEvents ==
  ASSUME TypeInv, EpochInv,
         \/ SubmitHeaderFails \/ FetchEvents \/ RecordEvent
         \/ \E d \in Deposits : CheckEvent(d)
  PROVE  EpochInv'
<1>1. /\ UNCHANGED <<polyTx, polyEpoch, dbHeight, sync, lastEpoch>>
      /\ Up /\ Up'
      /\ \/ pcM' = "loop"
         \/ pcM \in {"fetch", "events", "record"} /\ pcM' \in {"fetch", "events", "record"}
  BY DEF SubmitHeaderFails, FetchEvents, CheckEvent, RecordEvent, polyVars, dbVars, Up
<1>2. LastEpochIsPolys'
  BY <1>1 DEF EpochInv, LastEpochIsPolys
<1>3. BlockInHand'
  BY <1>1 DEF EpochInv, BlockInHand
<1> QED
  BY <1>1, <1>2, <1>3, EpochInvSameBlock

LEMMA EpochInvStep ==
  ASSUME TypeInv, EpochInv, [Next]_vars
  PROVE  EpochInv'
<1>1. CASE NewBlock
  BY <1>1, EpochInvUnchanged DEF NewBlock, epochVars, polyVars, dbVars, monVars
<1>2. CASE MonitorChain
  BY <1>2, EpochInvHandleHeader, EpochInvSubmitHeader, EpochInvConfirm, EpochInvFinishBlock,
     EpochInvEvents DEF MonitorChain
<1>3. CASE MonitorDeposit
  <2>1. CASE StartScan \/ RecordSubmission \/ DropSubmitted \/ EndScan
    BY <2>1, EpochInvUnchanged
       DEF StartScan, RecordSubmission, DropSubmitted, EndScan, epochVars, polyVars, dbVars, monVars
  <2>2. ASSUME NEW d \in Deposits, SkipDeposit(d) \/ AlreadyDone(d) PROVE EpochInv'
    BY <2>2, EpochInvUnchanged
       DEF SkipDeposit, AlreadyDone, epochVars, polyVars, dbVars, monVars
  <2> QED
    BY <1>3, <2>1, <2>2, EpochInvSubmitProof DEF MonitorDeposit
<1>4. CASE CheckDeposit
  <2>1. UNCHANGED epochVars
    BY <1>4 DEF CheckDeposit, StartCheck, SkipCheck, ReadEvent, ForgetTx, EndCheck, epochVars,
                polyVars, dbVars, monVars
  <2> QED
    BY <2>1, EpochInvUnchanged
<1>5. CASE UNCHANGED vars
  BY <1>5, EpochInvUnchanged DEF vars, epochVars, polyVars, dbVars, monVars
<1> QED
  BY <1>1, <1>2, <1>3, <1>4, <1>5, EpochInvExecute, EpochInvDrop, EpochInvCrash, EpochInvStart
     DEF Next

(* MonitorChain never passes a change of the validators poly does not have.*)
THEOREM EpochsOnPolySafe == Spec => []EpochsOnPoly
<1>1. Init => TypeInv /\ EpochInv
  BY TypeInvInit, EpochInvInit
<1>2. TypeInv /\ EpochInv /\ [Next]_vars => (TypeInv /\ EpochInv)'
  BY TypeInvStep, EpochInvStep
<1>3. EpochInv => EpochsOnPoly
  BY DEF EpochInv
<1> QED
  BY <1>1, <1>2, <1>3, PTL DEF Spec

-----------------------------------------------------------------------------
(* The distance of a proof.                                                *)

(* Far from zero the subtraction of handleDepositEvents does not wrap: a   *)
(* deposit that passes its guard is deep enough.                           *)
LEMMA GuardIsDistance ==
  ASSUME TypeOK, NEW d \in Deposits, SafeBlockDistance <= depositHeight, ~ TooYoung(d)
  PROVE  DepositHeight[d] + SafeBlockDistance <= SafeHeight
BY ConstantsAssumption
   DEF TypeOK, TooYoung, Sub64, SafeBlockDistance, SafeHeight, Heights

LEMMA SafeInvInit == Init => SafeInv
BY ConstantsAssumption DEF Init, SafeInv, SafeProof, HeightsAreHigh, Up, Unused

(* Transactions keep the deposit and the height they were sent with.       *)
LEMMA SafeInvStep ==
  ASSUME StartsAreHigh, TypeInv, SafeInv, [Next]_vars
  PROVE  SafeInv'
<1>0. /\ SafeBlockDistance \in Nat
      /\ sync \in Nat /\ dbHeight \in Nat /\ depositHeight \in Nat /\ polyEpoch \in Nat
      /\ lastEpoch.height \in Nat /\ Genesis <= polyEpoch /\ Genesis \in Nat
      /\ \A h \in ForceHeights : h \in Nat
  BY ConstantsAssumption DEF SafeBlockDistance, TypeInv, TypeOK, Heights
<1>1. ASSUME NEW t \in TxIds, ExecuteTx(t) \/ DropTx(t) PROVE SafeInv'
  <2>1. \A u \in TxIds : polyTx'[u].deposit = polyTx[u].deposit
                       /\ polyTx'[u].height = polyTx[u].height
    BY <1>1 DEF ExecuteTx, DropTx, Becomes, TypeInv, TypeOK
  <2> QED
    BY <1>1, <2>1
       DEF ExecuteTx, DropTx, SafeInv, SafeProof, HeightsAreHigh, Up, dbVars, monVars, depVars
<1>2. CASE Crash \/ FindLastEpoch
  BY <1>0, <1>2
     DEF Crash, FindLastEpoch, StartsAreHigh, SafeInv, SafeProof, HeightsAreHigh, Up,
         polyVars, dbVars, monVars, depVars
<1>3. ASSUME NEW force \in ForceHeights \cup {0}, StartManager(force) PROVE SafeInv'
  <2>1. SafeBlockDistance <= StartHeight(force)
    BY <1>0, <1>3 DEF StartManager, StartHeight, StartsAreHigh, SafeInv, HeightsAreHigh
  <2> QED
    BY <1>3, <2>1
       DEF StartManager, SafeInv, SafeProof, HeightsAreHigh, Up, polyVars, dbVars
<1>4. CASE SubmitHeader
  <2>1. PICK t \in TxIds : Send(t, NoDeposit, sync)
    BY <1>4 DEF SubmitHeader
  <2>2. /\ polyTx'[t].deposit = NoDeposit
        /\ \A u \in TxIds \ {t} : polyTx'[u] = polyTx[u]
    BY <2>1 DEF Send, TypeInv, TypeOK
  <2> QED
    BY <1>4, <2>2 DEF SubmitHeader, SafeInv, SafeProof, HeightsAreHigh, Up, dbVars, depVars
<1>5. CASE ConfirmHeader
  BY <1>5 DEF ConfirmHeader, SafeInv, SafeProof, HeightsAreHigh, Up, polyVars, dbVars, depVars
<1>6. CASE FinishBlock
  BY <1>0, <1>6
     DEF FinishBlock, SafeInv, SafeProof, HeightsAreHigh, Up, polyVars, depVars
<1>7. CASE NewBlock \/ HandleHeader \/ SubmitHeaderFails \/ FetchEvents \/ RecordEvent
           \/ \E d \in Deposits : CheckEvent(d)
  <2>1. /\ UNCHANGED <<polyTx, dbHeight, sync, lastEpoch, depositHeight>>
        /\ (pcM' = "down") = (pcM = "down") /\ Up' = Up
    BY <1>7
       DEF NewBlock, HandleHeader, SubmitHeaderFails, FetchEvents, RecordEvent, CheckEvent, Up,
           polyVars, dbVars, monVars, depVars
  <2> QED
    BY <2>1 DEF SafeInv, SafeProof, HeightsAreHigh
<1>8. ASSUME NEW d \in Deposits, SubmitProof(d) PROVE SafeInv'
  <2>1. PICK t \in TxIds : Send(t, d, SafeHeight)
    BY <1>8 DEF SubmitProof
  <2>2. /\ polyTx'[t] = [status |-> "pending", deposit |-> d, height |-> SafeHeight]
        /\ \A u \in TxIds \ {t} : polyTx'[u] = polyTx[u]
    BY <2>1 DEF Send, TypeInv, TypeOK
  <2>3. Up
    BY <1>8 DEF SubmitProof, NextInBatch, TypeInv, Registers
  <2>4. DepositHeight[d] + SafeBlockDistance <= SafeHeight
    BY <1>8, <2>3, GuardIsDistance DEF SubmitProof, SafeInv, HeightsAreHigh, TypeInv
  <2>5. SafeProof'
    BY <2>2, <2>4 DEF SafeInv, SafeProof, SafeBlockDistance
  <2> QED
    BY <1>8, <2>5 DEF SubmitProof, SafeInv, HeightsAreHigh, Up, SafeBlockDistance, dbVars, monVars
<1>9. CASE EndScan
  BY <1>0, <1>9
     DEF EndScan, SafeInv, SafeProof, HeightsAreHigh, Up, polyVars, dbVars, monVars
<1>10. CASE StartScan \/ RecordSubmission \/ DropSubmitted
            \/ \E d \in Deposits : SkipDeposit(d) \/ AlreadyDone(d)
  <2>1. UNCHANGED <<polyTx, dbHeight, pcM, sync, lastEpoch, depositHeight>>
    BY <1>10
       DEF StartScan, RecordSubmission, DropSubmitted, SkipDeposit, AlreadyDone,
           polyVars, dbVars, monVars
  <2> QED
    BY <2>1 DEF SafeInv, SafeProof, HeightsAreHigh, Up
<1>11. CASE CheckDeposit \/ UNCHANGED vars
  <2>1. UNCHANGED <<polyTx, dbHeight, pcM, sync, lastEpoch, depositHeight>>
    BY <1>11
       DEF CheckDeposit, StartCheck, SkipCheck, ReadEvent, ForgetTx, EndCheck, vars,
           polyVars, dbVars, monVars, depVars
  <2> QED
    BY <2>1 DEF SafeInv, SafeProof, HeightsAreHigh, Up
<1> QED
  BY <1>1, <1>2, <1>3, <1>4, <1>5, <1>6, <1>7, <1>8, <1>9, <1>10, <1>11
     DEF Next, MonitorChain, MonitorDeposit

(* Unless poly was initialised, or the relayer is started, closer to block *)
(* 0 than the safe block distance, every proof is that deep.               *)
THEOREM ProofsAreSafe == StartsAreHigh /\ Spec => []SafeProof
<1>1. TypeInv /\ [Next]_vars => TypeInv'
  BY TypeInvStep
<1>2. StartsAreHigh /\ TypeInv /\ SafeInv /\ [Next]_vars => SafeInv'
  BY SafeInvStep
<1>3. SafeInv => SafeProof
  BY DEF SafeInv
<1>4. StartsAreHigh => [](StartsAreHigh)
  <2>1. StartsAreHigh => StartsAreHigh'
    BY DEF StartsAreHigh, SafeBlockDistance
  <2> QED
    BY <2>1, PTL
<1> QED
  BY <1>1, <1>2, <1>3, <1>4, TypeInvInit, SafeInvInit, PTL DEF Spec

-----------------------------------------------------------------------------
(* The deposits.                                                           *)

Checks == [TxIds -> Deposits \cup {NoDeposit}]

(* A deposit is kept if it is in Retry or if some transaction in Check     *)
(* carries it.                                                             *)
LEMMA KeptMembers ==
  ASSUME NEW r, NEW c \in Checks, NEW x
  PROVE  x \in KeptOf(r, c) <=>
           x \in r \/ \E t \in TxIds : c[t] = x /\ c[t] # NoDeposit
BY DEF KeptOf, CheckKeys, Checks

LEMMA KeptWithoutMembers ==
  ASSUME TypeOK, NEW t, NEW x
  PROVE  x \in KeptWithout(t) <=>
           x \in retry \/ \E u \in TxIds \ {t} : check[u] = x /\ check[u] # NoDeposit
BY DEF KeptWithout, CheckKeys, TypeOK

LEMMA KeepInvInit == Init => KeepInv
<1> SUFFICES ASSUME Init PROVE KeepInv
  OBVIOUS
<1>1. \A t \in TxIds : polyTx[t] = Unused /\ check[t] = NoDeposit
  BY DEF Init
<1>2. SentDeposits /\ DepositsInHand /\ CheckInHand /\ EventsInHand
  BY <1>1 DEF Init, SentDeposits, DepositsInHand, CheckInHand, EventsInHand, Unused
<1>3. FirstBlock
  BY <1>1, ConstantsAssumption DEF Init, FirstBlock, IsHeader, Unused
<1>4. NoDepositLost /\ NotBlockZero
  BY ConstantsAssumption DEF Init, NoDepositLost, NotBlockZero, Up, Heights
<1> QED
  BY <1>2, <1>3, <1>4 DEF KeepInv

(* The steps that change what is kept or what is done, one by one: each is *)
(* a step of Outbox.                                                       *)
LEMMA OutboxExecute ==
  ASSUME TypeInv, KeepInv, NEW t \in TxIds, ExecuteTx(t)
  PROVE  [Promise!Next]_<<Kept, done>>
<1>1. Kept' = Kept
  BY DEF ExecuteTx, Kept, dbVars
<1>2. CASE done' = done
  BY <1>1, <1>2
<1>3. CASE done' # done
  <2>1. /\ polyTx[t].deposit \in Deposits \ done
        /\ done' = done \cup {polyTx[t].deposit}
    BY <1>3 DEF ExecuteTx, Succeeds, TypeInv, TypeOK, TxStates
  <2>2. polyTx[t].deposit \in Kept
    BY <2>1, ConstantsAssumption DEF KeepInv, SentDeposits, NoDeposit
  <2> QED
    BY <1>1, <2>1, <2>2 DEF Promise!Next, Promise!Deliver
<1> QED
  BY <1>2, <1>3

LEMMA OutboxRecordEvent ==
  ASSUME TypeInv, NothingLoses, RecordEvent
  PROVE  [Promise!Next]_<<Kept, done>>
<1>1. /\ retry' = retry \cup {curEvent} /\ check' = check /\ done' = done
      /\ curEvent \in Deposits
  BY DEF NothingLoses, WriteFails, RecordEvent, PutRetry, polyVars, TypeInv, Registers
<1>2. Kept' = Kept \cup {curEvent}
  BY <1>1 DEF Kept, KeptOf
<1> QED
  BY <1>1, <1>2 DEF Promise!Next, Promise!Accept

LEMMA OutboxAlreadyDone ==
  ASSUME TypeInv, KeepInv, NothingLoses, NEW d \in Deposits, AlreadyDone(d)
  PROVE  [Promise!Next]_<<Kept, done>>
<1>1. /\ retry' = retry \ {d} /\ check' = check /\ done' = done
      /\ d \in retry /\ d \in done
  BY DEF NothingLoses, WriteFails, AlreadyDone, TxAlreadyDone, NextInBatch, DeleteRetry, polyVars, KeepInv, DepositsInHand
<1>2. d \in Kept /\ (Kept' = Kept \/ Kept' = Kept \ {d})
  BY <1>1 DEF Kept, KeptOf
<1> QED
  BY <1>1, <1>2 DEF Promise!Next, Promise!Settle

LEMMA OutboxRecordSubmission ==
  ASSUME TypeInv, KeepInv, NothingLoses, RecordSubmission
  PROVE  /\ Kept' = Kept /\ done' = done
         /\ check' = [check EXCEPT ![curTx] = curDeposit]
         /\ curTx \in TxIds /\ curDeposit \in Deposits /\ curDeposit # NoDeposit
<1>1. /\ retry' = retry /\ done' = done
      /\ check' = [check EXCEPT ![curTx] = curDeposit]
      /\ curTx \in TxIds /\ curDeposit \in Deposits /\ curDeposit # NoDeposit
      /\ curDeposit \in retry
      /\ check[curTx] # NoDeposit => check[curTx] = curDeposit
  BY ConstantsAssumption
     DEF NothingLoses, WriteFails, RecordSubmission, PutCheck, polyVars, KeepInv, DepositsInHand, SentDeposits, TypeInv,
         Registers, NoDeposit
<1>2. check \in Checks /\ check' \in Checks
  BY <1>1 DEF Checks, TypeInv, TypeOK
<1>3. \A u \in TxIds : check'[u] = IF u = curTx THEN curDeposit ELSE check[u]
  BY <1>1, <1>2 DEF Checks
<1>4. ASSUME NEW x PROVE x \in KeptOf(retry, check') <=> x \in KeptOf(retry, check)
  <2>1. x \in KeptOf(retry, check') <=>
          x \in retry \/ \E t \in TxIds : check'[t] = x /\ check'[t] # NoDeposit
    BY <1>2, KeptMembers
  <2>2. x \in KeptOf(retry, check) <=>
          x \in retry \/ \E t \in TxIds : check[t] = x /\ check[t] # NoDeposit
    BY <1>2, KeptMembers
  <2> QED
    BY <1>1, <1>3, <2>1, <2>2
<1> QED
  BY <1>1, <1>4 DEF Kept

LEMMA OutboxDropSubmitted ==
  ASSUME TypeInv, KeepInv, NothingLoses, DropSubmitted
  PROVE  Kept' = Kept /\ done' = done /\ retry' = retry \ {curDeposit}
<1>1. /\ retry' = retry \ {curDeposit} /\ check' = check /\ done' = done
      /\ curTx \in TxIds /\ check[curTx] = curDeposit /\ curDeposit # NoDeposit
  BY ConstantsAssumption
     DEF NothingLoses, WriteFails, DropSubmitted, DeleteRetry, polyVars, KeepInv, DepositsInHand, TypeInv, Registers,
         NoDeposit
<1>2. check \in Checks
  BY DEF Checks, TypeInv, TypeOK
<1>3. ASSUME NEW x PROVE x \in KeptOf(retry', check) <=> x \in KeptOf(retry, check)
  BY <1>1, <1>2, KeptMembers
<1> QED
  BY <1>1, <1>3 DEF Kept

LEMMA OutboxReadEvent ==
  ASSUME TypeInv, NothingLoses, NEW t \in TxIds, ReadEvent(t)
  PROVE  /\ Kept' = Kept /\ done' = done /\ check' = check
         /\ retry' = IF polyTx[t].status = "failed" THEN retry \cup {check[t]} ELSE retry
         /\ check[t] # NoDeposit
<1>1. /\ check' = check /\ done' = done
      /\ retry' = IF polyTx[t].status = "failed" THEN retry \cup {check[t]} ELSE retry
      /\ check[t] # NoDeposit
  BY DEF NothingLoses, WriteFails, Failed, ReadEvent, PutRetry, polyVars, TypeInv, Registers, CheckKeys
<1>2. check \in Checks
  BY DEF Checks, TypeInv, TypeOK
<1>3. ASSUME NEW x PROVE x \in KeptOf(retry', check) <=> x \in KeptOf(retry, check)
  BY <1>1, <1>2, KeptMembers
<1> QED
  BY <1>1, <1>3 DEF Kept

LEMMA OutboxForgetTx ==
  ASSUME TypeInv, KeepInv, NothingLoses, ForgetTx
  PROVE  [Promise!Next]_<<Kept, done>>
<1>1. /\ retry' = retry /\ done' = done /\ checkTx \in TxIds
      /\ check' = [check EXCEPT ![checkTx] = NoDeposit]
  BY DEF NothingLoses, WriteFails, ForgetTx, DeleteCheck, polyVars, TypeInv, Registers
<1>2. check \in Checks /\ check' \in Checks
  BY <1>1 DEF Checks, TypeInv, TypeOK
<1>3. \A u \in TxIds : check'[u] = IF u = checkTx THEN NoDeposit ELSE check[u]
  BY <1>1, <1>2 DEF Checks
<1> DEFINE d == check[checkTx]
<1>4. d # NoDeposit /\ d \in Deposits /\ d \in done \cup KeptWithout(checkTx)
  BY <1>1, <1>2 DEF ForgetTx, KeepInv, CheckInHand, Checks
<1> HIDE DEF d
<1>5. d \in Kept
  BY <1>1, <1>2, <1>4, KeptMembers DEF Kept, d
<1>6. ASSUME NEW x
      PROVE  x \in KeptOf(retry, check') <=> x \in KeptWithout(checkTx)
  <2>1. x \in KeptOf(retry, check') <=>
          x \in retry \/ \E t \in TxIds : check'[t] = x /\ check'[t] # NoDeposit
    BY <1>2, KeptMembers
  <2>2. x \in KeptWithout(checkTx) <=>
          x \in retry \/ \E t \in TxIds \ {checkTx} : check[t] = x /\ check[t] # NoDeposit
    BY KeptWithoutMembers DEF TypeInv
  <2> QED
    BY <1>1, <1>3, <2>1, <2>2
<1>7. Kept' = KeptWithout(checkTx)
  BY <1>1, <1>6 DEF Kept, KeptWithout
<1>8. ASSUME NEW x, x # d
      PROVE  x \in KeptWithout(checkTx) <=> x \in Kept
  BY <1>1, <1>2, <1>8, KeptMembers, KeptWithoutMembers DEF TypeInv, Kept, d
<1>9. CASE d \in KeptWithout(checkTx)
  <2>1. Kept' = Kept
    BY <1>5, <1>7, <1>8, <1>9 DEF Kept, KeptOf, KeptWithout
  <2> QED
    BY <1>1, <2>1
<1>10. CASE d \notin KeptWithout(checkTx)
  <2>1. Kept' = Kept \ {d}
    BY <1>7, <1>8, <1>10 DEF Kept, KeptOf, KeptWithout
  <2> QED
    BY <1>1, <1>4, <1>5, <1>10, <2>1 DEF Promise!Next, Promise!Settle
<1> QED
  BY <1>9, <1>10

(* Every step is a step of Outbox, or changes nothing it speaks of.        *)
LEMMA OutboxStep ==
  ASSUME TypeInv, KeepInv, NothingLoses, [Next]_vars
  PROVE  [Promise!Next]_<<Kept, done>>
<1>1. ASSUME UNCHANGED <<retry, check, done>>
      PROVE  [Promise!Next]_<<Kept, done>>
  BY <1>1 DEF Kept
<1>2. ASSUME NEW t \in TxIds, DropTx(t) PROVE [Promise!Next]_<<Kept, done>>
  BY <1>1, <1>2 DEF DropTx, dbVars
<1>3. CASE NewBlock \/ Crash \/ FindLastEpoch \/ UNCHANGED vars
           \/ \E force \in ForceHeights \cup {0} : StartManager(force)
  BY <1>1, <1>3
     DEF NewBlock, Crash, FindLastEpoch, StartManager, vars, polyVars, dbVars
<1>4. CASE MonitorChain
  <2>1. CASE ~ RecordEvent
    BY <1>1, <1>4, <2>1
       DEF MonitorChain, HandleHeader, SubmitHeader, SubmitHeaderFails, ConfirmHeader,
           FetchEvents, CheckEvent, FinishBlock, polyVars, dbVars
  <2> QED
    BY <2>1, OutboxRecordEvent
<1>5. CASE MonitorDeposit
  <2>1. CASE StartScan \/ EndScan \/ \E d \in Deposits : SkipDeposit(d) \/ SubmitProof(d)
    BY <1>1, <2>1 DEF StartScan, EndScan, SkipDeposit, SubmitProof, polyVars, dbVars
  <2> QED
    BY <1>5, <2>1, OutboxAlreadyDone, OutboxRecordSubmission, OutboxDropSubmitted
       DEF MonitorDeposit
<1>6. CASE CheckDeposit
  <2>1. CASE StartCheck \/ EndCheck \/ \E t \in TxIds : SkipCheck(t)
    BY <1>1, <2>1 DEF StartCheck, EndCheck, SkipCheck, polyVars, dbVars
  <2> QED
    BY <1>6, <2>1, OutboxReadEvent, OutboxForgetTx DEF CheckDeposit
<1> QED
  BY <1>2, <1>3, <1>4, <1>5, <1>6, OutboxExecute DEF Next

(* Hence a deposit that is kept or done stays so.                          *)
Safe(d) == d \in Kept \cup done

LEMMA SafeForEver ==
  ASSUME [Promise!Next]_<<Kept, done>>, NEW d, Safe(d)
  PROVE  Safe(d)'
BY DEF Safe, Promise!Next, Promise!Accept, Promise!Deliver, Promise!Settle

(* Each part of KeepInv lives on as long as what it speaks of does not     *)
(* change.                                                                 *)
LEMMA KeepInvFrame ==
  ASSUME KeepInv, [Promise!Next]_<<Kept, done>>
  PROVE  /\ UNCHANGED <<sync, dbHeight>> => NoDepositLost'
         /\ UNCHANGED <<polyTx, check, done>> => SentDeposits'
         /\ UNCHANGED <<polyTx, check, pcD, batch, curTx, curDeposit>> /\ retry \subseteq retry'
              => DepositsInHand'
         /\ UNCHANGED <<polyTx, check, pcC, checkTx>> /\ retry \subseteq retry'
              => CheckInHand'
         /\ UNCHANGED <<pcM, sync, evts, curEvent>> => EventsInHand'
         /\ UNCHANGED <<polyTx, polyEpoch, dbHeight, sync, lastEpoch>> => FirstBlock'
         /\ UNCHANGED <<sync, lastEpoch, pcM>> => NotBlockZero'
<1>1. UNCHANGED <<sync, dbHeight>> => NoDepositLost'
  BY SafeForEver DEF KeepInv, NoDepositLost, Safe
<1>2. UNCHANGED <<polyTx, check, done>> => SentDeposits'
  BY SafeForEver DEF KeepInv, SentDeposits, Safe
<1>3. UNCHANGED <<polyTx, check, pcD, batch, curTx, curDeposit>> /\ retry \subseteq retry'
        => DepositsInHand'
  BY DEF KeepInv, DepositsInHand
<1>4. UNCHANGED <<polyTx, check, pcC, checkTx>> /\ retry \subseteq retry' => CheckInHand'
  <2>1. done \subseteq done'
    BY DEF Promise!Next, Promise!Accept, Promise!Deliver, Promise!Settle
  <2> QED
    BY <2>1 DEF KeepInv, CheckInHand, KeptWithout
<1>5. UNCHANGED <<pcM, sync, evts, curEvent>> => EventsInHand'
  BY SafeForEver DEF KeepInv, EventsInHand, Safe
<1>6. UNCHANGED <<polyTx, polyEpoch, dbHeight, sync, lastEpoch>> => FirstBlock'
  BY DEF KeepInv, FirstBlock, IsHeader
<1>7. UNCHANGED <<sync, lastEpoch, pcM>> => NotBlockZero'
  BY DEF KeepInv, NotBlockZero, Up
<1> QED
  BY <1>1, <1>2, <1>3, <1>4, <1>5, <1>6, <1>7

(* The chains.  Poly does not decide the transaction MonitorDeposit is     *)
(* recording, nor again one that CheckDeposit has read.                    *)
LEMMA KeepInvExecute ==
  ASSUME TypeInv, KeepInv, NothingLoses, [Next]_vars,
         NEW t \in TxIds, ExecuteTx(t) \/ DropTx(t)
  PROVE  KeepInv'
<1>1. /\ UNCHANGED <<dbVars, monVars, depVars, chkVars>>
      /\ polyTx[t].status = "pending"
      /\ polyTx'[t].deposit = polyTx[t].deposit /\ polyTx'[t].height = polyTx[t].height
      /\ polyTx'[t].status \in {"ok", "failed", "dropped"}
      /\ \A u \in TxIds \ {t} : polyTx'[u] = polyTx[u]
  BY DEF TypeInv, TypeOK, ExecuteTx, DropTx, Becomes
<1>2. [Promise!Next]_<<Kept, done>>
  BY OutboxStep
<1>3. NoDepositLost' /\ EventsInHand' /\ NotBlockZero'
  BY <1>1, <1>2, KeepInvFrame DEF dbVars, monVars
<1>4. SentDeposits'
  <2>1. polyTx'[t].status = "ok" /\ polyTx[t].deposit # NoDeposit => polyTx[t].deposit \in done'
    BY DEF ExecuteTx, DropTx, Succeeds, Becomes, TypeInv, TypeOK
  <2>2. done \subseteq done'
    BY <1>2 DEF Promise!Next, Promise!Accept, Promise!Deliver, Promise!Settle
  <2>3. ASSUME NEW u \in TxIds, polyTx[u].deposit # NoDeposit
        PROVE  polyTx[u].deposit \in (Kept \cup done)'
    BY <1>2, <2>3, SafeForEver DEF KeepInv, SentDeposits, Safe
  <2> QED
    BY <1>1, <2>1, <2>2, <2>3 DEF KeepInv, SentDeposits, dbVars
<1>5. DepositsInHand'
  <2>1. pcD \in {"record", "delete"} => curTx # t \/ polyTx'[t].status = "dropped"
    BY DEF NothingLoses, ExecuteTx, DropTx, Becomes, Recording, TypeInv, TypeOK
  <2>2. pcD \in {"record", "delete"} => curTx \in TxIds
    BY DEF TypeInv, Registers
  <2> QED
    BY <1>1, <2>1, <2>2 DEF KeepInv, DepositsInHand, dbVars, depVars
<1>6. CheckInHand'
  <2>1. done \subseteq done'
    BY <1>2 DEF Promise!Next, Promise!Accept, Promise!Deliver, Promise!Settle
  <2>2. pcC = "delete" => checkTx \in TxIds /\ checkTx # t
    BY <1>1 DEF KeepInv, CheckInHand, TypeInv, Registers
  <2> QED
    BY <1>1, <2>1, <2>2 DEF KeepInv, CheckInHand, KeptWithout, dbVars, chkVars
<1>7. FirstBlock'
  <2>1. \A u \in TxIds : (IsHeader(u)' <=> IsHeader(u)) /\ polyTx'[u].height = polyTx[u].height
    BY <1>1 DEF IsHeader
  <2>2. polyEpoch' = polyEpoch
          \/ (IsHeader(t) /\ polyTx[t].height > polyEpoch /\ polyEpoch' = polyTx[t].height)
    BY <1>1 DEF ExecuteTx, DropTx, Succeeds, IsHeader
  <2>3. dbHeight = 0 => polyEpoch' = polyEpoch
    BY <2>2, EpochTypes DEF KeepInv, FirstBlock, Heights
  <2> QED
    BY <1>1, <2>1, <2>3 DEF KeepInv, FirstBlock, dbVars, monVars
<1> QED
  BY <1>3, <1>4, <1>5, <1>6, <1>7 DEF KeepInv

(* The process stops and starts.  It starts at a saved block, or at the    *)
(* block poly was initialised with, and passes over nothing by that.       *)
LEMMA KeepInvStart ==
  ASSUME TypeInv, KeepInv, NothingLoses, [Next]_vars,
         \/ Crash \/ FindLastEpoch
         \/ \E force \in ForceHeights \cup {0} : StartManager(force)
  PROVE  KeepInv'
<1>1. /\ UNCHANGED <<polyTx, polyEpoch, done, retry, check, dbHeight>>
      /\ pcM' \notin {"events", "record"} /\ pcD' \notin {"record", "delete"} /\ pcC' # "delete"
      /\ batch' = {} \/ batch' = batch
  BY DEF Crash, FindLastEpoch, StartManager, polyVars, dbVars, depVars, chkVars, TypeInv, Registers, Up
<1>2. [Promise!Next]_<<Kept, done>>
  BY OutboxStep
<1>3. SentDeposits' /\ DepositsInHand' /\ CheckInHand' /\ EventsInHand'
  BY <1>1, <1>2, KeepInvFrame DEF KeepInv, DepositsInHand, CheckInHand, EventsInHand
<1>4. CASE Crash \/ FindLastEpoch
  <2>1. UNCHANGED <<sync, dbHeight>> /\ pcM' \in {"down", "init"}
    BY <1>1, <1>4 DEF Crash, FindLastEpoch
  <2>2. \/ lastEpoch' = lastEpoch /\ pcM' = "down"
        \/ lastEpoch'.height = polyEpoch
    BY <1>4 DEF Crash, FindLastEpoch
  <2>3. NoDepositLost'
    BY <1>2, <2>1, KeepInvFrame
  <2>4. FirstBlock'
    BY <1>1, <2>1, <2>2, EpochTypes DEF KeepInv, FirstBlock, IsHeader
  <2>5. NotBlockZero'
    BY <2>1, <2>2, ConstantsAssumption DEF NotBlockZero, Up, TypeInv, TypeOK
  <2> QED
    BY <1>3, <2>3, <2>4, <2>5 DEF KeepInv
<1>5. ASSUME NEW force \in ForceHeights \cup {0}, StartManager(force) PROVE KeepInv'
  <2>1. /\ sync' = StartHeight(force) /\ lastEpoch'.height = lastEpoch.height
        /\ pcM = "init"
    BY <1>5 DEF StartManager
  <2>2. /\ sync' <= IF dbHeight = 0 THEN lastEpoch.height ELSE dbHeight
        /\ sync' \in Heights
    BY <2>1, StartHeightIsKnown DEF TypeInv
  <2>3. NoDepositLost'
    <3> SUFFICES ASSUME NEW d \in Deposits, Genesis <= DepositHeight[d],
                        DepositHeight[d] < sync' \/ DepositHeight[d] <= dbHeight
                 PROVE  Safe(d)'
      BY <1>1 DEF NoDepositLost, Safe
    <3>1. DepositHeight[d] \in Nat
      BY ConstantsAssumption DEF Heights
    <3>2. DepositHeight[d] <= dbHeight
      BY <2>2, <3>1, EpochTypes DEF KeepInv, FirstBlock, Heights
    <3> QED
      BY <1>2, <3>2, SafeForEver DEF KeepInv, NoDepositLost, Safe
  <2>4. FirstBlock'
    BY <1>1, <2>1, <2>2, EpochTypes DEF KeepInv, FirstBlock, IsHeader, Heights
  <2>5. 0 < sync'
    BY <2>1, EpochTypes, ConstantsAssumption DEF StartHeight, KeepInv, NotBlockZero
  <2> QED
    BY <1>3, <2>1, <2>3, <2>4, <2>5 DEF KeepInv, NotBlockZero
<1> QED
  BY <1>4, <1>5

(* A new transaction is none that the database or a goroutine knows.       *)
LEMMA FreshIsUnknown ==
  ASSUME TypeInv, KeepInv, NEW t \in TxIds, Fresh(t)
  PROVE  /\ check[t] = NoDeposit
         /\ pcD \in {"record", "delete"} => curTx \in TxIds \ {t}
         /\ pcC = "delete" => checkTx \in TxIds \ {t}
BY DEF Fresh, KeepInv, SentDeposits, DepositsInHand, CheckInHand, TypeInv, Registers

(* MonitorChain.                                                           *)
LEMMA KeepInvSubmitHeader ==
  ASSUME TypeInv, KeepInv, NothingLoses, [Next]_vars, SubmitHeader
  PROVE  KeepInv'
<1>1. PICK t \in TxIds : Fresh(t) /\ Send(t, NoDeposit, sync)
  BY DEF SubmitHeader
<1>2. /\ UNCHANGED <<done, polyEpoch, dbVars, depVars, chkVars, sync, lastEpoch>>
      /\ polyTx'[t] = [status |-> "pending", deposit |-> NoDeposit, height |-> sync]
      /\ \A u \in TxIds \ {t} : polyTx'[u] = polyTx[u]
      /\ pcM = "commit" /\ pcM' = "confirm" /\ sync > polyEpoch
  BY <1>1 DEF SubmitHeader, Send, TypeInv, TypeOK
<1>3. NoDepositLost'
  BY <1>2, OutboxStep, KeepInvFrame DEF dbVars
<1>4. UNCHANGED Kept
  BY <1>2 DEF Kept, dbVars
<1>5. SentDeposits'
  BY <1>1, <1>2, <1>4, FreshIsUnknown DEF KeepInv, SentDeposits, dbVars
<1>6. DepositsInHand'
  BY <1>1, <1>2, FreshIsUnknown DEF KeepInv, DepositsInHand, dbVars, depVars
<1>7. CheckInHand'
  BY <1>1, <1>2, FreshIsUnknown DEF KeepInv, CheckInHand, KeptWithout, dbVars, chkVars
<1>8. EventsInHand' /\ NotBlockZero'
  BY <1>2 DEF KeepInv, EventsInHand, NotBlockZero, Up
<1>9. FirstBlock'
  BY <1>2, EpochTypes DEF KeepInv, FirstBlock, dbVars
<1> QED
  BY <1>3, <1>5, <1>6, <1>7, <1>8, <1>9 DEF KeepInv

LEMMA KeepInvFinishBlock ==
  ASSUME TypeInv, KeepInv, NothingLoses, [Next]_vars, FinishBlock
  PROVE  KeepInv'
<1>1. /\ UNCHANGED <<polyVars, retry, check, lastEpoch, depVars, chkVars>>
      /\ pcM = "events" /\ pcM' = "loop" /\ evts = {}
      /\ dbHeight' = sync /\ sync' = sync + 1
  BY DEF FinishBlock, NothingLoses, WriteFails
<1>2. [Promise!Next]_<<Kept, done>>
  BY OutboxStep
<1>3. SentDeposits' /\ DepositsInHand' /\ CheckInHand'
  BY <1>1, <1>2, KeepInvFrame DEF polyVars, depVars, chkVars
<1>4. NoDepositLost'
  <2> SUFFICES ASSUME NEW d \in Deposits, Genesis <= DepositHeight[d],
                      DepositHeight[d] < sync' \/ DepositHeight[d] <= dbHeight'
               PROVE  Safe(d)'
    BY DEF NoDepositLost, Safe
  <2>1. DepositHeight[d] < sync \/ DepositHeight[d] = sync
    BY <1>1, EpochTypes, ConstantsAssumption DEF Heights
  <2>2. Safe(d)
    BY <1>1, <2>1 DEF KeepInv, NoDepositLost, EventsInHand, Safe
  <2> QED
    BY <1>2, <2>2, SafeForEver
<1>5. EventsInHand' /\ NotBlockZero' /\ FirstBlock'
  BY <1>1, EpochTypes DEF KeepInv, EventsInHand, NotBlockZero, FirstBlock, Up
<1> QED
  BY <1>3, <1>4, <1>5 DEF KeepInv

LEMMA KeepInvMonitorChain ==
  ASSUME TypeInv, KeepInv, NothingLoses, [Next]_vars, MonitorChain
  PROVE  KeepInv'
<1>1. [Promise!Next]_<<Kept, done>>
  BY OutboxStep
<1>2. CASE HandleHeader \/ SubmitHeaderFails \/ ConfirmHeader
  <2>1. /\ UNCHANGED <<polyVars, dbVars, sync, depVars, chkVars>>
        /\ pcM # "down" /\ pcM' \notin {"events", "record"} /\ Up
        /\ lastEpoch' = lastEpoch \/ lastEpoch'.height = sync
    BY <1>2 DEF HandleHeader, SubmitHeaderFails, ConfirmHeader, Up
  <2>2. NoDepositLost' /\ SentDeposits' /\ DepositsInHand' /\ CheckInHand'
    BY <1>1, <2>1, KeepInvFrame DEF polyVars, dbVars, depVars, chkVars
  <2>3. EventsInHand' /\ FirstBlock' /\ NotBlockZero'
    BY <2>1, EpochTypes
       DEF KeepInv, EventsInHand, FirstBlock, NotBlockZero, IsHeader, Up, polyVars, dbVars
  <2> QED
    BY <2>2, <2>3 DEF KeepInv
<1>3. CASE FetchEvents \/ RecordEvent \/ \E d \in Deposits : CheckEvent(d)
  <2>1. /\ UNCHANGED <<polyVars, check, dbHeight, sync, lastEpoch, depVars, chkVars>>
        /\ retry \subseteq retry'
        /\ Up /\ Up' /\ pcM # "down" /\ pcM' # "down"
    BY <1>3 DEF FetchEvents, RecordEvent, CheckEvent, NothingLoses, WriteFails, PutRetry, Up, dbVars
  <2>2. NoDepositLost' /\ SentDeposits' /\ DepositsInHand' /\ CheckInHand' /\ FirstBlock'
    BY <1>1, <2>1, KeepInvFrame DEF polyVars, depVars, chkVars
  <2>3. EventsInHand'
    <3>1. CASE FetchEvents
      BY <3>1 DEF FetchEvents, NothingLoses, EventsInHand
    <3>2. CASE RecordEvent
      <4>1. /\ pcM = "record" /\ evts' = evts
            /\ curEvent \in retry'
        BY <3>2 DEF RecordEvent, NothingLoses, WriteFails, PutRetry
      <4>2. curEvent \in Kept' \cup done'
        BY <4>1 DEF Kept, KeptOf
      <4> QED
        BY <1>1, <2>1, <4>1, <4>2, SafeForEver DEF KeepInv, EventsInHand, Safe
    <3>3. ASSUME NEW d \in Deposits, CheckEvent(d) PROVE EventsInHand'
      BY <2>1, <3>3 DEF CheckEvent, KeepInv, EventsInHand, Kept, polyVars, dbVars
    <3> QED
      BY <1>3, <3>1, <3>2, <3>3
  <2>4. NotBlockZero'
    BY <2>1 DEF KeepInv, NotBlockZero
  <2> QED
    BY <2>2, <2>3, <2>4 DEF KeepInv
<1> QED
  BY <1>2, <1>3, KeepInvSubmitHeader, KeepInvFinishBlock DEF MonitorChain

(* MonitorDeposit.                                                         *)
LEMMA KeepInvSubmitProof ==
  ASSUME TypeInv, KeepInv, NothingLoses, [Next]_vars, NEW d \in Deposits, SubmitProof(d)
  PROVE  KeepInv'
<1>1. PICK t \in TxIds : Fresh(t) /\ Send(t, d, SafeHeight) /\ curTx' = t
  BY DEF SubmitProof
<1>2. /\ UNCHANGED <<done, polyEpoch, dbVars, monVars, chkVars>>
      /\ polyTx'[t] = [status |-> "pending", deposit |-> d, height |-> SafeHeight]
      /\ \A u \in TxIds \ {t} : polyTx'[u] = polyTx[u]
      /\ pcD' = "record" /\ curDeposit' = d /\ batch' = batch \ {d} /\ d \in batch
      /\ d # NoDeposit
  BY <1>1, ConstantsAssumption
     DEF SubmitProof, NextInBatch, Send, TypeInv, TypeOK, NoDeposit
<1>3. NoDepositLost' /\ EventsInHand' /\ NotBlockZero'
  BY <1>2, OutboxStep, KeepInvFrame DEF dbVars, monVars
<1>4. d \in retry /\ d \in Kept /\ UNCHANGED <<Kept, retry, check>>
  BY <1>2 DEF KeepInv, DepositsInHand, Kept, KeptOf, dbVars
<1>5. SentDeposits'
  BY <1>1, <1>2, <1>4, FreshIsUnknown DEF KeepInv, SentDeposits
<1>6. DepositsInHand'
  BY <1>1, <1>2, <1>4 DEF KeepInv, DepositsInHand
<1>7. CheckInHand'
  BY <1>1, <1>2, FreshIsUnknown DEF KeepInv, CheckInHand, KeptWithout, dbVars, chkVars
<1>8. FirstBlock'
  <2>1. ~ IsHeader(t)'
    BY <1>2 DEF IsHeader
  <2> QED
    BY <1>2, <2>1 DEF KeepInv, FirstBlock, IsHeader, dbVars, monVars
<1> QED
  BY <1>3, <1>5, <1>6, <1>7, <1>8 DEF KeepInv

(* The transaction is in Check before its deposit leaves Retry.            *)
LEMMA KeepInvRecord ==
  ASSUME TypeInv, KeepInv, NothingLoses, [Next]_vars, RecordSubmission
  PROVE  KeepInv'
<1>1. /\ UNCHANGED <<polyVars, retry, dbHeight, monVars, batch, curTx, curDeposit, chkVars>>
      /\ pcD = "record" /\ pcD' = "delete" /\ curTx \in TxIds
      /\ curDeposit # NoDeposit
      /\ \A u \in TxIds : check'[u] = IF u = curTx THEN curDeposit ELSE check[u]
      /\ DOMAIN check' = TxIds
  BY OutboxRecordSubmission DEF RecordSubmission, TypeInv, TypeOK
<1>2. Kept' = Kept /\ done' = done
  BY OutboxRecordSubmission
<1>3. NoDepositLost' /\ EventsInHand' /\ FirstBlock' /\ NotBlockZero'
  BY <1>1, OutboxStep, KeepInvFrame DEF polyVars, monVars
<1>4. SentDeposits'
  BY <1>1, <1>2 DEF KeepInv, SentDeposits, DepositsInHand, polyVars
<1>5. DepositsInHand'
  BY <1>1 DEF KeepInv, DepositsInHand, polyVars
<1>6. CheckInHand'
  <2> SUFFICES ASSUME pcC = "delete"
               PROVE  /\ polyTx[checkTx].status \in {"ok", "failed"}
                      /\ check'[checkTx] # NoDeposit
                      /\ check'[checkTx] \in done \cup KeptWithout(checkTx)'
    BY <1>1 DEF CheckInHand, polyVars, chkVars
  <2>1. checkTx \in TxIds /\ checkTx # curTx /\ check'[checkTx] = check[checkTx]
    BY <1>1 DEF KeepInv, CheckInHand, DepositsInHand, TypeInv, Registers
  <2>2. \A u \in TxIds : check[u] # NoDeposit => check'[u] = check[u]
    BY <1>1 DEF KeepInv, SentDeposits, DepositsInHand
  <2>3. CheckKeys(check) \subseteq CheckKeys(check')
    BY <1>1, <2>2 DEF CheckKeys, TypeInv, TypeOK
  <2>4. KeptWithout(checkTx) \subseteq KeptWithout(checkTx)'
    BY <1>1, <2>2, <2>3 DEF KeptWithout, CheckKeys, TypeInv, TypeOK, chkVars
  <2> QED
    BY <2>1, <2>4 DEF KeepInv, CheckInHand
<1> QED
  BY <1>3, <1>4, <1>5, <1>6 DEF KeepInv

(* A deposit leaves Retry: it is done, or a transaction in Check, which is *)
(* not the one CheckDeposit is about to forget, carries it.                *)
LEMMA KeepInvLeaveRetry ==
  ASSUME TypeInv, KeepInv, NothingLoses, [Next]_vars,
         DropSubmitted \/ \E d \in Deposits : AlreadyDone(d)
  PROVE  KeepInv'
<1>1. PICK d \in Deposits :
        /\ retry' = retry \ {d}
        /\ d \notin batch'
        /\ d \in done \/ \E u \in CheckKeys(check) : check[u] = d /\ (pcC = "delete" => u # checkTx)
  <2>1. CASE DropSubmitted
    <3>1. /\ pcD = "delete" /\ batch' = batch
          /\ curTx \in TxIds /\ curDeposit \in Deposits
      BY <2>1 DEF DropSubmitted, TypeInv, Registers
    <3>2. /\ check[curTx] = curDeposit /\ curDeposit \notin batch
          /\ pcC = "delete" => curTx # checkTx
      BY <3>1 DEF KeepInv, DepositsInHand, CheckInHand
    <3>3. curTx \in CheckKeys(check)
      BY <3>1, <3>2, ConstantsAssumption DEF CheckKeys, TypeInv, TypeOK, NoDeposit
    <3>4. retry' = retry \ {curDeposit}
      BY <2>1, OutboxDropSubmitted
    <3> QED
      BY <3>1, <3>2, <3>3, <3>4
  <2>2. ASSUME NEW d \in Deposits, AlreadyDone(d)
        PROVE  retry' = retry \ {d} /\ d \notin batch' /\ d \in done
    BY <2>2 DEF AlreadyDone, TxAlreadyDone, NothingLoses, WriteFails, DeleteRetry
  <2> QED
    BY <2>1, <2>2
<1>2. /\ UNCHANGED <<polyVars, check, dbHeight, monVars, chkVars>>
      /\ batch' \subseteq batch
      /\ pcD' = "scan"
  BY DEF DropSubmitted, AlreadyDone, NextInBatch
<1>3. NoDepositLost' /\ SentDeposits' /\ EventsInHand' /\ FirstBlock' /\ NotBlockZero'
  BY <1>2, OutboxStep, KeepInvFrame DEF polyVars, monVars
<1>4. DepositsInHand'
  BY <1>1, <1>2 DEF KeepInv, DepositsInHand
<1>5. CheckInHand'
  BY <1>1, <1>2 DEF KeepInv, CheckInHand, KeptWithout, polyVars, chkVars
<1> QED
  BY <1>3, <1>4, <1>5 DEF KeepInv

LEMMA KeepInvMonitorDeposit ==
  ASSUME TypeInv, KeepInv, NothingLoses, [Next]_vars, MonitorDeposit
  PROVE  KeepInv'
<1>1. CASE StartScan \/ EndScan \/ \E d \in Deposits : SkipDeposit(d)
  <2>1. /\ UNCHANGED <<polyVars, dbVars, monVars, chkVars>>
        /\ pcD' \in {"idle", "scan"} /\ batch' \subseteq retry
    BY <1>1, ScansAreSubsets
       DEF StartScan, EndScan, SkipDeposit, NextInBatch, KeepInv, DepositsInHand
  <2>2. DepositsInHand'
    BY <2>1 DEF DepositsInHand, dbVars
  <2>3. /\ NoDepositLost' /\ SentDeposits' /\ CheckInHand' /\ EventsInHand' /\ FirstBlock'
        /\ NotBlockZero'
    BY <2>1, OutboxStep, KeepInvFrame DEF polyVars, dbVars, monVars, chkVars
  <2> QED
    BY <2>2, <2>3 DEF KeepInv
<1> QED
  BY <1>1, KeepInvSubmitProof, KeepInvRecord, KeepInvLeaveRetry DEF MonitorDeposit

(* CheckDeposit.                                                           *)
LEMMA KeepInvReadEvent ==
  ASSUME TypeInv, KeepInv, NothingLoses, [Next]_vars, NEW t \in TxIds, ReadEvent(t)
  PROVE  KeepInv'
<1>1. /\ UNCHANGED <<polyVars, check, dbHeight, monVars, depVars>>
      /\ checkTx' = t /\ polyTx[t].status \in {"ok", "failed"}
      /\ check[t] # NoDeposit /\ retry \subseteq retry'
      /\ polyTx[t].status = "failed" => check[t] \in retry'
  BY OutboxReadEvent DEF ReadEvent, Decided
<1>2. /\ NoDepositLost' /\ SentDeposits' /\ DepositsInHand' /\ EventsInHand' /\ FirstBlock'
      /\ NotBlockZero'
  BY <1>1, OutboxStep, KeepInvFrame DEF polyVars, monVars, depVars
<1>3. CheckInHand'
  BY <1>1 DEF KeepInv, SentDeposits, CheckInHand, KeptWithout, polyVars
<1> QED
  BY <1>2, <1>3 DEF KeepInv

LEMMA KeepInvForgetTx ==
  ASSUME TypeInv, KeepInv, NothingLoses, [Next]_vars, ForgetTx
  PROVE  KeepInv'
<1>1. /\ UNCHANGED <<polyVars, retry, dbHeight, monVars, depVars>>
      /\ pcC = "delete" /\ pcC' = "scan" /\ checkTx \in TxIds
      /\ \A u \in TxIds : check'[u] = IF u = checkTx THEN NoDeposit ELSE check[u]
  BY DEF ForgetTx, NothingLoses, WriteFails, DeleteCheck, TypeInv, TypeOK, Registers
<1>2. [Promise!Next]_<<Kept, done>>
  BY OutboxStep
<1>3. NoDepositLost' /\ EventsInHand' /\ FirstBlock' /\ NotBlockZero'
  BY <1>1, <1>2, KeepInvFrame DEF polyVars, monVars
<1>4. SentDeposits'
  <2>1. ASSUME NEW u \in TxIds, polyTx[u].deposit # NoDeposit
        PROVE  polyTx[u].deposit \in (Kept \cup done)'
    BY <1>2, <2>1, SafeForEver DEF KeepInv, SentDeposits, Safe
  <2> QED
    BY <1>1, <2>1 DEF KeepInv, SentDeposits, polyVars
<1>5. DepositsInHand'
  BY <1>1 DEF KeepInv, DepositsInHand, CheckInHand, TypeInv, Registers, polyVars, depVars
<1>6. CheckInHand'
  BY <1>1 DEF CheckInHand
<1> QED
  BY <1>3, <1>4, <1>5, <1>6 DEF KeepInv

LEMMA KeepInvCheckDeposit ==
  ASSUME TypeInv, KeepInv, NothingLoses, [Next]_vars, CheckDeposit
  PROVE  KeepInv'
<1>1. CASE StartCheck \/ EndCheck \/ \E t \in TxIds : SkipCheck(t)
  <2>1. UNCHANGED <<polyVars, dbVars, monVars, depVars>> /\ pcC' # "delete"
    BY <1>1 DEF StartCheck, EndCheck, SkipCheck
  <2>2. /\ NoDepositLost' /\ SentDeposits' /\ DepositsInHand' /\ EventsInHand' /\ FirstBlock'
        /\ NotBlockZero'
    BY <2>1, OutboxStep, KeepInvFrame DEF polyVars, dbVars, monVars, depVars
  <2> QED
    BY <2>1, <2>2 DEF KeepInv, CheckInHand
<1> QED
  BY <1>1, KeepInvReadEvent, KeepInvForgetTx DEF CheckDeposit

LEMMA KeepInvStep ==
  ASSUME TypeInv, KeepInv, NothingLoses, [Next]_vars
  PROVE  KeepInv'
<1>1. CASE NewBlock \/ UNCHANGED vars
  <2>1. UNCHANGED <<polyVars, dbVars, monVars, depVars, chkVars>>
    BY <1>1 DEF NewBlock, vars
  <2> QED
    BY <2>1, OutboxStep, KeepInvFrame DEF KeepInv, polyVars, dbVars, monVars, depVars, chkVars
<1> QED
  BY <1>1, KeepInvExecute, KeepInvStart, KeepInvMonitorChain, KeepInvMonitorDeposit,
     KeepInvCheckDeposit DEF Next

LEMMA FaultsStay == NothingLoses => []NothingLoses
<1>1. NothingLoses => NothingLoses'
  BY DEF NothingLoses
<1> QED
  BY <1>1, PTL

LEMMA KeepInvKept == NothingLoses /\ Spec => [](TypeInv /\ KeepInv)
<1>1. Init => TypeInv /\ KeepInv
  BY TypeInvInit, KeepInvInit
<1>2. NothingLoses /\ TypeInv /\ KeepInv /\ [Next]_vars => (TypeInv /\ KeepInv)'
  BY TypeInvStep, KeepInvStep
<1> QED
  BY <1>1, <1>2, FaultsStay, PTL DEF Spec

(* Whatever the interleaving, the crashes, the forced heights and the      *)
(* transactions poly drops: as long as the event filter and the database   *)
(* answer, and poly is slower than the two writes that record a            *)
(* submission, no deposit is lost.                                         *)
THEOREM NothingLost == NothingLoses /\ Spec => []NoDepositLost
<1>1. KeepInv => NoDepositLost
  BY DEF KeepInv
<1> QED
  BY <1>1, KeepInvKept, PTL

(* Under the same conditions the relayer is an outbox: each deposit is     *)
(* kept until poly has it, poly gets it once, and it is forgotten only     *)
(* after that.                                                             *)
THEOREM ImplementsOutbox == NothingLoses /\ Spec => IsOutbox
<1>1. Init => Promise!Init
  BY DEF Init, Promise!Init, Kept, KeptOf, CheckKeys
<1>2. NothingLoses /\ TypeInv /\ KeepInv /\ [Next]_vars => [Promise!Next]_<<Kept, done>>
  BY OutboxStep
<1> QED
  BY <1>1, <1>2, KeepInvKept, FaultsStay, PTL DEF Spec, IsOutbox, Promise!Spec

=============================================================================
