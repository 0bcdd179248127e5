--------------------------- MODULE PaletteManager ---------------------------
(***************************************************************************)
(* The relayer's palette -> poly direction (manager/palette.go): three     *)
(* goroutines that share the database and two height counters.             *)
(*                                                                         *)
(*   MonitorChain    walks over the palette blocks, reports a header to    *)
(*                   poly when the validator set changes, and stores the   *)
(*                   cross chain events of each block in bucket Retry;     *)
(*   MonitorDeposit  submits a proof of each stored deposit to poly, and   *)
(*                   moves the deposit from Retry to Check;                *)
(*   CheckDeposit    looks at the outcome of the submitted transactions,   *)
(*                   and moves the deposits of failed ones back to Retry.  *)
(*                                                                         *)
(* The process may crash at any point and starts again from its database.  *)
(* The two chains are the environment.                                     *)
(***************************************************************************)
EXTENDS BoltDB

CONSTANTS
  Deposits,         \* cross chain events of the target contracts, by their key
  DepositHeight,    \* the palette block of each deposit
  ValsetAt,         \* the validator set in the header of each palette block
  MaxHeight,        \* bound: the last palette block
  Genesis,          \* the palette header poly was initialised with
  TxIds,            \* bound: the poly transactions the relayer may send
  BlockConfig,      \* PaletteConfig.BlockConfig
  DefaultDistance,  \* defaultDistance, 6 in the code
  Word,             \* 2^64
  ForceHeights,     \* values an operator may give to the force height flag
  MaxCrashes,       \* bound: the crashes of the process
  Faults            \* what may go wrong: a subset of AllFaults

AllFaults == {"filter", "stall", "drop", "db"}

Heights == 0..MaxHeight

ASSUME ConstantsAssumption ==
  /\ Deposits \subseteq Nat \ {0}
  /\ MaxHeight \in Nat
  /\ DepositHeight \in [Deposits -> Heights]
  /\ Genesis \in 1..MaxHeight
  /\ TxIds \subseteq Nat
  /\ BlockConfig \in Nat
  /\ DefaultDistance \in Nat \ {0}
  /\ Word \in Nat
  /\ MaxHeight < Word
  /\ BlockConfig < Word
  /\ DefaultDistance < Word
  /\ ForceHeights \subseteq 1..MaxHeight
  /\ MaxCrashes \in Nat
  /\ Faults \subseteq AllFaults
  /\ DOMAIN ValsetAt = Heights

VARIABLES
  (* the palette chain *)
  paletteHeight,
  (* the poly chain: transactions by id, the deposits imported, and the    *)
  (* height of the last palette header that changed the validators         *)
  polyTx, done, polyEpoch,
  (* the database *)
  retry, check, dbHeight,
  (* MonitorChain; sync is currentSyncHeaderHeight.  curHeader is the      *)
  (* header at sync wherever the code reads it, and has no variable        *)
  pcM, sync, lastEpoch, syncTx, evts, curEvent,
  (* MonitorDeposit; depositHeight is currentDepositHeight *)
  pcD, depositHeight, batch, curTx, curDeposit,
  (* CheckDeposit *)
  pcC, checkMap, checkTx,
  crashes

chainVars == <<paletteHeight>>
polyVars  == <<polyTx, done, polyEpoch>>
dbVars    == <<retry, check, dbHeight>>
monVars   == <<pcM, sync, lastEpoch, syncTx, evts, curEvent>>
depVars   == <<pcD, depositHeight, batch, curTx, curDeposit>>
chkVars   == <<pcC, checkMap, checkTx>>
vars == <<chainVars, polyVars, dbVars, monVars, depVars, chkVars, crashes>>

NoTx == -1

Valsets == {ValsetAt[h] : h \in Heights}

Unused == [status |-> "unused", deposit |-> NoDeposit, height |-> 0]

TxStates == [status  : {"unused", "pending", "ok", "failed", "dropped"},
             deposit : Deposits \cup {NoDeposit},
             height  : Heights]

TypeOK ==
  /\ paletteHeight \in Heights
  /\ polyTx \in [TxIds -> TxStates]
  /\ done \subseteq Deposits
  /\ polyEpoch \in Genesis..MaxHeight
  /\ retry \subseteq Deposits
  /\ check \in [TxIds -> Deposits \cup {NoDeposit}]
  /\ dbHeight \in Heights
  /\ pcM \in {"down", "init", "loop", "commit", "confirm", "fetch", "events", "record"}
  /\ sync \in Heights
  /\ lastEpoch \in [height : Heights, valset : Valsets]
  /\ syncTx \in TxIds \cup {NoTx}
  /\ evts \subseteq Deposits
  /\ curEvent \in Deposits \cup {NoDeposit}
  /\ pcD \in {"down", "idle", "scan", "record", "delete"}
  /\ depositHeight \in Heights
  /\ batch \subseteq Deposits
  /\ curTx \in TxIds \cup {NoTx}
  /\ curDeposit \in Deposits \cup {NoDeposit}
  /\ pcC \in {"down", "idle", "scan", "delete"}
  /\ checkMap \subseteq TxIds
  /\ checkTx \in TxIds \cup {NoTx}
  /\ crashes \in 0..MaxCrashes

Init ==
  /\ paletteHeight = Genesis
  /\ polyTx = [t \in TxIds |-> Unused]
  /\ done = {}
  /\ polyEpoch = Genesis
  /\ retry = {}
  /\ check = [t \in TxIds |-> NoDeposit]
  /\ dbHeight = 0
  /\ pcM = "down"
  /\ sync = 0
  /\ lastEpoch = [height |-> 0, valset |-> ValsetAt[Genesis]]
  /\ syncTx = NoTx
  /\ evts = {}
  /\ curEvent = NoDeposit
  /\ pcD = "down"
  /\ depositHeight = 0
  /\ batch = {}
  /\ curTx = NoTx
  /\ curDeposit = NoDeposit
  /\ pcC = "down"
  /\ checkMap = {}
  /\ checkTx = NoTx
  /\ crashes = 0

-----------------------------------------------------------------------------
(* The chains.                                                             *)

NewBlock ==
  /\ paletteHeight < MaxHeight
  /\ paletteHeight' = paletteHeight + 1
  /\ UNCHANGED <<polyVars, dbVars, monVars, depVars, chkVars, crashes>>

(* Poly takes a header only above the last one, and a proof only of a      *)
(* deposit it has not imported, under a header signed by the validators it *)
(* knows ("poly do not allow to verify header with validators in old       *)
(* epoch").                                                                *)
Verifies(height) == ValsetAt[height] = ValsetAt[polyEpoch]

Succeeds(tx) ==
  IF tx.deposit = NoDeposit
  THEN tx.height > polyEpoch
  ELSE tx.deposit \notin done /\ Verifies(tx.height)

(* Between the submission of a proof and the two updates of the database   *)
(* that record it the deposit goroutine does nothing that waits.  Unless   *)
(* "stall" is a fault, poly needs longer than that to execute the proof.   *)
Recording(t) == pcD \in {"record", "delete"} /\ curTx = t

Becomes(t, status) ==
  polyTx' = [polyTx EXCEPT ![t] = [status  |-> status,
                                   deposit |-> polyTx[t].deposit,
                                   height  |-> polyTx[t].height]]

ExecuteTx(t) ==
  /\ polyTx[t].status = "pending"
  /\ "stall" \in Faults \/ ~ Recording(t)
  /\ IF Succeeds(polyTx[t])
     THEN /\ Becomes(t, "ok")
          /\ IF polyTx[t].deposit = NoDeposit
             THEN polyEpoch' = polyTx[t].height /\ UNCHANGED done
             ELSE done' = done \cup {polyTx[t].deposit} /\ UNCHANGED polyEpoch
     ELSE /\ Becomes(t, "failed")
          /\ UNCHANGED <<done, polyEpoch>>
  /\ UNCHANGED <<chainVars, dbVars, monVars, depVars, chkVars, crashes>>

(* A transaction poly accepted need not make it into a block.              *)
DropTx(t) ==
  /\ "drop" \in Faults
  /\ polyTx[t].status = "pending"
  /\ Becomes(t, "dropped")
  /\ UNCHANGED <<chainVars, done, polyEpoch, dbVars, monVars, depVars, chkVars, crashes>>

(* The poly node hands out the hash of the new transaction.                *)
Fresh(t) ==
  /\ polyTx[t].status = "unused"
  /\ \A u \in TxIds : u < t => polyTx[u].status # "unused"

Send(t, d, height) ==
  polyTx' = [polyTx EXCEPT ![t] = [status |-> "pending", deposit |-> d, height |-> height]]

(* A write of the database fails only as a fault; the callers below log    *)
(* the error and go on.                                                    *)
WriteFails == "db" \in Faults

-----------------------------------------------------------------------------
(* The process.                                                            *)

Crash ==
  /\ pcM # "down"
  /\ crashes < MaxCrashes
  /\ crashes' = crashes + 1
  /\ pcM' = "down" /\ pcD' = "down" /\ pcC' = "down"
  /\ syncTx' = NoTx /\ evts' = {} /\ curEvent' = NoDeposit
  /\ batch' = {} /\ curTx' = NoTx /\ curDeposit' = NoDeposit
  /\ checkMap' = {} /\ checkTx' = NoTx
  /\ UNCHANGED <<chainVars, polyVars, dbVars, sync, lastEpoch, depositHeight>>

(* init reads the height and the validators of the last epoch from poly    *)
(* in two calls: a header may be executed between them.                    *)
FindLastEpoch ==
  /\ pcM = "down"
  /\ pcM' = "init"
  /\ lastEpoch' = [height |-> polyEpoch, valset |-> lastEpoch.valset]
  /\ UNCHANGED <<chainVars, polyVars, dbVars, sync, syncTx, evts, curEvent,
                 depVars, chkVars, crashes>>

StartHeight(force) ==
  LET saved == IF dbHeight = 0 THEN lastEpoch.height ELSE dbHeight
  IN IF force > 0 /\ force < saved THEN force ELSE saved

StartManager(force) ==
  /\ pcM = "init"
  /\ pcM' = "loop" /\ pcD' = "idle" /\ pcC' = "idle"
  /\ lastEpoch' = [height |-> lastEpoch.height, valset |-> ValsetAt[polyEpoch]]
  /\ sync' = StartHeight(force)
  /\ depositHeight' = StartHeight(force)
  /\ UNCHANGED <<chainVars, polyVars, dbVars, syncTx, evts, curEvent,
                 batch, curTx, curDeposit, checkMap, checkTx, crashes>>

-----------------------------------------------------------------------------
(* MonitorChain.                                                           *)

IsEpoch == lastEpoch.valset # ValsetAt[sync]

HandlesTheTip == sync <= paletteHeight
StopsBeforeTheTip == sync + 1 < paletteHeight
BlockToHandle == sync < paletteHeight

(* handleNewBlock up to commitHeader.  A failed read of the header leaves  *)
(* the state alone and is tried again.                                     *)
HandleHeader ==
  /\ pcM = "loop"
  /\ BlockToHandle
  /\ pcM' = IF sync > lastEpoch.height /\ IsEpoch THEN "commit" ELSE "fetch"
  /\ UNCHANGED <<chainVars, polyVars, dbVars, sync, lastEpoch, syncTx, evts, curEvent,
                 depVars, chkVars, crashes>>

SubmitHeader ==
  /\ pcM = "commit"
  /\ sync > polyEpoch
  /\ \E t \in TxIds :
       /\ Fresh(t)
       /\ Send(t, NoDeposit, sync)
       /\ syncTx' = t
  /\ pcM' = "confirm"
  /\ UNCHANGED <<chainVars, done, polyEpoch, dbVars, sync, lastEpoch, evts, curEvent,
                 depVars, chkVars, crashes>>

(* SyncBlockHeader returns an error: the block is handled again.           *)
SubmitHeaderFails ==
  /\ pcM = "commit"
  /\ pcM' = "loop"
  /\ UNCHANGED <<chainVars, polyVars, dbVars, sync, lastEpoch, syncTx, evts, curEvent,
                 depVars, chkVars, crashes>>

(* The loop of commitHeader waits for the transaction to be in a block. It *)
(* has no other exit, and does not ask whether the transaction succeeded.  *)
DoesNotWait == TRUE
HeaderInBlock == polyTx[syncTx].status \in {"ok", "failed"}

ConfirmHeader ==
  /\ pcM = "confirm"
  /\ HeaderInBlock
  /\ pcM' = "fetch"
  /\ lastEpoch' = [height |-> sync, valset |-> ValsetAt[sync]]
  /\ syncTx' = NoTx
  /\ UNCHANGED <<chainVars, polyVars, dbVars, sync, evts, curEvent, depVars, chkVars, crashes>>

(* FilterCrossChainEvent; when it fails the block goes on without events.  *)
FetchEvents ==
  /\ pcM = "fetch"
  /\ pcM' = "events"
  /\ \/ evts' = {d \in Deposits : DepositHeight[d] = sync}
     \/ "filter" \in Faults /\ evts' = {}
  /\ UNCHANGED <<chainVars, polyVars, dbVars, sync, lastEpoch, syncTx, curEvent,
                 depVars, chkVars, crashes>>

(* checkCrossChainEvent: an event poly has imported already is skipped.    *)
CheckEvent(d) ==
  /\ pcM = "events"
  /\ d \in evts
  /\ evts' = evts \ {d}
  /\ IF d \in done
     THEN UNCHANGED <<pcM, curEvent>>
     ELSE pcM' = "record" /\ curEvent' = d
  /\ UNCHANGED <<chainVars, polyVars, dbVars, sync, lastEpoch, syncTx,
                 depVars, chkVars, crashes>>

RecordEvent ==
  /\ pcM = "record"
  /\ pcM' = "events"
  /\ \/ retry' = PutRetry(retry, curEvent)
     \/ WriteFails /\ UNCHANGED retry
  /\ curEvent' = NoDeposit
  /\ UNCHANGED <<chainVars, polyVars, check, dbHeight, sync, lastEpoch, syncTx, evts,
                 depVars, chkVars, crashes>>

FinishBlock ==
  /\ pcM = "events"
  /\ evts = {}
  /\ pcM' = "loop"
  /\ \/ dbHeight' = sync
     \/ WriteFails /\ UNCHANGED dbHeight
  /\ sync' = sync + 1
  /\ UNCHANGED <<chainVars, polyVars, retry, check, lastEpoch, syncTx, evts, curEvent,
                 depVars, chkVars, crashes>>

MonitorChain ==
  \/ HandleHeader
  \/ SubmitHeader
  \/ SubmitHeaderFails
  \/ ConfirmHeader
  \/ FetchEvents
  \/ \E d \in Deposits : CheckEvent(d)
  \/ RecordEvent
  \/ FinishBlock

-----------------------------------------------------------------------------
(* MonitorDeposit.                                                         *)

SafeBlockDistance ==
  IF BlockConfig < DefaultDistance THEN DefaultDistance ELSE BlockConfig

(* Subtraction of two uint64.                                              *)
Sub64(a, b) == IF a >= b THEN a - b ELSE a - b + Word

TooYoungWithoutDistance(d) == depositHeight <= DepositHeight[d]
TooYoung(d) == Sub64(depositHeight, SafeBlockDistance) <= DepositHeight[d]

SafeHeight == depositHeight - 1

StartScan ==
  /\ pcD = "idle"
  /\ depositHeight < sync
  /\ pcD' = "scan"
  /\ batch' = GetAllRetry(retry)
  /\ UNCHANGED <<chainVars, polyVars, dbVars, monVars, depositHeight, curTx, curDeposit,
                 chkVars, crashes>>

(* The deposit the loop over the batch is at.                              *)
NextInBatch(d) == pcD = "scan" /\ d \in batch /\ \A e \in batch : d <= e

(* `continue`: the deposit is too young, the proof cannot be read, or poly *)
(* answers with an error other than "tx already done".                     *)
SkipDeposit(d) ==
  /\ NextInBatch(d)
  /\ batch' = batch \ {d}
  /\ UNCHANGED <<chainVars, polyVars, dbVars, monVars, pcD, depositHeight, curTx, curDeposit,
                 chkVars, crashes>>

(* Poly executes what it is sent once before it accepts it: this is how    *)
(* the error "tx already done" reaches the relayer.                        *)
AnyErrorIsDone(d) == TRUE
TxAlreadyDone(d) == d \in done

AlreadyDone(d) ==
  /\ NextInBatch(d)
  /\ ~ TooYoung(d)
  /\ TxAlreadyDone(d)
  /\ batch' = batch \ {d}
  /\ \/ retry' = DeleteRetry(retry, d)
     \/ WriteFails /\ UNCHANGED retry
  /\ UNCHANGED <<chainVars, polyVars, check, dbHeight, monVars, pcD, depositHeight, curTx,
                 curDeposit, chkVars, crashes>>

SubmitProof(d) ==
  /\ NextInBatch(d)
  /\ ~ TooYoung(d)
  /\ DepositHeight[d] <= SafeHeight    \* the deposit is in the state it is proved from
  /\ d \notin done
  /\ Verifies(SafeHeight)
  /\ \E t \in TxIds :
       /\ Fresh(t)
       /\ Send(t, d, SafeHeight)
       /\ curTx' = t
  /\ batch' = batch \ {d}
  /\ curDeposit' = d
  /\ pcD' = "record"
  /\ UNCHANGED <<chainVars, done, polyEpoch, dbVars, monVars, depositHeight, chkVars, crashes>>

RecordSubmission ==
  /\ pcD = "record"
  /\ pcD' = "delete"
  /\ \/ check' = PutCheck(check, curTx, curDeposit)
     \/ WriteFails /\ UNCHANGED check
  /\ UNCHANGED <<chainVars, polyVars, retry, dbHeight, monVars, depositHeight, batch, curTx,
                 curDeposit, chkVars, crashes>>

DropSubmitted ==
  /\ pcD = "delete"
  /\ pcD' = "scan"
  /\ \/ retry' = DeleteRetry(retry, curDeposit)
     \/ WriteFails /\ UNCHANGED retry
  /\ curTx' = NoTx /\ curDeposit' = NoDeposit
  /\ UNCHANGED <<chainVars, polyVars, check, dbHeight, monVars, depositHeight, batch,
                 chkVars, crashes>>

(* The counter stops below MaxHeight: the scans at MaxHeight - 1 stand for *)
(* the scans at all later heights, under the same validators.              *)
EndScan ==
  /\ pcD = "scan"
  /\ batch = {}
  /\ pcD' = "idle"
  /\ depositHeight' = IF depositHeight < MaxHeight - 1 THEN depositHeight + 1 ELSE depositHeight
  /\ UNCHANGED <<chainVars, polyVars, dbVars, monVars, batch, curTx, curDeposit, chkVars, crashes>>

MonitorDeposit ==
  \/ StartScan
  \/ \E d \in Deposits : SkipDeposit(d) \/ AlreadyDone(d) \/ SubmitProof(d)
  \/ RecordSubmission
  \/ DropSubmitted
  \/ EndScan

-----------------------------------------------------------------------------
(* CheckDeposit.  Only this goroutine removes keys of Check, so the        *)
(* deposit of a transaction in its snapshot is still check[t].             *)

StartCheck ==
  /\ pcC = "idle"
  /\ pcC' = "scan"
  /\ checkMap' \in GetAllCheck(check)
  /\ UNCHANGED <<chainVars, polyVars, dbVars, monVars, depVars, checkTx, crashes>>

(* There is no event of the transaction yet, or it cannot be read.         *)
SkipCheck(t) ==
  /\ pcC = "scan"
  /\ t \in checkMap
  /\ checkMap' = checkMap \ {t}
  /\ UNCHANGED <<chainVars, polyVars, dbVars, monVars, depVars, pcC, checkTx, crashes>>

DecidedIfOk(t) == polyTx[t].status = "ok"
Decided(t) == polyTx[t].status \in {"ok", "failed"}

NeverFailed(t) == FALSE
Failed(t) == polyTx[t].status = "failed"     \* the state of the event is not 1

(* The deposit of a failed transaction is to be submitted again.           *)
ReadEvent(t) ==
  /\ pcC = "scan"
  /\ t \in checkMap
  /\ Decided(t)
  /\ checkMap' = checkMap \ {t}
  /\ pcC' = "delete"
  /\ checkTx' = t
  /\ \/ Failed(t) /\ retry' = PutRetry(retry, check[t])
     \/ (~ Failed(t) \/ WriteFails) /\ UNCHANGED retry
  /\ UNCHANGED <<chainVars, polyVars, check, dbHeight, monVars, depVars, crashes>>

ForgetTx ==
  /\ pcC = "delete"
  /\ pcC' = "scan"
  /\ \/ check' = DeleteCheck(check, checkTx)
     \/ WriteFails /\ UNCHANGED check
  /\ checkTx' = NoTx
  /\ UNCHANGED <<chainVars, polyVars, retry, dbHeight, monVars, depVars, checkMap, crashes>>

EndCheck ==
  /\ pcC = "scan"
  /\ checkMap = {}
  /\ pcC' = "idle"
  /\ UNCHANGED <<chainVars, polyVars, dbVars, monVars, depVars, checkMap, checkTx, crashes>>

CheckDeposit ==
  \/ StartCheck
  \/ \E t \in TxIds : SkipCheck(t) \/ ReadEvent(t)
  \/ ForgetTx
  \/ EndCheck

-----------------------------------------------------------------------------
Next ==
  \/ NewBlock
  \/ \E t \in TxIds : ExecuteTx(t) \/ DropTx(t)
  \/ Crash
  \/ FindLastEpoch
  \/ \E force \in ForceHeights \cup {0} : StartManager(force)
  \/ MonitorChain
  \/ MonitorDeposit
  \/ CheckDeposit

Spec == Init /\ [][Next]_vars

(***************************************************************************)
(* Tickers and loops run the goroutines for ever, the palette chain goes   *)
(* on, and poly executes what is pending.  A call that may fail and is     *)
(* tried again and again succeeds in the end: strong fairness of the       *)
(* outcomes that are not an error.                                         *)
(***************************************************************************)
Fairness ==
  /\ WF_vars(NewBlock)
  /\ \A t \in TxIds : WF_vars(ExecuteTx(t))
  /\ WF_vars(FindLastEpoch)
  /\ WF_vars(StartManager(0))
  /\ WF_vars(MonitorChain) /\ SF_vars(SubmitHeader)
  /\ WF_vars(MonitorDeposit)
  /\ \A d \in Deposits : SF_vars(SubmitProof(d)) /\ SF_vars(AlreadyDone(d))
  /\ WF_vars(CheckDeposit)
  /\ \A t \in TxIds : SF_vars(ReadEvent(t))

LiveSpec == Spec /\ Fairness

(***************************************************************************)
(* Properties.                                                             *)

(* MonitorChain never passes a change of the validators that poly has not  *)
(* executed: every block it has handled above poly's last epoch header     *)
(* carries the validators poly knows, through crashes, forced heights,     *)
(* transactions poly drops, and a commitHeader that does not look at the   *)
(* outcome.                                                                *)
EpochsOnPoly ==
  \A h \in Heights : polyEpoch < h /\ h < sync => ValsetAt[h] = ValsetAt[polyEpoch]

(* A proof goes to poly only once the deposit is safeBlockDistance blocks  *)
(* deep below the header it is proved under.                               *)
SafeProof ==
  \A t \in TxIds :
    polyTx[t].deposit # NoDeposit =>
      DepositHeight[polyTx[t].deposit] + SafeBlockDistance <= polyTx[t].height

(* The deposits the relayer still has in its database.                     *)
KeptOf(r, c) == r \cup {c[t] : t \in CheckKeys(c)}

Kept == KeptOf(retry, check)

(* No deposit of a block the relayer has passed, in this life of the       *)
(* process or according to its database, is neither in the database nor on *)
(* poly.                                                                   *)
NoDepositLost ==
  \A d \in Deposits :
    /\ Genesis <= DepositHeight[d]
    /\ DepositHeight[d] < sync \/ DepositHeight[d] <= dbHeight
    => d \in Kept \cup done

(* The relayer is an outbox: whatever its three goroutines do, what it     *)
(* keeps changes only as Outbox allows.                                    *)
Promise == INSTANCE Outbox WITH pending <- Kept, delivered <- done

IsOutbox == Promise!Spec

(* Every palette block is handled in the end: MonitorChain retries what    *)
(* fails, and waits for poly only as long as it takes.                     *)
EveryBlockHandled ==
  \A h \in Heights : (h < paletteHeight) ~> (h < sync)

(* Every deposit the relayer has taken on ends up on poly and leaves the   *)
(* database, also one whose proof poly executes after the validators have  *)
(* changed.                                                                *)
EveryDepositSettled ==
  \A d \in Deposits : (d \in Kept) ~> (d \in done /\ d \notin Kept)

=============================================================================
