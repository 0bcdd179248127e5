----------------------------- MODULE PolyManager -----------------------------
(***************************************************************************)
(* The relayer's poly -> palette direction (manager/poly.go).              *)
(*                                                                         *)
(*   MonitorChain  walks over the poly blocks.  It hands the deposits of a *)
(*                 block to the routes, and sends a header that names new  *)
(*                 keepers to palette itself;                              *)
(*   a route       is a channel of a PaletteSender and the goroutine that  *)
(*                 sends what is in the channel, one call at a time.       *)
(*                                                                         *)
(* A transaction has an id here, and palette's node executes what it has   *)
(* taken at some time, in any order; PolyRelay puts an account and its     *)
(* nonces in the place of the ids.  The process may crash at any point;    *)
(* the channels are lost, the transactions sent are not.                   *)
(***************************************************************************)
EXTENDS Integers, Sequences, FiniteSets

CONSTANTS
  Deposits,       \* makeProof events for target contracts on palette
  DepositHeight,  \* the poly block of each deposit
  NewKeepers,     \* what each poly header names: keepers, or NoKeepers
  NoKeepers,
  MaxHeight,      \* bound: the last poly block
  InitEpoch,      \* the poly header palette's contract was initialised with
  Routes,         \* the routes of all senders: RoutineNum for each of them
  Monitor,        \* the goroutine of MonitorChain
  ChanLen,        \* capacity of a channel, 64 in the code
  Word,           \* 2^32
  StartHeights,   \* values an operator may give to the poly height flag
  MaxCrashes,     \* bound: the crashes of the process
  NoDeposit,
  TxIds,          \* bound: the ids of transactions
  NoTxId,
  NoTx,
  Faults          \* what may go wrong: a subset of AllFaults

AllFaults == {"initRead", "eccdRead", "merkle", "proof", "send", "lostReply", "db"}

Heights == 0..MaxHeight

(* Who sends transactions: the routes, and MonitorChain the headers. *)
Threads == Routes \cup {Monitor}

(* A call of the contract: verifyHeaderAndExecuteTx for a deposit, or      *)
(* changeBookKeeper for NoDeposit.  sigs is the header whose signatures it *)
(* carries.  The jobs of the routes are calls for deposits.                *)
Txs == [deposit : Deposits \cup {NoDeposit}, sigs : Heights]
Jobs == [deposit : Deposits, sigs : Heights]

ASSUME ConstantsAssumption ==
  /\ NoDeposit \notin Deposits
  /\ Monitor \notin Routes
  /\ NoTxId \notin TxIds
  /\ NoTx \notin Txs
  /\ MaxHeight \in Nat
  /\ DepositHeight \in [Deposits -> Heights]
  /\ DOMAIN NewKeepers = Heights
  /\ InitEpoch \in Heights
  /\ NewKeepers[InitEpoch] # NoKeepers
  /\ ChanLen \in Nat \ {0}
  /\ Word \in Nat
  /\ MaxHeight < Word
  /\ StartHeights \subseteq Heights
  /\ MaxCrashes \in Nat
  /\ Faults \subseteq AllFaults

ONT_USEFUL_BLOCK_NUM == 1

VARIABLES
  (* the poly chain *)
  polyHeight,
  (* palette's ECCM and ECCD: the height of the current epoch's header and  *)
  (* the deposits executed; the transactions its node has, by id            *)
  paletteEpoch, executed, pool,
  (* the database *)
  dbHeight,
  (* MonitorChain: workEnd is workHeightEnd; todo the events of the block   *)
  (* that are left, and cnt whether there was one; put the job for which    *)
  (* it waits for room in the channel of target                             *)
  pcM, currentHeight, workEnd, lastEpoch, isEpoch, todo, cnt, put, target,
  (* the routes: what is in the channel, and what the goroutine is sending  *)
  queue, sending,
  sent,           \* the id of the transaction a thread waits for
  crashes,
  dropped         \* history: deposits that an error or a crash made it drop

paletteVars == <<paletteEpoch, executed, pool>>
blockVars   == <<lastEpoch, isEpoch, todo, cnt, put, target>>
monVars     == <<pcM, currentHeight, workEnd, blockVars>>
routeVars   == <<queue, sending, sent>>
histVars    == <<crashes, dropped>>
vars == <<polyHeight, paletteVars, dbHeight, monVars, routeVars, histVars>>

TypeOK ==
  /\ polyHeight \in Heights
  /\ paletteEpoch \in InitEpoch..MaxHeight
  /\ executed \subseteq Deposits
  /\ pool \in [TxIds -> Txs \cup {NoTx}]
  /\ dbHeight \in Heights
  /\ pcM \in {"down", "idle", "block", "epoch", "events", "put", "header", "wait", "save"}
  /\ currentHeight \in Heights
  /\ workEnd \in 0..(Word - 1)
  /\ lastEpoch \in Heights
  /\ isEpoch \in BOOLEAN
  /\ todo \subseteq Deposits
  /\ cnt \in BOOLEAN
  /\ put \in Jobs \cup {NoTx}
  /\ target \in Threads
  /\ queue \in [Routes -> Seq(Jobs)]
  /\ \A r \in Routes : Len(queue[r]) <= ChanLen
  /\ sending \in [Routes -> Jobs \cup {NoTx}]
  /\ sent \in [Threads -> TxIds \cup {NoTxId}]
  /\ crashes \in 0..MaxCrashes
  /\ dropped \subseteq Deposits

Init ==
  /\ polyHeight = InitEpoch
  /\ paletteEpoch = InitEpoch
  /\ executed = {}
  /\ pool = [i \in TxIds |-> NoTx]
  /\ dbHeight = 0
  /\ pcM = "down"
  /\ currentHeight = 0
  /\ workEnd = 0
  /\ lastEpoch = 0
  /\ isEpoch = FALSE
  /\ todo = {}
  /\ cnt = FALSE
  /\ put = NoTx
  /\ target = Monitor
  /\ queue = [r \in Routes |-> <<>>]
  /\ sending = [r \in Routes |-> NoTx]
  /\ sent = [t \in Threads |-> NoTxId]
  /\ crashes = 0
  /\ dropped = {}

-----------------------------------------------------------------------------
(* The chains.                                                             *)

NewBlock ==
  /\ polyHeight < MaxHeight
  /\ polyHeight' = polyHeight + 1
  /\ UNCHANGED <<paletteVars, dbHeight, monVars, routeVars, histVars>>

IsEpochHeader(h) == NewKeepers[h] # NoKeepers

(* The keepers in force when a header is made have signed it: those named  *)
(* by the last epoch header before it.                                     *)
SignedBy(h, e) ==
  /\ e < h
  /\ IsEpochHeader(e)
  /\ \A k \in Heights : e < k /\ k < h => ~ IsEpochHeader(k)

(* The contract knows the keepers its current epoch header names, and      *)
(* takes their signatures under a later header only.                       *)
Verifies(sigs) ==
  \E e \in Heights : SignedBy(sigs, e) /\ paletteEpoch < sigs
                     /\ NewKeepers[e] = NewKeepers[paletteEpoch]

Accepts(tx) == Verifies(tx.sigs) /\ tx.deposit \notin executed

ExecuteTx(i) ==
  /\ pool[i] # NoTx
  /\ pool' = [pool EXCEPT ![i] = NoTx]
  /\ paletteEpoch' = IF Accepts(pool[i]) /\ pool[i].deposit = NoDeposit
                     THEN pool[i].sigs ELSE paletteEpoch
  /\ executed' = IF Accepts(pool[i]) /\ pool[i].deposit # NoDeposit
                 THEN executed \cup {pool[i].deposit} ELSE executed
  /\ UNCHANGED <<polyHeight, dbHeight, monVars, routeVars, histVars>>

(* Palette may have other relayers, that send it what verifies.            *)
OtherRelayer ==
  /\ \/ \E h \in Heights :
          /\ h <= polyHeight
          /\ IsEpochHeader(h)
          /\ Verifies(h)
          /\ paletteEpoch' = h
          /\ UNCHANGED executed
     \/ \E d \in Deposits :
          /\ DepositHeight[d] < polyHeight
          /\ executed' = executed \cup {d}
          /\ UNCHANGED paletteEpoch
  /\ UNCHANGED <<polyHeight, pool, dbHeight, monVars, routeVars, histVars>>

-----------------------------------------------------------------------------
(* The process.                                                            *)

Sub32(a, b) == IF a >= b THEN a - b ELSE a - b + Word

NoBlock ==
  /\ lastEpoch' = 0
  /\ isEpoch' = FALSE
  /\ todo' = {}
  /\ cnt' = FALSE
  /\ put' = NoTx
  /\ target' = Monitor

(* The jobs in the channels, and those a goroutine has in hand and has not *)
(* sent.                                                                   *)
RangeOf(q) == {q[i] : i \in DOMAIN q}
InMemory ==
  ({put} \cup {sending[r] : r \in {r \in Routes : sent[r] = NoTxId}}
     \cup UNION {RangeOf(queue[r]) : r \in Routes}) \ {NoTx}

Down ==
  /\ crashes < MaxCrashes
  /\ crashes' = crashes + 1
  /\ pcM' = "down"
  /\ NoBlock
  /\ queue' = [r \in Routes |-> <<>>]
  /\ sending' = [r \in Routes |-> NoTx]
  /\ sent' = [t \in Threads |-> NoTxId]
  /\ dropped' = dropped \cup {tx.deposit : tx \in InMemory}
  /\ UNCHANGED <<polyHeight, paletteVars, dbHeight, currentHeight, workEnd>>

Crash == pcM # "down" /\ Down

(* findLastEpochHeight answers 0 when the call of ECCD fails.              *)
FindLastEpochHeight(fault) == {paletteEpoch} \cup (IF fault \in Faults THEN {0} ELSE {})

StartManager(start) ==
  /\ pcM = "down"
  /\ pcM' = "idle"
  /\ \E latest \in FindLastEpochHeight("initRead") :
       currentHeight' = IF start > 0 THEN start
                        ELSE IF latest > dbHeight THEN latest ELSE dbHeight
  /\ UNCHANGED <<polyHeight, paletteVars, dbHeight, workEnd, blockVars, routeVars, histVars>>

-----------------------------------------------------------------------------
(* MonitorChain.                                                           *)

WorkHeightEnd == Sub32(Sub32(polyHeight, 1), ONT_USEFUL_BLOCK_NUM)

Tick ==
  /\ pcM = "idle"
  /\ WorkHeightEnd >= currentHeight
  /\ pcM' = "block"
  /\ workEnd' = WorkHeightEnd
  /\ UNCHANGED <<polyHeight, paletteVars, dbHeight, currentHeight, blockVars, routeVars, histVars>>

ValidStateHeight == currentHeight + 1

IsCurr == lastEpoch < ValidStateHeight

(* handleDepositEvents: the current epoch of palette is read first.        *)
BeginBlock ==
  /\ pcM = "block"
  /\ currentHeight <= workEnd
  /\ pcM' = "epoch"
  /\ lastEpoch' \in FindLastEpochHeight("eccdRead")
  /\ UNCHANGED <<polyHeight, paletteVars, dbHeight, currentHeight, workEnd, isEpoch, todo, cnt,
                 put, target, routeVars, histVars>>

EventsBelow(h) == {d \in Deposits : DepositHeight[d] + 1 = h}
EventsOf(h) == {d \in Deposits : DepositHeight[d] = h}

NamesNewKeepers(h) == IsEpochHeader(h) /\ NewKeepers[h] # NewKeepers[paletteEpoch]

(* Deposits are sent with the signatures of an anchor header if the header *)
(* they are proved under is not of palette's current epoch, or ends it.    *)
NeedsAnchor(epoch) == ~ IsCurr \/ epoch

AnchorHeight == IF IsCurr THEN ValidStateHeight + 1 ELSE lastEpoch + 1

SigHeight == IF NeedsAnchor(isEpoch) THEN AnchorHeight ELSE ValidStateHeight

(* isEpoch reads the keepers of palette; the block's events are fetched.   *)
ReadBlock ==
  /\ pcM = "epoch"
  /\ ValidStateHeight <= polyHeight
  /\ NeedsAnchor(NamesNewKeepers(ValidStateHeight)) => AnchorHeight <= polyHeight
  /\ pcM' = "events"
  /\ isEpoch' = NamesNewKeepers(ValidStateHeight)
  /\ todo' = EventsOf(currentHeight)
  /\ cnt' = FALSE
  /\ UNCHANGED <<polyHeight, paletteVars, dbHeight, currentHeight, workEnd, lastEpoch, put, target,
                 routeVars, histVars>>

(* A header, the keepers or the events cannot be read: the loop ends.      *)
ReadBlockFails ==
  /\ pcM = "epoch"
  /\ pcM' = "save"
  /\ NoBlock
  /\ UNCHANGED <<polyHeight, paletteVars, dbHeight, currentHeight, workEnd, routeVars, histVars>>

(* The errors of the anchor's reads are dropped, and its nil proof used.   *)
ReadBlockPanics ==
  /\ pcM = "epoch"
  /\ ValidStateHeight <= polyHeight
  /\ NeedsAnchor(NamesNewKeepers(ValidStateHeight))
  /\ "merkle" \in Faults \/ AnchorHeight > polyHeight
  /\ Down

DepositTx(d) == [deposit |-> d, sigs |-> SigHeight]

NextEvent(d) ==
  /\ pcM = "events"
  /\ d \in todo
  /\ todo' = todo \ {d}
  /\ UNCHANGED <<polyHeight, paletteVars, dbHeight, currentHeight, workEnd, lastEpoch, isEpoch,
                 routeVars, crashes>>

(* commitDepositEventsWithHeader: palette may have the deposit already.    *)
AlreadyRelayed(d) ==
  /\ NextEvent(d)
  /\ d \in executed
  /\ cnt' = TRUE
  /\ UNCHANGED <<pcM, put, target, dropped>>

(* The error of that question is dropped, and the answer taken for no.     *)
NotRelayed(d) == d \notin executed \/ "eccdRead" \in Faults

(* A sender and a route of it are drawn at random. *)
Dispatch(d, r) ==
  /\ NextEvent(d)
  /\ NotRelayed(d)
  /\ pcM' = "put"
  /\ put' = DepositTx(d)
  /\ target' = r
  /\ cnt' = TRUE
  /\ dropped' = dropped \ {d}

(* Sending to a full channel blocks.                                       *)
HasRoom(r) == Len(queue[r]) < ChanLen

AfterPut ==
  /\ pcM' = "events"
  /\ put' = NoTx
  /\ target' = Monitor
  /\ UNCHANGED <<polyHeight, paletteVars, dbHeight, currentHeight, workEnd, lastEpoch, isEpoch,
                 todo, cnt, sending, sent, histVars>>

PutOrDrop ==
  /\ pcM = "put"
  /\ queue' = [queue EXCEPT ![target] = IF HasRoom(target) THEN Append(@, put) ELSE @]
  /\ AfterPut

PutJob ==
  /\ pcM = "put"
  /\ HasRoom(target)
  /\ queue' = [queue EXCEPT ![target] = Append(@, put)]
  /\ AfterPut

(* getProofWithNotify: the event is passed over for good.                  *)
ProofFails(d) ==
  /\ "proof" \in Faults
  /\ NextEvent(d)
  /\ dropped' = dropped \cup {d}
  /\ UNCHANGED <<pcM, cnt, put, target>>

HeaderWithDeposits == cnt /\ isEpoch /\ IsCurr
HandleHeader == ~ cnt /\ isEpoch /\ IsCurr

NextBlock ==
  /\ pcM' = "block"
  /\ currentHeight' = currentHeight + 1
  /\ NoBlock

EndBlock ==
  /\ pcM = "events"
  /\ todo = {}
  /\ ~ HandleHeader
  /\ NextBlock
  /\ UNCHANGED <<polyHeight, paletteVars, dbHeight, workEnd, routeVars, histVars>>

BeginHeader ==
  /\ pcM = "events"
  /\ todo = {}
  /\ HandleHeader
  /\ pcM' = "header"
  /\ UNCHANGED <<polyHeight, paletteVars, dbHeight, currentHeight, workEnd, blockVars, routeVars,
                 histVars>>

EndLoop ==
  /\ pcM = "block"
  /\ currentHeight > workEnd
  /\ pcM' = "save"
  /\ UNCHANGED <<polyHeight, paletteVars, dbHeight, currentHeight, workEnd, blockVars, routeVars,
                 histVars>>

BeforeLastHandled == Sub32(currentHeight, 2)
LastHandled == Sub32(currentHeight, 1)

SaveHeight ==
  /\ pcM = "save"
  /\ pcM' = "idle"
  /\ \/ dbHeight' = LastHandled
     \/ "db" \in Faults /\ UNCHANGED dbHeight
  /\ UNCHANGED <<polyHeight, paletteVars, currentHeight, workEnd, blockVars, routeVars, histVars>>

MonitorChain ==
  \/ Tick
  \/ BeginBlock
  \/ ReadBlock
  \/ ReadBlockFails
  \/ \E d \in Deposits :
       \/ AlreadyRelayed(d)
       \/ \E r \in Routes : Dispatch(d, r)
       \/ ProofFails(d)
  \/ PutJob
  \/ EndBlock
  \/ BeginHeader
  \/ EndLoop
  \/ SaveHeight

-----------------------------------------------------------------------------
(* The goroutine of a route, and the calls of sendTxToPalette.             *)

NextJob(r) ==
  /\ queue[r] # <<>>
  /\ queue' = [queue EXCEPT ![r] = Tail(@)]
  /\ sending' = [sending EXCEPT ![r] = Head(queue[r])]
  /\ UNCHANGED <<polyHeight, paletteVars, dbHeight, monVars, sent, histVars>>

(* It waits for what it has sent before. *)
TakeJob(r) == sending[r] = NoTx /\ NextJob(r)

HeaderTx == [deposit |-> NoDeposit, sigs |-> ValidStateHeight]

Call(t) == IF t = Monitor THEN HeaderTx ELSE sending[t]

Sends(t) == IF t = Monitor THEN pcM = "header" ELSE sending[t] # NoTx /\ sent[t] = NoTxId

(* EstimateGas executes the call on palette's current state.               *)
Send(t, i) ==
  /\ Sends(t)
  /\ Accepts(Call(t))
  /\ pool[i] = NoTx
  /\ pool' = [pool EXCEPT ![i] = Call(t)]
  /\ sent' = [sent EXCEPT ![t] = i]
  /\ pcM' = IF t = Monitor THEN "wait" ELSE pcM
  /\ UNCHANGED <<polyHeight, paletteEpoch, executed, dbHeight, currentHeight, workEnd, blockVars,
                 queue, sending, histVars>>

(* The error is logged.  A deposit is gone then; commitHeader fails, and   *)
(* the loop ends.                                                          *)
GiveUp(t) ==
  /\ Sends(t)
  /\ sent' = [sent EXCEPT ![t] = NoTxId]
  /\ IF t = Monitor THEN pcM' = "save" /\ NoBlock /\ UNCHANGED sending
     ELSE sending' = [sending EXCEPT ![t] = NoTx] /\ UNCHANGED <<pcM, blockVars>>
  /\ UNCHANGED <<polyHeight, paletteEpoch, executed, dbHeight, currentHeight, workEnd, queue,
                 crashes>>

(* EstimateGas fails since palette would refuse the call. *)
Refused(t) ==
  /\ GiveUp(t)
  /\ ~ Accepts(Call(t))
  /\ UNCHANGED <<pool, dropped>>

LoseCall(t) ==
  /\ GiveUp(t)
  /\ dropped' = IF t = Monitor THEN dropped ELSE dropped \cup {sending[t].deposit}
  /\ UNCHANGED pool

(* EstimateGas, signing or SendTransaction returns another error. *)
SendFails(t) == "send" \in Faults /\ LoseCall(t)

(* Palette's node has taken the transaction all the same. *)
ReplyLost(t, i) ==
  /\ "lostReply" \in Faults
  /\ GiveUp(t)
  /\ Accepts(Call(t))
  /\ pool[i] = NoTx
  /\ pool' = [pool EXCEPT ![i] = Call(t)]
  /\ UNCHANGED dropped

(* waitTransactionConfirm: a transaction that palette has refused in the   *)
(* end is logged, and counts as sent, a header too.                        *)
Succeeded(t) == Call(t).deposit \in executed
Confirmed(t) == pool[sent[t]] = NoTx

Confirm(t) ==
  /\ sent[t] # NoTxId
  /\ Confirmed(t)
  /\ sent' = [sent EXCEPT ![t] = NoTxId]
  /\ IF t = Monitor THEN NextBlock /\ UNCHANGED sending
     ELSE sending' = [sending EXCEPT ![t] = NoTx] /\ UNCHANGED <<pcM, currentHeight, blockVars>>
  /\ UNCHANGED <<polyHeight, paletteVars, dbHeight, workEnd, queue, histVars>>

SendTxToPalette(t) ==
  \/ \E i \in TxIds : Send(t, i) \/ ReplyLost(t, i)
  \/ Refused(t)
  \/ SendFails(t)
  \/ Confirm(t)

-----------------------------------------------------------------------------
Next ==
  \/ NewBlock
  \/ \E i \in TxIds : ExecuteTx(i)
  \/ OtherRelayer
  \/ Crash
  \/ ReadBlockPanics
  \/ \E start \in StartHeights : StartManager(start)
  \/ MonitorChain
  \/ \E r \in Routes : TakeJob(r)
  \/ \E t \in Threads : SendTxToPalette(t)

Spec == Init /\ [][Next]_vars

-----------------------------------------------------------------------------
(* Properties.                                                             *)

(* MonitorChain never leaves behind a header that names new keepers: what  *)
(* it has passed, or will pass over after a restart because its database   *)
(* says so, palette has executed, or palette knows those keepers anyway.   *)
(* Checked where no epoch header proves a deposit: what ECCM does with a   *)
(* deposit under an epoch header is not to be seen in this repository.     *)
EpochsOnPalette ==
  \A h \in Heights :
    /\ IsEpochHeader(h)
    /\ paletteEpoch < h
    /\ h <= currentHeight \/ h <= dbHeight + 1
    => NewKeepers[h] = NewKeepers[paletteEpoch]

(* What is on its way to palette. *)
Carried ==
  (InMemory \cup {sending[r] : r \in Routes} \cup {pool[i] : i \in TxIds}) \ {NoTx}

OnItsWay(d) == \E tx \in Carried : tx.deposit = d /\ Verifies(tx.sigs)

(* The deposit is proved under a header of palette's current epoch.        *)
InEpoch(d) == SignedBy(DepositHeight[d] + 1, paletteEpoch)

(* Only a change of the keepers can make the relayer lose a deposit        *)
(* without an error that it has logged, or a crash: a deposit whose block  *)
(* it has passed, and that palette has not executed, is on its way with    *)
(* signatures palette takes, unless palette has left the epoch of the      *)
(* header that proves the deposit, or it was dropped for a cause of its    *)
(* own: its proof could not be read, it could not be sent, or the process  *)
(* died with it in a channel or in hand.                                   *)
OnlyEpochsLoseDeposits ==
  \A d \in Deposits :
    InitEpoch <= DepositHeight[d] /\ DepositHeight[d] < currentHeight /\ InEpoch(d)
    => d \in executed \/ OnItsWay(d) \/ d \in dropped

=============================================================================
