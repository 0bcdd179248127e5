----------------------------- MODULE PolyRelay ------------------------------
(***************************************************************************)
(* The poly -> palette direction with the account it sends from: the       *)
(* goroutines of PolyManager use the nonces of one Account, and palette's  *)
(* node executes their transactions by nonce.                              *)
(*                                                                         *)
(* What each part does is in PolyManager and in Account.  Here is how they *)
(* meet in sendTxToPalette: the nonce is the id of the transaction; it is  *)
(* taken before EstimateGas, given back if signing or sending fails, and   *)
(* not given back if EstimateGas fails.                                    *)
(*                                                                         *)
(* One life of the process with one account, no other relayer, and a node  *)
(* that answers: the nonces are fresh then (PaletteSenderProofs), as       *)
(* NonceFresh checks for this module.                                      *)
(***************************************************************************)
EXTENDS Account, Sequences, FiniteSets

CONSTANTS
  Deposits, DepositHeight, NewKeepers, NoKeepers, MaxHeight, InitEpoch, Routes, Monitor,
  ChanLen, Word, StartHeights, MaxCrashes, NoDeposit

VARIABLES
  polyHeight, paletteEpoch, executed, dbHeight,
  pcM, currentHeight, workEnd, lastEpoch, isEpoch, todo, cnt, put, target,
  queue, sending, sent, crashes, dropped,
  nonce        \* the nonce a thread holds and has not sent

P == INSTANCE PolyManager WITH TxIds <- Nonces, NoTxId <- NoNonce, NoTx <- NoJob

(* Its faults are those of PolyManager: "nonceAt" is not one of them.      *)
ASSUME RelayAssumption == P!ConstantsAssumption

accountVars == <<nonceVars, chainNonce, nonce>>
relayVars ==
  <<polyHeight, paletteEpoch, executed, pool, dbHeight, pcM, currentHeight, workEnd, lastEpoch,
    isEpoch, todo, cnt, put, target, queue, sending, sent, crashes, dropped>>
vars == <<relayVars, accountVars>>

TypeOK ==
  /\ P!TypeOK
  /\ online \in 0..(MaxNonce + 1) \cup {NoNonce}
  /\ backup \in [Nonces -> Nat]
  /\ chainNonce \in 0..(MaxNonce + 1)
  /\ nonce \in [P!Threads -> Nonces \cup {NoNonce}]

Init ==
  /\ P!Init
  /\ AccountInit
  /\ nonce = [t \in P!Threads |-> NoNonce]

-----------------------------------------------------------------------------
(* The node executes the account's next transaction.                       *)
Mine ==
  /\ chainNonce \in Nonces
  /\ P!ExecuteTx(chainNonce)
  /\ chainNonce' = chainNonce + 1
  /\ UNCHANGED <<nonceVars, nonce>>

-----------------------------------------------------------------------------
(* sendTxToPalette.                                                        *)

UseNonce(t) ==
  /\ P!Sends(t)
  /\ nonce[t] = NoNonce
  /\ \E n \in Nonces : HandsOut(n) /\ nonce' = [nonce EXCEPT ![t] = n]
  /\ UNCHANGED <<relayVars, chainNonce>>

HasNonce(t) == P!Sends(t) /\ nonce[t] # NoNonce

LetGo(t) == nonce' = [nonce EXCEPT ![t] = NoNonce]

(* This error returns before the deferred ReturnNonce is set up.           *)
EstimateGasFails(t) ==
  /\ HasNonce(t)
  /\ P!Refused(t) \/ P!SendFails(t)
  /\ LetGo(t)
  /\ UNCHANGED <<nonceVars, chainNonce>>

SendTransaction(t) ==
  /\ HasNonce(t)
  /\ Takes(nonce[t])
  /\ P!Send(t, nonce[t])
  /\ LetGo(t)
  /\ UNCHANGED <<nonceVars, chainNonce>>

(* Signing or sending fails. *)
SendFails(t) ==
  /\ HasNonce(t)
  /\ P!SendFails(t)
  /\ ReturnNonce(nonce[t])
  /\ LetGo(t)
  /\ UNCHANGED <<online, chainNonce>>

Confirm(t) == P!Confirm(t) /\ UNCHANGED accountVars

SendTxToPalette(t) ==
  \/ UseNonce(t)
  \/ EstimateGasFails(t)
  \/ SendTransaction(t)
  \/ SendFails(t)
  \/ Confirm(t)

-----------------------------------------------------------------------------
(* What does not touch the account.                                        *)

NewBlock == P!NewBlock /\ UNCHANGED accountVars
MonitorChain == P!MonitorChain /\ UNCHANGED accountVars
TakeJob(r) == P!TakeJob(r) /\ UNCHANGED accountVars
ReadBlock == P!ReadBlock /\ UNCHANGED accountVars

StartManager ==
  /\ \E start \in StartHeights : P!StartManager(start)
  /\ UNCHANGED accountVars

-----------------------------------------------------------------------------
Next ==
  \/ NewBlock
  \/ Mine
  \/ StartManager
  \/ MonitorChain
  \/ \E r \in Routes : TakeJob(r)
  \/ \E t \in P!Threads : SendTxToPalette(t)

Spec == Init /\ [][Next]_vars

(* The goroutines run, both chains go on, and a call that is tried again   *)
(* and again succeeds in the end.                                          *)
Fairness ==
  /\ WF_vars(NewBlock)
  /\ WF_vars(Mine)
  /\ WF_vars(StartManager)
  /\ WF_vars(MonitorChain) /\ SF_vars(ReadBlock)
  /\ \A r \in Routes : WF_vars(TakeJob(r))
  /\ \A t \in P!Threads : WF_vars(SendTxToPalette(t))
  /\ SF_vars(SendTransaction(Monitor))

LiveSpec == Spec /\ Fairness

-----------------------------------------------------------------------------
(* Properties.                                                             *)

(* What a thread holds, and what is returned, the node still takes: the    *)
(* goroutines of PolyManager never make it refuse a nonce.                 *)
NonceFresh ==
  \A n \in Nonces : (backup[n] > 0 \/ \E t \in P!Threads : nonce[t] = n) => Takes(n)

(* The two ways in which the account can be stuck: the chain waits for a   *)
(* nonce that nobody has; a thread waits behind a nonce that is returned.  *)
Missing(n) ==
  /\ n < online
  /\ Takes(n)
  /\ backup[n] = 0
  /\ \A t \in P!Threads : nonce[t] # n

WaitsBehind(n) == backup[n] > 0 /\ \E t \in P!Threads : sent[t] > n

Stuck == \E n \in Nonces : Missing(n) \/ WaitsBehind(n)

(* A nonce goes missing at one place only: EstimateGas fails, and          *)
(* sendTxToPalette returns before the deferred ReturnNonce.  Whatever else *)
(* fails, a nonce that was given out is used up, queued, held or returned. *)
OnlyEstimateGasLeaks ==
  [][\A n \in Nonces :
       Missing(n)' => Missing(n) \/ \E t \in P!Threads : nonce[t] = n /\ EstimateGasFails(t)]_vars

(* waitTransactionConfirm waits for the thread's own transaction: no other *)
(* call is queued under its nonce, before or after it is executed, and no  *)
(* other thread waits for it.                                              *)
WaitsForItsOwn ==
  \A t \in P!Threads :
    sent[t] # NoNonce
    => /\ ~ Takes(sent[t])
       /\ Pooled(sent[t]) => pool[sent[t]] = P!Call(t)
       /\ \A u \in P!Threads : sent[u] = sent[t] => u = t

CaughtUp == polyHeight < currentHeight + 2

(* MonitorChain always catches up again with the block two below the tip,  *)
(* although it waits for room in the channels and for its own              *)
(* transactions, unless the account is stuck for ever.                     *)
CatchesUp == []<>CaughtUp \/ <>[]Stuck

(* What is on its way arrives while palette stays in its epoch, however    *)
(* full the channel is that it goes through and whatever sends fail before *)
(* it, unless it is dropped itself or the account is stuck for ever.       *)
EveryDepositRelayed ==
  \A d \in Deposits :
    \/ (P!OnItsWay(d) /\ P!InEpoch(d)) ~> (d \in executed \/ ~ P!InEpoch(d) \/ d \in dropped)
    \/ <>[]Stuck

(* "for future usage" (utils/nonce/nonce.go): a returned nonce is used     *)
(* again as long as there are blocks to handle.                            *)
ReturnedNonceIsUsed ==
  \A n \in Nonces : (backup[n] > 0) ~> (backup[n] = 0 \/ CaughtUp)

=============================================================================
