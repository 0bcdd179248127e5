-------------------------- MODULE PolyRelayProofs ---------------------------
(***************************************************************************)
(* Proofs about PolyRelay, for every value of its constants:               *)
(*                                                                         *)
(*   ImplementsPolyManager   P!Spec: the direction with an account is one  *)
(*                           of those PolyManager describes                *)
(*   TypeCorrect             []TypeOK                                      *)
(*   EpochsAreRelayed        []P!EpochsOnPalette                           *)
(*   DepositsAreKept         []P!OnlyEpochsLoseDeposits                    *)
(*   NoncesAreFresh          []NonceFresh                                  *)
(*   ThreadsWaitForTheirOwn  []WaitsForItsOwn                              *)
(*   NoOtherLeak             OnlyEstimateGasLeaks                          *)
(*                                                                         *)
(* The second, third and fourth carry over from PolyManagerProofs, under   *)
(* the conditions named there; the last two need the first of these.       *)
(***************************************************************************)
EXTENDS PolyRelay, TLAPS

-----------------------------------------------------------------------------
(* Types of the account.                                                   *)

AccountTypes ==
  /\ online \in 0..(MaxNonce + 1) \cup {NoNonce}
  /\ backup \in [Nonces -> Nat]
  /\ chainNonce \in 0..(MaxNonce + 1)
  /\ nonce \in [P!Threads -> Nonces \cup {NoNonce}]
  /\ DOMAIN pool = Nonces
  /\ pool = [n \in DOMAIN pool |-> pool[n]]

(* What neither the account nor its queue on the node takes part in.       *)
Others ==
  \/ NewBlock
  \/ StartManager
  \/ MonitorChain
  \/ \E r \in Routes : TakeJob(r)
  \/ \E t \in P!Threads : Confirm(t)

LEMMA OthersLeaveAccount ==
  ASSUME Others
  PROVE  UNCHANGED <<online, backup, chainNonce, nonce, pool>>
<1> USE DEF accountVars, nonceVars, P!paletteVars
<1>1. CASE NewBlock
  BY <1>1 DEF NewBlock, P!NewBlock
<1>2. CASE StartManager
  BY <1>2 DEF StartManager, P!StartManager
<1>3. CASE MonitorChain
  BY <1>3 DEF MonitorChain, P!MonitorChain, P!Tick, P!BeginBlock, P!ReadBlock, P!ReadBlockFails,
              P!AlreadyRelayed, P!Dispatch, P!ProofFails, P!NextEvent, P!PutJob, P!AfterPut,
              P!EndBlock, P!BeginHeader, P!EndLoop, P!SaveHeight
<1>4. CASE \E r \in Routes : TakeJob(r)
  BY <1>4 DEF TakeJob, P!TakeJob, P!NextJob
<1>5. CASE \E t \in P!Threads : Confirm(t)
  BY <1>5 DEF Confirm, P!Confirm
<1> QED
  BY <1>1, <1>2, <1>3, <1>4, <1>5 DEF Others

LEMMA TypesStart == Init => AccountTypes
BY MaxNonceAssumption DEF Init, AccountInit, AccountTypes, Nonces, NoNonce

(* What NonceManager gives out leaves its state well typed. *)
LEMMA HandsOutTypes ==
  ASSUME AccountTypes, NEW n \in Nonces, HandsOut(n)
  PROVE  /\ online' \in 0..(MaxNonce + 1) \cup {NoNonce}
         /\ backup' \in [Nonces -> Nat]
<1>1. CASE FirstInBackup(n) /\ PopBackup(n) /\ UNCHANGED online
  <2>1. backup[n] - 1 \in Nat
    BY <1>1 DEF AccountTypes, FirstInBackup
  <2> QED
    BY <1>1, <2>1 DEF AccountTypes, PopBackup
<1>2. CASE online' = NextOnline(n) /\ UNCHANGED backup
  BY <1>2, MaxNonceAssumption DEF AccountTypes, NextOnline, Nonces
<1> QED
  BY <1>1, <1>2 DEF HandsOut

(* The transaction of a thread goes into the queue under its nonce.        *)
LEMMA SendTransactionEffect ==
  ASSUME AccountTypes, NEW t \in P!Threads, SendTransaction(t)
  PROVE  /\ nonce[t] \in Nonces
         /\ Takes(nonce[t])
         /\ P!Sends(t)
         /\ pool' = [pool EXCEPT ![nonce[t]] = P!Call(t)]
         /\ sent' = [sent EXCEPT ![t] = nonce[t]]
         /\ nonce' = [nonce EXCEPT ![t] = NoNonce]
         /\ UNCHANGED <<online, backup, chainNonce>>
BY DEF SendTransaction, HasNonce, P!Send, LetGo, AccountTypes, nonceVars

(* A thread gives up, and its nonce leaves it.                             *)
LEMMA GivesUpEffect ==
  ASSUME NEW t \in P!Threads, EstimateGasFails(t) \/ SendFails(t)
  PROVE  /\ nonce[t] # NoNonce
         /\ nonce' = [nonce EXCEPT ![t] = NoNonce]
         /\ sent' = [sent EXCEPT ![t] = NoNonce]
         /\ UNCHANGED <<online, chainNonce, pool>>
BY DEF EstimateGasFails, SendFails, HasNonce, P!Refused, P!SendFails, P!LoseCall, P!GiveUp,
       LetGo, nonceVars

LEMMA MineEffect ==
  ASSUME Mine
  PROVE  /\ chainNonce \in Nonces
         /\ Pooled(chainNonce)
         /\ pool' = [pool EXCEPT ![chainNonce] = NoJob]
         /\ chainNonce' = chainNonce + 1
         /\ UNCHANGED <<online, backup, nonce, sent>>
BY DEF Mine, P!ExecuteTx, Pooled, nonceVars, P!routeVars

LEMMA TypesStep == AccountTypes /\ [Next]_vars => AccountTypes'
<1> SUFFICES ASSUME AccountTypes, [Next]_vars PROVE AccountTypes'
  OBVIOUS
<1>1. CASE Mine
  BY <1>1, MineEffect, MaxNonceAssumption DEF AccountTypes, Nonces
<1>2. CASE Others
  BY <1>2, OthersLeaveAccount DEF AccountTypes
<1>3. ASSUME NEW t \in P!Threads, UseNonce(t) PROVE AccountTypes'
  BY <1>3, HandsOutTypes DEF UseNonce, AccountTypes, relayVars
<1>4. ASSUME NEW t \in P!Threads, EstimateGasFails(t) PROVE AccountTypes'
  BY <1>4, GivesUpEffect DEF EstimateGasFails, AccountTypes, nonceVars
<1>5. ASSUME NEW t \in P!Threads, SendTransaction(t) PROVE AccountTypes'
  BY <1>5, SendTransactionEffect DEF AccountTypes
<1>6. ASSUME NEW t \in P!Threads, SendFails(t) PROVE AccountTypes'
  <2>1. nonce[t] \in Nonces
    BY <1>6, GivesUpEffect DEF AccountTypes
  <2>2. backup' \in [Nonces -> Nat]
    BY <1>6, <2>1 DEF SendFails, ReturnNonce, AccountTypes
  <2> QED
    BY <1>6, <2>2, GivesUpEffect DEF AccountTypes
<1>7. CASE UNCHANGED vars
  BY <1>7 DEF AccountTypes, vars, accountVars, nonceVars, relayVars
<1> QED
  BY <1>1, <1>2, <1>3, <1>4, <1>5, <1>6, <1>7 DEF Next, Others, SendTxToPalette

LEMMA TypesKept == Spec => []AccountTypes
BY TypesStart, TypesStep, PTL DEF Spec

-----------------------------------------------------------------------------
(* The direction does what PolyManager says: a step is one of its steps,   *)
(* or leaves its variables alone.                                          *)

LEMMA StepsAreSteps == AccountTypes /\ [Next]_vars => [P!Next]_P!vars
<1> SUFFICES ASSUME AccountTypes, [Next]_vars PROVE [P!Next]_P!vars
  OBVIOUS
<1>1. CASE NewBlock
  BY <1>1 DEF NewBlock, P!Next
<1>2. CASE Mine
  BY <1>2 DEF Mine, P!Next
<1>3. CASE StartManager
  BY <1>3 DEF StartManager, P!Next
<1>4. CASE MonitorChain
  BY <1>4 DEF MonitorChain, P!Next
<1>5. CASE \E r \in Routes : TakeJob(r)
  BY <1>5 DEF TakeJob, P!Next
<1>6. ASSUME NEW t \in P!Threads, SendTxToPalette(t) PROVE [P!Next]_P!vars
  <2>1. CASE UseNonce(t)
    BY <2>1 DEF UseNonce, relayVars, P!vars, P!paletteVars, P!blockVars, P!monVars, P!routeVars,
                P!histVars
  <2>2. CASE SendTransaction(t)
    <3>1. P!Send(t, nonce[t]) /\ nonce[t] \in Nonces
      BY <2>2, SendTransactionEffect DEF SendTransaction
    <3> QED
      BY <3>1 DEF P!SendTxToPalette, P!Next
  <2>3. CASE EstimateGasFails(t) \/ SendFails(t) \/ Confirm(t)
    BY <2>3 DEF EstimateGasFails, SendFails, Confirm, P!SendTxToPalette, P!Next
  <2> QED
    BY <1>6, <2>1, <2>2, <2>3 DEF SendTxToPalette
<1>7. CASE UNCHANGED vars
  BY <1>7 DEF vars, relayVars, P!vars, P!paletteVars, P!blockVars, P!monVars, P!routeVars,
              P!histVars
<1> QED
  BY <1>1, <1>2, <1>3, <1>4, <1>5, <1>6, <1>7 DEF Next

(* Every behaviour of PolyRelay is one of PolyManager, with the nonces as  *)
(* the ids of the transactions.                                            *)
THEOREM ImplementsPolyManager == Spec => P!Spec
<1>1. Init => P!Init
  BY DEF Init
<1> QED
  BY <1>1, StepsAreSteps, TypesKept, PTL DEF Spec, P!Spec

-----------------------------------------------------------------------------
(* What is proved about PolyManager holds here.  PP is P with the proofs:  *)
(* its definitions are those of P.                                         *)

PP == INSTANCE PolyManagerProofs WITH TxIds <- Nonces, NoTxId <- NoNonce, NoTx <- NoJob

LEMMA SameAssumption == PP!ConstantsAssumption
BY RelayAssumption
   DEF P!ConstantsAssumption, PP!ConstantsAssumption, P!AllFaults, PP!AllFaults, P!Heights,
       PP!Heights, P!Txs, PP!Txs

LEMMA SameChain ==
  /\ \A h, e : P!SignedBy(h, e) <=> PP!SignedBy(h, e)
  /\ \A h : P!Verifies(h) <=> PP!Verifies(h)
BY DEF P!SignedBy, PP!SignedBy, P!Verifies, PP!Verifies, P!IsEpochHeader, PP!IsEpochHeader,
       P!Heights, PP!Heights

LEMMA SameNext == P!Next <=> PP!Next
<1>1. /\ P!NewBlock <=> PP!NewBlock
      /\ \A i : P!ExecuteTx(i) <=> PP!ExecuteTx(i)
      /\ P!OtherRelayer <=> PP!OtherRelayer
  BY DEF P!NewBlock, PP!NewBlock, P!ExecuteTx, PP!ExecuteTx, P!OtherRelayer, PP!OtherRelayer,
         P!Accepts, PP!Accepts, P!Verifies, PP!Verifies, P!SignedBy, PP!SignedBy, P!IsEpochHeader,
         PP!IsEpochHeader, P!Heights, PP!Heights, P!paletteVars, PP!paletteVars, P!blockVars,
         PP!blockVars, P!monVars, PP!monVars, P!routeVars, PP!routeVars, P!histVars, PP!histVars
<1>2. /\ P!Crash <=> PP!Crash
      /\ P!ReadBlockPanics <=> PP!ReadBlockPanics
  BY DEF P!Crash, PP!Crash, P!ReadBlockPanics, PP!ReadBlockPanics, P!Down, PP!Down, P!NoBlock,
         PP!NoBlock, P!InMemory, PP!InMemory, P!RangeOf, PP!RangeOf, P!Threads, PP!Threads,
         P!NeedsAnchor, PP!NeedsAnchor, P!AnchorHeight, PP!AnchorHeight, P!IsCurr, PP!IsCurr,
         P!ValidStateHeight, PP!ValidStateHeight, P!NamesNewKeepers, PP!NamesNewKeepers,
         P!IsEpochHeader, PP!IsEpochHeader, P!paletteVars, PP!paletteVars
<1>3. \A start : P!StartManager(start) <=> PP!StartManager(start)
  BY DEF P!StartManager, PP!StartManager, P!FindLastEpochHeight, PP!FindLastEpochHeight,
         P!paletteVars, PP!paletteVars, P!blockVars, PP!blockVars, P!monVars, PP!monVars,
         P!routeVars, PP!routeVars, P!histVars, PP!histVars
<1>4. P!MonitorChain <=> PP!MonitorChain
  BY DEF P!MonitorChain, PP!MonitorChain, P!Tick, PP!Tick, P!WorkHeightEnd, PP!WorkHeightEnd,
         P!Sub32, PP!Sub32, P!ONT_USEFUL_BLOCK_NUM, PP!ONT_USEFUL_BLOCK_NUM, P!BeginBlock,
         PP!BeginBlock, P!FindLastEpochHeight, PP!FindLastEpochHeight, P!ReadBlock, PP!ReadBlock,
         P!NeedsAnchor, PP!NeedsAnchor, P!AnchorHeight, PP!AnchorHeight, P!IsCurr, PP!IsCurr,
         P!ValidStateHeight, PP!ValidStateHeight, P!NamesNewKeepers, PP!NamesNewKeepers,
         P!IsEpochHeader, PP!IsEpochHeader, P!EventsOf, PP!EventsOf, P!ReadBlockFails,
         PP!ReadBlockFails, P!NoBlock, PP!NoBlock, P!AlreadyRelayed, PP!AlreadyRelayed,
         P!NextEvent, PP!NextEvent, P!Dispatch, PP!Dispatch, P!NotRelayed, PP!NotRelayed,
         P!DepositTx, PP!DepositTx, P!SigHeight, PP!SigHeight, P!ProofFails, PP!ProofFails,
         P!PutJob, PP!PutJob, P!HasRoom, PP!HasRoom, P!AfterPut, PP!AfterPut, P!EndBlock,
         PP!EndBlock, P!HandleHeader, PP!HandleHeader, P!NextBlock, PP!NextBlock, P!BeginHeader,
         PP!BeginHeader, P!EndLoop, PP!EndLoop, P!SaveHeight, PP!SaveHeight, P!LastHandled,
         PP!LastHandled, P!paletteVars, PP!paletteVars, P!blockVars, PP!blockVars, P!monVars,
         PP!monVars, P!routeVars, PP!routeVars, P!histVars, PP!histVars
<1>5. \A r : P!TakeJob(r) <=> PP!TakeJob(r)
  BY DEF P!TakeJob, PP!TakeJob, P!NextJob, PP!NextJob, P!paletteVars, PP!paletteVars, P!blockVars,
         PP!blockVars, P!monVars, PP!monVars, P!routeVars, PP!routeVars, P!histVars, PP!histVars
<1>6. \A t : P!SendTxToPalette(t) <=> PP!SendTxToPalette(t)
  BY DEF P!SendTxToPalette, PP!SendTxToPalette, P!Send, PP!Send, P!ReplyLost, PP!ReplyLost,
         P!Refused, PP!Refused, P!SendFails, PP!SendFails, P!LoseCall, PP!LoseCall, P!GiveUp,
         PP!GiveUp, P!Sends, PP!Sends, P!Call, PP!Call, P!HeaderTx, PP!HeaderTx,
         P!ValidStateHeight, PP!ValidStateHeight, P!Accepts, PP!Accepts, P!Verifies, PP!Verifies,
         P!SignedBy, PP!SignedBy, P!IsEpochHeader, PP!IsEpochHeader, P!Heights, PP!Heights,
         P!Confirm, PP!Confirm, P!Confirmed, PP!Confirmed, P!NextBlock, PP!NextBlock, P!NoBlock,
         PP!NoBlock, P!paletteVars, PP!paletteVars, P!blockVars, PP!blockVars, P!monVars,
         PP!monVars, P!routeVars, PP!routeVars, P!histVars, PP!histVars
<1> QED
  BY <1>1, <1>2, <1>3, <1>4, <1>5, <1>6 DEF P!Next, PP!Next, P!Threads, PP!Threads

LEMMA SameSpec == P!Spec => PP!Spec
<1>1. P!Init => PP!Init
  BY DEF P!Init, PP!Init, P!Threads, PP!Threads
<1>2. [P!Next]_P!vars => [PP!Next]_PP!vars
  BY SameNext
     DEF P!vars, PP!vars, P!paletteVars, PP!paletteVars, P!monVars, PP!monVars, P!blockVars,
         PP!blockVars, P!routeVars, PP!routeVars, P!histVars, PP!histVars
<1> QED
  BY <1>1, <1>2, PTL DEF P!Spec, PP!Spec

LEMMA SameTypes == P!TypeOK <=> PP!TypeOK
BY DEF P!TypeOK, PP!TypeOK, P!Heights, PP!Heights, P!Threads, PP!Threads, P!Txs, PP!Txs, P!Jobs,
       PP!Jobs

LEMMA ManagerTypesKept == PP!ReadsEpoch /\ Spec => []PP!TypeInv
BY ImplementsPolyManager, SameSpec, SameAssumption, PP!TypesAreKept, PTL

(* Every variable keeps its type, if palette's epoch can be read when the  *)
(* process starts.                                                         *)
THEOREM TypeCorrect == PP!ReadsEpoch /\ Spec => []TypeOK
<1>1. AccountTypes /\ PP!TypeInv => TypeOK
  BY SameTypes DEF PP!TypeInv, TypeOK, AccountTypes
<1> QED
  BY <1>1, TypesKept, ManagerTypesKept, PTL

(* The keepers: MonitorChain, held up by full channels and by its account, *)
(* never leaves a header behind that palette needs.                        *)
THEOREM EpochsAreRelayed ==
  PP!ReadsEpoch /\ PP!StartsInEpoch /\ PP!NoEpochProvesADeposit /\ Spec => []P!EpochsOnPalette
<1>1. PP!EpochsOnPalette => P!EpochsOnPalette
  BY DEF P!EpochsOnPalette, PP!EpochsOnPalette, P!IsEpochHeader, PP!IsEpochHeader, P!Heights,
         PP!Heights
<1> QED
  BY <1>1, ImplementsPolyManager, SameSpec, SameAssumption, PP!EpochsAreRelayed, PTL

(* The deposits: the relayer loses one only if palette has left the epoch  *)
(* of the header that proves it, or for a cause that is recorded, whatever *)
(* becomes of the nonces.                                                  *)
THEOREM DepositsAreKept ==
  PP!ReadsEpoch /\ PP!StartsInEpoch /\ PP!NoEpochProvesADeposit /\ Spec
  => []P!OnlyEpochsLoseDeposits
<1>1. P!Carried = PP!Carried
  BY DEF P!Carried, PP!Carried, P!InMemory, PP!InMemory, P!RangeOf, PP!RangeOf
<1>2. PP!OnlyEpochsLoseDeposits => P!OnlyEpochsLoseDeposits
  BY <1>1, SameChain
     DEF P!OnlyEpochsLoseDeposits, PP!OnlyEpochsLoseDeposits, P!OnItsWay, PP!OnItsWay, P!InEpoch,
         PP!InEpoch
<1> QED
  BY <1>2, ImplementsPolyManager, SameSpec, SameAssumption, PP!DepositsAreKept, PTL

-----------------------------------------------------------------------------
(* Owners.  A nonce is in one place: with a thread or returned, and then   *)
(* below what NonceManager gives out next.                                 *)

Holds(t, n) == nonce[t] = n

OneOwner ==
  \A n \in Nonces :
    /\ backup[n] <= 1
    /\ backup[n] > 0 => \A t \in P!Threads : ~ Holds(t, n)
    /\ \A t, u \in P!Threads : Holds(t, n) /\ Holds(u, n) => t = u

GivenOut ==
  \A n \in Nonces : (backup[n] > 0 \/ \E t \in P!Threads : Holds(t, n)) => n < online

OwnerInv == OneOwner /\ GivenOut

LEMMA OwnersStart == Init => OwnerInv
BY DEF Init, AccountInit, OwnerInv, OneOwner, GivenOut, Holds, Nonces, NoNonce

(* Whoever asks NonceManager becomes the only owner of what he gets.       *)
LEMMA HandsOutUnowned ==
  ASSUME AccountTypes, OwnerInv, NEW n \in Nonces, HandsOut(n)
  PROVE  /\ \A t \in P!Threads : ~ Holds(t, n)
         /\ backup'[n] = 0
         /\ \A m \in Nonces : m # n => backup'[m] = backup[m]
         /\ n < online'
         /\ \A m \in Nonces : m < online => m < online'
<1> USE MaxNonceAssumption DEF Nonces
<1>1. CASE FirstInBackup(n) /\ PopBackup(n) /\ UNCHANGED online
  <2>1. backup[n] = 1 /\ \A t \in P!Threads : ~ Holds(t, n)
    BY <1>1 DEF OwnerInv, OneOwner, FirstInBackup, AccountTypes
  <2>2. n < online
    BY <1>1 DEF OwnerInv, GivenOut, FirstInBackup
  <2>3. backup' = [backup EXCEPT ![n] = 0]
    BY <1>1, <2>1 DEF PopBackup
  <2> QED
    BY <1>1, <2>1, <2>2, <2>3 DEF AccountTypes
<1>2. CASE /\ BackupIsEmpty
           /\ IF online = NoNonce THEN IsFirstNonce(n) ELSE online = n
           /\ online' = NextOnline(n)
           /\ UNCHANGED backup
  <2>1. online = NoNonce \/ online = n
    BY <1>2
  <2>2. \A m \in Nonces : m < online => m < n
    BY <2>1 DEF NoNonce
  <2>3. \A t \in P!Threads : ~ Holds(t, n)
    BY <2>1 DEF OwnerInv, GivenOut, NoNonce
  <2> QED
    BY <1>2, <2>2, <2>3 DEF BackupIsEmpty, NextOnline
<1> QED
  BY <1>1, <1>2 DEF HandsOut

(* A thread lets go of a nonce that goes nowhere else.                     *)
LEMMA FewerOwners ==
  ASSUME OwnerInv, UNCHANGED nonceVars,
         \A t \in P!Threads : \A n \in Nonces : Holds(t, n)' => Holds(t, n)
  PROVE  OwnerInv'
<1>1. backup' = backup /\ online' = online
  BY DEF nonceVars
<1>2. OneOwner'
  BY <1>1 DEF OwnerInv, OneOwner
<1>3. GivenOut'
  BY <1>1 DEF OwnerInv, GivenOut
<1> QED
  BY <1>2, <1>3 DEF OwnerInv

(* A thread that has let go holds nothing.                                 *)
LEMMA LetsGo ==
  ASSUME AccountTypes, NEW t \in P!Threads, nonce' = [nonce EXCEPT ![t] = NoNonce]
  PROVE  \A u \in P!Threads : \A n \in Nonces : Holds(u, n)' => Holds(u, n) /\ u # t
BY DEF Holds, AccountTypes, Nonces, NoNonce

LEMMA OwnersStep == AccountTypes /\ OwnerInv /\ [Next]_vars => OwnerInv'
<1> SUFFICES ASSUME AccountTypes, OwnerInv, [Next]_vars PROVE OwnerInv'
  OBVIOUS
<1>1. CASE Mine
  BY <1>1, MineEffect, FewerOwners DEF Holds, nonceVars
<1>2. CASE Others
  BY <1>2, OthersLeaveAccount, FewerOwners DEF Holds, nonceVars
<1>3. ASSUME NEW t \in P!Threads, UseNonce(t) PROVE OwnerInv'
  <2>1. PICK n \in Nonces : HandsOut(n) /\ nonce' = [nonce EXCEPT ![t] = n]
    BY <1>3 DEF UseNonce
  <2>2. /\ \A u \in P!Threads : ~ Holds(u, n)
        /\ backup'[n] = 0
        /\ \A m \in Nonces : m # n => backup'[m] = backup[m]
        /\ n < online'
        /\ \A m \in Nonces : m < online => m < online'
    BY <2>1, HandsOutUnowned
  <2>3. \A u \in P!Threads : \A m \in Nonces :
          Holds(u, m)' => (Holds(u, m) /\ m # n) \/ (u = t /\ m = n)
    BY <2>1, <2>2 DEF Holds, AccountTypes
  <2>4. OneOwner'
    BY <2>2, <2>3 DEF OwnerInv, OneOwner
  <2>5. GivenOut'
    BY <2>2, <2>3 DEF OwnerInv, GivenOut
  <2> QED
    BY <2>4, <2>5 DEF OwnerInv
<1>4. ASSUME NEW t \in P!Threads, EstimateGasFails(t) \/ SendTransaction(t) PROVE OwnerInv'
  <2>1. nonce' = [nonce EXCEPT ![t] = NoNonce] /\ UNCHANGED nonceVars
    BY <1>4 DEF EstimateGasFails, SendTransaction, LetGo
  <2> QED
    BY <2>1, LetsGo, FewerOwners
<1>5. ASSUME NEW t \in P!Threads, SendFails(t) PROVE OwnerInv'
  <2>1. PICK n \in Nonces : n = nonce[t] /\ Holds(t, n)
    BY <1>5 DEF SendFails, HasNonce, Holds, AccountTypes
  <2>2. backup[n] = 0
    BY <2>1 DEF OwnerInv, OneOwner, AccountTypes
  <2>3. backup' = [backup EXCEPT ![n] = 1] /\ online' = online
    BY <1>5, <2>1, <2>2 DEF SendFails, ReturnNonce
  <2>4. \A u \in P!Threads : \A m \in Nonces : Holds(u, m)' => Holds(u, m) /\ u # t
    BY <1>5, LetsGo DEF SendFails, LetGo
  <2>5. \A u \in P!Threads : ~ Holds(u, n)'
    BY <2>1, <2>4 DEF OwnerInv, OneOwner
  <2>6. OneOwner'
    BY <2>1, <2>3, <2>4, <2>5 DEF OwnerInv, OneOwner, AccountTypes
  <2>7. GivenOut'
    BY <2>1, <2>3, <2>4 DEF OwnerInv, GivenOut, AccountTypes
  <2> QED
    BY <2>6, <2>7 DEF OwnerInv
<1>6. CASE UNCHANGED vars
  BY <1>6, FewerOwners DEF vars, accountVars, nonceVars, Holds
<1> QED
  BY <1>1, <1>2, <1>3, <1>4, <1>5, <1>6 DEF Next, Others, SendTxToPalette

LEMMA OwnersKept == Spec => []OwnerInv
BY TypesKept, OwnersStart, OwnersStep, PTL DEF Spec

-----------------------------------------------------------------------------
(* Fresh nonces.  What the node has, executed or queued, was given out     *)
(* before.                                                                 *)

OnNode ==
  /\ online = NoNonce \/ chainNonce <= online
  /\ \A n \in Nonces : Pooled(n) => n < online

FreshInv == NonceFresh /\ OnNode

LEMMA FreshStart == Init => FreshInv
BY DEF Init, AccountInit, FreshInv, NonceFresh, OnNode, Pooled, Nonces, NoNonce

(* A step in which no nonce is given out or comes back. *)
LEMMA FewerAreFresh ==
  ASSUME FreshInv, UNCHANGED <<online, backup, chainNonce, pool>>,
         \A t \in P!Threads : \A n \in Nonces : Holds(t, n)' => Holds(t, n)
  PROVE  FreshInv'
<1>1. NonceFresh'
  BY DEF FreshInv, NonceFresh, Takes, Pooled, Holds
<1>2. OnNode'
  BY DEF FreshInv, OnNode, Pooled
<1> QED
  BY <1>1, <1>2 DEF FreshInv

(* What NonceManager gives out, the node takes. *)
LEMMA HandsOutFresh ==
  ASSUME AccountTypes, FreshInv, NEW n \in Nonces, HandsOut(n)
  PROVE  Takes(n)
<1>1. "nonceAt" \notin Faults
  BY RelayAssumption DEF P!ConstantsAssumption, P!AllFaults
<1>2. CASE FirstInBackup(n)
  BY <1>2 DEF FirstInBackup, FreshInv, NonceFresh
<1>3. CASE online = NoNonce /\ IsFirstNonce(n)
  BY <1>1, <1>3 DEF IsFirstNonce, IsPendingNonce, Takes
<1>4. CASE online # NoNonce /\ online = n
  BY <1>4, MaxNonceAssumption DEF FreshInv, OnNode, Takes, Nonces
<1> QED
  BY <1>2, <1>3, <1>4 DEF HandsOut

LEMMA FreshStep ==
  AccountTypes /\ OwnerInv /\ FreshInv /\ [Next]_vars => FreshInv'
<1> SUFFICES ASSUME AccountTypes, OwnerInv, FreshInv, [Next]_vars PROVE FreshInv'
  OBVIOUS
<1> USE MaxNonceAssumption DEF Nonces
<1>1. CASE Mine
  <2>1. chainNonce < online
    BY <1>1, MineEffect DEF FreshInv, OnNode
  <2>2. \A n \in Nonces : Pooled(n)' => Pooled(n)
    BY <1>1, MineEffect DEF Pooled, AccountTypes
  <2>3. \A n \in Nonces : Takes(n) => Takes(n)'
    BY <1>1, <2>2, MineEffect DEF Takes, AccountTypes
  <2>4. NonceFresh'
    BY <1>1, <2>3, MineEffect DEF FreshInv, NonceFresh
  <2>5. OnNode'
    BY <1>1, <2>1, <2>2, MineEffect DEF FreshInv, OnNode, AccountTypes
  <2> QED
    BY <2>4, <2>5 DEF FreshInv
<1>2. CASE Others
  BY <1>2, OthersLeaveAccount, FewerAreFresh DEF Holds
<1>3. ASSUME NEW t \in P!Threads, UseNonce(t) PROVE FreshInv'
  <2>1. PICK n \in Nonces : HandsOut(n) /\ nonce' = [nonce EXCEPT ![t] = n]
    BY <1>3 DEF UseNonce
  <2>2. chainNonce' = chainNonce /\ pool' = pool
    BY <1>3 DEF UseNonce, relayVars
  <2>3. /\ backup'[n] = 0
        /\ \A m \in Nonces : m # n => backup'[m] = backup[m]
        /\ n < online'
        /\ \A m \in Nonces : m < online => m < online'
    BY <2>1, HandsOutUnowned
  <2>4. Takes(n)
    BY <2>1, HandsOutFresh
  <2>5. \A u \in P!Threads : \A m \in Nonces : nonce'[u] = m => nonce[u] = m \/ m = n
    BY <2>1 DEF AccountTypes
  <2>6. NonceFresh'
    BY <2>2, <2>3, <2>4, <2>5 DEF FreshInv, NonceFresh, Takes, Pooled
  <2>7. online' \in Nat /\ chainNonce <= online'
    <3>1. online' \in 0..(MaxNonce + 1) \cup {NoNonce}
      BY <2>1, HandsOutTypes
    <3>2. chainNonce <= n
      BY <2>4 DEF Takes
    <3> QED
      BY <2>3, <3>1, <3>2 DEF AccountTypes, NoNonce
  <2>8. OnNode'
    BY <2>2, <2>3, <2>7 DEF FreshInv, OnNode, Pooled
  <2> QED
    BY <2>6, <2>8 DEF FreshInv
<1>4. ASSUME NEW t \in P!Threads, EstimateGasFails(t) PROVE FreshInv'
  BY <1>4, GivesUpEffect, LetsGo, FewerAreFresh DEF EstimateGasFails, nonceVars
<1>5. ASSUME NEW t \in P!Threads, SendTransaction(t) PROVE FreshInv'
  (* Its owner queues a nonce, and there is no other owner.                *)
  <2>1. PICK n \in Nonces : n = nonce[t] /\ Holds(t, n)
    BY <1>5, SendTransactionEffect DEF Holds
  <2>2. \A m \in Nonces : m # n => pool'[m] = pool[m]
    BY <1>5, <2>1, SendTransactionEffect DEF AccountTypes
  <2>3. \A u \in P!Threads : \A m \in Nonces : Holds(u, m)' => Holds(u, m) /\ u # t
    BY <1>5, SendTransactionEffect, LetsGo
  <2>4. ~ (backup[n] > 0) /\ \A u \in P!Threads : ~ Holds(u, n)'
    BY <2>1, <2>3 DEF OwnerInv, OneOwner
  <2>5. NonceFresh'
    BY <1>5, <2>2, <2>3, <2>4, SendTransactionEffect
       DEF FreshInv, NonceFresh, Takes, Pooled, Holds
  <2>6. n < online
    BY <2>1 DEF OwnerInv, GivenOut
  <2>7. OnNode'
    BY <1>5, <2>2, <2>6, SendTransactionEffect DEF FreshInv, OnNode, Pooled
  <2> QED
    BY <2>5, <2>7 DEF FreshInv
<1>6. ASSUME NEW t \in P!Threads, SendFails(t) PROVE FreshInv'
  (* The node still takes a nonce that comes back: it took no transaction. *)
  <2>1. PICK n \in Nonces : n = nonce[t] /\ Holds(t, n)
    BY <1>6, GivesUpEffect DEF Holds, AccountTypes
  <2>2. Takes(n)
    BY <2>1 DEF FreshInv, NonceFresh, Holds
  <2>3. \A m \in Nonces : m # n => backup'[m] = backup[m]
    BY <1>6, <2>1 DEF SendFails, ReturnNonce, AccountTypes
  <2>4. \A u \in P!Threads : \A m \in Nonces : Holds(u, m)' => Holds(u, m)
    BY <1>6, GivesUpEffect, LetsGo
  <2>5. NonceFresh'
    BY <1>6, <2>2, <2>3, <2>4, GivesUpEffect DEF FreshInv, NonceFresh, Takes, Pooled, Holds
  <2>6. OnNode'
    BY <1>6, GivesUpEffect DEF FreshInv, OnNode, Pooled
  <2> QED
    BY <2>5, <2>6 DEF FreshInv
<1>7. CASE UNCHANGED vars
  BY <1>7, FewerAreFresh DEF vars, accountVars, nonceVars, relayVars, Holds
<1> QED
  BY <1>1, <1>2, <1>3, <1>4, <1>5, <1>6, <1>7 DEF Next, Others, SendTxToPalette

LEMMA FreshKept == Spec => []FreshInv
BY FreshStart, FreshStep, TypesKept, OwnersKept, PTL DEF Spec

(* What a goroutine holds, and what is returned, the node of palette still *)
(* takes, whatever calls fail and however the goroutines interleave.       *)
THEOREM NoncesAreFresh == Spec => []NonceFresh
<1>1. FreshInv => NonceFresh
  BY DEF FreshInv
<1> QED
  BY <1>1, FreshKept, PTL

-----------------------------------------------------------------------------
(* Waiting.  A thread waits for one nonce at most, and only MonitorChain   *)
(* and the thread itself change the call that it has sent.                 *)

WaitTypes ==
  /\ sent \in [P!Threads -> Nonces \cup {NoNonce}]
  /\ DOMAIN sending = Routes
  /\ sending = [r \in DOMAIN sending |-> sending[r]]
  /\ pcM = "wait" <=> sent[Monitor] # NoNonce
  /\ \A r \in Routes : sending[r] = NoJob => sent[r] = NoNonce

LEMMA WaitTypesStart == Init => WaitTypes
BY RelayAssumption DEF Init, P!Init, WaitTypes, P!Threads, P!ConstantsAssumption

(* No step but its own disturbs a thread that waits. *)
LEMMA CallsAreKept ==
  ASSUME AccountTypes, WaitTypes, Next
  PROVE  /\ WaitTypes'
         /\ \A t \in P!Threads :
              sent'[t] # NoNonce
              => \/ sent'[t] = sent[t] /\ P!Call(t)' = P!Call(t)
                 \/ SendTransaction(t) /\ P!Call(t)' = P!Call(t)
<1> USE RelayAssumption DEF WaitTypes, P!Threads, P!ConstantsAssumption, P!Call, P!HeaderTx,
        P!ValidStateHeight, P!monVars, P!blockVars, P!routeVars, P!histVars
<1>1. CASE NewBlock \/ Mine
  BY <1>1 DEF NewBlock, Mine, P!NewBlock, P!ExecuteTx
<1>2. CASE StartManager
  BY <1>2 DEF StartManager, P!StartManager
<1>3. CASE MonitorChain
  BY <1>3 DEF MonitorChain, P!MonitorChain, P!Tick, P!BeginBlock, P!ReadBlock, P!ReadBlockFails,
              P!AlreadyRelayed, P!Dispatch, P!ProofFails, P!NextEvent, P!PutJob, P!AfterPut,
              P!EndBlock, P!NextBlock, P!NoBlock, P!BeginHeader, P!EndLoop, P!SaveHeight
<1>4. ASSUME NEW r \in Routes, TakeJob(r)
      PROVE  /\ WaitTypes'
             /\ \A t \in P!Threads :
                  sent'[t] # NoNonce => sent'[t] = sent[t] /\ P!Call(t)' = P!Call(t)
  BY <1>4 DEF TakeJob, P!TakeJob, P!NextJob
<1>5. ASSUME NEW t \in P!Threads, UseNonce(t)
      PROVE  UNCHANGED <<sent, sending, pcM, currentHeight>>
  BY <1>5 DEF UseNonce, relayVars
<1>6. ASSUME NEW t \in P!Threads, SendTransaction(t)
      PROVE  /\ WaitTypes'
             /\ \A u \in P!Threads : u # t => sent'[u] = sent[u]
             /\ \A u \in P!Threads : P!Call(u)' = P!Call(u)
  <2>1. nonce[t] \in Nonces /\ nonce[t] # NoNonce /\ P!Send(t, nonce[t])
    BY <1>6, SendTransactionEffect DEF SendTransaction, HasNonce
  <2> QED
    BY <2>1 DEF P!Send, P!Sends
<1>7. ASSUME NEW t \in P!Threads, EstimateGasFails(t) \/ SendFails(t) \/ Confirm(t)
      PROVE  /\ WaitTypes'
             /\ \A u \in P!Threads :
                  sent'[u] # NoNonce => sent'[u] = sent[u] /\ P!Call(u)' = P!Call(u)
  <2>1. CASE t = Monitor
    BY <1>7, <2>1 DEF EstimateGasFails, SendFails, Confirm, P!Refused, P!SendFails, P!LoseCall,
                      P!GiveUp, P!Sends, P!Confirm, P!NextBlock, P!NoBlock
  <2>2. CASE t \in Routes
    BY <1>7, <2>2 DEF EstimateGasFails, SendFails, Confirm, P!Refused, P!SendFails, P!LoseCall,
                      P!GiveUp, P!Sends, P!Confirm
  <2> QED
    BY <2>1, <2>2
<1> QED
  BY <1>1, <1>2, <1>3, <1>4, <1>5, <1>6, <1>7 DEF Next, SendTxToPalette

(* A nonce that the node does not take any more it never takes again, and  *)
(* what is queued under it stays, until it is executed.                    *)
LEMMA NoncesAreUsedUp ==
  ASSUME AccountTypes, [Next]_vars, NEW n \in Nonces
  PROVE  /\ Takes(n)' => Takes(n)
         /\ ~ Takes(n) /\ Pooled(n)' => pool'[n] = pool[n]
<1> USE DEF Takes, Pooled, AccountTypes, Nonces
<1>1. CASE Mine
  BY <1>1, MineEffect, MaxNonceAssumption
<1>2. CASE Others
  BY <1>2, OthersLeaveAccount
<1>3. CASE \E t \in P!Threads : UseNonce(t) \/ EstimateGasFails(t) \/ SendFails(t)
  BY <1>3, GivesUpEffect DEF UseNonce, relayVars
<1>4. CASE \E t \in P!Threads : SendTransaction(t)
  BY <1>4, SendTransactionEffect
<1>5. CASE UNCHANGED vars
  BY <1>5 DEF vars, relayVars, accountVars
<1> QED
  BY <1>1, <1>2, <1>3, <1>4, <1>5 DEF Next, Others, SendTxToPalette

(* There is a call wherever one is to be sent. *)
LEMMA SomethingIsSent ==
  ASSUME PP!TypeInv, NEW t \in P!Threads, P!Sends(t)
  PROVE  P!Call(t) # NoJob
<1>1. CASE t = Monitor
  <2>1. P!ValidStateHeight \in P!Heights
    BY <1>1, RelayAssumption
       DEF P!Sends, P!ValidStateHeight, P!Heights, P!ConstantsAssumption, PP!TypeInv, PP!TypeOK,
           PP!Registers, PP!ValidStateHeight, PP!Heights
  <2>2. P!HeaderTx \in P!Txs
    BY <2>1 DEF P!HeaderTx, P!Txs
  <2> QED
    BY <1>1, <2>2, RelayAssumption DEF P!Call, P!ConstantsAssumption
<1>2. CASE t # Monitor
  BY <1>2 DEF P!Sends, P!Call
<1> QED
  BY <1>1, <1>2

WaitInv == WaitTypes /\ WaitsForItsOwn

LEMMA WaitStart == Init => WaitInv
BY WaitTypesStart DEF Init, P!Init, WaitInv, WaitsForItsOwn

LEMMA WaitStep ==
  AccountTypes /\ OwnerInv /\ PP!TypeInv /\ WaitInv /\ [Next]_vars => WaitInv'
<1> SUFFICES ASSUME AccountTypes, OwnerInv, WaitInv, PP!TypeInv, [Next]_vars PROVE WaitInv'
  OBVIOUS
<1>1. CASE Next
  <2>1. WaitTypes'
    BY <1>1, CallsAreKept DEF WaitInv
  <2>2. ASSUME NEW t \in P!Threads, NEW n \in Nonces, sent'[t] = n
        PROVE  /\ ~ Takes(n)'
               /\ Pooled(n)' => pool'[n] = P!Call(t)'
               /\ \/ sent[t] = n /\ ~ Takes(n)
                  \/ SendTransaction(t) /\ nonce[t] = n /\ Takes(n)
    <3>1. n # NoNonce
      BY DEF Nonces, NoNonce
    <3>2. CASE sent[t] = n /\ P!Call(t)' = P!Call(t)
      BY <3>1, <3>2, NoncesAreUsedUp DEF WaitInv, WaitsForItsOwn, Pooled
    <3>3. CASE SendTransaction(t) /\ P!Call(t)' = P!Call(t)
      <4>1. n = nonce[t] /\ Takes(n)
        BY <2>2, <3>3, SendTransactionEffect DEF WaitInv, WaitTypes
      <4>2. pool'[n] = P!Call(t) /\ P!Call(t) # NoJob
        BY <3>3, <4>1, SendTransactionEffect, SomethingIsSent DEF AccountTypes
      <4> QED
        BY <3>3, <4>1, <4>2 DEF Takes, Pooled
    <3> QED
      BY <1>1, <2>2, <3>1, <3>2, <3>3, CallsAreKept DEF WaitInv
  <2>3. ASSUME NEW t \in P!Threads, NEW u \in P!Threads, sent'[t] # NoNonce, sent'[u] = sent'[t]
        PROVE  u = t
    <3>1. PICK n \in Nonces : sent'[t] = n /\ sent'[u] = n
      BY <2>1, <2>3 DEF WaitTypes
    <3>2. n # NoNonce
      BY DEF Nonces, NoNonce
    <3>3. CASE sent[t] = n /\ sent[u] = n
      BY <3>2, <3>3 DEF WaitInv, WaitsForItsOwn
    <3>4. CASE nonce[t] = n /\ nonce[u] = n
      BY <3>4 DEF OwnerInv, OneOwner, Holds
    <3> QED
      BY <2>2, <3>1, <3>3, <3>4
  <2>4. ASSUME NEW t \in P!Threads, sent'[t] # NoNonce
        PROVE  (/\ ~ Takes(sent[t])
                /\ Pooled(sent[t]) => pool[sent[t]] = P!Call(t)
                /\ \A u \in P!Threads : sent[u] = sent[t] => u = t)'
    <3>1. PICK n \in Nonces : sent'[t] = n
      BY <2>1, <2>4 DEF WaitTypes
    <3>2. ~ Takes(n)' /\ (Pooled(n)' => pool'[n] = P!Call(t)')
      BY <2>2, <3>1
    <3> QED
      BY <2>3, <2>4, <3>1, <3>2 DEF Takes, Pooled
  <2> QED
    BY <2>1, <2>4 DEF WaitInv, WaitsForItsOwn
<1>2. CASE UNCHANGED vars
  BY <1>2 DEF vars, relayVars, accountVars, WaitInv, WaitTypes, WaitsForItsOwn, Takes, Pooled,
              P!Call, P!HeaderTx, P!ValidStateHeight
<1> QED
  BY <1>1, <1>2

(* A thread that waits for a confirmation waits for its own transaction,   *)
(* however the threads interleave and whatever sends fail, if palette's    *)
(* epoch can be read at the start.                                         *)
THEOREM ThreadsWaitForTheirOwn == PP!ReadsEpoch /\ Spec => []WaitsForItsOwn
<1>1. WaitInv => WaitsForItsOwn
  BY DEF WaitInv
<1> QED
  BY <1>1, WaitStart, WaitStep, ManagerTypesKept, TypesKept, OwnersKept, PTL DEF Spec

-----------------------------------------------------------------------------
(* Leaks.  A nonce that goes missing was given out before, and is still    *)
(* taken by the node, so that it was held by a thread.                     *)

LEMMA LeakStep ==
  AccountTypes /\ OwnerInv /\ FreshInv /\ PP!TypeInv /\ [Next]_vars
  => \A n \in Nonces :
       Missing(n)' => Missing(n) \/ \E t \in P!Threads : nonce[t] = n /\ EstimateGasFails(t)
<1> SUFFICES ASSUME AccountTypes, OwnerInv, FreshInv, PP!TypeInv, [Next]_vars,
                    NEW n \in Nonces, Missing(n)', ~ Missing(n)
             PROVE  \E t \in P!Threads : nonce[t] = n /\ EstimateGasFails(t)
  OBVIOUS
<1>1. /\ n < online' /\ Takes(n)' /\ backup'[n] = 0 /\ \A t \in P!Threads : nonce'[t] # n
      /\ Takes(n)
  BY NoncesAreUsedUp DEF Missing
<1>2. n < online /\ backup[n] = 0 => \E t \in P!Threads : nonce[t] = n
  BY <1>1 DEF Missing
<1>3. CASE Mine \/ Others
  BY <1>1, <1>2, <1>3, MineEffect, OthersLeaveAccount
<1>4. ASSUME NEW t \in P!Threads, UseNonce(t)
      PROVE  FALSE
  <2>1. PICK m \in Nonces : HandsOut(m) /\ nonce' = [nonce EXCEPT ![t] = m]
    BY <1>4 DEF UseNonce
  <2>2. n # m /\ nonce[t] = NoNonce
    BY <1>1, <1>4, <2>1 DEF AccountTypes, UseNonce
  <2>3. \A u \in P!Threads : nonce[u] # n
    BY <1>1, <2>1, <2>2 DEF AccountTypes, Nonces, NoNonce
  <2>4. backup[n] = 0
    BY <1>1, <2>1, <2>2, HandsOutUnowned
  <2>5. ~ (n < online)
    BY <1>2, <2>3, <2>4
  (* The counter goes on past n: it started just now, above what the node  *)
  (* has.                                                                  *)
  <2>6. CASE online # NoNonce
    BY <1>1, <2>1, <2>2, <2>5, <2>6, MaxNonceAssumption
       DEF HandsOut, NextOnline, AccountTypes, Nonces, NoNonce
  <2>7. CASE online = NoNonce
    <3>1. IsPendingNonce(m) /\ n < m
      BY <1>1, <2>1, <2>2, <2>5, <2>7, RelayAssumption
         DEF HandsOut, NextOnline, IsFirstNonce, P!ConstantsAssumption, P!AllFaults, Nonces
    <3> QED
      BY <1>1, <3>1 DEF IsPendingNonce, Takes
  <2> QED
    BY <2>6, <2>7
<1>5. ASSUME NEW t \in P!Threads, SendTransaction(t) PROVE FALSE
  <2>1. UNCHANGED <<online, backup>> /\ \A u \in P!Threads : u # t => nonce'[u] = nonce[u]
    BY <1>5, SendTransactionEffect DEF AccountTypes
  <2>2. nonce[t] = n
    BY <1>1, <1>2, <2>1
  <2>3. pool'[n] = P!Call(t) /\ P!Call(t) # NoJob
    BY <1>5, <2>2, SendTransactionEffect, SomethingIsSent DEF AccountTypes
  <2> QED
    BY <1>1, <2>3 DEF Takes, Pooled
<1>6. ASSUME NEW t \in P!Threads, SendFails(t) PROVE FALSE
  <2>1. /\ online' = online /\ nonce[t] \in Nonces
        /\ \A u \in P!Threads : u # t => nonce'[u] = nonce[u]
    BY <1>6, GivesUpEffect DEF AccountTypes
  <2>2. /\ backup'[nonce[t]] = backup[nonce[t]] + 1
        /\ \A m \in Nonces : m # nonce[t] => backup'[m] = backup[m]
    BY <1>6, <2>1 DEF SendFails, ReturnNonce, AccountTypes
  <2>3. nonce[t] = n
    BY <1>1, <1>2, <2>1, <2>2
  <2> QED
    BY <1>1, <2>2, <2>3 DEF AccountTypes
<1>7. ASSUME NEW t \in P!Threads, EstimateGasFails(t)
      PROVE  \E u \in P!Threads : nonce[u] = n /\ EstimateGasFails(u)
  <2>1. /\ UNCHANGED <<online, backup>>
        /\ \A u \in P!Threads : u # t => nonce'[u] = nonce[u]
    BY <1>7, GivesUpEffect DEF EstimateGasFails, nonceVars, AccountTypes
  <2>2. nonce[t] = n
    BY <1>1, <1>2, <2>1
  <2> QED
    BY <1>7, <2>2
<1>8. CASE UNCHANGED vars
  BY <1>1, <1>2, <1>8 DEF vars, accountVars, nonceVars
<1> QED
  BY <1>3, <1>4, <1>5, <1>6, <1>7, <1>8 DEF Next, Others, SendTxToPalette

(* Only the error return of EstimateGas makes a nonce go missing.          *)
THEOREM NoOtherLeak == PP!ReadsEpoch /\ Spec => OnlyEstimateGasLeaks
BY LeakStep, ManagerTypesKept, TypesKept, OwnersKept, FreshKept, PTL
   DEF Spec, OnlyEstimateGasLeaks

=============================================================================
