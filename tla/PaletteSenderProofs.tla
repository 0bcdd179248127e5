------------------------ MODULE PaletteSenderProofs -------------------------
(***************************************************************************)
(* Proofs about PaletteSender, for every value of its constants:           *)
(*                                                                         *)
(*   TypeCorrect      []TypeOK                                             *)
(*   NoncesAreOwned   []OneOwner, whatever goes wrong                      *)
(*   NoGapInNonces    []NoncesAccounted, if EstimateGas does not fail      *)
(*   NoncesAreFresh   []NonceFresh, if the node answers and nothing crashes *)
(***************************************************************************)
EXTENDS PaletteSender, TLAPS

-----------------------------------------------------------------------------
(* Types.  A thread that is not idle has a job and a nonce.                *)

Registers ==
  \A t \in Threads : pc[t] # "idle" => job[t] \in Jobs /\ nonce[t] \in Nonces

TypeInv == TypeOK /\ Registers

LEMMA TypesStart == Init => TypeInv
BY ConstantsAssumption, MaxNonceAssumption DEF Init, AccountInit, TypeInv, TypeOK, Registers, Nonces, NoNonce

(* What NonceManager gives out leaves its state well typed.                *)
LEMMA HandsOutTypes ==
  ASSUME TypeInv, NEW n \in Nonces, HandsOut(n)
  PROVE  /\ online' \in 0..(MaxNonce + 1) \cup {NoNonce}
         /\ backup' \in [Nonces -> Nat]
<1>1. CASE FirstInBackup(n) /\ PopBackup(n) /\ UNCHANGED online
  <2>1. backup[n] - 1 \in Nat
    BY <1>1 DEF TypeInv, TypeOK, FirstInBackup
  <2> QED BY <1>1, <2>1 DEF TypeInv, TypeOK, PopBackup
<1>2. CASE online' = NextOnline(n) /\ UNCHANGED backup
  BY <1>2, ConstantsAssumption, MaxNonceAssumption DEF TypeInv, TypeOK, NextOnline, Nonces
<1> QED BY <1>1, <1>2 DEF HandsOut

LEMMA TypesStep == TypeInv /\ [Next]_vars => TypeInv'
<1> SUFFICES ASSUME TypeInv, [Next]_vars PROVE TypeInv'
  OBVIOUS
<1> USE ConstantsAssumption, MaxNonceAssumption
<1>1. CASE Mine
  BY <1>1 DEF TypeInv, TypeOK, Registers, Mine, Pooled, Nonces,
              nonceVars, threadVars, jobVars
<1>2. ASSUME NEW t \in Threads, NEW j \in Jobs, NEW n \in Nonces, UseNonce(t, j, n)
      PROVE  TypeInv'
  <2>1. /\ online' \in 0..(MaxNonce + 1) \cup {NoNonce}
        /\ backup' \in [Nonces -> Nat]
    BY <1>2, HandsOutTypes DEF UseNonce
  <2> QED BY <1>2, <2>1 DEF TypeInv, TypeOK, Registers, UseNonce, nodeVars
<1>3. ASSUME NEW t \in Threads, EstimateGas(t) PROVE TypeInv'
  BY <1>3 DEF TypeInv, TypeOK, Registers, EstimateGas, nonceVars, jobVars, nodeVars
<1>4. ASSUME NEW t \in Threads, EstimateGasFails(t) PROVE TypeInv'
  BY <1>4 DEF TypeInv, TypeOK, Registers, EstimateGasFails, Leave, nonceVars, nodeVars
<1>5. ASSUME NEW t \in Threads, SendTransaction(t) PROVE TypeInv'
  BY <1>5 DEF TypeInv, TypeOK, Registers, SendTransaction, Enqueue, nonceVars, jobVars
<1>6. ASSUME NEW t \in Threads, SendFails(t) PROVE TypeInv'
  <2>1. nonce[t] \in Nonces /\ job[t] \in Jobs
    BY <1>6 DEF TypeInv, Registers, SendFails
  <2>2. backup' \in [Nonces -> Nat]
    BY <1>6, <2>1 DEF TypeInv, TypeOK, SendFails, ReturnNonce
  <2>3. pool' \in [Nonces -> Jobs \cup {NoJob}]
    BY <1>6, <2>1 DEF TypeInv, TypeOK, SendFails, Enqueue
  <2> QED BY <1>6, <2>1, <2>2, <2>3 DEF TypeInv, TypeOK, Registers, SendFails, Leave
<1>7. ASSUME NEW t \in Threads, Confirm(t) PROVE TypeInv'
  BY <1>7 DEF TypeInv, TypeOK, Registers, Confirm, Leave, nonceVars, jobVars, nodeVars
<1>8. CASE Crash
  BY <1>8 DEF TypeInv, TypeOK, Registers, Crash, NonceManagerRestarts, jobVars, nodeVars
<1>9. CASE UNCHANGED vars
  BY <1>9 DEF TypeInv, TypeOK, Registers, vars, nonceVars, threadVars, jobVars, nodeVars
<1> QED BY <1>1, <1>2, <1>3, <1>4, <1>5, <1>6, <1>7, <1>8, <1>9 DEF Next, Step

LEMMA TypesKept == Spec => []TypeInv
BY TypesStart, TypesStep, PTL DEF Spec

(* Every variable stays in its type.                                       *)
THEOREM TypeCorrect == Spec => []TypeOK
<1>1. TypeInv => TypeOK
  BY DEF TypeInv
<1> QED BY <1>1, TypesKept, PTL

-----------------------------------------------------------------------------
(* Owners.  A nonce NonceManager is about to give out for the first time   *)
(* is with nobody: what is held or returned lies below it.                 *)

GivenOut ==
  \A n \in Nonces : (backup[n] > 0 \/ \E t \in Threads : Holds(t, n)) => n < online

OwnerInv == OneOwner /\ GivenOut

LEMMA OwnersStart == Init => OwnerInv
BY DEF Init, AccountInit, OwnerInv, OneOwner, GivenOut, Holds

(* Whoever asks NonceManager becomes the only owner of what he gets.       *)
LEMMA HandsOutUnowned ==
  ASSUME TypeInv, OwnerInv, NEW n \in Nonces, HandsOut(n)
  PROVE  /\ \A t \in Threads : ~ Holds(t, n)
         /\ backup'[n] = 0
         /\ \A m \in Nonces : m # n => backup'[m] = backup[m]
         /\ n < online'
         /\ \A m \in Nonces : m < online => m < online'
<1> USE ConstantsAssumption, MaxNonceAssumption DEF Nonces
<1>1. CASE FirstInBackup(n) /\ PopBackup(n) /\ UNCHANGED online
  <2>1. backup[n] = 1 /\ \A t \in Threads : ~ Holds(t, n)
    BY <1>1 DEF OwnerInv, OneOwner, FirstInBackup
  <2>2. n < online
    BY <1>1 DEF OwnerInv, GivenOut, FirstInBackup
  <2>3. backup' = [backup EXCEPT ![n] = 0]
    BY <1>1, <2>1 DEF PopBackup
  <2> QED BY <1>1, <2>1, <2>2, <2>3 DEF TypeInv, TypeOK
<1>2. CASE /\ BackupIsEmpty
           /\ IF online = NoNonce THEN IsFirstNonce(n) ELSE online = n
           /\ online' = NextOnline(n)
           /\ UNCHANGED backup
  <2>1. online = NoNonce \/ online = n
    BY <1>2
  <2>2. \A m \in Nonces : m < online => m < n
    BY <2>1 DEF NoNonce
  <2>3. \A t \in Threads : ~ Holds(t, n)
    BY <2>1 DEF OwnerInv, GivenOut, NoNonce
  <2> QED BY <1>2, <2>2, <2>3 DEF BackupIsEmpty, NextOnline
<1> QED BY <1>1, <1>2 DEF HandsOut

(* A step that takes holders away, and returns no nonce, keeps the owners. *)
LEMMA FewerOwners ==
  ASSUME OwnerInv, UNCHANGED nonceVars,
         \A t \in Threads : \A n \in Nonces : Holds(t, n)' => Holds(t, n)
  PROVE  OwnerInv'
<1>1. backup' = backup /\ online' = online
  BY DEF nonceVars
<1>2. OneOwner'
  BY <1>1 DEF OwnerInv, OneOwner
<1>3. GivenOut'
  BY <1>1 DEF OwnerInv, GivenOut
<1> QED BY <1>2, <1>3 DEF OwnerInv

LEMMA OwnersStep == TypeInv /\ OwnerInv /\ [Next]_vars => OwnerInv'
<1> SUFFICES ASSUME TypeInv, OwnerInv, [Next]_vars PROVE OwnerInv'
  OBVIOUS
<1>1. CASE Mine
  BY <1>1, FewerOwners DEF Mine, Holds, threadVars
<1>2. ASSUME NEW t \in Threads, NEW j \in Jobs, NEW n \in Nonces, UseNonce(t, j, n)
      PROVE  OwnerInv'
  <2>1. /\ \A u \in Threads : ~ Holds(u, n)
        /\ backup'[n] = 0
        /\ \A m \in Nonces : m # n => backup'[m] = backup[m]
        /\ n < online'
        /\ \A m \in Nonces : m < online => m < online'
    BY <1>2, HandsOutUnowned DEF UseNonce
  <2>2. \A u \in Threads : \A m \in Nonces :
          Holds(u, m)' => (Holds(u, m) /\ m # n) \/ (u = t /\ m = n)
    BY <1>2, <2>1 DEF UseNonce, Holds, TypeInv, TypeOK
  <2>3. OneOwner'
    BY <2>1, <2>2 DEF OwnerInv, OneOwner
  <2>4. GivenOut'
    BY <2>1, <2>2 DEF OwnerInv, GivenOut
  <2> QED BY <2>3, <2>4 DEF OwnerInv
<1>3. ASSUME NEW t \in Threads, EstimateGas(t) PROVE OwnerInv'
  <2>1. \A u \in Threads : \A n \in Nonces : Holds(u, n)' => Holds(u, n)
    BY <1>3 DEF EstimateGas, Holds, TypeInv, TypeOK
  <2> QED BY <1>3, <2>1, FewerOwners DEF EstimateGas
<1>4. ASSUME NEW t \in Threads, EstimateGasFails(t) PROVE OwnerInv'
  <2>1. \A u \in Threads : \A n \in Nonces : Holds(u, n)' => Holds(u, n)
    BY <1>4 DEF EstimateGasFails, Leave, Holds, TypeInv, TypeOK
  <2> QED BY <1>4, <2>1, FewerOwners DEF EstimateGasFails
<1>5. ASSUME NEW t \in Threads, SendTransaction(t) PROVE OwnerInv'
  <2>1. \A u \in Threads : \A n \in Nonces : Holds(u, n)' => Holds(u, n)
    BY <1>5 DEF SendTransaction, Holds, TypeInv, TypeOK
  <2> QED BY <1>5, <2>1, FewerOwners DEF SendTransaction
<1>6. ASSUME NEW t \in Threads, SendFails(t) PROVE OwnerInv'
  <2>1. PICK n \in Nonces : n = nonce[t] /\ Holds(t, n)
    BY <1>6 DEF SendFails, Holds, TypeInv, Registers
  <2>2. backup[n] = 0
    BY <2>1 DEF OwnerInv, OneOwner, TypeInv, TypeOK
  <2>3. backup' = [backup EXCEPT ![n] = 1]
    BY <1>6, <2>1, <2>2 DEF SendFails, ReturnNonce
  <2>4. \A u \in Threads : \A m \in Nonces : Holds(u, m)' => Holds(u, m) /\ u # t
    BY <1>6 DEF SendFails, Leave, Holds, TypeInv, TypeOK
  <2>5. \A u \in Threads : ~ Holds(u, n)'
    BY <2>1, <2>4 DEF OwnerInv, OneOwner
  <2>6. OneOwner'
    BY <2>1, <2>3, <2>4, <2>5 DEF OwnerInv, OneOwner, TypeInv, TypeOK
  <2>7. GivenOut'
    BY <1>6, <2>1, <2>3, <2>4 DEF OwnerInv, GivenOut, SendFails, TypeInv, TypeOK
  <2> QED BY <2>6, <2>7 DEF OwnerInv
<1>7. ASSUME NEW t \in Threads, Confirm(t) PROVE OwnerInv'
  <2>1. \A u \in Threads : \A n \in Nonces : Holds(u, n)' => Holds(u, n)
    BY <1>7 DEF Confirm, Leave, Holds, TypeInv, TypeOK
  <2> QED BY <1>7, <2>1, FewerOwners DEF Confirm
<1>8. CASE Crash
  BY <1>8 DEF Crash, NonceManagerRestarts, OwnerInv, OneOwner, GivenOut, Holds
<1>9. CASE UNCHANGED vars
  BY <1>9, FewerOwners DEF vars, threadVars, Holds
<1> QED BY <1>1, <1>2, <1>3, <1>4, <1>5, <1>6, <1>7, <1>8, <1>9 DEF Next, Step

LEMMA OwnersKept == Spec => []OwnerInv
BY TypesKept, OwnersStart, OwnersStep, PTL DEF Spec

(* A nonce has one owner at a time, whatever fails and after a restart.    *)
THEOREM NoncesAreOwned == Spec => []OneOwner
<1>1. OwnerInv => OneOwner
  BY DEF OwnerInv
<1> QED BY <1>1, OwnersKept, PTL

-----------------------------------------------------------------------------
(* Gaps.  NoncesAccounted follows each nonce from the list or the counter  *)
(* to a goroutine, and from there to the node or back to the list.  The    *)
(* error of EstimateGas, which returns nothing, is left out.               *)

NothingLeaks == "estimate" \notin Faults

LEMMA AccountsStep ==
  NothingLeaks /\ TypeInv /\ OwnerInv /\ NoncesAccounted /\ [Next]_vars => NoncesAccounted'
<1> SUFFICES ASSUME NothingLeaks, TypeInv, OwnerInv, NoncesAccounted, [Next]_vars,
                    NEW n \in Nonces, n < online'
             PROVE  \/ n < chainNonce'
                    \/ Pooled(n)'
                    \/ backup'[n] > 0
                    \/ \E t \in Threads : Holds(t, n)'
  BY DEF NoncesAccounted
<1> DEFINE Accounted == \/ n < chainNonce
                        \/ Pooled(n)
                        \/ backup[n] > 0
                        \/ \E t \in Threads : Holds(t, n)
<1>0. n < online => Accounted
  BY DEF NoncesAccounted
<1> USE ConstantsAssumption, MaxNonceAssumption DEF Nonces
<1>1. CASE Mine
  <2>1. Accounted
    BY <1>0, <1>1 DEF Mine, nonceVars
  <2>2. n = chainNonce => n < chainNonce'
    BY <1>1 DEF Mine
  <2>3. n # chainNonce /\ Pooled(n) => Pooled(n)'
    BY <1>1 DEF Mine, Pooled, TypeInv, TypeOK
  <2>4. n < chainNonce => n < chainNonce'
    BY <1>1 DEF Mine
  <2> QED BY <1>1, <2>1, <2>2, <2>3, <2>4 DEF Mine, Holds, nonceVars, threadVars
<1>2. ASSUME NEW t \in Threads, NEW j \in Jobs, NEW m \in Nonces, UseNonce(t, j, m)
      PROVE  \/ n < chainNonce'
             \/ Pooled(n)'
             \/ backup'[n] > 0
             \/ \E u \in Threads : Holds(u, n)'
  <2>1. CASE n = m
    BY <1>2, <2>1 DEF UseNonce, Holds, TypeInv, TypeOK
  <2>2. CASE n # m /\ n < online
    <3>1. backup'[n] = backup[n]
      BY <1>2, <2>2, HandsOutUnowned DEF UseNonce
    <3>2. \A u \in Threads : Holds(u, n) => Holds(u, n)'
      BY <1>2 DEF UseNonce, Holds, TypeInv, TypeOK
    <3> QED BY <1>0, <1>2, <2>2, <3>1, <3>2 DEF UseNonce, Pooled, nodeVars
  <2>3. CASE n # m /\ ~ (n < online)
    (* The counter starts: the node has everything below its pending nonce. *)
    <3>1. online = NoNonce /\ IsFirstNonce(m) /\ online' = m + 1
      BY <1>2, <2>3 DEF UseNonce, HandsOut, NextOnline, TypeInv, TypeOK
    <3>2. n < m
      BY <2>3, <3>1
    <3>3. IsPendingNonce(m)
      BY <3>1, <3>2 DEF IsFirstNonce
    <3>4. n < chainNonce \/ Pooled(n)
      BY <3>2, <3>3 DEF IsPendingNonce, TypeInv, TypeOK
    <3> QED BY <1>2, <3>4 DEF UseNonce, Pooled, nodeVars
  <2> QED BY <2>1, <2>2, <2>3
<1>3. ASSUME NEW t \in Threads, EstimateGas(t)
      PROVE  \/ n < chainNonce'
             \/ Pooled(n)'
             \/ backup'[n] > 0
             \/ \E u \in Threads : Holds(u, n)'
  <2>1. \A u \in Threads : Holds(u, n) => Holds(u, n)'
    BY <1>3 DEF EstimateGas, Holds, TypeInv, TypeOK
  <2> QED BY <1>0, <1>3, <2>1 DEF EstimateGas, Pooled, nonceVars, nodeVars
<1>4. ASSUME NEW t \in Threads, EstimateGasFails(t) PROVE FALSE
  BY <1>4 DEF EstimateGasFails, NothingLeaks
<1>5. ASSUME NEW t \in Threads, SendTransaction(t)
      PROVE  \/ n < chainNonce'
             \/ Pooled(n)'
             \/ backup'[n] > 0
             \/ \E u \in Threads : Holds(u, n)'
  <2>1. nonce[t] \in Nonces /\ job[t] # NoJob
    BY <1>5 DEF SendTransaction, TypeInv, Registers
  <2>2. CASE n = nonce[t]
    BY <1>5, <2>1, <2>2 DEF SendTransaction, Enqueue, Pooled, TypeInv, TypeOK
  <2>3. CASE n # nonce[t]
    <3>1. \A u \in Threads : Holds(u, n) => Holds(u, n)'
      BY <1>5, <2>3 DEF SendTransaction, Holds, TypeInv, TypeOK
    <3>2. Pooled(n) => Pooled(n)'
      BY <1>5, <2>3 DEF SendTransaction, Enqueue, Pooled, TypeInv, TypeOK
    <3> QED BY <1>0, <1>5, <3>1, <3>2 DEF SendTransaction, nonceVars
  <2> QED BY <2>2, <2>3
<1>6. ASSUME NEW t \in Threads, SendFails(t)
      PROVE  \/ n < chainNonce'
             \/ Pooled(n)'
             \/ backup'[n] > 0
             \/ \E u \in Threads : Holds(u, n)'
  <2>1. nonce[t] \in Nonces /\ job[t] # NoJob
    BY <1>6 DEF SendFails, TypeInv, Registers
  <2>2. backup' = [backup EXCEPT ![nonce[t]] = @ + 1]
    BY <1>6 DEF SendFails, ReturnNonce
  <2>3. CASE n = nonce[t]
    BY <2>1, <2>2, <2>3 DEF TypeInv, TypeOK
  <2>4. CASE n # nonce[t]
    <3>1. \A u \in Threads : Holds(u, n) => Holds(u, n)'
      BY <1>6, <2>4 DEF SendFails, Leave, Holds, TypeInv, TypeOK
    <3>2. Pooled(n) => Pooled(n)'
      BY <1>6, <2>4 DEF SendFails, Enqueue, Pooled, TypeInv, TypeOK
    <3>3. backup'[n] = backup[n]
      BY <2>2, <2>4 DEF TypeInv, TypeOK
    <3> QED BY <1>0, <1>6, <3>1, <3>2, <3>3 DEF SendFails
  <2> QED BY <2>3, <2>4
<1>7. ASSUME NEW t \in Threads, Confirm(t)
      PROVE  \/ n < chainNonce'
             \/ Pooled(n)'
             \/ backup'[n] > 0
             \/ \E u \in Threads : Holds(u, n)'
  <2>1. \A u \in Threads : Holds(u, n) => Holds(u, n)'
    BY <1>7 DEF Confirm, Leave, Holds, TypeInv, TypeOK
  <2> QED BY <1>0, <1>7, <2>1 DEF Confirm, Pooled, nonceVars, nodeVars
<1>8. CASE Crash
  BY <1>8 DEF Crash, NonceManagerRestarts, NoNonce
<1>9. CASE UNCHANGED vars
  BY <1>0, <1>9 DEF vars, nonceVars, threadVars, nodeVars, Pooled, Holds
<1> QED BY <1>1, <1>2, <1>3, <1>4, <1>5, <1>6, <1>7, <1>8, <1>9 DEF Next, Step

(* NonceManager leaves no gap that would stop the account, whatever sends  *)
(* fail, whatever PendingNonceAt answers and after every restart, if only  *)
(* EstimateGas does not fail: sendTxToPalette returns then without giving  *)
(* the nonce back.                                                         *)
THEOREM NoGapInNonces == NothingLeaks /\ Spec => []NoncesAccounted
<1>1. Init => NoncesAccounted
  BY DEF Init, AccountInit, NoncesAccounted, NoNonce, Nonces
<1>2. NothingLeaks => []NothingLeaks
  <2>1. NothingLeaks => NothingLeaks'
    BY DEF NothingLeaks
  <2> QED BY <2>1, PTL
<1> QED BY <1>1, <1>2, AccountsStep, TypesKept, OwnersKept, PTL DEF Spec

-----------------------------------------------------------------------------
(* Fresh nonces.  What the node has, executed or queued, NonceManager gave *)
(* out before: with GivenOut this makes the next nonce a fresh one.        *)

NodeAnswers ==
  /\ Faults \cap {"lostReply", "nonceAt"} = {}
  /\ MaxCrashes = 0

OnNode ==
  /\ online = NoNonce \/ chainNonce <= online
  /\ \A n \in Nonces : Pooled(n) => n < online

FreshInv == NonceFresh /\ OnNode

(* A step in which a nonce neither is given out nor comes back, and the    *)
(* node does nothing.                                                      *)
LEMMA FewerAreFresh ==
  ASSUME FreshInv, UNCHANGED <<nonceVars, chainNonce, pool>>,
         \A t \in Threads : \A n \in Nonces : Holds(t, n)' => Holds(t, n)
  PROVE  FreshInv'
<1>1. backup' = backup /\ online' = online /\ chainNonce' = chainNonce /\ pool' = pool
  BY DEF nonceVars
<1>2. NonceFresh'
  BY <1>1 DEF FreshInv, NonceFresh, Takes, Pooled
<1>3. OnNode'
  BY <1>1 DEF FreshInv, OnNode, Pooled
<1> QED BY <1>2, <1>3 DEF FreshInv

LEMMA FreshStep ==
  NodeAnswers /\ TypeInv /\ OwnerInv /\ FreshInv /\ [Next]_vars => FreshInv'
<1> SUFFICES ASSUME NodeAnswers, TypeInv, OwnerInv, FreshInv, [Next]_vars PROVE FreshInv'
  OBVIOUS
<1> USE ConstantsAssumption, MaxNonceAssumption DEF Nonces
<1>1. CASE Mine
  <2>1. chainNonce \in Nonces /\ Pooled(chainNonce) /\ chainNonce' = chainNonce + 1
    BY <1>1 DEF Mine
  <2>2. chainNonce < online
    BY <2>1 DEF FreshInv, OnNode
  <2>3. \A n \in Nonces : Pooled(n)' => Pooled(n)
    BY <1>1 DEF Mine, Pooled, TypeInv, TypeOK
  <2>4. \A n \in Nonces : Takes(n) => Takes(n)'
    BY <2>1, <2>3 DEF Takes, TypeInv, TypeOK
  <2>5. NonceFresh'
    BY <1>1, <2>4 DEF FreshInv, NonceFresh, Mine, Holds, nonceVars, threadVars
  <2>6. OnNode'
    BY <1>1, <2>1, <2>2, <2>3 DEF FreshInv, OnNode, Mine, nonceVars, TypeInv, TypeOK
  <2> QED BY <2>5, <2>6 DEF FreshInv
<1>2. ASSUME NEW t \in Threads, NEW j \in Jobs, NEW n \in Nonces, UseNonce(t, j, n)
      PROVE  FreshInv'
  <2>1. chainNonce' = chainNonce /\ pool' = pool /\ HandsOut(n)
    BY <1>2 DEF UseNonce, nodeVars
  <2>2. /\ backup'[n] = 0
        /\ \A m \in Nonces : m # n => backup'[m] = backup[m]
        /\ n < online'
        /\ \A m \in Nonces : m < online => m < online'
    BY <2>1, HandsOutUnowned
  <2>3. Takes(n)
    <3>1. CASE FirstInBackup(n)
      BY <3>1 DEF FirstInBackup, FreshInv, NonceFresh
    <3>2. CASE online = NoNonce /\ IsFirstNonce(n)
      BY <3>2 DEF IsFirstNonce, IsPendingNonce, Takes, NodeAnswers
    <3>3. CASE online # NoNonce /\ online = n
      BY <3>3 DEF FreshInv, OnNode, Takes
    <3> QED BY <2>1, <3>1, <3>2, <3>3 DEF HandsOut
  <2>4. \A u \in Threads : \A m \in Nonces : Holds(u, m)' => Holds(u, m) \/ m = n
    BY <1>2 DEF UseNonce, Holds, TypeInv, TypeOK
  <2>5. NonceFresh'
    BY <2>1, <2>2, <2>3, <2>4 DEF FreshInv, NonceFresh, Takes, Pooled
  <2>6. chainNonce <= online'
    <3>1. CASE online = NoNonce
      <4>1. chainNonce <= n
        BY <2>3 DEF Takes
      <4> QED BY <2>1, <3>1, <4>1 DEF HandsOut, NextOnline, FirstInBackup,
                 OwnerInv, GivenOut, NoNonce, TypeInv, TypeOK
    <3>2. CASE online # NoNonce
      BY <2>1, <3>2 DEF FreshInv, OnNode, HandsOut, NextOnline, TypeInv, TypeOK
    <3> QED BY <3>1, <3>2
  <2>7. OnNode'
    BY <2>1, <2>2, <2>6 DEF FreshInv, OnNode, Pooled
  <2> QED BY <2>5, <2>7 DEF FreshInv
<1>3. ASSUME NEW t \in Threads, EstimateGas(t) PROVE FreshInv'
  <2>1. \A u \in Threads : \A n \in Nonces : Holds(u, n)' => Holds(u, n)
    BY <1>3 DEF EstimateGas, Holds, TypeInv, TypeOK
  <2> QED BY <1>3, <2>1, FewerAreFresh DEF EstimateGas, nodeVars
<1>4. ASSUME NEW t \in Threads, EstimateGasFails(t) PROVE FreshInv'
  <2>1. \A u \in Threads : \A n \in Nonces : Holds(u, n)' => Holds(u, n)
    BY <1>4 DEF EstimateGasFails, Leave, Holds, TypeInv, TypeOK
  <2> QED BY <1>4, <2>1, FewerAreFresh DEF EstimateGasFails, nodeVars
<1>5. ASSUME NEW t \in Threads, SendTransaction(t) PROVE FreshInv'
  (* Its owner queues a nonce, and there is no other owner.                *)
  <2>1. PICK n \in Nonces : n = nonce[t] /\ Holds(t, n)
    BY <1>5 DEF SendTransaction, Holds, TypeInv, Registers
  <2>2. \A m \in Nonces : m # n => pool'[m] = pool[m]
    BY <1>5, <2>1 DEF SendTransaction, Enqueue, TypeInv, TypeOK
  <2>3. \A u \in Threads : \A m \in Nonces : Holds(u, m)' => Holds(u, m) /\ u # t
    BY <1>5 DEF SendTransaction, Holds, TypeInv, TypeOK
  <2>4. ~ (backup[n] > 0) /\ \A u \in Threads : ~ Holds(u, n)'
    BY <2>1, <2>3 DEF OwnerInv, OneOwner
  <2>5. NonceFresh'
    BY <1>5, <2>2, <2>3, <2>4
       DEF FreshInv, NonceFresh, SendTransaction, Takes, Pooled, nonceVars
  <2>6. n < online
    BY <2>1 DEF OwnerInv, GivenOut
  <2>7. OnNode'
    BY <1>5, <2>2, <2>6 DEF FreshInv, OnNode, SendTransaction, Pooled, nonceVars
  <2> QED BY <2>5, <2>7 DEF FreshInv
<1>6. ASSUME NEW t \in Threads, SendFails(t) PROVE FreshInv'
  (* The node still takes a nonce that comes back: it took no transaction. *)
  <2>1. PICK n \in Nonces : n = nonce[t] /\ Holds(t, n)
    BY <1>6 DEF SendFails, Holds, TypeInv, Registers
  <2>2. Takes(n)
    BY <2>1 DEF FreshInv, NonceFresh
  <2>3. chainNonce' = chainNonce /\ pool' = pool /\ online' = online
    BY <1>6, <2>1, <2>2 DEF SendFails, NodeAnswers
  <2>4. \A m \in Nonces : m # n => backup'[m] = backup[m]
    BY <1>6, <2>1 DEF SendFails, ReturnNonce, TypeInv, TypeOK
  <2>5. \A u \in Threads : \A m \in Nonces : Holds(u, m)' => Holds(u, m)
    BY <1>6 DEF SendFails, Leave, Holds, TypeInv, TypeOK
  <2>6. NonceFresh'
    BY <2>2, <2>3, <2>4, <2>5 DEF FreshInv, NonceFresh, Takes, Pooled
  <2>7. OnNode'
    BY <2>3 DEF FreshInv, OnNode, Pooled
  <2> QED BY <2>6, <2>7 DEF FreshInv
<1>7. ASSUME NEW t \in Threads, Confirm(t) PROVE FreshInv'
  <2>1. \A u \in Threads : \A n \in Nonces : Holds(u, n)' => Holds(u, n)
    BY <1>7 DEF Confirm, Leave, Holds, TypeInv, TypeOK
  <2> QED BY <1>7, <2>1, FewerAreFresh DEF Confirm, nodeVars
<1>8. CASE Crash
  BY <1>8 DEF Crash, NonceManagerRestarts, NodeAnswers, TypeInv, TypeOK
<1>9. CASE UNCHANGED vars
  BY <1>9, FewerAreFresh DEF vars, threadVars, nodeVars, Holds
<1> QED BY <1>1, <1>2, <1>3, <1>4, <1>5, <1>6, <1>7, <1>8, <1>9 DEF Next, Step

(* A goroutine never sends under a nonce the node has already, if the node *)
(* answers every call and the process does not restart, however the        *)
(* goroutines interleave and whichever other calls fail.  A restart breaks *)
(* it: PendingNonceAt may then answer below a queued transaction.          *)
THEOREM NoncesAreFresh == NodeAnswers /\ Spec => []NonceFresh
<1>1. Init => FreshInv
  BY DEF Init, AccountInit, FreshInv, NonceFresh, OnNode, Holds, Pooled
<1>2. FreshInv => NonceFresh
  BY DEF FreshInv
<1>3. NodeAnswers => []NodeAnswers
  <2>1. NodeAnswers => NodeAnswers'
    BY DEF NodeAnswers
  <2> QED BY <2>1, PTL
<1> QED BY <1>1, <1>2, <1>3, FreshStep, TypesKept, OwnersKept, PTL DEF Spec

=============================================================================
