--------------------------- MODULE PaletteSender ----------------------------
(***************************************************************************)
(* A PaletteSender (manager/poly.go): one account of the relayer, from the *)
(* moment sendTxToPalette is called for a job until it returns.            *)
(*                                                                         *)
(* A thread is a goroutine that calls sendTxToPalette: one per route, and  *)
(* MonitorChain, which sends the poly headers itself.  Threads wait for    *)
(* the receipt of what they sent before they take another job.  Where the  *)
(* jobs come from is left to PolyRelay.                                    *)
(***************************************************************************)
EXTENDS Account, FiniteSets

CONSTANTS
  Threads,
  Jobs,        \* the calls of palette's contract that are to be sent
  MaxCrashes   \* bound: the crashes of the process

AllFaults == {"estimate", "send", "lostReply", "nonceAt"}

ASSUME ConstantsAssumption ==
  /\ NoJob \notin Jobs
  /\ MaxCrashes \in Nat
  /\ Faults \subseteq AllFaults

VARIABLES
  todo, pc, job, nonce, failed,
  mined,       \* the jobs the node has executed
  crashes

threadVars == <<pc, job, nonce>>
jobVars    == <<todo, failed>>
nodeVars   == <<chainNonce, pool, mined>>
vars == <<nonceVars, threadVars, jobVars, nodeVars, crashes>>

TypeOK ==
  /\ online \in 0..(MaxNonce + 1) \cup {NoNonce}
  /\ backup \in [Nonces -> Nat]
  /\ todo \subseteq Jobs
  /\ pc \in [Threads -> {"idle", "estimate", "send", "wait"}]
  /\ job \in [Threads -> Jobs \cup {NoJob}]
  /\ nonce \in [Threads -> Nonces \cup {NoNonce}]
  /\ failed \subseteq Jobs
  /\ chainNonce \in 0..(MaxNonce + 1)
  /\ pool \in [Nonces -> Jobs \cup {NoJob}]
  /\ mined \subseteq Jobs
  /\ crashes \in 0..MaxCrashes

Init ==
  /\ AccountInit
  /\ todo = Jobs
  /\ pc = [t \in Threads |-> "idle"]
  /\ job = [t \in Threads |-> NoJob]
  /\ nonce = [t \in Threads |-> NoNonce]
  /\ failed = {}
  /\ mined = {}
  /\ crashes = 0

-----------------------------------------------------------------------------
Mine ==
  /\ chainNonce \in Nonces
  /\ Pooled(chainNonce)
  /\ mined' = mined \cup {pool[chainNonce]}
  /\ pool' = [pool EXCEPT ![chainNonce] = NoJob]
  /\ chainNonce' = chainNonce + 1
  /\ UNCHANGED <<nonceVars, threadVars, jobVars, crashes>>

-----------------------------------------------------------------------------
(* sendTxToPalette.                                                        *)

UseNonce(t, j, n) ==
  /\ pc[t] = "idle"
  /\ j \in todo
  /\ HandsOut(n)
  /\ pc' = [pc EXCEPT ![t] = "estimate"]
  /\ job' = [job EXCEPT ![t] = j]
  /\ nonce' = [nonce EXCEPT ![t] = n]
  /\ todo' = todo \ {j}
  /\ UNCHANGED <<failed, nodeVars, crashes>>

(* The thread drops its job; errors are logged, and nobody tries again.    *)
Leave(t) ==
  /\ pc' = [pc EXCEPT ![t] = "idle"]
  /\ job' = [job EXCEPT ![t] = NoJob]
  /\ nonce' = [nonce EXCEPT ![t] = NoNonce]

EstimateGas(t) ==
  /\ pc[t] = "estimate"
  /\ pc' = [pc EXCEPT ![t] = "send"]
  /\ UNCHANGED <<nonceVars, job, nonce, jobVars, nodeVars, crashes>>

(* This error returns before the deferred ReturnNonce is set up.           *)
EstimateGasFails(t) ==
  /\ "estimate" \in Faults
  /\ pc[t] = "estimate"
  /\ Leave(t)
  /\ failed' = failed \cup {job[t]}
  /\ UNCHANGED <<nonceVars, todo, nodeVars, crashes>>

Enqueue(t) == pool' = [pool EXCEPT ![nonce[t]] = job[t]]

SendTransaction(t) ==
  /\ pc[t] = "send"
  /\ Takes(nonce[t])
  /\ Enqueue(t)
  /\ pc' = [pc EXCEPT ![t] = "wait"]
  /\ UNCHANGED <<nonceVars, job, nonce, jobVars, chainNonce, mined, crashes>>

(* Signing fails, the node refuses the transaction, or the call fails      *)
(* before or after the node has taken it.                                  *)
SendFails(t) ==
  /\ pc[t] = "send"
  /\ \/ "send" \in Faults /\ UNCHANGED pool
     \/ ~ Takes(nonce[t]) /\ UNCHANGED pool
     \/ "lostReply" \in Faults /\ Takes(nonce[t]) /\ Enqueue(t)
  /\ ReturnNonce(nonce[t])
  /\ Leave(t)
  /\ failed' = failed \cup {job[t]}
  /\ UNCHANGED <<online, todo, chainNonce, mined, crashes>>

(* waitTransactionConfirm: a transaction that failed on palette is logged  *)
(* and counts as sent.                                                     *)
Confirm(t) ==
  /\ pc[t] = "wait"
  /\ nonce[t] < chainNonce
  /\ Leave(t)
  /\ UNCHANGED <<nonceVars, jobVars, nodeVars, crashes>>

Crash ==
  /\ crashes < MaxCrashes
  /\ crashes' = crashes + 1
  /\ NonceManagerRestarts
  /\ pc' = [t \in Threads |-> "idle"]
  /\ job' = [t \in Threads |-> NoJob]
  /\ nonce' = [t \in Threads |-> NoNonce]
  /\ UNCHANGED <<jobVars, nodeVars>>

-----------------------------------------------------------------------------
Step(t) ==
  \/ \E j \in Jobs, n \in Nonces : UseNonce(t, j, n)
  \/ EstimateGas(t)
  \/ EstimateGasFails(t)
  \/ SendTransaction(t)
  \/ SendFails(t)
  \/ Confirm(t)

Next ==
  \/ Mine
  \/ \E t \in Threads : Step(t)
  \/ Crash

Spec == Init /\ [][Next]_vars

(* Threads run, and the node executes what it can.                         *)
LiveSpec == Spec /\ WF_vars(Mine) /\ \A t \in Threads : WF_vars(Step(t))

-----------------------------------------------------------------------------
(* Properties.                                                             *)

Holds(t, n) == pc[t] \in {"estimate", "send"} /\ nonce[t] = n

(* A nonce is in one place at a time, whatever fails and after a restart:  *)
(* with one goroutine, or once in the list of the returned ones, or        *)
(* neither.                                                                *)
OneOwner ==
  /\ \A n \in Nonces : backup[n] > 0 =>
       backup[n] = 1 /\ \A t \in Threads : ~ Holds(t, n)
  /\ \A t, u \in Threads : \A n \in Nonces : Holds(t, n) /\ Holds(u, n) => t = u

(* As long as the node tells the relayer whether it took a transaction,    *)
(* the nonces NonceManager gives out and takes back are nonces the node    *)
(* still takes: neither queued nor executed.                               *)
NonceFresh ==
  \A n \in Nonces : (backup[n] > 0 \/ \E t \in Threads : Holds(t, n)) => Takes(n)

(* NonceManager leaves no gap: each nonce below the next one is executed,  *)
(* queued, held, or returned for the next caller.  A gap would keep every  *)
(* later transaction of the account from being executed.                   *)
NoncesAccounted ==
  \A n \in Nonces : n < online =>
    \/ n < chainNonce
    \/ Pooled(n)
    \/ backup[n] > 0
    \/ \E t \in Threads : Holds(t, n)

(* "if nonce is bigger than current nonce, the value will append in the    *)
(* `backup` list": a returned nonce is not executed already.               *)
BackupIsAhead == \A n \in Nonces : backup[n] > 0 => chainNonce <= n

(* Unless some send fails every job reaches the palette chain, whichever  *)
(* threads take the jobs and in whatever order their transactions arrive.  *)
EveryJobMined ==
  \A j \in Jobs : (j \in todo) ~> (j \in mined \/ failed # {})

=============================================================================
