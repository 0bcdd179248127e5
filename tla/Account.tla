------------------------------ MODULE Account -------------------------------
(***************************************************************************)
(* One account of the relayer on palette: what the NonceManager knows of   *)
(* it (utils/nonce/nonce.go), and the queue the node of palette keeps for  *)
(* it.  Who uses the nonces is left to the modules that extend this one.   *)
(*                                                                         *)
(* The node is the environment: it queues the transactions of an account   *)
(* by nonce and executes them without gaps.                                *)
(***************************************************************************)
EXTENDS Integers

CONSTANTS
  NoJob,
  MaxNonce,    \* bound: the last nonce of the account
  Faults       \* what may go wrong; here: "nonceAt"

ASSUME MaxNonceAssumption == MaxNonce \in Nat

Nonces == 0..MaxNonce

NoNonce == -1

VARIABLES
  (* NonceManager: the next nonce, and how often each nonce is in the      *)
  (* sorted list of the returned ones                                      *)
  online, backup,
  (* the node: the next nonce to execute, and the job under each nonce     *)
  chainNonce, pool

nonceVars == <<online, backup>>

AccountInit ==
  /\ online = NoNonce
  /\ backup = [n \in Nonces |-> 0]
  /\ chainNonce = 0
  /\ pool = [n \in Nonces |-> NoJob]

-----------------------------------------------------------------------------
(* The node.                                                               *)

Pooled(n) == pool[n] # NoJob

(* PendingNonceAt: the first nonce that neither is executed nor can be     *)
(* executed with what is queued.                                           *)
IsPendingNonce(n) ==
  /\ chainNonce <= n
  /\ ~ Pooled(n)
  /\ \A m \in Nonces : chainNonce <= m /\ m < n => Pooled(m)

(* It takes no second transaction under a nonce at the same gas price, and *)
(* none under a nonce that is used up.                                     *)
Takes(n) == chainNonce <= n /\ ~ Pooled(n)

-----------------------------------------------------------------------------
(* NonceManager.  Both methods run under its mutex.                        *)

HeadOfBackup(n) == \A m \in Nonces : m < n => backup[m] = 0
FirstInBackup(n) == backup[n] > 0 /\ \A m \in Nonces : m < n => backup[m] = 0

PeekBackup(n) == UNCHANGED backup
PopBackup(n) == backup' = [backup EXCEPT ![n] = @ - 1]

BackupIsEmpty == \A n \in Nonces : backup[n] = 0

(* What UseNonce starts from when it knows no nonce; the error of          *)
(* PendingNonceAt is logged, and 0 taken instead.                          *)
IsFirstNonce(n) == IsPendingNonce(n) \/ ("nonceAt" \in Faults /\ n = 0)

StaysOnline(n) == n
SkipsOne(n) == n + 2
NextOnline(n) == n + 1

(* UseNonce returns n. *)
HandsOut(n) ==
  \/ /\ FirstInBackup(n)
     /\ PopBackup(n)
     /\ UNCHANGED online
  \/ /\ BackupIsEmpty
     /\ IF online = NoNonce THEN IsFirstNonce(n) ELSE online = n
     /\ online' = NextOnline(n)
     /\ UNCHANGED backup

KeepsNonce(n) == UNCHANGED backup
ReturnNonce(n) == backup' = [backup EXCEPT ![n] = @ + 1]

(* Both maps are in memory only. *)
NonceManagerRestarts ==
  /\ online' = NoNonce
  /\ backup' = [n \in Nonces |-> 0]

=============================================================================
