------------------------------- MODULE BoltDB -------------------------------
(***************************************************************************)
(* The buckets of the relayer's bolt database (db/db.go).  Every method    *)
(* runs one bolt transaction under BoltDB.mtx, so each operator below is   *)
(* one atomic step of its caller.                                          *)
(*                                                                         *)
(* Retry is a bucket of serialized deposits, all with the same empty       *)
(* value: a set of keys.  A deposit is a positive number that stands for   *)
(* its key, and the order of the numbers is the order in which bolt        *)
(* iterates the keys.  Check maps the hash of a poly transaction to the    *)
(* deposit it carries: a function with NoDeposit where the key is absent.  *)
(* The height buckets hold one number, 0 while the key is absent.          *)
(***************************************************************************)
EXTENDS Integers, FiniteSets

CONSTANT MaxNum     \* db.go's maxNum (1000): what one scan of a bucket returns

ASSUME MaxNumAssumption == MaxNum \in Nat \ {0}

NoDeposit == 0

PutRetry(bucket, d) == bucket \cup {d}

DeleteRetry(bucket, d) == bucket \ {d}

PutCheck(bucket, tx, d) == [bucket EXCEPT ![tx] = d]

DeleteCheck(bucket, tx) == [bucket EXCEPT ![tx] = NoDeposit]

CheckKeys(bucket) == {tx \in DOMAIN bucket : bucket[tx] # NoDeposit}

(***************************************************************************)
(* foreach drops the ErrOutOfNumber its handler returns: a scan silently   *)
(* stops after the first maxNum keys.                                      *)
(***************************************************************************)
GetAllRetry(bucket) ==
  {d \in bucket : Cardinality({e \in bucket : e < d}) < MaxNum}

(***************************************************************************)
(* The keys of Check are hashes, in an order unrelated to anything else:   *)
(* a scan returns all of them, or some maxNum of them.                     *)
(***************************************************************************)
GetAllCheck(bucket) ==
  IF Cardinality(CheckKeys(bucket)) <= MaxNum
  THEN {CheckKeys(bucket)}
  ELSE {S \in SUBSET CheckKeys(bucket) : Cardinality(S) = MaxNum}

=============================================================================
