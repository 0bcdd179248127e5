------------------------------- MODULE Outbox -------------------------------
(***************************************************************************)
(* What the palette -> poly direction promises about deposits: a deposit   *)
(* it has taken on is kept until it is delivered, it is delivered once,    *)
(* and it is forgotten only after that.                                    *)
(***************************************************************************)
CONSTANT Deposits

VARIABLES pending,    \* deposits the relayer keeps
          delivered   \* deposits the other chain has

Init == pending = {} /\ delivered = {}

(* A deposit may be taken on again: the relayer asks whether it was        *)
(* delivered before it writes, not when it writes.                         *)
Accept(d) ==
  /\ pending' = pending \cup {d}
  /\ UNCHANGED delivered

Deliver(d) ==
  /\ d \in pending \ delivered
  /\ delivered' = delivered \cup {d}
  /\ UNCHANGED pending

Settle(d) ==
  /\ d \in pending \cap delivered
  /\ pending' = pending \ {d}
  /\ UNCHANGED delivered

Next == \E d \in Deposits : Accept(d) \/ Deliver(d) \/ Settle(d)

Spec == Init /\ [][Next]_<<pending, delivered>>

=============================================================================
