------------------------------ MODULE ByteStream ------------------------------
(***************************************************************************)
(* What a write(2) on the device promises, without threads, rings or       *)
(* descriptors: the bytes of the accepted writes form one stream, the      *)
(* radio fetches that stream in order with nothing lost or repeated, and   *)
(* no more than Capacity accepted bytes are ever waiting to be fetched.    *)
(* TxStream implements it.                                                 *)
(***************************************************************************)
EXTENDS Integers, Sequences

CONSTANT Capacity       \* bytes the driver can hold

VARIABLES accepted,     \* bytes of the write calls that have returned
          out           \* stream positions fetched so far, oldest first

Init == accepted = 0 /\ out = <<>>

\* A write of n bytes returns.
Accept(n) ==
    /\ accepted + n - Len(out) <= Capacity
    /\ accepted' = accepted + n
    /\ out' = out

\* The radio fetches the next n accepted bytes.
Deliver(n) ==
    /\ Len(out) + n <= accepted
    /\ out' = out \o [i \in 1 .. n |-> Len(out) + i - 1]
    /\ accepted' = accepted

Next == \E n \in 1 .. Capacity : Accept(n) \/ Deliver(n)

Spec == Init /\ [][Next]_<<accepted, out>>
===============================================================================
