------------------------------ MODULE MCTunnel ------------------------------
(* Instances of Tunnel for TLC: the bytes there are. *)
EXTENDS Tunnel

CONSTANT blank

SomeBytes == (Sides \X (1..MaxBytes)) \cup {blank}
=============================================================================
