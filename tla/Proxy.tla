------------------------------- MODULE Proxy -------------------------------
(***************************************************************************)
(* What the proxy promises of a connection: it is first negotiated, then   *)
(* asks for a destination, is granted or denied it, and only a granted     *)
(* connection is relayed.  A connection that is over stays over.  tunnels  *)
(* is what the proxy reports as concurrent connections: one for every      *)
(* grant, less one for every relay that ended.                             *)
(***************************************************************************)
EXTENDS Integers

CONSTANT Conns

VARIABLES phase, granted, tunnels

pvars == <<phase, granted, tunnels>>

Phases == {"idle", "handshake", "request", "dialing", "answered", "relay", "over"}

PInit ==
  /\ phase = [c \in Conns |-> "idle"]
  /\ granted = [c \in Conns |-> FALSE]
  /\ tunnels = 0

Move(c, from, to) == phase[c] \in from /\ phase' = [phase EXCEPT ![c] = to]

(* A connection is taken in, or turned away. *)
Arrive(c) ==
  /\ Move(c, {"idle"}, "handshake") \/ Move(c, {"idle"}, "over")
  /\ UNCHANGED <<granted, tunnels>>

Admit(c) == Move(c, {"handshake"}, "request") /\ UNCHANGED <<granted, tunnels>>

Dial(c) == Move(c, {"request"}, "dialing") /\ UNCHANGED <<granted, tunnels>>

Grant(c) ==
  /\ Move(c, {"dialing"}, "answered")
  /\ granted' = [granted EXCEPT ![c] = TRUE]
  /\ tunnels' = tunnels + 1

Deny(c) ==
  /\ Move(c, {"request", "dialing"}, "answered")
  /\ UNCHANGED <<granted, tunnels>>

Relay(c) ==
  /\ granted[c]
  /\ Move(c, {"answered"}, "relay")
  /\ UNCHANGED <<granted, tunnels>>

Drop(c) ==
  /\ Move(c, {"handshake", "request", "dialing", "answered"}, "over")
  /\ UNCHANGED <<granted, tunnels>>

EndRelay(c) ==
  /\ Move(c, {"relay"}, "over")
  /\ tunnels' = tunnels - 1
  /\ UNCHANGED granted

PNext ==
  \E c \in Conns :
    \/ Arrive(c) \/ Admit(c) \/ Dial(c) \/ Grant(c) \/ Deny(c)
    \/ Relay(c) \/ Drop(c) \/ EndRelay(c)

PSpec == PInit /\ [][PNext]_pvars
=============================================================================
