------------------------------ MODULE MCSocks5 ------------------------------
(* Instances of Socks5 for TLC: the scripts of the clients of each run. *)
EXTENDS Socks5, TLC

CONSTANTS c1, c2, good, wrong

Script(o, a, r) == [offers |-> o, auth |-> a, req |-> r]

(* One client that may say anything. *)
EveryScript == AllScripts

(* A few clients that differ in what matters to the later states. *)
SomeScripts == {Script({"auth"}, good, "ip"), Script({"noauth"}, Absent, "ip"),
                Script({"auth", "noauth"}, good, "domain"),
                Script({"noauth"}, Absent, "unsupported")}

DomainScript == {Script({"noauth"}, Absent, "domain")}

NoFaults == {}
ResetFaults == {"reset"}
AllFaults == EnvFaults
=============================================================================
