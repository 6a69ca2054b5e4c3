------------------------------- MODULE MCWire -------------------------------
(* Instances of Wire for TLC: the bytes worth sending to each parser. *)
EXTENDS WireGrammar

SmallAlphabet ==
  [k \in Kinds |->
     CASE k \in {"admin_connect", "admin_put", "admin_edit", "auth"} -> 0..2
       [] k = "admin_get" -> 0..9
       [] k = "admin_configbuff" -> {0, 1, 3, 8, 15}
       [] k = "admin_configstatus" -> {0, 1, 2, 3, 4}
       [] k = "admin_delete" -> {0, 2, 5}
       [] k = "hello" -> {0, 1, 3, 5}
       [] k = "request" -> 0..5]
=============================================================================
