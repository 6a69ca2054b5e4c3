------------------------------- MODULE MCMng -------------------------------
(* Instances of Mng for TLC: users given on the command line, and numbers. *)
EXTENDS Mng

Nobody == {<<>>}
NobodyOrOne == {<<>>, <<<<"u", "v">>>>, <<<<"", "">>>>}
EveryEntry == {[e \in 1..n |-> <<"u", "f">>] : n \in 0..Slots}
Numbers == {1024, -1}
Words == {<<"u">>, <<"v">>}
UpToAField == {<<"u">>, <<"f">>}
UpToThreeFields == {<<"u">>, <<"f">>, <<"f", "u">>, <<"f", "f">>, <<"f", "f", "u">>}
ThreeFields == {<<"u">>, <<"f", "f", "f">>}
=============================================================================
