------------------------------- MODULE Queue -------------------------------
(***************************************************************************)
(* What a buffer promises: the bytes put in come out once, in order, or    *)
(* are all forgotten.  taken is the last bytes that came out.              *)
(***************************************************************************)
EXTENDS Sequences, Integers

CONSTANTS Byte, Room

VARIABLES items, taken

qvars == <<items, taken>>

QInit == items = <<>> /\ taken = <<>>

Add(s) ==
  /\ Len(items) + Len(s) <= Room
  /\ items' = items \o s
  /\ UNCHANGED taken

Take(n) ==
  /\ n <= Len(items)
  /\ taken' = SubSeq(items, 1, n)
  /\ items' = SubSeq(items, n + 1, Len(items))

Forget == items' = <<>> /\ UNCHANGED taken

QNext ==
  \/ \E k \in 0..Room : \E s \in [1..k -> Byte] : Add(s)
  \/ \E n \in 0..Room : Take(n)
  \/ Forget

QSpec == QInit /\ [][QNext]_qvars
=============================================================================
