------------------------------ MODULE Accounts ------------------------------
(***************************************************************************)
(* What the administration of the users promises: accounts are added,      *)
(* renamed, given another password and removed one at a time; whoever      *)
(* asked is told it was done when it was, and that it was refused when     *)
(* nothing changed.  Accounts may be alike, so it says of each how many     *)
(* there are.                                                              *)
(***************************************************************************)
EXTENDS Integers, FiniteSets

CONSTANTS Admin, Text, Most

VARIABLES accounts, answer

avars == <<accounts, answer>>

Account == Text \X Text
Copies == {copy \in Account \X (1..Most) : copy[2] <= accounts[copy[1]]}
Without(held, x) == [held EXCEPT ![x] = @ - 1]
With(held, x) == [held EXCEPT ![x] = @ + 1]
Answered(a, v) == answer[a] = "none" /\ answer' = [answer EXCEPT ![a] = v]

AInit ==
  /\ accounts \in [Account -> 0..Most]
  /\ Cardinality(Copies) <= Most
  /\ answer = [a \in Admin |-> "none"]

Add(a, n, p) ==
  /\ Cardinality(Copies) < Most
  /\ accounts' = With(accounts, <<n, p>>)
  /\ Answered(a, "ok")

Remove(a, n, p) ==
  /\ accounts[<<n, p>>] > 0
  /\ accounts' = Without(accounts, <<n, p>>)
  /\ Answered(a, "ok")

Change(a, n, p, m, q) ==
  /\ accounts[<<n, p>>] > 0
  /\ m = n \/ q = p
  /\ accounts' = With(Without(accounts, <<n, p>>), <<m, q>>)
  /\ Answered(a, "ok")

(* Another command was carried out. *)
Other(a) == Answered(a, "ok") /\ UNCHANGED accounts

Refuse(a) == Answered(a, "refused") /\ UNCHANGED accounts

Forget(a) == answer' = [answer EXCEPT ![a] = "none"] /\ UNCHANGED accounts

ANext ==
  \E a \in Admin :
    \/ Other(a) \/ Refuse(a) \/ Forget(a)
    \/ \E n, p \in Text :
         \/ Add(a, n, p) \/ Remove(a, n, p)
         \/ \E x \in Text : Change(a, n, p, x, p) \/ Change(a, n, p, n, x)

ASpec == AInit /\ [][ANext]_avars
=============================================================================
