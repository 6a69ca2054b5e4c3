--------------------------- MODULE SelectorProofs ---------------------------
(***************************************************************************)
(* Proofs about Selector, for any number of descriptors and registrations. *)
(* SelInv is inductive; the properties of the runs follow from it, and so  *)
(* does that every step of the thread brings a lookup nearer to its end.   *)
(***************************************************************************)
EXTENDS Selector, WellFoundedInduction, TLAPS

-----------------------------------------------------------------------------
(* The calls of the selector keep the sets and the bound in step with the
   items. *)

(* A set of naturals that is not empty has a least element. *)
LEMMA LeastExists ==
  ASSUME NEW T, T \subseteq Nat, T # {}
  PROVE  \E x \in T : \A y \in T : x <= y
<1>1. PICK x \in T : \A y \in T : ~ (<<y, x>> \in OpToRel(<, Nat))
  BY WFMin, NatLessThanWellFounded
<1>2. \A y \in T : ~ (y < x)
  BY <1>1 DEF OpToRel
<1> QED BY <1>2

(* A set of naturals below a bound has a greatest element. *)
LEMMA GreatestExists ==
  ASSUME NEW n \in Nat, NEW U, U \subseteq 0..n, U # {}
  PROVE  \E x \in U : \A y \in U : y <= x
<1> DEFINE T == {n - u : u \in U}
<1>1. T \subseteq Nat /\ T # {}
  <2>1. \A u \in U : u \in Nat /\ u <= n
    OBVIOUS
  <2>2. \A u \in U : n - u \in Nat
    BY <2>1
  <2> QED BY <2>2
<1> HIDE DEF T
<1>2. PICK x \in T : \A y \in T : x <= y
  BY <1>1, LeastExists
<1>3. PICK u \in U : x = n - u
  BY <1>2 DEF T
<1>4. \A v \in U : n - v \in T
  BY DEF T
<1>5. \A v \in U : n - u <= n - v
  BY <1>2, <1>3, <1>4
<1> QED BY <1>5, <1>3

LEMMA FdFacts == (\A f \in Fd : f \in Nat) /\ 0 \in Fd /\ Kernel \in Nat
  BY SelectorAssumption DEF Fd

(* items_max_fd finds the greatest descriptor in use, or 0. *)
LEMMA ItemsMaxFdFound ==
  ASSUME NEW S \in FdSelector
  PROVE  /\ ItemsMaxFd(S) \in 0..S.maxFd
         /\ ItemsMaxFd(S) = 0 \/ Used(S, ItemsMaxFd(S))
         /\ \A f \in 0..S.maxFd : Used(S, f) => f <= ItemsMaxFd(S)
<1> DEFINE U == {f \in 0..S.maxFd : Used(S, f)}
           P(m) == /\ m = 0 \/ Used(S, m)
                   /\ \A f \in 0..S.maxFd : Used(S, f) => f <= m
<1>1. S.maxFd \in Nat
  BY FdFacts DEF FdSelector
<1>2. \E m \in 0..S.maxFd : P(m)
  <2>1. CASE U = {}
    <3>1. 0 \in 0..S.maxFd /\ P(0)
      BY <1>1, <2>1
    <3> QED BY <3>1
  <2>2. CASE U # {}
    <3>1. PICK x \in U : \A y \in U : y <= x
      BY <1>1, <2>2, GreatestExists
    <3>2. x \in 0..S.maxFd /\ P(x)
      BY <3>1
    <3> QED BY <3>2
  <2> QED BY <2>1, <2>2
<1>3. ItemsMaxFd(S) = CHOOSE m \in 0..S.maxFd : P(m)
  BY DEF ItemsMaxFd
<1> HIDE DEF P
<1>4. ItemsMaxFd(S) \in 0..S.maxFd /\ P(ItemsMaxFd(S))
  BY <1>2, <1>3
<1> QED BY <1>4 DEF P

LEMMA UnusedFacts == Unused \in Item /\ Unused.interest = {} /\ Unused.gen = 0
  BY SelectorAssumption DEF Item, Unused, Interests

(* An item that changes takes its place in the sets; the bound stays one. *)
LEMMA UpdatedKeeps ==
  ASSUME NEW S \in FdSelector, SetsAgree(S), NEW f \in Fd, NEW it \in Item,
         NEW m \in Fd, S.maxFd <= m, it.gen # 0 => f <= m,
         it.gen = 0 => it = Unused
  PROVE  /\ Updated(S, f, it, m) \in FdSelector
         /\ Updated(S, f, it, m).r = {h \in Fd : "r" \in Updated(S, f, it, m).items[h].interest}
         /\ Updated(S, f, it, m).w = {h \in Fd : "w" \in Updated(S, f, it, m).items[h].interest}
         /\ \A h \in Fd : Used(Updated(S, f, it, m), h) => h <= m
         /\ \A h \in Fd : ~Used(Updated(S, f, it, m), h)
                            => Updated(S, f, it, m).items[h] = Unused
<1> DEFINE R == Updated(S, f, it, m)
<1>1. S.items \in [Fd -> Item] /\ S.maxFd \in Fd /\ S.r \subseteq Fd /\ S.w \subseteq Fd
  BY DEF FdSelector
<1>2. R.items \in [Fd -> Item] /\ R.items[f] = it /\ \A h \in Fd : h # f => R.items[h] = S.items[h]
  BY <1>1 DEF Updated
<1>3. R \in FdSelector
  BY <1>1, <1>2 DEF Updated, FdSelector
<1>4. /\ R.r = IF "r" \in it.interest THEN S.r \cup {f} ELSE S.r \ {f}
      /\ R.w = IF "w" \in it.interest THEN S.w \cup {f} ELSE S.w \ {f}
  BY DEF Updated
<1> HIDE DEF R
<1>5. R.r = {h \in Fd : "r" \in R.items[h].interest}
  BY <1>1, <1>2, <1>4 DEF SetsAgree
<1>6. R.w = {h \in Fd : "w" \in R.items[h].interest}
  BY <1>1, <1>2, <1>4 DEF SetsAgree
<1>7. \A h \in Fd : Used(R, h) => h <= m
  <2> SUFFICES ASSUME NEW h \in Fd, Used(R, h), h # f PROVE h <= m
    BY <1>2 DEF Used
  <2>1. h <= S.maxFd
    BY <1>2 DEF SetsAgree, Used
  <2>2. h \in Nat /\ S.maxFd \in Nat /\ m \in Nat
    BY <1>1, FdFacts
  <2> QED BY <2>1, <2>2
<1>8. \A h \in Fd : ~Used(R, h) => R.items[h] = Unused
  BY <1>2 DEF SetsAgree, Used
<1> QED BY <1>3, <1>5, <1>6, <1>7, <1>8 DEF R

(* Registering an unused descriptor. *)
LEMMA RegisterKeeps ==
  ASSUME NEW S \in FdSelector, SetsAgree(S), NEW f \in Fd, ~Used(S, f),
         NEW g \in Gen, NEW o \in Gen, NEW i \in Interests
  PROVE  /\ Register(S, f, g, o, i) \in FdSelector
         /\ SetsAgree(Register(S, f, g, o, i))
         /\ Register(S, f, g, o, i).items =
              [S.items EXCEPT ![f] = [gen |-> g, owner |-> o, interest |-> i]]
<1> DEFINE it == [gen |-> g, owner |-> o, interest |-> i]
           m == IF f > S.maxFd THEN f ELSE S.maxFd
           R == Register(S, f, g, o, i)
<1>1. it \in Item /\ it.gen # 0
  BY SelectorAssumption DEF Item, Gen
<1>2. S.items \in [Fd -> Item] /\ S.maxFd \in Fd
  BY DEF FdSelector
<1>3. /\ m \in Fd /\ S.maxFd <= m /\ f <= m
      /\ m = S.maxFd \/ m = f
  <2>1. S.maxFd \in Nat /\ f \in Nat
    BY <1>2, FdFacts
  <2> QED BY <1>2, <2>1
<1>4. R = Updated(S, f, it, m)
  BY DEF Register
<1>5. R.items = [S.items EXCEPT ![f] = it] /\ R.maxFd = m
  BY <1>4 DEF Updated
<1> HIDE DEF it, m, R
<1>6. m # 0 => Used(R, m)
  <2>1. CASE m = f
    BY <1>1, <1>2, <1>5, <2>1 DEF Used
  <2>2. CASE m # f
    BY <1>2, <1>3, <1>5, <2>2 DEF SetsAgree, Used
  <2> QED BY <2>1, <2>2
<1>7. R \in FdSelector /\ SetsAgree(R)
  <2>1. /\ R \in FdSelector
        /\ R.r = {h \in Fd : "r" \in R.items[h].interest}
        /\ R.w = {h \in Fd : "w" \in R.items[h].interest}
        /\ \A h \in Fd : Used(R, h) => h <= m
        /\ \A h \in Fd : ~Used(R, h) => R.items[h] = Unused
    BY <1>1, <1>3, <1>4, UpdatedKeeps
  <2> QED BY <1>5, <1>6, <2>1 DEF SetsAgree
<1> QED BY <1>5, <1>7 DEF it, R

(* Changing an interest leaves who has the descriptor. *)
LEMMA SetInterestKeeps ==
  ASSUME NEW S \in FdSelector, SetsAgree(S), NEW f \in Fd, NEW i \in Interests
  PROVE  /\ SetInterest(S, f, i) \in FdSelector
         /\ SetsAgree(SetInterest(S, f, i))
         /\ \A h \in Fd : /\ SetInterest(S, f, i).items[h].gen = S.items[h].gen
                          /\ SetInterest(S, f, i).items[h].owner = S.items[h].owner
                          /\ h # f => SetInterest(S, f, i).items[h] = S.items[h]
         /\ Used(S, f) => SetInterest(S, f, i).items[f].interest = i
<1>1. CASE ~Used(S, f)
  BY <1>1 DEF SetInterest
<1>2. CASE Used(S, f)
  <2> DEFINE it == [S.items[f] EXCEPT !.interest = i]
             R == SetInterest(S, f, i)
  <2>1. S.items \in [Fd -> Item] /\ S.maxFd \in Fd
    BY DEF FdSelector
  <2>2. S.items[f] \in Item
    BY <2>1
  <2>3. /\ it \in Item /\ it.interest = i
        /\ it.gen = S.items[f].gen /\ it.owner = S.items[f].owner
    BY <2>2 DEF Item
  <2>4. R = Updated(S, f, it, S.maxFd)
    BY <1>2 DEF SetInterest
  <2>5. R.items = [S.items EXCEPT ![f] = it] /\ R.maxFd = S.maxFd
    BY <2>4 DEF Updated
  <2> HIDE DEF it, R
  <2>6. \A h \in Fd : /\ R.items[h].gen = S.items[h].gen
                      /\ R.items[h].owner = S.items[h].owner
                      /\ h # f => R.items[h] = S.items[h]
    BY <2>1, <2>3, <2>5
  <2>7. it.gen # 0 /\ f <= S.maxFd /\ S.maxFd <= S.maxFd
    <3>1. S.maxFd \in Nat
      BY <2>1, FdFacts
    <3> QED BY <1>2, <2>3, <3>1 DEF SetsAgree, Used
  <2>8. S.maxFd # 0 => Used(R, S.maxFd)
    BY <2>1, <2>6 DEF SetsAgree, Used
  <2>9. R \in FdSelector /\ SetsAgree(R)
    BY <2>1, <2>3, <2>4, <2>5, <2>7, <2>8, UpdatedKeeps DEF SetsAgree
  <2>10. R.items[f].interest = i
    BY <2>1, <2>3, <2>5
  <2> QED BY <2>6, <2>9, <2>10 DEF R
<1> QED BY <1>1, <1>2

(* Unregistering, of a descriptor in use or not. *)
LEMMA UnregisterKeeps ==
  ASSUME NEW S \in FdSelector, SetsAgree(S), NEW f \in Fd
  PROVE  /\ Unregister(S, f) \in FdSelector
         /\ SetsAgree(Unregister(S, f))
         /\ Unregister(S, f).items = [S.items EXCEPT ![f] = Unused]
<1>0. S.items \in [Fd -> Item] /\ S.maxFd \in Fd
  BY DEF FdSelector
<1>1. CASE ~Used(S, f)
  <2>1. S.items[f] = Unused
    BY <1>1 DEF SetsAgree
  <2>2. [S.items EXCEPT ![f] = Unused] = S.items
    BY <1>0, <2>1
  <2> QED BY <1>1, <2>2 DEF Unregister
<1>2. CASE Used(S, f)
  <2> DEFINE gone == Updated(S, f, Unused, S.maxFd)
             m == ItemsMaxFd(gone)
             R == Unregister(S, f)
  <2>1. R = [items |-> gone.items, maxFd |-> m, r |-> gone.r, w |-> gone.w]
    BY <1>2 DEF Unregister
  <2>2. gone.items = [S.items EXCEPT ![f] = Unused] /\ gone.maxFd = S.maxFd
    BY DEF Updated
  <2> HIDE DEF gone, R
  <2>3. S.maxFd \in Nat /\ S.maxFd <= S.maxFd
    <3>1. S.maxFd \in Nat
      BY <1>0, FdFacts
    <3> QED BY <3>1
  <2>4. /\ gone \in FdSelector
        /\ gone.r = {h \in Fd : "r" \in gone.items[h].interest}
        /\ gone.w = {h \in Fd : "w" \in gone.items[h].interest}
        /\ \A h \in Fd : Used(gone, h) => h <= S.maxFd
        /\ \A h \in Fd : ~Used(gone, h) => gone.items[h] = Unused
    BY <1>0, <2>3, UnusedFacts, UpdatedKeeps DEF gone
  <2>5. /\ m \in 0..S.maxFd
        /\ m = 0 \/ Used(gone, m)
        /\ \A h \in 0..S.maxFd : Used(gone, h) => h <= m
    BY <2>2, <2>4, ItemsMaxFdFound
  <2> HIDE DEF m
  <2>6. m \in Fd
    BY <1>0, <2>5, FdFacts DEF Fd
  <2>7. R \in FdSelector /\ R.items = gone.items /\ R.maxFd = m /\ R.r = gone.r /\ R.w = gone.w
    BY <2>1, <2>4, <2>6 DEF FdSelector
  <2>8. \A h \in Fd : Used(gone, h) => h \in 0..S.maxFd
    BY <1>0, <2>4, FdFacts
  <2>9. SetsAgree(R)
    BY <2>4, <2>5, <2>7, <2>8 DEF SetsAgree, Used
  <2> QED BY <2>2, <2>7, <2>9 DEF R
<1> QED BY <1>1, <1>2

-----------------------------------------------------------------------------
(* Who has what: the table, the sessions and the kernel. *)

Client(o, c) == sel.items[c].gen = o /\ sel.items[c].owner = o

(* Registrations are told apart, each is its session's client or its session's
   final server, and a session with a final server has its client. *)
Owners ==
  /\ \A f \in Fd : Used(sel, f) => sel.items[f].gen <= gens /\ sel.items[f].owner \in Gen
  /\ \A f, g \in Fd : Used(sel, f) /\ sel.items[f].gen = sel.items[g].gen => f = g
  /\ \A f \in Fd : Used(sel, f) =>
       /\ \E c \in Fd : Client(sel.items[f].owner, c)
       /\ sel.items[f].gen = sel.items[f].owner \/ server[sel.items[f].owner] = f
  /\ \A o \in Gen : server[o] # None =>
       /\ \E c \in Fd : Client(o, c)
       /\ o # Passive /\ server[o] \in open
       /\ Used(sel, server[o]) => /\ sel.items[server[o]].owner = o
                                  /\ sel.items[server[o]].gen # o
  /\ \A o, p \in Gen : server[o] # None /\ server[o] = server[p] => o = p

TableInv ==
  /\ sel \in FdSelector /\ open \subseteq Fd /\ gens \in Gen
  /\ server \in [Gen -> Fd \cup {None}]
  /\ SetsFollowItems /\ Owners /\ OpenIsOwned

(* What a step of the session o leaves alone. *)
OthersKept(o) ==
  /\ \A f \in Fd : Used(sel, f) /\ sel.items[f].owner # o => sel'.items[f] = sel.items[f]
  /\ \A p \in Gen : p # o => server'[p] = server[p]

LEMMA GenFacts == (\A g \in Gen : g \in Nat /\ g # 0) /\ Passive \in Gen /\ None \notin Fd
  BY SelectorAssumption DEF Gen, Passive, None, Fd

(* In terms of the items: the session's client c, and its final server's
   descriptor. *)
LEMMA ClientFacts ==
  ASSUME TableInv, NEW o \in Gen, NEW c \in Fd, Client(o, c)
  PROVE  /\ Used(sel, c) /\ c \in open /\ c # server[o]
         /\ \A p \in Gen : server[p] # c
         /\ server[o] # None => server[o] \in Fd
         /\ \A f \in Fd : Used(sel, f) /\ sel.items[f].owner = o => f = c \/ f = server[o]
<1>1. Used(sel, c) /\ c \in open
  BY GenFacts DEF Client, Used, TableInv, OpenIsOwned
<1>2. ASSUME NEW p \in Gen, server[p] = c PROVE FALSE
  <2>1. c # None
    BY GenFacts
  <2>2. sel.items[c].owner = p /\ sel.items[c].gen # p
    BY <1>1, <1>2, <2>1 DEF TableInv, Owners
  <2> QED BY <2>2 DEF Client
<1>3. ASSUME NEW f \in Fd, Used(sel, f), sel.items[f].owner = o PROVE f = c \/ f = server[o]
  <2>1. sel.items[f].gen = o \/ server[o] = f
    BY <1>3 DEF TableInv, Owners
  <2> QED BY <1>3, <2>1 DEF TableInv, Owners, Client
<1>4. server[o] # None => server[o] \in Fd
  BY DEF TableInv
<1> QED BY <1>1, <1>2, <1>3, <1>4

LEMMA SetsInterestsKeeps ==
  ASSUME TableInv, NEW o \in Gen, o # Passive, NEW c \in Fd, Client(o, c), SetsInterests(o, c)
  PROVE  TableInv' /\ OthersKept(o) /\ gens' = gens
<1>1. PICK i \in Interests, j \in Interests :
        sel' = IF server[o] = None THEN SetInterest(sel, c, i)
               ELSE SetInterest(SetInterest(sel, c, i), server[o], j)
  BY DEF SetsInterests
<1> DEFINE S == SetInterest(sel, c, i)
<1>2. /\ S \in FdSelector /\ SetsAgree(S)
      /\ \A h \in Fd : /\ S.items[h].gen = sel.items[h].gen
                       /\ S.items[h].owner = sel.items[h].owner
                       /\ h # c => S.items[h] = sel.items[h]
  BY SetInterestKeeps DEF TableInv, SetsFollowItems
<1>3. /\ sel' \in FdSelector /\ SetsAgree(sel')
      /\ \A h \in Fd : /\ sel'.items[h].gen = sel.items[h].gen
                       /\ sel'.items[h].owner = sel.items[h].owner
                       /\ h # c /\ h # server[o] => sel'.items[h] = sel.items[h]
  <2>1. CASE server[o] = None
    BY <1>1, <1>2, <2>1
  <2>2. CASE server[o] # None
    <3> HIDE DEF S
    <3>1. server[o] \in Fd
      BY <2>2, ClientFacts
    <3>2. sel' = SetInterest(S, server[o], j)
      BY <1>1, <2>2 DEF S
    <3>3. /\ sel' \in FdSelector /\ SetsAgree(sel')
          /\ \A h \in Fd : /\ sel'.items[h].gen = S.items[h].gen
                           /\ sel'.items[h].owner = S.items[h].owner
                           /\ h # server[o] => sel'.items[h] = S.items[h]
      <4> DEFINE T == SetInterest(S, server[o], j)
      <4>1. /\ T \in FdSelector /\ SetsAgree(T)
            /\ \A h \in Fd : /\ T.items[h].gen = S.items[h].gen
                             /\ T.items[h].owner = S.items[h].owner
                             /\ h # server[o] => T.items[h] = S.items[h]
        BY <1>2, <3>1, SetInterestKeeps, Zenon
      <4> HIDE DEF T
      <4>2. sel' = T
        BY <3>2 DEF T
      <4> QED BY <4>1, <4>2
    <3> QED BY <1>2, <3>3
  <2> QED BY <2>1, <2>2
<1>4. UNCHANGED <<open, server, gens>>
  BY DEF SetsInterests
<1>5. \A h \in Fd : Used(sel', h) <=> Used(sel, h)
  BY <1>3 DEF Used
<1>6. \A p \in Gen, h \in Fd : Client(p, h)' <=> Client(p, h)
  BY <1>3 DEF Client
<1>7. Owners'
  BY <1>3, <1>4, <1>5, <1>6 DEF TableInv, Owners
<1>8. OpenIsOwned'
  BY <1>3, <1>4, <1>5 DEF TableInv, OpenIsOwned, Live
<1>9. OthersKept(o)
  <2>1. sel.items[c].owner = o
    BY DEF Client
  <2>2. server[o] # None /\ Used(sel, server[o]) => sel.items[server[o]].owner = o
    BY DEF TableInv, Owners
  <2> QED BY <1>3, <1>4, <2>1, <2>2, GenFacts DEF OthersKept
<1> QED BY <1>3, <1>4, <1>7, <1>8, <1>9 DEF TableInv, SetsFollowItems

(* Closing: the session's descriptors leave the table and the kernel. *)
LEMMA ClosesKeeps ==
  ASSUME TableInv, NEW o \in Gen, o # Passive, NEW c \in Fd, Client(o, c), Closes(o, c)
  PROVE  TableInv' /\ OthersKept(o) /\ gens' = gens
<1> DEFINE S == Unregister(sel, c)
<1>1. sel.items \in [Fd -> Item] /\ UNCHANGED gens /\ server' = [server EXCEPT ![o] = None]
      /\ open' = open \ {c, server[o]}
  BY DEF TableInv, FdSelector, Closes
<1>2. S \in FdSelector /\ SetsAgree(S) /\ S.items = [sel.items EXCEPT ![c] = Unused]
  BY UnregisterKeeps DEF TableInv, SetsFollowItems
<1>3. /\ sel' \in FdSelector /\ SetsAgree(sel')
      /\ \A h \in Fd : sel'.items[h] = IF h = c \/ h = server[o] THEN Unused ELSE sel.items[h]
  <2>1. CASE server[o] = None
    BY <1>1, <1>2, <2>1, GenFacts DEF Closes
  <2>2. CASE server[o] # None
    <3>1. server[o] \in Fd
      BY <2>2, ClientFacts
    <3>2. sel' = Unregister(S, server[o])
      BY <2>2 DEF Closes
    <3> HIDE DEF S
    <3>3. /\ sel' \in FdSelector /\ SetsAgree(sel')
          /\ sel'.items = [S.items EXCEPT ![server[o]] = Unused]
      BY <1>2, <3>1, <3>2, UnregisterKeeps
    <3> QED BY <1>1, <1>2, <3>1, <3>3
  <2> QED BY <2>1, <2>2
<1> HIDE DEF S
<1>4. \A h \in Fd : Used(sel', h) <=> Used(sel, h) /\ h # c /\ h # server[o]
  BY <1>3, UnusedFacts DEF Used
<1>5. \A h \in Fd : Used(sel', h) => sel'.items[h] = sel.items[h] /\ sel.items[h].owner # o
  BY <1>3, <1>4, ClientFacts
<1>6. \A p \in Gen, h \in Fd : Client(p, h) /\ p # o => Client(p, h)'
  <2> SUFFICES ASSUME NEW p \in Gen, NEW h \in Fd, Client(p, h), p # o PROVE Client(p, h)'
    OBVIOUS
  <2>1. h # c /\ h # server[o]
    BY ClientFacts DEF Client
  <2> QED BY <1>3, <2>1 DEF Client
<1>7. \A p \in Gen : server'[p] = (IF p = o THEN None ELSE server[p])
  BY <1>1 DEF TableInv
<1>8. Owners'
  <2>1. \A f \in Fd : Used(sel', f) =>
          /\ sel'.items[f].gen <= gens' /\ sel'.items[f].owner \in Gen
          /\ \E d \in Fd : Client(sel.items[f].owner, d)'
          /\ sel'.items[f].gen = sel'.items[f].owner \/ server'[sel'.items[f].owner] = f
    <3> SUFFICES ASSUME NEW f \in Fd, Used(sel', f)
                 PROVE  /\ sel'.items[f].gen <= gens' /\ sel'.items[f].owner \in Gen
                        /\ \E d \in Fd : Client(sel.items[f].owner, d)'
                        /\ \/ sel'.items[f].gen = sel'.items[f].owner
                           \/ server'[sel'.items[f].owner] = f
      OBVIOUS
    <3>1. Used(sel, f) /\ sel'.items[f] = sel.items[f] /\ sel.items[f].owner # o
      BY <1>4, <1>5
    <3>2. /\ sel.items[f].gen <= gens /\ sel.items[f].owner \in Gen
          /\ \E d \in Fd : Client(sel.items[f].owner, d)
          /\ sel.items[f].gen = sel.items[f].owner \/ server[sel.items[f].owner] = f
      BY <3>1 DEF TableInv, Owners
    <3>3. PICK d \in Fd : Client(sel.items[f].owner, d)
      BY <3>2
    <3>4. d # c /\ d # server[o]
      BY <3>1, <3>2, <3>3, ClientFacts DEF Client
    <3>5. Client(sel.items[f].owner, d)'
      BY <1>3, <3>1, <3>3, <3>4 DEF Client
    <3> QED BY <1>1, <1>7, <3>1, <3>2, <3>5
  <2>2. \A f, g \in Fd : Used(sel', f) /\ sel'.items[f].gen = sel'.items[g].gen => f = g
    <3> SUFFICES ASSUME NEW f \in Fd, NEW g \in Fd, Used(sel', f),
                        sel'.items[f].gen = sel'.items[g].gen
                 PROVE  f = g
      OBVIOUS
    <3>1. Used(sel', g)
      BY DEF Used
    <3> QED BY <1>4, <1>5, <3>1 DEF TableInv, Owners
  <2>3. \A p \in Gen : server'[p] # None =>
          /\ \E d \in Fd : Client(p, d)'
          /\ p # Passive /\ server'[p] \in open'
          /\ Used(sel', server'[p]) => /\ sel'.items[server'[p]].owner = p
                                       /\ sel'.items[server'[p]].gen # p
    <3> SUFFICES ASSUME NEW p \in Gen, server'[p] # None
                 PROVE  /\ \E d \in Fd : Client(p, d)'
                        /\ p # Passive /\ server'[p] \in open'
                        /\ Used(sel', server'[p]) => /\ sel'.items[server'[p]].owner = p
                                                     /\ sel'.items[server'[p]].gen # p
      OBVIOUS
    <3>1. p # o /\ server'[p] = server[p] /\ server[p] # None /\ server[p] \in Fd
      BY <1>7 DEF TableInv
    <3>2. server[p] # server[o] /\ server[p] # c
      BY <3>1, ClientFacts DEF TableInv, Owners
    <3>3. sel'.items[server[p]] = sel.items[server[p]]
      BY <1>3, <3>1, <3>2
    <3>4. /\ \E d \in Fd : Client(p, d)
          /\ p # Passive /\ server[p] \in open
          /\ Used(sel, server[p]) => /\ sel.items[server[p]].owner = p
                                     /\ sel.items[server[p]].gen # p
      BY <3>1 DEF TableInv, Owners
    <3> QED BY <1>1, <1>4, <1>6, <3>1, <3>2, <3>3, <3>4
  <2>4. \A p, q \in Gen : server'[p] # None /\ server'[p] = server'[q] => p = q
    BY <1>7 DEF TableInv, Owners
  <2> QED BY <2>1, <2>2, <2>3, <2>4 DEF Owners
<1>9. OpenIsOwned'
  <2>1. \A f \in Fd : Used(sel', f) => f \in open'
    BY <1>1, <1>4 DEF TableInv, OpenIsOwned
  <2>2. ASSUME NEW f \in open', ~Used(sel', f)
        PROVE  \E p \in Gen : Live(p)' /\ server'[p] = f
    <3>1. f \in open /\ f \in Fd /\ f # c /\ f # server[o] /\ ~Used(sel, f)
      BY <1>1, <1>4, <2>2 DEF TableInv
    <3>2. PICK p \in Gen : server[p] = f
      BY <3>1 DEF TableInv, OpenIsOwned
    <3>3. p # o /\ f # None
      BY <3>1, <3>2, GenFacts
    <3>4. \E d \in Fd : Client(p, d)'
      BY <1>6, <3>2, <3>3 DEF TableInv, Owners
    <3> QED BY <1>7, <3>2, <3>3, <3>4 DEF Live, Client
  <2> QED BY <2>1, <2>2 DEF OpenIsOwned
<1>10. OthersKept(o)
  <2>1. ASSUME NEW f \in Fd, Used(sel, f), sel.items[f].owner # o
        PROVE  sel'.items[f] = sel.items[f]
    <3>1. f # c
      BY <2>1 DEF Client
    <3>2. f # server[o]
      BY <2>1, GenFacts DEF TableInv, Owners
    <3> QED BY <1>3, <3>1, <3>2
  <2> QED BY <1>7, <2>1 DEF OthersKept
<1> QED BY <1>1, <1>3, <1>8, <1>9, <1>10 DEF TableInv, SetsFollowItems

(* request_connect gives the former final server's descriptor back first. *)
LEMMA LeftFacts ==
  ASSUME TableInv, NEW o \in Gen
  PROVE  /\ Left(o) \in FdSelector /\ SetsAgree(Left(o))
         /\ \A h \in Fd : Left(o).items[h] = IF h = server[o] THEN Unused ELSE sel.items[h]
<1>1. sel.items \in [Fd -> Item]
  BY DEF TableInv, FdSelector
<1>2. CASE server[o] = None
  BY <1>2, GenFacts DEF Left, TableInv, SetsFollowItems
<1>3. CASE server[o] # None
  <2>1. server[o] \in Fd
    BY <1>3 DEF TableInv
  <2>2. Left(o) = Unregister(sel, server[o])
    BY <1>3 DEF Left
  <2>3. /\ Left(o) \in FdSelector /\ SetsAgree(Left(o))
        /\ Left(o).items = [sel.items EXCEPT ![server[o]] = Unused]
    <3>1. sel \in FdSelector /\ SetsAgree(sel)
      BY DEF TableInv, SetsFollowItems
    <3> QED BY <2>1, <2>2, <3>1, UnregisterKeeps
  <2> QED BY <1>1, <2>1, <2>3
<1> QED BY <1>2, <1>3

(* The session o gets the descriptor f as its final server, registered or
   not. *)
NewServer(o, c, f) ==
  /\ f \notin Kept(o)
  /\ sel' \in FdSelector /\ SetsAgree(sel')
  /\ open' = Kept(o) \cup {f} /\ server' = [server EXCEPT ![o] = f]
  /\ \/ sel'.items[f].gen = 0 /\ gens' = gens
     \/ /\ sel'.items[f].gen = gens + 1 /\ sel'.items[f].owner = o
        /\ gens' = gens + 1 /\ gens' \in Gen
  /\ \A h \in Fd : h # f =>
       /\ sel'.items[h].gen = IF h = server[o] THEN 0 ELSE sel.items[h].gen
       /\ h # server[o] => sel'.items[h].owner = sel.items[h].owner
       /\ h # c /\ h # server[o] => sel'.items[h] = sel.items[h]

LEMMA NewServerKeeps ==
  ASSUME TableInv, NEW o \in Gen, o # Passive, NEW c \in Fd, Client(o, c),
         NEW f \in Fd, NewServer(o, c, f)
  PROVE  TableInv' /\ OthersKept(o)
<1> DEFINE g == sel'.items[f].gen
<1>0. /\ f \notin Kept(o)
      /\ sel' \in FdSelector /\ SetsAgree(sel')
      /\ open' = Kept(o) \cup {f} /\ server' = [server EXCEPT ![o] = f]
      /\ \/ g = 0 /\ gens' = gens
         \/ g = gens + 1 /\ gens' = gens + 1 /\ gens' \in Gen /\ sel'.items[f].owner = o
  BY DEF NewServer
<1>p. \A h \in Fd : h # f =>
        /\ sel'.items[h].gen = IF h = server[o] THEN 0 ELSE sel.items[h].gen
        /\ h # server[o] => sel'.items[h].owner = sel.items[h].owner
        /\ h # c /\ h # server[o] => sel'.items[h] = sel.items[h]
  BY DEF NewServer
<1>1. /\ gens \in Nat /\ (\A p \in Gen : p \in Nat /\ p # 0) /\ gens' \in Gen /\ gens <= gens'
      /\ g # 0 => g = gens' /\ g > gens
      /\ f # None
  BY <1>0, GenFacts DEF TableInv, g
<1>2. \A p \in Gen : server'[p] = (IF p = o THEN f ELSE server[p])
  BY <1>0 DEF TableInv
<1>3. f # c /\ c # server[o] /\ c \in Kept(o)
  BY <1>0, ClientFacts DEF Kept
<1>4. \A h \in Fd : Used(sel', h) => h \in open' /\ (h # f => Used(sel, h) /\ h # server[o])
  <2>0. f \in open'
    BY <1>0
  <2> SUFFICES ASSUME NEW h \in Fd, Used(sel', h), h # f
               PROVE  h \in open' /\ Used(sel, h) /\ h # server[o]
    BY <2>0 DEF Used
  <2>1. Used(sel, h) /\ h # server[o]
    BY <1>p DEF Used
  <2>2. h \in open
    BY <2>1 DEF TableInv, OpenIsOwned
  <2> QED BY <1>0, <2>1, <2>2 DEF Kept
<1>5. \A p \in Gen, h \in Fd : Client(p, h) => h # f /\ h # server[o]
  <2> SUFFICES ASSUME NEW p \in Gen, NEW h \in Fd, Client(p, h)
               PROVE  h # f /\ h # server[o]
    OBVIOUS
  <2>1. h # server[o] /\ h \in open
    BY ClientFacts
  <2> QED BY <1>0, <2>1 DEF Kept
<1>6. \A p \in Gen, h \in Fd : Client(p, h) => Client(p, h)'
  BY <1>5, <1>p DEF Client
<1>7. \A h \in Fd : Used(sel, h) /\ sel.items[h].owner # o => h # f /\ h # c /\ h # server[o]
  <2> SUFFICES ASSUME NEW h \in Fd, Used(sel, h), sel.items[h].owner # o
               PROVE  h # f /\ h # c /\ h # server[o]
    OBVIOUS
  <2>1. h \in open
    BY DEF TableInv, OpenIsOwned
  <2>2. h # server[o]
    BY GenFacts DEF TableInv, Owners
  <2> QED BY <1>0, <2>1, <2>2 DEF Client, Kept
<1>8. Owners'
  <2>1. ASSUME NEW h \in Fd, Used(sel', h)
        PROVE  sel'.items[h].gen <= gens' /\ sel'.items[h].owner \in Gen
    <3>1. CASE h = f
      BY <1>0, <1>1, <2>1, <3>1 DEF Used, g
    <3>2. CASE h # f
      <4>1. /\ Used(sel, h) /\ h # server[o] /\ sel.items[h].gen <= gens
            /\ sel.items[h].owner \in Gen /\ sel.items[h].gen \in Nat
        <5>1. Used(sel, h) /\ h # server[o]
          BY <1>4, <2>1, <3>2
        <5>2. sel.items[h] \in Item
          BY DEF TableInv, FdSelector
        <5> QED BY <5>1, <5>2, SelectorAssumption DEF TableInv, Owners, Item
      <4> QED BY <1>1, <1>p, <3>2, <4>1
    <3> QED BY <3>1, <3>2
  <2>2. ASSUME NEW h \in Fd, NEW k \in Fd, Used(sel', h), sel'.items[h].gen = sel'.items[k].gen
        PROVE  h = k
    <3>1. Used(sel', k)
      BY <2>2 DEF Used
    <3>2. \A x \in Fd : Used(sel', x) /\ x # f =>
            /\ Used(sel, x) /\ sel'.items[x].gen = sel.items[x].gen /\ sel.items[x].gen <= gens
      BY <1>4, <1>p DEF TableInv, Owners
    <3>3. Used(sel', f) => sel'.items[f].gen > gens
      BY <1>1 DEF Used, g
    <3>4. \A x \in Fd : sel.items[x].gen \in Nat /\ sel'.items[x].gen \in Nat
      <4>1. \A x \in Fd : sel.items[x] \in Item /\ sel'.items[x] \in Item
        BY <1>0 DEF TableInv, FdSelector
      <4> QED BY <4>1, SelectorAssumption DEF Item
    <3>5. CASE h # f /\ k # f
      BY <2>2, <3>1, <3>2, <3>5 DEF TableInv, Owners
    <3>6. CASE h = f \/ k = f
      BY <1>1, <2>2, <3>1, <3>2, <3>3, <3>4, <3>6
    <3> QED BY <3>5, <3>6
  <2>3. ASSUME NEW h \in Fd, Used(sel', h)
        PROVE  /\ \E d \in Fd : Client(sel.items[h].owner, d)'
               /\ sel'.items[h].gen = sel'.items[h].owner \/ server'[sel'.items[h].owner] = h
    <3>1. CASE h = f
      <4>1. sel'.items[h].owner = o
        BY <1>0, <2>3, <3>1 DEF Used, g
      <4>2. Client(o, c)'
        BY <1>6
      <4> QED BY <1>2, <3>1, <4>1, <4>2 DEF Client
    <3>2. CASE h # f
      <4>1. Used(sel, h) /\ h # server[o]
        BY <1>4, <2>3, <3>2
      <4>2. /\ sel.items[h].owner \in Gen
            /\ \E d \in Fd : Client(sel.items[h].owner, d)
            /\ sel.items[h].gen = sel.items[h].owner \/ server[sel.items[h].owner] = h
        BY <4>1 DEF TableInv, Owners
      <4>3. sel'.items[h].owner = sel.items[h].owner /\ sel'.items[h].gen = sel.items[h].gen
        BY <1>p, <3>2, <4>1
      <4>4. \E d \in Fd : sel'.items[d].gen = sel.items[h].owner
                          /\ sel'.items[d].owner = sel.items[h].owner
        BY <1>6, <4>2 DEF Client
      <4> QED BY <1>2, <4>1, <4>2, <4>3, <4>4 DEF Client
    <3> QED BY <3>1, <3>2
  <2>4. ASSUME NEW p \in Gen, server'[p] # None
        PROVE  /\ \E d \in Fd : Client(p, d)'
               /\ p # Passive /\ server'[p] \in open'
               /\ Used(sel', server'[p]) => /\ sel'.items[server'[p]].owner = p
                                            /\ sel'.items[server'[p]].gen # p
    <3>1. CASE p = o
      <4>1. Client(o, c)' /\ server'[p] = f
        BY <1>2, <1>6, <3>1
      <4>2. Used(sel', f) => sel'.items[f].owner = o /\ sel'.items[f].gen = g /\ g # 0
        BY <1>0 DEF Used, g
      <4>3. o <= gens
        BY ClientFacts DEF Client, TableInv, Owners
      <4>4. f \in open' /\ o \in Nat
        BY <1>0, <1>1
      <4> QED BY <1>1, <3>1, <4>1, <4>2, <4>3, <4>4 DEF Client
    <3>2. CASE p # o
      <4>1. server'[p] = server[p] /\ server[p] # None /\ server[p] \in Fd
        BY <1>2, <2>4, <3>2 DEF TableInv
      <4>2. /\ server[p] # server[o] /\ server[p] \in open
            /\ p # Passive /\ \E d \in Fd : Client(p, d)
            /\ Used(sel, server[p]) => /\ sel.items[server[p]].owner = p
                                       /\ sel.items[server[p]].gen # p
        BY <3>2, <4>1 DEF TableInv, Owners
      <4>3. server[p] \in Kept(o) /\ server[p] # f
        BY <1>0, <4>2 DEF Kept
      <4>4. /\ sel'.items[server[p]].gen = sel.items[server[p]].gen
            /\ sel'.items[server[p]].owner = sel.items[server[p]].owner
        BY <1>p, <4>1, <4>2, <4>3
      <4>5. server[p] \in open' /\ \E d \in Fd : Client(p, d)'
        BY <1>0, <1>6, <4>2, <4>3
      <4> QED BY <4>1, <4>2, <4>4, <4>5 DEF Used
    <3> QED BY <3>1, <3>2
  <2>5. ASSUME NEW p \in Gen, NEW q \in Gen, server'[p] # None, server'[p] = server'[q]
        PROVE  p = q
    <3>1. \A x \in Gen : x # o /\ server[x] # None => server[x] # f
      BY <1>0 DEF TableInv, Owners, Kept
    <3> QED BY <1>1, <1>2, <2>5, <3>1 DEF TableInv, Owners
  <2>6. \A h \in Fd : Used(sel', h) => \E d \in Fd : /\ sel'.items[d].gen = sel'.items[h].owner
                                                    /\ sel'.items[d].owner = sel'.items[h].owner
    <3> SUFFICES ASSUME NEW h \in Fd, Used(sel', h)
                 PROVE  \E d \in Fd : /\ sel'.items[d].gen = sel'.items[h].owner
                                      /\ sel'.items[d].owner = sel'.items[h].owner
      OBVIOUS
    <3> QED BY <2>3 DEF Client
  <2> QED BY <2>1, <2>2, <2>3, <2>4, <2>5, <2>6 DEF Owners, Client
<1>9. OpenIsOwned'
  <2>1. ASSUME NEW h \in open', ~Used(sel', h)
        PROVE  \E p \in Gen : Live(p)' /\ server'[p] = h
    <3>1. CASE h = f
      BY <1>2, <1>6, <3>1 DEF Live, Client
    <3>2. CASE h # f
      <4>1. h \in open /\ h \in Fd /\ h # server[o]
        BY <1>0, <2>1, <3>2 DEF Kept, TableInv
      <4>2. ~Used(sel, h)
        BY <1>p, <2>1, <3>2, <4>1 DEF Used
      <4>3. PICK p \in Gen : server[p] = h
        BY <4>1, <4>2 DEF TableInv, OpenIsOwned
      <4>4. h # None /\ p # o
        BY <4>1, <4>3, GenFacts
      <4>5. \E d \in Fd : Client(p, d)'
        BY <1>6, <4>3, <4>4 DEF TableInv, Owners
      <4> QED BY <1>2, <4>3, <4>4, <4>5 DEF Live, Client
    <3> QED BY <3>1, <3>2
  <2> QED BY <1>4, <2>1 DEF OpenIsOwned
<1>10. OthersKept(o)
  BY <1>2, <1>7, <1>p DEF OthersKept
<1>11. open' \subseteq Fd /\ server' \in [Gen -> Fd \cup {None}]
  BY <1>0 DEF TableInv, Kept
<1> QED BY <1>0, <1>1, <1>8, <1>9, <1>10, <1>11 DEF TableInv, SetsFollowItems

LEMMA ConnectsKeeps ==
  ASSUME TableInv, NEW o \in Gen, o # Passive, NEW c \in Fd, Client(o, c), Connects(o, c)
  PROVE  TableInv' /\ OthersKept(o)
<1>1. PICK f \in Fd :
        /\ f \notin Kept(o) /\ ~Refused(Left(o), f)
        /\ sel' = SetInterest(Register(Left(o), f, gens + 1, o, {"w"}), c, {})
        /\ open' = Kept(o) \cup {f}
        /\ server' = [server EXCEPT ![o] = f]
  BY DEF Connects, Given
<1> DEFINE L == Left(o)
           S == Register(L, f, gens + 1, o, {"w"})
<1>2. gens + 1 \in Gen /\ gens' = gens + 1 /\ gens + 1 # 0
  BY SelectorAssumption DEF Connects, TableInv, Gen
<1>3. {"w"} \in Interests /\ {} \in Interests
  BY DEF Interests
<1>4. ~Used(L, f)
  BY <1>1 DEF Refused
<1>5. /\ L \in FdSelector /\ SetsAgree(L)
      /\ \A h \in Fd : L.items[h] = IF h = server[o] THEN Unused ELSE sel.items[h]
  BY LeftFacts
<1>6. sel' = SetInterest(S, c, {})
  BY <1>1
<1> HIDE DEF L
<1>7. /\ S \in FdSelector /\ SetsAgree(S)
      /\ S.items = [L.items EXCEPT ![f] =
                      [gen |-> gens + 1, owner |-> o, interest |-> {"w"}]]
  <2>1. \A g \in Gen : \A i \in Interests :
          LET R == Register(L, f, g, o, i)
          IN /\ R \in FdSelector /\ SetsAgree(R)
             /\ R.items = [L.items EXCEPT ![f] = [gen |-> g, owner |-> o, interest |-> i]]
    BY <1>4, <1>5, RegisterKeeps
  <2> QED BY <1>2, <1>3, <2>1
<1>8. L.items \in [Fd -> Item]
  BY <1>5 DEF FdSelector
<1> HIDE DEF S
<1>9. \A h \in Fd : S.items[h] = IF h = f
                      THEN [gen |-> gens + 1, owner |-> o, interest |-> {"w"}]
                      ELSE L.items[h]
  BY <1>7, <1>8
<1>10. /\ sel' \in FdSelector /\ SetsAgree(sel')
       /\ \A h \in Fd : /\ sel'.items[h].gen = S.items[h].gen
                        /\ sel'.items[h].owner = S.items[h].owner
                        /\ h # c => sel'.items[h] = S.items[h]
  <2> DEFINE T == SetInterest(S, c, {})
  <2>1. /\ T \in FdSelector /\ SetsAgree(T)
        /\ \A h \in Fd : /\ T.items[h].gen = S.items[h].gen
                         /\ T.items[h].owner = S.items[h].owner
                         /\ h # c => T.items[h] = S.items[h]
    <3>1. {} \in Interests
      BY DEF Interests
    <3>2. S \in FdSelector /\ SetsAgree(S)
      BY <1>7
    <3> QED BY <3>1, <3>2, SetInterestKeeps
  <2> QED BY <1>6, <2>1
<1>11. NewServer(o, c, f)
  BY <1>1, <1>2, <1>5, <1>9, <1>10, UnusedFacts DEF NewServer
<1> QED BY <1>11, NewServerKeeps

LEMMA ConnectFailsKeeps ==
  ASSUME TableInv, NEW o \in Gen, o # Passive, NEW c \in Fd, Client(o, c), ConnectFails(o, c)
  PROVE  TableInv' /\ OthersKept(o)
<1>1. PICK f \in Fd :
        /\ f \notin Kept(o)
        /\ sel' = SetInterest(Left(o), c, {"w"})
        /\ open' = Kept(o) \cup {f}
        /\ server' = [server EXCEPT ![o] = f]
  BY DEF ConnectFails, Given
<1>2. {"w"} \in Interests
  BY DEF Interests
<1>3. /\ sel' \in FdSelector /\ SetsAgree(sel')
      /\ \A h \in Fd : /\ sel'.items[h].gen = Left(o).items[h].gen
                       /\ sel'.items[h].owner = Left(o).items[h].owner
                       /\ h # c => sel'.items[h] = Left(o).items[h]
  BY <1>1, <1>2, LeftFacts, SetInterestKeeps
<1>4. f # server[o] => sel.items[f].gen = 0
  BY <1>1 DEF Kept, TableInv, OpenIsOwned, Used
<1>5. gens' = gens
  BY DEF ConnectFails
<1>6. sel'.items[f].gen = 0
  BY <1>3, <1>4, LeftFacts, UnusedFacts
<1>7. NewServer(o, c, f)
  BY <1>1, <1>3, <1>5, <1>6, LeftFacts, UnusedFacts DEF NewServer
<1> QED BY <1>7, NewServerKeeps

LEMMA SessionStepKeeps ==
  ASSUME TableInv, NEW o \in Gen, o # Passive, NEW c \in Fd, Client(o, c), SessionStep(o, c)
  PROVE  TableInv' /\ OthersKept(o)
  BY SetsInterestsKeeps, ClosesKeeps, ConnectsKeeps, ConnectFailsKeeps DEF SessionStep

(* A new client's descriptor was free in the table and in the kernel. *)
LEMMA AcceptsKeeps ==
  ASSUME TableInv, Accepts
  PROVE  /\ TableInv' /\ server' = server
         /\ \A f \in Fd : Used(sel, f) => sel'.items[f] = sel.items[f]
<1>1. CASE UNCHANGED table
  BY <1>1 DEF table, TableInv, SetsFollowItems, Owners, OpenIsOwned, Client, Live
<1>2. CASE ~UNCHANGED table
  <2>1. PICK f \in Fd :
          /\ f \notin open /\ ~Used(sel, f)
          /\ sel' = Register(sel, f, gens + 1, gens + 1, {"r"})
          /\ open' = open \cup {f}
    BY <1>2 DEF Accepts, Given, Refused
  <2>2. gens' = gens + 1 /\ server' = server /\ gens' \in Gen /\ gens \in Nat
    BY <1>2, SelectorAssumption DEF Accepts, TableInv, Gen
  <2>3. {"r"} \in Interests
    BY DEF Interests
  <2> DEFINE it == [gen |-> gens', owner |-> gens', interest |-> {"r"}]
  <2>4. /\ sel' \in FdSelector /\ SetsAgree(sel')
        /\ sel'.items = [sel.items EXCEPT ![f] = it]
    <3> DEFINE R == Register(sel, f, gens + 1, gens + 1, {"r"})
    <3>1. gens + 1 \in Gen /\ it = [gen |-> gens + 1, owner |-> gens + 1, interest |-> {"r"}]
      BY <2>2
    <3>2. /\ R \in FdSelector /\ SetsAgree(R)
          /\ R.items = [sel.items EXCEPT ![f] =
                          [gen |-> gens + 1, owner |-> gens + 1, interest |-> {"r"}]]
      <4>1. sel \in FdSelector /\ SetsAgree(sel)
        BY DEF TableInv, SetsFollowItems
      <4>2. ~Used(sel, f)
        BY <2>1
      <4> QED BY <2>3, <3>1, <4>1, <4>2, RegisterKeeps
    <3> QED BY <2>1, <3>1, <3>2
  <2>5. sel.items \in [Fd -> Item]
    BY DEF TableInv, FdSelector
  <2>6. it.gen = gens' /\ it.owner = gens'
    OBVIOUS
  <2> HIDE DEF it
  <2>7. sel'.items[f] = it /\ \A h \in Fd : h # f => sel'.items[h] = sel.items[h]
    BY <2>4, <2>5
  <2>8. \A h \in Fd : sel.items[h].gen \in Nat
    BY <2>5, SelectorAssumption DEF Item
  <2>9. \A h \in Fd : h # f => (Used(sel', h) <=> Used(sel, h))
    BY <2>7 DEF Used
  <2>10. \A p \in Gen, h \in Fd : Client(p, h) => Client(p, h)'
    <3>1. \A p \in Gen, h \in Fd : Client(p, h) => h # f
      BY <2>1, ClientFacts
    <3> QED BY <2>7, <3>1 DEF Client
  <2>11. Client(sel.items[f].owner, f)'
    BY <2>6, <2>7 DEF Client
  <2>12. Owners'
    <3>1. \A h \in Fd : Used(sel', h) => sel'.items[h].gen <= gens' /\ sel'.items[h].owner \in Gen
      <4>1. \A h \in Fd : Used(sel, h) => sel.items[h].gen <= gens /\ sel.items[h].owner \in Gen
        BY DEF TableInv, Owners
      <4> QED BY <2>2, <2>6, <2>7, <2>8, <2>9, <4>1
    <3>2. \A h, k \in Fd : Used(sel', h) /\ sel'.items[h].gen = sel'.items[k].gen => h = k
      <4>1. \A h \in Fd : h # f => sel'.items[h].gen # gens'
        BY <2>2, <2>7, <2>8 DEF TableInv, Owners, Used
      <4> QED BY <2>6, <2>7, <2>9, <4>1 DEF TableInv, Owners
    <3>3. \A h \in Fd : Used(sel', h) =>
            /\ \E c \in Fd : Client(sel.items[h].owner, c)'
            /\ sel'.items[h].gen = sel'.items[h].owner \/ server'[sel'.items[h].owner] = h
      <4> SUFFICES ASSUME NEW h \in Fd, Used(sel', h)
                   PROVE  /\ \E c \in Fd : Client(sel.items[h].owner, c)'
                          /\ \/ sel'.items[h].gen = sel'.items[h].owner
                             \/ server'[sel'.items[h].owner] = h
        OBVIOUS
      <4>1. CASE h = f
        BY <2>6, <2>7, <2>11, <4>1
      <4>2. CASE h # f
        <5>1. /\ sel.items[h].owner \in Gen
              /\ \E c \in Fd : Client(sel.items[h].owner, c)
              /\ sel.items[h].gen = sel.items[h].owner \/ server[sel.items[h].owner] = h
          BY <2>9, <4>2 DEF TableInv, Owners
        <5>2. \E c \in Fd : sel'.items[c].gen = sel.items[h].owner
                            /\ sel'.items[c].owner = sel.items[h].owner
          BY <2>10, <5>1 DEF Client
        <5>3. sel'.items[h] = sel.items[h]
          BY <2>7, <4>2
        <5> QED BY <2>2, <5>1, <5>2, <5>3 DEF Client
      <4> QED BY <4>1, <4>2
    <3>4. ASSUME NEW o \in Gen, server'[o] # None
          PROVE  /\ \E c \in Fd : Client(o, c)'
                 /\ o # Passive /\ server'[o] \in open'
                 /\ Used(sel', server'[o]) => /\ sel'.items[server'[o]].owner = o
                                              /\ sel'.items[server'[o]].gen # o
      <4>1. /\ \E c \in Fd : Client(o, c)
            /\ o # Passive /\ server[o] \in open
            /\ Used(sel, server[o]) => /\ sel.items[server[o]].owner = o
                                       /\ sel.items[server[o]].gen # o
            /\ server[o] \in Fd
        BY <2>2, <3>4 DEF TableInv, Owners
      <4>2. server[o] # f
        BY <2>1, <4>1
      <4> QED BY <2>1, <2>2, <2>7, <2>9, <2>10, <4>1, <4>2
    <3>5. \A o, p \in Gen : server'[o] # None /\ server'[o] = server'[p] => o = p
      BY <2>2 DEF TableInv, Owners
    <3> QED BY <3>1, <3>2, <3>3, <3>4, <3>5 DEF Owners, Client
  <2>13. OpenIsOwned'
    <3>1. ASSUME NEW h \in open', ~Used(sel', h)
          PROVE  \E o \in Gen : Live(o)' /\ server'[o] = h
      <4>1. gens' # 0
        BY <2>2
      <4>2. h # f
        BY <2>6, <2>7, <3>1, <4>1 DEF Used
      <4>3. h \in open /\ h \in Fd /\ ~Used(sel, h)
        BY <2>1, <2>9, <3>1, <4>2 DEF TableInv
      <4>4. PICK o \in Gen : server[o] = h
        BY <4>3 DEF TableInv, OpenIsOwned
      <4>5. \E c \in Fd : Client(o, c)'
        BY <2>10, <4>3, <4>4, GenFacts DEF TableInv, Owners
      <4> QED BY <2>2, <4>4, <4>5 DEF Live, Client
    <3>2. \A h \in Fd : Used(sel', h) => h \in open'
      BY <2>1, <2>9 DEF TableInv, OpenIsOwned
    <3> QED BY <3>1, <3>2 DEF OpenIsOwned
  <2>14. \A h \in Fd : Used(sel, h) => sel'.items[h] = sel.items[h]
    BY <2>1, <2>7
  <2>15. open' \subseteq Fd
    BY <2>1 DEF TableInv
  <2> QED BY <2>2, <2>4, <2>12, <2>13, <2>14, <2>15 DEF TableInv, SetsFollowItems
<1> QED BY <1>1, <1>2

-----------------------------------------------------------------------------
(* Jobs and the sessions that wait for them. *)

LEMMA FrontFacts ==
  ASSUME NEW s \in Seq(Job), NEW j \in Job
  PROVE  /\ <<j>> \o s \in Seq(Job)
         /\ 1 \in DOMAIN (<<j>> \o s) /\ (<<j>> \o s)[1] = j
         /\ \A i \in DOMAIN s : i + 1 \in DOMAIN (<<j>> \o s) /\ (<<j>> \o s)[i + 1] = s[i]
         /\ \A i \in DOMAIN (<<j>> \o s) :
              i = 1 \/ (i - 1 \in DOMAIN s /\ (<<j>> \o s)[i] = s[i - 1])
  OBVIOUS

LEMMA TailFacts ==
  ASSUME NEW s \in Seq(Job), s # <<>>
  PROVE  /\ Tail(s) \in Seq(Job) /\ Head(s) = s[1] /\ 1 \in DOMAIN s /\ s[1] \in Job
         /\ \A i \in DOMAIN Tail(s) : i + 1 \in DOMAIN s /\ Tail(s)[i] = s[i + 1] /\ i + 1 # 1
         /\ \A i \in DOMAIN s : i = 1 \/ (i - 1 \in DOMAIN Tail(s) /\ Tail(s)[i - 1] = s[i])
  OBVIOUS

(* A session that waits has its client only, and no interest. *)
WaitersQuiet ==
  \A o \in resolving :
    /\ o # Passive /\ server[o] = None
    /\ \E c \in Fd : Client(o, c) /\ sel.items[c].interest = {}

JobsInv == WaitersQuiet /\ JobForAsker /\ JobOnce

LEMMA WaitingType == ASSUME TypeOK PROVE Waiting \in Seq(Job)
  BY DEF TypeOK, Waiting

(* A step that leaves the waiting sessions and their jobs keeps the invariant. *)
LEMMA JobsKept ==
  ASSUME TypeOK, JobsInv, Waiting' = Waiting, resolving' = resolving,
         \A o \in Gen : Looking(o)' = Looking(o),
         \A l \in lookups' : l.state = "looking" => l \in lookups,
         \A f \in Fd : sel.items[f].gen \in resolving => sel'.items[f] = sel.items[f],
         \A o \in resolving : server'[o] = server[o]
  PROVE  JobsInv'
<1>1. \A g : \A f \in Fd : sel.items[f].gen = g /\ g \in resolving => sel'.items[f].gen = g
  OBVIOUS
<1>2. \A i \in DOMAIN Waiting : Waiting[i] \in Job
  BY WaitingType
<1>3. WaitersQuiet'
  <2> SUFFICES ASSUME NEW o \in resolving
               PROVE  /\ o # Passive /\ server'[o] = None
                      /\ \E c \in Fd : Client(o, c)' /\ sel'.items[c].interest = {}
    BY DEF WaitersQuiet
  <2>1. PICK c \in Fd : Client(o, c) /\ sel.items[c].interest = {}
    BY DEF JobsInv, WaitersQuiet
  <2>2. sel'.items[c] = sel.items[c]
    BY <2>1 DEF Client
  <2> QED BY <2>1, <2>2 DEF JobsInv, WaitersQuiet, Client
<1>4. JobForAsker'
  <2>1. ASSUME NEW i \in DOMAIN Waiting' PROVE Asks(Waiting[i])'
    BY <1>1, <1>2 DEF JobsInv, JobForAsker, Asks, Job
  <2>2. ASSUME NEW l \in lookups', l.state = "looking" PROVE Asks(l)'
    <3>1. l \in lookups
      BY <2>2
    <3>2. l.fd \in Fd
      BY <3>1 DEF TypeOK
    <3> QED BY <1>1, <2>2, <3>1, <3>2 DEF JobsInv, JobForAsker, Asks
  <2> QED BY <2>1, <2>2 DEF JobForAsker
<1>5. resolving \subseteq Gen
  BY DEF TypeOK
<1>6. JobOnce'
  BY <1>5 DEF JobsInv, JobOnce, JobsOf
<1> QED BY <1>3, <1>4, <1>6 DEF JobsInv

(* The handlers run for the client the session has. *)
LEMMA ClientOf ==
  ASSUME TableInv, NEW f \in Fd, Used(sel, f), NEW c \in Fd,
         sel.items[c].gen = sel.items[f].owner
  PROVE  sel.items[f].owner \in Gen /\ Client(sel.items[f].owner, c)
<1>1. /\ sel.items[f].owner \in Gen
      /\ \E d \in Fd : Client(sel.items[f].owner, d)
  BY DEF TableInv, Owners
<1>2. Used(sel, c)
  BY <1>1, GenFacts DEF Used
<1> QED BY <1>1, <1>2 DEF TableInv, Owners, Client

(* What is kept of the sessions that wait when another one steps. *)
LEMMA OthersWait ==
  ASSUME TableInv, WaitersQuiet, resolving \subseteq Gen, NEW o \in Gen, OthersKept(o)
  PROVE  /\ \A f \in Fd : sel.items[f].gen \in resolving \ {o} => sel'.items[f] = sel.items[f]
         /\ \A p \in resolving \ {o} : server'[p] = server[p]
<1>1. ASSUME NEW f \in Fd, sel.items[f].gen \in resolving \ {o}
      PROVE  sel'.items[f] = sel.items[f]
  <2>1. PICK d \in Fd : Client(sel.items[f].gen, d)
    BY <1>1 DEF WaitersQuiet
  <2>2. Used(sel, f)
    BY <1>1, GenFacts DEF Used
  <2>3. d = f
    BY <2>1, <2>2 DEF Client, TableInv, Owners
  <2> QED BY <1>1, <2>1, <2>2, <2>3 DEF Client, OthersKept
<1> QED BY <1>1 DEF OthersKept

-----------------------------------------------------------------------------
(* The inductive invariant. *)

WakeUp ==
  pc \in {"loop", "select"} /\ jobs # <<>> => signal \/ \E l \in lookups : l.state = "pushed"
Reach ==
  pc = "iterate" => slave.r \cup slave.w \subseteq 0..last /\ at \in 0..last

SelInv == TypeOK /\ TableInv /\ JobsInv /\ WakeUp /\ Reach

LEMMA InitInv == ASSUME Init PROVE SelInv
<1>1. sel.items \in [Fd -> Item] /\ {"r"} \in Interests /\ {} \in Interests
  BY SelectorAssumption, UnusedFacts, FdFacts DEF Init, Item, Interests, Passive
<1>2. sel.items[0] = [gen |-> Passive, owner |-> Passive, interest |-> {"r"}]
      /\ \A f \in Fd : f # 0 => sel.items[f] = Unused
  BY FdFacts DEF Init
<1>3. sel \in FdSelector /\ sel.r = {0} /\ sel.w = {} /\ sel.maxFd = 0
  BY <1>1, FdFacts DEF Init, FdSelector
<1>4. \A f \in Fd : Used(sel, f) <=> f = 0
  BY <1>2, UnusedFacts, FdFacts DEF Used, Passive
<1>5. SetsFollowItems
  BY <1>2, <1>3, <1>4, UnusedFacts, FdFacts DEF SetsFollowItems, SetsAgree
<1>6. Client(Passive, 0)
  BY <1>2 DEF Client
<1>7. gens = Passive /\ server \in [Gen -> Fd \cup {None}] /\ \A o \in Gen : server[o] = None
  BY DEF Init, Passive
<1>8. Owners
  <2>1. \A f \in Fd : Used(sel, f) => f = 0 /\ sel.items[f].gen = Passive
                                   /\ sel.items[f].owner = Passive
    BY <1>2, <1>4
  <2>2. gens \in Nat /\ Passive <= gens
    BY <1>7, GenFacts
  <2>3. \A f, g \in Fd : Used(sel, f) /\ sel.items[f].gen = sel.items[g].gen => f = g
    BY <1>4 DEF Used
  <2> QED BY <1>6, <1>7, <2>1, <2>2, <2>3, GenFacts, FdFacts DEF Owners
<1>9. OpenIsOwned
  BY <1>4, FdFacts DEF OpenIsOwned, Init
<1>10. TypeOK
  <2>1. NoEvents \in [r : SUBSET Fd, w : SUBSET Fd] /\ <<>> \in Seq(Job)
    BY DEF NoEvents
  <2> QED BY <1>3, <1>7, <2>1, FdFacts, GenFacts DEF TypeOK, Init
<1>11. JobsInv
  BY DEF JobsInv, WaitersQuiet, JobForAsker, JobOnce, Waiting, Init
<1> QED BY <1>3, <1>5, <1>7, <1>8, <1>9, <1>10, <1>11, GenFacts, FdFacts
        DEF SelInv, TableInv, WakeUp, Reach, Init

(* The steps that leave the table, and the sessions that wait, alone. *)
LEMMA TableSame ==
  ASSUME TableInv, UNCHANGED table
  PROVE  TableInv'
  BY DEF table, TableInv, SetsFollowItems, Owners, OpenIsOwned, Client, Live

LEMMA WaitSame ==
  ASSUME SelInv, UNCHANGED <<table, lookups, resolving>>, Waiting' = Waiting
  PROVE  TableInv' /\ JobsInv'
<1>1. TableInv'
  BY TableSame DEF SelInv
<1>2. \A o \in Gen : Looking(o)' = Looking(o)
  BY DEF Looking
<1>3. JobsInv'
  BY <1>2, JobsKept DEF SelInv, table
<1> QED BY <1>1, <1>3

LEMMA LoopKeeps == ASSUME SelInv, Loop PROVE SelInv'
<1>1. Waiting' = Waiting
  BY DEF Loop, threads, Waiting
<1>2. TableInv' /\ JobsInv'
  BY <1>1, WaitSame DEF Loop, threads
<1>3. TypeOK' /\ WakeUp' /\ Reach'
  BY DEF SelInv, Loop, TypeOK, WakeUp, Reach, table, threads, iteration
<1> QED BY <1>2, <1>3 DEF SelInv

LEMMA SelectKeeps == ASSUME SelInv, Select PROVE SelInv'
<1>1. Waiting' = Waiting
  BY DEF Select, Waiting
<1>2. TableInv' /\ JobsInv'
  BY <1>1, WaitSame DEF Select
<1>3. PICK r \in SUBSET sel.r, w \in SUBSET sel.w :
        /\ slave' = [r |-> r, w |-> w]
        /\ reported' = {<<f, sel.items[f].gen>> : f \in r \cup w}
  BY DEF Select
<1>4. /\ sel.r = {f \in Fd : "r" \in sel.items[f].interest}
      /\ sel.w = {f \in Fd : "w" \in sel.items[f].interest}
      /\ \A f \in Fd : Used(sel, f) => f <= sel.maxFd
      /\ \A f \in Fd : ~Used(sel, f) => sel.items[f] = Unused
      /\ sel.maxFd \in Fd /\ gens \in Gen
      /\ \A f \in Fd : Used(sel, f) => sel.items[f].gen <= gens
      /\ sel.items \in [Fd -> Item]
  BY DEF SelInv, TableInv, SetsFollowItems, SetsAgree, Owners, FdSelector
<1>5. \A f \in r \cup w : f \in Fd /\ Used(sel, f)
  BY <1>4, UnusedFacts
<1>6. \A f \in r \cup w : sel.items[f].gen \in Gen
  BY <1>4, <1>5, SelectorAssumption DEF Used, Item, Gen
<1>7. sel.maxFd \in Nat /\ r \cup w \subseteq 0..sel.maxFd
  BY <1>4, <1>5, FdFacts
<1>8. slave' \in [r : SUBSET Fd, w : SUBSET Fd] /\ reported' \subseteq Fd \X Gen
  BY <1>3, <1>5, <1>6
<1>9. TypeOK'
  BY <1>4, <1>8, FdFacts DEF SelInv, Select, TypeOK, table
<1>10. Reach'
  BY <1>3, <1>7 DEF Select, Reach
<1>11. WakeUp'
  BY DEF Select, WakeUp
<1> QED BY <1>2, <1>9, <1>10, <1>11 DEF SelInv

LEMMA InterruptedKeeps == ASSUME SelInv, Interrupted PROVE SelInv'
<1>1. Waiting' = Waiting
  BY DEF Interrupted, Waiting
<1>2. TableInv' /\ JobsInv'
  BY <1>1, WaitSame DEF Interrupted
<1>3. TypeOK' /\ WakeUp' /\ Reach'
  BY DEF SelInv, Interrupted, TypeOK, WakeUp, Reach, table, iteration
<1> QED BY <1>2, <1>3 DEF SelInv

LEMMA TerminateKeeps == ASSUME SelInv, Terminate PROVE SelInv'
<1>1. Waiting' = Waiting
  BY DEF Terminate, Waiting, threads
<1>2. TableInv' /\ JobsInv'
  BY <1>1, WaitSame DEF Terminate, threads
<1>3. TypeOK' /\ WakeUp' /\ Reach'
  BY DEF SelInv, Terminate, TypeOK, WakeUp, Reach, table, iteration, threads
<1> QED BY <1>2, <1>3 DEF SelInv

LEMMA LockKeeps == ASSUME SelInv, Lock PROVE SelInv'
<1>1. Waiting' = Waiting
  BY DEF Lock, Waiting
<1>2. TableInv' /\ JobsInv'
  BY <1>1, WaitSame DEF Lock
<1>3. TypeOK' /\ WakeUp' /\ Reach'
  BY DEF SelInv, Lock, TypeOK, WakeUp, Reach, table, iteration
<1> QED BY <1>2, <1>3 DEF SelInv

LEMMA UnlockKeeps == ASSUME SelInv, Unlock PROVE SelInv'
<1>1. Waiting' = Waiting
  BY DEF Unlock, Waiting
<1>2. TableInv' /\ JobsInv'
  BY <1>1, WaitSame DEF Unlock
<1>3. TypeOK' /\ WakeUp' /\ Reach'
  BY DEF SelInv, Unlock, TypeOK, WakeUp, Reach, table, iteration
<1> QED BY <1>2, <1>3 DEF SelInv

(* One place of handle_iteration's loops further. *)
LEMMA AdvanceKeeps ==
  ASSUME TypeOK, Reach, pc = "iterate", Advance
  PROVE  /\ Reach' /\ pc' \in {"iterate", "lock"}
         /\ at' \in Fd /\ event' \in {"r", "w"} /\ last' \in Fd
         /\ slave' \in [r : SUBSET Fd, w : SUBSET Fd] /\ reported' \subseteq Fd \X Gen
<1>1. at \in 0..last /\ last \in Nat /\ at \in Nat /\ Kernel \in Nat /\ last <= Kernel
  BY FdFacts DEF TypeOK, Reach, Fd
<1>2. ~AtLast => at + 1 \in 0..last /\ at + 1 \in Fd
  BY <1>1 DEF AtLast, Fd
<1>3. NoEvents \in [r : SUBSET Fd, w : SUBSET Fd]
  BY DEF NoEvents
<1> QED BY <1>1, <1>2, <1>3, FdFacts DEF Advance, TypeOK, Reach

LEMMA NoEventKeeps == ASSUME SelInv, NoEvent PROVE SelInv'
<1>0. TypeOK /\ Reach /\ pc = "iterate" /\ Advance
  BY DEF SelInv, NoEvent
<1>1. Waiting' = Waiting
  BY <1>0, AdvanceKeeps DEF NoEvent, Waiting, threads
<1>2. TableInv' /\ JobsInv'
  BY <1>1, WaitSame DEF NoEvent, threads
<1>3. TypeOK' /\ WakeUp' /\ Reach'
  BY <1>0, AdvanceKeeps DEF NoEvent, TypeOK, WakeUp, table, threads
<1> QED BY <1>2, <1>3 DEF SelInv

(* A session whose event is delivered does not wait for a lookup. *)
LEMMA DeliveredNotWaiting ==
  ASSUME SelInv, Deliverable
  PROVE  /\ Used(sel, at) /\ at \in Fd /\ Owner \in Gen /\ Owner \notin resolving
         /\ \A c \in Fd : sel.items[c].gen = Owner => Client(Owner, c)
<1>1. Used(sel, at) /\ at \in Fd /\ TableInv /\ sel.items[at].interest # {}
  BY DEF SelInv, Deliverable, TypeOK
<1>2. Owner \in Gen /\ \A c \in Fd : sel.items[c].gen = Owner => Client(Owner, c)
  BY <1>1, ClientOf DEF Owner, TableInv, Owners
<1>3. ASSUME Owner \in resolving PROVE FALSE
  <2>1. PICK c \in Fd : Client(Owner, c) /\ sel.items[c].interest = {}
    BY <1>3 DEF SelInv, JobsInv, WaitersQuiet
  <2>2. server[Owner] = None
    BY <1>3 DEF SelInv, JobsInv, WaitersQuiet
  <2>3. at = c \/ at = None
    BY <1>1, <1>2, <2>1, <2>2, ClientFacts DEF Owner
  <2> QED BY <1>1, <2>1, <2>3, GenFacts
<1> QED BY <1>1, <1>2, <1>3

(* A session starts a lookup: it had no job, and its client has no interest. *)
LEMMA LooksUpKeeps ==
  ASSUME SelInv, NEW o \in Gen, o # Passive, o \notin resolving, NEW c \in Fd, Client(o, c),
         LooksUp(o, c), Waiting' = Waiting
  PROVE  /\ TableInv' /\ JobsInv' /\ resolving' \subseteq Gen
         /\ lookups' \subseteq [fd : Fd, gen : Gen, state : {"looking", "pushed"}]
         /\ lookups \subseteq lookups'
<1> DEFINE l == [fd |-> c, gen |-> o, state |-> "looking"]
<1>1. /\ TableInv /\ SetsInterests(o, c) /\ server' = server
      /\ resolving' = resolving \cup {o} /\ lookups' = lookups \cup {l}
      /\ resolving \subseteq Gen /\ WaitersQuiet
  BY DEF LooksUp, SetsInterests, Interests, SelInv, TypeOK, JobsInv
<1>2. TableInv' /\ OthersKept(o)
  BY <1>1, SetsInterestsKeeps
<1>3. sel'.items[c].gen = o /\ sel'.items[c].owner = o /\ sel'.items[c].interest = {}
  <2>1. sel' = SetInterest(sel, c, {}) /\ {} \in Interests
    BY DEF LooksUp, Interests
  <2>2. sel \in FdSelector /\ SetsAgree(sel) /\ Used(sel, c)
    BY <1>1, ClientFacts DEF TableInv, SetsFollowItems
  <2>3. /\ SetInterest(sel, c, {}).items[c].gen = sel.items[c].gen
        /\ SetInterest(sel, c, {}).items[c].owner = sel.items[c].owner
        /\ SetInterest(sel, c, {}).items[c].interest = {}
    BY <2>1, <2>2, SetInterestKeeps
  <2> QED BY <2>1, <2>3 DEF Client
<1>4. \A f \in Fd : sel.items[f].gen \in resolving => sel'.items[f] = sel.items[f]
  BY <1>1, <1>2, OthersWait
<1>5. WaitersQuiet'
  <2> SUFFICES ASSUME NEW p \in resolving'
               PROVE  /\ p # Passive /\ server'[p] = None
                      /\ \E d \in Fd : Client(p, d)' /\ sel'.items[d].interest = {}
    BY DEF WaitersQuiet
  <2>1. CASE p = o
    BY <1>1, <1>3, <2>1 DEF Client, LooksUp
  <2>2. CASE p # o
    <3>1. p \in resolving
      BY <1>1, <2>2
    <3>2. PICK d \in Fd : Client(p, d) /\ sel.items[d].interest = {}
      BY <1>1, <3>1 DEF WaitersQuiet
    <3>3. sel'.items[d] = sel.items[d]
      BY <1>4, <3>1, <3>2 DEF Client
    <3> QED BY <1>1, <3>1, <3>2, <3>3 DEF WaitersQuiet, Client
  <2> QED BY <2>1, <2>2
<1>6. \A i \in DOMAIN Waiting : Waiting[i] \in Job /\ Asks(Waiting[i])
  BY WaitingType DEF SelInv, JobsInv, JobForAsker
<1>7. \A k \in lookups : k.state = "looking" => Asks(k) /\ k.fd \in Fd
  BY DEF SelInv, JobsInv, JobForAsker, TypeOK
<1>8. JobForAsker'
  <2>1. \A i \in DOMAIN Waiting' : Asks(Waiting[i])'
    BY <1>1, <1>4, <1>6 DEF Asks, Job
  <2>2. \A k \in lookups' : k.state = "looking" => Asks(k)'
    BY <1>1, <1>3, <1>4, <1>7 DEF Asks
  <2> QED BY <2>1, <2>2 DEF JobForAsker
<1>9. Looking(o) = {} /\ JobsOf(o) = {}
  BY <1>6, <1>7 DEF Looking, JobsOf, Asks
<1>10. Looking(o)' # {} /\ \A p \in Gen : p # o => Looking(p)' = Looking(p)
  <2>1. l \in Looking(o)'
    BY <1>1 DEF Looking
  <2>2. ASSUME NEW p \in Gen, p # o PROVE Looking(p)' = Looking(p)
    BY <1>1, <2>2 DEF Looking
  <2> QED BY <2>1, <2>2
<1>11. \A p \in Gen : JobsOf(p)' = JobsOf(p)
  BY DEF JobsOf
<1>12. JobOnce'
  BY <1>1, <1>9, <1>10, <1>11 DEF SelInv, JobsInv, JobOnce
<1>13. /\ resolving' \subseteq Gen /\ lookups \subseteq lookups'
       /\ lookups' \subseteq [fd : Fd, gen : Gen, state : {"looking", "pushed"}]
  BY <1>1 DEF SelInv, TypeOK
<1> QED BY <1>2, <1>5, <1>8, <1>12, <1>13 DEF JobsInv

LEMMA HandleKeeps == ASSUME SelInv, Handle PROVE SelInv'
<1>0. /\ TypeOK /\ Reach /\ pc = "iterate" /\ Advance /\ Deliverable /\ TableInv /\ JobsInv
      /\ UNCHANGED <<jobs, todo, signal, done>>
  BY DEF SelInv, Handle, Deliverable
<1>1. Waiting' = Waiting
  BY <1>0, AdvanceKeeps DEF Waiting
<1>2. /\ TableInv' /\ JobsInv' /\ resolving' \subseteq Gen /\ lookups \subseteq lookups'
      /\ lookups' \subseteq [fd : Fd, gen : Gen, state : {"looking", "pushed"}]
  <2>1. CASE Owner = Passive /\ Accepts /\ UNCHANGED <<resolving, lookups>>
    <3>1. /\ TableInv' /\ server' = server
          /\ \A f \in Fd : Used(sel, f) => sel'.items[f] = sel.items[f]
      BY <1>0, <2>1, AcceptsKeeps
    <3>2. \A o \in Gen : Looking(o)' = Looking(o)
      BY <2>1 DEF Looking
    <3>3. \A f \in Fd : sel.items[f].gen \in resolving => sel'.items[f] = sel.items[f]
      BY <1>0, <3>1, GenFacts DEF Used, TypeOK
    <3>4. JobsInv'
      BY <1>0, <1>1, <2>1, <3>1, <3>2, <3>3, JobsKept
    <3> QED BY <1>0, <2>1, <3>1, <3>4 DEF TypeOK
  <2>2. ASSUME Owner # Passive, NEW c \in Fd, sel.items[c].gen = Owner,
               SessionStep(Owner, c) /\ UNCHANGED <<resolving, lookups>>
        PROVE  TableInv' /\ JobsInv' /\ UNCHANGED <<resolving, lookups>>
    <3>1. Owner \in Gen /\ Owner \notin resolving /\ Client(Owner, c)
      BY <1>0, <2>2, DeliveredNotWaiting
    <3>2. TableInv' /\ OthersKept(Owner)
      BY <1>0, <2>2, <3>1, SessionStepKeeps
    <3>3. /\ \A f \in Fd : sel.items[f].gen \in resolving => sel'.items[f] = sel.items[f]
          /\ \A p \in resolving : server'[p] = server[p]
      BY <1>0, <3>1, <3>2, OthersWait DEF JobsInv, TypeOK
    <3>4. \A o \in Gen : Looking(o)' = Looking(o)
      BY <2>2 DEF Looking
    <3>5. JobsInv'
      BY <1>0, <1>1, <2>2, <3>3, <3>4, JobsKept
    <3> QED BY <2>2, <3>2, <3>5
  <2>3. ASSUME Owner # Passive, NEW c \in Fd, sel.items[c].gen = Owner, LooksUp(Owner, c)
        PROVE  /\ TableInv' /\ JobsInv' /\ resolving' \subseteq Gen /\ lookups \subseteq lookups'
               /\ lookups' \subseteq [fd : Fd, gen : Gen, state : {"looking", "pushed"}]
    <3>1. Owner \in Gen /\ Owner \notin resolving /\ Client(Owner, c)
      BY <1>0, <2>3, DeliveredNotWaiting
    <3> QED BY <1>1, <2>3, <3>1, LooksUpKeeps
  <2> QED BY <1>0, <2>1, <2>2, <2>3 DEF Handle, TypeOK
<1>3. TypeOK'
  BY <1>0, <1>2, AdvanceKeeps DEF TypeOK, TableInv
<1>4. Reach' /\ pc' \in {"iterate", "lock"}
  BY <1>0, AdvanceKeeps
<1>5. WakeUp'
  BY <1>4 DEF WakeUp
<1> QED BY <1>2, <1>3, <1>4, <1>5 DEF SelInv

(* The first job is of a session that waits, and is the only one of it. *)
LEMMA HandleJobKeeps == ASSUME SelInv, HandleJob PROVE SelInv'
<1>0. /\ TypeOK /\ TableInv /\ JobsInv /\ todo \in Seq(Job) /\ todo # <<>> /\ pc = "jobs"
      /\ WaitersQuiet /\ JobForAsker /\ JobOnce /\ resolving \subseteq Gen
  BY DEF SelInv, HandleJob, TypeOK, JobsInv
<1> DEFINE f == Head(todo).fd
           o == sel.items[f].owner
<1>1. f = todo[1].fd /\ todo[1] \in Job /\ 1 \in DOMAIN todo /\ Waiting = todo
  BY <1>0, TailFacts DEF Waiting
<1>2. f \in Fd /\ sel.items[f].gen = todo[1].gen /\ todo[1].gen \in resolving
  BY <1>0, <1>1 DEF JobForAsker, Asks, Job
<1>3. Used(sel, f) /\ o \in Gen /\ o \in resolving /\ o # Passive /\ o = todo[1].gen
  <2>1. PICK c \in Fd : Client(todo[1].gen, c)
    BY <1>0, <1>2 DEF WaitersQuiet
  <2>2. Used(sel, f)
    BY <1>0, <1>2, GenFacts DEF Used
  <2>3. c = f
    BY <1>0, <1>2, <2>1, <2>2 DEF TableInv, Owners, Client
  <2> QED BY <1>0, <1>2, <2>1, <2>2, <2>3 DEF Client, WaitersQuiet
<1>4. PICK c \in Fd : sel.items[c].gen = o /\ SessionStep(o, c) /\ resolving' = resolving \ {o}
  BY <1>3 DEF HandleJob
<1>5. todo' = Tail(todo) /\ UNCHANGED <<pc, jobs, signal, lookups, done, iteration>>
  BY DEF HandleJob
<1> HIDE DEF o, f
<1>6. TableInv' /\ OthersKept(o)
  <2>1. Client(o, c)
    BY <1>0, <1>2, <1>3, <1>4, ClientOf DEF o
  <2> QED BY <1>0, <1>3, <1>4, <2>1, SessionStepKeeps
<1>7. /\ \A h \in Fd : sel.items[h].gen \in resolving' => sel'.items[h] = sel.items[h]
      /\ \A p \in resolving' : server'[p] = server[p]
  BY <1>0, <1>3, <1>4, <1>6, OthersWait
<1>8. WaitersQuiet'
  <2> SUFFICES ASSUME NEW p \in resolving'
               PROVE  /\ p # Passive /\ server'[p] = None
                      /\ \E d \in Fd : Client(p, d)' /\ sel'.items[d].interest = {}
    BY DEF WaitersQuiet
  <2>1. PICK d \in Fd : Client(p, d) /\ sel.items[d].interest = {}
    BY <1>0, <1>4 DEF WaitersQuiet
  <2>2. sel'.items[d] = sel.items[d]
    BY <1>7, <2>1 DEF Client
  <2> QED BY <1>0, <1>4, <1>7, <2>1, <2>2 DEF WaitersQuiet, Client
<1>9. Waiting' = Tail(todo)
  BY <1>0, <1>5 DEF Waiting
<1>10. \A i \in DOMAIN Tail(todo) :
         /\ i + 1 \in DOMAIN todo /\ Tail(todo)[i] = todo[i + 1] /\ todo[i + 1] \in Job
         /\ todo[i + 1].gen # o /\ Asks(todo[i + 1])
  <2>1. \A i \in DOMAIN Tail(todo) : /\ i + 1 \in DOMAIN todo /\ i + 1 # 1
                                     /\ Tail(todo)[i] = todo[i + 1] /\ todo[i + 1] \in Job
    BY <1>0, TailFacts
  <2> QED BY <1>0, <1>1, <1>3, <2>1 DEF JobOnce, JobForAsker
<1>11. Looking(o) = {}
  <2>1. 1 \in JobsOf(o)
    BY <1>1, <1>3 DEF JobsOf
  <2> QED BY <1>0, <1>3, <2>1 DEF JobOnce
<1>12. JobForAsker'
  <2>1. ASSUME NEW i \in DOMAIN Waiting' PROVE Asks(Waiting[i])'
    BY <1>4, <1>7, <1>9, <1>10 DEF Asks, Job
  <2>2. ASSUME NEW l \in lookups', l.state = "looking" PROVE Asks(l)'
    <3>1. l.gen # o /\ l.fd \in Fd /\ Asks(l)
      BY <1>0, <1>5, <1>11, <2>2 DEF Looking, JobForAsker, TypeOK
    <3> QED BY <1>4, <1>7, <3>1 DEF Asks
  <2> QED BY <2>1, <2>2 DEF JobForAsker
<1>13. \A p : Looking(p)' = Looking(p)
  BY <1>5 DEF Looking
<1>14. \A p \in resolving' : JobsOf(p)' # {} <=> JobsOf(p) # {}
  <2> SUFFICES ASSUME NEW p \in resolving' PROVE JobsOf(p)' # {} <=> JobsOf(p) # {}
    OBVIOUS
  <2>1. ASSUME NEW i \in JobsOf(p)' PROVE i + 1 \in JobsOf(p)
    BY <1>1, <1>9, <1>10, <2>1 DEF JobsOf
  <2>2. ASSUME NEW i \in JobsOf(p) PROVE i - 1 \in JobsOf(p)'
    <3>1. i \in DOMAIN todo /\ todo[i].gen = p /\ p # o
      BY <1>1, <1>4, <2>2 DEF JobsOf
    <3>2. i - 1 \in DOMAIN Tail(todo) /\ Tail(todo)[i - 1] = todo[i]
      BY <1>0, <1>3, <3>1, TailFacts
    <3> QED BY <1>9, <3>1, <3>2 DEF JobsOf
  <2> QED BY <2>1, <2>2
<1>15. JobOnce'
  <2>1. \A p \in resolving' : /\ Looking(p)' # {} \/ JobsOf(p)' # {}
                              /\ Looking(p)' = {} \/ JobsOf(p)' = {}
    BY <1>0, <1>4, <1>13, <1>14 DEF JobOnce
  <2>2. ASSUME NEW i \in DOMAIN Waiting', NEW j \in DOMAIN Waiting',
               Waiting'[i].gen = Waiting'[j].gen
        PROVE  i = j
    <3>1. i + 1 = j + 1
      BY <1>0, <1>1, <1>9, <1>10, <2>2 DEF JobOnce
    <3>2. i \in Nat /\ j \in Nat
      BY <1>0, <1>9, <2>2, TailFacts
    <3> QED BY <3>1, <3>2
  <2> QED BY <2>1, <2>2 DEF JobOnce
<1>16. TypeOK'
  BY <1>0, <1>4, <1>5, <1>6, TailFacts DEF TypeOK, TableInv, iteration
<1>17. WakeUp' /\ Reach'
  BY <1>0, <1>5 DEF WakeUp, Reach
<1> QED BY <1>6, <1>8, <1>12, <1>15, <1>16, <1>17 DEF SelInv, JobsInv

(* A thread's job is the first of its session: the lookup that ends is the one
   it had. *)
LEMMA PushKeeps == ASSUME SelInv, NEW l \in lookups, Push(l) PROVE SelInv'
<1> DEFINE j == [fd |-> l.fd, gen |-> l.gen]
           done_ == [l EXCEPT !.state = "pushed"]
<1>0. /\ TypeOK /\ TableInv /\ JobsInv /\ JobForAsker /\ JobOnce /\ WaitersQuiet
      /\ l.state = "looking" /\ pc # "jobs" /\ jobs \in Seq(Job) /\ resolving \subseteq Gen
      /\ lookups \subseteq [fd : Fd, gen : Gen, state : {"looking", "pushed"}]
      /\ l \in [fd : Fd, gen : Gen, state : {"looking", "pushed"}]
  BY DEF SelInv, JobsInv, Push, Locked, TypeOK
<1>1. /\ jobs' = <<j>> \o jobs /\ lookups' = (lookups \ {l}) \cup {done_}
      /\ UNCHANGED <<table, pc, iteration, todo, signal, done, resolving>>
  BY DEF Push
<1>2. /\ j \in Job /\ j.gen = l.gen /\ j.fd = l.fd
      /\ done_ \in [fd : Fd, gen : Gen, state : {"looking", "pushed"}]
      /\ done_.state = "pushed"
  BY <1>0 DEF Job
<1> HIDE DEF j, done_
<1>3. Asks(l) /\ l.gen \in resolving
  BY <1>0 DEF JobForAsker, Asks
<1>4. Waiting = jobs /\ Waiting' = <<j>> \o jobs
  BY <1>0, <1>1 DEF Waiting
<1>5. \A k \in lookups : k.state = "looking" /\ k.gen = l.gen => k = l
  <2> SUFFICES ASSUME NEW k \in lookups, k.state = "looking", k.gen = l.gen PROVE k = l
    OBVIOUS
  <2>1. /\ k.fd \in Fd /\ l.fd \in Fd /\ sel.items[k.fd].gen = k.gen
        /\ sel.items[l.fd].gen = l.gen /\ l.gen \in Gen
    BY <1>0 DEF JobForAsker, Asks
  <2>2. Used(sel, k.fd)
    BY <2>1, GenFacts DEF Used
  <2>3. k.fd = l.fd
    BY <1>0, <2>1, <2>2 DEF TableInv, Owners
  <2>4. k \in [fd : Fd, gen : Gen, state : {"looking", "pushed"}]
    BY <1>0
  <2> QED BY <1>0, <2>3, <2>4
<1>6. Looking(l.gen)' = {} /\ \A p : p # l.gen => Looking(p)' = Looking(p)
  <2>1. Looking(l.gen)' = {}
    BY <1>1, <1>2, <1>5 DEF Looking
  <2>2. ASSUME NEW p, p # l.gen PROVE Looking(p)' = Looking(p)
    BY <1>1, <1>2, <2>2 DEF Looking
  <2> QED BY <2>1, <2>2
<1>7. JobsOf(l.gen) = {}
  <2>1. l \in Looking(l.gen)
    BY <1>0 DEF Looking
  <2> QED BY <1>0, <1>3, <2>1 DEF JobOnce
<1>8. /\ \A i \in DOMAIN jobs : i + 1 \in DOMAIN Waiting' /\ Waiting'[i + 1] = jobs[i]
      /\ \A i \in DOMAIN Waiting' : \/ i = 1
                                    \/ i - 1 \in DOMAIN jobs /\ Waiting'[i] = jobs[i - 1]
      /\ 1 \in DOMAIN Waiting' /\ Waiting'[1] = j /\ jobs' \in Seq(Job)
  BY <1>0, <1>1, <1>2, <1>4, FrontFacts
<1>9. TableInv'
  BY <1>0, <1>1, TableSame
<1>10. WaitersQuiet'
  BY <1>0, <1>1 DEF WaitersQuiet, Client, table
<1>11. \A x : Asks(x)' <=> Asks(x)
  BY <1>1 DEF Asks, table
<1>12. JobForAsker'
  <2>1. ASSUME NEW i \in DOMAIN Waiting' PROVE Asks(Waiting'[i])
    <3>1. CASE i = 1
      BY <1>2, <1>3, <1>8, <3>1 DEF Asks
    <3>2. CASE i # 1
      BY <1>0, <1>4, <1>8, <3>2 DEF JobForAsker
    <3> QED BY <3>1, <3>2
  <2>2. ASSUME NEW k \in lookups', k.state = "looking" PROVE Asks(k)
    BY <1>0, <1>1, <1>2, <2>2 DEF JobForAsker
  <2> QED BY <1>1, <2>1, <2>2 DEF JobForAsker, Asks, table
<1>13. \A p : p # l.gen => (JobsOf(p)' = {} <=> JobsOf(p) = {})
  <2> SUFFICES ASSUME NEW p, p # l.gen PROVE JobsOf(p)' = {} <=> JobsOf(p) = {}
    OBVIOUS
  <2>1. ASSUME NEW i \in JobsOf(p)' PROVE i - 1 \in JobsOf(p)
    BY <1>2, <1>4, <1>8 DEF JobsOf
  <2>2. ASSUME NEW i \in JobsOf(p) PROVE i + 1 \in JobsOf(p)'
    BY <1>4, <1>8 DEF JobsOf
  <2> QED BY <2>1, <2>2
<1>14. JobOnce'
  <2>1. 1 \in JobsOf(l.gen)'
    BY <1>2, <1>8 DEF JobsOf
  <2>2. \A p \in resolving : /\ Looking(p)' # {} \/ JobsOf(p)' # {}
                             /\ Looking(p)' = {} \/ JobsOf(p)' = {}
    BY <1>0, <1>6, <1>13, <2>1 DEF JobOnce
  <2>3. ASSUME NEW i \in DOMAIN jobs, jobs[i].gen = l.gen PROVE FALSE
    BY <1>4, <1>7, <2>3 DEF JobsOf
  <2>4. \A i, k \in DOMAIN jobs : jobs[i].gen = jobs[k].gen => i = k
    BY <1>0, <1>4 DEF JobOnce
  <2>5. ASSUME NEW i \in DOMAIN Waiting', NEW k \in DOMAIN Waiting',
               Waiting'[i].gen = Waiting'[k].gen
        PROVE  i = k
    <3>1. CASE i = 1 \/ k = 1
      BY <1>2, <1>8, <2>3, <2>5, <3>1
    <3>2. CASE i # 1 /\ k # 1
      <4>1. i - 1 = k - 1
        BY <1>8, <2>4, <2>5, <3>2
      <4>2. i \in Nat /\ k \in Nat
        BY <1>1, <1>4, <1>8
      <4> QED BY <4>1, <4>2
    <3> QED BY <3>1, <3>2
  <2> QED BY <1>1, <2>2, <2>5 DEF JobOnce
<1>15. TypeOK'
  BY <1>0, <1>1, <1>2, <1>8 DEF TypeOK, table, iteration
<1>16. WakeUp' /\ Reach'
  BY <1>1, <1>2 DEF SelInv, WakeUp, Reach, iteration
<1> QED BY <1>9, <1>10, <1>12, <1>14, <1>15, <1>16 DEF SelInv, JobsInv

LEMMA NotifyKeeps == ASSUME SelInv, NEW l \in lookups, Notify(l) PROVE SelInv'
<1>0. TypeOK /\ TableInv /\ JobsInv
  BY DEF SelInv
<1>1. /\ l.state = "pushed" /\ signal' = TRUE /\ lookups' = lookups \ {l}
      /\ UNCHANGED <<table, pc, iteration, jobs, todo, done, resolving>>
  BY DEF Notify
<1>2. Waiting' = Waiting
  BY <1>1 DEF Waiting
<1>3. \A o \in Gen : Looking(o)' = Looking(o)
  BY <1>1 DEF Looking
<1>4. TableInv' /\ JobsInv'
  BY <1>0, <1>1, <1>2, <1>3, TableSame, JobsKept DEF table
<1>5. TypeOK' /\ WakeUp' /\ Reach'
  BY <1>1 DEF SelInv, TypeOK, WakeUp, Reach, table, iteration
<1> QED BY <1>4, <1>5 DEF SelInv

LEMMA DestroyKeeps == ASSUME SelInv, Destroy PROVE SelInv'
<1>0. TypeOK /\ gens' = gens
  BY DEF SelInv, Destroy
<1>1. /\ sel' = [items |-> [f \in Fd |-> Unused], maxFd |-> 0, r |-> {}, w |-> {}]
      /\ open' = {} /\ server' = [o \in Gen |-> None] /\ jobs' = <<>>
      /\ lookups' = {} /\ resolving' = {} /\ pc' = "destroyed"
  BY DEF Destroy
<1>2. sel'.items = [f \in Fd |-> Unused] /\ sel'.maxFd = 0 /\ sel'.r = {} /\ sel'.w = {}
  BY <1>1
<1>3. \A f \in Fd : sel'.items[f] = Unused /\ sel'.items[f].gen = 0 /\ sel'.items[f].interest = {}
  BY <1>2, UnusedFacts
<1>4. sel' \in FdSelector /\ SetsAgree(sel')
  <2>1. sel' \in FdSelector
    BY <1>1, UnusedFacts, FdFacts DEF FdSelector
  <2> QED BY <1>2, <1>3, <2>1 DEF SetsAgree, Used
<1>5. Owners'
  BY <1>1, <1>3 DEF Owners, Used
<1>6. TableInv'
  BY <1>0, <1>1, <1>3, <1>4, <1>5 DEF TableInv, TypeOK, SetsFollowItems, OpenIsOwned, Used
<1>7. JobsInv'
  BY <1>1 DEF JobsInv, WaitersQuiet, JobForAsker, JobOnce, Waiting
<1>8. TypeOK' /\ WakeUp' /\ Reach'
  BY <1>0, <1>1, <1>4 DEF TypeOK, WakeUp, Reach, iteration, Destroy
<1> QED BY <1>6, <1>7, <1>8 DEF SelInv

LEMMA StepKeeps == ASSUME SelInv, [Next]_vars PROVE SelInv'
<1>1. CASE UNCHANGED vars
  <2>1. UNCHANGED <<table, lookups, resolving>> /\ Waiting' = Waiting
    BY <1>1 DEF vars, table, Waiting
  <2>2. TableInv' /\ JobsInv'
    BY <2>1, WaitSame
  <2>3. TypeOK' /\ WakeUp' /\ Reach'
    BY <1>1 DEF SelInv, vars, TypeOK, WakeUp, Reach
  <2> QED BY <2>2, <2>3 DEF SelInv
<1>2. CASE Next
  BY <1>2, LoopKeeps, SelectKeeps, InterruptedKeeps, TerminateKeeps, NoEventKeeps, HandleKeeps,
     LockKeeps, HandleJobKeeps, UnlockKeeps, DestroyKeeps, PushKeeps, NotifyKeeps DEF Next
<1> QED BY <1>1, <1>2

THEOREM SelectorInv == Spec => []SelInv
<1>1. Init => SelInv
  BY InitInv
<1>2. SelInv /\ [Next]_vars => SelInv'
  BY StepKeeps
<1> QED BY <1>1, <1>2, PTL DEF Spec

-----------------------------------------------------------------------------
(* The properties of the runs. *)

(* Types, of selector_new's state and of every step after it. *)
THEOREM SelectorTypes == Spec => []TypeOK
<1>1. SelInv => TypeOK
  BY DEF SelInv
<1> QED BY <1>1, SelectorInv, PTL

(* After any sequence of selector_register, _set_interest and _unregister the
   sets of pselect and its bound are those of the items. *)
THEOREM SetsFollow == Spec => []SetsFollowItems
<1>1. SelInv => SetsFollowItems
  BY DEF SelInv, TableInv
<1> QED BY <1>1, SelectorInv, PTL

(* socks5_done and request_connect close what they opened, and nothing else. *)
THEOREM DescriptorsOwned == Spec => []OpenIsOwned
<1>1. SelInv => OpenIsOwned
  BY DEF SelInv, TableInv
<1> QED BY <1>1, SelectorInv, PTL

(* The job a resolver thread leaves finds the session that asked, though it
   names a descriptor only: that session is quiet until then. *)
THEOREM JobsReachAskers == Spec => []JobForAsker
<1>1. SelInv => JobForAsker
  BY DEF SelInv, JobsInv
<1> QED BY <1>1, SelectorInv, PTL

(* No job of resolution_jobs is lost, and none is handled twice. *)
THEOREM OneJobEach == Spec => []JobOnce
<1>1. SelInv => JobOnce
  BY DEF SelInv, JobsInv
<1> QED BY <1>1, SelectorInv, PTL

(* pselect is never entered with a job in the list and no SIGALRM to come. *)
THEOREM NoWakeUpLost == Spec => []WakeUpComing
<1>1. SelInv => WakeUpComing
  BY DEF SelInv, WakeUp, WakeUpComing
<1> QED BY <1>1, SelectorInv, PTL

(* handle_iteration does not stop before what pselect reported. *)
THEOREM ReportsSeen == Spec => EveryReportSeen
<1>1. ASSUME SelInv, [Next]_vars, pc = "iterate", pc' = "lock"
      PROVE  slave.r \cup slave.w \subseteq 0..at
  <2>1. Advance
    BY <1>1 DEF Next, vars, Loop, Select, Interrupted, Terminate, NoEvent, Handle, Lock, HandleJob,
                Unlock, Destroy, Push, Notify
  <2>2. at = last
    BY <1>1, <2>1 DEF Advance, AtLast
  <2> QED BY <1>1, <2>2 DEF SelInv, Reach
<1>2. SelInv /\ [Next]_vars
        => [pc = "iterate" /\ pc' = "lock" => slave.r \cup slave.w \subseteq 0..at]_vars
  BY <1>1
<1> QED BY <1>2, SelectorInv, PTL DEF Spec, EveryReportSeen

-----------------------------------------------------------------------------
(* A lookup is answered. *)

(* Lookups are started by a session that does not wait for one, and end as jobs. *)
LEMMA LookingStays ==
  ASSUME SelInv, [Next]_vars, NEW o \in resolving, o \in resolving'
  PROVE  \/ Looking(o)' = Looking(o)
         \/ \E l \in lookups : l.gen = o /\ l.state = "looking" /\ Push(l)
<1>1. CASE UNCHANGED lookups
  BY <1>1 DEF Looking
<1>2. CASE Handle /\ ~UNCHANGED lookups
  <2>1. Owner \notin resolving /\ Deliverable
    BY <1>2, DeliveredNotWaiting DEF Handle
  <2>2. \E c \in Fd : LooksUp(Owner, c)
    BY <1>2 DEF Handle
  <2>3. PICK k : k.gen = Owner /\ lookups' = lookups \cup {k}
    BY <2>2 DEF LooksUp
  <2> QED BY <2>1, <2>3 DEF Looking
<1>3. ASSUME NEW l \in lookups, Push(l)
      PROVE  Looking(o)' = Looking(o) \/ l.gen = o
  <2>1. /\ l.state = "looking"
        /\ lookups' = (lookups \ {l}) \cup {[l EXCEPT !.state = "pushed"]}
    BY <1>3 DEF Push
  <2>2. [l EXCEPT !.state = "pushed"].state = "pushed"
    BY DEF SelInv, TypeOK
  <2> QED BY <2>1, <2>2 DEF Looking
<1>4. ASSUME NEW l \in lookups, Notify(l)
      PROVE  Looking(o)' = Looking(o)
  BY <1>4 DEF Notify, Looking
<1>5. ~Destroy
  BY DEF Destroy
<1>6. CASE Next /\ ~UNCHANGED lookups
  <2>1. Handle \/ \E l \in lookups : Push(l) \/ Notify(l)
    BY <1>5, <1>6 DEF Next, Loop, Select, Interrupted, Terminate, NoEvent, Lock, HandleJob, Unlock,
                      threads
  <2>2. \A l \in lookups : Push(l) => l.state = "looking"
    BY DEF Push
  <2> QED BY <1>2, <1>3, <1>4, <1>6, <2>1, <2>2
<1> QED BY <1>1, <1>6 DEF vars

LEMMA PushedHasJob ==
  ASSUME SelInv, NEW l \in lookups, Push(l)
  PROVE  JobsOf(l.gen)' # {}
<1>1. /\ pc # "jobs" /\ pc' = pc /\ jobs' = <<[fd |-> l.fd, gen |-> l.gen]>> \o jobs
  BY DEF Push, Locked
<1>2. [fd |-> l.fd, gen |-> l.gen] \in Job /\ jobs \in Seq(Job)
  BY DEF SelInv, TypeOK, Job
<1>3. 1 \in DOMAIN jobs' /\ jobs'[1] = [fd |-> l.fd, gen |-> l.gen]
  BY <1>1, <1>2, FrontFacts
<1>4. Waiting' = jobs'
  BY <1>1 DEF Waiting
<1>5. 1 \in JobsOf(l.gen)'
  BY <1>3, <1>4 DEF JobsOf
<1> QED BY <1>5

(* Turn, in each of the places the thread can be. *)
LEMMA Turns ==
  /\ pc = "loop" => Turn = 2 * Kernel + 5
  /\ pc = "select" => Turn = 2 * Kernel + 4
  /\ pc = "iterate" => Turn = 2 * (last - at) + (IF event = "r" THEN 3 ELSE 2)
  /\ pc = "lock" => Turn = 1
  /\ pc = "jobs" => Turn = 0
BY DEF Turn

LEMMA TurnsNext ==
  /\ pc' = "loop" => Turn' = 2 * Kernel + 5
  /\ pc' = "select" => Turn' = 2 * Kernel + 4
  /\ pc' = "iterate" => Turn' = 2 * (last' - at') + (IF event' = "r" THEN 3 ELSE 2)
  /\ pc' = "lock" => Turn' = 1
  /\ pc' = "jobs" => Turn' = 0
BY DEF Turn

(* handle_iteration comes to an end: it goes through the descriptors once. *)
LEMMA AdvanceForward ==
  ASSUME SelInv, pc = "iterate", Advance
  PROVE  Forward
<1>1. at \in Nat /\ last \in Nat /\ at <= last /\ event \in {"r", "w"}
  BY FdFacts DEF SelInv, Reach, TypeOK
<1>2. CASE event = "r"
  <2>1. /\ pc' = "iterate" /\ event' = "w" /\ at' = at /\ last' = last
    BY <1>2 DEF Advance
  <2>2. Turn = 2 * (last - at) + 3 /\ Turn' = 2 * (last - at) + 2
    BY <1>2, <2>1, Turns, TurnsNext
  <2> QED BY <1>1, <2>2 DEF Forward
<1>3. CASE event = "w" /\ at # last
  <2>1. /\ pc' = "iterate" /\ event' = "r" /\ at' = at + 1 /\ last' = last
    BY <1>3 DEF Advance, AtLast
  <2>2. Turn = 2 * (last - at) + 2 /\ Turn' = 2 * (last - (at + 1)) + 3
    BY <1>3, <2>1, Turns, TurnsNext
  <2>3. at + 1 <= last
    BY <1>1, <1>3
  <2> QED BY <1>1, <2>2, <2>3 DEF Forward
<1>4. CASE event = "w" /\ at = last
  <2>1. pc' = "lock"
    BY <1>4 DEF Advance, AtLast
  <2>2. Turn = 2 * (last - at) + 2 /\ Turn' = 1
    BY <1>4, <2>1, Turns, TurnsNext
  <2> QED BY <1>1, <1>4, <2>2 DEF Forward
<1> QED BY <1>1, <1>2, <1>3, <1>4

LEMMA SelectForward ==
  ASSUME SelInv, Select
  PROVE  Forward
<1>1. pc = "select" /\ pc' = "iterate" /\ event' = "r" /\ at' = 0 /\ last' = sel.maxFd
  BY DEF Select
<1>2. sel.maxFd \in 0..Kernel /\ Kernel \in Nat
  BY FdFacts DEF SelInv, TypeOK, FdSelector, Fd
<1>3. Turn = 2 * Kernel + 4 /\ Turn' = 2 * (sel.maxFd - 0) + 3
  BY <1>1, Turns, TurnsNext
<1> QED BY <1>2, <1>3 DEF Forward

(* The rest of what the thread does, up to the list. *)
LEMMA OthersForward ==
  ASSUME SelInv, Loop \/ Interrupted \/ Lock
  PROVE  Forward
<1>1. Kernel \in Nat
  BY FdFacts
<1>2. \/ pc = "loop" /\ pc' = "select"
      \/ pc = "select" /\ pc' = "lock"
      \/ pc = "lock" /\ pc' = "jobs"
  BY DEF Loop, Interrupted, Lock
<1> QED BY <1>1, <1>2, Turns, TurnsNext DEF Forward

(* A job that is not handled next has one place less before it. *)
LEMMA JobMovesUp ==
  ASSUME SelInv, HandleJob, NEW o \in resolving, o \in resolving', JobsOf(o)' # {}
  PROVE  MovesUp(o)
<1>1. pc = "jobs" /\ pc' = "jobs" /\ todo # <<>> /\ todo' = Tail(todo) /\ todo \in Seq(Job)
  BY DEF HandleJob, SelInv, TypeOK
<1>2. Waiting = todo /\ Waiting' = Tail(todo)
  BY <1>1 DEF Waiting
<1>3. /\ \A i \in DOMAIN Tail(todo) : i + 1 \in DOMAIN todo /\ Tail(todo)[i] = todo[i + 1] /\ i + 1 # 1
      /\ \A i \in DOMAIN todo : i = 1 \/ (i - 1 \in DOMAIN Tail(todo) /\ Tail(todo)[i - 1] = todo[i])
  BY <1>1, TailFacts
<1>4. PICK k \in DOMAIN Tail(todo) : Tail(todo)[k].gen = o
  BY <1>2 DEF JobsOf
<1>5. k + 1 \in DOMAIN todo /\ todo[k + 1].gen = o /\ k + 1 # 1
  BY <1>3, <1>4
<1>6. ASSUME NEW i \in JobsOf(o)
      PROVE  i > 1 /\ i - 1 \in JobsOf(o)'
  <2>1. i \in DOMAIN todo /\ todo[i].gen = o
    BY <1>2 DEF JobsOf
  <2>2. i = k + 1
    BY <1>2, <1>5, <2>1 DEF SelInv, JobsInv, JobOnce
  <2>3. i - 1 \in DOMAIN Tail(todo) /\ Tail(todo)[i - 1] = todo[i]
    BY <1>3, <1>5, <2>1, <2>2
  <2>4. i \in Nat /\ i >= 1
    BY <1>1, <2>1
  <2> QED BY <1>2, <1>5, <2>1, <2>2, <2>3, <2>4 DEF JobsOf
<1> QED BY <1>1, <1>6 DEF MovesUp

(* Whatever SIGTERM and the resolver threads do, the thread is where it was. *)
LEMMA ThreadsStay ==
  ASSUME SelInv, NEW o, Terminate \/ \E l \in lookups : Push(l) \/ Notify(l)
  PROVE  \/ Forward
         \/ Turn' = Turn /\ pc' = pc /\ (pc = "jobs" => JobsOf(o)' = JobsOf(o))
<1>1. CASE pc' = pc
  <2>1. UNCHANGED <<at, event, last>> /\ UNCHANGED todo
    BY DEF Terminate, Push, Notify, iteration, threads
  <2>2. Turn' = Turn
    BY <1>1, <2>1 DEF Turn
  <2>3. pc = "jobs" => JobsOf(o)' = JobsOf(o)
    BY <1>1, <2>1 DEF JobsOf, Waiting
  <2> QED BY <1>1, <2>2, <2>3
<1>2. CASE pc' # pc
  <2>1. pc = "select" /\ pc' = "lock"
    BY <1>2 DEF Terminate, Push, Notify
  <2>2. Kernel \in Nat
    BY FdFacts
  <2> QED BY <2>1, <2>2, Turns, TurnsNext DEF Forward
<1> QED BY <1>1, <1>2

(* Between the lookup of a session and its answer, the resolver thread, the job
   and the iteration of the selector it is handled in hand over to each other,
   and each ends: handle_iteration passes over the descriptors once, and
   handle_block_notifications over the list.  The list is not emptied, nor the
   job passed over, before. *)
THEOREM LookupsDrawNearer == Spec => LookupDrawsNearer
<1>1. ASSUME SelInv, SelInv', [Next]_vars, NEW o \in resolving, o \in resolving', Looking(o) # {}
      PROVE  /\ Looking(o)' = Looking(o) \/ JobsOf(o)' # {}
             /\ (\E l \in Looking(o) : Push(l)) => JobsOf(o)' # {}
  <2>1. \A l \in lookups : l.gen = o /\ Push(l) => JobsOf(o)' # {}
    BY <1>1, PushedHasJob
  <2> QED BY <1>1, <2>1, LookingStays DEF Looking
<1>2. ASSUME SelInv, SelInv', Next, NEW o \in resolving, o \in resolving', Looking(o) = {}
      PROVE  /\ JobsOf(o) # {} /\ JobsOf(o)' # {}
             /\ Thread \/ Interrupted \/ Select => Forward \/ MovesUp(o)
             /\ Forward \/ MovesUp(o)
                  \/ (Turn' = Turn /\ pc' = pc /\ (pc = "jobs" => JobsOf(o)' = JobsOf(o)))
  <2>1. Looking(o)' = {}
    BY <1>2, LookingStays DEF Looking
  <2>2. JobsOf(o) # {} /\ JobsOf(o)' # {}
    BY <1>2, <2>1 DEF SelInv, JobsInv, JobOnce
  <2>3. ~Unlock
    BY <2>2 DEF Unlock, JobsOf, Waiting
  <2>4. ~Destroy
    BY <1>2 DEF Destroy
  <2>5. NoEvent \/ Handle => Forward
    BY <1>2, AdvanceForward DEF NoEvent, Handle, Deliverable
  <2>6. HandleJob => MovesUp(o)
    BY <1>2, <2>2, JobMovesUp
  <2>7. Thread \/ Interrupted \/ Select => Forward \/ MovesUp(o)
    BY <1>2, <2>3, <2>4, <2>5, <2>6, SelectForward, OthersForward DEF Thread
  <2>8. Thread \/ Interrupted \/ Select \/ Terminate \/ \E l \in lookups : Push(l) \/ Notify(l)
    BY <1>2 DEF Next, Thread
  <2> QED BY <1>2, <2>2, <2>7, <2>8, ThreadsStay
<1>3. SelInv /\ SelInv' /\ [Next]_vars =>
        [\A o \in resolving \cap resolving' :
           IF Looking(o) # {}
           THEN /\ Looking(o)' = Looking(o) \/ JobsOf(o)' # {}
                /\ (\E l \in Looking(o) : Push(l)) => JobsOf(o)' # {}
           ELSE /\ JobsOf(o) # {} /\ JobsOf(o)' # {}
                /\ Thread \/ Interrupted \/ Select => Forward \/ MovesUp(o)
                /\ Forward \/ MovesUp(o)
                     \/ (Turn' = Turn /\ pc' = pc /\ (pc = "jobs" => JobsOf(o)' = JobsOf(o)))
        ]_vars
  BY <1>1, <1>2
<1> QED BY <1>3, SelectorInv, PTL DEF Spec, LookupDrawsNearer
=============================================================================
