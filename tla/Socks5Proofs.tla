---------------------------- MODULE Socks5Proofs ----------------------------
(***************************************************************************)
(* Proofs of the safety properties of Socks5, for any number of            *)
(* connections, credentials, addresses and message lengths.  The inductive *)
(* invariant is IInv; every handler ends in Enter, so that one lemma       *)
(* (EnterStep) carries it over a handler whose result conforms.  With it,  *)
(* two theorems that follow the connections from state to state: Socks5    *)
(* implements Proxy, and current_connections is the number of connections  *)
(* that were told of success and did not go through the end of a tunnel.   *)
(*                                                                         *)
(* Last, of a client that waits for each reply (Paced): somebody is due to *)
(* bring it to the answer to its request, and each step brings it nearer.  *)
(***************************************************************************)
EXTENDS Socks5, FiniteSetTheorems, TLAPS

-----------------------------------------------------------------------------
(* socks5_close only touches the two counters of the struct. *)
LEMMA HandleCloseType ==
  ASSUME NEW f \in FdsType
  PROVE  /\ HandleClose(f) \in FdsType
         /\ HandleClose(f).cli = f.cli /\ HandleClose(f).srv = f.srv
BY DEF HandleClose, FdsType

(* request_connect gives up the server descriptor it finds: nothing is closed
   when it has no selector item. *)
LEMMA UnregisterServerFacts ==
  ASSUME NEW f \in FdsType
  PROVE  /\ UnregisterServer(f) \in FdsType
         /\ UnregisterServer(f).cli = f.cli
         /\ ~Registered(f) => UnregisterServer(f) = f
BY HandleCloseType DEF UnregisterServer, Registered, FdsType

(* What socks5_done may be called with. *)
Closable(f, d, n) ==
  /\ f.cli # "unused" /\ f.srv # "closed"
  /\ f.srv = "open" => n.dest = "immediate"
  /\ d.cur <= 1 => f.toFree = 0 /\ f.frees = 0

(* socks5_done leaves no selector item and, called with counters at zero,
   frees the struct exactly once unless the server socket has no item. *)
LEMMA CloseBothFacts ==
  ASSUME NEW f \in FdsType, f.cli # "unused", f.srv # "closed"
  PROVE  /\ CloseBoth(f) \in FdsType
         /\ CloseBoth(f).cli = "unused" /\ CloseBoth(f).srv \in {"none", "closed"}
         /\ f.toFree = 0 /\ f.frees = 0 =>
              /\ CloseBoth(f).frees <= 1
              /\ f.srv # "open" => CloseBoth(f).frees = 1
<1> DEFINE g == UnregisterClient(f)
<1>1. g = [HandleClose(f) EXCEPT !.cli = "unused"]
  BY DEF UnregisterClient
<1>2. /\ g \in FdsType /\ g.cli = "unused" /\ g.srv = f.srv
      /\ g.toFree = HandleClose(f).toFree /\ g.frees = HandleClose(f).frees
  BY <1>1, HandleCloseType DEF FdsType
<1>3. f.toFree = 0 /\ f.frees = 0 =>
        IF f.srv = "none" THEN g.frees = 1 ELSE g.toFree = 1 /\ g.frees = 0
  BY <1>2 DEF HandleClose, FdsType
<1> DEFINE h == UnregisterServer(g)
<1>4. h \in FdsType /\ h.cli = "unused"
  BY <1>2, UnregisterServerFacts
<1>5. CASE Registered(g)
  <2>1. h = [HandleClose(g) EXCEPT !.srv = "open"]
    BY <1>5 DEF UnregisterServer
  <2>2. h.frees = HandleClose(g).frees /\ h.srv = "open"
    BY <2>1, <1>2, HandleCloseType DEF FdsType
  <2>3. f.toFree = 0 /\ f.frees = 0 => h.frees = 1
    BY <2>2, <1>2, <1>3, <1>5 DEF HandleClose, FdsType, Registered, Interests
  <2>4. CloseBoth(f) = [h EXCEPT !.srv = "closed"]
    BY <2>2, <1>4 DEF CloseBoth, FdsType
  <2> QED BY <2>3, <2>4, <1>4 DEF FdsType
<1>6. CASE ~Registered(g)
  <2>1. h = g
    BY <1>6, <1>2, UnregisterServerFacts
  <2>2. CloseBoth(f) = [h EXCEPT !.srv = IF @ = "none" THEN "none" ELSE "closed"]
    BY DEF CloseBoth
  <2>3. f.srv \in {"none", "open"}
    BY <1>2, <1>6 DEF Registered, FdsType, Interests
  <2> QED BY <2>1, <2>2, <2>3, <1>2, <1>3 DEF FdsType
<1> QED BY <1>5, <1>6

-----------------------------------------------------------------------------
(* The result of a handler conforms: either the connection goes on and its
   records conform as they are, or it is over and can be closed. *)
Acceptable(r, f, d, n, K) ==
  /\ Counted(r, d, n) /\ Answered(r, n) /\ Authorised(r, n, K)
  /\ IF r.st \in OverStates THEN Closable(f, d, n) ELSE Watched(r, f) /\ Owned(r, f, d, n)

(* Enter then leaves the connection as its state demands. *)
LEMMA EnterConforms ==
  ASSUME NEW r \in SocksType, NEW f \in FdsType, NEW d \in DnsType, NEW n \in NetType, NEW K,
         Acceptable(r, f, d, n, K)
  PROVE  LET g == IF r.st \in OverStates THEN CloseBoth(f) ELSE f
         IN  g \in FdsType /\ Conforms(r, g, d, n, K)
<1>1. CASE r.st \in OverStates
  <2>1. /\ CloseBoth(f) \in FdsType
        /\ CloseBoth(f).cli = "unused" /\ CloseBoth(f).srv \in {"none", "closed"}
        /\ d.cur <= 1 => /\ CloseBoth(f).frees <= 1
                         /\ f.srv # "open" => CloseBoth(f).frees = 1
    BY <1>1, CloseBothFacts DEF Acceptable, Closable
  <2>2. Watched(r, CloseBoth(f))
    BY <1>1, <2>1 DEF Watched, ClientItem, ServerItems, OverStates
  <2>3. Owned(r, CloseBoth(f), d, n)
    BY <1>1, <2>1 DEF Owned, Acceptable, Closable, OverStates, HandshakeStates, RequestStates
  <2> QED BY <1>1, <2>1, <2>2, <2>3 DEF Acceptable, Conforms
<1>2. CASE r.st \notin OverStates
  BY <1>2 DEF Acceptable, Conforms
<1> QED BY <1>1, <1>2

(* A step that changes the records of one connection only, and to records that
   conform, keeps every connection conforming. *)
LEMMA OneConnection ==
  ASSUME IInv, NEW c \in Conns, NEW r \in SocksType, NEW f \in FdsType,
         NEW d \in DnsType, NEW n \in NetType,
         socks' = [socks EXCEPT ![c] = r], fds' = [fds EXCEPT ![c] = f],
         dns' = [dns EXCEPT ![c] = d], net' = [net EXCEPT ![c] = n],
         Conforms(r, f, d, n, known),
         UNCHANGED conf, current' \in Int, historic' \in Nat, proc' \in {"up", "aborted"}
  PROVE  IInv'
<1>1. TypeOK'
  BY DEF IInv, TypeOK, conf
<1>2. ASSUME NEW e \in Conns
      PROVE  Conforms(socks'[e], fds'[e], dns'[e], net'[e], known)
  <2>1. Conforms(socks[e], fds[e], dns[e], net[e], known)
    BY DEF IInv
  <2>2. CASE e = c
    BY <2>2 DEF IInv, TypeOK
  <2>3. CASE e # c
    BY <2>1, <2>3 DEF IInv, TypeOK
  <2> QED BY <2>2, <2>3
<1> QED BY <1>1, <1>2 DEF IInv, conf

(* The same for a handler that ends in Enter. *)
LEMMA EnterStep ==
  ASSUME IInv, NEW c \in Conns, NEW r \in SocksType, NEW f \in FdsType,
         NEW d \in DnsType, NEW n \in NetType,
         Enter(c, r, f),
         dns' = [dns EXCEPT ![c] = d], net' = [net EXCEPT ![c] = n],
         Acceptable(r, f, d, n, known),
         UNCHANGED <<conf, historic, proc>>
  PROVE  IInv'
<1> DEFINE g == IF r.st \in OverStates THEN CloseBoth(f) ELSE f
<1>1. g \in FdsType /\ Conforms(r, g, d, n, known)
  BY EnterConforms
<1>2. socks' = [socks EXCEPT ![c] = r] /\ fds' = [fds EXCEPT ![c] = g]
  BY DEF Enter
<1>3. current' \in Int /\ historic' \in Nat /\ proc' \in {"up", "aborted"}
  BY DEF Enter, IInv, TypeOK
<1> HIDE DEF g
<1> QED BY <1>1, <1>2, <1>3, OneConnection

-----------------------------------------------------------------------------
(* Where messages end. *)
LEMMA MessageEnds ==
  ASSUME NEW s \in AllScripts
  PROVE  /\ HelloLen \in Nat \ {0} /\ AuthEnd(s) \in Nat /\ RequestEnd(s) \in Nat
         /\ HelloLen <= AuthEnd(s) /\ AuthEnd(s) < RequestEnd(s)
BY ConstantsAssumption DEF AuthEnd, RequestEnd

(* recv() and the parser after it: everything sent has been received, and what
   the parser used has not shrunk. *)
LEMMA ConsumeFacts ==
  ASSUME IInv, NEW c \in Conns, Recv(c) >= 0, NEW end \in Nat
  PROVE  LET r == Consume(c, Recv(c), end)
         IN  /\ r \in SocksType
             /\ r = [socks[c] EXCEPT !.got = r.got, !.used = r.used]
             /\ r.got = net[c].sent /\ r.used <= r.got
             /\ r.used = Least(end, net[c].sent)
<1>1. /\ socks[c] \in SocksType /\ net[c] \in NetType
      /\ socks[c].used <= socks[c].got /\ socks[c].got <= net[c].sent
  BY DEF IInv, TypeOK, Conforms, Counted
<1>2. Recv(c) = net[c].sent - socks[c].got
  BY <1>1 DEF Recv
<1>3. socks[c].got + Recv(c) = net[c].sent
  BY <1>1, <1>2 DEF SocksType, NetType
<1>4. Consume(c, Recv(c), end) =
        [socks[c] EXCEPT !.got = net[c].sent, !.used = Least(end, net[c].sent)]
  BY <1>3 DEF Consume
<1>5. Least(end, net[c].sent) \in Nat /\ Least(end, net[c].sent) <= net[c].sent
  BY <1>1 DEF Least, NetType
<1> QED BY <1>1, <1>4, <1>5 DEF SocksType, NetType

(* An error leaves a connection that can be closed. *)
LEMMA FailedAcceptable ==
  ASSUME IInv, NEW c \in Conns, socks[c].st \in HandshakeStates \cup RequestStates,
         NEW r \in SocksType, r.st = "ERROR", r.status # "close", r.used <= r.got,
         r.got <= net[c].sent,
         fds[c].cli # "unused",
         dns[c].thr \notin {"running", "queued"}
  PROVE  Acceptable(r, fds[c], dns[c], net[c], known)
<1> USE DEF HandshakeStates, RequestStates, OverStates
<1>1. Conforms(socks[c], fds[c], dns[c], net[c], known)
  BY DEF IInv
<1>2. Counted(r, dns[c], net[c])
  BY <1>1 DEF Conforms, Counted
<1>3. Answered(r, net[c]) /\ Authorised(r, net[c], known)
  BY DEF Answered, Authorised
<1>4. fds[c].srv # "closed"
  BY <1>1 DEF Conforms, Watched, ServerItems
<1>5. Closable(fds[c], dns[c], net[c])
  BY <1>1, <1>4 DEF Conforms, Owned, Closable
<1> QED BY <1>2, <1>3, <1>5 DEF Acceptable

(* Types of the records of one connection. *)
LEMMA RecordTypes ==
  ASSUME IInv, NEW c \in Conns
  PROVE  /\ socks[c] \in SocksType /\ fds[c] \in FdsType
         /\ dns[c] \in DnsType /\ net[c] \in NetType
         /\ net[c].script \in AllScripts /\ net[c].sent \in Nat
         /\ dns = [dns EXCEPT ![c] = dns[c]] /\ net = [net EXCEPT ![c] = net[c]]
         /\ Conforms(socks[c], fds[c], dns[c], net[c], known)
BY DEF IInv, TypeOK, NetType

(* Updates of the records, and what they leave alone. *)
LEMMA SocksUpdate ==
  ASSUME NEW r \in SocksType, NEW st \in States, NEW w \in 0..ReplyLen,
         NEW x \in {"connecting", "succeeded", "failed", "unsupported", "close"}
  PROVE  /\ [r EXCEPT !.wb = w, !.st = st] \in SocksType
         /\ [r EXCEPT !.st = st, !.status = x, !.wb = w] \in SocksType
         /\ [r EXCEPT !.st = st, !.status = x] \in SocksType
         /\ [r EXCEPT !.st = st] \in SocksType
BY DEF SocksType

(* The same for the descriptors. *)
LEMMA FdsUpdate ==
  ASSUME NEW f \in FdsType, NEW i \in Interests,
         NEW j \in Interests \cup {"none", "open", "closed"}
  PROVE  /\ [f EXCEPT !.cli = i] \in FdsType
         /\ [f EXCEPT !.srv = j] \in FdsType
         /\ [f EXCEPT !.srv = j, !.cli = i] \in FdsType
BY DEF FdsType

(* The states named by the handlers are states. *)
LEMMA StateSets ==
  /\ HandshakeStates \cup RequestStates \cup OverStates \subseteq States
  /\ {"NONE", "REFUSED"} \subseteq States
  /\ ReplyLen \in 0..ReplyLen /\ 0 \in 0..ReplyLen
BY ConstantsAssumption DEF States

-----------------------------------------------------------------------------
(* One lemma per action from here on: it keeps the inductive invariant.  First,
   before any connection is accepted, the invariant holds. *)
LEMMA InitIInv == Init => IInv
<1> SUFFICES ASSUME Init PROVE IInv
  OBVIOUS
<1>1. TypeOK
  <2>1. socks \in [Conns -> SocksType]
    BY ConstantsAssumption DEF Init, SocksType, States
  <2>2. dns \in [Conns -> DnsType] /\ fds \in [Conns -> FdsType]
    BY ConstantsAssumption DEF Init, DnsType, FdsType
  <2>3. net \in [Conns -> NetType]
    <3>1. \A s \in Scripts : s \in AllScripts
      BY ConstantsAssumption
    <3>2. \A s \in Scripts :
            [script |-> s, sent |-> 0, end |-> "open", dest |-> "none"] \in NetType
      BY <3>1 DEF NetType
    <3> QED BY <3>2 DEF Init
  <2>4. auth_enabled \in BOOLEAN /\ small \in BOOLEAN
    BY Zenon DEF Init
  <2> QED BY <2>1, <2>2, <2>3, <2>4 DEF Init, TypeOK
<1>2. ASSUME NEW c \in Conns
      PROVE  Conforms(socks[c], fds[c], dns[c], net[c], known)
  <2>1. /\ socks[c] = [st |-> "NONE", method |-> "none", auth |-> FALSE,
                       status |-> "connecting", small |-> FALSE,
                       got |-> 0, used |-> 0, wb |-> 0]
        /\ dns[c] = [thr |-> "none", n |-> 0, cur |-> 0, dial |-> 0]
        /\ fds[c] = [cli |-> "unused", srv |-> "none", toFree |-> 0, frees |-> 0]
        /\ net[c].sent \in Nat
    BY <1>1 DEF Init, TypeOK, NetType
  <2>2. Watched(socks[c], fds[c])
    BY <2>1 DEF Watched, ClientItem, ServerItems, OverStates
  <2>3. Counted(socks[c], dns[c], net[c]) /\ Owned(socks[c], fds[c], dns[c], net[c])
    BY <2>1 DEF Counted, Owned, OverStates
  <2>4. Answered(socks[c], net[c]) /\ Authorised(socks[c], net[c], known)
    BY <2>1 DEF Answered, Authorised, RequestStates
  <2> QED BY <2>2, <2>3, <2>4 DEF Conforms
<1> QED BY <1>1, <1>2 DEF IInv

(* socks5_passive_accept: a refused connection frees the struct it has just
   allocated, an accepted one waits for its hello. *)
LEMMA AcceptStep ==
  ASSUME IInv, NEW c \in Conns, Accept(c)
  PROVE  IInv'
<1>1. socks[c].st = "NONE" /\ UNCHANGED <<dns, net, conf, metrics, proc>>
  BY DEF Accept
<1>2. Conforms(socks[c], fds[c], dns[c], net[c], known) /\ net[c] \in NetType
  BY RecordTypes
<1>3. fds[c].cli = "unused" /\ fds[c].srv = "none" /\ fds[c].toFree = 0 /\ fds[c].frees = 0
  BY <1>1, <1>2 DEF Conforms, Watched, ClientItem, ServerItems, OverStates, Owned, Counted
<1>4. CASE Refused(c)
  <2> DEFINE r == [socks[c] EXCEPT !.st = "REFUSED"]
             f == [fds[c] EXCEPT !.frees = 1]
  <2>1. r \in SocksType /\ f \in FdsType
    BY RecordTypes DEF SocksType, FdsType, States
  <2>2. socks' = [socks EXCEPT ![c] = r] /\ fds' = [fds EXCEPT ![c] = f]
    BY <1>4, RecordTypes DEF Refused, IInv, TypeOK
  <2>3. Conforms(r, f, dns[c], net[c], known)
    <3>1. Watched(r, f) /\ Owned(r, f, dns[c], net[c])
      BY <1>1, <1>3, RecordTypes
         DEF Watched, ClientItem, ServerItems, OverStates, HandshakeStates, RequestStates,
             Owned, SocksType, FdsType
    <3>2. Counted(r, dns[c], net[c])
      BY <1>1, <1>2, RecordTypes DEF Conforms, Counted, SocksType, HandshakeStates
    <3>3. Answered(r, net[c]) /\ Authorised(r, net[c], known)
      BY <1>1, <1>2, RecordTypes
         DEF Conforms, Answered, Authorised, SocksType, RequestStates, OverStates
    <3> QED BY <3>1, <3>2, <3>3 DEF Conforms
  <2> HIDE DEF r, f
  <2> QED BY <1>1, <2>1, <2>2, <2>3, OneConnection, RecordTypes DEF metrics, IInv, TypeOK
<1>5. CASE /\ socks' = [socks EXCEPT ![c].st = "HELLO_READ", ![c].small = small]
           /\ fds' = [fds EXCEPT ![c].cli = "OP_READ"]
  <2> DEFINE r == [socks[c] EXCEPT !.st = "HELLO_READ", !.small = small]
             f == [fds[c] EXCEPT !.cli = "OP_READ"]
  <2>1. r \in SocksType /\ f \in FdsType
    <3>1. small \in BOOLEAN
      BY DEF IInv, TypeOK
    <3>2. "HELLO_READ" \in States
      BY DEF States, HandshakeStates
    <3>3. r \in SocksType
      BY <3>1, <3>2, RecordTypes, Zenon DEF SocksType
    <3> QED BY <3>3, RecordTypes DEF FdsType, Interests
  <2>2. socks' = [socks EXCEPT ![c] = r] /\ fds' = [fds EXCEPT ![c] = f]
    BY <1>5, RecordTypes DEF IInv, TypeOK
  <2>3. Conforms(r, f, dns[c], net[c], known)
    <3>1. Watched(r, f) /\ Owned(r, f, dns[c], net[c])
      BY <1>1, <1>3, RecordTypes
         DEF Watched, ClientItem, ServerItems, OverStates, HandshakeStates, RequestStates,
             Owned, SocksType, FdsType
    <3>2. Counted(r, dns[c], net[c])
      BY <1>1, <1>2, RecordTypes DEF Conforms, Counted, SocksType, HandshakeStates
    <3>3. Answered(r, net[c]) /\ Authorised(r, net[c], known)
      BY <1>1, <1>2, RecordTypes
         DEF Conforms, Answered, Authorised, SocksType, RequestStates, OverStates
    <3> QED BY <3>1, <3>2, <3>3 DEF Conforms
  <2> HIDE DEF r, f
  <2> QED BY <1>1, <2>1, <2>2, <2>3, OneConnection, RecordTypes DEF metrics, IInv, TypeOK
<1> QED BY <1>4, <1>5 DEF Accept

(* An error branch of a handler keeps the invariant. *)
LEMMA FailedStep ==
  ASSUME IInv, NEW c \in Conns,
         socks[c].st \in HandshakeStates \cup {"REQUEST_READ", "REQUEST_WRITE"},
         Enter(c, Failed(c), fds[c]), UNCHANGED <<dns, net, conf, historic, proc>>
  PROVE  IInv'
<1>1. Conforms(socks[c], fds[c], dns[c], net[c], known)
  BY RecordTypes
<1>2. /\ Failed(c) \in SocksType /\ Failed(c).st = "ERROR"
      /\ Failed(c).status = socks[c].status
      /\ Failed(c).used = socks[c].used /\ Failed(c).got = socks[c].got
  BY RecordTypes DEF Failed, SocksType, States, OverStates
<1>3. /\ fds[c].cli # "unused" /\ socks[c].status # "close"
      /\ dns[c].thr \notin {"running", "queued"}
      /\ socks[c].used <= socks[c].got /\ socks[c].got <= net[c].sent
  BY <1>1 DEF Conforms, Watched, ClientItem, Answered, Counted, HandshakeStates
<1>4. Acceptable(Failed(c), fds[c], dns[c], net[c], known)
  BY <1>2, <1>3, FailedAcceptable DEF HandshakeStates, RequestStates
<1> QED BY <1>2, <1>4, EnterStep, RecordTypes

(* hello_read: the method chosen was offered, or is none. *)
LEMMA HelloReadStep ==
  ASSUME IInv, NEW c \in Conns, HelloRead(c)
  PROVE  IInv'
<1> DEFINE s == net[c].script
           n == Recv(c)
           k == Consume(c, n, HelloLen)
           r == [k EXCEPT !.st = "HELLO_WRITE", !.method = SelectedMethod(s), !.wb = ReplyLen]
           f == [fds[c] EXCEPT !.cli = "OP_WRITE"]
<1>1. socks[c].st = "HELLO_READ" /\ UNCHANGED <<dns, net, conf, historic, proc>>
  BY DEF HelloRead, ReadReady
<1>2. Conforms(socks[c], fds[c], dns[c], net[c], known)
  BY RecordTypes
<1>3. CASE n > 0 /\ Enter(c, r, f)
  <2>1. n >= 0 /\ HelloLen \in Nat /\ ReplyLen \in Nat
    <3>1. n \in Int
      BY RecordTypes DEF Recv, SocksType, NetType
    <3> QED BY <1>3, <3>1, ConstantsAssumption
  <2>2. /\ k \in SocksType /\ k.got = net[c].sent /\ k.used <= k.got
        /\ k = [socks[c] EXCEPT !.got = k.got, !.used = k.used]
    BY <2>1, ConsumeFacts
  <2>3. SelectedMethod(s) \in s.offers \cup {"none"} /\ SelectedMethod(s) \in Methods \cup {"none"}
    BY DEF SelectedMethod, Methods
  <2> HIDE DEF k
  <2>4. r \in SocksType /\ f \in FdsType
    <3>1. \A m \in Methods \cup {"none"}, w \in 0..ReplyLen, st \in States :
            [k EXCEPT !.st = st, !.method = m, !.wb = w] \in SocksType
      BY <2>2 DEF SocksType
    <3>2. r \in SocksType
      BY <3>1, <2>3, StateSets DEF HandshakeStates
    <3> QED BY <3>2, RecordTypes DEF FdsType, Interests
  <2>5. r.st = "HELLO_WRITE" /\ r.method = SelectedMethod(s) /\ r.status = socks[c].status
        /\ r.got = k.got /\ r.used = k.used
    BY <2>2, RecordTypes DEF SocksType
  <2>6. Watched(r, f) /\ Owned(r, f, dns[c], net[c])
    BY <2>5, <1>1, <1>2, RecordTypes
       DEF Conforms, Watched, ClientItem, ServerItems, Owned, OverStates, HandshakeStates, FdsType
  <2>7. Counted(r, dns[c], net[c]) /\ Answered(r, net[c]) /\ Authorised(r, net[c], known)
    BY <2>2, <2>3, <2>5, <1>1, <1>2, RecordTypes
       DEF Conforms, Counted, Answered, Authorised, OverStates, HandshakeStates,
           RequestStates, NetType
  <2>8. Acceptable(r, f, dns[c], net[c], known)
    BY <2>5, <2>6, <2>7 DEF Acceptable, OverStates
  <2> HIDE DEF r, f
  <2> QED BY <1>1, <1>3, <2>4, <2>8, EnterStep, RecordTypes
<1>4. CASE Enter(c, Failed(c), fds[c])
  BY <1>1, <1>4, FailedStep DEF HandshakeStates
<1> QED BY <1>3, <1>4 DEF HelloRead

(* A reply that leaves in part: only write_buffer changes. *)
LEMMA PartialSendStep ==
  ASSUME IInv, NEW c \in Conns, NEW n \in Send(c), n >= 0, n < socks[c].wb,
         socks[c].st \in HandshakeStates \cup {"REQUEST_WRITE"},
         Enter(c, [socks[c] EXCEPT !.wb = @ - n], fds[c]),
         UNCHANGED <<dns, net, conf, historic, proc>>
  PROVE  IInv'
<1> DEFINE r == [socks[c] EXCEPT !.wb = @ - n]
<1>1. Conforms(socks[c], fds[c], dns[c], net[c], known)
  BY RecordTypes
<1>2. n \in Int
  BY RecordTypes DEF Send, SocksType
<1>3. r \in SocksType
  BY <1>2, RecordTypes, ConstantsAssumption DEF SocksType
<1>4. /\ r.st = socks[c].st /\ r.status = socks[c].status /\ r.method = socks[c].method
      /\ r.auth = socks[c].auth /\ r.got = socks[c].got /\ r.used = socks[c].used
  BY RecordTypes DEF SocksType
<1>5. Acceptable(r, fds[c], dns[c], net[c], known)
  BY <1>1, <1>4
     DEF Conforms, Acceptable, Watched, Owned, Counted, Answered, Authorised, OverStates,
         HandshakeStates
<1> HIDE DEF r
<1> QED BY <1>3, <1>5, EnterStep, RecordTypes DEF r

(* hello_write: whatever the setting has become, the state that follows is the
   one of the method the client was told. *)
LEMMA HelloWriteStep ==
  ASSUME IInv, NEW c \in Conns, HelloWrite(c)
  PROVE  IInv'
<1>1. socks[c].st = "HELLO_WRITE" /\ UNCHANGED <<dns, net, conf, historic, proc>>
  BY DEF HelloWrite, WriteReady
<1>2. Conforms(socks[c], fds[c], dns[c], net[c], known)
  BY RecordTypes
<1>3. CASE Enter(c, Failed(c), fds[c])
  BY <1>1, <1>3, FailedStep DEF HandshakeStates
<1>4. CASE \E n \in Send(c) : /\ n >= 0 /\ n < socks[c].wb
                              /\ Enter(c, [socks[c] EXCEPT !.wb = @ - n], fds[c])
  BY <1>1, <1>4, PartialSendStep DEF HandshakeStates
<1> DEFINE r == [socks[c] EXCEPT !.wb = 0, !.st = AfterHello(socks[c].method)]
           f == [fds[c] EXCEPT !.cli = "OP_READ"]
<1>5. CASE Enter(c, r, f)
  <2>1. /\ AfterHello(socks[c].method) \in {"AUTH_READ", "REQUEST_READ", "DONE"}
        /\ AfterHello(socks[c].method) = "AUTH_READ" => socks[c].method = "auth"
        /\ AfterHello(socks[c].method) = "REQUEST_READ" => socks[c].method = "noauth"
    BY DEF AfterHello
  <2>2. r \in SocksType /\ f \in FdsType
    BY <2>1, RecordTypes, SocksUpdate, FdsUpdate, StateSets
       DEF HandshakeStates, RequestStates, OverStates, Interests
  <2>3. /\ r.st \in {"AUTH_READ", "REQUEST_READ", "DONE"}
        /\ r.st = "AUTH_READ" => r.method = "auth"
        /\ r.st = "REQUEST_READ" => r.method = "noauth"
        /\ r.status = socks[c].status /\ r.method = socks[c].method
        /\ r.got = socks[c].got /\ r.used = socks[c].used
    BY <2>1, RecordTypes DEF SocksType
  <2>4. Counted(r, dns[c], net[c]) /\ Answered(r, net[c]) /\ Authorised(r, net[c], known)
    BY <2>3, <1>1, <1>2
       DEF Conforms, Counted, Answered, Authorised, OverStates, HandshakeStates, RequestStates
  <2>5. f.cli = "OP_READ" /\ f.srv = fds[c].srv /\ f.toFree = fds[c].toFree
        /\ f.frees = fds[c].frees /\ f.srv = "none"
    BY <1>1, <1>2, RecordTypes DEF FdsType, Conforms, Watched, ServerItems, OverStates
  <2> HIDE DEF r, f
  <2>6. Acceptable(r, f, dns[c], net[c], known)
    <3>1. CASE r.st = "DONE"
      <4>1. Closable(f, dns[c], net[c])
        BY <2>5, <1>1, <1>2 DEF Conforms, Closable, Owned, HandshakeStates
      <4> QED BY <3>1, <2>4, <4>1 DEF Acceptable, OverStates
    <3>2. CASE r.st # "DONE"
      <4>1. Watched(r, f) /\ Owned(r, f, dns[c], net[c])
        BY <3>2, <2>3, <2>5, <1>1, <1>2
           DEF Conforms, Watched, ClientItem, ServerItems, Owned, OverStates, HandshakeStates
      <4> QED BY <3>2, <2>3, <2>4, <4>1 DEF Acceptable, OverStates
    <3> QED BY <3>1, <3>2
  <2> QED BY <1>1, <1>5, <2>2, <2>6, EnterStep, RecordTypes
<1> QED BY <1>3, <1>4, <1>5 DEF HelloWrite

(* auth_read: a user is authenticated by a credential of the table. *)
LEMMA AuthReadStep ==
  ASSUME IInv, NEW c \in Conns, AuthRead(c)
  PROVE  IInv'
<1> DEFINE s == net[c].script
           n == Recv(c)
           k == Consume(c, n, AuthEnd(s))
           r == [k EXCEPT !.st = "AUTH_WRITE", !.auth = s.auth \in users, !.wb = ReplyLen]
           f == [fds[c] EXCEPT !.cli = "OP_WRITE"]
<1>1. socks[c].st = "AUTH_READ" /\ UNCHANGED <<dns, net, conf, historic, proc>>
  BY DEF AuthRead, ReadReady
<1>2. Conforms(socks[c], fds[c], dns[c], net[c], known)
  BY RecordTypes
<1>3. CASE Enter(c, Failed(c), fds[c])
  BY <1>1, <1>3, FailedStep DEF HandshakeStates
<1>4. CASE ~(n < 0)
  <2>1. n >= 0 /\ AuthEnd(s) \in Nat
    <3>1. n \in Int
      BY RecordTypes DEF Recv, SocksType, NetType
    <3> QED BY <1>4, <3>1, MessageEnds, RecordTypes
  <2>2. /\ k \in SocksType /\ k.got = net[c].sent /\ k.used <= k.got
        /\ k = [socks[c] EXCEPT !.got = k.got, !.used = k.used]
        /\ k.used = Least(AuthEnd(s), net[c].sent)
        /\ k.got = socks[c].got + n
    <3>1. k.got = socks[c].got + n
      BY RecordTypes DEF Consume, SocksType
    <3> QED BY <2>1, <3>1, ConsumeFacts
  <2> HIDE DEF k
  <2>3. /\ k.st = "AUTH_READ" /\ k.status = socks[c].status
        /\ k.method = socks[c].method /\ k.auth = socks[c].auth
        /\ k.used <= k.got /\ k.got <= net[c].sent
    <3>1. socks[c] \in SocksType /\ net[c].sent \in Nat
      BY RecordTypes
    <3>2. k.got <= net[c].sent
      BY <2>2, <3>1
    <3> QED BY <2>2, <1>1, <3>1, <3>2 DEF SocksType
  <2>4. CASE Enter(c, k, fds[c])
    <3>1. Counted(k, dns[c], net[c])
      BY <1>1, <1>2, <2>3 DEF Conforms, Counted, HandshakeStates
    <3>2. Answered(k, net[c]) /\ Authorised(k, net[c], known)
      BY <1>1, <1>2, <2>3
         DEF Conforms, Answered, Authorised, OverStates, HandshakeStates, RequestStates
    <3>3. Watched(k, fds[c]) /\ Owned(k, fds[c], dns[c], net[c])
      BY <1>1, <1>2, <2>3 DEF Conforms, Watched, Owned
    <3>4. Acceptable(k, fds[c], dns[c], net[c], known)
      BY <2>3, <3>1, <3>2, <3>3 DEF Acceptable, OverStates
    <3> QED BY <1>1, <2>2, <2>4, <3>4, EnterStep, RecordTypes
  <2>5. CASE s.auth # Absent /\ socks[c].got + n >= AuthEnd(s) /\ Enter(c, r, f)
    <3>1. (s.auth \in users) \in BOOLEAN /\ users \subseteq known
      BY DEF IInv, TypeOK
    <3>2. r \in SocksType /\ f \in FdsType
      <4>1. \A a \in BOOLEAN, w \in 0..ReplyLen, st \in States :
              [k EXCEPT !.st = st, !.auth = a, !.wb = w] \in SocksType
        BY <2>2 DEF SocksType
      <4> QED BY <4>1, <3>1, StateSets, FdsUpdate, RecordTypes DEF HandshakeStates, Interests
    <3>3. /\ r.st = "AUTH_WRITE" /\ r.method = socks[c].method /\ r.status = socks[c].status
          /\ r.got = k.got /\ r.used = k.used
      BY <2>2, <2>3 DEF SocksType
    <3>4. r.auth => s.auth \in known
      <4>1. r.auth = (s.auth \in users)
        BY <2>2 DEF SocksType
      <4> QED BY <4>1, <3>1
    <3>5. /\ f.cli = "OP_WRITE" /\ f.srv = fds[c].srv /\ f.toFree = fds[c].toFree
          /\ f.frees = fds[c].frees
      BY RecordTypes DEF FdsType
    <3>6. r.used >= AuthEnd(s)
      BY <2>1, <2>2, <2>5, <3>3, RecordTypes DEF Least, NetType
    <3> HIDE DEF r, f
    <3>7. Counted(r, dns[c], net[c]) /\ Answered(r, net[c]) /\ Authorised(r, net[c], known)
      <4>1. Counted(r, dns[c], net[c])
        BY <1>1, <1>2, <2>3, <3>3 DEF Conforms, Counted, HandshakeStates
      <4>2. Answered(r, net[c])
        BY <1>1, <1>2, <3>3 DEF Conforms, Answered, OverStates
      <4>3. Authorised(r, net[c], known)
        BY <1>1, <1>2, <3>3, <3>4, <3>6 DEF Conforms, Authorised, RequestStates
      <4> QED BY <4>1, <4>2, <4>3
    <3>8. Watched(r, f) /\ Owned(r, f, dns[c], net[c])
      BY <1>1, <1>2, <3>3, <3>5
         DEF Conforms, Watched, ClientItem, ServerItems, Owned, OverStates, HandshakeStates
    <3>9. Acceptable(r, f, dns[c], net[c], known)
      BY <3>3, <3>7, <3>8 DEF Acceptable, OverStates
    <3> QED BY <1>1, <2>5, <3>2, <3>9, EnterStep, RecordTypes
  <2> QED BY <1>3, <2>4, <2>5 DEF AuthRead, k
<1>5. CASE n < 0
  BY <1>3, <1>5 DEF AuthRead
<1> QED BY <1>4, <1>5

(* auth_write: only an authenticated user goes on to send a request. *)
LEMMA AuthWriteStep ==
  ASSUME IInv, NEW c \in Conns, AuthWrite(c)
  PROVE  IInv'
<1>1. socks[c].st = "AUTH_WRITE" /\ UNCHANGED <<dns, net, conf, historic, proc>>
  BY DEF AuthWrite, WriteReady
<1>2. Conforms(socks[c], fds[c], dns[c], net[c], known)
  BY RecordTypes
<1>3. CASE Enter(c, Failed(c), fds[c])
  BY <1>1, <1>3, FailedStep DEF HandshakeStates
<1>4. CASE \E n \in Send(c) : /\ n >= 0 /\ n < socks[c].wb
                              /\ Enter(c, [socks[c] EXCEPT !.wb = @ - n], fds[c])
  BY <1>1, <1>4, PartialSendStep DEF HandshakeStates
<1>5. CASE Enter(c, [socks[c] EXCEPT !.wb = 0, !.st = "DONE"], fds[c])
  <2> DEFINE r == [socks[c] EXCEPT !.wb = 0, !.st = "DONE"]
  <2>1. /\ r \in SocksType /\ r.st = "DONE" /\ r.status = socks[c].status
        /\ r.got = socks[c].got /\ r.used = socks[c].used
    <3>1. r \in SocksType
      BY SocksUpdate, StateSets, RecordTypes DEF OverStates
    <3> QED BY <3>1, RecordTypes DEF SocksType
  <2> HIDE DEF r
  <2>2. Closable(fds[c], dns[c], net[c])
    BY <1>1, <1>2
       DEF Conforms, Watched, ClientItem, ServerItems, Closable, Owned, HandshakeStates,
           OverStates
  <2>3. Counted(r, dns[c], net[c]) /\ Answered(r, net[c]) /\ Authorised(r, net[c], known)
    BY <2>1, <1>1, <1>2
       DEF Conforms, Counted, Answered, Authorised, OverStates, HandshakeStates, RequestStates
  <2>4. Acceptable(r, fds[c], dns[c], net[c], known)
    BY <2>1, <2>2, <2>3 DEF Acceptable, OverStates
  <2> QED BY <1>1, <1>5, <2>1, <2>4, EnterStep, RecordTypes DEF r
<1>6. CASE socks[c].auth /\ Enter(c, [socks[c] EXCEPT !.wb = 0, !.st = "REQUEST_READ"],
                                  [fds[c] EXCEPT !.cli = "OP_READ"])
  <2> DEFINE r == [socks[c] EXCEPT !.wb = 0, !.st = "REQUEST_READ"]
             f == [fds[c] EXCEPT !.cli = "OP_READ"]
  <2>1. /\ r \in SocksType /\ r.st = "REQUEST_READ" /\ r.status = socks[c].status
        /\ r.method = socks[c].method /\ r.got = socks[c].got /\ r.used = socks[c].used
    <3>1. r \in SocksType
      BY SocksUpdate, StateSets, RecordTypes DEF RequestStates
    <3> QED BY <3>1, RecordTypes DEF SocksType
  <2>2. /\ f \in FdsType /\ f.cli = "OP_READ" /\ f.srv = fds[c].srv
        /\ f.toFree = fds[c].toFree /\ f.frees = fds[c].frees
    BY RecordTypes DEF FdsType, Interests
  <2> HIDE DEF r, f
  <2>3. Counted(r, dns[c], net[c]) /\ Answered(r, net[c]) /\ Authorised(r, net[c], known)
    BY <2>1, <1>1, <1>2, <1>6
       DEF Conforms, Counted, Answered, Authorised, OverStates, HandshakeStates, RequestStates
  <2>4. Watched(r, f) /\ Owned(r, f, dns[c], net[c])
    BY <1>1, <1>2, <2>1, <2>2
       DEF Conforms, Watched, ClientItem, ServerItems, Owned, OverStates, HandshakeStates
  <2>5. Acceptable(r, f, dns[c], net[c], known)
    BY <2>1, <2>3, <2>4 DEF Acceptable, OverStates
  <2> QED BY <1>1, <1>6, <2>1, <2>2, <2>5, EnterStep, RecordTypes DEF r, f
<1> QED BY <1>3, <1>4, <1>5, <1>6 DEF AuthWrite

-----------------------------------------------------------------------------
(* request_connect, whoever calls it: before a second address, no server
   descriptor exists and nothing has been closed. *)
Connectable(r, f, d, n) ==
  /\ r.st \in {"REQUEST_READ", "REQUEST_RESOLV", "REQUEST_CONNECTING"}
  /\ r.status \notin {"succeeded", "close"}
  /\ r.used <= r.got /\ r.got <= n.sent
  /\ d.cur <= d.n /\ (d.cur = 0 => d.n = 0)
  /\ d.thr \notin {"running", "queued"}
  /\ f.cli # "unused" /\ f.srv \in {"none", "OP_WRITE"}
  /\ d.cur <= 1 => f.srv = "none" /\ f.toFree = 0 /\ f.frees = 0

(* next_ip advances within the list of addresses. *)
LEMMA NextIpFacts ==
  ASSUME NEW d \in DnsType, d.cur <= d.n, NEW k \in 0..(d.n - d.cur)
  PROVE  LET e == NextIp(d, k)
         IN  /\ e \in DnsType /\ e.cur = d.cur + k /\ e.cur <= e.n
             /\ e.n = d.n /\ e.thr = d.thr
<1>1. /\ d.n \in Nat /\ d.cur \in Nat /\ d.n <= MaxAddrs /\ MaxAddrs \in Nat
      /\ d.cur + k \in 0..MaxAddrs /\ d.cur + k <= d.n
      /\ k # 0 => 1 \in 0..MaxAddrs
  BY ConstantsAssumption DEF DnsType
<1> DEFINE x == IF k = 0 THEN d.dial ELSE 1
<1>2. x \in 0..MaxAddrs
  BY <1>1 DEF DnsType
<1>3. NextIp(d, k) = [d EXCEPT !.cur = d.cur + k, !.dial = x]
  BY DEF NextIp
<1> HIDE DEF x
<1> QED BY <1>1, <1>2, <1>3 DEF DnsType

(* request_connect, on any address of the list and however it ends. *)
LEMMA ConnectStep ==
  ASSUME IInv, NEW c \in Conns, NEW r \in SocksType, NEW f \in FdsType, NEW d \in DnsType,
         Connect(c, r, f, d), UNCHANGED <<conf, historic, proc>>,
         Connectable(r, f, d, net[c]), Authorised(r, net[c], known)
  PROVE  IInv'
<1>1. PICK k \in 0..(d.n - d.cur) :
        LET e == NextIp(d, k)
            s == IF k = 0 THEN r ELSE [r EXCEPT !.status = "failed"]
            g == UnregisterServer(f)
        IN  /\ dns' = [dns EXCEPT ![c] = e]
            /\ \/ /\ Enter(c, [s EXCEPT !.st = "REQUEST_CONNECTING"],
                             [g EXCEPT !.srv = "OP_WRITE", !.cli = "OP_NOOP"])
                  /\ net' = [net EXCEPT ![c].dest = "pending"]
               \/ /\ Enter(c, [s EXCEPT !.st = "REQUEST_WRITE", !.status = "failed",
                                        !.wb = ReplyLen],
                             [g EXCEPT !.srv = "open", !.cli = "OP_WRITE"])
                  /\ net' = [net EXCEPT ![c].dest = "immediate"]
               \/ /\ Enter(c, [s EXCEPT !.st = "ERROR", !.status = "failed"],
                             [g EXCEPT !.srv = "open", !.cli = "OP_WRITE"])
                  /\ net' = [net EXCEPT ![c].dest = "immediate"]
               \/ /\ Enter(c, [s EXCEPT !.st = "ERROR"], [g EXCEPT !.srv = "none"])
                  /\ net' = [net EXCEPT ![c].dest = "none"]
               \/ /\ Enter(c, [s EXCEPT !.st = "ERROR"], [g EXCEPT !.srv = "open"])
                  /\ net' = [net EXCEPT ![c].dest = "immediate"]
  BY Zenon DEF Connect
<1> DEFINE e == NextIp(d, k)
           s == IF k = 0 THEN r ELSE [r EXCEPT !.status = "failed"]
           g == UnregisterServer(f)
           N(x) == [net[c] EXCEPT !.dest = x]
<1>2. /\ e \in DnsType /\ e.cur <= e.n /\ (e.cur = 0 => e.n = 0)
      /\ e.thr \notin {"running", "queued"} /\ d.cur <= e.cur
  BY NextIpFacts DEF Connectable, DnsType
<1>3. /\ s \in SocksType /\ s.status \notin {"succeeded", "close"}
      /\ s.st = r.st /\ s.method = r.method
      /\ s.used = r.used /\ s.got = r.got
  BY DEF SocksType, Connectable
<1>4. /\ g \in FdsType /\ g.cli = f.cli /\ g.cli # "unused"
      /\ e.cur <= 1 => g.srv = "none" /\ g.toFree = 0 /\ g.frees = 0
  <2>1. g \in FdsType /\ g.cli = f.cli
    BY UnregisterServerFacts
  <2>2. f.srv = "none" => g = f
    BY UnregisterServerFacts DEF Registered, Interests
  <2>3. e.cur <= 1 => d.cur <= 1
    BY <1>2 DEF DnsType
  <2> QED BY <2>1, <2>2, <2>3 DEF Connectable
<1>5. ASSUME NEW x \in {"pending", "immediate", "none"}
      PROVE  /\ N(x) \in NetType /\ N(x).dest = x /\ N(x).sent = net[c].sent
             /\ N(x).script = net[c].script
             /\ [net EXCEPT ![c].dest = x] = [net EXCEPT ![c] = N(x)]
  BY RecordTypes DEF NetType
<1>6. /\ s.method \in net[c].script.offers
      /\ s.method = "auth" =>
           net[c].script.auth \in known /\ s.used >= AuthEnd(net[c].script)
  BY <1>3 DEF Authorised, Connectable, RequestStates
<1> HIDE DEF e, s, g
(* Whatever the result, the parts that do not depend on the descriptors. *)
<1>7. ASSUME NEW q \in SocksType, NEW x \in {"pending", "immediate", "none"},
             q.st \in {"REQUEST_CONNECTING", "REQUEST_WRITE", "ERROR"},
             q.status \notin {"succeeded", "close"}, q.method = s.method,
             q.used = s.used, q.got = s.got
      PROVE  Counted(q, e, N(x)) /\ Answered(q, N(x)) /\ Authorised(q, N(x), known)
  <2>1. Counted(q, e, N(x))
    BY <1>2, <1>3, <1>5, <1>7 DEF Counted, Connectable, HandshakeStates
  <2>2. Answered(q, N(x))
    BY <1>7 DEF Answered
  <2>3. Authorised(q, N(x), known)
    BY <1>5, <1>6, <1>7 DEF Authorised, RequestStates
  <2> QED BY <2>1, <2>2, <2>3
<1>8. CASE /\ Enter(c, [s EXCEPT !.st = "REQUEST_CONNECTING"],
                      [g EXCEPT !.srv = "OP_WRITE", !.cli = "OP_NOOP"])
           /\ net' = [net EXCEPT ![c].dest = "pending"]
  <2> DEFINE q == [s EXCEPT !.st = "REQUEST_CONNECTING"]
             h == [g EXCEPT !.srv = "OP_WRITE", !.cli = "OP_NOOP"]
  <2>1. q \in SocksType /\ h \in FdsType
    BY <1>3, <1>4, SocksUpdate, FdsUpdate, StateSets DEF RequestStates, Interests
  <2>2. /\ q.st = "REQUEST_CONNECTING" /\ q.status = s.status /\ q.method = s.method
        /\ q.used = s.used /\ q.got = s.got
    BY <1>3 DEF SocksType
  <2>3. h.srv = "OP_WRITE" /\ h.cli = "OP_NOOP" /\ h.toFree = g.toFree /\ h.frees = g.frees
    BY <1>4 DEF FdsType
  <2> HIDE DEF q, h
  <2>4. Watched(q, h) /\ Owned(q, h, e, N("pending"))
    BY <1>4, <2>2, <2>3 DEF Watched, ClientItem, ServerItems, Owned, OverStates
  <2>5. Acceptable(q, h, e, N("pending"), known)
    BY <1>3, <1>7, <2>1, <2>2, <2>4 DEF Acceptable, OverStates
  <2> QED BY <1>1, <1>2, <1>5, <1>8, <2>1, <2>5, EnterStep DEF q, h, e
<1>9. CASE /\ Enter(c, [s EXCEPT !.st = "REQUEST_WRITE", !.status = "failed", !.wb = ReplyLen],
                      [g EXCEPT !.srv = "open", !.cli = "OP_WRITE"])
           /\ net' = [net EXCEPT ![c].dest = "immediate"]
  <2> DEFINE q == [s EXCEPT !.st = "REQUEST_WRITE", !.status = "failed", !.wb = ReplyLen]
             h == [g EXCEPT !.srv = "open", !.cli = "OP_WRITE"]
  <2>1. q \in SocksType /\ h \in FdsType
    BY <1>3, <1>4, SocksUpdate, FdsUpdate, StateSets DEF RequestStates, Interests
  <2>2. /\ q.st = "REQUEST_WRITE" /\ q.status = "failed" /\ q.method = s.method
        /\ q.used = s.used /\ q.got = s.got
    BY <1>3 DEF SocksType
  <2>3. h.srv = "open" /\ h.cli = "OP_WRITE" /\ h.toFree = g.toFree /\ h.frees = g.frees
    BY <1>4 DEF FdsType
  <2> HIDE DEF q, h
  <2>4. Watched(q, h) /\ Owned(q, h, e, N("immediate"))
    BY <1>4, <1>5, <2>2, <2>3 DEF Watched, ClientItem, ServerItems, Owned, OverStates
  <2>5. Acceptable(q, h, e, N("immediate"), known)
    BY <1>3, <1>7, <2>1, <2>2, <2>4 DEF Acceptable, OverStates
  <2> QED BY <1>1, <1>2, <1>5, <1>9, <2>1, <2>5, EnterStep DEF q, h, e
(* The three ways to fail differ in the descriptor that is left. *)
<1>10. ASSUME NEW q \in SocksType, NEW h \in FdsType, NEW x \in {"immediate", "none"},
              q.st = "ERROR", q.status \notin {"succeeded", "close"}, q.method = s.method,
              q.used = s.used, q.got = s.got,
              h.cli # "unused", h.srv \in {"none", "open"}, h.srv = "open" => x = "immediate",
              h.toFree = g.toFree, h.frees = g.frees,
              Enter(c, q, h), net' = [net EXCEPT ![c].dest = x]
       PROVE  IInv'
  <2>1. Closable(h, e, N(x))
    BY <1>4, <1>5, <1>10 DEF Closable
  <2>2. Acceptable(q, h, e, N(x), known)
    BY <1>7, <1>10, <2>1 DEF Acceptable, OverStates
  <2> QED BY <1>1, <1>2, <1>5, <1>10, <2>2, EnterStep DEF e
<1>11. CASE /\ Enter(c, [s EXCEPT !.st = "ERROR", !.status = "failed"],
                       [g EXCEPT !.srv = "open", !.cli = "OP_WRITE"])
            /\ net' = [net EXCEPT ![c].dest = "immediate"]
  <2> DEFINE q == [s EXCEPT !.st = "ERROR", !.status = "failed"]
             h == [g EXCEPT !.srv = "open", !.cli = "OP_WRITE"]
  <2>1. q \in SocksType /\ h \in FdsType
    BY <1>3, <1>4, SocksUpdate, FdsUpdate, StateSets DEF OverStates, Interests
  <2>2. /\ q.st = "ERROR" /\ q.status = "failed" /\ q.method = s.method
        /\ q.used = s.used /\ q.got = s.got
    BY <1>3 DEF SocksType
  <2>3. h.srv = "open" /\ h.cli = "OP_WRITE" /\ h.toFree = g.toFree /\ h.frees = g.frees
    BY <1>4 DEF FdsType
  <2> HIDE DEF q, h
  <2> QED BY <1>10, <1>11, <2>1, <2>2, <2>3 DEF q, h
<1>12. ASSUME NEW j \in {"none", "open"}, NEW x \in {"immediate", "none"},
              j = "open" => x = "immediate",
              Enter(c, [s EXCEPT !.st = "ERROR"], [g EXCEPT !.srv = j]),
              net' = [net EXCEPT ![c].dest = x]
       PROVE  IInv'
  <2> DEFINE q == [s EXCEPT !.st = "ERROR"]
             h == [g EXCEPT !.srv = j]
  <2>1. q \in SocksType /\ h \in FdsType
    BY <1>3, <1>4, SocksUpdate, FdsUpdate, StateSets DEF OverStates, Interests
  <2>2. /\ q.st = "ERROR" /\ q.status = s.status /\ q.method = s.method
        /\ q.used = s.used /\ q.got = s.got
    BY <1>3 DEF SocksType
  <2>3. h.srv = j /\ h.cli = g.cli /\ h.toFree = g.toFree /\ h.frees = g.frees
    BY <1>4 DEF FdsType
  <2> HIDE DEF q, h
  <2> QED BY <1>3, <1>4, <1>10, <1>12, <2>1, <2>2, <2>3 DEF q, h
<1> QED BY <1>1, <1>8, <1>9, <1>11, <1>12 DEF e, s, g

-----------------------------------------------------------------------------
(* request_read and request_process: every branch leaves the descriptors as the
   next state needs them. *)
LEMMA RequestReadStep ==
  ASSUME IInv, NEW c \in Conns, RequestRead(c)
  PROVE  IInv'
<1> DEFINE s == net[c].script
           n == Recv(c)
           k == Consume(c, n, RequestEnd(s))
<1>1. socks[c].st = "REQUEST_READ" /\ UNCHANGED <<conf, historic, proc>>
  BY DEF RequestRead, ReadReady
<1>2. Conforms(socks[c], fds[c], dns[c], net[c], known)
  BY RecordTypes
<1>3. CASE Enter(c, Failed(c), fds[c]) /\ UNCHANGED <<dns, net>>
  BY <1>1, <1>3, FailedStep
<1>4. CASE ~(n < 0)
  <2>1. n >= 0 /\ RequestEnd(s) \in Nat
    <3>1. n \in Int
      BY RecordTypes DEF Recv, SocksType, NetType
    <3> QED BY <1>4, <3>1, MessageEnds, RecordTypes
  <2>2. /\ k \in SocksType /\ k.got = net[c].sent /\ k.used <= k.got
        /\ k = [socks[c] EXCEPT !.got = k.got, !.used = k.used]
        /\ k.used = Least(RequestEnd(s), net[c].sent)
    BY <2>1, ConsumeFacts
  <2> HIDE DEF k
  <2>3. /\ k.st = "REQUEST_READ" /\ k.status = socks[c].status
        /\ k.status \notin {"succeeded", "close"} /\ k.method = socks[c].method
        /\ k.used <= k.got /\ k.got <= net[c].sent
    <3>1. socks[c] \in SocksType /\ net[c].sent \in Nat
      BY RecordTypes
    <3>2. k.got <= net[c].sent
      BY <2>2, <3>1
    <3>3. socks[c].status \notin {"succeeded", "close"}
      BY <1>1, <1>2 DEF Conforms, Answered, OverStates
    <3> QED BY <2>2, <1>1, <3>1, <3>2, <3>3 DEF SocksType
  <2>4. /\ k.method \in s.offers
        /\ k.method = "auth" => s.auth \in known /\ k.used >= AuthEnd(s)
    <3>1. /\ socks[c].method \in s.offers
          /\ socks[c].method = "auth" => s.auth \in known /\ socks[c].used >= AuthEnd(s)
          /\ socks[c].used <= socks[c].got /\ socks[c].got <= net[c].sent
      BY <1>1, <1>2 DEF Conforms, Authorised, Counted, RequestStates
    <3>2. socks[c].used >= AuthEnd(s) => k.used >= AuthEnd(s)
      BY <2>2, <3>1, RecordTypes, MessageEnds DEF Least, SocksType
    <3> QED BY <2>3, <3>1, <3>2
  <2>5. ASSUME NEW q \in SocksType, NEW d \in DnsType,
               q.st \in {"REQUEST_READ", "REQUEST_RESOLV", "REQUEST_WRITE"},
               q.status \notin {"succeeded", "close"}, q.method = k.method,
               q.used = k.used, q.got = k.got,
               d.n = dns[c].n, d.cur = dns[c].cur,
               d.thr \in {"running", "queued"} => q.st = "REQUEST_RESOLV"
        PROVE  Counted(q, d, net[c]) /\ Answered(q, net[c]) /\ Authorised(q, net[c], known)
    <3>1. Counted(q, d, net[c])
      BY <1>1, <1>2, <2>3, <2>5 DEF Conforms, Counted, DnsType
    <3>2. Answered(q, net[c]) /\ Authorised(q, net[c], known)
      BY <2>4, <2>5 DEF Answered, Authorised, RequestStates
    <3> QED BY <3>1, <3>2
  <2>6. /\ fds[c] \in FdsType /\ fds[c].cli = "OP_READ" /\ fds[c].srv = "none"
        /\ dns[c].cur = 0 /\ dns[c].n = 0 /\ dns[c].thr \notin {"running", "queued"}
        /\ fds[c].toFree = 0 /\ fds[c].frees = 0
    BY <1>1, <1>2, RecordTypes
       DEF Conforms, Watched, ClientItem, ServerItems, Counted, Owned, RequestStates,
           OverStates, DnsType
(* What becomes of the descriptors in the states that follow. *)
  <2>7. ASSUME NEW q \in SocksType, NEW f \in FdsType, NEW d \in DnsType,
               q.st \in {"REQUEST_READ", "REQUEST_RESOLV", "REQUEST_WRITE"},
               q.status \notin {"succeeded", "close"}, q.method = k.method,
               q.used = k.used, q.got = k.got,
               d.n = dns[c].n, d.cur = dns[c].cur,
               d.thr \in {"running", "queued"} => q.st = "REQUEST_RESOLV",
               f.cli = ClientItem(q.st), f.srv = "none", f.toFree = 0, f.frees = 0,
               Enter(c, q, f), dns' = [dns EXCEPT ![c] = d], UNCHANGED net
        PROVE  IInv'
    <3>1. Watched(q, f) /\ Owned(q, f, d, net[c])
      BY <2>7 DEF Watched, ServerItems, Owned, OverStates
    <3>2. Acceptable(q, f, d, net[c], known)
      BY <2>5, <2>7, <3>1 DEF Acceptable, OverStates
    <3> QED BY <1>1, <2>7, <3>2, EnterStep, RecordTypes
  <2>8. CASE Enter(c, k, fds[c]) /\ UNCHANGED <<dns, net>>
    BY <2>2, <2>3, <2>6, <2>7, <2>8, RecordTypes DEF ClientItem
  <2>9. CASE /\ Enter(c, [k EXCEPT !.st = "REQUEST_WRITE", !.status = "unsupported"],
                       [fds[c] EXCEPT !.cli = "OP_WRITE"])
             /\ UNCHANGED <<dns, net>>
    <3> DEFINE q == [k EXCEPT !.st = "REQUEST_WRITE", !.status = "unsupported"]
               f == [fds[c] EXCEPT !.cli = "OP_WRITE"]
    <3>1. q \in SocksType /\ f \in FdsType
      BY <2>2, <2>6, SocksUpdate, FdsUpdate, StateSets DEF RequestStates, Interests
    <3>2. /\ q.st = "REQUEST_WRITE" /\ q.status = "unsupported" /\ q.method = k.method
          /\ q.used = k.used /\ q.got = k.got
      BY <2>2 DEF SocksType
    <3>3. f.cli = "OP_WRITE" /\ f.srv = "none" /\ f.toFree = 0 /\ f.frees = 0
      BY <2>6 DEF FdsType
    <3> HIDE DEF q, f
    <3>4. Enter(c, q, f) /\ UNCHANGED net /\ dns' = [dns EXCEPT ![c] = dns[c]]
      BY <2>9, RecordTypes DEF q, f
    <3>5. f.cli = ClientItem(q.st) /\ dns[c] \in DnsType
      BY <3>2, <3>3, RecordTypes DEF ClientItem
    <3> QED BY <2>6, <2>7, <3>1, <3>2, <3>3, <3>4, <3>5
  <2>10. CASE Connect(c, k, fds[c], dns[c])
    <3>1. Connectable(k, fds[c], dns[c], net[c])
      BY <2>2, <2>3, <2>6, RecordTypes DEF Connectable, DnsType
    <3>2. Authorised(k, net[c], known)
      BY <2>2, <2>3, <2>5, <2>6, RecordTypes
    <3> QED BY <1>1, <2>2, <2>6, <2>10, <3>1, <3>2, ConnectStep, RecordTypes
  <2>11. CASE /\ \E t \in {"running", "lost"} : dns' = [dns EXCEPT ![c].thr = t]
              /\ Enter(c, [k EXCEPT !.st = "REQUEST_RESOLV"],
                       [fds[c] EXCEPT !.cli = "OP_NOOP"])
              /\ UNCHANGED net
    <3> DEFINE q == [k EXCEPT !.st = "REQUEST_RESOLV"]
               f == [fds[c] EXCEPT !.cli = "OP_NOOP"]
    <3>1. PICK t \in {"running", "lost"} : dns' = [dns EXCEPT ![c].thr = t]
      BY <2>11
    <3> DEFINE d == [dns[c] EXCEPT !.thr = t]
    <3>2. /\ d \in DnsType /\ d.n = dns[c].n /\ d.cur = dns[c].cur
          /\ dns' = [dns EXCEPT ![c] = d]
      BY <3>1, RecordTypes DEF DnsType
    <3>3. q \in SocksType /\ f \in FdsType
      BY <2>2, <2>6, SocksUpdate, FdsUpdate, StateSets DEF RequestStates, Interests
    <3>4. /\ q.st = "REQUEST_RESOLV" /\ q.status = k.status /\ q.method = k.method
          /\ q.used = k.used /\ q.got = k.got
      BY <2>2 DEF SocksType
    <3>5. f.cli = "OP_NOOP" /\ f.srv = "none" /\ f.toFree = 0 /\ f.frees = 0
      BY <2>6 DEF FdsType
    <3> HIDE DEF q, f, d
    <3> QED BY <2>3, <2>7, <2>11, <3>2, <3>3, <3>4, <3>5 DEF ClientItem, q, f
  <2>12. CASE /\ Enter(c, [k EXCEPT !.st = "REQUEST_WRITE", !.status = "failed"],
                       [fds[c] EXCEPT !.cli = "OP_WRITE"])
              /\ UNCHANGED <<dns, net>>
    <3> DEFINE q == [k EXCEPT !.st = "REQUEST_WRITE", !.status = "failed"]
               f == [fds[c] EXCEPT !.cli = "OP_WRITE"]
    <3>1. q \in SocksType /\ f \in FdsType
      BY <2>2, <2>6, SocksUpdate, FdsUpdate, StateSets DEF RequestStates, Interests
    <3>2. /\ q.st = "REQUEST_WRITE" /\ q.status = "failed" /\ q.method = k.method
          /\ q.used = k.used /\ q.got = k.got
      BY <2>2 DEF SocksType
    <3>3. f.cli = "OP_WRITE" /\ f.srv = "none" /\ f.toFree = 0 /\ f.frees = 0
      BY <2>6 DEF FdsType
    <3> HIDE DEF q, f
    <3>4. Enter(c, q, f) /\ UNCHANGED net /\ dns' = [dns EXCEPT ![c] = dns[c]]
      BY <2>12, RecordTypes DEF q, f
    <3>5. f.cli = ClientItem(q.st) /\ dns[c] \in DnsType
      BY <3>2, <3>3, RecordTypes DEF ClientItem
    <3> QED BY <2>6, <2>7, <3>1, <3>2, <3>3, <3>4, <3>5
  <2> QED BY <1>3, <2>8, <2>9, <2>10, <2>11, <2>12, Zenon DEF RequestRead, Resolve, k
<1> QED BY <1>3, <1>4, Zenon DEF RequestRead

(* The resolver thread writes the answer and the list of addresses. *)
LEMMA ResolverThreadStep ==
  ASSUME IInv, NEW c \in Conns, ResolverThread(c)
  PROVE  IInv'
<1>1. PICK n \in 0..MaxAddrs, t \in {"queued", "lost"} :
        dns' = [dns EXCEPT ![c] = [thr |-> t, n |-> n, cur |-> Least(1, n), dial |-> 0]]
  BY Zenon DEF ResolverThread
<1> DEFINE d == [thr |-> t, n |-> n, cur |-> Least(1, n), dial |-> 0]
<1>2. /\ Least(1, n) \in 0..MaxAddrs /\ Least(1, n) <= n /\ Least(1, n) <= 1
      /\ Least(1, n) = 0 => n = 0
  BY ConstantsAssumption DEF Least
<1>3. /\ d \in DnsType /\ d.cur <= d.n /\ d.cur <= 1 /\ (d.cur = 0 => d.n = 0)
  BY <1>2, ConstantsAssumption DEF DnsType
<1>4. /\ dns[c].thr = "running" /\ UNCHANGED <<socks, fds, net, conf, metrics, proc>>
  BY DEF ResolverThread
<1>5. /\ Conforms(socks[c], fds[c], dns[c], net[c], known)
      /\ socks[c].st = "REQUEST_RESOLV" /\ dns[c].cur <= 1
  BY <1>4, RecordTypes DEF Conforms, Counted
<1> HIDE DEF d
<1>6. Counted(socks[c], d, net[c])
  BY <1>3, <1>5 DEF Conforms, Counted, HandshakeStates
<1>7. Owned(socks[c], fds[c], d, net[c])
  BY <1>3, <1>5 DEF Conforms, Owned, OverStates, RequestStates
<1>8. Conforms(socks[c], fds[c], d, net[c], known)
  BY <1>5, <1>6, <1>7 DEF Conforms
<1>9. /\ socks' = [socks EXCEPT ![c] = socks[c]] /\ fds' = [fds EXCEPT ![c] = fds[c]]
      /\ net' = [net EXCEPT ![c] = net[c]] /\ dns' = [dns EXCEPT ![c] = d]
  BY <1>1, <1>4, RecordTypes DEF IInv, TypeOK, d
<1>10. socks[c] \in SocksType /\ fds[c] \in FdsType /\ net[c] \in NetType /\ d \in DnsType
  BY <1>3, RecordTypes
<1>11. UNCHANGED conf /\ current' \in Int /\ historic' \in Nat /\ proc' \in {"up", "aborted"}
  BY <1>4 DEF metrics, IInv, TypeOK
<1> QED BY <1>8, <1>9, <1>10, <1>11, OneConnection, Zenon

(* The notification of the resolver: the first address is dialled, whatever
   the resolution found. *)
LEMMA ResolvDoneStep ==
  ASSUME IInv, NEW c \in Conns, ResolvDone(c)
  PROVE  IInv'
<1> DEFINE d == [dns[c] EXCEPT !.thr = "none"]
           q == [socks[c] EXCEPT !.status = "failed"]
<1>1. /\ socks[c].st = "REQUEST_RESOLV" /\ fds[c].cli # "unused"
      /\ UNCHANGED <<conf, historic, proc>>
  BY DEF ResolvDone
<1>2. Conforms(socks[c], fds[c], dns[c], net[c], known)
  BY RecordTypes
<1>3. /\ fds[c].srv = "none" /\ fds[c].toFree = 0 /\ fds[c].frees = 0
      /\ dns[c].cur <= 1 /\ dns[c].cur <= dns[c].n /\ (dns[c].cur = 0 => dns[c].n = 0)
      /\ socks[c].used <= socks[c].got /\ socks[c].got <= net[c].sent
      /\ socks[c].status \notin {"succeeded", "close"}
      /\ Authorised(socks[c], net[c], known)
  BY <1>1, <1>2
     DEF Conforms, Watched, ServerItems, Counted, Owned, Answered, OverStates, RequestStates
<1>4. d \in DnsType /\ d.thr = "none" /\ d.n = dns[c].n /\ d.cur = dns[c].cur
  BY RecordTypes DEF DnsType
<1>5. /\ q \in SocksType /\ q.st = socks[c].st /\ q.status = "failed"
      /\ q.method = socks[c].method /\ q.used = socks[c].used /\ q.got = socks[c].got
  BY RecordTypes DEF SocksType
<1>6. Authorised(q, net[c], known)
  BY <1>1, <1>3, <1>5 DEF Authorised, RequestStates
<1>7. CASE d.n > 0 /\ Connect(c, socks[c], fds[c], [d EXCEPT !.dial = 1])
  <2> DEFINE e == [d EXCEPT !.dial = 1]
  <2>1. e \in DnsType /\ e.thr = "none" /\ e.n = dns[c].n /\ e.cur = dns[c].cur
    <3>1. 1 \in 0..MaxAddrs
      BY <1>4, <1>7, ConstantsAssumption DEF DnsType
    <3> QED BY <1>4, <3>1 DEF DnsType
  <2> HIDE DEF e
  <2>2. Connectable(socks[c], fds[c], e, net[c])
    BY <1>1, <1>3, <2>1 DEF Connectable
  <2> QED BY <1>1, <1>3, <1>7, <2>1, <2>2, ConnectStep, RecordTypes DEF e
<1> HIDE DEF d, q
<1>8. CASE Connect(c, q, fds[c], d)
  <2>1. Connectable(q, fds[c], d, net[c])
    BY <1>1, <1>3, <1>4, <1>5 DEF Connectable
  <2> QED BY <1>1, <1>4, <1>5, <1>6, <1>8, <2>1, ConnectStep, RecordTypes
<1>9. CASE /\ dns' = [dns EXCEPT ![c] = d] /\ UNCHANGED net
           /\ Enter(c, [Failed(c) EXCEPT !.status = "failed"], fds[c])
  <2> DEFINE r == [Failed(c) EXCEPT !.status = "failed"]
  <2>1. /\ r \in SocksType /\ r.st = "ERROR" /\ r.status = "failed"
        /\ r.used = socks[c].used /\ r.got = socks[c].got
    BY RecordTypes DEF SocksType, Failed, States, OverStates
  <2> HIDE DEF r
  <2>2. Closable(fds[c], d, net[c])
    BY <1>1, <1>3 DEF Closable
  <2>3. Counted(r, d, net[c]) /\ Answered(r, net[c]) /\ Authorised(r, net[c], known)
    BY <1>3, <1>4, <2>1
       DEF Counted, Answered, Authorised, HandshakeStates, RequestStates
  <2>4. Acceptable(r, fds[c], d, net[c], known)
    BY <2>1, <2>2, <2>3 DEF Acceptable, OverStates
  <2> QED BY <1>1, <1>4, <1>9, <2>1, <2>4, EnterStep, RecordTypes DEF r
<1> QED BY <1>7, <1>8, <1>9 DEF ResolvDone, d, q

(* The answer of the final server, or the news that it did not answer. *)
LEMMA RequestConnectingStep ==
  ASSUME IInv, NEW c \in Conns, RequestConnecting(c)
  PROVE  IInv'
<1>1. /\ socks[c].st = "REQUEST_CONNECTING" /\ fds[c].srv = "OP_WRITE"
      /\ UNCHANGED conf /\ proc' \in {"up", "aborted"}
  BY DEF RequestConnecting
<1>2. Conforms(socks[c], fds[c], dns[c], net[c], known)
  BY RecordTypes
<1>3. /\ fds[c].cli = "OP_NOOP" /\ socks[c].status \notin {"succeeded", "close"}
      /\ dns[c].thr \notin {"running", "queued"}
      /\ Counted(socks[c], dns[c], net[c])
      /\ Owned(socks[c], fds[c], dns[c], net[c])
      /\ Authorised(socks[c], net[c], known)
  BY <1>1, <1>2 DEF Conforms, Watched, ClientItem, Counted, Answered, OverStates
(* The reply is written and the client watched for writing. *)
<1>4. ASSUME NEW x \in {"succeeded", "failed"}, x = "succeeded" => net[c].dest = "up",
             socks' = [socks EXCEPT ![c].st = "REQUEST_WRITE", ![c].status = x,
                                    ![c].wb = ReplyLen],
             fds' = [fds EXCEPT ![c].cli = "OP_WRITE", ![c].srv = "OP_NOOP"],
             current' \in Int, historic' \in Nat, UNCHANGED <<dns, net>>
      PROVE  IInv'
  <2> DEFINE r == [socks[c] EXCEPT !.st = "REQUEST_WRITE", !.status = x, !.wb = ReplyLen]
             f == [fds[c] EXCEPT !.cli = "OP_WRITE", !.srv = "OP_NOOP"]
  <2>1. r \in SocksType
    BY RecordTypes, SocksUpdate, StateSets DEF RequestStates
  <2>2. /\ r.st = "REQUEST_WRITE" /\ r.status = x /\ r.method = socks[c].method
        /\ r.used = socks[c].used /\ r.got = socks[c].got
    BY RecordTypes DEF SocksType
  <2>3. /\ f \in FdsType /\ f.cli = "OP_WRITE" /\ f.srv = "OP_NOOP"
        /\ f.toFree = fds[c].toFree /\ f.frees = fds[c].frees
    BY RecordTypes DEF FdsType, Interests
  <2>4. socks' = [socks EXCEPT ![c] = r] /\ fds' = [fds EXCEPT ![c] = f]
    BY <1>4 DEF IInv, TypeOK
  <2> HIDE DEF r, f
  <2>5. Watched(r, f)
    <3>1. ClientItem("REQUEST_WRITE") = "OP_WRITE"
      BY DEF ClientItem
    <3>2. "OP_NOOP" \in ServerItems("REQUEST_WRITE", x)
      BY DEF ServerItems, OverStates
    <3> QED BY <2>2, <2>3, <3>1, <3>2 DEF Watched
  <2>6. Counted(r, dns[c], net[c])
    BY <1>1, <1>3, <2>2 DEF Counted, HandshakeStates
  <2>7. Owned(r, f, dns[c], net[c])
    BY <1>1, <1>3, <2>2, <2>3 DEF Owned, RequestStates, OverStates
  <2>8. Answered(r, net[c]) /\ Authorised(r, net[c], known)
    BY <1>1, <1>3, <1>4, <2>2 DEF Answered, Authorised, RequestStates
  <2>9. Conforms(r, f, dns[c], net[c], known)
    BY <2>5, <2>6, <2>7, <2>8 DEF Conforms
  <2> QED BY <1>1, <1>4, <2>1, <2>3, <2>4, <2>9, OneConnection, RecordTypes
<1>5. CASE /\ net[c].dest = "up"
           /\ socks' = [socks EXCEPT ![c].st = "REQUEST_WRITE", ![c].status = "succeeded",
                                     ![c].wb = ReplyLen]
           /\ fds' = [fds EXCEPT ![c].cli = "OP_WRITE", ![c].srv = "OP_NOOP"]
           /\ current' = current + 1 /\ historic' = historic + 1
           /\ UNCHANGED <<dns, net>>
  <2>1. current' \in Int /\ historic' \in Nat
    BY <1>5 DEF IInv, TypeOK
  <2> QED BY <1>4, <1>5, <2>1
<1>6. CASE /\ socks' = [socks EXCEPT ![c].st = "REQUEST_WRITE", ![c].status = "failed",
                                     ![c].wb = ReplyLen]
           /\ fds' = [fds EXCEPT ![c].cli = "OP_WRITE", ![c].srv = "OP_NOOP"]
           /\ UNCHANGED <<dns, net, metrics>>
  <2>1. current' \in Int /\ historic' \in Nat
    BY <1>6 DEF IInv, TypeOK, metrics
  <2> QED BY <1>4, <1>6, <2>1
<1>7. CASE /\ HasNextIp(dns[c])
           /\ Connect(c, [socks[c] EXCEPT !.status = "failed"], fds[c], NextIp(dns[c], 1))
           /\ UNCHANGED <<historic, proc>>
  <2> DEFINE q == [socks[c] EXCEPT !.status = "failed"]
             e == NextIp(dns[c], 1)
  <2>1. /\ q \in SocksType /\ q.st = socks[c].st /\ q.status = "failed"
        /\ q.method = socks[c].method /\ q.used = socks[c].used /\ q.got = socks[c].got
    BY RecordTypes DEF SocksType
  <2>2. 1 \in 0..(dns[c].n - dns[c].cur) /\ dns[c].cur <= dns[c].n /\ dns[c].cur # 0
    BY <1>3, <1>7, RecordTypes DEF HasNextIp, DnsType, Counted
  <2>3. /\ e \in DnsType /\ e.cur = dns[c].cur + 1 /\ e.cur <= e.n
        /\ e.n = dns[c].n /\ e.thr = dns[c].thr
    BY <2>2, NextIpFacts, RecordTypes
  <2> HIDE DEF q, e
  <2>4. e.cur > 1
    BY <2>2, <2>3, RecordTypes DEF DnsType
  <2>5. Connectable(q, fds[c], e, net[c])
    BY <1>1, <1>3, <2>1, <2>3, <2>4 DEF Connectable, Counted, DnsType
  <2>6. Authorised(q, net[c], known)
    BY <1>1, <1>3, <2>1 DEF Authorised, RequestStates
  <2> QED BY <1>1, <1>7, <2>1, <2>3, <2>5, <2>6, ConnectStep, RecordTypes DEF q, e
<1>8. CASE UNCHANGED <<socks, fds, dns, net, metrics>>
  <2>1. TypeOK'
    BY <1>1, <1>8 DEF IInv, TypeOK, conf, metrics
  <2> QED BY <1>1, <1>8, <2>1 DEF IInv, conf
<1> QED BY <1>5, <1>6, <1>7, <1>8 DEF RequestConnecting

(* The reply to the request. *)
LEMMA RequestWriteStep ==
  ASSUME IInv, NEW c \in Conns, RequestWrite(c)
  PROVE  IInv'
<1>1. socks[c].st = "REQUEST_WRITE" /\ UNCHANGED <<dns, net, conf, historic, proc>>
  BY DEF RequestWrite, WriteReady
<1>2. Conforms(socks[c], fds[c], dns[c], net[c], known)
  BY RecordTypes
<1>3. CASE Enter(c, Failed(c), fds[c])
  BY <1>1, <1>3, FailedStep
<1>4. CASE \E n \in Send(c) : /\ n >= 0 /\ n < socks[c].wb
                              /\ Enter(c, [socks[c] EXCEPT !.wb = @ - n], fds[c])
  BY <1>1, <1>4, PartialSendStep
<1>5. CASE /\ socks[c].status = "succeeded"
           /\ Enter(c, [socks[c] EXCEPT !.wb = 0, !.st = "COPY"],
                    [fds[c] EXCEPT !.cli = "OP_READ", !.srv = "OP_READ"])
  <2> DEFINE r == [socks[c] EXCEPT !.wb = 0, !.st = "COPY"]
             f == [fds[c] EXCEPT !.cli = "OP_READ", !.srv = "OP_READ"]
  <2>1. /\ r \in SocksType /\ r.st = "COPY" /\ r.status = "succeeded"
        /\ r.method = socks[c].method /\ r.got = socks[c].got /\ r.used = socks[c].used
    <3>1. r \in SocksType
      BY SocksUpdate, StateSets, RecordTypes DEF RequestStates
    <3> QED BY <1>5, <3>1, RecordTypes DEF SocksType
  <2>2. /\ f \in FdsType /\ f.cli = "OP_READ" /\ f.srv = "OP_READ"
        /\ f.toFree = fds[c].toFree /\ f.frees = fds[c].frees
    BY RecordTypes DEF FdsType, Interests
  <2> HIDE DEF r, f
  <2>3. Counted(r, dns[c], net[c])
    BY <1>1, <1>2, <2>1 DEF Conforms, Counted, HandshakeStates
  <2>4. Answered(r, net[c]) /\ Authorised(r, net[c], known)
    BY <1>1, <1>2, <1>5, <2>1 DEF Conforms, Answered, Authorised, RequestStates
  <2>5. Watched(r, f) /\ Owned(r, f, dns[c], net[c])
    BY <1>1, <1>2, <2>1, <2>2
       DEF Conforms, Watched, ClientItem, ServerItems, Owned, OverStates, RequestStates
  <2>6. Acceptable(r, f, dns[c], net[c], known)
    BY <2>1, <2>3, <2>4, <2>5 DEF Acceptable, OverStates
  <2> QED BY <1>1, <1>5, <2>1, <2>2, <2>6, EnterStep, RecordTypes DEF r, f
<1>6. CASE /\ socks[c].status # "succeeded"
           /\ Enter(c, [socks[c] EXCEPT !.wb = 0, !.st = "DONE"],
                    [fds[c] EXCEPT !.cli = "OP_NOOP"])
  <2> DEFINE r == [socks[c] EXCEPT !.wb = 0, !.st = "DONE"]
             f == [fds[c] EXCEPT !.cli = "OP_NOOP"]
  <2>1. /\ r \in SocksType /\ r.st = "DONE" /\ r.status = socks[c].status
        /\ r.got = socks[c].got /\ r.used = socks[c].used
    <3>1. r \in SocksType
      BY SocksUpdate, StateSets, RecordTypes DEF OverStates
    <3> QED BY <3>1, RecordTypes DEF SocksType
  <2>2. /\ f \in FdsType /\ f.cli = "OP_NOOP" /\ f.srv = fds[c].srv
        /\ f.toFree = fds[c].toFree /\ f.frees = fds[c].frees
    BY RecordTypes DEF FdsType, Interests
  <2> HIDE DEF r, f
  <2>3. Closable(f, dns[c], net[c])
    <3>1. fds[c].srv # "closed"
      BY <1>1, <1>2 DEF Conforms, Watched, ServerItems, OverStates
    <3> QED BY <1>1, <1>2, <2>2, <3>1 DEF Conforms, Closable, Owned, RequestStates
  <2>4. Counted(r, dns[c], net[c])
    BY <1>1, <1>2, <2>1 DEF Conforms, Counted, HandshakeStates
  <2>5. Answered(r, net[c]) /\ Authorised(r, net[c], known)
    BY <1>1, <1>2, <1>6, <2>1
       DEF Conforms, Answered, Authorised, OverStates, HandshakeStates, RequestStates
  <2>6. Acceptable(r, f, dns[c], net[c], known)
    BY <2>1, <2>3, <2>4, <2>5 DEF Acceptable, OverStates
  <2> QED BY <1>1, <1>6, <2>1, <2>2, <2>6, EnterStep, RecordTypes DEF r, f
<1> QED BY <1>3, <1>4, <1>5, <1>6 DEF RequestWrite, Granted

(* A tunnel ends. *)
LEMMA CopyEndStep ==
  ASSUME IInv, NEW c \in Conns, CopyEnd(c)
  PROVE  IInv'
<1> DEFINE r == [socks[c] EXCEPT !.st = "DONE", !.status = "close"]
<1>1. socks[c].st = "COPY" /\ Enter(c, r, fds[c])
      /\ UNCHANGED <<dns, net, conf, historic, proc>>
  BY DEF CopyEnd
<1>2. Conforms(socks[c], fds[c], dns[c], net[c], known)
  BY RecordTypes
<1>3. /\ r \in SocksType /\ r.st = "DONE" /\ r.status = "close"
      /\ r.got = socks[c].got /\ r.used = socks[c].used
  <2>1. r \in SocksType
    BY SocksUpdate, StateSets, RecordTypes DEF OverStates
  <2> QED BY <2>1, RecordTypes DEF SocksType
<1> HIDE DEF r
<1>4. Closable(fds[c], dns[c], net[c])
  BY <1>1, <1>2
     DEF Conforms, Watched, ClientItem, ServerItems, Closable, Owned, RequestStates, OverStates
<1>5. Counted(r, dns[c], net[c])
  BY <1>1, <1>2, <1>3 DEF Conforms, Counted, HandshakeStates
<1>6. Answered(r, net[c]) /\ Authorised(r, net[c], known)
  BY <1>3 DEF Answered, Authorised, OverStates, HandshakeStates, RequestStates
<1>7. Acceptable(r, fds[c], dns[c], net[c], known)
  BY <1>3, <1>4, <1>5, <1>6 DEF Acceptable, OverStates
<1> QED BY <1>1, <1>3, <1>7, EnterStep, RecordTypes

(* Clients and servers only change what the kernel holds of a connection, and
   an attempt that has been answered is not answered again. *)
LEMMA PeerStep ==
  ASSUME IInv, NEW c \in Conns, ClientSend(c) \/ ClientEnd(c) \/ ServerAnswers(c)
  PROVE  IInv'
<1>1. UNCHANGED <<socks, dns, fds, conf, metrics, proc>>
  BY DEF ClientSend, ClientEnd, ServerAnswers
<1>2. /\ Conforms(socks[c], fds[c], dns[c], net[c], known)
      /\ socks[c] \in SocksType /\ net[c] \in NetType
  BY RecordTypes
<1>3. ASSUME NEW n \in NetType, net' = [net EXCEPT ![c] = n],
             n.script = net[c].script, n.sent >= net[c].sent,
             n.dest # net[c].dest => net[c].dest = "pending" /\ n.dest \in {"up", "failed"}
      PROVE  IInv'
  <2>1. Counted(socks[c], dns[c], n)
    <3>1. socks[c].got <= n.sent
      BY <1>2, <1>3 DEF Conforms, Counted, SocksType, NetType
    <3> QED BY <1>2, <3>1 DEF Conforms, Counted
  <2>2. Owned(socks[c], fds[c], dns[c], n)
    BY <1>2, <1>3 DEF Conforms, Owned
  <2>3. Answered(socks[c], n)
    BY <1>2, <1>3 DEF Conforms, Answered
  <2>4. Authorised(socks[c], n, known)
    BY <1>2, <1>3 DEF Conforms, Authorised
  <2>5. Conforms(socks[c], fds[c], dns[c], n, known)
    BY <1>2, <2>1, <2>2, <2>3, <2>4 DEF Conforms
  <2>6. /\ socks' = [socks EXCEPT ![c] = socks[c]] /\ fds' = [fds EXCEPT ![c] = fds[c]]
        /\ dns' = [dns EXCEPT ![c] = dns[c]]
    BY <1>1 DEF IInv, TypeOK
  <2> QED BY <1>1, <1>3, <2>5, <2>6, OneConnection, RecordTypes DEF metrics, IInv, TypeOK
<1>4. CASE ClientSend(c)
  <2> DEFINE n == [net[c] EXCEPT !.sent = @ + 1]
  <2>1. n \in NetType /\ n.script = net[c].script /\ n.dest = net[c].dest
        /\ n.sent >= net[c].sent
    BY <1>2 DEF NetType
  <2>2. net' = [net EXCEPT ![c] = n]
    BY <1>4 DEF ClientSend
  <2> HIDE DEF n
  <2> QED BY <1>3, <2>1, <2>2
<1>5. CASE ClientEnd(c)
  <2>1. PICK x \in {"fin", "reset"} : net' = [net EXCEPT ![c].end = x]
    BY <1>5 DEF ClientEnd
  <2> DEFINE n == [net[c] EXCEPT !.end = x]
  <2>2. n \in NetType /\ n.script = net[c].script /\ n.dest = net[c].dest
        /\ n.sent >= net[c].sent /\ net' = [net EXCEPT ![c] = n]
    BY <1>2, <2>1 DEF NetType
  <2> HIDE DEF n
  <2> QED BY <1>3, <2>2
<1>6. CASE ServerAnswers(c)
  <2>1. PICK x \in {"up", "failed"} : net' = [net EXCEPT ![c].dest = x]
    BY <1>6 DEF ServerAnswers
  <2> DEFINE n == [net[c] EXCEPT !.dest = x]
  <2>2. n \in NetType /\ n.script = net[c].script /\ n.dest = x
        /\ n.sent >= net[c].sent /\ net' = [net EXCEPT ![c] = n]
    BY <1>2, <2>1 DEF NetType
  <2>3. net[c].dest = "pending"
    BY <1>6 DEF ServerAnswers
  <2> HIDE DEF n
  <2> QED BY <1>3, <2>2, <2>3
<1> QED BY <1>4, <1>5, <1>6

(* The administrator: a credential that was known stays known. *)
LEMMA AdministerStep ==
  ASSUME IInv, Administer
  PROVE  IInv'
<1>1. UNCHANGED <<socks, dns, fds, net, metrics, proc>> /\ admin' = admin + 1
  BY DEF Administer
<1>2. users \subseteq known /\ known \subseteq Creds
  BY DEF IInv, TypeOK
<1>3. /\ users' \subseteq known' /\ known' \subseteq Creds /\ known \subseteq known'
  <2>1. CASE UNCHANGED <<users, known>>
    BY <1>2, <2>1
  <2>2. CASE (\E u \in Creds \ users : users' = users \cup {u}) /\ known' = known \cup users'
    BY <1>2, <2>2
  <2>3. CASE (\E u \in users : users' = users \ {u}) /\ UNCHANGED known
    BY <1>2, <2>3
  <2> QED BY <2>1, <2>2, <2>3 DEF Administer
<1>4. auth_enabled' \in BOOLEAN /\ small' \in BOOLEAN
  <2>1. auth_enabled \in BOOLEAN /\ small \in BOOLEAN
    BY DEF IInv, TypeOK
  <2>2. auth_enabled' = auth_enabled \/ auth_enabled' = ~auth_enabled
    BY Zenon DEF Administer
  <2>3. small' = small \/ small' = ~small
    BY Zenon DEF Administer
  <2> QED BY <2>1, <2>2, <2>3
<1>5. TypeOK'
  <2>1. current' \in Int /\ historic' \in Nat /\ admin' \in Nat
    BY <1>1 DEF IInv, TypeOK, metrics
  <2> QED BY <1>1, <1>3, <1>4, <2>1 DEF IInv, TypeOK
<1>6. ASSUME NEW c \in Conns
      PROVE  Conforms(socks[c], fds[c], dns[c], net[c], known')
  <2>1. Conforms(socks[c], fds[c], dns[c], net[c], known)
    BY RecordTypes
  <2>2. Authorised(socks[c], net[c], known')
    BY <1>3, <2>1 DEF Conforms, Authorised
  <2> QED BY <2>1, <2>2 DEF Conforms
<1> QED BY <1>1, <1>5, <1>6 DEF IInv

(* No step breaks the inductive invariant. *)
LEMMA NextStep == IInv /\ [Next]_vars => IInv'
<1> SUFFICES ASSUME IInv, [Next]_vars PROVE IInv'
  OBVIOUS
<1>1. ASSUME NEW c \in Conns, Accept(c) PROVE IInv'
  BY <1>1, AcceptStep
<1>2. ASSUME NEW c \in Conns, Handle(c) PROVE IInv'
  BY <1>2, HelloReadStep, HelloWriteStep, AuthReadStep, AuthWriteStep, RequestReadStep,
     ResolvDoneStep, RequestConnectingStep, RequestWriteStep DEF Handle
<1>3. ASSUME NEW c \in Conns, CopyEnd(c) PROVE IInv'
  BY <1>3, CopyEndStep
<1>4. ASSUME NEW c \in Conns, ResolverThread(c) PROVE IInv'
  BY <1>4, ResolverThreadStep
<1>5. ASSUME NEW c \in Conns, ClientSend(c) \/ ClientEnd(c) \/ ServerAnswers(c) PROVE IInv'
  BY <1>5, PeerStep
<1>6. CASE Administer
  BY <1>6, AdministerStep
<1>7. CASE UNCHANGED vars
  BY <1>7 DEF vars, IInv, TypeOK
<1> QED BY <1>1, <1>2, <1>3, <1>4, <1>5, <1>6, <1>7 DEF Next

(* Every reachable state satisfies the inductive invariant. *)
THEOREM InductiveInvariant == Spec => []IInv
BY InitIInv, NextStep, PTL DEF Spec

-----------------------------------------------------------------------------
(* Every variable of the program keeps its type. *)
THEOREM TypeCorrect == Spec => []TypeOK
<1>1. IInv => TypeOK
  BY DEF IInv
<1> QED BY <1>1, InductiveInvariant, PTL

(* abort() is never reached for want of a handler: each state has a handler
   for every event its interests let through. *)
THEOREM NoMissingHandler == Spec => []EventHasHandler
<1>1. ASSUME IInv, NEW c \in Conns
      PROVE  /\ fds[c].cli = "OP_READ" =>
                  socks[c].st \in {"HELLO_READ", "AUTH_READ", "REQUEST_READ", "COPY"}
             /\ fds[c].cli = "OP_WRITE" =>
                  socks[c].st \in {"HELLO_WRITE", "AUTH_WRITE", "REQUEST_WRITE"}
             /\ fds[c].srv = "OP_READ" => socks[c].st = "COPY"
             /\ fds[c].srv = "OP_WRITE" => socks[c].st = "REQUEST_CONNECTING"
             /\ dns[c].thr = "queued" /\ fds[c].cli # "unused" => socks[c].st = "REQUEST_RESOLV"
  <2>1. Conforms(socks[c], fds[c], dns[c], net[c], known)
    BY <1>1, RecordTypes
  <2>2. /\ fds[c].cli = "OP_READ" =>
             socks[c].st \in {"HELLO_READ", "AUTH_READ", "REQUEST_READ", "COPY"}
        /\ fds[c].cli = "OP_WRITE" =>
             socks[c].st \in {"HELLO_WRITE", "AUTH_WRITE", "REQUEST_WRITE"}
    BY <2>1 DEF Conforms, Watched, ClientItem
  <2>3. /\ fds[c].srv = "OP_READ" => socks[c].st = "COPY"
        /\ fds[c].srv = "OP_WRITE" => socks[c].st = "REQUEST_CONNECTING"
    BY <2>1 DEF Conforms, Watched, ServerItems
  <2>4. dns[c].thr = "queued" => socks[c].st = "REQUEST_RESOLV"
    BY <2>1 DEF Conforms, Counted
  <2> QED BY <2>2, <2>3, <2>4
<1>2. IInv => EventHasHandler
  BY <1>1 DEF EventHasHandler
<1> QED BY <1>2, InductiveInvariant, PTL

(* The resolver thread is alone with the struct it writes into. *)
THEOREM ResolverHasStruct == Spec => []ResolverAlone
<1>1. ASSUME IInv, NEW c \in Conns, dns[c].thr \in {"running", "queued"}
      PROVE  /\ socks[c].st = "REQUEST_RESOLV"
             /\ fds[c].cli = "OP_NOOP" /\ ~Registered(fds[c])
             /\ fds[c].frees = 0
  <2>1. Conforms(socks[c], fds[c], dns[c], net[c], known)
    BY <1>1, RecordTypes
  <2>2. socks[c].st = "REQUEST_RESOLV" /\ dns[c].cur <= 1
    BY <1>1, <2>1 DEF Conforms, Counted
  <2>3. fds[c].cli = "OP_NOOP" /\ fds[c].srv = "none"
    BY <2>1, <2>2 DEF Conforms, Watched, ClientItem, ServerItems, OverStates
  <2>4. fds[c].frees = 0
    BY <2>1, <2>2 DEF Conforms, Owned, RequestStates
  <2> QED BY <2>2, <2>3, <2>4 DEF Registered, Interests
<1>2. IInv => ResolverAlone
  BY <1>1 DEF ResolverAlone
<1> QED BY <1>2, InductiveInvariant, PTL

(* No request is taken from a client that did not authenticate as it was
   asked to, whatever the administrator does meanwhile. *)
THEOREM RequestsAuthorised == Spec => []RequestNeedsAuth
<1>1. ASSUME IInv, NEW c \in Conns, socks[c].st \in RequestStates
      PROVE  /\ socks[c].method \in net[c].script.offers
             /\ socks[c].method = "auth" =>
                  /\ net[c].script.auth \in known
                  /\ socks[c].used >= AuthEnd(net[c].script)
  BY <1>1, RecordTypes DEF Conforms, Authorised
<1>2. IInv => RequestNeedsAuth
  BY <1>1 DEF RequestNeedsAuth
<1> QED BY <1>2, InductiveInvariant, PTL

(* A reply of success and a tunnel stand for a connected server. *)
THEOREM NoFalseSuccess == Spec => []SuccessIsTrue
<1>1. ASSUME IInv, NEW c \in Conns,
             \/ socks[c].st = "COPY"
             \/ socks[c].st = "REQUEST_WRITE" /\ socks[c].status = "succeeded"
      PROVE  net[c].dest = "up" /\ Registered(fds[c])
  <2>1. Conforms(socks[c], fds[c], dns[c], net[c], known)
    BY <1>1, RecordTypes
  <2>2. net[c].dest = "up"
    BY <1>1, <2>1 DEF Conforms, Answered
  <2>3. fds[c].srv \in {"OP_READ", "OP_NOOP"}
    BY <1>1, <2>1 DEF Conforms, Watched, ServerItems, OverStates
  <2> QED BY <2>2, <2>3 DEF Registered, Interests
<1>2. IInv => SuccessIsTrue
  BY <1>1 DEF SuccessIsTrue
<1> QED BY <1>2, InductiveInvariant, PTL

(* Before a second address is tried, the struct of a connection is freed at
   most once and no registered descriptor refers to it afterwards. *)
THEOREM NoUseAfterFree == Spec => []NoDangling
<1>1. ASSUME IInv, NEW c \in Conns, dns[c].cur <= 1
      PROVE  /\ fds[c].frees <= 1
             /\ fds[c].frees = 1 => fds[c].cli = "unused" /\ ~Registered(fds[c])
  <2>1. /\ Conforms(socks[c], fds[c], dns[c], net[c], known) /\ socks[c].st \in States
    BY <1>1, RecordTypes DEF SocksType
  <2>2. CASE socks[c].st \in {"NONE"} \cup HandshakeStates \cup RequestStates
    BY <1>1, <2>1, <2>2 DEF Conforms, Owned
  <2>3. CASE socks[c].st \in {"REFUSED"} \cup OverStates
    <3>1. fds[c].frees <= 1
      BY <1>1, <2>1, <2>3 DEF Conforms, Owned
    <3>2. fds[c].cli = "unused" /\ fds[c].srv \in {"none", "closed"}
      BY <2>1, <2>3 DEF Conforms, Watched, ClientItem, ServerItems, OverStates
    <3> QED BY <3>1, <3>2 DEF Registered, Interests
  <2> QED BY <2>1, <2>2, <2>3 DEF States
<1>2. IInv => NoDangling
  BY <1>1 DEF NoDangling
<1> QED BY <1>2, InductiveInvariant, PTL

(* A connection that is over gave its struct back, unless a second address
   was tried or a socket was left without a selector item. *)
THEOREM MemoryReclaimed == Spec => []Reclaimed
<1>1. ASSUME IInv, NEW c \in Conns, socks[c].st \in OverStates, dns[c].cur <= 1,
             net[c].dest # "immediate"
      PROVE  fds[c].frees = 1
  BY <1>1, RecordTypes DEF Conforms, Owned
<1>2. IInv => Reclaimed
  BY <1>1 DEF Reclaimed
<1> QED BY <1>2, InductiveInvariant, PTL
-----------------------------------------------------------------------------
(* From state to state: each step is one of few moves from phase to phase.
   Which of them is legal, and counted, needs IInv, because a tunnel ends only
   where one was granted. *)

phaseView == [c \in Conns |-> Phase(socks[c].st)]
grantedView == [c \in Conns |-> socks[c].status \in {"succeeded", "close"}]
Succeeded == {c \in Conns : socks[c].status = "succeeded"}

(* What a step does to the connections that current_connections counts. *)
CountStep ==
  \/ UNCHANGED <<current, Succeeded>>
  \/ \E c \in Conns \ Succeeded : Succeeded' = Succeeded \cup {c} /\ current' = current + 1
  \/ \E c \in Succeeded : Succeeded' = Succeeded \ {c} /\ current' = current - 1

(* A step of Proxy, or none, that keeps the count. *)
Lawful == [ProxyView!PNext]_(ProxyView!pvars) /\ CountStep

(* The phases of the states. *)
LEMMA Phases ==
  /\ Phase("NONE") = "idle" /\ Phase("REFUSED") = "over"
  /\ \A st \in HandshakeStates : Phase(st) = "handshake"
  /\ Phase("REQUEST_READ") = "request" /\ Phase("REQUEST_RESOLV") = "request"
  /\ Phase("REQUEST_CONNECTING") = "dialing" /\ Phase("REQUEST_WRITE") = "answered"
  /\ Phase("COPY") = "relay" /\ \A st \in OverStates : Phase(st) = "over"
BY DEF Phase, HandshakeStates, OverStates

(* A step of one connection moves that connection only. *)
LEMMA PhaseUpdate ==
  ASSUME IInv, NEW c \in Conns, NEW r, socks' = [socks EXCEPT ![c] = r]
  PROVE  /\ phaseView' = [phaseView EXCEPT ![c] = Phase(r.st)]
         /\ phaseView[c] = Phase(socks[c].st)
BY DEF IInv, TypeOK, phaseView

(* No more is granted by a step that leaves the grant of its connection. *)
LEMMA GrantedKept ==
  ASSUME IInv, NEW c \in Conns, NEW r, socks' = [socks EXCEPT ![c] = r],
         r.status \in {"succeeded", "close"} <=> socks[c].status \in {"succeeded", "close"}
  PROVE  grantedView' = grantedView
<1>1. ASSUME NEW e \in Conns
      PROVE  socks'[e].status \in {"succeeded", "close"}
               <=> socks[e].status \in {"succeeded", "close"}
  BY DEF IInv, TypeOK
<1>2. ASSUME NEW e \in Conns
      PROVE  (socks'[e].status \in {"succeeded", "close"})
               = (socks[e].status \in {"succeeded", "close"})
  BY <1>1
<1> QED BY <1>2, Zenon DEF grantedView

(* The same for a connection that is, and stays, granted. *)
LEMMA GrantedUpdate ==
  ASSUME IInv, NEW c \in Conns, NEW r, socks' = [socks EXCEPT ![c] = r],
         r.status \in {"succeeded", "close"}
  PROVE  /\ grantedView' = [grantedView EXCEPT ![c] = TRUE]
         /\ socks[c].status = "succeeded" => grantedView[c] = TRUE
<1>1. \A e \in Conns : socks'[e] = IF e = c THEN r ELSE socks[e]
  BY DEF IInv, TypeOK
<1>2. ASSUME NEW e \in Conns, e # c
      PROVE  (socks'[e].status \in {"succeeded", "close"})
                = (socks[e].status \in {"succeeded", "close"})
  BY <1>1, <1>2
<1>3. (socks'[c].status \in {"succeeded", "close"}) = TRUE
  <2>1. socks'[c].status \in {"succeeded", "close"}
    BY <1>1
  <2> QED BY <2>1
<1>4. socks[c].status = "succeeded" => (socks[c].status \in {"succeeded", "close"}) = TRUE
  OBVIOUS
<1>5. grantedView' = [e \in Conns |-> socks'[e].status \in {"succeeded", "close"}]
  BY DEF grantedView
<1>6. grantedView' = [grantedView EXCEPT ![c] = TRUE]
  BY <1>2, <1>3, <1>5, Zenon DEF grantedView
<1> QED BY <1>4, <1>6 DEF grantedView

(* The moves that a grant and the end of a relay are not. *)
Moves == {<<"idle", "handshake">>, <<"idle", "over">>, <<"handshake", "request">>,
          <<"request", "dialing">>, <<"request", "answered">>, <<"dialing", "answered">>,
          <<"handshake", "over">>, <<"request", "over">>, <<"dialing", "over">>,
          <<"answered", "over">>}

(* Such a move is a step of Proxy when nothing is granted by it and no tunnel
   is counted. *)
LEMMA PlainMove ==
  ASSUME IInv, NEW c \in Conns, NEW r, socks' = [socks EXCEPT ![c] = r],
         current' = current, r.status # "close", socks[c].status # "close",
         r.status = "succeeded" <=> socks[c].status = "succeeded",
         \/ Phase(r.st) = Phase(socks[c].st)
         \/ <<Phase(socks[c].st), Phase(r.st)>> \in Moves
         \/ /\ Phase(socks[c].st) = "answered" /\ Phase(r.st) = "relay"
            /\ socks[c].status = "succeeded"
  PROVE  Lawful
<1>1. /\ phaseView' = [phaseView EXCEPT ![c] = Phase(r.st)]
      /\ phaseView[c] = Phase(socks[c].st)
  BY PhaseUpdate
<1>2. grantedView' = grantedView
  <2>1. r.status \in {"succeeded", "close"} <=> socks[c].status \in {"succeeded", "close"}
    OBVIOUS
  <2> QED BY <2>1, GrantedKept
<1>3. [ProxyView!PNext]_(ProxyView!pvars)
  <2>1. CASE Phase(r.st) = Phase(socks[c].st)
    <3>1. phaseView' = phaseView
      BY <1>1, <2>1 DEF phaseView
    <3> QED BY <1>2, <3>1 DEF ProxyView!pvars, phaseView, grantedView
  <2>2. CASE <<Phase(socks[c].st), Phase(r.st)>> \in Moves
    <3>1. \/ ProxyView!Arrive(c) \/ ProxyView!Admit(c) \/ ProxyView!Dial(c)
          \/ ProxyView!Deny(c) \/ ProxyView!Drop(c)
      BY <1>1, <1>2, <2>2
         DEF Moves, phaseView, grantedView, ProxyView!Arrive, ProxyView!Admit,
             ProxyView!Dial, ProxyView!Deny, ProxyView!Drop, ProxyView!Move
    <3> QED BY <3>1 DEF ProxyView!PNext
  <2>3. CASE /\ Phase(socks[c].st) = "answered" /\ Phase(r.st) = "relay"
             /\ socks[c].status = "succeeded"
    <3>1. ProxyView!Relay(c)
      BY <1>1, <1>2, <2>3 DEF phaseView, grantedView, ProxyView!Relay, ProxyView!Move
    <3> QED BY <3>1 DEF ProxyView!PNext
  <2> QED BY <2>1, <2>2, <2>3
<1>4. Succeeded' = Succeeded
  BY DEF Succeeded, IInv, TypeOK
<1> QED BY <1>3, <1>4 DEF Lawful, CountStep

(* The same for a handler that ends in Enter and does not close a tunnel. *)
LEMMA PlainEnter ==
  ASSUME IInv, NEW c \in Conns, NEW r, NEW f, Enter(c, r, f),
         r.status # "close",
         r.status = "succeeded" <=> socks[c].status = "succeeded",
         socks[c].st \notin OverStates,
         \/ Phase(r.st) = Phase(socks[c].st)
         \/ <<Phase(socks[c].st), Phase(r.st)>> \in Moves
         \/ /\ Phase(socks[c].st) = "answered" /\ Phase(r.st) = "relay"
            /\ socks[c].status = "succeeded"
  PROVE  Lawful
<1>1. socks' = [socks EXCEPT ![c] = r]
  BY DEF Enter
<1>2. current' = current
  BY DEF Enter, IInv, TypeOK
<1>3. socks[c].status # "close"
  BY RecordTypes DEF Conforms, Answered, OverStates
<1> QED BY <1>1, <1>2, <1>3, PlainMove

(* An error, anywhere before a tunnel is open. *)
LEMMA FailedMove ==
  ASSUME IInv, NEW c \in Conns, NEW f, Enter(c, Failed(c), f),
         socks[c].st \in HandshakeStates \cup {"REQUEST_READ", "REQUEST_WRITE"}
  PROVE  Lawful
<1>1. Failed(c).st = "ERROR" /\ Failed(c).status = socks[c].status
  BY RecordTypes DEF Failed, SocksType
<1>2. socks[c].status # "close" /\ socks[c].st \notin OverStates
  BY RecordTypes DEF Conforms, Answered, OverStates, HandshakeStates
<1>3. Phase(Failed(c).st) = "over"
        /\ Phase(socks[c].st) \in {"handshake", "request", "answered"}
  BY <1>1, Phases DEF OverStates
<1> QED BY <1>1, <1>2, <1>3, PlainEnter DEF Moves

(* A reply that leaves in part. *)
LEMMA PartialSendMove ==
  ASSUME IInv, NEW c \in Conns, NEW n, Enter(c, [socks[c] EXCEPT !.wb = @ - n], fds[c]),
         socks[c].st \notin OverStates
  PROVE  Lawful
<1> DEFINE r == [socks[c] EXCEPT !.wb = @ - n]
<1>1. r.st = socks[c].st /\ r.status = socks[c].status
  BY RecordTypes DEF SocksType
<1>2. socks[c].status # "close"
  BY RecordTypes DEF Conforms, Answered, OverStates
<1> HIDE DEF r
<1> QED BY <1>1, <1>2, PlainEnter DEF r

(* request_connect dials, answers that it failed, or gives up. *)
LEMMA ConnectMove ==
  ASSUME IInv, NEW c \in Conns, NEW r \in SocksType, NEW f, NEW d, Connect(c, r, f, d),
         socks[c].st \in {"REQUEST_READ", "REQUEST_RESOLV", "REQUEST_CONNECTING"},
         r.status \notin {"succeeded", "close"}
  PROVE  Lawful
<1>1. PICK q, g : /\ Enter(c, q, g) /\ q.status \notin {"succeeded", "close"}
                  /\ q.st \in {"REQUEST_CONNECTING", "REQUEST_WRITE", "ERROR"}
  <2>1. PICK k \in 0..(d.n - d.cur) :
          LET s == IF k = 0 THEN r ELSE [r EXCEPT !.status = "failed"]
          IN  \/ \E g : Enter(c, [s EXCEPT !.st = "REQUEST_CONNECTING"], g)
              \/ \E g : Enter(c, [s EXCEPT !.st = "REQUEST_WRITE", !.status = "failed",
                                             !.wb = ReplyLen], g)
              \/ \E g : Enter(c, [s EXCEPT !.st = "ERROR", !.status = "failed"], g)
              \/ \E g : Enter(c, [s EXCEPT !.st = "ERROR"], g)
    BY Zenon DEF Connect
  <2> DEFINE s == IF k = 0 THEN r ELSE [r EXCEPT !.status = "failed"]
  <2>2. s \in SocksType /\ s.status \notin {"succeeded", "close"}
    BY DEF SocksType
  <2> HIDE DEF s
  <2>3. CASE \E g : Enter(c, [s EXCEPT !.st = "REQUEST_CONNECTING"], g)
    <3> DEFINE q == [s EXCEPT !.st = "REQUEST_CONNECTING"]
    <3>1. q.st = "REQUEST_CONNECTING" /\ q.status = s.status
      BY <2>2 DEF SocksType
    <3> QED BY <2>2, <2>3, <3>1
  <2>4. CASE \E g : Enter(c, [s EXCEPT !.st = "REQUEST_WRITE", !.status = "failed",
                                       !.wb = ReplyLen], g)
    <3> DEFINE q == [s EXCEPT !.st = "REQUEST_WRITE", !.status = "failed", !.wb = ReplyLen]
    <3>1. q.st = "REQUEST_WRITE" /\ q.status = "failed"
      BY <2>2 DEF SocksType
    <3> QED BY <2>4, <3>1
  <2>5. CASE \E g : Enter(c, [s EXCEPT !.st = "ERROR", !.status = "failed"], g)
    <3> DEFINE q == [s EXCEPT !.st = "ERROR", !.status = "failed"]
    <3>1. q.st = "ERROR" /\ q.status = "failed"
      BY <2>2 DEF SocksType
    <3> QED BY <2>5, <3>1
  <2>6. CASE \E g : Enter(c, [s EXCEPT !.st = "ERROR"], g)
    <3> DEFINE q == [s EXCEPT !.st = "ERROR"]
    <3>1. q.st = "ERROR" /\ q.status = s.status
      BY <2>2 DEF SocksType
    <3> QED BY <2>2, <2>6, <3>1
  <2> QED BY <2>1, <2>3, <2>4, <2>5, <2>6 DEF s
<1>2. socks[c].status \notin {"succeeded", "close"} /\ socks[c].st \notin OverStates
  BY RecordTypes DEF Conforms, Answered, OverStates
<1>3. /\ Phase(q.st) \in {"dialing", "answered", "over"}
      /\ Phase(socks[c].st) \in {"request", "dialing"}
  BY <1>1, Phases DEF OverStates
<1> QED BY <1>1, <1>2, <1>3, PlainEnter DEF Moves

-----------------------------------------------------------------------------
(* The handlers of the handshake negotiate, and end in a request or the end. *)
LEMMA HandshakeMove ==
  ASSUME IInv, NEW c \in Conns,
         HelloRead(c) \/ HelloWrite(c) \/ AuthRead(c) \/ AuthWrite(c)
  PROVE  Lawful
<1>1. socks[c].st \in HandshakeStates /\ socks[c].st \notin OverStates
  BY DEF HelloRead, HelloWrite, AuthRead, AuthWrite, ReadReady, WriteReady, HandshakeStates,
         OverStates
<1>2. socks[c] \in SocksType /\ socks[c].status # "close"
  BY <1>1, RecordTypes DEF Conforms, Answered, HandshakeStates
<1>3. CASE Enter(c, Failed(c), fds[c])
  BY <1>1, <1>3, FailedMove
<1>4. CASE \E n : Enter(c, [socks[c] EXCEPT !.wb = @ - n], fds[c])
  BY <1>1, <1>4, PartialSendMove
(* The other branches: what they leave of the state and the status. *)
<1>5. ASSUME NEW r, NEW f, Enter(c, r, f), r.status = socks[c].status,
             r.st \in HandshakeStates \cup {"REQUEST_READ", "DONE"}
      PROVE  Lawful
  <2>1. Phase(socks[c].st) = "handshake" /\ Phase(r.st) \in {"handshake", "request", "over"}
    BY <1>1, <1>5, Phases DEF OverStates
  <2> QED BY <1>1, <1>2, <1>5, <2>1, PlainEnter DEF Moves
<1>6. CASE HelloRead(c)
  <2> DEFINE k == Consume(c, Recv(c), HelloLen)
             r == [k EXCEPT !.st = "HELLO_WRITE", !.method = SelectedMethod(net[c].script),
                            !.wb = ReplyLen]
  <2>1. r.st = "HELLO_WRITE" /\ r.status = socks[c].status
    BY <1>2 DEF Consume, SocksType
  <2>2. Enter(c, Failed(c), fds[c]) \/ \E f : Enter(c, r, f)
    BY <1>6 DEF HelloRead
  <2> HIDE DEF r
  <2> QED BY <1>3, <1>5, <2>1, <2>2 DEF HandshakeStates
<1>7. CASE HelloWrite(c)
  <2> DEFINE r == [socks[c] EXCEPT !.wb = 0, !.st = AfterHello(socks[c].method)]
  <2>1. r.st \in {"AUTH_READ", "REQUEST_READ", "DONE"} /\ r.status = socks[c].status
    BY <1>2 DEF AfterHello, SocksType
  <2>2. \/ Enter(c, Failed(c), fds[c]) \/ \E n : Enter(c, [socks[c] EXCEPT !.wb = @ - n], fds[c])
        \/ \E f : Enter(c, r, f)
    BY <1>7 DEF HelloWrite
  <2> HIDE DEF r
  <2> QED BY <1>3, <1>4, <1>5, <2>1, <2>2 DEF HandshakeStates
<1>8. CASE AuthRead(c)
  <2> DEFINE k == Consume(c, Recv(c), AuthEnd(net[c].script))
             r == [k EXCEPT !.st = "AUTH_WRITE", !.auth = net[c].script.auth \in users,
                            !.wb = ReplyLen]
  <2>1. r.st = "AUTH_WRITE" /\ r.status = socks[c].status
    BY <1>2 DEF Consume, SocksType
  <2>2. k.st = socks[c].st /\ k.status = socks[c].status
    BY <1>2 DEF Consume, SocksType
  <2>3. \/ Enter(c, Failed(c), fds[c]) \/ Enter(c, k, fds[c])
        \/ \E f : Enter(c, r, f)
    BY <1>8 DEF AuthRead
  <2> HIDE DEF r, k
  <2> QED BY <1>1, <1>3, <1>5, <2>1, <2>2, <2>3 DEF HandshakeStates
<1>9. CASE AuthWrite(c)
  <2> DEFINE r(st) == [socks[c] EXCEPT !.wb = 0, !.st = st]
  <2>1. \A st : r(st).st = st /\ r(st).status = socks[c].status
    BY <1>2 DEF SocksType
  <2>2. \/ Enter(c, Failed(c), fds[c])
        \/ \E n : Enter(c, [socks[c] EXCEPT !.wb = @ - n], fds[c])
        \/ \E f : Enter(c, r("DONE"), f)
        \/ \E f : Enter(c, r("REQUEST_READ"), f)
    BY <1>9 DEF AuthWrite
  <2> HIDE DEF r
  <2> QED BY <1>3, <1>4, <1>5, <2>1, <2>2
<1> QED BY <1>6, <1>7, <1>8, <1>9

(* request_read starts to resolve, dials, denies or fails. *)
LEMMA RequestReadMove ==
  ASSUME IInv, NEW c \in Conns, RequestRead(c)
  PROVE  Lawful
<1> DEFINE k == Consume(c, Recv(c), RequestEnd(net[c].script))
<1>1. socks[c].st = "REQUEST_READ" /\ socks[c] \in SocksType
  BY RecordTypes DEF RequestRead, ReadReady
<1>2. socks[c].status \notin {"succeeded", "close"} /\ socks[c].st \notin OverStates
  BY <1>1, RecordTypes DEF Conforms, Answered, OverStates
<1>3. k.st = "REQUEST_READ" /\ k.status = socks[c].status
  BY <1>1 DEF Consume, SocksType
<1>4. CASE Enter(c, Failed(c), fds[c])
  BY <1>1, <1>4, FailedMove
<1>5. ASSUME NEW r, NEW f, Enter(c, r, f), r.status \notin {"succeeded", "close"},
             r.st \in {"REQUEST_READ", "REQUEST_RESOLV", "REQUEST_WRITE"}
      PROVE  Lawful
  <2>1. Phase(socks[c].st) = "request" /\ Phase(r.st) \in {"request", "answered"}
    BY <1>1, <1>5, Phases
  <2> QED BY <1>2, <1>5, <2>1, PlainEnter DEF Moves
<1>6. k = [socks[c] EXCEPT !.got = k.got, !.used = k.used]
  BY <1>1 DEF Consume, SocksType
<1> DEFINE q(st, x) == [k EXCEPT !.st = st, !.status = x]
           p(st) == [k EXCEPT !.st = st]
<1>7. \A st, x : q(st, x).st = st /\ q(st, x).status = x
      /\ p(st).st = st /\ p(st).status = k.status
  BY <1>1, <1>6 DEF Consume, SocksType
<1>8. ~(Recv(c) < 0) => k \in SocksType
  <2>1. Recv(c) \in Int
    BY RecordTypes DEF Recv, SocksType, NetType
  <2>2. net[c].script \in AllScripts /\ RequestEnd(net[c].script) \in Nat
    BY MessageEnds, RecordTypes
  <2>3. ASSUME ~(Recv(c) < 0) PROVE k \in SocksType
    <3>1. Recv(c) >= 0
      BY <2>1, <2>3
    <3> QED BY <2>2, <3>1, ConsumeFacts
  <2> QED BY <2>3
<1>9. \/ Enter(c, Failed(c), fds[c]) \/ Enter(c, k, fds[c])
      \/ \E f : Enter(c, q("REQUEST_WRITE", "unsupported"), f)
      \/ ~(Recv(c) < 0) /\ Connect(c, k, fds[c], dns[c])
      \/ \E f : Enter(c, p("REQUEST_RESOLV"), f)
      \/ \E f : Enter(c, q("REQUEST_WRITE", "failed"), f)
  BY Zenon DEF RequestRead, Resolve
<1> HIDE DEF k, q, p
<1>10. CASE ~(Recv(c) < 0) /\ Connect(c, k, fds[c], dns[c])
  BY <1>1, <1>2, <1>3, <1>8, <1>10, ConnectMove
<1> QED BY <1>2, <1>3, <1>4, <1>5, <1>7, <1>9, <1>10

(* request_resolv_done dials, denies or fails. *)
LEMMA ResolvDoneMove ==
  ASSUME IInv, NEW c \in Conns, ResolvDone(c)
  PROVE  Lawful
<1>1. socks[c].st = "REQUEST_RESOLV" /\ socks[c] \in SocksType
  BY RecordTypes DEF ResolvDone
<1>2. socks[c].status \notin {"succeeded", "close"} /\ socks[c].st \notin OverStates
  BY <1>1, RecordTypes DEF Conforms, Answered, OverStates
<1> DEFINE q == [socks[c] EXCEPT !.status = "failed"]
           r == [Failed(c) EXCEPT !.status = "failed"]
<1>3. q \in SocksType /\ q.status = "failed" /\ r.status = "failed" /\ r.st = "ERROR"
  BY <1>1 DEF SocksType, Failed
<1>4. \/ \E d : Connect(c, socks[c], fds[c], d)
      \/ \E d : Connect(c, q, fds[c], d)
      \/ Enter(c, r, fds[c])
  BY Zenon DEF ResolvDone
<1> HIDE DEF q, r
<1>5. CASE Enter(c, r, fds[c])
  <2>1. Phase(socks[c].st) = "request" /\ Phase(r.st) = "over"
    BY <1>1, <1>3, Phases DEF OverStates
  <2> QED BY <1>2, <1>3, <1>5, <2>1, PlainEnter DEF Moves
<1> QED BY <1>1, <1>2, <1>3, <1>4, <1>5, ConnectMove

(* request_connecting grants, denies or dials again. *)
LEMMA RequestConnectingMove ==
  ASSUME IInv, NEW c \in Conns, RequestConnecting(c)
  PROVE  Lawful
<1>1. socks[c].st = "REQUEST_CONNECTING" /\ socks[c] \in SocksType
  BY RecordTypes DEF RequestConnecting
<1>2. socks[c].status \notin {"succeeded", "close"}
  BY <1>1, RecordTypes DEF Conforms, Answered, OverStates
<1> DEFINE r(x) == [socks[c] EXCEPT !.st = "REQUEST_WRITE", !.status = x, !.wb = ReplyLen]
           q == [socks[c] EXCEPT !.status = "failed"]
<1>3. /\ \A x : r(x).st = "REQUEST_WRITE" /\ r(x).status = x
      /\ q \in SocksType /\ q.status = "failed"
  BY <1>1 DEF SocksType
<1>4. /\ Phase(socks[c].st) = "dialing"
      /\ \A x : Phase(r(x).st) = "answered"
  BY <1>1, <1>3, Phases
<1>5. \/ socks' = [socks EXCEPT ![c] = r("succeeded")] /\ current' = current + 1
      \/ \E d : Connect(c, q, fds[c], d)
      \/ socks' = [socks EXCEPT ![c] = r("failed")] /\ current' = current
      \/ UNCHANGED <<socks, current>>
  BY DEF RequestConnecting, metrics
<1> HIDE DEF r, q
<1>6. CASE socks' = [socks EXCEPT ![c] = r("succeeded")] /\ current' = current + 1
  <2>1. /\ phaseView' = [phaseView EXCEPT ![c] = "answered"]
        /\ grantedView' = [grantedView EXCEPT ![c] = TRUE]
        /\ phaseView[c] = "dialing"
    <3>1. r("succeeded").status \in {"succeeded", "close"}
      BY <1>3
    <3>2. grantedView' = [grantedView EXCEPT ![c] = TRUE]
      BY <1>6, <3>1, GrantedUpdate
    <3>3. phaseView' = [phaseView EXCEPT ![c] = "answered"] /\ phaseView[c] = "dialing"
      <4>1. Phase(r("succeeded").st) = "answered"
        BY <1>4
      <4>2. /\ phaseView' = [phaseView EXCEPT ![c] = Phase(r("succeeded").st)]
            /\ phaseView[c] = Phase(socks[c].st)
        BY <1>6, PhaseUpdate
      <4> QED BY <1>4, <4>1, <4>2
    <3> QED BY <3>2, <3>3
  <2>2. ProxyView!Grant(c)
    BY <1>6, <2>1 DEF phaseView, grantedView, ProxyView!Grant, ProxyView!Move
  <2>3. /\ c \in Conns \ Succeeded /\ Succeeded' = Succeeded \cup {c}
    BY <1>2, <1>3, <1>6 DEF Succeeded, IInv, TypeOK
  <2> QED BY <1>6, <2>2, <2>3 DEF ProxyView!PNext, Lawful, CountStep
<1>7. CASE socks' = [socks EXCEPT ![c] = r("failed")] /\ current' = current
  <2>1. r("failed").status = "failed"
    BY <1>3
  <2>2. <<Phase(socks[c].st), Phase(r("failed").st)>> \in Moves
    BY <1>4 DEF Moves
  <2> QED BY <1>2, <1>7, <2>1, <2>2, PlainMove
<1>8. CASE UNCHANGED <<socks, current>>
  BY <1>8 DEF ProxyView!pvars, Lawful, CountStep, Succeeded
<1>9. CASE \E d : Connect(c, q, fds[c], d)
  BY <1>1, <1>3, <1>9, ConnectMove
<1> QED BY <1>5, <1>6, <1>7, <1>8, <1>9

(* request_write relays what was granted and drops the rest. *)
LEMMA RequestWriteMove ==
  ASSUME IInv, NEW c \in Conns, RequestWrite(c)
  PROVE  Lawful
<1>1. /\ socks[c].st = "REQUEST_WRITE" /\ socks[c] \in SocksType
      /\ socks[c].st \notin OverStates
  BY RecordTypes DEF RequestWrite, WriteReady, OverStates
<1>2. socks[c].status # "close"
  BY <1>1, RecordTypes DEF Conforms, Answered
<1> DEFINE r(st) == [socks[c] EXCEPT !.wb = 0, !.st = st]
<1>3. \A st : r(st).st = st /\ r(st).status = socks[c].status
  BY <1>1 DEF SocksType
<1>4. \/ Enter(c, Failed(c), fds[c]) \/ \E n : Enter(c, [socks[c] EXCEPT !.wb = @ - n], fds[c])
      \/ socks[c].status = "succeeded" /\ \E f : Enter(c, r("COPY"), f)
      \/ \E f : Enter(c, r("DONE"), f)
  BY DEF RequestWrite, Granted
<1> HIDE DEF r
<1>5. Phase(socks[c].st) = "answered" /\ Phase("COPY") = "relay" /\ Phase("DONE") = "over"
  BY <1>1, Phases DEF OverStates
<1> QED BY <1>1, <1>2, <1>3, <1>4, <1>5, FailedMove, PartialSendMove, PlainEnter DEF Moves

(* Only a granted tunnel ends, and it is counted off. *)
LEMMA CopyEndMove ==
  ASSUME IInv, NEW c \in Conns, CopyEnd(c)
  PROVE  Lawful
<1> DEFINE r == [socks[c] EXCEPT !.st = "DONE", !.status = "close"]
<1>1. /\ socks[c].st = "COPY" /\ socks[c] \in SocksType /\ Enter(c, r, fds[c])
  BY RecordTypes DEF CopyEnd
<1>2. socks[c].status = "succeeded"
  BY <1>1, RecordTypes DEF Conforms, Answered
<1>3. r.st = "DONE" /\ r.status = "close"
  BY <1>1 DEF SocksType
<1> HIDE DEF r
<1>4. socks' = [socks EXCEPT ![c] = r] /\ current' = current - 1
  BY <1>1, <1>3 DEF Enter, OverStates
<1>5. /\ phaseView' = [phaseView EXCEPT ![c] = "over"]
      /\ grantedView' = [grantedView EXCEPT ![c] = TRUE]
      /\ phaseView[c] = "relay" /\ grantedView[c] = TRUE
  <2>1. r.status \in {"succeeded", "close"}
    BY <1>3
  <2>2. Phase(socks[c].st) = "relay" /\ Phase(r.st) = "over"
    BY <1>1, <1>3, Phases DEF OverStates
  <2>3. grantedView' = [grantedView EXCEPT ![c] = TRUE] /\ grantedView[c] = TRUE
    BY <1>2, <1>4, <2>1, GrantedUpdate
  <2>4. phaseView' = [phaseView EXCEPT ![c] = "over"] /\ phaseView[c] = "relay"
    BY <1>4, <2>2, PhaseUpdate
  <2> QED BY <2>3, <2>4
<1>6. grantedView' = grantedView
  BY <1>5 DEF grantedView
<1>7. ProxyView!EndRelay(c)
  BY <1>4, <1>5, <1>6 DEF phaseView, grantedView, ProxyView!EndRelay, ProxyView!Move
<1>8. c \in Succeeded /\ Succeeded' = Succeeded \ {c}
  BY <1>2, <1>3, <1>4 DEF Succeeded, IInv, TypeOK
<1> QED BY <1>4, <1>7, <1>8 DEF ProxyView!PNext, Lawful, CountStep

(* A connection arrives. *)
LEMMA AcceptMove ==
  ASSUME IInv, NEW c \in Conns, Accept(c)
  PROVE  Lawful
<1>1. socks[c].st = "NONE" /\ socks[c] \in SocksType /\ current' = current
  BY RecordTypes DEF Accept, metrics
<1> DEFINE r == [socks[c] EXCEPT !.st = "REFUSED"]
           q == [socks[c] EXCEPT !.st = "HELLO_READ", !.small = small]
<1>2. /\ r.st = "REFUSED" /\ r.status = socks[c].status
      /\ q.st = "HELLO_READ" /\ q.status = socks[c].status
  BY <1>1 DEF SocksType
<1>3. socks' = [socks EXCEPT ![c] = r] \/ socks' = [socks EXCEPT ![c] = q]
  BY DEF Accept, Refused, IInv, TypeOK
<1> HIDE DEF r, q
<1>4. /\ Phase(socks[c].st) = "idle" /\ Phase(r.st) = "over" /\ Phase(q.st) = "handshake"
  BY <1>1, <1>2, Phases DEF HandshakeStates
<1>5. socks[c].status # "close"
  BY <1>1, RecordTypes DEF Conforms, Answered
<1> QED BY <1>1, <1>2, <1>3, <1>4, <1>5, PlainMove DEF Moves

-----------------------------------------------------------------------------
(* Every step is lawful. *)
LEMMA NextLawful == IInv /\ [Next]_vars => Lawful
<1> SUFFICES ASSUME IInv, [Next]_vars PROVE Lawful
  OBVIOUS
<1>1. CASE UNCHANGED <<socks, current>>
  BY <1>1 DEF ProxyView!pvars, Lawful, CountStep, Succeeded
<1>2. ASSUME NEW c \in Conns, Handle(c)
      PROVE  Lawful
  BY <1>2, HandshakeMove, RequestReadMove, ResolvDoneMove, RequestConnectingMove,
     RequestWriteMove DEF Handle
<1>3. ASSUME NEW c \in Conns, Accept(c) \/ CopyEnd(c)
      PROVE  Lawful
  BY <1>3, AcceptMove, CopyEndMove
<1>4. ASSUME NEW c \in Conns,
             ResolverThread(c) \/ ClientSend(c) \/ ClientEnd(c) \/ ServerAnswers(c)
      PROVE  UNCHANGED <<socks, current>>
  BY <1>4 DEF ResolverThread, ClientSend, ClientEnd, ServerAnswers, metrics
<1>5. Administer \/ UNCHANGED vars => UNCHANGED <<socks, current>>
  BY DEF Administer, vars, metrics
<1> QED BY <1>1, <1>2, <1>3, <1>4, <1>5 DEF Next

(* Every connection lives as Proxy says, and the number of concurrent
   connections that is reported is the number of grants less the number of
   relays that ended. *)
THEOREM Refinement == Spec => ImplementsProxy
<1>1. Init => ProxyView!PInit
  <2> SUFFICES ASSUME Init PROVE ProxyView!PInit
    OBVIOUS
  <2>1. \A c \in Conns : socks[c].st = "NONE" /\ socks[c].status = "connecting"
    BY DEF Init
  <2>2. \A c \in Conns : (socks[c].status \in {"succeeded", "close"}) = FALSE
    BY <2>1
  <2>3. phaseView = [c \in Conns |-> "idle"] /\ grantedView = [c \in Conns |-> FALSE]
    BY <2>1, <2>2, Phases DEF phaseView, grantedView
  <2> QED BY <2>3 DEF ProxyView!PInit, Init, phaseView, grantedView
<1>2. IInv /\ [Next]_vars => [ProxyView!PNext]_(ProxyView!pvars)
  BY NextLawful DEF Lawful
<1> QED BY <1>1, <1>2, InductiveInvariant, PTL DEF Spec, ImplementsProxy, ProxyView!PSpec

(* current_connections is the number of connections that were told of success
   and did not go through the end of a tunnel, however many there are. *)
THEOREM MetricIsACount == Spec => []CurrentCounts
<1> DEFINE Inv == IInv /\ current = Cardinality(Succeeded)
<1>1. Init => current = Cardinality(Succeeded)
  <2> SUFFICES ASSUME Init PROVE current = Cardinality(Succeeded)
    OBVIOUS
  <2>1. Succeeded = {}
    BY DEF Init, Succeeded
  <2> QED BY <2>1, FS_EmptySet DEF Init
<1>2. Inv /\ [Next]_vars => Inv'
  <2> SUFFICES ASSUME IInv, current = Cardinality(Succeeded), [Next]_vars
               PROVE  IInv' /\ current' = Cardinality(Succeeded')
    OBVIOUS
  <2>1. IInv' /\ CountStep
    BY NextStep, NextLawful DEF Lawful
  <2>2. IsFiniteSet(Succeeded)
    BY ConstantsAssumption, FS_Subset DEF Succeeded
  <2>3. CASE UNCHANGED <<current, Succeeded>>
    BY <2>1, <2>3
  <2>4. ASSUME NEW c \in Conns \ Succeeded, Succeeded' = Succeeded \cup {c},
               current' = current + 1
        PROVE  current' = Cardinality(Succeeded')
    BY <2>2, <2>4, FS_AddElement
  <2>5. ASSUME NEW c \in Succeeded, Succeeded' = Succeeded \ {c}, current' = current - 1
        PROVE  current' = Cardinality(Succeeded')
    BY <2>2, <2>5, FS_RemoveElement
  <2> QED BY <2>1, <2>3, <2>4, <2>5 DEF CountStep
<1>3. Inv => CurrentCounts
  BY DEF CurrentCounts, Succeeded
<1> QED BY <1>1, <1>2, <1>3, InitIInv, PTL DEF Spec

-----------------------------------------------------------------------------
(* A waiting client is brought to its answer.  What a step leaves of the
   connection it is about: paced, and nearer to the answer. *)
Unprompting == Env \cap {"pipeline", "resources"} = {}
Now(c) == Paced(socks[c], dns[c], net[c])
Advances(c) ==
  /\ Paced(socks'[c], dns'[c], net'[c])
  /\ Waiting(socks[c], fds[c], net[c]) /\ proc' = "up"
       => Left(socks'[c], dns'[c], net'[c]) < Left(socks[c], dns[c], net[c])

(* Only the stages of a request have something left, and at least a step. *)
LEMMA LeftOf ==
  ASSUME NEW r \in SocksType, NEW d \in DnsType, d.cur <= d.n, NEW n
  PROVE  /\ r.st = "REQUEST_READ" => Left(r, d, n) = ReplyLen + 2 * MaxAddrs + 6
         /\ r.st = "REQUEST_RESOLV" /\ d.thr = "running" =>
              Left(r, d, n) = ReplyLen + 2 * MaxAddrs + 5
         /\ r.st = "REQUEST_RESOLV" /\ d.thr # "running" =>
              Left(r, d, n) = ReplyLen + 2 * MaxAddrs + 4
         /\ r.st = "REQUEST_CONNECTING" /\ n.dest = "pending" =>
              Left(r, d, n) = ReplyLen + 2 * (d.n - d.cur) + 3
         /\ r.st = "REQUEST_CONNECTING" /\ n.dest # "pending" =>
              Left(r, d, n) = ReplyLen + 2 * (d.n - d.cur) + 2
         /\ r.st = "REQUEST_WRITE" => Left(r, d, n) = r.wb + 1
         /\ r.st \in OverStates \cup {"COPY"} => Left(r, d, n) = 0
BY DEF Left, OverStates

(* A client in the handshake has not sent its request, one that waits is behind
   it. *)
LEMMA WaitingStates ==
  ASSUME IInv, NEW c \in Conns, Now(c), Waiting(socks[c], fds[c], net[c])
  PROVE  socks[c].st \in {"REQUEST_READ", "REQUEST_RESOLV", "REQUEST_CONNECTING",
                          "REQUEST_WRITE"}
<1>1. /\ socks[c] \in SocksType /\ net[c].sent \in Nat
      /\ fds[c].cli = ClientItem(socks[c].st)
  BY RecordTypes DEF Conforms, Watched
<1>2. /\ HelloLen < RequestEnd(net[c].script) /\ AuthEnd(net[c].script) < RequestEnd(net[c].script)
      /\ HelloLen \in Nat /\ AuthEnd(net[c].script) \in Nat /\ RequestEnd(net[c].script) \in Nat
  BY RecordTypes, MessageEnds
<1>3. socks[c].st \notin HandshakeStates
  BY <1>1, <1>2 DEF Now, Paced, Waiting, HandshakeStates
<1>4. socks[c].st \notin {"NONE", "REFUSED"} \cup OverStates
  BY <1>1 DEF Waiting, ClientItem, OverStates
<1>5. socks[c].st # "COPY"
  BY DEF Waiting
<1> QED BY <1>1, <1>3, <1>4, <1>5 DEF SocksType, States, RequestStates

(* A handler that ends in Enter: what becomes of the struct. *)
LEMMA EnterResult ==
  ASSUME IInv, NEW c \in Conns, NEW r, NEW f, Enter(c, r, f)
  PROVE  socks'[c] = r
BY DEF Enter, IInv, TypeOK

(* The handshake: a client that waits for the reply has not sent its request
   when it is read. *)
LEMMA HandshakePaced ==
  ASSUME IInv, NEW c \in Conns, Now(c), socks[c].st \in HandshakeStates,
         NEW r, NEW f, Enter(c, r, f), UNCHANGED <<dns, net>>,
         <<socks[c].st, r.st>> \in
           {<<"HELLO_READ", "HELLO_WRITE">>, <<"HELLO_WRITE", "HELLO_WRITE">>,
            <<"HELLO_WRITE", "AUTH_READ">>, <<"HELLO_WRITE", "REQUEST_READ">>,
            <<"HELLO_WRITE", "DONE">>, <<"AUTH_READ", "AUTH_READ">>,
            <<"AUTH_READ", "AUTH_WRITE">>, <<"AUTH_WRITE", "AUTH_WRITE">>,
            <<"AUTH_WRITE", "DONE">>, <<"AUTH_WRITE", "REQUEST_READ">>} \/ r.st = "ERROR",
         r.st = "REQUEST_READ" => r.got = socks[c].got
  PROVE  Advances(c)
<1>1. socks'[c] = r /\ dns'[c] = dns[c] /\ net'[c] = net[c]
  BY EnterResult
<1>2. ~Waiting(socks[c], fds[c], net[c])
  BY WaitingStates DEF HandshakeStates
<1>3. /\ HelloLen <= AuthEnd(net[c].script) /\ AuthEnd(net[c].script) < RequestEnd(net[c].script)
      /\ HelloLen \in Nat /\ AuthEnd(net[c].script) \in Nat /\ RequestEnd(net[c].script) \in Nat
      /\ net[c].sent \in Nat /\ socks[c].got \in Nat /\ socks[c].got <= net[c].sent
  BY RecordTypes, MessageEnds DEF Conforms, Counted, SocksType
<1>4. net[c].dest # "pending"
  BY DEF Now, Paced, HandshakeStates
<1>5. Paced(r, dns[c], net[c])
  <2>1. r.st # "REQUEST_READ" \/ r.got < RequestEnd(net[c].script)
    BY <1>3 DEF Now, Paced
  <2>2. r.st \in {"HELLO_READ", "HELLO_WRITE"} => net[c].sent <= HelloLen
    BY DEF Now, Paced
  <2>3. r.st \in {"AUTH_READ", "AUTH_WRITE"} => net[c].sent <= AuthEnd(net[c].script)
    BY <1>3 DEF Now, Paced
  <2>4. r.st \notin {"NONE", "REQUEST_RESOLV", "REQUEST_CONNECTING"}
    OBVIOUS
  <2> QED BY <1>4, <2>1, <2>2, <2>3, <2>4 DEF Paced
<1> QED BY <1>1, <1>2, <1>5 DEF Advances

(* Each handler of the handshake goes one of those ways. *)
LEMMA HandshakeAdvances ==
  ASSUME IInv, NEW c \in Conns, Now(c),
         HelloRead(c) \/ HelloWrite(c) \/ AuthRead(c) \/ AuthWrite(c)
  PROVE  Advances(c)
<1>1. /\ socks[c] \in SocksType /\ UNCHANGED <<dns, net>>
      /\ socks[c].st \in HandshakeStates
  BY RecordTypes
     DEF HelloRead, HelloWrite, AuthRead, AuthWrite, ReadReady, WriteReady, HandshakeStates
<1>2. CASE Enter(c, Failed(c), fds[c])
  <2>1. Failed(c).st = "ERROR"
    BY <1>1 DEF Failed, SocksType
  <2> QED BY <1>1, <1>2, <2>1, HandshakePaced
<1>3. ASSUME NEW n, Enter(c, [socks[c] EXCEPT !.wb = @ - n], fds[c]),
             socks[c].st \in {"HELLO_WRITE", "AUTH_WRITE"}
      PROVE  Advances(c)
  <2> DEFINE r == [socks[c] EXCEPT !.wb = @ - n]
  <2>1. r.st = socks[c].st /\ r.got = socks[c].got
    BY <1>1 DEF SocksType
  <2> HIDE DEF r
  <2>2. Enter(c, r, fds[c])
    BY <1>3 DEF r
  <2> QED BY <1>1, <1>3, <2>1, <2>2, HandshakePaced
<1>4. CASE HelloRead(c)
  <2> DEFINE k == Consume(c, Recv(c), HelloLen)
             r == [k EXCEPT !.st = "HELLO_WRITE", !.method = SelectedMethod(net[c].script),
                            !.wb = ReplyLen]
  <2>1. r.st = "HELLO_WRITE" /\ socks[c].st = "HELLO_READ"
    BY <1>1, <1>4 DEF Consume, SocksType, HelloRead, ReadReady
  <2>2. Enter(c, Failed(c), fds[c]) \/ \E f : Enter(c, r, f)
    BY <1>4 DEF HelloRead
  <2> HIDE DEF r
  <2> QED BY <1>1, <1>2, <2>1, <2>2, HandshakePaced
<1>5. CASE HelloWrite(c)
  <2> DEFINE r == [socks[c] EXCEPT !.wb = 0, !.st = AfterHello(socks[c].method)]
  <2>1. /\ r.st \in {"AUTH_READ", "REQUEST_READ", "DONE"} /\ r.got = socks[c].got
        /\ socks[c].st = "HELLO_WRITE"
    BY <1>1, <1>5 DEF AfterHello, SocksType, HelloWrite, WriteReady
  <2>2. \/ Enter(c, Failed(c), fds[c]) \/ \E n : Enter(c, [socks[c] EXCEPT !.wb = @ - n], fds[c])
        \/ \E f : Enter(c, r, f)
    BY <1>5 DEF HelloWrite
  <2> HIDE DEF r
  <2>3. ASSUME NEW f, Enter(c, r, f) PROVE Advances(c)
    BY <1>1, <2>1, <2>3, HandshakePaced
  <2> QED BY <1>2, <1>3, <2>1, <2>2, <2>3
<1>6. CASE AuthRead(c)
  <2> DEFINE k == Consume(c, Recv(c), AuthEnd(net[c].script))
             r == [k EXCEPT !.st = "AUTH_WRITE", !.auth = net[c].script.auth \in users,
                            !.wb = ReplyLen]
  <2>1. r.st = "AUTH_WRITE" /\ k.st = "AUTH_READ" /\ socks[c].st = "AUTH_READ"
    BY <1>1, <1>6 DEF Consume, SocksType, AuthRead, ReadReady
  <2>2. \/ Enter(c, Failed(c), fds[c]) \/ Enter(c, k, fds[c])
        \/ \E f : Enter(c, r, f)
    BY <1>6 DEF AuthRead
  <2> HIDE DEF r, k
  <2> QED BY <1>1, <1>2, <2>1, <2>2, HandshakePaced
<1>7. CASE AuthWrite(c)
  <2> DEFINE r(st) == [socks[c] EXCEPT !.wb = 0, !.st = st]
  <2>1. /\ socks[c].st = "AUTH_WRITE"
        /\ \A st : r(st).st = st /\ r(st).got = socks[c].got
    BY <1>1, <1>7 DEF SocksType, AuthWrite, WriteReady
  <2>2. \/ Enter(c, Failed(c), fds[c])
        \/ \E n : Enter(c, [socks[c] EXCEPT !.wb = @ - n], fds[c])
        \/ \E f, st : st \in {"DONE", "REQUEST_READ"} /\ Enter(c, r(st), f)
    BY <1>7 DEF AuthWrite
  <2> HIDE DEF r
  <2>3. ASSUME NEW f, NEW st \in {"DONE", "REQUEST_READ"}, Enter(c, r(st), f)
        PROVE  Advances(c)
    BY <1>1, <2>1, <2>3, HandshakePaced
  <2> QED BY <1>2, <1>3, <2>1, <2>2, <2>3
<1> QED BY <1>4, <1>5, <1>6, <1>7


(* The bounds of what is left in the stages of a request. *)
LEMMA LeftBounds ==
  ASSUME IInv, NEW c \in Conns
  PROVE  /\ ReplyLen \in Nat /\ MaxAddrs \in Nat
         /\ dns[c].n \in Nat /\ dns[c].cur \in Nat
         /\ dns[c].cur <= dns[c].n /\ dns[c].n <= MaxAddrs
         /\ socks[c].wb \in Nat /\ socks[c].wb <= ReplyLen
BY RecordTypes, ConstantsAssumption DEF Conforms, Counted, DnsType, SocksType

(* request_connect: an address is dialed, and those before it are behind; or the
   reply is written, or it is over. *)
LEMMA ConnectPaced ==
  ASSUME IInv, NEW c \in Conns, NEW r \in SocksType, NEW f, NEW d \in DnsType,
         d.cur <= d.n, Connect(c, r, f, d)
  PROVE  /\ Paced(socks'[c], dns'[c], net'[c])
         /\ Left(socks'[c], dns'[c], net'[c]) \in 0..(ReplyLen + 2 * (d.n - d.cur) + 3)
<1>1. PICK k \in 0..(d.n - d.cur) :
        LET e == NextIp(d, k)
            s == IF k = 0 THEN r ELSE [r EXCEPT !.status = "failed"]
            g == UnregisterServer(f)
        IN  /\ dns' = [dns EXCEPT ![c] = e]
            /\ \/ /\ Enter(c, [s EXCEPT !.st = "REQUEST_CONNECTING"],
                             [g EXCEPT !.srv = "OP_WRITE", !.cli = "OP_NOOP"])
                  /\ net' = [net EXCEPT ![c].dest = "pending"]
               \/ /\ Enter(c, [s EXCEPT !.st = "REQUEST_WRITE", !.status = "failed",
                                        !.wb = ReplyLen],
                             [g EXCEPT !.srv = "open", !.cli = "OP_WRITE"])
                  /\ net' = [net EXCEPT ![c].dest = "immediate"]
               \/ /\ Enter(c, [s EXCEPT !.st = "ERROR", !.status = "failed"],
                             [g EXCEPT !.srv = "open", !.cli = "OP_WRITE"])
                  /\ net' = [net EXCEPT ![c].dest = "immediate"]
               \/ /\ Enter(c, [s EXCEPT !.st = "ERROR"], [g EXCEPT !.srv = "none"])
                  /\ net' = [net EXCEPT ![c].dest = "none"]
               \/ /\ Enter(c, [s EXCEPT !.st = "ERROR"], [g EXCEPT !.srv = "open"])
                  /\ net' = [net EXCEPT ![c].dest = "immediate"]
  BY Zenon DEF Connect
<1> DEFINE s == IF k = 0 THEN r ELSE [r EXCEPT !.status = "failed"]
           e == NextIp(d, k)
<1>2. s \in SocksType
  BY DEF SocksType
<1>3. e \in DnsType /\ e.cur <= e.n /\ e.n - e.cur <= d.n - d.cur /\ dns'[c] = e
  <2>1. dns' = [dns EXCEPT ![c] = e]
    BY <1>1
  <2>2. dns'[c] = e
    BY <2>1, RecordTypes DEF IInv, TypeOK
  <2>3. e \in DnsType /\ e.cur = d.cur + k /\ e.cur <= e.n /\ e.n = d.n
    BY NextIpFacts
  <2>4. d.n \in Nat /\ d.cur \in Nat
    BY DEF DnsType
  <2> HIDE DEF e
  <2> QED BY <2>2, <2>3, <2>4
<1>4. /\ net[c] \in NetType /\ ReplyLen \in Nat
      /\ d.n - d.cur \in Nat
  BY RecordTypes, ConstantsAssumption DEF DnsType
<1> HIDE DEF s, e
<1>5. ASSUME NEW q, NEW g, Enter(c, q, g), q.st = "REQUEST_CONNECTING", q \in SocksType,
             net' = [net EXCEPT ![c].dest = "pending"]
      PROVE  /\ Paced(socks'[c], dns'[c], net'[c])
             /\ Left(socks'[c], dns'[c], net'[c]) \in 0..(ReplyLen + 2 * (d.n - d.cur) + 3)
  <2>1. socks'[c] = q /\ net'[c].dest = "pending"
    BY <1>4, <1>5, EnterResult DEF IInv, TypeOK, NetType
  <2>2. Left(q, e, net'[c]) = ReplyLen + 2 * (e.n - e.cur) + 3
    BY <1>5, <2>1 DEF Left
  <2>3. e.n \in Nat /\ e.cur \in Nat
    BY <1>3 DEF DnsType
  <2>4. ReplyLen + 2 * (e.n - e.cur) + 3 \in 0..(ReplyLen + 2 * (d.n - d.cur) + 3)
    BY <1>3, <1>4, <2>3
  <2>5. Paced(q, e, net'[c])
    BY <1>5, <2>1 DEF Paced
  <2> QED BY <1>3, <2>1, <2>2, <2>4, <2>5
<1>6. ASSUME NEW q, NEW g, Enter(c, q, g), q \in SocksType,
             q.st = "ERROR" \/ q.st = "REQUEST_WRITE",
             NEW x \in {"none", "immediate"}, net' = [net EXCEPT ![c].dest = x]
      PROVE  /\ Paced(socks'[c], dns'[c], net'[c])
             /\ Left(socks'[c], dns'[c], net'[c]) \in 0..(ReplyLen + 2 * (d.n - d.cur) + 3)
  <2>1. socks'[c] = q /\ net'[c].dest # "pending"
    BY <1>4, <1>6, EnterResult DEF IInv, TypeOK, NetType
  <2>2. Left(q, e, net'[c]) = 0 \/ Left(q, e, net'[c]) = q.wb + 1
    BY <1>3, <1>6, LeftOf DEF OverStates
  <2>3. q.wb \in Nat /\ q.wb <= ReplyLen
    BY <1>4, <1>6 DEF SocksType
  <2>4. Left(q, e, net'[c]) \in 0..(ReplyLen + 2 * (d.n - d.cur) + 3)
    BY <1>4, <2>2, <2>3
  <2>5. Paced(q, e, net'[c])
    BY <1>6, <2>1 DEF Paced
  <2> QED BY <1>3, <2>1, <2>4, <2>5
<1> DEFINE r1 == [s EXCEPT !.st = "REQUEST_CONNECTING"]
           r2 == [s EXCEPT !.st = "REQUEST_WRITE", !.status = "failed", !.wb = ReplyLen]
           r3 == [s EXCEPT !.st = "ERROR", !.status = "failed"]
           r4 == [s EXCEPT !.st = "ERROR"]
<1>7. /\ r1 \in SocksType /\ r2 \in SocksType /\ r3 \in SocksType /\ r4 \in SocksType
      /\ r1.st = "REQUEST_CONNECTING" /\ r2.st = "REQUEST_WRITE"
      /\ r3.st = "ERROR" /\ r4.st = "ERROR"
  <2>1. {"REQUEST_CONNECTING", "REQUEST_WRITE", "ERROR"} \subseteq States
    BY StateSets DEF RequestStates, OverStates
  <2>2. r1 \in SocksType /\ r2 \in SocksType /\ r3 \in SocksType /\ r4 \in SocksType
    BY <1>2, <2>1, SocksUpdate, StateSets
  <2> QED BY <1>2, <2>2 DEF SocksType
<1>8. \/ (\E g : Enter(c, r1, g)) /\ net' = [net EXCEPT ![c].dest = "pending"]
      \/ (\E g : Enter(c, r2, g)) /\ net' = [net EXCEPT ![c].dest = "immediate"]
      \/ (\E g : Enter(c, r3, g)) /\ net' = [net EXCEPT ![c].dest = "immediate"]
      \/ (\E g : Enter(c, r4, g)) /\ \E x \in {"none", "immediate"} :
                                       net' = [net EXCEPT ![c].dest = x]
  BY <1>1, Zenon DEF s
<1> HIDE DEF r1, r2, r3, r4
<1> QED BY <1>5, <1>6, <1>7, <1>8

(* request_read: all that was sent is received, and it was the whole request. *)
LEMMA RequestReadAdvances ==
  ASSUME Unprompting, IInv, NEW c \in Conns, Now(c), RequestRead(c)
  PROVE  Advances(c)
<1> DEFINE k == Consume(c, Recv(c), RequestEnd(net[c].script))
<1>1. /\ socks[c].st = "REQUEST_READ" /\ socks[c] \in SocksType /\ dns[c] \in DnsType
      /\ dns[c].cur <= dns[c].n /\ net[c].dest # "pending"
  BY RecordTypes DEF RequestRead, ReadReady, Conforms, Counted, Now, Paced
<1>2. /\ Left(socks[c], dns[c], net[c]) = ReplyLen + 2 * MaxAddrs + 6
      /\ ReplyLen \in Nat /\ MaxAddrs \in Nat
  BY <1>1, LeftOf, LeftBounds
<1>3. k.st = "REQUEST_READ"
  BY <1>1 DEF Consume, SocksType
<1>4. ASSUME NEW r, NEW f, Enter(c, r, f), r \in SocksType, UNCHANGED net,
             r.st \in {"ERROR", "REQUEST_WRITE"}, UNCHANGED dns
      PROVE  Advances(c)
  <2>1. socks'[c] = r /\ dns'[c] = dns[c] /\ net'[c] = net[c]
    BY <1>4, EnterResult
  <2>2. Paced(r, dns[c], net[c])
    BY <1>1, <1>4 DEF Paced
  <2>3. Left(r, dns[c], net[c]) = 0 \/ Left(r, dns[c], net[c]) = r.wb + 1
    BY <1>1, <1>4, LeftOf DEF OverStates
  <2>4. r.wb \in Nat /\ r.wb <= ReplyLen
    BY <1>2, <1>4 DEF SocksType
  <2>5. Left(r, dns[c], net[c]) < Left(socks[c], dns[c], net[c])
    BY <1>2, <2>3, <2>4
  <2> QED BY <2>1, <2>2, <2>5 DEF Advances
<1>5. Recv(c) < 0 \/ (k \in SocksType /\ k.got = net[c].sent
                        /\ socks[c].got + Recv(c) = net[c].sent)
  <2>1. /\ Recv(c) \in Int /\ socks[c].got \in Nat /\ net[c].sent \in Nat
        /\ Recv(c) < 0 \/ Recv(c) = net[c].sent - socks[c].got
    BY RecordTypes DEF Recv, SocksType, NetType
  <2>2. RequestEnd(net[c].script) \in Nat
    BY MessageEnds, RecordTypes
  <2>3. CASE Recv(c) >= 0
    <3>1. k \in SocksType /\ k.got = net[c].sent
      BY <2>2, <2>3, ConsumeFacts
    <3> HIDE DEF k
    <3> QED BY <2>1, <3>1
  <2> QED BY <2>1, <2>3
<1>6. Failed(c).st = "ERROR" /\ Failed(c) \in SocksType
  <2>1. "ERROR" \in States
    BY StateSets DEF OverStates
  <2> QED BY <1>1, <2>1 DEF Failed, SocksType
<1> DEFINE w(x) == [k EXCEPT !.st = "REQUEST_WRITE", !.status = x]
           v == [k EXCEPT !.st = "REQUEST_RESOLV"]
<1>7. ASSUME k \in SocksType
      PROVE  /\ \A x \in {"unsupported", "failed"} :
                  w(x) \in SocksType /\ w(x).st = "REQUEST_WRITE"
             /\ v \in SocksType /\ v.st = "REQUEST_RESOLV"
  <2>1. {"REQUEST_RESOLV", "REQUEST_WRITE"} \subseteq States
    BY StateSets DEF RequestStates
  <2> HIDE DEF k
  <2>2. /\ \A x \in {"unsupported", "failed"} : w(x) \in SocksType
        /\ v \in SocksType
    BY <1>7, <2>1, SocksUpdate, StateSets
  <2> QED BY <1>7, <2>2 DEF SocksType
<1>8. \/ Enter(c, Failed(c), fds[c]) /\ UNCHANGED <<dns, net>>
      \/ /\ ~(Recv(c) < 0)
         /\ ~(socks[c].got + Recv(c) >= RequestEnd(net[c].script))
         /\ Enter(c, k, fds[c]) /\ UNCHANGED <<dns, net>>
      \/ /\ ~(Recv(c) < 0)
         /\ \E f : Enter(c, w("unsupported"), f)
         /\ UNCHANGED <<dns, net>>
      \/ ~(Recv(c) < 0) /\ Connect(c, k, fds[c], dns[c])
      \/ ~(Recv(c) < 0) /\ Resolve(c, k)
  BY Zenon DEF RequestRead
<1> HIDE DEF k, w, v
<1>9. CASE Enter(c, Failed(c), fds[c]) /\ UNCHANGED <<dns, net>>
  BY <1>4, <1>6, <1>9
<1>10. CASE /\ ~(Recv(c) < 0)
            /\ ~(socks[c].got + Recv(c) >= RequestEnd(net[c].script))
            /\ Enter(c, k, fds[c]) /\ UNCHANGED <<dns, net>>
  <2>1. socks'[c] = k /\ dns'[c] = dns[c] /\ net'[c] = net[c]
    BY <1>10, EnterResult
  <2>2. k.got = net[c].sent /\ net[c].sent < RequestEnd(net[c].script)
    <3>1. net[c].sent \in Nat /\ RequestEnd(net[c].script) \in Nat
      BY MessageEnds, RecordTypes
    <3> QED BY <1>5, <1>10, <3>1
  <2>3. Paced(k, dns[c], net[c])
    BY <1>1, <1>3, <2>2 DEF Paced
  <2>4. ~Waiting(socks[c], fds[c], net[c])
    <3>1. net[c].sent \in Nat
      BY RecordTypes
    <3> QED BY <2>2, <3>1 DEF Waiting
  <2> QED BY <2>1, <2>3, <2>4 DEF Advances
<1>11. CASE /\ ~(Recv(c) < 0)
            /\ \E f : Enter(c, w("unsupported"), f)
            /\ UNCHANGED <<dns, net>>
  BY <1>4, <1>5, <1>7, <1>11
<1>12. CASE ~(Recv(c) < 0) /\ Connect(c, k, fds[c], dns[c])
  <2>1. /\ Paced(socks'[c], dns'[c], net'[c])
        /\ Left(socks'[c], dns'[c], net'[c]) \in 0..(ReplyLen + 2 * (dns[c].n - dns[c].cur) + 3)
    BY <1>1, <1>5, <1>12, ConnectPaced
  <2>2. dns[c].n \in Nat /\ dns[c].cur \in Nat /\ dns[c].n <= MaxAddrs
    BY LeftBounds
  <2>3. ReplyLen + 2 * (dns[c].n - dns[c].cur) + 3 < ReplyLen + 2 * MaxAddrs + 6
    BY <1>2, <2>2
  <2>4. Left(socks'[c], dns'[c], net'[c]) < Left(socks[c], dns[c], net[c])
    BY <1>2, <2>1, <2>2, <2>3
  <2> QED BY <2>1, <2>4 DEF Advances
<1>13. CASE ~(Recv(c) < 0) /\ Resolve(c, k)
  <2>1. \/ /\ dns' = [dns EXCEPT ![c].thr = "running"]
           /\ \E f : Enter(c, v, f)
           /\ UNCHANGED net
        \/ /\ "resources" \in Env
    <3>1. "resources" \notin Env
      BY DEF Unprompting
    <3> QED BY <1>13, <3>1, Zenon DEF Resolve, v
  <2>2. CASE /\ dns' = [dns EXCEPT ![c].thr = "running"]
             /\ \E f : Enter(c, v, f)
             /\ UNCHANGED net
    <3>1. socks'[c] = v /\ v \in SocksType /\ v.st = "REQUEST_RESOLV" /\ net'[c] = net[c]
      BY <1>5, <1>7, <1>13, <2>2, EnterResult
    <3>2. dns'[c].thr = "running" /\ dns'[c] \in DnsType /\ dns'[c].cur <= dns'[c].n
      BY <1>1, <2>2, RecordTypes DEF IInv, TypeOK, DnsType
    <3>3. Paced(v, dns'[c], net[c])
      BY <1>1, <3>1, <3>2 DEF Paced
    <3>4. Left(v, dns'[c], net[c]) = ReplyLen + 2 * MaxAddrs + 5
      BY <3>1, <3>2, LeftOf
    <3> QED BY <1>2, <3>1, <3>3, <3>4 DEF Advances
  <2>3. "resources" \notin Env
    BY DEF Unprompting
  <2> QED BY <2>1, <2>2, <2>3
<1> QED BY <1>8, <1>9, <1>10, <1>11, <1>12, <1>13


(* request_resolv_blocking: the answer is queued for the handler. *)
LEMMA ResolverThreadAdvances ==
  ASSUME Unprompting, IInv, NEW c \in Conns, Now(c), ResolverThread(c)
  PROVE  Advances(c)
<1>1. /\ dns[c].thr = "running" /\ UNCHANGED <<socks, net>>
      /\ "resources" \notin Env
  BY DEF ResolverThread, Unprompting
<1>2. socks[c].st = "REQUEST_RESOLV" /\ socks[c] \in SocksType /\ dns[c] \in DnsType
      /\ dns[c].cur <= dns[c].n
  BY <1>1, RecordTypes DEF Conforms, Counted
<1>3. PICK n \in 0..MaxAddrs :
        dns' = [dns EXCEPT ![c] = [thr |-> "queued", n |-> n, cur |-> Least(1, n), dial |-> 0]]
  BY <1>1 DEF ResolverThread
<1> DEFINE d == [thr |-> "queued", n |-> n, cur |-> Least(1, n), dial |-> 0]
<1>4. d \in DnsType /\ d.thr = "queued" /\ d.cur <= d.n
  BY ConstantsAssumption DEF DnsType, Least
<1>5. dns'[c] = d /\ socks'[c] = socks[c] /\ net'[c] = net[c]
  BY <1>1, <1>3 DEF IInv, TypeOK
<1> HIDE DEF d
<1>6. Paced(socks[c], d, net[c])
  BY <1>2, <1>4 DEF Now, Paced
<1>7. /\ Left(socks[c], dns[c], net[c]) = ReplyLen + 2 * MaxAddrs + 5
      /\ Left(socks[c], d, net[c]) = ReplyLen + 2 * MaxAddrs + 4
      /\ ReplyLen \in Nat /\ MaxAddrs \in Nat
  BY <1>1, <1>2, <1>4, LeftOf, LeftBounds
<1> QED BY <1>5, <1>6, <1>7 DEF Advances

(* request_resolv_done: an address is dialed, or there is none. *)
LEMMA ResolvDoneAdvances ==
  ASSUME IInv, NEW c \in Conns, Now(c), ResolvDone(c)
  PROVE  Advances(c)
<1>1. /\ socks[c].st = "REQUEST_RESOLV" /\ dns[c].thr = "queued"
      /\ socks[c] \in SocksType /\ dns[c] \in DnsType /\ dns[c].cur <= dns[c].n
      /\ net[c].dest # "pending"
  BY RecordTypes DEF ResolvDone, Conforms, Counted, Now, Paced
<1>2. /\ Left(socks[c], dns[c], net[c]) = ReplyLen + 2 * MaxAddrs + 4
      /\ ReplyLen \in Nat /\ MaxAddrs \in Nat
      /\ dns[c].n \in Nat /\ dns[c].cur \in Nat /\ dns[c].n <= MaxAddrs
  BY <1>1, LeftOf, LeftBounds
<1>3. ASSUME NEW r \in SocksType, NEW d \in DnsType, d.n = dns[c].n, d.cur = dns[c].cur,
             Connect(c, r, fds[c], d)
      PROVE  Advances(c)
  <2>1. /\ Paced(socks'[c], dns'[c], net'[c])
        /\ Left(socks'[c], dns'[c], net'[c])
             \in 0..(ReplyLen + 2 * (dns[c].n - dns[c].cur) + 3)
    BY <1>1, <1>3, ConnectPaced
  <2>2. Left(socks'[c], dns'[c], net'[c]) < Left(socks[c], dns[c], net[c])
    BY <1>2, <2>1
  <2> QED BY <2>1, <2>2 DEF Advances
<1> DEFINE d == [dns[c] EXCEPT !.thr = "none"]
           e == [d EXCEPT !.dial = 1]
           q == [socks[c] EXCEPT !.status = "failed"]
           r == [Failed(c) EXCEPT !.status = "failed"]
<1>4. d \in DnsType /\ d.n = dns[c].n /\ d.cur = dns[c].cur
  BY <1>1 DEF DnsType
<1>5. d.n > 0 => e \in DnsType /\ e.n = dns[c].n /\ e.cur = dns[c].cur
  <2>1. d.n > 0 => 1 \in 0..MaxAddrs
    BY <1>2, <1>4
  <2> HIDE DEF d
  <2> QED BY <1>4, <2>1 DEF DnsType
<1>6. /\ q \in SocksType /\ r \in SocksType /\ r.st = "ERROR"
  <2>1. "ERROR" \in States
    BY StateSets DEF OverStates
  <2> QED BY <1>1, <2>1 DEF SocksType, Failed
<1>7. \/ d.n > 0 /\ Connect(c, socks[c], fds[c], e)
      \/ Connect(c, q, fds[c], d)
      \/ Enter(c, r, fds[c]) /\ dns' = [dns EXCEPT ![c] = d] /\ UNCHANGED net
  BY Zenon DEF ResolvDone
<1> HIDE DEF d, e, q, r
<1>8. CASE Enter(c, r, fds[c]) /\ dns' = [dns EXCEPT ![c] = d] /\ UNCHANGED net
  <2>1. socks'[c] = r /\ dns'[c] = d /\ net'[c] = net[c]
    BY <1>8, EnterResult DEF IInv, TypeOK
  <2>2. Paced(r, d, net[c])
    BY <1>1, <1>6 DEF Paced
  <2>3. Left(r, d, net[c]) = 0
    BY <1>1, <1>4, <1>6, LeftOf DEF OverStates
  <2>4. Left(r, d, net[c]) < Left(socks[c], dns[c], net[c])
    BY <1>2, <2>3
  <2> QED BY <2>1, <2>2, <2>4 DEF Advances
<1> QED BY <1>1, <1>3, <1>4, <1>5, <1>6, <1>7, <1>8

(* request_connecting: the reply is written, or the address is behind. *)
LEMMA RequestConnectingAdvances ==
  ASSUME IInv, NEW c \in Conns, Now(c), RequestConnecting(c)
  PROVE  Advances(c)
<1>1. /\ socks[c].st = "REQUEST_CONNECTING" /\ net[c].dest \in {"up", "failed"}
      /\ socks[c] \in SocksType /\ dns[c] \in DnsType /\ dns[c].cur <= dns[c].n
  BY RecordTypes DEF RequestConnecting, Conforms, Counted
<1>2. /\ Left(socks[c], dns[c], net[c]) = ReplyLen + 2 * (dns[c].n - dns[c].cur) + 2
      /\ ReplyLen \in Nat /\ dns[c].n \in Nat /\ dns[c].cur \in Nat
  BY <1>1, LeftOf, LeftBounds
<1> DEFINE r(x) == [socks[c] EXCEPT !.st = "REQUEST_WRITE", !.status = x, !.wb = ReplyLen]
           q == [socks[c] EXCEPT !.status = "failed"]
           d == NextIp(dns[c], 1)
<1>3. /\ q \in SocksType
      /\ \A x \in {"succeeded", "failed"} :
           r(x) \in SocksType /\ r(x).st = "REQUEST_WRITE" /\ r(x).wb = ReplyLen
  <2>1. "REQUEST_WRITE" \in States
    BY StateSets DEF RequestStates
  <2> QED BY <1>1, <2>1, StateSets DEF SocksType
<1>4. HasNextIp(dns[c]) => d \in DnsType /\ d.cur = dns[c].cur + 1 /\ d.n = dns[c].n
                             /\ d.cur <= d.n
  <2>1. HasNextIp(dns[c]) => 1 \in 0..(dns[c].n - dns[c].cur)
    BY <1>1, <1>2 DEF HasNextIp
  <2> QED BY <1>1, <2>1, NextIpFacts
<1>5. \/ \E x \in {"succeeded", "failed"} :
           socks' = [socks EXCEPT ![c] = r(x)] /\ UNCHANGED <<dns, net>>
      \/ HasNextIp(dns[c]) /\ Connect(c, q, fds[c], d)
      \/ proc' = "aborted" /\ UNCHANGED <<socks, dns, net>>
  <2>1. \A x : [socks EXCEPT ![c].st = "REQUEST_WRITE", ![c].status = x, ![c].wb = ReplyLen]
                 = [socks EXCEPT ![c] = r(x)]
    BY DEF IInv, TypeOK, SocksType
  <2> HIDE DEF r
  <2> QED BY <2>1 DEF RequestConnecting, metrics
<1> HIDE DEF r, q, d
<1>6. ASSUME NEW x \in {"succeeded", "failed"}, socks' = [socks EXCEPT ![c] = r(x)],
             UNCHANGED <<dns, net>>
      PROVE  Advances(c)
  <2>1. socks'[c] = r(x) /\ dns'[c] = dns[c] /\ net'[c] = net[c]
    BY <1>6 DEF IInv, TypeOK
  <2>2. Paced(r(x), dns[c], net[c])
    BY <1>1, <1>3 DEF Paced
  <2>3. Left(r(x), dns[c], net[c]) = ReplyLen + 1
    BY <1>1, <1>3, LeftOf
  <2>4. ReplyLen + 1 < ReplyLen + 2 * (dns[c].n - dns[c].cur) + 2
    BY <1>1, <1>2
  <2> QED BY <1>2, <2>1, <2>2, <2>3, <2>4 DEF Advances
<1>7. CASE HasNextIp(dns[c]) /\ Connect(c, q, fds[c], d)
  <2>1. /\ Paced(socks'[c], dns'[c], net'[c])
        /\ Left(socks'[c], dns'[c], net'[c]) \in 0..(ReplyLen + 2 * (d.n - d.cur) + 3)
    BY <1>3, <1>4, <1>7, ConnectPaced
  <2>2. d.n - d.cur = dns[c].n - dns[c].cur - 1
    BY <1>2, <1>4, <1>7
  <2>3. Left(socks'[c], dns'[c], net'[c]) < Left(socks[c], dns[c], net[c])
    BY <1>2, <2>1, <2>2
  <2> QED BY <2>1, <2>3 DEF Advances
<1>8. CASE proc' = "aborted" /\ UNCHANGED <<socks, dns, net>>
  BY <1>8 DEF Advances, Now
<1> QED BY <1>5, <1>6, <1>7, <1>8

(* request_write: at least a piece of the reply leaves. *)
LEMMA RequestWriteAdvances ==
  ASSUME IInv, NEW c \in Conns, Now(c), RequestWrite(c)
  PROVE  Advances(c)
<1>1. /\ socks[c].st = "REQUEST_WRITE" /\ UNCHANGED <<dns, net>>
      /\ socks[c] \in SocksType /\ dns[c] \in DnsType /\ dns[c].cur <= dns[c].n
      /\ net[c].dest # "pending"
  BY RecordTypes DEF RequestWrite, WriteReady, Conforms, Counted, Now, Paced
<1>2. Left(socks[c], dns[c], net[c]) = socks[c].wb + 1 /\ socks[c].wb \in Nat
  BY <1>1, LeftOf, LeftBounds
<1>3. ASSUME NEW r, NEW f, Enter(c, r, f), r \in SocksType,
             \/ r.st \in {"ERROR", "COPY", "DONE"}
             \/ r.st = "REQUEST_WRITE" /\ r.wb < socks[c].wb
      PROVE  Advances(c)
  <2>1. socks'[c] = r /\ dns'[c] = dns[c] /\ net'[c] = net[c]
    BY <1>1, <1>3, EnterResult
  <2>2. Paced(r, dns[c], net[c])
    BY <1>1, <1>3 DEF Paced
  <2>3. \/ Left(r, dns[c], net[c]) = 0
        \/ Left(r, dns[c], net[c]) = r.wb + 1 /\ r.wb < socks[c].wb
    BY <1>1, <1>3, LeftOf DEF OverStates
  <2>4. r.wb \in Nat
    BY <1>3 DEF SocksType
  <2>5. Left(r, dns[c], net[c]) < Left(socks[c], dns[c], net[c])
    BY <1>2, <2>3, <2>4
  <2> QED BY <2>1, <2>2, <2>5 DEF Advances
<1> DEFINE p(n) == [socks[c] EXCEPT !.wb = @ - n]
           q(st) == [socks[c] EXCEPT !.wb = 0, !.st = st]
<1>4. ASSUME NEW n \in Send(c), n >= 0, n < socks[c].wb
      PROVE  p(n) \in SocksType /\ p(n).st = "REQUEST_WRITE" /\ p(n).wb < socks[c].wb
  <2>1. n \in Nat /\ n > 0
    BY <1>2, <1>4 DEF Send
  <2>2. socks[c].wb <= ReplyLen /\ ReplyLen \in Nat
    BY LeftBounds
  <2>3. socks[c].wb - n \in 0..ReplyLen /\ socks[c].wb - n < socks[c].wb
    BY <1>2, <1>4, <2>1, <2>2
  <2> QED BY <1>1, <2>3 DEF SocksType
<1>5. \A st \in {"COPY", "DONE"} : q(st) \in SocksType /\ q(st).st = st
  <2>1. {"COPY", "DONE"} \subseteq States
    BY StateSets DEF RequestStates, OverStates
  <2> QED BY <1>1, <2>1, StateSets DEF SocksType
<1>6. Failed(c).st = "ERROR" /\ Failed(c) \in SocksType
  <2>1. "ERROR" \in States
    BY StateSets DEF OverStates
  <2> QED BY <1>1, <2>1 DEF Failed, SocksType
<1>7. \/ Enter(c, Failed(c), fds[c])
      \/ \E n \in Send(c) : n >= 0 /\ n < socks[c].wb /\ Enter(c, p(n), fds[c])
      \/ \E f : Enter(c, q("COPY"), f)
      \/ \E f : Enter(c, q("DONE"), f)
  BY Zenon DEF RequestWrite
<1> HIDE DEF p, q
<1>8. CASE \E n \in Send(c) : n >= 0 /\ n < socks[c].wb /\ Enter(c, p(n), fds[c])
  BY <1>3, <1>4, <1>8
<1> QED BY <1>3, <1>5, <1>6, <1>7, <1>8

(* The kernel ends an attempt. *)
LEMMA ServerAnswersAdvances ==
  ASSUME IInv, NEW c \in Conns, Now(c), ServerAnswers(c)
  PROVE  Advances(c)
<1>1. /\ net[c].dest = "pending" /\ UNCHANGED <<socks, dns>>
      /\ net'[c].dest \in {"up", "failed"}
      /\ net'[c].sent = net[c].sent /\ net'[c].script = net[c].script
  BY RecordTypes DEF ServerAnswers, IInv, TypeOK, NetType
<1>2. socks[c].st = "REQUEST_CONNECTING"
  BY <1>1 DEF Now, Paced
<1>3. socks[c] \in SocksType /\ dns[c] \in DnsType /\ dns[c].cur <= dns[c].n
  BY RecordTypes DEF Conforms, Counted
<1>4. Paced(socks[c], dns[c], net'[c])
  BY <1>1, <1>2 DEF Paced
<1>5. /\ Left(socks[c], dns[c], net[c]) = ReplyLen + 2 * (dns[c].n - dns[c].cur) + 3
      /\ Left(socks[c], dns[c], net'[c]) = ReplyLen + 2 * (dns[c].n - dns[c].cur) + 2
      /\ ReplyLen \in Nat /\ dns[c].n \in Nat /\ dns[c].cur \in Nat
  <2>1. net'[c].dest # "pending"
    BY <1>1
  <2> QED BY <1>1, <1>2, <1>3, <2>1, LeftOf, LeftBounds
<1>6. Left(socks[c], dns[c], net'[c]) < Left(socks[c], dns[c], net[c])
  BY <1>5
<1> QED BY <1>1, <1>4, <1>6 DEF Advances

(* Every step that somebody who is due takes. *)
LEMMA ServingAdvances ==
  ASSUME Unprompting, IInv, NEW c \in Conns, Now(c),
         Handle(c) \/ ResolverThread(c) \/ ServerAnswers(c)
  PROVE  Advances(c)
BY HandshakeAdvances, RequestReadAdvances, ResolverThreadAdvances, ResolvDoneAdvances,
   RequestConnectingAdvances, RequestWriteAdvances, ServerAnswersAdvances DEF Handle


(* What a step of one connection leaves of another: everything. *)
Untouched(e) ==
  socks'[e] = socks[e] /\ fds'[e] = fds[e] /\ dns'[e] = dns[e] /\ net'[e] = net[e]

LEMMA OthersUntouched ==
  ASSUME IInv, NEW c \in Conns, NEW e \in Conns \ {c},
         \/ Accept(c) \/ Handle(c) \/ CopyEnd(c) \/ ResolverThread(c)
         \/ ClientSend(c) \/ ClientEnd(c) \/ ServerAnswers(c)
  PROVE  Untouched(e)
<1>1. /\ \A x : [socks EXCEPT ![c] = x][e] = socks[e]
      /\ \A x : [fds EXCEPT ![c] = x][e] = fds[e]
      /\ \A x : [dns EXCEPT ![c] = x][e] = dns[e]
      /\ \A x : [net EXCEPT ![c] = x][e] = net[e]
  BY DEF IInv, TypeOK
<1>2. ASSUME NEW r, NEW f, Enter(c, r, f)
      PROVE  socks'[e] = socks[e] /\ fds'[e] = fds[e]
  BY <1>1, <1>2, Zenon DEF Enter
<1>3. ASSUME NEW r, NEW f, NEW d, Connect(c, r, f, d)
      PROVE  Untouched(e)
  <2>1. /\ \E x : dns' = [dns EXCEPT ![c] = x]
        /\ \E x : net' = [net EXCEPT ![c].dest = x]
        /\ \E x, y : Enter(c, x, y)
    BY <1>3, Zenon DEF Connect
  <2>2. \A x : [net EXCEPT ![c].dest = x][e] = net[e]
    BY DEF IInv, TypeOK
  <2> QED BY <1>1, <1>2, <2>1, <2>2 DEF Untouched
<1>4. CASE HelloRead(c) \/ HelloWrite(c) \/ AuthRead(c) \/ AuthWrite(c) \/ RequestWrite(c)
             \/ CopyEnd(c)
  <2>1. UNCHANGED <<dns, net>> /\ \E r, f : Enter(c, r, f)
    BY <1>4, Zenon DEF HelloRead, HelloWrite, AuthRead, AuthWrite, RequestWrite, CopyEnd
  <2> QED BY <1>2, <2>1 DEF Untouched
<1>5. CASE RequestRead(c)
  <2>1. \/ UNCHANGED <<dns, net>> /\ \E r, f : Enter(c, r, f)
        \/ \E r, f, d : Connect(c, r, f, d)
        \/ \E r : Resolve(c, r)
    BY <1>5, Zenon DEF RequestRead
  <2>2. ASSUME NEW r, Resolve(c, r)
        PROVE  Untouched(e)
    <3>1. /\ UNCHANGED net /\ \E q, f : Enter(c, q, f)
          /\ (\E t : dns' = [dns EXCEPT ![c].thr = t]) \/ UNCHANGED dns
      BY <2>2, Zenon DEF Resolve
    <3>2. \A t : [dns EXCEPT ![c].thr = t][e] = dns[e]
      BY DEF IInv, TypeOK
    <3> QED BY <1>2, <3>1, <3>2 DEF Untouched
  <2> QED BY <1>2, <1>3, <2>1, <2>2 DEF Untouched
<1>6. CASE ResolvDone(c)
  <2>1. \/ \E r, f, d : Connect(c, r, f, d)
        \/ /\ \E x : dns' = [dns EXCEPT ![c] = x]
           /\ UNCHANGED net /\ \E r, f : Enter(c, r, f)
    BY <1>6, Zenon DEF ResolvDone
  <2> QED BY <1>1, <1>2, <1>3, <2>1 DEF Untouched
<1>7. CASE RequestConnecting(c)
  <2>1. \/ \E r, f, d : Connect(c, r, f, d)
        \/ UNCHANGED <<socks, fds, dns, net>>
        \/ /\ UNCHANGED <<dns, net>>
           /\ \E x : socks' = [socks EXCEPT ![c].st = "REQUEST_WRITE", ![c].status = x,
                                            ![c].wb = ReplyLen]
           /\ fds' = [fds EXCEPT ![c].cli = "OP_WRITE", ![c].srv = "OP_NOOP"]
    BY <1>7 DEF RequestConnecting
  <2> QED BY <1>3, <2>1 DEF Untouched, IInv, TypeOK
<1>8. CASE Accept(c) \/ ResolverThread(c) \/ ClientSend(c) \/ ClientEnd(c) \/ ServerAnswers(c)
  BY <1>8 DEF Accept, Refused, ResolverThread, ClientSend, ClientEnd, ServerAnswers,
              Untouched, IInv, TypeOK
<1> QED BY <1>4, <1>5, <1>6, <1>7, <1>8 DEF Handle

(* Nobody acted on the connection, but its client may have gone: it has its
   turn still, and as much is left. *)
Keeps(c) ==
  /\ Paced(socks'[c], dns'[c], net'[c])
  /\ Waiting(socks[c], fds[c], net[c]) =>
       /\ Left(socks'[c], dns'[c], net'[c]) = Left(socks[c], dns[c], net[c])
       /\ Waiting(socks'[c], fds'[c], net'[c])
       /\ Due(socks'[c], fds'[c], dns'[c], net'[c]) = Due(socks[c], fds[c], dns[c], net[c])

LEMMA UntouchedKeeps ==
  ASSUME IInv, NEW c \in Conns, Now(c), Untouched(c)
  PROVE  Keeps(c)
BY DEF Untouched, Now, Keeps

(* The end of its stream: what it has sent is there to be read already. *)
LEMMA ClientEndKeeps ==
  ASSUME IInv, NEW c \in Conns, Now(c), ClientEnd(c)
  PROVE  Keeps(c)
<1> DEFINE n == net'[c]
<1>1. /\ socks'[c] = socks[c] /\ fds'[c] = fds[c] /\ dns'[c] = dns[c]
      /\ n.script = net[c].script /\ n.sent = net[c].sent /\ n.dest = net[c].dest
  BY RecordTypes DEF ClientEnd, IInv, TypeOK, NetType
<1> HIDE DEF n
<1>2. Paced(socks[c], dns[c], n)
  BY <1>1 DEF Now, Paced
<1>3. ASSUME Waiting(socks[c], fds[c], net[c])
      PROVE  /\ Left(socks[c], dns[c], n) = Left(socks[c], dns[c], net[c])
             /\ Waiting(socks[c], fds[c], n)
             /\ Due(socks[c], fds[c], dns[c], n) = Due(socks[c], fds[c], dns[c], net[c])
  <2>1. fds[c].cli = "OP_READ" => net[c].sent > socks[c].got
    <3>1. fds[c].cli = "OP_READ" => socks[c].st = "REQUEST_READ"
      BY <1>3, WaitingStates, RecordTypes DEF Conforms, Watched, ClientItem
    <3>2. net[c].sent \in Nat /\ socks[c].got \in Nat
      BY RecordTypes DEF SocksType
    <3> QED BY <1>3, <3>1, <3>2 DEF Now, Paced, Waiting
  <2>2. HandlerDue(socks[c], fds[c], dns[c], n) <=> HandlerDue(socks[c], fds[c], dns[c], net[c])
    BY <1>1, <2>1 DEF HandlerDue
  <2>3. Due(socks[c], fds[c], dns[c], n) = Due(socks[c], fds[c], dns[c], net[c])
    BY <1>1, <2>2 DEF Due
  <2>4. Left(socks[c], dns[c], n) = Left(socks[c], dns[c], net[c])
    BY <1>1 DEF Left
  <2>5. Waiting(socks[c], fds[c], n)
    BY <1>1, <1>3 DEF Waiting
  <2> QED BY <2>3, <2>4, <2>5
<1> QED BY <1>1, <1>2, <1>3 DEF Keeps, n

(* The steps on a connection whose client does not wait: before it is accepted,
   while it sends, and in its tunnel. *)
LEMMA NotWaitingKeeps ==
  ASSUME Unprompting, IInv, NEW c \in Conns, Now(c), Accept(c) \/ ClientSend(c) \/ CopyEnd(c)
  PROVE  Keeps(c)
<1>1. CASE Accept(c)
  <2>1. socks[c].st = "NONE" /\ UNCHANGED <<dns, net>>
    BY <1>1 DEF Accept
  <2>2. fds[c].cli = "unused"
    BY <2>1, RecordTypes DEF Conforms, Watched, ClientItem, OverStates
  <2>3. socks'[c].st \in {"REFUSED", "HELLO_READ"}
    BY <1>1, RecordTypes DEF Accept, Refused, IInv, TypeOK, SocksType
  <2>4. 0 <= HelloLen
    BY ConstantsAssumption
  <2>5. Paced(socks'[c], dns[c], net[c])
    BY <2>1, <2>3, <2>4 DEF Now, Paced
  <2> QED BY <2>1, <2>2, <2>5 DEF Keeps, Waiting
<1>2. CASE ClientSend(c)
  <2>1. /\ UNCHANGED <<socks, dns, fds>>
        /\ net'[c].sent = net[c].sent + 1 /\ net[c].sent < Unprompted(c)
        /\ net'[c].script = net[c].script /\ net'[c].dest = net[c].dest
    BY <1>2, RecordTypes DEF ClientSend, IInv, TypeOK, NetType
  <2>2. Unprompted(c) = CASE socks[c].st = "HELLO_READ" -> HelloLen
                          [] socks[c].st = "AUTH_READ" -> AuthEnd(net[c].script)
                          [] socks[c].st = "REQUEST_READ" -> RequestEnd(net[c].script)
                          [] OTHER -> 0
    <3>1. "pipeline" \notin Env
      BY DEF Unprompting
    <3> QED BY <3>1 DEF Unprompted
  <2>3. /\ net[c].sent \in Nat /\ HelloLen \in Nat
        /\ AuthEnd(net[c].script) \in Nat /\ RequestEnd(net[c].script) \in Nat
        /\ HelloLen <= AuthEnd(net[c].script) /\ AuthEnd(net[c].script) < RequestEnd(net[c].script)
    BY RecordTypes, MessageEnds
  <2>4. socks[c].st \in {"HELLO_READ", "AUTH_READ", "REQUEST_READ"}
    BY <2>1, <2>2, <2>3
  <2>5. Paced(socks[c], dns[c], net'[c])
    BY <2>1, <2>2, <2>3, <2>4 DEF Now, Paced
  <2>6. ~Waiting(socks[c], fds[c], net[c])
    BY <2>1, <2>2, <2>3, <2>4 DEF Waiting
  <2> QED BY <2>1, <2>5, <2>6 DEF Keeps
<1>3. CASE CopyEnd(c)
  <2>1. socks[c].st = "COPY" /\ UNCHANGED <<dns, net>> /\ socks[c] \in SocksType
    BY <1>3, RecordTypes DEF CopyEnd
  <2> DEFINE r == [socks[c] EXCEPT !.st = "DONE", !.status = "close"]
  <2>2. socks'[c] = r
    BY <1>3, EnterResult DEF CopyEnd
  <2>3. r.st = "DONE"
    BY <2>1 DEF SocksType
  <2> HIDE DEF r
  <2>4. Paced(r, dns[c], net[c])
    BY <2>1, <2>3 DEF Now, Paced
  <2> QED BY <2>1, <2>2, <2>4 DEF Keeps, Waiting
<1> QED BY <1>1, <1>2, <1>3

(* Every step either serves a connection or leaves it its turn. *)
LEMMA NextAdvances ==
  ASSUME Unprompting, IInv, NEW c \in Conns, Now(c), [Next]_vars
  PROVE  Advances(c) \/ Keeps(c)
<1>1. CASE UNCHANGED vars \/ Administer
  <2>1. Untouched(c)
    BY <1>1 DEF Administer, vars, Untouched
  <2> QED BY <2>1, UntouchedKeeps
<1>2. ASSUME NEW e \in Conns,
             \/ Accept(e) \/ Handle(e) \/ CopyEnd(e) \/ ResolverThread(e)
             \/ ClientSend(e) \/ ClientEnd(e) \/ ServerAnswers(e)
      PROVE  Advances(c) \/ Keeps(c)
  <2>1. CASE e # c
    <3>1. Untouched(c)
      BY <1>2, <2>1, OthersUntouched
    <3> QED BY <3>1, UntouchedKeeps
  <2>2. CASE e = c
    BY <1>2, <2>2, ServingAdvances, NotWaitingKeeps, ClientEndKeeps
  <2> QED BY <2>1, <2>2
<1> QED BY <1>1, <1>2 DEF Next

(* Clients that wait for each reply keep their pace. *)
LEMMA PacedInductive == Unprompting => (Spec => [](IInv /\ \A c \in Conns : Now(c)))
<1> SUFFICES ASSUME Unprompting PROVE Spec => [](IInv /\ \A c \in Conns : Now(c))
  OBVIOUS
<1> DEFINE Inv == IInv /\ \A c \in Conns : Now(c)
<1>1. Init => Inv
  <2> SUFFICES ASSUME Init, NEW c \in Conns PROVE Now(c)
    BY InitIInv
  <2>1. socks[c].st = "NONE" /\ net[c].sent = 0 /\ net[c].dest = "none"
    BY DEF Init
  <2> QED BY <2>1 DEF Now, Paced
<1>2. Inv /\ [Next]_vars => Inv'
  <2> SUFFICES ASSUME Inv, [Next]_vars, NEW c \in Conns PROVE Now(c)'
    BY NextStep
  <2>1. Advances(c) \/ Keeps(c)
    BY NextAdvances
  <2> QED BY <2>1 DEF Advances, Keeps, Now
<1> QED BY <1>1, <1>2, PTL DEF Spec

(* Of a client that sends each message after the reply to the one before, and
   has sent its request, no handler, thread or connection attempt was lost: the
   lookup that its session waits for runs or is queued, the attempt it waits for
   is pending or has ended, and what it has sent is not read yet. *)
THEOREM NobodyForgotten == Unprompting => (Spec => []SomebodyDue)
<1> SUFFICES ASSUME Unprompting PROVE Spec => []SomebodyDue
  OBVIOUS
<1>1. IInv /\ (\A c \in Conns : Now(c)) => SomebodyDue
  <2> SUFFICES ASSUME IInv, NEW c \in Conns, Now(c), Waiting(socks[c], fds[c], net[c])
               PROVE  Due(socks[c], fds[c], dns[c], net[c]) # "nobody"
    BY DEF SomebodyDue
  <2>1. /\ fds[c].cli = ClientItem(socks[c].st)
        /\ fds[c].srv \in ServerItems(socks[c].st, socks[c].status)
        /\ net[c].sent \in Nat /\ socks[c].got \in Nat
    BY RecordTypes DEF Conforms, Watched, SocksType
  <2>2. CASE socks[c].st = "REQUEST_READ"
    <3>1. net[c].sent > socks[c].got /\ fds[c].cli = "OP_READ"
      BY <2>1, <2>2 DEF Now, Paced, Waiting, ClientItem
    <3> QED BY <3>1 DEF Due, HandlerDue
  <2>3. CASE socks[c].st = "REQUEST_RESOLV"
    BY <2>3 DEF Now, Paced, Due, HandlerDue
  <2>4. CASE socks[c].st = "REQUEST_CONNECTING"
    <3>1. fds[c].srv = "OP_WRITE"
      BY <2>1, <2>4 DEF ServerItems, OverStates
    <3>2. net[c].dest \in {"pending", "up", "failed"}
      BY <2>4 DEF Now, Paced
    <3> QED BY <3>1, <3>2 DEF Due, HandlerDue
  <2>5. CASE socks[c].st = "REQUEST_WRITE"
    <3>1. fds[c].cli = "OP_WRITE"
      BY <2>1, <2>5 DEF ClientItem
    <3> QED BY <3>1 DEF Due, HandlerDue
  <2> QED BY <2>2, <2>3, <2>4, <2>5, WaitingStates
<1> QED BY <1>1, PacedInductive, PTL

(* Such a client is served in at most Left steps of its handlers, its resolver
   thread and the kernel, whatever the other connections, the administrator and
   the client itself do in between, none of which takes the turn from the one
   that is due: the descriptor stays watched, the job queued, the attempt under
   way.  Unless the process aborts. *)
THEOREM AnswerDrawsNearer == Unprompting => (Spec => RequestDrawsNearer)
<1> SUFFICES ASSUME Unprompting PROVE Spec => RequestDrawsNearer
  OBVIOUS
<1> DEFINE Nearer == \A c \in Conns :
             Waiting(socks[c], fds[c], net[c]) /\ proc' = "up" => DrawsNearer(c)
<1>1. IInv /\ (\A c \in Conns : Now(c)) /\ [Next]_vars => Nearer
  <2> SUFFICES ASSUME IInv, NEW c \in Conns, Now(c), [Next]_vars,
                      Waiting(socks[c], fds[c], net[c]), proc' = "up"
               PROVE  DrawsNearer(c)
    OBVIOUS
  <2>1. Handle(c) \/ ResolverThread(c) \/ ServerAnswers(c) => Advances(c)
    BY ServingAdvances
  <2>2. Advances(c) \/ Keeps(c)
    BY NextAdvances
  <2> QED BY <2>1, <2>2, Zenon DEF Advances, Keeps, DrawsNearer
<1>2. [Nearer]_vars <=> Nearer \/ UNCHANGED vars
  OBVIOUS
<1> QED BY <1>1, <1>2, PacedInductive, PTL DEF Spec, RequestDrawsNearer
=============================================================================
