------------------------------- MODULE Socks5 -------------------------------
(***************************************************************************)
(* The life of the proxied connections: socks5.c, socks5_hello.c,          *)
(* socks5_auth.c and socks5_request.c, driven by the events of selector.c  *)
(* and by the detached threads that resolve domain names.                  *)
(*                                                                         *)
(* A client's bytes are counted, never represented: the client wants to    *)
(* send a hello, perhaps a user/password message, and a request, each of a *)
(* fixed length, and "sent", "got" and "used" are how far into that stream *)
(* the client, recv() and the parsers are.  What the messages say is the   *)
(* client's "script".  An element of Conns is one accepted connection; it  *)
(* is never used again.                                                    *)
(***************************************************************************)
EXTENDS Integers, FiniteSets

CONSTANTS
  Conns,            \* the connections clients open
  Creds,            \* the user/password pairs anyone may present
  Absent,           \* not a credential: the client sends no user/password message
  Scripts,          \* what a client may say, a subset of AllScripts
  HelloLen,         \* pieces in which the hello may arrive
  AuthLen,          \* pieces of the user/password message
  RequestLen,       \* pieces of the request
  ReplyLen,         \* pieces in which a reply may leave
  MaxConnections,   \* MAX_CONNECTIONS of server_config.h
  MaxAddrs,         \* bound: addresses getaddrinfo() may return
  MaxAdmin,         \* bound: configuration changes by the administrator
  Env               \* which of EnvFaults the environment is capable of

Methods == {"auth", "noauth"}
ReqKinds == {"ip", "domain", "unsupported"}

(* "pipeline": clients send a message before the reply to the previous one;
   "reset": sockets fail while they are used; "accept": accept() succeeds but
   the fd cannot be made non-blocking or registered; "nosocket": socket()
   fails; "unusable": the new socket cannot be registered, or connect()
   succeeds at once; "resources": pthread_create() or the malloc() of a block
   notification fails; "smallbuf": the administrator sets a buffer size in
   which the reply to a request does not fit.                              *)
EnvFaults == {"pipeline", "reset", "accept", "nosocket", "unusable",
              "resources", "smallbuf"}

(* "badversion" stands for a hello whose first byte is not 5. *)
AllScripts == [offers : SUBSET (Methods \cup {"badversion"}),
               auth   : Creds \cup {Absent},
               req    : ReqKinds]

ASSUME ConstantsAssumption ==
  /\ IsFiniteSet(Conns)
  /\ Absent \notin Creds
  /\ Scripts \subseteq AllScripts
  /\ {HelloLen, AuthLen, RequestLen, ReplyLen} \subseteq Nat \ {0}
  /\ {MaxConnections, MaxAddrs, MaxAdmin} \subseteq Nat
  /\ Env \subseteq EnvFaults

VARIABLES
  socks,          \* struct socks5: state machine, parser results, buffers
  dns,            \* server_resolution and the thread that computes it
  fds,            \* the two descriptors: selector items, toFree, free() calls
  net,            \* what the kernel and the peers hold
  auth_enabled,   \* server_conf.auth_enabled
  users,          \* server_conf.users, as a set of credentials
  known,          \* history: every credential that was ever in the table
  small,          \* socks_buffer_size is too small for a request reply
  current,        \* current_connections of metrics.c
  historic,       \* historic_connections of metrics.c
  admin,          \* configuration changes made so far
  proc            \* "up", or "aborted" once the code called abort()

conf == <<auth_enabled, users, known, small, admin>>
metrics == <<current, historic>>
vars == <<socks, dns, fds, net, auth_enabled, users, known, small, current,
          historic, admin, proc>>

-----------------------------------------------------------------------------
HandshakeStates == {"HELLO_READ", "HELLO_WRITE", "AUTH_READ", "AUTH_WRITE"}
RequestStates == {"REQUEST_READ", "REQUEST_RESOLV", "REQUEST_CONNECTING",
                  "REQUEST_WRITE", "COPY"}
OverStates == {"DONE", "ERROR"}

(* NONE: not accepted yet; REFUSED: accepted and closed at once. *)
States == {"NONE", "REFUSED"} \cup HandshakeStates \cup RequestStates \cup OverStates

Interests == {"OP_NOOP", "OP_READ", "OP_WRITE"}

SocksType == [st : States, method : Methods \cup {"none"}, auth : BOOLEAN,
              status : {"connecting", "succeeded", "failed", "unsupported", "close"},
              small : BOOLEAN, got : Nat, used : Nat, wb : 0..ReplyLen]
DnsType == [thr : {"none", "running", "queued", "lost"}, n : 0..MaxAddrs,
            cur : 0..MaxAddrs, dial : 0..MaxAddrs]
FdsType == [cli : Interests \cup {"unused"},
            srv : Interests \cup {"none", "open", "closed"},
            toFree : Nat, frees : Nat]
NetType == [script : AllScripts, sent : Nat, end : {"open", "fin", "reset"},
            dest : {"none", "pending", "up", "failed", "immediate"}]

(* Where the messages of a script end in the client's stream. *)
AuthEnd(s) == HelloLen + (IF s.auth = Absent THEN 0 ELSE AuthLen)
RequestEnd(s) == AuthEnd(s) + RequestLen

Least(a, b) == IF a <= b THEN a ELSE b

-----------------------------------------------------------------------------
(* The descriptors of one connection.  fds[c].cli is the selector item of
   client_fd.  fds[c].srv is final_server_fd: "none" while it is -1, "open" for
   a socket that has no selector item, an interest for one that has.        *)

Registered(f) == f.srv \in Interests

(* socks5_close, the handle_close of either descriptor; a call made after the
   struct was freed reads the values it had. *)
HandleCloseAlone(f) == [f EXCEPT !.frees = @ + 1]      \* a mutant: no toFree
HandleCloseLate(f) ==      \* a mutant: one close too many is waited for
  IF f.srv = "none" \/ f.toFree > 1
    THEN [f EXCEPT !.frees = @ + 1]
    ELSE [f EXCEPT !.toFree = @ + 1]

HandleClose(f) ==
  IF f.srv = "none" \/ f.toFree > 0
    THEN [f EXCEPT !.frees = @ + 1]
    ELSE [f EXCEPT !.toFree = @ + 1]

UnregisterClient(f) ==
  IF f.cli = "unused" THEN f ELSE [HandleClose(f) EXCEPT !.cli = "unused"]

UnregisterServer(f) ==
  IF Registered(f) THEN [HandleClose(f) EXCEPT !.srv = "open"] ELSE f

(* The loop of socks5_done over { client_fd, final_server_fd }. *)
CloseBoth(f) ==
  LET g == UnregisterServer(UnregisterClient(f))
  IN  [g EXCEPT !.srv = IF @ = "none" THEN "none" ELSE "closed"]

(* recv() on the client: -1 after a reset, 0 at end of stream, else every byte
   that has arrived. *)
Recv(c) == IF net[c].end = "reset" THEN -1 ELSE net[c].sent - socks[c].got

Readable(c) == net[c].sent > socks[c].got \/ net[c].end # "open"

(* send() to the client of what is in write_buffer: the possible results. *)
Send(c) ==
  IF net[c].end = "reset" THEN {-1}
  ELSE IF socks[c].wb = 0 THEN {0} ELSE 1..socks[c].wb

ReadReady(c, state) ==
  /\ proc = "up"
  /\ fds[c].cli = "OP_READ" /\ Readable(c)
  /\ socks[c].st = state

WriteReady(c, state) ==
  /\ proc = "up"
  /\ fds[c].cli = "OP_WRITE"
  /\ socks[c].st = state

(* The state machine goes from a handler's result to the next state; on DONE
   or ERROR socks5_done closes both descriptors.  r is the struct as the
   handler leaves it, f its descriptors. *)
EnterClosingErrors(c, r, f) ==      \* a mutant: DONE closes nothing
  /\ socks' = [socks EXCEPT ![c] = r]
  /\ fds' = [fds EXCEPT ![c] = IF r.st = "ERROR" THEN CloseBoth(f) ELSE f]
  /\ current' = current - (IF r.st \in OverStates /\ r.status = "close" THEN 1 ELSE 0)
EnterCountingAll(c, r, f) ==      \* a mutant: any end is counted
  /\ socks' = [socks EXCEPT ![c] = r]
  /\ fds' = [fds EXCEPT ![c] = IF r.st \in OverStates THEN CloseBoth(f) ELSE f]
  /\ current' = current - (IF r.st \in OverStates THEN 1 ELSE 0)

Enter(c, r, f) ==
  /\ socks' = [socks EXCEPT ![c] = r]
  /\ fds' = [fds EXCEPT ![c] = IF r.st \in OverStates THEN CloseBoth(f) ELSE f]
  /\ current' = current - (IF r.st \in OverStates /\ r.status = "close" THEN 1 ELSE 0)

-----------------------------------------------------------------------------
Init ==
  /\ socks = [c \in Conns |->
       [st |-> "NONE", method |-> "none", auth |-> FALSE, status |-> "connecting",
        small |-> FALSE, got |-> 0, used |-> 0, wb |-> 0]]
  /\ dns = [c \in Conns |-> [thr |-> "none", n |-> 0, cur |-> 0, dial |-> 0]]
  /\ fds = [c \in Conns |->
       [cli |-> "unused", srv |-> "none", toFree |-> 0, frees |-> 0]]
  /\ net \in [Conns -> {[script |-> s, sent |-> 0, end |-> "open", dest |-> "none"] :
                          s \in Scripts}]
  /\ users \in SUBSET Creds
  /\ known = users
  /\ auth_enabled = (users # {})     \* args.c turns it on with the first -u
  /\ small = FALSE
  /\ current = 0 /\ historic = 0 /\ admin = 0
  /\ proc = "up"

-----------------------------------------------------------------------------
(* socks5_passive_accept, with socks5_new.  The limit is checked against the
   established connections, after the struct has been allocated. *)
Refused(c) ==
  /\ socks' = [socks EXCEPT ![c].st = "REFUSED"]
  /\ fds' = [fds EXCEPT ![c].frees = 1]

Accept(c) ==
  /\ proc = "up"
  /\ socks[c].st = "NONE"
  /\ \/ /\ current > MaxConnections - 1
        /\ Refused(c)
     \/ /\ current <= MaxConnections - 1
        /\ "accept" \in Env
        /\ Refused(c)
     \/ /\ current <= MaxConnections - 1
        /\ socks' = [socks EXCEPT ![c].st = "HELLO_READ", ![c].small = small]
        /\ fds' = [fds EXCEPT ![c].cli = "OP_READ"]
  /\ UNCHANGED <<dns, net, conf, metrics, proc>>

(* A parser takes what has been received, up to the end of its message. *)
Consume(c, n, end) ==
  [socks[c] EXCEPT !.got = @ + n, !.used = Least(end, socks[c].got + n)]

Failed(c) == [socks[c] EXCEPT !.st = "ERROR"]

(* on_hello_method, called for every method offered. *)
SelectedMethod(s) ==
  LET wanted == IF auth_enabled THEN "auth" ELSE "noauth"
  IN  IF wanted \in s.offers THEN wanted ELSE "none"

(* hello_read: a hello that does not arrive whole is an error. *)
HelloRead(c) ==
  /\ ReadReady(c, "HELLO_READ")
  /\ LET s == net[c].script
         n == Recv(c)
         whole == n > 0 /\ socks[c].got + n >= HelloLen /\ "badversion" \notin s.offers
     IN  \/ /\ whole
            /\ Enter(c, [Consume(c, n, HelloLen) EXCEPT
                            !.st = "HELLO_WRITE", !.method = SelectedMethod(s), !.wb = ReplyLen],
                     [fds[c] EXCEPT !.cli = "OP_WRITE"])
         \/ /\ ~whole
            /\ Enter(c, Failed(c), fds[c])
  /\ UNCHANGED <<dns, net, conf, historic, proc>>

(* What follows the hello reply depends on the setting at this moment, not on
   the one the method was selected with. *)
AfterHelloTrusting(method) ==      \* a mutant: the method chosen is forgotten
  CASE method = "none" -> "DONE"
    [] auth_enabled -> "AUTH_READ"
    [] OTHER -> "REQUEST_READ"

AfterHello(method) ==
  CASE method = "auth" /\ auth_enabled -> "AUTH_READ"
    [] method = "noauth" /\ ~auth_enabled -> "REQUEST_READ"
    [] OTHER -> "DONE"

HelloWrite(c) ==
  /\ WriteReady(c, "HELLO_WRITE")
  /\ \E n \in Send(c) :
       \/ /\ n < 0
          /\ Enter(c, Failed(c), fds[c])
       \/ /\ n >= 0 /\ n < socks[c].wb
          /\ Enter(c, [socks[c] EXCEPT !.wb = @ - n], fds[c])
       \/ /\ n = socks[c].wb
          /\ Enter(c, [socks[c] EXCEPT !.wb = 0, !.st = AfterHello(socks[c].method)],
                   [fds[c] EXCEPT !.cli = "OP_READ"])
  /\ UNCHANGED <<dns, net, conf, historic, proc>>

(* auth_read: the end of the client's stream (n = 0) is not an error here. *)
AuthRead(c) ==
  /\ ReadReady(c, "AUTH_READ")
  /\ LET s == net[c].script
         n == Recv(c)
         got == socks[c].got + n
         bad == n < 0 \/ (s.auth = Absent /\ got > HelloLen)
         whole == s.auth # Absent /\ got >= AuthEnd(s)
     IN  \/ /\ bad
            /\ Enter(c, Failed(c), fds[c])
         \/ /\ ~bad /\ ~whole
            /\ Enter(c, Consume(c, n, AuthEnd(s)), fds[c])
         \/ /\ ~bad /\ whole
            /\ Enter(c, [Consume(c, n, AuthEnd(s)) EXCEPT
                            !.st = "AUTH_WRITE", !.auth = s.auth \in users, !.wb = ReplyLen],
                     [fds[c] EXCEPT !.cli = "OP_WRITE"])
  /\ UNCHANGED <<dns, net, conf, historic, proc>>

AuthWrite(c) ==
  /\ WriteReady(c, "AUTH_WRITE")
  /\ \E n \in Send(c) :
       \/ /\ n < 0
          /\ Enter(c, Failed(c), fds[c])
       \/ /\ n >= 0 /\ n < socks[c].wb
          /\ Enter(c, [socks[c] EXCEPT !.wb = @ - n], fds[c])
       \/ /\ n = socks[c].wb /\ ~socks[c].auth
          /\ Enter(c, [socks[c] EXCEPT !.wb = 0, !.st = "DONE"], fds[c])
       \/ /\ n = socks[c].wb /\ socks[c].auth
          /\ Enter(c, [socks[c] EXCEPT !.wb = 0, !.st = "REQUEST_READ"],
                   [fds[c] EXCEPT !.cli = "OP_READ"])
  /\ UNCHANGED <<dns, net, conf, historic, proc>>

-----------------------------------------------------------------------------
(* next_ip finds another address after d.cur: it advances
   current_server_resolution, and copies the address of server_resolution,
   the first of the list. *)
HasNextIp(d) == d.cur < d.n
NextIpTwice(d, k) ==      \* a mutant: an address too many is passed
  [d EXCEPT !.cur = @ + k + 1, !.dial = IF k = 0 THEN @ ELSE 1]

NextIp(d, k) == [d EXCEPT !.cur = @ + k, !.dial = IF k = 0 THEN @ ELSE 1]

(* request_connect, with its recursion on next_ip: k addresses fail at once
   before the last call.  A server descriptor that is still there is
   unregistered first.  r, f and d are what the caller leaves. *)
Connect(c, r, f, d) ==
  \E k \in 0..(d.n - d.cur) :
    LET e == NextIp(d, k)
        s == IF k = 0 THEN r ELSE [r EXCEPT !.status = "failed"]
        g == UnregisterServer(f)
    IN  /\ dns' = [dns EXCEPT ![c] = e]
        /\ \/ /\ Enter(c, [s EXCEPT !.st = "REQUEST_CONNECTING"],
                         [g EXCEPT !.srv = "OP_WRITE", !.cli = "OP_NOOP"])
              /\ net' = [net EXCEPT ![c].dest = "pending"]
           \/ /\ ~HasNextIp(e) /\ ~r.small
              /\ Enter(c, [s EXCEPT !.st = "REQUEST_WRITE", !.status = "failed", !.wb = ReplyLen],
                       [g EXCEPT !.srv = "open", !.cli = "OP_WRITE"])
              /\ net' = [net EXCEPT ![c].dest = "immediate"]
           \/ /\ ~HasNextIp(e) /\ r.small
              /\ Enter(c, [s EXCEPT !.st = "ERROR", !.status = "failed"],
                       [g EXCEPT !.srv = "open", !.cli = "OP_WRITE"])
              /\ net' = [net EXCEPT ![c].dest = "immediate"]
           \/ /\ "nosocket" \in Env
              /\ Enter(c, [s EXCEPT !.st = "ERROR"], [g EXCEPT !.srv = "none"])
              /\ net' = [net EXCEPT ![c].dest = "none"]
           \/ /\ "unusable" \in Env
              /\ Enter(c, [s EXCEPT !.st = "ERROR"], [g EXCEPT !.srv = "open"])
              /\ net' = [net EXCEPT ![c].dest = "immediate"]

(* request_process for a domain name: the resolver thread is started, and the
   client is not watched until it answers.  Nothing notices that the thread
   could not be created; a malloc() before it may fail. *)
ResolveWatchingClient(c, r) ==      \* a mutant: the client is still read
  /\ dns' = [dns EXCEPT ![c].thr = "running"]
  /\ Enter(c, [r EXCEPT !.st = "REQUEST_RESOLV"], fds[c])
  /\ UNCHANGED net

Resolve(c, r) ==
  \/ /\ \E t \in {"running"} \cup {x \in {"lost"} : "resources" \in Env} :
          dns' = [dns EXCEPT ![c].thr = t]
     /\ Enter(c, [r EXCEPT !.st = "REQUEST_RESOLV"], [fds[c] EXCEPT !.cli = "OP_NOOP"])
     /\ UNCHANGED net
  \/ /\ "resources" \in Env
     /\ Enter(c, [r EXCEPT !.st = "REQUEST_WRITE", !.status = "failed"],
              [fds[c] EXCEPT !.cli = "OP_WRITE"])
     /\ UNCHANGED <<dns, net>>

(* request_read and request_process.  "unsupported" is a command the parser
   accepts and request_process does not: no reply is written for it.  A
   message the parser rejects, the wrong kind of message included, is an
   error.  Here too the end of the stream is not. *)
RequestRead(c) ==
  /\ ReadReady(c, "REQUEST_READ")
  /\ LET s == net[c].script
         n == Recv(c)
         got == socks[c].got + n
         bad == n < 0 \/ (s.auth # Absent /\ socks[c].method = "noauth" /\ got > HelloLen)
         whole == got >= RequestEnd(s)
         r == Consume(c, n, RequestEnd(s))
     IN  \/ /\ bad
            /\ Enter(c, Failed(c), fds[c])
            /\ UNCHANGED <<dns, net>>
         \/ /\ ~bad /\ ~whole
            /\ Enter(c, r, fds[c])
            /\ UNCHANGED <<dns, net>>
         \/ /\ ~bad /\ whole /\ s.req = "unsupported"
            /\ Enter(c, [r EXCEPT !.st = "REQUEST_WRITE", !.status = "unsupported"],
                     [fds[c] EXCEPT !.cli = "OP_WRITE"])
            /\ UNCHANGED <<dns, net>>
         \/ /\ ~bad /\ whole /\ s.req = "ip"
            /\ Connect(c, r, fds[c], dns[c])
         \/ /\ ~bad /\ whole /\ s.req = "domain"
            /\ Resolve(c, r)
  /\ UNCHANGED <<conf, historic, proc>>

(* request_resolv_blocking, in its own thread: getaddrinfo() and
   selector_notify_block(). *)
ResolverThreadSilent(c) ==      \* a mutant: a failed resolution is not notified
  /\ proc = "up"
  /\ dns[c].thr = "running"
  /\ \E n \in 0..MaxAddrs :
       dns' = [dns EXCEPT ![c] = [thr |-> IF n = 0 THEN "lost" ELSE "queued",
                                  n |-> n, cur |-> Least(1, n), dial |-> 0]]
  /\ UNCHANGED <<socks, fds, net, conf, metrics, proc>>

ResolverThread(c) ==
  /\ proc = "up"
  /\ dns[c].thr = "running"
  /\ \E n \in 0..MaxAddrs, t \in {"queued"} \cup {x \in {"lost"} : "resources" \in Env} :
       dns' = [dns EXCEPT ![c] = [thr |-> t, n |-> n, cur |-> Least(1, n), dial |-> 0]]
  /\ UNCHANGED <<socks, fds, net, conf, metrics, proc>>

(* handle_block_notifications and request_resolv_done.  After a failed
   resolution the address connected to is whatever the struct held, so that
   socket() may refuse its family. *)
ResolvDone(c) ==
  /\ proc = "up"
  /\ dns[c].thr = "queued"
  /\ fds[c].cli # "unused" /\ socks[c].st = "REQUEST_RESOLV"
  /\ LET d == [dns[c] EXCEPT !.thr = "none"]
     IN  \/ /\ d.n > 0
            /\ Connect(c, socks[c], fds[c], [d EXCEPT !.dial = 1])
         \/ /\ d.n = 0
            /\ Connect(c, [socks[c] EXCEPT !.status = "failed"], fds[c], d)
         \/ /\ d.n = 0
            /\ dns' = [dns EXCEPT ![c] = d]
            /\ Enter(c, [Failed(c) EXCEPT !.status = "failed"], fds[c])
            /\ UNCHANGED net
  /\ UNCHANGED <<conf, historic, proc>>

(* request_connecting: SO_ERROR of the server socket. *)
RequestConnecting(c) ==
  /\ proc = "up"
  /\ fds[c].srv = "OP_WRITE" /\ socks[c].st = "REQUEST_CONNECTING"
  /\ \/ /\ net[c].dest = "up" /\ ~socks[c].small
        /\ socks' = [socks EXCEPT ![c].st = "REQUEST_WRITE", ![c].status = "succeeded",
                                  ![c].wb = ReplyLen]
        /\ fds' = [fds EXCEPT ![c].cli = "OP_WRITE", ![c].srv = "OP_NOOP"]
        /\ current' = current + 1 /\ historic' = historic + 1
        /\ UNCHANGED <<dns, net, proc>>
     \/ /\ net[c].dest = "failed" /\ HasNextIp(dns[c])
        /\ Connect(c, [socks[c] EXCEPT !.status = "failed"], fds[c], NextIp(dns[c], 1))
        /\ UNCHANGED <<historic, proc>>
     \/ /\ net[c].dest = "failed" /\ ~HasNextIp(dns[c]) /\ ~socks[c].small
        /\ socks' = [socks EXCEPT ![c].st = "REQUEST_WRITE", ![c].status = "failed",
                                  ![c].wb = ReplyLen]
        /\ fds' = [fds EXCEPT ![c].cli = "OP_WRITE", ![c].srv = "OP_NOOP"]
        /\ UNCHANGED <<dns, net, metrics, proc>>
     \/ /\ \/ net[c].dest = "up"
           \/ net[c].dest = "failed" /\ ~HasNextIp(dns[c])
        /\ socks[c].small
        /\ proc' = "aborted"
        /\ UNCHANGED <<socks, fds, dns, net, metrics>>
  /\ UNCHANGED conf

(* request_write goes on to copy after a reply of success, and to no other. *)
GrantedUnlessFailed(c) == socks[c].status # "failed"      \* a mutant
Granted(c) == socks[c].status = "succeeded"

RequestWrite(c) ==
  /\ WriteReady(c, "REQUEST_WRITE")
  /\ \E n \in Send(c) :
       \/ /\ n < 0
          /\ Enter(c, Failed(c), fds[c])
       \/ /\ n >= 0 /\ n < socks[c].wb
          /\ Enter(c, [socks[c] EXCEPT !.wb = @ - n], fds[c])
       \/ /\ n = socks[c].wb /\ Granted(c)
          /\ Enter(c, [socks[c] EXCEPT !.wb = 0, !.st = "COPY"],
                   [fds[c] EXCEPT !.cli = "OP_READ", !.srv = "OP_READ"])
       \/ /\ n = socks[c].wb /\ ~Granted(c)
          /\ Enter(c, [socks[c] EXCEPT !.wb = 0, !.st = "DONE"],
                   [fds[c] EXCEPT !.cli = "OP_NOOP"])
  /\ UNCHANGED <<dns, net, conf, historic, proc>>

(* The end of a tunnel: copy_read or copy_write, on either descriptor, meets
   an end of stream or an error.  What they relay until then, and how it moves
   the interests, is module Copy. *)
CopyEnd(c) ==
  /\ proc = "up"
  /\ socks[c].st = "COPY"
  /\ Enter(c, [socks[c] EXCEPT !.st = "DONE", !.status = "close"], fds[c])
  /\ UNCHANGED <<dns, net, conf, historic, proc>>

-----------------------------------------------------------------------------
(* The clients, the network and the administrator. *)

(* How far a client that waits for each reply may have got. *)
Unprompted(c) ==
  LET s == net[c].script
  IN  CASE "pipeline" \in Env -> RequestEnd(s)
        [] socks[c].st = "HELLO_READ" -> HelloLen
        [] socks[c].st = "AUTH_READ" -> AuthEnd(s)
        [] socks[c].st = "REQUEST_READ" -> RequestEnd(s)
        [] OTHER -> 0

ClientSend(c) ==
  /\ proc = "up"
  /\ fds[c].cli # "unused" /\ net[c].end = "open"
  /\ net[c].sent < Unprompted(c)
  /\ net' = [net EXCEPT ![c].sent = @ + 1]
  /\ UNCHANGED <<socks, dns, fds, conf, metrics, proc>>

ClientEnd(c) ==
  /\ proc = "up"
  /\ fds[c].cli # "unused"
  /\ \/ net[c].end = "open" /\ net' = [net EXCEPT ![c].end = "fin"]
     \/ /\ "reset" \in Env /\ net[c].end # "reset"
        /\ net' = [net EXCEPT ![c].end = "reset"]
  /\ UNCHANGED <<socks, dns, fds, conf, metrics, proc>>

(* The kernel finishes the connection to the final server, or times out. *)
ServerAnswers(c) ==
  /\ proc = "up"
  /\ net[c].dest = "pending"
  /\ \E d \in {"up", "failed"} : net' = [net EXCEPT ![c].dest = d]
  /\ UNCHANGED <<socks, dns, fds, conf, metrics, proc>>

(* set_auth_status, add_user, delete_user and set_buff_size. *)
Administer ==
  /\ proc = "up"
  /\ admin < MaxAdmin /\ admin' = admin + 1
  /\ \/ /\ auth_enabled' = ~auth_enabled
        /\ UNCHANGED <<users, known, small>>
     \/ /\ \E u \in Creds \ users : users' = users \cup {u}
        /\ known' = known \cup users'
        /\ UNCHANGED <<auth_enabled, small>>
     \/ /\ \E u \in users : users' = users \ {u}
        /\ UNCHANGED <<auth_enabled, known, small>>
     \/ /\ "smallbuf" \in Env /\ small' = ~small
        /\ UNCHANGED <<auth_enabled, users, known>>
  /\ UNCHANGED <<socks, dns, fds, net, metrics, proc>>

-----------------------------------------------------------------------------
(* What the selector does for a connection once a descriptor is ready. *)
Handle(c) ==
  \/ HelloRead(c) \/ HelloWrite(c)
  \/ AuthRead(c) \/ AuthWrite(c)
  \/ RequestRead(c) \/ ResolvDone(c) \/ RequestConnecting(c) \/ RequestWrite(c)

Next ==
  \/ \E c \in Conns :
       \/ Accept(c) \/ Handle(c) \/ CopyEnd(c) \/ ResolverThread(c)
       \/ ClientSend(c) \/ ClientEnd(c) \/ ServerAnswers(c)
  \/ Administer

Spec == Init /\ [][Next]_vars

(* selector_select handles every ready descriptor of an iteration and every
   queued job, and no handler blocks; getaddrinfo() and a TCP connection
   attempt end.  Nothing is assumed of clients, nor of how long tunnels last. *)
Fairness ==
  \A c \in Conns :
    WF_vars(Handle(c)) /\ WF_vars(ResolverThread(c)) /\ WF_vars(ServerAnswers(c))

FairSpec == Spec /\ Fairness

-----------------------------------------------------------------------------
(* Every variable keeps its type. *)
TypeOK ==
  /\ socks \in [Conns -> SocksType]
  /\ dns \in [Conns -> DnsType]
  /\ fds \in [Conns -> FdsType]
  /\ net \in [Conns -> NetType]
  /\ auth_enabled \in BOOLEAN /\ small \in BOOLEAN
  /\ users \subseteq known /\ known \subseteq Creds
  /\ current \in Int /\ historic \in Nat /\ admin \in Nat
  /\ proc \in {"up", "aborted"}

(* stm.c calls abort() for an event that the current state has no handler for
   (stm.c:55, 69, 79).  Whatever the interests of the two descriptors are,
   and whenever the resolver answers, the state they deliver an event to
   handles it. *)
EventHasHandler ==
  \A c \in Conns :
    /\ fds[c].cli = "OP_READ" =>
         socks[c].st \in {"HELLO_READ", "AUTH_READ", "REQUEST_READ", "COPY"}
    /\ fds[c].cli = "OP_WRITE" =>
         socks[c].st \in {"HELLO_WRITE", "AUTH_WRITE", "REQUEST_WRITE"}
    /\ fds[c].srv = "OP_READ" => socks[c].st = "COPY"
    /\ fds[c].srv = "OP_WRITE" => socks[c].st = "REQUEST_CONNECTING"
    /\ dns[c].thr = "queued" /\ fds[c].cli # "unused" => socks[c].st = "REQUEST_RESOLV"

(* The resolver thread writes into struct socks5 without a lock.  While it
   runs, and until its notification is handled, the struct is live and the
   main thread gets no event that would touch it. *)
ResolverAlone ==
  \A c \in Conns : dns[c].thr \in {"running", "queued"} =>
    /\ socks[c].st = "REQUEST_RESOLV"
    /\ fds[c].cli = "OP_NOOP" /\ ~Registered(fds[c])
    /\ fds[c].frees = 0

(* However the administrator toggles authentication and edits the users
   between the hello and the request, a request is only taken from a client
   that offered the method it was served with and, with user/password, sent
   all of a credential that is or was in the table. *)
RequestNeedsAuth ==
  \A c \in Conns : socks[c].st \in RequestStates =>
    /\ socks[c].method \in net[c].script.offers
    /\ socks[c].method = "auth" =>
         /\ net[c].script.auth \in known
         /\ socks[c].used >= AuthEnd(net[c].script)

(* A client is told that its request succeeded, and its bytes are relayed,
   only when the final server accepted the connection and its descriptor is
   still watched. *)
SuccessIsTrue ==
  \A c \in Conns :
    socks[c].st = "COPY" \/ (socks[c].st = "REQUEST_WRITE" /\ socks[c].status = "succeeded")
      => net[c].dest = "up" /\ Registered(fds[c])

(* current_connections counts the connections whose server answered and that
   did not go through the end of copy: the open tunnels, and those that were
   lost while the reply was sent. *)
CurrentCounts ==
  current = Cardinality({c \in Conns : socks[c].status = "succeeded"})

(* Unless a second address was tried, struct socks5 is freed at most once and
   no selector item refers to it afterwards. *)
NoDangling ==
  \A c \in Conns : dns[c].cur <= 1 =>
    /\ fds[c].frees <= 1
    /\ fds[c].frees = 1 => fds[c].cli = "unused" /\ ~Registered(fds[c])

(* Unless a second address was tried, or connect() failed or ended at once, a
   connection that is over has given its struct back. *)
Reclaimed ==
  \A c \in Conns :
    socks[c].st \in OverStates /\ dns[c].cur <= 1 /\ net[c].dest # "immediate"
      => fds[c].frees = 1

(* A client that has sent all it had to say, each message after the reply to
   the one before, gets its tunnel or is disconnected. *)
RequestAnswered ==
  \A c \in Conns :
    (fds[c].cli # "unused" /\ net[c].sent = RequestEnd(net[c].script))
      ~> socks[c].st \in OverStates \cup {"COPY"}

-----------------------------------------------------------------------------
(* The inductive invariant behind the properties above, stated of the records
   of one connection and of the credentials known.  Each state has its own
   interests; a struct is shared by two registered descriptors only while a
   connection is made or relayed; and until a second address is tried nothing
   has been closed before socks5_done.                                       *)
ClientItem(st) ==
  CASE st \in {"HELLO_READ", "AUTH_READ", "REQUEST_READ", "COPY"} -> "OP_READ"
    [] st \in {"HELLO_WRITE", "AUTH_WRITE", "REQUEST_WRITE"} -> "OP_WRITE"
    [] st \in {"REQUEST_RESOLV", "REQUEST_CONNECTING"} -> "OP_NOOP"
    [] OTHER -> "unused"

ServerItems(st, status) ==
  CASE st = "REQUEST_CONNECTING" -> {"OP_WRITE"}
    [] st = "COPY" -> {"OP_READ"}
    [] st = "REQUEST_WRITE" /\ status = "succeeded" -> {"OP_NOOP"}
    [] st = "REQUEST_WRITE" /\ status # "succeeded" -> {"none", "open", "OP_NOOP"}
    [] st \in OverStates -> {"none", "closed"}
    [] OTHER -> {"none"}

Watched(r, f) == f.cli = ClientItem(r.st) /\ f.srv \in ServerItems(r.st, r.status)

Counted(r, d, n) ==
  /\ r.used <= r.got /\ r.got <= n.sent
  /\ d.cur <= d.n /\ (d.cur = 0 => d.n = 0)
  /\ r.st \in {"NONE", "REFUSED", "REQUEST_READ"} \cup HandshakeStates => d.cur = 0
  /\ r.st = "REQUEST_RESOLV" => d.cur <= 1
  /\ d.thr \in {"running", "queued"} => r.st = "REQUEST_RESOLV"

Owned(r, f, d, n) ==
  /\ f.srv = "open" => n.dest = "immediate"
  /\ d.cur <= 1 /\ r.st \in {"NONE"} \cup HandshakeStates \cup RequestStates
       => f.toFree = 0 /\ f.frees = 0
  /\ d.cur <= 1 /\ r.st \in {"REFUSED"} \cup OverStates
       => f.frees <= 1 /\ (n.dest # "immediate" => f.frees = 1)

Answered(r, n) ==
  /\ r.status = "succeeded" => r.st \in {"REQUEST_WRITE", "COPY"} \cup OverStates
  /\ r.status = "close" => r.st = "DONE"
  /\ r.st = "COPY" => r.status = "succeeded"
  /\ r.st \in {"REQUEST_WRITE", "COPY"} /\ r.status = "succeeded" => n.dest = "up"

Authorised(r, n, K) ==
  /\ r.st = "HELLO_WRITE" => r.method \in n.script.offers \cup {"none"}
  /\ r.st \in {"AUTH_READ", "AUTH_WRITE"} => r.method = "auth" /\ "auth" \in n.script.offers
  /\ r.st = "AUTH_WRITE" /\ r.auth =>
       n.script.auth \in K /\ r.used >= AuthEnd(n.script)
  /\ r.st \in RequestStates =>
       /\ r.method \in n.script.offers
       /\ r.method = "auth" => n.script.auth \in K /\ r.used >= AuthEnd(n.script)

Conforms(r, f, d, n, K) ==
  /\ Watched(r, f) /\ Counted(r, d, n) /\ Owned(r, f, d, n)
  /\ Answered(r, n) /\ Authorised(r, n, K)

(* Every connection conforms to its state. *)
IInv ==
  TypeOK /\ \A c \in Conns : Conforms(socks[c], fds[c], dns[c], net[c], known)

-----------------------------------------------------------------------------
(* What RequestAnswered rests on, besides the fairness: whenever a client that
   has sent its request waits, somebody of whom fairness is assumed is due, and
   what such a step leaves is less than it was.                             *)

(* A client whose messages have all been sent, and that has no tunnel yet. *)
Waiting(r, f, n) ==
  f.cli # "unused" /\ n.sent = RequestEnd(n.script) /\ r.st # "COPY"

(* The one that is to act on a connection: the selector has an event for it,
   its resolver thread runs, or the kernel is connecting. *)
HandlerDue(r, f, d, n) ==
  \/ f.cli = "OP_READ" /\ (n.sent > r.got \/ n.end # "open")
  \/ f.cli = "OP_WRITE"
  \/ f.srv = "OP_WRITE" /\ n.dest \in {"up", "failed"}
  \/ d.thr = "queued"

Due(r, f, d, n) ==
  CASE HandlerDue(r, f, d, n) -> "handler"
    [] d.thr = "running" -> "thread"
    [] n.dest = "pending" -> "kernel"
    [] OTHER -> "nobody"

(* How many steps are left at most: the pieces of a reply, two for each address
   not tried yet, and the stages before. *)
Left(r, d, n) ==
  CASE r.st = "REQUEST_READ" -> ReplyLen + 2 * MaxAddrs + 6
    [] r.st = "REQUEST_RESOLV" ->
         ReplyLen + 2 * MaxAddrs + (IF d.thr = "running" THEN 5 ELSE 4)
    [] r.st = "REQUEST_CONNECTING" ->
         ReplyLen + 2 * (d.n - d.cur) + (IF n.dest = "pending" THEN 3 ELSE 2)
    [] r.st = "REQUEST_WRITE" -> r.wb + 1
    [] OTHER -> 0

(* What is known of a connection whose client waits for each reply. *)
Paced(r, d, n) ==
  /\ r.st = "NONE" => n.sent = 0
  /\ r.st \in {"HELLO_READ", "HELLO_WRITE"} => n.sent <= HelloLen
  /\ r.st \in {"AUTH_READ", "AUTH_WRITE"} => n.sent <= AuthEnd(n.script)
  /\ r.st = "REQUEST_READ" => r.got < RequestEnd(n.script)
  /\ r.st = "REQUEST_RESOLV" => d.thr \in {"running", "queued"}
  /\ r.st = "REQUEST_CONNECTING" => n.dest \in {"pending", "up", "failed"}
  /\ n.dest = "pending" => r.st = "REQUEST_CONNECTING"

(* No client that waits is forgotten: an event is due to the handler of its
   state, its thread runs, or the kernel tries an address. *)
SomebodyDue ==
  \A c \in Conns : Waiting(socks[c], fds[c], net[c]) =>
    Due(socks[c], fds[c], dns[c], net[c]) # "nobody"

(* Nothing anybody does, of this connection or another, sets a waiting client
   back or takes the turn from the one that is due; and a handler, a thread or
   the kernel brings it nearer to its answer. *)
DrawsNearer(c) ==
  LET before == Left(socks[c], dns[c], net[c])
      after == Left(socks'[c], dns'[c], net'[c])
  IN  /\ Handle(c) \/ ResolverThread(c) \/ ServerAnswers(c) => after < before
      /\ \/ after < before
         \/ /\ after = before /\ Waiting(socks'[c], fds'[c], net'[c])
            /\ Due(socks'[c], fds'[c], dns'[c], net'[c]) = Due(socks[c], fds[c], dns[c], net[c])

RequestDrawsNearer ==
  [][\A c \in Conns :
       Waiting(socks[c], fds[c], net[c]) /\ proc' = "up" => DrawsNearer(c)]_vars

-----------------------------------------------------------------------------
(* How a connection looks to a user of the proxy. *)
Phase(st) ==
  CASE st = "NONE" -> "idle"
    [] st \in HandshakeStates -> "handshake"
    [] st \in {"REQUEST_READ", "REQUEST_RESOLV"} -> "request"
    [] st = "REQUEST_CONNECTING" -> "dialing"
    [] st = "REQUEST_WRITE" -> "answered"
    [] st = "COPY" -> "relay"
    [] OTHER -> "over"

ProxyView == INSTANCE Proxy WITH
  phase <- [c \in Conns |-> Phase(socks[c].st)],
  granted <- [c \in Conns |-> socks[c].status \in {"succeeded", "close"}],
  tunnels <- current

(* The connections do what module Proxy promises, in that order and no other. *)
ImplementsProxy == ProxyView!PSpec

-----------------------------------------------------------------------------
(* What the comments and the manual say of the program. *)

(* socks5_request.c: after a failed attempt another address is tried. *)
AnotherAddress ==
  [][\A c \in Conns : dns'[c].cur > dns[c].cur /\ dns[c].cur > 0
       => dns'[c].dial # dns[c].dial]_vars

(* socks5.c: when toFree is 1 the memory may be freed, so at most one
   descriptor still refers to it. *)
ToFreeIsLastOwner ==
  \A c \in Conns : fds[c].toFree > 0 =>
    fds[c].cli = "unused" \/ ~Registered(fds[c])
=============================================================================
