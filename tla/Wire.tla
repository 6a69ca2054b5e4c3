-------------------------------- MODULE Wire --------------------------------
(***************************************************************************)
(* src/parsers: the ten byte-at-a-time parsers of the two protocols, each  *)
(* fed from the read buffer of its session as the bytes come in, and what  *)
(* they leave in that buffer.  Statuses of errors are one state.           *)
(***************************************************************************)
EXTENDS Integers, Sequences

CONSTANTS
  Kinds,             \* the parsers
  Base,              \* the values of a byte: 256, or fewer
  ArraySize,         \* bytes of an array of text: 0xff, or fewer
  Ipv4Len, Ipv6Len,  \* bytes of an address: 4 and 16, or fewer
  Alphabet,          \* the bytes the client of each parser may send
  MaxFed,            \* bound: bytes sent,
  Unread             \* and bytes waiting in the buffer

Byte == 0..(Base - 1)

ASSUME WireAssumption ==
  /\ Kinds \subseteq {"admin_connect", "admin_get", "admin_put", "admin_edit",
                     "admin_configbuff", "admin_configstatus", "admin_delete",
                     "hello", "auth", "request"}
  /\ Base \in Nat /\ Base > 8 /\ Base % 2 = 0
  /\ {ArraySize, Ipv4Len, Ipv6Len} \subseteq Byte \ {0}
  /\ {MaxFed, Unread} \subseteq Nat \ {0}
  /\ \A k \in Kinds : Alphabet[k] \subseteq Byte
  (* No length is told that is longer than the array, as none is in a byte. *)
  /\ \A k \in Kinds \cap {"admin_connect", "admin_put", "admin_edit", "auth"} :
       Alphabet[k] \subseteq 0..ArraySize

VARIABLES
  kind,      \* which parser this is
  parser,    \* its struct
  buff,      \* read_buffer
  fed        \* history: every byte that was received

vars == <<kind, parser, buff, fed>>

-----------------------------------------------------------------------------
(* A parser's struct; texts holds the arrays it has filled, in order. *)
New(k) == [state |-> IF k = "admin_configbuff" THEN "size_action" ELSE
                     IF k \in {"admin_connect", "auth", "hello", "request"} THEN "version"
                     ELSE "action",
           remaining |-> 0, read |-> 0, atyp |-> 0, texts |-> <<>>]

Goto(p, s) == [p EXCEPT !.state = s]

(* A byte with a meaning of its own. *)
Check(p, b, legal, next) == Goto(p, IF b \in legal THEN next ELSE "error")

RemainingKeepsRead(p, n) ==          \* a mutant: read = 0 is missing
  [p EXCEPT !.remaining = n, !.texts = Append(@, <<>>)]

(* remaining_set, and the next array *)
RemainingSet(p, n) ==
  [p EXCEPT !.remaining = n, !.read = 0, !.texts = Append(@, <<>>)]

LengthMayBeNone(p, b, next) ==       \* a mutant: none is accepted
  Goto(RemainingSet(p, b), next)

(* A byte that says how many follow, which may not be none. *)
Length(p, b, next) == IF b = 0 THEN Goto(p, "error") ELSE Goto(RemainingSet(p, b), next)

(* A byte of an array, which was cleared; the last one ends it. *)
Written(array, i, b) ==
  [j \in 1..(i + 1) |-> IF j = i + 1 THEN b ELSE IF j <= Len(array) THEN array[j] ELSE 0]
StoreOneMore(p, b, next) ==          \* a mutant: > for >=
  LET last == Len(p.texts)
      array == Written(p.texts[last], p.read, b)
      q == [p EXCEPT !.texts = [p.texts EXCEPT ![last] = array], !.read = p.read + 1]
  IN IF q.read > q.remaining THEN Goto(q, next) ELSE q
Store(p, b, next) ==
  LET last == Len(p.texts)
      array == Written(p.texts[last], p.read, b)
      q == [p EXCEPT !.texts = [p.texts EXCEPT ![last] = array], !.read = p.read + 1]
  IN IF q.read >= q.remaining THEN Goto(q, next) ELSE q

(* The zero that ends a text is written at [read], which is behind an array
   that is full.  There the struct has the length of the next text, which is
   not in yet, or the field, which is not read again, and behind the last array
   it has remaining. *)
Terminated(p) == IF p.read >= ArraySize THEN [p EXCEPT !.remaining = 0] ELSE p
StoreLast(p, b) ==
  LET q == Store(p, b, "done")
  IN IF q.state = "done" THEN Terminated(q) ELSE q

AdminConnectFeed(p, b) ==
  CASE p.state = "version" -> Check(p, b, {0}, "passlen")
    [] p.state = "passlen" -> Length(p, b, "passwd")
    [] p.state = "passwd" -> StoreLast(p, b)

AdminGetFeed(p, b) ==
  CASE p.state = "action" -> Check(p, b, {0}, "option")
    [] p.state = "option" -> Check(p, b, 0..8, "done")

AdminPutFeed(p, b) ==
  CASE p.state = "action" -> Check(p, b, {1}, "field")
    [] p.state = "field" -> Check(p, b, {0}, "namelen")
    [] p.state = "namelen" -> Length(p, b, "name")
    [] p.state = "name" -> Store(p, b, "passlen")
    [] p.state = "passlen" -> Length(p, b, "pass")
    [] p.state = "pass" -> StoreLast(p, b)

AdminEditFeed(p, b) ==
  CASE p.state = "action" -> Check(p, b, {2}, "field")
    [] p.state = "field" -> Check(p, b, {0}, "ulen")
    [] p.state = "ulen" -> Length(p, b, "username")
    [] p.state = "username" -> Store(p, b, "attribute")
    [] p.state = "attribute" -> Check(p, b, {0, 1}, "valuelen")
    [] p.state = "valuelen" -> Length(p, b, "value")
    [] p.state = "value" -> StoreLast(p, b)

(* Zero is refused once its four bytes are in. *)
AdminConfigbuffFeed(p, b) ==
  CASE p.state = "size_action" -> Check(RemainingSet(p, 4), b, {3}, "size")
    [] p.state = "size" ->
         LET q == Store(p, b, "done")
         IN IF q.state = "done" /\ q.texts[1] = <<0, 0, 0, 0>> THEN Goto(q, "error") ELSE q

AdminConfigstatusFeed(p, b) ==
  CASE p.state = "action" -> Check(p, b, {4}, "field")
    [] p.state = "field" -> Check(p, b, {3, 4}, "status")
    [] p.state = "status" -> Check(p, b, {0, 1}, "done")

AdminDeleteFeed(p, b) ==
  CASE p.state = "action" -> Check(p, b, {5}, "field")
    [] p.state = "field" -> Check(p, b, {0}, "ulen")
    [] p.state = "ulen" -> Length(p, b, "username")
    [] p.state = "username" -> Store(p, b, "done")

(* No methods at all are a message too; each method is handed to the session. *)
HelloFeed(p, b) ==
  CASE p.state = "version" -> Check(p, b, {5}, "nmethods")
    [] p.state = "nmethods" ->
         LET q == [p EXCEPT !.remaining = b, !.texts = <<<<>>>>]
         IN Goto(q, IF b = 0 THEN "done" ELSE "methods")
    [] p.state = "methods" ->
         LET q == [p EXCEPT !.remaining = @ - 1, !.texts = <<Append(@[1], b)>>]
         IN IF q.remaining = 0 THEN Goto(q, "done") ELSE q

AuthFeed(p, b) ==
  CASE p.state = "version" -> Check(p, b, {1}, "userlen")
    [] p.state = "userlen" -> Length(p, b, "username")
    [] p.state = "username" -> Store(p, b, "passlen")
    [] p.state = "passlen" -> Length(p, b, "pass")
    [] p.state = "pass" -> StoreLast(p, b)

(* A name of no bytes takes one all the same; the zero that clears the name falls
   before the array then, on a byte of the type that is zero already. *)
RequestFeed(p, b) ==
  CASE p.state = "version" -> Check(p, b, {5}, "cmd")
    [] p.state = "cmd" -> Check(p, b, {1, 3, 4}, "rsv")
    [] p.state = "rsv" -> Goto(p, "atyp")
    [] p.state = "atyp" ->
         LET q == [p EXCEPT !.atyp = b]
         IN CASE b = 1 -> Goto(RemainingSet(q, Ipv4Len), "dstaddr")
              [] b = 4 -> Goto(RemainingSet(q, Ipv6Len), "dstaddr")
              [] b = 3 -> Goto(q, "dstaddr_fqdn")
              [] OTHER -> Goto(q, "error")
    [] p.state = "dstaddr_fqdn" -> Goto(RemainingSet(p, b), "dstaddr")
    [] p.state = "dstaddr" ->
         LET q == Store(p, b, "dstport")
         IN IF q.state = "dstport" THEN RemainingSet(q, 2) ELSE q
    [] p.state = "dstport" -> Store(p, b, "done")

IsDone(p) == p.state \in {"done", "error"}

Feed(k, p, b) ==
  CASE IsDone(p) -> p
    [] k = "admin_connect" -> AdminConnectFeed(p, b)
    [] k = "admin_get" -> AdminGetFeed(p, b)
    [] k = "admin_put" -> AdminPutFeed(p, b)
    [] k = "admin_edit" -> AdminEditFeed(p, b)
    [] k = "admin_configbuff" -> AdminConfigbuffFeed(p, b)
    [] k = "admin_configstatus" -> AdminConfigstatusFeed(p, b)
    [] k = "admin_delete" -> AdminDeleteFeed(p, b)
    [] k = "hello" -> HelloFeed(p, b)
    [] k = "auth" -> AuthFeed(p, b)
    [] k = "request" -> RequestFeed(p, b)

(* The parser over what is in the buffer, until it is done: what is behind the
   message stays there.  n counts the bytes that were taken. *)
Step(k, at, b) == IF IsDone(at.p) THEN at ELSE [p |-> Feed(k, at.p, b), n |-> at.n + 1]
Consumed(k, p, bytes) ==
  LET after[i \in 0..Len(bytes)] ==
        IF i = 0 THEN [p |-> p, n |-> 0] ELSE Step(k, after[i - 1], bytes[i])
  IN after[Len(bytes)]

-----------------------------------------------------------------------------
Init ==
  /\ kind \in Kinds
  /\ parser = New(kind)
  /\ buff = <<>> /\ fed = <<>>

(* recv() puts another byte in the buffer. *)
Receive ==
  /\ Len(fed) < MaxFed /\ Len(buff) < Unread /\ ~IsDone(parser)
  /\ \E b \in Alphabet[kind] : buff' = Append(buff, b) /\ fed' = Append(fed, b)
  /\ UNCHANGED <<kind, parser>>

Consume ==
  /\ buff # <<>> /\ ~IsDone(parser)
  /\ LET at == Consumed(kind, parser, buff)
     IN parser' = at.p /\ buff' = SubSeq(buff, at.n + 1, Len(buff))
  /\ UNCHANGED <<kind, fed>>

Next == Receive \/ Consume

Spec == Init /\ [][Next]_vars

-----------------------------------------------------------------------------
(* What comes of a message once it is whole. *)

Wide == Base * Base * Base * Base    \* the values of a C int

LittleEndian(s) ==                   \* a mutant: the lowest byte first
  LET n == s[1] + Base * (s[2] + Base * (s[3] + Base * s[4]))
  IN IF n < Wide \div 2 THEN n ELSE n - Wide

(* set_buff_size: four bytes, the first one the highest, as a C int *)
FourBytesToNum(s) ==
  LET n == s[4] + Base * (s[3] + Base * (s[2] + Base * s[1]))
  IN IF n < Wide \div 2 THEN n ELSE n - Wide
(* get_buff_size: the number, as unsigned, in four bytes again *)
NumToFourBytes(n) ==
  LET u == n % Wide
  IN <<u \div (Base * Base * Base) % Base, u \div (Base * Base) % Base, u \div Base % Base, u % Base>>

(* request_marshalll: a name is as long as strlen says. *)
Strlen(s) == IF \E i \in 1..Len(s) : s[i] = 0
             THEN (CHOOSE i \in 1..Len(s) : s[i] = 0 /\ \A j \in 1..(i - 1) : s[j] # 0) - 1
             ELSE Len(s)
ReplyDropsLast(p, status) ==         \* a mutant: the length byte is not counted
  LET addr == p.texts[1]
      name == SubSeq(addr, 1, Strlen(addr))
  IN <<5, status, 0, p.atyp>>
       \o (IF p.atyp = 3 THEN <<Len(name)>> \o SubSeq(name, 1, Len(name) - 1) ELSE addr)
       \o p.texts[2]
RequestReply(p, status) ==
  LET addr == p.texts[1]
      name == SubSeq(addr, 1, Strlen(addr))
  IN <<5, status, 0, p.atyp>>
       \o (IF p.atyp = 3 THEN <<Len(name)>> \o name ELSE addr)
       \o p.texts[2]
=============================================================================
