----------------------------- MODULE WireGrammar -----------------------------
(***************************************************************************)
(* The messages of the two protocols by their layout, and what the parsers *)
(* of Wire.tla owe them: the same verdict wherever the bytes are cut, the  *)
(* end where it is, and the payloads.  The bytes with a meaning are those  *)
(* the headers declare; where a parser has others, it is named below.      *)
(***************************************************************************)
EXTENDS Wire

(* The parts of a message: a byte out of a set, or a payload whose length is
   told by a byte before it, by its kind, or fixed. *)
One(S) == [t |-> "one", in |-> S]
Counted(least) == [t |-> "counted", least |-> least]
Number == [t |-> "number"]
Address(least) == [t |-> "address", least |-> least]
Fixed(n) == [t |-> "fixed", n |-> n]

Layout(k) ==
  CASE k = "admin_connect" -> <<One({0}), Counted(1)>>
    [] k = "admin_get" -> <<One({0}), One(0..8)>>
    [] k = "admin_put" -> <<One({1}), One({0}), Counted(1), Counted(1)>>
    [] k = "admin_edit" -> <<One({2}), One({0}), Counted(1), One({0, 1}), Counted(1)>>
    [] k = "admin_configbuff" -> <<One({3}), Number>>
    [] k = "admin_configstatus" -> <<One({4}), One({3, 4}), One({0, 1})>>
    [] k = "admin_delete" -> <<One({5}), One({0}), Counted(1)>>
    [] k = "hello" -> <<One({5}), Counted(0)>>
    [] k = "auth" -> <<One({1}), Counted(1), Counted(1)>>
    [] k = "request" -> <<One({5}), One({1, 2, 3}), One(Byte), Address(0), Fixed(2)>>

Larger(m, n) == IF m > n THEN m ELSE n

(* A byte, or the least it can be while it is not there. *)
At(s, i) == IF i <= Len(s) THEN s[i] ELSE 0

(* Of a part that s begins with: whether s shows it to be wrong, the length of
   its head, and its length; that is too long for s while s is not the whole of
   it. *)
Wrong(part, s) ==
  CASE part.t = "one" -> s[1] \notin part.in
    [] part.t = "counted" -> s[1] < part.least
    [] part.t = "number" -> Len(s) >= 4 /\ \A i \in 1..4 : s[i] = 0
    [] part.t = "address" -> s[1] \notin {1, 3, 4}
    [] part.t = "fixed" -> FALSE
HeadSize(part, s) ==
  CASE part.t = "counted" -> 1
    [] part.t = "address" -> IF s[1] = 3 THEN 2 ELSE 1
    [] OTHER -> 0
Size(part, s) ==
  CASE part.t = "one" -> 1
    [] part.t = "counted" -> 1 + At(s, 1)
    [] part.t = "number" -> 4
    [] part.t = "fixed" -> part.n
    [] part.t = "address" -> IF At(s, 1) = 1 THEN 1 + Ipv4Len
                             ELSE IF At(s, 1) = 4 THEN 1 + Ipv6Len
                             ELSE 2 + Larger(part.least, At(s, 2))

(* What is behind the first n bytes, and where each part ends. *)
From(s, n) == SubSeq(s, n + 1, Len(s))
Ends(parts, s) ==
  LET end[i \in 0..Len(parts)] ==
        IF i = 0 THEN 0 ELSE end[i - 1] + Size(parts[i], From(s, end[i - 1]))
  IN end

(* A message is wrong as soon as a part that has begun is, and it is whole when
   its last part is. *)
Verdict(parts, s) ==
  LET end == Ends(parts, s)
  IN IF \E i \in 1..Len(parts) : end[i - 1] < Len(s) /\ Wrong(parts[i], From(s, end[i - 1]))
     THEN "error"
     ELSE IF end[Len(parts)] <= Len(s) THEN "done" ELSE "more"

(* The payloads of the first parts of a message. *)
PayloadsTo(parts, s) ==
  LET end == Ends(parts, s)
      told[i \in 0..Len(parts)] ==
        IF i = 0 THEN <<>>
        ELSE IF parts[i].t = "one" THEN told[i - 1]
        ELSE Append(told[i - 1], SubSeq(s, end[i - 1] + HeadSize(parts[i], From(s, end[i - 1])) + 1, end[i]))
  IN told
Payloads(parts, s) == PayloadsTo(parts, s)[Len(parts)]

-----------------------------------------------------------------------------
(* The two points at which the parser of requests has a grammar of its own: the
   command 2 is refused and 4 is taken, and a name of no bytes takes one. *)
OtherCommand(k, s) == k = "request" /\ Len(s) >= 2 /\ s[2] \in {2, 4}
EmptyName(k, s) == k = "request" /\ Len(s) >= 5 /\ s[4] = 3 /\ s[5] = 0

(* What the parser took of what was received. *)
Taken == SubSeq(fed, 1, Len(fed) - Len(buff))

(* The struct of a parser holds numbers of their width and arrays of bytes, no
   array is filled past what was told, and no byte is lost or taken twice; what
   was told is gone only when the zero behind a full array has fallen on it,
   and then the message is whole. *)
TypeOK ==
  /\ kind \in Kinds
  /\ parser.remaining \in Byte /\ parser.read \in 0..Base
  /\ \A i \in 1..Len(parser.texts) : parser.texts[i] \in Seq(Byte)
  /\ \/ parser.read <= Larger(1, parser.remaining)
     \/ parser.state = "done" /\ parser.remaining = 0 /\ parser.read >= ArraySize
  /\ buff \in Seq(Byte) /\ fed = Taken \o buff

(* However the bytes were cut, the parser has come to the verdict that the
   grammar has on what it took, and it took no byte behind the end of the
   message, or behind the one that made it wrong: those belong to what comes
   next.  A request with the command 2 or 4 or an empty name is the exception. *)
VerdictOfGrammar ==
  ~ OtherCommand(kind, Taken) /\ ~ EmptyName(kind, Taken) =>
    /\ Verdict(Layout(kind), Taken) = IF IsDone(parser) THEN parser.state ELSE "more"
    /\ \A n \in 0..(Len(Taken) - 1) : Verdict(Layout(kind), SubSeq(fed, 1, n)) = "more"

(* The arrays a whole message leaves are its payloads, each from its start, but
   for an empty name. *)
PayloadsKept ==
  parser.state = "done" /\ ~ EmptyName(kind, Taken) =>
    parser.texts = Payloads(Layout(kind), Taken)

(* A request is not refused for a command that the header declares, nor taken
   with another (violated: command 2 of request.h is refused, request.c:26). *)
DeclaredCommands ==
  kind = "request" /\ Len(Taken) = 2 /\ Taken[1] = 5 =>
    (parser.state = "error" <=> Verdict(Layout(kind), Taken) = "error")

(* The byte before a name tells how much of it is left to read (violated: one
   byte is read when there is none, request.c:69-98). *)
NameAsTold ==
  kind = "request" /\ parser.state = "done" /\ parser.atyp = 3 =>
    Len(parser.texts[1]) = Taken[5]

(* The size an administrator sets is the one that is read back; it is refused
   for being negative just when its first bit is set. *)
SizeReadBack ==
  kind = "admin_configbuff" /\ parser.state = "done" =>
    LET size == FourBytesToNum(parser.texts[1])
    IN /\ NumToFourBytes(size) = SubSeq(Taken, 2, 5)
       /\ size <= 0 <=> Taken[2] >= Base \div 2

(* The reply to a request echoes its destination byte for byte, unless it is a
   name that is empty or has a zero in it. *)
ReplyEchoes ==
  kind = "request" /\ parser.state = "done"
    /\ (parser.atyp = 3 => Taken[5] > 0 /\ \A i \in 1..Len(parser.texts[1]) : parser.texts[1][i] # 0)
  => RequestReply(parser, 0) = <<5, 0, 0>> \o SubSeq(Taken, 4, Len(Taken))
=============================================================================
