---------------------------- MODULE SnifferProofs ----------------------------
EXTENDS Sniffer, SequenceTheorems, WellFoundedInduction, TLAPS

LEMMA LeastExists ==
  ASSUME NEW T, T \subseteq Nat, T # {}
  PROVE  \E x \in T : \A y \in T : x <= y
<1>1. PICK x \in T : \A y \in T : ~ (<<y, x>> \in OpToRel(<, Nat))
  BY WFMin, NatLessThanWellFounded
<1>2. \A y \in T : ~ (y < x)
  BY <1>1 DEF OpToRel
<1> QED BY <1>2

(* Induction up to a bound, over the members of a set. *)
LEMMA UpTo ==
  ASSUME NEW n \in Nat, NEW G, 0 \in G, \A i \in 0..(n - 1) : i \in G => i + 1 \in G
  PROVE  \A i \in 0..n : i \in G
<1> SUFFICES ASSUME {i \in 0..n : i \notin G} # {} PROVE FALSE
  OBVIOUS
<1> DEFINE B == {i \in 0..n : i \notin G}
<1>0. B \subseteq Nat /\ B # {}
  OBVIOUS
<1>1. PICK x \in B : \A y \in B : x <= y
  <2> HIDE DEF B
  <2> QED BY <1>0, LeastExists
<1>2. x \in 0..n /\ x # 0
  BY <1>1
<1>3. x - 1 \in 0..(n - 1) /\ (x - 1) + 1 = x
  BY <1>2
<1>4. x - 1 \notin B
  BY <1>1, <1>3
<1>5. x - 1 \in G
  BY <1>3, <1>4
<1> QED BY <1>1, <1>3, <1>5

-----------------------------------------------------------------------------
(* What the automaton is after each byte: the recursive function of Consumed
   exists. *)
Follows(after, s, bytes, n) ==
  after = [i \in 0..n |-> IF i = 0 THEN s ELSE Step(after[i - 1], bytes[i])]

LEMMA FollowsExists ==
  ASSUME NEW s, NEW bytes, NEW n \in Nat
  PROVE  \E after : Follows(after, s, bytes, n)
<1> DEFINE G == {k \in Nat : \E after : Follows(after, s, bytes, k)}
<1>1. 0 \in G
  <2>1. Follows([i \in 0..0 |-> s], s, bytes, 0)
    BY DEF Follows
  <2> QED BY <2>1
<1>2. ASSUME NEW k \in 0..(n - 1), k \in G PROVE k + 1 \in G
  <2>1. PICK f : Follows(f, s, bytes, k)
    BY <1>2
  <2> DEFINE g == [i \in 0..(k + 1) |-> IF i = k + 1 THEN Step(f[k], bytes[i]) ELSE f[i]]
  <2>2. ASSUME NEW i \in 0..(k + 1)
        PROVE  g[i] = IF i = 0 THEN s ELSE Step(g[i - 1], bytes[i])
    <3>1. CASE i = k + 1
      <4>1. g[i] = Step(f[k], bytes[i]) /\ g[k] = f[k]
        BY <3>1
      <4> QED BY <3>1, <4>1
    <3>2. CASE i # k + 1 /\ i # 0
      <4>1. i \in 0..k /\ i - 1 \in 0..k
        BY <3>2
      <4>2. g[i] = f[i] /\ g[i - 1] = f[i - 1]
        BY <3>2, <4>1
      <4>3. f[i] = Step(f[i - 1], bytes[i])
        BY <2>1, <3>2, <4>1 DEF Follows
      <4> QED BY <3>2, <4>2, <4>3
    <3>3. CASE i = 0
      <4>1. f[0] = s
        BY <2>1 DEF Follows
      <4> QED BY <3>3, <4>1
    <3> QED BY <3>1, <3>2, <3>3
  <2>3. Follows(g, s, bytes, k + 1)
    BY <2>2 DEF Follows
  <2> QED BY <2>3
<1>3. n \in G
  <2> HIDE DEF G
  <2> QED BY <1>1, <1>2, UpTo
<1> QED BY <1>3

LEMMA ConsumedFollows ==
  ASSUME NEW s, NEW bytes, Len(bytes) \in Nat
  PROVE  \E after : Follows(after, s, bytes, Len(bytes)) /\ Consumed(s, bytes) = after[Len(bytes)]
<1> DEFINE after == CHOOSE f : Follows(f, s, bytes, Len(bytes))
<1>1. Follows(after, s, bytes, Len(bytes))
  BY FollowsExists
<1>2. Consumed(s, bytes) = after[Len(bytes)]
  BY DEF Consumed, Follows
<1> QED BY <1>1, <1>2

(* A line is followed through sets of states, one after each of its bytes:
   what holds of the states of one piece of it holds of those of the next. *)
LEMMA Followed ==
  ASSUME NEW line_, NEW P, NEW from \in Nat, NEW n \in Nat, NEW s \in P[from],
         NEW bytes, Len(bytes) = n, \A i \in 1..n : bytes[i] = line_[from + i],
         \A j \in from..(from + n - 1) : \A r \in P[j] : Step(r, line_[j + 1]) \in P[j + 1]
  PROVE  Consumed(s, bytes) \in P[from + n]
<1>1. PICK after : Follows(after, s, bytes, n) /\ Consumed(s, bytes) = after[n]
  BY ConsumedFollows
<1> DEFINE G == {i \in 0..n : after[i] \in P[from + i]}
<1>2. 0 \in G
  BY <1>1 DEF Follows
<1>3. ASSUME NEW i \in 0..(n - 1), i \in G PROVE i + 1 \in G
  <2>1. from + i \in from..(from + n - 1) /\ i + 1 \in 0..n /\ i + 1 \in 1..n /\ i + 1 # 0
        /\ (i + 1) - 1 = i /\ from + (i + 1) = (from + i) + 1
    OBVIOUS
  <2>2. after[i + 1] = Step(after[i], bytes[i + 1])
    BY <1>1, <2>1 DEF Follows
  <2>3. bytes[i + 1] = line_[(from + i) + 1]
    BY <2>1
  <2>4. after[i] \in P[from + i]
    BY <1>3
  <2>5. Step(after[i], line_[(from + i) + 1]) \in P[(from + i) + 1]
    BY <2>1, <2>4
  <2> QED BY <2>1, <2>2, <2>3, <2>5
<1> HIDE DEF G
<1>4. \A i \in 0..n : i \in G
  BY <1>2, <1>3, UpTo
<1>5. n \in G
  BY <1>4
<1> QED BY <1>1, <1>5 DEF G

-----------------------------------------------------------------------------
(* What the automaton is while a dialogue goes on.  s is the sniffer, u and p
   the name and the password said last, j the number of bytes followed of the
   line that is looked at. *)
Byte == 0..255
Rec == [state : States, username : Seq(Char), passwd : Seq(Char),
        read : Byte, remaining : Byte, check_read : Byte]
Typed(s) ==
  /\ s \in Rec
  /\ Len(s.username) <= MaxText /\ Len(s.passwd) <= MaxText
  /\ s.check_read <= Len(ERR)
  /\ s.state = "read_user" => s.read <= Len(s.username)
  /\ s.state = "read_password" => s.read <= Len(s.passwd)

At(s, state, read, remaining) ==
  s.state = state /\ s.read = read /\ s.remaining = remaining

(* A name or a password is read: what is kept of it so far. *)
Room(n) == IF n < MaxText THEN n ELSE MaxText
Begins(kept, n, text) == \A i \in 1..n : kept[i] = text[i]

(* The line with the name, from the state that expects it. *)
Naming(s, u, j) ==
  IF j < Len(USER) THEN At(s, "user", j, Len(USER) - j)
  ELSE IF j <= Len(USER) + Len(u)
  THEN /\ s.state = "read_user" /\ s.read = Room(j - Len(USER))
       /\ Begins(s.username, s.read, u)
  ELSE At(s, "password", 0, Len(PASS)) /\ s.username = Cut(u)

(* A keyword is looked for in bytes after the first "from" that do not have it:
   the bytes just read may begin it. *)
Seeks(s, keyword, bytes, j, from) ==
  /\ s.read < Len(keyword) /\ s.remaining = Len(keyword) - s.read
  /\ s.read <= j - from
  /\ \A i \in 1..s.read : bytes[(j - s.read) + i] = keyword[i]

(* The line with the name, after a refusal that left remaining at zero: the
   keyword is read past its end. *)
Overrun(s, u, j) ==
  IF j <= Len(USER) THEN At(s, "user", j, IF j = 0 THEN 0 ELSE 256 - j)
  ELSE s.state = "user" /\ Seeks(s, USER, Line(USER \o u), j, Len(USER))

FoundIn(keyword, bytes, from) ==
  \E at \in from..(Len(bytes) - Len(keyword)) :
    \A i \in 1..Len(keyword) : bytes[at + i] = keyword[i]

(* The sniffer expects a name.  remaining is zero after a refusal. *)
Expects(s) == s.state = "user" /\ s.read = 0 /\ s.remaining \in {0, Len(USER)}

(* A name is looked for in a line without the keyword: with remaining at zero,
   or past it, the keyword cannot be read to its end at all. *)
Looks(s, bytes, j) ==
  /\ s.state = "user"
  /\ IF j = Len(bytes) THEN Expects(s)
     ELSE \/ Seeks(s, USER, bytes, j, 0)
          \/ s.remaining = 0 \/ 256 - s.remaining <= s.read

(* The greeting, from the start of the automaton. *)
Greeted(s, bytes, j) ==
  IF j < Len(OK) THEN At(s, "initial", j, Len(OK) - j) ELSE Looks(s, bytes, j)

(* The answer that refuses, and what is left of it when ERR has been seen. *)
Refusing(s, bytes, j) ==
  \/ /\ s.state = "check_password" /\ s.remaining = 0
     /\ j <= s.check_read /\ s.check_read < Len(ERR)
  \/ Looks(s, bytes, j)

(* A password is looked for in a line without the keyword: the name once more,
   or the answer to it. *)
Seeking(s, u, bytes, j) ==
  /\ s.state = "password" /\ s.username = Cut(u)
  /\ Seeks(s, PASS, bytes, j, 0)

(* The line with the password. *)
Passing(s, u, p, j) ==
  /\ s.username = Cut(u)
  /\ IF j < Len(PASS) THEN At(s, "password", j, Len(PASS) - j)
     ELSE IF j <= Len(PASS) + Len(p)
     THEN /\ At(s, "read_password", Room(j - Len(PASS)), 0)
          /\ Begins(s.passwd, s.read, p)
     ELSE At(s, "check_password", 0, 0) /\ s.check_read = 0 /\ s.passwd = Cut(p)

(* The first n bytes of a keyword, in their order among the first j of others. *)
Among(keyword, n, bytes, j) ==
  \E at \in [1..n -> 1..j] :
    /\ \A i \in 1..n : bytes[at[i]] = keyword[i]
    /\ \A i \in 1..(n - 1) : at[i] < at[i + 1]

Logged(s, u, p) == s.username = Cut(u) /\ s.passwd = Cut(p)
(* The line with the password once more, and at its end. *)
Judging(s, u, p, j) ==
  /\ s.state = "check_password" /\ s.remaining = 0 /\ Logged(s, u, p)
  /\ s.read < Len(OK) /\ Among(OK, s.read, Line(PASS \o p), j)
  /\ s.check_read < Len(ERR) /\ Among(ERR, s.check_read, Line(PASS \o p), j)
Judged(s, u, p) ==
  /\ s.state = "check_password" /\ s.remaining = 0 /\ Logged(s, u, p)
  /\ s.read < Len(OK) /\ s.check_read < Len(ERR)

(* The answer that accepts: the whole of OK has been seen at its end at the latest. *)
Accepting(s, u, p, j) ==
  /\ Logged(s, u, p)
  /\ \/ s.state = "ok"
     \/ /\ s.state = "check_password" /\ j < Len(OK)
        /\ j <= s.read /\ s.read < Len(OK)

(* It knows the name and expects a password. *)
Knows(s, u) == At(s, "password", 0, Len(PASS)) /\ s.username = Cut(u)

(* The automaton after a login, given its answer again or what is said then;
   and between two lines. *)
Done == {"initial", "ok", "err"}
Spent(s, bytes, j) ==
  s.state \in Done \/ (s.state = "user" /\ Seeks(s, USER, bytes, j, 0))
Idle(s) == s.state \in Done \/ At(s, "user", 0, Len(USER))

(* What was said. *)
Spoken ==
  /\ turn \in {"greeting", "user", "reply", "pass", "verdict", "over", "talk"}
  /\ turn = "greeting" => line = <<>>
  /\ turn = "user" => \E r \in Remarks : line = Line(OK \o r) \/ line = Line(ERR \o r)
  /\ turn = "reply" => line = Line(USER \o user) /\ user \in Texts
  /\ turn = "pass" => (\E r \in Remarks : line = Line(OK \o r)) /\ user \in Texts
  /\ turn = "verdict" => line = Line(PASS \o pass) /\ user \in Texts /\ pass \in Texts
  /\ turn = "over" => (\E r \in Remarks : line = Line(OK \o r)) /\ user \in Texts /\ pass \in Texts
  /\ turn = "talk" => \E w \in Seq(Char) : line = Line(w)
  /\ taken \in {0, Len(line)} /\ passed \in 0..taken

(* In a plain tunnel it has no keyword that is looked for. *)
PlainLine ==
  /\ turn \in {"user", "over", "talk"} => ~FoundIn(USER, line, 0)
  /\ turn = "reply" => PlainName(user)
  /\ turn = "pass" => ~FoundIn(PASS, line, 0)
  /\ turn = "verdict" => PlainPassword(pass)

(* The sniffer by then. *)
Unread(s) ==
  /\ turn = "greeting" => s = Zeroed
  /\ turn = "user" => \/ s = Zeroed /\ \E r \in Remarks : line = Line(OK \o r)
                      \/ Judged(s, user, pass) /\ \E r \in Remarks : line = Line(ERR \o r)
  /\ turn = "reply" => Expects(s)
  /\ turn = "pass" => Knows(s, user)
  /\ turn = "verdict" => Knows(s, user)
  /\ turn = "over" => Judged(s, user, pass)
  /\ turn = "talk" => Idle(s)
Read(s, n) ==
  /\ turn # "greeting"
  /\ turn = "user" => Looks(s, line, n)
  /\ turn = "reply" => Seeking(s, user, line, n) \/ Naming(s, user, n)
  /\ turn = "pass" => Seeking(s, user, line, n)
  /\ turn = "verdict" => Judging(s, user, pass, n)
  /\ turn \in {"over", "talk"} => Spent(s, line, n)
Sniffed ==
  enabled => IF taken = 0 THEN Unread(sniffer) ELSE Read(sniffer, passed)

(* What is listed since tunnels were plain. *)
Recent == SubSeq(list, 1, Len(list) - before)
Showing(l, logins, n) ==
  \E which \in [1..Len(l) -> 1..n] :
    /\ \A i \in 1..Len(l) : Shows(l[(Len(l) + 1) - i], logins[which[i]])
    /\ \A i \in 1..(Len(l) - 1) : which[i] < which[i + 1]

Answered ==
  turn \in {"over", "talk"} => accepted # <<>> /\ accepted[Len(accepted)] = <<user, pass>>
Captured ==
  IF turn = "over" /\ taken = 0 THEN Showing(Recent, accepted, Len(accepted) - 1)
  ELSE Showing(Recent, accepted, Len(accepted))
Plainly == Sniffed /\ Answered /\ Captured /\ LoginCaptured /\ PlainLine

(* The last entries of the list, and what was shown of them. *)
Ending(l, n) == SubSeq(l, (Len(l) - n) + 1, Len(l))
Page(l, at, sh, pg) ==
  /\ at <= Len(l) /\ Len(sh) + at <= Len(l)
  /\ \A i \in 1..Len(sh) :
       /\ Shortened(sh[i][1], Ending(l, Len(sh) + at)[i][1])
       /\ Shortened(sh[i][2], Ending(l, Len(sh) + at)[i][2])
       /\ i \in (pg + 1)..(Len(sh) - 2) => sh[i] = Ending(l, Len(sh) + at)[i]
Paged == Page(list, iter, shown, page)

Kind == Char \cup {Counter}
Entry == Seq(Kind) \X Seq(Kind)
Histories ==
  /\ list \in Seq(Entry) /\ shown \in Seq(Entry) /\ iter \in Nat /\ page \in Nat
  /\ accepted \in Seq(Texts \X Texts)
  /\ before \in Nat /\ before <= Len(list)

IInv ==
  /\ Typed(sniffer) /\ enabled \in BOOLEAN /\ plain \in BOOLEAN
  /\ Histories /\ Spoken /\ (plain => Plainly) /\ Paged

-----------------------------------------------------------------------------
(* What each state of the automaton does with a byte, field by field. *)
LEMMA ByteIs ==
  \A n : n \in Byte <=> n \in Nat /\ n <= 255
BY DEF Byte

Word(k) == k \in Seq(Char) /\ Len(k) \in Nat /\ Len(k) # 0 /\ Len(k) <= 255

LEMMA Words ==
  /\ Word(OK) /\ Word(USER) /\ Word(PASS) /\ Word(ERR)
  /\ MaxText \in Nat /\ MaxText # 0 /\ MaxText <= 255
  /\ Texts \subseteq Seq(Char) /\ Remarks \subseteq Seq(Char) /\ Addresses \subseteq Seq(Char)
  /\ Newline \notin Char
<1>1. \A n \in 1..255 : n \in Nat /\ n # 0 /\ n <= 255
  OBVIOUS
<1> DEFINE S == {OK, USER, PASS, ERR}
           L(x) == Len(x)
<1>2. L(OK) \in 1..255 /\ L(USER) \in 1..255 /\ L(PASS) \in 1..255 /\ L(ERR) \in 1..255
      /\ MaxText \in 1..255
  BY SnifferAssumption
<1>3. OK \in Seq(Char) /\ USER \in Seq(Char) /\ PASS \in Seq(Char) /\ ERR \in Seq(Char)
      /\ Texts \subseteq Seq(Char) /\ Remarks \subseteq Seq(Char) /\ Addresses \subseteq Seq(Char)
      /\ Newline \notin Char
  BY SnifferAssumption, Zenon
<1> HIDE DEF L
<1>4. /\ L(OK) \in Nat /\ L(OK) # 0 /\ L(OK) <= 255
      /\ L(USER) \in Nat /\ L(USER) # 0 /\ L(USER) <= 255
      /\ L(PASS) \in Nat /\ L(PASS) # 0 /\ L(PASS) <= 255
      /\ L(ERR) \in Nat /\ L(ERR) # 0 /\ L(ERR) <= 255
      /\ MaxText \in Nat /\ MaxText # 0 /\ MaxText <= 255
  <2>1. L(OK) \in Nat /\ L(OK) # 0 /\ L(OK) <= 255
    BY <1>1, <1>2, Zenon
  <2>2. L(USER) \in Nat /\ L(USER) # 0 /\ L(USER) <= 255
    BY <1>1, <1>2, Zenon
  <2>3. L(PASS) \in Nat /\ L(PASS) # 0 /\ L(PASS) <= 255
    BY <1>1, <1>2, Zenon
  <2>4. L(ERR) \in Nat /\ L(ERR) # 0 /\ L(ERR) <= 255
    BY <1>1, <1>2, Zenon
  <2>5. MaxText \in Nat /\ MaxText # 0 /\ MaxText <= 255
    BY <1>1, <1>2, Zenon
  <2> QED BY <2>1, <2>2, <2>3, <2>4, <2>5
<1> QED BY <1>3, <1>4 DEF Word, L

Less(n) == IF n = 0 THEN 255 ELSE n - 1
LEMMA LessIs ==
  \A n \in Byte : (n - 1) % 256 = Less(n) /\ Less(n) \in Byte
BY DEF Less, Byte

(* A record stays one when a field is given a value of its kind. *)
LEMMA PutNumber ==
  ASSUME NEW s \in Rec, NEW n \in Byte
  PROVE  /\ [s EXCEPT !.read = n] \in Rec
         /\ [s EXCEPT !.remaining = n] \in Rec
         /\ [s EXCEPT !.check_read = n] \in Rec
<1>1. [s EXCEPT !.read = n] \in Rec
  BY DEF Rec
<1>2. [s EXCEPT !.remaining = n] \in Rec
  BY DEF Rec
<1>3. [s EXCEPT !.check_read = n] \in Rec
  BY DEF Rec
<1> QED BY <1>1, <1>2, <1>3

LEMMA PutState ==
  ASSUME NEW s \in Rec, NEW state \in States
  PROVE  [s EXCEPT !.state = state] \in Rec
BY DEF Rec

LEMMA PutText ==
  ASSUME NEW s \in Rec, NEW t \in Seq(Char)
  PROVE  [s EXCEPT !.username = t] \in Rec /\ [s EXCEPT !.passwd = t] \in Rec
<1>1. [s EXCEPT !.username = t] \in Rec
  BY DEF Rec
<1>2. [s EXCEPT !.passwd = t] \in Rec
  BY DEF Rec
<1> QED BY <1>1, <1>2

LEMMA MatchedIs ==
  ASSUME NEW s \in Rec, s.read < 255
  PROVE  /\ Matched(s) \in Rec
         /\ At(Matched(s), s.state, s.read + 1, Less(s.remaining))
         /\ Matched(s).username = s.username /\ Matched(s).passwd = s.passwd
         /\ Matched(s).check_read = s.check_read
<1>0. s.read \in Byte /\ s.remaining \in Byte
  BY DEF Rec
<1>1. (s.remaining - 1) % 256 = Less(s.remaining) /\ Less(s.remaining) \in Byte
      /\ s.read + 1 \in Byte
  BY <1>0, LessIs, ByteIs
<1> DEFINE n == s.read + 1
           k == Less(s.remaining)
           r == [s EXCEPT !.read = n]
<1>2. r \in Rec
  BY <1>1, PutNumber
<1>3. [r EXCEPT !.remaining = k] \in Rec
  BY <1>1, <1>2, PutNumber
<1>4. Matched(s) = [s EXCEPT !.read = n, !.remaining = k]
  BY <1>1 DEF Matched
<1> HIDE DEF n, k
<1>5. [s EXCEPT !.read = n, !.remaining = k] = [r EXCEPT !.remaining = k]
  BY DEF Rec
<1>6. At(Matched(s), s.state, n, k)
  BY <1>4 DEF Rec, At
<1>7. Matched(s).username = s.username /\ Matched(s).passwd = s.passwd
      /\ Matched(s).check_read = s.check_read
  BY <1>4 DEF Rec
<1> QED BY <1>3, <1>4, <1>5, <1>6, <1>7 DEF n, k

LEMMA ResetIs ==
  ASSUME NEW s \in Rec, NEW n \in Byte
  PROVE  /\ ResetRead(s, n) \in Rec
         /\ At(ResetRead(s, n), s.state, 0, n)
         /\ ResetRead(s, n).username = s.username /\ ResetRead(s, n).passwd = s.passwd
         /\ ResetRead(s, n).check_read = s.check_read
<1> DEFINE r == [s EXCEPT !.read = 0]
<1>0. 0 \in Byte
  BY ByteIs
<1>1. r \in Rec
  BY <1>0, PutNumber
<1>2. [r EXCEPT !.remaining = n] \in Rec
  BY <1>1, PutNumber
<1>3. ResetRead(s, n) = [r EXCEPT !.remaining = n]
  BY DEF Rec, ResetRead
<1>4. At(ResetRead(s, n), s.state, 0, n)
  BY DEF Rec, ResetRead, At
<1>5. ResetRead(s, n).username = s.username /\ ResetRead(s, n).passwd = s.passwd
      /\ ResetRead(s, n).check_read = s.check_read
  BY DEF Rec, ResetRead
<1> QED BY <1>2, <1>3, <1>4, <1>5

LEMMA GotoIs ==
  ASSUME NEW s \in Rec, NEW state \in States
  PROVE  /\ Goto(s, state) \in Rec
         /\ At(Goto(s, state), state, s.read, s.remaining)
         /\ Goto(s, state).username = s.username /\ Goto(s, state).passwd = s.passwd
         /\ Goto(s, state).check_read = s.check_read
BY DEF Rec, Goto, At

(* s and k differ only in the automaton's place. *)
Keeps(k, s) ==
  k \in Rec /\ k.username = s.username /\ k.passwd = s.passwd /\ k.check_read = s.check_read

LEMMA KeywordIs ==
  ASSUME NEW s \in Rec, NEW b, NEW keyword, Word(keyword),
         NEW next \in States, NEW k, k = Keyword(s, b, keyword, next)
  PROVE  /\ Keeps(k, s)
         /\ Matches(keyword, s.read, b) /\ s.remaining = 1 => At(k, next, 0, 0)
         /\ Matches(keyword, s.read, b) /\ s.remaining # 1 => At(k, s.state, s.read + 1, Less(s.remaining))
         /\ ~Matches(keyword, s.read, b) /\ s.read # 0 => At(k, s.state, 0, Len(keyword))
         /\ ~Matches(keyword, s.read, b) /\ s.read = 0 => k = s
<1>0. s.read \in Byte /\ s.remaining \in Byte
  BY DEF Rec
<1>1. CASE Matches(keyword, s.read, b)
  <2>1. s.read < 255
    <3>1. s.read < Len(keyword)
      BY <1>1 DEF Matches
    <3> QED BY <1>0, <3>1, ByteIs DEF Word
  <2> DEFINE m == Matched(s)
  <2>2. /\ m \in Rec /\ At(m, s.state, s.read + 1, Less(s.remaining))
        /\ m.username = s.username /\ m.passwd = s.passwd /\ m.check_read = s.check_read
    BY <2>1, MatchedIs
  <2>3. k = IF m.remaining = 0 THEN [Goto(m, next) EXCEPT !.read = 0] ELSE m
    BY <1>1 DEF Keyword
  <2>4. m.remaining = 0 <=> s.remaining = 1
    BY <1>0, <2>2, ByteIs DEF At, Less
  <2> HIDE DEF m
  <2>5. CASE s.remaining = 1
    <3> DEFINE g == Goto(m, next)
    <3>1. /\ g \in Rec /\ At(g, next, m.read, m.remaining)
          /\ g.username = m.username /\ g.passwd = m.passwd /\ g.check_read = m.check_read
      BY <2>2, GotoIs
    <3>2. k = [g EXCEPT !.read = 0]
      BY <2>3, <2>4, <2>5
    <3> HIDE DEF g
    <3>4a. 0 \in Byte
      BY ByteIs
    <3>3a. k \in Rec
      BY <3>1, <3>2, <3>4a, PutNumber
    <3>3. k.state = g.state /\ k.read = 0 /\ k.remaining = g.remaining
          /\ k.username = g.username /\ k.passwd = g.passwd /\ k.check_read = g.check_read
      BY <3>1, <3>2 DEF Rec
    <3>4. m.remaining = 0
      BY <2>4, <2>5
    <3> QED BY <1>1, <2>2, <2>5, <3>1, <3>3a, <3>3, <3>4 DEF Keeps, At
  <2>6. CASE s.remaining # 1
    <3>1. k = m
      BY <2>3, <2>4, <2>6
    <3> QED BY <1>1, <2>2, <2>6, <3>1 DEF Keeps
  <2> QED BY <2>5, <2>6
<1>2. CASE ~Matches(keyword, s.read, b)
  <2>1. k = IF s.read # 0 THEN ResetRead(s, Len(keyword)) ELSE s
    BY <1>2 DEF Keyword
  <2>2. CASE s.read # 0
    <3>1. k = ResetRead(s, Len(keyword))
      BY <2>1, <2>2
    <3> DEFINE n == Len(keyword)
    <3>2. n \in Byte
      BY ByteIs DEF Word
    <3> HIDE DEF n
    <3>3. Keeps(ResetRead(s, n), s) /\ At(ResetRead(s, n), s.state, 0, n)
      BY <3>2, ResetIs DEF Keeps
    <3> QED BY <1>2, <2>2, <3>1, <3>3 DEF n
  <2>3. CASE s.read = 0
    BY <1>2, <2>1, <2>3 DEF Keeps
  <2> QED BY <2>2, <2>3
<1> QED BY <1>1, <1>2

LEMMA PrefixIs ==
  ASSUME NEW text \in Seq(Char), NEW n \in Nat, n <= Len(text)
  PROVE  /\ SubSeq(text, 1, n) \in Seq(Char) /\ Len(SubSeq(text, 1, n)) = n
         /\ \A i \in 1..n : SubSeq(text, 1, n)[i] = text[i]
OBVIOUS

LEMMA KeptIs ==
  ASSUME NEW text \in Seq(Char), NEW n \in Nat, n <= Len(text), Len(text) <= MaxText,
         NEW b \in Char
  PROVE  /\ Kept(text, n, b) \in Seq(Char) /\ Len(Kept(text, n, b)) <= MaxText
         /\ Room(n + 1) \in Nat /\ Room(n + 1) <= Len(Kept(text, n, b))
<1> DEFINE kept == Kept(text, n, b)
<1>0. MaxText \in Nat /\ n <= MaxText
  BY Words
<1>1. CASE n < MaxText
  <2> DEFINE t == SubSeq(text, 1, n)
  <2>1. t \in Seq(Char) /\ Len(t) = n
    BY PrefixIs
  <2>2. kept = Append(t, b)
    BY <1>1 DEF Kept
  <2> HIDE DEF t
  <2>3. kept \in Seq(Char) /\ Len(kept) = n + 1
    BY <2>1, <2>2
  <2>4. Room(n + 1) = n + 1
    BY <1>0, <1>1 DEF Room
  <2> QED BY <1>0, <1>1, <2>3, <2>4
<1>2. CASE ~(n < MaxText)
  <2>1. kept = text
    BY <1>2 DEF Kept
  <2>2. Room(n + 1) = n
    BY <1>0, <1>2 DEF Room
  <2> QED BY <1>0, <1>2, <2>1, <2>2
<1> QED BY <1>1, <1>2

LEMMA ReadUserIs ==
  ASSUME NEW s, Typed(s), s.state = "read_user",
         NEW b, b \in Char \/ b = Newline, NEW k, k = ReadUser(s, b)
  PROVE  /\ Typed(k) /\ k.passwd = s.passwd
         /\ b # Newline => /\ At(k, "read_user", Room(s.read + 1), s.remaining)
                           /\ k.username = Kept(s.username, s.read, b)
         /\ b = Newline => /\ At(k, "password", 0, Len(PASS))
                           /\ k.username = SubSeq(s.username, 1, s.read)
<1>0. /\ s \in Rec /\ s.username \in Seq(Char) /\ s.passwd \in Seq(Char)
      /\ s.read \in Nat /\ s.read <= 255 /\ s.remaining \in Byte
      /\ s.check_read \in Byte /\ s.check_read \in Nat /\ s.check_read <= Len(ERR)
      /\ s.read <= Len(s.username) /\ Len(s.username) <= MaxText /\ Len(s.passwd) <= MaxText
      /\ MaxText \in Nat /\ MaxText <= 255 /\ 0 \in Byte
  BY Words, ByteIs DEF Typed, Rec
<1>1. CASE b # Newline
  <2> DEFINE t == Kept(s.username, s.read, b)
             n == Room(s.read + 1)
             r == [s EXCEPT !.username = t]
  <2>1. t \in Seq(Char) /\ Len(t) <= MaxText /\ n \in Nat /\ n <= Len(t)
    BY <1>0, <1>1, KeptIs
  <2>2. n = IF s.read < MaxText THEN s.read + 1 ELSE s.read
    BY <1>0 DEF Room
  <2>3. k = [s EXCEPT !.username = t, !.read = n]
    BY <1>1, <2>2, <1>0 DEF ReadUser, Rec
  <2> HIDE DEF t, n
  <2>4. r \in Rec
    BY <1>0, <2>1, PutText
  <2>5. k = [r EXCEPT !.read = n]
    BY <1>0, <2>3 DEF Rec
  <2>6. n \in Byte
    BY <1>0, <2>1, ByteIs
  <2>7. k \in Rec
    <3> HIDE DEF r
    <3> QED BY <2>4, <2>5, <2>6, PutNumber
  <2>8. /\ At(k, s.state, n, s.remaining) /\ k.username = t /\ k.passwd = s.passwd
        /\ k.check_read = s.check_read
    BY <1>0, <2>3 DEF Rec, At
  <2>9. Typed(k)
    BY <1>0, <2>1, <2>7, <2>8 DEF Typed, At
  <2> QED BY <1>1, <2>8, <2>9 DEF t, n
<1>2. CASE b = Newline
  <2> DEFINE t == SubSeq(s.username, 1, s.read)
             lp == Len(PASS)
             a == ResetRead(s, lp)
             g == Goto(a, "password")
             r == [g EXCEPT !.username = t]
  <2>1. t \in Seq(Char) /\ Len(t) <= MaxText
    BY <1>0, PrefixIs
  <2>2. lp \in Byte
    BY Words, ByteIs DEF Word
  <2>3. k = [g EXCEPT !.username = SubSeq(@, 1, s.read), !.check_read = 0]
    BY <1>2 DEF ReadUser
  <2> HIDE DEF lp
  <2>4. a \in Rec /\ At(a, s.state, 0, lp) /\ a.username = s.username /\ a.passwd = s.passwd
    BY <1>0, <2>2, ResetIs
  <2> HIDE DEF a
  <2>5. "password" \in States
    BY DEF States
  <2>6. g \in Rec /\ At(g, "password", 0, lp) /\ g.username = s.username /\ g.passwd = s.passwd
    BY <2>4, <2>5, GotoIs DEF At
  <2> HIDE DEF g
  <2>7. k = [g EXCEPT !.username = t, !.check_read = 0]
    BY <2>3, <2>6 DEF Rec
  <2> HIDE DEF t
  <2>8. r \in Rec
    BY <2>1, <2>6, PutText
  <2>9. k = [r EXCEPT !.check_read = 0]
    BY <2>6, <2>7 DEF Rec
  <2>10. k \in Rec
    <3> HIDE DEF r
    <3> QED BY <1>0, <2>8, <2>9, PutNumber
  <2>11. /\ At(k, "password", 0, lp) /\ k.username = t /\ k.passwd = s.passwd /\ k.check_read = 0
    BY <2>6, <2>7 DEF Rec, At
  <2>12. Typed(k)
    BY <1>0, <2>1, <2>10, <2>11, Words DEF Typed, At, Word
  <2> QED BY <1>2, <2>11, <2>12 DEF t, lp
<1> QED BY <1>1, <1>2

LEMMA ReadPasswordIs ==
  ASSUME NEW s, Typed(s), s.state = "read_password",
         NEW b, b \in Char \/ b = Newline, NEW k, k = ReadPassword(s, b)
  PROVE  /\ Typed(k) /\ k.username = s.username
         /\ b # Newline => /\ At(k, "read_password", Room(s.read + 1), s.remaining)
                           /\ k.passwd = Kept(s.passwd, s.read, b)
         /\ b = Newline => /\ At(k, "check_password", 0, s.remaining) /\ k.check_read = 0
                           /\ k.passwd = SubSeq(s.passwd, 1, s.read)
<1>0. /\ s \in Rec /\ s.passwd \in Seq(Char) /\ s.username \in Seq(Char)
      /\ s.read \in Nat /\ s.read <= 255 /\ s.remaining \in Byte
      /\ s.check_read \in Byte /\ s.check_read \in Nat /\ s.check_read <= Len(ERR)
      /\ s.read <= Len(s.passwd) /\ Len(s.passwd) <= MaxText /\ Len(s.username) <= MaxText
      /\ MaxText \in Nat /\ MaxText <= 255 /\ 0 \in Byte
  BY Words, ByteIs DEF Typed, Rec
<1>1. CASE b # Newline
  <2> DEFINE t == Kept(s.passwd, s.read, b)
             n == Room(s.read + 1)
             r == [s EXCEPT !.passwd = t]
  <2>1. t \in Seq(Char) /\ Len(t) <= MaxText /\ n \in Nat /\ n <= Len(t)
    BY <1>0, <1>1, KeptIs
  <2>2. n = IF s.read < MaxText THEN s.read + 1 ELSE s.read
    BY <1>0 DEF Room
  <2>3. k = [s EXCEPT !.passwd = t, !.read = n]
    BY <1>1, <2>2, <1>0 DEF ReadPassword, Rec
  <2> HIDE DEF t, n
  <2>4. r \in Rec
    BY <1>0, <2>1, PutText
  <2>5. k = [r EXCEPT !.read = n]
    BY <1>0, <2>3 DEF Rec
  <2>6. n \in Byte
    BY <1>0, <2>1, ByteIs
  <2>7. k \in Rec
    <3> HIDE DEF r
    <3> QED BY <2>4, <2>5, <2>6, PutNumber
  <2>8. /\ At(k, s.state, n, s.remaining) /\ k.passwd = t /\ k.username = s.username
        /\ k.check_read = s.check_read
    BY <1>0, <2>3 DEF Rec, At
  <2>9. Typed(k)
    BY <1>0, <2>1, <2>7, <2>8 DEF Typed, At
  <2> QED BY <1>1, <2>8, <2>9 DEF t, n
<1>2. CASE b = Newline
  <2> DEFINE t == SubSeq(s.passwd, 1, s.read)
             g == Goto(s, "check_password")
             r == [g EXCEPT !.passwd = t]
             q == [r EXCEPT !.read = 0]
  <2>1. t \in Seq(Char) /\ Len(t) <= MaxText
    BY <1>0, PrefixIs
  <2>2. k = [g EXCEPT !.passwd = SubSeq(@, 1, s.read), !.read = 0, !.check_read = 0]
    BY <1>2 DEF ReadPassword
  <2>3. "check_password" \in States
    BY DEF States
  <2>4. /\ g \in Rec /\ At(g, "check_password", s.read, s.remaining)
        /\ g.username = s.username /\ g.passwd = s.passwd
    BY <1>0, <2>3, GotoIs
  <2> HIDE DEF g
  <2>5. k = [g EXCEPT !.passwd = t, !.read = 0, !.check_read = 0]
    BY <2>2, <2>4 DEF Rec
  <2> HIDE DEF t
  <2>6. r \in Rec
    BY <2>1, <2>4, PutText
  <2>7. q \in Rec
    BY <1>0, <2>6, PutNumber
  <2>8. k = [q EXCEPT !.check_read = 0]
    BY <2>4, <2>5 DEF Rec
  <2>9. k \in Rec
    <3> HIDE DEF q
    <3> QED BY <1>0, <2>7, <2>8, PutNumber
  <2>10. /\ At(k, "check_password", 0, s.remaining) /\ k.passwd = t
         /\ k.username = s.username /\ k.check_read = 0
    BY <2>4, <2>5 DEF Rec, At
  <2>11. Typed(k)
    BY <1>0, <2>1, <2>9, <2>10, Words DEF Typed, At, Word
  <2> QED BY <1>2, <2>10, <2>11 DEF t
<1> QED BY <1>1, <1>2

LEMMA CheckPasswordIs ==
  ASSUME NEW s, Typed(s), s.state = "check_password", NEW b, NEW k, k = CheckPassword(s, b)
  PROVE  /\ Typed(k) /\ k.username = s.username /\ k.passwd = s.passwd /\ k.remaining = s.remaining
         /\ Matches(OK, s.read, b) =>
              /\ k.read = s.read + 1 /\ k.check_read = s.check_read
              /\ k.state = IF s.read + 1 = Len(OK) THEN "ok" ELSE "check_password"
         /\ ~Matches(OK, s.read, b) /\ Matches(ERR, s.check_read, b) =>
              /\ k.read = s.read /\ k.check_read = s.check_read + 1
              /\ k.state = IF s.check_read + 1 = Len(ERR) THEN "user" ELSE "check_password"
         /\ ~Matches(OK, s.read, b) /\ ~Matches(ERR, s.check_read, b) => k = s
<1>0. /\ s \in Rec /\ s.read \in Nat /\ s.check_read \in Nat /\ Word(OK) /\ Word(ERR)
      /\ "ok" \in States /\ "user" \in States
  BY Words, ByteIs DEF Typed, Rec, States
<1>1. CASE Matches(OK, s.read, b)
  <2> DEFINE n == s.read + 1
             to == IF n = Len(OK) THEN "ok" ELSE s.state
             r == [s EXCEPT !.read = n]
  <2>1. n \in Byte
    BY <1>0, <1>1, ByteIs DEF Matches, Word
  <2>2. k = [s EXCEPT !.read = n, !.state = to]
    BY <1>1, <1>0 DEF CheckPassword, Rec
  <2>3. to \in States
    BY <1>0 DEF Rec
  <2>4. to \in {"ok", "check_password"}
    OBVIOUS
  <2> HIDE DEF n, to
  <2>5. r \in Rec
    BY <1>0, <2>1, PutNumber
  <2>6. k = [r EXCEPT !.state = to]
    BY <1>0, <2>2 DEF Rec
  <2>7. k \in Rec
    BY <2>3, <2>5, <2>6, PutState
  <2>8. /\ At(k, to, n, s.remaining) /\ k.check_read = s.check_read
        /\ k.username = s.username /\ k.passwd = s.passwd
    BY <1>0, <2>2 DEF Rec, At
  <2>9. Typed(k)
    BY <2>4, <2>7, <2>8 DEF Typed, At
  <2>10. k.state = IF s.read + 1 = Len(OK) THEN "ok" ELSE "check_password"
    BY <2>8 DEF At, to, n
  <2>11. k.read = s.read + 1 /\ k.remaining = s.remaining
    BY <2>8 DEF At, n
  <2> QED BY <1>1, <2>8, <2>9, <2>10, <2>11
<1>2. CASE ~Matches(OK, s.read, b) /\ Matches(ERR, s.check_read, b)
  <2> DEFINE n == s.check_read + 1
             to == IF n = Len(ERR) THEN "user" ELSE s.state
             r == [s EXCEPT !.check_read = n]
  <2>1. n \in Byte /\ n <= Len(ERR)
    BY <1>0, <1>2, ByteIs DEF Matches, Word
  <2>2. k = [s EXCEPT !.check_read = n, !.state = to]
    BY <1>2, <1>0 DEF CheckPassword, Rec
  <2>3. to \in States
    BY <1>0 DEF Rec
  <2>4. to \in {"user", "check_password"}
    OBVIOUS
  <2> HIDE DEF n, to
  <2>5. r \in Rec
    BY <1>0, <2>1, PutNumber
  <2>6. k = [r EXCEPT !.state = to]
    BY <1>0, <2>2 DEF Rec
  <2>7. k \in Rec
    BY <2>3, <2>5, <2>6, PutState
  <2>8. /\ At(k, to, s.read, s.remaining) /\ k.check_read = n
        /\ k.username = s.username /\ k.passwd = s.passwd
    BY <1>0, <2>2 DEF Rec, At
  <2>9. Typed(k)
    BY <2>1, <2>4, <2>7, <2>8 DEF Typed, At
  <2>10. k.state = IF s.check_read + 1 = Len(ERR) THEN "user" ELSE "check_password"
    BY <2>8 DEF At, to, n
  <2>11. k.check_read = s.check_read + 1 /\ k.read = s.read /\ k.remaining = s.remaining
    BY <2>8 DEF At, n
  <2> QED BY <1>2, <2>8, <2>9, <2>10, <2>11
<1>3. CASE ~Matches(OK, s.read, b) /\ ~Matches(ERR, s.check_read, b)
  <2>1. k = s
    BY <1>3 DEF CheckPassword
  <2> QED BY <1>3, <2>1
<1> QED BY <1>1, <1>2, <1>3

LEMMA OkIs ==
  ASSUME NEW s, Typed(s), s.state = "initial", NEW b, NEW k, k = Ok(s, b)
  PROVE  /\ Typed(k) /\ k.username = s.username /\ k.passwd = s.passwd
         /\ Matches(OK, s.read, b) =>
              IF s.remaining = 1 THEN At(k, "user", 0, Len(USER))
              ELSE At(k, "initial", s.read + 1, Less(s.remaining))
         /\ ~Matches(OK, s.read, b) => k.state = "err"
<1>0. /\ s \in Rec /\ s.read \in Nat /\ s.remaining \in Nat /\ Word(OK) /\ Word(USER)
      /\ "err" \in States /\ "user" \in States
  BY Words, ByteIs DEF Typed, Rec, States
<1>1. CASE Matches(OK, s.read, b)
  <2> DEFINE m == Matched(s)
  <2>1. s.read < 255
    BY <1>0, <1>1 DEF Matches, Word
  <2>2. /\ m \in Rec /\ At(m, "initial", s.read + 1, Less(s.remaining))
        /\ m.username = s.username /\ m.passwd = s.passwd /\ m.check_read = s.check_read
    BY <1>0, <2>1, MatchedIs DEF At
  <2>3. k = IF m.remaining = 0 THEN Goto(ResetRead(m, Len(USER)), "user") ELSE m
    BY <1>1 DEF Ok
  <2>4. m.remaining = 0 <=> s.remaining = 1
    BY <1>0, <2>2 DEF At, Less
  <2> HIDE DEF m
  <2>5. CASE s.remaining = 1
    <3> DEFINE lu == Len(USER)
               r == ResetRead(m, lu)
    <3>1. lu \in Byte
      BY <1>0, ByteIs DEF Word
    <3>2. k = Goto(r, "user")
      BY <2>3, <2>4, <2>5
    <3> HIDE DEF lu
    <3>3. Keeps(r, m) /\ At(r, m.state, 0, lu)
      BY <2>2, <3>1, ResetIs DEF Keeps
    <3> HIDE DEF r
    <3>4. Keeps(k, r) /\ At(k, "user", 0, lu)
      BY <1>0, <3>2, <3>3, GotoIs DEF Keeps, At
    <3>5. Typed(k)
      BY <2>2, <3>3, <3>4 DEF Keeps, Typed, At
    <3> QED BY <1>1, <2>2, <2>5, <3>3, <3>4, <3>5 DEF Keeps, lu
  <2>6. CASE s.remaining # 1
    <3>1. k = m
      BY <2>3, <2>4, <2>6
    <3>2. Typed(k)
      BY <2>2, <3>1 DEF Typed, At
    <3> QED BY <1>1, <2>2, <2>6, <3>1, <3>2
  <2> QED BY <2>5, <2>6
<1>2. CASE ~Matches(OK, s.read, b)
  <2>1. k = Goto(s, "err")
    BY <1>2 DEF Ok
  <2>2. Keeps(k, s) /\ At(k, "err", s.read, s.remaining)
    BY <1>0, <2>1, GotoIs DEF Keeps
  <2>3. Typed(k)
    BY <2>2 DEF Keeps, Typed, At
  <2> QED BY <1>2, <2>2, <2>3 DEF Keeps, At
<1> QED BY <1>1, <1>2

LEMMA StepOf ==
  ASSUME NEW s, NEW b
  PROVE  /\ s.state = "initial" => Step(s, b) = Ok(s, b)
         /\ s.state = "user" => Step(s, b) = User(s, b)
         /\ s.state = "read_user" => Step(s, b) = ReadUser(s, b)
         /\ s.state = "password" => Step(s, b) = Password(s, b)
         /\ s.state = "read_password" => Step(s, b) = ReadPassword(s, b)
         /\ s.state = "check_password" => Step(s, b) = CheckPassword(s, b)
         /\ IsDone(s) => Step(s, b) = s
BY DEF Step, Parse, IsDone

(* Whatever the bytes are, the automaton keeps within its fields. *)
LEMMA StepTyped ==
  ASSUME NEW s, Typed(s), NEW b, b \in Char \/ b = Newline
  PROVE  Typed(Step(s, b))
<1> SUFFICES ASSUME NEW k, k = Step(s, b) PROVE Typed(k)
  OBVIOUS
<1>0. /\ s \in Rec /\ s.read \in Nat /\ s.state \in States /\ Word(USER) /\ Word(PASS)
      /\ "read_user" \in States /\ "read_password" \in States
  BY Words, ByteIs DEF Typed, Rec, States
<1>1. CASE s.state = "initial"
  BY <1>1, StepOf, OkIs
<1>2. ASSUME NEW keyword, NEW next \in States, Word(keyword),
             k = Keyword(s, b, keyword, next), s.state \in {"user", "password"}
      PROVE  Typed(k)
  <2>1. /\ Keeps(k, s)
        /\ At(k, next, 0, 0) \/ k.state = s.state
    BY <1>0, <1>2, KeywordIs DEF At
  <2>2. k.username \in Seq(Char) /\ k.passwd \in Seq(Char)
    BY <2>1 DEF Keeps, Rec
  <2>3. Len(k.username) \in Nat /\ Len(k.passwd) \in Nat
    BY <2>2
  <2> QED BY <1>2, <2>1, <2>3 DEF Typed, Keeps, At
<1>3. CASE s.state = "user"
  <2>1. k = Keyword(s, b, USER, "read_user")
    BY <1>3, StepOf DEF User
  <2> QED BY <1>0, <1>2, <1>3, <2>1
<1>4. CASE s.state = "password"
  <2>1. k = Keyword(s, b, PASS, "read_password")
    BY <1>4, StepOf DEF Password
  <2> QED BY <1>0, <1>2, <1>4, <2>1
<1>5. CASE s.state = "read_user"
  BY <1>5, StepOf, ReadUserIs
<1>6. CASE s.state = "read_password"
  BY <1>6, StepOf, ReadPasswordIs
<1>7. CASE s.state = "check_password"
  BY <1>7, StepOf, CheckPasswordIs
<1>8. CASE IsDone(s)
  BY <1>8, StepOf
<1> QED BY <1>0, <1>1, <1>3, <1>4, <1>5, <1>6, <1>7, <1>8 DEF States, IsDone

LEMMA StartIs ==
  ASSUME NEW s, Typed(s), NEW k, k = SnifferInit(s)
  PROVE  Typed(k) /\ At(k, "initial", 0, Len(OK))
<1> DEFINE lo == Len(OK)
           r == ResetRead(s, lo)
<1>1. s \in Rec /\ lo \in Byte /\ "initial" \in States
  BY Words, ByteIs DEF Typed, Word, States
<1>2. k = Goto(r, "initial")
  BY DEF SnifferInit
<1> HIDE DEF lo
<1>3. Keeps(r, s) /\ At(r, s.state, 0, lo)
  BY <1>1, ResetIs DEF Keeps
<1> HIDE DEF r
<1>4. Keeps(k, r) /\ At(k, "initial", 0, lo)
  BY <1>1, <1>2, <1>3, GotoIs DEF Keeps, At
<1>5. Typed(k)
  BY <1>3, <1>4 DEF Keeps, Typed, At
<1> QED BY <1>4, <1>5 DEF lo

(* The bytes of the lines. *)
LEMMA LineIs ==
  ASSUME NEW t \in Seq(Char)
  PROVE  /\ Len(Line(t)) = Len(t) + 1 /\ Len(t) \in Nat
         /\ \A i \in 1..Len(t) : Line(t)[i] = t[i] /\ t[i] \in Char
         /\ Line(t)[Len(t) + 1] = Newline
BY DEF Line

LEMMA SpeechIs ==
  ASSUME NEW keyword, Word(keyword), NEW t \in Seq(Char), NEW bytes, bytes = Line(keyword \o t)
  PROVE  /\ Len(bytes) = (Len(keyword) + Len(t)) + 1 /\ Len(t) \in Nat
         /\ \A i \in 1..Len(keyword) : bytes[i] = keyword[i] /\ keyword[i] \in Char
         /\ \A i \in 1..Len(t) : bytes[Len(keyword) + i] = t[i] /\ t[i] \in Char
         /\ bytes[(Len(keyword) + Len(t)) + 1] = Newline
         /\ \A i \in 1..Len(bytes) : bytes[i] \in Char \/ bytes[i] = Newline
<1> DEFINE w == keyword \o t
<1>1. w \in Seq(Char) /\ Len(w) = Len(keyword) + Len(t) /\ Len(keyword) \in Nat /\ Len(t) \in Nat
  BY DEF Word
<1>2. \A i \in 1..Len(keyword) : w[i] = keyword[i] /\ keyword[i] \in Char
  BY DEF Word
<1>3. \A i \in 1..Len(t) : w[Len(keyword) + i] = t[i] /\ t[i] \in Char
  BY DEF Word
<1> HIDE DEF w
<1>4. /\ Len(bytes) = Len(w) + 1
      /\ \A i \in 1..Len(w) : bytes[i] = w[i] /\ w[i] \in Char
      /\ bytes[Len(w) + 1] = Newline
  BY <1>1, LineIs DEF w
<1>5. \A i \in 1..Len(keyword) : bytes[i] = keyword[i] /\ keyword[i] \in Char
  BY <1>1, <1>2, <1>4
<1>6. \A i \in 1..Len(t) : bytes[Len(keyword) + i] = t[i] /\ t[i] \in Char
  BY <1>1, <1>3, <1>4
<1>7. \A i \in 1..Len(bytes) : bytes[i] \in Char \/ bytes[i] = Newline
  BY <1>1, <1>4
<1> QED BY <1>1, <1>4, <1>5, <1>6, <1>7

-----------------------------------------------------------------------------
(* Each line, byte by byte. *)
LEMMA SpellingStep ==
  ASSUME NEW s \in Rec, NEW keyword, Word(keyword), NEW next \in States,
         NEW j \in Nat, j < Len(keyword), s.read = j, s.remaining = Len(keyword) - j,
         NEW k, k = Keyword(s, keyword[j + 1], keyword, next)
  PROVE  /\ Keeps(k, s)
         /\ j + 1 < Len(keyword) => At(k, s.state, j + 1, Len(keyword) - (j + 1))
         /\ j + 1 = Len(keyword) => At(k, next, 0, 0)
<1>1. Len(keyword) \in Nat
  BY DEF Word
<1>2. Matches(keyword, s.read, keyword[j + 1])
  BY DEF Matches
<1>3. s.remaining # 1 => Less(s.remaining) = Len(keyword) - (j + 1)
  BY <1>1 DEF Less
<1>4. j + 1 = Len(keyword) <=> s.remaining = 1
  BY <1>1
<1>5. /\ Keeps(k, s)
      /\ s.remaining = 1 => At(k, next, 0, 0)
      /\ s.remaining # 1 => At(k, s.state, s.read + 1, Less(s.remaining))
  BY <1>2, KeywordIs
<1> QED BY <1>3, <1>4, <1>5

LEMMA RoomIs ==
  \A n \in Nat : /\ Room(n) \in Nat /\ Room(n) <= n /\ Room(n) <= MaxText
                 /\ Room(Room(n) + 1) = Room(n + 1)
                 /\ n <= MaxText => Room(n) = n
                 /\ n >= MaxText => Room(n) = MaxText
BY Words DEF Room

LEMMA CutIs ==
  ASSUME NEW t \in Seq(Char)
  PROVE  /\ Cut(t) \in Seq(Char) /\ Len(Cut(t)) = Room(Len(t))
         /\ \A i \in 1..Len(Cut(t)) : Cut(t)[i] = t[i]
<1>1. MaxText \in Nat /\ Len(t) \in Nat
  BY Words
<1>2. CASE Len(t) > MaxText
  <2>1. Cut(t) = SubSeq(t, 1, MaxText)
    BY <1>2 DEF Cut
  <2>2. Room(Len(t)) = MaxText
    BY <1>1, <1>2 DEF Room
  <2> QED BY <1>1, <1>2, <2>1, <2>2, PrefixIs
<1>3. CASE ~(Len(t) > MaxText)
  <2>1. Cut(t) = t
    BY <1>3 DEF Cut
  <2>2. Room(Len(t)) = Len(t)
    BY <1>1, <1>3 DEF Room
  <2> QED BY <2>1, <2>2
<1> QED BY <1>2, <1>3

(* What is kept of a text that was read to its end. *)
LEMMA KeptToTheEnd ==
  ASSUME NEW t \in Seq(Char), NEW kept \in Seq(Char), Room(Len(t)) <= Len(kept),
         Begins(kept, Room(Len(t)), t)
  PROVE  SubSeq(kept, 1, Room(Len(t))) = Cut(t)
<1> DEFINE n == Room(Len(t))
           a == SubSeq(kept, 1, n)
           c == Cut(t)
<1>1. n \in Nat /\ n <= Len(kept)
  BY RoomIs
<1>2. a \in Seq(Char) /\ Len(a) = n /\ \A i \in 1..n : a[i] = kept[i]
  BY <1>1, PrefixIs
<1>3. c \in Seq(Char) /\ Len(c) = n /\ \A i \in 1..n : c[i] = t[i]
  BY CutIs
<1>4. \A i \in 1..n : kept[i] = t[i]
  BY DEF Begins
<1> HIDE DEF a, c, n
<1>5. \A i \in 1..n : a[i] = c[i]
  BY <1>2, <1>3, <1>4
<1>6. a = c
  BY <1>1, <1>2, <1>3, <1>5, SeqEqual
<1> QED BY <1>6 DEF a, c, n

(* One more byte of a text is kept, or there was no room for it. *)
LEMMA KeptBegins ==
  ASSUME NEW text \in Seq(Char), Len(text) <= MaxText, NEW t \in Seq(Char),
         NEW m \in Nat, m < Len(t), NEW n, n = Room(m), n <= Len(text), Begins(text, n, t),
         NEW b, b = t[m + 1], NEW kept, kept = Kept(text, n, b)
  PROVE  Begins(kept, Room(m + 1), t)
<1>0. MaxText \in Nat /\ n \in Nat /\ n <= m /\ n <= MaxText /\ Room(m + 1) \in Nat
      /\ Room(m + 1) <= m + 1 /\ (m <= MaxText => n = m) /\ Room(m + 1) <= MaxText
  <2>1. m + 1 \in Nat
    OBVIOUS
  <2> QED BY <2>1, RoomIs, Words
<1>1. b \in Char
  OBVIOUS
<1>2. \A i \in 1..n : text[i] = t[i]
  BY DEF Begins
<1>3. CASE n < MaxText
  <2> DEFINE a == SubSeq(text, 1, n)
  <2>1. a \in Seq(Char) /\ Len(a) = n /\ \A i \in 1..n : a[i] = text[i]
    BY <1>0, PrefixIs
  <2>2. kept = Append(a, b)
    BY <1>3 DEF Kept
  <2> HIDE DEF a
  <2>3. kept[n + 1] = b /\ \A i \in 1..n : kept[i] = a[i]
    BY <1>0, <1>1, <2>1, <2>2
  <2>4. n = m
    BY <1>0, <1>3, RoomIs
  <2>5. \A i \in 1..(m + 1) : kept[i] = t[i]
    <3>1. SUFFICES ASSUME NEW i \in 1..(m + 1) PROVE kept[i] = t[i]
      OBVIOUS
    <3>2. CASE i = m + 1
      BY <2>3, <2>4, <3>2
    <3>3. CASE i # m + 1
      <4>1. i \in 1..n
        BY <2>4, <3>3
      <4> QED BY <1>2, <2>1, <2>3, <4>1
    <3> QED BY <3>2, <3>3
  <2>6. \A i \in 1..Room(m + 1) : kept[i] = t[i]
    BY <1>0, <2>5
  <2> QED BY <2>6 DEF Begins
<1>4. CASE ~(n < MaxText)
  <2>1. kept = text
    BY <1>4 DEF Kept
  <2>2. \A i \in 1..Room(m + 1) : kept[i] = t[i]
    BY <1>0, <1>2, <1>4, <2>1
  <2> QED BY <2>2 DEF Begins
<1> QED BY <1>3, <1>4

LEMMA NamingStep ==
  ASSUME NEW u \in Seq(Char), NEW bytes, bytes = Line(USER \o u),
         NEW j \in Nat, j < Len(bytes),
         NEW s, Typed(s), Naming(s, u, j), NEW k, k = Step(s, bytes[j + 1])
  PROVE  Naming(k, u, j + 1)
<1> DEFINE lu == Len(USER)
           b == bytes[j + 1]
<1>01. Word(USER) /\ Newline \notin Char
  BY Words
<1>02. s \in Rec /\ "read_user" \in States
  BY DEF Typed, States
<1>03. lu \in Nat /\ Len(u) \in Nat
  BY <1>01 DEF Word
<1>04. /\ Len(bytes) = (lu + Len(u)) + 1 /\ bytes[(lu + Len(u)) + 1] = Newline
      /\ \A i \in 1..Len(u) : bytes[lu + i] = u[i] /\ u[i] \in Char
  BY <1>01, SpeechIs
<1>05. \A i \in 1..lu : bytes[i] = USER[i]
  BY <1>01, SpeechIs
<1>0. /\ lu \in Nat /\ Len(u) \in Nat /\ Len(bytes) = (lu + Len(u)) + 1
      /\ \A i \in 1..lu : bytes[i] = USER[i]
      /\ \A i \in 1..Len(u) : bytes[lu + i] = u[i] /\ u[i] \in Char
      /\ bytes[(lu + Len(u)) + 1] = Newline
      /\ Newline \notin Char /\ Word(USER) /\ s \in Rec /\ "read_user" \in States
  BY <1>01, <1>02, <1>03, <1>04, <1>05
<1>1. CASE j < lu
  <2>1. s.state = "user" /\ s.read = j /\ s.remaining = lu - j
    BY <1>1 DEF Naming, At
  <2>2. b = USER[j + 1]
    BY <1>03, <1>05, <1>1
  <2>3. k = Keyword(s, USER[j + 1], USER, "read_user")
    BY <2>1, <2>2, StepOf DEF User
  <2>4. /\ j + 1 < lu => At(k, "user", j + 1, lu - (j + 1))
        /\ j + 1 = lu => At(k, "read_user", 0, 0)
    BY <1>0, <1>1, <2>1, <2>3, SpellingStep
  <2>5. CASE j + 1 < lu
    BY <2>4, <2>5 DEF Naming
  <2>6. CASE j + 1 = lu
    <3>1. Room((j + 1) - lu) = 0
      BY <1>0, <2>6, Words DEF Room
    <3>2. k.read = 0 /\ k.state = "read_user"
      BY <2>4, <2>6 DEF At
    <3>3. Begins(k.username, k.read, u)
      BY <3>2 DEF Begins
    <3> QED BY <1>0, <2>6, <3>1, <3>2, <3>3 DEF Naming
  <2> QED BY <1>0, <1>1, <2>5, <2>6
<1>2. CASE lu <= j /\ j < lu + Len(u)
  <2> DEFINE m == j - lu
  <2>1. m \in Nat /\ m < Len(u) /\ j + 1 = lu + (m + 1) /\ (j + 1) - lu = m + 1
    BY <1>0, <1>2
  <2>2. s.state = "read_user" /\ s.read = Room(m) /\ Begins(s.username, s.read, u)
    BY <1>0, <1>2 DEF Naming
  <2> HIDE DEF m
  <2>3. b = u[m + 1] /\ b \in Char /\ b # Newline
    <3>1. m + 1 \in 1..Len(u)
      BY <1>03, <2>1
    <3>2. bytes[lu + (m + 1)] = u[m + 1] /\ u[m + 1] \in Char
      BY <1>04, <3>1
    <3>3. b = u[m + 1]
      BY <2>1, <3>2
    <3> QED BY <1>01, <3>2, <3>3
  <2>4. k = ReadUser(s, b)
    BY <2>2, StepOf
  <2>5. At(k, "read_user", Room(s.read + 1), s.remaining) /\ k.username = Kept(s.username, s.read, b)
    BY <2>2, <2>3, <2>4, ReadUserIs
  <2>6. k.state = "read_user" /\ k.read = Room(m + 1)
    BY <2>1, <2>2, <2>5, RoomIs DEF At
  <2>7. s.username \in Seq(Char) /\ Len(s.username) <= MaxText /\ s.read <= Len(s.username)
    BY <2>2 DEF Typed, Rec
  <2>8. Begins(k.username, Room(m + 1), u)
    BY <2>1, <2>2, <2>3, <2>5, <2>7, KeptBegins
  <2> QED BY <1>0, <1>2, <2>1, <2>6, <2>8 DEF Naming
<1>3. CASE j = lu + Len(u)
  <2>1. s.state = "read_user" /\ s.read = Room(Len(u)) /\ Begins(s.username, s.read, u)
    BY <1>0, <1>3 DEF Naming
  <2>2. b = Newline
    BY <1>0, <1>3
  <2>3. k = ReadUser(s, b)
    BY <2>1, StepOf
  <2>4. At(k, "password", 0, Len(PASS)) /\ k.username = SubSeq(s.username, 1, s.read)
    BY <2>1, <2>2, <2>3, ReadUserIs
  <2>5. s.username \in Seq(Char) /\ s.read <= Len(s.username)
    BY <2>1 DEF Typed, Rec
  <2>6. k.username = Cut(u)
    BY <2>1, <2>4, <2>5, KeptToTheEnd
  <2>7. ~(j + 1 < lu) /\ ~(j + 1 <= lu + Len(u))
    BY <1>0, <1>3
  <2> QED BY <2>4, <2>6, <2>7 DEF Naming
<1> QED BY <1>0, <1>1, <1>2, <1>3

LEMMA PassingStep ==
  ASSUME NEW u, NEW p \in Seq(Char), NEW bytes, bytes = Line(PASS \o p),
         NEW j \in Nat, j < Len(bytes),
         NEW s, Typed(s), Passing(s, u, p, j), NEW k, k = Step(s, bytes[j + 1])
  PROVE  Passing(k, u, p, j + 1)
<1> DEFINE lp == Len(PASS)
           b == bytes[j + 1]
<1>01. Word(PASS) /\ Newline \notin Char
  BY Words
<1>02. s \in Rec /\ "read_password" \in States /\ s.username = Cut(u)
  BY DEF Typed, States, Passing
<1>03. lp \in Nat /\ Len(p) \in Nat
  BY <1>01 DEF Word
<1>04. /\ Len(bytes) = (lp + Len(p)) + 1 /\ bytes[(lp + Len(p)) + 1] = Newline
      /\ \A i \in 1..Len(p) : bytes[lp + i] = p[i] /\ p[i] \in Char
  BY <1>01, SpeechIs
<1>05. \A i \in 1..lp : bytes[i] = PASS[i]
  BY <1>01, SpeechIs
<1>0. /\ lp \in Nat /\ Len(p) \in Nat /\ Len(bytes) = (lp + Len(p)) + 1
      /\ \A i \in 1..lp : bytes[i] = PASS[i]
      /\ \A i \in 1..Len(p) : bytes[lp + i] = p[i] /\ p[i] \in Char
      /\ bytes[(lp + Len(p)) + 1] = Newline
      /\ Newline \notin Char /\ Word(PASS) /\ s \in Rec /\ "read_password" \in States /\ s.username = Cut(u)
  BY <1>01, <1>02, <1>03, <1>04, <1>05
<1>1. CASE j < lp
  <2>1. s.state = "password" /\ s.read = j /\ s.remaining = lp - j
    BY <1>1 DEF Passing, At
  <2>2. b = PASS[j + 1]
    BY <1>03, <1>05, <1>1
  <2>3. k = Keyword(s, PASS[j + 1], PASS, "read_password")
    BY <2>1, <2>2, StepOf DEF Password
  <2>4. /\ j + 1 < lp => At(k, "password", j + 1, lp - (j + 1))
        /\ j + 1 = lp => At(k, "read_password", 0, 0)
        /\ k.username = Cut(u)
    BY <1>0, <1>1, <2>1, <2>3, SpellingStep DEF Keeps
  <2>5. CASE j + 1 < lp
    BY <2>4, <2>5 DEF Passing
  <2>6. CASE j + 1 = lp
    <3>1. Room((j + 1) - lp) = 0
      BY <1>0, <2>6, Words DEF Room
    <3>2. At(k, "read_password", 0, 0)
      BY <2>4, <2>6
    <3>3. Begins(k.passwd, k.read, p)
      BY <3>2 DEF Begins, At
    <3> QED BY <1>0, <2>4, <2>6, <3>1, <3>2, <3>3 DEF Passing
  <2> QED BY <1>0, <1>1, <2>5, <2>6
<1>2. CASE lp <= j /\ j < lp + Len(p)
  <2> DEFINE m == j - lp
  <2>1. m \in Nat /\ m < Len(p) /\ j + 1 = lp + (m + 1) /\ (j + 1) - lp = m + 1
    BY <1>0, <1>2
  <2>2. At(s, "read_password", Room(m), 0) /\ Begins(s.passwd, s.read, p)
    BY <1>0, <1>2 DEF Passing
  <2> HIDE DEF m
  <2>3. b = p[m + 1] /\ b \in Char /\ b # Newline
    <3>1. m + 1 \in 1..Len(p)
      BY <1>03, <2>1
    <3>2. bytes[lp + (m + 1)] = p[m + 1] /\ p[m + 1] \in Char
      BY <1>04, <3>1
    <3>3. b = p[m + 1]
      BY <2>1, <3>2
    <3> QED BY <1>01, <3>2, <3>3
  <2>4. k = ReadPassword(s, b)
    BY <2>2, StepOf DEF At
  <2>5. /\ At(k, "read_password", Room(s.read + 1), s.remaining)
        /\ k.passwd = Kept(s.passwd, s.read, b) /\ k.username = s.username
    BY <2>2, <2>3, <2>4, ReadPasswordIs DEF At
  <2>6. At(k, "read_password", Room(m + 1), 0)
    BY <2>1, <2>2, <2>5, RoomIs DEF At
  <2>7. s.passwd \in Seq(Char) /\ Len(s.passwd) <= MaxText /\ s.read <= Len(s.passwd)
        /\ s.read = Room(m)
    BY <2>2 DEF Typed, Rec, At
  <2>8. Begins(k.passwd, Room(m + 1), p)
    BY <2>1, <2>2, <2>3, <2>5, <2>7, KeptBegins
  <2>9. Begins(k.passwd, k.read, p)
    BY <2>6, <2>8 DEF At
  <2> QED BY <1>0, <1>2, <2>1, <2>5, <2>6, <2>9 DEF Passing
<1>3. CASE j = lp + Len(p)
  <2>1. At(s, "read_password", Room(Len(p)), 0) /\ Begins(s.passwd, s.read, p)
    BY <1>0, <1>3 DEF Passing
  <2>2. b = Newline
    BY <1>0, <1>3
  <2>3. k = ReadPassword(s, b)
    BY <2>1, StepOf DEF At
  <2>4. /\ At(k, "check_password", 0, 0) /\ k.passwd = SubSeq(s.passwd, 1, s.read)
        /\ k.check_read = 0 /\ k.username = s.username
    BY <2>1, <2>2, <2>3, ReadPasswordIs DEF At
  <2>5. s.passwd \in Seq(Char) /\ s.read <= Len(s.passwd) /\ s.read = Room(Len(p))
    BY <2>1 DEF Typed, Rec, At
  <2>6. k.passwd = Cut(p)
    BY <2>1, <2>4, <2>5, KeptToTheEnd
  <2>7. ~(j + 1 < lp) /\ ~(j + 1 <= lp + Len(p))
    BY <1>0, <1>3
  <2> QED BY <1>0, <2>4, <2>6, <2>7 DEF Passing
<1> QED BY <1>0, <1>1, <1>2, <1>3

LEMMA SeeksStep ==
  ASSUME NEW keyword, Word(keyword), NEW bytes, Len(bytes) \in Nat,
         NEW from \in Nat, ~FoundIn(keyword, bytes, from),
         NEW j \in Nat, j < Len(bytes), from <= j, NEW next \in States,
         NEW s \in Rec, Seeks(s, keyword, bytes, j, from),
         NEW k, k = Keyword(s, bytes[j + 1], keyword, next)
  PROVE  Keeps(k, s) /\ k.state = s.state /\ Seeks(k, keyword, bytes, j + 1, from)
<1> DEFINE n == Len(keyword)
           b == bytes[j + 1]
           r == s.read
<1>0. /\ n \in Nat /\ n # 0 /\ r \in Nat /\ r < n /\ s.remaining = n - r /\ r <= j - from
      /\ \A i \in 1..r : bytes[(j - r) + i] = keyword[i]
  BY ByteIs DEF Word, Rec, Seeks
<1>1. CASE Matches(keyword, r, b)
  <2>1. \A i \in 1..(r + 1) : bytes[(j - r) + i] = keyword[i]
    <3>1. bytes[(j - r) + (r + 1)] = keyword[r + 1]
      BY <1>0, <1>1 DEF Matches
    <3> QED BY <1>0, <3>1
  <2>2. s.remaining # 1
    <3> SUFFICES ASSUME s.remaining = 1 PROVE FALSE
      OBVIOUS
    <3>1. r + 1 = n /\ (j - r) \in from..(Len(bytes) - n)
      BY <1>0
    <3> QED BY <2>1, <3>1 DEF FoundIn
  <2>3. Keeps(k, s) /\ At(k, s.state, r + 1, Less(s.remaining))
    BY <1>1, <2>2, KeywordIs
  <2>4a. Less(s.remaining) = n - (r + 1)
    BY <1>0, <2>2 DEF Less
  <2>4b. r + 1 < n /\ r + 1 <= (j + 1) - from /\ (j + 1) - (r + 1) = j - r
    <3>1. n \in Nat /\ r \in Nat /\ r < n /\ n - r # 1 /\ r <= j - from
      BY <1>0, <2>2
    <3> HIDE DEF n, r
    <3> QED BY <3>1
  <2>4. Less(s.remaining) = n - (r + 1) /\ r + 1 < n /\ r + 1 <= (j + 1) - from
        /\ (j + 1) - (r + 1) = j - r
    BY <2>4a, <2>4b
  <2>5. k.read = r + 1 /\ k.remaining = n - (r + 1) /\ k.state = s.state
    BY <2>3, <2>4 DEF At
  <2>6. \A i \in 1..k.read : bytes[((j + 1) - k.read) + i] = keyword[i]
    BY <2>1, <2>4, <2>5
  <2> QED BY <2>3, <2>4, <2>5, <2>6 DEF Seeks
<1>2. CASE ~Matches(keyword, r, b) /\ r # 0
  <2>1. Keeps(k, s) /\ At(k, s.state, 0, n)
    BY <1>2, KeywordIs
  <2>2. k.read = 0 /\ k.remaining = n - 0 /\ 0 <= (j + 1) - from /\ 0 < n
    BY <1>0, <2>1 DEF At
  <2>3. \A i \in 1..k.read : bytes[((j + 1) - k.read) + i] = keyword[i]
    BY <2>2
  <2> QED BY <2>1, <2>2, <2>3 DEF Seeks, At
<1>3. CASE ~Matches(keyword, r, b) /\ r = 0
  <2>1. Keeps(k, s) /\ k = s
    BY <1>3, KeywordIs
  <2>2. k.read = 0 /\ k.remaining = n - 0 /\ 0 <= (j + 1) - from /\ 0 < n
    BY <1>0, <1>3, <2>1
  <2>3. \A i \in 1..k.read : bytes[((j + 1) - k.read) + i] = keyword[i]
    BY <2>2
  <2> QED BY <2>1, <2>2, <2>3 DEF Seeks
<1> QED BY <1>1, <1>2, <1>3

(* The end of a line begins no keyword. *)
LEMMA SeeksEnd ==
  ASSUME NEW keyword, Word(keyword), NEW bytes, NEW j \in Nat, bytes[j] = Newline,
         NEW from, NEW s \in Rec, Seeks(s, keyword, bytes, j, from)
  PROVE  s.read = 0 /\ s.remaining = Len(keyword)
<1>0. s.read \in Nat /\ Len(keyword) \in Nat /\ s.remaining = Len(keyword) - s.read
      /\ s.read < Len(keyword)
  BY ByteIs DEF Rec, Word, Seeks
<1>1. ASSUME s.read # 0 PROVE FALSE
  <2>1. s.read \in 1..s.read /\ (j - s.read) + s.read = j
    BY <1>0, <1>1
  <2>2. bytes[j] = keyword[s.read]
    BY <2>1 DEF Seeks
  <2>3. keyword[s.read] \in Char
    BY <1>0, <1>1 DEF Word
  <2> QED BY <2>2, <2>3, Words
<1> QED BY <1>0, <1>1

(* A line without a keyword in its text, or behind its first bytes. *)
LEMMA NotFound ==
  ASSUME NEW w \in Seq(Char), NEW keyword, Word(keyword), NEW bytes, bytes = Line(w),
         ~Finds(keyword, w)
  PROVE  ~FoundIn(keyword, bytes, 0)
<1> DEFINE n == Len(keyword)
<1> SUFFICES ASSUME FoundIn(keyword, bytes, 0) PROVE Finds(keyword, w)
  OBVIOUS
<1>0a. /\ n \in Nat /\ n # 0 /\ Newline \notin Char /\ keyword[n] \in Char
  BY Words DEF Word
<1>0b. /\ Len(w) \in Nat /\ Len(bytes) = Len(w) + 1 /\ bytes[Len(w) + 1] = Newline
       /\ \A i \in 1..Len(w) : bytes[i] = w[i]
  BY LineIs
<1>0. /\ n \in Nat /\ n # 0 /\ Len(w) \in Nat /\ Newline \notin Char /\ keyword[n] \in Char
      /\ Len(bytes) = Len(w) + 1 /\ bytes[Len(w) + 1] = Newline
      /\ \A i \in 1..Len(w) : bytes[i] = w[i]
  BY <1>0a, <1>0b
<1>1. PICK at \in 0..(Len(bytes) - n) : \A i \in 1..n : bytes[at + i] = keyword[i]
  BY DEF FoundIn
<1>2. at \in Nat /\ at + n <= Len(w) + 1
  BY <1>0, <1>1
<1>3. at + n # Len(w) + 1
  <2>1. n \in 1..n
    BY <1>0
  <2>2. bytes[at + n] = keyword[n]
    BY <1>1, <2>1
  <2> QED BY <1>0, <2>2
<1>4. at \in 0..(Len(w) - n)
  BY <1>0, <1>2, <1>3
<1>5. ASSUME NEW i \in 1..n PROVE w[at + i] = keyword[i]
  <2>1. at + i \in 1..Len(w)
    BY <1>0, <1>4
  <2> QED BY <1>0, <1>1, <2>1
<1> QED BY <1>4, <1>5 DEF Finds

LEMMA NotFoundBehind ==
  ASSUME NEW first, Word(first), NEW t \in Seq(Char), NEW keyword, Word(keyword),
         NEW bytes, bytes = Line(first \o t), ~Finds(keyword, t)
  PROVE  ~FoundIn(keyword, bytes, Len(first))
<1> DEFINE n == Len(keyword)
           m == Len(first)
<1> SUFFICES ASSUME FoundIn(keyword, bytes, m) PROVE Finds(keyword, t)
  OBVIOUS
<1>0. /\ n \in Nat /\ n # 0 /\ m \in Nat /\ Newline \notin Char /\ keyword[n] \in Char
  BY Words DEF Word
<1>1. /\ Len(t) \in Nat /\ Len(bytes) = (m + Len(t)) + 1 /\ bytes[(m + Len(t)) + 1] = Newline
      /\ \A i \in 1..Len(t) : bytes[m + i] = t[i]
  BY SpeechIs
<1>2. PICK at \in m..(Len(bytes) - n) : \A i \in 1..n : bytes[at + i] = keyword[i]
  BY DEF FoundIn
<1>3. at \in Nat /\ m <= at /\ at + n <= (m + Len(t)) + 1
  BY <1>0, <1>1, <1>2
<1>4. at + n # (m + Len(t)) + 1
  <2>1. n \in 1..n
    BY <1>0
  <2>2. bytes[at + n] = keyword[n]
    BY <1>2, <2>1
  <2> QED BY <1>0, <1>1, <2>2
<1> DEFINE to == at - m
<1>5. to \in 0..(Len(t) - n)
  BY <1>0, <1>1, <1>3, <1>4
<1>6. ASSUME NEW i \in 1..n PROVE t[to + i] = keyword[i]
  <2>1. to + i \in 1..Len(t) /\ m + (to + i) = at + i
    BY <1>0, <1>1, <1>5
  <2> HIDE DEF to
  <2> QED BY <1>1, <1>2, <2>1
<1> HIDE DEF to
<1> QED BY <1>5, <1>6 DEF Finds

LEMMA SeekingStep ==
  ASSUME NEW u, NEW bytes, Len(bytes) \in Nat, ~FoundIn(PASS, bytes, 0),
         NEW j \in Nat, j < Len(bytes),
         NEW s, Typed(s), Seeking(s, u, bytes, j), NEW k, k = Step(s, bytes[j + 1])
  PROVE  Seeking(k, u, bytes, j + 1)
<1>0. Word(PASS) /\ s \in Rec /\ "read_password" \in States
  BY Words DEF Typed, States
<1>1. s.state = "password" /\ s.username = Cut(u) /\ Seeks(s, PASS, bytes, j, 0)
  BY DEF Seeking
<1>2. k = Keyword(s, bytes[j + 1], PASS, "read_password")
  BY <1>1, StepOf DEF Password
<1>3. 0 \in Nat /\ 0 <= j
  OBVIOUS
<1>4. Keeps(k, s) /\ k.state = s.state /\ Seeks(k, PASS, bytes, j + 1, 0)
  BY <1>0, <1>1, <1>2, <1>3, SeeksStep
<1> QED BY <1>1, <1>4 DEF Seeking, Keeps

(* The end of a line is no byte of a keyword. *)
LEMMA NewlineApart ==
  ASSUME NEW keyword, Word(keyword), NEW n \in Nat
  PROVE  ~Matches(keyword, n, Newline)
<1> SUFFICES ASSUME Matches(keyword, n, Newline) PROVE FALSE
  OBVIOUS
<1>1. n + 1 \in 1..Len(keyword) /\ keyword[n + 1] = Newline
  BY DEF Matches, Word
<1>2. keyword[n + 1] \in Char
  BY <1>1 DEF Word
<1> QED BY <1>1, <1>2, Words

LEMMA LooksStep ==
  ASSUME NEW w \in Seq(Char), NEW bytes, bytes = Line(w), ~FoundIn(USER, bytes, 0),
         NEW j \in Nat, j < Len(bytes),
         NEW s, Typed(s), Looks(s, bytes, j), NEW k, k = Step(s, bytes[j + 1])
  PROVE  Looks(k, bytes, j + 1)
<1> DEFINE lu == Len(USER)
           b == bytes[j + 1]
<1>0. /\ Word(USER) /\ s \in Rec /\ "read_user" \in States /\ s.read \in Nat /\ s.remaining \in Nat
      /\ s.remaining <= 255 /\ lu \in Nat /\ lu # 0 /\ lu <= 255
  BY Words, ByteIs DEF Word, Typed, Rec, States
<1>1. Len(w) \in Nat /\ Len(bytes) = Len(w) + 1 /\ bytes[Len(w) + 1] = Newline /\ Len(bytes) \in Nat
  BY LineIs
<1>2. s.state = "user" /\ j # Len(bytes)
  BY <1>1 DEF Looks
<1>3. k = Keyword(s, b, USER, "read_user")
  BY <1>2, StepOf DEF User
<1>4. CASE j = Len(w)
  <2>1. ~Matches(USER, s.read, b)
    BY <1>0, <1>1, <1>4, NewlineApart
  <2>2. j + 1 = Len(bytes)
    BY <1>1, <1>4
  <2>3. Expects(k)
    <3>1. CASE s.read = 0
      <4>1. k = s
        BY <1>0, <1>3, <2>1, <3>1, KeywordIs
      <4>2. s.remaining \in {0, lu}
        BY <1>0, <1>2, <3>1 DEF Looks, Seeks
      <4> QED BY <1>2, <3>1, <4>1, <4>2 DEF Expects
    <3>2. CASE s.read # 0
      <4>1. At(k, s.state, 0, lu)
        BY <1>0, <1>3, <2>1, <3>2, KeywordIs
      <4> QED BY <1>2, <4>1 DEF Expects, At
    <3> QED BY <3>1, <3>2
  <2> QED BY <2>2, <2>3 DEF Looks, Expects
<1>5. CASE j # Len(w)
  <2>1. j + 1 # Len(bytes)
    BY <1>1, <1>5
  <2>2. CASE Seeks(s, USER, bytes, j, 0)
    <3>1. 0 \in Nat /\ 0 <= j
      OBVIOUS
    <3>2. k.state = s.state /\ Seeks(k, USER, bytes, j + 1, 0)
      BY <1>0, <1>1, <1>3, <2>2, <3>1, SeeksStep
    <3> QED BY <1>2, <2>1, <3>2 DEF Looks
  <2>3. CASE s.remaining = 0 \/ 256 - s.remaining <= s.read
    <3>1. CASE Matches(USER, s.read, b)
      <4>1. s.read < lu
        BY <3>1 DEF Matches
      <4>2. s.remaining # 1
        BY <1>0, <2>3, <4>1
      <4>3. At(k, "user", s.read + 1, Less(s.remaining))
        BY <1>0, <1>2, <1>3, <3>1, <4>2, KeywordIs
      <4>4. 256 - Less(s.remaining) <= s.read + 1
        BY <1>0, <2>3, <4>1, <4>2 DEF Less
      <4> QED BY <2>1, <4>3, <4>4 DEF Looks, At
    <3>2. CASE ~Matches(USER, s.read, b) /\ s.read # 0
      <4>1. At(k, "user", 0, lu)
        BY <1>0, <1>2, <1>3, <3>2, KeywordIs
      <4>2. k.read = 0 /\ k.remaining = lu - 0 /\ 0 < lu /\ 0 <= (j + 1) - 0
        BY <1>0, <4>1 DEF At
      <4>3. \A i \in 1..k.read : bytes[((j + 1) - k.read) + i] = USER[i]
        BY <4>2
      <4>4. Seeks(k, USER, bytes, j + 1, 0)
        BY <4>2, <4>3 DEF Seeks
      <4> QED BY <2>1, <4>1, <4>4 DEF Looks, At
    <3>3. CASE ~Matches(USER, s.read, b) /\ s.read = 0
      <4>1. k = s
        BY <1>0, <1>3, <3>3, KeywordIs
      <4>2. s.remaining = 0
        BY <1>0, <2>3, <3>3
      <4> QED BY <1>2, <2>1, <4>1, <4>2 DEF Looks
    <3> QED BY <3>1, <3>2, <3>3
  <2> QED BY <1>1, <1>2, <2>2, <2>3 DEF Looks
<1> QED BY <1>4, <1>5

(* A line that is about to be looked at. *)
LEMMA LooksAt ==
  ASSUME NEW s, s.state = "user", s.read = 0, s.remaining \in {0, Len(USER)},
         NEW bytes, NEW j \in Nat
  PROVE  Looks(s, bytes, j)
<1>0. Len(USER) \in Nat /\ Len(USER) # 0
  BY Words DEF Word
<1>1. CASE s.remaining = 0
  BY <1>1 DEF Looks, Expects
<1>2. CASE s.remaining = Len(USER)
  <2>1. 0 < Len(USER) /\ s.remaining = Len(USER) - s.read /\ s.read <= j - 0
    BY <1>0, <1>2
  <2>2. \A i \in 1..s.read : bytes[(j - s.read) + i] = USER[i]
    OBVIOUS
  <2>3. Seeks(s, USER, bytes, j, 0)
    BY <2>1, <2>2 DEF Seeks
  <2> QED BY <2>3 DEF Looks, Expects
<1> QED BY <1>1, <1>2

LEMMA NoShare ==
  \A i \in 1..Len(ERR), n \in Nat : ~Matches(OK, n, ERR[i])
<1> SUFFICES ASSUME NEW i \in 1..Len(ERR), NEW n \in Nat, Matches(OK, n, ERR[i]) PROVE FALSE
  OBVIOUS
<1>1. Word(OK)
  BY Words
<1>2. n + 1 \in 1..Len(OK) /\ OK[n + 1] = ERR[i]
  BY <1>1 DEF Matches, Word
<1> QED BY <1>2, AnswersApart

LEMMA GreetedStep ==
  ASSUME NEW r \in Seq(Char), NEW bytes, bytes = Line(OK \o r), ~FoundIn(USER, bytes, 0),
         NEW j \in Nat, j < Len(bytes),
         NEW s, Typed(s), Greeted(s, bytes, j), NEW k, k = Step(s, bytes[j + 1])
  PROVE  Greeted(k, bytes, j + 1)
<1> DEFINE lo == Len(OK)
           b == bytes[j + 1]
<1>0. Word(OK) /\ lo \in Nat /\ lo # 0 /\ OK \o r \in Seq(Char)
  BY Words DEF Word
<1>1. CASE j < lo
  <2>1. s.state = "initial" /\ s.read = j /\ s.remaining = lo - j
    BY <1>1 DEF Greeted, At
  <2>2. b = OK[j + 1]
    <3>1. j + 1 \in 1..lo
      BY <1>0, <1>1
    <3> QED BY <1>0, <3>1, SpeechIs
  <2>3. Matches(OK, s.read, b) /\ k = Ok(s, b)
    BY <1>1, <2>1, <2>2, StepOf DEF Matches
  <2>4. IF s.remaining = 1 THEN At(k, "user", 0, Len(USER))
        ELSE At(k, "initial", s.read + 1, Less(s.remaining))
    BY <2>1, <2>3, OkIs
  <2> HIDE DEF lo, b
  <2>5. CASE s.remaining # 1
    <3>1. Less(s.remaining) = lo - (j + 1) /\ j + 1 < lo
      BY <1>0, <1>1, <2>1, <2>5 DEF Less
    <3> QED BY <2>1, <2>4, <2>5, <3>1 DEF Greeted, lo
  <2>6. CASE s.remaining = 1
    <3>1. ~(j + 1 < lo) /\ j + 1 \in Nat
      BY <1>0, <1>1, <2>1, <2>6
    <3>2. Looks(k, bytes, j + 1)
      BY <2>4, <2>6, <3>1, LooksAt DEF At
    <3> QED BY <3>1, <3>2 DEF Greeted, lo
  <2> QED BY <2>5, <2>6
<1>2. CASE j >= lo
  <2>1. Looks(s, bytes, j) /\ ~(j + 1 < lo)
    BY <1>0, <1>2 DEF Greeted
  <2>2. Looks(k, bytes, j + 1)
    BY <1>0, <2>1, LooksStep
  <2> QED BY <2>1, <2>2 DEF Greeted
<1> QED BY <1>0, <1>1, <1>2

LEMMA OverrunStep ==
  ASSUME NEW u \in Texts, NEW bytes, bytes = Line(USER \o u),
         NEW j \in Nat, j < Len(bytes),
         ~Finds(USER, u),
         NEW s, Typed(s), Overrun(s, u, j), NEW k, k = Step(s, bytes[j + 1])
  PROVE  Overrun(k, u, j + 1)
<1> DEFINE lu == Len(USER)
<1>0. /\ Word(USER) /\ u \in Seq(Char) /\ s \in Rec /\ "read_user" \in States
      /\ lu \in Nat /\ lu # 0 /\ lu <= 255
  BY Words DEF Typed, States, Word
<1>1. Len(bytes) \in Nat
  BY <1>0, SpeechIs DEF Word
<1>2. ~FoundIn(USER, bytes, lu)
  BY <1>0, NotFoundBehind
<1>3. s.state = "user"
  BY DEF Overrun, At
<1>4. k = Keyword(s, bytes[j + 1], USER, "read_user")
  BY <1>3, StepOf DEF User
<1>5. CASE j < lu
  <2>1. s.read = j /\ s.remaining = IF j = 0 THEN 0 ELSE 256 - j
    BY <1>0, <1>5 DEF Overrun, At
  <2>2. bytes[j + 1] = USER[j + 1]
    <3>1. j + 1 \in 1..lu
      BY <1>0, <1>5
    <3> QED BY <1>0, <3>1, SpeechIs
  <2>3. Matches(USER, s.read, bytes[j + 1])
    BY <1>5, <2>1, <2>2 DEF Matches
  <2>4. s.remaining # 1 /\ Less(s.remaining) = 256 - (j + 1)
    BY <1>0, <1>5, <2>1 DEF Less
  <2>5. At(k, "user", j + 1, 256 - (j + 1))
    BY <1>0, <1>3, <1>4, <2>1, <2>3, <2>4, KeywordIs
  <2>6. j + 1 <= lu /\ j + 1 # 0
    BY <1>0, <1>5
  <2> QED BY <2>5, <2>6 DEF Overrun
<1>6. CASE j = lu
  <2>1. s.read = lu
    BY <1>0, <1>6 DEF Overrun, At
  <2>2. ~Matches(USER, s.read, bytes[j + 1])
    BY <1>0, <2>1 DEF Matches
  <2>3. At(k, "user", 0, lu)
    BY <1>0, <1>3, <1>4, <2>1, <2>2, KeywordIs
  <2>4. k.read = 0 /\ k.remaining = lu - 0 /\ 0 <= (j + 1) - lu /\ 0 < lu
    BY <1>0, <1>6, <2>3 DEF At
  <2>5. \A i \in 1..k.read : bytes[((j + 1) - k.read) + i] = USER[i]
    BY <2>4
  <2>6. Seeks(k, USER, bytes, j + 1, lu)
    BY <2>4, <2>5 DEF Seeks
  <2>7. ~(j + 1 <= lu)
    BY <1>0, <1>6
  <2> QED BY <2>3, <2>6, <2>7 DEF Overrun, At
<1>7. CASE j > lu
  <2>1. Seeks(s, USER, bytes, j, lu)
    BY <1>0, <1>7 DEF Overrun
  <2>2. lu <= j
    BY <1>0, <1>7
  <2>3. k.state = s.state /\ Seeks(k, USER, bytes, j + 1, lu)
    BY <1>0, <1>1, <1>2, <1>4, <2>1, <2>2, SeeksStep
  <2>4. ~(j + 1 <= lu)
    BY <1>0, <1>7
  <2> QED BY <1>3, <2>3, <2>4 DEF Overrun
<1> QED BY <1>0, <1>5, <1>6, <1>7

(* Bytes in their order among others. *)
LEMMA AmongNone ==
  ASSUME NEW keyword, NEW bytes, NEW j \in Nat
  PROVE  Among(keyword, 0, bytes, j)
<1> DEFINE at == [i \in 1..0 |-> 1]
<1>1. at \in [1..0 -> 1..j]
  OBVIOUS
<1>2. /\ \A i \in 1..0 : bytes[at[i]] = keyword[i]
      /\ \A i \in 1..(0 - 1) : at[i] < at[i + 1]
  OBVIOUS
<1> QED BY <1>1, <1>2 DEF Among

LEMMA AmongLater ==
  ASSUME NEW keyword, NEW n \in Nat, NEW bytes, NEW j \in Nat, Among(keyword, n, bytes, j)
  PROVE  Among(keyword, n, bytes, j + 1)
<1>1. PICK at \in [1..n -> 1..j] :
        /\ \A i \in 1..n : bytes[at[i]] = keyword[i]
        /\ \A i \in 1..(n - 1) : at[i] < at[i + 1]
  BY DEF Among
<1>2. at \in [1..n -> 1..(j + 1)]
  <2>1. \A i \in 1..n : at[i] \in 1..(j + 1)
    OBVIOUS
  <2> QED BY <2>1
<1> QED BY <1>1, <1>2 DEF Among

LEMMA AmongMore ==
  ASSUME NEW keyword, NEW n \in Nat, NEW bytes, NEW j \in Nat, Among(keyword, n, bytes, j),
         bytes[j + 1] = keyword[n + 1]
  PROVE  Among(keyword, n + 1, bytes, j + 1)
<1>1. PICK at \in [1..n -> 1..j] :
        /\ \A i \in 1..n : bytes[at[i]] = keyword[i]
        /\ \A i \in 1..(n - 1) : at[i] < at[i + 1]
  BY DEF Among
<1> DEFINE to == [i \in 1..(n + 1) |-> IF i = n + 1 THEN j + 1 ELSE at[i]]
<1>2. \A i \in 1..n : at[i] \in 1..j
  OBVIOUS
<1>3. \A i \in 1..(n + 1) : to[i] = IF i = n + 1 THEN j + 1 ELSE at[i]
  OBVIOUS
<1>4. to \in [1..(n + 1) -> 1..(j + 1)]
  <2>1. \A i \in 1..(n + 1) : to[i] \in 1..(j + 1)
    BY <1>2, <1>3
  <2> QED BY <2>1
<1> HIDE DEF to
<1>5. \A i \in 1..(n + 1) : bytes[to[i]] = keyword[i]
  <2>1. SUFFICES ASSUME NEW i \in 1..(n + 1) PROVE bytes[to[i]] = keyword[i]
    OBVIOUS
  <2>2. CASE i = n + 1
    BY <1>3, <2>2
  <2>3. CASE i # n + 1
    <3>1. i \in 1..n /\ to[i] = at[i]
      BY <1>3, <2>3
    <3> QED BY <1>1, <3>1
  <2> QED BY <2>2, <2>3
<1>6. \A i \in 1..((n + 1) - 1) : to[i] < to[i + 1]
  <2>0. (n + 1) - 1 = n
    OBVIOUS
  <2>1. SUFFICES ASSUME NEW i \in 1..n PROVE to[i] < to[i + 1]
    BY <2>0, Zenon
  <2>2a. i \in 1..(n + 1) /\ i # n + 1 /\ i + 1 \in 1..(n + 1)
    OBVIOUS
  <2>2. to[i] = at[i] /\ at[i] \in 1..j /\ i + 1 \in 1..(n + 1)
    BY <1>2, <1>3, <2>2a, Zenon
  <2>3. CASE i = n
    <3>1. to[i + 1] = j + 1
      BY <1>3, <2>2, <2>3
    <3> QED BY <2>2, <3>1
  <2>4. CASE i # n
    <3>1. to[i + 1] = at[i + 1] /\ i \in 1..(n - 1)
      BY <1>3, <2>2, <2>4
    <3> QED BY <1>1, <2>2, <3>1
  <2> QED BY <2>3, <2>4
<1> QED BY <1>4, <1>5, <1>6 DEF Among

LEMMA AmongAll ==
  ASSUME NEW keyword, NEW bytes, NEW j \in Nat, Len(bytes) \in Nat, j <= Len(bytes),
         Among(keyword, Len(keyword), bytes, j)
  PROVE  Spells(keyword, bytes)
<1>1. PICK at \in [1..Len(keyword) -> 1..j] :
        /\ \A i \in 1..Len(keyword) : bytes[at[i]] = keyword[i]
        /\ \A i \in 1..(Len(keyword) - 1) : at[i] < at[i + 1]
  BY DEF Among
<1>2. at \in [1..Len(keyword) -> 1..Len(bytes)]
  <2>1. \A i \in 1..Len(keyword) : at[i] \in 1..Len(bytes)
    OBVIOUS
  <2> QED BY <2>1
<1> QED BY <1>1, <1>2 DEF Spells

LEMMA JudgingStep ==
  ASSUME NEW u, NEW p \in Texts, NEW bytes, bytes = Line(PASS \o p),
         PlainPassword(p), NEW j \in Nat, j < Len(bytes),
         NEW s, Typed(s), Judging(s, u, p, j), NEW k, k = Step(s, bytes[j + 1])
  PROVE  Judging(k, u, p, j + 1)
<1> DEFINE b == bytes[j + 1]
           r == s.read
           c == s.check_read
<1>0. /\ Word(OK) /\ Word(ERR) /\ Len(OK) \in Nat /\ Len(ERR) \in Nat
      /\ r \in Nat /\ c \in Nat
  BY Words, ByteIs DEF Word, Typed, Rec
<1>1. Len(bytes) \in Nat
  <2>1. Word(PASS) /\ p \in Seq(Char)
    BY Words
  <2> QED BY <2>1, SpeechIs DEF Word
<1>2. ~Spells(OK, bytes) /\ ~Spells(ERR, bytes)
  BY DEF PlainPassword
<1>3. /\ s.state = "check_password" /\ s.remaining = 0 /\ Logged(s, u, p)
      /\ r < Len(OK) /\ Among(OK, r, bytes, j)
      /\ c < Len(ERR) /\ Among(ERR, c, bytes, j)
  BY DEF Judging
<1>4. k = CheckPassword(s, b)
  BY <1>3, StepOf
<1>5. k.username = s.username /\ k.passwd = s.passwd /\ k.remaining = s.remaining
  BY <1>3, <1>4, CheckPasswordIs
<1>6. k.remaining = 0 /\ Logged(k, u, p)
  BY <1>3, <1>5 DEF Logged
<1>7. Among(OK, r, bytes, j + 1) /\ Among(ERR, c, bytes, j + 1)
  BY <1>0, <1>3, AmongLater
<1>8. j + 1 <= Len(bytes) /\ j + 1 \in Nat
  BY <1>1
<1>9. CASE Matches(OK, r, b)
  <2>1. /\ k.read = r + 1 /\ k.check_read = c
        /\ k.state = IF r + 1 = Len(OK) THEN "ok" ELSE "check_password"
    BY <1>3, <1>4, <1>9, CheckPasswordIs
  <2>2. Among(OK, r + 1, bytes, j + 1)
    BY <1>0, <1>3, <1>9, AmongMore DEF Matches
  <2>3. r + 1 # Len(OK)
    BY <1>1, <1>2, <1>8, <2>2, AmongAll
  <2>4. r + 1 < Len(OK)
    BY <1>0, <1>3, <2>3
  <2> QED BY <1>3, <1>6, <1>7, <2>1, <2>2, <2>3, <2>4 DEF Judging
<1>10. CASE ~Matches(OK, r, b) /\ Matches(ERR, c, b)
  <2>1. /\ k.read = r /\ k.check_read = c + 1
        /\ k.state = IF c + 1 = Len(ERR) THEN "user" ELSE "check_password"
    BY <1>3, <1>4, <1>10, CheckPasswordIs
  <2>2. Among(ERR, c + 1, bytes, j + 1)
    BY <1>0, <1>3, <1>10, AmongMore DEF Matches
  <2>3. c + 1 # Len(ERR)
    BY <1>1, <1>2, <1>8, <2>2, AmongAll
  <2>4. c + 1 < Len(ERR)
    BY <1>0, <1>3, <2>3
  <2> QED BY <1>3, <1>6, <1>7, <2>1, <2>2, <2>3, <2>4 DEF Judging
<1>11. CASE ~Matches(OK, r, b) /\ ~Matches(ERR, c, b)
  <2>1. k = s
    BY <1>3, <1>4, <1>11, CheckPasswordIs
  <2> QED BY <1>3, <1>7, <2>1 DEF Judging
<1> QED BY <1>9, <1>10, <1>11

LEMMA AcceptingStep ==
  ASSUME NEW u, NEW p, NEW t \in Seq(Char), NEW bytes, bytes = Line(OK \o t), NEW j \in Nat, j < Len(bytes),
         NEW s, Typed(s), Accepting(s, u, p, j), NEW k, k = Step(s, bytes[j + 1])
  PROVE  Accepting(k, u, p, j + 1)
<1> DEFINE b == bytes[j + 1]
           lo == Len(OK)
           r == s.read
           c == s.check_read
<1>0. lo \in Nat /\ Word(ERR) /\ Len(ERR) \in Nat /\ r \in Nat /\ c \in Nat /\ Logged(s, u, p)
  BY Words, ByteIs DEF Word, Typed, Rec, Accepting
<1>1. CASE s.state = "ok"
  <2>1. k = s
    BY <1>1, StepOf DEF IsDone
  <2> QED BY <1>0, <1>1, <2>1 DEF Accepting
<1>2. CASE s.state # "ok"
  <2>1. s.state = "check_password" /\ j < lo /\ j <= r /\ r < lo
    BY <1>2 DEF Accepting
  <2>2. b = OK[j + 1]
    <3>1. j + 1 \in 1..lo
      BY <1>0, <2>1
    <3> QED BY <3>1, Words, SpeechIs
  <2>3. k = CheckPassword(s, b)
    BY <2>1, StepOf
  <2>4. k.username = s.username /\ k.passwd = s.passwd
    BY <2>1, <2>3, CheckPasswordIs
  <2>5. Logged(k, u, p)
    BY <1>0, <2>4 DEF Logged
  <2>6. CASE Matches(OK, r, b)
    <3>1. /\ k.read = r + 1
          /\ k.state = IF r + 1 = lo THEN "ok" ELSE "check_password"
      BY <2>1, <2>3, <2>6, CheckPasswordIs
    <3>2. CASE r + 1 = lo
      BY <2>5, <3>1, <3>2 DEF Accepting
    <3>3. CASE r + 1 # lo
      <4>1. j + 1 < lo /\ j + 1 <= r + 1 /\ r + 1 < lo
        BY <1>0, <2>1, <3>3
      <4> QED BY <2>5, <3>1, <3>3, <4>1 DEF Accepting
    <3> QED BY <3>2, <3>3
  <2>7. CASE ~Matches(OK, r, b)
    <3>1. r # j
      BY <2>1, <2>2, <2>7 DEF Matches
    <3>2. ~Matches(ERR, c, b)
      <4> SUFFICES ASSUME Matches(ERR, c, b) PROVE FALSE
        OBVIOUS
      <4>1. c + 1 \in 1..Len(ERR) /\ ERR[c + 1] = OK[j + 1]
        BY <1>0, <2>2 DEF Matches
      <4>2. Matches(OK, j, ERR[c + 1])
        BY <2>1, <4>1 DEF Matches
      <4> QED BY <4>1, <4>2, NoShare
    <3>3. k = s
      BY <2>1, <2>3, <2>7, <3>2, CheckPasswordIs
    <3>4. j + 1 < lo /\ j + 1 <= r
      BY <1>0, <2>1, <3>1
    <3> QED BY <1>0, <2>1, <3>3, <3>4 DEF Accepting
  <2> QED BY <2>6, <2>7
<1> QED BY <1>1, <1>2

LEMMA RefusingStep ==
  ASSUME NEW t \in Seq(Char), NEW bytes, bytes = Line(ERR \o t), ~FoundIn(USER, bytes, 0),
         NEW j \in Nat, j < Len(bytes),
         NEW s, Typed(s), Refusing(s, bytes, j), NEW k, k = Step(s, bytes[j + 1])
  PROVE  Refusing(k, bytes, j + 1)
<1> DEFINE b == bytes[j + 1]
           le == Len(ERR)
           c == s.check_read
<1>0. Word(ERR) /\ le \in Nat /\ c \in Nat /\ s.read \in Nat /\ ERR \o t \in Seq(Char)
  BY Words, ByteIs DEF Word, Typed, Rec
<1>1. Len(bytes) = (le + Len(t)) + 1 /\ Len(t) \in Nat /\ \A i \in 1..le : bytes[i] = ERR[i]
  BY <1>0, SpeechIs
<1>2. CASE Looks(s, bytes, j)
  <2>1. Looks(k, bytes, j + 1)
    BY <1>0, <1>2, LooksStep
  <2> QED BY <2>1 DEF Refusing
<1>3. CASE ~Looks(s, bytes, j)
  <2>1. s.state = "check_password" /\ s.remaining = 0 /\ j <= c /\ c < le
    BY <1>3 DEF Refusing
  <2>2. j + 1 \in 1..le
    BY <1>0, <2>1
  <2>3. b = ERR[j + 1] /\ ~Matches(OK, s.read, b)
    BY <1>0, <1>1, <2>2, NoShare
  <2>4. k = CheckPassword(s, b)
    BY <2>1, StepOf
  <2>5. CASE Matches(ERR, c, b)
    <3>1. /\ k.read = s.read /\ k.check_read = c + 1 /\ k.remaining = 0
          /\ k.state = IF c + 1 = le THEN "user" ELSE "check_password"
      BY <2>1, <2>3, <2>4, <2>5, CheckPasswordIs
    <3>2. CASE c + 1 = le
      <4>1. j + 1 # Len(bytes)
        BY <1>0, <1>1, <2>2
      <4> QED BY <3>1, <3>2, <4>1 DEF Refusing, Looks
    <3>3. CASE c + 1 # le
      <4>1. j + 1 <= c + 1 /\ c + 1 < le
        BY <1>0, <2>1, <3>3
      <4> QED BY <3>1, <3>3, <4>1 DEF Refusing
    <3> QED BY <3>2, <3>3
  <2>6. CASE ~Matches(ERR, c, b)
    <3>1. c # j
      BY <2>1, <2>3, <2>6 DEF Matches
    <3>2. k = s
      BY <2>1, <2>3, <2>4, <2>6, CheckPasswordIs
    <3>3. j + 1 <= c
      BY <1>0, <2>1, <3>1
    <3> QED BY <2>1, <3>2, <3>3 DEF Refusing
  <2> QED BY <2>5, <2>6
<1> QED BY <1>2, <1>3

LEMMA SpentStep ==
  ASSUME NEW bytes, Len(bytes) \in Nat, ~FoundIn(USER, bytes, 0), NEW j \in Nat, j < Len(bytes),
         NEW s, Typed(s), Spent(s, bytes, j), s.state # "ok", NEW k, k = Step(s, bytes[j + 1])
  PROVE  Spent(k, bytes, j + 1) /\ k.state # "ok"
<1> DEFINE b == bytes[j + 1]
<1>0. /\ Word(USER) /\ Len(USER) \in Nat /\ Len(USER) # 0 /\ "read_user" \in States /\ s \in Rec
  BY Words DEF Word, States, Typed
<1>1. CASE s.state = "initial"
  <2>1. k = Ok(s, b)
    BY <1>1, StepOf
  <2>2. CASE Matches(OK, s.read, b) /\ s.remaining = 1
    <3>1. At(k, "user", 0, Len(USER))
      BY <1>1, <2>1, <2>2, OkIs
    <3>2. k.read = 0 /\ k.remaining = Len(USER) - 0 /\ 0 < Len(USER) /\ 0 <= (j + 1) - 0
      BY <1>0, <3>1 DEF At
    <3>3. \A i \in 1..k.read : bytes[((j + 1) - k.read) + i] = USER[i]
      BY <3>2
    <3>4. Seeks(k, USER, bytes, j + 1, 0)
      BY <3>2, <3>3 DEF Seeks
    <3> QED BY <3>1, <3>4 DEF Spent, At
  <2>3. CASE Matches(OK, s.read, b) /\ s.remaining # 1
    <3>1. At(k, "initial", s.read + 1, Less(s.remaining))
      BY <1>1, <2>1, <2>3, OkIs
    <3> QED BY <3>1 DEF Spent, Done, At
  <2>4. CASE ~Matches(OK, s.read, b)
    <3>1. k.state = "err"
      BY <1>1, <2>1, <2>4, OkIs
    <3> QED BY <3>1 DEF Spent, Done
  <2> QED BY <2>2, <2>3, <2>4
<1>2. CASE s.state = "err"
  <2>1. k = s
    BY <1>2, StepOf DEF IsDone
  <2> QED BY <1>2, <2>1 DEF Spent, Done
<1>3. CASE s.state = "user"
  <2>1. Seeks(s, USER, bytes, j, 0)
    BY <1>3 DEF Spent, Done
  <2>2. k = Keyword(s, b, USER, "read_user")
    BY <1>3, StepOf DEF User
  <2>3. 0 \in Nat /\ 0 <= j
    OBVIOUS
  <2>4. k.state = s.state /\ Seeks(k, USER, bytes, j + 1, 0)
    BY <1>0, <2>1, <2>2, <2>3, SeeksStep
  <2> QED BY <1>3, <2>4 DEF Spent
<1> QED BY <1>1, <1>2, <1>3 DEF Spent, Done

-----------------------------------------------------------------------------
(* Each line, piece by piece. *)
Bytes == Char \cup {Newline}

LEMMA PieceFollowed ==
  ASSUME NEW l \in Seq(Bytes), NEW from \in Nat, NEW n \in Nat, from + n <= Len(l),
         NEW P, NEW s \in P[from],
         \A j \in from..(from + n - 1) : \A r \in P[j] : Step(r, l[j + 1]) \in P[j + 1]
  PROVE  Consumed(s, SubSeq(l, from + 1, from + n)) \in P[from + n]
<1> DEFINE piece == SubSeq(l, from + 1, from + n)
<1>1. Len(piece) = n /\ \A i \in 1..n : piece[i] = l[from + i]
  OBVIOUS
<1> HIDE DEF piece
<1>2. Consumed(s, piece) \in P[from + n]
  BY <1>1, Followed
<1> QED BY <1>2 DEF piece

LEMMA PieceTyped ==
  ASSUME NEW l \in Seq(Bytes), NEW from \in Nat, NEW n \in Nat, from + n <= Len(l),
         NEW s, Typed(s)
  PROVE  Typed(Consumed(s, SubSeq(l, from + 1, from + n)))
<1> DEFINE P == [j \in 0..Len(l) |-> {r \in Rec : Typed(r)}]
<1>0. Len(l) \in Nat
  OBVIOUS
<1>1. s \in P[from]
  BY <1>0 DEF Typed
<1>2. ASSUME NEW j \in from..(from + n - 1), NEW r \in P[j]
      PROVE  Step(r, l[j + 1]) \in P[j + 1]
  <2>1. j \in 0..Len(l) /\ j + 1 \in 0..Len(l) /\ j + 1 \in 1..Len(l)
    BY <1>0
  <2>2. Typed(r)
    BY <2>1
  <2>3. l[j + 1] \in Char \/ l[j + 1] = Newline
    BY <2>1 DEF Bytes
  <2>4. Typed(Step(r, l[j + 1]))
    BY <2>2, <2>3, StepTyped
  <2> QED BY <2>1, <2>4 DEF Typed
<1>3. from + n \in 0..Len(l)
  BY <1>0
<1> DEFINE end == Consumed(s, SubSeq(l, from + 1, from + n))
<1>4. end \in P[from + n]
  <2> HIDE DEF P
  <2> QED BY <1>1, <1>2, PieceFollowed
<1> HIDE DEF end
<1>5. Typed(end)
  BY <1>3, <1>4
<1> QED BY <1>5 DEF end

(* The same for states of the sniffer that keep within its fields. *)
LEMMA TypedPieceFollowed ==
  ASSUME NEW l \in Seq(Bytes), NEW from \in Nat, NEW n \in Nat, from + n <= Len(l),
         NEW Q, NEW s, Typed(s), s \in Q[from],
         \A j \in from..(from + n - 1) : \A r \in Q[j] :
           Typed(r) /\ Typed(Step(r, l[j + 1])) => Step(r, l[j + 1]) \in Q[j + 1]
  PROVE  Consumed(s, SubSeq(l, from + 1, from + n)) \in Q[from + n]
<1> DEFINE P == [j \in 0..Len(l) |-> {r \in Rec : Typed(r) /\ r \in Q[j]}]
<1>0. Len(l) \in Nat
  OBVIOUS
<1>1. s \in P[from]
  BY <1>0 DEF Typed
<1>2. ASSUME NEW j \in from..(from + n - 1), NEW r \in P[j]
      PROVE  Step(r, l[j + 1]) \in P[j + 1]
  <2>1. j \in 0..Len(l) /\ j + 1 \in 0..Len(l) /\ j + 1 \in 1..Len(l)
    BY <1>0
  <2>2. Typed(r) /\ r \in Q[j]
    BY <2>1
  <2>3. l[j + 1] \in Char \/ l[j + 1] = Newline
    BY <2>1 DEF Bytes
  <2> DEFINE k == Step(r, l[j + 1])
  <2>4. Typed(k)
    BY <2>2, <2>3, StepTyped
  <2>5. k \in Q[j + 1]
    BY <2>2, <2>4
  <2> HIDE DEF k
  <2>6. k \in P[j + 1]
    BY <2>1, <2>4, <2>5 DEF Typed
  <2> QED BY <2>6 DEF k
<1>3. from + n \in 0..Len(l)
  BY <1>0
<1> DEFINE end == Consumed(s, SubSeq(l, from + 1, from + n))
<1>4. end \in P[from + n]
  <2> HIDE DEF P
  <2> QED BY <1>1, <1>2, PieceFollowed
<1> HIDE DEF end
<1>5. end \in Q[from + n]
  BY <1>3, <1>4
<1> QED BY <1>5 DEF end

LEMMA PieceLooks ==
  ASSUME NEW w \in Seq(Char), NEW l \in Seq(Bytes), l = Line(w), ~FoundIn(USER, l, 0),
         NEW from \in Nat, NEW n \in Nat, from + n <= Len(l), NEW s, Typed(s), Looks(s, l, from),
         NEW end, end = Consumed(s, SubSeq(l, from + 1, from + n))
  PROVE  Looks(end, l, from + n)
<1> DEFINE Q == [j \in 0..Len(l) |-> {r \in Rec : Looks(r, l, j)}]
<1>0. Len(l) \in Nat
  OBVIOUS
<1>1. s \in Q[from]
  BY <1>0 DEF Typed
<1>2. ASSUME NEW j \in from..(from + n - 1), NEW r \in Q[j], Typed(r),
             NEW k, k = Step(r, l[j + 1]), Typed(k)
      PROVE  k \in Q[j + 1]
  <2>1. j \in 0..Len(l) /\ j + 1 \in 0..Len(l) /\ j \in Nat /\ j < Len(l)
    BY <1>0
  <2>2. Looks(r, l, j)
    BY <2>1
  <2>3. Looks(k, l, j + 1)
    BY <1>2, <1>0, <2>1, <2>2, LooksStep
  <2> QED BY <1>2, <2>1, <2>3 DEF Typed
<1>3. from + n \in 0..Len(l)
  BY <1>0
<1>4. end \in Q[from + n]
  <2> HIDE DEF Q
  <2>1. \A j \in from..(from + n - 1) : \A r \in Q[j] :
          Typed(r) /\ Typed(Step(r, l[j + 1])) => Step(r, l[j + 1]) \in Q[j + 1]
    BY <1>2
  <2> QED BY <1>1, <2>1, TypedPieceFollowed
<1> QED BY <1>3, <1>4

LEMMA PieceGreeted ==
  ASSUME NEW t \in Seq(Char), NEW l \in Seq(Bytes), l = Line(OK \o t), ~FoundIn(USER, l, 0),
         NEW from \in Nat, NEW n \in Nat, from + n <= Len(l), NEW s, Typed(s), Greeted(s, l, from),
         NEW end, end = Consumed(s, SubSeq(l, from + 1, from + n))
  PROVE  Greeted(end, l, from + n)
<1> DEFINE Q == [j \in 0..Len(l) |-> {r \in Rec : Greeted(r, l, j)}]
<1>0. Len(l) \in Nat
  OBVIOUS
<1>1. s \in Q[from]
  BY <1>0 DEF Typed
<1>2. ASSUME NEW j \in from..(from + n - 1), NEW r \in Q[j], Typed(r),
             NEW k, k = Step(r, l[j + 1]), Typed(k)
      PROVE  k \in Q[j + 1]
  <2>1. j \in 0..Len(l) /\ j + 1 \in 0..Len(l) /\ j \in Nat /\ j < Len(l)
    BY <1>0
  <2>2. Greeted(r, l, j)
    BY <2>1
  <2>3. Greeted(k, l, j + 1)
    BY <1>2, <1>0, <2>1, <2>2, GreetedStep
  <2> QED BY <1>2, <2>1, <2>3 DEF Typed
<1>3. from + n \in 0..Len(l)
  BY <1>0
<1>4. end \in Q[from + n]
  <2> HIDE DEF Q
  <2>1. \A j \in from..(from + n - 1) : \A r \in Q[j] :
          Typed(r) /\ Typed(Step(r, l[j + 1])) => Step(r, l[j + 1]) \in Q[j + 1]
    BY <1>2
  <2> QED BY <1>1, <2>1, TypedPieceFollowed
<1> QED BY <1>3, <1>4

LEMMA PieceNaming ==
  ASSUME NEW u \in Seq(Char), NEW l \in Seq(Bytes), l = Line(USER \o u),
         NEW from \in Nat, NEW n \in Nat, from + n <= Len(l), NEW s, Typed(s), Naming(s, u, from),
         NEW end, end = Consumed(s, SubSeq(l, from + 1, from + n))
  PROVE  Naming(end, u, from + n)
<1> DEFINE Q == [j \in 0..Len(l) |-> {r \in Rec : Naming(r, u, j)}]
<1>0. Len(l) \in Nat
  OBVIOUS
<1>1. s \in Q[from]
  BY <1>0 DEF Typed
<1>2. ASSUME NEW j \in from..(from + n - 1), NEW r \in Q[j], Typed(r),
             NEW k, k = Step(r, l[j + 1]), Typed(k)
      PROVE  k \in Q[j + 1]
  <2>1. j \in 0..Len(l) /\ j + 1 \in 0..Len(l) /\ j \in Nat /\ j < Len(l)
    BY <1>0
  <2>2. Naming(r, u, j)
    BY <2>1
  <2>3. Naming(k, u, j + 1)
    BY <1>2, <1>0, <2>1, <2>2, NamingStep
  <2> QED BY <1>2, <2>1, <2>3 DEF Typed
<1>3. from + n \in 0..Len(l)
  BY <1>0
<1>4. end \in Q[from + n]
  <2> HIDE DEF Q
  <2>1. \A j \in from..(from + n - 1) : \A r \in Q[j] :
          Typed(r) /\ Typed(Step(r, l[j + 1])) => Step(r, l[j + 1]) \in Q[j + 1]
    BY <1>2
  <2> QED BY <1>1, <2>1, TypedPieceFollowed
<1> QED BY <1>3, <1>4

LEMMA PieceOverrun ==
  ASSUME NEW u \in Texts, ~Finds(USER, u), NEW l \in Seq(Bytes), l = Line(USER \o u),
         NEW from \in Nat, NEW n \in Nat, from + n <= Len(l), NEW s, Typed(s), Overrun(s, u, from),
         NEW end, end = Consumed(s, SubSeq(l, from + 1, from + n))
  PROVE  Overrun(end, u, from + n)
<1> DEFINE Q == [j \in 0..Len(l) |-> {r \in Rec : Overrun(r, u, j)}]
<1>0. Len(l) \in Nat
  OBVIOUS
<1>1. s \in Q[from]
  BY <1>0 DEF Typed
<1>2. ASSUME NEW j \in from..(from + n - 1), NEW r \in Q[j], Typed(r),
             NEW k, k = Step(r, l[j + 1]), Typed(k)
      PROVE  k \in Q[j + 1]
  <2>1. j \in 0..Len(l) /\ j + 1 \in 0..Len(l) /\ j \in Nat /\ j < Len(l)
    BY <1>0
  <2>2. Overrun(r, u, j)
    BY <2>1
  <2>3. Overrun(k, u, j + 1)
    BY <1>2, <1>0, <2>1, <2>2, OverrunStep
  <2> QED BY <1>2, <2>1, <2>3 DEF Typed
<1>3. from + n \in 0..Len(l)
  BY <1>0
<1>4. end \in Q[from + n]
  <2> HIDE DEF Q
  <2>1. \A j \in from..(from + n - 1) : \A r \in Q[j] :
          Typed(r) /\ Typed(Step(r, l[j + 1])) => Step(r, l[j + 1]) \in Q[j + 1]
    BY <1>2
  <2> QED BY <1>1, <2>1, TypedPieceFollowed
<1> QED BY <1>3, <1>4

LEMMA PieceSeeking ==
  ASSUME NEW u, NEW l \in Seq(Bytes), ~FoundIn(PASS, l, 0),
         NEW from \in Nat, NEW n \in Nat, from + n <= Len(l), NEW s, Typed(s), Seeking(s, u, l, from),
         NEW end, end = Consumed(s, SubSeq(l, from + 1, from + n))
  PROVE  Seeking(end, u, l, from + n)
<1> DEFINE Q == [j \in 0..Len(l) |-> {r \in Rec : Seeking(r, u, l, j)}]
<1>0. Len(l) \in Nat
  OBVIOUS
<1>1. s \in Q[from]
  BY <1>0 DEF Typed
<1>2. ASSUME NEW j \in from..(from + n - 1), NEW r \in Q[j], Typed(r),
             NEW k, k = Step(r, l[j + 1]), Typed(k)
      PROVE  k \in Q[j + 1]
  <2>1. j \in 0..Len(l) /\ j + 1 \in 0..Len(l) /\ j \in Nat /\ j < Len(l)
    BY <1>0
  <2>2. Seeking(r, u, l, j)
    BY <2>1
  <2>3. Seeking(k, u, l, j + 1)
    BY <1>2, <1>0, <2>1, <2>2, SeekingStep
  <2> QED BY <1>2, <2>1, <2>3 DEF Typed
<1>3. from + n \in 0..Len(l)
  BY <1>0
<1>4. end \in Q[from + n]
  <2> HIDE DEF Q
  <2>1. \A j \in from..(from + n - 1) : \A r \in Q[j] :
          Typed(r) /\ Typed(Step(r, l[j + 1])) => Step(r, l[j + 1]) \in Q[j + 1]
    BY <1>2
  <2> QED BY <1>1, <2>1, TypedPieceFollowed
<1> QED BY <1>3, <1>4

LEMMA PiecePassing ==
  ASSUME NEW u, NEW p \in Seq(Char), NEW l \in Seq(Bytes), l = Line(PASS \o p),
         NEW from \in Nat, NEW n \in Nat, from + n <= Len(l), NEW s, Typed(s), Passing(s, u, p, from),
         NEW end, end = Consumed(s, SubSeq(l, from + 1, from + n))
  PROVE  Passing(end, u, p, from + n)
<1> DEFINE Q == [j \in 0..Len(l) |-> {r \in Rec : Passing(r, u, p, j)}]
<1>0. Len(l) \in Nat
  OBVIOUS
<1>1. s \in Q[from]
  BY <1>0 DEF Typed
<1>2. ASSUME NEW j \in from..(from + n - 1), NEW r \in Q[j], Typed(r),
             NEW k, k = Step(r, l[j + 1]), Typed(k)
      PROVE  k \in Q[j + 1]
  <2>1. j \in 0..Len(l) /\ j + 1 \in 0..Len(l) /\ j \in Nat /\ j < Len(l)
    BY <1>0
  <2>2. Passing(r, u, p, j)
    BY <2>1
  <2>3. Passing(k, u, p, j + 1)
    BY <1>2, <1>0, <2>1, <2>2, PassingStep
  <2> QED BY <1>2, <2>1, <2>3 DEF Typed
<1>3. from + n \in 0..Len(l)
  BY <1>0
<1>4. end \in Q[from + n]
  <2> HIDE DEF Q
  <2>1. \A j \in from..(from + n - 1) : \A r \in Q[j] :
          Typed(r) /\ Typed(Step(r, l[j + 1])) => Step(r, l[j + 1]) \in Q[j + 1]
    BY <1>2
  <2> QED BY <1>1, <2>1, TypedPieceFollowed
<1> QED BY <1>3, <1>4

LEMMA PieceJudging ==
  ASSUME NEW u, NEW p \in Texts, PlainPassword(p), NEW l \in Seq(Bytes), l = Line(PASS \o p),
         NEW from \in Nat, NEW n \in Nat, from + n <= Len(l), NEW s, Typed(s), Judging(s, u, p, from),
         NEW end, end = Consumed(s, SubSeq(l, from + 1, from + n))
  PROVE  Judging(end, u, p, from + n)
<1> DEFINE Q == [j \in 0..Len(l) |-> {r \in Rec : Judging(r, u, p, j)}]
<1>0. Len(l) \in Nat
  OBVIOUS
<1>1. s \in Q[from]
  BY <1>0 DEF Typed
<1>2. ASSUME NEW j \in from..(from + n - 1), NEW r \in Q[j], Typed(r),
             NEW k, k = Step(r, l[j + 1]), Typed(k)
      PROVE  k \in Q[j + 1]
  <2>1. j \in 0..Len(l) /\ j + 1 \in 0..Len(l) /\ j \in Nat /\ j < Len(l)
    BY <1>0
  <2>2. Judging(r, u, p, j)
    BY <2>1
  <2>3. Judging(k, u, p, j + 1)
    BY <1>2, <1>0, <2>1, <2>2, JudgingStep
  <2> QED BY <1>2, <2>1, <2>3 DEF Typed
<1>3. from + n \in 0..Len(l)
  BY <1>0
<1>4. end \in Q[from + n]
  <2> HIDE DEF Q
  <2>1. \A j \in from..(from + n - 1) : \A r \in Q[j] :
          Typed(r) /\ Typed(Step(r, l[j + 1])) => Step(r, l[j + 1]) \in Q[j + 1]
    BY <1>2
  <2> QED BY <1>1, <2>1, TypedPieceFollowed
<1> QED BY <1>3, <1>4

LEMMA PieceAccepting ==
  ASSUME NEW u, NEW p, NEW t \in Seq(Char), NEW l \in Seq(Bytes), l = Line(OK \o t),
         NEW from \in Nat, NEW n \in Nat, from + n <= Len(l), NEW s, Typed(s), Accepting(s, u, p, from),
         NEW end, end = Consumed(s, SubSeq(l, from + 1, from + n))
  PROVE  Accepting(end, u, p, from + n)
<1> DEFINE Q == [j \in 0..Len(l) |-> {r \in Rec : Accepting(r, u, p, j)}]
<1>0. Len(l) \in Nat
  OBVIOUS
<1>1. s \in Q[from]
  BY <1>0 DEF Typed
<1>2. ASSUME NEW j \in from..(from + n - 1), NEW r \in Q[j], Typed(r),
             NEW k, k = Step(r, l[j + 1]), Typed(k)
      PROVE  k \in Q[j + 1]
  <2>1. j \in 0..Len(l) /\ j + 1 \in 0..Len(l) /\ j \in Nat /\ j < Len(l)
    BY <1>0
  <2>2. Accepting(r, u, p, j)
    BY <2>1
  <2>3. Accepting(k, u, p, j + 1)
    BY <1>2, <1>0, <2>1, <2>2, AcceptingStep
  <2> QED BY <1>2, <2>1, <2>3 DEF Typed
<1>3. from + n \in 0..Len(l)
  BY <1>0
<1>4. end \in Q[from + n]
  <2> HIDE DEF Q
  <2>1. \A j \in from..(from + n - 1) : \A r \in Q[j] :
          Typed(r) /\ Typed(Step(r, l[j + 1])) => Step(r, l[j + 1]) \in Q[j + 1]
    BY <1>2
  <2> QED BY <1>1, <2>1, TypedPieceFollowed
<1> QED BY <1>3, <1>4

LEMMA PieceRefusing ==
  ASSUME NEW t \in Seq(Char), NEW l \in Seq(Bytes), l = Line(ERR \o t), ~FoundIn(USER, l, 0),
         NEW from \in Nat, NEW n \in Nat, from + n <= Len(l), NEW s, Typed(s), Refusing(s, l, from),
         NEW end, end = Consumed(s, SubSeq(l, from + 1, from + n))
  PROVE  Refusing(end, l, from + n)
<1> DEFINE Q == [j \in 0..Len(l) |-> {r \in Rec : Refusing(r, l, j)}]
<1>0. Len(l) \in Nat
  OBVIOUS
<1>1. s \in Q[from]
  BY <1>0 DEF Typed
<1>2. ASSUME NEW j \in from..(from + n - 1), NEW r \in Q[j], Typed(r),
             NEW k, k = Step(r, l[j + 1]), Typed(k)
      PROVE  k \in Q[j + 1]
  <2>1. j \in 0..Len(l) /\ j + 1 \in 0..Len(l) /\ j \in Nat /\ j < Len(l)
    BY <1>0
  <2>2. Refusing(r, l, j)
    BY <2>1
  <2>3. Refusing(k, l, j + 1)
    BY <1>2, <1>0, <2>1, <2>2, RefusingStep
  <2> QED BY <1>2, <2>1, <2>3 DEF Typed
<1>3. from + n \in 0..Len(l)
  BY <1>0
<1>4. end \in Q[from + n]
  <2> HIDE DEF Q
  <2>1. \A j \in from..(from + n - 1) : \A r \in Q[j] :
          Typed(r) /\ Typed(Step(r, l[j + 1])) => Step(r, l[j + 1]) \in Q[j + 1]
    BY <1>2
  <2> QED BY <1>1, <2>1, TypedPieceFollowed
<1> QED BY <1>3, <1>4

LEMMA PieceSpent ==
  ASSUME NEW l \in Seq(Bytes), ~FoundIn(USER, l, 0),
         NEW from \in Nat, NEW n \in Nat, from + n <= Len(l), NEW s, Typed(s), (Spent(s, l, from) /\ s.state # "ok"),
         NEW end, end = Consumed(s, SubSeq(l, from + 1, from + n))
  PROVE  (Spent(end, l, from + n) /\ end.state # "ok")
<1> DEFINE Q == [j \in 0..Len(l) |-> {r \in Rec : (Spent(r, l, j) /\ r.state # "ok")}]
<1>0. Len(l) \in Nat
  OBVIOUS
<1>1. s \in Q[from]
  BY <1>0 DEF Typed
<1>2. ASSUME NEW j \in from..(from + n - 1), NEW r \in Q[j], Typed(r),
             NEW k, k = Step(r, l[j + 1]), Typed(k)
      PROVE  k \in Q[j + 1]
  <2>1. j \in 0..Len(l) /\ j + 1 \in 0..Len(l) /\ j \in Nat /\ j < Len(l)
    BY <1>0
  <2>2. (Spent(r, l, j) /\ r.state # "ok")
    BY <2>1
  <2>3. (Spent(k, l, j + 1) /\ k.state # "ok")
    BY <1>2, <1>0, <2>1, <2>2, SpentStep
  <2> QED BY <1>2, <2>1, <2>3 DEF Typed
<1>3. from + n \in 0..Len(l)
  BY <1>0
<1>4. end \in Q[from + n]
  <2> HIDE DEF Q
  <2>1. \A j \in from..(from + n - 1) : \A r \in Q[j] :
          Typed(r) /\ Typed(Step(r, l[j + 1])) => Step(r, l[j + 1]) \in Q[j + 1]
    BY <1>2
  <2> QED BY <1>1, <2>1, TypedPieceFollowed
<1> QED BY <1>3, <1>4

-----------------------------------------------------------------------------
(* Each line as a whole: the sniffer that received it, then the same bytes when
   they are passed on. *)
LEMMA Lines ==
  /\ \A w \in Seq(Char) : Line(w) \in Seq(Bytes)
  /\ \A r \in Remarks : r \in Seq(Char) /\ OK \o r \in Seq(Char) /\ ERR \o r \in Seq(Char)
  /\ \A t \in Texts : t \in Seq(Char) /\ USER \o t \in Seq(Char) /\ PASS \o t \in Seq(Char)
<1>1. ASSUME NEW t \in Seq(Char) PROVE Line(t) \in Seq(Bytes)
  <2>1. t \in Seq(Bytes) /\ Newline \in Bytes
    BY DEF Bytes
  <2> QED BY <2>1 DEF Line
<1>2. OK \in Seq(Char) /\ ERR \in Seq(Char) /\ USER \in Seq(Char) /\ PASS \in Seq(Char)
  BY Words DEF Word
<1>3. ASSUME NEW t \in Texts
      PROVE  t \in Seq(Char) /\ USER \o t \in Seq(Char) /\ PASS \o t \in Seq(Char)
  <2>1. t \in Seq(Char)
    BY Words
  <2> QED BY <1>2, <2>1
<1>4. ASSUME NEW r \in Remarks
      PROVE  r \in Seq(Char) /\ OK \o r \in Seq(Char) /\ ERR \o r \in Seq(Char)
  <2>1. r \in Seq(Char)
    BY Words
  <2> QED BY <1>2, <2>1
<1> QED BY <1>1, <1>3, <1>4

(* The whole of a line, as its only piece. *)
LEMMA WholeIs ==
  ASSUME NEW l \in Seq(Bytes)
  PROVE  /\ Len(l) \in Nat /\ 0 \in Nat /\ 0 + Len(l) <= Len(l) /\ 0 + Len(l) = Len(l)
         /\ SubSeq(l, 1, Len(l)) = SubSeq(l, 0 + 1, 0 + Len(l))
OBVIOUS

(* The sniffer at the end of a line. *)
LEMMA LooksEnd ==
  ASSUME NEW s, NEW l, Looks(s, l, Len(l))
  PROVE  Expects(s) /\ Looks(s, l, 0)
<1>1. Expects(s)
  BY DEF Looks
<1> QED BY <1>1, LooksAt DEF Expects

LEMMA SeekingEnd ==
  ASSUME NEW w \in Seq(Char), NEW l, l = Line(w), NEW u,
         NEW s, Typed(s), Seeking(s, u, l, Len(l))
  PROVE  Knows(s, u)
<1>1. l[Len(l)] = Newline /\ Len(l) \in Nat
  BY LineIs
<1>2. s \in Rec /\ Word(PASS) /\ Seeks(s, PASS, l, Len(l), 0)
  BY Words DEF Typed, Seeking
<1>3. s.read = 0 /\ s.remaining = Len(PASS)
  BY <1>1, <1>2, SeeksEnd
<1> QED BY <1>3 DEF Seeking, Knows, At

LEMMA SpentEnd ==
  ASSUME NEW w \in Seq(Char), NEW l, l = Line(w),
         NEW s, Typed(s), Spent(s, l, Len(l))
  PROVE  Idle(s)
<1>1. l[Len(l)] = Newline /\ Len(l) \in Nat
  BY LineIs
<1>2. CASE s.state \in Done
  BY <1>2 DEF Idle
<1>3. CASE s.state \notin Done
  <2>1. s \in Rec /\ Word(USER) /\ Seeks(s, USER, l, Len(l), 0) /\ s.state = "user"
    BY <1>3, Words DEF Typed, Spent
  <2>2. s.read = 0 /\ s.remaining = Len(USER)
    BY <1>1, <2>1, SeeksEnd
  <2> QED BY <2>1, <2>2 DEF Idle, At
<1> QED BY <1>2, <1>3

(* And at the start of one. *)
LEMMA SeeksAt ==
  ASSUME NEW keyword, Word(keyword), NEW s, s.read = 0, s.remaining = Len(keyword), NEW l
  PROVE  Seeks(s, keyword, l, 0, 0)
<1>1. s.read < Len(keyword) /\ s.remaining = Len(keyword) - s.read /\ s.read <= 0 - 0
  BY DEF Word
<1>2. \A i \in 1..s.read : l[(0 - s.read) + i] = keyword[i]
  OBVIOUS
<1> QED BY <1>1, <1>2 DEF Seeks

LEMMA KnowsSeeks ==
  ASSUME NEW s, NEW u, Knows(s, u), NEW l
  PROVE  Seeking(s, u, l, 0)
<1>1. Word(PASS) /\ s.read = 0 /\ s.remaining = Len(PASS)
  BY Words DEF Knows, At
<1>2. Seeks(s, PASS, l, 0, 0)
  BY <1>1, SeeksAt
<1> QED BY <1>2 DEF Seeking, Knows, At

LEMMA IdleSpent ==
  ASSUME NEW s, Idle(s), NEW l
  PROVE  Spent(s, l, 0)
<1>1. CASE s.state \in Done
  BY <1>1 DEF Spent
<1>2. CASE At(s, "user", 0, Len(USER))
  <2>1. Word(USER) /\ s.read = 0 /\ s.remaining = Len(USER) /\ s.state = "user"
    BY <1>2, Words DEF At
  <2>2. Seeks(s, USER, l, 0, 0)
    BY <2>1, SeeksAt
  <2> QED BY <2>1, <2>2 DEF Spent
<1> QED BY <1>1, <1>2 DEF Idle

LEMMA ReadsGreeting ==
  ASSUME NEW t \in Remarks, NEW l, l = Line(OK \o t), ~FoundIn(USER, l, 0), Typed(Zeroed),
         NEW end, end = Consumed(SnifferInit(Zeroed), SubSeq(l, 1, Len(l)))
  PROVE  Looks(end, l, 0)
<1> DEFINE s == SnifferInit(Zeroed)
<1>0. t \in Seq(Char) /\ OK \o t \in Seq(Char) /\ l \in Seq(Bytes)
  BY Lines
<1>1. Word(OK) /\ Len(OK) \in Nat /\ Len(OK) # 0 /\ Len(t) \in Nat /\ Len(l) = (Len(OK) + Len(t)) + 1
  BY <1>0, Words, SpeechIs DEF Word
<1>2. Typed(s) /\ At(s, "initial", 0, Len(OK))
  BY StartIs
<1>3. Greeted(s, l, 0)
  BY <1>1, <1>2 DEF Greeted
<1> HIDE DEF s
<1>4. end = Consumed(s, SubSeq(l, 0 + 1, 0 + Len(l)))
  BY <1>0, WholeIs DEF s
<1>5. Greeted(end, l, 0 + Len(l))
  BY <1>0, <1>2, <1>3, <1>4, WholeIs, PieceGreeted
<1>6. 0 + Len(l) = Len(l) /\ ~(Len(l) < Len(OK))
  BY <1>1
<1>7. Looks(end, l, Len(l))
  BY <1>5, <1>6 DEF Greeted
<1> QED BY <1>7, LooksEnd

LEMMA ReadsRefusal ==
  ASSUME NEW t \in Remarks, NEW l, l = Line(ERR \o t), ~FoundIn(USER, l, 0),
         NEW u, NEW p, NEW s, Typed(s), Judged(s, u, p),
         NEW end, end = Consumed(s, SubSeq(l, 1, Len(l)))
  PROVE  Looks(end, l, 0)
<1>0. t \in Seq(Char) /\ ERR \o t \in Seq(Char) /\ l \in Seq(Bytes)
  BY Lines
<1>1. Word(ERR) /\ Len(ERR) \in Nat /\ Len(t) \in Nat /\ Len(l) = (Len(ERR) + Len(t)) + 1
  BY <1>0, Words, SpeechIs DEF Word
<1>2. Refusing(s, l, 0)
  <2>1. s.check_read \in Nat
    BY ByteIs DEF Typed, Rec
  <2>2. 0 <= s.check_read
    BY <2>1
  <2> QED BY <2>2 DEF Refusing, Judged
<1>3. end = Consumed(s, SubSeq(l, 0 + 1, 0 + Len(l)))
  BY <1>0, WholeIs
<1>4. Refusing(end, l, 0 + Len(l))
  BY <1>0, <1>2, <1>3, WholeIs, PieceRefusing
<1>5. Typed(end)
  BY <1>0, <1>3, WholeIs, PieceTyped
<1>6. ~(0 + Len(l) <= end.check_read /\ end.check_read < Len(ERR)) /\ 0 + Len(l) = Len(l)
  <2>1. end.check_read \in Nat
    BY <1>5, ByteIs DEF Typed, Rec
  <2> QED BY <1>1, <2>1
<1>7. Looks(end, l, Len(l))
  BY <1>4, <1>6 DEF Refusing
<1> QED BY <1>7, LooksEnd

(* The line with the name, from its first byte to its last. *)
LEMMA NamingEnds ==
  ASSUME NEW u \in Texts, NEW s, NEW l, l = Line(USER \o u)
  PROVE  /\ Expects(s) /\ s.remaining # 0 => Naming(s, u, 0)
         /\ Expects(s) /\ s.remaining = 0 => Overrun(s, u, 0)
         /\ Naming(s, u, Len(l)) => Knows(s, u)
         /\ Typed(s) /\ Overrun(s, u, Len(l)) => Naming(s, u, 0)
<1>0. Word(USER) /\ u \in Seq(Char) /\ Len(USER) \in Nat /\ Len(USER) # 0
  BY Words DEF Word
<1>1. /\ Len(l) = (Len(USER) + Len(u)) + 1 /\ Len(u) \in Nat
      /\ l[(Len(USER) + Len(u)) + 1] = Newline
  BY <1>0, SpeechIs
<1>2. l[Len(l)] = Newline /\ Len(l) \in Nat
  BY <1>0, <1>1
<1>3. 0 < Len(USER) /\ ~(Len(l) < Len(USER)) /\ ~(Len(l) <= Len(USER) + Len(u)) /\ ~(Len(l) <= Len(USER))
      /\ 0 <= Len(USER) /\ Len(USER) - 0 = Len(USER)
  BY <1>0, <1>1
<1>4. Expects(s) /\ s.remaining # 0 => Naming(s, u, 0)
  BY <1>3 DEF Expects, Naming, At
<1>5. Expects(s) /\ s.remaining = 0 => Overrun(s, u, 0)
  BY <1>3 DEF Expects, Overrun, At
<1>6. Naming(s, u, Len(l)) => Knows(s, u)
  BY <1>3 DEF Naming, Knows
<1>7. Typed(s) /\ Overrun(s, u, Len(l)) => Naming(s, u, 0)
  <2> SUFFICES ASSUME Typed(s), Overrun(s, u, Len(l)) PROVE Naming(s, u, 0)
    OBVIOUS
  <2>1. s \in Rec /\ Seeks(s, USER, l, Len(l), Len(USER)) /\ s.state = "user"
    BY <1>3 DEF Typed, Overrun
  <2>2. s.read = 0 /\ s.remaining = Len(USER)
    BY <1>0, <1>2, <2>1, SeeksEnd
  <2> QED BY <1>3, <2>1, <2>2 DEF Naming, At
<1> QED BY <1>4, <1>5, <1>6, <1>7

LEMMA ReadsName ==
  ASSUME NEW u \in Texts, PlainName(u), NEW l, l = Line(USER \o u), NEW s, Typed(s), Expects(s),
         NEW end, end = Consumed(s, SubSeq(l, 1, Len(l)))
  PROVE  Seeking(end, u, l, 0) \/ Naming(end, u, 0)
<1>1. l \in Seq(Bytes) /\ u \in Seq(Char)
  BY Lines
<1>2. /\ s.remaining # 0 => Naming(s, u, 0)
      /\ s.remaining = 0 => Overrun(s, u, 0)
  BY NamingEnds
<1>3. end = Consumed(s, SubSeq(l, 0 + 1, 0 + Len(l)))
  BY <1>1, WholeIs
<1>4. Typed(end)
  BY <1>1, <1>3, WholeIs, PieceTyped
<1>5. CASE s.remaining # 0
  <2>1. Naming(end, u, 0 + Len(l))
    BY <1>1, <1>2, <1>3, <1>5, WholeIs, PieceNaming
  <2>2. Naming(end, u, Len(l))
    BY <1>1, <2>1, WholeIs
  <2> QED BY <2>2, NamingEnds, KnowsSeeks
<1>6. CASE s.remaining = 0
  <2>0. ~Finds(USER, u)
    BY DEF PlainName
  <2>1. Overrun(end, u, 0 + Len(l))
    BY <1>1, <1>2, <1>3, <1>6, <2>0, WholeIs, PieceOverrun
  <2>2. Overrun(end, u, Len(l))
    BY <1>1, <2>1, WholeIs
  <2> QED BY <1>4, <2>2, NamingEnds
<1> QED BY <1>5, <1>6

LEMMA ReadsPassword ==
  ASSUME NEW u \in Texts, NEW p \in Texts, NEW s, Typed(s), Knows(s, u),
         NEW end, end = Consumed(s, SubSeq(Line(PASS \o p), 1, Len(Line(PASS \o p))))
  PROVE  Judging(end, u, p, 0)
<1> DEFINE l == Line(PASS \o p)
<1>0. /\ l \in Seq(Bytes) /\ p \in Seq(Char) /\ Word(PASS) /\ Len(PASS) \in Nat /\ Len(PASS) # 0
      /\ Len(OK) \in Nat /\ Len(OK) # 0 /\ Len(ERR) \in Nat /\ Len(ERR) # 0
  BY Lines, Words DEF Word
<1>1. Len(l) = (Len(PASS) + Len(p)) + 1 /\ Len(p) \in Nat
  BY <1>0, SpeechIs
<1>2. Passing(s, u, p, 0)
  <2>1. 0 < Len(PASS) /\ Len(PASS) - 0 = Len(PASS)
    BY <1>0
  <2> QED BY <2>1 DEF Passing, Knows, At
<1> HIDE DEF l
<1>3. end = Consumed(s, SubSeq(l, 0 + 1, 0 + Len(l)))
  BY <1>0, WholeIs DEF l
<1>4. Passing(end, u, p, 0 + Len(l))
  BY <1>0, <1>2, <1>3, WholeIs, PiecePassing DEF l
<1>5. ~(0 + Len(l) < Len(PASS)) /\ ~(0 + Len(l) <= Len(PASS) + Len(p))
  BY <1>0, <1>1
<1>6. /\ At(end, "check_password", 0, 0) /\ end.check_read = 0 /\ Logged(end, u, p)
  BY <1>4, <1>5 DEF Passing, Logged
<1>7. Among(OK, 0, Line(PASS \o p), 0) /\ Among(ERR, 0, Line(PASS \o p), 0)
  BY AmongNone
<1>8. 0 < Len(OK) /\ 0 < Len(ERR)
  BY <1>0
<1> QED BY <1>6, <1>7, <1>8 DEF Judging, At

LEMMA ReadsAcceptance ==
  ASSUME NEW t \in Remarks, NEW l, l = Line(OK \o t), NEW u, NEW p, NEW s, Typed(s), Judged(s, u, p),
         NEW end, end = Consumed(s, SubSeq(l, 1, Len(l)))
  PROVE  end.state = "ok" /\ Logged(end, u, p)
<1>0. t \in Seq(Char) /\ OK \o t \in Seq(Char) /\ l \in Seq(Bytes)
  BY Lines
<1>1. Word(OK) /\ Len(OK) \in Nat /\ Len(OK) # 0 /\ Len(t) \in Nat /\ Len(l) = (Len(OK) + Len(t)) + 1
  BY <1>0, Words, SpeechIs DEF Word
<1>2. Accepting(s, u, p, 0)
  <2>1. s.read \in Nat
    BY ByteIs DEF Typed, Rec
  <2>2. 0 < Len(OK) /\ 0 <= s.read
    BY <1>1, <2>1
  <2> QED BY <2>2 DEF Accepting, Judged
<1>3. end = Consumed(s, SubSeq(l, 0 + 1, 0 + Len(l)))
  BY <1>0, WholeIs
<1>4. Accepting(end, u, p, 0 + Len(l))
  BY <1>0, <1>2, <1>3, WholeIs, PieceAccepting
<1>5. ~(0 + Len(l) < Len(OK))
  BY <1>1
<1> QED BY <1>4, <1>5 DEF Accepting

-----------------------------------------------------------------------------
(* The two calls, whatever the line is. *)
LEMMA ZeroedTyped == Typed(Zeroed)
<1>1. <<>> \in Seq(Char) /\ 0 \in Byte /\ "initial" \in States /\ Len(<<>>) = 0
      /\ MaxText \in Nat /\ Len(ERR) \in Nat
  BY Words, ByteIs DEF States, Word
<1>2. Zeroed \in Rec
  BY <1>1 DEF Zeroed, Rec
<1>3. /\ Zeroed.username = <<>> /\ Zeroed.passwd = <<>> /\ Zeroed.check_read = 0
      /\ Zeroed.state = "initial"
  BY DEF Zeroed
<1> QED BY <1>1, <1>2, <1>3 DEF Typed

(* A line is the text of some speech. *)
LEMMA SpokenText ==
  ASSUME Spoken, turn # "greeting"
  PROVE  \E w \in Seq(Char) : line = Line(w)
<1>1. CASE turn \in {"user", "pass", "over"}
  <2>1. PICK r \in Remarks : line = Line(OK \o r) \/ line = Line(ERR \o r)
    BY <1>1 DEF Spoken
  <2> QED BY <2>1, Lines
<1>2. CASE turn = "reply"
  BY <1>2, Lines DEF Spoken
<1>3. CASE turn = "verdict"
  BY <1>3, Lines DEF Spoken
<1>4. CASE turn = "talk"
  BY <1>4 DEF Spoken
<1> QED BY <1>1, <1>2, <1>3, <1>4 DEF Spoken

LEMMA SpokenBytes ==
  ASSUME Spoken
  PROVE  line \in Seq(Bytes) /\ Len(line) \in Nat /\ (turn # "greeting" => Len(line) # 0)
<1>1. CASE turn = "greeting"
  BY <1>1 DEF Spoken
<1>2. CASE turn # "greeting"
  <2>1. PICK w \in Seq(Char) : line = Line(w)
    BY <1>2, SpokenText
  <2>2. line \in Seq(Bytes) /\ Len(line) = Len(w) + 1 /\ Len(w) \in Nat
    BY <2>1, Lines, LineIs
  <2> QED BY <2>2
<1> QED BY <1>1, <1>2

Starts(s) == IF IsParsing(s) THEN s ELSE SnifferInit(s)
LEMMA StartsTyped ==
  ASSUME NEW s, Typed(s) PROVE Typed(Starts(s))
BY StartIs DEF Starts

(* The automaton that has seen a login starts over. *)
LEMMA StartsSpent ==
  ASSUME NEW s, Typed(s), NEW l, NEW j, Spent(s, l, j)
  PROVE  Typed(Starts(s)) /\ Spent(Starts(s), l, j) /\ Starts(s).state # "ok"
<1>1. CASE IsParsing(s)
  BY <1>1 DEF Starts, IsParsing
<1>2. CASE ~IsParsing(s)
  <2>1. Starts(s) = SnifferInit(s)
    BY <1>2 DEF Starts
  <2> QED BY <2>1, StartIs DEF Spent, Done, At
<1> QED BY <1>1, <1>2

(* A line that is received. *)
LEMMA ReadsOn ==
  ASSUME Typed(sniffer), Spoken, PlainLine, turn # "greeting", Unread(sniffer),
         NEW end, end = Consumed(Starts(sniffer), SubSeq(line, 1, Len(line)))
  PROVE  /\ Typed(end) /\ Read(end, 0)
         /\ turn = "over" => end.state = "ok" /\ Logged(end, user, pass)
         /\ turn # "over" => end.state # "ok"
<1> DEFINE s == sniffer
<1>0. line \in Seq(Bytes) /\ Len(line) \in Nat
  BY SpokenBytes
<1>1. /\ Typed(end)
      /\ end = Consumed(Starts(s), SubSeq(line, 0 + 1, 0 + Len(line)))
  <2>1. end = Consumed(Starts(s), SubSeq(line, 0 + 1, 0 + Len(line)))
    BY <1>0, WholeIs
  <2> QED BY <1>0, <2>1, WholeIs, StartsTyped, PieceTyped
<1>t. PICK w \in Seq(Char) : line = Line(w)
  BY SpokenText
<1>2. CASE turn = "user"
  <2>0. ~FoundIn(USER, line, 0)
    BY <1>2 DEF PlainLine
  <2>1. Looks(end, line, 0)
    <3>1. CASE s = Zeroed /\ \E r \in Remarks : line = Line(OK \o r)
      <4>1. Starts(s) = SnifferInit(Zeroed)
        BY <3>1 DEF Starts, IsParsing, Zeroed
      <4> QED BY <2>0, <3>1, <4>1, ReadsGreeting, ZeroedTyped
    <3>2. CASE Judged(s, user, pass) /\ \E r \in Remarks : line = Line(ERR \o r)
      <4>1. Starts(s) = s
        BY <3>2 DEF Starts, IsParsing, Judged
      <4> QED BY <2>0, <3>2, <4>1, ReadsRefusal
    <3> QED BY <1>2, <3>1, <3>2 DEF Unread
  <2> QED BY <1>1, <1>2, <2>1 DEF Read, Looks
<1>3. CASE turn = "reply"
  <2>1. Expects(s) /\ user \in Texts /\ line = Line(USER \o user) /\ PlainName(user)
    BY <1>3 DEF Unread, Spoken, PlainLine
  <2>2. Starts(s) = s
    BY <2>1 DEF Starts, IsParsing, Expects
  <2>3. Seeking(end, user, line, 0) \/ Naming(end, user, 0)
    BY <2>1, <2>2, ReadsName
  <2>4. end.state # "ok"
    BY <2>3 DEF Seeking, Naming, At
  <2> QED BY <1>1, <1>3, <2>3, <2>4 DEF Read
<1>4. CASE turn = "pass"
  <2>1. Knows(s, user) /\ ~FoundIn(PASS, line, 0)
    BY <1>4 DEF Unread, PlainLine
  <2>2. Starts(s) = s
    BY <2>1 DEF Starts, IsParsing, Knows, At
  <2>3. Seeking(s, user, line, 0)
    BY <2>1, KnowsSeeks
  <2>4. Seeking(end, user, line, 0 + Len(line))
    BY <1>0, <1>1, <2>1, <2>2, <2>3, WholeIs, PieceSeeking
  <2>5. Seeking(end, user, line, Len(line))
    BY <1>0, <2>4, WholeIs
  <2>6. Knows(end, user)
    BY <1>t, <1>1, <2>5, SeekingEnd
  <2>7. Seeking(end, user, line, 0)
    BY <2>6, KnowsSeeks
  <2> QED BY <1>1, <1>4, <2>7 DEF Read, Seeking
<1>5. CASE turn = "verdict"
  <2>1. Knows(s, user) /\ line = Line(PASS \o pass) /\ user \in Texts /\ pass \in Texts
    BY <1>5 DEF Unread, Spoken
  <2>2. Starts(s) = s
    BY <2>1 DEF Starts, IsParsing, Knows, At
  <2>3. Judging(end, user, pass, 0)
    BY <2>1, <2>2, ReadsPassword
  <2> QED BY <1>1, <1>5, <2>3 DEF Read, Judging
<1>6. CASE turn = "over"
  <2>1. Judged(s, user, pass)
    BY <1>6 DEF Unread
  <2>2. PICK r \in Remarks : line = Line(OK \o r)
    BY <1>6 DEF Spoken
  <2>3. Starts(s) = s
    BY <2>1 DEF Starts, IsParsing, Judged
  <2>4. end.state = "ok" /\ Logged(end, user, pass)
    BY <2>1, <2>2, <2>3, ReadsAcceptance
  <2> QED BY <1>1, <1>6, <2>4 DEF Read, Spent, Done
<1>7. CASE turn = "talk"
  <2>1. Idle(s) /\ ~FoundIn(USER, line, 0)
    BY <1>7 DEF Unread, PlainLine
  <2>2. Typed(Starts(s)) /\ Spent(Starts(s), line, 0) /\ Starts(s).state # "ok"
    BY <2>1, IdleSpent, StartsSpent
  <2>3. Spent(end, line, 0 + Len(line)) /\ end.state # "ok"
    BY <1>0, <1>1, <2>1, <2>2, WholeIs, PieceSpent
  <2>4. Spent(end, line, Len(line))
    BY <1>0, <2>3, WholeIs
  <2>5. Spent(end, line, 0)
    BY <1>t, <1>1, <2>4, SpentEnd, IdleSpent
  <2> QED BY <1>1, <1>7, <2>3, <2>5 DEF Read
<1> QED BY <1>2, <1>3, <1>4, <1>5, <1>6, <1>7 DEF Spoken

(* A piece of it that is passed on. *)
LEMMA PassesOn ==
  ASSUME Typed(sniffer), Spoken, PlainLine, taken = Len(line), NEW n \in 1..(taken - passed),
         Read(sniffer, passed),
         NEW end, end = Consumed(Starts(sniffer), SubSeq(line, passed + 1, passed + n))
  PROVE  Typed(end) /\ Read(end, passed + n) /\ end.state # "ok"
<1> DEFINE s == sniffer
<1>0. /\ line \in Seq(Bytes) /\ Len(line) \in Nat /\ passed \in Nat /\ n \in Nat
      /\ passed + n <= Len(line)
  BY SpokenBytes DEF Spoken
<1>1. Typed(end)
  BY <1>0, StartsTyped, PieceTyped
<1>t. PICK w \in Seq(Char) : line = Line(w)
  BY SpokenText DEF Read
<1>2. CASE turn = "user"
  <2>1. Looks(s, line, passed) /\ ~FoundIn(USER, line, 0)
    BY <1>2 DEF Read, PlainLine
  <2>2. Starts(s) = s
    BY <2>1 DEF Starts, IsParsing, Looks
  <2>3. Looks(end, line, passed + n)
    BY <1>0, <1>t, <2>1, <2>2, PieceLooks
  <2> QED BY <1>1, <1>2, <2>3 DEF Read, Looks
<1>3. CASE turn = "reply"
  <2>1. /\ Seeking(s, user, line, passed) \/ Naming(s, user, passed)
        /\ user \in Texts /\ user \in Seq(Char) /\ line = Line(USER \o user) /\ PlainName(user)
    BY <1>3, Lines DEF Read, Spoken, PlainLine
  <2>2. Starts(s) = s
    BY <2>1 DEF Starts, IsParsing, Seeking, Naming, At
  <2>3. ~FoundIn(PASS, line, 0)
    <3>1. USER \o user \in Seq(Char) /\ ~Finds(PASS, USER \o user) /\ Word(PASS)
      BY <2>1, Lines, Words DEF PlainName
    <3> QED BY <2>1, <3>1, NotFound
  <2>4. Seeking(end, user, line, passed + n) \/ Naming(end, user, passed + n)
    BY <1>0, <2>1, <2>2, <2>3, PieceSeeking, PieceNaming
  <2>5. end.state # "ok"
    BY <2>4 DEF Seeking, Naming, At
  <2> QED BY <1>1, <1>3, <2>4, <2>5 DEF Read
<1>4. CASE turn = "pass"
  <2>1. Seeking(s, user, line, passed) /\ ~FoundIn(PASS, line, 0)
    BY <1>4 DEF Read, PlainLine
  <2>2. Starts(s) = s
    BY <2>1 DEF Starts, IsParsing, Seeking
  <2>3. Seeking(end, user, line, passed + n)
    BY <1>0, <2>1, <2>2, PieceSeeking
  <2> QED BY <1>1, <1>4, <2>3 DEF Read, Seeking
<1>5. CASE turn = "verdict"
  <2>1. /\ Judging(s, user, pass, passed) /\ line = Line(PASS \o pass) /\ pass \in Texts
        /\ PlainPassword(pass)
    BY <1>5 DEF Read, Spoken, PlainLine
  <2>2. Starts(s) = s
    BY <2>1 DEF Starts, IsParsing, Judging
  <2>3. Judging(end, user, pass, passed + n)
    BY <1>0, <2>1, <2>2, PieceJudging
  <2> QED BY <1>1, <1>5, <2>3 DEF Read, Judging
<1>6. CASE turn \in {"over", "talk"}
  <2>1. Spent(s, line, passed) /\ ~FoundIn(USER, line, 0)
    BY <1>6 DEF Read, PlainLine
  <2>2. Typed(Starts(s)) /\ Spent(Starts(s), line, passed) /\ Starts(s).state # "ok"
    BY <2>1, StartsSpent
  <2>3. Spent(end, line, passed + n) /\ end.state # "ok"
    BY <1>0, <2>1, <2>2, PieceSpent
  <2> QED BY <1>1, <1>6, <2>3 DEF Read
<1> QED BY <1>2, <1>3, <1>4, <1>5, <1>6 DEF Spoken, Read

(* The sniffer at the end of a line, when the next one is said. *)
LEMMA HasPassed ==
  ASSUME Typed(sniffer), Spoken, taken = Len(line), passed = Len(line), Read(sniffer, passed)
  PROVE  /\ turn = "user" => Expects(sniffer)
         /\ turn \in {"reply", "pass"} => Knows(sniffer, user)
         /\ turn = "verdict" => Judged(sniffer, user, pass)
         /\ turn \in {"over", "talk"} => Idle(sniffer)
<1>t. PICK w \in Seq(Char) : line = Line(w)
  BY SpokenText DEF Read
<1>1. CASE turn = "reply"
  <2>1. /\ Seeking(sniffer, user, line, Len(line)) \/ Naming(sniffer, user, Len(line))
        /\ user \in Texts /\ line = Line(USER \o user)
    BY <1>1 DEF Read, Spoken
  <2> QED BY <1>t, <1>1, <2>1, NamingEnds, SeekingEnd
<1>2. CASE turn = "verdict"
  BY <1>2 DEF Read, Judging, Judged
<1>3. CASE turn = "user"
  <2>1. Looks(sniffer, line, Len(line))
    BY <1>3 DEF Read
  <2> QED BY <1>3, <2>1, LooksEnd
<1>4. CASE turn = "pass"
  <2>1. Seeking(sniffer, user, line, Len(line))
    BY <1>4 DEF Read
  <2> QED BY <1>t, <1>4, <2>1, SeekingEnd
<1>5. CASE turn \in {"over", "talk"}
  <2>1. Spent(sniffer, line, Len(line))
    BY <1>5 DEF Read
  <2> QED BY <1>t, <1>5, <2>1, SpentEnd
<1> QED BY <1>1, <1>2, <1>3, <1>4, <1>5

(* What is listed of a login. *)
LEMMA TextShows ==
  ASSUME NEW kept \in Seq(Kind), NEW name, NEW tail \in Seq(Kind), NEW t \in Seq(Char),
         name = Cut(t), name \in Seq(Kind), kept = name \o tail,
         Len(name) # MaxText => tail = <<>>
  PROVE  HasText(kept, t)
<1>0. MaxText \in Nat /\ Len(t) \in Nat /\ Len(name) = Room(Len(t)) /\ Len(name) \in Nat
  BY Words, CutIs
<1>1. CASE Len(t) < MaxText
  <2>1. name = t /\ Len(name) # MaxText
    BY <1>0, <1>1 DEF Cut
  <2>2. kept = t
    BY <2>1
  <2> QED BY <1>1, <2>2 DEF HasText
<1>2. CASE ~(Len(t) < MaxText)
  <2>1. Len(name) = MaxText
    BY <1>0, <1>2 DEF Room
  <2>2. Len(kept) >= MaxText /\ SubSeq(kept, 1, MaxText) = name
    BY <1>0, <2>1
  <2> QED BY <1>2, <2>2 DEF HasText
<1> QED BY <1>1, <1>2

LEMMA ListedIs ==
  ASSUME NEW s, Typed(s)
  PROVE  \E after, passwd, tail \in Seq(Kind) :
           /\ s.username \in Seq(Kind) /\ s.passwd \in Seq(Kind)
           /\ passwd = s.passwd \o after /\ (Len(s.passwd) # MaxText => after = <<>>)
           /\ Len(s.username) # MaxText => tail = <<>>
           /\ Listed(s) = <<s.username \o tail, passwd>>
<1> DEFINE after == IF Len(s.passwd) = MaxText THEN <<Counter>> ELSE <<>>
           passwd == s.passwd \o after
           tail == IF Len(s.username) = MaxText THEN passwd ELSE <<>>
<1>0. s.username \in Seq(Char) /\ s.passwd \in Seq(Char)
  BY DEF Typed, Rec
<1>1. s.username \in Seq(Kind) /\ s.passwd \in Seq(Kind) /\ after \in Seq(Kind) /\ <<>> \in Seq(Kind)
  <2>1. \A t \in Seq(Char) : t \in Seq(Kind)
    BY DEF Kind
  <2>2. <<Counter>> \in Seq(Kind) /\ <<>> \in Seq(Kind)
    <3>1. Counter \in Kind
      BY DEF Kind
    <3> QED BY <3>1
  <2> QED BY <1>0, <2>1, <2>2
<1>2. Len(s.passwd) # MaxText => after = <<>>
  OBVIOUS
<1> HIDE DEF after
<1>3. passwd \in Seq(Kind)
  BY <1>1
<1>4. Listed(s) = <<s.username \o tail, passwd>>
  BY DEF Listed, after
<1> HIDE DEF passwd
<1>5. tail \in Seq(Kind) /\ (Len(s.username) # MaxText => tail = <<>>)
  BY <1>1, <1>3
<1> HIDE DEF tail
<1> QED BY <1>1, <1>2, <1>3, <1>4, <1>5 DEF passwd

LEMMA ListedEntry ==
  ASSUME NEW s, Typed(s)
  PROVE  Listed(s) \in Entry
<1>1. PICK after, passwd, tail \in Seq(Kind) :
           /\ s.username \in Seq(Kind)
           /\ Listed(s) = <<s.username \o tail, passwd>>
  BY ListedIs
<1> DEFINE name == s.username \o tail
<1>2. name \in Seq(Kind)
  BY <1>1
<1>3. Listed(s) = <<name, passwd>>
  BY <1>1
<1> HIDE DEF name
<1> QED BY <1>2, <1>3 DEF Entry

LEMMA ListedShows ==
  ASSUME NEW s, Typed(s), NEW u \in Texts, NEW p \in Texts, Logged(s, u, p)
  PROVE  Shows(Listed(s), <<u, p>>)
<1>1. PICK after, passwd, tail \in Seq(Kind) :
           /\ s.username \in Seq(Kind) /\ s.passwd \in Seq(Kind)
           /\ passwd = s.passwd \o after /\ (Len(s.passwd) # MaxText => after = <<>>)
           /\ Len(s.username) # MaxText => tail = <<>>
           /\ Listed(s) = <<s.username \o tail, passwd>>
  BY ListedIs
<1> DEFINE name == s.username \o tail
<1>2. name \in Seq(Kind) /\ u \in Seq(Char) /\ p \in Seq(Char)
  BY <1>1, Lines
<1>3. HasText(passwd, p)
  BY <1>1, <1>2, TextShows DEF Logged
<1>4. HasText(name, u)
  BY <1>1, <1>2, TextShows DEF Logged
<1>5. Listed(s) = <<name, passwd>>
  BY <1>1
<1> HIDE DEF name
<1> QED BY <1>3, <1>4, <1>5 DEF Shows

(* What is listed, after one more login was accepted or listed. *)
LEMMA ShowingMore ==
  ASSUME NEW l, NEW logins, NEW n \in Nat, Showing(l, logins, n)
  PROVE  Showing(l, logins, n + 1)
<1>1. PICK which \in [1..Len(l) -> 1..n] :
        /\ \A i \in 1..Len(l) : Shows(l[(Len(l) + 1) - i], logins[which[i]])
        /\ \A i \in 1..(Len(l) - 1) : which[i] < which[i + 1]
  BY DEF Showing
<1>2. which \in [1..Len(l) -> 1..(n + 1)]
  <2>1. \A i \in 1..Len(l) : which[i] \in 1..(n + 1)
    OBVIOUS
  <2> QED BY <2>1
<1> QED BY <1>1, <1>2 DEF Showing

LEMMA ShowingAppend ==
  ASSUME NEW l, NEW S, NEW logins \in Seq(S), NEW login,
         Showing(l, logins, Len(logins))
  PROVE  Showing(l, Append(logins, login), Len(logins))
<1> DEFINE more == Append(logins, login)
<1>1. \A i \in 1..Len(logins) : more[i] = logins[i]
  OBVIOUS
<1>2. PICK which \in [1..Len(l) -> 1..Len(logins)] :
        /\ \A i \in 1..Len(l) : Shows(l[(Len(l) + 1) - i], logins[which[i]])
        /\ \A i \in 1..(Len(l) - 1) : which[i] < which[i + 1]
  BY DEF Showing
<1> HIDE DEF more
<1>3. \A i \in 1..Len(l) : more[which[i]] = logins[which[i]]
  BY <1>1
<1>4. \A i \in 1..Len(l) : Shows(l[(Len(l) + 1) - i], more[which[i]])
  BY <1>2, <1>3
<1>5. Showing(l, more, Len(logins))
  BY <1>2, <1>4 DEF Showing
<1> QED BY <1>5 DEF more

LEMMA InsertIs ==
  ASSUME NEW S, NEW l \in Seq(S), NEW e \in S, NEW m, m = Insert(l, e)
  PROVE  /\ m \in Seq(S) /\ Len(m) = Len(l) + 1 /\ Len(l) \in Nat /\ m[1] = e /\ m # <<>>
         /\ \A i \in 1..Len(l) : m[i + 1] = l[i]
BY DEF Insert

LEMMA ShowingInsert ==
  ASSUME NEW S, NEW l \in Seq(S), NEW logins, NEW n \in Nat, Showing(l, logins, n),
         NEW e \in S, Shows(e, logins[n + 1]), NEW m, m = Insert(l, e)
  PROVE  Showing(m, logins, n + 1)
<1> DEFINE k == Len(l)
<1>1. /\ Len(m) = k + 1 /\ k \in Nat /\ m[1] = e /\ \A i \in 1..k : m[i + 1] = l[i]
  BY DEF Insert
<1>2. PICK which \in [1..k -> 1..n] :
        /\ \A i \in 1..k : Shows(l[(k + 1) - i], logins[which[i]])
        /\ \A i \in 1..(k - 1) : which[i] < which[i + 1]
  BY DEF Showing
<1> DEFINE to == [i \in 1..(k + 1) |-> IF i = k + 1 THEN n + 1 ELSE which[i]]
<1>3. \A i \in 1..k : which[i] \in 1..n
  OBVIOUS
<1>4. \A i \in 1..(k + 1) : to[i] = IF i = k + 1 THEN n + 1 ELSE which[i]
  OBVIOUS
<1>5. to \in [1..(k + 1) -> 1..(n + 1)]
  <2>1. \A i \in 1..(k + 1) : to[i] \in 1..(n + 1)
    BY <1>3, <1>4
  <2> QED BY <2>1
<1> HIDE DEF k, to
<1>6. \A i \in 1..(k + 1) : Shows(m[((k + 1) + 1) - i], logins[to[i]])
  <2>1. SUFFICES ASSUME NEW i \in 1..(k + 1) PROVE Shows(m[((k + 1) + 1) - i], logins[to[i]])
    OBVIOUS
  <2>2. CASE i = k + 1
    <3>1. ((k + 1) + 1) - i = 1 /\ to[i] = n + 1
      BY <1>1, <1>4, <2>2
    <3>2. m[((k + 1) + 1) - i] = e
      BY <1>1, <3>1
    <3> QED BY <3>1, <3>2
  <2>3. CASE i # k + 1
    <3>1. i \in 1..k /\ (k + 1) - i \in 1..k /\ ((k + 1) - i) + 1 = ((k + 1) + 1) - i
      BY <1>1, <2>3
    <3>2. m[((k + 1) + 1) - i] = l[(k + 1) - i] /\ to[i] = which[i]
      BY <1>1, <1>4, <2>3, <3>1
    <3>3. Shows(l[(k + 1) - i], logins[which[i]])
      BY <1>2, <3>1
    <3> QED BY <3>2, <3>3
  <2> QED BY <2>2, <2>3
<1>7. \A i \in 1..((k + 1) - 1) : to[i] < to[i + 1]
  <2>1. SUFFICES ASSUME NEW i \in 1..k PROVE to[i] < to[i + 1]
    BY <1>1
  <2>2. to[i] = which[i] /\ which[i] \in 1..n /\ i + 1 \in 1..(k + 1)
    BY <1>1, <1>3, <1>4
  <2>3. CASE i = k
    <3>1. to[i + 1] = n + 1
      BY <1>4, <2>2, <2>3
    <3> QED BY <2>2, <3>1
  <2>4. CASE i # k
    <3>1. to[i + 1] = which[i + 1] /\ i \in 1..(k - 1)
      BY <1>1, <1>4, <2>2, <2>4
    <3> QED BY <1>2, <2>2, <3>1
  <2> QED BY <2>3, <2>4
<1> QED BY <1>1, <1>5, <1>6, <1>7 DEF Showing

LEMMA RecentIs ==
  ASSUME NEW S, NEW l \in Seq(S), NEW b \in Nat, b <= Len(l),
         NEW r, r = SubSeq(l, 1, Len(l) - b)
  PROVE  r \in Seq(S) /\ Len(r) = Len(l) - b /\ \A i \in 1..(Len(l) - b) : r[i] = l[i]
<1> DEFINE n == Len(l) - b
<1>0. n \in Nat /\ n <= Len(l)
  OBVIOUS
<1> HIDE DEF n
<1>1. SubSeq(l, 1, n) \in Seq(S) /\ Len(SubSeq(l, 1, n)) = n
      /\ \A i \in 1..n : SubSeq(l, 1, n)[i] = l[i]
  BY <1>0
<1> QED BY <1>1 DEF n

LEMMA RecentInsert ==
  ASSUME NEW S, NEW l \in Seq(S), NEW b \in Nat, b <= Len(l), NEW e \in S, NEW m, m = Insert(l, e)
  PROVE  SubSeq(m, 1, Len(m) - b) = Insert(SubSeq(l, 1, Len(l) - b), e)
<1> DEFINE r == SubSeq(l, 1, Len(l) - b)
           q == SubSeq(m, 1, Len(m) - b)
           x == Insert(r, e)
           n == Len(l) - b
<1>1. /\ m \in Seq(S) /\ Len(m) = Len(l) + 1 /\ Len(l) \in Nat /\ m[1] = e
      /\ \A i \in 1..Len(l) : m[i + 1] = l[i]
  <2> HIDE DEF r, q, x, n
  <2> QED BY DEF Insert
<1>2. r \in Seq(S) /\ Len(r) = n /\ \A i \in 1..n : r[i] = l[i]
  BY RecentIs
<1>3. b <= Len(m) /\ Len(m) - b = n + 1 /\ n \in Nat
  BY <1>1
<1>4. q \in Seq(S) /\ Len(q) = n + 1 /\ \A i \in 1..(n + 1) : q[i] = m[i]
  <2>1. q \in Seq(S) /\ Len(q) = Len(m) - b /\ \A i \in 1..(Len(m) - b) : q[i] = m[i]
    BY <1>1, <1>3, RecentIs
  <2> HIDE DEF q, n
  <2> QED BY <1>3, <2>1
<1> HIDE DEF r
<1>5. x \in Seq(S) /\ Len(x) = n + 1 /\ x[1] = e /\ \A i \in 1..n : x[i + 1] = r[i]
  <2>1. r \in Seq(S) /\ x = Insert(r, e)
    BY <1>2
  <2> HIDE DEF x, n
  <2>2. x \in Seq(S) /\ Len(x) = Len(r) + 1 /\ x[1] = e /\ \A i \in 1..Len(r) : x[i + 1] = r[i]
    <3> HIDE DEF r
    <3> QED BY <2>1 DEF Insert
  <2> QED BY <1>2, <2>2
<1> HIDE DEF q, x
<1>6. ASSUME NEW i \in 1..(n + 1) PROVE q[i] = x[i]
  <2>1. CASE i = 1
    BY <1>1, <1>4, <1>5, <2>1
  <2>2. CASE i # 1
    <3>1. i - 1 \in 1..n /\ i - 1 \in 1..Len(l) /\ (i - 1) + 1 = i
      BY <1>3, <2>2
    <3>2. x[i] = r[i - 1] /\ m[i] = l[i - 1]
      BY <1>1, <1>5, <3>1
    <3> QED BY <1>2, <1>4, <3>1, <3>2
  <2> QED BY <2>1, <2>2
<1>7. q = x
  <2> HIDE DEF n
  <2> QED BY <1>4, <1>5, <1>6, SeqEqual
<1> QED BY <1>7 DEF q, x, r

LEMMA EndingIs ==
  ASSUME NEW S, NEW l \in Seq(S), NEW n \in Nat, n <= Len(l)
  PROVE  /\ Ending(l, n) \in Seq(S) /\ Len(Ending(l, n)) = n
         /\ \A i \in 1..n : Ending(l, n)[i] = l[(Len(l) - n) + i]
BY DEF Ending

LEMMA EndingInsert ==
  ASSUME NEW S, NEW l \in Seq(S), NEW n \in Nat, n <= Len(l), NEW e \in S, NEW m, m = Insert(l, e)
  PROVE  Ending(m, n) = Ending(l, n)
<1>1. m \in Seq(S) /\ Len(m) = Len(l) + 1 /\ Len(l) \in Nat /\ \A i \in 1..Len(l) : m[i + 1] = l[i]
  BY DEF Insert
<1> DEFINE a == Ending(m, n)
           b == Ending(l, n)
<1>2. n <= Len(m)
  BY <1>1
<1>3. /\ a \in Seq(S) /\ Len(a) = n /\ \A i \in 1..n : a[i] = m[(Len(m) - n) + i]
      /\ b \in Seq(S) /\ Len(b) = n /\ \A i \in 1..n : b[i] = l[(Len(l) - n) + i]
  <2>1. /\ b \in Seq(S) /\ Len(b) = n /\ \A i \in 1..n : b[i] = l[(Len(l) - n) + i]
    BY EndingIs, Zenon
  <2>2. /\ a \in Seq(S) /\ Len(a) = n /\ \A i \in 1..n : a[i] = m[(Len(m) - n) + i]
    <3>1. m \in Seq(S)
      BY <1>1
    <3> QED BY <1>2, <3>1, EndingIs, Zenon
  <2> QED BY <2>1, <2>2
<1> HIDE DEF a, b
<1>4. \A i \in 1..n : a[i] = b[i]
  <2>1. SUFFICES ASSUME NEW i \in 1..n PROVE a[i] = b[i]
    OBVIOUS
  <2>2. (Len(l) - n) + i \in 1..Len(l) /\ (Len(m) - n) + i = ((Len(l) - n) + i) + 1
    BY <1>1
  <2> QED BY <1>1, <1>3, <2>2
<1>5. a = b
  BY <1>3, <1>4, SeqEqual
<1> QED BY <1>5 DEF a, b

LEMMA PageInsert ==
  ASSUME NEW S, NEW l \in Seq(S), NEW at \in Nat, NEW sh \in Seq(S), NEW pg, Page(l, at, sh, pg),
         NEW e \in S, NEW m, m = Insert(l, e)
  PROVE  Page(m, at, sh, pg)
<1>1. Len(m) = Len(l) + 1 /\ Len(l) \in Nat /\ Len(sh) \in Nat
  BY InsertIs
<1>2. Len(sh) + at \in Nat
  BY <1>1
<1>3. Ending(m, Len(sh) + at) = Ending(l, Len(sh) + at)
  BY <1>2, EndingInsert DEF Page
<1>4. at <= Len(m) /\ Len(sh) + at <= Len(m)
  BY <1>1, <1>2 DEF Page
<1> QED BY <1>3, <1>4 DEF Page

-----------------------------------------------------------------------------
(* What is written of a text and of an entry. *)
LEMMA ShortenedIs ==
  ASSUME NEW t \in Seq(Kind)
  PROVE  Shortened(t, t) /\ \A n \in 0..Len(t) : Shortened(SubSeq(t, 1, n), t)
<1>1. t = SubSeq(t, 1, Len(t)) /\ Len(t) \in 0..Len(t)
  OBVIOUS
<1> QED BY <1>1 DEF Shortened

LEMMA FitIs ==
  ASSUME NEW t \in Seq(Kind), NEW n \in Nat, NEW spare \in Nat, NEW f, f = Fit(t, n, spare)
  PROVE  /\ f \in Seq(Kind) /\ Shortened(f, t)
         /\ Behind(t, n, spare) \in Nat /\ Behind(t, n, spare) > n
         /\ f = t \/ Behind(t, n, spare) > PageSize - spare
<1> DEFINE room == PageSize - spare
           k == IF n <= room THEN room - n ELSE 0
<1>0. PageSize \in Nat /\ Len(t) \in Nat /\ room \in Int
  BY SnifferAssumption
<1>1. Behind(t, n, spare) = (n + Len(f)) + 1
  BY DEF Behind
<1>2. f = IF n + Len(t) <= room THEN t ELSE SubSeq(t, 1, k)
  BY DEF Fit
<1> HIDE DEF room
<1>3. CASE n + Len(t) <= room
  <2>1. f = t
    BY <1>2, <1>3
  <2> QED BY <1>0, <1>1, <2>1, ShortenedIs
<1>4. CASE ~(n + Len(t) <= room)
  <2>1. k \in 0..Len(t) /\ k \in Nat /\ k <= Len(t)
    BY <1>0, <1>4
  <2>2. n + k >= room /\ f = SubSeq(t, 1, k)
    BY <1>0, <1>2, <1>4
  <2> HIDE DEF k
  <2>3. f \in Seq(Kind) /\ Len(f) = k
    BY <2>1, <2>2
  <2>4. Shortened(f, t)
    BY <2>1, <2>2, ShortenedIs
  <2>5. (n + k) + 1 \in Nat /\ (n + k) + 1 > n /\ (n + k) + 1 > room
    BY <1>0, <2>1, <2>2
  <2>6. Behind(t, n, spare) = (n + k) + 1
    BY <1>1, <2>3
  <2> QED BY <2>3, <2>4, <2>5, <2>6 DEF room
<1> QED BY <1>3, <1>4

LEMMA WrittenIs ==
  ASSUME NEW e \in Entry, NEW addr \in Seq(Kind), NEW n \in Nat, NEW w, w = Written(e, n)
  PROVE  /\ w \in Entry /\ Shortened(w[1], e[1]) /\ Shortened(w[2], e[2])
         /\ EntryEnd(e, addr, n) \in Nat /\ EntryEnd(e, addr, n) >= n + 4
         /\ w = e \/ EntryEnd(e, addr, n) >= PageSize - 1
<1> DEFINE a == UserAt(e, n)
           b == PassAt(e, n)
           c == AddressAt(e, n)
           d == EntryEnd(e, addr, n)
           f == Fit(e[1], a, 3)
           g == Fit(e[2], b, 3)
<1>0. e[1] \in Seq(Kind) /\ e[2] \in Seq(Kind) /\ e = <<e[1], e[2]>> /\ PageSize \in Nat
  BY SnifferAssumption DEF Entry
<1>1. a = Behind(e[1], n, 3) /\ b = Behind(e[1], a, 3) /\ c = Behind(e[2], b, 3)
      /\ d = Behind(addr, c, 2) /\ w = <<f, g>>
  BY DEF UserAt, PassAt, AddressAt, EntryEnd, Written
<1> HIDE DEF a, b, c, d
<1>2. 2 \in Nat /\ 3 \in Nat
  OBVIOUS
<1>3. a \in Nat /\ a > n
  BY <1>0, <1>1, <1>2, FitIs
<1>4. /\ f \in Seq(Kind) /\ Shortened(f, e[1]) /\ b \in Nat /\ b > a
      /\ f = e[1] \/ b > PageSize - 3
  BY <1>0, <1>1, <1>2, <1>3, FitIs
<1>5. /\ g \in Seq(Kind) /\ Shortened(g, e[2]) /\ c \in Nat /\ c > b
      /\ g = e[2] \/ c > PageSize - 3
  BY <1>0, <1>1, <1>2, <1>4, FitIs
<1>6. d \in Nat /\ d > c
  BY <1>1, <1>2, <1>5, FitIs
<1> HIDE DEF f, g
<1>7. w \in Entry /\ w[1] = f /\ w[2] = g
  BY <1>1, <1>4, <1>5 DEF Entry
<1>8. d >= n + 4
  BY <1>3, <1>4, <1>5, <1>6
<1>9. w = e \/ d >= PageSize - 1
  <2>1. CASE f = e[1] /\ g = e[2]
    BY <1>0, <1>1, <2>1
  <2>2. CASE f # e[1]
    BY <1>0, <1>4, <1>5, <1>6, <2>2
  <2>3. CASE g # e[2]
    BY <1>0, <1>5, <1>6, <2>3
  <2> QED BY <2>1, <2>2, <2>3
<1> QED BY <1>4, <1>5, <1>6, <1>7, <1>8, <1>9 DEF d

(* Where each entry of a reply ends: the recursive function of GetPop3Pass. *)
Fills(ends, l, at, addr, n) ==
  ends = [i \in 0..n |-> IF i = 0 THEN 0 ELSE EntryEnd(l[at + i], addr[i], ends[i - 1])]

LEMMA FillsExists ==
  ASSUME NEW l, NEW at, NEW addr, NEW n \in Nat
  PROVE  \E ends : Fills(ends, l, at, addr, n)
<1> DEFINE G == {k \in Nat : \E ends : Fills(ends, l, at, addr, k)}
<1>1. 0 \in G
  <2>1. Fills([i \in 0..0 |-> 0], l, at, addr, 0)
    BY DEF Fills
  <2> QED BY <2>1
<1>2. ASSUME NEW k \in 0..(n - 1), k \in G PROVE k + 1 \in G
  <2>1. PICK f : Fills(f, l, at, addr, k)
    BY <1>2
  <2> DEFINE E(i, x) == EntryEnd(l[at + i], addr[i], x)
             g == [i \in 0..(k + 1) |-> IF i = k + 1 THEN E(i, f[k]) ELSE f[i]]
  <2> HIDE DEF E
  <2>2. ASSUME NEW i \in 0..(k + 1)
        PROVE  g[i] = IF i = 0 THEN 0 ELSE E(i, g[i - 1])
    <3>1. CASE i = k + 1
      <4>1. g[i] = E(i, f[k]) /\ g[k] = f[k]
        BY <3>1
      <4> QED BY <3>1, <4>1
    <3>2. CASE i # k + 1 /\ i # 0
      <4>1. i \in 0..k /\ i - 1 \in 0..k
        BY <3>2
      <4>2. g[i] = f[i] /\ g[i - 1] = f[i - 1]
        BY <3>2, <4>1
      <4>3. f[i] = E(i, f[i - 1])
        BY <2>1, <3>2, <4>1 DEF Fills, E
      <4> QED BY <3>2, <4>2, <4>3
    <3>3. CASE i = 0
      <4>1. f[0] = 0
        BY <2>1 DEF Fills
      <4> QED BY <3>3, <4>1
    <3> QED BY <3>1, <3>2, <3>3
  <2>3. Fills(g, l, at, addr, k + 1)
    BY <2>2 DEF Fills, E
  <2> QED BY <2>3
<1>3. n \in G
  <2> HIDE DEF G
  <2> QED BY <1>1, <1>2, UpTo
<1> QED BY <1>3

(* A reply: each entry follows the last, and ends past the reply's end if it is
   cut before its last byte but one. *)
LEMMA EndsAre ==
  ASSUME NEW l \in Seq(Entry), NEW at \in Nat, NEW n \in Nat, at + n <= Len(l),
         NEW addr \in [1..n -> Addresses], NEW ends, Fills(ends, l, at, addr, n)
  PROVE  \A i \in 1..n :
           /\ ends[i - 1] \in Nat /\ ends[i] \in Nat /\ ends[i] >= ends[i - 1] + 4
           /\ ends[i] = EntryEnd(l[at + i], addr[i], ends[i - 1])
           /\ l[at + i] \in Entry /\ addr[i] \in Seq(Kind)
<1>1. ASSUME NEW i \in 1..n
      PROVE  /\ l[at + i] \in Entry /\ addr[i] \in Seq(Kind)
             /\ ends[i] = EntryEnd(l[at + i], addr[i], ends[i - 1])
  <2>1. l[at + i] \in Entry
    OBVIOUS
  <2>2. addr[i] \in Seq(Char)
    BY Words
  <2>3. addr[i] \in Seq(Kind)
    BY <2>2 DEF Kind
  <2>4. i \in 0..n /\ i # 0
    OBVIOUS
  <2>5. ends[i] = EntryEnd(l[at + i], addr[i], ends[i - 1])
    BY <2>4 DEF Fills
  <2> QED BY <2>1, <2>3, <2>5
<1> DEFINE G == {i \in 0..n : ends[i] \in Nat}
<1>2. 0 \in G
  BY DEF Fills
<1>3. ASSUME NEW i \in 0..(n - 1), i \in G PROVE i + 1 \in G
  <2>1. i + 1 \in 1..n /\ i + 1 \in 0..n /\ (i + 1) - 1 = i
    OBVIOUS
  <2>2. ends[i] \in Nat
    BY <1>3
  <2> DEFINE e == l[at + (i + 1)]
             a == addr[i + 1]
  <2>3. e \in Entry /\ a \in Seq(Kind) /\ ends[i + 1] = EntryEnd(e, a, ends[i])
    BY <1>1, <2>1
  <2> HIDE DEF e, a
  <2>4. EntryEnd(e, a, ends[i]) \in Nat
    BY <2>2, <2>3, WrittenIs
  <2>5. ends[i + 1] \in Nat
    BY <2>3, <2>4
  <2> QED BY <2>1, <2>5
<1>4. \A i \in 0..n : ends[i] \in Nat
  <2>1. \A i \in 0..n : i \in G
    <3> HIDE DEF G
    <3> QED BY <1>2, <1>3, UpTo
  <2> QED BY <2>1
<1>5. ASSUME NEW i \in 1..n
      PROVE  ends[i - 1] \in Nat /\ ends[i] \in Nat /\ ends[i] >= ends[i - 1] + 4
  <2>1. i - 1 \in 0..n /\ i \in 0..n
    OBVIOUS
  <2>2. ends[i - 1] \in Nat /\ ends[i] \in Nat
    BY <1>4, <2>1
  <2> QED BY <1>1, <2>2, WrittenIs
<1> QED BY <1>1, <1>5

Replied(l, at, ends, last) ==
  \A k \in 1..last :
    /\ Written(l[at + k], ends[k - 1]) \in Entry
    /\ Shortened(Written(l[at + k], ends[k - 1])[1], l[at + k][1])
    /\ Shortened(Written(l[at + k], ends[k - 1])[2], l[at + k][2])
    /\ k <= last - 2 => Written(l[at + k], ends[k - 1]) = l[at + k]

LEMMA EntriesShown ==
  ASSUME NEW l \in Seq(Entry), NEW at \in Nat, NEW n \in Nat, at + n <= Len(l),
         NEW addr \in [1..n -> Addresses], NEW ends, Fills(ends, l, at, addr, n),
         NEW last \in 1..n, \A i \in 1..(last - 1) : ends[i] < PageSize
  PROVE  Replied(l, at, ends, last)
<1> SUFFICES ASSUME NEW k \in 1..last
             PROVE  /\ Written(l[at + k], ends[k - 1]) \in Entry
                    /\ Shortened(Written(l[at + k], ends[k - 1])[1], l[at + k][1])
                    /\ Shortened(Written(l[at + k], ends[k - 1])[2], l[at + k][2])
                    /\ k <= last - 2 => Written(l[at + k], ends[k - 1]) = l[at + k]
  BY DEF Replied
<1>1. k \in 1..n /\ PageSize \in Nat
  BY SnifferAssumption
<1>2. \A i \in 1..n :
        /\ ends[i - 1] \in Nat /\ ends[i] \in Nat /\ ends[i] >= ends[i - 1] + 4
        /\ ends[i] = EntryEnd(l[at + i], addr[i], ends[i - 1])
        /\ l[at + i] \in Entry /\ addr[i] \in Seq(Kind)
  BY EndsAre
<1> DEFINE e == l[at + k]
           w == Written(e, ends[k - 1])
<1>3. ends[k - 1] \in Nat /\ e \in Entry /\ addr[k] \in Seq(Kind)
      /\ ends[k] = EntryEnd(e, addr[k], ends[k - 1])
  BY <1>1, <1>2
<1>4. /\ w \in Entry /\ Shortened(w[1], e[1]) /\ Shortened(w[2], e[2])
      /\ w = e \/ ends[k] >= PageSize - 1
  <2> DEFINE x == ends[k - 1]
             a == addr[k]
             v == Written(e, x)
  <2>1. x \in Nat /\ e \in Entry /\ a \in Seq(Kind) /\ ends[k] = EntryEnd(e, a, x) /\ w = v
    BY <1>3
  <2> HIDE DEF e, w, x, a, v
  <2>2. v = Written(e, x)
    BY DEF v
  <2>3. /\ v \in Entry /\ Shortened(v[1], e[1]) /\ Shortened(v[2], e[2])
        /\ v = e \/ EntryEnd(e, a, x) >= PageSize - 1
    BY <2>1, <2>2, WrittenIs
  <2> QED BY <2>1, <2>3
<1>5. ASSUME k <= last - 2 PROVE w = e
  <2>1. k + 1 \in 1..n /\ k + 1 \in 1..(last - 1) /\ (k + 1) - 1 = k
    BY <1>5
  <2>2. ends[k + 1] < PageSize /\ ends[k + 1] >= ends[k] + 4 /\ ends[k] \in Nat /\ ends[k + 1] \in Nat
    BY <1>1, <1>2, <2>1
  <2>3. ~(ends[k] >= PageSize - 1)
    BY <1>1, <2>2
  <2> QED BY <1>4, <2>3
<1> QED BY <1>4, <1>5

Reply(l, at, ends, last) == [i \in 1..last |-> Written(l[at + i], ends[i - 1])]

Replying(l, from, at, addr, ends, last, sh0) ==
  /\ l \in Seq(Entry) /\ from \in Nat /\ at = Len(l) - from
  /\ addr \in [1..from -> Addresses] /\ Fills(ends, l, at, addr, from)
  /\ last \in 1..from /\ \A i \in 1..(last - 1) : ends[i] < PageSize
  /\ sh0 \in Seq(Entry) /\ \E pg : Page(l, from, sh0, pg)

LEMMA PageShown ==
  ASSUME NEW l, NEW from, NEW at, NEW addr, NEW ends, NEW last,
         NEW sh0, Replying(l, from, at, addr, ends, last, sh0)
  PROVE  /\ sh0 \o Reply(l, at, ends, last) \in Seq(Entry)
         /\ Page(l, from - last, sh0 \o Reply(l, at, ends, last), Len(sh0))
<1> DEFINE sh == sh0 \o Reply(l, at, ends, last)
           new == [i \in 1..last |-> Written(l[at + i], ends[i - 1])]
           m == Len(sh0)
           all == Ending(l, m + from)
<1>0. /\ l \in Seq(Entry) /\ from \in Nat /\ at = Len(l) - from
      /\ addr \in [1..from -> Addresses] /\ Fills(ends, l, at, addr, from)
      /\ last \in 1..from /\ \A i \in 1..(last - 1) : ends[i] < PageSize
      /\ sh0 \in Seq(Entry)
  BY DEF Replying
<1>p. PICK pg : Page(l, from, sh0, pg)
  BY DEF Replying
<1> HIDE DEF sh
<1>1. /\ Len(l) \in Nat /\ m \in Nat /\ at \in Nat /\ at + from = Len(l) /\ last \in Nat
      /\ last <= from /\ from - last \in Nat /\ from - last <= Len(l) /\ m + from <= Len(l)
      /\ (m + last) + (from - last) = m + from /\ m + from \in Nat
  <2>1. from <= Len(l) /\ m + from <= Len(l)
    BY <1>p DEF Page
  <2> QED BY <1>0, <2>1
<1>2. \A k \in 1..last :
        /\ Written(l[at + k], ends[k - 1]) \in Entry
        /\ Shortened(Written(l[at + k], ends[k - 1])[1], l[at + k][1])
        /\ Shortened(Written(l[at + k], ends[k - 1])[2], l[at + k][2])
        /\ k <= last - 2 => Written(l[at + k], ends[k - 1]) = l[at + k]
  <2>1. at + from <= Len(l) /\ at \in Nat
    BY <1>1
  <2>2. from \in Nat /\ last \in 1..from
    BY <1>0
  <2> HIDE DEF new, m, all
  <2>3. Replied(l, at, ends, last)
    BY <1>0, <2>1, <2>2, EntriesShown
  <2> QED BY <2>3 DEF Replied
<1>3. \A k \in 1..last : new[k] = Written(l[at + k], ends[k - 1])
  OBVIOUS
<1>4. new \in Seq(Entry) /\ Len(new) = last
  BY <1>1, <1>2
<1> HIDE DEF new
<1>5. /\ sh \in Seq(Entry) /\ Len(sh) = m + last
      /\ \A i \in 1..m : sh[i] = sh0[i]
      /\ \A k \in 1..last : sh[m + k] = new[k]
  <2>1. sh = sh0 \o new
    BY DEF sh, new, Reply
  <2>2. sh \in Seq(Entry) /\ Len(sh) = Len(sh0) + last
    <3>1. sh0 \o new \in Seq(Entry) /\ Len(sh0 \o new) = Len(sh0) + Len(new)
      BY <1>0, <1>4, ConcatProperties
    <3> QED BY <1>4, <2>1, <3>1
  <2>3. \A i \in 1..Len(sh0) : sh[i] = sh0[i]
    BY <1>0, <1>4, <2>1
  <2>4. \A k \in 1..last : sh[Len(sh0) + k] = new[k]
    <3>1. SUFFICES ASSUME NEW k \in 1..last PROVE sh[Len(sh0) + k] = new[k]
      OBVIOUS
    <3>2. Len(sh0) \in Nat /\ last \in Nat /\ k \in Nat
      BY <1>1
    <3>3. k + Len(sh0) \in Nat /\ Len(sh0) < Len(sh0) + k /\ Len(sh0) + k <= Len(sh0) + last
          /\ (Len(sh0) + k) - Len(sh0) = k
      BY <3>2
    <3>4. Len(sh0) + k \in 1..(Len(sh0) + Len(new)) /\ ~(Len(sh0) + k <= Len(sh0))
      BY <1>4, <3>2, <3>3
    <3>5. new \in Seq(Entry)
      BY <1>4
    <3>6. (sh0 \o new)[Len(sh0) + k] = new[(Len(sh0) + k) - Len(sh0)]
      BY <1>0, <3>4, <3>5, ConcatProperties
    <3> QED BY <2>1, <3>3, <3>6
  <2> QED BY <2>2, <2>3, <2>4
<1>6. \A i \in 1..(m + from) : all[i] = l[(Len(l) - (m + from)) + i]
  BY <1>0, <1>1, EndingIs
<1>7. \A i \in 1..m : Shortened(sh0[i][1], all[i][1]) /\ Shortened(sh0[i][2], all[i][2])
  BY <1>p DEF Page
<1> HIDE DEF all, m
<1>8. ASSUME NEW i \in 1..(m + last)
      PROVE  /\ Shortened(sh[i][1], all[i][1]) /\ Shortened(sh[i][2], all[i][2])
             /\ i \in (m + 1)..((m + last) - 2) => sh[i] = all[i]
  <2>1. CASE i <= m
    <3>1. i \in 1..m /\ i \notin (m + 1)..((m + last) - 2)
      BY <1>1, <2>1
    <3> QED BY <1>5, <1>7, <3>1
  <2>2. CASE ~(i <= m)
    <3> DEFINE k == i - m
    <3>1. k \in 1..last /\ m + k = i /\ i \in 1..(m + from) /\ (Len(l) - (m + from)) + i = at + k
          /\ (i \in (m + 1)..((m + last) - 2) => k <= last - 2)
      BY <1>0, <1>1, <2>2
    <3> HIDE DEF k
    <3>2. sh[i] = Written(l[at + k], ends[k - 1]) /\ all[i] = l[at + k]
      BY <1>3, <1>5, <1>6, <3>1
    <3> QED BY <1>2, <3>1, <3>2
  <2> QED BY <2>1, <2>2
<1>9. Len(sh) + (from - last) = m + from
  BY <1>1, <1>5
<1>10. Page(l, from - last, sh, m)
  BY <1>1, <1>5, <1>8, <1>9 DEF Page, all
<1> QED BY <1>5, <1>10 DEF m, sh

-----------------------------------------------------------------------------
(* The invariant holds at the start, and every step keeps it. *)
LEMMA ShowingNone ==
  ASSUME NEW logins
  PROVE  Showing(<<>>, logins, 0)
<1> DEFINE which == [i \in 1..0 |-> 0]
<1>1. which \in [1..Len(<<>>) -> 1..0]
  OBVIOUS
<1>2. /\ \A i \in 1..Len(<<>>) : Shows(<<>>[(Len(<<>>) + 1) - i], logins[which[i]])
      /\ \A i \in 1..(Len(<<>>) - 1) : which[i] < which[i + 1]
  OBVIOUS
<1> QED BY <1>1, <1>2 DEF Showing

LEMMA InitIInv == Init => IInv
<1> SUFFICES ASSUME Init PROVE IInv
  OBVIOUS
<1>1. Typed(sniffer) /\ enabled \in BOOLEAN /\ plain \in BOOLEAN
  BY ZeroedTyped DEF Init
<1>2. Histories
  BY DEF Init, Histories
<1>3. Spoken
  BY DEF Init, Spoken
<1>4. Sniffed
  BY DEF Init, Sniffed, Unread
<1>5. Answered /\ LoginCaptured /\ PlainLine
  BY DEF Init, Answered, LoginCaptured, PlainLine
<1>6. Captured
  <2>1. Len(list) = 0 /\ Len(accepted) = 0 /\ turn # "over"
    BY DEF Init
  <2>2. Recent = <<>>
    BY DEF Init, Recent
  <2>3. Showing(Recent, accepted, Len(accepted))
    BY <2>1, <2>2, ShowingNone
  <2> QED BY <2>1, <2>3 DEF Captured
<1>7. Paged
  BY DEF Init, Paged, Page
<1> QED BY <1>1, <1>2, <1>3, <1>4, <1>5, <1>6, <1>7 DEF IInv, Plainly

LEMMA AcceptedIs ==
  ASSUME Histories, Answered, turn = "over"
  PROVE  /\ Len(accepted) \in Nat /\ Len(accepted) - 1 \in Nat
         /\ (Len(accepted) - 1) + 1 = Len(accepted)
         /\ accepted[Len(accepted)] = <<user, pass>>
BY DEF Histories, Answered

(* Between two lines, and while one is received, the logins listed are some of
   those accepted. *)
LEMMA RecentShows ==
  ASSUME Histories, Answered, Captured
  PROVE  Showing(Recent, accepted, Len(accepted))
<1>1. CASE turn = "over" /\ taken = 0
  <2>1. Showing(Recent, accepted, Len(accepted) - 1)
    BY <1>1 DEF Captured
  <2> QED BY <1>1, <2>1, AcceptedIs, ShowingMore
<1>2. CASE ~(turn = "over" /\ taken = 0)
  BY <1>2 DEF Captured
<1> QED BY <1>1, <1>2

(* A piece of a line that is seen, whatever is in it. *)
LEMMA SniffKeeps ==
  ASSUME Typed(sniffer), enabled \in BOOLEAN, Histories, Paged, Spoken,
         NEW from \in Nat, NEW n \in Nat, from + n <= Len(line),
         Sniff(SubSeq(line, from + 1, from + n)),
         iter' = iter, shown' = shown, page' = page, before' = before, accepted' = accepted
  PROVE  Typed(sniffer)' /\ Histories' /\ Paged'
<1> DEFINE end == Consumed(Starts(sniffer), SubSeq(line, from + 1, from + n))
<1>1. CASE ~enabled
  <2>1. sniffer' = sniffer /\ list' = list
    BY <1>1 DEF Sniff
  <2> QED BY <2>1 DEF Histories, Paged
<1>2. CASE enabled
  <2>1. /\ sniffer' = end
        /\ list' = IF end.state = "ok" THEN Insert(list, Listed(end)) ELSE list
    BY <1>2 DEF Sniff, Starts
  <2>2. Typed(end)
    <3>1. line \in Seq(Bytes) /\ Typed(Starts(sniffer))
      BY SpokenBytes, StartsTyped
    <3> QED BY <3>1, PieceTyped
  <2> HIDE DEF end
  <2>3. CASE end.state # "ok"
    <3>1. list' = list
      BY <2>1, <2>3
    <3> QED BY <2>1, <2>2, <3>1 DEF Histories, Paged
  <2>4. CASE end.state = "ok"
    <3> DEFINE e == Listed(end)
    <3>1. e \in Entry /\ list' = Insert(list, e)
      BY <2>1, <2>2, <2>4, ListedEntry
    <3> HIDE DEF e
    <3>2. list \in Seq(Entry) /\ shown \in Seq(Entry) /\ iter \in Nat /\ before \in Nat
          /\ before <= Len(list)
      BY DEF Histories
    <3>3. list' \in Seq(Entry) /\ Len(list') = Len(list) + 1 /\ Len(list) \in Nat
      BY <3>1, <3>2 DEF Insert
    <3>4. Histories'
      <4>1. before <= Len(list')
        BY <3>2, <3>3
      <4> QED BY <3>3, <4>1 DEF Histories
    <3>5. Page(list', iter, shown, page)
      BY <3>1, <3>2, PageInsert DEF Paged
    <3> QED BY <2>1, <2>2, <3>4, <3>5 DEF Paged
  <2> QED BY <2>3, <2>4
<1> QED BY <1>1, <1>2

(* A login that is listed when its answer is received. *)
LEMMA LoginListed ==
  ASSUME Histories, Answered, Captured, turn = "over", taken = 0,
         NEW e \in Entry, Shows(e, <<user, pass>>), list' = Insert(list, e),
         before' = before, accepted' = accepted
  PROVE  /\ Showing(Recent', accepted', Len(accepted'))
         /\ Len(list') > before' /\ Shows(list'[1], accepted'[Len(accepted')])
<1> DEFINE n == Len(accepted) - 1
<1>1. list \in Seq(Entry) /\ before \in Nat /\ before <= Len(list) /\ Len(list) \in Nat
  BY DEF Histories
<1>2. n \in Nat /\ n + 1 = Len(accepted) /\ accepted[n + 1] = <<user, pass>>
  BY AcceptedIs
<1>3. Showing(Recent, accepted, n)
  BY DEF Captured
<1> HIDE DEF n
<1>4. Recent \in Seq(Entry)
  BY <1>1, RecentIs DEF Recent
<1>5. SubSeq(list', 1, Len(list') - before) = Insert(Recent, e)
  BY <1>1, RecentInsert DEF Recent
<1>6. Recent' = Insert(Recent, e)
  BY <1>5 DEF Recent
<1>7. Showing(Recent', accepted, n + 1)
  BY <1>2, <1>3, <1>4, <1>6, ShowingInsert
<1>8. Len(list') = Len(list) + 1 /\ list'[1] = e
  BY <1>1 DEF Insert
<1>9. Len(list') > before'
  BY <1>1, <1>8
<1> QED BY <1>2, <1>7, <1>8, <1>9

(* The rest of a line is received. *)
LEMMA CopyReadIInv == IInv /\ CopyRead => IInv'
<1> SUFFICES ASSUME IInv, CopyRead PROVE IInv'
  OBVIOUS
<1>0. Typed(sniffer) /\ enabled \in BOOLEAN /\ plain \in BOOLEAN /\ Histories /\ Spoken /\ Paged
  BY DEF IInv
<1>1. /\ taken < Len(line) /\ taken' = Len(line) /\ Sniff(SubSeq(line, taken + 1, Len(line)))
      /\ enabled' = enabled /\ iter' = iter /\ shown' = shown /\ page' = page /\ passed' = passed
      /\ turn' = turn /\ user' = user /\ pass' = pass /\ line' = line /\ accepted' = accepted
      /\ plain' = plain /\ before' = before
  BY DEF CopyRead, dialogue
<1>2. line \in Seq(Bytes) /\ Len(line) \in Nat
  BY <1>0, SpokenBytes
<1>3. taken = 0 /\ passed = 0 /\ Len(line) # 0 /\ turn # "greeting"
  BY <1>0, <1>1, <1>2 DEF Spoken
<1>4. Spoken'
  BY <1>0, <1>1, <1>2, <1>3 DEF Spoken
<1>5. taken' # 0 /\ taken' = Len(line')
  BY <1>1, <1>3
<1>6. Sniff(SubSeq(line, 1, Len(line))) /\ Sniff(SubSeq(line, 0 + 1, 0 + Len(line)))
  <2>1. taken + 1 = 1 /\ 0 + Len(line) = Len(line) /\ 0 + 1 = 1
    BY <1>2, <1>3
  <2> QED BY <1>1, <2>1
<1>7. Typed(sniffer)' /\ Histories' /\ Paged'
  <2>1. 0 \in Nat /\ 0 + Len(line) <= Len(line)
    BY <1>2
  <2> QED BY <1>0, <1>1, <1>2, <1>6, <2>1, SniffKeeps
<1>8. ASSUME plain PROVE Plainly'
  <2>0. Sniffed /\ Answered /\ Captured /\ LoginCaptured /\ PlainLine
    BY <1>8 DEF IInv, Plainly
  <2>1. Answered' /\ PlainLine'
    BY <1>1, <2>0 DEF Answered, PlainLine
  <2>2. CASE ~enabled
    <3>1. list' = list
      BY <1>1, <2>2 DEF Sniff
    <3>2. Sniffed' /\ LoginCaptured'
      BY <1>1, <2>2 DEF Sniffed, LoginCaptured
    <3>3. Showing(Recent, accepted, Len(accepted))
      BY <1>0, <2>0, RecentShows
    <3>4. Recent' = Recent
      BY <1>1, <3>1 DEF Recent
    <3>5. Captured'
      BY <1>1, <1>5, <3>3, <3>4 DEF Captured
    <3> QED BY <2>1, <3>2, <3>5 DEF Plainly
  <2>3. CASE enabled
    <3> DEFINE end == Consumed(Starts(sniffer), SubSeq(line, 1, Len(line)))
    <3>1. /\ sniffer' = end
          /\ list' = IF end.state = "ok" THEN Insert(list, Listed(end)) ELSE list
      BY <1>6, <2>3 DEF Sniff, Starts
    <3>2. Unread(sniffer)
      BY <1>3, <2>0, <2>3 DEF Sniffed
    <3>3. /\ Typed(end) /\ Read(end, 0)
          /\ turn = "over" => end.state = "ok" /\ Logged(end, user, pass)
          /\ turn # "over" => end.state # "ok"
      BY <1>0, <1>3, <2>0, <3>2, ReadsOn
    <3> HIDE DEF end
    <3>4. Sniffed'
      BY <1>1, <1>3, <1>5, <3>1, <3>3 DEF Sniffed, Read
    <3>5. CASE turn = "over"
      <4> DEFINE e == Listed(end)
      <4>1. user \in Texts /\ pass \in Texts
        BY <1>0, <3>5 DEF Spoken
      <4>2. e \in Entry /\ Shows(e, <<user, pass>>) /\ list' = Insert(list, e)
        BY <3>1, <3>3, <3>5, <4>1, ListedEntry, ListedShows
      <4> HIDE DEF e
      <4>3. /\ Showing(Recent', accepted', Len(accepted'))
            /\ Len(list') > before' /\ Shows(list'[1], accepted'[Len(accepted')])
        BY <1>0, <1>1, <1>3, <2>0, <3>5, <4>2, LoginListed
      <4>4. Captured' /\ LoginCaptured'
        BY <1>5, <4>3 DEF Captured, LoginCaptured
      <4> QED BY <2>1, <3>4, <4>4 DEF Plainly
    <3>6. CASE turn # "over"
      <4>1. list' = list
        BY <3>1, <3>3, <3>6
      <4>2. Recent' = Recent
        BY <1>1, <4>1 DEF Recent
      <4>3. Captured'
        BY <1>1, <1>5, <2>0, <3>6, <4>2 DEF Captured
      <4>4. LoginCaptured'
        BY <1>1, <2>0, <3>6, <4>1 DEF LoginCaptured
      <4> QED BY <2>1, <3>4, <4>3, <4>4 DEF Plainly
    <3> QED BY <3>5, <3>6
  <2> QED BY <1>0, <2>2, <2>3
<1> QED BY <1>0, <1>1, <1>4, <1>7, <1>8 DEF IInv

(* A piece of it is passed on. *)
LEMMA CopyWriteIInv == IInv /\ CopyWrite => IInv'
<1> SUFFICES ASSUME IInv, CopyWrite PROVE IInv'
  OBVIOUS
<1>0. Typed(sniffer) /\ enabled \in BOOLEAN /\ plain \in BOOLEAN /\ Histories /\ Spoken /\ Paged
  BY DEF IInv
<1>1. PICK n \in 1..(taken - passed) :
        Sniff(SubSeq(line, passed + 1, passed + n)) /\ passed' = passed + n
  BY DEF CopyWrite
<1>2. /\ taken' = taken /\ enabled' = enabled /\ iter' = iter /\ shown' = shown /\ page' = page
      /\ turn' = turn /\ user' = user /\ pass' = pass /\ line' = line /\ accepted' = accepted
      /\ plain' = plain /\ before' = before
  BY DEF CopyWrite, dialogue
<1>3. line \in Seq(Bytes) /\ Len(line) \in Nat
  BY <1>0, SpokenBytes
<1>4. /\ taken = Len(line) /\ taken # 0 /\ passed \in Nat /\ passed + n \in 0..taken /\ n \in Nat
      /\ passed + n <= Len(line)
  BY <1>0, <1>1, <1>3 DEF Spoken
<1>5. Spoken'
  <2>1. passed' \in 0..taken' /\ taken' \in {0, Len(line')}
    BY <1>1, <1>2, <1>4
  <2> QED BY <1>0, <1>2, <2>1 DEF Spoken
<1>6. Typed(sniffer)' /\ Histories' /\ Paged'
  BY <1>0, <1>1, <1>2, <1>4, SniffKeeps
<1>7. ASSUME plain PROVE Plainly'
  <2>0. Sniffed /\ Answered /\ Captured /\ LoginCaptured /\ PlainLine
    BY <1>7 DEF IInv, Plainly
  <2>1. list' = list /\ Sniffed'
    <3>1. CASE ~enabled
      <4>1. list' = list
        BY <1>1, <3>1 DEF Sniff
      <4> QED BY <1>2, <3>1, <4>1 DEF Sniffed
    <3>2. CASE enabled
      <4> DEFINE end == Consumed(Starts(sniffer), SubSeq(line, passed + 1, passed + n))
      <4>1. /\ sniffer' = end
            /\ list' = IF end.state = "ok" THEN Insert(list, Listed(end)) ELSE list
        BY <1>1, <3>2 DEF Sniff, Starts
      <4>2. Read(sniffer, passed)
        BY <1>4, <2>0, <3>2 DEF Sniffed
      <4>3. Read(end, passed + n) /\ end.state # "ok"
        BY <1>0, <1>4, <2>0, <4>2, PassesOn
      <4> HIDE DEF end
      <4>4. Sniffed'
        BY <1>1, <1>2, <1>4, <4>1, <4>3 DEF Sniffed, Read
      <4> QED BY <4>1, <4>3, <4>4
    <3> QED BY <1>0, <3>1, <3>2
  <2>2. Answered' /\ LoginCaptured' /\ PlainLine'
    BY <1>2, <2>0, <2>1 DEF Answered, LoginCaptured, PlainLine
  <2>3. Recent' = Recent
    BY <1>2, <2>1 DEF Recent
  <2>4. Captured'
    BY <1>2, <2>0, <2>3 DEF Captured
  <2> QED BY <2>1, <2>2, <2>4 DEF Plainly
<1> QED BY <1>0, <1>2, <1>5, <1>6, <1>7 DEF IInv

(* A page is shown. *)
LEMMA GetPop3PassIs ==
  ASSUME GetPop3Pass, NEW from, from = (IF iter = 0 THEN Len(list) ELSE iter), from \in Nat
  PROVE  \E addr, ends, last :
           /\ addr \in [1..from -> Addresses] /\ Fills(ends, list, Len(list) - from, addr, from)
           /\ last \in 1..from /\ \A i \in 1..(last - 1) : ends[i] < PageSize
           /\ iter' = from - last
           /\ page' = IF iter = 0 THEN 0 ELSE Len(shown)
           /\ shown' = (IF iter = 0 THEN <<>> ELSE shown) \o Reply(list, Len(list) - from, ends, last)
           /\ UNCHANGED <<sniffer, enabled, list, taken, passed, dialogue>>
<1> DEFINE F == IF iter = 0 THEN Len(list) ELSE iter
           at == Len(list) - F
           Ends(addr) == CHOOSE f : Fills(f, list, at, addr, F)
<1>1. PICK addr \in [1..F -> Addresses] :
        LET n[i \in 0..F] == IF i = 0 THEN 0 ELSE EntryEnd(list[at + i], addr[i], n[i - 1])
        IN \E last \in 1..F :
             /\ last = F \/ n[last] >= PageSize
             /\ \A i \in 1..(last - 1) : n[i] < PageSize
             /\ iter' = F - last
             /\ page' = IF iter = 0 THEN 0 ELSE Len(shown)
             /\ shown' = (IF iter = 0 THEN <<>> ELSE shown)
                           \o [i \in 1..last |-> Written(list[at + i], n[i - 1])]
             /\ UNCHANGED <<sniffer, enabled, list, taken, passed, dialogue>>
  BY Zenon DEF GetPop3Pass
<1>2. from = F
  OBVIOUS
<1> HIDE DEF F, at
<1> DEFINE ends == Ends(addr)
<1>3. Fills(ends, list, at, addr, F)
  BY <1>2, FillsExists
<1>4. PICK last \in 1..F :
        /\ \A i \in 1..(last - 1) : ends[i] < PageSize
        /\ iter' = F - last
        /\ page' = IF iter = 0 THEN 0 ELSE Len(shown)
        /\ shown' = (IF iter = 0 THEN <<>> ELSE shown)
                      \o [i \in 1..last |-> Written(list[at + i], ends[i - 1])]
        /\ UNCHANGED <<sniffer, enabled, list, taken, passed, dialogue>>
  BY <1>1 DEF Fills
<1> HIDE DEF Ends, ends
<1>5. at = Len(list) - from
  BY <1>2 DEF at
<1> QED BY <1>2, <1>3, <1>4, <1>5 DEF Reply

LEMMA GetPop3PassIInv == IInv /\ GetPop3Pass => IInv'
<1> SUFFICES ASSUME IInv, GetPop3Pass PROVE IInv'
  OBVIOUS
<1> DEFINE from == IF iter = 0 THEN Len(list) ELSE iter
           at == Len(list) - from
           sh0 == IF iter = 0 THEN <<>> ELSE shown
<1>0. Typed(sniffer) /\ enabled \in BOOLEAN /\ plain \in BOOLEAN /\ Histories /\ Spoken /\ Paged
  BY DEF IInv
<1>1. /\ list \in Seq(Entry) /\ shown \in Seq(Entry) /\ iter \in Nat /\ page \in Nat
      /\ Len(list) \in Nat /\ Len(shown) \in Nat /\ iter <= Len(list)
  BY <1>0 DEF Histories, Paged, Page
<1>2. PICK addr, ends, last :
        /\ addr \in [1..from -> Addresses] /\ Fills(ends, list, at, addr, from)
        /\ last \in 1..from /\ \A i \in 1..(last - 1) : ends[i] < PageSize
        /\ iter' = from - last
        /\ page' = IF iter = 0 THEN 0 ELSE Len(shown)
        /\ shown' = sh0 \o Reply(list, at, ends, last)
        /\ UNCHANGED <<sniffer, enabled, list, taken, passed, dialogue>>
  BY <1>1, GetPop3PassIs
<1>3. from \in Nat /\ from <= Len(list)
  BY <1>1
<1>6. /\ sniffer' = sniffer /\ enabled' = enabled /\ list' = list /\ taken' = taken /\ passed' = passed
      /\ turn' = turn /\ user' = user /\ pass' = pass /\ line' = line /\ accepted' = accepted
      /\ plain' = plain /\ before' = before
  BY <1>2 DEF dialogue
<1>7. sh0 \in Seq(Entry) /\ page' = Len(sh0) /\ page' \in Nat
  <2>1. CASE iter = 0
    BY <1>2, <2>1
  <2>2. CASE iter # 0
    BY <1>1, <1>2, <2>2
  <2> QED BY <2>1, <2>2
<1>8. \E pg : Page(list, from, sh0, pg)
  <2>1. CASE iter = 0
    <3>1. Page(list, Len(list), <<>>, 0)
      BY <1>1 DEF Page
    <3> QED BY <2>1, <3>1
  <2>2. CASE iter # 0
    <3>1. Page(list, iter, shown, page)
      BY <1>0 DEF Paged
    <3> QED BY <2>2, <3>1
  <2> QED BY <2>1, <2>2
<1>9. Replying(list, from, at, addr, ends, last, sh0)
  <2>1. at = Len(list) - from
    OBVIOUS
  <2> HIDE DEF from, at, sh0
  <2> QED BY <1>1, <1>2, <1>3, <1>7, <1>8, <2>1 DEF Replying
<1>10. shown' \in Seq(Entry) /\ Page(list, from - last, shown', Len(sh0))
  <2> HIDE DEF from, at, sh0
  <2> QED BY <1>2, <1>9, PageShown
<1> HIDE DEF from, at, sh0
<1>11. Paged' /\ Histories'
  <2>1. from - last \in Nat
    BY <1>2, <1>3
  <2>2. iter' \in Nat
    BY <1>2, <2>1
  <2>3. Paged'
    BY <1>2, <1>6, <1>7, <1>10 DEF Paged
  <2> QED BY <1>0, <1>6, <1>7, <1>10, <2>2, <2>3 DEF Histories
<1>12. Typed(sniffer)' /\ Spoken' /\ (plain => Plainly)'
  <2>1. Typed(sniffer)' /\ Spoken'
    BY <1>0, <1>6 DEF Spoken
  <2>2. ASSUME plain PROVE Plainly'
    <3>0. Sniffed /\ Answered /\ Captured /\ LoginCaptured /\ PlainLine
      BY <2>2 DEF IInv, Plainly
    <3>1. Sniffed'
      BY <1>6, <3>0 DEF Sniffed, Unread, Read
    <3>2. Answered' /\ LoginCaptured' /\ PlainLine'
      BY <1>6, <3>0 DEF Answered, LoginCaptured, PlainLine
    <3>3. Recent' = Recent
      BY <1>6 DEF Recent
    <3>4. Captured'
      BY <1>6, <3>0, <3>3 DEF Captured
    <3> QED BY <3>1, <3>2, <3>4 DEF Plainly
  <2> QED BY <1>6, <2>1, <2>2
<1> QED BY <1>0, <1>6, <1>11, <1>12 DEF IInv

(* What holds whoever speaks. *)
Same ==
  /\ sniffer' = sniffer /\ enabled' = enabled /\ list' = list /\ iter' = iter
  /\ shown' = shown /\ page' = page /\ before' = before

LEMMA SaysIs ==
  ASSUME IInv, NEW who, NEW text \in Seq(Char), NEW next, NEW plainly,
         Says(who, text, next, plainly)
  PROVE  /\ turn = who /\ line' = Line(text) /\ taken' = 0 /\ passed' = 0 /\ turn' = next
         /\ Same /\ plain' = (plain /\ plainly)
         /\ Len(line') \in Nat /\ Len(line') # 0
         /\ who # "greeting" => taken = Len(line) /\ passed = Len(line) /\ taken # 0
         /\ who # "greeting" /\ plain /\ enabled => Read(sniffer, passed)
         /\ plain => Showing(Recent', accepted, Len(accepted))
         /\ Typed(sniffer)' /\ enabled' \in BOOLEAN /\ plain' \in BOOLEAN /\ Paged'
<1>0. Typed(sniffer) /\ enabled \in BOOLEAN /\ plain \in BOOLEAN /\ Histories /\ Spoken /\ Paged
  BY DEF IInv
<1>1. /\ turn = who /\ passed = Len(line) /\ line' = Line(text) /\ taken' = 0 /\ passed' = 0 /\ turn' = next
      /\ sniffer' = sniffer /\ enabled' = enabled /\ list' = list /\ iter' = iter /\ shown' = shown
      /\ page' = page /\ before' = before /\ plain' = (plain /\ plainly)
  BY DEF Says, pages
<1>2. Len(line') \in Nat /\ Len(line') # 0
  <2>1. Len(Line(text)) = Len(text) + 1 /\ Len(text) \in Nat
    BY LineIs
  <2> QED BY <1>1, <2>1
<1>3. who # "greeting" => taken = Len(line) /\ passed = Len(line) /\ taken # 0
  <2>1. Len(line) \in Nat /\ (turn # "greeting" => Len(line) # 0)
    BY <1>0, SpokenBytes
  <2> QED BY <1>0, <1>1, <2>1 DEF Spoken
<1>4. who # "greeting" /\ plain /\ enabled => Read(sniffer, passed)
  BY <1>1, <1>3 DEF IInv, Plainly, Sniffed
<1>5. plain => Showing(Recent', accepted, Len(accepted))
  <2> SUFFICES ASSUME plain PROVE Showing(Recent', accepted, Len(accepted))
    OBVIOUS
  <2>1. Answered /\ Captured
    BY DEF IInv, Plainly
  <2>2. Recent' = Recent
    BY <1>1 DEF Recent
  <2> QED BY <1>0, <2>1, <2>2, RecentShows
<1>6. Paged' /\ plain' \in BOOLEAN
  BY <1>0, <1>1 DEF Paged
<1> QED BY <1>0, <1>1, <1>2, <1>3, <1>4, <1>5, <1>6 DEF Same

(* A line has no keyword if its text has none. *)
LEMMA SaysPlainly ==
  ASSUME NEW text \in Seq(Char), NEW keyword, Word(keyword), ~Finds(keyword, text)
  PROVE  ~FoundIn(keyword, Line(text), 0)
BY NotFound

LEMMA GreetsIInv == IInv /\ Greets => IInv'
<1> SUFFICES ASSUME IInv, Greets PROVE IInv'
  OBVIOUS
<1>0. Typed(sniffer) /\ Histories /\ Spoken /\ Word(USER) /\ Word(PASS)
  BY Words DEF IInv
<1>1. PICK r \in Remarks : /\ Says("greeting", OK \o r, "user", ~Finds(USER, OK \o r))
                       /\ user' = user /\ pass' = pass /\ accepted' = accepted
  BY DEF Greets
<1> DEFINE text == OK \o r
           plainly == ~Finds(USER, OK \o r)
<1>2. text \in Seq(Char)
  BY Lines
<1>3. /\ turn = "greeting" /\ line' = Line(text) /\ taken' = 0 /\ passed' = 0 /\ turn' = "user"
      /\ Same /\ plain' = (plain /\ plainly)
      /\ Len(line') \in Nat /\ Len(line') # 0
      /\ plain => Showing(Recent', accepted, Len(accepted))
      /\ Typed(sniffer)' /\ enabled' \in BOOLEAN /\ plain' \in BOOLEAN /\ Paged'
  <2>1. Says("greeting", text, "user", plainly)
    BY <1>1
  <2> HIDE DEF text, plainly
  <2> QED BY <1>2, <2>1, SaysIs
<1>4. Histories'
  BY <1>0, <1>1, <1>3 DEF Histories, Same
<1>5. Spoken'
  BY <1>0, <1>1, <1>3 DEF Spoken
<1>6. ASSUME plain' PROVE Plainly'
  <2>0. plain /\ plainly
    BY <1>3, <1>6
  <2>1. Sniffed'
    <3>1. taken = 0
      BY <1>0, <1>3 DEF Spoken
    <3>2. Sniffed
      BY <2>0 DEF IInv, Plainly
    <3>3. \E w \in Remarks : line' = Line(OK \o w)
      BY <1>3
    <3> HIDE DEF text, plainly
    <3> QED BY <1>3, <3>1, <3>2, <3>3 DEF Sniffed, Unread, Same
  <2>2. Answered'
    BY <1>1, <1>3 DEF Answered
  <2>3. LoginCaptured'
    BY <1>3 DEF LoginCaptured
  <2>4. Captured'
    BY <1>1, <1>3, <2>0 DEF Captured
  <2>5. PlainLine'
    <3>1. ~FoundIn(USER, line', 0)
      BY <1>0, <1>2, <1>3, <2>0, SaysPlainly
    <3> HIDE DEF text, plainly
    <3> QED BY <1>3, <3>1 DEF PlainLine
  <2> QED BY <2>1, <2>2, <2>3, <2>4, <2>5 DEF Plainly
<1> QED BY <1>3, <1>4, <1>5, <1>6 DEF IInv

LEMMA SendsUserIInv == IInv /\ SendsUser => IInv'
<1> SUFFICES ASSUME IInv, SendsUser PROVE IInv'
  OBVIOUS
<1>0. Typed(sniffer) /\ Histories /\ Spoken /\ Word(USER) /\ Word(PASS)
  BY Words DEF IInv
<1>1. PICK t \in Texts : /\ Says("user", USER \o t, "reply", PlainName(t))
                       /\ user' = t /\ pass' = pass /\ accepted' = accepted
  BY DEF SendsUser
<1> DEFINE text == USER \o t
           plainly == PlainName(t)
<1>2. text \in Seq(Char)
  BY Lines
<1>3. /\ turn = "user" /\ line' = Line(text) /\ taken' = 0 /\ passed' = 0 /\ turn' = "reply"
      /\ Same /\ plain' = (plain /\ plainly)
      /\ Len(line') \in Nat /\ Len(line') # 0
      /\ taken = Len(line) /\ passed = Len(line) /\ (plain /\ enabled => Read(sniffer, passed))
      /\ plain => Showing(Recent', accepted, Len(accepted))
      /\ Typed(sniffer)' /\ enabled' \in BOOLEAN /\ plain' \in BOOLEAN /\ Paged'
  <2>1. Says("user", text, "reply", plainly)
    BY <1>1
  <2> HIDE DEF text, plainly
  <2> QED BY <1>2, <2>1, SaysIs
<1>4. Histories'
  BY <1>0, <1>1, <1>3 DEF Histories, Same
<1>5. Spoken'
  BY <1>0, <1>1, <1>3 DEF Spoken
<1>6. ASSUME plain' PROVE Plainly'
  <2>0. plain /\ plainly
    BY <1>3, <1>6
  <2>1. Sniffed'
    <3>1. enabled => Expects(sniffer)
      BY <1>0, <1>3, <2>0, HasPassed
    <3> QED BY <1>1, <1>3, <3>1 DEF Sniffed, Unread, Same
  <2>2. Answered'
    BY <1>1, <1>3 DEF Answered
  <2>3. LoginCaptured'
    BY <1>3 DEF LoginCaptured
  <2>4. Captured'
    BY <1>1, <1>3, <2>0 DEF Captured
  <2>5. PlainLine'
    BY <1>1, <1>3, <2>0 DEF PlainLine
  <2> QED BY <2>1, <2>2, <2>3, <2>4, <2>5 DEF Plainly
<1> QED BY <1>3, <1>4, <1>5, <1>6 DEF IInv

LEMMA TakesUserIInv == IInv /\ TakesUser => IInv'
<1> SUFFICES ASSUME IInv, TakesUser PROVE IInv'
  OBVIOUS
<1>0. Typed(sniffer) /\ Histories /\ Spoken /\ Word(USER) /\ Word(PASS)
  BY Words DEF IInv
<1>1. PICK r \in Remarks : /\ Says("reply", OK \o r, "pass", ~Finds(PASS, OK \o r))
                       /\ user' = user /\ pass' = pass /\ accepted' = accepted
  BY DEF TakesUser
<1> DEFINE text == OK \o r
           plainly == ~Finds(PASS, OK \o r)
<1>2. text \in Seq(Char)
  BY Lines
<1>3. /\ turn = "reply" /\ line' = Line(text) /\ taken' = 0 /\ passed' = 0 /\ turn' = "pass"
      /\ Same /\ plain' = (plain /\ plainly)
      /\ Len(line') \in Nat /\ Len(line') # 0
      /\ taken = Len(line) /\ passed = Len(line) /\ (plain /\ enabled => Read(sniffer, passed))
      /\ plain => Showing(Recent', accepted, Len(accepted))
      /\ Typed(sniffer)' /\ enabled' \in BOOLEAN /\ plain' \in BOOLEAN /\ Paged'
  <2>1. Says("reply", text, "pass", plainly)
    BY <1>1
  <2> HIDE DEF text, plainly
  <2> QED BY <1>2, <2>1, SaysIs
<1>4. Histories'
  BY <1>0, <1>1, <1>3 DEF Histories, Same
<1>5. Spoken'
  BY <1>0, <1>1, <1>3 DEF Spoken
<1>6. ASSUME plain' PROVE Plainly'
  <2>0. plain /\ plainly
    BY <1>3, <1>6
  <2>1. Sniffed'
    <3>1. enabled => Knows(sniffer, user)
      BY <1>0, <1>3, <2>0, HasPassed
    <3> QED BY <1>1, <1>3, <3>1 DEF Sniffed, Unread, Same
  <2>2. Answered'
    BY <1>1, <1>3 DEF Answered
  <2>3. LoginCaptured'
    BY <1>3 DEF LoginCaptured
  <2>4. Captured'
    BY <1>1, <1>3, <2>0 DEF Captured
  <2>5. PlainLine'
    <3>1. ~FoundIn(PASS, line', 0)
      BY <1>0, <1>2, <1>3, <2>0, SaysPlainly
    <3> HIDE DEF text, plainly
    <3> QED BY <1>3, <3>1 DEF PlainLine
  <2> QED BY <2>1, <2>2, <2>3, <2>4, <2>5 DEF Plainly
<1> QED BY <1>3, <1>4, <1>5, <1>6 DEF IInv

(* From then on nothing is said of what is listed in this tunnel. *)
LEMMA RefusesUserIInv == IInv /\ RefusesUser => IInv'
<1> SUFFICES ASSUME IInv, RefusesUser PROVE IInv'
  OBVIOUS
<1>0. Histories /\ Spoken
  BY DEF IInv
<1>1. PICK r \in Remarks : /\ Says("reply", ERR \o r, "user", FALSE)
                           /\ user' = user /\ pass' = pass /\ accepted' = accepted
  BY DEF RefusesUser
<1> DEFINE text == ERR \o r
<1>2. text \in Seq(Char)
  BY Lines
<1>3. /\ turn = "reply" /\ line' = Line(text) /\ taken' = 0 /\ passed' = 0 /\ turn' = "user"
      /\ Same /\ plain' = FALSE
      /\ Typed(sniffer)' /\ enabled' \in BOOLEAN /\ plain' \in BOOLEAN /\ Paged'
  <2>1. Says("reply", text, "user", FALSE)
    BY <1>1
  <2> HIDE DEF text
  <2> QED BY <1>2, <2>1, SaysIs
<1>4. Histories'
  BY <1>0, <1>1, <1>3 DEF Histories, Same
<1>5. Spoken'
  BY <1>0, <1>1, <1>3 DEF Spoken
<1> QED BY <1>3, <1>4, <1>5 DEF IInv

LEMMA SendsPassIInv == IInv /\ SendsPass => IInv'
<1> SUFFICES ASSUME IInv, SendsPass PROVE IInv'
  OBVIOUS
<1>0. Typed(sniffer) /\ Histories /\ Spoken /\ Word(USER) /\ Word(PASS)
  BY Words DEF IInv
<1>1. PICK t \in Texts : /\ Says("pass", PASS \o t, "verdict", PlainPassword(t))
                       /\ pass' = t /\ user' = user /\ accepted' = accepted
  BY DEF SendsPass
<1> DEFINE text == PASS \o t
           plainly == PlainPassword(t)
<1>2. text \in Seq(Char)
  BY Lines
<1>3. /\ turn = "pass" /\ line' = Line(text) /\ taken' = 0 /\ passed' = 0 /\ turn' = "verdict"
      /\ Same /\ plain' = (plain /\ plainly)
      /\ Len(line') \in Nat /\ Len(line') # 0
      /\ taken = Len(line) /\ passed = Len(line) /\ (plain /\ enabled => Read(sniffer, passed))
      /\ plain => Showing(Recent', accepted, Len(accepted))
      /\ Typed(sniffer)' /\ enabled' \in BOOLEAN /\ plain' \in BOOLEAN /\ Paged'
  <2>1. Says("pass", text, "verdict", plainly)
    BY <1>1
  <2> HIDE DEF text, plainly
  <2> QED BY <1>2, <2>1, SaysIs
<1>4. Histories'
  BY <1>0, <1>1, <1>3 DEF Histories, Same
<1>5. Spoken'
  BY <1>0, <1>1, <1>3 DEF Spoken
<1>6. ASSUME plain' PROVE Plainly'
  <2>0. plain /\ plainly
    BY <1>3, <1>6
  <2>1. Sniffed'
    <3>1. enabled => Knows(sniffer, user)
      BY <1>0, <1>3, <2>0, HasPassed
    <3> QED BY <1>1, <1>3, <3>1 DEF Sniffed, Unread, Same
  <2>2. Answered'
    BY <1>1, <1>3 DEF Answered
  <2>3. LoginCaptured'
    BY <1>3 DEF LoginCaptured
  <2>4. Captured'
    BY <1>1, <1>3, <2>0 DEF Captured
  <2>5. PlainLine'
    BY <1>1, <1>3, <2>0 DEF PlainLine
  <2> QED BY <2>1, <2>2, <2>3, <2>4, <2>5 DEF Plainly
<1> QED BY <1>3, <1>4, <1>5, <1>6 DEF IInv

LEMMA AcceptsIInv == IInv /\ Accepts => IInv'
<1> SUFFICES ASSUME IInv, Accepts PROVE IInv'
  OBVIOUS
<1>0. Typed(sniffer) /\ Histories /\ Spoken /\ Word(USER) /\ Word(PASS)
  BY Words DEF IInv
<1>1. PICK r \in Remarks : /\ Says("verdict", OK \o r, "over", ~Finds(USER, OK \o r))
                       /\ user' = user /\ pass' = pass /\ accepted' = Append(accepted, <<user, pass>>)
  BY DEF Accepts
<1> DEFINE text == OK \o r
           plainly == ~Finds(USER, OK \o r)
<1>2. text \in Seq(Char)
  BY Lines
<1>3. /\ turn = "verdict" /\ line' = Line(text) /\ taken' = 0 /\ passed' = 0 /\ turn' = "over"
      /\ Same /\ plain' = (plain /\ plainly)
      /\ Len(line') \in Nat /\ Len(line') # 0
      /\ taken = Len(line) /\ passed = Len(line) /\ (plain /\ enabled => Read(sniffer, passed))
      /\ plain => Showing(Recent', accepted, Len(accepted))
      /\ Typed(sniffer)' /\ enabled' \in BOOLEAN /\ plain' \in BOOLEAN /\ Paged'
  <2>1. Says("verdict", text, "over", plainly)
    BY <1>1
  <2> HIDE DEF text, plainly
  <2> QED BY <1>2, <2>1, SaysIs
<1>t. /\ user \in Texts /\ pass \in Texts /\ accepted \in Seq(Texts \X Texts)
      /\ <<user, pass>> \in Texts \X Texts
  BY <1>0, <1>3 DEF Spoken, Histories
<1>u. accepted' \in Seq(Texts \X Texts) /\ Len(accepted') - 1 = Len(accepted)
      /\ accepted' # <<>> /\ accepted'[Len(accepted')] = <<user, pass>>
  BY <1>1, <1>t
<1>4. Histories'
  BY <1>0, <1>1, <1>3, <1>t, <1>u DEF Histories, Same
<1>5. Spoken'
  BY <1>0, <1>1, <1>3, <1>t, <1>u DEF Spoken
<1>6. ASSUME plain' PROVE Plainly'
  <2>0. plain /\ plainly
    BY <1>3, <1>6
  <2>1. Sniffed'
    <3>1. enabled => Judged(sniffer, user, pass)
      BY <1>0, <1>3, <2>0, HasPassed
    <3> QED BY <1>1, <1>3, <3>1 DEF Sniffed, Unread, Same
  <2>2. Answered'
    BY <1>1, <1>3, <1>t, <1>u DEF Answered
  <2>3. LoginCaptured'
    BY <1>3 DEF LoginCaptured
  <2>4. Captured'
    <3>1. Showing(Recent', accepted', Len(accepted))
      BY <1>1, <1>3, <1>t, <2>0, ShowingAppend
    <3> QED BY <1>3, <1>u, <3>1 DEF Captured
  <2>5. PlainLine'
    <3>1. ~FoundIn(USER, line', 0)
      BY <1>0, <1>2, <1>3, <2>0, SaysPlainly
    <3> HIDE DEF text, plainly
    <3> QED BY <1>3, <3>1 DEF PlainLine
  <2> QED BY <2>1, <2>2, <2>3, <2>4, <2>5 DEF Plainly
<1> QED BY <1>3, <1>4, <1>5, <1>6 DEF IInv

LEMMA RefusesIInv == IInv /\ Refuses => IInv'
<1> SUFFICES ASSUME IInv, Refuses PROVE IInv'
  OBVIOUS
<1>0. Typed(sniffer) /\ Histories /\ Spoken /\ Word(USER) /\ Word(PASS)
  BY Words DEF IInv
<1>1. PICK r \in Remarks : /\ Says("verdict", ERR \o r, "user", ~Finds(USER, ERR \o r))
                       /\ user' = user /\ pass' = pass /\ accepted' = accepted
  BY DEF Refuses
<1> DEFINE text == ERR \o r
           plainly == ~Finds(USER, ERR \o r)
<1>2. text \in Seq(Char)
  BY Lines
<1>3. /\ turn = "verdict" /\ line' = Line(text) /\ taken' = 0 /\ passed' = 0 /\ turn' = "user"
      /\ Same /\ plain' = (plain /\ plainly)
      /\ Len(line') \in Nat /\ Len(line') # 0
      /\ taken = Len(line) /\ passed = Len(line) /\ (plain /\ enabled => Read(sniffer, passed))
      /\ plain => Showing(Recent', accepted, Len(accepted))
      /\ Typed(sniffer)' /\ enabled' \in BOOLEAN /\ plain' \in BOOLEAN /\ Paged'
  <2>1. Says("verdict", text, "user", plainly)
    BY <1>1
  <2> HIDE DEF text, plainly
  <2> QED BY <1>2, <2>1, SaysIs
<1>4. Histories'
  BY <1>0, <1>1, <1>3 DEF Histories, Same
<1>5. Spoken'
  BY <1>0, <1>1, <1>3 DEF Spoken
<1>6. ASSUME plain' PROVE Plainly'
  <2>0. plain /\ plainly
    BY <1>3, <1>6
  <2>1. Sniffed'
    <3>1. enabled => Judged(sniffer, user, pass)
      BY <1>0, <1>3, <2>0, HasPassed
    <3>2. \E w \in Remarks : line' = Line(ERR \o w)
      BY <1>3
    <3> HIDE DEF text, plainly
    <3> QED BY <1>1, <1>3, <3>1, <3>2 DEF Sniffed, Unread, Same
  <2>2. Answered'
    BY <1>1, <1>3 DEF Answered
  <2>3. LoginCaptured'
    BY <1>3 DEF LoginCaptured
  <2>4. Captured'
    BY <1>1, <1>3, <2>0 DEF Captured
  <2>5. PlainLine'
    <3>1. ~FoundIn(USER, line', 0)
      BY <1>0, <1>2, <1>3, <2>0, SaysPlainly
    <3> HIDE DEF text, plainly
    <3> QED BY <1>3, <3>1 DEF PlainLine
  <2> QED BY <2>1, <2>2, <2>3, <2>4, <2>5 DEF Plainly
<1> QED BY <1>3, <1>4, <1>5, <1>6 DEF IInv

LEMMA TalksIInv == IInv /\ Talks => IInv'
<1> SUFFICES ASSUME IInv, Talks PROVE IInv'
  OBVIOUS
<1>0. Typed(sniffer) /\ Histories /\ Spoken /\ Word(USER)
  BY Words DEF IInv
<1>1. PICK who \in {"over", "talk"}, head \in {<<>>, OK}, r \in Remarks :
        Says(who, head \o r, "talk", ~Finds(USER, head \o r))
  BY DEF Talks
<1>1a. user' = user /\ pass' = pass /\ accepted' = accepted
  BY DEF Talks
<1> DEFINE text == head \o r
           plainly == ~Finds(USER, text)
<1>2. text \in Seq(Char)
  <2>1. r \in Seq(Char) /\ OK \o r \in Seq(Char)
    BY Lines
  <2>2. <<>> \o r \in Seq(Char)
    BY <2>1
  <2> QED BY <2>1, <2>2
<1>3. /\ turn = who /\ line' = Line(text) /\ taken' = 0 /\ passed' = 0 /\ turn' = "talk"
      /\ Same /\ plain' = (plain /\ plainly)
      /\ taken = Len(line) /\ passed = Len(line) /\ (plain /\ enabled => Read(sniffer, passed))
      /\ plain => Showing(Recent', accepted, Len(accepted))
      /\ Typed(sniffer)' /\ enabled' \in BOOLEAN /\ plain' \in BOOLEAN /\ Paged'
  <2>1. Says(who, text, "talk", plainly) /\ who # "greeting"
    BY <1>1
  <2> HIDE DEF text, plainly
  <2> QED BY <1>2, <2>1, SaysIs
<1>4. Histories'
  BY <1>0, <1>1a, <1>3 DEF Histories, Same
<1>5. Spoken'
  <2>1. \E w \in Seq(Char) : line' = Line(w)
    BY <1>2, <1>3
  <2> HIDE DEF text, plainly
  <2> QED BY <1>3, <2>1 DEF Spoken
<1>6. ASSUME plain' PROVE Plainly'
  <2>0. plain /\ plainly
    BY <1>3, <1>6
  <2>1. Answered /\ LoginCaptured
    BY <2>0 DEF IInv, Plainly
  <2>2. Sniffed'
    <3>1. enabled => Idle(sniffer)
      BY <1>0, <1>3, <2>0, HasPassed
    <3> QED BY <1>3, <3>1 DEF Sniffed, Unread, Same
  <2>3. Answered' /\ LoginCaptured'
    BY <1>1a, <1>3, <2>0, <2>1 DEF Answered, LoginCaptured, Same
  <2>4. Captured'
    BY <1>1a, <1>3, <2>0 DEF Captured
  <2>5. PlainLine'
    <3>1. ~FoundIn(USER, line', 0)
      BY <1>0, <1>2, <1>3, <2>0, SaysPlainly
    <3> HIDE DEF text, plainly
    <3> QED BY <1>3, <3>1 DEF PlainLine
  <2> QED BY <2>2, <2>3, <2>4, <2>5 DEF Plainly
<1> QED BY <1>3, <1>4, <1>5, <1>6 DEF IInv

LEMMA NextTunnelIInv == IInv /\ NextTunnel => IInv'
<1> SUFFICES ASSUME IInv, NextTunnel PROVE IInv'
  OBVIOUS
<1>0. Histories /\ Spoken /\ Paged /\ plain \in BOOLEAN
  BY DEF IInv
<1>1. /\ turn \in {"over", "talk"} /\ passed = Len(line) /\ sniffer' = Zeroed /\ enabled' \in BOOLEAN
      /\ turn' = "greeting" /\ line' = <<>> /\ taken' = 0 /\ passed' = 0
      /\ list' = list /\ iter' = iter /\ shown' = shown /\ page' = page
      /\ plain' = TRUE
      /\ before' = (IF plain THEN before ELSE Len(list))
      /\ accepted' = (IF plain THEN accepted ELSE <<>>)
  BY DEF NextTunnel, pages
<1>2. Typed(sniffer)' /\ Spoken' /\ Paged'
  BY <1>0, <1>1, ZeroedTyped DEF Spoken, Paged
<1>3. Histories'
  <2>1. list \in Seq(Entry) /\ Len(list) \in Nat /\ before \in Nat /\ before <= Len(list)
    BY <1>0 DEF Histories
  <2>2. before' \in Nat /\ before' <= Len(list')
    BY <1>1, <2>1
  <2>3. accepted' \in Seq(Texts \X Texts)
    BY <1>0, <1>1 DEF Histories
  <2> QED BY <1>0, <1>1, <2>2, <2>3 DEF Histories
<1>4. Sniffed'
  BY <1>1 DEF Sniffed, Unread
<1>5. Answered' /\ LoginCaptured' /\ PlainLine'
  BY <1>1 DEF Answered, LoginCaptured, PlainLine
<1>6. Captured'
  <2>1. CASE plain
    <3>1. Answered /\ Captured
      BY <2>1 DEF IInv, Plainly
    <3>2. Showing(Recent, accepted, Len(accepted))
      BY <1>0, <3>1, RecentShows
    <3>3. Recent' = Recent
      BY <1>1, <2>1 DEF Recent
    <3> QED BY <1>1, <2>1, <3>2, <3>3 DEF Captured
  <2>2. CASE ~plain
    <3>1. list \in Seq(Entry) /\ Len(list) \in Nat
      BY <1>0 DEF Histories
    <3>2. SubSeq(list, 1, Len(list) - Len(list)) = <<>>
      BY <3>1
    <3>3. Recent' = <<>> /\ Len(accepted') = 0
      BY <1>1, <2>2, <3>2 DEF Recent
    <3> QED BY <1>1, <3>3, ShowingNone DEF Captured
  <2> QED BY <1>0, <2>1, <2>2
<1> QED BY <1>1, <1>2, <1>3, <1>4, <1>5, <1>6 DEF IInv, Plainly

LEMMA StutterIInv == IInv /\ UNCHANGED vars => IInv'
<1> SUFFICES ASSUME IInv, UNCHANGED vars PROVE IInv'
  OBVIOUS
<1>0. Typed(sniffer) /\ enabled \in BOOLEAN /\ plain \in BOOLEAN /\ Histories /\ Spoken /\ Paged
  BY DEF IInv
<1>1. /\ Same /\ taken' = taken /\ passed' = passed /\ turn' = turn /\ user' = user /\ pass' = pass
      /\ line' = line /\ accepted' = accepted /\ plain' = plain
  BY DEF vars, pages, dialogue, Same
<1>2. Typed(sniffer)' /\ enabled' \in BOOLEAN /\ Histories' /\ Spoken' /\ Paged'
  BY <1>0, <1>1 DEF Histories, Spoken, Paged, Same
<1>3. ASSUME plain PROVE Plainly'
  <2>0. Sniffed /\ Answered /\ Captured /\ LoginCaptured /\ PlainLine
    BY <1>3 DEF IInv, Plainly
  <2>1. Sniffed'
    BY <1>1, <2>0 DEF Sniffed, Unread, Read, Same
  <2>2. Answered' /\ LoginCaptured' /\ PlainLine'
    BY <1>1, <2>0 DEF Answered, LoginCaptured, PlainLine, Same
  <2>3. Recent' = Recent
    BY <1>1 DEF Recent, Same
  <2>4. Captured'
    BY <1>1, <2>0, <2>3 DEF Captured
  <2> QED BY <2>1, <2>2, <2>4 DEF Plainly
<1> QED BY <1>0, <1>1, <1>2, <1>3 DEF IInv

LEMMA NextIInv == IInv /\ [Next]_vars => IInv'
BY CopyReadIInv, CopyWriteIInv, GetPop3PassIInv, GreetsIInv, SendsUserIInv, TakesUserIInv,
   RefusesUserIInv, SendsPassIInv, AcceptsIInv, RefusesIInv, TalksIInv, NextTunnelIInv,
   StutterIInv DEF Next

LEMMA SpecIInv == Spec => []IInv
<1>1. Init => IInv
  BY InitIInv
<1>2. IInv /\ [Next]_vars => IInv'
  BY NextIInv
<1> QED BY <1>1, <1>2, PTL DEF Spec

-----------------------------------------------------------------------------
(* The sniffer keeps within its fields and arrays whatever is said, and the
   iterator within the list (Sniffer's TypeOK). *)
THEOREM SnifferTypeOK == Spec => []TypeOK
<1>1. IInv => TypeOK
  <2> SUFFICES ASSUME IInv PROVE TypeOK
    OBVIOUS
  <2>1. /\ Typed(sniffer) /\ iter \in Nat /\ iter <= Len(list) /\ Len(list) \in Nat
    BY DEF IInv, Histories, Paged, Page
  <2>2. /\ sniffer.state \in States
        /\ sniffer.username \in Seq(Char) /\ sniffer.passwd \in Seq(Char)
        /\ sniffer.read \in Byte /\ sniffer.remaining \in Byte /\ sniffer.check_read \in Byte
        /\ sniffer.check_read <= Len(ERR)
        /\ Len(sniffer.username) <= MaxText /\ Len(sniffer.passwd) <= MaxText
    BY <2>1 DEF Typed, Rec
  <2>3. sniffer.check_read \in 0..Len(ERR)
    <3>1. sniffer.check_read \in Nat /\ Len(ERR) \in Nat
      BY <2>2, ByteIs, Words DEF Word
    <3> QED BY <2>2, <3>1
  <2>4. iter \in 0..Len(list)
    BY <2>1
  <2>5. sniffer.read \in 0..255 /\ sniffer.remaining \in 0..255
    BY <2>2 DEF Byte
  <2> QED BY <2>2, <2>3, <2>4, <2>5 DEF TypeOK
<1> QED BY <1>1, SpecIInv, PTL

(* Since the last tunnel in which a name was refused, or an answer or a text had
   a keyword in it where the automaton looks for one, what is listed are logins
   that servers accepted, in that order and each at most once, whatever other
   text their answers have and though every byte is seen twice (Sniffer's
   CapturedInOrder). *)
THEOREM SnifferCapturedInOrder == Spec => []CapturedInOrder
<1>1. IInv => CapturedInOrder
  <2> SUFFICES ASSUME IInv, plain PROVE OnlyAccepted
    BY DEF CapturedInOrder
  <2>1. Histories /\ Answered /\ Captured
    BY DEF IInv, Plainly
  <2> DEFINE n == Len(list) - before
  <2>2. Showing(Recent, accepted, Len(accepted))
    BY <2>1, RecentShows
  <2>3. /\ list \in Seq(Entry) /\ before \in Nat /\ before <= Len(list) /\ Len(list) \in Nat
        /\ Len(Recent) = n /\ \A i \in 1..n : Recent[i] = list[i]
    <3>1. list \in Seq(Entry) /\ before \in Nat /\ before <= Len(list)
      BY <2>1 DEF Histories
    <3> QED BY <3>1, RecentIs DEF Recent
  <2>4. n \in Nat
    BY <2>3
  <2> HIDE DEF n
  <2>5. PICK which \in [1..n -> 1..Len(accepted)] :
          /\ \A i \in 1..n : Shows(Recent[(n + 1) - i], accepted[which[i]])
          /\ \A i \in 1..(n - 1) : which[i] < which[i + 1]
    BY <2>2, <2>3 DEF Showing
  <2>6. \A i \in 1..n : Shows(list[n + 1 - i], accepted[which[i]])
    <3>1. SUFFICES ASSUME NEW i \in 1..n PROVE Shows(list[n + 1 - i], accepted[which[i]])
      OBVIOUS
    <3>2. (n + 1) - i \in 1..n /\ (n + 1) - i = n + 1 - i
      BY <2>4
    <3>3. Recent[(n + 1) - i] = list[(n + 1) - i]
      BY <2>3, <3>2
    <3> QED BY <2>5, <3>2, <3>3
  <2>7. \E w \in [1..n -> 1..Len(accepted)] :
          /\ \A i \in 1..n : Shows(list[n + 1 - i], accepted[w[i]])
          /\ \A i \in 1..(n - 1) : w[i] < w[i + 1]
    BY <2>5, <2>6
  <2> QED BY <2>7, Zenon DEF OnlyAccepted, n
<1> QED BY <1>1, SpecIInv, PTL

(* With sniffing on, and in a tunnel in which nothing said can be taken for
   another thing, a login is listed by the time its answer was received, and it
   is the first of the list until the tunnel ends (Sniffer's LoginCaptured). *)
THEOREM SnifferLoginCaptured == Spec => []LoginCaptured
<1>1. IInv => LoginCaptured
  BY DEF IInv, Plainly, LoginCaptured
<1> QED BY <1>1, SpecIInv, PTL

(* The replies of a round leave no entry out and show none twice, whatever is
   listed between two of them, and of each reply all but the last two entries
   are shown whole (Sniffer's PagesComplete). *)
THEOREM SnifferPagesComplete == Spec => []PagesComplete
<1>1. IInv => PagesComplete
  BY DEF IInv, Paged, Page, PagesComplete, LastOf, Ending
<1> QED BY <1>1, SpecIInv, PTL
=============================================================================
