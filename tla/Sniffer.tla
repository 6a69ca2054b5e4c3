------------------------------ MODULE Sniffer ------------------------------
(***************************************************************************)
(* pop3_sniffer.c and listgeneric.c: the automaton that watches the bytes  *)
(* of a tunnel for a POP3 login, the list of what it saw, and the pages of *)
(* that list the administrators ask for.                                   *)
(*                                                                         *)
(* The tunnel hands it every byte twice, when it is received and when it   *)
(* is sent on.  Its client and its server speak POP3 in turns, and text of *)
(* any kind follows the keyword of an answer; one read takes a line,       *)
(* several writes may be needed to pass it on.                             *)
(***************************************************************************)
EXTENDS Integers, Sequences

CONSTANTS
  Char,                 \* the bytes of a line before its end
  OK, USER, PASS, ERR,  \* the keywords, as bytes in one case
  Texts,                \* names and passwords
  Remarks,              \* what follows the keyword of an answer
  Addresses,            \* what is printed of the server's address
  MaxText,              \* MAX_USR_PASS_SIZE
  PageSize,             \* MAX_RES_SIZE, the bytes of a reply to the administrator
  MaxTries              \* bound: passwords tried, and lines said after a login

Newline == "nl"
Counter == "etx"        \* a counter that stands at three, the length of OK

ASSUME SnifferAssumption ==
  /\ Newline \notin Char
  /\ {OK, USER, PASS, ERR} \cup Texts \cup Remarks \cup Addresses \subseteq Seq(Char)
  /\ {Len(OK), Len(USER), Len(PASS), Len(ERR), MaxText} \subseteq 1..255
  /\ <<>> \notin Texts
  /\ PageSize \in Nat \ {0} /\ MaxTries \in Nat

(* The two answers share no byte. *)
ASSUME AnswersApart == \A i \in 1..Len(ERR), j \in 1..Len(OK) : ERR[i] # OK[j]

States == {"initial", "user", "read_user", "password", "read_password",
           "check_password", "ok", "err"}

VARIABLES
  sniffer,    \* struct pop3_sniffer of the tunnel
  enabled,    \* disectors_enabled
  list,       \* the logins seen, the last one first
  iter,       \* iteradorNext: how many entries are from there to the end
  shown,      \* history: what was shown since the iterator was at the first
  page,       \* history: how much of that was shown by earlier replies
  turn, user, pass,    \* who is to speak, and the last name and password sent
  line, taken, passed, \* the line said, and how much was received and passed on
  tries, accepted,     \* history: the logins the servers accepted
  plain,      \* history: nothing said in the tunnel can be taken for another thing
  before      \* history: entries listed by the end of the last tunnel not plain

dialogue == <<turn, user, pass, line, accepted, tries, plain, before>>
pages == <<list, iter, shown, page>>
vars == <<sniffer, enabled, pages, taken, passed, dialogue>>

-----------------------------------------------------------------------------
(* The automaton. *)
Matches(keyword, i, b) == i < Len(keyword) /\ keyword[i + 1] = b

(* remaining is a uint8_t *)
Matched(s) == [s EXCEPT !.read = @ + 1, !.remaining = (@ - 1) % 256]
ResetRead(s, n) == [s EXCEPT !.read = 0, !.remaining = n]
Goto(s, state) == [s EXCEPT !.state = state]

SnifferInit(s) == Goto(ResetRead(s, Len(OK)), "initial")

Ok(s, b) ==
  IF Matches(OK, s.read, b)
  THEN LET m == Matched(s)
       IN IF m.remaining = 0 THEN Goto(ResetRead(m, Len(USER)), "user") ELSE m
  ELSE Goto(s, "err")

(* A keyword that breaks off is looked for again from the next byte on. *)
Keyword(s, b, keyword, next) ==
  IF Matches(keyword, s.read, b)
  THEN LET m == Matched(s)
       IN IF m.remaining = 0 THEN [Goto(m, next) EXCEPT !.read = 0] ELSE m
  ELSE IF s.read # 0 THEN ResetRead(s, Len(keyword)) ELSE s

User(s, b) == Keyword(s, b, USER, "read_user")
Password(s, b) == Keyword(s, b, PASS, "read_password")

(* Mutant: <= for <. *)
KeptOneMore(text, n, b) == IF n <= MaxText THEN Append(SubSeq(text, 1, n), b) ELSE text

Kept(text, n, b) == IF n < MaxText THEN Append(SubSeq(text, 1, n), b) ELSE text

ReadUser(s, b) ==
  IF b # Newline
  THEN [s EXCEPT !.username = Kept(@, s.read, b),
                 !.read = IF @ < MaxText THEN @ + 1 ELSE @]
  ELSE [Goto(ResetRead(s, Len(PASS)), "password")
          EXCEPT !.username = SubSeq(@, 1, s.read), !.check_read = 0]

ReadPassword(s, b) ==
  IF b # Newline
  THEN [s EXCEPT !.passwd = Kept(@, s.read, b),
                 !.read = IF @ < MaxText THEN @ + 1 ELSE @]
  ELSE [Goto(s, "check_password")
          EXCEPT !.passwd = SubSeq(@, 1, s.read), !.read = 0, !.check_read = 0]

(* Mutant: a refused password ends the dialogue. *)
CheckPasswordOnce(s, b) ==
  IF Matches(OK, s.read, b)
  THEN [s EXCEPT !.read = @ + 1, !.state = IF s.read + 1 = Len(OK) THEN "ok" ELSE @]
  ELSE IF Matches(ERR, s.check_read, b)
  THEN [s EXCEPT !.check_read = @ + 1,
                 !.state = IF s.check_read + 1 = Len(ERR) THEN "err" ELSE @]
  ELSE s

(* The two answers are looked for at once, and other bytes between theirs are
   passed over. *)
CheckPassword(s, b) ==
  IF Matches(OK, s.read, b)
  THEN [s EXCEPT !.read = @ + 1, !.state = IF s.read + 1 = Len(OK) THEN "ok" ELSE @]
  ELSE IF Matches(ERR, s.check_read, b)
  THEN [s EXCEPT !.check_read = @ + 1,
                 !.state = IF s.check_read + 1 = Len(ERR) THEN "user" ELSE @]
  ELSE s

Parse(s, b) ==
  CASE s.state = "initial" -> Ok(s, b)
    [] s.state = "user" -> User(s, b)
    [] s.state = "read_user" -> ReadUser(s, b)
    [] s.state = "password" -> Password(s, b)
    [] s.state = "read_password" -> ReadPassword(s, b)
    [] s.state = "check_password" -> CheckPassword(s, b)
    [] OTHER -> s

IsDone(s) == s.state \in {"ok", "err"}
IsParsing(s) == s.state \notin {"initial", "ok", "err"}

(* Mutant: a list that is added to at its end. *)
InsertLast(l, elem) == Append(l, elem)

Insert(l, elem) == <<elem>> \o l

(* The copy of what was seen.  A text that fills its array has its terminator
   behind it: the name's where the password was written since, the password's
   where a counter is kept. *)
Listed(s) ==
  LET passwd == s.passwd \o (IF Len(s.passwd) = MaxText THEN <<Counter>> ELSE <<>>)
  IN <<s.username \o (IF Len(s.username) = MaxText THEN passwd ELSE <<>>), passwd>>

(* pop3_sniffer_consume: bytes are parsed until the automaton is done. *)
Step(s, b) == IF IsDone(s) THEN s ELSE Parse(s, b)
Consumed(s, bytes) ==
  LET after[i \in 0..Len(bytes)] == IF i = 0 THEN s ELSE Step(after[i - 1], bytes[i])
  IN after[Len(bytes)]

(* Mutant: an automaton that is done does not start over. *)
SniffStays(bytes) ==
  IF ~enabled THEN UNCHANGED <<sniffer, list>>
  ELSE LET start == IF sniffer.state = "initial" THEN SnifferInit(sniffer) ELSE sniffer
           end == Consumed(start, bytes)
       IN /\ sniffer' = end
          /\ list' = IF end.state = "ok" THEN Insert(list, Listed(end)) ELSE list

(* pop3sniff: what is left of the bytes is forgotten when it starts over. *)
Sniff(bytes) ==
  IF ~enabled THEN UNCHANGED <<sniffer, list>>
  ELSE LET start == IF IsParsing(sniffer) THEN sniffer ELSE SnifferInit(sniffer)
           end == Consumed(start, bytes)
       IN /\ sniffer' = end
          /\ list' = IF end.state = "ok" THEN Insert(list, Listed(end)) ELSE list

-----------------------------------------------------------------------------
Zeroed == [state |-> "initial", username |-> <<>>, passwd |-> <<>>,
           read |-> 0, remaining |-> 0, check_read |-> 0]

Init ==
  /\ sniffer = Zeroed
  /\ enabled \in BOOLEAN
  /\ list = <<>> /\ iter = 0 /\ shown = <<>> /\ page = 0
  /\ turn = "greeting" /\ user = <<>> /\ pass = <<>>
  /\ line = <<>> /\ taken = 0 /\ passed = 0
  /\ accepted = <<>> /\ tries = 0
  /\ plain = TRUE /\ before = 0

(* copy_read and copy_write, of either direction. *)
CopyRead ==
  /\ taken < Len(line)
  /\ Sniff(SubSeq(line, taken + 1, Len(line)))
  /\ taken' = Len(line)
  /\ UNCHANGED <<enabled, iter, shown, page, passed, dialogue>>

CopyWrite ==
  /\ \E n \in 1..(taken - passed) :
       /\ Sniff(SubSeq(line, passed + 1, passed + n))
       /\ passed' = passed + n
  /\ UNCHANGED <<enabled, iter, shown, page, taken, dialogue>>

(* get_pop3_pass writes an entry behind the first n bytes of the reply: a text
   goes on while more than "spare" bytes are left, its separator is written
   without asking. *)
Fit(text, n, spare) ==
  IF n + Len(text) <= PageSize - spare THEN text
  ELSE SubSeq(text, 1, IF n <= PageSize - spare THEN PageSize - spare - n ELSE 0)
Behind(text, n, spare) == n + Len(Fit(text, n, spare)) + 1
UserAt(entry, n) == Behind(entry[1], n, 3)
PassAt(entry, n) == Behind(entry[1], UserAt(entry, n), 3)
AddressAt(entry, n) == Behind(entry[2], PassAt(entry, n), 3)
EntryEnd(entry, addr, n) == Behind(addr, AddressAt(entry, n), 2)
Written(entry, n) ==
  <<Fit(entry[1], UserAt(entry, n), 3), Fit(entry[2], PassAt(entry, n), 3)>>

(* Entries are taken from where the last reply ended until none is left or the
   reply is full. *)
GetPop3Pass ==
  LET from == IF iter = 0 THEN Len(list) ELSE iter
      at == Len(list) - from
  IN \E addr \in [1..from -> Addresses] :
       LET n[i \in 0..from] ==
             IF i = 0 THEN 0 ELSE EntryEnd(list[at + i], addr[i], n[i - 1])
       IN \E last \in 1..from :
            /\ last = from \/ n[last] >= PageSize
            /\ \A i \in 1..(last - 1) : n[i] < PageSize
            /\ iter' = from - last
            /\ page' = IF iter = 0 THEN 0 ELSE Len(shown)
            /\ shown' = (IF iter = 0 THEN <<>> ELSE shown)
                          \o [i \in 1..last |-> Written(list[at + i], n[i - 1])]
            /\ UNCHANGED <<sniffer, enabled, list, taken, passed, dialogue>>

(* Where a keyword is found in what is said; and where one is spelt, be it with
   other bytes between. *)
Finds(keyword, s) ==
  \E at \in 0..(Len(s) - Len(keyword)) : \A i \in 1..Len(keyword) : s[at + i] = keyword[i]
Spells(keyword, s) ==
  \E at \in [1..Len(keyword) -> 1..Len(s)] :
    /\ \A i \in 1..Len(keyword) : s[at[i]] = keyword[i]
    /\ \A i \in 1..(Len(keyword) - 1) : at[i] < at[i + 1]
Line(text) == text \o <<Newline>>

(* The client and the server, when what was said before has arrived.  A name is
   looked for from the greeting on, after a refusal and after a login, a
   password once there is a name, an answer once there is a password. *)
Says(who, text, next, plainly) ==
  /\ turn = who /\ passed = Len(line)
  /\ line' = Line(text) /\ taken' = 0 /\ passed' = 0
  /\ turn' = next
  /\ plain' = (plain /\ plainly)
  /\ UNCHANGED <<sniffer, enabled, pages, before>>

PlainName(t) == ~Finds(USER, t) /\ ~Finds(PASS, USER \o t)
PlainPassword(t) == ~Spells(OK, Line(PASS \o t)) /\ ~Spells(ERR, Line(PASS \o t))

Greets ==
  /\ \E r \in Remarks : Says("greeting", OK \o r, "user", ~Finds(USER, OK \o r))
  /\ UNCHANGED <<user, pass, accepted, tries>>
SendsUser ==
  /\ \E t \in Texts : Says("user", USER \o t, "reply", PlainName(t)) /\ user' = t
  /\ UNCHANGED <<pass, accepted, tries>>
TakesUser ==
  /\ \E r \in Remarks : Says("reply", OK \o r, "pass", ~Finds(PASS, OK \o r))
  /\ UNCHANGED <<user, pass, accepted, tries>>
(* The automaton does not look at the answer to a name: it keeps the refused one. *)
RefusesUser ==
  /\ \E r \in Remarks : Says("reply", ERR \o r, "user", FALSE)
  /\ UNCHANGED <<user, pass, accepted, tries>>
SendsPass ==
  /\ tries < MaxTries /\ tries' = tries + 1
  /\ \E t \in Texts : Says("pass", PASS \o t, "verdict", PlainPassword(t)) /\ pass' = t
  /\ UNCHANGED <<user, accepted>>
Accepts ==
  /\ \E r \in Remarks : Says("verdict", OK \o r, "over", ~Finds(USER, OK \o r))
  /\ accepted' = Append(accepted, <<user, pass>>)
  /\ UNCHANGED <<user, pass, tries>>
Refuses ==
  /\ \E r \in Remarks : Says("verdict", ERR \o r, "user", ~Finds(USER, ERR \o r))
  /\ UNCHANGED <<user, pass, accepted, tries>>

(* What is said after the login, by either. *)
Talks ==
  /\ tries < MaxTries /\ tries' = tries + 1
  /\ \E who \in {"over", "talk"}, head \in {<<>>, OK}, r \in Remarks :
       Says(who, head \o r, "talk", ~Finds(USER, head \o r))
  /\ UNCHANGED <<user, pass, accepted>>

(* Another tunnel, in memory that was not used before; sniffing may have been
   turned on or off between the two. *)
NextTunnel ==
  /\ turn \in {"over", "talk"} /\ passed = Len(line)
  /\ sniffer' = Zeroed /\ enabled' \in BOOLEAN
  /\ turn' = "greeting" /\ line' = <<>> /\ taken' = 0 /\ passed' = 0
  /\ plain' = TRUE
  /\ before' = IF plain THEN before ELSE Len(list)
  /\ accepted' = IF plain THEN accepted ELSE <<>>
  /\ UNCHANGED <<pages, user, pass, tries>>

Next ==
  \/ CopyRead \/ CopyWrite \/ GetPop3Pass
  \/ Greets \/ SendsUser \/ TakesUser \/ RefusesUser \/ SendsPass \/ Accepts \/ Refuses
  \/ Talks \/ NextTunnel

Spec == Init /\ [][Next]_vars

-----------------------------------------------------------------------------
TypeOK ==
  /\ sniffer.state \in States
  /\ sniffer.username \in Seq(Char) /\ sniffer.passwd \in Seq(Char)
  /\ Len(sniffer.username) <= MaxText /\ Len(sniffer.passwd) <= MaxText
  /\ sniffer.read \in 0..255 /\ sniffer.remaining \in 0..255
  /\ sniffer.check_read \in 0..Len(ERR)
  /\ iter \in 0..Len(list)

(* What an entry has of a text: as much as there is room for, exactly when it is
   shorter than that. *)
Cut(text) == IF Len(text) > MaxText THEN SubSeq(text, 1, MaxText) ELSE text
HasText(kept, text) ==
  IF Len(text) < MaxText THEN kept = text
  ELSE Len(kept) >= MaxText /\ SubSeq(kept, 1, MaxText) = Cut(text)
Shows(entry, login) == HasText(entry[1], login[1]) /\ HasText(entry[2], login[2])

(* What is listed is what the servers accepted, in that order and each once,
   though every byte is seen twice: a password that was refused is not, nor a
   name with another's password.  With sniffing off some may be missing.  The
   documents say that what is listed are the credentials that were discovered. *)
OnlyAccepted ==
  LET n == Len(list) - before
  IN \E which \in [1..n -> 1..Len(accepted)] :
       /\ \A i \in 1..n : Shows(list[n + 1 - i], accepted[which[i]])
       /\ \A i \in 1..(n - 1) : which[i] < which[i + 1]

(* That is so of the entries since the last tunnel in which a name was refused,
   or an answer or a text had a keyword in it where one is looked for. *)
CapturedInOrder == plain => OnlyAccepted

(* In a tunnel without such things a login is listed by the time its answer was
   received, however often the client failed before, and whatever of it was seen
   twice; and it stays the last one whatever is said after it. *)
LoginCaptured ==
  plain /\ enabled /\ (turn = "talk" \/ (turn = "over" /\ taken = Len(line))) =>
    Len(list) > before /\ Shows(list[1], accepted[Len(accepted)])

(* The replies of one round show consecutive entries, none twice and none left
   out, though logins are listed between two replies; of a reply all but the last
   two entries are shown as they are, and those may be cut. *)
LastOf(n) == SubSeq(list, Len(list) - n + 1, Len(list))
Shortened(text, whole) == \E n \in 0..Len(whole) : text = SubSeq(whole, 1, n)
PagesComplete ==
  LET entries == LastOf(Len(shown) + iter)
  IN \A i \in 1..Len(shown) :
       /\ Shortened(shown[i][1], entries[i][1]) /\ Shortened(shown[i][2], entries[i][2])
       /\ i \in (page + 1)..(Len(shown) - 2) => shown[i] = entries[i]

(* The manual says that the list of the passwords sniffed is printed: every entry
   is shown as it is. *)
EntriesWhole == shown = SubSeq(LastOf(Len(shown) + iter), 1, Len(shown))
=============================================================================
