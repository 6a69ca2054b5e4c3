-------------------------------- MODULE Mng --------------------------------
(***************************************************************************)
(* mng.c, mng_handler.c and server_config.c: the sessions of the           *)
(* administrators, from accept to close, and the configuration they edit.  *)
(*                                                                         *)
(* A message is a sequence of units of which the last completes it; where  *)
(* the bytes of one end and what they mean is Wire.tla's.  An orderly      *)
(* client sends its password, waits for the answer, and sends one command; *)
(* of what another client sends, nothing is known, and the parsers may     *)
(* make anything of it.                                                    *)
(***************************************************************************)
EXTENDS Integers, FiniteSets, Sequences, FiniteSetsExt

CONSTANTS
  Admin,               \* the clients; each has one connection at a time
  Short, Full, Long,   \* words of fewer than MAX_USERNAME_SIZE bytes, of that
                       \* many, and of more
  Password,            \* what a PUT sends as one: a word, or one that goes on
                       \* behind words of MAX_USERNAME_SIZE bytes
  Slots,               \* MAX_SOCKS_USERS
  Size,                \* numbers four bytes stand for, as int
  CommandLine,         \* the users of -u, as <<name, password>>
  Noise,               \* bound: units of a client that is not orderly
  Pieces               \* bound: parts a reply is sent in

Blank == ""              \* the empty string: a -u without a password leaves two,
                         \* a word is never empty

ASSUME MngAssumption ==
  /\ Slots \in Nat \ {0} /\ Noise \in Nat /\ Pieces \in Nat \ {0}
  /\ Size \subseteq Int /\ 1024 \in Size
  /\ {Short \cap Full, Short \cap Long, Full \cap Long} = {{}}
  /\ Blank \notin Short \cup Full \cup Long
  /\ \A p \in Password :
       /\ p \in Seq(Short \cup Full) \ {<<>>}
       /\ \A i \in 1..(Len(p) - 1) : p[i] \in Full
  /\ \A given \in CommandLine :
       /\ given \in Seq((Short \cup Full \cup {""}) \X (Short \cup Full \cup {""}))
       /\ Len(given) <= Slots

Word == Short \cup Full  \* what a field can hold
Field == 1..(2 * Slots)  \* struct users users[]: name, pass, name, pass, ...
Name(e) == 2 * e - 1
Pass(e) == 2 * e

Act == {"GET", "PUT", "EDIT", "CONFIGBUFFSIZE", "CONFIGSTATUS", "DELETE"}
RequestState(act) ==
  CASE act = "GET" -> "REQUEST_GET" [] act = "PUT" -> "REQUEST_PUT"
    [] act = "EDIT" -> "REQUEST_EDIT" [] act = "CONFIGBUFFSIZE" -> "REQUEST_BUFFSIZE"
    [] act = "CONFIGSTATUS" -> "REQUEST_CONFIGSTATUS" [] act = "DELETE" -> "REQUEST_DELETE"
RequestStates == {RequestState(act) : act \in Act}
States == {"none", "CONNECT_READ", "CONNECT_WRITE", "REQUEST", "REPLIES"}
            \cup RequestStates
Unit == {"part", "last", "junk"} \cup Act
Whole == 5               \* units of an orderly client: two, the action, two

VARIABLES
  st,        \* the state of each session; "none" when it has no struct mng
  interest,  \* what its descriptor is watched for
  status,    \* CLOSE once the password was wrong
  reply,     \* what write_buffer holds,
  left,      \* and how much of it is still to be sent
  orderly, knows,   \* what its client is: see above, and has the password
  said,      \* how much its client has sent,
  wire,      \* what of it was not received,
  gone,      \* whether it has ended its side,
  heard,     \* and the last reply it has whole
  users, users_size, auth, sniff, bufsize,    \* server_conf
  past       \* whether a strcpy wrote behind users[], where users_size lies

session == <<st, interest, status, reply, left>>
client == <<orderly, knows, said, gone, heard>>
accounts == <<users, users_size, past>>
settings == <<auth, sniff, bufsize>>
conf == <<accounts, settings>>
vars == <<session, client, wire, conf>>

-----------------------------------------------------------------------------
(* The users table: strings in fields with no room for a terminator after a
   word of MAX_USERNAME_SIZE bytes. *)

(* The string at field i, as the words it is made of. *)
StringAt(t, i) ==
  LET ends == {j \in i..Len(t) : t[j] \notin Full}
      last == IF ends = {} THEN Len(t) ELSE Min(ends)
  IN IF t[last] = Blank THEN SubSeq(t, i, last - 1) ELSE SubSeq(t, i, last)

(* strcpy: the terminator of a string that fills its last field is the first
   byte of the next.  Fields is how many a string lies in, terminator included;
   Strcpy is what becomes of the table, and what does not fit is written behind
   it. *)
Spills(s) == s = <<>> \/ s[Len(s)] \in Full
Fields(s) == IF Spills(s) THEN Len(s) + 1 ELSE Len(s)
Fits(i, s) == i + Fields(s) - 1 <= 2 * Slots
Strcpy(t, i, s) ==
  LET after == i + Len(s)
  IN [j \in 1..Len(t) |-> IF j \in i..(after - 1) THEN s[j - i + 1]
                          ELSE IF j = after /\ Spills(s) THEN Blank ELSE t[j]]

Matches(name) == {e \in 1..users_size : StringAt(users, Name(e)) = <<name>>}

AddPastTable(name, pass, ok) ==        \* a mutant: > for >=
  /\ ok = (users_size <= Slots /\ name \notin Long)
  /\ IF ok
     THEN LET e == users_size + 1
          IN /\ users' = Strcpy(Strcpy(users, Name(e), <<name>>), Pass(e), pass)
             /\ users_size' = e
             /\ past' = ~(Fits(Name(e), <<name>>) /\ Fits(Pass(e), pass))
     ELSE UNCHANGED accounts

(* add_user measures the name twice and the password never. *)
AddUser(name, pass, ok) ==
  /\ ok = (users_size + 1 < Slots /\ name \notin Long)
  /\ IF ok
     THEN LET e == users_size + 1
          IN /\ users' = Strcpy(Strcpy(users, Name(e), <<name>>), Pass(e), pass)
             /\ users_size' = e
             /\ past' = ~(Fits(Name(e), <<name>>) /\ Fits(Pass(e), pass))
     ELSE UNCHANGED accounts

DeleteMovesName(name, ok) ==           \* a mutant: the password stays
  /\ ok = (Matches(name) # {})
  /\ IF ok
     THEN LET e == Min(Matches(name))
              moved == SubSeq(users, Name(users_size), Pass(users_size))
          IN /\ users' = IF e = users_size THEN users
                         ELSE Strcpy(users, Name(e), StringAt(moved, 1))
             /\ users_size' = users_size - 1
             /\ past' = (e # users_size /\ ~Fits(Name(e), StringAt(moved, 1)))
     ELSE UNCHANGED accounts

(* The last entry takes the place of the first of that name; the copy of an
   entry on the stack is taken to be followed by a terminator. *)
DeleteUser(name, ok) ==
  /\ ok = (Matches(name) # {})
  /\ IF ok
     THEN LET e == Min(Matches(name))
              moved == SubSeq(users, Name(users_size), Pass(users_size))
          IN /\ users' = IF e = users_size THEN users
                         ELSE Strcpy(Strcpy(users, Name(e), StringAt(moved, 1)),
                                     Pass(e), StringAt(moved, 2))
             /\ users_size' = users_size - 1
             /\ past' = (e # users_size /\ ~(/\ Fits(Name(e), StringAt(moved, 1))
                                            /\ Fits(Pass(e), StringAt(moved, 2))))
     ELSE UNCHANGED accounts

EditUser(name, value, attr, ok) ==
  /\ ok = (Matches(name) # {} /\ value \in Short)
  /\ IF ok
     THEN LET i == IF attr = 0 THEN Name(Min(Matches(name))) ELSE Pass(Min(Matches(name)))
          IN users' = Strcpy(users, i, <<value>>) /\ past' = ~Fits(i, <<value>>)
     ELSE UNCHANGED <<users, past>>
  /\ UNCHANGED users_size

SetBuffSize(size, ok) ==
  /\ bufsize' = size
  /\ ok = (size > 0)
  /\ UNCHANGED <<auth, sniff>>

SetStatus(field, status_) ==
  /\ IF field = 3 THEN auth' = (status_ = 0) /\ UNCHANGED sniff
                  ELSE sniff' = (status_ = 0) /\ UNCHANGED auth
  /\ UNCHANGED bufsize

-----------------------------------------------------------------------------
Init ==
  /\ st = [a \in Admin |-> "none"] /\ interest = [a \in Admin |-> "none"]
  /\ status = [a \in Admin |-> "OK"]
  /\ reply = [a \in Admin |-> "none"] /\ left = [a \in Admin |-> 0]
  /\ orderly = [a \in Admin |-> TRUE] /\ knows = [a \in Admin |-> TRUE]
  /\ said = [a \in Admin |-> 0] /\ wire = [a \in Admin |-> <<>>]
  /\ gone = [a \in Admin |-> FALSE] /\ heard = [a \in Admin |-> "none"]
  /\ \E given \in CommandLine :
       /\ users = [i \in Field |->
                     IF i > 2 * Len(given) THEN Blank
                     ELSE IF i % 2 = 1 THEN given[(i + 1) \div 2][1] ELSE given[i \div 2][2]]
       /\ users_size = Len(given)
       /\ auth = (Len(given) > 0)
  /\ sniff \in BOOLEAN
  /\ bufsize = 1024
  /\ past = FALSE

(* mng_passive_accept, unless it turns the client away. *)
Accept(a) ==
  /\ st[a] = "none"
  /\ st' = [st EXCEPT ![a] = "CONNECT_READ"]
  /\ interest' = [interest EXCEPT ![a] = "read"]
  /\ heard' = [heard EXCEPT ![a] = "none"]
  /\ \E o, k \in BOOLEAN : orderly' = [orderly EXCEPT ![a] = o] /\ knows' = [knows EXCEPT ![a] = k]
  /\ UNCHANGED <<status, reply, left, said, gone, wire, conf>>

(* mng_done and mng_close: the descriptor is unregistered and closed, the
   struct freed. *)
Close(a) ==
  /\ st' = [st EXCEPT ![a] = "none"]
  /\ interest' = [interest EXCEPT ![a] = "none"]
  /\ status' = [status EXCEPT ![a] = "OK"]
  /\ reply' = [reply EXCEPT ![a] = "none"] /\ left' = [left EXCEPT ![a] = 0]
  /\ said' = [said EXCEPT ![a] = 0] /\ wire' = [wire EXCEPT ![a] = <<>>]
  /\ gone' = [gone EXCEPT ![a] = FALSE]
  /\ orderly' = [orderly EXCEPT ![a] = TRUE] /\ knows' = [knows EXCEPT ![a] = TRUE]

Readable(a) == interest[a] = "read" /\ (wire[a] # <<>> \/ gone[a])
Writable(a) == interest[a] = "write"

EndedWaits(a) ==                       \* a mutant: nothing is not an end
  Readable(a) /\ wire[a] = <<>> /\ UNCHANGED vars

(* recv() gives nothing: the peer closed, or the connection was reset. *)
Ended(a) == Readable(a) /\ wire[a] = <<>> /\ Close(a) /\ UNCHANGED <<heard, conf>>

(* recv() gives the first n units and the parser's verdict on them is v. *)
Verdicts(a, n) ==
  IF ~orderly[a] THEN {"more", "refused", "done"}
  ELSE IF wire[a][n] = "last" THEN {"done"} ELSE {"more"}
Receives(a, n, v) == n \in 1..Len(wire[a]) /\ v \in Verdicts(a, n)
Drop(a, n) == wire' = [wire EXCEPT ![a] = SubSeq(@, n + 1, Len(@))]

(* A message is not complete yet, or is refused: the reply is written, but the
   session ends before it is sent. *)
Incomplete(a) ==
  \E n \in 1..Len(wire[a]) :
    \/ /\ Receives(a, n, "more")
       /\ Drop(a, n)
       /\ UNCHANGED <<session, client, conf>>
    \/ Receives(a, n, "refused") /\ Close(a) /\ UNCHANGED <<heard, conf>>

Respond(a, state, v, size) ==
  /\ st' = [st EXCEPT ![a] = state]
  /\ interest' = [interest EXCEPT ![a] = "write"]
  /\ reply' = [reply EXCEPT ![a] = v]
  /\ left' = [left EXCEPT ![a] = size]

ConnectRead(a) ==
  /\ st[a] = "CONNECT_READ" /\ Readable(a)
  /\ \/ Ended(a)
     \/ Incomplete(a)
     \/ \E n \in 1..Len(wire[a]) :
          /\ Receives(a, n, "done")
          /\ Drop(a, n)
          /\ Respond(a, "CONNECT_WRITE", IF knows[a] THEN "ok" ELSE "refused", 1)
          /\ status' = [status EXCEPT ![a] = IF knows[a] THEN @ ELSE "CLOSE"]
          /\ UNCHANGED <<client, conf>>

(* send() takes n of what is left, or fails because the client is gone. *)
SendFails(a) == gone[a] /\ Close(a) /\ UNCHANGED <<heard, conf>>
SendsPart(a, n) ==
  /\ n \in 1..(left[a] - 1)
  /\ left' = [left EXCEPT ![a] = @ - n]
  /\ UNCHANGED <<st, interest, status, reply, client, wire, conf>>
Heard(a, v) == heard' = [heard EXCEPT ![a] = v]

ConnectWriteWatchless(a) ==            \* a mutant: OP_READ is not set
  /\ st[a] = "CONNECT_WRITE" /\ Writable(a)
  /\ \/ SendFails(a)
     \/ \E n \in 1..left[a] : SendsPart(a, n)
     \/ /\ status[a] # "CLOSE"
        /\ st' = [st EXCEPT ![a] = "REQUEST"]
        /\ left' = [left EXCEPT ![a] = 0]
        /\ Heard(a, "welcome")
        /\ UNCHANGED <<interest, status, reply, orderly, knows, said, gone, wire, conf>>
     \/ status[a] = "CLOSE" /\ Close(a) /\ Heard(a, "denied") /\ UNCHANGED conf

ConnectWriteAdmits(a) ==               \* a mutant: whatever the password was
  /\ st[a] = "CONNECT_WRITE" /\ Writable(a)
  /\ \/ SendFails(a)
     \/ \E n \in 1..left[a] : SendsPart(a, n)
     \/ /\ st' = [st EXCEPT ![a] = "REQUEST"]
        /\ interest' = [interest EXCEPT ![a] = "read"]
        /\ left' = [left EXCEPT ![a] = 0]
        /\ Heard(a, IF status[a] # "CLOSE" THEN "welcome" ELSE "denied")
        /\ UNCHANGED <<status, reply, orderly, knows, said, gone, wire, conf>>

ConnectWrite(a) ==
  /\ st[a] = "CONNECT_WRITE" /\ Writable(a)
  /\ \/ SendFails(a)
     \/ \E n \in 1..left[a] : SendsPart(a, n)
     \/ /\ status[a] # "CLOSE"
        /\ st' = [st EXCEPT ![a] = "REQUEST"]
        /\ interest' = [interest EXCEPT ![a] = "read"]
        /\ left' = [left EXCEPT ![a] = 0]
        /\ Heard(a, "welcome")
        /\ UNCHANGED <<status, reply, orderly, knows, said, gone, wire, conf>>
     \/ status[a] = "CLOSE" /\ Close(a) /\ Heard(a, "denied") /\ UNCHANGED conf

RequestTakesAll(a) ==                  \* a mutant: recv of all there is
  /\ st[a] = "REQUEST" /\ Readable(a)
  /\ \/ Ended(a)
     \/ /\ wire[a] # <<>>
        /\ \E s \in IF wire[a][1] \in Act THEN {RequestState(wire[a][1])}
                    ELSE RequestStates \cup {"REQUEST"} :
             st' = [st EXCEPT ![a] = s]
        /\ Drop(a, Len(wire[a]))
        /\ reply' = [reply EXCEPT ![a] = "none"]
        /\ UNCHANGED <<interest, status, left, client, conf>>

(* One byte, after both buffers were emptied; a byte that is no action leaves
   the session where it is. *)
Request(a) ==
  /\ st[a] = "REQUEST" /\ Readable(a)
  /\ \/ Ended(a)
     \/ /\ wire[a] # <<>>
        /\ \E s \in IF wire[a][1] \in Act THEN {RequestState(wire[a][1])}
                    ELSE RequestStates \cup {"REQUEST"} :
             st' = [st EXCEPT ![a] = s]
        /\ Drop(a, 1)
        /\ reply' = [reply EXCEPT ![a] = "none"]
        /\ UNCHANGED <<interest, status, left, client, conf>>

(* What the handlers of REQUEST_GET to REQUEST_DELETE share. *)
Reads(a, s) == st[a] = s /\ Readable(a)
NotYet(a) == Ended(a) \/ Incomplete(a)
Received(a) ==
  \E n \in 1..Len(wire[a]) : Receives(a, n, "done") /\ Drop(a, n)
Answers(a, ok) ==
  /\ Respond(a, "REPLIES", IF ok THEN "ok" ELSE "refused", Pieces)
  /\ UNCHANGED <<status, client>>

RequestGet(a) ==
  /\ Reads(a, "REQUEST_GET")
  /\ NotYet(a) \/ (Received(a) /\ Answers(a, TRUE) /\ UNCHANGED conf)

RequestPut(a) ==
  /\ Reads(a, "REQUEST_PUT")
  /\ \/ NotYet(a)
     \/ /\ Received(a)
        /\ \E ok \in BOOLEAN, n \in Word \cup Long, p \in Password :
             AddUser(n, p, ok) /\ Answers(a, ok)
        /\ UNCHANGED settings

RequestEdit(a) ==
  /\ Reads(a, "REQUEST_EDIT")
  /\ \/ NotYet(a)
     \/ /\ Received(a)
        /\ \E ok \in BOOLEAN, n, v \in Word \cup Long, attr \in {0, 1} :
             EditUser(n, v, attr, ok) /\ Answers(a, ok)
        /\ UNCHANGED settings

(* A number that is not positive is stored, and the session ends without a
   reply. *)
RequestBuffSize(a) ==
  /\ Reads(a, "REQUEST_BUFFSIZE")
  /\ \/ NotYet(a)
     \/ /\ \E ok \in BOOLEAN, n \in Size :
             /\ SetBuffSize(n, ok)
             /\ IF ok THEN Received(a) /\ Answers(a, TRUE)
                ELSE (\E k \in 1..Len(wire[a]) : Receives(a, k, "done"))
                     /\ Close(a) /\ UNCHANGED heard
        /\ UNCHANGED accounts

RequestConfigStatusChecked(a) ==       \* a mutant: the new value as a result
  /\ Reads(a, "REQUEST_CONFIGSTATUS")
  /\ \/ NotYet(a)
     \/ /\ \E field \in {3, 4}, v \in {0, 1} :
             /\ SetStatus(field, v)
             /\ IF v = 0 THEN Received(a) /\ Answers(a, TRUE)
                ELSE (\E k \in 1..Len(wire[a]) : Receives(a, k, "done"))
                     /\ Close(a) /\ UNCHANGED heard
        /\ UNCHANGED accounts

RequestConfigStatus(a) ==
  /\ Reads(a, "REQUEST_CONFIGSTATUS")
  /\ \/ NotYet(a)
     \/ /\ Received(a) /\ Answers(a, TRUE)
        /\ \E field \in {3, 4}, v \in {0, 1} : SetStatus(field, v)
        /\ UNCHANGED accounts

RequestDelete(a) ==
  /\ Reads(a, "REQUEST_DELETE")
  /\ \/ NotYet(a)
     \/ /\ Received(a)
        /\ \E ok \in BOOLEAN, n \in Word \cup Long : DeleteUser(n, ok) /\ Answers(a, ok)
        /\ UNCHANGED settings

Replies(a) ==
  /\ st[a] = "REPLIES" /\ Writable(a)
  /\ \/ SendFails(a)
     \/ \E n \in 1..left[a] : SendsPart(a, n)
     \/ Close(a) /\ Heard(a, reply[a]) /\ UNCHANGED conf

(* What the selector does for a session whose descriptor is ready.  What a
   process does that wrote behind its table is undefined: it is not followed. *)
Handle(a) ==
  /\ ~past
  /\ \/ ConnectRead(a) \/ ConnectWrite(a) \/ Request(a)
     \/ RequestGet(a) \/ RequestPut(a) \/ RequestEdit(a) \/ RequestBuffSize(a)
     \/ RequestConfigStatus(a) \/ RequestDelete(a)
     \/ Replies(a)

-----------------------------------------------------------------------------
(* The clients. *)
NextUnits(a) ==
  IF ~orderly[a] THEN {u \in {"junk"} : said[a] < Noise}
  ELSE CASE said[a] \in {0, 3} -> {"part"}
         [] said[a] \in {1, 4} -> {"last"}
         [] said[a] = 2 /\ heard[a] = "welcome" -> Act
         [] OTHER -> {}

Speak(a) ==
  /\ st[a] # "none" /\ ~gone[a]
  /\ \E u \in NextUnits(a) : wire' = [wire EXCEPT ![a] = Append(@, u)]
  /\ said' = [said EXCEPT ![a] = @ + 1]
  /\ UNCHANGED <<session, orderly, knows, gone, heard, conf>>

(* It closes its side, or the connection is reset and what it sent is lost. *)
HangUp(a) ==
  /\ st[a] # "none" /\ ~gone[a]
  /\ gone' = [gone EXCEPT ![a] = TRUE]
  /\ \E lost \in BOOLEAN : wire' = IF lost THEN [wire EXCEPT ![a] = <<>>] ELSE wire
  /\ UNCHANGED <<session, orderly, knows, said, heard, conf>>

Next == ~past /\ \E a \in Admin : Accept(a) \/ Handle(a) \/ Speak(a) \/ HangUp(a)

Spec == Init /\ [][Next]_vars

(* Every iteration of the selector handles every ready descriptor. *)
FairSpec == Spec /\ \A a \in Admin : WF_vars(Handle(a))

-----------------------------------------------------------------------------
TypeOK ==
  /\ st \in [Admin -> States]
  /\ interest \in [Admin -> {"none", "read", "write"}]
  /\ status \in [Admin -> {"OK", "CLOSE"}]
  /\ reply \in [Admin -> {"none", "ok", "refused"}]
  /\ left \in [Admin -> 0..Pieces]
  /\ orderly \in [Admin -> BOOLEAN] /\ knows \in [Admin -> BOOLEAN]
  /\ gone \in [Admin -> BOOLEAN]
  /\ said \in [Admin -> Nat] /\ wire \in [Admin -> Seq(Unit)]
  /\ heard \in [Admin -> {"none", "welcome", "denied", "ok", "refused"}]
  /\ users \in [Field -> Word \cup {Blank}] /\ users_size \in 0..Slots
  /\ auth \in BOOLEAN /\ sniff \in BOOLEAN /\ bufsize \in Size /\ past \in BOOLEAN

(* An event is delivered only in a state that has a handler for it (stm.c:54
   aborts the process otherwise), and a session that has something to send is
   watched for writing. *)
EventHasHandler ==
  \A a \in Admin :
    /\ Readable(a) => st[a] \in RequestStates \cup {"CONNECT_READ", "REQUEST"}
    /\ Writable(a) => st[a] \in {"CONNECT_WRITE", "REPLIES"}
    /\ Writable(a) <=> left[a] > 0

(* Only a session whose client had the password changes the configuration, and
   only with the command it is in. *)
ChangedByHolder ==
  [][\E a \in Admin : knows[a] /\ st[a] \in RequestStates /\ st'[a] # st[a]]_conf

(* A client that was told something learns of it: what is stored without a reply
   is a buffer size and nothing else. *)
SilentOnlySize ==
  [][(\A a \in Admin : st'[a] # "REPLIES" \/ st[a] = "REPLIES")
       => UNCHANGED <<accounts, auth, sniff>> /\ bufsize' <= 0]_conf

(* The table of users does what the administrators are told, and who asked is
   told so.  It is so of words that leave room for a terminator: where one of
   MAX_USERNAME_SIZE bytes is stored, an entry changes with its neighbour. *)
Entry(e) == <<StringAt(users, Name(e)), StringAt(users, Pass(e))>>
Text == UNION {{s \in [1..k -> Word] : \A i \in 1..(k - 1) : s[i] \in Full} : k \in 0..(2 * Slots)}
Entries == [x \in Text \X Text |-> Cardinality({e \in 1..users_size : Entry(e) = x})]
(* To add an account is to add one: those that were there read as before.  It is
   not so once a word of MAX_USERNAME_SIZE bytes is a password: the string goes
   on in the name of the next account. *)
OthersKept ==
  [][users_size' > users_size => \A e \in 1..users_size : Entry(e)' = Entry(e)]_accounts
Table == INSTANCE Accounts WITH
  Most <- Slots, accounts <- Entries,
  answer <- [a \in Admin |-> IF st[a] = "REPLIES" THEN reply[a] ELSE "none"]
ImplementsAccounts == Table!ASpec

(* An orderly client that sent its command gets a reply, whatever the others
   do, unless it goes or the command is the one of SilentOnlySize. *)
Commanded(a) ==
  /\ orderly[a] /\ said[a] = Whole /\ st[a] # "none"
  /\ st[a] # "REQUEST_BUFFSIZE" /\ \A i \in 1..Len(wire[a]) : wire[a][i] # "CONFIGBUFFSIZE"
CommandAnswered ==
  \A a \in Admin : Commanded(a) ~> (heard[a] \in {"ok", "refused"} \/ gone[a])

(* The session of a client that ended or was reset is closed, whatever state it
   was in. *)
EndNoticed == \A a \in Admin : gone[a] ~> (st[a] = "none")

(* What the properties of one session rest on: its interest is that of its
   state, and only a client that had the password gets past the answer to it. *)
Reading == RequestStates \cup {"CONNECT_READ", "REQUEST"}
Writing == {"CONNECT_WRITE", "REPLIES"}
Consistent(a) ==
  /\ interest[a] = "read" <=> st[a] \in Reading
  /\ interest[a] = "write" <=> st[a] \in Writing
  /\ st[a] \in Writing <=> left[a] > 0
  /\ st[a] \in RequestStates \cup {"REQUEST", "REPLIES"} => knows[a]
  /\ st[a] = "CONNECT_WRITE" /\ status[a] # "CLOSE" => knows[a]

MngInv == TypeOK /\ \A a \in Admin : Consistent(a)

(* What CommandAnswered and EndNoticed rest on, besides the fairness.  A session
   whose client has ended, or has sent its whole command, is one the selector has
   an event for. *)
Ready(a) == Readable(a) \/ Writable(a)
SessionDue ==
  \A a \in Admin : st[a] # "none" /\ (gone[a] \/ (orderly[a] /\ said[a] = Whole)) => Ready(a)

(* How many calls of its handlers a session can take before its client sends
   more: the units to be read, each of which may make a reply of Pieces parts. *)
Outstanding(session_st, units, unsent) ==
  IF session_st = "none" THEN 0 ELSE (Pieces + 1) * Len(units) + unsent + 1

(* Every call of a handler uses up something, be it input or a reply, so that no
   session keeps the selector busy; nobody else takes from a session the event
   it is due, and only its client gives it more to do. *)
SessionDrawsNearer ==
  [][\A a \in Admin : st[a] # "none" =>
       LET before == Outstanding(st[a], wire[a], left[a])
           after == Outstanding(st'[a], wire'[a], left'[a])
       IN  /\ Handle(a) => after < before
           /\ after < before \/ ((Ready(a) => Ready(a)') /\ (after = before \/ said'[a] > said[a]))
    ]_vars

(* The session of an orderly client that sent a command, other than the one of
   SilentOnlySize, and did not hang up ends with its answer sent whole. *)
EndsAnswered ==
  [][\A a \in Admin : Commanded(a) /\ ~gone[a] /\ st'[a] = "none"
       => st[a] = "REPLIES" /\ heard'[a] \in {"ok", "refused"}]_vars

(* No strcpy of add_user, edit_user or delete_user, terminator included, writes
   behind the table of users, whatever words ran into their neighbours before.
   It is so of Moderate passwords, of less than three fields' bytes: the slot
   add_user leaves over has room for them, and for no more. *)
InTable == ~past
Moderate == \A p \in Password : Fields(p) <= 3
=============================================================================
