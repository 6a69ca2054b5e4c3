------------------------------ MODULE MngProofs ------------------------------
(***************************************************************************)
(* The sessions of the administrators, whatever their number, the table of *)
(* users, whatever its size and the words in it, and what changes the      *)
(* configuration.  MngInv is inductive: a session only depends on itself,  *)
(* and the table on nothing but its own fields.                            *)
(*                                                                         *)
(* The table implements Accounts: what its entries say is counted, and     *)
(* each command counts one more, one less, or both.                        *)
(*                                                                         *)
(* Last, of a client that waits for the answer to its password (Pace):     *)
(* whatever a call of a handler does (Moves) leaves less to do, and its    *)
(* session ends with its answer.                                           *)
(***************************************************************************)
EXTENDS Mng, FiniteSetTheorems, SequenceTheorems, WellFoundedInduction, TLAPS

LEMMA LeastExists ==
  ASSUME NEW T, T \subseteq Nat, T # {}
  PROVE  \E x \in T : \A y \in T : x <= y
<1>1. PICK x \in T : \A y \in T : ~ (<<y, x>> \in OpToRel(<, Nat))
  BY WFMin, NatLessThanWellFounded
<1>2. \A y \in T : ~ (y < x)
  BY <1>1 DEF OpToRel
<1> QED BY <1>2

(* Induction up to a bound, over the members of a set. *)
LEMMA UpTo ==
  ASSUME NEW n \in Nat, NEW G, 0 \in G, \A i \in 0..(n - 1) : i \in G => i + 1 \in G
  PROVE  \A i \in 0..n : i \in G
<1> SUFFICES ASSUME {i \in 0..n : i \notin G} # {} PROVE FALSE
  OBVIOUS
<1> DEFINE B == {i \in 0..n : i \notin G}
<1>0. B \subseteq Nat /\ B # {}
  OBVIOUS
<1>1. PICK x \in B : \A y \in B : x <= y
  <2> HIDE DEF B
  <2> QED BY <1>0, LeastExists
<1>2. x \in 0..n /\ x # 0
  BY <1>1
<1>3. x - 1 \in 0..(n - 1) /\ (x - 1) + 1 = x
  BY <1>2
<1>4. x - 1 \notin B
  BY <1>1, <1>3
<1>5. x - 1 \in G
  BY <1>3, <1>4
<1> QED BY <1>1, <1>3, <1>5

-----------------------------------------------------------------------------
(* States and units. *)

LEMMA Numerals == /\ Slots \in Nat /\ Slots >= 1
                  /\ Pieces \in Nat /\ Pieces >= 1 /\ Noise \in Nat
<1>1. Slots \in Nat \ {0} /\ Noise \in Nat /\ Pieces \in Nat \ {0}
  BY MngAssumption, Zenon
<1> QED BY <1>1

LEMMA TheRequestStates ==
  /\ RequestStates = {"REQUEST_GET", "REQUEST_PUT", "REQUEST_EDIT", "REQUEST_BUFFSIZE",
                      "REQUEST_CONFIGSTATUS", "REQUEST_DELETE"}
  /\ \A act \in Act : RequestState(act) \in RequestStates
<1>1. /\ RequestState("GET") = "REQUEST_GET" /\ RequestState("PUT") = "REQUEST_PUT"
      /\ RequestState("EDIT") = "REQUEST_EDIT"
      /\ RequestState("CONFIGBUFFSIZE") = "REQUEST_BUFFSIZE"
      /\ RequestState("CONFIGSTATUS") = "REQUEST_CONFIGSTATUS"
      /\ RequestState("DELETE") = "REQUEST_DELETE"
  BY DEF RequestState
<1>2. Act = {"GET", "PUT", "EDIT", "CONFIGBUFFSIZE", "CONFIGSTATUS", "DELETE"}
  BY DEF Act
<1>3. RequestStates = {RequestState("GET"), RequestState("PUT"), RequestState("EDIT"),
        RequestState("CONFIGBUFFSIZE"), RequestState("CONFIGSTATUS"), RequestState("DELETE")}
  BY <1>2, Zenon DEF RequestStates
<1>4. \A act \in Act : RequestState(act) \in RequestStates
  BY DEF RequestStates
<1> QED BY <1>1, <1>3, <1>4

(* What is left of a stream when some of it was received. *)
LEMMA RestOfStream ==
  ASSUME NEW s \in Seq(Unit), NEW n \in 0..Len(s)
  PROVE  SubSeq(s, n + 1, Len(s)) \in Seq(Unit)
<1>1. Len(s) \in Nat /\ n + 1 \in Int /\ \A i \in (n + 1)..Len(s) : i \in 1..Len(s)
  BY LenProperties
<1>2. \A i \in 1..Len(s) : s[i] \in Unit
  BY ElementOfSeq
<1>3. \A i \in (n + 1)..Len(s) : s[i] \in Unit
  BY <1>1, <1>2
<1>4. Len(s) \in Int
  BY <1>1
<1> QED BY <1>1, <1>3, <1>4, SubSeqProperties

-----------------------------------------------------------------------------
(* The table of users. *)
Table_ == [Field -> Word \cup {Blank}]

LEMMA TableIsSeq ==
  ASSUME NEW t \in Table_
  PROVE  t \in Seq(Word \cup {Blank}) /\ Len(t) = 2 * Slots
<1>1. 2 * Slots \in Nat
  BY Numerals
<1> QED BY <1>1 DEF Table_, Field

(* What strcpy leaves in the table is words and terminators. *)
LEMMA StrcpyType ==
  ASSUME NEW t \in Table_, NEW i \in Field, NEW s \in Seq(Word)
  PROVE  Strcpy(t, i, s) \in Table_
<1>1. Len(t) = 2 * Slots /\ 2 * Slots \in Nat
  BY TableIsSeq, Numerals
<1>2. Len(s) \in Nat /\ \A k \in 1..Len(s) : s[k] \in Word
  BY LenProperties, ElementOfSeq
<1>3. \A j \in 1..(2 * Slots) : j \in i..((i + Len(s)) - 1) => j - i + 1 \in 1..Len(s)
  BY <1>1, <1>2 DEF Field
<1>4. \A j \in 1..(2 * Slots) : t[j] \in Word \cup {Blank}
  BY DEF Table_, Field
<1>5. \A j \in 1..(2 * Slots) : j \in i..((i + Len(s)) - 1) => s[j - i + 1] \in Word
  BY <1>2, <1>3
<1> DEFINE after == i + Len(s)
           c(j) == IF j \in i..(after - 1) THEN s[j - i + 1]
                   ELSE IF j = after /\ Spills(s) THEN Blank ELSE t[j]
<1>6. ASSUME NEW j \in 1..(2 * Slots) PROVE c(j) \in Word \cup {Blank}
  <2>1. CASE j \in i..((i + Len(s)) - 1)
    <3>1. c(j) = s[j - i + 1]
      BY <2>1
    <3>2. s[j - i + 1] \in Word
      BY <1>5, <2>1, Zenon
    <3> HIDE DEF c
    <3> QED BY <3>1, <3>2
  <2>2. CASE j \notin i..((i + Len(s)) - 1)
    <3>1. c(j) = Blank \/ c(j) = t[j]
      BY <2>2
    <3> HIDE DEF c, after
    <3> QED BY <1>4, <3>1
  <2> QED BY <2>1, <2>2
<1>7. Strcpy(t, i, s) = [j \in 1..Len(t) |-> c(j)]
  BY Zenon DEF Strcpy
<1>8. Strcpy(t, i, s) = [j \in 1..(2 * Slots) |-> c(j)]
  BY <1>1, <1>7
<1> HIDE DEF c
<1> QED BY <1>6, <1>8 DEF Table_, Field

(* The strings of an entry that was copied are made of words, one for each field
   they lie in. *)
LEMMA StringType ==
  ASSUME NEW t \in Seq(Word \cup {Blank}), Len(t) = 2, NEW i \in {1, 2}
  PROVE  StringAt(t, i) \in Seq(Word) /\ Len(StringAt(t, i)) <= 3 - i
<1> DEFINE ends == {j \in i..Len(t) : t[j] \notin Full}
           last == IF ends = {} THEN Len(t) ELSE Min(ends)
<1>1. ends \subseteq 1..2 /\ ends \subseteq i..2
  OBVIOUS
<1>2. ASSUME ends # {} PROVE Min(ends) \in ends /\ \A j \in ends : Min(ends) <= j
  <2>1. \E x \in ends : \A y \in ends : x <= y
    <3>1. CASE 1 \in ends
      BY <1>1, <3>1
    <3>2. CASE 1 \notin ends
      BY <1>1, <1>2, <3>2
    <3> QED BY <3>1, <3>2
  <2> HIDE DEF ends
  <2> QED BY <2>1 DEF Min
<1>3. last \in i..2 /\ \A j \in i..2 : j < last => t[j] \in Full
  <2>1. \A j \in i..2 : j \notin ends => t[j] \in Full
    OBVIOUS
  <2>2. CASE ends = {}
    <3>1. last = 2
      BY <2>2
    <3> HIDE DEF last
    <3> QED BY <2>1, <2>2, <3>1
  <2>3. CASE ends # {}
    <3>1. last = Min(ends)
      BY <2>3
    <3>2. last \in ends /\ \A j \in ends : last <= j
      BY <1>2, <2>3, <3>1
    <3> HIDE DEF last, ends
    <3>3. ASSUME NEW j \in i..2, j < last PROVE j \notin ends
      BY <3>2, <3>3, <1>1
    <3> QED BY <1>1, <2>1, <3>2, <3>3
  <2> QED BY <2>2, <2>3
<1>4. \A j \in 1..2 : t[j] \in Word \cup {Blank}
  BY ElementOfSeq
<1> HIDE DEF last
<1>5. last \in Int /\ last - 1 \in Int /\ i \in Int
  BY <1>3
<1>6. \A j \in i..(last - 1) : t[j] \in Word
  BY <1>3 DEF Word
<1>7. SubSeq(t, i, last - 1) \in Seq(Word) /\ Len(SubSeq(t, i, last - 1)) <= 3 - i
  <2>1. SubSeq(t, i, last - 1) \in Seq(Word)
    BY <1>5, <1>6, SubSeqProperties
  <2>2. Len(SubSeq(t, i, last - 1)) = IF i <= last - 1 THEN (last - 1) - i + 1 ELSE 0
    BY <1>5, <1>6, SubSeqProperties
  <2> QED BY <1>3, <1>5, <2>1, <2>2
<1>8. ASSUME t[last] # Blank
      PROVE  SubSeq(t, i, last) \in Seq(Word) /\ Len(SubSeq(t, i, last)) <= 3 - i
  <2>1. \A j \in i..last : t[j] \in Word
    BY <1>3, <1>4, <1>6, <1>8
  <2>2. SubSeq(t, i, last) \in Seq(Word)
    BY <1>5, <2>1, SubSeqProperties
  <2>3. Len(SubSeq(t, i, last)) = IF i <= last THEN last - i + 1 ELSE 0
    BY <1>5, <2>1, SubSeqProperties
  <2> QED BY <1>3, <1>5, <2>2, <2>3
<1> QED BY <1>7, <1>8 DEF StringAt, last

AccountsType == users \in Table_ /\ users_size \in 0..Slots /\ past \in BOOLEAN

LEMMA FieldsOf ==
  ASSUME NEW e \in 1..Slots
  PROVE  Name(e) \in Field /\ Pass(e) \in Field
BY Numerals DEF Name, Pass, Field

LEMMA OneWord == \A w \in Word : <<w>> \in Seq(Word)
OBVIOUS

LEMMA Passwords == \A p \in Password : p \in Seq(Word) /\ p # <<>>
BY MngAssumption DEF Word

LEMMA AddUserType ==
  ASSUME AccountsType, NEW name \in Word \cup Long, NEW pass \in Seq(Word), NEW ok,
         AddUser(name, pass, ok)
  PROVE  AccountsType'
<1>1. CASE users_size + 1 < Slots /\ name \notin Long
  <2> DEFINE e == users_size + 1
  <2>1. e \in 1..Slots /\ name \in Word
    BY <1>1, Numerals DEF AccountsType
  <2>2. Name(e) \in Field /\ Pass(e) \in Field /\ <<name>> \in Seq(Word)
    BY <2>1, FieldsOf
  <2>3. /\ users' = Strcpy(Strcpy(users, Name(e), <<name>>), Pass(e), pass) /\ users_size' = e
        /\ past' \in BOOLEAN
    BY <1>1 DEF AddUser
  <2> HIDE DEF e
  <2>4. Strcpy(users, Name(e), <<name>>) \in Table_
    BY <2>2, StrcpyType DEF AccountsType
  <2>5. users' \in Table_
    BY <2>2, <2>3, <2>4, StrcpyType
  <2> QED BY <2>1, <2>3, <2>5 DEF AccountsType
<1>2. CASE ~(users_size + 1 < Slots /\ name \notin Long)
  BY <1>2 DEF AddUser, AccountsType, accounts
<1> QED BY <1>1, <1>2

(* The first entry of a name, if there is one. *)
LEMMA FirstMatch ==
  ASSUME AccountsType, NEW name, Matches(name) # {}
  PROVE  Min(Matches(name)) \in 1..users_size
<1>1. Matches(name) \subseteq 1..users_size /\ 1..users_size \subseteq Nat
  BY DEF Matches, AccountsType
<1>2. \E x \in Matches(name) : \A y \in Matches(name) : x <= y
  BY <1>1, LeastExists
<1>3. Min(Matches(name)) \in Matches(name)
  BY <1>2 DEF Min
<1> QED BY <1>1, <1>3

(* The copy of the last entry. *)
LEMMA LastEntryType ==
  ASSUME AccountsType, users_size \in 1..Slots
  PROVE  /\ SubSeq(users, Name(users_size), Pass(users_size)) \in Seq(Word \cup {Blank})
         /\ Len(SubSeq(users, Name(users_size), Pass(users_size))) = 2
<1>1. /\ Name(users_size) \in 1..(2 * Slots) /\ Pass(users_size) \in 1..(2 * Slots)
      /\ Pass(users_size) = Name(users_size) + 1
  BY Numerals DEF Name, Pass
<1>2. \A j \in 1..(2 * Slots) : users[j] \in Word \cup {Blank}
  BY DEF AccountsType, Table_, Field
<1>3. /\ Name(users_size) \in Int /\ Pass(users_size) \in Int
      /\ \A j \in Name(users_size)..Pass(users_size) : j \in 1..(2 * Slots)
      /\ Name(users_size) <= Pass(users_size) /\ Pass(users_size) - Name(users_size) + 1 = 2
  BY <1>1, Numerals
<1>4. \A j \in Name(users_size)..Pass(users_size) : users[j] \in Word \cup {Blank}
  BY <1>2, <1>3
<1> QED BY <1>3, <1>4, SubSeqProperties

LEMMA DeleteUserType ==
  ASSUME AccountsType, NEW name, NEW ok, DeleteUser(name, ok)
  PROVE  AccountsType'
<1>1. CASE Matches(name) # {}
  <2> DEFINE e == Min(Matches(name))
             moved == SubSeq(users, Name(users_size), Pass(users_size))
  <2>1. e \in 1..users_size
    BY <1>1, FirstMatch
  <2>2. users_size \in 1..Slots /\ e \in 1..Slots /\ users_size - 1 \in 0..Slots
    BY <2>1, Numerals DEF AccountsType
  <2>3. moved \in Seq(Word \cup {Blank}) /\ Len(moved) = 2
    BY <2>2, LastEntryType
  <2>4. StringAt(moved, 1) \in Seq(Word) /\ StringAt(moved, 2) \in Seq(Word)
    <3> HIDE DEF moved
    <3> QED BY <2>3, StringType
  <2>5. /\ users' = IF e = users_size THEN users
                    ELSE Strcpy(Strcpy(users, Name(e), StringAt(moved, 1)), Pass(e), StringAt(moved, 2))
        /\ users_size' = users_size - 1 /\ past' \in BOOLEAN
    BY <1>1 DEF DeleteUser
  <2>6. Name(e) \in Field /\ Pass(e) \in Field
    BY <2>2, FieldsOf
  <2> HIDE DEF e, moved
  <2>7. Strcpy(users, Name(e), StringAt(moved, 1)) \in Table_
    BY <2>4, <2>6, StrcpyType DEF AccountsType
  <2>8. Strcpy(Strcpy(users, Name(e), StringAt(moved, 1)), Pass(e), StringAt(moved, 2)) \in Table_
    BY <2>4, <2>6, <2>7, StrcpyType
  <2> QED BY <2>2, <2>5, <2>8 DEF AccountsType
<1>2. CASE Matches(name) = {}
  BY <1>2 DEF DeleteUser, AccountsType, accounts
<1> QED BY <1>1, <1>2

LEMMA EditUserType ==
  ASSUME AccountsType, NEW name, NEW value, NEW attr, NEW ok, EditUser(name, value, attr, ok)
  PROVE  AccountsType'
<1>1. users_size' = users_size
  BY DEF EditUser
<1>2. CASE Matches(name) # {} /\ value \in Short
  <2> DEFINE e == Min(Matches(name))
             i == IF attr = 0 THEN Name(e) ELSE Pass(e)
  <2>1. e \in 1..users_size
    BY <1>2, FirstMatch
  <2>2. e \in 1..Slots
    BY <2>1, Numerals DEF AccountsType
  <2>3. i \in Field
    BY <2>2, FieldsOf
  <2>4. users' = Strcpy(users, i, <<value>>) /\ past' = ~Fits(i, <<value>>) /\ <<value>> \in Seq(Word)
    <3>1. ok
      BY <1>2, Zenon DEF EditUser
    <3>2. users' = Strcpy(users, i, <<value>>) /\ past' = ~Fits(i, <<value>>)
      BY <3>1, Zenon DEF EditUser
    <3> QED BY <1>2, <3>2 DEF Word
  <2> HIDE DEF i
  <2>5. past' \in BOOLEAN
    BY <2>4
  <2> QED BY <1>1, <2>3, <2>4, <2>5, StrcpyType DEF AccountsType
<1>3. CASE ~(Matches(name) # {} /\ value \in Short)
  BY <1>1, <1>3 DEF EditUser, AccountsType
<1> QED BY <1>2, <1>3

-----------------------------------------------------------------------------
(* The invariant. *)
SettingsType == auth \in BOOLEAN /\ sniff \in BOOLEAN /\ bufsize \in Size
ConfType == AccountsType /\ SettingsType
SessionType ==
  /\ st \in [Admin -> States]
  /\ interest \in [Admin -> {"none", "read", "write"}]
  /\ status \in [Admin -> {"OK", "CLOSE"}]
  /\ reply \in [Admin -> {"none", "ok", "refused"}]
  /\ left \in [Admin -> 0..Pieces]
ClientType ==
  /\ orderly \in [Admin -> BOOLEAN] /\ knows \in [Admin -> BOOLEAN]
  /\ gone \in [Admin -> BOOLEAN]
  /\ said \in [Admin -> Nat] /\ wire \in [Admin -> Seq(Unit)]
  /\ heard \in [Admin -> {"none", "welcome", "denied", "ok", "refused"}]

LEMMA TypeParts == TypeOK <=> SessionType /\ ClientType /\ ConfType
BY DEF TypeOK, SessionType, ClientType, ConfType, AccountsType, SettingsType, Table_

LEMMA TypePartsNext == TypeOK' <=> SessionType' /\ ClientType' /\ ConfType'
BY DEF TypeOK, SessionType, ClientType, ConfType, AccountsType, SettingsType, Table_

LEMMA TheStates ==
  /\ States = Reading \cup Writing \cup {"none"}
  /\ Reading \cap Writing = {} /\ "none" \notin Reading \cup Writing
  /\ RequestStates \subseteq Reading /\ "CONNECT_READ" \in Reading
  /\ "REQUEST" \in Reading /\ "REQUEST" \notin RequestStates
  /\ "CONNECT_READ" \notin RequestStates
BY TheRequestStates DEF States, Reading, Writing

LEMMA ConfUnchanged ==
  ASSUME ConfType, UNCHANGED conf
  PROVE  ConfType'
BY DEF ConfType, AccountsType, SettingsType, conf, accounts, settings

LEMMA SettingsUnchanged ==
  ASSUME SettingsType, UNCHANGED settings
  PROVE  SettingsType'
BY DEF SettingsType, settings

LEMMA AccountsUnchanged ==
  ASSUME AccountsType, UNCHANGED accounts
  PROVE  AccountsType'
BY DEF AccountsType, accounts

Replied == {"none", "welcome", "denied", "ok", "refused"}

(* A session that is closed leaves nothing of itself. *)
LEMMA CloseKeeps ==
  ASSUME MngInv, NEW a \in Admin, Close(a), ConfType',
         heard' \in [Admin -> Replied]
  PROVE  MngInv'
<1>1. SessionType /\ ClientType
  BY TypeParts DEF MngInv
<1>2. /\ "none" \in States /\ 0 \in 0..Pieces /\ <<>> \in Seq(Unit)
  BY Numerals DEF States
<1>3. SessionType'
  BY <1>1, <1>2 DEF SessionType, Close
<1>4. ClientType'
  BY <1>1, <1>2 DEF ClientType, Close, Replied
<1>5. TypeOK'
  BY <1>3, <1>4, TypePartsNext
<1>6. ASSUME NEW b \in Admin PROVE Consistent(b)'
  <2>1. CASE b = a
    BY <1>1, <2>1, TheStates, TheRequestStates DEF Close, Consistent, SessionType, Writing
  <2>2. CASE b # a
    <3>1. Consistent(b)
      BY DEF MngInv
    <3>2. /\ st'[b] = st[b] /\ interest'[b] = interest[b] /\ status'[b] = status[b]
          /\ left'[b] = left[b] /\ knows'[b] = knows[b]
      BY <1>1, <2>2 DEF Close, SessionType, ClientType
    <3> QED BY <3>1, <3>2 DEF Consistent
  <2> QED BY <2>1, <2>2
<1> QED BY <1>5, <1>6 DEF MngInv

(* A step of one session keeps the invariant when it keeps the types and leaves
   that session consistent. *)
Others(a) ==
  \A b \in Admin \ {a} :
    /\ st'[b] = st[b] /\ interest'[b] = interest[b] /\ status'[b] = status[b]
    /\ left'[b] = left[b] /\ knows'[b] = knows[b]

LEMMA OneSession ==
  ASSUME MngInv, NEW a \in Admin, SessionType', ClientType', ConfType',
         Others(a), Consistent(a)'
  PROVE  MngInv'
<1>1. TypeOK'
  BY TypePartsNext
<1>2. ASSUME NEW b \in Admin PROVE Consistent(b)'
  <2>1. CASE b = a
    BY <2>1
  <2>2. CASE b # a
    <3>1. Consistent(b)
      BY DEF MngInv
    <3>2. /\ st'[b] = st[b] /\ interest'[b] = interest[b] /\ status'[b] = status[b]
          /\ left'[b] = left[b] /\ knows'[b] = knows[b]
      BY <2>2 DEF Others
    <3> QED BY <3>1, <3>2 DEF Consistent
  <2> QED BY <2>1, <2>2
<1> QED BY <1>1, <1>2 DEF MngInv

(* What was received is taken off the stream. *)
LEMMA DropType ==
  ASSUME ClientType, NEW a \in Admin, NEW n \in 0..Len(wire[a]), Drop(a, n)
  PROVE  wire' \in [Admin -> Seq(Unit)]
<1>1. wire \in [Admin -> Seq(Unit)] /\ wire[a] \in Seq(Unit)
  BY DEF ClientType
<1>2. SubSeq(wire[a], n + 1, Len(wire[a])) \in Seq(Unit)
  BY <1>1, RestOfStream
<1> QED BY <1>1, <1>2 DEF Drop

LEMMA EndedKeeps ==
  ASSUME MngInv, NEW a \in Admin, Ended(a)
  PROVE  MngInv'
<1>1. ConfType /\ heard \in [Admin -> Replied]
  BY TypeParts DEF MngInv, ClientType, Replied
<1>2. Close(a) /\ heard' = heard /\ UNCHANGED conf
  BY DEF Ended
<1> QED BY <1>1, <1>2, ConfUnchanged, CloseKeeps

LEMMA SendFailsKeeps ==
  ASSUME MngInv, NEW a \in Admin, SendFails(a)
  PROVE  MngInv'
<1>1. ConfType /\ heard \in [Admin -> Replied]
  BY TypeParts DEF MngInv, ClientType, Replied
<1>2. Close(a) /\ heard' = heard /\ UNCHANGED conf
  BY DEF SendFails
<1> QED BY <1>1, <1>2, ConfUnchanged, CloseKeeps

LEMMA IncompleteKeeps ==
  ASSUME MngInv, NEW a \in Admin, Incomplete(a)
  PROVE  MngInv'
<1>1. SessionType /\ ClientType /\ ConfType /\ heard \in [Admin -> Replied] /\ Consistent(a)
  BY TypeParts DEF MngInv, ClientType, Replied
<1>2. PICK n \in 1..Len(wire[a]) :
        \/ Drop(a, n) /\ UNCHANGED <<session, client, conf>>
        \/ Close(a) /\ UNCHANGED <<heard, conf>>
  BY DEF Incomplete
<1>3. CASE Drop(a, n) /\ UNCHANGED <<session, client, conf>>
  <2>1. n \in 0..Len(wire[a])
    OBVIOUS
  <2>2. wire' \in [Admin -> Seq(Unit)]
    BY <1>1, <1>3, <2>1, DropType
  <2>3. UNCHANGED session /\ UNCHANGED client /\ UNCHANGED conf
    BY <1>3
  <2>4. ConfType'
    BY <1>1, <2>3, ConfUnchanged
  <2>5. ClientType'
    BY <1>1, <2>2, <2>3 DEF ClientType, client
  <2>6. SessionType'
    BY <1>1, <2>3 DEF SessionType, session
  <2>7. Others(a) /\ Consistent(a)'
    BY <1>1, <2>3 DEF Others, Consistent, session, client
  <2> QED BY <2>4, <2>5, <2>6, <2>7, OneSession
<1>4. CASE Close(a) /\ UNCHANGED <<heard, conf>>
  BY <1>1, <1>4, ConfUnchanged, CloseKeeps
<1> QED BY <1>2, <1>3, <1>4

(* An answer: the session waits for its descriptor to be writable. *)
LEMMA RespondKeeps ==
  ASSUME MngInv, NEW a \in Admin, NEW state \in Writing, NEW v \in {"ok", "refused"},
         NEW size \in 1..Pieces, Respond(a, state, v, size),
         status' \in [Admin -> {"OK", "CLOSE"}], wire' \in [Admin -> Seq(Unit)],
         \A b \in Admin \ {a} : status'[b] = status[b],
         UNCHANGED client, ConfType',
         state = "REPLIES" => knows[a], state # "REPLIES" /\ status'[a] # "CLOSE" => knows[a]
  PROVE  MngInv'
<1>1. SessionType /\ ClientType /\ size \in Nat /\ Pieces \in Nat
  BY TypeParts, Numerals DEF MngInv
<1>2. state \in States /\ size \in 0..Pieces /\ size > 0
  BY <1>1, TheStates
<1>3. SessionType'
  BY <1>1, <1>2 DEF SessionType, Respond
<1>4. ClientType'
  BY <1>1 DEF ClientType, client
<1>5. Others(a)
  BY <1>1 DEF Others, Respond, SessionType, client
<1>6. /\ st'[a] = state /\ interest'[a] = "write" /\ left'[a] = size /\ knows'[a] = knows[a]
  BY <1>1 DEF Respond, SessionType, client
<1>7. Consistent(a)'
  BY <1>2, <1>6, TheStates, TheRequestStates DEF Consistent, Writing
<1> QED BY <1>3, <1>4, <1>5, <1>7, OneSession

-----------------------------------------------------------------------------
(* One lemma for each action. *)

LEMMA AcceptKeeps ==
  ASSUME MngInv, NEW a \in Admin, Accept(a)
  PROVE  MngInv'
<1>1. SessionType /\ ClientType /\ ConfType /\ Consistent(a)
  BY TypeParts DEF MngInv
<1>2. UNCHANGED status /\ UNCHANGED reply /\ UNCHANGED left /\ UNCHANGED said
      /\ UNCHANGED gone /\ UNCHANGED wire /\ UNCHANGED conf
  BY DEF Accept
<1>3. PICK o \in BOOLEAN, k \in BOOLEAN :
        orderly' = [orderly EXCEPT ![a] = o] /\ knows' = [knows EXCEPT ![a] = k]
  BY DEF Accept
<1>4. /\ st' = [st EXCEPT ![a] = "CONNECT_READ"]
      /\ interest' = [interest EXCEPT ![a] = "read"]
      /\ heard' = [heard EXCEPT ![a] = "none"]
      /\ st[a] = "none"
  BY DEF Accept
<1>5. "CONNECT_READ" \in States
  BY TheStates
<1>6. SessionType'
  BY <1>1, <1>2, <1>4, <1>5 DEF SessionType
<1>7. ClientType'
  BY <1>1, <1>2, <1>3, <1>4 DEF ClientType
<1>8. Others(a)
  BY <1>1, <1>2, <1>3, <1>4 DEF Others, SessionType, ClientType
<1>9. Consistent(a)'
  <2>1. st'[a] = "CONNECT_READ" /\ interest'[a] = "read" /\ left'[a] = left[a]
    BY <1>1, <1>2, <1>4 DEF SessionType
  <2>2. ~ (left[a] > 0)
    BY <1>1, <1>4, TheStates DEF Consistent, Writing
  <2> QED BY <2>1, <2>2, TheStates DEF Consistent, Writing
<1>10. ConfType'
  BY <1>1, <1>2, ConfUnchanged
<1> QED BY <1>6, <1>7, <1>8, <1>9, <1>10, OneSession

LEMMA ConnectReadKeeps ==
  ASSUME MngInv, NEW a \in Admin, ConnectRead(a)
  PROVE  MngInv'
<1>1. SessionType /\ ClientType /\ ConfType
  BY TypeParts DEF MngInv
<1>2. CASE Ended(a) \/ Incomplete(a)
  BY <1>2, EndedKeeps, IncompleteKeeps
<1>3. ASSUME NEW n \in 1..Len(wire[a]), Drop(a, n),
             Respond(a, "CONNECT_WRITE", IF knows[a] THEN "ok" ELSE "refused", 1),
             status' = [status EXCEPT ![a] = IF knows[a] THEN @ ELSE "CLOSE"],
             UNCHANGED client, UNCHANGED conf
      PROVE  MngInv'
  <2>1. n \in 0..Len(wire[a])
    OBVIOUS
  <2>2. wire' \in [Admin -> Seq(Unit)]
    BY <1>1, <1>3, <2>1, DropType
  <2>3. /\ status' \in [Admin -> {"OK", "CLOSE"}]
        /\ \A b \in Admin \ {a} : status'[b] = status[b]
        /\ status'[a] # "CLOSE" => knows[a]
    BY <1>1, <1>3 DEF SessionType
  <2>4. ConfType'
    BY <1>1, <1>3, ConfUnchanged
  <2>5. (IF knows[a] THEN "ok" ELSE "refused") \in {"ok", "refused"} /\ 1 \in 1..Pieces
        /\ "CONNECT_WRITE" \in Writing
    BY Numerals DEF Writing
  <2>6. UNCHANGED client
    BY <1>3
  <2>7. Respond(a, "CONNECT_WRITE", IF knows[a] THEN "ok" ELSE "refused", 1)
    BY <1>3
  <2> QED BY <2>2, <2>3, <2>4, <2>5, <2>6, <2>7, RespondKeeps
<1> QED BY <1>2, <1>3 DEF ConnectRead

LEMMA SendsPartKeeps ==
  ASSUME MngInv, NEW a \in Admin, NEW n, SendsPart(a, n), st[a] \in Writing
  PROVE  MngInv'
<1>1. SessionType /\ ClientType /\ ConfType /\ Consistent(a) /\ Pieces \in Nat
  BY TypeParts, Numerals DEF MngInv
<1>2. /\ UNCHANGED st /\ UNCHANGED interest /\ UNCHANGED status /\ UNCHANGED reply
      /\ UNCHANGED client /\ UNCHANGED wire /\ UNCHANGED conf
      /\ n \in 1..(left[a] - 1) /\ left' = [left EXCEPT ![a] = left[a] - n]
  BY DEF SendsPart
<1>3. left[a] \in 0..Pieces
  BY <1>1 DEF SessionType
<1>4. left[a] - n \in 0..Pieces /\ left[a] - n > 0
  BY <1>1, <1>2, <1>3
<1>5. SessionType'
  BY <1>1, <1>2, <1>4 DEF SessionType
<1>6. ClientType'
  BY <1>1, <1>2 DEF ClientType, client
<1>7. Others(a)
  BY <1>1, <1>2 DEF Others, SessionType, client
<1>8. left'[a] = left[a] - n
  BY <1>1, <1>2 DEF SessionType
<1>9. Consistent(a)'
  BY <1>1, <1>2, <1>4, <1>8 DEF Consistent, client
<1>10. ConfType'
  BY <1>1, <1>2, ConfUnchanged
<1> QED BY <1>5, <1>6, <1>7, <1>9, <1>10, OneSession

LEMMA ConnectWriteKeeps ==
  ASSUME MngInv, NEW a \in Admin, ConnectWrite(a)
  PROVE  MngInv'
<1>1. SessionType /\ ClientType /\ ConfType /\ Consistent(a)
  BY TypeParts DEF MngInv
<1>2. st[a] = "CONNECT_WRITE" /\ st[a] \in Writing
  BY DEF ConnectWrite, Writing
<1>3. CASE SendFails(a)
  BY <1>3, SendFailsKeeps
<1>4. CASE \E n \in 1..left[a] : SendsPart(a, n)
  BY <1>2, <1>4, SendsPartKeeps
<1>5. ASSUME status[a] # "CLOSE", st' = [st EXCEPT ![a] = "REQUEST"],
             interest' = [interest EXCEPT ![a] = "read"], left' = [left EXCEPT ![a] = 0],
             Heard(a, "welcome"),
             UNCHANGED <<status, reply, orderly, knows, said, gone, wire, conf>>
      PROVE  MngInv'
  <2>1. "REQUEST" \in States /\ 0 \in 0..Pieces
    BY TheStates, Numerals
  <2>2. SessionType'
    BY <1>1, <1>5, <2>1 DEF SessionType
  <2>3. ClientType'
    BY <1>1, <1>5 DEF ClientType, Heard
  <2>4. Others(a)
    BY <1>1, <1>5 DEF Others, SessionType
  <2>5. /\ st'[a] = "REQUEST" /\ interest'[a] = "read" /\ left'[a] = 0 /\ knows'[a] = knows[a]
    BY <1>1, <1>5 DEF SessionType
  <2>6. knows[a]
    BY <1>1, <1>2, <1>5 DEF Consistent
  <2>7. Consistent(a)'
    BY <2>5, <2>6, TheStates DEF Consistent, Writing
  <2>8. ConfType'
    BY <1>1, <1>5, ConfUnchanged
  <2> QED BY <2>2, <2>3, <2>4, <2>7, <2>8, OneSession
<1>6. ASSUME Close(a), Heard(a, "denied"), UNCHANGED conf
      PROVE  MngInv'
  <2>1. heard' \in [Admin -> Replied] /\ ConfType'
    BY <1>1, <1>6, ConfUnchanged DEF Heard, ClientType, Replied
  <2> QED BY <1>6, <2>1, CloseKeeps
<1> QED BY <1>3, <1>4, <1>5, <1>6 DEF ConnectWrite

LEMMA RequestKeeps ==
  ASSUME MngInv, NEW a \in Admin, Request(a)
  PROVE  MngInv'
<1>1. SessionType /\ ClientType /\ ConfType /\ Consistent(a)
  BY TypeParts DEF MngInv
<1>2. CASE Ended(a)
  BY <1>2, EndedKeeps
<1>3. CASE ~Ended(a)
  <2>1. /\ st[a] = "REQUEST" /\ wire[a] # <<>> /\ Drop(a, 1)
        /\ reply' = [reply EXCEPT ![a] = "none"]
        /\ UNCHANGED interest /\ UNCHANGED status /\ UNCHANGED left /\ UNCHANGED client
        /\ UNCHANGED conf
    BY <1>3 DEF Request
  <2>2. PICK s \in IF wire[a][1] \in Act THEN {RequestState(wire[a][1])}
                   ELSE RequestStates \cup {"REQUEST"} : st' = [st EXCEPT ![a] = s]
    BY <1>3 DEF Request
  <2>3. s \in RequestStates \cup {"REQUEST"}
    BY TheRequestStates
  <2>4. wire[a] \in Seq(Unit)
    BY <1>1 DEF ClientType
  <2>5. 1 \in 0..Len(wire[a])
    BY <2>1, <2>4, EmptySeq, LenProperties
  <2>6. wire' \in [Admin -> Seq(Unit)]
    BY <1>1, <2>1, <2>5, DropType
  <2>7. SessionType'
    BY <1>1, <2>1, <2>2, <2>3, TheStates DEF SessionType
  <2>8. ClientType'
    BY <1>1, <2>1, <2>6 DEF ClientType, client
  <2>9. Others(a)
    BY <1>1, <2>1, <2>2 DEF Others, SessionType, client
  <2>10. /\ st'[a] = s /\ interest'[a] = interest[a] /\ left'[a] = left[a]
         /\ knows'[a] = knows[a]
    BY <1>1, <2>1, <2>2 DEF SessionType, client
  <2>11. s \in Reading /\ s \notin Writing /\ st[a] \in Reading /\ st[a] \notin Writing
    BY <2>1, <2>3, TheStates
  <2>12. s # "REPLIES" /\ s # "CONNECT_WRITE" /\ knows[a]
    BY <1>1, <2>1, <2>11 DEF Consistent, Writing
  <2>13. Consistent(a)'
    BY <1>1, <2>10, <2>11, <2>12 DEF Consistent
  <2>14. ConfType'
    BY <1>1, <2>1, ConfUnchanged
  <2> QED BY <2>7, <2>8, <2>9, <2>13, <2>14, OneSession
<1> QED BY <1>2, <1>3

(* What the handlers of the commands share. *)
LEMMA NotYetKeeps ==
  ASSUME MngInv, NEW a \in Admin, NotYet(a)
  PROVE  MngInv'
BY EndedKeeps, IncompleteKeeps DEF NotYet

LEMMA AnswersKeeps ==
  ASSUME MngInv, NEW a \in Admin, st[a] \in RequestStates, Received(a),
         NEW ok, Answers(a, ok), ConfType'
  PROVE  MngInv'
<1>1. SessionType /\ ClientType /\ Consistent(a)
  BY TypeParts DEF MngInv
<1>2. PICK n \in 1..Len(wire[a]) : Drop(a, n)
  BY DEF Received
<1>3. n \in 0..Len(wire[a])
  OBVIOUS
<1>4. wire' \in [Admin -> Seq(Unit)]
  BY <1>1, <1>2, <1>3, DropType
<1>5. UNCHANGED status /\ UNCHANGED client
  BY DEF Answers
<1>6. status' \in [Admin -> {"OK", "CLOSE"}] /\ \A b \in Admin \ {a} : status'[b] = status[b]
  BY <1>1, <1>5 DEF SessionType
<1>7. Respond(a, "REPLIES", IF ok THEN "ok" ELSE "refused", Pieces)
  BY Zenon DEF Answers
<1>8. (IF ok THEN "ok" ELSE "refused") \in {"ok", "refused"} /\ Pieces \in 1..Pieces
      /\ "REPLIES" \in Writing
  BY Numerals DEF Writing
<1>9. knows[a]
  BY <1>1 DEF Consistent
<1> QED BY <1>4, <1>5, <1>6, <1>7, <1>8, <1>9, RespondKeeps

LEMMA RequestGetKeeps ==
  ASSUME MngInv, NEW a \in Admin, RequestGet(a)
  PROVE  MngInv'
<1>1. ConfType /\ st[a] \in RequestStates
  BY TypeParts, TheRequestStates DEF MngInv, RequestGet, Reads
<1>2. CASE NotYet(a)
  BY <1>2, NotYetKeeps
<1>3. CASE Received(a) /\ Answers(a, TRUE) /\ UNCHANGED conf
  BY <1>1, <1>3, ConfUnchanged, AnswersKeeps
<1> QED BY <1>2, <1>3 DEF RequestGet

LEMMA RequestPutKeeps ==
  ASSUME MngInv, NEW a \in Admin, RequestPut(a)
  PROVE  MngInv'
<1>1. ConfType /\ st[a] \in RequestStates
  BY TypeParts, TheRequestStates DEF MngInv, RequestPut, Reads
<1>2. CASE NotYet(a)
  BY <1>2, NotYetKeeps
<1>3. ASSUME Received(a), NEW ok \in BOOLEAN, NEW n \in Word \cup Long, NEW p \in Password,
             AddUser(n, p, ok), Answers(a, ok), UNCHANGED settings
      PROVE  MngInv'
  <2>1. AccountsType' /\ SettingsType'
    BY <1>1, <1>3, AddUserType, Passwords, SettingsUnchanged DEF ConfType
  <2> QED BY <1>1, <1>3, <2>1, AnswersKeeps DEF ConfType
<1> QED BY <1>2, <1>3 DEF RequestPut

LEMMA RequestEditKeeps ==
  ASSUME MngInv, NEW a \in Admin, RequestEdit(a)
  PROVE  MngInv'
<1>1. ConfType /\ st[a] \in RequestStates
  BY TypeParts, TheRequestStates DEF MngInv, RequestEdit, Reads
<1>2. CASE NotYet(a)
  BY <1>2, NotYetKeeps
<1>3. ASSUME Received(a), NEW ok \in BOOLEAN, NEW n \in Word \cup Long, NEW v \in Word \cup Long,
             NEW attr \in {0, 1}, EditUser(n, v, attr, ok), Answers(a, ok), UNCHANGED settings
      PROVE  MngInv'
  <2>1. AccountsType' /\ SettingsType'
    BY <1>1, <1>3, EditUserType, SettingsUnchanged DEF ConfType
  <2> QED BY <1>1, <1>3, <2>1, AnswersKeeps DEF ConfType
<1> QED BY <1>2, <1>3 DEF RequestEdit

LEMMA RequestDeleteKeeps ==
  ASSUME MngInv, NEW a \in Admin, RequestDelete(a)
  PROVE  MngInv'
<1>1. ConfType /\ st[a] \in RequestStates
  BY TypeParts, TheRequestStates DEF MngInv, RequestDelete, Reads
<1>2. CASE NotYet(a)
  BY <1>2, NotYetKeeps
<1>3. ASSUME Received(a), NEW ok \in BOOLEAN, NEW n \in Word \cup Long,
             DeleteUser(n, ok), Answers(a, ok), UNCHANGED settings
      PROVE  MngInv'
  <2>1. AccountsType' /\ SettingsType'
    BY <1>1, <1>3, DeleteUserType, SettingsUnchanged DEF ConfType
  <2> QED BY <1>1, <1>3, <2>1, AnswersKeeps DEF ConfType
<1> QED BY <1>2, <1>3 DEF RequestDelete

LEMMA RequestBuffSizeKeeps ==
  ASSUME MngInv, NEW a \in Admin, RequestBuffSize(a)
  PROVE  MngInv'
<1>1. ConfType /\ st[a] \in RequestStates /\ heard \in [Admin -> Replied]
  BY TypeParts, TheRequestStates DEF MngInv, RequestBuffSize, Reads, ClientType, Replied
<1>2. CASE NotYet(a)
  BY <1>2, NotYetKeeps
<1>3. ASSUME NEW ok \in BOOLEAN, NEW n \in Size, SetBuffSize(n, ok),
             IF ok THEN Received(a) /\ Answers(a, TRUE) ELSE Close(a) /\ UNCHANGED heard,
             UNCHANGED accounts
      PROVE  MngInv'
  <2>1. AccountsType' /\ SettingsType'
    BY <1>1, <1>3, AccountsUnchanged DEF ConfType, SettingsType, SetBuffSize
  <2>2. ConfType'
    BY <2>1 DEF ConfType
  <2>3. CASE ok
    BY <1>1, <1>3, <2>2, <2>3, AnswersKeeps
  <2>4. CASE ~ok
    BY <1>1, <1>3, <2>2, <2>4, CloseKeeps
  <2> QED BY <2>3, <2>4
<1> QED BY <1>2, <1>3 DEF RequestBuffSize

LEMMA RequestConfigStatusKeeps ==
  ASSUME MngInv, NEW a \in Admin, RequestConfigStatus(a)
  PROVE  MngInv'
<1>1. ConfType /\ st[a] \in RequestStates
  BY TypeParts, TheRequestStates DEF MngInv, RequestConfigStatus, Reads
<1>2. CASE NotYet(a)
  BY <1>2, NotYetKeeps
<1>3. ASSUME Received(a), Answers(a, TRUE), NEW field \in {3, 4}, NEW v \in {0, 1},
             SetStatus(field, v), UNCHANGED accounts
      PROVE  MngInv'
  <2>1. AccountsType'
    BY <1>1, <1>3, AccountsUnchanged DEF ConfType
  <2>2. SettingsType'
    <3>1. auth \in BOOLEAN /\ sniff \in BOOLEAN /\ bufsize \in Size
      BY <1>1 DEF ConfType, SettingsType
    <3>2. (v = 0) \in BOOLEAN
      OBVIOUS
    <3>3. bufsize' = bufsize
      BY <1>3, Zenon DEF SetStatus
    <3>4. CASE field = 3
      BY <1>3, <3>1, <3>2, <3>3, <3>4, Zenon DEF SetStatus, SettingsType
    <3>5. CASE field # 3
      BY <1>3, <3>1, <3>2, <3>3, <3>5, Zenon DEF SetStatus, SettingsType
    <3> QED BY <3>4, <3>5
  <2> QED BY <1>1, <1>3, <2>1, <2>2, AnswersKeeps DEF ConfType
<1> QED BY <1>2, <1>3 DEF RequestConfigStatus

LEMMA RepliesKeeps ==
  ASSUME MngInv, NEW a \in Admin, Replies(a)
  PROVE  MngInv'
<1>1. SessionType /\ ClientType /\ ConfType
  BY TypeParts DEF MngInv
<1>2. st[a] \in Writing
  BY DEF Replies, Writing
<1>3. CASE SendFails(a)
  BY <1>3, SendFailsKeeps
<1>4. CASE \E n \in 1..left[a] : SendsPart(a, n)
  BY <1>2, <1>4, SendsPartKeeps
<1>5. CASE Close(a) /\ Heard(a, reply[a]) /\ UNCHANGED conf
  <2>1. reply[a] \in Replied /\ heard \in [Admin -> Replied]
    BY <1>1 DEF SessionType, ClientType, Replied
  <2>2. heard' \in [Admin -> Replied]
    BY <1>5, <2>1 DEF Heard
  <2> QED BY <1>1, <1>5, <2>2, ConfUnchanged, CloseKeeps
<1> QED BY <1>3, <1>4, <1>5 DEF Replies

(* What the clients do. *)
LEMMA TheUnits ==
  ASSUME NEW a \in Admin, NEW u \in NextUnits(a)
  PROVE  u \in Unit
<1>1. CASE ~orderly[a]
  BY <1>1 DEF NextUnits, Unit
<1>2. CASE orderly[a] /\ said[a] \in {0, 3}
  BY <1>2 DEF NextUnits, Unit
<1>3. CASE orderly[a] /\ said[a] \in {1, 4}
  BY <1>3 DEF NextUnits, Unit
<1>4. CASE orderly[a] /\ said[a] \notin {0, 3} /\ said[a] \notin {1, 4}
  BY <1>4 DEF NextUnits, Unit, Act
<1> QED BY <1>1, <1>2, <1>3, <1>4

LEMMA SpeakKeeps ==
  ASSUME MngInv, NEW a \in Admin, Speak(a)
  PROVE  MngInv'
<1>1. SessionType /\ ClientType /\ ConfType /\ Consistent(a)
  BY TypeParts DEF MngInv
<1>2. PICK u \in NextUnits(a) : wire' = [wire EXCEPT ![a] = Append(wire[a], u)]
  BY DEF Speak
<1>3. /\ said' = [said EXCEPT ![a] = said[a] + 1]
      /\ UNCHANGED session /\ UNCHANGED orderly /\ UNCHANGED knows /\ UNCHANGED gone
      /\ UNCHANGED heard /\ UNCHANGED conf
  BY DEF Speak
<1>4. wire' \in [Admin -> Seq(Unit)]
  <2>1. wire[a] \in Seq(Unit) /\ u \in Unit
    BY <1>1, TheUnits DEF ClientType
  <2>2. Append(wire[a], u) \in Seq(Unit)
    BY <2>1, AppendProperties
  <2> QED BY <1>1, <1>2, <2>2 DEF ClientType
<1>5. ClientType'
  <2>1. said \in [Admin -> Nat] /\ said[a] + 1 \in Nat
    BY <1>1 DEF ClientType
  <2>2. said' \in [Admin -> Nat]
    BY <1>3, <2>1
  <2> QED BY <1>1, <1>3, <1>4, <2>2 DEF ClientType
<1>6. SessionType' /\ Others(a) /\ Consistent(a)'
  BY <1>1, <1>3 DEF SessionType, session, Others, Consistent
<1>7. ConfType'
  BY <1>1, <1>3, ConfUnchanged
<1> QED BY <1>5, <1>6, <1>7, OneSession

LEMMA HangUpKeeps ==
  ASSUME MngInv, NEW a \in Admin, HangUp(a)
  PROVE  MngInv'
<1>1. SessionType /\ ClientType /\ ConfType /\ Consistent(a)
  BY TypeParts DEF MngInv
<1>2. PICK lost \in BOOLEAN : wire' = IF lost THEN [wire EXCEPT ![a] = <<>>] ELSE wire
  BY DEF HangUp
<1>3. /\ gone' = [gone EXCEPT ![a] = TRUE]
      /\ UNCHANGED session /\ UNCHANGED orderly /\ UNCHANGED knows /\ UNCHANGED said
      /\ UNCHANGED heard /\ UNCHANGED conf
  BY DEF HangUp
<1>4. wire' \in [Admin -> Seq(Unit)]
  <2>1. <<>> \in Seq(Unit)
    OBVIOUS
  <2> QED BY <1>1, <1>2, <2>1 DEF ClientType
<1>5. ClientType'
  BY <1>1, <1>3, <1>4 DEF ClientType
<1>6. SessionType' /\ Others(a) /\ Consistent(a)'
  BY <1>1, <1>3 DEF SessionType, session, Others, Consistent
<1>7. ConfType'
  BY <1>1, <1>3, ConfUnchanged
<1> QED BY <1>5, <1>6, <1>7, OneSession

-----------------------------------------------------------------------------
LEMMA Halves ==
  ASSUME NEW m \in Nat, NEW l \in Nat, m >= 2, m <= 2 * l + 1
  PROVE  m \div 2 \in 1..l
<1>1. m \div 2 \in Nat /\ m = 2 * (m \div 2) + (m % 2) /\ m % 2 \in 0..1
  OBVIOUS
<1> DEFINE k == m \div 2
           r == m % 2
<1>2. k \in Nat /\ m = 2 * k + r /\ r \in 0..1
  BY <1>1
<1> HIDE DEF k, r
<1>3. k \in 1..l
  BY <1>2
<1> QED BY <1>3 DEF k

(* The users of the command line are accounts. *)
LEMMA InitAccounts ==
  ASSUME Init
  PROVE  AccountsType
<1>1. PICK given \in CommandLine :
        /\ users = [i \in Field |->
                     IF i > 2 * Len(given) THEN Blank
                     ELSE IF i % 2 = 1 THEN given[(i + 1) \div 2][1] ELSE given[i \div 2][2]]
        /\ users_size = Len(given)
  BY DEF Init
<1>2. given \in Seq((Short \cup Full \cup {""}) \X (Short \cup Full \cup {""})) /\ Len(given) <= Slots
  BY MngAssumption, Zenon
<1>3. Len(given) \in Nat /\ \A k \in 1..Len(given) : given[k] \in (Short \cup Full \cup {""}) \X (Short \cup Full \cup {""})
  BY <1>2, LenProperties, ElementOfSeq
<1>4. \A k \in 1..Len(given) : given[k][1] \in Word \cup {Blank} /\ given[k][2] \in Word \cup {Blank}
  BY <1>3 DEF Word, Blank
<1> DEFINE l == Len(given)
<1>5. l \in Nat /\ l <= Slots
  BY <1>2, <1>3, Zenon
<1> HIDE DEF l
<1>6. ASSUME NEW i \in Field
      PROVE  users[i] \in Word \cup {Blank}
  <2>1. i \in Nat /\ i >= 1
    BY Numerals DEF Field
  <2>2. CASE i > 2 * Len(given)
    BY <1>1, <2>2
  <2>3. CASE ~(i > 2 * Len(given)) /\ i % 2 = 1
    <3>1. ~(i > 2 * l)
      BY <2>3, Zenon DEF l
    <3>2. i + 1 \in Nat /\ i + 1 >= 2 /\ i + 1 <= 2 * l + 1
      BY <1>5, <2>1, <3>1
    <3>3. (i + 1) \div 2 \in 1..Len(given)
      BY <1>5, <3>2, Halves DEF l
    <3> QED BY <1>1, <1>4, <2>3, <3>3
  <2>4. CASE ~(i > 2 * Len(given)) /\ i % 2 # 1
    <3>1. ~(i > 2 * l)
      BY <2>4, Zenon DEF l
    <3>2. i # 1
      BY <2>4
    <3>3. i \in Nat /\ i >= 2 /\ i <= 2 * l + 1
      BY <1>5, <2>1, <3>1, <3>2
    <3>4. i \div 2 \in 1..Len(given)
      BY <1>5, <3>3, Halves DEF l
    <3> QED BY <1>1, <1>4, <2>4, <3>4
  <2> QED BY <2>2, <2>3, <2>4
<1>7. users \in Table_
  BY <1>1, <1>6 DEF Table_
<1>8. users_size \in 0..Slots
  <2>1. l \in 0..Slots
    BY <1>5, Numerals
  <2> QED BY <1>1, <2>1 DEF l
<1>9. past \in BOOLEAN
  BY DEF Init
<1> QED BY <1>7, <1>8, <1>9 DEF AccountsType

LEMMA InitHolds == Init => MngInv
<1> SUFFICES ASSUME Init PROVE MngInv
  OBVIOUS
<1>1. AccountsType
  BY InitAccounts
<1>2. SettingsType
  <2>1. 1024 \in Size
    BY MngAssumption, Zenon
  <2>2. auth \in BOOLEAN
    BY DEF Init
  <2> QED BY <2>1, <2>2 DEF Init, SettingsType
<1>3. SessionType
  <2>1. "none" \in States /\ 0 \in 0..Pieces
    BY TheStates, Numerals
  <2> QED BY <2>1 DEF Init, SessionType
<1>4. ClientType
  BY DEF Init, ClientType
<1>5. ASSUME NEW a \in Admin PROVE Consistent(a)
  <2>1. st[a] = "none" /\ interest[a] = "none" /\ left[a] = 0
    BY DEF Init
  <2> QED BY <2>1, TheStates DEF Consistent, Writing
<1>6. TypeOK
  BY <1>1, <1>2, <1>3, <1>4, TypeParts DEF ConfType
<1> QED BY <1>5, <1>6 DEF MngInv

LEMMA StutterKeeps ==
  ASSUME MngInv, UNCHANGED vars
  PROVE  MngInv'
<1>1. SessionType /\ ClientType /\ ConfType
  BY TypeParts DEF MngInv
<1>2. UNCHANGED session /\ UNCHANGED client /\ UNCHANGED wire /\ UNCHANGED conf
  BY DEF vars
<1>3. SessionType' /\ ClientType'
  BY <1>1, <1>2 DEF SessionType, ClientType, session, client
<1>4. ConfType'
  BY <1>1, <1>2, ConfUnchanged
<1>5. ASSUME NEW a \in Admin PROVE Consistent(a)'
  <2>1. Consistent(a)
    BY DEF MngInv
  <2> QED BY <1>2, <2>1 DEF Consistent, session, client
<1>6. TypeOK'
  BY <1>3, <1>4, TypePartsNext
<1> QED BY <1>5, <1>6 DEF MngInv

LEMMA HandleKeeps ==
  ASSUME MngInv, NEW a \in Admin, Handle(a)
  PROVE  MngInv'
<1>1. CASE ConnectRead(a) \/ ConnectWrite(a) \/ Request(a) \/ Replies(a)
  BY <1>1, ConnectReadKeeps, ConnectWriteKeeps, RequestKeeps, RepliesKeeps
<1>2. CASE RequestGet(a) \/ RequestPut(a) \/ RequestEdit(a)
  BY <1>2, RequestGetKeeps, RequestPutKeeps, RequestEditKeeps
<1>3. CASE RequestBuffSize(a) \/ RequestConfigStatus(a) \/ RequestDelete(a)
  BY <1>3, RequestBuffSizeKeeps, RequestConfigStatusKeeps, RequestDeleteKeeps
<1> QED BY <1>1, <1>2, <1>3 DEF Handle

LEMMA StepKeeps ==
  ASSUME MngInv, [Next]_vars
  PROVE  MngInv'
<1>1. ASSUME NEW a \in Admin, Accept(a) \/ Handle(a) \/ Speak(a) \/ HangUp(a)
      PROVE  MngInv'
  BY <1>1, AcceptKeeps, HandleKeeps, SpeakKeeps, HangUpKeeps
<1>2. CASE UNCHANGED vars
  BY <1>2, StutterKeeps
<1> QED BY <1>1, <1>2 DEF Next

(* The invariant of the administrators' sessions (mng_handler.c): every state
   is watched for what its handler does, and only a client that had the
   password gets past the answer to it; strcpy stays in the table of users. *)
THEOREM MngInductive == Spec => []MngInv
<1>1. MngInv /\ [Next]_vars => MngInv'
  BY StepKeeps
<1> QED BY InitHolds, <1>1, PTL DEF Spec

(* The sessions, and the configuration they edit, keep their types: the table
   of users holds words and terminators and at most MAX_SOCKS_USERS entries. *)
THEOREM MngTypes == Spec => []TypeOK
<1>1. MngInv => TypeOK
  BY DEF MngInv
<1> QED BY <1>1, MngInductive, PTL

(* What a handler that waits, or fails to send, leaves alone. *)
LEMMA NotYetLeaves ==
  ASSUME NEW a, NotYet(a)
  PROVE  UNCHANGED conf
<1>1. CASE Ended(a)
  BY <1>1 DEF Ended
<1>2. CASE Incomplete(a)
  BY <1>2 DEF Incomplete
<1> QED BY <1>1, <1>2 DEF NotYet

LEMMA SendingLeaves ==
  ASSUME NEW a, SendFails(a) \/ \E n \in 1..left[a] : SendsPart(a, n)
  PROVE  UNCHANGED conf
<1>1. CASE SendFails(a)
  BY <1>1 DEF SendFails
<1>2. ASSUME NEW n \in 1..left[a], SendsPart(a, n) PROVE UNCHANGED conf
  BY <1>2 DEF SendsPart
<1> QED BY <1>1, <1>2

(* How many fields a string lies in. *)
LEMMA FieldsRange ==
  ASSUME NEW s \in Seq(Word)
  PROVE  Fields(s) \in Nat /\ Fields(s) <= Len(s) + 1
<1>1. Len(s) \in Nat
  BY LenProperties
<1> QED BY <1>1 DEF Fields

LEMMA WordFields ==
  ASSUME NEW w \in Word
  PROVE  Fields(<<w>>) \in Nat /\ Fields(<<w>>) <= 2 /\ (w \in Short => Fields(<<w>>) = 1)
<1>1. Short \cap Full \in {{}}
  <2>1. {Short \cap Full, Short \cap Long, Full \cap Long} = {{}}
    BY MngAssumption, Zenon
  <2> QED BY <2>1
<1>2. w \in Short => w \notin Full
  BY <1>1
<1>3. Len(<<w>>) = 1 /\ <<w>>[1] = w /\ <<w>> # <<>>
  OBVIOUS
<1> QED BY <1>2, <1>3 DEF Fields, Spills

LEMMA Fitting ==
  ASSUME NEW i \in Nat, NEW s, NEW k \in Nat, Fields(s) \in Nat, Fields(s) <= k,
         i + k <= 2 * Slots + 1
  PROVE  Fits(i, s)
BY Numerals DEF Fits

(* add_user never fills the last slot, so three fields are left where it puts a
   password. *)
LEMMA AddFits ==
  ASSUME AccountsType, ~past, Moderate, NEW name \in Word \cup Long, NEW pass \in Password, NEW ok,
         AddUser(name, pass, ok)
  PROVE  ~past'
<1>1. CASE users_size + 1 < Slots /\ name \notin Long
  <2> DEFINE e == users_size + 1
  <2>1. /\ Name(e) \in Nat /\ Pass(e) \in Nat /\ Slots \in Nat
        /\ Name(e) + 2 <= 2 * Slots + 1 /\ Pass(e) + 3 <= 2 * Slots + 1
    BY <1>1, Numerals DEF AccountsType, Name, Pass
  <2>2. Fields(<<name>>) \in Nat /\ Fields(<<name>>) <= 2
    BY <1>1, WordFields
  <2>3. Fields(pass) \in Nat /\ Fields(pass) <= 3
    <3>1. pass \in Seq(Word)
      BY Passwords
    <3> QED BY <3>1, FieldsRange DEF Moderate
  <2>4. past' = ~(Fits(Name(e), <<name>>) /\ Fits(Pass(e), pass))
    BY <1>1 DEF AddUser
  <2> HIDE DEF e
  <2>5. Fits(Name(e), <<name>>)
    BY <2>1, <2>2, Fitting
  <2>6. Fits(Pass(e), pass)
    BY <2>1, <2>3, Fitting
  <2> QED BY <2>4, <2>5, <2>6
<1>2. CASE ~(users_size + 1 < Slots /\ name \notin Long)
  BY <1>2 DEF AddUser, accounts
<1> QED BY <1>1, <1>2

(* The strings of the last entry, copied, are of two words at most and of one. *)
LEMMA DeleteFits ==
  ASSUME AccountsType, ~past, NEW name, NEW ok, DeleteUser(name, ok)
  PROVE  ~past'
<1>1. CASE Matches(name) # {}
  <2> DEFINE e == Min(Matches(name))
             moved == SubSeq(users, Name(users_size), Pass(users_size))
             first == StringAt(moved, 1)
             second == StringAt(moved, 2)
  <2>1. e \in 1..users_size
    BY <1>1, FirstMatch
  <2>2. past' = (e # users_size /\ ~(Fits(Name(e), first) /\ Fits(Pass(e), second)))
    BY <1>1 DEF DeleteUser
  <2>3. users_size \in 1..Slots /\ Slots \in Nat
    BY <2>1, Numerals DEF AccountsType
  <2>4. moved \in Seq(Word \cup {Blank}) /\ Len(moved) = 2
    BY <2>3, LastEntryType
  <2> HIDE DEF moved
  <2>5. first \in Seq(Word) /\ Len(first) <= 3 - 1 /\ second \in Seq(Word) /\ Len(second) <= 3 - 2
    BY <2>4, StringType
  <2> HIDE DEF first, second, e
  <2>6. /\ Fields(first) \in Nat /\ Fields(first) <= Len(first) + 1 /\ Len(first) \in Nat
        /\ Fields(second) \in Nat /\ Fields(second) <= Len(second) + 1 /\ Len(second) \in Nat
    BY <2>5, FieldsRange, LenProperties
  <2>7. CASE e # users_size
    <3>1. Name(e) \in Nat /\ Pass(e) \in Nat /\ Name(e) + 3 <= 2 * Slots /\ Pass(e) + 2 <= 2 * Slots
      BY <2>1, <2>3, <2>7 DEF Name, Pass
    <3>2. Fields(first) <= 3 /\ Fields(second) <= 2
      BY <2>5, <2>6
    <3>3. Name(e) + 3 <= 2 * Slots + 1 /\ Pass(e) + 2 <= 2 * Slots + 1
      BY <2>3, <3>1
    <3>4. Fits(Name(e), first)
      BY <2>6, <3>1, <3>2, <3>3, Fitting
    <3>5. Fits(Pass(e), second)
      BY <2>6, <3>1, <3>2, <3>3, Fitting
    <3> QED BY <2>2, <3>4, <3>5
  <2> QED BY <2>2, <2>7
<1>2. CASE Matches(name) = {}
  BY <1>2 DEF DeleteUser, accounts
<1> QED BY <1>1, <1>2

(* A new value leaves room for its terminator. *)
LEMMA EditFits ==
  ASSUME AccountsType, ~past, NEW name, NEW value, NEW attr, NEW ok, EditUser(name, value, attr, ok)
  PROVE  ~past'
<1>1. CASE Matches(name) # {} /\ value \in Short
  <2> DEFINE e == Min(Matches(name))
             i == IF attr = 0 THEN Name(e) ELSE Pass(e)
  <2>1. e \in 1..users_size
    BY <1>1, FirstMatch
  <2>2. past' = ~Fits(i, <<value>>)
    BY <1>1, Zenon DEF EditUser
  <2>3. e \in Nat /\ e >= 1 /\ e <= Slots /\ Slots \in Nat
    BY <2>1, Numerals DEF AccountsType
  <2> HIDE DEF e
  <2>4. i \in Nat /\ i <= 2 * Slots
    BY <2>3 DEF Name, Pass
  <2> HIDE DEF i
  <2>5. Fields(<<value>>) = 1
    BY <1>1, WordFields DEF Word
  <2>6. Fits(i, <<value>>)
    <3>1. i + 1 <= 2 * Slots + 1 /\ Fields(<<value>>) \in Nat /\ Fields(<<value>>) <= 1
      BY <2>3, <2>4, <2>5
    <3> QED BY <2>4, <3>1, Fitting
  <2> QED BY <2>2, <2>6
<1>2. CASE ~(Matches(name) # {} /\ value \in Short)
  BY <1>2 DEF EditUser
<1> QED BY <1>1, <1>2

LEMMA HandleFits ==
  ASSUME MngInv, ~past, Moderate, NEW a \in Admin, Handle(a)
  PROVE  ~past'
<1>1. AccountsType
  BY TypeParts DEF MngInv, ConfType
<1>2. ASSUME UNCHANGED accounts PROVE ~past'
  BY <1>2 DEF accounts
<1>3. CASE NotYet(a)
  BY <1>2, <1>3, NotYetLeaves DEF conf
<1>4. CASE ConnectRead(a) \/ Request(a)
  BY <1>2, <1>3, <1>4 DEF ConnectRead, Request, NotYet, conf
<1>5. CASE ConnectWrite(a) \/ Replies(a)
  BY <1>2, <1>5, SendingLeaves DEF ConnectWrite, Replies, conf
<1>6. CASE RequestGet(a) \/ RequestBuffSize(a) \/ RequestConfigStatus(a)
  BY <1>2, <1>3, <1>6 DEF RequestGet, RequestBuffSize, RequestConfigStatus, conf
<1>7. CASE RequestPut(a)
  BY <1>1, <1>3, <1>7, AddFits DEF RequestPut
<1>8. CASE RequestEdit(a)
  BY <1>1, <1>3, <1>8, EditFits DEF RequestEdit
<1>9. CASE RequestDelete(a)
  BY <1>1, <1>3, <1>9, DeleteFits DEF RequestDelete
<1> QED BY <1>4, <1>5, <1>6, <1>7, <1>8, <1>9 DEF Handle

(* The strcpy calls of server_config.c write nothing behind the table of users,
   although a word of MAX_USERNAME_SIZE bytes runs into the next field, as long
   as a password, which add_user does not measure, and its terminator need no
   more than the three fields that the slot add_user never fills leaves. *)
THEOREM StrcpyInTable == Moderate => (Spec => []InTable)
<1> SUFFICES ASSUME Moderate PROVE Spec => []InTable
  OBVIOUS
<1>1. Init => InTable
  BY DEF Init, InTable
<1>2. ASSUME MngInv, InTable, [Next]_vars PROVE InTable'
  <2>1. ASSUME NEW a \in Admin, Handle(a) PROVE ~past'
    BY <1>2, <2>1, HandleFits DEF InTable
  <2>2. ASSUME NEW a \in Admin, Accept(a) \/ Speak(a) \/ HangUp(a) PROVE ~past'
    BY <1>2, <2>2 DEF Accept, Speak, HangUp, conf, accounts, InTable
  <2>3. CASE UNCHANGED vars
    BY <1>2, <2>3 DEF vars, conf, accounts, InTable
  <2> QED BY <1>2, <2>1, <2>2, <2>3 DEF Next, InTable
<1> QED BY <1>1, <1>2, MngInductive, PTL DEF Spec

(* The selector never delivers a session an event that its state has no handler
   for (stm.c would abort), and a session is watched for writing as long as it
   has something to send. *)
THEOREM MngHandlers == Spec => []EventHasHandler
<1>1. ASSUME MngInv PROVE EventHasHandler
  <2>1. ASSUME NEW a \in Admin
        PROVE  /\ interest[a] = "read" => st[a] \in RequestStates \cup {"CONNECT_READ", "REQUEST"}
               /\ interest[a] = "write" => st[a] \in {"CONNECT_WRITE", "REPLIES"}
               /\ interest[a] = "write" <=> left[a] > 0
    <3>1. Consistent(a)
      BY <1>1 DEF MngInv
    <3> QED BY <3>1, Zenon DEF Consistent, Reading, Writing
  <2> QED BY <2>1 DEF EventHasHandler, Readable, Writable
<1> QED BY <1>1, MngInductive, PTL

-----------------------------------------------------------------------------
(* What changes the configuration. *)

(* A command is answered, or is one that stores a size of no bytes or less. *)
Decides(a) ==
  /\ st[a] \in RequestStates /\ knows[a]
  /\ \/ st'[a] = "REPLIES"
     \/ st'[a] = "none" /\ UNCHANGED <<accounts, auth, sniff>> /\ bufsize' <= 0

LEMMA CommandHeld ==
  ASSUME MngInv, NEW a \in Admin, st[a] \in RequestStates
  PROVE  knows[a] /\ st \in [Admin -> States]
BY DEF MngInv, Consistent, TypeOK

LEMMA AnswerDecides ==
  ASSUME MngInv, NEW a \in Admin, st[a] \in RequestStates, NEW ok, Answers(a, ok)
  PROVE  Decides(a)
<1>1. st' = [st EXCEPT ![a] = "REPLIES"]
  BY DEF Answers, Respond
<1>2. knows[a] /\ st \in [Admin -> States]
  BY CommandHeld
<1> QED BY <1>1, <1>2 DEF Decides

LEMMA BuffSizeDecides ==
  ASSUME MngInv, NEW a \in Admin, RequestBuffSize(a)
  PROVE  UNCHANGED conf \/ Decides(a)
<1>1. st[a] \in RequestStates
  BY TheRequestStates DEF RequestBuffSize, Reads
<1>2. CASE NotYet(a)
  BY <1>2, NotYetLeaves
<1>3. ASSUME NEW ok \in BOOLEAN, NEW n \in Size, SetBuffSize(n, ok),
             IF ok THEN Received(a) /\ Answers(a, TRUE) ELSE Close(a) /\ UNCHANGED heard,
             UNCHANGED accounts
      PROVE  Decides(a)
  <2>1. CASE ok
    BY <1>1, <1>3, <2>1, AnswerDecides
  <2>2. CASE ~ok
    <3>1. knows[a] /\ st \in [Admin -> States] /\ Close(a)
      BY <1>1, <1>3, <2>2, CommandHeld
    <3>2. st'[a] = "none"
      BY <3>1 DEF Close
    <3>3. ~(n > 0) /\ bufsize' = n /\ UNCHANGED auth /\ UNCHANGED sniff
      BY <1>3, <2>2, Zenon DEF SetBuffSize
    <3>4. n \in Int
      BY MngAssumption, Zenon
    <3>5. bufsize' <= 0
      BY <3>3, <3>4
    <3> QED BY <1>1, <1>3, <3>1, <3>2, <3>3, <3>5 DEF Decides
  <2> QED BY <2>1, <2>2
<1> QED BY <1>2, <1>3 DEF RequestBuffSize

LEMMA HandleDecides ==
  ASSUME MngInv, NEW a \in Admin, Handle(a)
  PROVE  UNCHANGED conf \/ Decides(a)
<1>1. CASE ConnectRead(a)
  BY <1>1, NotYetLeaves DEF ConnectRead, NotYet
<1>2. CASE ConnectWrite(a)
  BY <1>2, SendingLeaves DEF ConnectWrite
<1>3. CASE Request(a)
  BY <1>3, NotYetLeaves DEF Request, NotYet
<1>4. CASE RequestGet(a)
  BY <1>4, NotYetLeaves DEF RequestGet
<1>5. CASE Replies(a)
  BY <1>5, SendingLeaves DEF Replies
<1>6. CASE RequestPut(a) \/ RequestEdit(a) \/ RequestConfigStatus(a) \/ RequestDelete(a)
  <2>1. st[a] \in RequestStates
    BY <1>6, TheRequestStates
       DEF RequestPut, RequestEdit, RequestConfigStatus, RequestDelete, Reads
  <2>2. NotYet(a) \/ \E ok \in BOOLEAN : Answers(a, ok)
    BY <1>6 DEF RequestPut, RequestEdit, RequestConfigStatus, RequestDelete
  <2> QED BY <2>1, <2>2, NotYetLeaves, AnswerDecides
<1>7. CASE RequestBuffSize(a)
  BY <1>7, BuffSizeDecides
<1> QED BY <1>1, <1>2, <1>3, <1>4, <1>5, <1>6, <1>7 DEF Handle

LEMMA StepDecides ==
  ASSUME MngInv, [Next]_vars
  PROVE  UNCHANGED conf \/ \E a \in Admin : Decides(a)
<1>1. ASSUME NEW a \in Admin, Accept(a) \/ Speak(a) \/ HangUp(a)
      PROVE  UNCHANGED conf
  BY <1>1 DEF Accept, Speak, HangUp
<1>2. ASSUME NEW a \in Admin, Handle(a)
      PROVE  UNCHANGED conf \/ Decides(a)
  BY <1>2, HandleDecides
<1>3. CASE UNCHANGED vars
  BY <1>3 DEF vars
<1> QED BY <1>1, <1>2, <1>3 DEF Next

(* Only a session whose client had the password, and which is in a command,
   changes the configuration (mng.c). *)
THEOREM ChangesAuthorised == Spec => ChangedByHolder
<1>1. ASSUME MngInv, [Next]_vars
      PROVE  [\E a \in Admin : knows[a] /\ st[a] \in RequestStates /\ st'[a] # st[a]]_conf
  <2>1. ASSUME NEW a \in Admin, Decides(a)
        PROVE  knows[a] /\ st[a] \in RequestStates /\ st'[a] # st[a]
    <3>1. "REPLIES" \notin RequestStates /\ "none" \notin RequestStates
      BY TheRequestStates
    <3> QED BY <2>1, <3>1 DEF Decides
  <2> QED BY <1>1, <2>1, StepDecides
<1> QED BY <1>1, MngInductive, PTL DEF Spec, ChangedByHolder

(* What is stored without a reply to the client is a size of the buffers that
   is not positive, and nothing else (mng.c:337). *)
THEOREM SilenceOnlySize == Spec => SilentOnlySize
<1>1. ASSUME MngInv, [Next]_vars
      PROVE  [(\A a \in Admin : st'[a] # "REPLIES" \/ st[a] = "REPLIES")
               => UNCHANGED <<accounts, auth, sniff>> /\ bufsize' <= 0]_conf
  <2>1. ASSUME NEW a \in Admin, Decides(a),
               \A b \in Admin : st'[b] # "REPLIES" \/ st[b] = "REPLIES"
        PROVE  UNCHANGED <<accounts, auth, sniff>> /\ bufsize' <= 0
    <3>1. "REPLIES" \notin RequestStates
      BY TheRequestStates
    <3> QED BY <2>1, <3>1 DEF Decides
  <2> QED BY <1>1, <2>1, StepDecides
<1> QED BY <1>1, MngInductive, PTL DEF Spec, SilentOnlySize

-----------------------------------------------------------------------------
(* How many entries of a table are alike, for any table: f is what its entries
   say, n how many there are. *)
More(c, x) == [c EXCEPT ![x] = @ + 1]
Less(c, x) == [c EXCEPT ![x] = @ - 1]
Tally(S, f, n) == [x \in S |-> Cardinality({e \in 1..n : f[e] = x})]

LEMMA SomeOf ==
  ASSUME NEW n \in Nat, NEW T, T \subseteq 1..n
  PROVE  IsFiniteSet(T) /\ Cardinality(T) \in Nat /\ Cardinality(T) <= n
<1>1. IsFiniteSet(1..n) /\ Cardinality(1..n) = n
  BY FS_Interval
<1>2. IsFiniteSet(T) /\ Cardinality(T) <= n
  BY <1>1, FS_Subset
<1> QED BY <1>2, FS_CardinalityType

LEMMA TallyType ==
  ASSUME NEW S, NEW N \in Nat, NEW f \in [1..N -> S], NEW n \in 0..N
  PROVE  Tally(S, f, n) \in [S -> 0..n]
<1> SUFFICES ASSUME NEW x \in S PROVE Cardinality({e \in 1..n : f[e] = x}) \in 0..n
  BY DEF Tally
<1>1. {e \in 1..n : f[e] = x} \subseteq 1..n
  OBVIOUS
<1> QED BY <1>1, SomeOf

LEMMA TallySame ==
  ASSUME NEW S, NEW f, NEW g, NEW n \in Nat, \A e \in 1..n : f[e] = g[e]
  PROVE  Tally(S, f, n) = Tally(S, g, n)
<1>1. ASSUME NEW x \in S PROVE {e \in 1..n : f[e] = x} = {e \in 1..n : g[e] = x}
  OBVIOUS
<1> QED BY <1>1 DEF Tally

LEMMA TallyMore ==
  ASSUME NEW S, NEW N \in Nat, NEW f \in [1..N -> S], NEW n \in 0..(N - 1)
  PROVE  Tally(S, f, n + 1) = More(Tally(S, f, n), f[n + 1])
<1>0. n \in Nat /\ n + 1 \in 1..N /\ n \in 0..N /\ n + 1 \in 0..N /\ f[n + 1] \in S
  OBVIOUS
<1>1. Tally(S, f, n) \in [S -> 0..n] /\ Tally(S, f, n + 1) \in [S -> 0..(n + 1)]
  BY <1>0, TallyType
<1>2. ASSUME NEW x \in S
      PROVE  Tally(S, f, n + 1)[x] = More(Tally(S, f, n), f[n + 1])[x]
  <2> DEFINE A == {e \in 1..n : f[e] = x}
             B == {e \in 1..(n + 1) : f[e] = x}
  <2>1. A \subseteq 1..n /\ IsFiniteSet(A)
    BY <1>0, SomeOf
  <2>2. Tally(S, f, n)[x] = Cardinality(A) /\ Tally(S, f, n + 1)[x] = Cardinality(B)
    BY DEF Tally
  <2>3. CASE f[n + 1] = x
    <3>1. B = A \cup {n + 1} /\ n + 1 \notin A
      BY <1>0, <2>3
    <3>2. Cardinality(B) = Cardinality(A) + 1
      <4> HIDE DEF A, B
      <4> QED BY <2>1, <3>1, FS_AddElement
    <3> HIDE DEF A, B
    <3> QED BY <1>1, <2>2, <2>3, <3>2 DEF More
  <2>4. CASE f[n + 1] # x
    <3>1. B = A
      BY <1>0, <2>4
    <3> HIDE DEF A, B
    <3> QED BY <1>1, <2>2, <2>4, <3>1 DEF More
  <2> QED BY <2>3, <2>4
<1> DEFINE c == Tally(S, f, n + 1)
           d == More(Tally(S, f, n), f[n + 1])
<1>3. DOMAIN c = S /\ DOMAIN d = S /\ c = [x \in S |-> c[x]] /\ d = [x \in S |-> d[x]]
  BY DEF Tally, More
<1>4. \A x \in S : c[x] = d[x]
  BY <1>2
<1> HIDE DEF c, d
<1>5. c = d
  BY <1>3, <1>4
<1> QED BY <1>5 DEF c, d

(* An entry is there at least once. *)
LEMMA TallyHas ==
  ASSUME NEW S, NEW N \in Nat, NEW f \in [1..N -> S], NEW n \in 0..N, NEW e \in 1..n
  PROVE  f[e] \in S /\ Tally(S, f, n)[f[e]] > 0
<1> DEFINE A == {d \in 1..n : f[d] = f[e]}
<1>1. f[e] \in S /\ A \subseteq 1..n /\ e \in A /\ n \in Nat
  OBVIOUS
<1>2. Tally(S, f, n)[f[e]] = Cardinality(A)
  BY <1>1 DEF Tally
<1> HIDE DEF A
<1>3. IsFiniteSet(A) /\ Cardinality(A) \in Nat
  BY <1>1, SomeOf
<1>4. Cardinality(A) # 0
  BY <1>1, <1>3, FS_EmptySet
<1> QED BY <1>1, <1>2, <1>3, <1>4

(* Another entry in its place. *)
LEMMA TallyPut ==
  ASSUME NEW S, NEW N \in Nat, NEW f \in [1..N -> S], NEW n \in 0..N, NEW e \in 1..n,
         NEW g \in [1..N -> S], \A d \in 1..n : d # e => g[d] = f[d]
  PROVE  Tally(S, g, n) = More(Less(Tally(S, f, n), f[e]), g[e])
<1> DEFINE y == g[e]
<1>0. n \in Nat /\ e \in 1..N /\ f[e] \in S /\ g[e] = y /\ y \in S
  OBVIOUS
<1> HIDE DEF y
<1>1. Tally(S, f, n) \in [S -> 0..n] /\ Tally(S, g, n) \in [S -> 0..n]
  BY <1>0, TallyType
<1>2. ASSUME NEW x \in S
      PROVE  Tally(S, g, n)[x] = More(Less(Tally(S, f, n), f[e]), y)[x]
  <2> DEFINE A == {d \in 1..n : f[d] = x}
             B == {d \in 1..n : g[d] = x}
             c == Tally(S, f, n)
  <2>1. A \subseteq 1..n /\ B \subseteq 1..n /\ IsFiniteSet(A) /\ IsFiniteSet(B)
    BY <1>0, SomeOf
  <2>2. Tally(S, f, n)[x] = Cardinality(A) /\ Tally(S, g, n)[x] = Cardinality(B)
    BY DEF Tally
  <2>2a. Cardinality(A) \in Nat /\ Cardinality(B) \in Nat
    BY <1>0, <2>1, SomeOf
  <2>3. More(Less(c, f[e]), y)[x] =
          (IF x = f[e] THEN c[x] - 1 ELSE c[x]) + (IF x = y THEN 1 ELSE 0)
    <3>1. Less(c, f[e]) = [z \in S |-> IF z = f[e] THEN c[z] - 1 ELSE c[z]]
      BY <1>0, <1>1 DEF Less
    <3>2. c[x] \in Int
      BY <1>1
    <3> DEFINE k == Less(c, f[e])
    <3>3. k = [z \in S |-> k[z]] /\ k[x] = (IF x = f[e] THEN c[x] - 1 ELSE c[x]) /\ k[x] \in Int
      BY <3>1, <3>2
    <3> HIDE DEF c, k
    <3>4. More(k, y)[x] = k[x] + (IF x = y THEN 1 ELSE 0)
      BY <3>3 DEF More
    <3> QED BY <3>3, <3>4 DEF k
  <2>4. CASE x = f[e] /\ x = y
    <3>1. A = B
      BY <1>0, <2>4
    <3> HIDE DEF A, B, c
    <3> QED BY <2>2, <2>2a, <2>3, <2>4, <3>1 DEF c
  <2>5. CASE x = f[e] /\ x # y
    <3>1. B = A \ {e} /\ e \in A
      BY <1>0, <2>5
    <3>2. Cardinality(B) = Cardinality(A) - 1
      <4> HIDE DEF A, B
      <4> QED BY <2>1, <3>1, FS_RemoveElement
    <3> HIDE DEF A, B
    <3> QED BY <2>2, <2>2a, <2>3, <2>5, <3>2
  <2>6. CASE x # f[e] /\ x = y
    <3>1. B = A \cup {e} /\ e \notin A
      BY <1>0, <2>6
    <3>2. Cardinality(B) = Cardinality(A) + 1
      <4> HIDE DEF A, B
      <4> QED BY <2>1, <3>1, FS_AddElement
    <3> HIDE DEF A, B
    <3> QED BY <2>2, <2>2a, <2>3, <2>6, <3>2
  <2>7. CASE x # f[e] /\ x # y
    <3>1. A = B
      BY <1>0, <2>7
    <3> HIDE DEF A, B
    <3> QED BY <2>2, <2>2a, <2>3, <2>7, <3>1
  <2> QED BY <2>4, <2>5, <2>6, <2>7
<1> DEFINE c == Tally(S, g, n)
           d == More(Less(Tally(S, f, n), f[e]), y)
<1>3. c = [x \in S |-> c[x]] /\ d = [x \in S |-> d[x]]
  BY DEF Tally, More, Less
<1>4. \A x \in S : c[x] = d[x]
  BY <1>2
<1> HIDE DEF c, d
<1>5. c = d
  BY <1>3, <1>4
<1> QED BY <1>5 DEF c, d, y

(* The entries of a table are as many as the copies of what they say. *)
CopiesOf(S, m, c) == {copy \in S \X (1..m) : copy[2] <= c[copy[1]]}

LEMMA CopiesMore ==
  ASSUME NEW S, NEW m \in Nat, NEW c \in [S -> Nat], NEW x \in S, c[x] < m,
         IsFiniteSet(CopiesOf(S, m, c))
  PROVE  /\ IsFiniteSet(CopiesOf(S, m, More(c, x)))
         /\ Cardinality(CopiesOf(S, m, More(c, x))) = Cardinality(CopiesOf(S, m, c)) + 1
<1> DEFINE k == c[x] + 1
           A == CopiesOf(S, m, c)
           B == CopiesOf(S, m, More(c, x))
<1>0. k \in 1..m /\ c[x] \in Nat
  OBVIOUS
<1>1. ASSUME NEW z \in S PROVE More(c, x)[z] = IF z = x THEN c[z] + 1 ELSE c[z]
  BY DEF More
<1>2. <<x, k>> \notin A
  <2>1. ~(k <= c[x])
    BY <1>0
  <2> QED BY <2>1 DEF CopiesOf
<1>3. ASSUME NEW copy \in S \X (1..m)
      PROVE  copy \in B <=> copy \in A \/ copy = <<x, k>>
  <2>1. PICK z \in S, i \in 1..m : copy = <<z, i>>
    OBVIOUS
  <2>2. copy \in B <=> i <= More(c, x)[z]
    BY <2>1 DEF CopiesOf
  <2>3. copy \in A <=> i <= c[z]
    BY <2>1 DEF CopiesOf
  <2> HIDE DEF A, B
  <2>4. CASE z = x
    <3>1. i <= c[x] + 1 <=> i <= c[x] \/ i = k
      BY <1>0
    <3> QED BY <1>1, <2>1, <2>2, <2>3, <2>4, <3>1
  <2>5. CASE z # x
    BY <1>1, <2>1, <2>2, <2>3, <2>5
  <2> QED BY <2>4, <2>5
<1>4. A \subseteq S \X (1..m) /\ B \subseteq S \X (1..m) /\ <<x, k>> \in S \X (1..m)
  BY <1>0 DEF CopiesOf
<1> HIDE DEF A, B, k
<1>5. B = A \cup {<<x, k>>}
  BY <1>3, <1>4
<1>6. IsFiniteSet(B) /\ Cardinality(B) = Cardinality(A) + 1
  BY <1>2, <1>5, FS_AddElement DEF A
<1> QED BY <1>6 DEF A, B

LEMMA CopiesTally ==
  ASSUME NEW S, NEW m \in Nat, NEW f \in [1..m -> S], NEW n \in 0..m
  PROVE  Cardinality(CopiesOf(S, m, Tally(S, f, n))) = n
<1> DEFINE C(k) == CopiesOf(S, m, Tally(S, f, k))
           G == {k \in 0..m : IsFiniteSet(C(k)) /\ Cardinality(C(k)) = k}
<1>1. 0 \in G
  <2>1. Tally(S, f, 0) \in [S -> 0..0]
    BY TallyType
  <2>2. C(0) = {}
    BY <2>1 DEF CopiesOf
  <2> QED BY <2>2, FS_EmptySet
<1>2. ASSUME NEW k \in 0..(m - 1), k \in G PROVE k + 1 \in G
  <2>1. k \in 0..m /\ k + 1 \in 0..m /\ k + 1 \in 1..m /\ k < m /\ f[k + 1] \in S
    OBVIOUS
  <2> DEFINE c == Tally(S, f, k)
             x == f[k + 1]
  <2>2. c \in [S -> 0..k]
    BY <2>1, TallyType
  <2>3. c \in [S -> Nat] /\ c[x] < m
    <3> HIDE DEF c
    <3> QED BY <2>1, <2>2
  <2>4. Tally(S, f, k + 1) = More(c, x)
    BY TallyMore
  <2>5. IsFiniteSet(CopiesOf(S, m, c)) /\ Cardinality(CopiesOf(S, m, c)) = k
    BY <1>2
  <2>6. IsFiniteSet(CopiesOf(S, m, More(c, x)))
        /\ Cardinality(CopiesOf(S, m, More(c, x))) = k + 1
    <3> HIDE DEF c, x
    <3> QED BY <2>1, <2>3, <2>5, CopiesMore DEF x
  <2>7. IsFiniteSet(C(k + 1)) /\ Cardinality(C(k + 1)) = k + 1
    BY <2>4, <2>6
  <2> HIDE DEF C
  <2> QED BY <2>1, <2>7
<1>3. n \in G
  <2> HIDE DEF G
  <2> QED BY <1>1, <1>2, UpTo
<1> QED BY <1>3

-----------------------------------------------------------------------------
(* When every word leaves room for its terminator, a field is a string. *)
Account == Text \X Text
Str(w) == IF w = Blank THEN <<>> ELSE <<w>>
Told(t) == [e \in 1..Slots |-> <<StringAt(t, Name(e)), StringAt(t, Pass(e))>>]

LEMMA NoBlankWord ==
  Full = {} => \A w \in Word \cup {Blank} : w \notin Full /\ Str(w) \in Text
<1> SUFFICES ASSUME Full = {}, NEW w \in Word \cup {Blank} PROVE w \notin Full /\ Str(w) \in Text
  OBVIOUS
<1>1. Str(w) = <<>> \/ (w \in Word /\ Str(w) = <<w>>)
  BY DEF Str
<1>2. 0 \in 0..(2 * Slots) /\ 1 \in 0..(2 * Slots)
  BY Numerals
<1>3. CASE Str(w) = <<>>
  <2>1. <<>> \in [1..0 -> Word] /\ \A i \in 1..(0 - 1) : <<>>[i] \in Full
    OBVIOUS
  <2> QED BY <1>2, <1>3, <2>1 DEF Text
<1>4. CASE w \in Word /\ Str(w) = <<w>>
  <2>1. <<w>> \in [1..1 -> Word] /\ \A i \in 1..(1 - 1) : <<w>>[i] \in Full
    BY <1>4
  <2> QED BY <1>2, <1>4, <2>1 DEF Text
<1> QED BY <1>1, <1>3, <1>4

(* No password goes on behind a word that leaves room. *)
LEMMA PasswordIsWord ==
  ASSUME Full = {}, NEW p \in Password
  PROVE  \E w \in Word : p = <<w>>
<1>1. p \in Seq(Word) /\ p # <<>> /\ \A i \in 1..(Len(p) - 1) : p[i] \in {}
  BY MngAssumption DEF Word
<1>2. Len(p) \in Nat /\ Len(p) # 0 /\ \A i \in 1..Len(p) : p[i] \in Word
  BY <1>1, LenProperties, EmptySeq, ElementOfSeq
<1>3. Len(p) = 1
  <2>1. Len(p) > 1 => 1 \in 1..(Len(p) - 1)
    BY <1>2
  <2>2. 1 \notin 1..(Len(p) - 1)
    BY <1>1
  <2>3. \A n \in Nat : n # 0 /\ ~(n > 1) => n = 1
    OBVIOUS
  <2>4. Len(p) \in Nat /\ Len(p) # 0 /\ ~(Len(p) > 1)
    BY <1>2, <2>1, <2>2
  <2> QED BY <2>3, <2>4, Zenon
<1>4. p = <<p[1]>> /\ p[1] \in Word
  <2>1. <<p[1]>> \in Seq(Word) /\ Len(<<p[1]>>) = 1 /\ <<p[1]>>[1] = p[1]
    BY <1>2, <1>3
  <2> QED BY <1>1, <1>2, <1>3, <2>1, SeqEqual
<1> QED BY <1>4

LEMMA StringIs ==
  ASSUME Full = {}, NEW t \in Seq(Word \cup {Blank}), NEW i \in 1..Len(t)
  PROVE  StringAt(t, i) = Str(t[i])
<1> DEFINE ends == {j \in i..Len(t) : t[j] \notin Full}
<1>1. Len(t) \in Nat /\ i \in Nat /\ i <= Len(t) /\ t[i] \in Word \cup {Blank}
  OBVIOUS
<1>2. i \in ends /\ \A j \in ends : i <= j /\ j \in Int
  BY <1>1
<1>3. ends # {} /\ Min(ends) = i
  <2> HIDE DEF ends
  <2>1. \A x \in ends : (\A y \in ends : x <= y) => x = i
    BY <1>1, <1>2
  <2> QED BY <1>1, <1>2, <2>1 DEF Min
<1>4. StringAt(t, i) = IF t[i] = Blank THEN SubSeq(t, i, i - 1) ELSE SubSeq(t, i, i)
  BY <1>3 DEF StringAt
<1>5. SubSeq(t, i, i - 1) = <<>> /\ SubSeq(t, i, i) = <<t[i]>>
  <2>1. /\ SubSeq(t, i, i) \in Seq(Word \cup {Blank}) /\ Len(SubSeq(t, i, i)) = 1
        /\ SubSeq(t, i, i)[1] = t[i]
    BY <1>1
  <2>2. SubSeq(t, i, i - 1) \in Seq(Word \cup {Blank}) /\ Len(SubSeq(t, i, i - 1)) = 0
    BY <1>1
  <2>3. <<t[i]>> \in Seq(Word \cup {Blank}) /\ Len(<<t[i]>>) = 1 /\ <<t[i]>>[1] = t[i]
    BY <1>1
  <2>4. SubSeq(t, i, i) = <<t[i]>>
    <3> DEFINE s == SubSeq(t, i, i)
               u == <<t[i]>>
    <3>1. s \in Seq(Word \cup {Blank}) /\ u \in Seq(Word \cup {Blank})
          /\ Len(s) = Len(u) /\ \A k \in 1..Len(s) : s[k] = u[k]
      BY <2>1, <2>3
    <3> HIDE DEF s, u
    <3>2. s = u
      BY <3>1, SeqEqual
    <3> QED BY <3>2 DEF s, u
  <2>5. SubSeq(t, i, i - 1) = <<>>
    BY <2>2, EmptySeq
  <2> QED BY <2>4, <2>5
<1> QED BY <1>4, <1>5 DEF Str

LEMMA StrcpyIs ==
  ASSUME Full = {}, NEW t \in Table_, NEW i \in Field, NEW w \in Word \cup {Blank}
  PROVE  Strcpy(t, i, Str(w)) = [t EXCEPT ![i] = w]
<1>1. Len(t) = 2 * Slots /\ 2 * Slots \in Nat /\ t = [j \in 1..Len(t) |-> t[j]] /\ i \in 1..Len(t)
  BY TableIsSeq, Numerals DEF Table_, Field
<1>2. CASE w = Blank
  <2>1. Str(w) = <<>> /\ Len(Str(w)) = 0
    BY <1>2 DEF Str
  <2>2. ASSUME NEW j \in 1..Len(t)
        PROVE  ~(j \in i..((i + 0) - 1)) /\ (j = i + 0 <=> j = i)
    BY <1>1
  <2>3. Strcpy(t, i, Str(w)) = [j \in 1..Len(t) |-> IF j = i THEN Blank ELSE t[j]]
    BY <2>1, <2>2 DEF Strcpy, Spills
  <2> QED BY <1>1, <1>2, <2>3
<1>3. CASE w # Blank
  <2>1. Str(w) = <<w>> /\ Len(Str(w)) = 1 /\ Str(w)[1] = w /\ w \notin Full /\ Str(w) # <<>>
    BY <1>3, NoBlankWord DEF Str
  <2>2. ASSUME NEW j \in 1..Len(t)
        PROVE  (j \in i..((i + 1) - 1) <=> j = i) /\ (j = i => j - i + 1 = 1)
    BY <1>1
  <2>3. Strcpy(t, i, Str(w)) = [j \in 1..Len(t) |-> IF j = i THEN w ELSE t[j]]
    BY <2>1, <2>2 DEF Strcpy, Spills
  <2> QED BY <1>1, <2>3
<1> QED BY <1>2, <1>3

LEMMA ToldIs ==
  ASSUME Full = {}, NEW t \in Table_
  PROVE  /\ Told(t) = [e \in 1..Slots |-> <<Str(t[Name(e)]), Str(t[Pass(e)])>>]
         /\ Told(t) \in [1..Slots -> Account]
<1>1. ASSUME NEW e \in 1..Slots
      PROVE  /\ StringAt(t, Name(e)) = Str(t[Name(e)]) /\ StringAt(t, Pass(e)) = Str(t[Pass(e)])
             /\ <<Str(t[Name(e)]), Str(t[Pass(e)])>> \in Account
  <2>1. Name(e) \in Field /\ Pass(e) \in Field
    BY FieldsOf
  <2>2. t[Name(e)] \in Word \cup {Blank} /\ t[Pass(e)] \in Word \cup {Blank}
    BY <2>1 DEF Table_
  <2>3. t \in Seq(Word \cup {Blank}) /\ Name(e) \in 1..Len(t) /\ Pass(e) \in 1..Len(t)
    BY <2>1, TableIsSeq DEF Field
  <2>4. StringAt(t, Name(e)) = Str(t[Name(e)]) /\ StringAt(t, Pass(e)) = Str(t[Pass(e)])
    BY <2>3, StringIs
  <2>5. Str(t[Name(e)]) \in Text /\ Str(t[Pass(e)]) \in Text
    BY <2>2, NoBlankWord
  <2> QED BY <2>4, <2>5 DEF Account
<1> QED BY <1>1 DEF Told

(* An entry is written by two strcpy, or one of its fields by one. *)
LEMMA ToldPut ==
  ASSUME Full = {}, NEW t \in Table_, NEW e \in 1..Slots, NEW v \in Word \cup {Blank},
         NEW w \in Word \cup {Blank}
  PROVE  LET u == Strcpy(Strcpy(t, Name(e), Str(v)), Pass(e), Str(w))
         IN u \in Table_ /\ Told(u) = [Told(t) EXCEPT ![e] = <<Str(v), Str(w)>>]
<1> DEFINE u == [[t EXCEPT ![Name(e)] = v] EXCEPT ![Pass(e)] = w]
<1>1. Name(e) \in Field /\ Pass(e) \in Field
  BY FieldsOf
<1>2. Strcpy(t, Name(e), Str(v)) = [t EXCEPT ![Name(e)] = v] /\ [t EXCEPT ![Name(e)] = v] \in Table_
  BY <1>1, StrcpyIs DEF Table_
<1>3. Strcpy(Strcpy(t, Name(e), Str(v)), Pass(e), Str(w)) = u /\ u \in Table_
  <2> DEFINE r == [t EXCEPT ![Name(e)] = v]
  <2>1. r \in Table_
    BY <1>2
  <2> HIDE DEF r
  <2>2. Strcpy(r, Pass(e), Str(w)) = [r EXCEPT ![Pass(e)] = w] /\ [r EXCEPT ![Pass(e)] = w] \in Table_
    BY <1>1, <2>1, StrcpyIs DEF Table_
  <2> QED BY <1>2, <2>2 DEF r
<1>4. ASSUME NEW d \in 1..Slots
      PROVE  /\ u[Name(d)] = IF d = e THEN v ELSE t[Name(d)]
             /\ u[Pass(d)] = IF d = e THEN w ELSE t[Pass(d)]
  <2>1. Name(d) \in Field /\ Pass(d) \in Field
    BY FieldsOf
  <2>2. Name(d) # Pass(e) /\ Pass(d) # Name(e) /\ (Name(d) = Name(e) <=> d = e)
        /\ (Pass(d) = Pass(e) <=> d = e)
    BY Numerals DEF Name, Pass
  <2> QED BY <1>1, <2>1, <2>2 DEF Table_
<1> HIDE DEF u
<1>5. Told(u) = [d \in 1..Slots |-> <<Str(u[Name(d)]), Str(u[Pass(d)])>>]
  BY <1>3, ToldIs
<1>6. Told(t) = [d \in 1..Slots |-> <<Str(t[Name(d)]), Str(t[Pass(d)])>>]
  BY ToldIs
<1>7. Told(u) = [Told(t) EXCEPT ![e] = <<Str(v), Str(w)>>]
  <2> DEFINE x == <<Str(v), Str(w)>>  f == Told(t)
  <2>1. ASSUME NEW d \in 1..Slots
        PROVE  <<Str(u[Name(d)]), Str(u[Pass(d)])>> = IF d = e THEN x ELSE f[d]
    <3>1. f[d] = <<Str(t[Name(d)]), Str(t[Pass(d)])>>
      BY <1>6
    <3> HIDE DEF f
    <3> QED BY <1>4, <3>1
  <2>2. DOMAIN f = 1..Slots /\ f = [d \in 1..Slots |-> f[d]]
    BY <1>6
  <2> HIDE DEF x, f
  <2>3. [d \in 1..Slots |-> <<Str(u[Name(d)]), Str(u[Pass(d)])>>]
          = [d \in 1..Slots |-> IF d = e THEN x ELSE f[d]]
    BY <2>1
  <2>4. [f EXCEPT ![e] = x] = [d \in 1..Slots |-> IF d = e THEN x ELSE f[d]]
    BY <2>2
  <2> QED BY <1>5, <2>3, <2>4 DEF x, f
<1> QED BY <1>3, <1>7

LEMMA ToldPutName ==
  ASSUME Full = {}, NEW t \in Table_, NEW e \in 1..Slots, NEW v \in Word \cup {Blank}
  PROVE  /\ Told(Strcpy(t, Name(e), Str(v))) = [Told(t) EXCEPT ![e] = <<Str(v), @[2]>>]
         /\ Told(Strcpy(t, Pass(e), Str(v))) = [Told(t) EXCEPT ![e] = <<@[1], Str(v)>>]
<1>1. Name(e) \in Field /\ Pass(e) \in Field /\ Name(e) # Pass(e)
  BY FieldsOf, Numerals DEF Name, Pass
<1>2. t[Name(e)] \in Word \cup {Blank} /\ t[Pass(e)] \in Word \cup {Blank}
  BY <1>1 DEF Table_
<1>3. Told(t)[e] = <<Str(t[Name(e)]), Str(t[Pass(e)])>>
  BY ToldIs
<1>4. Strcpy(t, Name(e), Str(t[Name(e)])) = t
  <2>1. Strcpy(t, Name(e), Str(t[Name(e)])) = [t EXCEPT ![Name(e)] = t[Name(e)]]
    BY <1>1, <1>2, StrcpyIs
  <2> QED BY <1>1, <2>1 DEF Table_
<1>5. Told(Strcpy(t, Pass(e), Str(v))) = [Told(t) EXCEPT ![e] = <<Str(t[Name(e)]), Str(v)>>]
  BY <1>2, <1>4, ToldPut
<1> DEFINE r == Strcpy(t, Name(e), Str(v))
<1>6. r = [t EXCEPT ![Name(e)] = v] /\ r \in Table_ /\ r[Pass(e)] = t[Pass(e)]
  BY <1>1, StrcpyIs DEF Table_
<1>7. Strcpy(r, Pass(e), Str(t[Pass(e)])) = r
  <2> DEFINE w == t[Pass(e)]
             i == Pass(e)
  <2>1. w \in Word \cup {Blank} /\ i \in Field /\ r \in Table_ /\ r[i] = w
    BY <1>1, <1>2, <1>6
  <2> HIDE DEF r, w, i
  <2>2. Strcpy(r, i, Str(w)) = [r EXCEPT ![i] = w]
    BY <2>1, StrcpyIs
  <2>3. [r EXCEPT ![i] = w] = r
    BY <2>1 DEF Table_
  <2> QED BY <2>2, <2>3 DEF w, i
<1>8. Told(r) = [Told(t) EXCEPT ![e] = <<Str(v), Str(t[Pass(e)])>>]
  BY <1>2, <1>7, ToldPut
<1>9. Told(t)[e][1] = Str(t[Name(e)]) /\ Told(t)[e][2] = Str(t[Pass(e)])
  BY <1>3
<1> HIDE DEF r
<1> QED BY <1>5, <1>8, <1>9 DEF r

LEMMA TallyLess ==
  ASSUME NEW S, NEW N \in Nat, NEW f \in [1..N -> S], NEW n \in 1..N
  PROVE  Tally(S, f, n - 1) = Less(Tally(S, f, n), f[n])
<1> DEFINE c == Tally(S, f, n - 1)
           x == f[n]
<1>1. n - 1 \in 0..(N - 1) /\ n - 1 \in 0..N /\ (n - 1) + 1 = n /\ x \in S
  OBVIOUS
<1>2. c \in [S -> 0..(n - 1)]
  BY <1>1, TallyType
<1>3. Tally(S, f, n) = More(c, x)
  BY <1>1, TallyMore
<1>4. \A z \in S : c[z] \in Int
  BY <1>2
<1> HIDE DEF c, x
<1>5. Less(More(c, x), x) = c
  <2>1. More(c, x) = [z \in S |-> IF z = x THEN c[z] + 1 ELSE c[z]]
    BY <1>2 DEF More
  <2>2. Less(More(c, x), x) = [z \in S |-> IF z = x THEN (c[z] + 1) - 1 ELSE c[z]]
    BY <1>1, <2>1 DEF Less
  <2>3. \A z \in S : (c[z] + 1) - 1 = c[z]
    BY <1>4
  <2>4. c = [z \in S |-> c[z]]
    BY <1>2
  <2> QED BY <2>2, <2>3, <2>4
<1> QED BY <1>3, <1>5 DEF c, x

(* The last entry takes the place of another: that one is gone. *)
LEMMA TallyMoved ==
  ASSUME NEW S, NEW N \in Nat, NEW f \in [1..N -> S], NEW n \in 1..N, NEW e \in 1..(n - 1),
         NEW g \in [1..N -> S], g[e] = f[n], \A d \in 1..(n - 1) : d # e => g[d] = f[d]
  PROVE  Tally(S, g, n - 1) = Less(Tally(S, f, n), f[e])
<1> DEFINE c == Tally(S, f, n - 1)
           a == f[e]
           b == f[n]
<1>1. n - 1 \in 0..(N - 1) /\ n - 1 \in 0..N /\ (n - 1) + 1 = n /\ a \in S /\ b \in S
  OBVIOUS
<1>2. c \in [S -> 0..(n - 1)]
  BY <1>1, TallyType
<1>3. Tally(S, f, n) = More(c, b)
  BY <1>1, TallyMore
<1>4. Tally(S, g, n - 1) = More(Less(c, a), b)
  <2> DEFINE m == n - 1
  <2>1. /\ N \in Nat /\ m \in 0..N /\ e \in 1..m /\ g[e] = b
        /\ \A d \in 1..m : d # e => g[d] = f[d]
    BY <1>1
  <2> HIDE DEF b, m
  <2>2. Tally(S, g, m) = More(Less(Tally(S, f, m), f[e]), b)
    BY <2>1, TallyPut
  <2> QED BY <2>2 DEF m
<1>5. c = [z \in S |-> c[z]] /\ \A z \in S : c[z] \in Int
  BY <1>2
<1> HIDE DEF c, a, b
<1>6. More(Less(c, a), b) = Less(More(c, b), a)
  <2>1. More(Less(c, a), b) = [z \in S |-> (IF z = a THEN c[z] - 1 ELSE c[z]) + (IF z = b THEN 1 ELSE 0)]
    <3>1. Less(c, a) = [z \in S |-> IF z = a THEN c[z] - 1 ELSE c[z]]
      BY <1>1, <1>5 DEF Less
    <3>2. \A z \in S : Less(c, a)[z] = (IF z = a THEN c[z] - 1 ELSE c[z]) /\ Less(c, a)[z] \in Int
      BY <1>5, <3>1
    <3>3. More(Less(c, a), b) = [z \in S |-> IF z = b THEN Less(c, a)[z] + 1 ELSE Less(c, a)[z]]
      BY <1>1, <3>1 DEF More
    <3> QED BY <3>2, <3>3
  <2>2. Less(More(c, b), a) = [z \in S |-> (IF z = b THEN c[z] + 1 ELSE c[z]) - (IF z = a THEN 1 ELSE 0)]
    <3>1. More(c, b) = [z \in S |-> IF z = b THEN c[z] + 1 ELSE c[z]]
      BY <1>1, <1>5 DEF More
    <3>2. \A z \in S : More(c, b)[z] = (IF z = b THEN c[z] + 1 ELSE c[z]) /\ More(c, b)[z] \in Int
      BY <1>5, <3>1
    <3>3. Less(More(c, b), a) = [z \in S |-> IF z = a THEN More(c, b)[z] - 1 ELSE More(c, b)[z]]
      BY <1>1, <3>1 DEF Less
    <3> QED BY <3>2, <3>3
  <2>3. \A z \in S : (IF z = a THEN c[z] - 1 ELSE c[z]) + (IF z = b THEN 1 ELSE 0)
                       = (IF z = b THEN c[z] + 1 ELSE c[z]) - (IF z = a THEN 1 ELSE 0)
    BY <1>5
  <2> QED BY <2>1, <2>2, <2>3
<1> QED BY <1>3, <1>4, <1>6 DEF c, a, b

-----------------------------------------------------------------------------
(* What the table holds, for Accounts. *)
LEMMA EntriesAre ==
  ASSUME AccountsType
  PROVE  Entries = Tally(Account, Told(users), users_size)
<1>1. \A e \in 1..users_size : e \in 1..Slots
  BY Numerals DEF AccountsType
<1>2. \A e \in 1..users_size : Entry(e) = Told(users)[e]
  BY <1>1 DEF Entry, Told
<1>3. ASSUME NEW x \in Account
      PROVE  {e \in 1..users_size : Entry(e) = x} = {e \in 1..users_size : Told(users)[e] = x}
  BY <1>2
<1> QED BY <1>3 DEF Entries, Tally, Account

LEMMA EntriesNext ==
  ASSUME AccountsType'
  PROVE  Entries' = Tally(Account, Told(users'), users_size')
<1>1. \A e \in 1..users_size' : e \in 1..Slots
  BY Numerals DEF AccountsType
<1>2. \A e \in 1..users_size' : Entry(e)' = Told(users')[e]
  BY <1>1 DEF Entry, Told
<1>3. ASSUME NEW x \in Account
      PROVE  {e \in 1..users_size' : Entry(e)' = x} = {e \in 1..users_size' : Told(users')[e] = x}
  BY <1>2
<1> QED BY <1>3 DEF Entries, Tally, Account

(* Accounts counts as this module does. *)
LEMMA SameCardinality == \A S : Table!Cardinality(S) = Cardinality(S)
BY DEF Table!Cardinality, Cardinality

LEMMA CopiesHeld ==
  ASSUME Full = {}, AccountsType
  PROVE  /\ Table!Cardinality(Table!Copies) = users_size
         /\ Entries \in [Account -> 0..Slots]
<1>1. Told(users) \in [1..Slots -> Account] /\ users_size \in 0..Slots /\ Slots \in Nat
  BY ToldIs, Numerals DEF AccountsType
<1>2. Table!Copies = CopiesOf(Account, Slots, Tally(Account, Told(users), users_size))
  BY EntriesAre DEF Table!Copies, Table!Account, CopiesOf, Account
<1>3. Tally(Account, Told(users), users_size) \in [Account -> 0..users_size]
  BY <1>1, TallyType
<1>4. Table!Cardinality(Table!Copies) = Cardinality(Table!Copies)
  BY SameCardinality
<1> QED BY <1>1, <1>2, <1>3, <1>4, CopiesTally, EntriesAre

LEMMA Adds ==
  ASSUME Full = {}, AccountsType, NEW name \in Word \cup Long, NEW pass \in Word,
         AddUser(name, <<pass>>, TRUE)
  PROVE  \E n, p \in Text : /\ Table!Cardinality(Table!Copies) < Slots
                            /\ Entries' = Table!With(Entries, <<n, p>>)
<1> DEFINE e == users_size + 1
           f == Told(users)
           g == Told(users')
           x == <<Str(name), Str(pass)>>
<1>1. /\ users_size + 1 < Slots /\ name \in Word
      /\ users' = Strcpy(Strcpy(users, Name(e), <<name>>), Pass(e), <<pass>>) /\ users_size' = e
  BY DEF AddUser
<1>2. Str(name) = <<name>> /\ Str(pass) = <<pass>> /\ Str(name) \in Text /\ Str(pass) \in Text
  <2>1. name # Blank /\ pass # Blank
    <3>1. Blank \notin Word
      BY MngAssumption DEF Word
    <3>2. name \in Word
      BY <1>1
    <3> QED BY <3>1, <3>2, Zenon
  <2>2. name \in Word \cup {Blank} /\ pass \in Word \cup {Blank}
    BY <1>1
  <2> QED BY <2>1, <2>2, NoBlankWord, Zenon DEF Str
<1>3. users \in Table_ /\ e \in 1..Slots /\ users_size \in 0..(Slots - 1) /\ Slots \in Nat
  BY <1>1, Numerals DEF AccountsType
<1>4. users' \in Table_ /\ g = [f EXCEPT ![e] = x]
  <2>1. users' = Strcpy(Strcpy(users, Name(e), Str(name)), Pass(e), Str(pass))
    BY <1>1, <1>2
  <2>2. name \in Word \cup {Blank} /\ pass \in Word \cup {Blank}
    BY <1>1
  <2> HIDE DEF e
  <2> QED BY <1>3, <2>1, <2>2, ToldPut
<1>5. f \in [1..Slots -> Account] /\ g \in [1..Slots -> Account]
  BY <1>3, <1>4, ToldIs
<1>6. g[e] = x /\ \A d \in 1..users_size : f[d] = g[d]
  <2>1. \A d \in 1..users_size : d \in 1..Slots /\ d # e
    BY <1>3
  <2> HIDE DEF f, g, x, e
  <2> QED BY <1>3, <1>4, <1>5, <2>1
<1>7. AccountsType'
  BY <1>1, OneWord, AddUserType
<1>8. Entries' = Tally(Account, g, e)
  BY <1>1, <1>7, EntriesNext
<1>9. Tally(Account, g, e) = More(Tally(Account, g, users_size), x)
  <2> HIDE DEF g, x
  <2> QED BY <1>3, <1>5, <1>6, TallyMore
<1>10. Tally(Account, g, users_size) = Entries
  <2>1. Tally(Account, f, users_size) = Tally(Account, g, users_size)
    <3> HIDE DEF f, g
    <3> QED BY <1>3, <1>6, TallySame
  <2> QED BY <2>1, EntriesAre
<1>11. Entries' = Table!With(Entries, <<Str(name), Str(pass)>>)
  BY <1>8, <1>9, <1>10 DEF More, Table!With
<1> QED BY <1>1, <1>2, <1>3, <1>11, CopiesHeld

LEMMA Removes ==
  ASSUME Full = {}, AccountsType, NEW name, DeleteUser(name, TRUE)
  PROVE  \E n, p \in Text : /\ Entries[<<n, p>>] > 0
                            /\ Entries' = Table!Without(Entries, <<n, p>>)
<1> DEFINE e == Min(Matches(name))
           moved == SubSeq(users, Name(users_size), Pass(users_size))
           f == Told(users)
           g == Told(users')
<1>1. /\ Matches(name) # {} /\ users_size' = users_size - 1
      /\ users' = IF e = users_size THEN users
                  ELSE Strcpy(Strcpy(users, Name(e), StringAt(moved, 1)), Pass(e), StringAt(moved, 2))
  BY DEF DeleteUser
<1>2. e \in 1..users_size
  BY <1>1, FirstMatch
<1> HIDE DEF e
<1>3. users \in Table_ /\ users_size \in 1..Slots /\ e \in 1..Slots /\ Slots \in Nat
      /\ users_size \in 0..Slots /\ users_size - 1 \in 0..Slots
  BY <1>2, Numerals DEF AccountsType
<1>4. AccountsType'
  BY DeleteUserType
<1>5. f \in [1..Slots -> Account]
  BY <1>3, ToldIs
<1>6. Entries = Tally(Account, f, users_size) /\ Entries' = Tally(Account, g, users_size - 1)
  BY <1>1, <1>4, EntriesAre, EntriesNext
<1>7. f[e] \in Account /\ Entries[f[e]] > 0
  <2> HIDE DEF f
  <2> QED BY <1>2, <1>3, <1>5, <1>6, TallyHas
<1>8. Entries' = Less(Entries, f[e])
  <2>1. CASE e = users_size
    <3>1. g = f
      BY <1>1, <2>1
    <3> HIDE DEF f, g
    <3> QED BY <1>3, <1>5, <1>6, <2>1, <3>1, TallyLess
  <2>2. CASE e # users_size
    <3> DEFINE v == users[Name(users_size)]
               w == users[Pass(users_size)]
    <3>1. Name(users_size) \in Field /\ Pass(users_size) \in Field
          /\ Pass(users_size) = Name(users_size) + 1
      BY <1>3, FieldsOf DEF Name, Pass
    <3>2. v \in Word \cup {Blank} /\ w \in Word \cup {Blank}
      BY <1>3, <3>1 DEF Table_
    <3>3. moved \in Seq(Word \cup {Blank}) /\ Len(moved) = 2
      BY <1>3, LastEntryType
    <3>4. moved[1] = v /\ moved[2] = w
      <4>1. users \in Seq(Word \cup {Blank}) /\ Len(users) = 2 * Slots /\ 2 * Slots \in Nat
        BY <1>3, TableIsSeq, Numerals
      <4>2. /\ Name(users_size) \in 1..(2 * Slots) /\ Pass(users_size) \in 1..(2 * Slots)
            /\ Name(users_size) + 1 - 1 = Name(users_size)
        BY <3>1 DEF Field
      <4> QED BY <3>1, <4>1, <4>2
    <3>5. StringAt(moved, 1) = Str(v) /\ StringAt(moved, 2) = Str(w)
      <4> HIDE DEF moved, v, w
      <4> QED BY <3>3, <3>4, StringIs
    <3>6. g = [f EXCEPT ![e] = <<Str(v), Str(w)>>] /\ g \in [1..Slots -> Account]
      <4>1. users' = Strcpy(Strcpy(users, Name(e), Str(v)), Pass(e), Str(w))
        BY <1>1, <2>2, <3>5
      <4> HIDE DEF v, w
      <4>2. g = [f EXCEPT ![e] = <<Str(v), Str(w)>>] /\ users' \in Table_
        BY <1>3, <3>2, <4>1, ToldPut
      <4> QED BY <4>2, ToldIs
    <3>7. f[users_size] = <<Str(v), Str(w)>>
      BY <1>3, ToldIs
    <3>8. e \in 1..(users_size - 1)
      BY <1>2, <1>3, <2>2
    <3> HIDE DEF f, g, v, w
    <3>9. Tally(Account, g, users_size - 1) = Less(Tally(Account, f, users_size), f[e])
      <4>1. g[e] = f[users_size] /\ \A d \in 1..(users_size - 1) : d # e => g[d] = f[d]
        BY <1>3, <1>5, <3>6, <3>7, <3>8
      <4>2. /\ Slots \in Nat /\ f \in [1..Slots -> Account] /\ g \in [1..Slots -> Account]
            /\ users_size \in 1..Slots /\ e \in 1..(users_size - 1)
        BY <1>3, <1>5, <3>6, <3>8
      <4> QED BY <4>1, <4>2, TallyMoved
    <3> QED BY <1>6, <3>9
  <2> QED BY <2>1, <2>2
<1> HIDE DEF f
<1>9. PICK n \in Text, p \in Text : f[e] = <<n, p>>
  BY <1>7 DEF Account
<1>10. Entries' = Table!Without(Entries, <<n, p>>)
  BY <1>8, <1>9 DEF Less, Table!Without
<1> QED BY <1>7, <1>9, <1>10

LEMMA Changes ==
  ASSUME Full = {}, AccountsType, NEW name, NEW value, NEW attr \in {0, 1},
         EditUser(name, value, attr, TRUE)
  PROVE  \E n, p, m, q \in Text :
           /\ m = n \/ q = p
           /\ Entries[<<n, p>>] > 0
           /\ Entries' = Table!With(Table!Without(Entries, <<n, p>>), <<m, q>>)
<1> DEFINE e == Min(Matches(name))
           f == Told(users)
           g == Told(users')
<1>1. /\ Matches(name) # {} /\ value \in Short /\ users_size' = users_size
      /\ users' = Strcpy(users, IF attr = 0 THEN Name(e) ELSE Pass(e), <<value>>)
  BY DEF EditUser
<1>2. e \in 1..users_size
  BY <1>1, FirstMatch
<1> HIDE DEF e
<1>3. users \in Table_ /\ users_size \in 0..Slots /\ e \in 1..Slots /\ Slots \in Nat
  BY <1>2, Numerals DEF AccountsType
<1>4. Str(value) = <<value>> /\ value \in Word \cup {Blank} /\ Str(value) \in Text
  <2>1. value # Blank /\ value \in Word
    <3>1. Blank \notin Word /\ Short \subseteq Word
      BY MngAssumption DEF Word
    <3>2. value \in Short
      BY <1>1
    <3> QED BY <3>1, <3>2, Zenon
  <2>2. value \in Word \cup {Blank}
    BY <2>1
  <2> QED BY <2>1, <2>2, NoBlankWord, Zenon DEF Str
<1>5. PICK n \in Text, p \in Text : f[e] = <<n, p>>
  <2>1. f \in [1..Slots -> Account]
    BY <1>3, ToldIs
  <2>2. f[e] \in Account
    <3> HIDE DEF f
    <3> QED BY <1>3, <2>1
  <2> QED BY <2>2 DEF Account
<1>6. AccountsType'
  BY EditUserType
<1>7. Entries = Tally(Account, f, users_size) /\ Entries' = Tally(Account, g, users_size)
  BY <1>1, <1>6, EntriesAre, EntriesNext
<1>8. Entries[<<n, p>>] > 0 /\ f \in [1..Slots -> Account]
  <2>1. f \in [1..Slots -> Account]
    BY <1>3, ToldIs
  <2> HIDE DEF f
  <2> QED BY <1>2, <1>3, <1>5, <1>7, <2>1, TallyHas
<1>9. ASSUME NEW y \in Account, g = [f EXCEPT ![e] = y]
      PROVE  Entries' = Table!With(Table!Without(Entries, <<n, p>>), y)
  <2> HIDE DEF f, g
  <2>1. Tally(Account, g, users_size) = More(Less(Tally(Account, f, users_size), f[e]), y)
    <3>1. Slots \in Nat /\ f \in [1..Slots -> Account] /\ users_size \in 0..Slots
          /\ e \in 1..users_size /\ e \in 1..Slots
      BY <1>2, <1>3, <1>8
    <3>2. /\ g \in [1..Slots -> Account] /\ g[e] = y
          /\ \A d \in 1..users_size : d # e => g[d] = f[d]
      BY <1>9, <3>1
    <3> QED BY <3>1, <3>2, TallyPut
  <2> QED BY <1>5, <1>7, <2>1 DEF More, Less, Table!With, Table!Without
<1>10. CASE attr = 0
  <2>1. g = [f EXCEPT ![e] = <<Str(value), @[2]>>]
    BY <1>1, <1>3, <1>4, <1>10, ToldPutName
  <2>2. g = [f EXCEPT ![e] = <<Str(value), p>>]
    <3> HIDE DEF f, g
    <3> QED BY <1>5, <2>1
  <2>3. <<Str(value), p>> \in Account
    BY <1>4 DEF Account
  <2>4. Entries' = Table!With(Table!Without(Entries, <<n, p>>), <<Str(value), p>>)
    BY <1>9, <2>2, <2>3
  <2> QED BY <1>4, <1>8, <2>4
<1>11. CASE attr = 1
  <2>1. g = [f EXCEPT ![e] = <<@[1], Str(value)>>]
    BY <1>1, <1>3, <1>4, <1>11, ToldPutName
  <2>2. g = [f EXCEPT ![e] = <<n, Str(value)>>]
    <3> HIDE DEF f, g
    <3> QED BY <1>5, <2>1
  <2>3. <<n, Str(value)>> \in Account
    BY <1>4 DEF Account
  <2>4. Entries' = Table!With(Table!Without(Entries, <<n, p>>), <<n, Str(value)>>)
    BY <1>9, <2>2, <2>3
  <2> QED BY <1>4, <1>8, <2>4
<1> QED BY <1>10, <1>11

-----------------------------------------------------------------------------
(* The sessions, for Accounts: what one is told, until it ends. *)
Keeps == UNCHANGED <<st, reply, accounts>>
Leaves(a) ==
  /\ UNCHANGED accounts
  /\ \E s \in States \ {"REPLIES"} : st' = [st EXCEPT ![a] = s]
  /\ \E r \in {"none", "ok", "refused"} : reply' = [reply EXCEPT ![a] = r]

LEMMA SameEntries ==
  ASSUME UNCHANGED accounts
  PROVE  Entries' = Entries
BY DEF accounts, Entries, Entry

LEMMA KeepsAccounts ==
  ASSUME Keeps
  PROVE  UNCHANGED Table!avars
<1>1. Entries' = Entries /\ st' = st /\ reply' = reply
  BY SameEntries DEF Keeps
<1> QED BY <1>1 DEF Table!avars

LEMMA LeavesForgets ==
  ASSUME MngInv, NEW a \in Admin, Leaves(a)
  PROVE  Table!Forget(a)
<1>1. PICK s \in States \ {"REPLIES"} : st' = [st EXCEPT ![a] = s]
  BY DEF Leaves
<1>2. PICK r \in {"none", "ok", "refused"} : reply' = [reply EXCEPT ![a] = r]
  BY DEF Leaves
<1>3. st \in [Admin -> States] /\ reply \in [Admin -> {"none", "ok", "refused"}]
  BY DEF MngInv, TypeOK
<1>4. Entries' = Entries
  BY SameEntries DEF Leaves
<1>5. st'[a] # "REPLIES" /\ \A b \in Admin \ {a} : st'[b] = st[b] /\ reply'[b] = reply[b]
  BY <1>1, <1>2, <1>3
<1> QED BY <1>4, <1>5 DEF Table!Forget

LEMMA AnswersAnswered ==
  ASSUME MngInv, NEW a \in Admin, st[a] \in RequestStates, NEW ok \in BOOLEAN, Answers(a, ok)
  PROVE  Table!Answered(a, IF ok THEN "ok" ELSE "refused")
<1>1. st' = [st EXCEPT ![a] = "REPLIES"] /\ reply' = [reply EXCEPT ![a] = IF ok THEN "ok" ELSE "refused"]
  BY DEF Answers, Respond
<1>2. st \in [Admin -> States] /\ reply \in [Admin -> {"none", "ok", "refused"}]
  BY DEF MngInv, TypeOK
<1>3. st[a] # "REPLIES"
  BY TheRequestStates
<1>4. /\ st'[a] = "REPLIES" /\ reply'[a] = (IF ok THEN "ok" ELSE "refused")
      /\ \A b \in Admin \ {a} : st'[b] = st[b] /\ reply'[b] = reply[b]
  BY <1>1, <1>2
<1> QED BY <1>3, <1>4 DEF Table!Answered

LEMMA CloseLeaves ==
  ASSUME NEW a \in Admin, Close(a), UNCHANGED accounts
  PROVE  Leaves(a)
BY DEF Close, Leaves, States

LEMMA NotYetMaps ==
  ASSUME NEW a \in Admin, NotYet(a)
  PROVE  Keeps \/ Leaves(a)
<1>1. CASE Ended(a)
  BY <1>1, CloseLeaves DEF Ended, conf
<1>2. CASE Incomplete(a)
  <2>1. Keeps \/ (Close(a) /\ UNCHANGED accounts)
    BY <1>2 DEF Incomplete, Keeps, session, conf
  <2> QED BY <2>1, CloseLeaves
<1> QED BY <1>1, <1>2 DEF NotYet

LEMMA SendingMaps ==
  ASSUME NEW a \in Admin, SendFails(a) \/ \E n \in 1..left[a] : SendsPart(a, n)
  PROVE  Keeps \/ Leaves(a)
<1>1. CASE SendFails(a)
  BY <1>1, CloseLeaves DEF SendFails, conf
<1>2. ASSUME NEW n \in 1..left[a], SendsPart(a, n) PROVE Keeps
  BY <1>2 DEF SendsPart, Keeps, conf
<1> QED BY <1>1, <1>2

(* The handlers that are no command's. *)
LEMMA OtherHandlersMap ==
  ASSUME MngInv, NEW a \in Admin,
         ConnectRead(a) \/ ConnectWrite(a) \/ Request(a) \/ Replies(a) \/ Accept(a)
  PROVE  Keeps \/ Leaves(a)
<1>0. st \in [Admin -> States] /\ reply \in [Admin -> {"none", "ok", "refused"}]
  BY DEF MngInv, TypeOK
<1>0a. reply[a] \in {"none", "ok", "refused"} /\ reply = [reply EXCEPT ![a] = reply[a]]
  BY <1>0
<1>1. CASE ConnectRead(a)
  <2>1. CASE NotYet(a)
    BY <2>1, NotYetMaps
  <2>2. ASSUME NEW n, Respond(a, "CONNECT_WRITE", IF knows[a] THEN "ok" ELSE "refused", 1),
               UNCHANGED conf
        PROVE  Leaves(a)
    BY <2>2 DEF Respond, Leaves, States, conf
  <2> QED BY <1>1, <2>1, <2>2 DEF ConnectRead, NotYet
<1>2. CASE ConnectWrite(a)
  <2>1. CASE SendFails(a) \/ \E n \in 1..left[a] : SendsPart(a, n)
    BY <2>1, SendingMaps
  <2>2. CASE st' = [st EXCEPT ![a] = "REQUEST"] /\ reply' = reply /\ UNCHANGED conf
    BY <1>0a, <2>2 DEF Leaves, States, conf
  <2>3. CASE Close(a) /\ UNCHANGED conf
    BY <2>3, CloseLeaves DEF conf
  <2> QED BY <1>2, <2>1, <2>2, <2>3 DEF ConnectWrite
<1>3. CASE Request(a)
  <2>1. CASE NotYet(a)
    BY <2>1, NotYetMaps
  <2>2. ASSUME NEW s \in RequestStates \cup {"REQUEST"}, st' = [st EXCEPT ![a] = s],
               reply' = [reply EXCEPT ![a] = "none"], UNCHANGED conf
        PROVE  Leaves(a)
    <3>1. s \in States \ {"REPLIES"}
      BY TheRequestStates DEF States
    <3> QED BY <2>2, <3>1 DEF Leaves, conf
  <2>3. wire[a][1] \in Act => RequestState(wire[a][1]) \in RequestStates
    BY TheRequestStates
  <2>4. ASSUME ~NotYet(a)
        PROVE  \E s \in RequestStates \cup {"REQUEST"} :
                 /\ st' = [st EXCEPT ![a] = s]
                 /\ reply' = [reply EXCEPT ![a] = "none"] /\ UNCHANGED conf
    BY <1>3, <2>3, <2>4 DEF Request, NotYet
  <2> QED BY <2>1, <2>2, <2>4
<1>4. CASE Replies(a)
  <2>1. CASE SendFails(a) \/ \E n \in 1..left[a] : SendsPart(a, n)
    BY <2>1, SendingMaps
  <2>2. CASE Close(a) /\ UNCHANGED conf
    BY <2>2, CloseLeaves DEF conf
  <2> QED BY <1>4, <2>1, <2>2 DEF Replies
<1>5. CASE Accept(a)
  BY <1>0a, <1>5 DEF Accept, Leaves, States, conf
<1> QED BY <1>1, <1>2, <1>3, <1>4, <1>5

(* The commands, each by what it does to the table. *)
Does(a) ==
  \/ Table!Other(a) \/ Table!Refuse(a)
  \/ \E n, p \in Text :
       \/ Table!Add(a, n, p) \/ Table!Remove(a, n, p)
       \/ \E x \in Text : Table!Change(a, n, p, x, p) \/ Table!Change(a, n, p, n, x)

LEMMA Answering ==
  ASSUME MngInv, NEW a \in Admin, st[a] \in RequestStates, NEW ok \in BOOLEAN, Answers(a, ok),
         UNCHANGED accounts
  PROVE  Does(a)
<1>1. Entries' = Entries
  BY SameEntries
<1>2. Table!Answered(a, IF ok THEN "ok" ELSE "refused")
  BY AnswersAnswered
<1>3. CASE ok
  <2>1. Table!Answered(a, "ok")
    BY <1>2, <1>3
  <2> QED BY <1>1, <2>1 DEF Does, Table!Other
<1>4. CASE ~ok
  <2>1. Table!Answered(a, "refused")
    BY <1>2, <1>4
  <2> QED BY <1>1, <2>1 DEF Does, Table!Refuse
<1> QED BY <1>3, <1>4

LEMMA PutMaps ==
  ASSUME Full = {}, MngInv, NEW a \in Admin, st[a] \in RequestStates, NEW ok \in BOOLEAN, Answers(a, ok),
         NEW name \in Word \cup Long, NEW pass \in Password, AddUser(name, pass, ok)
  PROVE  Does(a)
<1>1. CASE ok
  <2>1. Table!Answered(a, "ok") /\ AccountsType
    BY <1>1, AnswersAnswered, TypeParts DEF MngInv, ConfType
  <2>2. PICK w \in Word : pass = <<w>>
    BY PasswordIsWord
  <2>2a. AddUser(name, <<w>>, TRUE)
    BY <1>1, <2>2
  <2>3. PICK n \in Text, p \in Text : /\ Table!Cardinality(Table!Copies) < Slots
                                      /\ Entries' = Table!With(Entries, <<n, p>>)
    BY <2>1, <2>2a, Adds
  <2>4. Table!Add(a, n, p)
    BY <2>1, <2>3 DEF Table!Add
  <2> QED BY <2>4 DEF Does
<1>2. CASE ~ok
  <2>1. UNCHANGED accounts
    BY <1>2 DEF AddUser
  <2> QED BY <2>1, Answering
<1> QED BY <1>1, <1>2

LEMMA DeleteMaps ==
  ASSUME Full = {}, MngInv, NEW a \in Admin, st[a] \in RequestStates, NEW ok \in BOOLEAN, Answers(a, ok),
         NEW name, DeleteUser(name, ok)
  PROVE  Does(a)
<1>1. CASE ok
  <2>1. Table!Answered(a, "ok") /\ AccountsType
    BY <1>1, AnswersAnswered, TypeParts DEF MngInv, ConfType
  <2>2. DeleteUser(name, TRUE)
    BY <1>1
  <2>3. PICK n \in Text, p \in Text : /\ Entries[<<n, p>>] > 0
                                      /\ Entries' = Table!Without(Entries, <<n, p>>)
    BY <2>1, <2>2, Removes
  <2>4. Table!Remove(a, n, p)
    BY <2>1, <2>3 DEF Table!Remove
  <2> QED BY <2>4 DEF Does
<1>2. CASE ~ok
  <2>1. UNCHANGED accounts
    BY <1>2 DEF DeleteUser
  <2> QED BY <2>1, Answering
<1> QED BY <1>1, <1>2

LEMMA EditMaps ==
  ASSUME Full = {}, MngInv, NEW a \in Admin, st[a] \in RequestStates, NEW ok \in BOOLEAN, Answers(a, ok),
         NEW name, NEW value, NEW attr \in {0, 1}, EditUser(name, value, attr, ok)
  PROVE  Does(a)
<1>1. CASE ok
  <2>1. Table!Answered(a, "ok") /\ AccountsType
    BY <1>1, AnswersAnswered, TypeParts DEF MngInv, ConfType
  <2>2. EditUser(name, value, attr, TRUE)
    BY <1>1
  <2>3. PICK n \in Text, p \in Text, m \in Text, q \in Text :
          /\ m = n \/ q = p
          /\ Entries[<<n, p>>] > 0
          /\ Entries' = Table!With(Table!Without(Entries, <<n, p>>), <<m, q>>)
    BY <2>1, <2>2, Changes
  <2>4. Table!Change(a, n, p, m, q)
    BY <2>1, <2>3 DEF Table!Change
  <2>5. CASE m = n
    BY <2>4, <2>5 DEF Does
  <2>6. CASE q = p
    BY <2>4, <2>6 DEF Does
  <2> QED BY <2>3, <2>5, <2>6
<1>2. CASE ~ok
  <2>1. UNCHANGED accounts
    BY <1>2 DEF EditUser, accounts
  <2> QED BY <2>1, Answering
<1> QED BY <1>1, <1>2

LEMMA HandleMaps ==
  ASSUME Full = {}, MngInv, NEW a \in Admin, Handle(a)
  PROVE  Keeps \/ Leaves(a) \/ Does(a)
<1>1. CASE ConnectRead(a) \/ ConnectWrite(a) \/ Request(a) \/ Replies(a)
  BY <1>1, OtherHandlersMap
<1>2. CASE NotYet(a)
  BY <1>2, NotYetMaps
<1>3. CASE (RequestGet(a) \/ RequestConfigStatus(a)) /\ ~NotYet(a)
  <2>1. st[a] \in RequestStates
    BY <1>3, TheRequestStates DEF RequestGet, RequestConfigStatus, Reads
  <2>2. Answers(a, TRUE) /\ UNCHANGED accounts
    BY <1>3 DEF RequestGet, RequestConfigStatus, conf
  <2> QED BY <2>1, <2>2, Answering
<1>4. CASE RequestPut(a) /\ ~NotYet(a)
  <2>1. st[a] \in RequestStates
    BY <1>4, TheRequestStates DEF RequestPut, Reads
  <2>2. PICK ok \in BOOLEAN, n \in Word \cup Long, p \in Password : AddUser(n, p, ok) /\ Answers(a, ok)
    BY <1>4 DEF RequestPut
  <2> QED BY <2>1, <2>2, PutMaps
<1>5. CASE RequestEdit(a) /\ ~NotYet(a)
  <2>1. st[a] \in RequestStates
    BY <1>5, TheRequestStates DEF RequestEdit, Reads
  <2>2. PICK ok \in BOOLEAN, n \in Word \cup Long, v \in Word \cup Long, attr \in {0, 1} :
          EditUser(n, v, attr, ok) /\ Answers(a, ok)
    BY <1>5 DEF RequestEdit
  <2> QED BY <2>1, <2>2, EditMaps
<1>6. CASE RequestDelete(a) /\ ~NotYet(a)
  <2>1. st[a] \in RequestStates
    BY <1>6, TheRequestStates DEF RequestDelete, Reads
  <2>2. PICK ok \in BOOLEAN, n \in Word \cup Long : DeleteUser(n, ok) /\ Answers(a, ok)
    BY <1>6 DEF RequestDelete
  <2> QED BY <2>1, <2>2, DeleteMaps
<1>7. CASE RequestBuffSize(a) /\ ~NotYet(a)
  <2>1. st[a] \in RequestStates
    BY <1>7, TheRequestStates DEF RequestBuffSize, Reads
  <2>2. UNCHANGED accounts /\ (Answers(a, TRUE) \/ Close(a))
    BY <1>7 DEF RequestBuffSize
  <2> QED BY <2>1, <2>2, Answering, CloseLeaves
<1> QED BY <1>1, <1>2, <1>3, <1>4, <1>5, <1>6, <1>7 DEF Handle

LEMMA StepMaps ==
  ASSUME Full = {}, MngInv, [Next]_vars
  PROVE  [Table!ANext]_(Table!avars)
<1>1. Keeps \/ \E a \in Admin : Leaves(a) \/ Does(a)
  <2>1. ASSUME NEW a \in Admin, Handle(a)
        PROVE  Keeps \/ Leaves(a) \/ Does(a)
    BY <2>1, HandleMaps
  <2>2. ASSUME NEW a \in Admin, Accept(a)
        PROVE  Keeps \/ Leaves(a)
    BY <2>2, OtherHandlersMap
  <2>3. ASSUME NEW a \in Admin, Speak(a) \/ HangUp(a)
        PROVE  Keeps
    BY <2>3 DEF Speak, HangUp, Keeps, session, conf
  <2>4. CASE UNCHANGED vars
    BY <2>4 DEF vars, session, conf, Keeps
  <2> QED BY <2>1, <2>2, <2>3, <2>4 DEF Next
<1>2. CASE Keeps
  BY <1>2, KeepsAccounts
<1>3. ASSUME NEW a \in Admin, Leaves(a) \/ Does(a)
      PROVE  Table!ANext
  BY <1>3, LeavesForgets DEF Does, Table!ANext
<1> QED BY <1>1, <1>2, <1>3

LEMMA InitMaps ==
  ASSUME Full = {}, Init
  PROVE  Table!AInit
<1>1. AccountsType /\ Slots \in Nat
  BY InitHolds, TypeParts, Numerals DEF MngInv, ConfType
<1>2. Entries \in [Table!Account -> 0..Slots] /\ Table!Cardinality(Table!Copies) <= Slots
  BY <1>1, CopiesHeld DEF Account, Table!Account, AccountsType
<1>3. \A a \in Admin : st[a] # "REPLIES"
  BY DEF Init
<1> QED BY <1>2, <1>3 DEF Table!AInit

(* With words that leave room for their terminator, the table is a number of
   accounts that are added, changed and removed one at a time, and who asked is
   told what was done (server_config.c and mng.c). *)
THEOREM MngImplementsAccounts == Full = {} => (Spec => ImplementsAccounts)
<1> SUFFICES ASSUME Full = {} PROVE Spec => ImplementsAccounts
  OBVIOUS
<1>1. Init => Table!AInit
  BY InitMaps
<1>2. MngInv /\ [Next]_vars => [Table!ANext]_(Table!avars)
  BY StepMaps
<1> QED BY <1>1, <1>2, MngInductive, PTL DEF Spec, ImplementsAccounts, Table!ASpec

-----------------------------------------------------------------------------
(* What a call of a handler does to its session, whichever it is: it ends it,
   takes units of the stream, with an answer or without, or sends. *)
EndsFor(a) ==
  /\ Close(a)
  /\ \/ UNCHANGED heard /\ (gone[a] \/ ~orderly[a] \/ st[a] = "REQUEST_BUFFSIZE")
     \/ st[a] = "CONNECT_WRITE" /\ Heard(a, "denied")
     \/ st[a] = "REPLIES" /\ Heard(a, reply[a])
TakesMore(a) ==
  /\ st[a] \in RequestStates \cup {"CONNECT_READ"}
  /\ \E n \in 1..Len(wire[a]) : Receives(a, n, "more") /\ Drop(a, n) /\ UNCHANGED <<session, client>>
TakesWhole(a) ==
  /\ \E n \in 1..Len(wire[a]) : Receives(a, n, "done") /\ Drop(a, n)
  /\ \E v \in {"ok", "refused"}, size \in 1..Pieces :
       \/ st[a] = "CONNECT_READ" /\ Respond(a, "CONNECT_WRITE", v, size)
       \/ st[a] \in RequestStates /\ Respond(a, "REPLIES", v, size)
  /\ UNCHANGED client
  /\ \A b \in Admin \ {a} : status'[b] = status[b]
Admits(a) ==
  /\ st[a] = "CONNECT_WRITE"
  /\ st' = [st EXCEPT ![a] = "REQUEST"]
  /\ interest' = [interest EXCEPT ![a] = "read"]
  /\ left' = [left EXCEPT ![a] = 0]
  /\ Heard(a, "welcome")
  /\ UNCHANGED <<status, reply, orderly, knows, said, gone, wire>>
Chooses(a) ==
  /\ st[a] = "REQUEST" /\ wire[a] # <<>>
  /\ \E s \in RequestStates \cup {"REQUEST"} : st' = [st EXCEPT ![a] = s]
  /\ wire[a][1] \in Act => st'[a] \in RequestStates
  /\ Drop(a, 1)
  /\ reply' = [reply EXCEPT ![a] = "none"]
  /\ UNCHANGED <<interest, status, left, client>>
Moves(a) ==
  \/ EndsFor(a) \/ TakesMore(a) \/ TakesWhole(a)
  \/ (\E n \in 1..left[a] : SendsPart(a, n)) \/ Admits(a) \/ Chooses(a)

LEMMA NotYetMoves ==
  ASSUME NEW a \in Admin, st[a] \in RequestStates \cup {"CONNECT_READ"}, NotYet(a)
  PROVE  EndsFor(a) \/ TakesMore(a)
<1>1. CASE Ended(a)
  BY <1>1 DEF Ended, Readable, EndsFor
<1>2. ASSUME NEW n \in 1..Len(wire[a]), Receives(a, n, "refused"), Close(a), UNCHANGED heard
      PROVE  EndsFor(a)
  <2>1. ~orderly[a]
    BY <1>2 DEF Receives, Verdicts
  <2> QED BY <1>2, <2>1 DEF EndsFor
<1>3. ASSUME NEW n \in 1..Len(wire[a]), Receives(a, n, "more"), Drop(a, n),
             UNCHANGED <<session, client>>
      PROVE  TakesMore(a)
  BY <1>3 DEF TakesMore
<1> QED BY <1>1, <1>2, <1>3 DEF NotYet, Incomplete

LEMMA AnswersMoves ==
  ASSUME NEW a \in Admin, st[a] \in RequestStates, Received(a), NEW ok, Answers(a, ok)
  PROVE  TakesWhole(a)
<1>1. /\ \E n \in 1..Len(wire[a]) : Receives(a, n, "done") /\ Drop(a, n)
      /\ Respond(a, "REPLIES", IF ok THEN "ok" ELSE "refused", Pieces)
      /\ UNCHANGED status /\ UNCHANGED client
  BY Zenon DEF Received, Answers
<1>2. (IF ok THEN "ok" ELSE "refused") \in {"ok", "refused"} /\ Pieces \in 1..Pieces
  BY Numerals
<1> QED BY <1>1, <1>2 DEF TakesWhole

LEMMA HandleMoves ==
  ASSUME MngInv, NEW a \in Admin, Handle(a)
  PROVE  Moves(a)
<1>1. CASE ConnectRead(a)
  <2>1. CASE NotYet(a)
    BY <1>1, <2>1, NotYetMoves DEF ConnectRead, Moves
  <2>2. ASSUME NEW n \in 1..Len(wire[a]), Receives(a, n, "done"), Drop(a, n),
               Respond(a, "CONNECT_WRITE", IF knows[a] THEN "ok" ELSE "refused", 1),
               status' = [status EXCEPT ![a] = IF knows[a] THEN @ ELSE "CLOSE"],
               UNCHANGED client, st[a] = "CONNECT_READ"
        PROVE  TakesWhole(a)
    <3>1. (IF knows[a] THEN "ok" ELSE "refused") \in {"ok", "refused"} /\ 1 \in 1..Pieces
      BY Numerals
    <3>2. \A b \in Admin \ {a} : status'[b] = status[b]
      BY <2>2 DEF MngInv, TypeOK
    <3> QED BY <2>2, <3>1, <3>2, Zenon DEF TakesWhole
  <2>3. \/ NotYet(a)
        \/ \E n \in 1..Len(wire[a]) :
             /\ Receives(a, n, "done") /\ Drop(a, n)
             /\ Respond(a, "CONNECT_WRITE", IF knows[a] THEN "ok" ELSE "refused", 1)
             /\ status' = [status EXCEPT ![a] = IF knows[a] THEN @ ELSE "CLOSE"]
             /\ UNCHANGED client
    BY <1>1, Zenon DEF ConnectRead, NotYet
  <2>4. st[a] = "CONNECT_READ"
    BY <1>1 DEF ConnectRead
  <2> QED BY <2>1, <2>2, <2>3, <2>4 DEF Moves
<1>2. CASE ConnectWrite(a)
  <2>1. CASE SendFails(a)
    BY <2>1 DEF SendFails, EndsFor, Moves
  <2>2. CASE \E n \in 1..left[a] : SendsPart(a, n)
    BY <2>2 DEF Moves
  <2>3. CASE Close(a) /\ Heard(a, "denied")
    BY <1>2, <2>3 DEF ConnectWrite, EndsFor, Moves
  <2>4. CASE ~SendFails(a) /\ ~(\E n \in 1..left[a] : SendsPart(a, n))
               /\ ~(Close(a) /\ Heard(a, "denied"))
    BY <1>2, <2>4, Zenon DEF ConnectWrite, Admits, Moves
  <2> QED BY <2>1, <2>2, <2>3, <2>4
<1>3. CASE Request(a)
  <2>1. CASE Ended(a)
    BY <2>1 DEF Ended, Readable, EndsFor, Moves
  <2>2. CASE ~Ended(a)
    <3>1. /\ st[a] = "REQUEST" /\ wire[a] # <<>> /\ Drop(a, 1)
          /\ reply' = [reply EXCEPT ![a] = "none"]
          /\ UNCHANGED <<interest, status, left, client>>
      BY <1>3, <2>2 DEF Request
    <3>2. PICK s \in IF wire[a][1] \in Act THEN {RequestState(wire[a][1])}
                     ELSE RequestStates \cup {"REQUEST"} : st' = [st EXCEPT ![a] = s]
      BY <1>3, <2>2 DEF Request
    <3>3. /\ s \in RequestStates \cup {"REQUEST"}
          /\ wire[a][1] \in Act => s \in RequestStates
      BY TheRequestStates
    <3>4. st'[a] = s
      BY <3>2 DEF MngInv, TypeOK
    <3> QED BY <3>1, <3>2, <3>3, <3>4, Zenon DEF Chooses, Moves
  <2> QED BY <2>1, <2>2
<1>4. CASE RequestGet(a) \/ RequestPut(a) \/ RequestEdit(a) \/ RequestConfigStatus(a)
             \/ RequestDelete(a)
  <2>1. st[a] \in RequestStates
    BY <1>4, TheRequestStates
       DEF RequestGet, RequestPut, RequestEdit, RequestConfigStatus, RequestDelete, Reads
  <2>2. NotYet(a) \/ (Received(a) /\ \E ok \in BOOLEAN : Answers(a, ok))
    BY <1>4 DEF RequestGet, RequestPut, RequestEdit, RequestConfigStatus, RequestDelete
  <2> QED BY <2>1, <2>2, NotYetMoves, AnswersMoves DEF Moves
<1>5. CASE RequestBuffSize(a)
  <2>1. st[a] = "REQUEST_BUFFSIZE" /\ st[a] \in RequestStates
    BY <1>5, TheRequestStates DEF RequestBuffSize, Reads
  <2>2. NotYet(a) \/ (Received(a) /\ Answers(a, TRUE)) \/ (Close(a) /\ UNCHANGED heard)
    BY <1>5, Zenon DEF RequestBuffSize
  <2>3. CASE Close(a) /\ UNCHANGED heard
    BY <2>1, <2>3 DEF EndsFor, Moves
  <2> QED BY <2>1, <2>2, <2>3, NotYetMoves, AnswersMoves DEF Moves
<1>6. CASE Replies(a)
  <2>1. CASE SendFails(a)
    BY <2>1 DEF SendFails, EndsFor, Moves
  <2>2. CASE \E n \in 1..left[a] : SendsPart(a, n)
    BY <2>2 DEF Moves
  <2>3. CASE Close(a) /\ Heard(a, reply[a])
    BY <1>6, <2>3 DEF Replies, EndsFor, Moves
  <2> QED BY <1>6, <2>1, <2>2, <2>3 DEF Replies
<1> QED BY <1>1, <1>2, <1>3, <1>4, <1>5, <1>6 DEF Handle

(* A call touches no session but its own. *)
Elsewhere(b) ==
  /\ st'[b] = st[b] /\ interest'[b] = interest[b] /\ reply'[b] = reply[b] /\ left'[b] = left[b]
  /\ orderly'[b] = orderly[b] /\ said'[b] = said[b] /\ wire'[b] = wire[b]
  /\ gone'[b] = gone[b] /\ heard'[b] = heard[b]

LEMMA MovesElsewhere ==
  ASSUME MngInv, NEW a \in Admin, Moves(a), NEW b \in Admin \ {a}
  PROVE  Elsewhere(b)
<1>1. SessionType /\ ClientType
  BY TypeParts DEF MngInv
<1> USE <1>1 DEF SessionType, ClientType, Elsewhere
<1>2. CASE EndsFor(a)
  BY <1>2 DEF EndsFor, Close, Heard
<1>3. CASE TakesMore(a)
  BY <1>3 DEF TakesMore, Drop, session, client
<1>4. CASE TakesWhole(a)
  BY <1>4 DEF TakesWhole, Drop, Respond, client
<1>5. CASE \E n \in 1..left[a] : SendsPart(a, n)
  BY <1>5 DEF SendsPart, client
<1>6. CASE Admits(a)
  BY <1>6 DEF Admits, Heard
<1>7. CASE Chooses(a)
  BY <1>7 DEF Chooses, Drop, client
<1> QED BY <1>2, <1>3, <1>4, <1>5, <1>6, <1>7 DEF Moves

(* Fewer units count for more than any reply. *)
LEMMA FewerUnits ==
  ASSUME NEW k \in Nat, NEW l \in Nat, k < l, NEW u \in 0..Pieces, NEW v \in Nat
  PROVE  (Pieces + 1) * k + u + 1 < (Pieces + 1) * l + v + 1
<1>1. Pieces \in Nat
  BY Numerals
<1>2. PICK e \in Nat : l = k + 1 + e
  <2>1. l - k - 1 \in Nat /\ l = k + 1 + (l - k - 1)
    OBVIOUS
  <2> QED BY <2>1
<1>3. (Pieces + 1) * (k + 1 + e) = (Pieces + 1) * k + (Pieces + 1) + (Pieces + 1) * e
  BY <1>1, <1>2
<1>4. (Pieces + 1) * e \in Nat /\ (Pieces + 1) * k \in Nat
  BY <1>1, <1>2
<1>5. (Pieces + 1) * l = (Pieces + 1) * k + (Pieces + 1) + (Pieces + 1) * e
  BY <1>2, <1>3
<1> DEFINE x == (Pieces + 1) * k
           y == (Pieces + 1) * l
           z == (Pieces + 1) * e
<1>6. x \in Nat /\ z \in Nat /\ y = x + (Pieces + 1) + z
  BY <1>4, <1>5
<1> HIDE DEF x, y, z
<1>7. x + u + 1 < y + v + 1
  BY <1>1, <1>6
<1> QED BY <1>7 DEF x, y

(* What is dropped from a stream. *)
LEMMA Dropped ==
  ASSUME MngInv, NEW a \in Admin, NEW n \in 1..Len(wire[a]), Drop(a, n)
  PROVE  /\ wire'[a] = SubSeq(wire[a], n + 1, Len(wire[a]))
         /\ wire[a] \in Seq(Unit) /\ wire'[a] \in Seq(Unit)
         /\ Len(wire'[a]) = Len(wire[a]) - n
         /\ \A i \in 1..Len(wire'[a]) : wire'[a][i] = wire[a][i + n]
<1>1. ClientType
  BY TypeParts DEF MngInv
<1>2. wire[a] \in Seq(Unit) /\ wire'[a] = SubSeq(wire[a], n + 1, Len(wire[a]))
  BY <1>1 DEF ClientType, Drop
<1> DEFINE w == wire[a]
<1>3. w \in Seq(Unit) /\ Len(w) \in Nat /\ n \in 1..Len(w)
  BY <1>2, LenProperties
<1> HIDE DEF w
<1>4. n + 1 \in Int /\ Len(w) \in Int /\ (IF n + 1 <= Len(w) THEN Len(w) - (n + 1) + 1 ELSE 0) = Len(w) - n
  BY <1>3
<1>5. \A i \in (n + 1)..Len(w) : w[i] \in Unit
  <2>1. \A i \in (n + 1)..Len(w) : i \in 1..Len(w)
    BY <1>3
  <2> QED BY <1>3, <2>1, ElementOfSeq
<1>6. /\ SubSeq(w, n + 1, Len(w)) \in Seq(Unit)
      /\ Len(SubSeq(w, n + 1, Len(w))) = Len(w) - n
      /\ \A i \in 1..Len(SubSeq(w, n + 1, Len(w))) :
           SubSeq(w, n + 1, Len(w))[i] = w[n + 1 + i - 1]
  BY <1>4, <1>5, SubSeqProperties
<1>7. \A i \in 1..(Len(w) - n) : n + 1 + i - 1 = i + n
  BY <1>3
<1> QED BY <1>2, <1>3, <1>6, <1>7 DEF w

LEMMA UnitsNat ==
  ASSUME NEW p \in Nat, NEW k \in Nat
  PROVE  (p + 1) * k \in Nat
OBVIOUS

LEMMA MovesUseUp ==
  ASSUME MngInv, NEW a \in Admin, st[a] # "none", Moves(a)
  PROVE  Outstanding(st'[a], wire'[a], left'[a]) < Outstanding(st[a], wire[a], left[a])
<1>1. /\ SessionType /\ ClientType /\ Consistent(a)
      /\ left[a] \in 0..Pieces /\ left[a] \in Nat /\ wire[a] \in Seq(Unit)
      /\ Len(wire[a]) \in Nat /\ Pieces \in Nat
  <2>1. SessionType /\ ClientType /\ Consistent(a)
    BY TypeParts DEF MngInv
  <2>2. left[a] \in 0..Pieces /\ wire[a] \in Seq(Unit)
    BY <2>1 DEF SessionType, ClientType
  <2> QED BY <2>1, <2>2, LenProperties, Numerals
<1>2. Outstanding(st[a], wire[a], left[a]) = (Pieces + 1) * Len(wire[a]) + left[a] + 1
  BY DEF Outstanding
<1>3. (Pieces + 1) * Len(wire[a]) \in Nat
  BY <1>1, UnitsNat
<1>4. CASE EndsFor(a)
  <2>1. Outstanding(st'[a], wire'[a], left'[a]) = 0
    BY <1>1, <1>4 DEF EndsFor, Close, SessionType, Outstanding
  <2> DEFINE x == (Pieces + 1) * Len(wire[a])
  <2>2. x \in Nat
    BY <1>3
  <2> HIDE DEF x
  <2>3. 0 < x + left[a] + 1
    BY <1>1, <2>2
  <2> QED BY <1>2, <2>1, <2>3 DEF x
<1>5. ASSUME NEW n \in 1..Len(wire[a]), Drop(a, n), left'[a] \in 0..Pieces, st'[a] # "none"
      PROVE  Outstanding(st'[a], wire'[a], left'[a]) < Outstanding(st[a], wire[a], left[a])
  <2>1. Len(wire'[a]) = Len(wire[a]) - n
    BY <1>5, Dropped
  <2>2. Len(wire'[a]) \in Nat /\ Len(wire'[a]) < Len(wire[a])
    BY <1>1, <2>1
  <2>3. (Pieces + 1) * Len(wire'[a]) + left'[a] + 1 < (Pieces + 1) * Len(wire[a]) + left[a] + 1
    BY <1>1, <1>5, <2>2, FewerUnits
  <2>4. Outstanding(st'[a], wire'[a], left'[a]) = (Pieces + 1) * Len(wire'[a]) + left'[a] + 1
    BY <1>5, Zenon DEF Outstanding
  <2> QED BY <1>2, <2>3, <2>4
<1>6. ASSUME wire'[a] = wire[a], left'[a] \in Nat, left'[a] < left[a], st'[a] # "none"
      PROVE  Outstanding(st'[a], wire'[a], left'[a]) < Outstanding(st[a], wire[a], left[a])
  <2>1. Outstanding(st'[a], wire'[a], left'[a]) = (Pieces + 1) * Len(wire[a]) + left'[a] + 1
    BY <1>6, Zenon DEF Outstanding
  <2> DEFINE x == (Pieces + 1) * Len(wire[a])
  <2>2. x \in Nat
    BY <1>3
  <2> HIDE DEF x
  <2>3. x + left'[a] + 1 < x + left[a] + 1
    BY <1>1, <1>6, <2>2
  <2> QED BY <1>2, <2>1, <2>3 DEF x
<1>7. CASE TakesMore(a)
  BY <1>1, <1>5, <1>7 DEF TakesMore, session
<1>8. CASE TakesWhole(a)
  <2>1. PICK n \in 1..Len(wire[a]) : Drop(a, n)
    BY <1>8 DEF TakesWhole
  <2>2. left'[a] \in 0..Pieces /\ st'[a] \in {"CONNECT_WRITE", "REPLIES"}
    BY <1>1, <1>8 DEF TakesWhole, Respond, SessionType
  <2> QED BY <1>5, <2>1, <2>2
<1>9. ASSUME NEW n \in 1..left[a], SendsPart(a, n)
      PROVE  Outstanding(st'[a], wire'[a], left'[a]) < Outstanding(st[a], wire[a], left[a])
  <2>1. /\ n \in 1..(left[a] - 1) /\ left' = [left EXCEPT ![a] = left[a] - n]
        /\ UNCHANGED st /\ UNCHANGED wire
    BY <1>9 DEF SendsPart
  <2>2. left'[a] = left[a] - n
    BY <1>1, <2>1 DEF SessionType
  <2>3. left'[a] \in Nat /\ left'[a] < left[a]
    BY <1>1, <2>1, <2>2
  <2> QED BY <1>6, <2>1, <2>3
<1>10. CASE Admits(a)
  <2>1. left[a] > 0
    BY <1>1, <1>10 DEF Admits, Consistent, Writing
  <2>2. left'[a] = 0 /\ st'[a] = "REQUEST" /\ wire'[a] = wire[a]
    BY <1>1, <1>10 DEF Admits, SessionType
  <2> QED BY <1>6, <2>1, <2>2
<1>11. CASE Chooses(a)
  <2>1. 1 \in 1..Len(wire[a])
    BY <1>1, <1>11, EmptySeq DEF Chooses
  <2>2. left'[a] \in 0..Pieces /\ Drop(a, 1)
    BY <1>1, <1>11 DEF Chooses
  <2>3. st'[a] # "none"
    BY <1>1, <1>11, TheStates DEF Chooses, SessionType
  <2> QED BY <1>5, <2>1, <2>2, <2>3
<1> QED BY <1>4, <1>7, <1>8, <1>9, <1>10, <1>11 DEF Moves


-----------------------------------------------------------------------------
(* What of an orderly client's stream was not received: a message from k on,
   of which the last unit is there once it has sent the whole. *)
Message(w, k, whole) ==
  /\ whole => Len(w) >= k
  /\ \A i \in k..Len(w) : w[i] = (IF whole /\ i = Len(w) THEN "last" ELSE "part")

(* A client that waits for the answer to its password before its command, in
   each of the states of its session. *)
InPace(state, sent, told, w, answer) ==
  /\ state = "CONNECT_READ" => sent \in 0..2 /\ told # "welcome" /\ Message(w, 1, sent = 2)
  /\ state = "CONNECT_WRITE" => sent = 2 /\ told # "welcome" /\ w = <<>>
  /\ state = "REQUEST" =>
       IF sent = 2 THEN w = <<>>
       ELSE sent \in 3..Whole /\ Len(w) >= 1 /\ w[1] \in Act /\ Message(w, 2, sent = Whole)
  /\ state \in RequestStates => sent \in 3..Whole /\ Message(w, 1, sent = Whole)
  /\ state = "REPLIES" => sent = Whole /\ w = <<>> /\ answer \in {"ok", "refused"}

Pace(a) ==
  /\ st[a] = "none" => said[a] = 0 /\ wire[a] = <<>> /\ ~gone[a]
  /\ orderly[a] /\ ~gone[a] => InPace(st[a], said[a], heard[a], wire[a], reply[a])

LEMMA MessageTaken ==
  ASSUME NEW w \in Seq(Unit), NEW whole \in BOOLEAN, NEW n \in 1..Len(w), Message(w, 1, whole)
  PROVE  /\ w[n] = "last" => whole /\ n = Len(w)
         /\ w[n] # "last" => (whole => n < Len(w))
<1>1. Len(w) \in Nat
  BY LenProperties
<1>2. w[n] = (IF whole /\ n = Len(w) THEN "last" ELSE "part")
  BY DEF Message
<1> QED BY <1>1, <1>2

LEMMA MessageDropped ==
  ASSUME NEW w \in Seq(Unit), NEW v \in Seq(Unit), NEW whole \in BOOLEAN, NEW n \in 1..Len(w),
         NEW k \in {1, 2}, Message(w, k, whole), whole => n < Len(w),
         Len(v) = Len(w) - n, \A i \in 1..Len(v) : v[i] = w[i + n]
  PROVE  Message(v, 1, whole)
<1>1. Len(w) \in Nat /\ Len(v) \in Nat
  BY LenProperties
<1>2. whole => Len(v) >= 1
  BY <1>1
<1>3. ASSUME NEW i \in 1..Len(v)
      PROVE  v[i] = (IF whole /\ i = Len(v) THEN "last" ELSE "part")
  <2>1. i + n \in k..Len(w) /\ (i + n = Len(w) <=> i = Len(v))
    BY <1>1
  <2>2. w[i + n] = (IF whole /\ i + n = Len(w) THEN "last" ELSE "part")
    BY <2>1 DEF Message
  <2>3. v[i] = w[i + n]
    OBVIOUS
  <2> QED BY <2>1, <2>2, <2>3
<1> QED BY <1>2, <1>3 DEF Message

LEMMA MessageGrows ==
  ASSUME NEW w \in Seq(Unit), NEW k \in {1, 2}, Len(w) >= k - 1, Message(w, k, FALSE),
         NEW whole \in BOOLEAN, NEW u, u = IF whole THEN "last" ELSE "part", u \in Unit
  PROVE  Message(Append(w, u), k, whole)
<1>1. /\ Len(w) \in Nat /\ Len(Append(w, u)) = Len(w) + 1
      /\ \A i \in 1..Len(w) : Append(w, u)[i] = w[i]
      /\ Append(w, u)[Len(w) + 1] = u
  BY LenProperties, AppendProperties
<1>2. ASSUME NEW i \in k..(Len(w) + 1)
      PROVE  Append(w, u)[i] = (IF whole /\ i = Len(w) + 1 THEN "last" ELSE "part")
  <2>1. CASE i = Len(w) + 1
    BY <1>1, <2>1
  <2>2. CASE i # Len(w) + 1
    <3>1. i \in k..Len(w) /\ i \in 1..Len(w)
      BY <1>1, <2>2
    <3>2. w[i] = "part"
      BY <3>1 DEF Message
    <3> QED BY <1>1, <2>2, <3>1, <3>2
  <2> QED BY <2>1, <2>2
<1>3. Len(w) + 1 >= k
  BY <1>1
<1> QED BY <1>1, <1>2, <1>3 DEF Message

(* A session that took part of a message, or the whole of one, or its first unit. *)
LEMMA MorePaced ==
  ASSUME MngInv, NEW a \in Admin, orderly[a], NEW n \in 1..Len(wire[a]), Receives(a, n, "more"),
         Drop(a, n), NEW whole \in BOOLEAN, Message(wire[a], 1, whole)
  PROVE  Message(wire'[a], 1, whole)
<1>1. wire[a][n] # "last"
  BY DEF Receives, Verdicts
<1>2. wire[a] \in Seq(Unit)
  BY Dropped
<1>3. whole => n < Len(wire[a])
  BY <1>1, <1>2, MessageTaken
<1>4. /\ wire'[a] \in Seq(Unit) /\ Len(wire'[a]) = Len(wire[a]) - n
      /\ \A i \in 1..Len(wire'[a]) : wire'[a][i] = wire[a][i + n]
  BY Dropped
<1> DEFINE w == wire[a]
           v == wire'[a]
<1>5. /\ w \in Seq(Unit) /\ v \in Seq(Unit) /\ n \in 1..Len(w) /\ Len(v) = Len(w) - n
      /\ \A i \in 1..Len(v) : v[i] = w[i + n]
      /\ Message(w, 1, whole) /\ (whole => n < Len(w)) /\ 1 \in {1, 2}
  BY <1>2, <1>3, <1>4
<1> HIDE DEF w, v
<1>6. Message(v, 1, whole)
  BY <1>5, MessageDropped, Zenon
<1> QED BY <1>6 DEF v

LEMMA WholePaced ==
  ASSUME MngInv, NEW a \in Admin, orderly[a], NEW n \in 1..Len(wire[a]), Receives(a, n, "done"),
         Drop(a, n), NEW whole \in BOOLEAN, Message(wire[a], 1, whole)
  PROVE  whole /\ wire'[a] = <<>>
<1>1. wire[a][n] = "last"
  BY DEF Receives, Verdicts
<1>2. wire[a] \in Seq(Unit) /\ wire'[a] \in Seq(Unit) /\ Len(wire'[a]) = Len(wire[a]) - n
  BY Dropped
<1>3. whole /\ n = Len(wire[a])
  BY <1>1, <1>2, MessageTaken
<1>4. Len(wire[a]) \in Nat
  BY <1>2, LenProperties
<1>5. Len(wire'[a]) = 0
  BY <1>2, <1>3, <1>4
<1> QED BY <1>2, <1>3, <1>5, EmptySeq

LEMMA ChoicePaced ==
  ASSUME MngInv, NEW a \in Admin, Drop(a, 1), NEW whole \in BOOLEAN, Len(wire[a]) >= 1,
         Message(wire[a], 2, whole)
  PROVE  Message(wire'[a], 1, whole)
<1>1. wire[a] \in Seq(Unit)
  BY TypeParts DEF MngInv, ClientType
<1>2. Len(wire[a]) \in Nat
  BY <1>1, LenProperties
<1>3. 1 \in 1..Len(wire[a]) /\ (whole => 1 < Len(wire[a]))
  BY <1>2 DEF Message
<1>4. /\ wire'[a] \in Seq(Unit) /\ Len(wire'[a]) = Len(wire[a]) - 1
      /\ \A i \in 1..Len(wire'[a]) : wire'[a][i] = wire[a][i + 1]
  BY <1>3, Dropped
<1> DEFINE w == wire[a]
           v == wire'[a]
<1>5. /\ w \in Seq(Unit) /\ v \in Seq(Unit) /\ 1 \in 1..Len(w) /\ Len(v) = Len(w) - 1
      /\ \A i \in 1..Len(v) : v[i] = w[i + 1]
      /\ Message(w, 2, whole) /\ (whole => 1 < Len(w)) /\ 2 \in {1, 2}
  BY <1>1, <1>3, <1>4
<1> HIDE DEF w, v
<1>6. Message(v, 1, whole)
  BY <1>5, MessageDropped, Zenon
<1> QED BY <1>6 DEF v

LEMMA MovesPaced ==
  ASSUME MngInv, NEW a \in Admin, st[a] # "none", Pace(a), Moves(a)
  PROVE  Pace(a)'
<1>1. SessionType /\ ClientType
  BY TypeParts DEF MngInv
<1> USE TheRequestStates
<1>2. CASE EndsFor(a)
  <2>1. st'[a] = "none" /\ said'[a] = 0 /\ wire'[a] = <<>> /\ gone'[a] = FALSE
    BY <1>1, <1>2 DEF EndsFor, Close, SessionType, ClientType
  <2> QED BY <2>1 DEF Pace, InPace
<1>3. CASE TakesMore(a)
  <2>1. PICK n \in 1..Len(wire[a]) : Receives(a, n, "more") /\ Drop(a, n)
    BY <1>3 DEF TakesMore
  <2>2. /\ st' = st /\ said' = said /\ heard' = heard /\ reply' = reply
        /\ orderly' = orderly /\ gone' = gone
        /\ st[a] \in RequestStates \cup {"CONNECT_READ"}
    BY <1>3 DEF TakesMore, session, client
  <2>3. ASSUME orderly[a], ~gone[a]
        PROVE  InPace(st[a], said[a], heard[a], wire'[a], reply[a])
    <3>1. CASE st[a] = "CONNECT_READ"
      <4>1. said[a] \in 0..2 /\ heard[a] # "welcome" /\ Message(wire[a], 1, said[a] = 2)
        BY <2>3, <3>1 DEF Pace, InPace
      <4>2. Message(wire'[a], 1, said[a] = 2)
        BY <2>1, <2>3, <4>1, MorePaced
      <4> QED BY <3>1, <4>1, <4>2, Zenon DEF InPace
    <3>2. CASE st[a] \in RequestStates
      <4>1. said[a] \in 3..Whole /\ Message(wire[a], 1, said[a] = Whole)
        BY <2>3, <3>2 DEF Pace, InPace
      <4>2. Message(wire'[a], 1, said[a] = Whole)
        BY <2>1, <2>3, <4>1, MorePaced
      <4> QED BY <3>2, <4>1, <4>2 DEF InPace
    <3> QED BY <2>2, <3>1, <3>2
  <2> QED BY <2>2, <2>3 DEF Pace
<1>4. CASE TakesWhole(a)
  <2>1. PICK n \in 1..Len(wire[a]) : Receives(a, n, "done") /\ Drop(a, n)
    BY <1>4 DEF TakesWhole
  <2>2. /\ said' = said /\ heard' = heard /\ orderly' = orderly /\ gone' = gone
        /\ reply'[a] \in {"ok", "refused"}
        /\ \/ st[a] = "CONNECT_READ" /\ st'[a] = "CONNECT_WRITE"
           \/ st[a] \in RequestStates /\ st'[a] = "REPLIES"
    BY <1>1, <1>4 DEF TakesWhole, Respond, client, SessionType
  <2>3. ASSUME orderly[a], ~gone[a]
        PROVE  InPace(st'[a], said[a], heard[a], wire'[a], reply'[a])
    <3>1. CASE st[a] = "CONNECT_READ" /\ st'[a] = "CONNECT_WRITE"
      <4>1. heard[a] # "welcome" /\ Message(wire[a], 1, said[a] = 2)
        BY <2>3, <3>1 DEF Pace, InPace
      <4>2. said[a] = 2 /\ wire'[a] = <<>>
        BY <2>1, <2>3, <4>1, WholePaced
      <4> QED BY <3>1, <4>1, <4>2 DEF InPace
    <3>2. CASE st[a] \in RequestStates /\ st'[a] = "REPLIES"
      <4>1. Message(wire[a], 1, said[a] = Whole)
        BY <2>3, <3>2 DEF Pace, InPace
      <4>2. said[a] = Whole /\ wire'[a] = <<>>
        BY <2>1, <2>3, <4>1, WholePaced
      <4> QED BY <2>2, <3>2, <4>2 DEF InPace
    <3> QED BY <2>2, <3>1, <3>2
  <2> QED BY <2>2, <2>3 DEF Pace
<1>5. CASE \E n \in 1..left[a] : SendsPart(a, n)
  BY <1>5 DEF SendsPart, client, Pace
<1>6. CASE Admits(a)
  <2>1. /\ st[a] = "CONNECT_WRITE" /\ st'[a] = "REQUEST" /\ said' = said /\ wire' = wire
        /\ orderly' = orderly /\ gone' = gone
    BY <1>1, <1>6 DEF Admits, SessionType
  <2>2. orderly[a] /\ ~gone[a] => said[a] = 2 /\ wire[a] = <<>>
    BY <2>1 DEF Pace, InPace
  <2> QED BY <2>1, <2>2 DEF Pace, InPace
<1>7. CASE Chooses(a)
  <2>1. /\ st[a] = "REQUEST" /\ wire[a] # <<>> /\ Drop(a, 1)
        /\ wire[a][1] \in Act => st'[a] \in RequestStates
        /\ st'[a] \in RequestStates \cup {"REQUEST"}
        /\ said' = said /\ orderly' = orderly /\ gone' = gone
    BY <1>1, <1>7 DEF Chooses, client, SessionType
  <2>2. ASSUME orderly[a], ~gone[a]
        PROVE  InPace(st'[a], said[a], heard'[a], wire'[a], reply'[a])
    <3>1. /\ said[a] \in 3..Whole /\ Len(wire[a]) >= 1 /\ wire[a][1] \in Act
          /\ Message(wire[a], 2, said[a] = Whole)
      BY <2>1, <2>2 DEF Pace, InPace
    <3>2. Message(wire'[a], 1, said[a] = Whole)
      BY <2>1, <3>1, ChoicePaced
    <3>3. st'[a] \in RequestStates
      BY <2>1, <3>1
    <3> QED BY <3>1, <3>2, <3>3 DEF InPace
  <2>3. st'[a] # "none"
    BY <2>1
  <2> QED BY <2>1, <2>2, <2>3 DEF Pace
<1> QED BY <1>2, <1>3, <1>4, <1>5, <1>6, <1>7 DEF Moves


LEMMA AcceptPaced ==
  ASSUME MngInv, NEW a \in Admin, Pace(a), Accept(a)
  PROVE  Pace(a)'
<1>1. SessionType /\ ClientType
  BY TypeParts DEF MngInv
<1>2. /\ st'[a] = "CONNECT_READ" /\ heard'[a] = "none" /\ said'[a] = 0 /\ wire'[a] = <<>>
  BY <1>1 DEF Accept, SessionType, ClientType, Pace
<1>3. Message(wire'[a], 1, said'[a] = 2)
  BY <1>2 DEF Message
<1> QED BY <1>2, <1>3, TheRequestStates DEF Pace, InPace

(* What an orderly client that is still there says next. *)
LEMMA SpeakPaced ==
  ASSUME MngInv, NEW a \in Admin, Pace(a), Speak(a)
  PROVE  Pace(a)'
<1>1. SessionType /\ ClientType
  BY TypeParts DEF MngInv
<1>2. PICK u \in NextUnits(a) : wire' = [wire EXCEPT ![a] = Append(@, u)]
  BY DEF Speak
<1>3. /\ st[a] # "none" /\ st' = st /\ heard' = heard /\ reply' = reply
      /\ orderly' = orderly /\ gone' = gone
      /\ said'[a] = said[a] + 1 /\ wire'[a] = Append(wire[a], u)
      /\ wire[a] \in Seq(Unit) /\ said[a] \in Nat
  BY <1>1, <1>2 DEF Speak, session, SessionType, ClientType
<1>4. Len(wire[a]) \in Nat
  BY <1>3, LenProperties
<1>5. ASSUME orderly[a], ~gone[a]
      PROVE  InPace(st[a], said[a] + 1, heard[a], Append(wire[a], u), reply[a])
  <2>1. /\ said[a] \in {0, 3} => u = "part"
        /\ said[a] \in {1, 4} => u = "last"
        /\ said[a] = 2 => u \in Act /\ heard[a] = "welcome"
        /\ said[a] \in 0..4
    BY <1>3, <1>5 DEF NextUnits
  <2>2. u \in Unit
    BY <2>1 DEF Unit
  <2>3. InPace(st[a], said[a], heard[a], wire[a], reply[a])
    BY <1>5 DEF Pace
  <2>10. /\ 1 \in {1, 2} /\ 2 \in {1, 2} /\ Len(wire[a]) >= 1 - 1
         /\ Len(wire[a]) >= 1 => Len(wire[a]) >= 2 - 1
         /\ \A x, y : (x = y) \in BOOLEAN
    BY <1>4
  <2>4. CASE st[a] = "CONNECT_READ"
    <3>1. said[a] \in 0..1 /\ heard[a] # "welcome" /\ Message(wire[a], 1, FALSE)
      BY <2>1, <2>3, <2>4 DEF InPace, Message
    <3>2. u = (IF said[a] + 1 = 2 THEN "last" ELSE "part")
      BY <2>1, <3>1
    <3>3. Message(Append(wire[a], u), 1, said[a] + 1 = 2)
      BY <1>3, <2>2, <2>10, <3>1, <3>2, MessageGrows, Zenon
    <3>4. said[a] + 1 \in 0..2
      BY <3>1
    <3> QED BY <2>4, <3>1, <3>3, <3>4, TheRequestStates DEF InPace
  <2>5. st[a] # "CONNECT_WRITE" /\ st[a] # "REPLIES"
    BY <2>1, <2>3 DEF InPace, Whole
  <2>6. CASE st[a] = "REQUEST" /\ said[a] = 2
    <3>1. wire[a] = <<>>
      BY <2>3, <2>6 DEF InPace
    <3>2. Append(wire[a], u) = <<u>>
      BY <3>1
    <3>3. /\ Len(Append(wire[a], u)) >= 1 /\ Append(wire[a], u)[1] \in Act
          /\ Message(Append(wire[a], u), 2, FALSE)
      BY <2>1, <2>6, <3>2 DEF Message
    <3>4. 2 + 1 \in 3..Whole /\ 2 + 1 # 2 /\ ~(2 + 1 = Whole)
      BY DEF Whole
    <3> QED BY <2>6, <3>3, <3>4, TheRequestStates DEF InPace
  <2>7. CASE st[a] = "REQUEST" /\ said[a] # 2
    <3>1. /\ said[a] \in 3..4 /\ Len(wire[a]) >= 1 /\ wire[a][1] \in Act
          /\ Message(wire[a], 2, FALSE)
      BY <2>1, <2>3, <2>7 DEF InPace, Whole, Message
    <3>2. u = (IF said[a] + 1 = Whole THEN "last" ELSE "part")
      BY <2>1, <3>1 DEF Whole
    <3>3. Message(Append(wire[a], u), 2, said[a] + 1 = Whole)
      BY <1>3, <2>2, <2>10, <3>1, <3>2, MessageGrows, Zenon
    <3>4. Len(Append(wire[a], u)) >= 1 /\ Append(wire[a], u)[1] \in Act
      BY <1>3, <1>4, <3>1, <2>2, AppendProperties
    <3>5. said[a] + 1 \in 3..Whole /\ said[a] + 1 # 2
      BY <3>1 DEF Whole
    <3> QED BY <2>7, <3>3, <3>4, <3>5, TheRequestStates DEF InPace
  <2>8. CASE st[a] \in RequestStates
    <3>1. said[a] \in 3..4 /\ Message(wire[a], 1, FALSE)
      BY <2>1, <2>3, <2>8 DEF InPace, Whole, Message
    <3>2. u = (IF said[a] + 1 = Whole THEN "last" ELSE "part")
      BY <2>1, <3>1 DEF Whole
    <3>3. Message(Append(wire[a], u), 1, said[a] + 1 = Whole)
      BY <1>3, <2>2, <2>10, <3>1, <3>2, MessageGrows, Zenon
    <3>4. said[a] + 1 \in 3..Whole
      BY <3>1 DEF Whole
    <3> QED BY <2>8, <3>3, <3>4, TheRequestStates DEF InPace
  <2>9. st[a] \in {"CONNECT_READ", "CONNECT_WRITE", "REQUEST", "REPLIES"} \cup RequestStates
    BY <1>1, <1>3, TheStates DEF SessionType, Reading, Writing
  <2> QED BY <2>4, <2>5, <2>6, <2>7, <2>8, <2>9
<1> QED BY <1>3, <1>5 DEF Pace

LEMMA HangUpPaced ==
  ASSUME MngInv, NEW a \in Admin, Pace(a), HangUp(a)
  PROVE  Pace(a)'
<1>1. gone'[a] /\ st[a] # "none" /\ st' = st
  BY TypeParts DEF MngInv, ClientType, HangUp, session
<1> QED BY <1>1 DEF Pace

(* Neither does a client of another session touch this one. *)
LEMMA ClientElsewhere ==
  ASSUME MngInv, NEW a \in Admin, Accept(a) \/ Speak(a) \/ HangUp(a), NEW b \in Admin \ {a}
  PROVE  Elsewhere(b)
<1>1. SessionType /\ ClientType
  BY TypeParts DEF MngInv
<1> USE <1>1 DEF SessionType, ClientType, Elsewhere
<1>2. CASE Accept(a)
  BY <1>2 DEF Accept
<1>3. CASE Speak(a)
  BY <1>3 DEF Speak, session
<1>4. CASE HangUp(a)
  BY <1>4 DEF HangUp, session
<1> QED BY <1>2, <1>3, <1>4

(* What a step is to a session: one of its own or of its client, or of another. *)
LEMMA StepIs ==
  ASSUME MngInv, [Next]_vars, NEW b \in Admin
  PROVE  \/ Elsewhere(b) /\ ~Handle(b)
         \/ Accept(b) \/ Speak(b) \/ HangUp(b)
         \/ Moves(b)
<1>1. CASE UNCHANGED vars
  BY <1>1, HandleMoves DEF Elsewhere, vars, session, client
<1>2. ASSUME NEW a \in Admin, Accept(a) \/ Handle(a) \/ Speak(a) \/ HangUp(a)
      PROVE  \/ Elsewhere(b) \/ Accept(b) \/ Speak(b) \/ HangUp(b) \/ Moves(b)
  <2>1. CASE a = b
    BY <1>2, <2>1, HandleMoves
  <2>2. CASE a # b
    <3>1. b \in Admin \ {a}
      BY <2>2
    <3>2. Moves(a) \/ Accept(a) \/ Speak(a) \/ HangUp(a)
      BY <1>2, HandleMoves
    <3> QED BY <3>1, <3>2, MovesElsewhere, ClientElsewhere
  <2> QED BY <2>1, <2>2
<1>3. Handle(b) => Moves(b)
  BY HandleMoves
<1> QED BY <1>1, <1>2, <1>3 DEF Next


LEMMA StepPaced ==
  ASSUME MngInv, \A a \in Admin : Pace(a), [Next]_vars
  PROVE  (\A a \in Admin : Pace(a))'
<1>1. ASSUME NEW b \in Admin
      PROVE  Pace(b)'
  <2>1. CASE Elsewhere(b)
    BY <2>1 DEF Elsewhere, Pace
  <2>2. CASE Moves(b)
    <3>1. CASE st[b] = "none"
      <4>1. wire[b] = <<>> /\ left[b] = 0 /\ ~gone[b]
        BY <3>1, TypeParts, TheStates DEF MngInv, SessionType, Consistent, Pace
      <4>2. Len(wire[b]) = 0 /\ 1..0 = {}
        BY <4>1
      <4>3. EndsFor(b)
        BY <2>2, <3>1, <4>1, <4>2, TheRequestStates
           DEF Moves, TakesMore, TakesWhole, Admits, Chooses
      <4>4. st'[b] = "none" /\ said'[b] = 0 /\ wire'[b] = <<>> /\ gone'[b] = FALSE
        BY <4>3, TypeParts DEF MngInv, EndsFor, Close, SessionType, ClientType
      <4> QED BY <4>4, TheRequestStates DEF Pace, InPace
    <3> QED BY <2>2, <3>1, MovesPaced
  <2> QED BY <2>1, <2>2, StepIs, AcceptPaced, SpeakPaced, HangUpPaced
<1> QED BY <1>1

LEMMA InitPaced == Init => \A a \in Admin : Pace(a)
BY TheRequestStates DEF Init, Pace, InPace

LEMMA PacesHeld == Spec => [](MngInv /\ \A a \in Admin : Pace(a))
<1>1. Init => MngInv /\ \A a \in Admin : Pace(a)
  BY InitHolds, InitPaced
<1>2. (MngInv /\ \A a \in Admin : Pace(a)) /\ [Next]_vars
        => (MngInv /\ \A a \in Admin : Pace(a))'
  BY StepKeeps, StepPaced
<1> QED BY <1>1, <1>2, PTL DEF Spec

(* The selector has an event for every session whose client ended, or has sent
   its whole command: in whatever pieces it came, the state it left the session
   in still watches for what is there. *)
THEOREM SessionsDue == Spec => []SessionDue
<1>1. ASSUME MngInv, \A a \in Admin : Pace(a)
      PROVE  SessionDue
  <2>1. ASSUME NEW a \in Admin, st[a] # "none", gone[a] \/ (orderly[a] /\ said[a] = Whole)
        PROVE  Ready(a)
    <3>1. SessionType /\ ClientType /\ Consistent(a) /\ Pace(a)
      BY <1>1, TypeParts DEF MngInv
    <3>2. st[a] \in Reading \/ st[a] \in Writing
      BY <2>1, <3>1, TheStates DEF SessionType
    <3>3. CASE st[a] \in Writing
      BY <3>1, <3>3 DEF Consistent, Ready, Writable
    <3>4. CASE st[a] \in Reading /\ gone[a]
      BY <3>1, <3>4 DEF Consistent, Ready, Readable
    <3>5. CASE st[a] \in Reading /\ ~gone[a]
      <4>1. InPace(st[a], Whole, heard[a], wire[a], reply[a])
        BY <2>1, <3>1, <3>5 DEF Pace
      <4>2. st[a] \in RequestStates \cup {"REQUEST"}
        BY <3>5, <4>1 DEF Reading, InPace, Whole
      <4>3. Len(wire[a]) >= 1
        BY <4>1, <4>2 DEF InPace, Whole, Message
      <4>4. wire[a] # <<>>
        BY <4>3
      <4> QED BY <3>1, <3>5, <4>4 DEF Consistent, Ready, Readable
    <3> QED BY <3>2, <3>3, <3>4, <3>5
  <2> QED BY <2>1 DEF SessionDue
<1> QED BY <1>1, PacesHeld, PTL

(* A client that ends its side leaves no less to do, and nothing more. *)
LEMMA HangUpLeaves ==
  ASSUME MngInv, NEW a \in Admin, st[a] # "none", HangUp(a)
  PROVE  LET before == Outstanding(st[a], wire[a], left[a])
             after == Outstanding(st'[a], wire'[a], left'[a])
         IN  after < before \/ ((Ready(a) => Ready(a)') /\ after = before)
<1>1. SessionType /\ ClientType
  BY TypeParts DEF MngInv
<1>2. /\ st' = st /\ left' = left /\ interest' = interest /\ gone'[a]
      /\ wire'[a] = wire[a] \/ wire'[a] = <<>>
      /\ wire[a] \in Seq(Unit) /\ left[a] \in 0..Pieces
  BY <1>1 DEF HangUp, session, SessionType, ClientType
<1>3. Ready(a) => Ready(a)'
  BY <1>2 DEF Ready, Readable, Writable
<1>4. CASE wire'[a] = wire[a]
  BY <1>2, <1>3, <1>4
<1>5. CASE wire'[a] = <<>> /\ wire[a] # <<>>
  <2>1. Len(wire[a]) \in Nat /\ 0 < Len(wire[a]) /\ Len(wire'[a]) = 0
    BY <1>2, <1>5, LenProperties, EmptySeq
  <2>2. left[a] \in Nat
    BY <1>2, Numerals
  <2>3. (Pieces + 1) * 0 + left[a] + 1 < (Pieces + 1) * Len(wire[a]) + left[a] + 1
    BY <1>2, <2>1, <2>2, FewerUnits
  <2>4. /\ Outstanding(st[a], wire[a], left[a]) = (Pieces + 1) * Len(wire[a]) + left[a] + 1
        /\ Outstanding(st'[a], wire'[a], left'[a]) = (Pieces + 1) * 0 + left[a] + 1
    BY <1>2, <2>1, Zenon DEF Outstanding
  <2> QED BY <2>3, <2>4
<1> QED BY <1>2, <1>4, <1>5

(* No session keeps the selector busy, and none is kept from its turn: what a
   handler is called for gets less with every call, only the client adds to it,
   and no other session or client takes away the event that is due. *)
THEOREM SessionsDrawNearer == Spec => SessionDrawsNearer
<1>1. ASSUME MngInv, [Next]_vars, NEW a \in Admin, st[a] # "none"
      PROVE  LET before == Outstanding(st[a], wire[a], left[a])
                 after == Outstanding(st'[a], wire'[a], left'[a])
             IN  /\ Handle(a) => after < before
                 /\ \/ after < before
                    \/ (Ready(a) => Ready(a)') /\ (after = before \/ said'[a] > said[a])
  <2>1. Moves(a) => Outstanding(st'[a], wire'[a], left'[a]) < Outstanding(st[a], wire[a], left[a])
    BY <1>1, MovesUseUp
  <2>2. CASE Moves(a)
    BY <2>1, <2>2
  <2>3. ~Moves(a) => ~Handle(a)
    BY <1>1, HandleMoves
  <2>4. CASE Elsewhere(a)
    BY <2>1, <2>3, <2>4, Zenon DEF Elsewhere, Ready, Readable, Writable
  <2>5. CASE Speak(a)
    <3>1. SessionType /\ ClientType
      BY <1>1, TypeParts DEF MngInv
    <3>2. PICK u \in NextUnits(a) : wire' = [wire EXCEPT ![a] = Append(@, u)]
      BY <2>5 DEF Speak
    <3>3. /\ said'[a] = said[a] + 1 /\ said[a] \in Nat /\ interest' = interest /\ gone' = gone
          /\ wire'[a] = Append(wire[a], u) /\ wire[a] \in Seq(Unit)
      BY <2>5, <3>1, <3>2 DEF Speak, session, ClientType
    <3>4. wire'[a] # <<>>
      BY <3>3
    <3>5. Ready(a) => Ready(a)'
      BY <3>3, <3>4 DEF Ready, Readable, Writable
    <3>6. said'[a] > said[a]
      BY <3>3
    <3> QED BY <2>1, <2>3, <3>5, <3>6, Zenon
  <2>6. CASE HangUp(a)
    <3>1. LET before == Outstanding(st[a], wire[a], left[a])
              after == Outstanding(st'[a], wire'[a], left'[a])
          IN  after < before \/ ((Ready(a) => Ready(a)') /\ after = before)
      BY <1>1, <2>6, HangUpLeaves
    <3> QED BY <2>1, <2>3, <3>1, Zenon
  <2>7. ~Accept(a)
    BY <1>1 DEF Accept
  <2> QED BY <1>1, <2>2, <2>4, <2>5, <2>6, <2>7, StepIs
<1>2. MngInv /\ [Next]_vars =>
        [\A a \in Admin : st[a] # "none" =>
           LET before == Outstanding(st[a], wire[a], left[a])
               after == Outstanding(st'[a], wire'[a], left'[a])
           IN  /\ Handle(a) => after < before
               /\ after < before \/ ((Ready(a) => Ready(a)') /\ (after = before \/ said'[a] > said[a]))
        ]_vars
  BY <1>1
<1> QED BY <1>2, MngInductive, PTL DEF Spec, SessionDrawsNearer

(* An orderly client that sent its command and stays is answered before its
   session ends: no other client, and nothing in the handlers, ends it first. *)
THEOREM AnsweredAtEnd == Spec => EndsAnswered
<1>1. ASSUME MngInv, \A a \in Admin : Pace(a), [Next]_vars,
             NEW a \in Admin, Commanded(a), ~gone[a], st'[a] = "none"
      PROVE  st[a] = "REPLIES" /\ heard'[a] \in {"ok", "refused"}
  <2>1. SessionType /\ ClientType
    BY <1>1, TypeParts DEF MngInv
  <2>2. st[a] # "none" /\ orderly[a] /\ said[a] = Whole /\ st[a] # "REQUEST_BUFFSIZE"
    BY <1>1 DEF Commanded
  <2>3. InPace(st[a], said[a], heard[a], wire[a], reply[a])
    BY <1>1, <2>2 DEF Pace
  <2>4. ~Elsewhere(a) /\ ~Accept(a) /\ ~Speak(a) /\ ~HangUp(a)
    BY <1>1, <2>2 DEF Elsewhere, Accept, Speak, HangUp, session
  <2>5. Moves(a)
    BY <1>1, <2>4, StepIs
  <2>6. EndsFor(a)
    BY <1>1, <2>1, <2>2, <2>5, TheRequestStates
       DEF Moves, TakesMore, TakesWhole, Respond, SendsPart, Admits, Chooses, session, SessionType
  <2>7. st[a] = "CONNECT_WRITE" => FALSE
    BY <2>2, <2>3 DEF InPace, Whole
  <2>8. st[a] = "REPLIES" /\ Heard(a, reply[a])
    BY <1>1, <2>2, <2>6, <2>7 DEF EndsFor
  <2> QED BY <2>1, <2>3, <2>8 DEF InPace, Heard, ClientType
<1>2. (MngInv /\ \A a \in Admin : Pace(a)) /\ [Next]_vars =>
        [\A a \in Admin : Commanded(a) /\ ~gone[a] /\ st'[a] = "none"
           => st[a] = "REPLIES" /\ heard'[a] \in {"ok", "refused"}]_vars
  BY <1>1
<1> QED BY <1>2, PacesHeld, PTL DEF Spec, EndsAnswered
=============================================================================
