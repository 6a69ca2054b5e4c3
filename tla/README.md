# A TLA+ development of tp-socks5-proxy

The repository is a SOCKSv5 proxy in C with an administration protocol
("Wannapprove"), written as one non-blocking loop around `pselect()`, plus
one detached thread for each domain name being resolved. This directory holds
TLA+ models of it, the TLC runs that check them on small instances, and
theorems about them that TLAPS proves for every value of the constants.

* [Inventory](#inventory) of the system
* [Modules](#modules) and how they correspond to the code
* [Runs](#runs): what is checked, with which bounds
* [Fairness](#fairness)
* [Theorems](#theorems) and how they are proved
* [What the code does that its documents do not say](#findings)
* [Assumptions and limits](#assumptions-and-limits)
* [Plan](#plan)

Source paths below are relative to the repository; line numbers refer to the
commit that is modelled.

## Inventory

| component | files | state | operations | meets |
|---|---|---|---|---|
| selector | `src/selector.c` | table of items (fd, interest, handlers), master and slave fd sets, list of jobs under a mutex | register, unregister, set_interest, select, notify_block | calls the handlers of every session; handlers call back into it; resolver threads call notify_block |
| state machine engine | `src/stm.c` | current state | handler_read / write / block, jump | called by the session handlers, calls the state's own handler; aborts when there is none |
| session | `src/socks5*.c` | `struct socks5`: state, parsers, status, server address list, two descriptors, two buffers, toFree | accept, nine states, done, close | selector, configuration (read), metrics, parsers, resolver thread |
| tunnel | `src/socks5_copy.c` | interests of both descriptors, both buffers | copy_read, copy_write | the session's last state |
| buffer | `src/buffer.c` | data, read, write, limit | write_ptr/adv, read_ptr/adv, compact, reset | every session, every parser |
| parsers | `src/parsers/*.c` | a state and the fields read so far | feed, consume, marshall | the sessions |
| administration session | `src/mng.c`, `src/mng_handler.c` | state, parser, two buffers | accept, connect, command, reply | selector, configuration (write), metrics |
| configuration | `src/server_config.c` | users table, buffer size, authentication and sniffing switches | add, edit, delete, set, get | sessions read it at several moments |
| metrics | `src/metrics.c` | counters | add_connection, end_connection, byte counters | sessions, administration |
| sniffer | `src/pop3_sniffer.c` | an automaton for each connection, list of results | pop3sniff | tunnel |
| main | `src/server.c` | done flag | set-up, loop, shutdown | selector |
| list, logging, helpers, arguments | `src/listgeneric.c`, `src/conn_logger.c`, `src/logger.c`, `src/netutils.c`, `src/args.c` | | | |
| administration client | `management_protocol/` | a separate program | | the protocol |

What is hard about it, and what makes each part correct:

* **session** - Every state sets the interests of two descriptors by hand; an
  event that its state does not handle aborts the process. The resolver thread
  writes the struct without a lock. The struct belongs to two selector items,
  and a counter (`toFree`) decides which close frees it; each retry of an
  address closes one descriptor more. The settings the administrator changes
  are read more than once in a negotiation. Correct means: no unhandled event,
  the struct untouched while the thread has it, freed once and after its last
  use, no request without the authentication asked for, no success reported
  that is not one, and every complete request answered.
* **tunnel** - Reading from one side is stopped by the other side being slow,
  through the buffers: correct means no byte lost, repeated or reordered, and
  never both sides waiting.
* **buffer** - `R <= W <= limit` and first in, first out across compactions.
* **selector** - Handlers change the table while the result of one `pselect()`
  is walked, and descriptor numbers are reused at once. Correct means an event
  is delivered only to the registration it was reported for.
* **administration session** - The password and the command of a session are
  read from the same buffer by different parsers, interests are set by hand, a
  command has several steps and may fail between them. Correct means: nothing
  changes but by a client that had the password, every command is answered, and
  a client that goes is noticed.
* **configuration** - The table of users is an array of C strings that `strcpy`
  moves about, with limits tested before each insertion. Correct means it holds
  the accounts the administrators were told of.
* **parsers** - A message comes in pieces of any size, with bytes of the next one
  behind it. Correct means the verdict and the payloads do not depend on the
  cuts, and nothing behind the message is taken.
* **sniffer** - It sees every byte twice and has to find its place again after a
  refusal. Correct means a login is listed once, if and only if it was accepted.
* **metrics** - Counters changed in different files must stay in step.

## Modules

### Socks5 - the life of a proxied connection

`Socks5.tla` models `socks5.c`, `socks5_hello.c`, `socks5_auth.c` and
`socks5_request.c`, with what they use of the selector and of `stm.c`. An
element of `Conns` is one accepted connection; it is never used again.

| variable | code |
|---|---|
| `socks[c]` | `struct socks5`: `st` the state of the machine; `method` and `auth` the outcome of the negotiation; `status` the `enum socks_response_status`, with all failures as one value; `small` whether its buffers hold a reply; `got` and `used`, how far `recv()` and the parsers are in the client's stream; `wb`, how much of a reply is left in `write_buffer` |
| `dns[c]` | `server_resolution` (`n` addresses), `current_server_resolution` (`cur`), the address last copied (`dial`), and the thread: running, its notification queued, or lost |
| `fds[c]` | the selector item of `client_fd` (`cli`), `final_server_fd` and its item (`srv`), `toFree`, and how often the struct was freed |
| `net[c]` | what the client will say (`script`), how much it has sent, how its end of the connection is, and what became of the attempt to connect |
| `auth_enabled`, `users`, `small` | `server_conf` |
| `current`, `historic` | `metrics.c` |
| `proc` | "aborted" once the code calls `abort()` |
| `known`, `admin` | history: credentials ever valid; a counter that bounds the administrator's changes |

Each handler is one action: `HelloRead`, `HelloWrite`, `AuthRead`, `AuthWrite`,
`RequestRead` (with `request_process`), `ResolvDone`, `RequestConnecting`,
`RequestWrite`, and `CopyEnd` for the two ways `copy_read` and `copy_write`
leave COPY. `Connect` is `request_connect` with its recursion over the
remaining addresses. Each ends in `Enter`, which is `jump()` of `stm.c`
followed by what `socks5_read/write/block` do with DONE and ERROR: count off
the connection, unregister and close both descriptors, in that order, through
`HandleClose` (`socks5_close`). The rest are the resolver thread, the client,
the final server and the administrator.

Bytes are counted, not represented: a client's stream is a hello, perhaps a
user/password message, and a request, in `HelloLen`, `AuthLen` and `RequestLen`
pieces; a reply leaves in up to `ReplyLen` pieces, so that short reads and
short writes are all there. What can go wrong outside the program is listed in
`EnvFaults`, and each run says in `Env` which of it may.

`Proxy.tla` is the abstract specification: a connection is negotiated, asks,
is granted or denied, and only a granted one is relayed; the count of tunnels
goes up with a grant and down with the end of a relay. `Socks5` implements it
under the mapping `ProxyView`.

### Buffer, Queue and Fifo - the memory between two sockets

`Buffer.tla` holds `buffer.c` as operators: a buffer is its memory (`data`, a
function on offsets) and the positions `read` and `write`; `Limit` is
`limit - data`. A caller gets a pointer and a size, moves at most that many
bytes and advances the pointer inside one handler, so those three calls are one
operator: `Write`, `Peek` with `ReadAdv`. `Compact` runs when reading meets
writing, as `buffer_read_adv` calls it.

`Fifo.tla` is one buffer and every way it is called: blocks, single bytes,
`buffer_compact`, `buffer_reset`. `Queue.tla` is what it promises, a bounded
first-in first-out queue that may be emptied; `Fifo` implements it with
`Contents` as the items.

### Tunnel - the state COPY

`Tunnel.tla` models `socks5_copy.c` between the two peers. Bytes are pairs of
who sent them and their number, so that a lost, repeated, reordered or
reflected byte shows.

| variable | code |
|---|---|
| `st` | COPY, or DONE when a handler ended the tunnel |
| `buf[s]` | `read_buffer` (`s = "client"`) and `write_buffer` (`"server"`) |
| `interest[s]` | the interests of the selector item of each descriptor |
| `sent`, `got`, `end` | what each peer sent, how much of it `recv()` returned, and the state of its socket |
| `out[s]` | what `send()` took for each peer |
| `sent_byte`, `received_bytes` | `metrics.c`; `GetReceivedBytes` is what an administrator is answered of them |

`CopyRead` and `CopyWrite` are `copy_read` and `copy_write`, each with the
`copy_determine_interests` calls that end it; `PeerSend` and `PeerEnd` are the
two programs at the ends. It starts as `request_write` leaves things: OP_READ on both
descriptors, `write_buffer` empty, and in `read_buffer` whatever the client
sent behind its request (`Early` bytes, at any offset). `copy_data.interest` is
left out because only branches that return DONE take anything from it, and the
sniffer only looks at the bytes.

The COPY of `Socks5` and of `Tunnel` meet at two points: `Socks5!Enter` into COPY
sets the interests `Tunnel!Init` has, and `Socks5!CopyEnd` happens where
`Tunnel!Close` does. In between `Socks5` does not look at the bytes and
`Tunnel` does not look at the struct.

### Selector - one iteration, and the threads

`Selector.tla` models `selector.c` under the handlers of the proxy, reduced to
the calls they make: a listening socket that accepts, and sessions that set
interests, start a lookup, open the connection to their server and close what
they have.

| variable | code |
|---|---|
| `sel` | `struct fdselector`: the items (registration, owner, interest), `max_fd`, `master_r`, `master_w` |
| `open` | the descriptors the kernel has open for the process; it gives the lowest free one |
| `pc`, `at`, `event`, `last`, `slave` | where the thread is: in the loop of `server.c`, in `pselect`, at which descriptor of `handle_iteration`, in `handle_block_notifications` |
| `jobs`, `todo`, `signal` | `resolution_jobs`, what is left of it while it is handled, and the signal that is blocked outside `pselect` |
| `lookups`, `resolving`, `server` | the resolver threads, the sessions waiting for one, and `final_server_fd` of each |
| `done` | SIGTERM or SIGINT came |
| `gens`, `reported` | history: registrations are numbered, and what the last `pselect` reported is kept with the registration it was reported for |

`selector_select` is split where another thread or the kernel can come in
between: `Select` (with the copies of the sets) or `Interrupted`, `Handle` and
`NoEvent` for each descriptor and event, `Lock`, `HandleJob` and `Unlock`. A
resolver thread is `Push` and `Notify`, the two halves of
`selector_notify_block`. The table's growth by reallocation is left out: a
descriptor beyond it is refused at `ITEMS_MAX_SIZE`.

### Mng and Accounts - the administrators and the configuration

`Mng.tla` models `mng.c`, `mng_handler.c` and the part of `server_config.c` that
changes something. A message is a sequence of units, the last of which
completes it; which bytes those are is for `Wire`. An orderly client waits for
the answer to its password and sends one command; of what another client
sends nothing is known, and the parsers may make anything of it.

| variable | code |
|---|---|
| `st`, `interest`, `status` | the state of `struct mng`, the interest of its descriptor, and `status` |
| `reply`, `left` | `write_buffer`, and how much of it is to be sent |
| `orderly`, `knows`, `said`, `wire`, `gone`, `heard` | the client: its manners, whether it has the password, what it has sent, what of it was not received, whether it ended or was reset, and the reply it has whole |
| `users`, `users_size` | the table, as the fields name, pass, name, pass, ... that lie behind each other in memory |
| `auth`, `sniff`, `bufsize` | the other settings |
| `past` | whether a `strcpy` wrote behind the table, where `users_size` lies |

`Strcpy` and `StringAt` are what `strcpy` and `strcmp` do on those fields: a
word that fills its field has no terminator there, and runs on into the next. A
password (`Password`) is a sequence of words, the last of which alone may leave
room: nothing measures it, so that it may be longer than its field. `Spills` and
`Fields` say how many fields a string takes with its terminator, `Fits` whether
those are in the table; what does not fit is written behind it, and `past` says
so. No command is followed after that, since what lies there is no longer what
the program put there: that it does not happen is `InTable`.
`Accounts.tla` is what the table promises: of each account there is a number, and
one account at a time is added, changed or removed, with the answer that says
so; `Mng` implements it, the entries of the table being counted (`Entries`).

### Wire and WireGrammar - the bytes of both protocols

`Wire.tla` has the ten parsers of `src/parsers`, each as one operator from a
struct and a byte to the next struct; steps that are the same code in several of them (a byte with
a meaning, a byte that tells a length, a byte of an array) are one operator.
`kind` says which of them a behaviour is about, `buff` is the read buffer of its
session, and `Consume` runs it over what is there, as each `*_consume` does:
`Step` is a turn of that loop, and `Consumed` is where the last one ends. An
array has `ArraySize` bytes, 255 in the code, and a text may have as many: then
the zero that ends it is written behind the array, on the member of the struct
that follows. That is the length of the text that comes next, which is not in
yet, the field, which is not read again, or, behind the last array, what was
told (`Terminated`, `StoreLast`).
`WireGrammar.tla` says what the messages look like, part by part, and states what
the parsers owe it. Its bytes are those the headers declare and not those the
parsers test: where the two differ, in the commands 2 and 4 of a request
(`OtherCommand`) and a name of no bytes (`EmptyName`), the properties have an
exception by that name. A layout is a sequence of
parts; `Ends` says where each of them ends in the bytes there are, and the
`Verdict` and the `Payloads` of a message follow from it. `RequestReply` is
`request_marshalll`; `FourBytesToNum` and `NumToFourBytes` are the two
conversions a buffer size goes through.

### Sniffer - passwords seen in passing

`Sniffer.tla` models `pop3_sniffer.c`, the list it fills and the pages of that
list `get_pop3_pass` gives. The tunnel around it is a client and a server that
speak POP3 in turns; a line is received at once and passed on in pieces, and
`Sniff` is called for both, as `copy_read` and `copy_write` call `pop3sniff`.
The server answers with a keyword and any text behind it (`Remarks`), refuses
names (`RefusesUser`) and passwords, and after a login both say what they like
(`Talks`). Sniffing may be turned on and off between two tunnels.

| variable | code |
|---|---|
| `sniffer` | `struct pop3_sniffer` of the tunnel |
| `enabled` | `disectors_enabled` |
| `list`, `iter` | the list, and `iteradorNext`, as the number of entries from there on |
| `line`, `taken`, `passed`, `turn`, `user`, `pass` | the dialogue: the line said, how much of it was received and passed on, who is next, and the last name and password sent |
| `accepted`, `tries` | history: what the servers accepted since `before`, and the bound on passwords and talk |
| `shown`, `page` | history: what was shown since the iterator was at the first, and how much of it by the replies before the last one |
| `plain`, `before` | history: whether nothing said in this tunnel can be taken for another thing, and how much was listed by the end of the last tunnel that was not so |

The automaton looks for keywords in all that passes, the text of an answer
included, and does not look at the answer to a name. So it lists pairs nobody
sent when a server says `-ERR invalid user or password`, or when a name is
refused (see [Findings](#findings)). `Finds` and `Spells` say when a text can be
taken for another thing: it has `USER ` in it where a name is looked for, `PASS `
where a password is, or the line with the password spells an answer. A tunnel is
`plain` as long as that has not happened and no name was refused; what the
properties say of the list is about plain tunnels, and `OnlyAccepted` is the same
without that exception. In the dialogues TLC explores there are tunnels of both
kinds, one after the other.

`GetPop3Pass` is the loop of `get_pop3_pass`: an entry is taken as long as a byte
of the reply is left, its texts are cut where the room ends (`Fit`) while their
separators are written regardless (`Behind`), and the iterator goes past it
(`EntryEnd`). `Written` is what the reader finds of an entry that begins behind
so many bytes.

## Runs

| run | instance | what it shows |
|---|---|---|
| `Socks5One` | one client that may say anything (all 48 scripts), all faults, up to three addresses, two changes by the administrator | type invariant; no event without a handler; the resolver alone with the struct; no request without authentication; no false success; struct freed once and not used afterwards, and given back, with the exceptions the properties name |
| `Socks5Two` | two clients, a limit of one connection, resets, one change by the administrator | the metric equals the number of connections told of success whose tunnel did not end; refinement of `Proxy` |
| `Socks5Live` | one client that may say anything, resets, two addresses | under fair handlers, a client that said all it had to is served or disconnected |
| `Fifo` | a buffer of four cells, two byte values, any calls in any order | pointers in order; refinement of `Queue` |
| `Tunnel` | buffers of three, up to five bytes each way, two of them early, resets | no byte lost, repeated or reordered; the traffic counters agree with the bytes; the tunnel ends only for a reason; every byte arrives or the tunnel ends |
| `Selector` | four descriptors of which the table takes three, three registrations, a resolver thread for each session, refused connections, the end of the program | sets and bound follow the items; no descriptor lost; a job finds the session that asked and each gets one; every report seen; every lookup told |
| `Mng` | one client after another, orderly or not, with the password or without, a table of three with no user, one, or one without name and password on the command line, names that fit and one that does not, a size that is positive and one that is not | no event without a handler; changes only by who had the password, and silent only for a size; the table is the bag of accounts; every command answered; every end noticed |
| `Wire` | each of the ten parsers, up to nine bytes from those that matter to it, in pieces, arrays of two bytes that a text may fill, all four commands and names of no bytes | the verdict of the grammar, but for the two exceptions named, reached as soon as it can be and without taking more; the payloads; the size read back; the reply that echoes |
| `Sniffer` | up to two passwords, or lines of talk, in any number of tunnels; a text that fills its array and one that is longer, made of the bytes of keywords; answers that have a name or a password in them; replies of 17 bytes, too short for three logins; addresses of one and three bytes | what is listed since the last tunnel that was not plain was accepted, once, and by the time the answer came; pages that leave nothing out, and cut only their last two entries |
| `SameAddress`, `EarlyFree`, `StaleEvent` | the smallest instances that show it | see [Findings](#findings) |

Connections do not interact except through the settings, the metric and the
limit: one client with everything that can happen to it, and two for what they
share, meet every case. Three addresses let a retry fail, be retried and
succeed, and messages of two pieces let every read and write be short. The
model has finitely many connections that each end, so deadlock is not checked:
the system stops when all of them are over.

Buffers of two and three cells with more bytes than fit make the sides wait for
each other, wrap to the start while bytes are left, and be full when a peer
closes; with four cells and no bound on the calls `Fifo` reaches every pair of
pointers. A tunnel stops when it is over, and deadlock is not checked there
either; a buffer never stops, and it is checked.

Three registrations are the listening socket and the two descriptors of a
session, or two sessions; `StaleEvent` needs four, for the descriptor that is
closed and opened again. With three entries (`Slots`) PUT fills
two, so that the table is full for it, emptied and refilled, and DELETE moves an
entry. Two larger instances were checked by hand and everything of `Mng` holds in
them too, but they take longer than a run should: a command line that fills the
table (701,000 states), and two administrators, who share nothing but the
settings, with words `{"u"}`, two slots and one unit from a disorderly client
(614,000 states). `InTable` was checked by hand on the instance of
`MngTable.cfg`: words that fill their field, passwords of up to three fields, and
every table the command line may leave, the full one included (953,088
states). Nine bytes are the longest
messages of the parsers with payloads of one or two bytes; a byte has 16 values
and addresses are two and three bytes long, so that all their branches are
taken. The keywords of the sniffer are cut to two and three bytes that share
letters with each other and with the names, since finding its place again is
what could go wrong. One text of the answers has a name in it and the other a
password, so that an answer in any turn may be taken for either, and a tunnel in
which each stands where it is not looked for stays plain; the second password is
for what a refusal leaves behind, and for a list of several entries. In a reply
of 17 bytes entries are cut, and three may begin. `Wire` and `Sniffer` end when their bounds are reached, the
program of `Selector` may be told to end: deadlock is not checked there.

## Fairness

`FairSpec` assumes weak fairness of the handlers of each connection, of its
resolver thread and of the kernel's answer to `connect()`. The loop of
`server.c:137` calls `selector_select` for ever; an iteration calls the handler
of every descriptor that is ready and of every queued job, and no handler
blocks, so a handler that stays enabled is called. `getaddrinfo()` and a TCP
connection attempt return or time out. Nothing is assumed of clients, of the
administrator, or of how long tunnels last.

`FairSpec` of `Tunnel` assumes weak fairness of `CopyRead` and `CopyWrite` for
each side. For `CopyRead` that is the loop again. `CopyWrite` also needs the
descriptor to be writable, so `Delivered` is about peers that keep reading: a
peer that does not may stop the other direction through the buffers, which is
how the proxy is meant to work. Early bytes wait for another one to follow them,
from either side, and one may never come: `Delivered` asks for that (`Stirred`).

`FairSpec` of `Selector` has the thread go on, which is the loop, and the
resolver threads finish; that `pselect` returns is assumed only when something
is ready or a signal pending, not from its timeout. `FairSpec` of `Mng` is the
loop once more, with the client's socket writable: `CommandAnswered` and
`EndNoticed` are about clients that take what they are sent.

## Theorems

`Socks5Proofs.tla` proves, for any set of connections, any scripts, any number
of addresses and any faults:

* `InductiveInvariant`: `Spec => []IInv`. `IInv` is `TypeOK` and, for each
  connection, `Conforms`: the interests and descriptors each state has
  (`Watched`), the positions in the stream, in the address list and of the
  thread (`Counted`), who may have closed what (`Owned`), what a status says of
  the server (`Answered`) and of the negotiation (`Authorised`). None of the
  safety properties is inductive by itself: that an event has a handler depends
  on the interests every earlier state left behind, and a request's
  authorisation on what was selected two messages before.
* From it: `TypeCorrect`, `NoMissingHandler`, `ResolverHasStruct`,
  `RequestsAuthorised`, `NoFalseSuccess`, `NoUseAfterFree`, `MemoryReclaimed`.

The same module proves `Refinement` (`Spec => ProxyView!PSpec`) and, by the
finiteness of `Conns` and the cardinality of the connections counted,
`MetricIsACount` (`Spec => []CurrentCounts`). Every step is a step of `Proxy`
or of none, which needs `IInv`: a tunnel ends only where one was granted.

`BufferProofs.tla` has the lemmas about the operators: what `Write`, `ReadAdv`
and `Compact` do to the pointers and to `Contents`. On them rest

* in `FifoProofs.tla`, for a buffer of any size and any bytes, `PointersInductive` and
  from it `PointersStayOrdered`, `NoRefusalWhenEmpty` and `BufferIsQueue`
  (`Spec => QueueView!QSpec`). `FifoInv` adds to the order of the pointers that
  an empty buffer is at the start of its memory: without it a buffer could be
  both empty and without room.
* in `TunnelProofs.tla`, for buffers of any size and any number of bytes,
  `TunnelInductive` and from it `TunnelTypes`, `RelayedInOrder`,
  `TrafficCounted`, `OneSideServed` and `EndsForCause`. `TunnelInv` is `TypeOK`,
  `NothingLost` and `CountersAgree` with three things more: nothing is received
  that was not sent, an empty buffer is at the start of its memory, and the
  interests are those that follow from the buffers (`Settled`) unless no byte
  has moved (`Fresh`). The last is why `recv()` returns 0 in a healthy tunnel
  only before any byte has moved, and then only into a buffer that the client had
  filled behind its request: that is the one exception `EndsForCause` leaves, and
  a tunnel that has begun is not closed for want of room.

`SelectorProofs.tla` proves, for any number of descriptors, any table and any
number of registrations, `SelectorInv` and from it `SelectorTypes`,
`SetsFollow`, `DescriptorsOwned`, `JobsReachAskers`, `OneJobEach`,
`NoWakeUpLost` and `ReportsSeen`. `SelInv` adds to the properties that a
session that waits for a lookup has no interest and no server (`WaitersQuiet`):
that is why its descriptor cannot be closed, and given to another, before its
job comes. It also has that every registration is of one descriptor and every
server of one session, and how far the walk over a report still goes.

`MngProofs.tla` proves, for any number of administrators, a table of any size
and any words and passwords, full ones included, `MngInductive` and from it `MngTypes`,
`MngHandlers`, `ChangesAuthorised`, `SilenceOnlySize` and `StrcpyInTable`. `MngInv` is `TypeOK`
and, for each session, that its interest is the one of its state, that it has
something to send exactly in the states that write, and that its client had the
password in every state behind `CONNECT_WRITE` (`Consistent`). That is the
argument for `ChangedByHolder`: the handlers of the commands test no password,
only the way to their states does. `StrcpyInTable`
(`Moderate => (Spec => []InTable)`) is about the memory: no `strcpy` of
`add_user`, `edit_user` or `delete_user` writes behind the table as long as no
password takes three fields or more. It rests on lemmas about `Strcpy` and
`StringAt`: a word of `MAX_USERNAME_SIZE` bytes, or a password longer than that,
runs into the next field, and what does is of bounded length, so that the slot
`add_user` leaves unused is enough for what the last entry spills. It is not
enough for more: with a password of three whole fields TLC refutes `InTable`
(`LongPassword.cfg`), and a PUT may bring 255 bytes where three fields are 30. It is assumed that
the 1024 of `server_config.h` is one of the sizes, that the command line
gives no more users than there are entries, and that a word is not empty, since
the parsers refuse a length of zero.

`MngImplementsAccounts` (`Full = {} => (Spec => ImplementsAccounts)`) is for words
that leave room for their terminator: with full ones it is not true (see
[Findings](#findings)). Then a string is one field (`StringIs`, `StrcpyIs`), what a
table tells is a function of its entries (`Told`), and each of the three
operations changes the count of one or two accounts (`Adds`, `Removes`,
`Changes`). The lemmas about `Tally` are about counting in any array: one more at
the end, another in a place, the last one moved to a place. `CopiesTally` is the
induction that makes the size of what `Accounts` holds the number of entries. A
step of a session that is no answer to a command is a step that forgets an
answer, or none (`Leaves`, `Keeps`).

`SnifferProofs.tla` proves, for any names, passwords and texts of answers, any
capacity of the arrays and any size of a reply, `SpecIInv` (`Spec => []IInv`) and
from it `SnifferTypeOK`, `SnifferCapturedInOrder`, `SnifferLoginCaptured` and
`SnifferPagesComplete`. Of the keywords it is assumed only that the two answers
have no byte in common (`AnswersApart`), as `+OK` and `-ERR` have none; what
else could be taken for another thing is not assumed away but makes the tunnel
one that is not `plain`, and `Plainly` is the part of the invariant that is about
the others. A line is consumed in pieces of any length, each from wherever the
automaton is, so the invariant needs a statement about the automaton after each
byte of each line, when it is received and again in its copy:

* `Greeted`, `Naming`, `Passing`: the line that is expected, byte by byte.
* `Looks`: a greeting or a refusal that has been seen, in which the automaton
  looks for a name and finds none.
* `Seeking`: the line with the name, once more, or the answer to it. The automaton
  looks for `PASS `, finds at most the beginning of it (`Seeks`), and is where it
  was at the end.
* `Judging`: the line with the password, once more. Of each answer it has seen
  at most as many letters as the line spells, which is never all (`Among`).
* `Accepting`, `Refusing`: an answer, from a place that is already inside it, and
  the text behind it.
* `Overrun`: the name after a refusal, when the counter has gone below zero and
  the first copy is read past; it does come back to `Expects` by the end of the
  line, so that the second copy is found.
* `Spent`, `Idle`: an answer that was understood, once more, and the talk after it.

`Spoken` has which line goes with which turn, `PlainLine` that no keyword is in it
where one is looked for, `Unread` and `Read` what the automaton is before a line
and in its copy, `Captured` and `Answered` what the list shows (one login fewer
while the answer to the last is not received), and `Paged` where the iterator is
and what was shown. That all but the last two entries of a reply are whole is
arithmetic on where they end (`Fills`): an entry whose password was cut ends at
most one byte before the reply does, so that at most one more begins.
`Consumed` is a recursive function; that it exists (`FollowsExists`) and that what
every byte keeps is kept by a piece (`Followed`) are proved once, by induction
over a bound (`UpTo`), and the step lemmas say what one byte does.

`WireProofs.tla` proves, for messages of any length, cut anywhere, and bytes of any
even width, `WireSpecInv` (`Spec => []WireInv`) and from it `WireTypeOK`,
`WireVerdictOfGrammar`, `WirePayloadsKept`, `WireSizeReadBack` and
`WireReplyEchoes`; the exceptions are those of the properties, the commands 2 and 4
and a name of no bytes. The grammar looks at all the bytes at once, a parser at one at
a time and with little memory, so the invariant has to say, from the bytes taken,
what the struct must hold:

* Each state of each parser is a place in its layout: `Begins` is before a part,
  with the payloads of the parts before it in the arrays; `Within` is inside the
  payload of a part, with so many of its bytes in the last array and the rest
  still to come; `Names` and `Lists` are the same for the name of a host and the
  list of methods, which are kept otherwise. `StandPut` and the nine like it say
  which state is which place.
* A byte is taken in one of few ways: `OneStep`, `LengthStep`, `FixedStep`,
  `AddressStep`, `NameStep`, `StoreStep`, `ListStep`. Each of these lemmas is about
  any layout, and takes one place to the next, to the end of the message or to an
  error. The step of a parser (`PutStep` and the others) cites one of them in each
  state.
* What a part is does not change once it is whole (`WholePartKept`, `WholeKept`):
  this is why a verdict, once it is `done` or `error`, stays.
* `Follows` has the place and that every shorter beginning was `more`, so that no
  byte behind the message is taken. `ConsumedFollows` carries it over a buffer, by
  induction over its bytes up to a bound. `WireInv` is `Follows` and that what was
  received is what was taken and what waits.

`WireReplyEchoes` and `WireSizeReadBack` then read a whole message from its place at
the end. The second also needs that digits are unique (`Digits`): the four of a
number come back from it, also from one that is negative as a C `int`. It is
assumed that `Base` is even and above 8, the largest byte that has a name, and
that an address has at least one byte and at most as many as a byte counts; 256,
4 and 16 are such, and so are the smaller values of the run.

### What liveness rests on

That something happens in the end cannot be proved here: the prover knows neither
fairness nor `ENABLED`. What it needs of the system besides fairness can. For each of
the liveness properties there is an invariant, that somebody of whom fairness is
assumed is due, and an action property, that such a step makes a number smaller which
no other step makes larger, and that none takes the turn from who is due. What is
left to TLC is the last step alone, from a number that cannot go down for ever to
its end.

| property | somebody is due | each step brings it nearer |
|---|---|---|
| `RequestAnswered` | `NobodyForgotten` (`SomebodyDue`) | `AnswerDrawsNearer` (`RequestDrawsNearer`) |
| `Delivered` | `RelayNeverStalls` (`RelayDue`) | `DeliveriesDrawNearer` (`DeliveryDrawsNearer`) |
| `LookupTold` | `OneJobEach` (`JobOnce`), `NoWakeUpLost` (`WakeUpComing`) | `LookupsDrawNearer` (`LookupDrawsNearer`) |
| `CommandAnswered`, `EndNoticed` | `SessionsDue` (`SessionDue`) | `SessionsDrawNearer` (`SessionDrawsNearer`), `AnsweredAtEnd` (`EndsAnswered`) |

* For a request the number is `Left`: the pieces of a reply, two steps for each address
  that is left, and the stages before. Both theorems are about a client that waits
  for each reply before it goes on, and about threads that can be created
  (`Unprompting`: `Env` without `pipeline` and `resources`), and they need it. Bytes
  sent early lie in `read_buffer` when their state is entered, and no event tells of
  them; a lookup whose thread was not created is never answered. TLC refutes
  `SomebodyDue` with either of them alone. They have a strengthening of `IInv` of
  their own, `Paced`: how much a client that waits can have sent in each state. The
  run of `RequestAnswered` makes the same two assumptions: its `Env` has resets only.
* For the bytes of one side of a tunnel it is `Undelivered`: each is received once and
  sent on once. That it goes down is also that the selector does not call
  `copy_read` and `copy_write` for nothing, for as long as the tunnel lasts.
* For a lookup it is where the thread is (`Turn`), and then the place of the job in the
  list, which `handle_block_notifications` works through while resolver threads put
  no more jobs into it.
* For a session of an administrator it is `Outstanding`: the units that were sent and
  not received, each of which may make a reply of `Pieces` parts. Only its client adds
  to it. `SessionDue` and `EndsAnswered` need what an orderly client can have sent in
  each state (`Pace`), down to the units: a message is read to its end and not
  beyond, so that the last one is still there when the state for it is entered.

Each proof goes action by action. What a handler may return, and what `Enter`
makes of it, are lemmas; an action's step shows that the record it returns fits
the state it goes to.

Model-checked only: liveness (`RequestAnswered`, `Delivered`, `LookupTold`,
`CommandAnswered`, `EndNoticed`), of which the theorems above have all but the use
of fairness; and the runs that show a violation. `ImplementsAccounts` is proved for words that leave
room for their terminator, as the run has them.
`RefusedOnlyUnread`, `NeverBothWait`, `WakeUpComing`, `InTable` and the properties of
the table above but `JobOnce` are proved and have no run of their own: the liveness
properties are what they are for, and `InTable` asks for full words and long
passwords, with which `ImplementsAccounts` does not hold. Before they were proved, TLC checked those of the table on instances
of 77,624 (`Socks5`), 68,577 (`Tunnel`), 155,743 (`Selector`) and 143,616 states
(`Mng`).
What a recursive function computes, and the parsers and the grammar are full of
them, is not given by the prover: that one exists is a lemma each time
(`EndsExist`, `ToldExists`, `AfterExists`, `FollowsExists`), by induction over a
bound from the least element of a set of numbers (`LeastExists`, `UpTo`).

## Findings

Each of these is a run that checks what a comment or the manual says, and finds
a behaviour of the code that is otherwise.

| run | the document | the code |
|---|---|---|
| `SameAddress` | `socks5_request.c:288`: "intento con otro ip" | `next_ip` copies the head of the list again (`:221`) |
| `EarlyFree` | `socks5.c:121`: when toFree is 1 the memory can be freed | after a retry it is 1 with two descriptors in use (`socks5_request.c:133`) |
| `StaleEvent` | `include/selector.h:162`: selector_select waits for events and dispatches them | an event goes to whatever registration its descriptor has by then (`selector.c:439`) |

The following are statements of the documents that TLC refutes as well. Each is an
operator of the module, and the `.cfg` named here is the smallest instance that
shows it (`tlc -config <name>.cfg <module>`); they are kept apart from the runs
above, which they do not need.

| `.cfg`, module | property | the document | the code |
|---|---|---|---|
| `ReceivedBytes`, `MCTunnel` | `ReceivedShown` | `wannapprove.8:77`: "Imprime la cantidad de bytes recibidos."; `Wannapprove_Protocol_v0.txt:79` has two options | `_get_received_bytes` returns `get_sent_byte()` (`server_config.c:221`) |
| `Commands`, `MCWire` | `DeclaredCommands` | `include/parsers/request.h:34`: connect 1, bind 2, associate 3 | 1, 3 and 4 are taken and 2 is refused (`parsers/request.c:26`) |
| `EmptyName`, `MCWire` | `NameAsTold` | `parsers/request.c:70`: "el byte nos dice cuanto nos queda por leer" | a name of no bytes takes one, the first of the port (`:73`) |
| `LongPassword`, `MCMng` | `InTable` | `args.c:127`: "username or password is too long, max length is %d" | `add_user` measures the name twice and the password never (`server_config.c:125`), while `Wannapprove_Protocol_v0.txt:107` lets a PASS have 255 bytes |
| `FullWord`, `MCMng` | `OthersKept` | `Wannapprove_Protocol_v0.txt:100`: a PUT "can only add users" | with a password that fills its field, the next account's name becomes a part of it (`server_config.c:125`) |
| `CutEntries`, `MCSniffer` | `EntriesWhole` | `wannapprove.8:62`: "Imprime la lista de passwords sniffeadas." | the entry that does not fit is cut and not shown again (`server_config.c:167-194`) |
| `RefusedUser`, `MCSniffer` | `OnlyAccepted` | `socks5d.8:101`: "Registra las credenciales descubiertas" | no state leads to `check_user`: a refused name is listed with the password of the next (`pop3_sniffer.c:97`) |
| `AnswerText`, `MCSniffer` | `OnlyAccepted` | the same; `:128` "Usuario descubierto.", `:131` "Password descubierta." | a keyword in the text of an answer is taken, and what follows it listed as a name or password nobody sent (`pop3_sniffer.c:67-83`, `:103-119`) |

Others follow from reading the code; the models have them, but no run is about them.

In the sessions:

* `hello_read` takes an incomplete hello for an error (`socks5_hello.c:56`),
  where `include/socks5.h:51` has it wait.
* A failed resolution goes on to connect to an address nobody wrote
  (`socks5_request.c:200`), where `include/socks5.h:119` has a reply.
* An error in REQUEST_WRITE leaves `current_connections` too high for good
  (`socks5.c:219`); `CurrentCounts` is what is counted.
* Bytes behind the request are in `read_buffer` when COPY begins, and only
  OP_READ is set (`socks5_request.c:332`), where `include/socks5.h:154` has OP_WRITE.
* A command that is not supported gets no reply (`socks5_request.c:118`).
* A resolver thread that was not created is not noticed (`:100`) and its client
  waits for ever, which is why `Socks5Live` does without that fault.
* The end of the stream inside the user/password message keeps `auth_read`
  being called (`socks5_auth.c:48`).
* `MAX_CONNECTIONS` is compared with the connections whose server answered, not
  with those accepted (`socks5.c:157`).
* The limit of a buffer is one more than what was allocated (`socks5.c:110`); the
  models take it as it is, with memory to match.
* The terminator of a name of no bytes is written before the array
  (`parsers/request.c:73`).
* A client that fills `read_buffer` behind its request is taken to have closed
  when COPY begins (`socks5_copy.c:71`), which is the exception of `EndHasCause`.

In the administration:

* A size that is not positive is stored before it is refused, and the session
  ends without its reply (`mng.c:345`): `SilentOnlySize` has the exception.
* A name of exactly `MAX_USERNAME_SIZE` bytes is accepted, and runs into its
  password (`server_config.c:125`); with such a word in `Full`, TLC refutes
  `ImplementsAccounts` too, with the first PUT.
* The replies of several commands advance `write_buffer` by all its free space
  behind one byte of status (`admin_put.c:179`, `admin_edit.c:214`,
  `admin_delete.c:158`, `admin_configbuffsize.c:130`, `admin_configstatus.c:140`):
  bytes that nobody wrote follow it. In `Mng` a reply is what its status says,
  and leaves in up to `Pieces` pieces, however long.
* The terminator of a text of 255 bytes falls behind its array
  (`admin_put.c:76`, `:98`, `admin_connect.c:60`, `auth.c:61`, `:86`); no message is
  read differently for it, as the properties of `Wire` show.
* `get_users` tests the room for letters and not for separators, and goes on to
  the next user in a full reply (`server_config.c:150`, `:155`).
* A refused message closes the session with its reply unsent, and a client that
  sends its command along with its password loses it (`mng.c:108`).
* `add_user` leaves one slot of the table unused (`server_config.c:122`); the
  command line does not.
* The counters are passed as 32 bits and shifted by up to 56
  (`server_config.c:311`), which C does not define; the models have the last four
  bytes only. `_get_transfered_bytes` has no caller.

In the sniffer:

* The struct of a new connection is not initialised (`socks5.c:94`): what the
  memory held may be gone on with. The model has memory that is zero.
* After a refused password the counter goes below zero (`:146`), and the first
  copy of the next name is missed; `LoginCaptured` holds because the second is not.
* A line that is received in pieces may have its pieces interleaved with their
  copies, and is then missed. A password that spells an answer is taken for it,
  other bytes between its letters included.
* A name as long as its array has its terminator in the next one, and is listed
  with the password behind it (`:92`).
* A password as long as its array has its terminator in a counter, which stands at
  three when it is listed, and is listed with a byte of that value behind it
  (`Counter`).
* An entry keeps a pointer into the struct of its connection, which is freed when
  that ends: the address shown for it is any of `Addresses`, at every page anew.
* A page may end up to four bytes behind the limit it was given, and its length
  is one byte of the reply (`server_config.c:194`).

## Assumptions and limits

* A readiness event is taken to be fresh: what a handler reads is what the
  kernel has at that moment. What the reuse of descriptor numbers within one
  iteration does to that is in `Selector`, which knows nothing of the sessions' data.
* After the struct was freed once, the code's later reads of it are taken to
  see the values it had.
* The capacity of `read_buffer` is not in `Socks5`: `recv()` returns all that
  has arrived.
* `Tunnel` has one early block only, of bytes the proxy already received; `send()`
  does not return 0 while there are bytes to send, and no byte is in flight
  between `send()` and the peer.
* What is still in the buffers when a tunnel ends is dropped. `NothingLost` has
  those bytes still in the buffer; nothing in the code promises more.
* Failures of `malloc()` in `socks5_new` and of `getsockopt()` are left out; the
  counter `connecting_clients` has no reader in the program and is left out.
* The end of the program is in `Selector` up to the destruction of the selector;
  a resolver thread that still works is cut off with the process.
* In `Mng` the copy of an entry on the stack of `delete_user` is taken to be
  followed by a terminator, a reply leaves in at most `Pieces` pieces, and the
  clients `mng_passive_accept` turns away are not there. Fields have as many bytes
  as a word may have, and the terminator `args.c` writes behind a full password in
  the last slot is not modelled. A name or password whose first byte is zero,
  which the parsers take and `strcpy` copies as no bytes, is not there either.
* `Reclaimed` exempts the sessions whose `connect()` or registration failed at
  once, of which the struct is in fact not freed; `CurrentCounts` does not see
  connections that are being negotiated; `Socks5Two` has one address for each client,
  and leaves sequences of several to `Socks5One`.
* In `Wire` the error states of a parser, which tell the client why, are one.
* In `Sniffer` lines end in one byte and keywords are matched in one case; a line
  fits `MAX_BUFF_POP3_SIZE`, and tunnels that run at the same time, which share the
  list only, come one after the other. Names and passwords are not empty (a real
  line ends in two bytes, and the first of them counts). Before it is logged in a
  client says nothing but USER and PASS, in that order. Sniffing is switched
  between tunnels and not within one. What is listed in a tunnel that is not plain, and
  by it, is exempt from `CapturedInOrder` and `LoginCaptured`.

## Not modelled

* `src/stm.c` by itself: it is `jump` and three dispatchers, which the actions of
  `Socks5` and `Mng` are made of.
* The getters of `server_config.c` that write numbers and names for display, and
  the growth of the selector's table.
* `src/conn_logger.c`, `src/logger.c`, `src/netutils.c`, option parsing and
  socket set-up: text and system calls on which no state depends.
* `management_protocol/`: a sequential program that logs in, sends one command and prints the
  reply. What is left to say of it is how it formats.

## Plan

Done: `Socks5`, `Proxy`, `Buffer`, `Queue`, `Fifo`, `Tunnel`, `Selector`, `Mng`,
`Accounts`, `Sniffer`, `Wire` and `WireGrammar`. Every invariant, action property
and refinement that a passing run checks has a theorem; each liveness property has
theorems about what it rests on. What remains wrong in the code is stated as a
property too and refuted ([Findings](#findings)). What could follow:

1. An abstract channel for `Tunnel`, of which each direction is one, and a theorem
   that it is: `RelayedInOrder`, `RelayNeverStalls` and `DeliveriesDrawNearer` say it
   in parts.
2. The hazards without a property that holds: a buffer smaller than a reply, the
   automaton of a connection in memory that was used before, the limit on
   connections, and, once the code is repaired there, words and passwords that
   outgrow their fields and names of no bytes (`InTable`, `OthersKept` and
   `NameAsTold` would then have passing runs).
