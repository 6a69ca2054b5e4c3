------------------------------ MODULE Selector ------------------------------
(***************************************************************************)
(* selector.c: the table of descriptors, one iteration of selector_select, *)
(* and the jobs resolver threads leave for it.                             *)
(*                                                                         *)
(* The handlers are those of the SOCKS sessions, reduced to the calls they *)
(* make on the selector: a listening socket accepts; a session sets        *)
(* interests, starts a lookup in a thread, opens the connection to its     *)
(* final server, and closes what it has.  Socks5.tla says when.            *)
(***************************************************************************)
EXTENDS Integers, FiniteSets, Sequences

CONSTANTS
  Kernel,       \* the greatest descriptor the process may be given
  Table,        \* the greatest the table holds: ITEMS_MAX_SIZE - 1
  MaxGen,       \* bound: registrations made
  Kinds         \* what may happen, see Kind

(* Names to look up, connections refused at once, and the end of the program. *)
Kind == {"lookup", "refusal", "signal"}

ASSUME SelectorAssumption ==
  /\ Kernel \in Nat \ {0} /\ Table \in 1..Kernel
  /\ MaxGen \in Nat \ {0}
  /\ Kinds \subseteq Kind

Fd == 0..Kernel
Interests == SUBSET {"r", "w"}
Passive == 1             \* the registration of the listening socket
Gen == 1..MaxGen         \* registrations are numbered
None == -1

(* struct item.  gen tells registrations of one descriptor apart, 0 is
   FD_UNUSED; owner is the attachment: the session, named by the number of its
   client's registration. *)
Item == [gen : 0..MaxGen, owner : 0..MaxGen, interest : Interests]
Unused == [gen |-> 0, owner |-> 0, interest |-> {}]
FdSelector == [items : [Fd -> Item], maxFd : Fd, r : SUBSET Fd, w : SUBSET Fd]

VARIABLES
  sel,          \* struct fdselector: items, max_fd, master_r and master_w
  open,         \* descriptors of the program the kernel has open
  pc,           \* where the thread of the selector is
  at, event,    \* the descriptor and the event handle_iteration has come to
  last,         \* max_fd when handle_iteration began
  slave,        \* slave_r and slave_w
  jobs,         \* resolution_jobs
  todo,         \* what handle_block_notifications has left to handle
  signal,       \* SIGALRM is pending: it is blocked outside pselect
  done,         \* SIGTERM or SIGINT came
  lookups,      \* the resolver threads
  resolving,    \* sessions in REQUEST_RESOLV
  server,       \* final_server_fd of each session, or None
  gens,         \* how many registrations were made
  reported      \* history: what the last pselect reported, by registration

vars == <<sel, open, pc, at, event, last, slave, jobs, todo, signal, done,
          lookups, resolving, server, gens, reported>>
iteration == <<at, event, last, slave, reported>>
threads == <<jobs, todo, signal, lookups>>
table == <<sel, open, server, gens>>

-----------------------------------------------------------------------------
(* The calls of the selector. *)

Used(S, f) == S.items[f].gen # 0
INVALID_FD(f) == f > Table

(* The item of f becomes item, and items_update_fdset_for_fd follows. *)
Updated(S, f, item, maxFd) ==
  [items |-> [S.items EXCEPT ![f] = item],
   maxFd |-> maxFd,
   r |-> IF "r" \in item.interest THEN S.r \cup {f} ELSE S.r \ {f},
   w |-> IF "w" \in item.interest THEN S.w \cup {f} ELSE S.w \ {f}]

(* items_max_fd: 0 when there are none *)
ItemsMaxFd(S) ==
  CHOOSE m \in 0..S.maxFd :
    /\ m = 0 \/ Used(S, m)
    /\ \A f \in 0..S.maxFd : Used(S, f) => f <= m

Refused(S, f) == INVALID_FD(f) \/ Used(S, f)      \* SELECTOR_IARGS, _FDINUSE

Register(S, f, gen, owner, interest) ==
  Updated(S, f, [gen |-> gen, owner |-> owner, interest |-> interest],
          IF f > S.maxFd THEN f ELSE S.maxFd)

SetInterest(S, f, interest) ==
  IF Used(S, f) THEN Updated(S, f, [S.items[f] EXCEPT !.interest = interest], S.maxFd)
  ELSE S

UnregisterKeepsSets(S, f) ==      \* a mutant: the sets keep the descriptor
  IF Used(S, f) THEN [S EXCEPT !.items[f] = Unused] ELSE S

(* OP_NOOP and the sets, then the item is cleared, then the maximum. *)
Unregister(S, f) ==
  IF Used(S, f)
  THEN LET gone == Updated(S, f, Unused, S.maxFd)
       IN [items |-> gone.items, maxFd |-> ItemsMaxFd(gone), r |-> gone.r, w |-> gone.w]
  ELSE S

(* socket(2) and accept(2) give the lowest free number; each lookup under way
   may hold one of its own. *)
Given(f, used) ==
  /\ f \in Fd \ used
  /\ Cardinality({g \in Fd \ used : g < f})
       <= Cardinality({l \in lookups : l.state = "looking"})

-----------------------------------------------------------------------------
NoEvents == [r |-> {}, w |-> {}]

Init ==
  /\ sel = [items |-> [f \in Fd |-> IF f = 0
                         THEN [gen |-> Passive, owner |-> Passive, interest |-> {"r"}]
                         ELSE Unused],
            maxFd |-> 0, r |-> {0}, w |-> {}]
  /\ open = {0}
  /\ pc = "loop" /\ at = 0 /\ event = "r" /\ last = 0
  /\ slave = NoEvents
  /\ jobs = <<>> /\ todo = <<>> /\ signal = FALSE /\ done = FALSE
  /\ lookups = {} /\ resolving = {} /\ gens = 1
  /\ server = [o \in Gen |-> None]
  /\ reported = {}

(* main's loop: for (; !done;) selector_select(selector) *)
Loop ==
  /\ pc = "loop" /\ ~done
  /\ pc' = "select"
  /\ UNCHANGED <<table, iteration, threads, done, resolving>>

(* pselect returns with events, or at the timeout with none.  A pending signal
   is then delivered or left pending. *)
Select ==
  /\ pc = "select"
  /\ \E r \in SUBSET sel.r, w \in SUBSET sel.w :
       /\ slave' = [r |-> r, w |-> w]
       /\ reported' = {<<f, sel.items[f].gen>> : f \in r \cup w}
  /\ last' = sel.maxFd /\ at' = 0 /\ event' = "r"
  /\ pc' = "iterate"
  /\ signal' \in {signal, FALSE}
  /\ UNCHANGED <<table, jobs, todo, lookups, done, resolving>>

(* pselect fails with EINTR: no iteration, only the notifications. *)
Interrupted ==
  /\ pc = "select" /\ signal
  /\ signal' = FALSE /\ pc' = "lock"
  /\ UNCHANGED <<table, iteration, jobs, todo, lookups, done, resolving>>

(* SIGTERM or SIGINT, not blocked: sigterm_handler.  It interrupts pselect
   unless the thread has not entered it yet. *)
Terminate ==
  /\ "signal" \in Kinds
  /\ ~done /\ pc # "destroyed"
  /\ done' = TRUE
  /\ \/ pc' = pc
     \/ pc = "select" /\ pc' = "lock"
  /\ UNCHANGED <<table, iteration, threads, resolving>>

-----------------------------------------------------------------------------
(* handle_iteration, for the event it has come to. *)

Deliverable ==
  /\ pc = "iterate" /\ Used(sel, at)
  /\ at \in slave[event] /\ event \in sel.items[at].interest

PastLast == at >= last - 1      \* a mutant: i < n
AtLast == at = last

(* When the loop ends, its locals and the slave sets are done with. *)
Advance ==
  \/ /\ event = "r" /\ event' = "w"
     /\ UNCHANGED <<pc, at, last, slave, reported>>
  \/ /\ event = "w" /\ ~AtLast
     /\ event' = "r" /\ at' = at + 1
     /\ UNCHANGED <<pc, last, slave, reported>>
  \/ /\ event = "w" /\ AtLast
     /\ pc' = "lock" /\ at' = 0 /\ event' = "r" /\ last' = 0
     /\ slave' = NoEvents /\ reported' = {}

NoEvent ==
  /\ pc = "iterate" /\ ~Deliverable
  /\ Advance
  /\ UNCHANGED <<table, threads, done, resolving>>

Owner == sel.items[at].owner

(* What the handlers do, for the session o: its client's descriptor is c, its
   final server's server[o].  A descriptor the table refuses is closed. *)

Accepts ==
  \/ UNCHANGED table      \* accept failed or was refused
  \/ /\ gens < MaxGen
     /\ \E f \in Fd :
          /\ Given(f, open) /\ ~Refused(sel, f)
          /\ sel' = Register(sel, f, gens + 1, gens + 1, {"r"})
          /\ open' = open \cup {f}
     /\ gens' = gens + 1
     /\ UNCHANGED server

SetsInterests(o, c) ==
  /\ \E i, j \in Interests :
       sel' = IF server[o] = None THEN SetInterest(sel, c, i)
              ELSE SetInterest(SetInterest(sel, c, i), server[o], j)
  /\ UNCHANGED <<open, server, gens>>

ForgetsServer(o, c) ==      \* a mutant: the final server's is not closed
  /\ sel' = Unregister(sel, c)
  /\ open' = open \ {c}
  /\ server' = [server EXCEPT ![o] = None]
  /\ UNCHANGED gens

(* socks5_done: the client first, then the final server. *)
Closes(o, c) ==
  /\ sel' = IF server[o] = None THEN Unregister(sel, c)
            ELSE Unregister(Unregister(sel, c), server[o])
  /\ open' = open \ {c, server[o]}
  /\ server' = [server EXCEPT ![o] = None]
  /\ UNCHANGED gens

(* request_connect: of a session that has no final server yet, or, with the
   next address, when the connection it waited for failed.  The final server's
   descriptor is closed if there is one, and another one is opened. *)
MayConnect(o) == server[o] = None \/ (server[o] = at /\ event = "w")
Left(o) == IF server[o] = None THEN sel ELSE Unregister(sel, server[o])
Kept(o) == open \ {server[o]}

Connects(o, c) ==
  /\ MayConnect(o)
  /\ gens < MaxGen /\ gens' = gens + 1
  /\ \E f \in Fd :
       /\ Given(f, Kept(o)) /\ ~Refused(Left(o), f)
       /\ sel' = SetInterest(Register(Left(o), f, gens + 1, o, {"w"}), c, {})
       /\ open' = Kept(o) \cup {f}
       /\ server' = [server EXCEPT ![o] = f]

(* connect() fails and there is no other address: the new descriptor stays
   open, unregistered, until socks5_done. *)
ConnectFails(o, c) ==
  /\ "refusal" \in Kinds /\ MayConnect(o)
  /\ \E f \in Fd :
       /\ Given(f, Kept(o))
       /\ sel' = SetInterest(Left(o), c, {"w"})
       /\ open' = Kept(o) \cup {f}
       /\ server' = [server EXCEPT ![o] = f]
  /\ UNCHANGED gens

LooksUpReading(o, c) ==      \* a mutant: the session goes on meanwhile
  /\ "lookup" \in Kinds /\ server[o] = None
  /\ sel' = SetInterest(sel, c, {"r"})
  /\ resolving' = resolving \cup {o}
  /\ lookups' = lookups \cup {[fd |-> c, gen |-> o, state |-> "looking"]}
  /\ UNCHANGED <<open, server, gens>>

(* request_process, a domain name: OP_NOOP and a thread that has the key. *)
LooksUp(o, c) ==
  /\ "lookup" \in Kinds /\ server[o] = None
  /\ sel' = SetInterest(sel, c, {})
  /\ resolving' = resolving \cup {o}
  /\ lookups' = lookups \cup {[fd |-> c, gen |-> o, state |-> "looking"]}
  /\ UNCHANGED <<open, server, gens>>

SessionStep(o, c) ==
  SetsInterests(o, c) \/ Closes(o, c) \/ Connects(o, c) \/ ConnectFails(o, c)

Handle ==
  /\ Deliverable
  /\ Advance
  /\ \/ /\ Owner = Passive /\ Accepts
        /\ UNCHANGED <<resolving, lookups>>
     \/ /\ Owner # Passive
        /\ \E c \in Fd :
             /\ sel.items[c].gen = Owner
             /\ \/ SessionStep(Owner, c) /\ UNCHANGED <<resolving, lookups>>
                \/ LooksUp(Owner, c)
  /\ UNCHANGED <<jobs, todo, signal, done>>

-----------------------------------------------------------------------------
(* handle_block_notifications: resolution_mutex is held from Lock to Unlock. *)

NoLock == FALSE      \* a mutant: threads add jobs at any time
Locked == pc = "jobs"

Lock ==
  /\ pc = "lock"
  /\ todo' = jobs /\ pc' = "jobs"
  /\ UNCHANGED <<table, iteration, jobs, signal, lookups, done, resolving>>

(* handle_block of the session the job's descriptor is of: request_resolv_done,
   which connects, or answers that it cannot, or ends the session. *)
HandleJob ==
  /\ pc = "jobs" /\ todo # <<>>
  /\ todo' = Tail(todo)
  /\ LET f == Head(todo).fd
         o == sel.items[f].owner
     IN IF Used(sel, f) /\ o # Passive
        THEN /\ resolving' = resolving \ {o}
             /\ \E c \in Fd : sel.items[c].gen = o /\ SessionStep(o, c)
        ELSE UNCHANGED <<table, resolving>>
  /\ UNCHANGED <<pc, iteration, jobs, signal, lookups, done>>

UnlockKeepsJobs ==      \* a mutant: the list is not emptied
  /\ pc = "jobs" /\ todo = <<>>
  /\ pc' = "loop"
  /\ UNCHANGED <<table, iteration, jobs, todo, signal, lookups, done, resolving>>

Unlock ==
  /\ pc = "jobs" /\ todo = <<>>
  /\ jobs' = <<>> /\ pc' = "loop"
  /\ UNCHANGED <<table, iteration, todo, signal, lookups, done, resolving>>

-----------------------------------------------------------------------------
(* request_resolv_blocking, in a thread: the lookup returns and
   selector_notify_block puts a job before the others, then sends the signal. *)

PushNowhere(l) ==      \* a mutant: the job's descriptor is never set
  /\ l.state = "looking" /\ ~Locked
  /\ jobs' = <<[fd |-> None, gen |-> l.gen]>> \o jobs
  /\ lookups' = (lookups \ {l}) \cup {[l EXCEPT !.state = "pushed"]}
  /\ UNCHANGED <<table, pc, iteration, todo, signal, done, resolving>>

Push(l) ==
  /\ l.state = "looking" /\ ~Locked
  /\ jobs' = <<[fd |-> l.fd, gen |-> l.gen]>> \o jobs
  /\ lookups' = (lookups \ {l}) \cup {[l EXCEPT !.state = "pushed"]}
  /\ UNCHANGED <<table, pc, iteration, todo, signal, done, resolving>>

NotifyUnblocked(l) ==      \* a mutant: the signal is not blocked outside pselect
  /\ l.state = "pushed"
  /\ signal' = (pc = "select")
  /\ lookups' = lookups \ {l}
  /\ UNCHANGED <<table, pc, iteration, jobs, todo, done, resolving>>

Notify(l) ==
  /\ l.state = "pushed"
  /\ signal' = TRUE
  /\ lookups' = lookups \ {l}
  /\ UNCHANGED <<table, pc, iteration, jobs, todo, done, resolving>>

(* selector_destroy: every item is unregistered and the jobs are freed.  The
   process ends. *)
Destroy ==
  /\ pc = "loop" /\ done
  /\ pc' = "destroyed"
  /\ sel' = [items |-> [f \in Fd |-> Unused], maxFd |-> 0, r |-> {}, w |-> {}]
  /\ open' = {} /\ server' = [o \in Gen |-> None] /\ jobs' = <<>>
  /\ lookups' = {} /\ resolving' = {}
  /\ UNCHANGED <<iteration, todo, signal, done, gens>>

Next ==
  \/ Loop \/ Select \/ Interrupted \/ Terminate \/ NoEvent \/ Handle
  \/ Lock \/ HandleJob \/ Unlock \/ Destroy
  \/ \E l \in lookups : Push(l) \/ Notify(l)

Spec == Init /\ [][Next]_vars

(* The thread of the selector runs but for pselect, where it may wait: it need
   not return unless the signal is pending.  A resolver thread's lookup
   returns, and a thread that waits for the mutex gets it. *)
Thread == Loop \/ NoEvent \/ Handle \/ Lock \/ HandleJob \/ Unlock \/ Destroy
Resolver(g) == \E l \in lookups : l.gen = g /\ (Push(l) \/ Notify(l))

FairSpec ==
  /\ Spec
  /\ WF_vars(Thread) /\ WF_vars(Interrupted)
  /\ \A g \in Gen : SF_vars(Resolver(g))

-----------------------------------------------------------------------------
Job == [fd : Fd, gen : Gen]

(* The types of the variables of the selector and of its threads. *)
TypeOK ==
  /\ sel \in FdSelector
  /\ open \subseteq Fd
  /\ pc \in {"loop", "select", "iterate", "lock", "jobs", "destroyed"}
  /\ at \in Fd /\ event \in {"r", "w"} /\ last \in Fd
  /\ slave \in [r : SUBSET Fd, w : SUBSET Fd]
  /\ jobs \in Seq(Job) /\ todo \in Seq(Job)
  /\ signal \in BOOLEAN /\ done \in BOOLEAN
  /\ lookups \subseteq [fd : Fd, gen : Gen, state : {"looking", "pushed"}]
  /\ resolving \subseteq Gen
  /\ server \in [Gen -> Fd \cup {None}]
  /\ gens \in Gen
  /\ reported \subseteq Fd \X Gen

(* Whatever was registered and unregistered, pselect waits for exactly the
   interests of the items, and its bound is the greatest descriptor in use. *)
SetsAgree(S) ==
  /\ S.r = {f \in Fd : "r" \in S.items[f].interest}
  /\ S.w = {f \in Fd : "w" \in S.items[f].interest}
  /\ \A f \in Fd : Used(S, f) => f <= S.maxFd
  /\ S.maxFd # 0 => Used(S, S.maxFd)
  /\ \A f \in Fd : ~Used(S, f) => S.items[f] = Unused
SetsFollowItems == SetsAgree(sel)

(* The descriptors the program has open are those it still knows, in the table
   or as a session's final server: none is lost, and pselect is never given a
   closed one. *)
Live(o) == \E c \in Fd : sel.items[c].gen = o
OpenIsOwned ==
  /\ \A f \in Fd : Used(sel, f) => f \in open
  /\ \A f \in open : Used(sel, f) \/ \E o \in Gen : Live(o) /\ server[o] = f

(* A job names a descriptor only.  When it is handled that descriptor is still
   the one of the session that asked, and the session still waits. *)
Waiting == IF pc = "jobs" THEN todo ELSE jobs
Asks(j) == sel.items[j.fd].gen = j.gen /\ j.gen \in resolving
JobForAsker ==
  /\ \A i \in DOMAIN Waiting : Asks(Waiting[i])
  /\ \A l \in lookups : l.state = "looking" => Asks(l)

(* A session that waits for its lookup has one answer on the way, and only
   one: either the thread still looks it up or one job is in the list. *)
Looking(o) == {l \in lookups : l.gen = o /\ l.state = "looking"}
JobsOf(o) == {i \in DOMAIN Waiting : Waiting[i].gen = o}
JobOnce ==
  /\ \A o \in resolving : Looking(o) # {} \/ JobsOf(o) # {}
  /\ \A o \in resolving : Looking(o) = {} \/ JobsOf(o) = {}
  /\ \A i, j \in DOMAIN Waiting : Waiting[i].gen = Waiting[j].gen => i = j

(* No wake-up is lost: while the thread may sleep in pselect with a job in the
   list, the signal is pending or a resolver thread is about to send it. *)
WakeUpComing ==
  pc = "select" /\ jobs # <<>> => signal \/ \E l \in lookups : l.state = "pushed"

(* One pass of handle_iteration goes as far as the last descriptor pselect
   reported, whatever handlers closed and opened meanwhile. *)
EveryReportSeen ==
  [][pc = "iterate" /\ pc' = "lock" => slave.r \cup slave.w \subseteq 0..at]_vars

(* A session in REQUEST_RESOLV leaves it without pselect's timeout: the signal
   of its resolver thread is not lost, whenever it comes. *)
LookupTold == \A o \in Gen : (o \in resolving) ~> (o \notin resolving)

(* selector.h:162: selector_select waits for events and dispatches them.  An
   event is given to the registration pselect reported it for. *)
EventForReported == Deliverable => <<at, sel.items[at].gen>> \in reported

(* What LookupTold rests on, besides the fairness: how far the thread is from
   having taken the jobs that are in the list. *)
Turn ==
  CASE pc = "loop" -> 2 * Kernel + 5
    [] pc = "select" -> 2 * Kernel + 4
    [] pc = "iterate" -> 2 * (last - at) + (IF event = "r" THEN 3 ELSE 2)
    [] pc = "lock" -> 1
    [] OTHER -> 0
Forward == 0 <= Turn' /\ Turn' < Turn

(* The job of o moves up in the list handle_block_notifications works on. *)
MovesUp(o) ==
  pc = "jobs" /\ pc' = "jobs" /\ \A i \in JobsOf(o) : i > 1 /\ i - 1 \in JobsOf(o)'

(* A session that goes on waiting keeps its lookup until that leaves a job, and
   keeps the job until it is handled, of which every step of the thread leaves
   less to come, whatever handlers of other sessions and later jobs do. *)
LookupDrawsNearer ==
  [][\A o \in resolving \cap resolving' :
       IF Looking(o) # {}
       THEN /\ Looking(o)' = Looking(o) \/ JobsOf(o)' # {}
            /\ (\E l \in Looking(o) : Push(l)) => JobsOf(o)' # {}
       ELSE /\ JobsOf(o) # {} /\ JobsOf(o)' # {}
            /\ Thread \/ Interrupted \/ Select => Forward \/ MovesUp(o)
            /\ Forward \/ MovesUp(o)
                 \/ (Turn' = Turn /\ pc' = pc /\ (pc = "jobs" => JobsOf(o)' = JobsOf(o)))
    ]_vars

=============================================================================
