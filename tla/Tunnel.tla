------------------------------- MODULE Tunnel -------------------------------
(***************************************************************************)
(* socks5_copy.c: the relay between a client and its final server, through *)
(* the two buffers of struct socks5.  buf["client"] is read_buffer, what   *)
(* was received from the client; buf["server"] is write_buffer.            *)
(*                                                                         *)
(* copy_data.interest, the duplex each side still wants, is left out: it   *)
(* is OP_READ | OP_WRITE from copy_init on, and the branches that take     *)
(* anything from it return DONE.  The sniffer only looks at the bytes.     *)
(***************************************************************************)
EXTENDS Buffer

CONSTANTS
  Blank,       \* what the memory of a new buffer holds
  Early,       \* bytes the client sent behind its request, already received
  MaxBytes,    \* bound: bytes each side sends
  Uint32,      \* how many values a uint32_t has: 2^32 in the code
  Resets       \* whether sockets may fail

Sides == {"client", "server"}
Other(s) == IF s = "client" THEN "server" ELSE "client"

(* The bytes of a side are numbered; Segment is those after the first m up to
   the n-th. *)
Segment(s, m, n) == [i \in 1..(n - m) |-> <<s, m + i>>]

ASSUME TunnelAssumption ==
  /\ Blank \in Byte /\ Sides \X (1..MaxBytes) \subseteq Byte
  /\ MaxBytes \in Nat
  /\ Limit > 0     \* socks5_new: the configured size and one more
  /\ Early \in 0..MaxBytes /\ Early < Limit
  /\ Resets \in BOOLEAN
  /\ Uint32 \in Nat \ {0}

VARIABLES
  st,               \* "COPY" or "DONE"
  buf,              \* the buffer of what each side sends
  interest,         \* the interests of each descriptor's selector item
  sent,             \* how many bytes each side has sent
  got,              \* how many of them recv() has returned
  end,              \* "open", "fin" or "reset": each side's socket
  out,              \* the bytes each side has been sent
  sent_byte,        \* metrics.c
  received_bytes    \* metrics.c

tvars == <<st, buf, interest, sent, got, end, out, sent_byte, received_bytes>>
peers == <<sent, end>>
relayed == <<buf, got, out, sent_byte, received_bytes>>

(* request_write goes to COPY with OP_READ on both descriptors.  Bytes that
   arrived with the request are behind it in read_buffer; write_buffer is
   empty, the reply having left. *)
Init ==
  /\ st = "COPY"
  /\ \E r \in 0..Limit :
       /\ r + Early <= Limit /\ (r = 0 <=> Early = 0)
       /\ buf = [s \in Sides |->
            IF s = "client"
              THEN Write([data |-> [i \in Cells |-> Blank], read |-> r, write |-> r],
                         Segment(s, 0, Early))
              ELSE [data |-> [i \in Cells |-> Blank], read |-> 0, write |-> 0]]
  /\ interest = [s \in Sides |-> {"OP_READ"}]
  /\ sent = [s \in Sides |-> IF s = "client" THEN Early ELSE 0]
  /\ got = sent
  /\ end = [s \in Sides |-> "open"]
  /\ out = [s \in Sides |-> <<>>]
  /\ sent_byte = 0 /\ received_bytes = 0

(* copy_determine_interests for one side and for the other, given the buffers
   as the handler leaves them. *)
EagerInterests(b) ==      \* a mutant: a full buffer is still read into
  [s \in Sides |-> {"OP_READ"} \cup {x \in {"OP_WRITE"} : CanRead(b[Other(s)])}]
LazyInterests(b) ==      \* a mutant: an empty buffer only is read into
  [s \in Sides |-> {x \in {"OP_READ"} : ~CanRead(b[s])}
                     \cup {x \in {"OP_WRITE"} : ReadSize(b[Other(s)]) > 1}]

DetermineInterests(b) ==
  [s \in Sides |-> {x \in {"OP_READ"} : CanWrite(b[s])}
                     \cup {x \in {"OP_WRITE"} : CanRead(b[Other(s)])}]

(* DONE: socks5_done unregisters and closes both descriptors.  What the
   buffers still hold is dropped. *)
Close ==
  /\ st' = "DONE"
  /\ interest' = [s \in Sides |-> {}]
  /\ UNCHANGED relayed

Readable(s) == sent[s] > got[s] \/ end[s] # "open"

(* recv() into the free part of the buffer; with no room it returns 0, as at
   the end of the stream. *)
Recv(s) ==
  IF end[s] = "reset" THEN -1
  ELSE IF sent[s] - got[s] <= WriteSize(buf[s]) THEN sent[s] - got[s]
  ELSE WriteSize(buf[s])

CopyRead(s) ==
  /\ st = "COPY" /\ "OP_READ" \in interest[s] /\ Readable(s)
  /\ LET n == Recv(s)
         b == [buf EXCEPT ![s] = Write(@, Segment(s, got[s], got[s] + n))]
     IN  \/ /\ n > 0
            /\ buf' = b
            /\ got' = [got EXCEPT ![s] = @ + n]
            /\ sent_byte' = sent_byte + (IF s = "client" THEN n ELSE 0)
            /\ interest' = DetermineInterests(b)
            /\ UNCHANGED <<st, out, received_bytes>>
         \/ /\ n <= 0
            /\ Close
  /\ UNCHANGED peers

(* send() takes a part of what there is to read in the other side's buffer. *)
Send(s) ==
  IF end[s] = "reset" THEN {-1}
  ELSE IF CanRead(buf[Other(s)]) THEN 1..ReadSize(buf[Other(s)])
  ELSE {0}

CopyWriteTwice(s) ==      \* a mutant: what was sent is not taken from the buffer
  /\ st = "COPY" /\ "OP_WRITE" \in interest[s]
  /\ \E n \in Send(s) :
       \/ /\ n >= 0
          /\ out' = [out EXCEPT ![s] = @ \o Peek(buf[Other(s)], n)]
          /\ UNCHANGED <<st, buf, interest, got, sent_byte, received_bytes>>
       \/ n < 0 /\ Close
  /\ UNCHANGED peers

CopyWrite(s) ==
  /\ st = "COPY" /\ "OP_WRITE" \in interest[s]
  /\ \E n \in Send(s) :
       \/ /\ n >= 0
          /\ LET b == [buf EXCEPT ![Other(s)] = ReadAdv(@, n)]
             IN  /\ buf' = b
                 /\ interest' = DetermineInterests(b)
          /\ out' = [out EXCEPT ![s] = @ \o Peek(buf[Other(s)], n)]
          /\ received_bytes' = received_bytes + (IF s = "client" THEN n ELSE 0)
          /\ UNCHANGED <<st, got, sent_byte>>
       \/ n < 0 /\ Close
  /\ UNCHANGED peers

(* server_config.c: the answer to GET RECEIVED BYTES, whose getter asks for the
   other counter, as the one of GET SENT BYTES does.  num_to_8bytes takes a
   uint32_t and shifts it by up to 56 bits, so this is what the last four bytes
   of the answer say; the four before them are undefined. *)
GetReceivedBytes == sent_byte % Uint32

(* The client and the final server. *)
PeerSend(s) ==
  /\ st = "COPY" /\ end[s] = "open" /\ sent[s] < MaxBytes
  /\ sent' = [sent EXCEPT ![s] = @ + 1]
  /\ UNCHANGED <<st, interest, end, relayed>>

PeerEnd(s) ==
  /\ st = "COPY"
  /\ \/ end[s] = "open" /\ end' = [end EXCEPT ![s] = "fin"]
     \/ Resets /\ end[s] # "reset" /\ end' = [end EXCEPT ![s] = "reset"]
  /\ UNCHANGED <<st, interest, sent, relayed>>

Next == \E s \in Sides : CopyRead(s) \/ CopyWrite(s) \/ PeerSend(s) \/ PeerEnd(s)

Spec == Init /\ [][Next]_tvars

(* The selector calls the handler of every descriptor that stays ready.  That
   a descriptor is writable is the peer's doing: it keeps reading. *)
FairSpec == Spec /\ \A s \in Sides : WF_tvars(CopyRead(s)) /\ WF_tvars(CopyWrite(s))

-----------------------------------------------------------------------------
(* Every variable keeps its type, and the pointers of the buffers the order
   that buffer.c asserts. *)
TypeOK ==
  /\ st \in {"COPY", "DONE"}
  /\ buf \in [Sides -> BufferType]
  /\ \A s \in Sides : buf[s].read <= buf[s].write
  /\ interest \in [Sides -> SUBSET {"OP_READ", "OP_WRITE"}]
  /\ sent \in [Sides -> 0..MaxBytes] /\ got \in [Sides -> 0..MaxBytes]
  /\ end \in [Sides -> {"open", "fin", "reset"}]
  /\ out \in [Sides -> Seq(Byte)]
  /\ sent_byte \in Nat /\ received_bytes \in Nat

(* However short the reads and the writes, what one side was sent followed by
   what waits in the buffer is what was received from the other: no byte is
   lost, repeated, reordered or sent back where it came from. *)
NothingLost ==
  \A s \in Sides : out[Other(s)] \o Contents(buf[s]) = Segment(s, 0, got[s])

(* copy_read and copy_write leave no direction stuck: a side that is not read
   has bytes waiting that the other side is offered. *)
NeverBothWait ==
  st = "COPY" => \A s \in Sides :
    \/ "OP_READ" \in interest[s]
    \/ "OP_WRITE" \in interest[Other(s)]

(* Nothing has moved since request_write left both descriptors with OP_READ. *)
Fresh ==
  /\ got["client"] = Early /\ got["server"] = 0 /\ out = [s \in Sides |-> <<>>]
  /\ interest = [s \in Sides |-> {"OP_READ"}]

(* The tunnel only ends when a side closed or failed.  The exception is a
   tunnel in which nothing has moved yet, of a client that filled read_buffer
   behind its request: COPY begins with OP_READ on it, and recv() without room
   looks like the end of its stream. *)
EndHasCause ==
  [][st = "COPY" /\ st' = "DONE" =>
       \/ \E s \in Sides : end[s] # "open"
       \/ Fresh /\ ~CanWrite(buf["client"])]_tvars

(* The two counters of metrics.c, which server.c logs at the end: sent_byte is
   what was taken from the client, but for the bytes it sent early, and
   received_bytes what was given to it.  What the administrator is shown of them
   is another matter, see ReceivedShown. *)
CountersAgree ==
  /\ sent_byte + Early = Len(out["server"]) + ReadSize(buf["client"])
  /\ received_bytes = Len(out["client"])

(* The administrator who asks for RECEIVED BYTES is told what the client was
   given.  It is not so: _get_received_bytes returns the bytes sent. *)
ReceivedShown == GetReceivedBytes = received_bytes % Uint32

(* Every byte a side sends reaches the other, or the tunnel ends.  Bytes the
   client sent behind its request wait for the first byte that follows them:
   nobody is told that they are there. *)
Stirred == sent["client"] > Early \/ sent["server"] > 0
Delivered ==
  \A s \in Sides : \A n \in 1..MaxBytes :
    sent[s] >= n /\ Stirred ~> Len(out[Other(s)]) >= n \/ st = "DONE"

(* The inductive invariant behind them: what the buffers hold, the interests
   that follow from it once a byte has moved, and empty buffers that start
   again. *)
Settled == interest = DetermineInterests(buf)

TunnelInv ==
  /\ TypeOK /\ NothingLost /\ CountersAgree
  /\ \A s \in Sides : got[s] <= sent[s] /\ (buf[s].read = buf[s].write => buf[s].write = 0)
  /\ st = "COPY" => Settled \/ Fresh

(* What Delivered rests on, besides the fairness.  Offered and Fetchable are when
   copy_write and copy_read are called for the bytes of s. *)
Offered(s) == "OP_WRITE" \in interest[Other(s)]
Fetchable(s) == "OP_READ" \in interest[s] /\ Readable(s)

(* Bytes that have not arrived have a handler that is called for them, whatever
   waits in the other direction; or, before the first byte of the tunnel, that
   byte has. *)
RelayDue ==
  st = "COPY" /\ Stirred => \A s \in Sides : Len(out[Other(s)]) < sent[s] =>
    \/ Offered(s) \/ Fetchable(s)
    \/ Fresh /\ Fetchable(Other(s))

(* The steps the bytes of s still have to take: each is received once, and
   sent on once. *)
Undelivered(s) == (sent[s] - got[s]) + (sent[s] - Len(out[Other(s)]))

(* No handler is called to move nothing, as long as the tunnel lasts, and the
   bytes of a side that are due stay due: neither the other direction nor a peer
   that ends takes that from them. *)
DeliveryDrawsNearer ==
  [][st' = "COPY" => \A s \in Sides :
       /\ CopyRead(s) \/ CopyWrite(Other(s)) => Undelivered(s)' < Undelivered(s)
       /\ \/ Undelivered(s)' < Undelivered(s)
          \/ /\ Undelivered(s)' = Undelivered(s) \/ sent'[s] > sent[s]
             /\ Offered(s) => Offered(s)'
             /\ Fetchable(s) => Fetchable(s)' \/ Offered(s)'
    ]_tvars

=============================================================================
