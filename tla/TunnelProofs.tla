---------------------------- MODULE TunnelProofs ----------------------------
(***************************************************************************)
(* The tunnel loses nothing, never has both sides wait, and ends only for  *)
(* a cause, for buffers of any size and any number of bytes.  TunnelInv is *)
(* inductive; the lemmas of BufferProofs say what a handler does to the    *)
(* buffer it uses, and the other buffer is untouched.  From it also what   *)
(* the delivery of the bytes rests on: a handler is due for each of them,  *)
(* and no call of one moves nothing.                                       *)
(***************************************************************************)
EXTENDS Tunnel, BufferProofs

(* The two sides. *)
LEMMA TwoSides ==
  /\ \A s \in Sides : Other(s) \in Sides /\ Other(s) # s /\ Other(Other(s)) = s
  /\ \A s \in Sides : s = "client" \/ s = "server"
  /\ \A s \in Sides : s = "client" <=> Other(s) = "server"
BY DEF Sides, Other

(* Numbered bytes are bytes, and consecutive segments make one. *)
LEMMA SegmentSeq ==
  ASSUME NEW s \in Sides, NEW m \in Nat, NEW n \in 0..MaxBytes, m <= n
  PROVE  Segment(s, m, n) \in Seq(Byte) /\ Len(Segment(s, m, n)) = n - m
<1>1. n - m \in Nat /\ \A i \in 1..(n - m) : m + i \in 1..MaxBytes
  BY TunnelAssumption
<1>2. \A i \in 1..(n - m) : <<s, m + i>> \in Byte
  BY <1>1, TunnelAssumption
<1> QED BY <1>1, <1>2 DEF Segment

LEMMA SegmentStart ==
  ASSUME NEW s \in Sides, NEW n \in 0..MaxBytes
  PROVE  Segment(s, 0, n) \in Seq(Byte) /\ Len(Segment(s, 0, n)) = n
<1>1. 0 \in Nat /\ 0 <= n /\ n - 0 = n
  BY TunnelAssumption
<1> QED BY <1>1, SegmentSeq

LEMMA SegmentsJoin ==
  ASSUME NEW s \in Sides, NEW m \in Nat, NEW n \in 0..MaxBytes, m <= n
  PROVE  Segment(s, 0, m) \o Segment(s, m, n) = Segment(s, 0, n)
<1> DEFINE a == Segment(s, 0, m)  b == Segment(s, m, n)  c == Segment(s, 0, n)
<1>1. m \in 0..MaxBytes /\ n - m \in Nat /\ n \in Nat /\ 0 <= n
  BY TunnelAssumption
<1>2. a \in Seq(Byte) /\ Len(a) = m
  BY <1>1, SegmentStart
<1>3. b \in Seq(Byte) /\ Len(b) = n - m
  BY SegmentSeq
<1>4. c \in Seq(Byte) /\ Len(c) = n
  BY <1>1, SegmentStart
<1>5. /\ \A i \in 1..m : a[i] = <<s, i>>
      /\ \A i \in 1..(n - m) : b[i] = <<s, m + i>>
      /\ \A i \in 1..n : c[i] = <<s, i>>
  BY <1>1 DEF Segment
<1> HIDE DEF a, b, c
<1>6. /\ a \o b \in Seq(Byte) /\ Len(a \o b) = n
      /\ \A i \in 1..n : (a \o b)[i] = c[i]
  <2>1. /\ a \o b \in Seq(Byte) /\ Len(a \o b) = m + (n - m)
        /\ \A i \in 1..(m + (n - m)) : (a \o b)[i] = IF i <= m THEN a[i] ELSE b[i - m]
    BY <1>2, <1>3, ConcatProperties
  <2>2. m + (n - m) = n
    BY <1>1
  <2>3. ASSUME NEW i \in 1..n, i > m PROVE b[i - m] = <<s, i>>
    <3>1. i - m \in 1..(n - m) /\ m + (i - m) = i
      BY <2>3, <1>1
    <3> QED BY <3>1, <1>5
  <2>4. ASSUME NEW i \in 1..n PROVE (a \o b)[i] = <<s, i>>
    <3>1. (a \o b)[i] = IF i <= m THEN a[i] ELSE b[i - m]
      BY <2>1, <2>2
    <3>2. CASE i <= m
      BY <3>1, <3>2, <1>1, <1>5
    <3>3. CASE ~ i <= m
      <4>1. (a \o b)[i] = b[i - m]
        BY <3>1, <3>3
      <4>2. i > m
        BY <3>3, <1>1
      <4> QED BY <4>1, <4>2, <2>3
    <3> QED BY <3>2, <3>3
  <2> QED BY <2>1, <2>2, <2>4, <1>5
<1>7. a \o b = c
  BY <1>4, <1>6, SeqEqual
<1> QED BY <1>7 DEF a, b, c

(* Concatenation of sequences of bytes. *)
LEMMA Associates ==
  \A p, q, r \in Seq(Byte) : (p \o q) \o r = p \o (q \o r)
<1>1. SUFFICES ASSUME NEW p \in Seq(Byte), NEW q \in Seq(Byte), NEW r \in Seq(Byte)
               PROVE  (p \o q) \o r = p \o (q \o r)
  OBVIOUS
<1> QED BY ConcatAssociative

LEMMA Lengths ==
  \A p, q \in Seq(Byte) : p \o q \in Seq(Byte) /\ Len(p \o q) = Len(p) + Len(q)
BY ConcatProperties

(* A sequence is its beginning and its end. *)
LEMMA SplitJoin ==
  ASSUME NEW q \in Seq(Byte), NEW n \in 0..Len(q)
  PROVE  SubSeq(q, 1, n) \o SubSeq(q, n + 1, Len(q)) = q
<1>1. Len(q) \in Nat
  BY LenProperties
<1>2. 1 \in 1..Len(q) + 1 /\ n \in 1 - 1..Len(q) /\ Len(q) \in n..Len(q)
  BY <1>1
<1>3. SubSeq(q, 1, n) \o SubSeq(q, n + 1, Len(q)) = SubSeq(q, 1, Len(q))
  BY <1>2, ConcatAdjacentSubSeq
<1> QED BY <1>3, SubSeqFull

(* What TunnelInv gives a handler of one side. *)
LEMMA Buffers ==
  ASSUME TunnelInv, NEW s \in Sides
  PROVE  /\ Ordered(buf[s]) /\ buf[s] \in BufferType
         /\ Contents(buf[s]) \in Seq(Byte) /\ Len(Contents(buf[s])) = ReadSize(buf[s])
         /\ ReadSize(buf[s]) \in Nat /\ WriteSize(buf[s]) \in Nat
         /\ CanRead(buf[s]) <=> ReadSize(buf[s]) > 0
         /\ CanWrite(buf[s]) <=> WriteSize(buf[s]) > 0
         /\ out[s] \in Seq(Byte) /\ got[s] \in 0..MaxBytes /\ sent[s] \in 0..MaxBytes
         /\ got[s] <= sent[s]
<1>1. Ordered(buf[s]) /\ buf[s] \in BufferType
  BY DEF TunnelInv, TypeOK, Ordered
<1>2. WriteSize(buf[s]) \in Nat /\ (CanWrite(buf[s]) <=> WriteSize(buf[s]) > 0)
  BY <1>1, LimitAssumption DEF BufferType, WriteSize, CanWrite
<1> QED BY <1>1, <1>2, ContentsSeq DEF TunnelInv, TypeOK

(* The interests are always sets of interests. *)
LEMMA InterestsType ==
  ASSUME NEW b
  PROVE  DetermineInterests(b) \in [Sides -> SUBSET {"OP_READ", "OP_WRITE"}]
BY DEF DetermineInterests

-----------------------------------------------------------------------------
(* The tunnel begins with nothing relayed. *)
LEMMA InitTunnel == Init => TunnelInv
<1> SUFFICES ASSUME Init PROVE TunnelInv
  OBVIOUS
<1> DEFINE z(r) == [data |-> [i \in Cells |-> Blank], read |-> r, write |-> r]
<1>1. PICK r \in 0..Limit :
        /\ r + Early <= Limit /\ (r = 0 <=> Early = 0)
        /\ buf = [s \in Sides |-> IF s = "client" THEN Write(z(r), Segment(s, 0, Early)) ELSE z(0)]
  BY DEF Init
<1>2. "client" \in Sides /\ "server" \in Sides
  BY DEF Sides
<1>3. Early \in 0..MaxBytes /\ Limit \in Nat /\ Blank \in Byte
  BY TunnelAssumption, LimitAssumption
<1>4. \A k \in 0..Limit : Ordered(z(k)) /\ z(k).read = k /\ z(k).write = k /\ ReadSize(z(k)) = 0
  BY <1>3 DEF Ordered, BufferType, ReadSize
<1>5. \A k \in 0..Limit : Contents(z(k)) = <<>>
  BY <1>4, ContentsSeq, EmptySeq
<1>6. Segment("client", 0, Early) \in Seq(Byte) /\ Len(Segment("client", 0, Early)) = Early
  BY <1>2, <1>3, SegmentStart
<1> HIDE DEF z
<1>7. Early <= WriteSize(z(r))
  BY <1>1, <1>3, <1>4 DEF WriteSize
<1>8. /\ Ordered(buf["client"]) /\ buf["client"].read = r /\ buf["client"].write = r + Early
      /\ Contents(buf["client"]) = Contents(z(r)) \o Segment("client", 0, Early)
  BY <1>1, <1>2, <1>4, <1>6, <1>7, WriteAppends
<1>9. Ordered(buf["server"]) /\ buf["server"].write = 0 /\ buf["server"].read = 0
      /\ Contents(buf["server"]) = <<>>
  BY <1>1, <1>2, <1>3, <1>4, <1>5
<1>10. Contents(buf["client"]) = Segment("client", 0, Early)
  BY <1>1, <1>5, <1>6, <1>8, ConcatEmptySeq
<1>11. /\ got = [s \in Sides |-> IF s = "client" THEN Early ELSE 0] /\ sent = got
       /\ out = [s \in Sides |-> <<>>]
  BY DEF Init
<1>12. TypeOK
  <2>1. buf \in [Sides -> BufferType] /\ \A s \in Sides : buf[s].read <= buf[s].write
    BY <1>1, <1>8, <1>9, TwoSides DEF Ordered
  <2>2. out \in [Sides -> Seq(Byte)]
    BY <1>11, EmptySeq
  <2>3. got \in [Sides -> 0..MaxBytes] /\ sent \in [Sides -> 0..MaxBytes]
    BY <1>3, <1>11, TunnelAssumption
  <2> QED BY <2>1, <2>2, <2>3 DEF Init, TypeOK
<1>13. NothingLost
  <2>1. Segment("server", 0, 0) = <<>>
    BY DEF Segment
  <2>2. out["server"] \o Contents(buf["client"]) = Segment("client", 0, got["client"])
    BY <1>2, <1>6, <1>10, <1>11, ConcatEmptySeq
  <2>3. out["client"] \o Contents(buf["server"]) = Segment("server", 0, got["server"])
    BY <1>2, <1>9, <1>11, <2>1, ConcatEmptySeq, EmptySeq
  <2> QED BY <2>2, <2>3 DEF NothingLost, Sides, Other
<1>14. CountersAgree
  BY <1>1, <1>2, <1>3, <1>8, <1>11, EmptySeq DEF Init, CountersAgree, ReadSize
<1>15. \A s \in Sides : got[s] <= sent[s] /\ (buf[s].read = buf[s].write => buf[s].write = 0)
  BY <1>1, <1>3, <1>8, <1>9, <1>11, TwoSides
<1>16. Fresh
  BY <1>2, <1>11 DEF Init, Fresh
<1> QED BY <1>12, <1>13, <1>14, <1>15, <1>16 DEF TunnelInv

-----------------------------------------------------------------------------
LEMMA StaysWithin ==
  ASSUME NEW m \in Nat, NEW g \in 0..m, NEW a \in 0..m, NEW n \in Nat, n <= a - g
  PROVE  g \in Nat /\ g + n \in 0..m /\ g + n - g = n /\ g <= g + n /\ g + n <= a
OBVIOUS

(* copy_read that received n bytes: they are appended to the buffer of s. *)
LEMMA ReadStep ==
  ASSUME TunnelInv, NEW s \in Sides, NEW n \in Nat, n > 0,
         n <= sent[s] - got[s], n <= WriteSize(buf[s]),
         buf' = [buf EXCEPT ![s] = Write(@, Segment(s, got[s], got[s] + n))],
         got' = [got EXCEPT ![s] = @ + n],
         sent_byte' = sent_byte + (IF s = "client" THEN n ELSE 0),
         interest' = DetermineInterests(buf'),
         UNCHANGED <<st, out, received_bytes, sent, end>>
  PROVE  TunnelInv'
<1> DEFINE seg == Segment(s, got[s], got[s] + n)
<1>1. /\ Ordered(buf[s]) /\ Contents(buf[s]) \in Seq(Byte)
      /\ got[s] \in 0..MaxBytes /\ sent[s] \in 0..MaxBytes /\ out[Other(s)] \in Seq(Byte)
      /\ ReadSize(buf[s]) \in Nat
  BY Buffers, TwoSides
<1>2. got[s] \in Nat /\ got[s] + n \in 0..MaxBytes /\ got[s] + n - got[s] = n
      /\ got[s] <= got[s] + n /\ got[s] + n <= sent[s] /\ MaxBytes \in Nat
  <2>1. MaxBytes \in Nat
    BY TunnelAssumption, Zenon
  <2> QED BY <1>1, <2>1, StaysWithin
<1>3. seg \in Seq(Byte) /\ Len(seg) = n
  <2>1. PICK k \in 0..MaxBytes : k = got[s] + n
    BY <1>2
  <2>2. Segment(s, got[s], k) \in Seq(Byte) /\ Len(Segment(s, got[s], k)) = k - got[s]
    BY <1>2, <2>1, SegmentSeq
  <2>3. seg = Segment(s, got[s], k) /\ k - got[s] = n
    BY <1>2, <2>1
  <2> QED BY <2>2, <2>3
<1> HIDE DEF seg
<1>4. /\ Ordered(buf'[s]) /\ buf'[s].read = buf[s].read /\ buf'[s].write = buf[s].write + n
      /\ Contents(buf'[s]) = Contents(buf[s]) \o seg
  <2>1. buf'[s] = Write(buf[s], seg)
    <3>1. buf \in [Sides -> BufferType]
      BY DEF TunnelInv, TypeOK
    <3>2. buf' = [buf EXCEPT ![s] = Write(@, seg)]
      BY DEF seg
    <3> QED BY <3>1, <3>2
  <2> DEFINE w == Write(buf[s], seg)
  <2>2. Len(seg) <= WriteSize(buf[s])
    BY <1>3
  <2>3. /\ Ordered(w) /\ w.read = buf[s].read /\ w.write = buf[s].write + Len(seg)
        /\ Contents(w) = Contents(buf[s]) \o seg
    BY <1>1, <1>3, <2>2, WriteAppends
  <2> HIDE DEF w
  <2> QED BY <1>3, <2>1, <2>3 DEF w
<1>5. \A x \in Sides : x # s => buf'[x] = buf[x] /\ got'[x] = got[x]
  BY DEF TunnelInv, TypeOK
<1>6. got'[s] = got[s] + n
  BY DEF TunnelInv, TypeOK
<1>7. TypeOK'
  <2>1. buf' \in [Sides -> BufferType] /\ \A x \in Sides : buf'[x].read <= buf'[x].write
    BY <1>4, <1>5 DEF TunnelInv, TypeOK, Ordered
  <2>2. got' \in [Sides -> 0..MaxBytes]
    BY <1>2 DEF TunnelInv, TypeOK
  <2>3. sent_byte' \in Nat
    BY DEF TunnelInv, TypeOK
  <2>4. interest' \in [Sides -> SUBSET {"OP_READ", "OP_WRITE"}]
    BY InterestsType
  <2> QED BY <2>1, <2>2, <2>3, <2>4 DEF TunnelInv, TypeOK
<1>8. NothingLost'
  <2>1. Segment(s, 0, got[s]) \o seg = Segment(s, 0, got'[s])
    BY <1>2, <1>6, SegmentsJoin DEF seg
  <2>2. out[Other(s)] \o Contents(buf[s]) = Segment(s, 0, got[s])
    BY DEF TunnelInv, NothingLost
  <2>3. out[Other(s)] \o (Contents(buf[s]) \o seg) = (out[Other(s)] \o Contents(buf[s])) \o seg
    BY <1>1, <1>3, Associates
  <2>4. out'[Other(s)] \o Contents(buf'[s]) = Segment(s, 0, got'[s])
    BY <1>4, <2>1, <2>2, <2>3
  <2>5. \A x \in Sides : x # s => out'[Other(x)] \o Contents(buf'[x]) = Segment(x, 0, got'[x])
    BY <1>5 DEF TunnelInv, NothingLost
  <2> QED BY <2>4, <2>5 DEF NothingLost
<1>9. CountersAgree'
  <2>1. ReadSize(buf'[s]) = ReadSize(buf[s]) + n
    BY <1>1, <1>4 DEF ReadSize, Ordered, BufferType
  <2>2. CASE s = "client"
    <3>1. ReadSize(buf'["client"]) = ReadSize(buf["client"]) + n /\ sent_byte' = sent_byte + n
      BY <2>1, <2>2
    <3>2. /\ sent_byte \in Nat /\ Early \in Nat
          /\ sent_byte + Early = Len(out["server"]) + ReadSize(buf["client"])
      BY TunnelAssumption DEF TunnelInv, TypeOK, CountersAgree
    <3>3. Len(out["server"]) \in Nat /\ ReadSize(buf["client"]) \in Nat
      BY Buffers, LenProperties DEF Sides
    <3>4. sent_byte' + Early = Len(out'["server"]) + ReadSize(buf'["client"])
      BY <3>1, <3>2, <3>3
    <3> QED BY <3>4 DEF TunnelInv, CountersAgree
  <2>3. CASE s = "server"
    <3>1. buf'["client"] = buf["client"] /\ sent_byte' = sent_byte
      BY <1>5, <2>3 DEF Sides, TunnelInv, TypeOK
    <3> QED BY <3>1 DEF TunnelInv, CountersAgree
  <2> QED BY <2>2, <2>3, TwoSides
<1>10. \A x \in Sides : got'[x] <= sent'[x] /\ (buf'[x].read = buf'[x].write => buf'[x].write = 0)
  <2>1. got'[s] <= sent'[s]
    BY <1>2, <1>6
  <2>2. buf[s].read \in Nat /\ buf[s].write \in Nat /\ buf[s].read <= buf[s].write
    BY <1>1 DEF Ordered, BufferType
  <2>3. buf'[s].read # buf'[s].write
    BY <1>4, <2>2
  <2> QED BY <2>1, <2>3, <1>5 DEF TunnelInv
<1>11. Settled'
  BY DEF Settled
<1> QED BY <1>7, <1>8, <1>9, <1>10, <1>11 DEF TunnelInv

(* copy_write that sent n bytes: they leave the buffer of the other side. *)
LEMMA WriteStep ==
  ASSUME TunnelInv, NEW s \in Sides, NEW n \in 0..ReadSize(buf[Other(s)]),
         buf' = [buf EXCEPT ![Other(s)] = ReadAdv(@, n)],
         interest' = DetermineInterests(buf'),
         out' = [out EXCEPT ![s] = @ \o Peek(buf[Other(s)], n)],
         received_bytes' = received_bytes + (IF s = "client" THEN n ELSE 0),
         UNCHANGED <<st, got, sent_byte, sent, end>>
  PROVE  TunnelInv'
<1> DEFINE o == Other(s)
<1>0. o \in Sides /\ o # s /\ Other(o) = s /\ \A x \in Sides : x # o <=> Other(x) # s
  BY TwoSides DEF Sides, Other
<1> HIDE DEF o
<1>1. /\ Ordered(buf[o]) /\ Contents(buf[o]) \in Seq(Byte) /\ out[s] \in Seq(Byte)
      /\ Len(Contents(buf[o])) = ReadSize(buf[o]) /\ ReadSize(buf[o]) \in Nat
  BY <1>0, Buffers
<1>2. n \in 0..ReadSize(buf[o]) /\ buf'[o] = ReadAdv(buf[o], n)
  BY <1>0 DEF o, TunnelInv, TypeOK
<1>3. /\ Ordered(buf'[o]) /\ ReadSize(buf'[o]) = ReadSize(buf[o]) - n
      /\ Contents(buf'[o]) = SubSeq(Contents(buf[o]), n + 1, ReadSize(buf[o]))
      /\ buf'[o].read = buf'[o].write => buf'[o].write = 0
  BY <1>1, <1>2, ReadAdvRemoves
<1>4. \A x \in Sides : x # o => buf'[x] = buf[x]
  BY DEF o, TunnelInv, TypeOK
<1>5. \A x \in Sides : x # s => out'[x] = out[x]
  BY DEF TunnelInv, TypeOK
<1>6. Peek(buf[o], n) = SubSeq(Contents(buf[o]), 1, n)
  BY <1>1, <1>2, PeekIsPrefix
<1>7. Peek(buf[o], n) \in Seq(Byte) /\ Len(Peek(buf[o], n)) = n
  <2>1. \A i \in 1..n : Contents(buf[o])[i] \in Byte
    BY <1>1, <1>2, ElementOfSeq
  <2> QED BY <1>2, <1>1, <1>6, <2>1, SubSeqProperties
<1>8. out'[s] = out[s] \o Peek(buf[o], n)
  BY DEF o, TunnelInv, TypeOK
<1>9. out'[s] \in Seq(Byte) /\ Len(out'[s]) = Len(out[s]) + n
  BY <1>1, <1>7, <1>8, Lengths
<1>10. TypeOK'
  <2>1. buf' \in [Sides -> BufferType] /\ \A x \in Sides : buf'[x].read <= buf'[x].write
    <3>1. \A x \in Sides : Ordered(buf'[x])
      BY <1>3, <1>4, Buffers
    <3>2. buf' = [x \in Sides |-> buf'[x]]
      BY DEF TunnelInv, TypeOK
    <3> QED BY <3>1, <3>2 DEF Ordered
  <2>2. out' \in [Sides -> Seq(Byte)]
    <3>1. \A x \in Sides : out'[x] \in Seq(Byte)
      BY <1>5, <1>9, Buffers
    <3>2. out' = [x \in Sides |-> out'[x]]
      BY DEF TunnelInv, TypeOK
    <3> QED BY <3>1, <3>2
  <2>3. received_bytes' \in Nat
    BY <1>1, <1>2 DEF TunnelInv, TypeOK
  <2>4. interest' \in [Sides -> SUBSET {"OP_READ", "OP_WRITE"}]
    BY InterestsType
  <2> QED BY <2>1, <2>2, <2>3, <2>4 DEF TunnelInv, TypeOK
<1>11. NothingLost'
  <2>1. Peek(buf[o], n) \o Contents(buf'[o]) = Contents(buf[o])
    BY <1>1, <1>2, <1>3, <1>6, SplitJoin
  <2>2. Contents(buf'[o]) \in Seq(Byte)
    BY <1>3, ContentsSeq
  <2>3. (out[s] \o Peek(buf[o], n)) \o Contents(buf'[o])
          = out[s] \o (Peek(buf[o], n) \o Contents(buf'[o]))
    BY <1>1, <1>7, <2>2, Associates
  <2>4. out[s] \o Contents(buf[o]) = Segment(o, 0, got[o])
    BY <1>0 DEF TunnelInv, NothingLost
  <2>5. out'[Other(o)] \o Contents(buf'[o]) = Segment(o, 0, got'[o])
    BY <1>0, <1>8, <2>1, <2>3, <2>4
  <2>6. \A x \in Sides : x # o => out'[Other(x)] = out[Other(x)]
    BY <1>0, <1>5, TwoSides
  <2>7. \A x \in Sides : x # o => out'[Other(x)] \o Contents(buf'[x]) = Segment(x, 0, got'[x])
    BY <1>4, <2>6 DEF TunnelInv, NothingLost
  <2> QED BY <2>5, <2>7 DEF NothingLost
<1>12. CountersAgree'
  <2>1. /\ sent_byte \in Nat /\ received_bytes \in Nat /\ Early \in Nat
        /\ sent_byte + Early = Len(out["server"]) + ReadSize(buf["client"])
        /\ received_bytes = Len(out["client"])
    BY TunnelAssumption DEF TunnelInv, TypeOK, CountersAgree
  <2>2. /\ Len(out["server"]) \in Nat /\ ReadSize(buf["client"]) \in Nat
        /\ Len(out["client"]) \in Nat
    BY Buffers, LenProperties DEF Sides
  <2>3. CASE s = "client"
    <3>1. o = "server" /\ received_bytes' = received_bytes + n
      BY <2>3 DEF o, Other
    <3>2. Len(out'["client"]) = Len(out["client"]) + n
      BY <1>9, <2>3
    <3>3. out'["server"] = out["server"] /\ buf'["client"] = buf["client"]
      BY <1>4, <1>5, <2>3, <3>1 DEF Sides
    <3> QED BY <2>1, <2>2, <3>1, <3>2, <3>3 DEF CountersAgree
  <2>4. CASE s = "server"
    <3>1. o = "client" /\ received_bytes' = received_bytes
      BY <2>1, <2>4 DEF o, Other
    <3>2. Len(out'["server"]) = Len(out["server"]) + n
          /\ ReadSize(buf'["client"]) = ReadSize(buf["client"]) - n
      BY <1>3, <1>9, <2>4, <3>1
    <3>3. out'["client"] = out["client"]
      BY <1>5, <2>4 DEF Sides
    <3>4. n \in Nat /\ sent_byte' = sent_byte
      BY <1>1, <1>2
    <3>5. sent_byte' + Early = Len(out'["server"]) + ReadSize(buf'["client"])
      <4>1. Len(out'["server"]) + ReadSize(buf'["client"])
              = (Len(out["server"]) + n) + (ReadSize(buf["client"]) - n)
        BY <3>2
      <4>2. (Len(out["server"]) + n) + (ReadSize(buf["client"]) - n)
              = Len(out["server"]) + ReadSize(buf["client"])
        BY <2>2, <3>4
      <4> QED BY <2>1, <3>4, <4>1, <4>2
    <3> QED BY <2>1, <3>1, <3>3, <3>5 DEF CountersAgree
  <2> QED BY <2>3, <2>4, TwoSides
<1>13. \A x \in Sides : got'[x] <= sent'[x] /\ (buf'[x].read = buf'[x].write => buf'[x].write = 0)
  BY <1>3, <1>4 DEF TunnelInv
<1>14. Settled'
  BY DEF Settled
<1> QED BY <1>10, <1>11, <1>12, <1>13, <1>14 DEF TunnelInv

(* A step that moves no byte, and either leaves the interests or ends. *)
LEMMA IdleStep ==
  ASSUME TunnelInv, UNCHANGED relayed,
         UNCHANGED <<st, interest>> \/ (st' = "DONE" /\ interest' = [s \in Sides |-> {}]),
         sent' \in [Sides -> 0..MaxBytes], \A s \in Sides : sent[s] <= sent'[s],
         end' \in [Sides -> {"open", "fin", "reset"}]
  PROVE  TunnelInv'
<1>1. TypeOK'
  BY DEF TunnelInv, TypeOK, relayed
<1>2. NothingLost' /\ CountersAgree'
  BY DEF TunnelInv, NothingLost, CountersAgree, relayed
<1>3. \A s \in Sides : got'[s] <= sent'[s] /\ (buf'[s].read = buf'[s].write => buf'[s].write = 0)
  <2>1. \A s \in Sides : got[s] <= sent[s] /\ got[s] \in Int /\ sent[s] \in Int /\ sent'[s] \in Int
    BY TunnelAssumption DEF TunnelInv, TypeOK
  <2> QED BY <2>1 DEF TunnelInv, relayed
<1>4. (st = "COPY" => Settled \/ Fresh) => (st' = "COPY" => Settled' \/ Fresh')
  BY DEF relayed, Settled, Fresh
<1> QED BY <1>1, <1>2, <1>3, <1>4 DEF TunnelInv

(* What recv() may return, and why it may return nothing. *)
LEMMA RecvRange ==
  ASSUME TunnelInv, NEW s \in Sides, Readable(s), Recv(s) > 0
  PROVE  Recv(s) \in Nat /\ Recv(s) <= sent[s] - got[s] /\ Recv(s) <= WriteSize(buf[s])
<1>1. sent[s] - got[s] \in Int /\ WriteSize(buf[s]) \in Nat
  BY Buffers, TunnelAssumption
<1>2. end[s] # "reset"
  BY DEF Recv
<1> QED BY <1>1, <1>2 DEF Recv

(* The step of copy_read. *)
LEMMA CopyReadStep ==
  ASSUME TunnelInv, NEW s \in Sides, CopyRead(s)
  PROVE  TunnelInv'
<1> DEFINE n == Recv(s)
<1>1. Readable(s) /\ UNCHANGED <<sent, end>>
  BY DEF CopyRead, peers
<1>2. CASE /\ n > 0
           /\ buf' = [buf EXCEPT ![s] = Write(@, Segment(s, got[s], got[s] + n))]
           /\ got' = [got EXCEPT ![s] = @ + n]
           /\ sent_byte' = sent_byte + (IF s = "client" THEN n ELSE 0)
           /\ interest' = DetermineInterests(buf')
           /\ UNCHANGED <<st, out, received_bytes>>
  <2>1. n \in Nat /\ n <= sent[s] - got[s] /\ n <= WriteSize(buf[s])
    BY <1>1, <1>2, RecvRange
  <2> HIDE DEF n
  <2> QED BY <1>1, <1>2, <2>1, ReadStep
<1>3. CASE Close
  <2>1. sent' \in [Sides -> 0..MaxBytes] /\ \A x \in Sides : sent[x] <= sent'[x]
    BY <1>1, TunnelAssumption DEF TunnelInv, TypeOK
  <2>2. end' \in [Sides -> {"open", "fin", "reset"}]
    BY <1>1 DEF TunnelInv, TypeOK
  <2> QED BY <1>3, <2>1, <2>2, IdleStep DEF Close
<1> QED BY <1>2, <1>3 DEF CopyRead

(* The step of copy_write. *)
LEMMA CopyWriteStep ==
  ASSUME TunnelInv, NEW s \in Sides, CopyWrite(s)
  PROVE  TunnelInv'
<1>1. UNCHANGED <<sent, end>>
  BY DEF CopyWrite, peers
<1>2. PICK n \in Send(s) :
        \/ /\ n >= 0
           /\ buf' = [buf EXCEPT ![Other(s)] = ReadAdv(@, n)]
           /\ interest' = DetermineInterests(buf')
           /\ out' = [out EXCEPT ![s] = @ \o Peek(buf[Other(s)], n)]
           /\ received_bytes' = received_bytes + (IF s = "client" THEN n ELSE 0)
           /\ UNCHANGED <<st, got, sent_byte>>
        \/ Close
  BY DEF CopyWrite
<1>3. CASE n >= 0 /\ ~Close
  <2>1. ReadSize(buf[Other(s)]) \in Nat
    BY Buffers, TwoSides
  <2>2. n \in 0..ReadSize(buf[Other(s)])
    BY <1>3, <2>1 DEF Send
  <2> QED BY <1>1, <1>2, <1>3, <2>2, WriteStep
<1>4. CASE Close
  <2>1. sent' \in [Sides -> 0..MaxBytes] /\ \A x \in Sides : sent[x] <= sent'[x]
    BY <1>1, TunnelAssumption DEF TunnelInv, TypeOK
  <2>2. end' \in [Sides -> {"open", "fin", "reset"}]
    BY <1>1 DEF TunnelInv, TypeOK
  <2> QED BY <1>4, <2>1, <2>2, IdleStep DEF Close
<1> QED BY <1>2, <1>3, <1>4

(* Every step keeps TunnelInv. *)
LEMMA TunnelStep ==
  ASSUME TunnelInv, [Next]_tvars
  PROVE  TunnelInv'
<1>1. ASSUME NEW s \in Sides, PeerSend(s) PROVE TunnelInv'
  <2>1. sent[s] + 1 \in 0..MaxBytes /\ sent[s] \in Nat
    BY <1>1, TunnelAssumption DEF PeerSend, TunnelInv, TypeOK
  <2>2. sent' \in [Sides -> 0..MaxBytes]
    BY <1>1, <2>1 DEF PeerSend, TunnelInv, TypeOK
  <2>3. \A x \in Sides : sent[x] <= sent'[x]
    <3>1. \A x \in Sides : sent[x] \in Nat
      BY DEF TunnelInv, TypeOK
    <3> QED BY <1>1, <3>1 DEF PeerSend, TunnelInv, TypeOK
  <2>4. end' \in [Sides -> {"open", "fin", "reset"}]
    BY <1>1 DEF PeerSend, TunnelInv, TypeOK
  <2> QED BY <1>1, <2>2, <2>3, <2>4, IdleStep DEF PeerSend
<1>2. ASSUME NEW s \in Sides, PeerEnd(s) PROVE TunnelInv'
  <2>1. sent' \in [Sides -> 0..MaxBytes] /\ \A x \in Sides : sent[x] <= sent'[x]
    <3>1. \A x \in Sides : sent[x] \in Nat
      BY DEF TunnelInv, TypeOK
    <3> QED BY <1>2, <3>1 DEF PeerEnd, TunnelInv, TypeOK
  <2>2. end' \in [Sides -> {"open", "fin", "reset"}]
    BY <1>2 DEF PeerEnd, TunnelInv, TypeOK
  <2> QED BY <1>2, <2>1, <2>2, IdleStep DEF PeerEnd
<1>3. CASE UNCHANGED tvars
  <2>1. \A s \in Sides : sent[s] <= sent'[s]
    BY <1>3 DEF tvars, TunnelInv, TypeOK
  <2> QED BY <1>3, <2>1, IdleStep DEF tvars, relayed, TunnelInv, TypeOK
<1> QED BY <1>1, <1>2, <1>3, CopyReadStep, CopyWriteStep DEF Next

-----------------------------------------------------------------------------
(* TunnelInv holds in every reachable state. *)
THEOREM TunnelInductive == Spec => []TunnelInv
BY InitTunnel, TunnelStep, PTL DEF Spec

(* No byte is lost, repeated or reordered while it is relayed. *)
THEOREM RelayedInOrder == Spec => []NothingLost
<1>1. TunnelInv => NothingLost
  BY DEF TunnelInv
<1> QED BY <1>1, TunnelInductive, PTL

(* Every variable of the tunnel keeps its type. *)
THEOREM TunnelTypes == Spec => []TypeOK
<1>1. TunnelInv => TypeOK
  BY DEF TunnelInv
<1> QED BY <1>1, TunnelInductive, PTL

(* The byte counters tell the traffic. *)
THEOREM TrafficCounted == Spec => []CountersAgree
<1>1. TunnelInv => CountersAgree
  BY DEF TunnelInv
<1> QED BY <1>1, TunnelInductive, PTL

(* An empty buffer of a tunnel has all its room. *)
LEMMA EmptyHasRoom ==
  ASSUME TunnelInv, NEW s \in Sides
  PROVE  CanWrite(buf[s]) \/ CanRead(buf[s])
<1>1. buf[s].read \in 0..Limit /\ buf[s].write \in 0..Limit /\ Limit \in Nat /\ Limit > 0
      /\ buf[s].read <= buf[s].write /\ (buf[s].read = buf[s].write => buf[s].write = 0)
  BY TunnelAssumption, LimitAssumption DEF TunnelInv, TypeOK, BufferType
<1> QED BY <1>1 DEF CanRead, CanWrite

(* Neither direction is ever stuck on the other. *)
THEOREM OneSideServed == Spec => []NeverBothWait
<1>1. TunnelInv => NeverBothWait
  <2> SUFFICES ASSUME TunnelInv, st = "COPY", NEW s \in Sides
               PROVE  "OP_READ" \in interest[s] \/ "OP_WRITE" \in interest[Other(s)]
    BY DEF NeverBothWait
  <2>1. CASE Settled
    BY <2>1, EmptyHasRoom, TwoSides DEF Settled, DetermineInterests
  <2>2. CASE Fresh
    BY <2>2 DEF Fresh
  <2> QED BY <2>1, <2>2 DEF TunnelInv
<1> QED BY <1>1, TunnelInductive, PTL

(* A tunnel ends because a side closed or failed, or at its first step, of a
   client that had filled its buffer before the tunnel began. *)
LEMMA EndStep ==
  ASSUME TunnelInv, Next, st = "COPY", st' = "DONE",
         \A s \in Sides : end[s] = "open"
  PROVE  Fresh /\ ~CanWrite(buf["client"])
<1>1. PICK s \in Sides : CopyRead(s) \/ CopyWrite(s)
  BY DEF Next, PeerSend, PeerEnd
<1>2. CASE CopyWrite(s)
  <2>1. \A n \in Send(s) : ~(n < 0)
    BY Buffers, TwoSides DEF Send
  <2> QED BY <1>2, <2>1 DEF CopyWrite
<1>3. CASE CopyRead(s)
  <2>1. Recv(s) <= 0 /\ "OP_READ" \in interest[s] /\ Readable(s)
    BY <1>3 DEF CopyRead
  <2>2. sent[s] > got[s]
    BY <2>1 DEF Readable
  <2>3. Recv(s) = IF sent[s] - got[s] <= WriteSize(buf[s]) THEN sent[s] - got[s]
                  ELSE WriteSize(buf[s])
    BY DEF Recv
  <2>4. sent[s] \in Nat /\ got[s] \in Nat /\ WriteSize(buf[s]) \in Nat
        /\ (CanWrite(buf[s]) <=> WriteSize(buf[s]) > 0)
    BY Buffers
  <2>5. ~CanWrite(buf[s])
    BY <2>1, <2>2, <2>3, <2>4
  <2>6. CASE Settled
    BY <2>1, <2>5, <2>6 DEF Settled, DetermineInterests
  <2>7. CASE Fresh
    <3>1. CASE s = "server"
      <4>1. Segment("server", 0, 0) = <<>> /\ <<>> \in Seq(Byte)
        BY DEF Segment
      <4>2. out["client"] \o Contents(buf["server"]) = <<>>
        BY <2>7, <4>1, TwoSides DEF Fresh, TunnelInv, NothingLost, Sides, Other
      <4>3. /\ out["client"] \in Seq(Byte) /\ Contents(buf["server"]) \in Seq(Byte)
            /\ Len(Contents(buf["server"])) = ReadSize(buf["server"])
            /\ CanRead(buf["server"]) <=> ReadSize(buf["server"]) > 0
        BY Buffers DEF Sides
      <4>4. Contents(buf["server"]) = <<>>
        BY <4>2, <4>3, ConcatEqualIffEmpty
      <4>5. ~CanRead(buf["server"])
        BY <4>3, <4>4
      <4> QED BY <2>5, <3>1, <4>5, EmptyHasRoom
    <3> QED BY <2>5, <2>7, <3>1, TwoSides
  <2> QED BY <2>6, <2>7 DEF TunnelInv
<1> QED BY <1>1, <1>2, <1>3

THEOREM EndsForCause == Spec => EndHasCause
<1>1. TunnelInv /\ [Next]_tvars =>
        [st = "COPY" /\ st' = "DONE" =>
           \/ \E s \in Sides : end[s] # "open"
           \/ Fresh /\ ~CanWrite(buf["client"])]_tvars
  BY EndStep
<1> QED BY <1>1, TunnelInductive, PTL DEF Spec, EndHasCause

-----------------------------------------------------------------------------
(* What was received of a side was sent on, or is in its buffer. *)
LEMMA OnItsWay ==
  ASSUME TunnelInv, NEW s \in Sides
  PROVE  /\ Len(out[Other(s)]) \in Nat /\ ReadSize(buf[s]) \in Nat
         /\ got[s] \in Nat /\ sent[s] \in Nat /\ got[s] <= sent[s]
         /\ Len(out[Other(s)]) + ReadSize(buf[s]) = got[s]
<1>1. /\ got[s] \in 0..MaxBytes /\ sent[s] \in 0..MaxBytes /\ got[s] <= sent[s]
      /\ out[Other(s)] \in Seq(Byte) /\ Contents(buf[s]) \in Seq(Byte)
      /\ Len(Contents(buf[s])) = ReadSize(buf[s]) /\ ReadSize(buf[s]) \in Nat
  BY Buffers, TwoSides
<1>2. Len(out[Other(s)] \o Contents(buf[s])) = Len(out[Other(s)]) + ReadSize(buf[s])
  BY <1>1, Lengths
<1>3. Len(Segment(s, 0, got[s])) = got[s]
  BY <1>1, SegmentStart
<1>4. out[Other(s)] \o Contents(buf[s]) = Segment(s, 0, got[s])
  BY DEF TunnelInv, NothingLost
<1>5. Len(out[Other(s)]) \in Nat
  BY <1>1, LenProperties
<1> QED BY <1>1, <1>2, <1>3, <1>4, <1>5

(* While the tunnel lasts, bytes that have not reached the other side are read
   or written next: an interest was set for whatever a buffer holds or has room
   for, the first time any byte moved. *)
THEOREM RelayNeverStalls == Spec => []RelayDue
<1>1. ASSUME TunnelInv, st = "COPY", Stirred, NEW s \in Sides, Len(out[Other(s)]) < sent[s]
      PROVE  Offered(s) \/ Fetchable(s) \/ (Fresh /\ Fetchable(Other(s)))
  <2>1. CASE Settled
    <3>1. CASE CanRead(buf[s])
      BY <2>1, <3>1, TwoSides DEF Settled, DetermineInterests, Offered
    <3>2. CASE ~CanRead(buf[s])
      <4>1. ReadSize(buf[s]) = 0
        BY <1>1, <3>2, Buffers
      <4>2. sent[s] > got[s]
        BY <1>1, <4>1, OnItsWay
      <4>3. "OP_READ" \in interest[s]
        BY <1>1, <2>1, <3>2, EmptyHasRoom DEF Settled, DetermineInterests
      <4> QED BY <4>2, <4>3 DEF Fetchable, Readable
    <3> QED BY <3>1, <3>2
  <2>2. CASE Fresh
    <3>1. \A x \in Sides : "OP_READ" \in interest[x]
      BY <2>2 DEF Fresh
    <3>2. sent["client"] > got["client"] \/ sent["server"] > got["server"]
      BY <1>1, <2>2 DEF Stirred, Fresh
    <3>3. Fetchable("client") \/ Fetchable("server")
      BY <3>1, <3>2 DEF Fetchable, Readable, Sides
    <3>4. (s = "client" /\ Other(s) = "server") \/ (s = "server" /\ Other(s) = "client")
      BY DEF Sides, Other
    <3> QED BY <2>2, <3>3, <3>4
  <2> QED BY <1>1, <2>1, <2>2 DEF TunnelInv
<1>2. TunnelInv => RelayDue
  BY <1>1 DEF RelayDue
<1> QED BY <1>2, TunnelInductive, PTL

(* What has arrived or not, in numbers. *)
LEMMA Undone ==
  ASSUME NEW a \in Nat, NEW g \in Nat, NEW l \in Nat, NEW n \in Nat, n > 0
  PROVE  /\ (a - (g + n)) + (a - l) < (a - g) + (a - l)
         /\ (a - g) + (a - (l + n)) < (a - g) + (a - l)
OBVIOUS

(* copy_read of s, if the tunnel goes on, receives something. *)
LEMMA ReadMoves ==
  ASSUME TunnelInv, NEW s \in Sides, CopyRead(s), st' = "COPY"
  PROVE  /\ \E n \in Nat \ {0} : got' = [got EXCEPT ![s] = @ + n]
         /\ Ordered(buf'[s]) /\ CanRead(buf'[s])
         /\ \A x \in Sides : x # s => buf'[x] = buf[x]
         /\ UNCHANGED <<sent, end, out>> /\ interest' = DetermineInterests(buf')
<1> DEFINE n == Recv(s)
           seg == Segment(s, got[s], got[s] + n)
<1>1. /\ Readable(s) /\ UNCHANGED <<sent, end, out>> /\ n > 0
      /\ buf' = [buf EXCEPT ![s] = Write(@, seg)]
      /\ got' = [got EXCEPT ![s] = @ + n]
      /\ interest' = DetermineInterests(buf')
  BY DEF CopyRead, Close, peers
<1>2. n \in Nat /\ n <= sent[s] - got[s] /\ n <= WriteSize(buf[s])
  BY <1>1, RecvRange
<1>3. got[s] \in Nat /\ sent[s] \in 0..MaxBytes /\ MaxBytes \in Nat
  BY Buffers, TunnelAssumption
<1> HIDE DEF n
<1>4. got[s] + n \in 0..MaxBytes /\ got[s] <= got[s] + n /\ got[s] + n - got[s] = n
  BY <1>2, <1>3
<1>5. seg \in Seq(Byte) /\ Len(seg) = n
  <2>1. PICK k \in 0..MaxBytes : k = got[s] + n
    BY <1>4
  <2>2. Segment(s, got[s], k) \in Seq(Byte) /\ Len(Segment(s, got[s], k)) = k - got[s]
    BY <1>3, <1>4, <2>1, SegmentSeq
  <2>3. seg = Segment(s, got[s], k) /\ k - got[s] = n
    BY <1>2, <1>3, <1>4, <2>1
  <2> QED BY <2>2, <2>3
<1> HIDE DEF seg
<1>6. buf'[s] = Write(buf[s], seg) /\ Ordered(buf[s])
  BY <1>1, Buffers DEF TunnelInv, TypeOK
<1>7. Ordered(buf'[s]) /\ buf'[s].read = buf[s].read /\ buf'[s].write = buf[s].write + n
  BY <1>2, <1>5, <1>6, WriteAppends
<1>8. buf[s].read \in Nat /\ buf[s].write \in Nat /\ buf[s].read <= buf[s].write
  BY <1>6 DEF Ordered, BufferType
<1>9. CanRead(buf'[s])
  BY <1>1, <1>2, <1>7, <1>8 DEF CanRead
<1>10. \A x \in Sides : x # s => buf'[x] = buf[x]
  BY <1>1 DEF TunnelInv, TypeOK
<1>11. n \in Nat \ {0}
  BY <1>1, <1>2
<1> QED BY <1>1, <1>7, <1>9, <1>10, <1>11

(* copy_write to the other side of s, if the tunnel goes on, sends something. *)
LEMMA WriteMoves ==
  ASSUME TunnelInv, NEW s \in Sides, CopyWrite(Other(s)), st = "COPY", st' = "COPY"
  PROVE  /\ \E n \in Nat \ {0} : /\ out'[Other(s)] \in Seq(Byte)
                                /\ Len(out'[Other(s)]) = Len(out[Other(s)]) + n
         /\ \A x \in Sides : x # s => buf'[x] = buf[x] /\ out'[Other(x)] = out[Other(x)]
         /\ UNCHANGED <<sent, end, got>> /\ interest' = DetermineInterests(buf')
<1> DEFINE o == Other(s)
<1>0. o \in Sides /\ Other(o) = s /\ \A x \in Sides : x # s => Other(x) # o
  BY TwoSides DEF Sides, Other
<1> HIDE DEF o
<1>1. /\ "OP_WRITE" \in interest[o] /\ UNCHANGED <<sent, end>>
      /\ \E n \in Send(o) :
           \/ /\ n >= 0
              /\ buf' = [buf EXCEPT ![s] = ReadAdv(@, n)]
              /\ interest' = DetermineInterests(buf')
              /\ out' = [out EXCEPT ![o] = @ \o Peek(buf[s], n)]
              /\ UNCHANGED got
           \/ Close
  BY <1>0 DEF o, CopyWrite, peers
<1>2. ~Close
  BY DEF Close
<1>3. PICK n \in Send(o) :
        /\ n >= 0
        /\ buf' = [buf EXCEPT ![s] = ReadAdv(@, n)]
        /\ interest' = DetermineInterests(buf')
        /\ out' = [out EXCEPT ![o] = @ \o Peek(buf[s], n)]
        /\ UNCHANGED got
  BY <1>1, <1>2
<1>4. CanRead(buf[s])
  <2>1. CASE Settled
    BY <1>0, <1>1, <2>1 DEF Settled, DetermineInterests
  <2>2. CASE Fresh
    BY <1>0, <1>1, <2>2 DEF Fresh
  <2> QED BY <2>1, <2>2 DEF TunnelInv
<1>5. n \in 1..ReadSize(buf[s])
  BY <1>0, <1>3, <1>4 DEF Send
<1>6. /\ Ordered(buf[s]) /\ Contents(buf[s]) \in Seq(Byte) /\ out[o] \in Seq(Byte)
      /\ Len(Contents(buf[s])) = ReadSize(buf[s]) /\ ReadSize(buf[s]) \in Nat
  BY <1>0, Buffers
<1>7. n \in Nat \ {0} /\ n \in 0..ReadSize(buf[s])
  BY <1>5, <1>6
<1>8. Peek(buf[s], n) \in Seq(Byte) /\ Len(Peek(buf[s], n)) = n
  <2>1. Peek(buf[s], n) = SubSeq(Contents(buf[s]), 1, n)
    BY <1>6, <1>7, PeekIsPrefix
  <2>2. \A i \in 1..n : Contents(buf[s])[i] \in Byte
    BY <1>6, <1>7, ElementOfSeq
  <2> QED BY <1>6, <1>7, <2>1, <2>2, SubSeqProperties
<1>9. out'[o] = out[o] \o Peek(buf[s], n) /\ \A x \in Sides : x # o => out'[x] = out[x]
  BY <1>0, <1>3 DEF TunnelInv, TypeOK
<1>10. out'[o] \in Seq(Byte) /\ Len(out'[o]) = Len(out[o]) + n
  BY <1>6, <1>8, <1>9, Lengths
<1>11. \A x \in Sides : x # s => buf'[x] = buf[x] /\ out'[Other(x)] = out[Other(x)]
  BY <1>0, <1>3, <1>9, TwoSides DEF TunnelInv, TypeOK
<1> QED BY <1>1, <1>3, <1>7, <1>10, <1>11 DEF o

(* What the interests become, for the bytes of a side whose buffer is not touched. *)
LEMMA StillDue ==
  ASSUME TunnelInv, st = "COPY", NEW s \in Sides, interest' = DetermineInterests(buf'),
         buf'[s] = buf[s], UNCHANGED <<sent, end>>, got'[s] = got[s]
  PROVE  /\ Offered(s) => Offered(s)'
         /\ Fetchable(s) => Fetchable(s)' \/ Offered(s)'
<1>1. "OP_WRITE" \in interest'[Other(s)] <=> CanRead(buf[s])
  BY TwoSides DEF DetermineInterests
<1>2. "OP_READ" \in interest'[s] <=> CanWrite(buf[s])
  BY DEF DetermineInterests
<1>3. CASE Settled
  BY <1>1, <1>2, <1>3, TwoSides DEF Settled, DetermineInterests, Offered, Fetchable, Readable
<1>4. CASE Fresh
  <2>1. ~Offered(s)
    BY <1>4, TwoSides DEF Fresh, Offered
  <2>2. CASE CanWrite(buf[s])
    BY <1>2, <2>1, <2>2 DEF Fetchable, Readable
  <2>3. CASE CanRead(buf[s])
    BY <1>1, <2>1, <2>3 DEF Offered
  <2> QED BY <2>2, <2>3, EmptyHasRoom
<1> QED BY <1>3, <1>4 DEF TunnelInv

(* What a step is to the bytes of one side. *)
Nearer(s) == Undelivered(s)' < Undelivered(s)
SameDue(s) ==
  /\ Undelivered(s)' = Undelivered(s) \/ sent'[s] > sent[s]
  /\ Offered(s) => Offered(s)'
  /\ Fetchable(s) => Fetchable(s)' \/ Offered(s)'

LEMMA ReadNearer ==
  ASSUME TunnelInv, NEW s \in Sides, CopyRead(s), st = "COPY", st' = "COPY"
  PROVE  Nearer(s) /\ SameDue(Other(s))
<1>1. PICK n \in Nat \ {0} : got' = [got EXCEPT ![s] = @ + n]
  BY ReadMoves
<1>2. /\ \A x \in Sides : x # s => buf'[x] = buf[x]
      /\ UNCHANGED <<sent, end, out>> /\ interest' = DetermineInterests(buf')
  BY ReadMoves
<1>3. /\ got'[s] = got[s] + n /\ \A x \in Sides : x # s => got'[x] = got[x]
  BY <1>1 DEF TunnelInv, TypeOK
<1>4. n \in Nat /\ n > 0
  OBVIOUS
<1>5. Nearer(s)
  <2> DEFINE a == sent[s]
             g == got[s]
             l == Len(out[Other(s)])
  <2>1. a \in Nat /\ g \in Nat /\ l \in Nat
    BY OnItsWay
  <2>2. Undelivered(s) = (a - g) + (a - l) /\ Undelivered(s)' = (a - (g + n)) + (a - l)
    BY <1>2, <1>3 DEF Undelivered
  <2> HIDE DEF a, g, l
  <2>3. (a - (g + n)) + (a - l) < (a - g) + (a - l)
    BY <1>4, <2>1, Undone
  <2> QED BY <2>2, <2>3 DEF Nearer
<1>6. Other(s) \in Sides /\ Other(s) # s
  BY TwoSides
<1>7. Undelivered(Other(s))' = Undelivered(Other(s))
  BY <1>2, <1>3, <1>6 DEF Undelivered
<1>8. /\ Offered(Other(s)) => Offered(Other(s))'
      /\ Fetchable(Other(s)) => Fetchable(Other(s))' \/ Offered(Other(s))'
  BY <1>2, <1>3, <1>6, StillDue
<1> QED BY <1>5, <1>7, <1>8 DEF SameDue

LEMMA WriteNearer ==
  ASSUME TunnelInv, NEW s \in Sides, CopyWrite(Other(s)), st = "COPY", st' = "COPY"
  PROVE  Nearer(s) /\ SameDue(Other(s))
<1>1. PICK n \in Nat \ {0} : Len(out'[Other(s)]) = Len(out[Other(s)]) + n
  BY WriteMoves
<1>2. /\ \A x \in Sides : x # s => buf'[x] = buf[x] /\ out'[Other(x)] = out[Other(x)]
      /\ UNCHANGED <<sent, end, got>> /\ interest' = DetermineInterests(buf')
  BY WriteMoves
<1>4. n \in Nat /\ n > 0
  OBVIOUS
<1>5. Nearer(s)
  <2> DEFINE a == sent[s]
             g == got[s]
             l == Len(out[Other(s)])
  <2>1. a \in Nat /\ g \in Nat /\ l \in Nat
    BY OnItsWay
  <2>2. Undelivered(s) = (a - g) + (a - l) /\ Undelivered(s)' = (a - g) + (a - (l + n))
    BY <1>1, <1>2 DEF Undelivered
  <2> HIDE DEF a, g, l
  <2>3. (a - g) + (a - (l + n)) < (a - g) + (a - l)
    BY <1>4, <2>1, Undone
  <2> QED BY <2>2, <2>3 DEF Nearer
<1>6. Other(s) \in Sides /\ Other(s) # s
  BY TwoSides
<1>7. Undelivered(Other(s))' = Undelivered(Other(s))
  BY <1>2, <1>6 DEF Undelivered
<1>8. /\ Offered(Other(s)) => Offered(Other(s))'
      /\ Fetchable(Other(s)) => Fetchable(Other(s))' \/ Offered(Other(s))'
  BY <1>2, <1>6, StillDue
<1> QED BY <1>5, <1>7, <1>8 DEF SameDue

(* A peer that sends or ends takes nothing from what is due. *)
LEMMA PeersLeaveDue ==
  ASSUME TunnelInv, NEW s \in Sides,
         UNCHANGED tvars \/ \E x \in Sides : PeerSend(x) \/ PeerEnd(x)
  PROVE  SameDue(s)
<1>1. UNCHANGED <<interest, got, out>>
  BY DEF PeerSend, PeerEnd, relayed, tvars
<1>2. /\ sent'[s] = sent[s] \/ sent'[s] > sent[s]
      /\ end[s] # "open" => end'[s] # "open"
  <2>1. sent[s] \in Nat
    BY OnItsWay
  <2> QED BY <2>1 DEF PeerSend, PeerEnd, tvars, TunnelInv, TypeOK
<1>3. sent[s] > got[s] => sent'[s] > got'[s]
  <2>1. sent[s] \in Nat /\ got[s] \in Nat
    BY OnItsWay
  <2>2. sent'[s] = sent[s] \/ sent'[s] = sent[s] + 1
    BY <2>1 DEF PeerSend, PeerEnd, tvars, TunnelInv, TypeOK
  <2> QED BY <1>1, <2>1, <2>2
<1>4. Undelivered(s)' = Undelivered(s) \/ sent'[s] > sent[s]
  BY <1>1, <1>2 DEF Undelivered
<1> QED BY <1>1, <1>2, <1>3, <1>4 DEF SameDue, Offered, Fetchable, Readable

(* Every call of copy_read and copy_write brings the bytes it is for nearer, or
   ends the tunnel; and whatever else happens, in the other direction or at the
   peers, the bytes that were due are due still. *)
THEOREM DeliveriesDrawNearer == Spec => DeliveryDrawsNearer
<1>1. ASSUME TunnelInv, [Next]_tvars, st' = "COPY", NEW s \in Sides
      PROVE  /\ CopyRead(s) \/ CopyWrite(Other(s)) => Nearer(s)
             /\ Nearer(s) \/ SameDue(s)
  <2>1. \/ st = "COPY" /\ \E x \in Sides : CopyRead(x) \/ CopyWrite(x)
        \/ UNCHANGED tvars \/ \E x \in Sides : PeerSend(x) \/ PeerEnd(x)
    BY <1>1 DEF Next, CopyRead, CopyWrite
  <2>2. \A x \in Sides : CopyRead(x) \/ CopyWrite(x) => st = "COPY"
    BY DEF CopyRead, CopyWrite
  <2>3. CopyRead(s) \/ CopyWrite(Other(s)) => Nearer(s)
    BY <1>1, <2>2, ReadNearer, WriteNearer, TwoSides
  <2>4. ASSUME NEW x \in Sides, CopyRead(x) \/ CopyWrite(x), st = "COPY"
        PROVE  Nearer(s) \/ SameDue(s)
    <3>1. CASE CopyRead(x)
      <4>1. Nearer(x) /\ SameDue(Other(x))
        BY <1>1, <2>4, <3>1, ReadNearer
      <4>2. s = x \/ s = Other(x)
        BY DEF Sides, Other
      <4> QED BY <4>1, <4>2
    <3>2. CASE CopyWrite(x)
      <4>1. Other(x) \in Sides /\ Other(Other(x)) = x
        BY TwoSides
      <4>2. Nearer(Other(x)) /\ SameDue(x)
        BY <1>1, <2>4, <3>2, <4>1, WriteNearer
      <4>3. s = x \/ s = Other(x)
        BY DEF Sides, Other
      <4> QED BY <4>2, <4>3
    <3> QED BY <2>4, <3>1, <3>2
  <2> QED BY <1>1, <2>1, <2>3, <2>4, PeersLeaveDue
<1>2. TunnelInv /\ [Next]_tvars =>
        [st' = "COPY" => \A s \in Sides :
           /\ CopyRead(s) \/ CopyWrite(Other(s)) => Undelivered(s)' < Undelivered(s)
           /\ \/ Undelivered(s)' < Undelivered(s)
              \/ /\ Undelivered(s)' = Undelivered(s) \/ sent'[s] > sent[s]
                 /\ Offered(s) => Offered(s)'
                 /\ Fetchable(s) => Fetchable(s)' \/ Offered(s)'
        ]_tvars
  BY <1>1, Zenon DEF Nearer, SameDue
<1> QED BY <1>2, TunnelInductive, PTL DEF Spec, DeliveryDrawsNearer
=============================================================================
