---------------------------- MODULE BufferProofs ----------------------------
(***************************************************************************)
(* What the operations of buffer.c do to what a buffer holds, for buffers  *)
(* of any size.  Both the buffer alone (FifoProofs) and the tunnel         *)
(* (TunnelProofs) rest on these lemmas.                                    *)
(***************************************************************************)
EXTENDS Buffer, TLAPS, SequenceTheorems

(* A buffer in the order buffer.h asks for. *)
Ordered(b) == b \in BufferType /\ b.read <= b.write

(* The contents are as many bytes as buffer_read_ptr reports. *)
LEMMA ContentsSeq ==
  ASSUME NEW b, Ordered(b)
  PROVE  /\ ReadSize(b) \in Nat /\ b.write \in Nat /\ b.read \in Nat
         /\ Contents(b) \in Seq(Byte) /\ Len(Contents(b)) = ReadSize(b)
         /\ CanRead(b) <=> ReadSize(b) > 0
<1>1. ReadSize(b) \in Nat /\ b.read \in 0..Limit /\ b.write \in 0..Limit
  BY LimitAssumption DEF Ordered, BufferType, ReadSize
<1>2. \A i \in 1..ReadSize(b) : b.read + i - 1 \in Cells
  BY <1>1, LimitAssumption DEF ReadSize, Cells
<1>3. \A i \in 1..ReadSize(b) : b.data[b.read + i - 1] \in Byte
  BY <1>2 DEF Ordered, BufferType
<1>4. Contents(b) \in Seq(Byte) /\ Len(Contents(b)) = ReadSize(b)
  BY <1>1, <1>3 DEF Contents
<1> QED BY <1>1, <1>4 DEF CanRead, ReadSize

(* buffer_read_ptr gives the first bytes of the contents. *)
LEMMA PeekIsPrefix ==
  ASSUME NEW b, Ordered(b), NEW n \in 0..ReadSize(b)
  PROVE  Peek(b, n) = SubSeq(Contents(b), 1, n)
<1>1. Contents(b) \in Seq(Byte) /\ Len(Contents(b)) = ReadSize(b) /\ ReadSize(b) \in Nat
  BY ContentsSeq
<1>2. \A i \in 1..n : Contents(b)[i] = b.data[b.read + i - 1] /\ Contents(b)[i] \in Byte
  BY <1>1, ElementOfSeq DEF Contents
<1>3. Peek(b, n) \in Seq(Byte) /\ Len(Peek(b, n)) = n
  <2>1. n \in Nat
    BY <1>1
  <2>2. Peek(b, n) = [i \in 1..n |-> Contents(b)[i]]
    BY <1>2 DEF Peek
  <2> QED BY <1>2, <2>1, <2>2
<1>4. SubSeq(Contents(b), 1, n) \in Seq(Byte) /\ Len(SubSeq(Contents(b), 1, n)) = n
      /\ \A i \in 1..n : SubSeq(Contents(b), 1, n)[i] = Contents(b)[i]
  BY <1>1, <1>2, SubSeqProperties
<1>5. \A i \in 1..n : Peek(b, n)[i] = SubSeq(Contents(b), 1, n)[i]
  BY <1>2, <1>4 DEF Peek
<1> QED BY <1>3, <1>4, <1>5, SeqEqual

(* A block that fits is appended. *)
LEMMA WriteAppends ==
  ASSUME NEW b, Ordered(b), NEW s \in Seq(Byte), Len(s) <= WriteSize(b)
  PROVE  /\ Ordered(Write(b, s))
         /\ Write(b, s).read = b.read /\ Write(b, s).write = b.write + Len(s)
         /\ Contents(Write(b, s)) = Contents(b) \o s
<1> DEFINE w == Write(b, s)
<1>1. b.read \in 0..Limit /\ b.write \in 0..Limit /\ b.read <= b.write /\ Limit \in Nat
  BY LimitAssumption DEF Ordered, BufferType
<1>2. Len(s) \in Nat /\ b.write + Len(s) <= Limit
  BY <1>1, LenProperties DEF WriteSize
<1>3. w.read = b.read /\ w.write = b.write + Len(s)
  BY DEF Write
<1>4. w.data = [i \in Cells |-> IF b.write <= i /\ i < b.write + Len(s)
                                  THEN s[i - b.write + 1] ELSE b.data[i]]
  BY DEF Write
<1>0. w = [data |-> w.data, read |-> w.read, write |-> w.write]
  BY DEF Write
<1> HIDE DEF w
<1>5. \A i \in Cells : b.write <= i /\ i < b.write + Len(s) => s[i - b.write + 1] \in Byte
  BY <1>1, <1>2, ElementOfSeq DEF Cells
<1>6. Ordered(w)
  <2>1. w.data \in [Cells -> Byte]
    BY <1>4, <1>5 DEF Ordered, BufferType
  <2>3. w.read \in 0..Limit /\ w.write \in 0..Limit /\ w.read <= w.write
    BY <1>1, <1>2, <1>3
  <2> QED BY <2>1, <2>3, <1>0 DEF Ordered, BufferType
<1>7. Contents(b) \in Seq(Byte) /\ Len(Contents(b)) = ReadSize(b) /\ ReadSize(b) \in Nat
  BY ContentsSeq
<1>8. Contents(w) \in Seq(Byte) /\ Len(Contents(w)) = ReadSize(b) + Len(s)
  BY <1>1, <1>2, <1>3, <1>6, ContentsSeq DEF ReadSize
<1>9. ASSUME NEW i \in 1..(ReadSize(b) + Len(s))
      PROVE  Contents(w)[i] = (Contents(b) \o s)[i]
  <2>1. Contents(w)[i] = w.data[b.read + i - 1] /\ b.read + i - 1 \in Cells
    <3>1. i \in 1..ReadSize(w)
      BY <1>1, <1>2, <1>3 DEF ReadSize
    <3>2. Contents(w)[i] = w.data[w.read + i - 1]
      BY <3>1, Zenon DEF Contents
    <3>3. b.read + i - 1 \in Cells
      BY <1>1, <1>2 DEF ReadSize, Cells
    <3> QED BY <1>3, <3>2, <3>3
  <2>2. CASE i <= ReadSize(b)
    <3>1. (Contents(b) \o s)[i] = b.data[b.read + i - 1]
      BY <2>2, <1>2, <1>7, ConcatProperties DEF Contents
    <3>2. ~ b.write <= b.read + i - 1
      BY <2>2, <1>1 DEF ReadSize
    <3> QED BY <2>1, <3>1, <3>2, <1>4
  <2>3. CASE i > ReadSize(b)
    <3>1. (Contents(b) \o s)[i] = s[i - ReadSize(b)]
      BY <2>3, <1>2, <1>7, ConcatProperties
    <3>2. PICK j \in Cells : j = b.read + i - 1
      BY <2>1
    <3>3. b.write <= j /\ j < b.write + Len(s) /\ j - b.write + 1 = i - ReadSize(b)
      BY <2>3, <3>2, <1>1, <1>2 DEF ReadSize
    <3>4. w.data[j] = s[j - b.write + 1]
      BY <3>3, <1>4
    <3> QED BY <2>1, <3>1, <3>2, <3>3, <3>4
  <2> QED BY <2>2, <2>3, <1>7
<1>10. Contents(b) \o s \in Seq(Byte) /\ Len(Contents(b) \o s) = ReadSize(b) + Len(s)
  BY <1>7, ConcatProperties
<1>11. Contents(w) = Contents(b) \o s
  BY <1>8, <1>9, <1>10, SeqEqual
<1> QED BY <1>3, <1>6, <1>11 DEF w

(* buffer_compact keeps the contents. *)
LEMMA CompactKeeps ==
  ASSUME NEW b, Ordered(b)
  PROVE  /\ Ordered(Compact(b)) /\ Contents(Compact(b)) = Contents(b)
         /\ Compact(b).read = 0 /\ Compact(b).write = ReadSize(b)
<1> DEFINE k == Compact(b)
<1>1. b.read \in 0..Limit /\ b.write \in 0..Limit /\ b.read <= b.write /\ Limit \in Nat
  BY LimitAssumption DEF Ordered, BufferType
<1>2. k.read = 0 /\ k.write = ReadSize(b) /\ ReadSize(b) \in 0..Limit
  BY <1>1 DEF Compact, Reset, ReadSize, Ordered, BufferType
<1>3. CASE b.read = b.write
  <2>1. k = Reset(b)
    BY <1>3 DEF Compact
  <2>2. Ordered(k)
    BY <2>1, <1>1 DEF Ordered, BufferType, Reset
  <2>3. ReadSize(k) = 0 /\ ReadSize(b) = 0
    BY <1>1, <1>2, <1>3 DEF ReadSize
  <2> QED BY <1>2, <2>2, <2>3 DEF Contents
<1>4. CASE b.read # b.write
  <2>1. k.data = [i \in Cells |-> IF i < ReadSize(b) THEN b.data[b.read + i] ELSE b.data[i]]
    BY <1>4 DEF Compact
  <2>2. \A i \in Cells : i < ReadSize(b) => b.read + i \in Cells
    BY <1>1 DEF Cells, ReadSize
  <2>3. k.data \in [Cells -> Byte]
    BY <2>1, <2>2 DEF Ordered, BufferType
  <2>4. k = [data |-> k.data, read |-> k.read, write |-> k.write]
    BY <1>4 DEF Compact
  <2>5. Ordered(k)
    BY <2>3, <2>4, <1>1, <1>2 DEF Ordered, BufferType
  <2>6. ReadSize(k) = ReadSize(b)
    BY <1>1, <1>2 DEF ReadSize
  <2>7. \A i \in 1..ReadSize(b) : k.data[k.read + i - 1] = b.data[b.read + i - 1]
    <3> TAKE i \in 1..ReadSize(b)
    <3>1. k.read + i - 1 = i - 1 /\ i - 1 \in Cells /\ i - 1 < ReadSize(b)
      BY <1>1, <1>2 DEF Cells
    <3>2. b.read + (i - 1) = b.read + i - 1
      BY <1>1, <1>2
    <3> QED BY <3>1, <3>2, <2>1
  <2>8. Contents(k) = Contents(b)
    BY <2>6, <2>7 DEF Contents
  <2> QED BY <1>2, <2>5, <2>8
<1> QED BY <1>3, <1>4

(* buffer_reset empties. *)
LEMMA ResetEmpties ==
  ASSUME NEW b, Ordered(b)
  PROVE  /\ Ordered(Reset(b)) /\ Contents(Reset(b)) = << >>
         /\ Reset(b).read = 0 /\ Reset(b).write = 0
<1>1. Reset(b).read = 0 /\ Reset(b).write = 0 /\ Ordered(Reset(b))
  BY LimitAssumption DEF Ordered, BufferType, Reset
<1>2. Len(Contents(Reset(b))) = 0 /\ Contents(Reset(b)) \in Seq(Byte)
  BY <1>1, ContentsSeq DEF ReadSize
<1> QED BY <1>1, <1>2, EmptySeq

(* buffer_read_adv removes the first n bytes; a buffer read to the end is at
   the start of its memory. *)
LEMMA ReadAdvRemoves ==
  ASSUME NEW b, Ordered(b), NEW n \in 0..ReadSize(b)
  PROVE  /\ Ordered(ReadAdv(b, n))
         /\ Contents(ReadAdv(b, n)) = SubSeq(Contents(b), n + 1, ReadSize(b))
         /\ ReadSize(ReadAdv(b, n)) = ReadSize(b) - n
         /\ ReadAdv(b, n).read = ReadAdv(b, n).write => ReadAdv(b, n).write = 0
<1> DEFINE r == [b EXCEPT !.read = @ + n]
<1>1. b.read \in 0..Limit /\ b.write \in 0..Limit /\ b.read <= b.write /\ Limit \in Nat
      /\ ReadSize(b) = b.write - b.read
  BY LimitAssumption DEF Ordered, BufferType, ReadSize
<1>2. r.read = b.read + n /\ r.write = b.write /\ r.data = b.data
  BY DEF Ordered, BufferType
<1>3. Ordered(r) /\ ReadSize(r) = ReadSize(b) - n
  BY <1>1, <1>2 DEF Ordered, BufferType, ReadSize
<1>4. Contents(r) = SubSeq(Contents(b), n + 1, ReadSize(b))
  <2>1. Contents(b) \in Seq(Byte) /\ Len(Contents(b)) = ReadSize(b)
    BY ContentsSeq
  <2>2. \A i \in n + 1..ReadSize(b) : Contents(b)[i] \in Byte
    BY <2>1, <1>1, ElementOfSeq
  <2> DEFINE tail == SubSeq(Contents(b), n + 1, ReadSize(b))
  <2>3. /\ tail \in Seq(Byte)
        /\ Len(tail) = IF n + 1 <= ReadSize(b) THEN ReadSize(b) - (n + 1) + 1 ELSE 0
        /\ \A i \in 1..(ReadSize(b) - (n + 1) + 1) : tail[i] = Contents(b)[n + 1 + i - 1]
    BY <2>2, <1>1, SubSeqProperties
  <2>4. Len(tail) = ReadSize(b) - n
    BY <2>3, <1>1
  <2>5. Contents(r) \in Seq(Byte) /\ Len(Contents(r)) = ReadSize(b) - n
    BY <1>3, ContentsSeq
  <2>6. ASSUME NEW i \in 1..(ReadSize(b) - n)
        PROVE  Contents(r)[i] = tail[i]
    <3>1. tail[i] = Contents(b)[n + i] /\ n + i \in 1..ReadSize(b)
      BY <2>3, <1>1
    <3>2. Contents(b)[n + i] = b.data[b.read + (n + i) - 1]
      BY <3>1 DEF Contents
    <3>3. Contents(r)[i] = b.data[b.read + n + i - 1]
      BY <1>2, <1>3 DEF Contents
    <3> QED BY <3>1, <3>2, <3>3, <1>1
  <2> QED BY <2>3, <2>4, <2>5, <2>6, SeqEqual
<1>5. ReadAdv(b, n) = IF r.read = r.write THEN Compact(r) ELSE r
  BY DEF ReadAdv
<1>6. CASE r.read = r.write
  <2>1. Ordered(Compact(r)) /\ Contents(Compact(r)) = Contents(r)
        /\ Compact(r).read = 0 /\ Compact(r).write = ReadSize(r)
    BY <1>3, CompactKeeps
  <2>2. ReadSize(r) = 0
    BY <1>6, <1>2, <1>1 DEF ReadSize
  <2>3. ReadAdv(b, n) = Compact(r)
    BY <1>5, <1>6
  <2> QED BY <2>1, <2>2, <2>3, <1>3, <1>4 DEF ReadSize
<1>7. CASE r.read # r.write
  BY <1>3, <1>4, <1>5, <1>7
<1> QED BY <1>6, <1>7
=============================================================================
