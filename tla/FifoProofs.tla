----------------------------- MODULE FifoProofs -----------------------------
(***************************************************************************)
(* A buffer of any size, over any alphabet, is a bounded queue, and its    *)
(* pointers keep the order buffer.h asks for.                              *)
(***************************************************************************)
EXTENDS Fifo, BufferProofs

(* What fits in a write is what is missing to the limit. *)
LEMMA Room ==
  ASSUME NEW b, Ordered(b)
  PROVE  WriteSize(b) \in Nat /\ ReadSize(b) <= Limit /\ ReadSize(b) + WriteSize(b) <= Limit
BY LimitAssumption DEF Ordered, BufferType, ReadSize, WriteSize

(* A sequence written as a function is a sequence. *)
LEMMA BlockIsSeq ==
  ASSUME NEW k \in Nat, NEW s \in [1..k -> Byte]
  PROVE  s \in Seq(Byte) /\ Len(s) = k
OBVIOUS

(* What a call does: the pointers stay in order, and the queue sees at most
   one of its own operations. *)
LEMMA StepOfQueue ==
  ASSUME FifoInv, Next
  PROVE  FifoInv' /\ [QueueView!QNext]_(QueueView!qvars)
<1>1. Ordered(buf) /\ buf \in BufferType /\ Limit \in Nat
  BY LimitAssumption DEF FifoInv, PointersOrdered, Ordered
<1>2. /\ ReadSize(buf) \in Nat /\ buf.write \in Nat /\ buf.read \in Nat
      /\ Contents(buf) \in Seq(Byte) /\ Len(Contents(buf)) = ReadSize(buf)
      /\ CanRead(buf) <=> ReadSize(buf) > 0
  BY <1>1, ContentsSeq
<1>3. WriteSize(buf) \in Nat /\ ReadSize(buf) <= Limit
      /\ ReadSize(buf) + WriteSize(buf) <= Limit
  BY <1>1, Room
<1>4. ASSUME NEW k \in 0..WriteSize(buf), NEW s \in [1..k -> Byte],
             buf' = Write(buf, s), UNCHANGED out
      PROVE  FifoInv' /\ QueueView!QNext
  <2>1. s \in Seq(Byte) /\ Len(s) = k
    BY <1>3, BlockIsSeq
  <2>2. /\ Ordered(buf') /\ buf'.read = buf.read /\ buf'.write = buf.write + k
        /\ Contents(buf') = Contents(buf) \o s
    BY <1>1, <1>4, <2>1, WriteAppends
  <2>3. buf'.read = buf'.write => buf'.write = 0
    BY <1>1, <1>2, <1>3, <2>2 DEF FifoInv, PointersOrdered
  <2>4. FifoInv'
    BY <2>2, <2>3 DEF FifoInv, PointersOrdered, Ordered
  <2>5. Contents(buf)' = Contents(buf) \o s
    BY <2>2
  <2>6. Len(Contents(buf)) + Len(s) <= Limit
    BY <1>1, <1>2, <1>3, <2>1
  <2>7. QueueView!Add(s)
    BY <1>4, <2>5, <2>6 DEF QueueView!Add
  <2>8. k \in 0..Limit
    BY <1>1, <1>2, <1>3
  <2> QED BY <2>4, <2>7, <2>8 DEF QueueView!QNext
<1>5. ASSUME NEW n \in 0..ReadSize(buf), out' = Peek(buf, n), buf' = ReadAdv(buf, n)
      PROVE  FifoInv' /\ QueueView!QNext
  <2>1. /\ Ordered(buf') /\ buf'.read = buf'.write => buf'.write = 0
        /\ Contents(buf') = SubSeq(Contents(buf), n + 1, ReadSize(buf))
    BY <1>1, <1>5, ReadAdvRemoves
  <2>2. FifoInv'
    BY <1>1, <1>5, ReadAdvRemoves DEF FifoInv, PointersOrdered, Ordered
  <2>3. out' = SubSeq(Contents(buf), 1, n)
    BY <1>1, <1>5, PeekIsPrefix
  <2>4. Contents(buf)' = SubSeq(Contents(buf), n + 1, ReadSize(buf))
    BY <1>1, <1>5, ReadAdvRemoves
  <2>5. QueueView!Take(n)
    BY <1>2, <2>3, <2>4 DEF QueueView!Take
  <2>6. n \in 0..Limit
    BY <1>1, <1>2, <1>3
  <2> QED BY <2>2, <2>5, <2>6 DEF QueueView!QNext
<1>6. CASE Fill
  BY <1>4, <1>6 DEF Fill
<1>7. CASE Drain
  BY <1>5, <1>7 DEF Drain
<1>8. CASE WriteByte
  <2>1. PICK x \in Byte : buf' = Write(buf, <<x>>)
    BY <1>8 DEF WriteByte
  <2>2. 1 \in 0..WriteSize(buf)
    BY <1>3, <1>8 DEF WriteByte, CanWrite, WriteSize
  <2>3. <<x>> \in [1..1 -> Byte]
    OBVIOUS
  <2> QED BY <1>4, <1>8, <2>1, <2>2, <2>3 DEF WriteByte
<1>9. CASE ReadByte
  <2>1. 1 \in 0..ReadSize(buf)
    BY <1>2, <1>9 DEF ReadByte
  <2> QED BY <1>5, <1>9, <2>1 DEF ReadByte
<1>10. CASE CompactCall
  <2>1. /\ Ordered(buf') /\ Contents(buf') = Contents(buf)
        /\ buf'.read = 0 /\ buf'.write = ReadSize(buf)
    BY <1>1, <1>10, CompactKeeps DEF CompactCall
  <2>2. FifoInv'
    BY <2>1 DEF FifoInv, PointersOrdered, Ordered
  <2>3. Contents(buf)' = Contents(buf) /\ out' = out
    BY <2>1, <1>10 DEF CompactCall
  <2> QED BY <2>2, <2>3 DEF QueueView!qvars
<1>11. CASE ResetCall
  <2>1. /\ Ordered(buf') /\ Contents(buf') = <<>> /\ buf'.read = 0 /\ buf'.write = 0
    BY <1>1, <1>11, ResetEmpties DEF ResetCall
  <2>2. FifoInv'
    BY <2>1 DEF FifoInv, PointersOrdered, Ordered
  <2>3. QueueView!Forget
    BY <2>1, <1>11 DEF ResetCall, QueueView!Forget
  <2> QED BY <2>2, <2>3 DEF QueueView!QNext
<1> QED BY <1>6, <1>7, <1>8, <1>9, <1>10, <1>11 DEF Next

(* Initially the pointers are in order and the queue is empty. *)
LEMMA InitOfQueue == Init => FifoInv /\ QueueView!QInit
<1> SUFFICES ASSUME Init PROVE FifoInv /\ QueueView!QInit
  OBVIOUS
<1>1. Ordered(buf) /\ buf.read = 0 /\ buf.write = 0
  BY LimitAssumption DEF Init, InitialBuffers, Ordered, BufferType
<1>2. Contents(buf) = <<>>
  BY <1>1, ContentsSeq, EmptySeq DEF ReadSize
<1> QED BY <1>1, <1>2 DEF Init, FifoInv, PointersOrdered, Ordered, QueueView!QInit

(* FifoInv holds in every reachable state. *)
THEOREM PointersInductive == Spec => []FifoInv
<1>1. FifoInv /\ UNCHANGED fvars => FifoInv'
  BY DEF FifoInv, PointersOrdered, fvars
<1> QED BY InitOfQueue, StepOfQueue, <1>1, PTL DEF Spec

(* R <= W <= limit, whatever the calls. *)
THEOREM PointersStayOrdered == Spec => []PointersOrdered
<1>1. FifoInv => PointersOrdered
  BY DEF FifoInv
<1> QED BY <1>1, PointersInductive, PTL

(* A writer is only refused while there is something to read. *)
THEOREM NoRefusalWhenEmpty == Spec => []RefusedOnlyUnread
<1>1. FifoInv => RefusedOnlyUnread
  BY LimitAssumption DEF FifoInv, PointersOrdered, BufferType, RefusedOnlyUnread, CanRead, CanWrite
<1> QED BY <1>1, PointersInductive, PTL

(* buffer.c implements a bounded first-in first-out queue. *)
THEOREM BufferIsQueue == Spec => ImplementsQueue
<1>1. UNCHANGED fvars => UNCHANGED QueueView!qvars
  BY DEF fvars, QueueView!qvars, Contents, ReadSize
<1> QED BY InitOfQueue, StepOfQueue, PointersInductive, <1>1, PTL
        DEF Spec, ImplementsQueue, QueueView!QSpec
=============================================================================
