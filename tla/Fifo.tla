-------------------------------- MODULE Fifo --------------------------------
(***************************************************************************)
(* A buffer and every way its users call it: blocks through the pointers,  *)
(* single bytes, compaction and reset.  It implements Queue.               *)
(***************************************************************************)
EXTENDS Buffer

VARIABLES
  buf,     \* struct buffer
  out      \* the bytes the last read gave

fvars == <<buf, out>>

Init == buf \in InitialBuffers /\ out = <<>>

(* buffer_write_ptr, a copy of at most the size it reports, buffer_write_adv;
   buffer_write_adv ignores a negative count. *)
Fill ==
  \E k \in 0..WriteSize(buf) : \E s \in [1..k -> Byte] :
    /\ buf' = Write(buf, s)
    /\ UNCHANGED out

(* buffer_read_ptr, a use of at most the size it reports, buffer_read_adv. *)
Drain ==
  \E n \in 0..ReadSize(buf) :
    /\ out' = Peek(buf, n)
    /\ buf' = ReadAdv(buf, n)

(* buffer_write and buffer_read move one byte, or none. *)
WriteByte ==
  /\ CanWrite(buf)
  /\ \E x \in Byte : buf' = Write(buf, <<x>>)
  /\ UNCHANGED out

ReadByte ==
  /\ CanRead(buf)
  /\ out' = Peek(buf, 1)
  /\ buf' = ReadAdv(buf, 1)

CompactCall == buf' = Compact(buf) /\ UNCHANGED out

ResetCall == buf' = Reset(buf) /\ UNCHANGED out

Next == Fill \/ Drain \/ WriteByte \/ ReadByte \/ CompactCall \/ ResetCall

Spec == Init /\ [][Next]_fvars

-----------------------------------------------------------------------------
(* The invariant of buffer.h, R <= W <= limit, which the assertions of
   buffer.c rest on. *)
PointersOrdered ==
  /\ buf \in BufferType
  /\ buf.read <= buf.write

(* A writer is refused only while there is something to read: a buffer read
   to the end has all its room back, wherever its pointers had got to.  The
   interests of the tunnel rely on it not to wait for ever. *)
RefusedOnlyUnread == Limit > 0 /\ ~CanWrite(buf) => CanRead(buf)

QueueView == INSTANCE Queue WITH
  Room <- Limit, items <- Contents(buf), taken <- out

(* What is read is what was written, once and in order, across compactions. *)
ImplementsQueue == QueueView!QSpec

(* The inductive form of PointersOrdered, with what RefusedOnlyUnread needs: an
   empty buffer is at the start of its memory. *)
FifoInv == PointersOrdered /\ (buf.read = buf.write => buf.write = 0)
=============================================================================
