------------------------------- MODULE Buffer -------------------------------
(***************************************************************************)
(* buffer.c: the direct-access buffer under every socket of the proxy.  A  *)
(* buffer is its memory and two positions in it; pointers are offsets from *)
(* "data".  A caller that gets a pointer and a size, moves up to that many *)
(* bytes and then advances the pointer by as many does it all in one       *)
(* handler, so the three calls are one operator here.                      *)
(***************************************************************************)
EXTENDS Integers, Sequences

CONSTANTS
  Limit,     \* limit - data: how many bytes fit
  Byte       \* what a cell of the memory may hold

ASSUME LimitAssumption == Limit \in Nat

Cells == 0..(Limit - 1)

BufferType == [data : [Cells -> Byte], read : 0..Limit, write : 0..Limit]

(* buffer_init over memory that holds anything. *)
InitialBuffers == [data : [Cells -> Byte], read : {0}, write : {0}]

CanRead(b) == b.write - b.read > 0
CanWrite(b) == Limit - b.write > 0

(* The sizes buffer_read_ptr and buffer_write_ptr report. *)
ReadSize(b) == b.write - b.read
WriteSizeCircular(b) == Limit - ReadSize(b)      \* a mutant: as if it wrapped
WriteSize(b) == Limit - b.write

(* What there is to read, and the first n bytes of it. *)
Contents(b) == [i \in 1..ReadSize(b) |-> b.data[b.read + i - 1]]
Peek(b, n) == [i \in 1..n |-> b.data[b.read + i - 1]]

Reset(b) == [data |-> b.data, read |-> 0, write |-> 0]

(* buffer_compact: the bytes not read yet are moved to the front. *)
CompactInPlace(b) ==      \* a mutant: the bytes are not moved
  [b EXCEPT !.read = 0, !.write = ReadSize(b)]

Compact(b) ==
  IF b.read = b.write THEN Reset(b)
  ELSE [data |-> [i \in Cells |-> IF i < ReadSize(b) THEN b.data[b.read + i] ELSE b.data[i]],
        read |-> 0, write |-> ReadSize(b)]

(* The bytes s are copied to where buffer_write_ptr points, and
   buffer_write_adv is told how many they are. *)
WriteOverRead(b, s) ==      \* a mutant: writing starts where reading does
  [b EXCEPT !.data = [i \in Cells |-> IF b.read <= i /\ i < b.read + Len(s)
                                        THEN s[i - b.read + 1] ELSE b.data[i]],
            !.write = @ + Len(s)]

Write(b, s) ==
  [data |-> [i \in Cells |-> IF b.write <= i /\ i < b.write + Len(s)
                                THEN s[i - b.write + 1] ELSE b.data[i]],
   read |-> b.read, write |-> b.write + Len(s)]

(* buffer_read_adv: a buffer that has been read to the end starts again. *)
ReadAdv(b, n) ==
  LET r == [b EXCEPT !.read = @ + n]
  IN  IF r.read = r.write THEN Compact(r) ELSE r
=============================================================================
