------------------------------ MODULE PipeRing ------------------------------
(***************************************************************************)
(* The ring buffer of struct pipe (src/kernel/pipe.c, pipe.h): head and    *)
(* tail are free-running 32-bit counters, masked only when the buffer is   *)
(* indexed, and one cell always stays empty.  The loops of the read and    *)
(* write operations are taken byte by byte; what happens around them is    *)
(* the business of the module Pipes, which counts bytes only.              *)
(***************************************************************************)
EXTENDS Integers, Sequences

CONSTANTS BufSize,      \* PIPE_BUF_SIZE, 4096
          IndexMod,     \* 2^32, the range of head and tail
          Byte

ASSUME BufSizeAssumption == BufSize \in Nat \ {0}
ASSUME IndexModAssumption ==
    /\ IndexMod \in Nat \ {0}
    /\ \E k \in 1 .. IndexMod : IndexMod = k * BufSize

VARIABLES buf, head, tail,
          read_byte     \* the byte the last step of a read copied out

ringVars == <<buf, head, tail, read_byte>>

\* pipe_create zeroes the struct; the counters start anywhere here, so that
\* their wrap is met, as it is after 4 GB.
RingInit ==
    /\ buf \in {[i \in 0 .. BufSize - 1 |-> b] : b \in Byte}
    /\ head \in 0 .. IndexMod - 1
    /\ tail = head
    /\ read_byte \in Byte

Used == (head - tail) % BufSize

FreeFull == BufSize - Used           \* mutant: no cell stays empty

Free == BufSize - 1 - Used

Masked(i) == i % BufSize

Incremented(i) == (i + 1) % IndexMod

WriteByte(b) ==
    /\ Free > 0
    /\ buf' = [buf EXCEPT ![Masked(head)] = b]
    /\ head' = Incremented(head)
    /\ UNCHANGED <<tail, read_byte>>

ReadByte ==
    /\ Used > 0
    /\ read_byte' = buf[Masked(tail)]
    /\ tail' = Incremented(tail)
    /\ UNCHANGED <<buf, head>>

RingNext ==
    \/ \E b \in Byte : WriteByte(b)
    \/ ReadByte

RingSpec == RingInit /\ [][RingNext]_ringVars

-----------------------------------------------------------------------------

\* The bytes between tail and head, oldest first.
Contents == [i \in 1 .. Used |-> buf[Masked(tail + i - 1)]]

Fifo == INSTANCE Fifo WITH
            Capacity <- BufSize - 1, queue <- Contents, taken <- read_byte

\* pipe.c:1-14: what is read from a pipe is what was written to it, in order
\* and once, and a full buffer is never taken for an empty one, although head
\* and tail wrap around both at BufSize and at IndexMod.
ImplementsFifo == Fifo!FifoSpec

=============================================================================
