-------------------------------- MODULE Fifo --------------------------------
(***************************************************************************)
(* What the ring buffer of a pipe promises: a bounded first-in first-out   *)
(* queue of bytes.  taken is the last byte that was read.                  *)
(***************************************************************************)
EXTENDS Integers, Sequences

CONSTANTS Byte,         \* the values of a char
          Capacity      \* bytes the queue can hold, a natural number

VARIABLES queue, taken

fifoVars == <<queue, taken>>

FifoInit ==
    /\ queue = <<>>
    /\ taken \in Byte

PutByte(b) ==
    /\ Len(queue) < Capacity
    /\ queue' = Append(queue, b)
    /\ UNCHANGED taken

TakeByte ==
    /\ queue # <<>>
    /\ taken' = Head(queue)
    /\ queue' = Tail(queue)

FifoNext ==
    \/ \E b \in Byte : PutByte(b)
    \/ TakeByte

FifoSpec == FifoInit /\ [][FifoNext]_fifoVars

=============================================================================
