-------------------------------- MODULE Fifo --------------------------------
(***************************************************************************)
(* fifo.c: a byte buffer an interrupt fills and the main program empties,  *)
(* or the other way round.  Both indices only ever grow, as unsigned       *)
(* numbers that wrap; neither party locks, so a step of one may fall       *)
(* between any two memory accesses of the other.                           *)
(***************************************************************************)
EXTENDS Integers, Sequences

CONSTANTS Bytes,
          BufferLength,     \* buffer_len
          IndexRange,       \* how many values an unsigned index has
          NoByte            \* no byte was returned

\* the slots an index stands for only stay the same across the wrap when the
\* length divides the range of the index (ringbuf.h asks for a power of two)
ASSUME FifoAssumption ==
    /\ BufferLength \in Nat \ {0} /\ IndexRange \in Nat
    /\ IndexRange % BufferLength = 0 /\ IndexRange > BufferLength

VARIABLES head, tail, buffer,
          writing,      \* what FIFO_Put or FIFO_Add still has to store, and how far it is
          reading,      \* how far FIFO_Get or FIFO_Flush is
          taken         \* the byte FIFO_Get returned last

fifoVars == << head, tail, buffer, writing, reading, taken >>

SlotOf(index) == index % BufferLength
Next1Of(index) == (index + 1) % IndexRange

FIFO_Count == (head - tail + IndexRange) % IndexRange
\* (mutant: full is found one byte late)
FullOneLate == FIFO_Count > BufferLength
FIFO_Full  == FIFO_Count = BufferLength
FIFO_Empty == FIFO_Count = 0
\* a block has to leave one byte free
FIFO_Available(n) == n < BufferLength - FIFO_Count

FifoInit ==                                                     \* FIFO_Init
    /\ head = 0 /\ tail = 0
    /\ buffer \in [0 .. BufferLength - 1 -> {CHOOSE b \in Bytes : TRUE}]
    /\ writing = [at |-> "idle", bytes |-> <<>>]
    /\ reading = [at |-> "idle", value |-> NoByte]
    /\ taken = NoByte

-----------------------------------------------------------------------------
\* The writer: check, then for each byte store it and move the head.
Begin(bytes) ==
    /\ writing.at = "idle"
    /\ writing' = [at |-> "store", bytes |-> bytes]
    /\ UNCHANGED << head, tail, buffer, reading, taken >>

FIFO_Put(b) == ~FIFO_Full /\ Begin(<<b>>)
FIFO_Add(bytes) == FIFO_Available(Len(bytes)) /\ Begin(bytes)

Store ==
    /\ writing.at = "store"
    /\ buffer' = [buffer EXCEPT ![SlotOf(head)] = Head(writing.bytes)]
    /\ writing' = [writing EXCEPT !.at = "move"]
    /\ UNCHANGED << head, tail, reading, taken >>

MoveHead ==
    /\ writing.at = "move"
    /\ head' = Next1Of(head)
    /\ writing' = [at |-> IF Len(writing.bytes) = 1 THEN "idle" ELSE "store",
                   bytes |-> Tail(writing.bytes)]
    /\ UNCHANGED << tail, buffer, reading, taken >>

\* The reader: check, fetch the byte (FIFO_Peek stops here), move the tail.
FIFO_Get ==
    /\ reading.at = "idle"
    /\ ~FIFO_Empty
    /\ reading' = [at |-> "fetch", value |-> NoByte]
    /\ UNCHANGED << head, tail, buffer, writing, taken >>

Fetch ==
    /\ reading.at = "fetch"
    /\ reading' = [at |-> "move", value |-> buffer[SlotOf(tail)]]
    /\ UNCHANGED << head, tail, buffer, writing, taken >>

MoveTail ==
    /\ reading.at = "move"
    /\ tail' = Next1Of(tail)
    /\ taken' = reading.value
    /\ reading' = [at |-> "idle", value |-> NoByte]
    /\ UNCHANGED << head, buffer, writing >>

\* everything that is there when the head is read
FIFO_Flush ==
    /\ reading.at = "idle"
    /\ reading' = [at |-> "flush", value |-> head]
    /\ UNCHANGED << head, tail, buffer, writing, taken >>

Flushed ==
    /\ reading.at = "flush"
    /\ tail' = reading.value
    /\ taken' = NoByte
    /\ reading' = [at |-> "idle", value |-> NoByte]
    /\ UNCHANGED << head, buffer, writing >>

FifoNext ==
    \/ \E b \in Bytes : FIFO_Put(b)
    \/ \E b, c \in Bytes : FIFO_Add(<<b, c>>)
    \/ Store \/ MoveHead
    \/ FIFO_Get \/ Fetch \/ MoveTail
    \/ FIFO_Flush \/ Flushed

FifoSpec == FifoInit /\ [][FifoNext]_fifoVars

-----------------------------------------------------------------------------
\* Between the indices lies the queue; a byte is in it once the head has moved.
Held == [i \in 1 .. FIFO_Count |-> buffer[SlotOf(tail + i - 1)]]

FifoQueue == INSTANCE BoundedQueue WITH
    Items <- Bytes, Capacity <- BufferLength, Nothing <- NoByte, held <- Held, got <- taken

\* Whatever steps of the writer fall between steps of the reader, and however
\* often the indices have wrapped, the bytes come out as they were put in and
\* none is overwritten before it was read (FIFO_Put, FIFO_Add, FIFO_Get, FIFO_Flush).
FifoIsQueue == FifoQueue!QueueSpec
=============================================================================
