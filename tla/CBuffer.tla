------------------------------ MODULE CBuffer -------------------------------
(***************************************************************************)
(* One CBuffer object under every sequence of calls its public interface   *)
(* allows, beside the byte queue it stands for.                            *)
(***************************************************************************)
EXTENDS Buffer

CONSTANTS Chunks,   \* the byte strings appended or received
          MaxBytes  \* bound: bytes in the buffer

ASSUME CBufferAssumption == Chunks \subseteq Seq(Byte) /\ MaxBytes \in Nat

VARIABLES buf,    \* the object
          fifo,   \* history: what an exact byte queue would hold
          torn    \* history: a call outside the exact uses has been made

vars == <<buf, fifo, torn>>

Init == buf = reset /\ fifo = <<>> /\ torn = FALSE

Append_(data) ==
    /\ size(buf) + Len(data) <= MaxBytes
    /\ buf' = append(buf, data)
    /\ fifo' = fifo \o data
    /\ torn' = (torn \/ ~IncrementIsExact(buf, Len(data)))

\* CClientConn::__onRead grows the buffer first, then receives into its tail.
IncCapacity(n) ==
    /\ size(buf) + n <= MaxBytes
    /\ buf' = inc_capacity(buf, n)
    /\ torn' = (torn \/ ~IncrementIsExact(buf, n))
    /\ UNCHANGED fifo

Receive(data) ==
    /\ size(buf) + Len(data) <= MaxBytes
    /\ Len(data) <= freesize(buf)
    /\ buf' = inc_size(buf, data)
    /\ fifo' = fifo \o data
    /\ UNCHANGED torn

Erase(n) ==
    /\ buf' = erase(buf, n)
    /\ fifo' = IF n > Len(fifo) THEN <<>> ELSE SubSeq(fifo, n + 1, Len(fifo))
    /\ torn' = (torn \/ ~EraseIsExact(buf, n))

Reset ==
    /\ buf' = reset /\ fifo' = <<>> /\ torn' = FALSE

\* other = *this, after which the user goes on with the other object.
Assign ==
    /\ buf' = assign(reset, buf)
    /\ UNCHANGED <<fifo, torn>>

Next ==
    \/ \E data \in Chunks : Append_(data) \/ Receive(data)
    \/ \E n \in 0..MaxBytes : IncCapacity(n) \/ Erase(n)
    \/ Reset
    \/ Assign

Spec == Init /\ [][Next]_vars

-----------------------------------------------------------------------------
\* Offsets stay ordered and inside the allocation (m_head_off <= m_tail_off <=
\* m_capacity), so append and recv never write outside m_data.
TailInsideAllocation == WellFormed(buf)

\* As long as every call was exact, the contents are those of the byte queue:
\* growth, sliding to the front and partial erasure lose, repeat or reorder
\* nothing.
IntactUnlessTorn == ~torn => buf.bytes = fifo

\* Buffer.h promises an erase that removes only the data at the front ("erase
\* part of the data", line 59): CBuffer implements a byte queue.
Queue == INSTANCE ByteQueue WITH Item <- Cell, queue <- buf.bytes
ImplementsByteQueue == Queue!Spec
=============================================================================
