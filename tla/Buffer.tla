------------------------------- MODULE Buffer -------------------------------
(***************************************************************************)
(* The operations of evwork::CBuffer (libevwork_full/Buffer.h) as          *)
(* operators on a buffer value.  A buffer is a record                      *)
(*   cap    m_capacity, the bytes allocated (0 when m_data is NULL),       *)
(*   head   m_head_off,                                                    *)
(*   bytes  the contents m_data[m_head_off .. m_tail_off - 1],             *)
(* so that m_tail_off is head + Len(bytes).  Memory outside the contents   *)
(* is stale or uninitialised: a byte read from there is Junk.              *)
(***************************************************************************)
EXTENDS Integers, Sequences

CONSTANTS BlockSize,       \* bytes in a block: 8*1024 in CClientConn
          MinBlock,        \* fewest blocks kept: 1 in CClientConn
          Byte,            \* the values a byte can have
          Junk,            \* a byte read from outside the contents
          MemcpyIsMemmove  \* does this build's memcpy copy overlapping areas?

ASSUME BufferAssumption ==
    /\ BlockSize \in Nat \ {0}
    /\ MinBlock \in Nat
    /\ Junk \notin Byte
    /\ MemcpyIsMemmove \in BOOLEAN

Cell == Byte \cup {Junk}
Buffers == [cap : Nat, head : Nat, bytes : Seq(Cell)]

-----------------------------------------------------------------------------
\* __reset(): no memory.  Also the state the constructor leaves.
reset == [cap |-> 0, head |-> 0, bytes |-> <<>>]

size(b) == Len(b.bytes)
tail(b) == b.head + size(b)

freesize(b) == b.cap - tail(b)

\* __calc_capacity(): whole blocks, rounded up, at least MinBlock of them.
calc_capacity_RoundDown(n) ==            \* mutant: rounds down
    LET blocks == n \div BlockSize
    IN  BlockSize * (IF blocks < MinBlock THEN MinBlock ELSE blocks)

calc_capacity(n) ==
    LET blocks == (n \div BlockSize) + (IF n % BlockSize > 0 THEN 1 ELSE 0)
    IN  BlockSize * (IF blocks < MinBlock THEN MinBlock ELSE blocks)

\* Does making room for n more bytes slide the contents to the front of the
\* same memory, and do the two areas of that memcpy overlap (undefined)?
Slides(b, n)   == freesize(b) < n /\ b.cap >= size(b) + n
Overlaps(b, n) == Slides(b, n) /\ b.head < size(b)

\* What an overlapping memcpy leaves: when the library copies from the far
\* end, a byte whose source has been overwritten is lost.
Slid(b, n) ==
    IF MemcpyIsMemmove \/ ~Overlaps(b, n)
    THEN b.bytes
    ELSE [i \in 1..size(b) |-> IF i + b.head <= size(b) THEN Junk ELSE b.bytes[i]]

\* __try_increment(): make room for n bytes behind the tail.
try_increment_CopyFromStart(b, n) ==     \* mutant: copies from m_data, not from the head
    IF freesize(b) >= n THEN b
    ELSE [cap   |-> IF Slides(b, n) THEN b.cap ELSE calc_capacity(size(b) + n),
          head  |-> 0,
          bytes |-> [i \in 1..size(b) |-> IF i <= b.head THEN Junk ELSE b.bytes[i - b.head]]]

try_increment(b, n) ==
    IF freesize(b) >= n THEN b
    ELSE IF Slides(b, n)
         THEN [cap |-> b.cap, head |-> 0, bytes |-> Slid(b, n)]
         ELSE [cap |-> calc_capacity(size(b) + n), head |-> 0, bytes |-> b.bytes]

inc_capacity(b, n) == try_increment(b, n)

\* append(): copy data behind the tail.
append(b, data) ==
    IF data = <<>> THEN b
    ELSE LET r == try_increment(b, Len(data))
         IN  [r EXCEPT !.bytes = @ \o data]

\* Bytes received straight into tail() and then counted by inc_size(), which
\* never moves the tail past the capacity.
inc_size(b, data) ==
    LET room == freesize(b)
    IN  [b EXCEPT !.bytes = @ \o (IF Len(data) > room THEN SubSeq(data, 1, room) ELSE data)]

\* The memmove of erase() starts _size bytes behind the new head, which is
\* itself already _size bytes further: 2 * n bytes of the contents are skipped
\* and the bytes that are missing at the end come from behind the tail.
Moved(b, n) ==
    [i \in 1..(size(b) - n) |->
        IF 2 * n + i <= size(b) THEN b.bytes[2 * n + i] ELSE Junk]

\* erase(): drop n bytes at the head; once a whole block has been dropped the
\* rest is moved to the front of the memory.
erase(b, n) ==
    LET m == IF n > size(b) THEN size(b) ELSE n
    IN  IF n = 0 THEN b
        ELSE IF b.head + m >= BlockSize
             THEN [cap |-> b.cap, head |-> 0, bytes |-> Moved(b, m)]
             ELSE [cap |-> b.cap, head |-> b.head + m,
                   bytes |-> SubSeq(b.bytes, m + 1, size(b))]

\* operator=: the contents of o in freshly allocated memory.
assign(b, o) == append(reset, o.bytes)

-----------------------------------------------------------------------------
\* The uses for which the contents survive: no overlapping memcpy in a build
\* that cannot do it, and no block move that leaves bytes behind.
IncrementIsExact(b, n) == MemcpyIsMemmove \/ ~Overlaps(b, n)
EraseIsExact(b, n)     == n = 0 \/ n >= size(b) \/ b.head + n < BlockSize

\* The contents end inside the allocation.
WellFormed(b) == b \in Buffers /\ tail(b) <= b.cap
=============================================================================
