---------------------------- MODULE BufferLemmas ----------------------------
(***************************************************************************)
(* What the operations of CBuffer return, for every block size and every   *)
(* smallest number of blocks.                                              *)
(***************************************************************************)
EXTENDS Buffer, SequenceTheorems, TLAPS

\* Multiplying by a natural number keeps an order.
LEMMA Monotone ==
    ASSUME NEW k \in Nat, NEW a \in Nat, NEW b \in Nat, a <= b
    PROVE  k * a <= k * b
  OBVIOUS

\* __calc_capacity never allocates less than it was asked for.
LEMMA CapacitySuffices ==
    ASSUME NEW n \in Nat
    PROVE  calc_capacity(n) \in Nat /\ calc_capacity(n) >= n
<1> USE BufferAssumption
<1> DEFINE q == n \div BlockSize
           r == n % BlockSize
<1>1. q \in Nat /\ r \in Nat /\ r < BlockSize /\ n = BlockSize * q + r
  OBVIOUS
<1> DEFINE blocks == q + (IF r > 0 THEN 1 ELSE 0)
           kept   == IF blocks < MinBlock THEN MinBlock ELSE blocks
<1>2. blocks \in Nat /\ kept \in Nat /\ blocks <= kept
  BY <1>1
<1>3. BlockSize * blocks >= n
  BY <1>1
<1>4. BlockSize * blocks <= BlockSize * kept
  BY <1>2, Monotone
<1>5. BlockSize * kept \in Nat
  BY <1>2
<1>6. BlockSize * blocks \in Nat
  BY <1>2
<1>7. calc_capacity(n) = BlockSize * kept
  BY DEF calc_capacity
<1> QED
  BY <1>3, <1>4, <1>5, <1>6, <1>7

\* A function on 1..n is a sequence of length n.
LEMMA FunctionIsSeq ==
    ASSUME NEW S, NEW n \in Nat, NEW f \in [1..n -> S]
    PROVE  f \in Seq(S) /\ Len(f) = n
  OBVIOUS

\* What the provers need to know of a buffer value.
LEMMA Parts ==
    ASSUME NEW b, WellFormed(b)
    PROVE  /\ b.cap \in Nat /\ b.head \in Nat /\ b.bytes \in Seq(Cell) /\ size(b) \in Nat
           /\ b.head + size(b) <= b.cap
           /\ size(b) = Len(b.bytes)
           /\ freesize(b) = b.cap - (b.head + size(b)) /\ freesize(b) \in Nat
  BY DEF WellFormed, Buffers, tail, size, freesize

\* What changing only the contents of a buffer value does to its parts.
LEMMA Replaced ==
    ASSUME NEW b, WellFormed(b), NEW s
    PROVE  [b EXCEPT !.bytes = s] = [cap |-> b.cap, head |-> b.head, bytes |-> s]
  BY DEF WellFormed, Buffers

\* A buffer value is well formed when its parts are.
LEMMA Whole ==
    ASSUME NEW c \in Nat, NEW h \in Nat, NEW s \in Seq(Cell), h + Len(s) <= c
    PROVE  /\ WellFormed([cap |-> c, head |-> h, bytes |-> s])
           /\ size([cap |-> c, head |-> h, bytes |-> s]) = Len(s)
           /\ freesize([cap |-> c, head |-> h, bytes |-> s]) = c - (h + Len(s))
  BY DEF WellFormed, Buffers, tail, size, freesize

\* The contents that reach a buffer are bytes.
LEMMA DataFacts ==
    ASSUME NEW data \in Seq(Byte)
    PROVE  data \in Seq(Cell) /\ Len(data) \in Nat
  BY SeqMonotonic DEF Cell

\* __try_increment makes the room it was asked for, keeps the offsets inside the
\* allocation, and keeps the contents unless it slides them over themselves.
LEMMA IncrementFacts ==
    ASSUME NEW b, WellFormed(b), NEW n \in Nat
    PROVE  /\ WellFormed(try_increment(b, n))
           /\ freesize(try_increment(b, n)) >= n
           /\ size(try_increment(b, n)) = size(b)
           /\ IncrementIsExact(b, n) => try_increment(b, n).bytes = b.bytes
<1>0. /\ b.cap \in Nat /\ b.head \in Nat /\ b.bytes \in Seq(Cell) /\ size(b) \in Nat
      /\ size(b) = Len(b.bytes)
  BY Parts
<1>1. CASE freesize(b) >= n
  BY <1>1 DEF try_increment
<1>2. CASE ~(freesize(b) >= n) /\ Slides(b, n)
  <2>1. try_increment(b, n) = [cap |-> b.cap, head |-> 0, bytes |-> Slid(b, n)]
    BY <1>2 DEF try_increment
  <2>2. Slid(b, n) \in Seq(Cell) /\ Len(Slid(b, n)) = size(b)
    <3>1. CASE MemcpyIsMemmove \/ ~Overlaps(b, n)
      BY <1>0, <3>1 DEF Slid
    <3>2. CASE ~(MemcpyIsMemmove \/ ~Overlaps(b, n))
      <4>1. Slid(b, n) \in [1..size(b) -> Cell]
        BY <1>0, <3>2, ElementOfSeq DEF Slid, Cell
      <4> QED
        BY <1>0, <4>1, FunctionIsSeq
    <3> QED
      BY <3>1, <3>2
  <2>3. IncrementIsExact(b, n) => Slid(b, n) = b.bytes
    BY DEF IncrementIsExact, Slid
  <2>4. b.cap >= size(b) + n
    BY <1>2 DEF Slides
  <2> DEFINE s == Slid(b, n)
             r == [cap |-> b.cap, head |-> 0, bytes |-> s]
  <2> HIDE DEF s
  <2>5. s \in Seq(Cell) /\ Len(s) = size(b) /\ 0 + Len(s) <= b.cap
    BY <1>0, <2>2, <2>4 DEF s
  <2>6. WellFormed(r) /\ size(r) = Len(s) /\ freesize(r) = b.cap - (0 + Len(s))
    BY <1>0, <2>5, 0 \in Nat, Whole, Zenon
  <2>7. r.bytes = s
    OBVIOUS
  <2> HIDE DEF r
  <2>8. freesize(r) >= n
    BY <1>0, <2>4, <2>5, <2>6
  <2>9. try_increment(b, n) = r
    BY <2>1 DEF r, s
  <2> QED
    BY <2>3, <2>5, <2>6, <2>7, <2>8, <2>9 DEF s
<1>3. CASE ~(freesize(b) >= n) /\ ~Slides(b, n)
  <2> DEFINE c == calc_capacity(size(b) + n)
  <2>1. try_increment(b, n) = [cap |-> c, head |-> 0, bytes |-> b.bytes]
    BY <1>3 DEF try_increment
  <2>2. c \in Nat /\ c >= size(b) + n
    <3>1. size(b) + n \in Nat
      BY <1>0
    <3> QED
      BY <3>1, CapacitySuffices
  <2> HIDE DEF c
  <2>3. 0 + Len(b.bytes) <= c
    BY <1>0, <2>2
  <2> QED
    BY <1>0, <2>1, <2>2, <2>3, Whole
<1> QED
  BY <1>1, <1>2, <1>3

\* Adding what fits behind the contents.
LEMMA Extended ==
    ASSUME NEW b, WellFormed(b), NEW data \in Seq(Cell), Len(data) <= freesize(b)
    PROVE  /\ WellFormed([b EXCEPT !.bytes = b.bytes \o data])
           /\ [b EXCEPT !.bytes = b.bytes \o data].bytes = b.bytes \o data
           /\ size([b EXCEPT !.bytes = b.bytes \o data]) = size(b) + Len(data)
<1> DEFINE s == b.bytes \o data
<1>1. /\ b.cap \in Nat /\ b.head \in Nat /\ b.bytes \in Seq(Cell) /\ size(b) \in Nat
      /\ size(b) = Len(b.bytes) /\ freesize(b) = b.cap - (b.head + size(b))
  BY Parts
<1>2. Len(data) \in Nat /\ s \in Seq(Cell) /\ Len(s) = size(b) + Len(data)
  BY <1>1, ConcatProperties
<1> HIDE DEF s
<1>3. b.head + Len(s) <= b.cap
  BY <1>1, <1>2
<1>4. /\ WellFormed([cap |-> b.cap, head |-> b.head, bytes |-> s])
      /\ size([cap |-> b.cap, head |-> b.head, bytes |-> s]) = Len(s)
  BY <1>1, <1>2, <1>3, Whole
<1>5. [b EXCEPT !.bytes = s] = [cap |-> b.cap, head |-> b.head, bytes |-> s]
  BY Replaced
<1>6. /\ WellFormed([b EXCEPT !.bytes = s]) /\ [b EXCEPT !.bytes = s].bytes = s
      /\ size([b EXCEPT !.bytes = s]) = size(b) + Len(data)
  BY <1>2, <1>4, <1>5
<1> QED
  BY <1>6 DEF s

\* append adds its data behind the contents, inside the allocation.
LEMMA AppendFacts ==
    ASSUME NEW b, WellFormed(b), NEW data \in Seq(Cell)
    PROVE  /\ WellFormed(append(b, data))
           /\ size(append(b, data)) = size(b) + Len(data)
           /\ IncrementIsExact(b, Len(data)) => append(b, data).bytes = b.bytes \o data
<1> DEFINE Goal == /\ WellFormed(append(b, data))
                   /\ size(append(b, data)) = size(b) + Len(data)
                   /\ IncrementIsExact(b, Len(data)) => append(b, data).bytes = b.bytes \o data
<1>1. Len(data) \in Nat
  OBVIOUS
<1>2. ASSUME data = <<>> PROVE Goal
  <2>1. b.bytes \o data = b.bytes
    BY <1>2, Parts, ConcatEmptySeq
  <2>2. size(b) = size(b) + Len(data)
    BY <1>2, Parts
  <2> QED
    BY <1>2, <2>1, <2>2 DEF append
<1>3. ASSUME data # <<>> PROVE Goal
  <2> DEFINE r == try_increment(b, Len(data))
  <2>1. append(b, data) = [r EXCEPT !.bytes = r.bytes \o data]
    BY <1>3 DEF append
  <2>2. /\ WellFormed(r) /\ freesize(r) >= Len(data) /\ size(r) = size(b)
        /\ IncrementIsExact(b, Len(data)) => r.bytes = b.bytes
    BY <1>1, IncrementFacts
  <2> HIDE DEF r
  <2>3. Len(data) <= freesize(r)
    BY <1>1, <2>2, Parts
  <2>4. /\ WellFormed([r EXCEPT !.bytes = r.bytes \o data])
        /\ [r EXCEPT !.bytes = r.bytes \o data].bytes = r.bytes \o data
        /\ size([r EXCEPT !.bytes = r.bytes \o data]) = size(r) + Len(data)
    BY <1>1, <2>2, <2>3, Extended
  <2> QED
    BY <2>1, <2>2, <2>4
<1> HIDE DEF Goal
<1>4. Goal
  BY <1>2, <1>3
<1> QED
  BY <1>4 DEF Goal

\* inc_size after a recv into the free space.
LEMMA IncSizeFacts ==
    ASSUME NEW b, WellFormed(b), NEW data \in Seq(Cell), Len(data) <= freesize(b)
    PROVE  /\ WellFormed(inc_size(b, data)) /\ inc_size(b, data).bytes = b.bytes \o data
           /\ size(inc_size(b, data)) = size(b) + Len(data)
<1>1. Len(data) \in Nat
  OBVIOUS
<1>2. ~(Len(data) > freesize(b))
  BY <1>1, Parts
<1>3. inc_size(b, data) = [b EXCEPT !.bytes = b.bytes \o data]
  BY <1>2 DEF inc_size
<1> QED
  BY <1>1, <1>3, Extended

\* erase drops the bytes it was asked to drop, except for the block move.
LEMMA EraseFacts ==
    ASSUME NEW b, WellFormed(b), NEW n \in Nat
    PROVE  /\ WellFormed(erase(b, n))
           /\ size(erase(b, n)) = size(b) - (IF n > size(b) THEN size(b) ELSE n)
           /\ EraseIsExact(b, n) =>
                  erase(b, n).bytes = IF n > size(b) THEN <<>> ELSE SubSeq(b.bytes, n + 1, size(b))
<1> DEFINE m == IF n > size(b) THEN size(b) ELSE n
           rest == SubSeq(b.bytes, m + 1, size(b))
           left == IF n > size(b) THEN <<>> ELSE SubSeq(b.bytes, n + 1, size(b))
           Goal == WellFormed(erase(b, n)) /\ size(erase(b, n)) = size(b) - m
                   /\ (EraseIsExact(b, n) => erase(b, n).bytes = left)
<1>0. /\ b.cap \in Nat /\ b.head \in Nat /\ b.bytes \in Seq(Cell) /\ size(b) \in Nat
      /\ size(b) = Len(b.bytes) /\ b.head + size(b) <= b.cap
  BY Parts
<1>1. m \in Nat /\ m <= size(b) /\ size(b) - m \in Nat
  BY <1>0
<1>2. ASSUME n = 0 PROVE Goal
  <2>1. SubSeq(b.bytes, 1, Len(b.bytes)) = b.bytes
    BY <1>0, SubSeqFull
  <2>2. left = b.bytes
    <3>1. ~(n > size(b)) /\ n + 1 = 1
      BY <1>0, <1>2
    <3> QED
      BY <1>0, <2>1, <3>1
  <2>3. erase(b, n) = b
    BY <1>2 DEF erase
  <2>4. size(b) = size(b) - m
    <3>1. m = 0
      BY <1>0, <1>2
    <3> HIDE DEF m
    <3> QED
      BY <1>0, <3>1
  <2> QED
    BY <2>2, <2>3, <2>4
<1>3. ASSUME n # 0, b.head + m >= BlockSize PROVE Goal
  <2>1. erase(b, n) = [cap |-> b.cap, head |-> 0, bytes |-> Moved(b, m)]
    BY <1>3 DEF erase
  <2>2. Moved(b, m) \in [1..(size(b) - m) -> Cell]
    <3>1. \A i \in 1..Len(b.bytes) : b.bytes[i] \in Cell
      BY <1>0, ElementOfSeq
    <3> HIDE DEF m
    <3>2. \A i \in 1..(size(b) - m) :
              (IF 2 * m + i <= size(b) THEN b.bytes[2 * m + i] ELSE Junk) \in Cell
      BY <1>0, <1>1, <3>1 DEF Cell
    <3> QED
      BY <3>2 DEF Moved
  <2> DEFINE s == Moved(b, m)
  <2>3. s \in Seq(Cell) /\ Len(s) = size(b) - m
    <3> HIDE DEF m
    <3> QED
      BY <1>1, <2>2, FunctionIsSeq
  <2>4. EraseIsExact(b, n) => n >= size(b)
    BY <1>0, <1>3, BufferAssumption DEF EraseIsExact
  <2>5. n >= size(b) => s = <<>>
    <3>1. n >= size(b) => m = size(b)
      BY <1>0
    <3> HIDE DEF s, m
    <3> QED
      BY <1>0, <2>3, <3>1, EmptySeq
  <2>6. n >= size(b) => left = <<>>
    <3>1. n >= size(b) /\ ~(n > size(b)) => size(b) < n + 1
      BY <1>0
    <3> QED
      BY <1>0, <3>1, SubSeqEmpty
  <2> HIDE DEF s, m
  <2>7. /\ WellFormed([cap |-> b.cap, head |-> 0, bytes |-> s])
        /\ size([cap |-> b.cap, head |-> 0, bytes |-> s]) = Len(s)
    <3>1. 0 + Len(s) <= b.cap
      BY <1>0, <1>1, <2>3
    <3> QED
      BY <1>0, <2>3, <3>1, Whole
  <2>8. erase(b, n) = [cap |-> b.cap, head |-> 0, bytes |-> s]
    BY <2>1 DEF s
  <2>9. erase(b, n).bytes = s
    BY <2>8
  <2> HIDE DEF left
  <2> QED
    BY <2>3, <2>4, <2>5, <2>6, <2>7, <2>8, <2>9
<1>4. ASSUME n # 0, ~(b.head + m >= BlockSize) PROVE Goal
  <2>1. erase(b, n) = [cap |-> b.cap, head |-> b.head + m, bytes |-> rest]
    BY <1>4 DEF erase
  <2>2. rest \in Seq(Cell) /\ Len(rest) = size(b) - m
    <3>1. \A i \in (m + 1)..Len(b.bytes) : b.bytes[i] \in Cell
      BY <1>0, <1>1, ElementOfSeq
    <3> HIDE DEF m
    <3>2. /\ rest \in Seq(Cell)
          /\ Len(rest) = IF m + 1 <= Len(b.bytes) THEN Len(b.bytes) - (m + 1) + 1 ELSE 0
      BY <1>0, <1>1, <3>1, SubSeqProperties
    <3> QED
      BY <1>0, <1>1, <3>2
  <2>3. rest = left
    <3>1. CASE n > size(b)
      <4>1. m = size(b) /\ Len(b.bytes) < m + 1
        BY <1>0, <3>1
      <4> HIDE DEF m
      <4>2. rest = <<>>
        BY <1>0, <1>1, <4>1, SubSeqEmpty
      <4> QED
        BY <3>1, <4>2
    <3>2. CASE ~(n > size(b))
      <4>1. m = n
        BY <3>2
      <4> HIDE DEF m
      <4> QED
        BY <1>0, <3>2, <4>1
    <3> QED
      BY <3>1, <3>2
  <2> HIDE DEF m, rest, left
  <2>4. /\ WellFormed([cap |-> b.cap, head |-> b.head + m, bytes |-> rest])
        /\ size([cap |-> b.cap, head |-> b.head + m, bytes |-> rest]) = Len(rest)
    <3>1. b.head + m \in Nat /\ b.head + m + Len(rest) <= b.cap
      BY <1>0, <1>1, <2>2
    <3> QED
      BY <1>0, <2>2, <3>1, Whole
  <2>5. erase(b, n).bytes = rest
    BY <2>1
  <2> QED
    BY <2>1, <2>2, <2>3, <2>4, <2>5
<1> HIDE DEF Goal, m, rest
<1>5. Goal
  BY <1>2, <1>3, <1>4
<1> QED
  BY <1>5 DEF Goal, m

\* The constructor and __reset() leave an empty, well-formed buffer.
LEMMA EmptyIsWellFormed == WellFormed(reset) /\ reset.bytes = <<>>
  BY DEF WellFormed, Buffers, reset, tail, size

-----------------------------------------------------------------------------
\* A sequence is its first n elements followed by the others.
LEMMA SplitAt ==
    ASSUME NEW S, NEW s \in Seq(S), NEW n \in 0..Len(s)
    PROVE  /\ SubSeq(s, 1, n) \in Seq(S) /\ Len(SubSeq(s, 1, n)) = n
           /\ SubSeq(s, n + 1, Len(s)) \in Seq(S) /\ Len(SubSeq(s, n + 1, Len(s))) = Len(s) - n
           /\ SubSeq(s, 1, n) \o SubSeq(s, n + 1, Len(s)) = s
<1>0. Len(s) \in Nat /\ n \in Nat /\ n <= Len(s) /\ \A i \in 1..Len(s) : s[i] \in S
  BY ElementOfSeq
<1>1. SubSeq(s, 1, n) \in Seq(S) /\ Len(SubSeq(s, 1, n)) = IF 1 <= n THEN n - 1 + 1 ELSE 0
  <2>1. \A i \in 1..n : s[i] \in S
    BY <1>0
  <2> QED
    BY <1>0, <2>1, SubSeqProperties
<1>2. /\ SubSeq(s, n + 1, Len(s)) \in Seq(S)
      /\ Len(SubSeq(s, n + 1, Len(s))) = IF n + 1 <= Len(s) THEN Len(s) - (n + 1) + 1 ELSE 0
  <2>1. (\A i \in (n + 1)..Len(s) : s[i] \in S) /\ n + 1 \in Int
    BY <1>0
  <2> QED
    BY <1>0, <2>1, SubSeqProperties
<1>3. SubSeq(s, 1, n) \o SubSeq(s, n + 1, Len(s)) = SubSeq(s, 1, Len(s))
  <2>1. 1 \in 1..(Len(s) + 1) /\ n \in (1 - 1)..Len(s) /\ Len(s) \in n..Len(s)
    BY <1>0
  <2> QED
    BY <2>1, ConcatAdjacentSubSeq
<1>4. SubSeq(s, 1, Len(s)) = s
  BY SubSeqFull
<1>5. Len(SubSeq(s, 1, n)) = n /\ Len(SubSeq(s, n + 1, Len(s))) = Len(s) - n
  BY <1>0, <1>1, <1>2
<1> QED
  BY <1>1, <1>2, <1>3, <1>4, <1>5
=============================================================================
