-------------------------- MODULE ContainerProofs ---------------------------
(***************************************************************************)
(* One CBuffer object for every block size, every smallest number of       *)
(* blocks and every sequence of calls.  And the macros of ngx_queue.h:     *)
(* every queue stays a ring through its nodes in order, whatever the       *)
(* queues hold; ngx_queue_sort is a stable sort and ngx_queue_middle finds *)
(* the middle.                                                             *)
(***************************************************************************)
EXTENDS CBuffer, NgxQueue, BufferLemmas, FiniteSetTheorems, FunctionTheorems

-----------------------------------------------------------------------------
\* The invariant of one object under any sequence of calls.
BufInv == WellFormed(buf) /\ torn \in BOOLEAN /\ IntactUnlessTorn

\* Every call keeps BufInv.
LEMMA BufStep == BufInv /\ [Next]_vars => BufInv'
<1> SUFFICES ASSUME BufInv, [Next]_vars PROVE BufInv'
  OBVIOUS
<1> USE DEF BufInv, IntactUnlessTorn
<1>1. ASSUME NEW data \in Chunks, Append_(data) PROVE BufInv'
  <2>1. data \in Seq(Cell)
    BY CBufferAssumption, DataFacts
  <2> QED
    BY <1>1, <2>1, AppendFacts DEF Append_
<1>2. ASSUME NEW data \in Chunks, Receive(data) PROVE BufInv'
  <2>1. data \in Seq(Cell)
    BY CBufferAssumption, DataFacts
  <2> QED
    BY <1>2, <2>1, IncSizeFacts DEF Receive
<1>3. ASSUME NEW n \in 0..MaxBytes, IncCapacity(n) PROVE BufInv'
  <2>1. n \in Nat
    BY CBufferAssumption
  <2> QED
    BY <1>3, <2>1, IncrementFacts DEF IncCapacity, inc_capacity
<1>4. ASSUME NEW n \in 0..MaxBytes, Erase(n) PROVE BufInv'
  <2>1. n \in Nat
    BY CBufferAssumption
  <2> QED
    BY <1>4, <2>1, EraseFacts DEF Erase, size
<1>5. CASE Reset
  BY <1>5, EmptyIsWellFormed DEF Reset
<1>6. CASE Assign
  <2>1. buf.bytes \in Seq(Cell)
    BY Parts
  <2>2. WellFormed(append(reset, buf.bytes))
    BY <2>1, EmptyIsWellFormed, AppendFacts
  <2>3. append(reset, buf.bytes).bytes = <<>> \o buf.bytes
    <3>1. IncrementIsExact(reset, Len(buf.bytes))
      BY <2>1 DEF IncrementIsExact, Overlaps, reset, size
    <3> QED
      BY <2>1, <3>1, EmptyIsWellFormed, AppendFacts
  <2>4. <<>> \o buf.bytes = buf.bytes
    BY <2>1, ConcatEmptySeq
  <2> QED
    BY <1>6, <2>2, <2>3, <2>4 DEF Assign, assign
<1>7. CASE UNCHANGED vars
  BY <1>7 DEF vars
<1> QED
  BY <1>1, <1>2, <1>3, <1>4, <1>5, <1>6, <1>7 DEF Next

\* append, recv and erase never leave m_data, whatever the block size.
THEOREM InsideAllocation == Spec => []TailInsideAllocation
<1>1. Init => BufInv
  BY EmptyIsWellFormed DEF Init, BufInv, IntactUnlessTorn
<1>2. BufInv => TailInsideAllocation
  BY DEF BufInv, TailInsideAllocation
<1> QED
  BY <1>1, <1>2, BufStep, PTL DEF Spec

\* As long as no call was outside the exact uses, the contents are those of a
\* byte queue that was given the same calls.
THEOREM Intact == Spec => []IntactUnlessTorn
<1>1. Init => BufInv
  BY EmptyIsWellFormed DEF Init, BufInv, IntactUnlessTorn
<1>2. BufInv => IntactUnlessTorn
  BY DEF BufInv
<1> QED
  BY <1>1, <1>2, BufStep, PTL DEF Spec

-----------------------------------------------------------------------------
\* The queues of ngx_queue.h.

\* Induction up to a bound, over a set of numbers instead of a predicate.
LEMMA UpTo ==
    ASSUME NEW N \in Nat, NEW S, 0 \in S, \A n \in 0..(N - 1) : n \in S => n + 1 \in S
    PROVE  0..N \subseteq S
<1> DEFINE T == (0..N) \ S
<1> SUFFICES ASSUME T # {} PROVE FALSE
  OBVIOUS
<1>1. T \subseteq Nat
  OBVIOUS
<1>2. PICK k \in T : \A j \in T : ~(<<j, k>> \in OpToRel(<, Nat))
  BY <1>1, WFMin, NatLessThanWellFounded, Zenon
<1>3. \A j \in T : ~(j < k)
  BY <1>1, <1>2 DEF OpToRel
<1>4. k # 0 /\ k \in 1..N /\ k \notin S
  OBVIOUS
<1>5. k - 1 \in S /\ k - 1 \in 0..(N - 1)
  BY <1>3, <1>4
<1> QED
  BY <1>4, <1>5

-----------------------------------------------------------------------------
Rings == [next : [Cells -> Cells], prev : [Cells -> Cells]]

\* The pointers of r lead through the cells c[0], c[1], .. c[n] and back to c[0], which
\* is c[n + 1], and backwards through the same cells.
Cycle(r, c, n) ==
    /\ c \in [0..(n + 1) -> Cells] /\ c[n + 1] = c[0]
    /\ \A i, j \in 0..n : c[i] = c[j] => i = j
    /\ \A i \in 0..n : r.next[c[i]] = c[i + 1] /\ r.prev[c[i + 1]] = c[i]
On(c, n) == {c[i] : i \in 0..n}

\* The pointers of every cell outside C are the same in r and s.
SameBut(r, s, C) == \A x \in Cells \ C : s.next[x] = r.next[x] /\ s.prev[x] = r.prev[x]

\* Different places of a cycle, counted from 1 to n + 1 too, hold different cells.
LEMMA OnceAround ==
    ASSUME NEW r, NEW n \in Nat, NEW c, Cycle(r, c, n)
    PROVE  \A i, j \in 1..(n + 1) : c[i] = c[j] => i = j
<1> SUFFICES ASSUME NEW i \in 1..(n + 1), NEW j \in 1..(n + 1), c[i] = c[j], i < j PROVE FALSE
  OBVIOUS
<1>1. CASE j <= n
  BY <1>1 DEF Cycle
<1>2. CASE j = n + 1
  <2>1. c[i] = c[0] /\ i \in 0..n /\ 0 \in 0..n
    BY <1>2 DEF Cycle
  <2> QED
    BY <2>1 DEF Cycle
<1> QED
  BY <1>1, <1>2

\* The pointers a cycle leads through are all that matters to it.
LEMMA Frame ==
    ASSUME NEW r, NEW s, NEW n \in Nat, NEW c, Cycle(r, c, n),
           NEW C, SameBut(r, s, C), On(c, n) \cap C = {}
    PROVE  Cycle(s, c, n)
<1>1. \A i \in 0..n : c[i] \in Cells \ C
  BY DEF Cycle, On
<1>2. \A i \in 0..n : c[i + 1] \in Cells \ C
  <2> SUFFICES ASSUME NEW i \in 0..n PROVE c[i + 1] \in Cells \ C
    OBVIOUS
  <2>1. CASE i = n
    BY <1>1, <2>1 DEF Cycle
  <2>2. CASE i < n
    BY <1>1, <2>2
  <2> QED
    BY <2>1, <2>2
<1> QED
  BY <1>1, <1>2 DEF Cycle, SameBut

\* ngx_queue_init makes a ring of one cell.
LEMMA InitCycle ==
    ASSUME NEW r \in Rings, NEW h \in Cells, NEW c \in [0..1 -> {h}]
    PROVE  LET s == ngx_queue_init(r, h)
           IN s \in Rings /\ Cycle(s, c, 0) /\ SameBut(r, s, {h})
  BY DEF Rings, ngx_queue_init, Cycle, SameBut

\* d is c with x behind place i.
LEMMA InsertCycle ==
    ASSUME NEW r \in Rings, NEW n \in Nat, NEW c, Cycle(r, c, n),
           NEW i \in 0..n, NEW x \in Cells, x \notin On(c, n),
           NEW d \in [0..(n + 2) -> Cells],
           \A k \in 0..i : d[k] = c[k], d[i + 1] = x, \A k \in (i + 2)..(n + 2) : d[k] = c[k - 1]
    PROVE  LET s == ngx_queue_insert_head(r, c[i], x)
           IN s \in Rings /\ Cycle(s, d, n + 1) /\ SameBut(r, s, On(c, n) \cup {x})
<1> DEFINE s == ngx_queue_insert_head(r, c[i], x)
<1>1. /\ \A k \in 0..(n + 1) : c[k] \in Cells
      /\ c[n + 1] = c[0]
      /\ \A j, k \in 0..n : c[j] = c[k] => j = k
      /\ \A k \in 0..n : r.next[c[k]] = c[k + 1] /\ r.prev[c[k + 1]] = c[k]
  BY DEF Cycle
<1>2. \A j, k \in 1..(n + 1) : c[j] = c[k] => j = k
  BY OnceAround
<1>3. \A k \in 0..n : c[k] # x
  BY DEF On
<1>4. \A k \in 1..(n + 1) : c[k] # x
  <2> SUFFICES ASSUME NEW k \in 1..(n + 1) PROVE c[k] # x
    OBVIOUS
  <2>1. CASE k = n + 1
    BY <1>1, <1>3, <2>1
  <2>2. CASE k <= n
    BY <1>3, <2>2
  <2> QED
    BY <2>1, <2>2
<1>5. c[i] \in Cells /\ c[i + 1] \in Cells /\ c[i] # x /\ c[i + 1] # x
      /\ r.next[c[i]] = c[i + 1]
  BY <1>1, <1>3, <1>4
<1>6. s \in Rings
  BY <1>5 DEF ngx_queue_insert_head, Rings
<1>7. /\ s.next[x] = c[i + 1] /\ s.next[c[i]] = x
      /\ \A y \in Cells : y # x /\ y # c[i] => s.next[y] = r.next[y]
      /\ s.prev[c[i + 1]] = x /\ s.prev[x] = c[i]
      /\ \A y \in Cells : y # x /\ y # c[i + 1] => s.prev[y] = r.prev[y]
  BY <1>5 DEF ngx_queue_insert_head, Rings
<1>8. c[i] \in On(c, n) /\ c[i + 1] \in On(c, n)
  <2>1. CASE i = n
    BY <1>1, <2>1 DEF On
  <2>2. CASE i < n
    BY <1>1, <2>2 DEF On
  <2> QED
    BY <2>1, <2>2
<1>9. SameBut(r, s, On(c, n) \cup {x})
  BY <1>7, <1>8 DEF SameBut
<1> HIDE DEF s
<1>10. \A k \in 0..(n + 1) : s.next[d[k]] = d[k + 1] /\ s.prev[d[k + 1]] = d[k]
  <2> SUFFICES ASSUME NEW k \in 0..(n + 1) PROVE s.next[d[k]] = d[k + 1] /\ s.prev[d[k + 1]] = d[k]
    OBVIOUS
  <2>1. CASE k < i
    <3>1. d[k] = c[k] /\ d[k + 1] = c[k + 1]
      BY <2>1
    <3>2. c[k] # c[i] /\ c[k + 1] # c[i + 1] /\ c[k] # x /\ c[k + 1] # x
      BY <1>1, <1>2, <1>3, <1>4, <2>1
    <3> QED
      BY <1>1, <1>7, <2>1, <3>1, <3>2
  <2>2. CASE k = i
    BY <1>7, <2>2
  <2>3. CASE k = i + 1
    <3>1. d[k] = x /\ d[k + 1] = c[i + 1]
      BY <2>3
    <3> QED
      BY <1>7, <3>1
  <2>4. CASE k > i + 1
    <3>1. PICK j \in 0..n : j = k - 1 /\ j > i
      BY <2>4
    <3>2. d[k] = c[j] /\ d[k + 1] = c[j + 1]
      BY <2>4, <3>1
    <3>3. c[j] # c[i] /\ c[j + 1] # c[i + 1] /\ c[j] # x /\ c[j + 1] # x
      BY <1>1, <1>2, <1>3, <1>4, <3>1
    <3>4. c[j] \in Cells /\ c[j + 1] \in Cells /\ r.next[c[j]] = c[j + 1] /\ r.prev[c[j + 1]] = c[j]
      BY <1>1, <3>1
    <3> QED
      BY <1>7, <3>2, <3>3, <3>4
  <2> QED
    BY <2>1, <2>2, <2>3, <2>4
<1>11. \A j, k \in 0..(n + 1) : d[j] = d[k] => j = k
  <2> SUFFICES ASSUME NEW j \in 0..(n + 1), NEW k \in 0..(n + 1), j < k, d[j] = d[k] PROVE FALSE
    OBVIOUS
  <2>1. CASE k <= i
    BY <1>1, <2>1
  <2>2. CASE k = i + 1
    BY <1>3, <2>2
  <2>3. CASE k > i + 1 /\ j <= i
    <3>1. d[j] = c[j] /\ d[k] = c[k - 1] /\ j \in 0..n /\ k - 1 \in 0..n /\ j # k - 1
      BY <2>3
    <3> QED
      BY <1>1, <3>1
  <2>4. CASE k > i + 1 /\ j = i + 1
    <3>1. d[j] = x /\ d[k] = c[k - 1] /\ k - 1 \in 0..n
      BY <2>4
    <3> QED
      BY <1>3, <3>1
  <2>5. CASE j > i + 1
    <3>1. d[j] = c[j - 1] /\ d[k] = c[k - 1] /\ j - 1 \in 0..n /\ k - 1 \in 0..n /\ j - 1 # k - 1
      BY <2>5
    <3> QED
      BY <1>1, <3>1
  <2> QED
    BY <2>1, <2>2, <2>3, <2>4, <2>5
<1>12. d[n + 2] = d[0]
  BY <1>1
<1> QED
  BY <1>6, <1>9, <1>10, <1>11, <1>12 DEF Cycle, s

\* ngx_queue_insert_tail is ngx_queue_insert_after for the last cell.
LEMMA TailIsAfterLast ==
    ASSUME NEW r \in Rings, NEW n \in Nat, NEW c, Cycle(r, c, n), NEW x \in Cells, x \notin On(c, n)
    PROVE  ngx_queue_insert_tail(r, c[0], x) = ngx_queue_insert_head(r, c[n], x)
<1>1. c[0] \in Cells /\ c[n] \in Cells /\ r.next[c[n]] = c[0] /\ r.prev[c[0]] = c[n]
  BY DEF Cycle
<1>2. c[0] # x /\ c[n] # x
  BY DEF On
<1> DEFINE a == c[0] b == c[n]
<1>3. [r.next EXCEPT ![b] = x, ![x] = a] = [r.next EXCEPT ![x] = a, ![b] = x]
  BY <1>1, <1>2 DEF Rings
<1>4. [r.prev EXCEPT ![x] = b, ![a] = x] = [r.prev EXCEPT ![a] = x, ![x] = b]
  BY <1>1, <1>2 DEF Rings
<1> QED
  BY <1>1, <1>3, <1>4 DEF ngx_queue_insert_tail, ngx_queue_insert_head

\* d is c without place i.
LEMMA RemoveCycle ==
    ASSUME NEW r \in Rings, NEW n \in Nat, NEW c, Cycle(r, c, n), NEW i \in 1..n,
           NEW d \in [0..n -> Cells],
           \A k \in 0..(i - 1) : d[k] = c[k], \A k \in i..n : d[k] = c[k + 1]
    PROVE  LET s == ngx_queue_remove(r, c[i])
           IN s \in Rings /\ Cycle(s, d, n - 1) /\ SameBut(r, s, On(c, n))
<1> DEFINE s == ngx_queue_remove(r, c[i])
<1>1. /\ \A k \in 0..(n + 1) : c[k] \in Cells
      /\ c[n + 1] = c[0]
      /\ \A j, k \in 0..n : c[j] = c[k] => j = k
      /\ \A k \in 0..n : r.next[c[k]] = c[k + 1] /\ r.prev[c[k + 1]] = c[k]
  BY DEF Cycle
<1>2. \A j, k \in 1..(n + 1) : c[j] = c[k] => j = k
  BY OnceAround
<1>3. PICK p \in 0..(n - 1) : p = i - 1
  OBVIOUS
<1>4. c[p] \in Cells /\ c[i + 1] \in Cells /\ r.next[c[i]] = c[i + 1] /\ r.prev[c[i]] = c[p]
  BY <1>1, <1>3
<1>5. s \in Rings
  BY <1>4 DEF ngx_queue_remove, Rings
<1>6. /\ s.next[c[p]] = c[i + 1] /\ \A y \in Cells : y # c[p] => s.next[y] = r.next[y]
      /\ s.prev[c[i + 1]] = c[p] /\ \A y \in Cells : y # c[i + 1] => s.prev[y] = r.prev[y]
  BY <1>4 DEF ngx_queue_remove, Rings
<1>7. c[p] \in On(c, n) /\ c[i + 1] \in On(c, n)
  <2>1. CASE i = n
    BY <1>1, <1>3, <2>1 DEF On
  <2>2. CASE i < n
    BY <1>1, <1>3, <2>2 DEF On
  <2> QED
    BY <2>1, <2>2
<1>8. SameBut(r, s, On(c, n))
  BY <1>6, <1>7 DEF SameBut
<1> HIDE DEF s
<1>9. \A k \in 0..(n - 1) : s.next[d[k]] = d[k + 1] /\ s.prev[d[k + 1]] = d[k]
  <2> SUFFICES ASSUME NEW k \in 0..(n - 1) PROVE s.next[d[k]] = d[k + 1] /\ s.prev[d[k + 1]] = d[k]
    OBVIOUS
  <2>1. CASE k < p
    <3>1. d[k] = c[k] /\ d[k + 1] = c[k + 1]
      BY <1>3, <2>1
    <3>2. c[k] # c[p] /\ c[k + 1] # c[i + 1]
      BY <1>1, <1>2, <1>3, <2>1
    <3>3. c[k] \in Cells /\ c[k + 1] \in Cells /\ r.next[c[k]] = c[k + 1] /\ r.prev[c[k + 1]] = c[k]
      BY <1>1, <2>1
    <3> QED
      BY <1>6, <3>1, <3>2, <3>3
  <2>2. CASE k = p
    BY <1>3, <1>6, <2>2
  <2>3. CASE k > p
    <3>1. PICK j \in 0..n : j = k + 1 /\ j > i
      BY <1>3, <2>3
    <3>2. d[k] = c[j] /\ d[k + 1] = c[j + 1]
      BY <1>3, <2>3, <3>1
    <3>3. c[j] # c[p] /\ c[j + 1] # c[i + 1]
      BY <1>1, <1>2, <1>3, <3>1
    <3>4. c[j] \in Cells /\ c[j + 1] \in Cells /\ r.next[c[j]] = c[j + 1] /\ r.prev[c[j + 1]] = c[j]
      BY <1>1, <3>1
    <3> QED
      BY <1>6, <3>2, <3>3, <3>4
  <2> QED
    BY <2>1, <2>2, <2>3
<1>10. \A j, k \in 0..(n - 1) : d[j] = d[k] => j = k
  <2> SUFFICES ASSUME NEW j \in 0..(n - 1), NEW k \in 0..(n - 1), j < k, d[j] = d[k] PROVE FALSE
    OBVIOUS
  <2>1. CASE k < i
    BY <1>1, <2>1
  <2>2. CASE k >= i /\ j < i
    <3>1. d[j] = c[j] /\ d[k] = c[k + 1] /\ j \in 0..n /\ k + 1 \in 0..n /\ j # k + 1
      BY <2>2
    <3> QED
      BY <1>1, <3>1
  <2>3. CASE j >= i
    <3>1. d[j] = c[j + 1] /\ d[k] = c[k + 1] /\ j + 1 \in 0..n /\ k + 1 \in 0..n /\ j + 1 # k + 1
      BY <2>3
    <3> QED
      BY <1>1, <3>1
  <2> QED
    BY <2>1, <2>2, <2>3
<1>11. d[(n - 1) + 1] = d[0] /\ d \in [0..((n - 1) + 1) -> Cells]
  BY <1>1
<1> QED
  BY <1>5, <1>8, <1>9, <1>10, <1>11 DEF Cycle, s

\* d is c up to place i, e is g and the rest of c.
Halves(c, n, i, g, d, e, m) ==
    /\ d \in [0..i -> Cells] /\ d[i] = c[0] /\ \A k \in 0..(i - 1) : d[k] = c[k]
    /\ e \in [0..(m + 1) -> Cells] /\ e[0] = g /\ e[m + 1] = g
    /\ m = n - i + 1 /\ \A k \in 1..m : e[k] = c[k + (i - 1)]

\* ngx_queue_split at place i: g takes the cells from there on.
LEMMA SplitCycle ==
    ASSUME NEW r \in Rings, NEW n \in Nat, NEW c, Cycle(r, c, n), NEW i \in 1..n,
           NEW g \in Cells, g \notin On(c, n),
           NEW d, NEW e, NEW m \in Nat, Halves(c, n, i, g, d, e, m)
    PROVE  LET s == ngx_queue_split(r, c[0], c[i], g)
           IN /\ s \in Rings /\ Cycle(s, d, i - 1) /\ Cycle(s, e, m)
              /\ SameBut(r, s, On(c, n) \cup {g})
<1> DEFINE s == ngx_queue_split(r, c[0], c[i], g)
<1>0. /\ d \in [0..i -> Cells] /\ d[i] = c[0] /\ \A k \in 0..(i - 1) : d[k] = c[k]
      /\ e \in [0..(m + 1) -> Cells] /\ e[0] = g /\ e[m + 1] = g
      /\ m = n - i + 1 /\ \A k \in 1..m : e[k] = c[k + (i - 1)]
  BY DEF Halves
<1>1. /\ \A k \in 0..(n + 1) : c[k] \in Cells
      /\ c[n + 1] = c[0]
      /\ \A j, k \in 0..n : c[j] = c[k] => j = k
      /\ \A k \in 0..n : r.next[c[k]] = c[k + 1] /\ r.prev[c[k + 1]] = c[k]
  BY DEF Cycle
<1>2. \A k \in 0..n : c[k] # g /\ c[k] \in On(c, n)
  BY DEF On
<1>3. PICK p \in 0..(n - 1) : p = i - 1
  OBVIOUS
<1>4. /\ r.prev[c[0]] = c[n] /\ r.prev[c[i]] = c[p]
      /\ c[0] \in Cells /\ c[n] \in Cells /\ c[p] \in Cells /\ c[i] \in Cells
      /\ c[n] # c[p] /\ c[0] # c[i]
      /\ c[0] # g /\ c[n] # g /\ c[p] # g /\ c[i] # g
  BY <1>1, <1>2, <1>3
<1>5. s \in Rings
  BY <1>4 DEF ngx_queue_split, Rings
<1>6. /\ s.next[c[n]] = g /\ s.next[g] = c[i] /\ s.next[c[p]] = c[0]
      /\ \A y \in Cells : y # g /\ y # c[n] /\ y # c[p] => s.next[y] = r.next[y]
      /\ s.prev[g] = c[n] /\ s.prev[c[0]] = c[p] /\ s.prev[c[i]] = g
      /\ \A y \in Cells : y # g /\ y # c[0] /\ y # c[i] => s.prev[y] = r.prev[y]
  BY <1>4 DEF ngx_queue_split, Rings
<1>7. SameBut(r, s, On(c, n) \cup {g})
  BY <1>2, <1>3, <1>6 DEF SameBut
<1> HIDE DEF s
<1>8. \A k \in 0..n : k # p /\ k # n =>
         s.next[c[k]] = c[k + 1] /\ s.prev[c[k + 1]] = c[k]
  <2> SUFFICES ASSUME NEW k \in 0..n, k # p, k # n
               PROVE  s.next[c[k]] = c[k + 1] /\ s.prev[c[k + 1]] = c[k]
    OBVIOUS
  <2>1. k + 1 \in 1..n /\ k + 1 # i
    BY <1>3
  <2>2. /\ c[k] # c[p] /\ c[k] # c[n] /\ c[k] # g /\ c[k] \in Cells
        /\ c[k + 1] # c[0] /\ c[k + 1] # c[i] /\ c[k + 1] # g /\ c[k + 1] \in Cells
    BY <1>1, <1>2, <1>3, <2>1
  <2>3. r.next[c[k]] = c[k + 1] /\ r.prev[c[k + 1]] = c[k]
    BY <1>1
  <2> QED
    BY <1>6, <2>2, <2>3
<1>9. Cycle(s, d, i - 1)
  <2>1. \A k \in 0..p : s.next[d[k]] = d[k + 1] /\ s.prev[d[k + 1]] = d[k]
    <3> SUFFICES ASSUME NEW k \in 0..p PROVE s.next[d[k]] = d[k + 1] /\ s.prev[d[k + 1]] = d[k]
      OBVIOUS
    <3>1. CASE k = p
      BY <1>0, <1>3, <1>6, <3>1
    <3>2. CASE k < p
      <4>1. d[k] = c[k] /\ d[k + 1] = c[k + 1] /\ k \in 0..n /\ k # p /\ k # n
        BY <1>0, <1>3, <3>2
      <4> QED
        BY <1>0, <1>8, <4>1
    <3> QED
      BY <1>0, <3>1, <3>2
  <2>2. \A j, k \in 0..p : d[j] = d[k] => j = k
    BY <1>0, <1>1, <1>3
  <2>3. d[p + 1] = d[0] /\ d \in [0..(p + 1) -> Cells]
    BY <1>0, <1>3
  <2> QED
    BY <1>0, <1>3, <2>1, <2>2, <2>3 DEF Cycle
<1>10. Cycle(s, e, m)
  <2>0. \A k \in 1..m : e[k] = c[k + p] /\ k + p \in 1..n
    BY <1>0, <1>3
  <2>1. \A k \in 0..m : s.next[e[k]] = e[k + 1] /\ s.prev[e[k + 1]] = e[k]
    <3> SUFFICES ASSUME NEW k \in 0..m PROVE s.next[e[k]] = e[k + 1] /\ s.prev[e[k + 1]] = e[k]
      OBVIOUS
    <3>1. CASE k = 0
      BY <1>0, <1>3, <1>6, <2>0, <3>1
    <3>2. CASE k = m
      <4>1. k # 0 /\ e[k] = c[n] /\ e[k + 1] = g
        BY <1>0, <1>3, <2>0, <3>2
      <4> QED
        BY <1>0, <1>6, <4>1
    <3>3. CASE k # 0 /\ k # m
      <4>1. PICK j \in 0..n : j = k + p
        BY <1>0, <1>3, <2>0, <3>3
      <4>2. j # p /\ j # n /\ j + 1 = (k + 1) + p
        BY <1>0, <1>3, <3>3, <4>1
      <4>3. e[k] = c[j] /\ e[k + 1] = c[j + 1]
        BY <1>0, <2>0, <3>3, <4>1, <4>2
      <4> QED
        BY <1>0, <1>8, <4>1, <4>2, <4>3
    <3> QED
      BY <1>0, <3>1, <3>2, <3>3
  <2>2. \A j, k \in 0..m : e[j] = e[k] => j = k
    <3> SUFFICES ASSUME NEW j \in 0..m, NEW k \in 0..m, j < k, e[j] = e[k] PROVE FALSE
      OBVIOUS
    <3>1. e[k] = c[k + p] /\ k + p \in 0..n
      BY <1>0, <2>0
    <3>2. CASE j = 0
      BY <1>0, <1>2, <3>1, <3>2
    <3>3. CASE j # 0
      <4>1. e[j] = c[j + p] /\ j + p \in 0..n /\ j + p # k + p
        BY <1>0, <2>0, <3>3
      <4> QED
        BY <1>0, <1>1, <3>1, <4>1
    <3> QED
      BY <1>0, <3>2, <3>3
  <2> QED
    BY <1>0, <2>1, <2>2 DEF Cycle
<1> QED
  BY <1>0, <1>5, <1>7, <1>9, <1>10 DEF s

\* d is c and the nodes of e.
LEMMA AddCycle ==
    ASSUME NEW r \in Rings, NEW n \in Nat, NEW c, Cycle(r, c, n),
           NEW m \in Nat, NEW e, Cycle(r, e, m), On(c, n) \cap On(e, m) = {},
           NEW d \in [0..(n + m + 1) -> Cells],
           \A k \in 0..n : d[k] = c[k], \A k \in 1..m : d[n + k] = e[k], d[n + m + 1] = c[0]
    PROVE  LET s == ngx_queue_add(r, c[0], e[0])
           IN s \in Rings /\ Cycle(s, d, n + m) /\ SameBut(r, s, On(c, n) \cup On(e, m))
<1> DEFINE s == ngx_queue_add(r, c[0], e[0])
<1>1. /\ \A k \in 0..(n + 1) : c[k] \in Cells
      /\ c[n + 1] = c[0]
      /\ \A j, k \in 0..n : c[j] = c[k] => j = k
      /\ \A k \in 0..n : r.next[c[k]] = c[k + 1] /\ r.prev[c[k + 1]] = c[k]
  BY DEF Cycle
<1>2. /\ \A k \in 0..(m + 1) : e[k] \in Cells
      /\ e[m + 1] = e[0]
      /\ \A j, k \in 0..m : e[j] = e[k] => j = k
      /\ \A k \in 0..m : r.next[e[k]] = e[k + 1] /\ r.prev[e[k + 1]] = e[k]
  BY DEF Cycle
<1>3. \A j \in 0..n, k \in 0..m : c[j] # e[k] /\ c[j] \in On(c, n) /\ e[k] \in On(e, m)
  BY DEF On
<1>4. /\ r.prev[c[0]] = c[n] /\ r.next[c[n]] = c[0]
      /\ r.next[e[0]] = e[1] /\ r.prev[e[0]] = e[m]
      /\ c[0] \in Cells /\ c[n] \in Cells /\ e[0] \in Cells /\ e[1] \in Cells /\ e[m] \in Cells
      /\ c[0] # e[0] /\ c[0] # e[m] /\ c[n] # e[0] /\ c[n] # e[m]
  BY <1>1, <1>2, <1>3
<1>5. e[1] \in On(e, m) /\ e[1] # c[0] /\ e[1] # c[n]
  <2>1. CASE m = 0
    BY <1>2, <1>3, <2>1
  <2>2. CASE m > 0
    BY <1>3, <2>2
  <2> QED
    BY <2>1, <2>2
<1>6. CASE m = 0
  <2>1. e[1] = e[0]
    BY <1>2, <1>6
  <2>2. s \in Rings
    BY <1>4, <2>1 DEF ngx_queue_add, Rings
  <2>3. /\ \A y \in Cells : s.next[y] = r.next[y]
        /\ \A y \in Cells : y # e[0] => s.prev[y] = r.prev[y]
    BY <1>4, <2>1 DEF ngx_queue_add, Rings
  <2>4. SameBut(r, s, {e[0]})
    BY <2>3 DEF SameBut
  <2> HIDE DEF s
  <2>5. Cycle(s, c, n)
    BY <1>3, <2>4, Frame DEF On
  <2>6. d = c
    BY <1>1, <1>6 DEF Cycle
  <2>7. SameBut(r, s, On(c, n) \cup On(e, m))
    BY <1>3, <2>4 DEF SameBut
  <2> QED
    BY <1>6, <2>2, <2>5, <2>6, <2>7 DEF s
<1>7. CASE m > 0
  <2>1. e[1] # e[0] /\ e[m] # e[0]
    BY <1>2, <1>7
  <2>2. s \in Rings
    BY <1>4, <1>5, <2>1 DEF ngx_queue_add, Rings
  <2>3. /\ s.next[c[n]] = e[1] /\ s.next[e[m]] = c[0]
        /\ \A y \in Cells : y # c[n] /\ y # e[m] => s.next[y] = r.next[y]
        /\ s.prev[e[1]] = c[n] /\ s.prev[c[0]] = e[m]
        /\ \A y \in Cells : y # e[1] /\ y # c[0] => s.prev[y] = r.prev[y]
    BY <1>4, <1>5, <2>1 DEF ngx_queue_add, Rings
  <2>4. SameBut(r, s, On(c, n) \cup On(e, m))
    BY <1>3, <1>5, <2>3 DEF SameBut
  <2> HIDE DEF s
  <2>5. \A k \in 0..(n + m) : s.next[d[k]] = d[k + 1] /\ s.prev[d[k + 1]] = d[k]
    <3> SUFFICES ASSUME NEW k \in 0..(n + m) PROVE s.next[d[k]] = d[k + 1] /\ s.prev[d[k + 1]] = d[k]
      OBVIOUS
    <3>1. CASE k < n
      <4>1. d[k] = c[k] /\ d[k + 1] = c[k + 1] /\ r.next[c[k]] = c[k + 1] /\ r.prev[c[k + 1]] = c[k]
        BY <1>1, <3>1
      <4>2. c[k] # c[n] /\ c[k] # e[m] /\ c[k + 1] # c[0] /\ c[k + 1] # e[1]
        <5>1. c[k] # c[n] /\ c[k + 1] # c[0]
          BY <1>1, <3>1
        <5>2. k \in 0..n /\ k + 1 \in 0..n /\ 1 \in 0..m /\ m \in 0..m
          BY <1>7, <3>1
        <5> QED
          BY <1>3, <5>1, <5>2
      <4>3. c[k] \in Cells /\ c[k + 1] \in Cells
        BY <1>1, <3>1
      <4> QED
        BY <2>3, <4>1, <4>2, <4>3
    <3>2. CASE k = n
      <4>1. d[k] = c[n] /\ d[k + 1] = e[1]
        BY <1>7, <3>2
      <4> QED
        BY <2>3, <4>1
    <3>3. CASE k = n + m
      <4>1. d[k] = e[m] /\ d[k + 1] = c[0]
        BY <1>7, <3>3
      <4> QED
        BY <2>3, <4>1
    <3>4. CASE k > n /\ k < n + m
      <4>1. PICK j \in 1..(m - 1) : j = k - n
        BY <3>4
      <4>2. k = n + j /\ k + 1 = n + (j + 1) /\ j \in 1..m /\ j + 1 \in 1..m
        BY <4>1
      <4>3. d[k] = e[j] /\ d[k + 1] = e[j + 1]
        BY <4>2
      <4>4. /\ e[j] # e[m] /\ e[j + 1] # e[1] /\ r.next[e[j]] = e[j + 1] /\ r.prev[e[j + 1]] = e[j]
            /\ e[j] \in Cells /\ e[j + 1] \in Cells
        BY <1>2, <4>1
      <4>5. e[j] # c[n] /\ e[j + 1] # c[0]
        BY <1>3, <4>1
      <4> QED
        BY <2>3, <4>3, <4>4, <4>5
    <3> QED
      BY <3>1, <3>2, <3>3, <3>4
  <2>6. \A j, k \in 0..(n + m) : d[j] = d[k] => j = k
    <3> SUFFICES ASSUME NEW j \in 0..(n + m), NEW k \in 0..(n + m), j < k, d[j] = d[k] PROVE FALSE
      OBVIOUS
    <3>1. CASE k <= n
      BY <1>1, <3>1
    <3>2. CASE k > n
      <4>1. PICK l \in 1..m : k = n + l
        <5>1. k - n \in 1..m /\ k = n + (k - n)
          BY <3>2
        <5> QED
          BY <5>1
      <4>2. d[k] = e[l]
        BY <4>1
      <4>3. CASE j <= n
        BY <1>3, <4>2, <4>3
      <4>4. CASE j > n
        <5>1. PICK i \in 1..m : j = n + i
          <6>1. j - n \in 1..m /\ j = n + (j - n)
            BY <4>4
          <6> QED
            BY <6>1
        <5>2. d[j] = e[i] /\ i # l
          BY <4>1, <5>1
        <5> QED
          BY <1>2, <4>2, <5>2
      <4> QED
        BY <4>3, <4>4
    <3> QED
      BY <3>1, <3>2
  <2> QED
    BY <1>7, <2>2, <2>4, <2>5, <2>6 DEF Cycle, s
<1> QED
  BY <1>6, <1>7

-----------------------------------------------------------------------------
\* Queue h with the nodes of l, as a cycle that starts and ends at the head.
Loop(h, l) == [i \in 0..(Len(l) + 1) |-> IF i \in 1..Len(l) THEN l[i] ELSE h]
Span(h, l) == On(Loop(h, l), Len(l))
QueueAt(r, h, l) == l \in Seq(Nodes) /\ Cycle(r, Loop(h, l), Len(l))

\* What makes RingIsList inductive: no cell is in two queues or twice in one.
QueueInv ==
    /\ ring \in Rings
    /\ lists \in [Heads -> Seq(Cells)]
    /\ \A h \in Live : QueueAt(ring, h, lists[h])
    /\ \A g, h \in Live : g # h => Span(g, lists[g]) \cap Span(h, lists[h]) = {}

\* The cells of the ring a head and its nodes should make.
LEMMA LoopFacts ==
    ASSUME NEW h \in Heads, NEW l \in Seq(Nodes)
    PROVE  /\ Len(l) \in Nat /\ Loop(h, l) \in [0..(Len(l) + 1) -> Cells]
           /\ Loop(h, l)[0] = h /\ Loop(h, l)[Len(l) + 1] = h
           /\ \A i \in 1..Len(l) : Loop(h, l)[i] = l[i] /\ l[i] \in Nodes
           /\ \A x : x \in Span(h, l) <=> x = h \/ \E i \in 1..Len(l) : x = l[i]
           /\ l # Dead(h) /\ l \in Seq(Cells)
<1>1. Len(l) \in Nat /\ \A i \in 1..Len(l) : l[i] \in Nodes
  OBVIOUS
<1>2. /\ Loop(h, l) \in [0..(Len(l) + 1) -> Cells]
      /\ Loop(h, l)[0] = h /\ Loop(h, l)[Len(l) + 1] = h
      /\ \A i \in 1..Len(l) : Loop(h, l)[i] = l[i]
  BY <1>1 DEF Loop, Cells
<1>3. \A x : x \in Span(h, l) <=> x = h \/ \E i \in 1..Len(l) : x = l[i]
  <2> SUFFICES ASSUME NEW x PROVE x \in Span(h, l) <=> x = h \/ \E i \in 1..Len(l) : x = l[i]
    OBVIOUS
  <2>1. x \in Span(h, l) <=> \E i \in 0..Len(l) : x = Loop(h, l)[i]
    BY DEF Span, On
  <2>2. \A i \in 0..Len(l) : i = 0 \/ i \in 1..Len(l)
    BY <1>1
  <2>3. 0 \in 0..Len(l) /\ \A i \in 1..Len(l) : i \in 0..Len(l)
    BY <1>1
  <2> QED
    BY <1>2, <2>1, <2>2, <2>3
<1>4. l # Dead(h)
  <2>1. Dead(h)[1] = h /\ Len(Dead(h)) = 1
    BY DEF Dead
  <2>2. h \notin Nodes
    BY NgxQueueAssumption
  <2> QED
    BY <1>1, <2>1, <2>2
<1>5. l \in Seq(Cells)
  BY SeqMonotonic DEF Cells
<1> QED
  BY <1>1, <1>2, <1>3, <1>4, <1>5

\* The cells of a queue are its head and its nodes.
LEMMA SpanIs ==
    ASSUME NEW h \in Heads, NEW l \in Seq(Nodes)
    PROVE  Span(h, l) = {h} \cup {l[i] : i \in 1..Len(l)}
  BY LoopFacts

\* Where the elements of two sequences are in their concatenation.
LEMMA ConcatPlaces ==
    ASSUME NEW S, NEW a \in Seq(S), NEW b \in Seq(S)
    PROVE  /\ a \o b \in Seq(S) /\ Len(a \o b) = Len(a) + Len(b)
           /\ \A k \in 1..Len(a) : (a \o b)[k] = a[k]
           /\ \A k \in (Len(a) + 1)..(Len(a) + Len(b)) : (a \o b)[k] = b[k - Len(a)]
  BY ConcatProperties

\* A step that leaves alone the lists of the queues outside H and the cells outside C.
LEMMA OthersKept ==
    ASSUME QueueInv, NEW H \in SUBSET Heads, NEW C,
           ring' \in Rings, lists' \in [Heads -> Seq(Cells)],
           \A g \in Heads \ H : lists'[g] = lists[g],
           SameBut(ring, ring', C),
           \A g \in Live \ H : Span(g, lists[g]) \cap C = {},
           \A h \in H : lists'[h] # Dead(h) =>
               QueueAt(ring', h, lists'[h]) /\ Span(h, lists'[h]) \subseteq C,
           \A g, h \in H : g # h /\ lists'[g] # Dead(g) /\ lists'[h] # Dead(h) =>
               Span(g, lists'[g]) \cap Span(h, lists'[h]) = {}
    PROVE  QueueInv'
<1>1. \A g \in Heads \ H : lists'[g] # Dead(g) => g \in Live \ H
  BY DEF Live
<1>2. ASSUME NEW g \in Live \ H PROVE QueueAt(ring', g, lists'[g])
  <2>1. g \in Heads /\ lists'[g] = lists[g] /\ QueueAt(ring, g, lists[g])
    BY DEF Live, QueueInv
  <2>2. Len(lists[g]) \in Nat /\ Cycle(ring, Loop(g, lists[g]), Len(lists[g]))
        /\ On(Loop(g, lists[g]), Len(lists[g])) \cap C = {}
    BY <2>1 DEF QueueAt, Span
  <2>3. Cycle(ring', Loop(g, lists[g]), Len(lists[g]))
    BY <2>2, Frame
  <2> QED
    BY <2>1, <2>3 DEF QueueAt
<1>3. ASSUME NEW g \in Heads, lists'[g] # Dead(g) PROVE QueueAt(ring', g, lists'[g])
  BY <1>1, <1>2, <1>3
<1>4. ASSUME NEW g \in Heads, lists'[g] # Dead(g), NEW h \in Heads, lists'[h] # Dead(h), g # h
      PROVE  Span(g, lists'[g]) \cap Span(h, lists'[h]) = {}
  <2>1. CASE g \in H /\ h \in H
    BY <1>4, <2>1
  <2>2. CASE g \in H /\ h \notin H
    BY <1>1, <1>4, <2>2
  <2>3. CASE g \notin H /\ h \in H
    BY <1>1, <1>4, <2>3
  <2>4. CASE g \notin H /\ h \notin H
    BY <1>1, <1>4, <2>4 DEF QueueInv
  <2> QED
    BY <2>1, <2>2, <2>3, <2>4
<1> QED
  BY <1>3, <1>4 DEF QueueInv, Live

\* The case of one queue whose list becomes m.
LEMMA OneQueue ==
    ASSUME QueueInv, NEW h \in Heads, NEW m, NEW C,
           ring' \in Rings, lists' = [lists EXCEPT ![h] = m],
           SameBut(ring, ring', C), QueueAt(ring', h, m), Span(h, m) \subseteq C,
           \A g \in Live \ {h} : Span(g, lists[g]) \cap C = {}
    PROVE  QueueInv'
<1>1. m \in Seq(Cells)
  BY LoopFacts DEF QueueAt
<1>2. /\ lists' \in [Heads -> Seq(Cells)] /\ lists'[h] = m
      /\ \A g \in Heads \ {h} : lists'[g] = lists[g]
  BY <1>1 DEF QueueInv
<1>3. /\ \A k \in {h} : QueueAt(ring', k, lists'[k]) /\ Span(k, lists'[k]) \subseteq C
      /\ \A g, k \in {h} : g = k
  BY <1>2
<1> DEFINE H == {h}
<1>4. /\ H \in SUBSET Heads
      /\ \A g \in Heads \ H : lists'[g] = lists[g]
      /\ \A g \in Live \ H : Span(g, lists[g]) \cap C = {}
      /\ \A k \in H : QueueAt(ring', k, lists'[k]) /\ Span(k, lists'[k]) \subseteq C
      /\ \A g, k \in H : g = k
  BY <1>2, <1>3
<1> HIDE DEF H
<1> QED
  BY <1>2, <1>4, OthersKept

\* The cells of the queues that live: the head h itself, and nodes that are linked.
LEMMA SpanFacts ==
    ASSUME QueueInv, NEW h \in Live
    PROVE  /\ h \in Heads /\ lists[h] \in Seq(Nodes)
           /\ \A x \in Nodes : x \in Span(h, lists[h]) => x \in Linked
           /\ \A g \in Heads : g \in Span(h, lists[h]) => g = h
<1>1. h \in Heads /\ lists[h] \in Seq(Nodes)
  BY DEF QueueInv, QueueAt, Live
<1>2. \A g \in Heads : g \notin Nodes
  BY NgxQueueAssumption
<1> QED
  BY <1>1, <1>2, LoopFacts DEF Linked

-----------------------------------------------------------------------------
\* One operation after the other keeps QueueInv.
LEMMA CreateStep == ASSUME QueueInv, NEW h \in Heads, Create(h) PROVE QueueInv'
<1>1. ring \in Rings /\ h \in Cells /\ h \notin Live
  BY DEF QueueInv, Cells, Create
<1>2. <<>> \in Seq(Nodes) /\ Len(<<>>) = 0
  OBVIOUS
<1>3. Loop(h, <<>>) \in [0..1 -> {h}]
  BY DEF Loop
<1>4. ring' \in Rings /\ Cycle(ring', Loop(h, <<>>), 0) /\ SameBut(ring, ring', {h})
  BY <1>1, <1>3, InitCycle DEF Create
<1>5. QueueAt(ring', h, <<>>)
  BY <1>2, <1>4 DEF QueueAt
<1>6. Span(h, <<>>) \subseteq {h}
  <2>1. PICK e \in Seq(Nodes) : e = <<>> /\ Len(e) = 0
    BY <1>2
  <2>2. \A x : x \in Span(h, e) <=> x = h \/ \E i \in 1..Len(e) : x = e[i]
    BY LoopFacts
  <2>3. 1..Len(e) = {}
    BY <2>1
  <2>4. Span(h, e) \subseteq {h}
    BY <2>2, <2>3
  <2> QED
    BY <2>1, <2>4
<1>7. \A g \in Live \ {h} : Span(g, lists[g]) \cap {h} = {}
  BY SpanFacts
<1>8. lists' = [lists EXCEPT ![h] = <<>>]
  BY DEF Create
<1> QED
  BY <1>4, <1>5, <1>6, <1>7, <1>8, OneQueue

\* m is the list l with x behind its first i nodes.
LEMMA InsertAt ==
    ASSUME QueueInv, NEW h \in Live, NEW x \in Nodes, x \notin Linked,
           NEW i \in 0..Len(lists[h]), NEW m \in Seq(Nodes), Len(m) = Len(lists[h]) + 1,
           \A k \in 1..i : m[k] = lists[h][k], m[i + 1] = x,
           \A k \in (i + 2)..Len(m) : m[k] = lists[h][k - 1],
           ring' = ngx_queue_insert_head(ring, Loop(h, lists[h])[i], x),
           lists' = [lists EXCEPT ![h] = m]
    PROVE  QueueInv'
<1> DEFINE l == lists[h]
           n == Len(lists[h])
           c == Loop(h, lists[h])
           d == Loop(h, m)
<1>1. h \in Heads /\ l \in Seq(Nodes) /\ x \notin Span(h, l) /\ ring \in Rings
  BY SpanFacts DEF QueueInv
<1>2. n \in Nat /\ Cycle(ring, c, n) /\ x \notin On(c, n) /\ x \in Cells
  BY <1>1 DEF QueueInv, QueueAt, Span, Cells
<1>a. c[0] = h /\ c[n + 1] = h /\ \A k \in 1..n : c[k] = l[k]
  BY <1>1, LoopFacts
<1>b. /\ d \in [0..(Len(m) + 1) -> Cells]
      /\ d[0] = h /\ d[Len(m) + 1] = h /\ \A k \in 1..Len(m) : d[k] = m[k]
  BY <1>1, LoopFacts
<1> HIDE DEF c, d
<1>3. /\ c[0] = h /\ c[n + 1] = h /\ \A k \in 1..n : c[k] = l[k]
      /\ d \in [0..(n + 2) -> Cells]
      /\ d[0] = h /\ d[n + 2] = h /\ \A k \in 1..(n + 1) : d[k] = m[k]
  <2>1. Len(m) + 1 = n + 2
    BY <1>2
  <2> QED
    BY <1>a, <1>b, <2>1
<1> HIDE DEF l, c, d
<1>4. \A k \in 0..i : d[k] = c[k]
  <2> SUFFICES ASSUME NEW k \in 0..i PROVE d[k] = c[k]
    OBVIOUS
  <2>1. CASE k = 0
    BY <1>3, <2>1
  <2>2. CASE k > 0
    BY <1>2, <1>3, <2>2 DEF l
  <2> QED
    BY <2>1, <2>2
<1>5. d[i + 1] = x
  <2>1. i + 1 \in 1..(n + 1)
    BY <1>2
  <2> QED
    BY <1>3, <2>1
<1>6. \A k \in (i + 2)..(n + 2) : d[k] = c[k - 1]
  <2> SUFFICES ASSUME NEW k \in (i + 2)..(n + 2) PROVE d[k] = c[k - 1]
    OBVIOUS
  <2>1. CASE k = n + 2
    BY <1>2, <1>3, <2>1
  <2>2. CASE k < n + 2
    <3>1. k \in 1..(n + 1) /\ k - 1 \in 1..n /\ k \in (i + 2)..Len(m)
      BY <1>2, <2>2
    <3> QED
      BY <1>3, <3>1 DEF l
  <2>3. k = n + 2 \/ k < n + 2
    <3>1. n \in Nat
      BY <1>2
    <3> HIDE DEF n
    <3> QED
      BY <3>1
  <2> QED
    BY <2>1, <2>2, <2>3
<1>7. ring' \in Rings /\ Cycle(ring', d, n + 1) /\ SameBut(ring, ring', On(c, n) \cup {x})
  BY <1>1, <1>2, <1>3, <1>4, <1>5, <1>6, InsertCycle DEF c
<1>8. QueueAt(ring', h, m)
  BY <1>7 DEF QueueAt, d
<1>9. Span(h, m) \subseteq On(c, n) \cup {x}
  <2>1. \A k \in 0..(n + 1) : d[k] \in On(c, n) \cup {x}
    <3> SUFFICES ASSUME NEW k \in 0..(n + 1) PROVE d[k] \in On(c, n) \cup {x}
      OBVIOUS
    <3>1. CASE k <= i
      <4>1. d[k] = c[k] /\ k \in 0..n
        BY <1>2, <1>4, <3>1
      <4> QED
        BY <4>1 DEF On
    <3>2. CASE k = i + 1
      BY <1>5, <3>2
    <3>3. CASE k > i + 1
      <4>1. d[k] = c[k - 1] /\ k - 1 \in 0..n
        BY <1>2, <1>6, <3>3
      <4> QED
        BY <4>1 DEF On
    <3> QED
      BY <3>1, <3>2, <3>3
  <2>2. Span(h, m) = {d[k] : k \in 0..(n + 1)}
    BY DEF Span, On, d
  <2> QED
    BY <2>1, <2>2
<1>10. \A g \in Live \ {h} : Span(g, lists[g]) \cap (On(c, n) \cup {x}) = {}
  <2>1. On(c, n) = Span(h, lists[h])
    BY DEF Span, c
  <2> QED
    BY <2>1, SpanFacts DEF QueueInv
<1> QED
  BY <1>1, <1>7, <1>8, <1>9, <1>10, OneQueue

\* ngx_queue_insert_head: behind place 0, which is the head.
LEMMA InsertHeadStep ==
    ASSUME QueueInv, NEW h \in Heads, NEW x \in Nodes, InsertHead(h, x) PROVE QueueInv'
<1> DEFINE l == lists[h]
           m == <<x>> \o l
<1>1. h \in Live /\ x \notin Linked /\ lists' = [lists EXCEPT ![h] = m]
      /\ ring' = ngx_queue_insert_head(ring, h, x)
  BY DEF InsertHead
<1>2. l \in Seq(Nodes) /\ Loop(h, l)[0] = h
  BY <1>1, SpanFacts, LoopFacts
<1>3. /\ m \in Seq(Nodes) /\ Len(m) = Len(l) + 1 /\ m[0 + 1] = x /\ 0 \in 0..Len(l)
      /\ \A k \in 1..0 : m[k] = l[k]
      /\ \A k \in (0 + 2)..Len(m) : m[k] = l[k - 1]
  BY <1>2
<1> HIDE DEF m
<1> QED
  BY <1>1, <1>2, <1>3, InsertAt

\* ngx_queue_insert_tail: behind the last place.
LEMMA InsertTailStep ==
    ASSUME QueueInv, NEW h \in Heads, NEW x \in Nodes, InsertTail(h, x) PROVE QueueInv'
<1> DEFINE l == lists[h]
           m == Append(l, x)
           n == Len(lists[h])
<1>1. h \in Live /\ x \notin Linked /\ lists' = [lists EXCEPT ![h] = m]
      /\ ring' = ngx_queue_insert_tail(ring, h, x)
  BY DEF InsertTail
<1>2. l \in Seq(Nodes) /\ Loop(h, l)[0] = h /\ n \in Nat /\ x \notin Span(h, l)
  BY <1>1, SpanFacts, LoopFacts
<1>3. ring' = ngx_queue_insert_head(ring, Loop(h, l)[n], x)
  <2>1. ring \in Rings /\ Cycle(ring, Loop(h, l), n) /\ x \notin On(Loop(h, l), n) /\ x \in Cells
    BY <1>1, <1>2 DEF QueueInv, QueueAt, Span, Cells
  <2> QED
    BY <1>1, <1>2, <2>1, TailIsAfterLast
<1>4. /\ m \in Seq(Nodes) /\ Len(m) = n + 1 /\ m[n + 1] = x /\ n \in 0..Len(l)
      /\ \A k \in 1..n : m[k] = l[k]
      /\ \A k \in (n + 2)..Len(m) : m[k] = l[k - 1]
  BY <1>2
<1> HIDE DEF m
<1> QED
  BY <1>1, <1>2, <1>3, <1>4, InsertAt

\* ngx_queue_insert_after: behind the node that was named.
LEMMA InsertAfterStep ==
    ASSUME QueueInv, NEW h \in Heads, NEW i \in 1..Len(lists[h]), NEW x \in Nodes,
           InsertAfter(h, i, x)
    PROVE  QueueInv'
<1> DEFINE l == lists[h]
           n == Len(lists[h])
           m == SubSeq(l, 1, i) \o <<x>> \o SubSeq(l, i + 1, n)
<1>1. h \in Live /\ x \notin Linked /\ lists' = [lists EXCEPT ![h] = m]
      /\ ring' = ngx_queue_insert_head(ring, l[i], x)
  BY DEF InsertAfter
<1>2. l \in Seq(Nodes) /\ Loop(h, l)[i] = l[i] /\ n \in Nat /\ i \in 0..n
  BY <1>1, SpanFacts, LoopFacts
<1>3. /\ m \in Seq(Nodes) /\ Len(m) = n + 1 /\ m[i + 1] = x
      /\ \A k \in 1..i : m[k] = l[k]
      /\ \A k \in (i + 2)..Len(m) : m[k] = l[k - 1]
  <2> DEFINE a == SubSeq(l, 1, i)
             b == SubSeq(l, i + 1, n)
  <2>1. a \in Seq(Nodes) /\ Len(a) = i /\ \A k \in 1..i : a[k] = l[k]
    BY <1>2
  <2>2. b \in Seq(Nodes) /\ Len(b) = n - i /\ \A k \in 1..(n - i) : b[k] = l[i + k]
    BY <1>2
  <2> HIDE DEF a, b, l, n
  <2>3. /\ a \o <<x>> \in Seq(Nodes) /\ Len(a \o <<x>>) = i + 1 /\ (a \o <<x>>)[i + 1] = x
        /\ \A k \in 1..i : (a \o <<x>>)[k] = l[k]
    BY <1>2, <2>1
  <2>4. PICK e \in Seq(Nodes) : e = a \o <<x>>
    BY <2>3
  <2>a. /\ e \o b \in Seq(Nodes) /\ Len(e \o b) = Len(e) + Len(b)
        /\ \A k \in 1..Len(e) : (e \o b)[k] = e[k]
        /\ \A k \in (Len(e) + 1)..(Len(e) + Len(b)) : (e \o b)[k] = b[k - Len(e)]
    BY <2>2, ConcatPlaces
  <2>b. n \in Nat /\ i \in 0..n /\ Len(e) = i + 1 /\ Len(b) = n - i /\ e[i + 1] = x
        /\ \A k \in 1..i : e[k] = l[k]
    BY <1>2, <2>2, <2>3, <2>4
  <2>5. /\ Len(e \o b) = n + 1 /\ (e \o b)[i + 1] = x
        /\ \A k \in 1..i : (e \o b)[k] = l[k]
    <3>1. Len(e \o b) = n + 1
      BY <2>a, <2>b
    <3>2. i + 1 \in 1..Len(e) /\ \A k \in 1..i : k \in 1..Len(e)
      BY <2>b
    <3> QED
      BY <2>a, <2>b, <3>1, <3>2
  <2>6. \A k \in (i + 2)..(n + 1) : (e \o b)[k] = l[k - 1]
    <3> SUFFICES ASSUME NEW k \in (i + 2)..(n + 1) PROVE (e \o b)[k] = l[k - 1]
      OBVIOUS
    <3>1. (e \o b)[k] = b[k - (i + 1)] /\ k - (i + 1) \in 1..(n - i) /\ i + (k - (i + 1)) = k - 1
      BY <1>2, <2>2, <2>3, <2>4, <2>a
    <3> QED
      BY <2>2, <3>1
  <2> QED
    BY <2>4, <2>5, <2>6, <2>a DEF a, b
<1> HIDE DEF m
<1> QED
  BY <1>1, <1>2, <1>3, InsertAt

\* ngx_queue_remove: the other nodes stay in their order.
LEMMA RemoveStep ==
    ASSUME QueueInv, NEW h \in Heads, NEW i \in 1..Len(lists[h]), Remove(h, i) PROVE QueueInv'
<1> DEFINE l == lists[h]
           n == Len(lists[h])
           m == SubSeq(l, 1, i - 1) \o SubSeq(l, i + 1, n)
           c == Loop(h, lists[h])
           d == Loop(h, m)
<1>1. h \in Live /\ lists' = [lists EXCEPT ![h] = m] /\ ring' = ngx_queue_remove(ring, l[i])
  BY DEF Remove
<1>2. l \in Seq(Nodes) /\ n \in Nat /\ i \in 1..n /\ ring \in Rings /\ Cycle(ring, c, n)
  BY <1>1, SpanFacts DEF QueueInv, QueueAt
<1>3. /\ m \in Seq(Nodes) /\ Len(m) = n - 1
      /\ \A k \in 1..(i - 1) : m[k] = l[k]
      /\ \A k \in i..(n - 1) : m[k] = l[k + 1]
  <2> DEFINE a == SubSeq(l, 1, i - 1)
             b == SubSeq(l, i + 1, n)
  <2>1. a \in Seq(Nodes) /\ Len(a) = i - 1 /\ \A k \in 1..(i - 1) : a[k] = l[k]
    BY <1>2
  <2>2. b \in Seq(Nodes) /\ Len(b) = n - i /\ \A k \in 1..(n - i) : b[k] = l[i + k]
    BY <1>2
  <2> HIDE DEF a, b, l, n
  <2>a. /\ a \o b \in Seq(Nodes) /\ Len(a \o b) = Len(a) + Len(b)
        /\ \A k \in 1..Len(a) : (a \o b)[k] = a[k]
        /\ \A k \in (Len(a) + 1)..(Len(a) + Len(b)) : (a \o b)[k] = b[k - Len(a)]
    BY <2>1, <2>2, ConcatPlaces
  <2>3. /\ Len(a \o b) = n - 1
        /\ \A k \in 1..(i - 1) : (a \o b)[k] = l[k]
    BY <1>2, <2>1, <2>2, <2>a
  <2>4. \A k \in i..(n - 1) : (a \o b)[k] = l[k + 1]
    <3> SUFFICES ASSUME NEW k \in i..(n - 1) PROVE (a \o b)[k] = l[k + 1]
      OBVIOUS
    <3>1. (a \o b)[k] = b[k - (i - 1)] /\ k - (i - 1) \in 1..(n - i) /\ i + (k - (i - 1)) = k + 1
      BY <1>2, <2>1, <2>2, <2>a
    <3> QED
      BY <2>2, <3>1
  <2> QED
    BY <2>3, <2>4, <2>a DEF a, b
<1> HIDE DEF m
<1>a. c[0] = h /\ c[n + 1] = h /\ \A k \in 1..n : c[k] = l[k]
  BY <1>2, LoopFacts
<1>b. /\ d \in [0..(Len(m) + 1) -> Cells]
      /\ d[0] = h /\ d[Len(m) + 1] = h /\ \A k \in 1..Len(m) : d[k] = m[k]
  BY <1>3, LoopFacts
<1> HIDE DEF c, d
<1>4. /\ d \in [0..n -> Cells] /\ d[0] = h /\ d[n] = h /\ \A k \in 1..(n - 1) : d[k] = m[k]
  <2>1. Len(m) + 1 = n
    BY <1>2, <1>3
  <2> QED
    BY <1>3, <1>b, <2>1
<1>5. \A k \in 0..(i - 1) : d[k] = c[k]
  <2> SUFFICES ASSUME NEW k \in 0..(i - 1) PROVE d[k] = c[k]
    OBVIOUS
  <2>1. CASE k = 0
    BY <1>a, <1>4, <2>1
  <2>2. CASE k > 0
    <3>1. k \in 1..(i - 1) /\ k \in 1..(n - 1) /\ k \in 1..n
      BY <1>2, <2>2
    <3> QED
      BY <1>3, <1>a, <1>4, <3>1
  <2> QED
    BY <2>1, <2>2
<1>6. \A k \in i..n : d[k] = c[k + 1]
  <2> SUFFICES ASSUME NEW k \in i..n PROVE d[k] = c[k + 1]
    OBVIOUS
  <2>1. CASE k = n
    BY <1>a, <1>4, <2>1
  <2>2. CASE k < n
    <3>1. k \in i..(n - 1) /\ k \in 1..(n - 1) /\ k + 1 \in 1..n
      BY <1>2, <2>2
    <3> QED
      BY <1>3, <1>a, <1>4, <3>1
  <2> QED
    BY <1>2, <2>1, <2>2
<1>7. ring' \in Rings /\ Cycle(ring', d, n - 1) /\ SameBut(ring, ring', On(c, n))
  <2>1. ring' = ngx_queue_remove(ring, c[i])
    BY <1>1, <1>2, <1>a
  <2> QED
    BY <1>2, <1>4, <1>5, <1>6, <2>1, RemoveCycle
<1>8. QueueAt(ring', h, m)
  BY <1>3, <1>7 DEF QueueAt, d
<1>9. Span(h, m) \subseteq On(c, n)
  <2>1. \A k \in 0..(n - 1) : d[k] \in On(c, n)
    <3> SUFFICES ASSUME NEW k \in 0..(n - 1) PROVE d[k] \in On(c, n)
      OBVIOUS
    <3>1. CASE k < i
      <4>1. d[k] = c[k] /\ k \in 0..n
        BY <1>2, <1>5, <3>1
      <4> QED
        BY <4>1 DEF On
    <3>2. CASE k >= i
      <4>1. d[k] = c[k + 1] /\ k + 1 \in 0..n
        BY <1>2, <1>6, <3>2
      <4> QED
        BY <4>1 DEF On
    <3> QED
      BY <1>2, <3>1, <3>2
  <2>2. Span(h, m) = {d[k] : k \in 0..(n - 1)}
    BY <1>3 DEF Span, On, d
  <2> QED
    BY <2>1, <2>2
<1>10. \A g \in Live \ {h} : Span(g, lists[g]) \cap On(c, n) = {}
  <2>1. On(c, n) = Span(h, lists[h])
    BY DEF Span, c
  <2> QED
    BY <1>1, <2>1 DEF QueueInv
<1> QED
  BY <1>1, <1>7, <1>8, <1>9, <1>10, OneQueue

\* ngx_queue_split: two rings from one, though g was never initialised.
LEMMA SplitStep ==
    ASSUME QueueInv, NEW h \in Heads, NEW i \in 1..Len(lists[h]), NEW g \in Heads, Split(h, i, g)
    PROVE  QueueInv'
<1> DEFINE l == lists[h]
           n == Len(lists[h])
           m == (n - i) + 1
           a == SubSeq(l, 1, i - 1)
           b == SubSeq(l, i, n)
           c == Loop(h, lists[h])
           d == Loop(h, a)
           e == Loop(g, b)
<1>1. /\ h \in Live /\ g \notin Live /\ ring' = ngx_queue_split(ring, h, l[i], g)
      /\ lists' = [lists EXCEPT ![h] = a, ![g] = b]
  BY DEF Split
<1>2. l \in Seq(Nodes) /\ n \in Nat /\ i \in 1..n /\ ring \in Rings /\ Cycle(ring, c, n)
  BY <1>1, SpanFacts DEF QueueInv, QueueAt
<1>3. g # h /\ g \in Cells /\ g \notin Span(h, l)
  BY <1>1, SpanFacts DEF Cells
<1>4. m \in Nat /\ m >= 1
  BY <1>2
<1>5. a \in Seq(Nodes) /\ Len(a) = i - 1 /\ \A k \in 1..(i - 1) : a[k] = l[k]
  BY <1>2
<1>6. b \in Seq(Nodes) /\ Len(b) = m /\ \A k \in 1..m : b[k] = l[k + (i - 1)]
  BY <1>2
<1> HIDE DEF a, b
<1>c. c[0] = h /\ c[n + 1] = h /\ \A k \in 1..n : c[k] = l[k]
  BY <1>2, LoopFacts
<1>d. /\ d \in [0..(Len(a) + 1) -> Cells]
      /\ d[0] = h /\ d[Len(a) + 1] = h /\ \A k \in 1..Len(a) : d[k] = a[k]
  BY <1>5, LoopFacts
<1>e. /\ e \in [0..(m + 1) -> Cells]
      /\ e[0] = g /\ e[m + 1] = g /\ \A k \in 1..m : e[k] = b[k]
  BY <1>6, LoopFacts
<1> HIDE DEF c, d, e, m
<1>7. d \in [0..i -> Cells] /\ d[i] = c[0] /\ \A k \in 0..(i - 1) : d[k] = c[k]
  <2>1. Len(a) + 1 = i
    BY <1>2, <1>5
  <2>2. \A k \in 1..(i - 1) : d[k] = c[k]
    BY <1>2, <1>5, <1>c, <1>d
  <2>3. \A k \in 0..(i - 1) : k = 0 \/ k \in 1..(i - 1)
    BY <1>2
  <2> QED
    BY <1>c, <1>d, <2>1, <2>2, <2>3
<1>8. \A k \in 1..m : e[k] = c[k + (i - 1)]
  <2> SUFFICES ASSUME NEW k \in 1..m PROVE e[k] = c[k + (i - 1)]
    OBVIOUS
  <2>1. k + (i - 1) \in 1..n
    BY <1>2 DEF m
  <2> QED
    BY <1>6, <1>c, <1>e, <2>1
<1>9. /\ ring' \in Rings /\ Cycle(ring', d, i - 1) /\ Cycle(ring', e, m)
      /\ SameBut(ring, ring', On(c, n) \cup {g})
  <2>1. ring' = ngx_queue_split(ring, c[0], c[i], g)
    BY <1>1, <1>2, <1>c
  <2>2. g \notin On(c, n)
    BY <1>3 DEF Span, c
  <2>3. m = n - i + 1
    BY DEF m
  <2>4. Halves(c, n, i, g, d, e, m)
    BY <1>7, <1>8, <1>e, <2>3 DEF Halves
  <2>5. ring \in Rings /\ n \in Nat /\ Cycle(ring, c, n) /\ i \in 1..n /\ g \in Cells
    BY <1>2, <1>3
  <2> HIDE DEF l, n
  <2> QED
    BY <1>4, <2>1, <2>2, <2>4, <2>5, SplitCycle
<1>10. QueueAt(ring', h, a) /\ QueueAt(ring', g, b)
  BY <1>5, <1>6, <1>9 DEF QueueAt, d, e
<1>11. /\ lists' \in [Heads -> Seq(Cells)] /\ lists'[h] = a /\ lists'[g] = b
       /\ \A k \in Heads \ {h, g} : lists'[k] = lists[k]
  <2>1. a \in Seq(Cells) /\ b \in Seq(Cells)
    BY <1>5, <1>6, LoopFacts
  <2> QED
    BY <1>1, <1>3, <2>1 DEF QueueInv
<1>12. /\ Span(h, a) = {h} \cup {l[k] : k \in 1..(i - 1)}
       /\ Span(g, b) = {g} \cup {l[k + (i - 1)] : k \in 1..m}
       /\ Span(h, l) = {h} \cup {l[k] : k \in 1..n}
  <2>1. Span(h, a) = {h} \cup {a[k] : k \in 1..Len(a)}
    BY <1>5, SpanIs
  <2>2. Span(g, b) = {g} \cup {b[k] : k \in 1..Len(b)}
    BY <1>6, SpanIs
  <2>3. Span(h, l) = {h} \cup {l[k] : k \in 1..n}
    BY <1>2, SpanIs
  <2>4. {a[k] : k \in 1..Len(a)} = {l[k] : k \in 1..(i - 1)}
    BY <1>5
  <2>5. {b[k] : k \in 1..Len(b)} = {l[k + (i - 1)] : k \in 1..m}
    BY <1>6
  <2> QED
    BY <2>1, <2>2, <2>3, <2>4, <2>5
<1>13. \A k \in 1..(i - 1) : k \in 1..n
  BY <1>2
<1>14. \A k \in 1..m : k + (i - 1) \in 1..n
  BY <1>2 DEF m
<1>15. Span(h, a) \subseteq Span(h, l) \cup {g} /\ Span(g, b) \subseteq Span(h, l) \cup {g}
  BY <1>12, <1>13, <1>14
<1>16. Span(h, a) \cap Span(g, b) = {}
  <2>1. \A j \in 1..(i - 1), k \in 1..m : l[j] # l[k + (i - 1)]
    <3> SUFFICES ASSUME NEW j \in 1..(i - 1), NEW k \in 1..m PROVE l[j] # l[k + (i - 1)]
      OBVIOUS
    <3>1. /\ j \in 0..n /\ k + (i - 1) \in 0..n /\ j # k + (i - 1)
          /\ c[j] = l[j] /\ c[k + (i - 1)] = l[k + (i - 1)]
      BY <1>2, <1>13, <1>14, <1>c
    <3> QED
      BY <1>2, <3>1 DEF Cycle
  <2>2. \A k \in 1..n : l[k] \in Nodes /\ l[k] # h /\ l[k] # g
    BY <1>2, NgxQueueAssumption
  <2> QED
    BY <1>3, <1>12, <1>13, <1>14, <2>1, <2>2
<1>17. On(c, n) = Span(h, l)
  BY DEF Span, c
<1> DEFINE H == {h, g}
           C == Span(h, l) \cup {g}
<1>18. /\ \A k \in Heads \ H : lists'[k] = lists[k]
       /\ \A k \in Live \ H : Span(k, lists[k]) \cap C = {}
       /\ \A k \in H : QueueAt(ring', k, lists'[k]) /\ Span(k, lists'[k]) \subseteq C
       /\ \A j, k \in H : j # k => Span(j, lists'[j]) \cap Span(k, lists'[k]) = {}
  <2>1. \A k \in Live \ H : Span(k, lists[k]) \cap C = {}
    BY <1>1, SpanFacts DEF QueueInv
  <2> QED
    BY <1>10, <1>11, <1>15, <1>16, <2>1
<1>19. H \in SUBSET Heads /\ SameBut(ring, ring', C)
  BY <1>9, <1>17
<1> HIDE DEF H, C
<1> QED
  BY <1>9, <1>11, <1>18, <1>19, OthersKept

\* ngx_queue_add: one ring from two, and the head of the second is no queue any more.
LEMMA AddStep ==
    ASSUME QueueInv, NEW h \in Heads, NEW g \in Heads, Add(h, g) PROVE QueueInv'
<1> DEFINE l == lists[h]
           n == Len(lists[h])
           k == lists[g]
           m == Len(lists[g])
           a == l \o k
           c == Loop(h, lists[h])
           e == Loop(g, lists[g])
           d == Loop(h, a)
<1>1. /\ h \in Live /\ g \in Live /\ g # h /\ ring' = ngx_queue_add(ring, h, g)
      /\ lists' = [lists EXCEPT ![h] = a, ![g] = Dead(g)]
  BY DEF Add
<1>2. l \in Seq(Nodes) /\ n \in Nat /\ ring \in Rings /\ Cycle(ring, c, n)
  BY <1>1, SpanFacts DEF QueueInv, QueueAt
<1>3. k \in Seq(Nodes) /\ m \in Nat /\ Cycle(ring, e, m)
  BY <1>1, SpanFacts DEF QueueInv, QueueAt
<1>4. /\ a \in Seq(Nodes) /\ Len(a) = n + m
      /\ \A i \in 1..n : a[i] = l[i]
      /\ \A i \in (n + 1)..(n + m) : a[i] = k[i - n]
  BY <1>2, <1>3, ConcatPlaces
<1> HIDE DEF a
<1>c. c[0] = h /\ c[n + 1] = h /\ \A i \in 1..n : c[i] = l[i]
  BY <1>2, LoopFacts
<1>e. e[0] = g /\ e[m + 1] = g /\ \A i \in 1..m : e[i] = k[i]
  BY <1>3, LoopFacts
<1>d. /\ d \in [0..(n + m + 1) -> Cells]
      /\ d[0] = h /\ d[n + m + 1] = h /\ \A i \in 1..(n + m) : d[i] = a[i]
  BY <1>4, LoopFacts
<1>5. On(c, n) = Span(h, l) /\ On(e, m) = Span(g, k)
  BY DEF Span
<1> HIDE DEF c, d, e, l, n, k, m
<1>n. n \in Nat /\ m \in Nat
  BY <1>2, <1>3
<1>6. \A i \in 0..n : d[i] = c[i]
  <2>0. \A i \in 1..n : i \in 1..(n + m)
    BY <1>n
  <2>1. \A i \in 1..n : d[i] = c[i]
    BY <1>4, <1>c, <1>d, <2>0
  <2>2. \A i \in 0..n : i = 0 \/ i \in 1..n
    BY <1>2
  <2> QED
    BY <1>c, <1>d, <2>1, <2>2
<1>7. \A i \in 1..m : d[n + i] = e[i]
  <2> SUFFICES ASSUME NEW i \in 1..m PROVE d[n + i] = e[i]
    OBVIOUS
  <2>1. n + i \in 1..(n + m) /\ n + i \in (n + 1)..(n + m) /\ (n + i) - n = i
    BY <1>n
  <2> QED
    BY <1>4, <1>d, <1>e, <2>1
<1>8. Span(h, l) \cap Span(g, k) = {}
  BY <1>1 DEF QueueInv, l, k
<1>9. ring' \in Rings /\ Cycle(ring', d, n + m) /\ SameBut(ring, ring', Span(h, l) \cup Span(g, k))
  <2>1. ring' = ngx_queue_add(ring, c[0], e[0])
    BY <1>1, <1>c, <1>e
  <2> HIDE DEF l, n, k, m
  <2> QED
    BY <1>2, <1>3, <1>5, <1>6, <1>7, <1>8, <1>c, <1>d, <2>1, AddCycle
<1>10. QueueAt(ring', h, a)
  BY <1>4, <1>9 DEF QueueAt, d
<1>11. /\ lists' \in [Heads -> Seq(Cells)] /\ lists'[h] = a /\ lists'[g] = Dead(g)
       /\ \A j \in Heads \ {h, g} : lists'[j] = lists[j]
  <2>1. a \in Seq(Cells)
    BY <1>4, LoopFacts
  <2>2. Dead(g) \in Seq(Cells)
    BY DEF Dead, Cells
  <2> QED
    BY <1>1, <2>1, <2>2 DEF QueueInv
<1>12. Span(h, a) \subseteq Span(h, l) \cup Span(g, k)
  <2>1. Span(h, a) = {h} \cup {a[i] : i \in 1..(n + m)}
    BY <1>4, SpanIs
  <2>a. Span(h, l) = {h} \cup {l[i] : i \in 1..n} /\ Span(g, k) = {g} \cup {k[i] : i \in 1..m}
    BY <1>2, <1>3, SpanIs DEF n, m, l, k
  <2>2. \A i \in 1..(n + m) : i \in 1..n \/ (i \in (n + 1)..(n + m) /\ i - n \in 1..m)
    BY <1>n
  <2> QED
    BY <1>4, <2>1, <2>a, <2>2
<1> DEFINE H == {h, g}
           C == Span(h, l) \cup Span(g, k)
<1>13. /\ \A j \in Heads \ H : lists'[j] = lists[j]
       /\ \A j \in Live \ H : Span(j, lists[j]) \cap C = {}
       /\ \A j \in H : lists'[j] # Dead(j) =>
             QueueAt(ring', j, lists'[j]) /\ Span(j, lists'[j]) \subseteq C
       /\ \A i, j \in H : i # j => lists'[i] = Dead(i) \/ lists'[j] = Dead(j)
  <2>1. \A j \in Live \ H : Span(j, lists[j]) \cap C = {}
    BY <1>1 DEF QueueInv, l, k
  <2> QED
    BY <1>10, <1>11, <1>12, <2>1
<1>14. H \in SUBSET Heads /\ SameBut(ring, ring', C)
  BY <1>9
<1> HIDE DEF H, C
<1> QED
  BY <1>9, <1>11, <1>13, <1>14, OthersKept

-----------------------------------------------------------------------------
\* SortBack is well defined: where the walk back from a cell ends is the only stop
\* among the cells it may reach.
LEMMA SortBackDef ==
    ASSUME NEW r \in Rings, NEW h \in Cells, NEW q \in Cells
    PROVE  \E g : /\ g = [p \in Cells |-> IF p = h \/ NodeKey[p] <= NodeKey[q]
                                          THEN p ELSE g[r.prev[p]]]
                  /\ SortBack(r, h, q) = g[r.prev[q]]
<1> DEFINE Stop(p) == p = h \/ NodeKey[p] <= NodeKey[q]
           Closed(S) == \A p \in S : ~Stop(p) => r.prev[p] \in S
           R(p) == {c \in Cells : \A S \in SUBSET Cells : p \in S /\ Closed(S) => c \in S}
           T(p) == {c \in R(p) : Stop(c)}
           f == [p \in Cells |-> CHOOSE c : c \in T(p)]
           Def(g) == [p \in Cells |-> IF Stop(p) THEN p ELSE g[r.prev[p]]]
<1>1. ASSUME NEW p \in Cells, Stop(p) PROVE f[p] = p
  <2>1. p \in R(p)
    OBVIOUS
  <2>2. Closed({p}) /\ {p} \in SUBSET Cells
    BY <1>1
  <2>3. \A c \in R(p) : c = p
    BY <2>2
  <2>4. T(p) = {p}
    BY <1>1, <2>1, <2>3
  <2> HIDE DEF T
  <2> QED
    BY <2>4
<1>2. ASSUME NEW p \in Cells, ~Stop(p) PROVE f[p] = f[r.prev[p]]
  <2>0. r.prev[p] \in Cells
    BY DEF Rings
  <2>1. ASSUME NEW c \in T(p) PROVE c \in T(r.prev[p])
    <3> SUFFICES ASSUME NEW S \in SUBSET Cells, r.prev[p] \in S, Closed(S) PROVE c \in S
      BY <2>1
    <3>1. S \cup {p} \in SUBSET Cells /\ Closed(S \cup {p})
      OBVIOUS
    <3>2. c \in S \cup {p} /\ Stop(c)
      BY <2>1, <3>1
    <3> QED
      BY <1>2, <3>2
  <2>2. ASSUME NEW c \in T(r.prev[p]) PROVE c \in T(p)
    <3> SUFFICES ASSUME NEW S \in SUBSET Cells, p \in S, Closed(S) PROVE c \in S
      BY <2>2
    <3>1. r.prev[p] \in S
      BY <1>2
    <3> QED
      BY <2>2, <3>1
  <2>3. T(p) = T(r.prev[p])
    BY <2>1, <2>2
  <2> HIDE DEF T
  <2> QED
    BY <2>0, <2>3
<1>3. f = Def(f)
  <2>1. \A p \in Cells : f[p] = Def(f)[p]
    <3> HIDE DEF f, Stop
    <3> QED
      BY <1>1, <1>2
  <2> HIDE DEF T, Stop
  <2> QED
    BY <2>1
<1> HIDE DEF f, Stop
<1> DEFINE g == CHOOSE b : b = Def(b)
<1>4. g = Def(g)
  BY <1>3
<1>5. SortBack(r, h, q) = g[r.prev[q]]
  BY DEF SortBack, Stop
<1> QED
  BY <1>4, <1>5 DEF Stop

\* From place b it walks back to the first place before it that does not hold a greater
\* key, or to the head.
LEMMA BackFinds ==
    ASSUME NEW r \in Rings, NEW n \in Nat, NEW c, Cycle(r, c, n), NEW b \in 1..n,
           \A i \in 1..n : c[i] \in Nodes, c[0] \in Heads
    PROVE  \E a \in 0..(b - 1) :
              /\ SortBack(r, c[0], c[b]) = c[a]
              /\ a # 0 => NodeKey[c[a]] <= NodeKey[c[b]]
              /\ \A j \in (a + 1)..(b - 1) : NodeKey[c[j]] > NodeKey[c[b]]
<1> DEFINE h == c[0]
           q == c[b]
           key(i) == NodeKey[c[i]]
           Found(g, i, a) == /\ g[c[i]] = c[a]
                             /\ a # 0 => key(a) <= NodeKey[q]
                             /\ \A j \in (a + 1)..i : key(j) > NodeKey[q]
<1>1. /\ \A i \in 0..n : c[i] \in Cells
      /\ \A i, j \in 0..n : c[i] = c[j] => i = j
      /\ \A i \in 0..n : r.prev[c[i + 1]] = c[i]
  BY DEF Cycle
<1>2. \A i \in 1..n : key(i) \in Int /\ c[i] # h
  BY NgxQueueAssumption
<1>3. PICK g : /\ g = [p \in Cells |-> IF p = h \/ NodeKey[p] <= NodeKey[q]
                                       THEN p ELSE g[r.prev[p]]]
               /\ SortBack(r, h, q) = g[r.prev[q]]
  <2>1. h \in Cells /\ q \in Cells
    BY <1>1
  <2> HIDE DEF h, q
  <2> QED
    BY <2>1, SortBackDef
<1>4. g[c[0]] = c[0]
  BY <1>1, <1>3
<1>5. \A i \in 0..(n - 1) :
         g[c[i + 1]] = IF key(i + 1) <= NodeKey[q] THEN c[i + 1] ELSE g[c[i]]
  <2> SUFFICES ASSUME NEW i \in 0..(n - 1)
               PROVE  g[c[i + 1]] = IF key(i + 1) <= NodeKey[q] THEN c[i + 1] ELSE g[c[i]]
    OBVIOUS
  <2>1. c[i + 1] \in Cells /\ c[i + 1] # h /\ r.prev[c[i + 1]] = c[i]
    BY <1>1, <1>2
  <2> HIDE DEF h, q
  <2> QED
    BY <1>3, <2>1
<1> DEFINE S == {i \in 0..n : \E a \in 0..i : Found(g, i, a)}
<1>6. 0 \in S
  <2>1. Found(g, 0, 0)
    BY <1>4
  <2> QED
    BY <2>1
<1> HIDE DEF h, q, key
<1>7. ASSUME NEW i \in 0..(n - 1), i \in S PROVE i + 1 \in S
  <2>1. i + 1 \in 1..n /\ i + 1 \in 0..n /\ key(i + 1) \in Int /\ NodeKey[q] \in Int
    BY <1>2 DEF q, key
  <2>2. CASE key(i + 1) <= NodeKey[q]
    <3>1. Found(g, i + 1, i + 1)
      BY <1>5, <2>1, <2>2
    <3> QED
      BY <2>1, <3>1
  <2>3. CASE ~(key(i + 1) <= NodeKey[q])
    <3>1. PICK a \in 0..i : Found(g, i, a)
      BY <1>7
    <3>2. g[c[i + 1]] = c[a]
      BY <1>5, <2>3, <3>1
    <3>3. \A j \in (a + 1)..(i + 1) : j \in (a + 1)..i \/ j = i + 1
      OBVIOUS
    <3>4. \A j \in (a + 1)..(i + 1) : key(j) > NodeKey[q]
      BY <2>1, <2>3, <3>1, <3>3
    <3>5. Found(g, i + 1, a) /\ a \in 0..(i + 1)
      BY <3>1, <3>2, <3>4
    <3> QED
      BY <2>1, <3>5
  <2> QED
    BY <2>2, <2>3
<1>8. b - 1 \in S
  <2>1. 0..n \subseteq S
    BY <1>6, <1>7, UpTo
  <2> QED
    BY <2>1
<1>9. PICK a \in 0..(b - 1) : Found(g, b - 1, a)
  BY <1>8
<1>10. r.prev[q] = c[b - 1]
  <2>1. b - 1 \in 0..n /\ (b - 1) + 1 = b
    OBVIOUS
  <2> QED
    BY <1>1, <2>1 DEF q
<1> QED
  BY <1>3, <1>9, <1>10 DEF h, q, key

-----------------------------------------------------------------------------
\* The order of a stable sort on the places of l, and l rearranged.
Before(l, i, j) == NodeKey[l[i]] < NodeKey[l[j]] \/ (NodeKey[l[i]] = NodeKey[l[j]] /\ i < j)
Arranged(l, p) == [i \in 1..Len(l) |-> l[p[i]]]
Arrangement(l, p) == /\ p \in [1..Len(l) -> 1..Len(l)]
                     /\ \A i, j \in 1..Len(l) : p[i] = p[j] => i = j

\* A rearrangement in that order is what StableSort is.
LEMMA SortedIsStable ==
    ASSUME NEW l \in Seq(Nodes), NEW p, Arrangement(l, p),
           \A i, j \in 1..Len(l) : i < j => Before(l, p[i], p[j])
    PROVE  StableSort(l) = Arranged(l, p)
<1> DEFINE n == Len(l)
           D == 1..n
           key(i) == NodeKey[l[i]]
           before(i, j) == NodeKey[l[i]] < NodeKey[l[j]] \/ (NodeKey[l[i]] = NodeKey[l[j]] /\ i < j)
           place(j) == Cardinality({i \in D : before(i, j)}) + 1
<1>1. n \in Nat /\ DOMAIN l = D /\ \A i \in D : NodeKey[l[i]] \in Int
  BY NgxQueueAssumption
<1>2. p \in [D -> D] /\ \A i, j \in D : p[i] = p[j] => i = j
  BY DEF Arrangement
<1>3. \A j \in D : \E i \in D : p[i] = j
  <2>1. p \in Injection(D, D)
    BY <1>2, Fun_IsInj
  <2>2. IsFiniteSet(D)
    <3>1. 1 \in Int /\ n \in Int
      BY <1>1
    <3> HIDE DEF n
    <3> QED
      BY <3>1, FS_Interval
  <2>3. p \in Surjection(D, D)
    BY <2>1, <2>2, FS_Injection
  <2> HIDE DEF D
  <2> QED
    BY <2>3 DEF Surjection
<1> HIDE DEF D
<1>4. ASSUME NEW k \in D PROVE place(p[k]) = k
  <2> DEFINE B == {i \in D : before(i, p[k])}
             f == [i \in 1..(k - 1) |-> p[i]]
  <2>0. k \in 1..n /\ k - 1 \in Nat
    BY <1>1, <1>4 DEF D
  <2>1. \A i \in 1..(k - 1) : i \in D /\ i < k
    BY <1>1, <2>0 DEF D
  <2>2. \A i \in 1..(k - 1) : p[i] \in B
    <3> SUFFICES ASSUME NEW i \in 1..(k - 1) PROVE p[i] \in B
      OBVIOUS
    <3>1. Before(l, p[i], p[k])
      BY <1>4, <2>1 DEF D
    <3> QED
      BY <1>2, <2>1, <3>1 DEF Before
  <2>3. \A j \in B : \E i \in 1..(k - 1) : p[i] = j
    <3> SUFFICES ASSUME NEW j \in B PROVE \E i \in 1..(k - 1) : p[i] = j
      OBVIOUS
    <3>1. j \in D /\ before(j, p[k])
      OBVIOUS
    <3>2. PICK i \in D : p[i] = j
      BY <1>3, <3>1
    <3>3. i # k
      BY <1>1, <1>2, <3>1, <3>2
    <3>4. ~(k < i)
      <4> SUFFICES ASSUME k < i PROVE FALSE
        OBVIOUS
      <4>1. Before(l, p[k], p[i])
        BY <1>4 DEF D
      <4>2. p[k] \in D /\ p[i] \in D /\ p[k] \in Nat /\ p[i] \in Nat
        BY <1>1, <1>2, <1>4 DEF D
      <4> QED
        BY <1>1, <3>1, <3>2, <4>1, <4>2 DEF Before
    <3>5. i \in 1..(k - 1)
      BY <1>1, <2>0, <3>3, <3>4 DEF D
    <3> QED
      BY <3>2, <3>5
  <2> HIDE DEF B
  <2>4. f \in [1..(k - 1) -> B] /\ \A i \in 1..(k - 1) : f[i] = p[i]
    BY <2>2
  <2>5. f \in Bijection(1..(k - 1), B)
    <3>1. \A i, j \in 1..(k - 1) : f[i] = f[j] => i = j
      BY <1>2, <2>1, <2>4
    <3>2. \A j \in B : \E i \in 1..(k - 1) : f[i] = j
      BY <2>3, <2>4
    <3> HIDE DEF f
    <3> QED
      BY <2>4, <3>1, <3>2, Fun_IsBij
  <2>6. Cardinality(B) = k - 1
    BY <2>0, <2>5, FS_CountingElements DEF ExistsBijection
  <2>7. place(p[k]) = Cardinality(B) + 1
    BY DEF B
  <2> HIDE DEF place
  <2> QED
    BY <2>0, <2>6, <2>7
<1> HIDE DEF place
<1>5. ASSUME NEW k \in D PROVE (CHOOSE j \in D : place(j) = k) = p[k]
  <2>1. p[k] \in D /\ place(p[k]) = k
    BY <1>2, <1>4, <1>5
  <2>2. \A j \in D : place(j) = k => j = p[k]
    BY <1>3, <1>4
  <2> QED
    BY <2>1, <2>2
<1>6. StableSort(l) = [k \in D |-> l[CHOOSE j \in D : place(j) = k]]
  BY <1>1 DEF StableSort, place
<1>7. Arranged(l, p) = [k \in D |-> l[p[k]]]
  BY DEF Arranged, D
<1> QED
  BY <1>5, <1>6, <1>7

\* After k rounds the first k + 1 nodes are in order and the others where they were.
SortStates == [ring : Rings, q : Cells]
Sorting(r, h, l, k, s) ==
    /\ s \in SortStates /\ SameBut(r, s.ring, Span(h, l))
    /\ s.q = IF k + 2 <= Len(l) THEN l[k + 2] ELSE h
    /\ \E p : /\ Arrangement(l, p)
              /\ \A i \in (k + 2)..Len(l) : p[i] = i
              /\ \A i, j \in 1..(k + 1) : i < j => Before(l, p[i], p[j])
              /\ Cycle(s.ring, Loop(h, Arranged(l, p)), Len(l))

\* A rearrangement of l has the nodes of l and no others.
LEMMA ArrangedFacts ==
    ASSUME NEW h \in Heads, NEW l \in Seq(Nodes), NEW p, Arrangement(l, p)
    PROVE  /\ Arranged(l, p) \in Seq(Nodes) /\ Len(Arranged(l, p)) = Len(l)
           /\ \A i \in 1..Len(l) : Arranged(l, p)[i] = l[p[i]]
           /\ Span(h, Arranged(l, p)) \subseteq Span(h, l)
<1>1. \A i \in 1..Len(l) : p[i] \in 1..Len(l) /\ l[p[i]] \in Nodes
  BY DEF Arrangement
<1>2. /\ Arranged(l, p) \in Seq(Nodes) /\ Len(Arranged(l, p)) = Len(l)
      /\ \A i \in 1..Len(l) : Arranged(l, p)[i] = l[p[i]]
  BY <1>1 DEF Arranged
<1>3. /\ Span(h, Arranged(l, p)) = {h} \cup {Arranged(l, p)[i] : i \in 1..Len(Arranged(l, p))}
      /\ Span(h, l) = {h} \cup {l[i] : i \in 1..Len(l)}
  BY <1>2, SpanIs
<1> QED
  BY <1>1, <1>2, <1>3

\* Place b moves to behind place a, and places a + 1 .. b - 1 by one.
Shifted(p, n, a, b) ==
    [i \in 1..n |-> IF i <= a \/ i > b THEN p[i] ELSE IF i = a + 1 THEN p[b] ELSE p[i - 1]]

\* Moving one place gives a rearrangement again.
LEMMA MovedFacts ==
    ASSUME NEW l \in Seq(Nodes), NEW p, Arrangement(l, p), NEW b \in 1..Len(l), NEW a \in 0..(b - 1)
    PROVE  LET s == Shifted(p, Len(l), a, b)
           IN /\ Arrangement(l, s)
              /\ \A i \in 1..a : s[i] = p[i]
              /\ s[a + 1] = p[b]
              /\ \A i \in (a + 2)..b : s[i] = p[i - 1]
              /\ \A i \in (b + 1)..Len(l) : s[i] = p[i]
<1> DEFINE n == Len(l)
           s == Shifted(p, n, a, b)
<1>1. n \in Nat /\ b \in 1..n /\ p \in [1..n -> 1..n] /\ \A i, j \in 1..n : p[i] = p[j] => i = j
  BY DEF Arrangement
<1> HIDE DEF n
<1>2. /\ \A i \in 1..a : s[i] = p[i]
      /\ s[a + 1] = p[b]
      /\ \A i \in (a + 2)..b : s[i] = p[i - 1]
      /\ \A i \in (b + 1)..n : s[i] = p[i]
  BY <1>1 DEF Shifted
<1>3. s \in [1..n -> 1..n]
  <2>1. \A i \in 1..n : ~(i <= a \/ i > b) /\ i # a + 1 => i - 1 \in 1..n
    BY <1>1
  <2> QED
    BY <1>1, <2>1 DEF Shifted
<1> HIDE DEF s
<1>4. ASSUME NEW i \in 1..n, NEW j \in 1..n, i < j, s[i] = s[j] PROVE FALSE
  <2> DEFINE to(m) == IF m <= a \/ m > b THEN m ELSE IF m = a + 1 THEN b ELSE m - 1
  <2>1. \A m \in 1..n : s[m] = p[to(m)] /\ to(m) \in 1..n
    <3> SUFFICES ASSUME NEW m \in 1..n PROVE s[m] = p[to(m)] /\ to(m) \in 1..n
      OBVIOUS
    <3>1. CASE m <= a
      BY <1>1, <1>2, <3>1
    <3>2. CASE m = a + 1
      BY <1>1, <1>2, <3>2
    <3>3. CASE m \in (a + 2)..b
      BY <1>1, <1>2, <3>3
    <3>4. CASE m > b
      BY <1>1, <1>2, <3>4
    <3> QED
      BY <1>1, <3>1, <3>2, <3>3, <3>4
  <2>2. to(i) # to(j)
    <3>0. a \in Int /\ b \in Int /\ i \in Int /\ j \in Int /\ a < b /\ i < j
      BY <1>1, <1>4
    <3>1. CASE i <= a
      BY <3>0, <3>1
    <3>2. CASE i = a + 1
      BY <3>0, <3>2
    <3>3. CASE i > a + 1 /\ i <= b
      BY <3>0, <3>3
    <3>4. CASE i > b
      BY <3>0, <3>4
    <3> QED
      BY <3>0, <3>1, <3>2, <3>3, <3>4
  <2> HIDE DEF to
  <2> QED
    BY <1>1, <1>4, <2>1, <2>2
<1>5. Arrangement(l, s)
  <2>1. \A i, j \in 1..n : s[i] = s[j] => i = j
    BY <1>1, <1>4
  <2> QED
    BY <1>3, <2>1 DEF Arrangement, n
<1> QED
  BY <1>2, <1>5 DEF n, s

\* One round: the pointers.
Round(h, s) == [ring |-> ngx_queue_insert_head(ngx_queue_remove(s.ring, s.q),
                                               SortBack(s.ring, h, s.q), s.q),
                q |-> s.ring.next[s.q]]

\* Taking the cell at place b out and putting it in behind place a.
LEMMA MoveCycle ==
    ASSUME NEW r \in Rings, NEW n \in Nat, NEW c, Cycle(r, c, n),
           NEW b \in 1..n, NEW a \in 0..(b - 1),
           NEW e \in [0..(n + 1) -> Cells], \A i \in 0..a : e[i] = c[i], e[a + 1] = c[b],
           \A i \in (a + 2)..b : e[i] = c[i - 1], \A i \in (b + 1)..(n + 1) : e[i] = c[i]
    PROVE  LET s == ngx_queue_insert_head(ngx_queue_remove(r, c[b]), c[a], c[b])
           IN s \in Rings /\ Cycle(s, e, n) /\ SameBut(r, s, On(c, n))
<1> DEFINE d == [i \in 0..n |-> IF i < b THEN c[i] ELSE c[i + 1]]
           t == ngx_queue_remove(r, c[b])
           s == ngx_queue_insert_head(t, c[a], c[b])
<1>1. /\ \A i \in 0..(n + 1) : c[i] \in Cells
      /\ c[n + 1] = c[0]
      /\ \A i, j \in 0..n : c[i] = c[j] => i = j
  BY DEF Cycle
<1>2. /\ d \in [0..n -> Cells]
      /\ \A i \in 0..(b - 1) : d[i] = c[i]
      /\ \A i \in b..n : d[i] = c[i + 1]
  BY <1>1
<1> HIDE DEF d
<1>3. t \in Rings /\ Cycle(t, d, n - 1) /\ SameBut(r, t, On(c, n))
  BY <1>2, RemoveCycle
<1> HIDE DEF t
<1>4. PICK m \in Nat : m = n - 1 /\ m + 1 = n /\ m + 2 = n + 1
  <2>1. n - 1 \in Nat /\ (n - 1) + 1 = n /\ (n - 1) + 2 = n + 1
    OBVIOUS
  <2> QED
    BY <2>1
<1>5. c[b] \in Cells /\ c[b] \notin On(d, m)
  <2>1. \A i \in 0..m : d[i] # c[b]
    <3> SUFFICES ASSUME NEW i \in 0..m, d[i] = c[b] PROVE FALSE
      OBVIOUS
    <3>1. CASE i < b
      <4>1. d[i] = c[i] /\ i \in 0..n /\ b \in 0..n /\ i # b
        BY <1>2, <1>4, <3>1
      <4> QED
        BY <1>1, <4>1
    <3>2. CASE i >= b
      <4>1. d[i] = c[i + 1] /\ i + 1 \in 0..n /\ b \in 0..n /\ i + 1 # b
        BY <1>2, <1>4, <3>2
      <4> QED
        BY <1>1, <4>1
    <3> QED
      BY <3>1, <3>2
  <2> QED
    BY <1>1, <2>1 DEF On
<1>6. a \in 0..m /\ d[a] = c[a]
  BY <1>2, <1>4
<1>7. /\ \A k \in 0..a : e[k] = d[k]
      /\ e[a + 1] = c[b]
      /\ \A k \in (a + 2)..(m + 2) : e[k] = d[k - 1]
  <2>1. \A k \in 0..a : e[k] = d[k]
    <3> SUFFICES ASSUME NEW k \in 0..a PROVE e[k] = d[k]
      OBVIOUS
    <3>1. k \in 0..(b - 1)
      OBVIOUS
    <3> QED
      BY <1>2, <3>1
  <2>2. ASSUME NEW k \in (a + 2)..(m + 2) PROVE e[k] = d[k - 1]
    <3>1. CASE k <= b
      <4>1. k \in (a + 2)..b /\ k - 1 \in 0..(b - 1)
        BY <1>4, <3>1
      <4> QED
        BY <1>2, <4>1
    <3>2. CASE k > b
      <4>1. k \in (b + 1)..(n + 1) /\ k - 1 \in b..n /\ (k - 1) + 1 = k
        BY <1>4, <3>2
      <4> QED
        BY <1>2, <4>1
    <3> QED
      BY <1>4, <3>1, <3>2
  <2> QED
    BY <2>1, <2>2
<1>8. s \in Rings /\ Cycle(s, e, m + 1) /\ SameBut(t, s, On(d, m) \cup {c[b]})
  <2>1. e \in [0..(m + 2) -> Cells] /\ Cycle(t, d, m)
    BY <1>3, <1>4
  <2> QED
    BY <1>3, <1>5, <1>6, <1>7, <2>1, InsertCycle
<1> HIDE DEF s
<1>9. On(d, m) \cup {c[b]} \subseteq On(c, n)
  <2>1. \A i \in 0..m : d[i] \in On(c, n)
    <3> SUFFICES ASSUME NEW i \in 0..m PROVE d[i] \in On(c, n)
      OBVIOUS
    <3>1. CASE i < b
      <4>1. d[i] = c[i] /\ i \in 0..n
        BY <1>2, <1>4, <3>1
      <4> QED
        BY <4>1 DEF On
    <3>2. CASE i >= b
      <4>1. d[i] = c[i + 1] /\ i + 1 \in 0..n
        BY <1>2, <1>4, <3>2
      <4> QED
        BY <4>1 DEF On
    <3> QED
      BY <3>1, <3>2
  <2>2. b \in 0..n
    OBVIOUS
  <2> QED
    BY <2>1, <2>2 DEF On
<1>10. SameBut(r, s, On(c, n))
  BY <1>3, <1>8, <1>9 DEF SameBut
<1> QED
  BY <1>4, <1>8, <1>10 DEF s, t

\* Behind the last place that does not hold a greater key is where place b belongs.
LEMMA MovedInOrder ==
    ASSUME NEW l \in Seq(Nodes), NEW p, Arrangement(l, p),
           NEW b \in 1..Len(l), NEW a \in 0..(b - 1),
           \A i \in b..Len(l) : p[i] = i,
           \A i, j \in 1..(b - 1) : i < j => Before(l, p[i], p[j]),
           a # 0 => NodeKey[l[p[a]]] <= NodeKey[l[b]],
           \A j \in (a + 1)..(b - 1) : NodeKey[l[p[j]]] > NodeKey[l[b]]
    PROVE  LET s == Shifted(p, Len(l), a, b)
           IN \A i, j \in 1..b : i < j => Before(l, s[i], s[j])
<1> DEFINE n == Len(l)
           s == Shifted(p, Len(l), a, b)
           key(i) == NodeKey[l[i]]
<1>1. /\ n \in Nat /\ b \in 1..n /\ p \in [1..n -> 1..n]
      /\ \A i, j \in 1..n : p[i] = p[j] => i = j
      /\ \A i \in 1..n : key(i) \in Int
  BY NgxQueueAssumption DEF Arrangement
<1>2. p[b] = b
  BY <1>1
<1>3. \A i \in 1..a : s[i] = p[i]
  BY MovedFacts
<1>4. s[a + 1] = b
  BY <1>2, MovedFacts
<1>5. \A i \in (a + 2)..b : s[i] = p[i - 1]
  BY MovedFacts
<1>6. \A i \in 1..(b - 1) : p[i] \in 1..n /\ p[i] < b /\ p[i] \in Int
  <2> SUFFICES ASSUME NEW i \in 1..(b - 1), p[i] >= b PROVE FALSE
    BY <1>1
  <2>1. p[i] \in b..n /\ i \in 1..n /\ p[i] \in 1..n
    BY <1>1
  <2>2. p[p[i]] = p[i]
    BY <2>1
  <2>3. p[i] = i
    BY <1>1, <2>1, <2>2
  <2> QED
    BY <2>3
<1> HIDE DEF s, n
<1>7. ASSUME NEW i \in 1..a PROVE key(p[i]) <= key(b)
  <2>1. a \in 1..(b - 1) /\ i \in 1..(b - 1) /\ key(p[a]) <= key(b)
    OBVIOUS
  <2>2. i = a \/ Before(l, p[i], p[a])
    BY <2>1
  <2>3. key(p[i]) \in Int /\ key(p[a]) \in Int /\ key(b) \in Int
    BY <1>1, <1>6, <2>1
  <2> QED
    BY <2>1, <2>2, <2>3 DEF Before
<1> SUFFICES ASSUME NEW i \in 1..b, NEW j \in 1..b, i < j PROVE Before(l, s[i], s[j])
  BY DEF s
<1>8. CASE j <= a
  <2>1. i \in 1..a /\ j \in 1..a /\ i \in 1..(b - 1) /\ j \in 1..(b - 1)
    BY <1>8
  <2> QED
    BY <1>3, <2>1
<1>9. CASE j = a + 1
  <2>1. i \in 1..a /\ i \in 1..(b - 1)
    BY <1>9
  <2>2. key(p[i]) <= key(b) /\ p[i] < b /\ key(p[i]) \in Int /\ key(b) \in Int
    BY <1>1, <1>6, <1>7, <2>1
  <2>3. Before(l, p[i], b)
    BY <2>2 DEF Before
  <2> QED
    BY <1>3, <1>4, <1>9, <2>1, <2>3
<1>10. CASE j > a + 1
  <2>1. PICK m \in (a + 1)..(b - 1) : m = j - 1 /\ s[j] = p[m]
    <3>1. j - 1 \in (a + 1)..(b - 1) /\ j \in (a + 2)..b
      BY <1>10
    <3> QED
      BY <1>5, <3>1
  <2>2. m \in 1..(b - 1)
    OBVIOUS
  <2>3. CASE i <= a
    <3>1. i \in 1..a /\ i \in 1..(b - 1) /\ i < m
      BY <2>3
    <3> QED
      BY <1>3, <2>1, <2>2, <3>1
  <2>4. CASE i = a + 1
    <3>1. Before(l, b, p[m])
      <4>1. key(p[m]) > key(b) /\ key(p[m]) \in Int /\ key(b) \in Int
        BY <1>1, <1>6, <2>2
      <4> QED
        BY <4>1 DEF Before
    <3> QED
      BY <1>4, <2>1, <2>4, <3>1
  <2>5. CASE i > a + 1
    <3>1. i \in (a + 2)..b /\ i - 1 \in 1..(b - 1) /\ i - 1 < m
      BY <2>1, <2>5
    <3> QED
      BY <1>5, <2>1, <2>2, <3>1
  <2> QED
    BY <2>3, <2>4, <2>5
<1> QED
  BY <1>8, <1>9, <1>10

\* A round of ngx_queue_sort puts the next node where it belongs.
LEMMA SortRound ==
    ASSUME NEW r \in Rings, NEW h \in Heads, NEW l \in Seq(Nodes), NEW k \in Nat,
           k + 2 <= Len(l), NEW s, Sorting(r, h, l, k, s)
    PROVE  Sorting(r, h, l, k + 1, Round(h, s))
<1> DEFINE n == Len(l)
           b == k + 2
<1>0. n \in Nat /\ b \in 1..n /\ (k + 1) + 2 = b + 1 /\ (k + 1) + 1 = b /\ k + 1 = b - 1
  OBVIOUS
<1>1. s.ring \in Rings /\ s.q = l[b] /\ SameBut(r, s.ring, Span(h, l))
  BY DEF Sorting, SortStates
<1>2. PICK p : /\ Arrangement(l, p)
               /\ \A i \in b..n : p[i] = i
               /\ \A i, j \in 1..(k + 1) : i < j => Before(l, p[i], p[j])
               /\ Cycle(s.ring, Loop(h, Arranged(l, p)), n)
  BY DEF Sorting
<1> DEFINE c == Loop(h, Arranged(l, p))
<1>3. /\ Arranged(l, p) \in Seq(Nodes) /\ Len(Arranged(l, p)) = n
      /\ \A i \in 1..n : Arranged(l, p)[i] = l[p[i]]
      /\ Span(h, Arranged(l, p)) \subseteq Span(h, l)
  BY <1>2, ArrangedFacts
<1>4. /\ c[0] = h /\ c[n + 1] = h
      /\ \A i \in 1..n : c[i] = l[p[i]] /\ c[i] \in Nodes
      /\ On(c, n) \subseteq Span(h, l)
  <2> DEFINE g == Arranged(l, p)
  <2>1. /\ g \in Seq(Nodes) /\ Len(g) = n /\ \A i \in 1..n : g[i] = l[p[i]]
        /\ Span(h, g) \subseteq Span(h, l)
    BY <1>3
  <2> HIDE DEF g
  <2>2. /\ Loop(h, g)[0] = h /\ Loop(h, g)[Len(g) + 1] = h
        /\ \A i \in 1..Len(g) : Loop(h, g)[i] = g[i] /\ g[i] \in Nodes
    BY <2>1, LoopFacts
  <2>3. c = Loop(h, g)
    BY DEF g
  <2> HIDE DEF c, n
  <2> QED
    BY <2>1, <2>2, <2>3 DEF Span
<1>5. c[b] = l[b] /\ c[b] = s.q
  BY <1>0, <1>1, <1>2, <1>4
<1> HIDE DEF c, n, b
<1>6. PICK a \in 0..(b - 1) :
         /\ SortBack(s.ring, h, s.q) = c[a]
         /\ a # 0 => NodeKey[c[a]] <= NodeKey[l[b]]
         /\ \A j \in (a + 1)..(b - 1) : NodeKey[c[j]] > NodeKey[l[b]]
  <2>1. Cycle(s.ring, c, n) /\ c[0] \in Heads /\ \A i \in 1..n : c[i] \in Nodes
    BY <1>2, <1>4 DEF c
  <2>2. \E a \in 0..(b - 1) :
           /\ SortBack(s.ring, c[0], c[b]) = c[a]
           /\ a # 0 => NodeKey[c[a]] <= NodeKey[c[b]]
           /\ \A j \in (a + 1)..(b - 1) : NodeKey[c[j]] > NodeKey[c[b]]
    BY <1>0, <1>1, <2>1, BackFinds
  <2> QED
    BY <1>4, <1>5, <2>2
<1> DEFINE p2 == Shifted(p, n, a, b)
           e == Loop(h, Arranged(l, p2))
<1>7. /\ Arrangement(l, p2)
      /\ \A i \in 1..a : p2[i] = p[i]
      /\ p2[a + 1] = p[b]
      /\ \A i \in (a + 2)..b : p2[i] = p[i - 1]
      /\ \A i \in (b + 1)..n : p2[i] = p[i]
  BY <1>0, <1>2, MovedFacts DEF n
<1>8. \A i, j \in 1..b : i < j => Before(l, p2[i], p2[j])
  <2>1. /\ a # 0 => NodeKey[l[p[a]]] <= NodeKey[l[b]]
        /\ \A j \in (a + 1)..(b - 1) : NodeKey[l[p[j]]] > NodeKey[l[b]]
    <3>1. a # 0 => a \in 1..n
      BY <1>0
    <3>2. \A j \in (a + 1)..(b - 1) : j \in 1..n
      BY <1>0
    <3> QED
      BY <1>4, <1>6, <3>1, <3>2
  <2>2. \A i, j \in 1..(b - 1) : i < j => Before(l, p[i], p[j])
    BY <1>0, <1>2
  <2> QED
    BY <1>0, <1>2, <2>1, <2>2, MovedInOrder DEF n
<1> HIDE DEF p2
<1>9. /\ Arranged(l, p2) \in Seq(Nodes) /\ Len(Arranged(l, p2)) = n
      /\ \A i \in 1..n : Arranged(l, p2)[i] = l[p2[i]]
  BY <1>7, ArrangedFacts DEF n
<1>10. /\ e \in [0..(n + 1) -> Cells] /\ e[0] = h /\ e[n + 1] = h
       /\ \A i \in 1..n : e[i] = l[p2[i]]
  <2> DEFINE g == Arranged(l, p2)
  <2>1. g \in Seq(Nodes) /\ Len(g) = n /\ \A i \in 1..n : g[i] = l[p2[i]]
    BY <1>9
  <2> HIDE DEF g
  <2>2. /\ Loop(h, g) \in [0..(Len(g) + 1) -> Cells]
        /\ Loop(h, g)[0] = h /\ Loop(h, g)[Len(g) + 1] = h
        /\ \A i \in 1..Len(g) : Loop(h, g)[i] = g[i]
    BY <2>1, LoopFacts
  <2>3. e = Loop(h, g)
    BY DEF g
  <2> HIDE DEF e
  <2> QED
    BY <2>1, <2>2, <2>3
<1> HIDE DEF e
<1>11. \A i \in 0..a : e[i] = c[i]
  <2> SUFFICES ASSUME NEW i \in 0..a PROVE e[i] = c[i]
    OBVIOUS
  <2>1. CASE i = 0
    BY <1>4, <1>10, <2>1
  <2>2. CASE i # 0
    <3>1. i \in 1..a /\ i \in 1..n
      BY <1>0, <2>2
    <3> QED
      BY <1>4, <1>7, <1>10, <3>1
  <2> QED
    BY <2>1, <2>2
<1>12. e[a + 1] = c[b]
  <2>1. a + 1 \in 1..n
    BY <1>0
  <2> QED
    BY <1>0, <1>4, <1>7, <1>10, <2>1
<1>13. \A i \in (a + 2)..b : e[i] = c[i - 1]
  <2> SUFFICES ASSUME NEW i \in (a + 2)..b PROVE e[i] = c[i - 1]
    OBVIOUS
  <2>1. i \in 1..n /\ i - 1 \in 1..n
    BY <1>0
  <2> QED
    BY <1>4, <1>7, <1>10, <2>1
<1>14. \A i \in (b + 1)..(n + 1) : e[i] = c[i]
  <2> SUFFICES ASSUME NEW i \in (b + 1)..(n + 1) PROVE e[i] = c[i]
    OBVIOUS
  <2>1. CASE i = n + 1
    BY <1>4, <1>10, <2>1
  <2>2. CASE i # n + 1
    <3>1. i \in (b + 1)..n /\ i \in 1..n
      BY <1>0, <2>2
    <3> QED
      BY <1>4, <1>7, <1>10, <3>1
  <2> QED
    BY <2>1, <2>2
<1> DEFINE t == ngx_queue_insert_head(ngx_queue_remove(s.ring, c[b]), c[a], c[b])
<1>15. t \in Rings /\ Cycle(t, e, n) /\ SameBut(s.ring, t, On(c, n))
  <2>1. Cycle(s.ring, c, n)
    BY <1>2 DEF c
  <2> QED
    BY <1>0, <1>1, <1>6, <1>10, <1>11, <1>12, <1>13, <1>14, <2>1, MoveCycle
<1>16. Round(h, s) = [ring |-> t, q |-> s.ring.next[c[b]]]
  BY <1>5, <1>6 DEF Round
<1> HIDE DEF t
<1>17. s.ring.next[c[b]] = c[b + 1]
  <2>1. b \in 0..n
    BY <1>0
  <2> QED
    BY <1>2, <2>1 DEF Cycle, c
<1>18. c[b + 1] = (IF b + 1 <= n THEN l[b + 1] ELSE h) /\ c[b + 1] \in Cells
  <2>1. CASE b + 1 <= n
    <3>1. b + 1 \in b..n /\ b + 1 \in 1..n
      BY <1>0, <2>1
    <3> QED
      BY <1>2, <1>4, <2>1, <3>1 DEF Cells
  <2>2. CASE ~(b + 1 <= n)
    <3>1. b = n
      BY <1>0, <2>2
    <3> QED
      BY <1>4, <2>2, <3>1 DEF Cells
  <2> QED
    BY <2>1, <2>2
<1>19. SameBut(r, t, Span(h, l))
  BY <1>1, <1>4, <1>15 DEF SameBut
<1>20. \A i \in (b + 1)..n : p2[i] = i
  <2> SUFFICES ASSUME NEW i \in (b + 1)..n PROVE p2[i] = i
    OBVIOUS
  <2>1. i \in b..n
    BY <1>0
  <2> QED
    BY <1>2, <1>7, <2>1
<1> DEFINE u == Round(h, s)
<1>21. u.ring = t /\ u.q = c[b + 1] /\ u \in SortStates
  BY <1>15, <1>16, <1>17, <1>18 DEF SortStates
<1> HIDE DEF u
<1>22. Sorting(r, h, l, k + 1, u)
  <2>1. u.q = IF (k + 1) + 2 <= Len(l) THEN l[(k + 1) + 2] ELSE h
    BY <1>0, <1>18, <1>21 DEF n
  <2>2. /\ \A i \in ((k + 1) + 2)..Len(l) : p2[i] = i
        /\ \A i, j \in 1..((k + 1) + 1) : i < j => Before(l, p2[i], p2[j])
        /\ Cycle(u.ring, Loop(h, Arranged(l, p2)), Len(l))
    BY <1>0, <1>8, <1>15, <1>20, <1>21 DEF n, e
  <2>3. u \in SortStates /\ SameBut(r, u.ring, Span(h, l))
    BY <1>19, <1>21
  <2> QED
    BY <1>7, <2>1, <2>2, <2>3 DEF Sorting
<1> QED
  BY <1>22 DEF u

\* The values of a loop that takes F from s0, N times.
Iteration(f, s0, F, N) == f = [k \in 0..N |-> IF k = 0 THEN s0 ELSE F[f[k - 1]]]

\* They exist: what the recursive definitions of ngx_queue_sort and ngx_queue_middle rest on.
LEMMA Iterates ==
    ASSUME NEW S, NEW s0 \in S, NEW F \in [S -> S], NEW N \in Nat
    PROVE  \E f \in [0..N -> S] : Iteration(f, s0, F, N)
<1> DEFINE Good(f, m) == f[0] = s0 /\ \A k \in 1..m : f[k] = F[f[k - 1]]
           T == {m \in 0..N : \E f \in [0..m -> S] : Good(f, m)}
<1>1. 0 \in T
  <2> DEFINE f == [k \in 0..0 |-> s0]
  <2>1. f \in [0..0 -> S] /\ Good(f, 0)
    OBVIOUS
  <2>2. 0 \in 0..N
    OBVIOUS
  <2> HIDE DEF f, Good
  <2> QED
    BY <2>1, <2>2
<1>2. ASSUME NEW m \in 0..(N - 1), m \in T PROVE m + 1 \in T
  <2>1. PICK f \in [0..m -> S] : Good(f, m)
    BY <1>2
  <2> DEFINE g == [k \in 0..(m + 1) |-> IF k = m + 1 THEN F[f[m]] ELSE f[k]]
  <2>2. F[f[m]] \in S /\ m \in Nat
    BY <2>1
  <2>3. g \in [0..(m + 1) -> S] /\ g[m + 1] = F[f[m]] /\ \A k \in 0..m : g[k] = f[k]
    BY <2>2
  <2> HIDE DEF g
  <2>4. Good(g, m + 1)
    <3>1. g[0] = s0
      BY <2>1, <2>2, <2>3
    <3>2. ASSUME NEW k \in 1..(m + 1) PROVE g[k] = F[g[k - 1]]
      <4>1. CASE k = m + 1
        <5>1. k - 1 = m /\ m \in 0..m
          BY <2>2, <4>1
        <5> QED
          BY <2>3, <4>1, <5>1
      <4>2. CASE k # m + 1
        <5>1. k \in 1..m /\ k \in 0..m /\ k - 1 \in 0..m
          BY <2>2, <4>2
        <5> QED
          BY <2>1, <2>3, <5>1
      <4> QED
        BY <4>1, <4>2
    <3> QED
      BY <3>1, <3>2
  <2>5. m + 1 \in 0..N
    OBVIOUS
  <2> HIDE DEF Good
  <2> QED
    BY <2>3, <2>4, <2>5
<1>3. N \in T
  <2>1. 0..N \subseteq T
    <3> HIDE DEF T
    <3> QED
      BY <1>1, <1>2, UpTo
  <2> QED
    BY <2>1
<1>4. PICK f \in [0..N -> S] : Good(f, N)
  BY <1>3
<1> DEFINE g == [k \in 0..N |-> IF k = 0 THEN s0 ELSE F[f[k - 1]]]
<1>5. \A k \in 0..N : f[k] = g[k]
  <2> SUFFICES ASSUME NEW k \in 0..N PROVE f[k] = g[k]
    OBVIOUS
  <2>1. CASE k = 0
    BY <1>4, <2>1
  <2>2. CASE k # 0
    <3>1. k \in 1..N
      BY <2>2
    <3> QED
      BY <1>4, <2>2, <3>1
  <2> QED
    BY <2>1, <2>2
<1>6. f = g
  BY <1>5
<1> QED
  BY <1>6 DEF Iteration

\* A queue has no more nodes than there are.
LEMMA FewNodes ==
    ASSUME NEW r, NEW h \in Heads, NEW l \in Seq(Nodes), Cycle(r, Loop(h, l), Len(l))
    PROVE  Cardinality(Nodes) \in Nat /\ Len(l) <= Cardinality(Nodes)
<1> DEFINE n == Len(l)
<1>1. n \in Nat /\ l \in [1..n -> Nodes]
  OBVIOUS
<1>2. \A i, j \in 1..n : l[i] = l[j] => i = j
  <2>1. \A i \in 1..n : Loop(h, l)[i] = l[i] /\ i \in 0..n
    BY LoopFacts
  <2> QED
    BY <2>1 DEF Cycle
<1> HIDE DEF n
<1>3. l \in Injection(1..n, Nodes)
  BY <1>1, <1>2, Fun_IsInj
<1>4. Cardinality(1..n) <= Cardinality(Nodes)
  BY <1>3, FS_Injection, NgxQueueAssumption
<1>5. Cardinality(1..n) = n
  BY <1>1, FS_Interval
<1> QED
  BY <1>4, <1>5, FS_CardinalityType, NgxQueueAssumption DEF n

\* l is a rearrangement of itself.
LEMMA Unmoved ==
    ASSUME NEW l \in Seq(Nodes)
    PROVE  LET p == [i \in 1..Len(l) |-> i] IN Arrangement(l, p) /\ Arranged(l, p) = l
<1> DEFINE p == [i \in 1..Len(l) |-> i]
<1>1. Arrangement(l, p)
  BY DEF Arrangement
<1>2. Arranged(l, p) = [i \in 1..Len(l) |-> l[i]]
  BY DEF Arranged
<1> QED
  BY <1>1, <1>2

\* What the loop of ngx_queue_sort leaves: after the last round every node is in order.
LEMMA SortRounds ==
    ASSUME NEW r \in Rings, NEW h \in Heads, NEW l \in Seq(Nodes), Cycle(r, Loop(h, l), Len(l)),
           Len(l) >= 2, r.next[h] # r.prev[h]
    PROVE  \E s : Sorting(r, h, l, Len(l) - 1, s) /\ ngx_queue_sort(r, h) = s.ring
<1> DEFINE n == Len(l)
           N == Cardinality(Nodes)
           c == Loop(h, l)
           s0 == [ring |-> r, q |-> r.next[r.next[h]]]
           S == {s \in SortStates : \E k \in 0..(n - 1) : Sorting(r, h, l, k, s)}
           step(s) == IF s.q = h THEN s ELSE Round(h, s)
           F == [s \in S |-> step(s)]
<1>1. n \in Nat /\ N \in Nat /\ n <= N /\ n >= 2
  BY FewNodes
<1>2. Sorting(r, h, l, 0, s0) /\ s0 \in SortStates
  <2> DEFINE p == [i \in 1..n |-> i]
  <2>1. Arrangement(l, p) /\ Arranged(l, p) = l /\ \A i \in 1..n : p[i] = i
    BY Unmoved
  <2> HIDE DEF p
  <2>2. c[0] = h /\ c[2] = l[2] /\ l[2] \in Nodes
    BY <1>1, LoopFacts
  <2>3. r.next[r.next[h]] = l[2]
    <3>1. r.next[c[0]] = c[1] /\ r.next[c[1]] = c[2]
      <4>1. 0 \in 0..n /\ 1 \in 0..n /\ 0 + 1 = 1 /\ 1 + 1 = 2
        BY <1>1
      <4> HIDE DEF n, c
      <4> QED
        BY <4>1 DEF Cycle, n, c
    <3> QED
      BY <2>2, <3>1
  <2>4. s0 \in SortStates /\ s0.ring = r /\ s0.q = l[2]
    BY <2>2, <2>3 DEF SortStates, Cells
  <2> HIDE DEF s0
  <2>5. \A i, j \in 1..(0 + 1) : ~(i < j)
    OBVIOUS
  <2>6. s0.q = IF 0 + 2 <= Len(l) THEN l[0 + 2] ELSE h
    BY <1>1, <2>4
  <2>7. \A i \in (0 + 2)..Len(l) : p[i] = i
    BY <1>1, <2>1
  <2>8. SameBut(r, s0.ring, Span(h, l))
    BY <2>4 DEF SameBut
  <2>9. Cycle(s0.ring, Loop(h, Arranged(l, p)), Len(l))
    BY <2>1, <2>4
  <2> QED
    BY <2>1, <2>4, <2>5, <2>6, <2>7, <2>8, <2>9 DEF Sorting
<1> HIDE DEF s0
<1>3. ASSUME NEW k \in 0..(n - 1), NEW s, Sorting(r, h, l, k, s)
      PROVE  Sorting(r, h, l, IF k < n - 1 THEN k + 1 ELSE k, step(s))
  <2>1. k + 2 <= n => l[k + 2] # h
    <3>1. k + 2 <= n => k + 2 \in 1..n
      BY <1>1
    <3>2. \A i \in 1..n : l[i] # h
      BY NgxQueueAssumption
    <3> QED
      BY <3>1, <3>2
  <2>2. CASE k < n - 1
    <3>1. k + 2 <= n /\ k \in Nat
      BY <1>1, <2>2
    <3>2. s.q # h
      BY <1>3, <2>1, <3>1 DEF Sorting
    <3>3. Sorting(r, h, l, k + 1, Round(h, s))
      BY <1>3, <3>1, SortRound
    <3> QED
      BY <2>2, <3>2, <3>3
  <2>3. CASE ~(k < n - 1)
    <3>1. ~(k + 2 <= n)
      BY <1>1, <2>3
    <3>2. s.q = h
      BY <1>3, <3>1 DEF Sorting
    <3> QED
      BY <1>3, <2>3, <3>2
  <2> QED
    BY <2>2, <2>3
<1>4. \A k \in 0..(n - 1) : (IF k < n - 1 THEN k + 1 ELSE k) \in 0..(n - 1)
  BY <1>1
<1> HIDE DEF step, n
<1>5. s0 \in S /\ F \in [S -> S]
  <2>1. 0 \in 0..(n - 1)
    BY <1>1
  <2>2. s0 \in S
    BY <1>2, <2>1
  <2>3. ASSUME NEW s \in S PROVE step(s) \in S
    <3>1. PICK k \in 0..(n - 1) : Sorting(r, h, l, k, s)
      BY <2>3
    <3>2. PICK j \in 0..(n - 1) : Sorting(r, h, l, j, step(s))
      BY <1>3, <1>4, <3>1
    <3>3. step(s) \in SortStates
      BY <3>2 DEF Sorting
    <3> QED
      BY <3>2, <3>3
  <2> HIDE DEF S
  <2> QED
    BY <2>2, <2>3
<1> DEFINE Def(f) == [k \in 0..N |-> IF k = 0 THEN s0 ELSE IF f[k - 1].q = h THEN f[k - 1]
                                                          ELSE Round(h, f[k - 1])]
<1>6. \E f : f = Def(f)
  <2> HIDE DEF S, F, N
  <2>1. PICK f \in [0..N -> S] : Iteration(f, s0, F, N)
    BY <1>1, <1>5, Iterates
  <2>2. \A k \in 0..N : k # 0 => F[f[k - 1]] = step(f[k - 1])
    <3> SUFFICES ASSUME NEW k \in 0..N, k # 0 PROVE F[f[k - 1]] = step(f[k - 1])
      OBVIOUS
    <3>1. k - 1 \in 0..N
      BY <1>1
    <3>2. f[k - 1] \in S
      BY <3>1
    <3> QED
      BY <3>2 DEF F
  <2>3. [k \in 0..N |-> IF k = 0 THEN s0 ELSE F[f[k - 1]]]
        = [k \in 0..N |-> IF k = 0 THEN s0 ELSE step(f[k - 1])]
    BY <2>2
  <2>4. Def(f) = [k \in 0..N |-> IF k = 0 THEN s0 ELSE step(f[k - 1])]
    BY DEF step
  <2> HIDE DEF Def
  <2> QED
    BY <2>1, <2>3, <2>4 DEF Iteration
<1> DEFINE run == CHOOSE f : f = Def(f)
<1>7. run = Def(run)
  <2> HIDE DEF Def
  <2> QED
    BY <1>6
<1>8. ngx_queue_sort(r, h) = run[N].ring
  BY DEF ngx_queue_sort, Round, s0
<1> HIDE DEF run, N
<1>9. run[0] = s0 /\ \A k \in 0..(N - 1) : run[k + 1] = step(run[k])
  <2>1. run[0] = s0
    <3>1. 0 \in 0..N
      BY <1>1
    <3> QED
      BY <1>7, <3>1
  <2>2. ASSUME NEW k \in 0..(N - 1) PROVE run[k + 1] = step(run[k])
    <3>1. k + 1 \in 0..N /\ k + 1 # 0 /\ (k + 1) - 1 = k
      BY <1>1
    <3>2. run[k + 1] = Def(run)[k + 1]
      BY <1>7
    <3> QED
      BY <3>1, <3>2 DEF step
  <2> QED
    BY <2>1, <2>2
<1> DEFINE at(k) == IF k < n - 1 THEN k ELSE n - 1
           K == {k \in 0..N : Sorting(r, h, l, at(k), run[k])}
<1>10. 0 \in K
  <2>1. 0 \in 0..N /\ at(0) = 0
    BY <1>1
  <2> HIDE DEF at
  <2> QED
    BY <1>2, <1>9, <2>1
<1>11. ASSUME NEW k \in 0..(N - 1), k \in K PROVE k + 1 \in K
  <2>1. /\ k + 1 \in 0..N /\ at(k) \in 0..(n - 1)
        /\ at(k + 1) = IF at(k) < n - 1 THEN at(k) + 1 ELSE at(k)
    BY <1>1
  <2> HIDE DEF at
  <2>2. Sorting(r, h, l, at(k), run[k])
    BY <1>11
  <2>3. Sorting(r, h, l, at(k + 1), step(run[k]))
    BY <1>3, <2>1, <2>2
  <2> QED
    BY <1>9, <2>1, <2>3
<1>12. N \in K
  <2>1. 0..N \subseteq K
    <3> HIDE DEF K
    <3> QED
      BY <1>1, <1>10, <1>11, UpTo
  <2> QED
    BY <1>1, <2>1
<1>13. at(N) = n - 1
  BY <1>1
<1> HIDE DEF at
<1>14. Sorting(r, h, l, n - 1, run[N])
  BY <1>12, <1>13
<1> QED
  BY <1>8, <1>14 DEF n

\* ngx_queue_sort leaves the nodes of the queue in the order of a stable sort.
LEMMA SortQueue ==
    ASSUME NEW r \in Rings, NEW h \in Heads, NEW l \in Seq(Nodes), Cycle(r, Loop(h, l), Len(l))
    PROVE  LET t == ngx_queue_sort(r, h)
           IN /\ t \in Rings /\ QueueAt(t, h, StableSort(l)) /\ SameBut(r, t, Span(h, l))
              /\ Span(h, StableSort(l)) \subseteq Span(h, l)
<1> DEFINE n == Len(l)
           t == ngx_queue_sort(r, h)
<1>1. /\ Loop(h, l)[0] = h /\ Loop(h, l)[n + 1] = h
      /\ r.next[h] = Loop(h, l)[1] /\ r.prev[h] = Loop(h, l)[n] /\ n \in Nat
  <2>1. n \in Nat /\ 0 \in 0..n /\ n \in 0..n /\ 0 + 1 = 1
    OBVIOUS
  <2>2. Loop(h, l)[0] = h /\ Loop(h, l)[n + 1] = h
    BY LoopFacts
  <2> QED
    BY <2>1, <2>2 DEF Cycle
<1>0. n \in Nat
  OBVIOUS
<1>2. CASE r.next[h] = r.prev[h]
  <2>1. n <= 1
    <3> HIDE DEF n
    <3> SUFFICES ASSUME n > 1 PROVE FALSE
      BY <1>0
    <3>1. 1 \in 0..n /\ n \in 0..n /\ n # 1
      BY <1>0
    <3> QED
      BY <1>1, <1>2, <3>1 DEF Cycle, n
  <2> DEFINE p == [i \in 1..Len(l) |-> i]
  <2>2. Arrangement(l, p) /\ Arranged(l, p) = l
    BY Unmoved
  <2> HIDE DEF p
  <2>3. StableSort(l) = l
    <3>1. \A i, j \in 1..Len(l) : ~(i < j)
      BY <2>1
    <3> QED
      BY <2>2, <3>1, SortedIsStable
  <2>4. t = r
    BY <1>2 DEF ngx_queue_sort
  <2>5. SameBut(r, r, Span(h, l))
    BY DEF SameBut
  <2> HIDE DEF t
  <2> QED
    BY <2>3, <2>4, <2>5 DEF QueueAt, t
<1>3. CASE r.next[h] # r.prev[h]
  <2>1. n >= 2
    <3> HIDE DEF n
    <3> SUFFICES ASSUME n <= 1 PROVE FALSE
      BY <1>0
    <3>1. n = 0 \/ n = 1
      BY <1>0
    <3> QED
      BY <1>1, <1>3, <3>1
  <2>2. PICK s : Sorting(r, h, l, n - 1, s) /\ t = s.ring
    BY <1>3, <2>1, SortRounds
  <2> HIDE DEF t
  <2>3. (n - 1) + 1 = n /\ (n - 1) + 2 = n + 1
    BY <1>1
  <2>4. PICK p : /\ Arrangement(l, p)
                 /\ \A i, j \in 1..n : i < j => Before(l, p[i], p[j])
                 /\ Cycle(t, Loop(h, Arranged(l, p)), n)
    BY <2>2, <2>3 DEF Sorting
  <2>5. StableSort(l) = Arranged(l, p)
    BY <2>4, SortedIsStable
  <2>6. /\ Arranged(l, p) \in Seq(Nodes) /\ Len(Arranged(l, p)) = n
        /\ Span(h, Arranged(l, p)) \subseteq Span(h, l)
    BY <2>4, ArrangedFacts
  <2>7. t \in Rings /\ SameBut(r, t, Span(h, l))
    BY <2>2 DEF Sorting, SortStates
  <2>8. QueueAt(t, h, Arranged(l, p))
    BY <2>4, <2>6 DEF QueueAt
  <2> QED
    BY <2>5, <2>6, <2>7, <2>8 DEF t
<1> QED
  BY <1>2, <1>3

\* ngx_queue_sort: the same nodes, in the order StableSort gives them.
LEMMA SortStep == ASSUME QueueInv, NEW h \in Heads, Sort(h) PROVE QueueInv'
<1> DEFINE l == lists[h]
           m == StableSort(l)
           C == Span(h, l)
<1>1. h \in Live /\ ring' = ngx_queue_sort(ring, h) /\ lists' = [lists EXCEPT ![h] = m]
  BY DEF Sort
<1>2. ring \in Rings /\ l \in Seq(Nodes) /\ Cycle(ring, Loop(h, l), Len(l))
  BY <1>1 DEF QueueInv, QueueAt
<1>3. \A g \in Live \ {h} : Span(g, lists[g]) \cap C = {}
  BY <1>1 DEF QueueInv
<1> HIDE DEF l
<1>4. /\ ring' \in Rings /\ QueueAt(ring', h, m) /\ SameBut(ring, ring', C)
      /\ Span(h, m) \subseteq C
  BY <1>1, <1>2, SortQueue
<1> HIDE DEF m, C
<1> QED
  BY <1>1, <1>3, <1>4, OneQueue

-----------------------------------------------------------------------------
\* The inductive invariant of QueueSpec: a ring of pointers for every queue, no cell in two.
THEOREM QueueInvariant == QueueSpec => []QueueInv
<1>1. QueueInit => QueueInv
  <2> SUFFICES ASSUME QueueInit PROVE QueueInv
    OBVIOUS
  <2>1. ring \in Rings
    BY DEF QueueInit, Rings
  <2>2. \A h \in Heads : Dead(h) \in Seq(Cells)
    BY DEF Dead, Cells
  <2>3. lists \in [Heads -> Seq(Cells)] /\ \A h \in Heads : lists[h] = Dead(h)
    BY <2>2 DEF QueueInit
  <2>4. Live = {}
    BY <2>3 DEF Live
  <2> QED
    BY <2>1, <2>3, <2>4 DEF QueueInv
<1>2. QueueInv /\ [QueueNext]_queueVars => QueueInv'
  <2> SUFFICES ASSUME QueueInv, [QueueNext]_queueVars PROVE QueueInv'
    OBVIOUS
  <2>1. CASE UNCHANGED queueVars
    BY <2>1 DEF queueVars, QueueInv, Live, Linked
  <2>2. ASSUME NEW h \in Heads, Create(h) PROVE QueueInv'
    BY <2>2, CreateStep
  <2>3. ASSUME NEW h \in Heads, Sort(h) PROVE QueueInv'
    BY <2>3, SortStep
  <2>4. ASSUME NEW h \in Heads, NEW x \in Nodes, InsertHead(h, x) PROVE QueueInv'
    BY <2>4, InsertHeadStep
  <2>5. ASSUME NEW h \in Heads, NEW x \in Nodes, InsertTail(h, x) PROVE QueueInv'
    BY <2>5, InsertTailStep
  <2>6. ASSUME NEW h \in Heads, NEW n \in Heads, Add(h, n) PROVE QueueInv'
    BY <2>6, AddStep
  <2>7. ASSUME NEW h \in Heads, NEW i \in 1..Len(lists[h]), Remove(h, i) PROVE QueueInv'
    BY <2>7, RemoveStep
  <2>8. ASSUME NEW h \in Heads, NEW i \in 1..Len(lists[h]), NEW x \in Nodes,
               InsertAfter(h, i, x)
        PROVE  QueueInv'
    BY <2>8, InsertAfterStep
  <2>9. ASSUME NEW h \in Heads, NEW i \in 1..Len(lists[h]), NEW n \in Heads, Split(h, i, n)
        PROVE  QueueInv'
    BY <2>9, SplitStep
  <2> QED
    BY <2>1, <2>2, <2>3, <2>4, <2>5, <2>6, <2>7, <2>8, <2>9 DEF QueueNext
<1> QED
  BY <1>1, <1>2, PTL DEF QueueSpec

\* RingIsList for every set of heads and nodes: from the head of a queue the pointers lead
\* through its nodes and back, whatever macros of ngx_queue.h have been called before.
THEOREM RingStaysList == QueueSpec => []RingIsList
<1>1. QueueInv => RingIsList
  <2> SUFFICES ASSUME QueueInv, NEW h \in Live,
                      NEW i \in 1..Len(<<h>> \o lists[h])
               PROVE  LET s == <<h>> \o lists[h]
                          j == (i % Len(s)) + 1
                      IN ring.next[s[i]] = s[j] /\ ring.prev[s[j]] = s[i]
    BY DEF RingIsList
  <2> DEFINE l == lists[h]
             n == Len(l)
             s == <<h>> \o l
             c == Loop(h, l)
             j == (i % Len(s)) + 1
  <2>1. h \in Heads /\ l \in Seq(Nodes) /\ Cycle(ring, c, n)
    BY DEF QueueInv, QueueAt, Live
  <2>2. n \in Nat /\ c[0] = h /\ c[n + 1] = h /\ \A k \in 1..n : c[k] = l[k]
    BY <2>1, LoopFacts
  <2>3. Len(s) = n + 1 /\ s[1] = h /\ \A k \in 2..(n + 1) : s[k] = l[k - 1]
    <3>1. l \in Seq(Cells) /\ <<h>> \in Seq(Cells) /\ Len(<<h>>) = 1 /\ <<h>>[1] = h
      BY <2>1, LoopFacts DEF Cells
    <3> HIDE DEF l
    <3>2. /\ Len(s) = 1 + n
          /\ \A k \in 1..1 : s[k] = <<h>>[k]
          /\ \A k \in (1 + 1)..(1 + n) : s[k] = l[k - 1]
      BY <3>1, ConcatPlaces
    <3> QED
      BY <2>2, <3>1, <3>2
  <2>4. i \in 1..(n + 1)
    BY <2>3
  <2> HIDE DEF l, n, s, c
  <2>5. \A k \in 1..(n + 1) : s[k] = c[k - 1]
    <3> SUFFICES ASSUME NEW k \in 1..(n + 1) PROVE s[k] = c[k - 1]
      OBVIOUS
    <3>1. CASE k = 1
      BY <2>2, <2>3, <3>1
    <3>2. CASE k # 1
      <4>1. k \in 2..(n + 1) /\ k - 1 \in 1..n
        BY <2>2, <3>2
      <4> QED
        BY <2>2, <2>3, <4>1
    <3> QED
      BY <3>1, <3>2
  <2>6. s[j] = c[i]
    <3>1. CASE i = n + 1
      <4>1. i % (n + 1) = 0
        BY <2>2, <3>1
      <4>2. j = 1 /\ 1 \in 1..(n + 1)
        BY <2>2, <2>3, <4>1
      <4> QED
        BY <2>2, <2>3, <3>1, <4>2
    <3>2. CASE i # n + 1
      <4>1. i \in 0..n /\ i % (n + 1) = i
        BY <2>2, <2>4, <3>2
      <4>2. j = i + 1 /\ i + 1 \in 1..(n + 1) /\ (i + 1) - 1 = i
        BY <2>2, <2>3, <4>1
      <4> HIDE DEF j
      <4> QED
        BY <2>5, <4>2
    <3> QED
      BY <3>1, <3>2
  <2>7. s[i] = c[i - 1] /\ i - 1 \in 0..n /\ (i - 1) + 1 = i
    BY <2>2, <2>4, <2>5
  <2>8. ring.next[c[i - 1]] = c[i] /\ ring.prev[c[i]] = c[i - 1]
    BY <2>1, <2>7 DEF Cycle
  <2> QED
    BY <2>6, <2>7, <2>8 DEF s, l
<1> QED
  BY <1>1, QueueInvariant, PTL

\* ngx_queue_middle: next goes two nodes while middle goes one, so middle has gone half of
\* the queue when next is at its last node.
LEMMA MiddleOf ==
    ASSUME NEW r \in Rings, NEW h \in Heads, NEW l \in Seq(Nodes), Cycle(r, Loop(h, l), Len(l)),
           Len(l) >= 1
    PROVE  ngx_queue_middle(r, h) = l[Len(l) \div 2 + 1]
<1> DEFINE n == Len(l)
           N == Cardinality(Nodes)
           c == Loop(h, l)
           half == n \div 2
           last == r.prev[h]
           two(x) == IF r.next[x] = last THEN last ELSE r.next[r.next[x]]
           step(x) == IF x[2] = last THEN x ELSE <<r.next[x[1]], two(x[2])>>
           s0 == <<r.next[h], r.next[h]>>
           S == Cells \X Cells
           F == [x \in S |-> step(x)]
<1>1. n \in Nat /\ N \in Nat /\ n <= N /\ n >= 1
  BY FewNodes
<1>2. half \in Nat /\ n \in {2 * half, 2 * half + 1}
  <2> HIDE DEF n
  <2> QED
    BY <1>1
<1>3. c[0] = h /\ c[n + 1] = h /\ \A i \in 1..n : c[i] = l[i]
  BY LoopFacts
<1>4. /\ \A i \in 0..(n + 1) : c[i] \in Cells
      /\ \A i, j \in 0..n : c[i] = c[j] => i = j
      /\ \A i \in 0..n : r.next[c[i]] = c[i + 1] /\ r.prev[c[i + 1]] = c[i]
  BY DEF Cycle
<1> HIDE DEF n, N, c, half
<1>5. last = c[n] /\ s0 = <<c[1], c[1]>>
  <2>1. n \in 0..n /\ 0 \in 0..n /\ 0 + 1 = 1
    BY <1>1
  <2>2. r.next[h] = c[1]
    BY <1>3, <1>4, <2>1
  <2>3. r.prev[h] = c[n]
    BY <1>3, <1>4, <2>1
  <2> QED
    BY <2>2, <2>3
<1>6. s0 \in S /\ F \in [S -> S]
  <2>1. s0 \in S
    BY <1>1, <1>4, <1>5
  <2>2. last \in Cells
    BY <1>1, <1>4, <1>5
  <2>3. \A x \in Cells : r.next[x] \in Cells /\ two(x) \in Cells
    BY <2>2 DEF Rings
  <2>4. ASSUME NEW x \in S PROVE step(x) \in S
    <3>1. x[1] \in Cells /\ x[2] \in Cells
      OBVIOUS
    <3> HIDE DEF two
    <3>2. <<r.next[x[1]], two(x[2])>> \in S
      BY <2>3, <3>1
    <3> QED
      BY <3>2
  <2> HIDE DEF S, step
  <2> QED
    BY <2>1, <2>4
<1> DEFINE Def(f) == [k \in 0..N |-> IF k = 0 THEN s0 ELSE IF f[k - 1][2] = last THEN f[k - 1]
                                     ELSE <<r.next[f[k - 1][1]], two(f[k - 1][2])>>]
<1>7. \E f : f = Def(f)
  <2> HIDE DEF S, F, s0, last, two
  <2>1. PICK f \in [0..N -> S] : Iteration(f, s0, F, N)
    BY <1>1, <1>6, Iterates
  <2>2. \A k \in 0..N : k # 0 => F[f[k - 1]] = step(f[k - 1])
    <3> SUFFICES ASSUME NEW k \in 0..N, k # 0 PROVE F[f[k - 1]] = step(f[k - 1])
      OBVIOUS
    <3>1. k - 1 \in 0..N
      BY <1>1
    <3>2. f[k - 1] \in S
      BY <3>1
    <3> HIDE DEF step
    <3> QED
      BY <3>2 DEF F
  <2>3. [k \in 0..N |-> IF k = 0 THEN s0 ELSE F[f[k - 1]]]
        = [k \in 0..N |-> IF k = 0 THEN s0 ELSE step(f[k - 1])]
    <3> HIDE DEF step
    <3> QED
      BY <2>2
  <2>4. Def(f) = [k \in 0..N |-> IF k = 0 THEN s0 ELSE step(f[k - 1])]
    OBVIOUS
  <2> HIDE DEF Def, step
  <2> QED
    BY <2>1, <2>3, <2>4 DEF Iteration
<1> DEFINE run == CHOOSE f : f = Def(f)
<1>8. run = Def(run)
  <2> HIDE DEF Def
  <2> QED
    BY <1>7
<1>9. ngx_queue_middle(r, h) = run[N][1]
  BY DEF ngx_queue_middle, N
<1> HIDE DEF run, s0, last
<1>10. run[0] = s0 /\ \A k \in 0..(N - 1) : run[k + 1] = step(run[k])
  <2> HIDE DEF two
  <2>1. run[0] = s0
    <3>1. 0 \in 0..N
      BY <1>1
    <3> QED
      BY <1>8, <3>1
  <2>2. ASSUME NEW k \in 0..(N - 1) PROVE run[k + 1] = step(run[k])
    <3>1. k + 1 \in 0..N /\ k + 1 # 0 /\ (k + 1) - 1 = k
      BY <1>1
    <3>2. run[k + 1] = Def(run)[k + 1]
      BY <1>8
    <3> QED
      BY <3>1, <3>2
  <2> QED
    BY <2>1, <2>2
<1> DEFINE Halfway(k) == 2 * k + 1 <= n /\ run[k] = <<c[k + 1], c[2 * k + 1]>>
           Done(k) == run[k] = <<c[half + 1], c[n]>>
           K == {k \in 0..N : Halfway(k) \/ Done(k)}
<1>11. 0 \in K
  <2>1. 0 \in 0..N /\ 2 * 0 + 1 = 1 /\ 0 + 1 = 1 /\ 1 <= n
    BY <1>1
  <2> QED
    BY <1>5, <1>10, <2>1
<1>12. ASSUME NEW k \in 0..(N - 1), k \in K PROVE k + 1 \in K
  <2>0. k \in Nat /\ k + 1 \in 0..N /\ run[k + 1] = step(run[k])
    BY <1>1, <1>10
  <2>1. CASE Done(k)
    <3>1. run[k][2] = last
      BY <1>5, <2>1
    <3>2. run[k + 1] = run[k]
      BY <2>0, <3>1
    <3> QED
      BY <2>0, <2>1, <3>2
  <2>2. CASE Halfway(k)
    <3> DEFINE u == 2 * k + 1
    <3>1. /\ u \in Nat /\ u <= n /\ u \in 0..n /\ n \in 0..n
          /\ run[k][1] = c[k + 1] /\ run[k][2] = c[u]
          /\ k + 1 \in 0..n /\ (k + 1) + 1 = k + 2 /\ 2 * (k + 1) + 1 = u + 2
      BY <1>1, <2>0, <2>2
    <3>2. u = n => k = half
      BY <1>2, <2>0
    <3>3. u + 1 = n => k + 1 = half
      BY <1>2, <2>0
    <3> HIDE DEF u
    <3>4. CASE u = n
      <4>1. Done(k)
        BY <2>2, <3>2, <3>4 DEF u
      <4> QED
        BY <2>1, <4>1
    <3>5. CASE u # n
      <4>1. u + 1 \in 0..n /\ u + 1 <= n /\ (u + 1) + 1 = u + 2
        BY <3>1, <3>5
      <4>2. c[u] # last /\ r.next[c[u]] = c[u + 1] /\ r.next[c[k + 1]] = c[k + 2]
        BY <1>4, <1>5, <3>1, <3>5
      <4>3. run[k + 1] = <<c[k + 2], two(c[u])>>
        <5> HIDE DEF two
        <5> QED
          BY <2>0, <3>1, <4>2
      <4>4. CASE u + 1 = n
        <5>1. two(c[u]) = c[n]
          BY <1>5, <4>2, <4>4
        <5>2. k + 2 = half + 1
          BY <1>2, <2>0, <3>3, <4>4
        <5>3. Done(k + 1)
          <6> HIDE DEF two
          <6> QED
            BY <4>3, <5>1, <5>2
        <5> QED
          BY <2>0, <5>3
      <4>5. CASE u + 1 # n
        <5>1. u + 2 <= n
          BY <1>1, <3>1, <4>1, <4>5
        <5>2. c[u + 1] # last /\ r.next[c[u + 1]] = c[u + 2]
          BY <1>4, <1>5, <3>1, <4>1, <4>5
        <5>3. two(c[u]) = c[u + 2]
          BY <4>2, <5>2
        <5>4. Halfway(k + 1)
          <6> HIDE DEF two
          <6> QED
            BY <3>1, <4>3, <5>1, <5>3
        <5> QED
          BY <2>0, <5>4
      <4> QED
        BY <4>4, <4>5
    <3> QED
      BY <3>4, <3>5
  <2> HIDE DEF Halfway, Done
  <2> QED
    BY <1>12, <2>1, <2>2
<1>13. N \in K
  <2>1. 0..N \subseteq K
    <3> HIDE DEF K
    <3> QED
      BY <1>1, <1>11, <1>12, UpTo
  <2> QED
    BY <1>1, <2>1
<1>14. run[N] = <<c[half + 1], c[n]>>
  <2>1. ~(2 * N + 1 <= n)
    BY <1>1
  <2> QED
    BY <1>13, <2>1
<1>15. half + 1 \in 1..n
  BY <1>1, <1>2
<1> QED
  BY <1>3, <1>9, <1>14, <1>15 DEF n, half

\* MiddleIsMiddle for every set of heads and nodes: ngx_queue_middle returns the middle of a
\* queue that is not empty, the first node of the second half when their number is even.
THEOREM MiddleStaysMiddle == QueueSpec => []MiddleIsMiddle
<1>1. QueueInv => MiddleIsMiddle
  <2> SUFFICES ASSUME QueueInv, NEW h \in Live
               PROVE  IF ngx_queue_empty(ring, h) THEN lists[h] = <<>>
                      ELSE ngx_queue_middle(ring, h) = lists[h][Len(lists[h]) \div 2 + 1]
    BY DEF MiddleIsMiddle
  <2> DEFINE l == lists[h]
             n == Len(l)
             c == Loop(h, l)
  <2>1. ring \in Rings /\ h \in Heads /\ l \in Seq(Nodes) /\ Cycle(ring, c, n)
    BY DEF QueueInv, QueueAt, Live
  <2> HIDE DEF l
  <2>2. n \in Nat
    BY <2>1
  <2>3. c[0] = h /\ c[n + 1] = h /\ \A k \in 1..n : c[k] = l[k] /\ l[k] \in Nodes
    BY <2>1, LoopFacts
  <2>4. ring.prev[h] = c[n]
    <3>1. n \in 0..n
      BY <2>2
    <3> HIDE DEF n, c
    <3> QED
      BY <2>1, <2>3, <3>1 DEF Cycle
  <2>5. CASE n = 0
    <3>1. l = <<>>
      BY <2>1, <2>5
    <3>2. ngx_queue_empty(ring, h)
      BY <2>3, <2>4, <2>5 DEF ngx_queue_empty
    <3> QED
      BY <3>1, <3>2 DEF l
  <2>6. CASE n >= 1
    <3>1. n \in 1..n
      <4> HIDE DEF n
      <4> QED
        BY <2>2, <2>6
    <3>2. c[n] \in Nodes
      BY <2>3, <3>1
    <3>3. ~ngx_queue_empty(ring, h)
      <4> HIDE DEF c, n
      <4> QED
        BY <2>1, <2>4, <3>2, NgxQueueAssumption DEF ngx_queue_empty
    <3>4. ngx_queue_middle(ring, h) = l[Len(l) \div 2 + 1]
      BY <2>1, <2>6, MiddleOf
    <3> QED
      BY <3>3, <3>4 DEF l
  <2>7. n = 0 \/ n >= 1
    <3> HIDE DEF n
    <3> QED
      BY <2>2
  <2> QED
    BY <2>5, <2>6, <2>7
<1> QED
  BY <1>1, QueueInvariant, PTL
=============================================================================
