-------------------------- MODULE ClientConnProofs --------------------------
(***************************************************************************)
(* CClientConn for every block size, every limit and send buffer, every    *)
(* set of messages and every order of callbacks, timers and kernel events. *)
(***************************************************************************)
EXTENDS ClientConn, BufferLemmas

-----------------------------------------------------------------------------
\* What every value of the sending side keeps, wherever it comes from: m_Output is
\* inside its memory and within MAX_OUTPUT_SIZE.
TxInv(t) == t \in TxType /\ WellFormed(t.out) /\ size(t.out) <= MaxOutput

\* The stream of a connection that lives, and of one that is being freed.
Stream(t) == ~t.failed /\ ~t.torn => t.wire \o t.out.bytes = t.accepted
Ended(t)  == ~t.failed /\ ~t.torn =>
                /\ IsWirePrefix(t.wire, t.accepted)
                /\ size(t.out) = 0 => t.wire = t.accepted

\* The write event is waited for when there is something to write, or a connect to
\* complete.
Armed(t, up) == ~up \/ size(t.out) > 0 => t.hWrite

\* The kernel's answers to n bytes offered.
Answers(n) == [k : 0..n, ok : BOOLEAN]

-----------------------------------------------------------------------------
\* The fields of a TxType value.
LEMMA TxParts ==
    ASSUME NEW t \in TxType
    PROVE  /\ t.out \in Buffers /\ t.hWrite \in BOOLEAN /\ t.destroy \in BOOLEAN
           /\ t.wire \in Seq(Cell) /\ t.load \in 0..SndBuf /\ t.rst \in BOOLEAN
           /\ t.accepted \in Seq(Byte) /\ t.failed \in BOOLEAN /\ t.torn \in BOOLEAN
  BY DEF TxType

\* send(2) takes no more than it is offered, and all of it only without an error.
LEMMA AnswerFacts ==
    ASSUME NEW t \in TxType, NEW n \in Nat \ {0}, NEW r \in sendData(t, n)
    PROVE  r \in Answers(n) /\ (~r.ok => r.k < n)
<1> DEFINE room == IF SndBuf - t.load < n THEN SndBuf - t.load ELSE n
<1>1. t.load \in 0..SndBuf /\ SndBuf \in Nat
  BY TxParts, ClientConnAssumption
<1>2. room \in 0..n
  BY <1>1
<1>3. \/ r \in [k : IF t.rst THEN {} ELSE room..n, ok : {TRUE}]
      \/ r \in [k : IF t.rst THEN {0} ELSE 0..(n - 1), ok : {FALSE}]
  BY DEF sendData
<1> HIDE DEF room
<1>4. CASE r \in [k : IF t.rst THEN {} ELSE room..n, ok : {TRUE}]
  <2> DEFINE K == IF t.rst THEN {} ELSE room..n
  <2>1. K \subseteq 0..n
    BY <1>2
  <2> HIDE DEF K
  <2>2. r \in [k : K, ok : {TRUE}]
    BY <1>4 DEF K
  <2>3. r \in [k : 0..n, ok : BOOLEAN] /\ r.ok
    BY <2>1, <2>2
  <2> QED
    BY <2>3 DEF Answers
<1>5. CASE r \in [k : IF t.rst THEN {0} ELSE 0..(n - 1), ok : {FALSE}]
  <2> DEFINE K == IF t.rst THEN {0} ELSE 0..(n - 1)
  <2>1. K \subseteq 0..n /\ \A k \in K : k < n
    OBVIOUS
  <2> HIDE DEF K
  <2>2. r \in [k : K, ok : {FALSE}]
    BY <1>5 DEF K
  <2>3. r \in [k : 0..n, ok : BOOLEAN] /\ r.k \in K
    BY <2>1, <2>2
  <2> QED
    BY <2>1, <2>3 DEF Answers
<1> QED
  BY <1>3, <1>4, <1>5

\* After send(2): the bytes taken are on the wire, m_Output is as it was.
LEMMA SentFacts ==
    ASSUME NEW t \in TxType, NEW data \in Seq(Cell), NEW r \in Answers(Len(data))
    PROVE  /\ Sent(t, data, r) \in TxType
           /\ Sent(t, data, r).out = t.out
           /\ Sent(t, data, r).hWrite = t.hWrite /\ Sent(t, data, r).destroy = t.destroy
           /\ Sent(t, data, r).wire = t.wire \o SubSeq(data, 1, r.k)
           /\ Sent(t, data, r).accepted = t.accepted
           /\ Sent(t, data, r).failed = t.failed /\ Sent(t, data, r).torn = t.torn
<1>1. r.k \in 0..Len(data) /\ r.ok \in BOOLEAN
  BY DEF Answers
<1>2. SubSeq(data, 1, r.k) \in Seq(Cell)
  BY <1>1, SplitAt
<1> DEFINE w == t.wire \o SubSeq(data, 1, r.k)
           l == IF t.load + r.k > SndBuf THEN SndBuf ELSE t.load + r.k
           x == t.rst \/ ~r.ok
<1>3. w \in Seq(Cell)
  BY <1>2, TxParts, ConcatProperties
<1>4. l \in 0..SndBuf
  <2>1. t.load \in 0..SndBuf /\ SndBuf \in Nat /\ r.k \in Nat
    BY <1>1, TxParts, ClientConnAssumption
  <2> QED
    BY <2>1
<1>5. x \in BOOLEAN
  OBVIOUS
<1>6. Sent(t, data, r) = [t EXCEPT !.wire = w, !.load = l, !.rst = x]
  BY DEF Sent
<1> HIDE DEF w, l, x
<1>7. /\ [t EXCEPT !.wire = w, !.load = l, !.rst = x] \in TxType
      /\ [t EXCEPT !.wire = w, !.load = l, !.rst = x].wire = w
      /\ [t EXCEPT !.wire = w, !.load = l, !.rst = x].out = t.out
  BY <1>3, <1>4, <1>5 DEF TxType
<1> QED
  BY <1>6, <1>7 DEF TxType, w

\* __appendBuffer below the limit.
LEMMA AppendBufferFacts ==
    ASSUME NEW t, TxInv(t), NEW data \in Seq(Cell), ~Overflows(t, data)
    PROVE  /\ TxInv(appendBuffer(t, data))
           /\ size(appendBuffer(t, data).out) = size(t.out) + Len(data)
           /\ appendBuffer(t, data).wire = t.wire
           /\ appendBuffer(t, data).hWrite = t.hWrite
           /\ appendBuffer(t, data).accepted = t.accepted
           /\ appendBuffer(t, data).failed = t.failed
           /\ ~appendBuffer(t, data).torn =>
                  ~t.torn /\ appendBuffer(t, data).out.bytes = t.out.bytes \o data
<1> DEFINE o == append(t.out, data)
           x == t.torn \/ ~IncrementIsExact(t.out, Len(data))
<1>1. t \in TxType /\ WellFormed(t.out)
  BY DEF TxInv
<1>2. /\ WellFormed(o) /\ size(o) = size(t.out) + Len(data)
      /\ IncrementIsExact(t.out, Len(data)) => o.bytes = t.out.bytes \o data
  BY <1>1, AppendFacts
<1>3. o \in Buffers
  BY <1>2 DEF WellFormed
<1>4. x \in BOOLEAN
  OBVIOUS
<1>5. ~x => ~t.torn /\ o.bytes = t.out.bytes \o data
  BY <1>2
<1>6. appendBuffer(t, data) = [t EXCEPT !.out = o, !.torn = x]
  BY DEF appendBuffer
<1> HIDE DEF o, x
<1>7. /\ [t EXCEPT !.out = o, !.torn = x] \in TxType
      /\ [t EXCEPT !.out = o, !.torn = x].out = o
      /\ [t EXCEPT !.out = o, !.torn = x].torn = x
      /\ [t EXCEPT !.out = o, !.torn = x].wire = t.wire
      /\ [t EXCEPT !.out = o, !.torn = x].hWrite = t.hWrite
      /\ [t EXCEPT !.out = o, !.torn = x].accepted = t.accepted
      /\ [t EXCEPT !.out = o, !.torn = x].failed = t.failed
  BY <1>1, <1>3, <1>4 DEF TxType
<1>8. size(o) <= MaxOutput
  <2>1. size(t.out) \in Nat /\ Len(data) \in Nat /\ MaxOutput \in Nat
    BY <1>1, Parts, ClientConnAssumption
  <2> QED
    BY <1>2, <2>1 DEF Overflows
<1> QED
  BY <1>2, <1>5, <1>6, <1>7, <1>8 DEF TxInv

\* The end of a sendBin that answers true, and of one that answers false.
LEMMA AcceptFacts ==
    ASSUME NEW t, TxInv(t), NEW data \in Seq(Byte)
    PROVE  /\ TxInv(Accept(t, data))
           /\ Accept(t, data).out = t.out /\ Accept(t, data).wire = t.wire
           /\ Accept(t, data).hWrite = t.hWrite
           /\ Accept(t, data).accepted = t.accepted \o data
           /\ Accept(t, data).failed = t.failed /\ Accept(t, data).torn = t.torn
<1> DEFINE a == t.accepted \o data
<1>1. t \in TxType
  BY DEF TxInv
<1>2. a \in Seq(Byte)
  BY <1>1, TxParts, ConcatProperties
<1>3. Accept(t, data) = [t EXCEPT !.accepted = a]
  BY DEF Accept
<1> HIDE DEF a
<1>4. /\ [t EXCEPT !.accepted = a] \in TxType
      /\ [t EXCEPT !.accepted = a].accepted = a
      /\ [t EXCEPT !.accepted = a].out = t.out /\ [t EXCEPT !.accepted = a].wire = t.wire
      /\ [t EXCEPT !.accepted = a].hWrite = t.hWrite
      /\ [t EXCEPT !.accepted = a].failed = t.failed /\ [t EXCEPT !.accepted = a].torn = t.torn
  BY <1>1, <1>2 DEF TxType
<1> QED
  BY <1>3, <1>4 DEF TxInv, a

LEMMA WillDestroyFacts ==
    ASSUME NEW t, TxInv(t)
    PROVE  /\ TxInv(WillDestroy(t)) /\ WillDestroy(t).failed
           /\ WillDestroy(t).out = t.out /\ WillDestroy(t).hWrite = t.hWrite
<1>1. WillDestroy(t) \in TxType /\ WillDestroy(t).failed /\ WillDestroy(t).out = t.out
      /\ WillDestroy(t).hWrite = t.hWrite
  BY DEF TxInv, TxType, WillDestroy
<1> QED
  BY <1>1 DEF TxInv

-----------------------------------------------------------------------------
\* A prefix stays one when more is accepted; the bytes before a cut are one.
LEMMA PrefixFacts ==
    ASSUME NEW w \in Seq(Cell), NEW a \in Seq(Cell), NEW d \in Seq(Cell)
    PROVE  /\ IsWirePrefix(w, a) => IsWirePrefix(w, a \o d)
           /\ IsWirePrefix(w, w \o d) /\ IsWirePrefix(w, w)
<1>1. Len(w) \in Nat /\ Len(a) \in Nat /\ Len(d) \in Nat
  OBVIOUS
<1>2. /\ Len(a \o d) = Len(a) + Len(d)
      /\ \A i \in 1..(Len(a) + Len(d)) : (a \o d)[i] = IF i <= Len(a) THEN a[i] ELSE d[i - Len(a)]
  BY ConcatProperties
<1>3. /\ Len(w \o d) = Len(w) + Len(d)
      /\ \A i \in 1..(Len(w) + Len(d)) : (w \o d)[i] = IF i <= Len(w) THEN w[i] ELSE d[i - Len(w)]
  BY ConcatProperties
<1>4. IsWirePrefix(w, a) => IsWirePrefix(w, a \o d)
  <2> SUFFICES ASSUME IsWirePrefix(w, a) PROVE IsWirePrefix(w, a \o d)
    OBVIOUS
  <2>1. Len(w) <= Len(a \o d)
    BY <1>1, <1>2 DEF IsWirePrefix
  <2>2. \A i \in 1..Len(w) : w[i] = (a \o d)[i]
    <3> TAKE i \in 1..Len(w)
    <3>1. i <= Len(a) /\ i \in 1..(Len(a) + Len(d)) /\ w[i] = a[i]
      BY <1>1 DEF IsWirePrefix
    <3> QED
      BY <1>2, <3>1
  <2> QED
    BY <2>1, <2>2 DEF IsWirePrefix
<1>5. IsWirePrefix(w, w \o d)
  <2>1. Len(w) <= Len(w \o d)
    BY <1>1, <1>3
  <2>2. \A i \in 1..Len(w) : w[i] = (w \o d)[i]
    <3> TAKE i \in 1..Len(w)
    <3>1. i <= Len(w) /\ i \in 1..(Len(w) + Len(d))
      BY <1>1
    <3> QED
      BY <1>3, <3>1
  <2> QED
    BY <2>1, <2>2 DEF IsWirePrefix
<1>6. IsWirePrefix(w, w)
  BY <1>1 DEF IsWirePrefix
<1> QED
  BY <1>4, <1>5, <1>6

\* Concatenation of byte strings, in a form that Zenon can instantiate.
LEMMA Associative == \A a, b, c \in Seq(Cell) : (a \o b) \o c = a \o (b \o c)
  BY ConcatAssociative

\* An empty buffer holds no bytes, and the other way round.
LEMMA EmptyBuffer ==
    ASSUME NEW b, WellFormed(b)
    PROVE  (size(b) = 0) <=> (b.bytes = <<>>)
<1>1. b.bytes \in Seq(Cell) /\ size(b) = Len(b.bytes)
  BY Parts
<1> QED
  BY <1>1, EmptySeq

\* Where the stream is intact, what has been sent is a prefix of it.
LEMMA StreamEnds ==
    ASSUME NEW t, TxInv(t), Stream(t) PROVE Ended(t)
<1> SUFFICES ASSUME ~t.failed, ~t.torn
             PROVE  /\ IsWirePrefix(t.wire, t.accepted)
                    /\ size(t.out) = 0 => t.wire = t.accepted
  BY DEF Ended
<1>1. t.wire \in Seq(Cell) /\ t.out.bytes \in Seq(Cell)
  BY TxParts, Parts DEF TxInv
<1>2. t.wire \o t.out.bytes = t.accepted
  BY DEF Stream
<1>3. size(t.out) = 0 => t.out.bytes = <<>>
  BY EmptyBuffer DEF TxInv
<1>4. t.wire \o <<>> = t.wire
  BY <1>1, ConcatEmptySeq
<1> QED
  BY <1>1, <1>2, <1>3, <1>4, PrefixFacts

\* What sendBin keeps of a sending side t, in a connection that is up or not.
Kept(t, s, up) ==
    /\ TxInv(s)
    /\ Stream(t) => Stream(s)
    /\ Ended(t) => Ended(s)
    /\ Armed(t, up) => Armed(s, up)
    /\ t.hWrite => s.hWrite

\* A sendBin that answers false changes nothing that is still looked at.
LEMMA FailureKept ==
    ASSUME NEW t, TxInv(t), NEW s, TxInv(s), s.out = t.out, s.hWrite = t.hWrite, NEW up \in BOOLEAN
    PROVE  Kept(t, WillDestroy(s), up)
<1>1. /\ TxInv(WillDestroy(s)) /\ WillDestroy(s).failed
      /\ WillDestroy(s).out = t.out /\ WillDestroy(s).hWrite = t.hWrite
  BY WillDestroyFacts
<1> QED
  BY <1>1 DEF Kept, Stream, Ended, Armed

\* sendBin that queues its data: not connected yet, or other data waits.
LEMMA QueuedKept ==
    ASSUME NEW t, TxInv(t), NEW up \in BOOLEAN, ~(up /\ size(t.out) = 0),
           NEW data \in Seq(Byte), data # <<>>, ~Overflows(t, data)
    PROVE  Kept(t, Accept(appendBuffer(t, data), data), up)
<1> DEFINE q == appendBuffer(t, data)
           s == Accept(q, data)
<1>1. data \in Seq(Cell) /\ Len(data) \in Nat /\ Len(data) > 0
  BY DataFacts, EmptySeq
<1>2. /\ TxInv(q) /\ size(q.out) = size(t.out) + Len(data) /\ q.wire = t.wire
      /\ q.hWrite = t.hWrite /\ q.accepted = t.accepted /\ q.failed = t.failed
      /\ ~q.torn => ~t.torn /\ q.out.bytes = t.out.bytes \o data
  BY <1>1, AppendBufferFacts
<1> HIDE DEF q
<1>3. /\ TxInv(s) /\ s.out = q.out /\ s.wire = q.wire /\ s.hWrite = q.hWrite
      /\ s.accepted = q.accepted \o data /\ s.failed = q.failed /\ s.torn = q.torn
  BY <1>2, AcceptFacts
<1> HIDE DEF s
<1>4. /\ t.wire \in Seq(Cell) /\ t.accepted \in Seq(Cell) /\ t.out.bytes \in Seq(Cell)
      /\ size(t.out) \in Nat
  BY TxParts, Parts, DataFacts DEF TxInv
<1>5. ASSUME Stream(t) PROVE Stream(s)
  <2> SUFFICES ASSUME ~s.failed, ~s.torn PROVE s.wire \o s.out.bytes = s.accepted
    BY DEF Stream
  <2>1. t.wire \o t.out.bytes = t.accepted
    BY <1>2, <1>3, <1>5 DEF Stream
  <2>2. (t.wire \o t.out.bytes) \o data = t.wire \o (t.out.bytes \o data)
    BY <1>1, <1>4, Associative
  <2> QED
    BY <1>2, <1>3, <2>1, <2>2
<1>6. size(s.out) > 0
  BY <1>1, <1>2, <1>3, <1>4
<1>7. ASSUME Ended(t) PROVE Ended(s)
  <2> SUFFICES ASSUME ~s.failed, ~s.torn PROVE IsWirePrefix(s.wire, s.accepted)
    BY <1>6 DEF Ended
  <2>1. IsWirePrefix(t.wire, t.accepted)
    BY <1>2, <1>3, <1>7 DEF Ended
  <2>2. IsWirePrefix(t.wire, t.accepted \o data)
    BY <1>1, <1>4, <2>1, PrefixFacts
  <2> QED
    BY <1>2, <1>3, <2>2
<1>8. Armed(t, up) => s.hWrite
  <2>1. ~up \/ size(t.out) > 0
    BY <1>4
  <2> QED
    BY <1>2, <1>3, <2>1 DEF Armed
<1>9. Kept(t, s, up)
  BY <1>2, <1>3, <1>5, <1>7, <1>8 DEF Kept, Armed
<1> QED
  BY <1>9 DEF s, q

\* sendBin that sends at once, and queues what the kernel does not take.
LEMMA DirectKept ==
    ASSUME NEW t, TxInv(t), size(t.out) = 0, NEW data \in Seq(Byte), data # <<>>,
           NEW r \in Answers(Len(data)),
           ~Overflows(t, SubSeq(data, r.k + 1, Len(data)))
    PROVE  LET rest == SubSeq(data, r.k + 1, Len(data))
               s    == Sent(t, data, r)
           IN  /\ rest = <<>> => Kept(t, Accept(s, data), TRUE)
               /\ rest # <<>> =>
                     Kept(t, Accept([appendBuffer(s, rest) EXCEPT !.hWrite = TRUE], data), TRUE)
<1> DEFINE head == SubSeq(data, 1, r.k)
           rest == SubSeq(data, r.k + 1, Len(data))
           s    == Sent(t, data, r)
<1>1. data \in Seq(Cell) /\ Len(data) \in Nat /\ r.k \in 0..Len(data)
  BY DataFacts DEF Answers
<1>2. head \in Seq(Cell) /\ rest \in Seq(Cell) /\ head \o rest = data
  BY <1>1, SplitAt
<1>3. /\ s \in TxType /\ s.out = t.out /\ s.hWrite = t.hWrite /\ s.wire = t.wire \o head
      /\ s.accepted = t.accepted /\ s.failed = t.failed /\ s.torn = t.torn
  BY <1>1, SentFacts DEF TxInv
<1> HIDE DEF s, head, rest
<1>4. TxInv(s)
  BY <1>3 DEF TxInv
<1>5. /\ t.wire \in Seq(Cell) /\ t.accepted \in Seq(Cell) /\ t.out.bytes = <<>>
      /\ t.wire \o <<>> = t.wire
  <2>1. t.wire \in Seq(Cell) /\ t.accepted \in Seq(Cell)
    BY TxParts, DataFacts DEF TxInv
  <2> QED
    BY <2>1, EmptyBuffer, ConcatEmptySeq DEF TxInv
<1>6. Ended(t) /\ ~t.failed /\ ~t.torn => t.wire = t.accepted
  BY DEF Ended
<1>7. Stream(t) => Ended(t)
  BY StreamEnds
<1>8. (t.wire \o head) \o rest = t.wire \o data
  BY <1>2, <1>5, Associative
<1>9. /\ t.wire \o head \in Seq(Cell) /\ (t.wire \o head) \o <<>> = t.wire \o head
      /\ <<>> \o rest = rest
  BY <1>2, <1>5, ConcatProperties, ConcatEmptySeq
<1>10. ASSUME rest = <<>> PROVE Kept(t, Accept(s, data), TRUE)
  <2> DEFINE a == Accept(s, data)
  <2>1. /\ TxInv(a) /\ a.out = s.out /\ a.wire = s.wire /\ a.hWrite = s.hWrite
        /\ a.accepted = s.accepted \o data /\ a.failed = s.failed /\ a.torn = s.torn
    BY <1>4, AcceptFacts
  <2> HIDE DEF a
  <2>2. t.wire \o head = t.wire \o data
    BY <1>8, <1>9, <1>10
  <2>3. ASSUME Ended(t), ~a.failed, ~a.torn PROVE a.wire = a.accepted
    BY <1>3, <1>6, <2>1, <2>2, <2>3
  <2>4. Ended(t) => Ended(a)
    <3>1. a.wire \in Seq(Cell)
      BY <1>3, <1>9, <2>1
    <3> QED
      BY <2>3, <3>1, PrefixFacts DEF Ended
  <2>5. Stream(t) => Stream(a)
    <3>1. a.wire \o a.out.bytes = a.wire
      BY <1>3, <1>5, <1>9, <2>1
    <3> QED
      BY <1>7, <2>3, <3>1 DEF Stream
  <2>6. Kept(t, a, TRUE)
    BY <1>3, <2>1, <2>4, <2>5 DEF Kept, Armed
  <2> QED
    BY <2>6 DEF a
<1>11. ASSUME rest # <<>>
       PROVE  Kept(t, Accept([appendBuffer(s, rest) EXCEPT !.hWrite = TRUE], data), TRUE)
  <2> DEFINE q == appendBuffer(s, rest)
             u == [q EXCEPT !.hWrite = TRUE]
             a == Accept(u, data)
  <2>0. ~Overflows(s, rest)
    BY <1>3 DEF Overflows, rest
  <2>1. /\ TxInv(q) /\ size(q.out) = size(s.out) + Len(rest) /\ q.wire = s.wire
        /\ q.accepted = s.accepted /\ q.failed = s.failed
        /\ ~q.torn => ~s.torn /\ q.out.bytes = s.out.bytes \o rest
    BY <1>2, <1>4, <2>0, AppendBufferFacts
  <2> HIDE DEF q
  <2>2. /\ u \in TxType /\ u.out = q.out /\ u.wire = q.wire /\ u.accepted = q.accepted
        /\ u.failed = q.failed /\ u.torn = q.torn /\ u.hWrite = TRUE
    BY <2>1 DEF TxInv, TxType
  <2> HIDE DEF u
  <2>3. TxInv(u)
    BY <2>1, <2>2 DEF TxInv
  <2>4. /\ TxInv(a) /\ a.out = u.out /\ a.wire = u.wire /\ a.hWrite = u.hWrite
        /\ a.accepted = u.accepted \o data /\ a.failed = u.failed /\ a.torn = u.torn
    BY <2>3, AcceptFacts
  <2> HIDE DEF a
  <2>5. a.wire = t.wire \o head /\ a.accepted = t.accepted \o data /\ a.hWrite
    BY <1>3, <2>1, <2>2, <2>4
  <2>6. ~a.failed /\ ~a.torn => ~t.failed /\ ~t.torn /\ a.out.bytes = rest
    BY <1>3, <1>5, <1>9, <2>1, <2>2, <2>4
  <2>7. size(a.out) # 0
    <3>1. Len(rest) \in Nat /\ Len(rest) # 0
      BY <1>2, <1>11, EmptySeq
    <3> QED
      BY <1>3, <2>1, <2>2, <2>4, <3>1
  <2>8. ASSUME Ended(t), ~a.failed, ~a.torn PROVE a.wire \o a.out.bytes = a.accepted
    BY <1>6, <1>8, <2>5, <2>6, <2>8
  <2>9. Ended(t) => Ended(a)
    <3>1. IsWirePrefix(a.wire, a.wire \o rest)
      BY <1>2, <1>9, <2>5, PrefixFacts
    <3> QED
      BY <2>6, <2>7, <2>8, <3>1 DEF Ended
  <2>10. Stream(t) => Stream(a)
    BY <1>7, <2>8 DEF Stream
  <2>11. Kept(t, a, TRUE)
    BY <2>4, <2>5, <2>9, <2>10 DEF Kept, Armed
  <2> QED
    BY <2>11 DEF a, u, q
<1> QED
  BY <1>10, <1>11 DEF s, rest

\* sendBin, whatever the state of the connection and the answer of the kernel.
LEMMA SendBinKept ==
    ASSUME NEW t, TxInv(t), NEW up \in BOOLEAN, NEW data \in Messages,
           NEW r \in sendData(t, Len(data))
    PROVE  Kept(t, sendBin(t, up, data, r), up)
<1> DEFINE rest == SubSeq(data, r.k + 1, Len(data))
           s    == Sent(t, data, r)
<1>1. data \in Seq(Byte) /\ data # <<>> /\ data \in Seq(Cell) /\ Len(data) \in Nat \ {0}
  BY ClientConnAssumption, DataFacts, EmptySeq
<1>2. t \in TxType /\ r \in Answers(Len(data))
  BY <1>1, AnswerFacts DEF TxInv
<1>3. TxInv(s) /\ s.out = t.out /\ s.hWrite = t.hWrite
  BY <1>1, <1>2, SentFacts DEF TxInv
<1>4. CASE up /\ size(t.out) = 0
  <2>0. up = TRUE
    BY <1>4
  <2>1. CASE ~r.ok \/ Overflows(t, rest)
    <3>1. sendBin(t, up, data, r) = WillDestroy(s)
      BY <1>4, <2>1 DEF sendBin
    <3> QED
      BY <1>3, <3>1, FailureKept
  <2>2. CASE ~(~r.ok \/ Overflows(t, rest)) /\ rest = <<>>
    <3>1. sendBin(t, up, data, r) = Accept(s, data)
      BY <1>4, <2>2 DEF sendBin
    <3> QED
      BY <1>1, <1>2, <1>4, <2>0, <2>2, <3>1, DirectKept
  <2>3. CASE ~(~r.ok \/ Overflows(t, rest)) /\ rest # <<>>
    <3>1. sendBin(t, up, data, r) = Accept([appendBuffer(s, rest) EXCEPT !.hWrite = TRUE], data)
      BY <1>4, <2>3 DEF sendBin
    <3> QED
      BY <1>1, <1>2, <1>4, <2>0, <2>3, <3>1, DirectKept
  <2> QED
    BY <2>1, <2>2, <2>3
<1>5. CASE ~(up /\ size(t.out) = 0)
  <2>1. CASE Overflows(t, data)
    <3>1. sendBin(t, up, data, r) = WillDestroy(t)
      BY <1>5, <2>1 DEF sendBin
    <3> QED
      BY <3>1, FailureKept
  <2>2. CASE ~Overflows(t, data)
    <3>1. sendBin(t, up, data, r) = Accept(appendBuffer(t, data), data)
      BY <1>5, <2>2 DEF sendBin
    <3> QED
      BY <1>1, <1>5, <2>2, <3>1, QueuedKept
  <2> QED
    BY <2>1, <2>2
<1> QED
  BY <1>4, <1>5

\* A callback of the application calls sendBin or does not.
LEMMA AppSendsKept ==
    ASSUME NEW t, TxInv(t), NEW up \in BOOLEAN, NEW s \in AppSends(t, up)
    PROVE  Kept(t, s, up)
<1>1. CASE s = t
  BY <1>1 DEF Kept
<1>2. CASE s # t
  <2>1. PICK data \in Messages : \E r \in sendData(t, Len(data)) : s = sendBin(t, up, data, r)
    BY <1>2 DEF AppSends
  <2> QED
    BY <2>1, SendBinKept
<1> QED
  BY <1>1, <1>2

-----------------------------------------------------------------------------
\* __onWrite gives the kernel a part of m_Output and drops that part; the write
\* event stays as long as something is left.
LEMMA SendBufferKept ==
    ASSUME NEW t, TxInv(t), Stream(t), t.hWrite, NEW r \in Answers(size(t.out))
    PROVE  /\ TxInv(sendBuffer(t, r)) /\ Stream(sendBuffer(t, r))
           /\ Armed(sendBuffer(t, r), TRUE)
<1> DEFINE data == t.out.bytes
           s == Sent(t, data, r)
           o == erase(t.out, r.k)
           x == t.torn \/ ~EraseIsExact(t.out, r.k)
           h == t.hWrite /\ r.k < size(t.out)
           u == [s EXCEPT !.out = o, !.torn = x, !.hWrite = h]
<1>1. /\ t \in TxType /\ WellFormed(t.out) /\ data \in Seq(Cell) /\ size(t.out) = Len(data)
      /\ Len(data) \in Nat /\ r.k \in 0..Len(data) /\ r \in Answers(Len(data))
      /\ t.wire \in Seq(Cell) /\ size(t.out) <= MaxOutput /\ MaxOutput \in Nat
  BY Parts, TxParts, ClientConnAssumption DEF TxInv, Answers
<1>2. /\ s \in TxType /\ s.out = t.out /\ s.hWrite = t.hWrite
      /\ s.wire = t.wire \o SubSeq(data, 1, r.k)
      /\ s.accepted = t.accepted /\ s.failed = t.failed /\ s.torn = t.torn
  BY <1>1, SentFacts
<1>3. sendBuffer(t, r) = u
  BY <1>2 DEF sendBuffer
<1> HIDE DEF s
<1>4. /\ WellFormed(o) /\ size(o) = Len(data) - r.k
      /\ EraseIsExact(t.out, r.k) => o.bytes = SubSeq(data, r.k + 1, Len(data))
  <2>1. r.k \in Nat /\ ~(r.k > size(t.out))
    BY <1>1
  <2> QED
    BY <1>1, <2>1, EraseFacts
<1>5. o \in Buffers /\ x \in BOOLEAN /\ h \in BOOLEAN
  BY <1>4 DEF WellFormed
<1>6. ~x => ~t.torn /\ o.bytes = SubSeq(data, r.k + 1, Len(data))
  BY <1>4
<1>7. h <=> r.k < size(t.out)
  OBVIOUS
<1> HIDE DEF o, x, h
<1>8. /\ u \in TxType /\ u.out = o /\ u.torn = x /\ u.hWrite = h
      /\ u.wire = s.wire /\ u.accepted = s.accepted /\ u.failed = s.failed
  BY <1>2, <1>5 DEF TxType
<1> HIDE DEF u
<1>9. TxInv(u)
  BY <1>1, <1>4, <1>8 DEF TxInv
<1>10. Armed(u, TRUE)
  BY <1>1, <1>4, <1>7, <1>8 DEF Armed
<1>11. Stream(u)
  <2> SUFFICES ASSUME ~u.failed, ~u.torn PROVE u.wire \o u.out.bytes = u.accepted
    BY DEF Stream
  <2> DEFINE a == SubSeq(data, 1, r.k)
             b == SubSeq(data, r.k + 1, Len(data))
  <2>1. a \in Seq(Cell) /\ b \in Seq(Cell) /\ a \o b = data
    BY <1>1, SplitAt
  <2>2. u.wire = t.wire \o a /\ u.out.bytes = b /\ u.accepted = t.accepted
    BY <1>2, <1>6, <1>8
  <2>3. t.wire \o data = t.accepted
    BY <1>2, <1>6, <1>8 DEF Stream
  <2> HIDE DEF a, b, data
  <2>4. (t.wire \o a) \o b = t.wire \o (a \o b)
    BY <1>1, <2>1, Associative
  <2> QED
    BY <2>1, <2>2, <2>3, <2>4
<1> QED
  BY <1>3, <1>9, <1>10, <1>11

\* A send(2) that fails in the middle leaves a prefix on the wire.
LEMMA BrokenEnds ==
    ASSUME NEW t, TxInv(t), Stream(t), NEW r \in Answers(size(t.out)), r.k < size(t.out)
    PROVE  TxInv(Sent(t, t.out.bytes, r)) /\ Ended(Sent(t, t.out.bytes, r))
<1> DEFINE data == t.out.bytes
           s == Sent(t, data, r)
           a == SubSeq(data, 1, r.k)
           b == SubSeq(data, r.k + 1, Len(data))
<1>1. /\ t \in TxType /\ WellFormed(t.out) /\ data \in Seq(Cell) /\ size(t.out) = Len(data)
      /\ Len(data) \in Nat /\ r.k \in 0..Len(data) /\ r \in Answers(Len(data))
      /\ t.wire \in Seq(Cell)
  BY Parts, TxParts DEF TxInv, Answers
<1>2. /\ s \in TxType /\ s.out = t.out /\ s.wire = t.wire \o a
      /\ s.accepted = t.accepted /\ s.failed = t.failed /\ s.torn = t.torn
  BY <1>1, SentFacts
<1>3. a \in Seq(Cell) /\ b \in Seq(Cell) /\ a \o b = data
  BY <1>1, SplitAt
<1>4. size(t.out) # 0
  BY <1>1
<1> HIDE DEF s, a, b
<1>5. TxInv(s)
  BY <1>2 DEF TxInv
<1>6. Ended(s)
  <2> SUFFICES ASSUME ~s.failed, ~s.torn PROVE IsWirePrefix(s.wire, s.accepted)
    BY <1>2, <1>4 DEF Ended
  <2>1. (t.wire \o a) \o b = t.wire \o data
    <3>1. (t.wire \o a) \o b = t.wire \o (a \o b)
      BY <1>1, <1>3, Associative
    <3> QED
      BY <1>3, <3>1
  <2>2. t.wire \o data = t.accepted
    BY <1>2 DEF Stream
  <2>3. t.wire \o a \in Seq(Cell)
    BY <1>1, <1>3, ConcatProperties
  <2>4. IsWirePrefix(t.wire \o a, (t.wire \o a) \o b)
    BY <1>3, <2>3, PrefixFacts
  <2> QED
    BY <1>2, <2>1, <2>2, <2>4
<1> QED
  BY <1>5, <1>6 DEF s

\* The destructor, with or without a sendBin out of onClose.
LEMMA FreeKept ==
    ASSUME NEW t, TxInv(t), Ended(t), NEW up \in BOOLEAN, NEW l, Free(t, up, l)
    PROVE  TxInv(tx') /\ Ended(tx')
<1>1. /\ Destroyed(t) \in TxType /\ Destroyed(t).out = t.out /\ Destroyed(t).wire = t.wire
      /\ Destroyed(t).accepted = t.accepted /\ Destroyed(t).failed = t.failed
      /\ Destroyed(t).torn = t.torn
  BY DEF TxInv, TxType, Destroyed
<1>2. TxInv(Destroyed(t)) /\ Ended(Destroyed(t))
  BY <1>1 DEF TxInv, Ended
<1>3. CASE CloseSends
  <2>1. tx' \in AppSends(Destroyed(t), up)
    BY <1>3 DEF Free
  <2>2. Kept(Destroyed(t), tx', up)
    BY <1>2, <2>1, AppSendsKept
  <2> QED
    BY <1>2, <2>2 DEF Kept
<1>4. CASE ~CloseSends
  BY <1>2, <1>4 DEF Free
<1> QED
  BY <1>3, <1>4

-----------------------------------------------------------------------------
\* The life of the object: __onRead runs only on a live, connected connection, the
\* read event is there only on a connected one, and the link events match.
Life ==
    /\ obj \in {"unborn", "alive", "freed"} /\ cb \in {"none", "read", "data"}
    /\ m_bConnected \in BOOLEAN
    /\ cb # "none" => obj = "alive" /\ m_bConnected
    /\ hRead => m_bConnected
    /\ obj = "unborn" => ~m_bConnected
    /\ LinkEventsMatch

\* The sending side.
TxSide ==
    /\ TxInv(tx)
    /\ obj = "unborn" => size(tx.out) = 0
    /\ IF obj = "freed" THEN Ended(tx) ELSE Stream(tx)
    /\ obj = "alive" => Armed(tx, m_bConnected)
    /\ obj = "freed" /\ ~CloseSends => ~tx.hWrite /\ ~tx.destroy

\* The receiving side.
RxSide ==
    /\ WellFormed(m_Input) /\ size(m_Input) <= MaxInput
    /\ rx \in Seq(Byte) /\ peerSent \in Seq(Byte) /\ consumed \in Seq(Cell)
    /\ rxTorn \in BOOLEAN
    /\ obj # "freed" /\ ~rxTorn => consumed \o m_Input.bytes \o rx = peerSent

-----------------------------------------------------------------------------
\* The destructor tells the link events of the end, after what they were told before.
LEMMA FreeLife ==
    ASSUME NEW t, NEW up \in BOOLEAN, NEW l, l = (IF up THEN <<"connected">> ELSE <<>>),
           Free(t, up, l)
    PROVE  Life'
<1>1. /\ obj' = "freed" /\ cb' = "none" /\ m_bConnected' = up /\ hRead' = FALSE
      /\ links' = Append(l, "close")
  BY DEF Free
<1>2. links' = (IF up THEN <<"connected">> ELSE <<>>) \o <<"close">>
  BY <1>1
<1>3. LinkEventsMatch'
  BY <1>1, <1>2 DEF LinkEventsMatch
<1>4. m_bConnected' \in BOOLEAN
  BY <1>1
<1> QED
  BY <1>1, <1>3, <1>4 DEF Life

\* What the link events have been told of an object that is not freed.
LEMMA LinksSoFar ==
    ASSUME Life, obj # "freed"
    PROVE  links = IF m_bConnected THEN <<"connected">> ELSE <<>>
  BY DEF Life, LinkEventsMatch

LEMMA LifeStep == Life /\ [Next]_vars => Life'
<1> SUFFICES ASSUME Life, [Next]_vars PROVE Life'
  OBVIOUS
<1>0. m_bConnected \in BOOLEAN
  BY DEF Life
<1>1. CASE UNCHANGED <<obj, cb, m_bConnected, hRead, links>>
  BY <1>1 DEF Life, LinkEventsMatch
<1>2. CASE NewOutgoing
  BY <1>2 DEF NewOutgoing, Life, LinkEventsMatch
<1>3. CASE NewAccepted
  <2>1. /\ obj' = "alive" /\ m_bConnected' = TRUE /\ links' = <<"connected">> /\ cb' = "none"
    BY <1>3 DEF NewAccepted, Life
  <2>2. LinkEventsMatch'
    BY <2>1 DEF LinkEventsMatch
  <2> QED
    BY <2>1, <2>2 DEF Life
<1>4. CASE OnConnectFailed
  <2>1. ~m_bConnected /\ obj = "alive" /\ Free(tx, FALSE, links)
    BY <1>4 DEF OnConnectFailed, Idle
  <2>2. links = <<>>
    BY <2>1, LinksSoFar
  <2> QED
    BY <2>1, <2>2, FreeLife
<1>5. CASE onWrite
  <2> DEFINE l == IF m_bConnected THEN links ELSE Append(links, "connected")
  <2>1. obj = "alive" /\ cb = "none"
    BY <1>5 DEF onWrite, Idle
  <2>2. l = <<"connected">>
    <3>1. links = IF m_bConnected THEN <<"connected">> ELSE <<>>
      BY <2>1, LinksSoFar
    <3>2. Append(<<>>, "connected") = <<"connected">>
      OBVIOUS
    <3> QED
      BY <1>0, <3>1, <3>2
  <2>3. PICK t, r : \/ /\ m_bConnected' = TRUE /\ hRead' = TRUE /\ links' = l
                       /\ UNCHANGED <<obj, cb>>
                    \/ Free(Sent(t, t.out.bytes, r), TRUE, l)
    BY <1>5 DEF onWrite
  <2> HIDE DEF l
  <2>4. CASE m_bConnected' = TRUE /\ hRead' = TRUE /\ links' = l /\ UNCHANGED <<obj, cb>>
    <3>1. LinkEventsMatch'
      BY <2>1, <2>2, <2>4 DEF LinkEventsMatch
    <3> QED
      BY <2>1, <2>4, <3>1 DEF Life
  <2>5. CASE Free(Sent(t, t.out.bytes, r), TRUE, l)
    BY <2>2, <2>5, FreeLife
  <2> QED
    BY <2>3, <2>4, <2>5
<1>6. CASE OnReadable
  BY <1>6 DEF OnReadable, Idle, Life, LinkEventsMatch
<1>7. ASSUME obj = "alive", NEW t, Free(t, m_bConnected, links) PROVE Life'
  BY <1>0, <1>7, LinksSoFar, FreeLife
<1>8. CASE onRead
  <2>1. obj = "alive"
    BY <1>8 DEF onRead, Life
  <2>2. \/ Free(tx, m_bConnected, links)
        \/ cb' \in {"data", "read"} /\ UNCHANGED <<obj, m_bConnected, hRead, links>>
    BY <1>8 DEF onRead
  <2>3. CASE cb' \in {"data", "read"} /\ UNCHANGED <<obj, m_bConnected, hRead, links>>
    BY <1>8, <2>3 DEF onRead, Life, LinkEventsMatch
  <2> QED
    BY <1>7, <2>1, <2>2, <2>3
<1>9. CASE onData
  <2>1. obj = "alive"
    BY <1>9 DEF onData, Life
  <2>2. \/ \E t : Free(t, m_bConnected, links)
        \/ cb' = "none" /\ UNCHANGED <<obj, m_bConnected, hRead, links>>
    BY <1>9 DEF onData
  <2>3. CASE cb' = "none" /\ UNCHANGED <<obj, m_bConnected, hRead, links>>
    BY <2>3 DEF Life, LinkEventsMatch
  <2> QED
    BY <1>7, <2>1, <2>2, <2>3
<1>10. CASE TimerNoData \/ TimerDestroy
  BY <1>7, <1>10 DEF TimerNoData, TimerDestroy, Idle
<1> QED
  BY <1>1, <1>2, <1>3, <1>4, <1>5, <1>6, <1>8, <1>9, <1>10
  DEF Next, vars, Send, ConnectEnds, PeerSends, PeerCloses, PeerResets, PeerReads, Kernel

-----------------------------------------------------------------------------
\* A step that frees the object, or leaves it as it was and keeps what sendBin keeps.
LEMMA TxFreed ==
    ASSUME NEW t, TxInv(t), Ended(t), NEW up \in BOOLEAN, NEW l, Free(t, up, l)
    PROVE  TxSide'
<1>1. TxInv(tx') /\ Ended(tx')
  BY FreeKept
<1>2. obj' = "freed"
  BY DEF Free
<1>3. ~CloseSends => ~tx'.hWrite /\ ~tx'.destroy
  BY DEF Free, Destroyed, TxInv, TxType
<1> QED
  BY <1>1, <1>2, <1>3 DEF TxSide

LEMMA TxStep == Life /\ TxSide /\ [Next]_vars => TxSide'
<1> SUFFICES ASSUME Life, TxSide, [Next]_vars PROVE TxSide'
  OBVIOUS
<1>0. m_bConnected \in BOOLEAN /\ TxInv(tx) /\ tx \in TxType
  BY DEF Life, TxSide, TxInv
<1>a. obj # "freed" => Stream(tx) /\ Ended(tx)
  BY <1>0, StreamEnds DEF TxSide
<1>1. CASE UNCHANGED <<obj, m_bConnected, tx>>
  BY <1>1 DEF TxSide
<1>2. CASE NewOutgoing
  <2>1. obj = "unborn" /\ obj' = "alive" /\ tx' = [tx EXCEPT !.hWrite = TRUE]
    BY <1>2 DEF NewOutgoing
  <2>2. /\ tx' \in TxType /\ tx'.hWrite /\ tx'.out = tx.out /\ tx'.wire = tx.wire
        /\ tx'.accepted = tx.accepted /\ tx'.failed = tx.failed /\ tx'.torn = tx.torn
    BY <1>0, <2>1 DEF TxType
  <2>3. TxInv(tx') /\ Stream(tx')
    BY <1>0, <1>a, <2>1, <2>2 DEF TxInv, Stream
  <2>4. Armed(tx', m_bConnected')
    BY <2>2 DEF Armed
  <2> QED
    BY <2>1, <2>3, <2>4 DEF TxSide
<1>3. CASE NewAccepted
  <2>1. obj = "unborn" /\ obj' = "alive" /\ m_bConnected' = TRUE /\ tx' \in AppSends(tx, TRUE)
    BY <1>3 DEF NewAccepted
  <2>2. Kept(tx, tx', TRUE)
    BY <1>0, <2>1, AppSendsKept
  <2>3. Armed(tx, TRUE)
    <3>1. size(tx.out) = 0
      BY <2>1 DEF TxSide
    <3> QED
      BY <3>1 DEF Armed
  <2> QED
    BY <1>a, <2>1, <2>2, <2>3 DEF TxSide, Kept
<1>4. CASE Send
  <2>1. obj = "alive" /\ tx' \in AppSends(tx, m_bConnected) /\ UNCHANGED <<obj, m_bConnected>>
    BY <1>4 DEF Send, Idle
  <2>2. Kept(tx, tx', m_bConnected)
    BY <1>0, <2>1, AppSendsKept
  <2> QED
    BY <1>a, <2>1, <2>2 DEF TxSide, Kept
<1>5. CASE OnConnectFailed
  BY <1>0, <1>5, <1>a, TxFreed DEF OnConnectFailed, Idle
<1>6. CASE onWrite
  <2>1. obj = "alive" /\ tx.hWrite
    BY <1>6 DEF onWrite, Idle
  <2> DEFINE l == IF m_bConnected THEN links ELSE Append(links, "connected")
  <2>2. PICK t \in IF m_bConnected THEN {tx} ELSE AppSends(tx, TRUE) :
          \E r \in IF size(t.out) = 0 THEN {[k |-> 0, ok |-> TRUE]} ELSE sendData(t, size(t.out)) :
             \/ r.ok /\ tx' = sendBuffer(t, r) /\ m_bConnected' = TRUE /\ UNCHANGED obj
             \/ ~r.ok /\ Free(Sent(t, t.out.bytes, r), TRUE, l)
    BY <1>6 DEF onWrite
  <2>3. PICK r \in IF size(t.out) = 0 THEN {[k |-> 0, ok |-> TRUE]} ELSE sendData(t, size(t.out)) :
             \/ r.ok /\ tx' = sendBuffer(t, r) /\ m_bConnected' = TRUE /\ UNCHANGED obj
             \/ ~r.ok /\ Free(Sent(t, t.out.bytes, r), TRUE, l)
    BY <2>2
  <2>4. TxInv(t) /\ Stream(t) /\ t.hWrite
    <3>1. CASE m_bConnected
      BY <1>0, <1>a, <2>1, <3>1
    <3>2. CASE ~m_bConnected
      <4>1. t \in AppSends(tx, TRUE)
        BY <3>2
      <4>2. Kept(tx, t, TRUE)
        BY <1>0, <4>1, AppSendsKept
      <4> QED
        BY <1>a, <2>1, <4>2 DEF Kept
    <3> QED
      BY <3>1, <3>2
  <2>5. r \in Answers(size(t.out)) /\ (~r.ok => r.k < size(t.out))
    <3>1. size(t.out) \in Nat /\ t \in TxType
      BY <2>4, Parts DEF TxInv
    <3>2. CASE size(t.out) = 0
      <4>1. r = [k |-> 0, ok |-> TRUE]
        BY <3>2
      <4>2. 0 \in 0..size(t.out) /\ TRUE \in BOOLEAN
        BY <3>2
      <4> QED
        BY <4>1, <4>2 DEF Answers
    <3>3. CASE size(t.out) # 0
      BY <3>1, <3>3, AnswerFacts
    <3> QED
      BY <3>2, <3>3
  <2>6. CASE r.ok /\ tx' = sendBuffer(t, r) /\ m_bConnected' = TRUE /\ UNCHANGED obj
    <3>1. TxInv(tx') /\ Stream(tx') /\ Armed(tx', TRUE)
      BY <2>4, <2>5, <2>6, SendBufferKept
    <3> QED
      BY <2>1, <2>6, <3>1 DEF TxSide
  <2>7. CASE ~r.ok /\ Free(Sent(t, t.out.bytes, r), TRUE, l)
    <3>1. TxInv(Sent(t, t.out.bytes, r)) /\ Ended(Sent(t, t.out.bytes, r))
      BY <2>4, <2>5, <2>7, BrokenEnds
    <3> HIDE DEF l
    <3> QED
      BY <2>7, <3>1, TxFreed
  <2> QED
    BY <2>3, <2>6, <2>7
<1>7. CASE onRead
  <2>1. obj = "alive"
    BY <1>7 DEF onRead, Life
  <2>2. Free(tx, m_bConnected, links) \/ UNCHANGED <<obj, m_bConnected, tx>>
    BY <1>7 DEF onRead
  <2> QED
    BY <1>0, <1>1, <1>a, <2>1, <2>2, TxFreed
<1>8. CASE onData
  <2>1. obj = "alive" /\ m_bConnected = TRUE
    BY <1>0, <1>8 DEF onData, Life
  <2>2. PICK t \in IF size(m_Input) = 0 THEN {tx} ELSE AppSends(tx, TRUE) :
            \/ tx' = t /\ UNCHANGED <<obj, m_bConnected>>
            \/ Free(t, m_bConnected, links)
    BY <1>8 DEF onData
  <2>3. t = tx \/ t \in AppSends(tx, TRUE)
    BY <2>2
  <2>4. Kept(tx, t, TRUE)
    <3>1. CASE t = tx
      BY <1>0, <3>1 DEF Kept
    <3>2. CASE t \in AppSends(tx, TRUE)
      BY <1>0, <3>2, AppSendsKept
    <3> QED
      BY <2>3, <3>1, <3>2
  <2>5. TxInv(t) /\ Stream(t) /\ Ended(t) /\ Armed(t, TRUE)
    BY <1>a, <2>1, <2>4 DEF Kept, TxSide
  <2>6. CASE tx' = t /\ UNCHANGED <<obj, m_bConnected>>
    BY <2>1, <2>5, <2>6 DEF TxSide
  <2>7. CASE Free(t, m_bConnected, links)
    BY <1>0, <2>5, <2>7, TxFreed
  <2> QED
    BY <2>2, <2>6, <2>7
<1>9. CASE TimerNoData \/ TimerDestroy
  BY <1>0, <1>9, <1>a, TxFreed DEF TimerNoData, TimerDestroy, Idle
<1>10. CASE PeerResets \/ PeerReads
  <2>1. UNCHANGED <<obj, m_bConnected>>
    BY <1>10 DEF PeerResets, PeerReads, Kernel
  <2>2. /\ tx' \in TxType /\ tx'.out = tx.out /\ tx'.wire = tx.wire /\ tx'.hWrite = tx.hWrite
        /\ tx'.accepted = tx.accepted /\ tx'.failed = tx.failed /\ tx'.torn = tx.torn
        /\ tx'.destroy = tx.destroy
    <3>1. CASE PeerResets
      BY <1>0, <3>1 DEF PeerResets, TxType
    <3>2. CASE PeerReads
      <4>1. PICK n \in 0..(tx.load - 1) : tx' = [tx EXCEPT !.load = n]
        BY <3>2 DEF PeerReads
      <4>2. n \in 0..SndBuf
        BY <1>0, <4>1, TxParts, ClientConnAssumption
      <4> QED
        BY <1>0, <4>1, <4>2 DEF TxType
    <3> QED
      BY <1>10, <3>1, <3>2
  <2> QED
    BY <2>1, <2>2 DEF TxSide, TxInv, Ended, Stream, Armed
<1> QED
  BY <1>1, <1>2, <1>3, <1>4, <1>5, <1>6, <1>7, <1>8, <1>9, <1>10
  DEF Next, vars, OnReadable, ConnectEnds, PeerSends, PeerCloses, Kernel

-----------------------------------------------------------------------------
\* A round of the recv loop: the room that __onRead makes.
LEMMA RecvRoomFacts ==
    ASSUME NEW b, WellFormed(b)
    PROVE  /\ WellFormed(recvRoom(b)) /\ size(recvRoom(b)) = size(b)
           /\ recvRoom(b) = b \/ IncrementIsExact(b, BaseRead) => recvRoom(b).bytes = b.bytes
<1>1. BaseRead \in Nat
  BY ClientConnAssumption
<1>2. CASE freesize(b) < BaseRead
  BY <1>1, <1>2, IncrementFacts DEF recvRoom, inc_capacity
<1>3. CASE ~(freesize(b) < BaseRead)
  BY <1>3 DEF recvRoom
<1> QED
  BY <1>2, <1>3

\* The destructor empties the receiving side.
LEMMA RxFreed ==
    ASSUME RxSide, NEW t, NEW up, NEW l, Free(t, up, l)
    PROVE  RxSide'
<1>1. /\ obj' = "freed" /\ m_Input' = reset /\ rx' = <<>>
      /\ UNCHANGED <<peerSent, consumed, rxTorn>>
  BY DEF Free
<1>2. WellFormed(reset) /\ size(reset) = 0
  BY EmptyIsWellFormed DEF size
<1>3. 0 <= MaxInput /\ <<>> \in Seq(Byte)
  BY ClientConnAssumption
<1> QED
  BY <1>1, <1>2, <1>3 DEF RxSide

LEMMA RxStep == Life /\ RxSide /\ [Next]_vars => RxSide'
<1> SUFFICES ASSUME Life, RxSide, [Next]_vars PROVE RxSide'
  OBVIOUS
<1>0. /\ WellFormed(m_Input) /\ size(m_Input) <= MaxInput /\ MaxInput \in Nat
      /\ rx \in Seq(Byte) /\ peerSent \in Seq(Byte) /\ consumed \in Seq(Cell)
      /\ rxTorn \in BOOLEAN
      /\ obj # "freed" /\ ~rxTorn => consumed \o m_Input.bytes \o rx = peerSent
  BY ClientConnAssumption DEF RxSide
<1>a. /\ m_Input.bytes \in Seq(Cell) /\ size(m_Input) \in Nat
      /\ size(m_Input) = Len(m_Input.bytes) /\ rx \in Seq(Cell)
  BY <1>0, Parts, DataFacts
<1>b. consumed \in Seq(Cell) /\ m_Input.bytes \in Seq(Cell) /\ rx \in Seq(Cell)
  BY <1>0, <1>a
<1>1. CASE (obj = "freed" => obj' = "freed") /\ UNCHANGED <<m_Input, rx, peerSent, consumed, rxTorn>>
  BY <1>1 DEF RxSide
<1>2. CASE \E t, up, l : Free(t, up, l)
  BY <1>2, RxFreed
<1>3. CASE onRead
  <2> DEFINE b    == recvRoom(m_Input)
             free == freesize(b)
             n    == IF Len(rx) < free THEN Len(rx) ELSE free
             head == SubSeq(rx, 1, n)
             rest == SubSeq(rx, n + 1, Len(rx))
  <2>1. \/ Free(tx, m_bConnected, links)
        \/ /\ ~inputOverflow(b, n) /\ m_Input' = inc_size(b, head) /\ rx' = rest
           /\ rxTorn' = (rxTorn \/ (b # m_Input /\ ~IncrementIsExact(m_Input, BaseRead)))
           /\ UNCHANGED <<obj, peerSent, consumed>>
    BY <1>3 DEF onRead
  <2>2. /\ WellFormed(b) /\ size(b) = size(m_Input)
        /\ b = m_Input \/ IncrementIsExact(m_Input, BaseRead) => b.bytes = m_Input.bytes
    BY <1>0, RecvRoomFacts
  <2> HIDE DEF b
  <2>3. free \in Nat
    BY <2>2, Parts
  <2> HIDE DEF free
  <2>4. n \in 0..Len(rx) /\ n \in Nat /\ n <= free
    BY <1>0, <2>3
  <2> HIDE DEF n
  <2>5. /\ head \in Seq(Byte) /\ Len(head) = n /\ rest \in Seq(Byte) /\ head \o rest = rx
    BY <1>0, <2>4, SplitAt
  <2> HIDE DEF head, rest
  <2>6. head \in Seq(Cell) /\ rest \in Seq(Cell)
    BY <2>5, DataFacts
  <2>7. /\ WellFormed(inc_size(b, head)) /\ inc_size(b, head).bytes = b.bytes \o head
        /\ size(inc_size(b, head)) = size(m_Input) + n
    BY <2>2, <2>4, <2>5, <2>6, IncSizeFacts DEF free
  <2>8. CASE /\ ~inputOverflow(b, n) /\ m_Input' = inc_size(b, head) /\ rx' = rest
             /\ rxTorn' = (rxTorn \/ (b # m_Input /\ ~IncrementIsExact(m_Input, BaseRead)))
             /\ UNCHANGED <<obj, peerSent, consumed>>
    <3>1. ~(n > 0 /\ size(m_Input) + n > MaxInput)
      BY <2>2, <2>8 DEF inputOverflow
    <3>2. size(m_Input) + n <= MaxInput
      BY <1>0, <1>a, <2>4, <3>1
    <3>3. WellFormed(m_Input') /\ size(m_Input') <= MaxInput
      BY <2>7, <2>8, <3>2
    <3>4. rxTorn' \in BOOLEAN
      BY <2>8, Zenon
    <3>5. ASSUME obj' # "freed", ~rxTorn'
          PROVE  consumed' \o m_Input'.bytes \o rx' = peerSent'
      <4>1. obj # "freed" /\ ~rxTorn /\ b.bytes = m_Input.bytes
        BY <2>2, <2>8, <3>5
      <4>2. m_Input'.bytes = m_Input.bytes \o head
        BY <2>7, <2>8, <4>1
      <4>3. (consumed \o (m_Input.bytes \o head)) \o rest = (consumed \o m_Input.bytes) \o rx
        <5>1. m_Input.bytes \o head \in Seq(Cell)
          BY <1>b, <2>6, ConcatProperties
        <5>2. (consumed \o (m_Input.bytes \o head)) \o rest = consumed \o ((m_Input.bytes \o head) \o rest)
          BY <1>b, <2>6, <5>1, Associative
        <5>3. (m_Input.bytes \o head) \o rest = m_Input.bytes \o (head \o rest)
          BY <1>b, <2>6, Associative
        <5>4. consumed \o (m_Input.bytes \o rx) = (consumed \o m_Input.bytes) \o rx
          BY <1>b, Associative
        <5> QED
          BY <2>5, <5>2, <5>3, <5>4
      <4> QED
        BY <1>0, <2>8, <4>1, <4>2, <4>3
    <3> QED
      BY <1>0, <2>5, <2>8, <3>3, <3>4, <3>5 DEF RxSide
  <2> QED
    BY <1>2, <2>1, <2>8
<1>4. CASE onData
  <2>1. \/ \E t : Free(t, m_bConnected, links)
        \/ \E n \in 0..size(m_Input) :
              /\ m_Input' = erase(m_Input, n)
              /\ rxTorn' = (rxTorn \/ ~EraseIsExact(m_Input, n))
              /\ consumed' = consumed \o SubSeq(m_Input.bytes, 1, n)
              /\ UNCHANGED <<obj, rx, peerSent>>
    BY <1>4 DEF onData
  <2>2. ASSUME NEW n \in 0..size(m_Input), m_Input' = erase(m_Input, n),
               rxTorn' = (rxTorn \/ ~EraseIsExact(m_Input, n)),
               consumed' = consumed \o SubSeq(m_Input.bytes, 1, n),
               UNCHANGED <<obj, rx, peerSent>>
        PROVE  RxSide'
    <3> DEFINE head == SubSeq(m_Input.bytes, 1, n)
               rest == SubSeq(m_Input.bytes, n + 1, size(m_Input))
    <3>1. n \in Nat /\ n <= size(m_Input) /\ n \in 0..Len(m_Input.bytes)
      BY <1>a
    <3>2. /\ WellFormed(erase(m_Input, n)) /\ size(erase(m_Input, n)) = size(m_Input) - n
          /\ EraseIsExact(m_Input, n) => erase(m_Input, n).bytes = rest
      <4>1. /\ WellFormed(erase(m_Input, n))
            /\ size(erase(m_Input, n)) = size(m_Input) - (IF n > size(m_Input) THEN size(m_Input) ELSE n)
            /\ EraseIsExact(m_Input, n) =>
                  erase(m_Input, n).bytes = IF n > size(m_Input) THEN <<>> ELSE rest
        BY <1>0, <3>1, EraseFacts
      <4>2. ~(n > size(m_Input))
        BY <1>a, <3>1
      <4> QED
        BY <4>1, <4>2
    <3>3. head \in Seq(Cell) /\ rest \in Seq(Cell) /\ head \o rest = m_Input.bytes
      BY <1>a, <3>1, SplitAt
    <3> HIDE DEF head, rest
    <3>4. WellFormed(m_Input') /\ size(m_Input') <= MaxInput
      BY <1>0, <1>a, <2>2, <3>1, <3>2
    <3>5. rxTorn' \in BOOLEAN
      BY <2>2, Zenon
    <3>6. consumed' \in Seq(Cell) /\ consumed' = consumed \o head
      BY <1>0, <2>2, <3>3, ConcatProperties DEF head
    <3>7. ASSUME obj' # "freed", ~rxTorn'
          PROVE  consumed' \o m_Input'.bytes \o rx' = peerSent'
      <4>1. obj # "freed" /\ ~rxTorn /\ m_Input'.bytes = rest
        BY <2>2, <3>2, <3>7
      <4>2. ((consumed \o head) \o rest) \o rx = (consumed \o m_Input.bytes) \o rx
        <5>1. (consumed \o head) \o rest = consumed \o (head \o rest)
          BY <1>b, <3>3, Associative
        <5> QED
          BY <3>3, <5>1
      <4> QED
        BY <1>0, <2>2, <3>6, <4>1, <4>2
    <3> QED
      BY <1>0, <2>2, <3>4, <3>5, <3>6, <3>7 DEF RxSide
  <2> QED
    BY <1>2, <2>1, <2>2
<1>5. CASE PeerSends
  <2>1. PICK d \in PeerChunks : rx' = rx \o d /\ peerSent' = peerSent \o d
    BY <1>5 DEF PeerSends
  <2>2. UNCHANGED <<obj, m_Input, consumed, rxTorn>>
    BY <1>5 DEF PeerSends, Kernel
  <2>3. d \in Seq(Byte) /\ d \in Seq(Cell)
    BY ClientConnAssumption, DataFacts
  <2>4. rx' \in Seq(Byte) /\ peerSent' \in Seq(Byte)
    BY <1>0, <2>1, <2>3, ConcatProperties
  <2>5. consumed \o m_Input.bytes \in Seq(Cell)
    BY <1>0, <1>a, ConcatProperties
  <2>6. (consumed \o m_Input.bytes) \o (rx \o d) = ((consumed \o m_Input.bytes) \o rx) \o d
    BY <1>a, <2>3, <2>5, Associative
  <2> QED
    BY <1>0, <2>1, <2>2, <2>4, <2>6 DEF RxSide
<1> QED
  BY <1>1, <1>2, <1>3, <1>4, <1>5
  DEF Next, vars, NewOutgoing, NewAccepted, Send, OnConnectFailed, onWrite, OnReadable,
      TimerNoData, TimerDestroy, ConnectEnds, PeerCloses, PeerResets, PeerReads, Kernel

-----------------------------------------------------------------------------
\* The events, the timer and the socket; a freed object has neither event nor timer.
Flags ==
    /\ hRead \in BOOLEAN /\ m_bTimerNoDataStart \in BOOLEAN /\ fin \in BOOLEAN
    /\ so \in {"connecting", "up", "refused", "closed"}
    /\ obj = "freed" => ~hRead /\ ~m_bTimerNoDataStart

LEMMA FlagsStep == Flags /\ [Next]_vars => Flags'
<1> SUFFICES ASSUME Flags, [Next]_vars PROVE Flags'
  OBVIOUS
<1>1. CASE (obj = "freed" <=> obj' = "freed") /\ UNCHANGED <<hRead, m_bTimerNoDataStart, fin, so>>
  BY <1>1 DEF Flags
<1>2. CASE \E t, up, l : Free(t, up, l)
  <2>1. hRead' = FALSE /\ m_bTimerNoDataStart' = FALSE /\ so' = "closed" /\ fin' = fin
    BY <1>2 DEF Free
  <2> QED
    BY <2>1 DEF Flags
<1>3. CASE /\ obj' = "alive" /\ hRead' = TRUE /\ m_bTimerNoDataStart' = TRUE /\ fin' = fin
           /\ so' \in {"connecting", "up", "refused", "closed"}
  BY <1>3 DEF Flags
<1>4. CASE NewOutgoing
  BY <1>4 DEF NewOutgoing, Flags
<1>5. CASE NewAccepted
  BY <1>3, <1>5 DEF NewAccepted
<1>6. CASE onWrite
  <2>1. obj = "alive" /\ so \in {"connecting", "up", "refused", "closed"}
    BY <1>6 DEF onWrite, Idle, Flags
  <2>2. \/ \E t, up, l : Free(t, up, l)
        \/ hRead' = TRUE /\ m_bTimerNoDataStart' = TRUE /\ UNCHANGED <<obj, fin, so>>
    BY <1>6 DEF onWrite
  <2> QED
    BY <1>2, <1>3, <2>1, <2>2
<1>7. CASE onRead \/ onData
  <2>1. \/ \E t, up, l : Free(t, up, l)
        \/ UNCHANGED <<obj, hRead, m_bTimerNoDataStart, fin, so>>
    BY <1>7 DEF onRead, onData
  <2> QED
    BY <1>1, <1>2, <2>1
<1>8. CASE ConnectEnds \/ PeerCloses
  <2>1. UNCHANGED <<obj, hRead, m_bTimerNoDataStart>>
    BY <1>8 DEF ConnectEnds, PeerCloses, Kernel
  <2>2. fin' = fin \/ fin' = TRUE
    BY <1>8 DEF ConnectEnds, PeerCloses
  <2>3. fin' \in BOOLEAN
    BY <2>2, Zenon DEF Flags
  <2>4. so' = so \/ so' \in {"up", "refused"}
    BY <1>8 DEF ConnectEnds, PeerCloses
  <2> QED
    BY <2>1, <2>3, <2>4 DEF Flags
<1> QED
  BY <1>1, <1>2, <1>4, <1>5, <1>6, <1>7, <1>8
  DEF Next, vars, Send, OnConnectFailed, OnReadable, TimerNoData, TimerDestroy, PeerSends,
      PeerResets, PeerReads, Kernel

\* A new connection, before its constructor.
LEMMA InitParts == Init => Life /\ TxSide /\ RxSide /\ Flags
<1> SUFFICES ASSUME Init PROVE Life /\ TxSide /\ RxSide /\ Flags
  OBVIOUS
<1>1. WellFormed(reset) /\ reset.bytes = <<>> /\ size(reset) = 0 /\ reset \in Buffers
  BY EmptyIsWellFormed DEF size, WellFormed
<1>2. MaxOutput \in Nat /\ MaxInput \in Nat /\ SndBuf \in Nat
  BY ClientConnAssumption
<1>3. <<>> \o <<>> = <<>> /\ <<>> \in Seq(Byte) /\ <<>> \in Seq(Cell)
  OBVIOUS
<1>4. Life
  BY <1>3 DEF Init, Life, LinkEventsMatch
<1>5. Flags
  BY DEF Init, Flags
<1>6. RxSide
  <2>1. /\ m_Input = reset /\ rx = <<>> /\ peerSent = <<>> /\ consumed = <<>> /\ rxTorn = FALSE
    BY DEF Init
  <2>2. <<>> \o reset.bytes \o <<>> = <<>>
    BY <1>1, <1>3
  <2>3. rxTorn \in BOOLEAN
    BY <2>1, Zenon
  <2>4. WellFormed(m_Input) /\ size(m_Input) <= MaxInput
    BY <1>1, <1>2, <2>1
  <2>5. rx \in Seq(Byte) /\ peerSent \in Seq(Byte) /\ consumed \in Seq(Cell)
    BY <1>3, <2>1
  <2> QED
    BY <2>1, <2>2, <2>3, <2>4, <2>5 DEF RxSide
<1>7. TxSide
  <2>1. tx = NewTx /\ obj = "unborn"
    BY DEF Init
  <2>2. NewTx \in TxType
    BY <1>1, <1>2, <1>3 DEF NewTx, TxType
  <2>3. NewTx.out = reset /\ NewTx.wire = <<>> /\ NewTx.accepted = <<>>
    BY DEF NewTx
  <2>4. NewTx.wire \o NewTx.out.bytes = NewTx.accepted
    BY <1>1, <1>3, <2>3
  <2> QED
    BY <1>1, <1>2, <2>1, <2>2, <2>3, <2>4 DEF TxSide, TxInv, Stream
<1> QED
  BY <1>4, <1>5, <1>6, <1>7

\* The inductive invariant.
ConnInv == Life /\ TxSide /\ RxSide /\ Flags

\* The object's life and the link events, the sending and the receiving side, the
\* events and the timer agree in every state, through every constructor, callback,
\* timer and destructor of ClientConn.cpp.
THEOREM ConnInvariant == Spec => []ConnInv
<1>1. Init => ConnInv
  BY InitParts DEF ConnInv
<1>2. ConnInv /\ [Next]_vars => ConnInv'
  BY LifeStep, TxStep, RxStep, FlagsStep DEF ConnInv
<1> QED
  BY <1>1, <1>2, PTL DEF Spec

-----------------------------------------------------------------------------
\* Every variable keeps its type: m_Input and m_Output stay buffers, the kernel's send
\* buffer never holds more than it can, through all of ClientConn.cpp.
THEOREM TypeCorrect == Spec => []TypeOK
<1>1. ConnInv => TypeOK
  <2> SUFFICES ASSUME ConnInv PROVE TypeOK
    OBVIOUS
  <2>1. links \in Seq({"connected", "close"})
    <3>1. LinkEventsMatch
      BY DEF ConnInv, Life
    <3>2. /\ <<"connected">> \in Seq({"connected", "close"})
          /\ <<"close">> \in Seq({"connected", "close"})
          /\ <<>> \in Seq({"connected", "close"})
      OBVIOUS
    <3>3. /\ (IF m_bConnected THEN <<"connected">> ELSE <<>>) \in Seq({"connected", "close"})
          /\ (IF obj = "freed" THEN <<"close">> ELSE <<>>) \in Seq({"connected", "close"})
      BY <3>2
    <3> QED
      BY <3>1, <3>3, ConcatProperties DEF LinkEventsMatch
  <2>2. m_Input \in Buffers /\ tx \in TxType
    BY DEF ConnInv, RxSide, TxSide, TxInv, WellFormed
  <2> QED
    BY <2>1, <2>2 DEF ConnInv, Life, RxSide, Flags, TypeOK
<1> QED
  BY <1>1, ConnInvariant, PTL

\* __sendBuffer, sendBin and the constructors never leave a live connection that has
\* output waiting, or a connect under way, without its write event (ClientConn.cpp).
THEOREM WritesAreArmed == Spec => []WriteEventArmed
<1>1. ConnInv => WriteEventArmed
  BY DEF ConnInv, TxSide, Armed, WriteEventArmed
<1> QED
  BY <1>1, ConnInvariant, PTL

\* The bytes sent and the bytes that wait are exactly what sendBin accepted, in order,
\* whichever of its two ways each message took (straight to the socket or through
\* m_Output), however the kernel split it; a freed connection has sent a prefix.
THEOREM OutputInOrder == Spec => []StreamIntact
<1>1. ConnInv => StreamIntact
  BY DEF ConnInv, TxSide, Stream, Ended, StreamIntact
<1> QED
  BY <1>1, ConnInvariant, PTL

\* __onRead and onData neither lose nor repeat nor reorder a byte of the peer while
\* the connection lives, however the bytes are cut into recv rounds and handler calls.
THEOREM InputInOrder == Spec => []InputIntact
<1>1. ConnInv => InputIntact
  BY DEF ConnInv, RxSide, InputIntact
<1> QED
  BY <1>1, ConnInvariant, PTL

\* __appendBuffer and the recv loop keep both buffers within MAX_OUTPUT_SIZE and
\* MAX_INPUT_SIZE and inside the memory CBuffer has allocated.
THEOREM BuffersStayBounded == Spec => []BuffersBounded
<1>1. ConnInv => BuffersBounded
  BY DEF ConnInv, TxSide, TxInv, RxSide, WellFormed, BuffersBounded
<1> QED
  BY <1>1, ConnInvariant, PTL

\* onConnected is notified at most once, and onClose exactly once, by the destructor,
\* on whichever of its paths (failed connect, error, time-out, handler's -1).
THEOREM LinkEventsPaired == Spec => []LinkEventsMatch
<1>1. ConnInv => LinkEventsMatch
  BY DEF ConnInv, Life
<1> QED
  BY <1>1, ConnInvariant, PTL

\* Where no link event sends out of its onClose, the destructor leaves no event and no
\* timer of the freed object in the loop.  (Where one does, sendBin starts them again:
\* MCClientConnClose.)
THEOREM DestructorLeavesNothing == ~CloseSends => (Spec => []FreedIsInert)
<1> SUFFICES ASSUME ~CloseSends PROVE Spec => []FreedIsInert
  OBVIOUS
<1>1. ConnInv => FreedIsInert
  BY DEF ConnInv, TxSide, Flags, FreedIsInert
<1> QED
  BY <1>1, ConnInvariant, PTL
=============================================================================
