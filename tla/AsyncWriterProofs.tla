-------------------------- MODULE AsyncWriterProofs -------------------------
(***************************************************************************)
(* CAsyncWriter for every set of threads and every number of packets: the  *)
(* packets of a thread keep their order, and only a thread that ends can   *)
(* make the loop use a deleted CThreadWriter.                              *)
(***************************************************************************)
EXTENDS AsyncWriter, SequenceTheorems, TLAPS

\* A thread inside send() has counted the packet it is about to push.
SendingCounted == \A t \in Threads : pc[t] \in {"register", "push"} => count[t] >= 1

\* Every variable keeps its type: packet numbers are positive, and __flushReal
\* stays within m_vecpThreadWriter although the vector grows.
LEMMA TypeStep ==
    TypeOK /\ SendingCounted /\ [Next]_vars => TypeOK' /\ SendingCounted'
<1> SUFFICES ASSUME TypeOK, SendingCounted, [Next]_vars PROVE TypeOK' /\ SendingCounted'
  OBVIOUS
<1> USE AsyncWriterAssumption DEF TypeOK, SendingCounted
<1>1. ASSUME NEW t \in Threads, Send(t) PROVE TypeOK' /\ SendingCounted'
  <2>1. count' \in [Threads -> 0..MaxPackets] /\ pc' \in [Threads -> {"idle", "register", "push", "write", "set", "gone"}]
    BY <1>1 DEF Send
  <2>2. SendingCounted'
    BY <1>1 DEF Send
  <2> QED
    BY <1>1, <2>1, <2>2 DEF Send
<1>2. ASSUME NEW t \in Threads, getThreadWriter(t) PROVE TypeOK' /\ SendingCounted'
  <2>1. /\ m_vecpThreadWriter' \in Seq(Threads)
        /\ Len(m_vecpThreadWriter') = Len(m_vecpThreadWriter) + 1
    BY <1>2, AppendProperties DEF getThreadWriter
  <2> QED
    BY <1>2, <2>1 DEF getThreadWriter
<1>3. ASSUME NEW t \in Threads, Push(t) PROVE TypeOK' /\ SendingCounted'
  <2>1. count[t] \in Packets
    BY <1>3 DEF Push, Packets
  <2>2. m_vecPacket' \in [Threads -> Seq(Packets)]
    BY <1>3, <2>1, AppendProperties DEF Push
  <2> QED
    BY <1>3, <2>2 DEF Push
<1>4. ASSUME NEW t \in Threads, Flush(t) PROVE TypeOK' /\ SendingCounted'
  BY <1>4 DEF Flush
<1>5. ASSUME NEW t \in Threads, FlushWrite(t) PROVE TypeOK' /\ SendingCounted'
  BY <1>5 DEF FlushWrite
<1>6. ASSUME NEW t \in Threads, FlushSet(t) PROVE TypeOK' /\ SendingCounted'
  BY <1>6 DEF FlushSet
<1>7. ASSUME NEW t \in Threads, Exit(t) PROVE TypeOK' /\ SendingCounted'
  BY <1>7 DEF Exit
<1>8. CASE cbFlush
  <2>1. m_fdFlush' \in BOOLEAN
    BY <1>8, Zenon DEF cbFlush
  <2> QED
    BY <1>8, <2>1 DEF cbFlush
<1>9. CASE onHandlerFlush
  BY <1>9 DEF onHandlerFlush
<1>10. CASE FlushNext
  <2> DEFINE t == m_vecpThreadWriter[loop]
  <2>1. t \in Threads
    BY <1>10 DEF FlushNext
  <2>2. sent[t] \o m_vecPacket[t] \in Seq(Packets)
    BY <2>1, ConcatProperties
  <2>3. /\ sent' \in [Threads -> Seq(Packets)]
        /\ m_vecPacket' \in [Threads -> Seq(Packets)]
        /\ badAccess' \in BOOLEAN
    <3>1. CASE writer[t] = "deleted"
      BY <1>10, <3>1 DEF FlushNext
    <3>2. CASE writer[t] # "deleted"
      <4>1. /\ sent' = [sent EXCEPT ![t] = sent[t] \o m_vecPacket[t]]
            /\ m_vecPacket' = [m_vecPacket EXCEPT ![t] = <<>>]
            /\ badAccess' = badAccess
        BY <1>10, <3>2 DEF FlushNext
      <4>2. <<>> \in Seq(Packets)
        OBVIOUS
      <4> QED
        BY <2>1, <2>2, <4>1, <4>2
    <3> QED
      BY <3>1, <3>2
  <2>4. loop' \in 0..(Len(m_vecpThreadWriter) + 1)
    <3>1. loop \in 1..Len(m_vecpThreadWriter)
      BY <1>10 DEF FlushNext
    <3>2. loop' = loop \/ loop' = loop + 1
      BY <1>10, Zenon DEF FlushNext
    <3>3. Len(m_vecpThreadWriter) \in Nat
      OBVIOUS
    <3> HIDE DEF t
    <3> QED
      BY <3>1, <3>2, <3>3
  <2> QED
    BY <1>10, <2>3, <2>4 DEF FlushNext
<1>11. CASE FlushDone
  <2>1. m_bFlushing' \in BOOLEAN
    BY <1>11, Zenon DEF FlushDone
  <2> QED
    BY <1>11, <2>1 DEF FlushDone
<1>12. CASE UNCHANGED vars
  BY <1>12 DEF vars
<1> QED
  BY <1>1, <1>2, <1>3, <1>4, <1>5, <1>6, <1>7, <1>8, <1>9, <1>10, <1>11, <1>12 DEF Next

LEMMA TypeInit == Init => TypeOK /\ SendingCounted
<1> SUFFICES ASSUME Init PROVE TypeOK /\ SendingCounted
  OBVIOUS
<1>1. m_fdFlush \in BOOLEAN /\ m_bFlushing \in BOOLEAN /\ badAccess \in BOOLEAN
  BY Zenon DEF Init
<1>2. /\ m_vecpThreadWriter \in Seq(Threads) /\ loop \in 0..(Len(m_vecpThreadWriter) + 1)
      /\ \A t \in Threads : m_vecPacket[t] \in Seq(Packets) /\ sent[t] \in Seq(Packets)
  BY DEF Init
<1> QED
  BY <1>1, <1>2, AsyncWriterAssumption DEF Init, TypeOK, SendingCounted

\* TypeOK holds in every reachable state.
THEOREM TypeCorrect == Spec => []TypeOK
  BY TypeInit, TypeStep, PTL DEF Spec

-----------------------------------------------------------------------------
\* FifoPerThread, thread by thread.
InOrder(t) ==
    LET all == sent[t] \o m_vecPacket[t]
    IN  /\ all = [i \in 1..Len(all) |-> i]
        /\ Len(all) = count[t] - (IF pc[t] \in {"register", "push"} THEN 1 ELSE 0)

\* Appending the next number to 1, 2, ..., n gives 1, 2, ..., n + 1.
LEMMA NextInLine ==
    ASSUME NEW s \in Seq(Packets), NEW k \in Packets, Len(s) = k - 1,
           s = [i \in 1..Len(s) |-> i]
    PROVE  /\ Append(s, k) = [i \in 1..Len(Append(s, k)) |-> i]
           /\ Len(Append(s, k)) = k
<1>1. /\ Append(s, k) \in Seq(Packets) /\ Len(Append(s, k)) = Len(s) + 1
      /\ \A i \in 1..Len(s) : Append(s, k)[i] = s[i]
      /\ Append(s, k)[Len(s) + 1] = k
  BY AppendProperties
<1>2. k \in Nat /\ Len(s) \in Nat /\ Len(s) + 1 = k
  BY DEF Packets
<1>3. \A i \in 1..Len(Append(s, k)) : Append(s, k)[i] = i
  BY <1>1, <1>2
<1>4. Append(s, k) = [i \in 1..Len(Append(s, k)) |-> i]
  <2> DEFINE r == Append(s, k)
  <2>1. r \in [1..Len(r) -> Packets]
    BY <1>1, LenProperties
  <2> HIDE DEF r
  <2>2. r = [i \in 1..Len(r) |-> r[i]]
    BY <2>1
  <2>3. \A i \in 1..Len(r) : r[i] = i
    BY <1>3 DEF r
  <2>4. r = [i \in 1..Len(r) |-> i]
    BY <2>2, <2>3
  <2> QED
    BY <2>4 DEF r
<1> QED
  BY <1>1, <1>2, <1>4

\* Every step keeps the order, or is the use of a deleted writer.
LEMMA FifoStep ==
    TypeOK /\ SendingCounted /\ FifoPerThread /\ [Next]_vars => FifoPerThread'
<1> SUFFICES ASSUME TypeOK, SendingCounted, FifoPerThread, [Next]_vars, ~badAccess',
                    NEW t \in Threads
             PROVE  InOrder(t)'
  BY DEF FifoPerThread, InOrder
<1>0. ~badAccess /\ InOrder(t)
  <2>1. ~badAccess
    BY DEF Next, vars, Send, getThreadWriter, Push, Flush, FlushWrite, FlushSet, Exit, cbFlush,
           onHandlerFlush, FlushNext, FlushDone, TypeOK
  <2> QED
    BY <2>1 DEF FifoPerThread, InOrder
<1>1. CASE UNCHANGED <<sent, m_vecPacket, count>> /\ (pc'[t] \in {"register", "push"} <=> pc[t] \in {"register", "push"})
  BY <1>0, <1>1 DEF InOrder
<1>2. ASSUME NEW u \in Threads, Send(u) PROVE InOrder(t)'
  <2>1. CASE u # t
    BY <1>0, <1>2, <2>1 DEF Send, InOrder, TypeOK
  <2>2. CASE u = t
    <3>1. /\ pc[t] = "idle" /\ pc'[t] \in {"register", "push"} /\ count'[t] = count[t] + 1
          /\ sent'[t] = sent[t] /\ m_vecPacket'[t] = m_vecPacket[t] /\ count[t] \in Nat
      BY <1>2, <2>2, AsyncWriterAssumption DEF Send, TypeOK
    <3>2. Len(sent[t] \o m_vecPacket[t]) = count[t] - 0
      BY <1>0, <3>1 DEF InOrder
    <3>3. /\ sent'[t] \o m_vecPacket'[t] = sent[t] \o m_vecPacket[t]
          /\ Len(sent[t] \o m_vecPacket[t]) = count'[t] - 1
      BY <3>1, <3>2
    <3> QED
      BY <1>0, <3>1, <3>3, Zenon DEF InOrder
  <2> QED
    BY <2>1, <2>2
<1>3. ASSUME NEW u \in Threads, getThreadWriter(u) PROVE InOrder(t)'
  BY <1>1, <1>3 DEF getThreadWriter, TypeOK
<1>4. ASSUME NEW u \in Threads, Push(u) PROVE InOrder(t)'
  <2>1. CASE u # t
    BY <1>0, <1>4, <2>1 DEF Push, InOrder, TypeOK
  <2>2. CASE u = t
    <3> DEFINE all == sent[t] \o m_vecPacket[t]
    <3>1. /\ pc[t] = "push" /\ count[t] \in Packets /\ sent[t] \in Seq(Packets)
          /\ m_vecPacket[t] \in Seq(Packets) /\ all \in Seq(Packets)
      BY <1>4, <2>2, AsyncWriterAssumption, ConcatProperties DEF Push, TypeOK, SendingCounted, Packets
    <3>2. /\ m_vecPacket'[t] = Append(m_vecPacket[t], count[t]) /\ sent'[t] = sent[t]
          /\ pc'[t] = "idle" /\ count'[t] = count[t]
      BY <1>4, <2>2 DEF Push, TypeOK
    <3>3. sent'[t] \o m_vecPacket'[t] = Append(all, count[t])
      <4>1. Append(m_vecPacket[t], count[t]) = m_vecPacket[t] \o <<count[t]>>
        BY <3>1, AppendIsConcat
      <4>2. Append(all, count[t]) = all \o <<count[t]>>
        BY <3>1, AppendIsConcat
      <4>3. <<count[t]>> \in Seq(Packets)
        BY <3>1
      <4>4. (sent[t] \o m_vecPacket[t]) \o <<count[t]>> = sent[t] \o (m_vecPacket[t] \o <<count[t]>>)
        <5>1. \A a, b, c \in Seq(Packets) : (a \o b) \o c = a \o (b \o c)
          BY ConcatAssociative
        <5>2. sent[t] \in Seq(Packets) /\ m_vecPacket[t] \in Seq(Packets)
          BY <3>1
        <5> QED
          BY <4>3, <5>1, <5>2, Zenon
      <4> QED
        BY <3>2, <4>1, <4>2, <4>4
    <3>4. all = [i \in 1..Len(all) |-> i] /\ Len(all) = count[t] - 1
      BY <1>0, <3>1 DEF InOrder
    <3>5. /\ Append(all, count[t]) = [i \in 1..Len(Append(all, count[t])) |-> i]
          /\ Len(Append(all, count[t])) = count[t]
      BY <3>1, <3>4, NextInLine
    <3> HIDE DEF all
    <3>6. count[t] - 0 = count[t]
      BY <3>1 DEF Packets
    <3> QED
      BY <3>2, <3>3, <3>5, <3>6 DEF InOrder
  <2> QED
    BY <2>1, <2>2
<1>5. ASSUME NEW u \in Threads, Flush(u) \/ FlushWrite(u) \/ FlushSet(u) \/ Exit(u) PROVE InOrder(t)'
  BY <1>1, <1>5 DEF Flush, FlushWrite, FlushSet, Exit, TypeOK
<1>6. CASE cbFlush \/ onHandlerFlush \/ FlushDone
  BY <1>1, <1>6 DEF cbFlush, onHandlerFlush, FlushDone
<1>7. CASE FlushNext
  <2> DEFINE u == m_vecpThreadWriter[loop]
  <2>1. /\ u \in Threads /\ UNCHANGED <<count, pc>>
        /\ sent' = [sent EXCEPT ![u] = @ \o m_vecPacket[u]]
        /\ m_vecPacket' = [m_vecPacket EXCEPT ![u] = <<>>]
    <3>1. u \in Threads
      BY <1>7 DEF FlushNext, TypeOK
    <3>2. writer[u] # "deleted"
      BY <1>7, Zenon DEF FlushNext
    <3> QED
      BY <1>7, <3>1, <3>2 DEF FlushNext
  <2>2. sent'[t] \o m_vecPacket'[t] = sent[t] \o m_vecPacket[t]
    <3>1. CASE t = u
      <4>1. sent'[t] = sent[t] \o m_vecPacket[t] /\ m_vecPacket'[t] = <<>>
        BY <2>1, <3>1 DEF TypeOK
      <4>2. sent[t] \o m_vecPacket[t] \in Seq(Packets)
        BY ConcatProperties DEF TypeOK
      <4> QED
        BY <4>1, <4>2, ConcatEmptySeq
    <3>2. CASE t # u
      BY <2>1, <3>2 DEF TypeOK
    <3> QED
      BY <3>1, <3>2
  <2> QED
    BY <1>0, <2>1, <2>2 DEF InOrder
<1>8. CASE UNCHANGED vars
  BY <1>1, <1>8 DEF vars
<1> QED
  BY <1>2, <1>3, <1>4, <1>5, <1>6, <1>7, <1>8 DEF Next

\* What reaches CWriter::send from a thread, followed by what waits in its
\* CThreadWriter, is the thread's packets in order, each once, whichever way sends,
\* flushes and passes of the loop interleave.
THEOREM PacketsInOrder == Spec => []FifoPerThread
<1>1. Init => FifoPerThread
  <2> SUFFICES ASSUME Init, NEW t \in Threads PROVE InOrder(t)
    BY DEF FifoPerThread, InOrder
  <2>1. sent[t] \o m_vecPacket[t] = <<>> /\ count[t] = 0 /\ pc[t] = "idle"
    BY DEF Init
  <2>2. Len(<<>>) = 0 /\ <<>> = [i \in 1..0 |-> i] /\ 0 = 0 - 0
    OBVIOUS
  <2>3. pc[t] \notin {"register", "push"}
    BY <2>1
  <2> QED
    BY <2>1, <2>2, <2>3, Zenon DEF InOrder
<1> QED
  BY <1>1, TypeInit, TypeStep, FifoStep, PTL DEF Spec

-----------------------------------------------------------------------------
\* Without threads that end there is no deleted writer in m_vecpThreadWriter: the
\* end of a thread is the only way to the use of a deleted CThreadWriter.
THEOREM OnlyExitDeletes == ~MayExit => (Spec => []NoDeletedWriterUsed)
<1> SUFFICES ASSUME ~MayExit PROVE Spec => []NoDeletedWriterUsed
  OBVIOUS
<1> DEFINE Inv == ~badAccess /\ \A t \in Threads : writer[t] # "deleted"
<1>1. Init => Inv
  BY DEF Init
<1>2. TypeOK /\ Inv /\ [Next]_vars => Inv'
  BY DEF TypeOK, Next, vars, Send, getThreadWriter, Push, Flush, FlushWrite, FlushSet, Exit, cbFlush,
         onHandlerFlush, FlushNext, FlushDone
<1>3. Inv => NoDeletedWriterUsed
  BY DEF NoDeletedWriterUsed
<1> QED
  BY <1>1, <1>2, <1>3, TypeCorrect, PTL DEF Spec
=============================================================================
