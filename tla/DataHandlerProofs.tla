------------------------- MODULE DataHandlerProofs --------------------------
(***************************************************************************)
(* The framing of CDataHandler for every header size, packet limit, input  *)
(* limit and set of length fields, and for every way the stream is cut.    *)
(***************************************************************************)
EXTENDS DataHandler, TLAPS

\* The bytes a packet with length field L takes on the wire.
Size(L) == IF L < HEADER_SIZE THEN HEADER_SIZE ELSE L

\* Where packet n begins, or will begin.
Start(n) == IF n <= Len(stream) THEN stream[n].at ELSE total

\* The packets follow each other without a gap.
Contiguous ==
    /\ \A n \in 1..Len(stream) : Start(n + 1) = stream[n].at + Size(stream[n].len)
    /\ \A n \in 1..Len(stream) : stream[n].at + Size(stream[n].len) <= total
    /\ \A m, n \in 1..Len(stream) : m < n => stream[m].at + Size(stream[m].len) <= stream[n].at

\* The loop of onData is always at the start of the packet after the last one it
\* dispatched: without this the length it reads could be a part of a body.
InStep ==
    /\ Len(dispatched) <= Len(stream)
    /\ head = Start(Len(dispatched) + 1)

-----------------------------------------------------------------------------
\* A counter modulo ProcMod stays below it.
LEMMA ProcWraps ==
    ASSUME NEW n \in Nat PROVE (n + 1) % ProcMod \in 0..(ProcMod - 1)
  BY DataHandlerAssumption

\* Every variable keeps its type; in particular onData never processes bytes that
\* have not been received (head <= recvd).
THEOREM TypeCorrect == Spec => []TypeOK
<1>1. Init => TypeOK
  BY DataHandlerAssumption DEF Init, TypeOK
<1>2. TypeOK /\ [Next]_vars => TypeOK'
  <2> SUFFICES ASSUME TypeOK, [Next]_vars PROVE TypeOK'
    OBVIOUS
  <2> USE DataHandlerAssumption DEF TypeOK, Packet
  <2>1. ASSUME NEW L \in Lengths, NEW c \in Cmds, PeerSends(L, c) PROVE TypeOK'
    BY <2>1 DEF PeerSends
  <2>2. ASSUME NEW k \in 1..(total - recvd), onRead(k) PROVE TypeOK'
    BY <2>2 DEF onRead
  <2>3. CASE Break
    BY <2>3 DEF Break
  <2>4. CASE Reject
    BY <2>4 DEF Reject
  <2>5. ASSUME NEW L \in Lengths, NEW c \in Cmds, makeRequest(L, c) PROVE TypeOK'
    <3>1. m_uProc' \in 0..(ProcMod - 1)
      BY <2>5, ProcWraps DEF makeRequest
    <3>2. head' \in 0..recvd' /\ m_uBytes64' \in Nat
      BY <2>5 DEF makeRequest, Complete, Legal, uSize
    <3>3. dispatched' \in Seq([at : Nat, len : Nat, cmd : Cmds, entry : BOOLEAN])
      BY <2>5 DEF makeRequest, RequestDispatch
    <3> QED
      BY <2>5, <3>1, <3>2, <3>3 DEF makeRequest
  <2>6. ASSUME NEW c \in Cmds, addEntry(c) PROVE TypeOK'
    BY <2>6 DEF addEntry
  <2>7. CASE onHandlerPrint
    BY <2>7 DEF onHandlerPrint
  <2>8. CASE UNCHANGED vars
    BY <2>8 DEF vars
  <2> QED
    BY <2>1, <2>2, <2>3, <2>4, <2>5, <2>6, <2>7, <2>8 DEF Next, Step
<1> QED
  BY <1>1, <1>2, PTL DEF Spec

\* What the type invariant says of the numbers: the steps below use this and not
\* the type invariant, whose record sets only slow the provers down.
Numbers ==
    /\ HEADER_SIZE \in Nat \ {0} /\ total \in Nat /\ recvd \in 0..total /\ head \in 0..recvd
    /\ Len(stream) \in Nat /\ DOMAIN stream = 1..Len(stream)
    /\ Len(dispatched) \in Nat /\ DOMAIN dispatched = 1..Len(dispatched)
    /\ \A n \in 1..Len(stream) :
           stream[n].at \in Nat /\ stream[n].len \in Lengths /\ stream[n].len \in Nat
    /\ \A L \in Nat : Size(L) \in Nat /\ Size(L) >= HEADER_SIZE
    /\ \A L \in Nat : L >= HEADER_SIZE => Size(L) = L

\* They follow from the type invariant.
LEMMA NumbersHold == ASSUME TypeOK PROVE Numbers
<1>1. \A n \in 1..Len(stream) : stream[n] \in Packet
  BY DEF TypeOK
<1>2. \A n \in 1..Len(stream) : stream[n].at \in Nat /\ stream[n].len \in Lengths
  BY <1>1 DEF Packet
<1>3. \A L \in Nat : Size(L) \in Nat /\ Size(L) >= HEADER_SIZE
  BY DataHandlerAssumption DEF Size
<1>4. \A L \in Nat : L >= HEADER_SIZE => Size(L) = L
  BY DataHandlerAssumption DEF Size
<1>5. /\ Len(stream) \in Nat /\ DOMAIN stream = 1..Len(stream)
      /\ Len(dispatched) \in Nat /\ DOMAIN dispatched = 1..Len(dispatched)
  BY DEF TypeOK
<1> QED
  BY <1>2, <1>3, <1>4, <1>5, DataHandlerAssumption DEF TypeOK, Numbers

\* An append leaves the packets before it alone.
LEMMA Appended ==
    ASSUME TypeOK, NEW L \in Lengths, NEW c \in Cmds, PeerSends(L, c)
    PROVE  /\ Len(stream') = Len(stream) + 1 /\ DOMAIN stream' = 1..(Len(stream) + 1)
           /\ \A n \in 1..Len(stream) : stream'[n] = stream[n]
           /\ stream'[Len(stream) + 1] = [at |-> total, len |-> L, cmd |-> c]
           /\ total' = total + Size(L)
           /\ UNCHANGED <<recvd, head, pc, m_uPacketLimit, m_mapEntry, dispatched>>
  BY DEF TypeOK, Packet, PeerSends, Size

\* Only the peer changes the packets, and it appends.
LEMMA ContiguousStep == TypeOK /\ Contiguous /\ [Next]_vars => Contiguous'
<1> SUFFICES ASSUME TypeOK, Contiguous, [Next]_vars PROVE Contiguous'
  OBVIOUS
<1>0. Numbers
  BY NumbersHold
<1>1. ASSUME NEW L \in Lengths, NEW c \in Cmds, PeerSends(L, c) PROVE Contiguous'
  <2> DEFINE len == Len(stream)
             old(n) == stream[n].at + Size(stream[n].len)
  <2>1. /\ Len(stream') = len + 1
        /\ \A n \in 1..len : stream'[n] = stream[n]
        /\ stream'[len + 1] = [at |-> total, len |-> L, cmd |-> c]
        /\ total' = total + Size(L)
    BY <1>1, Appended
  <2>2. stream'[len + 1].at = total /\ stream'[len + 1].len = L
    BY <2>1
  <2>3. /\ total \in Nat /\ Size(L) \in Nat /\ len \in Nat
        /\ \A n \in 1..len : old(n) \in Nat
    <3>1. L \in Nat
      BY DataHandlerAssumption
    <3>2. ASSUME NEW n \in 1..len PROVE old(n) \in Nat
      <4>1. stream[n].at \in Nat /\ stream[n].len \in Nat
        BY <1>0 DEF Numbers
      <4>2. Size(stream[n].len) \in Nat
        BY <1>0, <4>1 DEF Numbers
      <4> QED
        BY ONLY <4>1, <4>2
    <3> QED
      BY <1>0, <3>1, <3>2 DEF Numbers
  <2>4. /\ \A n \in 1..len : Start(n + 1) = old(n)
        /\ \A n \in 1..len : old(n) <= total
        /\ \A m, n \in 1..len : m < n => old(m) <= stream[n].at
    BY DEF Contiguous
  <2>5. \A n \in 1..len : stream'[n].at + Size(stream'[n].len) = old(n)
    BY <2>1
  <2>6. \A n \in 1..(len + 1) : n = len + 1 \/ n \in 1..len
    BY <2>3
  <2> HIDE DEF old, len
  <2>7. \A n \in 1..(len + 1) : Start(n + 1)' = stream'[n].at + Size(stream'[n].len)
    <3> SUFFICES ASSUME NEW n \in 1..(len + 1)
                 PROVE  Start(n + 1)' = stream'[n].at + Size(stream'[n].len)
      OBVIOUS
    <3>0. Start(n + 1)' = IF n + 1 <= len + 1 THEN stream'[n + 1].at ELSE total'
      BY <2>1 DEF Start
    <3>1. CASE n = len + 1
      BY <3>0, <3>1, <2>1, <2>2, <2>3
    <3>2. CASE n = len
      <4>1. Start(n + 1) = total
        BY <3>2, <2>3 DEF Start, len
      <4> QED
        BY <4>1, <3>0, <3>2, <2>2, <2>3, <2>4, <2>5
    <3>3. CASE n < len
      <4>1. n \in 1..len /\ n + 1 \in 1..len
        BY <3>3, <2>3
      <4>2. Start(n + 1) = stream[n + 1].at
        BY <4>1 DEF Start, len
      <4>3. stream'[n + 1] = stream[n + 1]
        BY <4>1, <2>1
      <4> QED
        BY <4>1, <4>2, <4>3, <3>0, <2>3, <2>4, <2>5
    <3> QED
      BY <3>1, <3>2, <3>3, <2>3
  <2>8. \A n \in 1..(len + 1) : stream'[n].at + Size(stream'[n].len) <= total'
    <3> SUFFICES ASSUME NEW n \in 1..(len + 1)
                 PROVE  stream'[n].at + Size(stream'[n].len) <= total'
      OBVIOUS
    <3>1. CASE n = len + 1
      BY <3>1, <2>1, <2>2, <2>3
    <3>2. CASE n \in 1..len
      <4>1. stream'[n].at + Size(stream'[n].len) = old(n) /\ old(n) <= total /\ old(n) \in Nat
        BY <3>2, <2>3, <2>4, <2>5
      <4> QED
        BY <4>1, <2>1, <2>3
    <3> QED
      BY <3>1, <3>2, <2>6
  <2>9. \A m, n \in 1..(len + 1) :
            m < n => stream'[m].at + Size(stream'[m].len) <= stream'[n].at
    <3> SUFFICES ASSUME NEW m \in 1..(len + 1), NEW n \in 1..(len + 1), m < n
                 PROVE  stream'[m].at + Size(stream'[m].len) <= stream'[n].at
      OBVIOUS
    <3>1. m \in 1..len /\ stream'[m].at + Size(stream'[m].len) = old(m)
      BY <2>3, <2>5
    <3>2. CASE n = len + 1
      BY <3>1, <3>2, <2>2, <2>4
    <3>3. CASE n \in 1..len
      <4>1. stream'[n] = stream[n] /\ old(m) <= stream[n].at
        BY <3>1, <3>3, <2>1, <2>4
      <4> QED
        BY <3>1, <4>1
    <3> QED
      BY <3>2, <3>3, <2>6
  <2> QED
    BY <2>1, <2>7, <2>8, <2>9 DEF Contiguous
<1>2. CASE UNCHANGED <<stream, total>>
  BY <1>2 DEF Contiguous, Start
<1> QED
  BY <1>1, <1>2 DEF Next, Step, onRead, Break, Reject, makeRequest, addEntry, onHandlerPrint, vars

\* A later packet begins behind the end of an earlier one.
LEMMA Later ==
    ASSUME TypeOK, Contiguous, NEW m \in 1..Len(stream), NEW n \in 1..Len(stream), m < n
    PROVE  /\ stream[n].at > stream[m].at
           /\ stream[n].at >= stream[m].at + stream[m].len
<1>1. stream[m].at + Size(stream[m].len) <= stream[n].at
  BY DEF Contiguous
<1>2. stream[m].at \in Nat /\ stream[n].at \in Nat /\ stream[m].len \in Nat
  BY NumbersHold DEF Numbers
<1>3. /\ Size(stream[m].len) \in Nat
      /\ Size(stream[m].len) > 0 /\ Size(stream[m].len) >= stream[m].len
  BY <1>2, DataHandlerAssumption DEF Size
<1> QED
  BY <1>1, <1>2, <1>3

\* While a header is in m_Input, it is that of the next packet: the length and the
\* command onData reads are those of that packet.
LEMMA AtNextPacket ==
    ASSUME TypeOK, Contiguous, InStep, uSize >= HEADER_SIZE
    PROVE  LET n == Len(dispatched) + 1
           IN  /\ n \in DOMAIN stream
               /\ stream[n].at = head
               /\ \A L \in Lengths : peekLen(head, L) => L = stream[n].len
               /\ \A c \in Cmds : peekCmd(head, c) => c = stream[n].cmd
<1> DEFINE n == Len(dispatched) + 1
<1>0. Numbers
  BY NumbersHold
<1> USE <1>0 DEF Numbers
<1>1. head < total
  BY DEF uSize
<1>2. n \in DOMAIN stream /\ stream[n].at = head
  BY <1>1 DEF InStep, Start
<1> QED
  BY <1>2 DEF peekLen, peekCmd

\* The loop goes from one packet to the next.
LEMMA InStepStep == TypeOK /\ Contiguous /\ InStep /\ [Next]_vars => InStep'
<1> SUFFICES ASSUME TypeOK, Contiguous, InStep, [Next]_vars PROVE InStep'
  OBVIOUS
<1>0. Numbers
  BY NumbersHold
<1> USE <1>0 DEF Numbers
<1>1. ASSUME NEW L \in Lengths, NEW c \in Cmds, PeerSends(L, c) PROVE InStep'
  BY <1>1 DEF PeerSends, InStep, Start
<1>2. ASSUME NEW L \in Lengths, NEW c \in Cmds, makeRequest(L, c) PROVE InStep'
  <2> DEFINE n == Len(dispatched) + 1
  <2>1. /\ n \in DOMAIN stream /\ stream[n].at = head /\ L = stream[n].len
        /\ L >= HEADER_SIZE
    BY <1>2, AtNextPacket DEF makeRequest, Legal
  <2>2. Start(n + 1) = head + L
    BY <2>1 DEF Contiguous
  <2>3. Len(dispatched') = n /\ head' = head + L /\ stream' = stream /\ total' = total
    BY <1>2 DEF makeRequest, RequestDispatch
  <2> QED
    BY <2>1, <2>2, <2>3 DEF InStep, Start
<1>3. CASE UNCHANGED <<stream, total, head, dispatched>>
  BY <1>3 DEF InStep, Start
<1> QED
  BY <1>1, <1>2, <1>3 DEF Next, Step, onRead, Break, Reject, addEntry, onHandlerPrint, vars

\* Both hold in every state.
LEMMA Framing == Spec => [](TypeOK /\ Contiguous /\ InStep)
<1>1. Init => Contiguous /\ InStep
  BY DEF Init, Contiguous, InStep, Start
<1> QED
  BY <1>1, TypeCorrect, ContiguousStep, InStepStep, PTL DEF Spec

-----------------------------------------------------------------------------
\* The requests dispatched are the packets of the peer, in order, once each.
THEOREM Requests == Spec => []RequestsAreThePackets
<1>1. Init => RequestsAreThePackets
  BY DEF Init, RequestsAreThePackets
<1>2. TypeOK /\ Contiguous /\ InStep /\ RequestsAreThePackets /\ [Next]_vars
          => RequestsAreThePackets'
  <2> SUFFICES ASSUME TypeOK, Contiguous, InStep, RequestsAreThePackets, [Next]_vars
               PROVE  RequestsAreThePackets'
    OBVIOUS
  <2>0. Numbers
    BY NumbersHold
  <2> USE <2>0 DEF Numbers
  <2>1. ASSUME NEW L \in Lengths, NEW c \in Cmds, PeerSends(L, c) PROVE RequestsAreThePackets'
    BY <2>1 DEF PeerSends, RequestsAreThePackets
  <2>2. ASSUME NEW L \in Lengths, NEW c \in Cmds, makeRequest(L, c)
        PROVE  RequestsAreThePackets'
    <3> DEFINE n == Len(dispatched) + 1
    <3>1. /\ n \in DOMAIN stream /\ stream[n].at = head
          /\ L = stream[n].len /\ c = stream[n].cmd
      BY <2>2, AtNextPacket DEF makeRequest
    <3>2. /\ DOMAIN dispatched' = 1..n
          /\ \A i \in DOMAIN dispatched : dispatched'[i] = dispatched[i]
          /\ dispatched'[n] = [at |-> head, len |-> L, cmd |-> c, entry |-> c \in m_mapEntry]
      BY <2>2 DEF makeRequest, RequestDispatch
    <3>3. stream' = stream /\ m_mapEntry' = m_mapEntry
      BY <2>2 DEF makeRequest
    <3> SUFFICES ASSUME NEW i \in 1..n
                 PROVE  /\ i \in DOMAIN stream
                        /\ dispatched'[i].at = stream[i].at
                        /\ dispatched'[i].len = stream[i].len
                        /\ dispatched'[i].cmd = stream[i].cmd
                        /\ dispatched'[i].entry => stream[i].cmd \in m_mapEntry
      BY <3>2, <3>3 DEF RequestsAreThePackets
    <3>4. CASE i = n
      <4> DEFINE r == [at |-> head, len |-> L, cmd |-> c, entry |-> c \in m_mapEntry]
      <4>1. /\ r.at = head /\ r.len = L /\ r.cmd = c
            /\ r.entry => c \in m_mapEntry
        BY Zenon
      <4>2. dispatched'[i] = r
        BY <3>2, <3>4
      <4> HIDE DEF r
      <4> QED
        BY ONLY <4>1, <4>2, <3>1, <3>4
    <3>5. CASE i \in DOMAIN dispatched
      BY <3>2, <3>5 DEF RequestsAreThePackets
    <3> QED
      BY <3>4, <3>5
  <2>3. ASSUME NEW c \in Cmds, addEntry(c) PROVE RequestsAreThePackets'
    BY <2>3 DEF addEntry, RequestsAreThePackets
  <2>4. CASE UNCHANGED <<stream, dispatched, m_mapEntry>>
    BY <2>4 DEF RequestsAreThePackets
  <2> QED
    BY <2>1, <2>2, <2>3, <2>4 DEF Next, Step, onRead, Break, Reject, onHandlerPrint, vars
<1> QED
  BY <1>1, <1>2, Framing, PTL DEF Spec

\* No packet that has arrived waits for the next read.
THEOREM NoWaiting == Spec => []NoPacketWaits
<1>1. Init => NoPacketWaits
  BY DEF Init, NoPacketWaits
<1>2. TypeOK /\ Contiguous /\ InStep /\ NoPacketWaits /\ [Next]_vars => NoPacketWaits'
  <2> SUFFICES ASSUME TypeOK, Contiguous, InStep, NoPacketWaits, [Next]_vars
               PROVE  NoPacketWaits'
    OBVIOUS
  <2>0. Numbers
    BY NumbersHold
  <2> USE <2>0 DEF Numbers
  <2>1. ASSUME NEW L \in Lengths, NEW c \in Cmds, PeerSends(L, c) PROVE NoPacketWaits'
    <3>1. /\ DOMAIN stream' = 1..(Len(stream) + 1)
          /\ \A n \in 1..Len(stream) : stream'[n] = stream[n]
          /\ stream'[Len(stream) + 1] = [at |-> total, len |-> L, cmd |-> c]
          /\ UNCHANGED <<recvd, pc, m_uPacketLimit, dispatched>>
      BY ONLY TypeOK, <2>1, Appended
    <3>2. stream'[Len(stream) + 1].at + HEADER_SIZE > recvd
      BY <3>1
    <3>3. \A n \in DOMAIN stream' : n = Len(stream) + 1 \/ n \in DOMAIN stream
      BY <3>1
    <3>4. \A n \in DOMAIN stream' :
              stream'[n].at + HEADER_SIZE <= recvd => n \in DOMAIN stream /\ stream'[n] = stream[n]
      <4> SUFFICES ASSUME NEW n \in DOMAIN stream', stream'[n].at + HEADER_SIZE <= recvd
                   PROVE  n \in DOMAIN stream /\ stream'[n] = stream[n]
        OBVIOUS
      <4>1. total \in Nat /\ recvd \in Nat /\ HEADER_SIZE \in Nat /\ recvd <= total
        OBVIOUS
      <4>2. stream'[Len(stream) + 1].at = total
        BY ONLY <3>1
      <4>3. n # Len(stream) + 1
        BY ONLY <4>1, <4>2, <3>2, stream'[n].at + HEADER_SIZE <= recvd
      <4>4. n \in 1..Len(stream)
        BY <3>3, <4>3
      <4> QED
        BY <3>1, <4>4
    <3> QED
      BY ONLY <3>1, <3>4, NoPacketWaits DEF NoPacketWaits
  <2>2. CASE Break
    <3> DEFINE f == Len(dispatched) + 1
    <3>0. UNCHANGED <<stream, recvd, dispatched, m_uPacketLimit>>
      BY <2>2 DEF Break
    <3>1. CASE uSize < HEADER_SIZE
      <4>1. ASSUME NEW n \in 1..Len(stream), n > Len(dispatched) PROVE stream[n].at >= head
        <5>1. f \in 1..Len(stream) /\ head = stream[f].at
          BY <4>1 DEF InStep, Start
        <5>2. CASE n = f
          BY <5>1, <5>2
        <5>3. CASE n > f
          <6>1. stream[n].at > stream[f].at
            BY ONLY TypeOK, Contiguous, <5>1, <5>3, Later, n \in 1..Len(stream)
          <6>2. stream[n].at \in Nat /\ head \in Nat
            OBVIOUS
          <6> QED
            BY ONLY <6>1, <6>2, <5>1
        <5> QED
          BY <4>1, <5>2, <5>3
      <4>2. \A n \in 1..Len(stream) : n > Len(dispatched) => stream[n].at + HEADER_SIZE > recvd
        BY <3>1, <4>1 DEF uSize
      <4> QED
        BY <3>0, <4>2 DEF NoPacketWaits
    <3>2. CASE uSize >= HEADER_SIZE
      <4>1. PICK L \in Lengths : peekLen(head, L) /\ Legal(L) /\ ~Complete(L)
        BY <2>2, <3>2 DEF Break, uSize
      <4>2. /\ f \in DOMAIN stream /\ stream[f].at = head /\ L = stream[f].len
            /\ L >= HEADER_SIZE /\ head + L > recvd
            /\ m_uPacketLimit # 0 => L <= m_uPacketLimit
        BY <3>2, <4>1, AtNextPacket DEF Legal, Complete, uSize
      <4>3. ASSUME NEW n \in 1..Len(stream), n > f PROVE stream[n].at > recvd
        <5>1. stream[n].at >= stream[f].at + stream[f].len
          BY <4>2, <4>3, Later
        <5>2. stream[n].at \in Nat /\ recvd \in Nat /\ head \in Nat /\ L \in Nat
          BY DataHandlerAssumption
        <5> QED
          BY ONLY <5>1, <5>2, <4>2
      <4>4. \A n \in 1..Len(stream) :
                n > Len(dispatched) /\ stream[n].at + HEADER_SIZE <= recvd => n = f
        <5> SUFFICES ASSUME NEW n \in 1..Len(stream), n > Len(dispatched),
                            stream[n].at + HEADER_SIZE <= recvd
                     PROVE  n = f
          OBVIOUS
        <5>1. stream[n].at \in Nat /\ recvd \in Nat /\ HEADER_SIZE \in Nat
          OBVIOUS
        <5>2. ~(n > f)
          <6> SUFFICES ASSUME n > f PROVE FALSE
            OBVIOUS
          <6>1. stream[n].at > recvd
            BY <4>3
          <6> QED
            BY ONLY <6>1, <5>1, stream[n].at + HEADER_SIZE <= recvd
        <5>3. n \in Nat /\ Len(dispatched) \in Nat
          OBVIOUS
        <5> QED
          BY ONLY <5>2, <5>3, n > Len(dispatched)
      <4>5. /\ stream[f].len >= HEADER_SIZE
            /\ m_uPacketLimit # 0 => stream[f].len <= m_uPacketLimit
            /\ stream[f].at + stream[f].len > recvd
        BY ONLY <4>2
      <4>6. DOMAIN stream = 1..Len(stream)
        OBVIOUS
      <4> QED
        BY ONLY <3>0, <4>4, <4>5, <4>6 DEF NoPacketWaits
    <3> QED
      BY <3>1, <3>2 DEF uSize
  <2>3. CASE pc' # "idle"
    BY <2>3 DEF NoPacketWaits
  <2>4. CASE UNCHANGED <<stream, recvd, pc, dispatched, m_uPacketLimit>>
    BY <2>4 DEF NoPacketWaits
  <2> QED
    BY <2>1, <2>2, <2>3, <2>4
       DEF Next, Step, onRead, Reject, makeRequest, addEntry, onHandlerPrint, vars
<1> QED
  BY <1>1, <1>2, Framing, PTL DEF Spec

\* A connection is closed only for a length out of range or for too much input.
THEOREM Closed == Spec => []ClosedForAReason
<1>1. Init => ClosedForAReason
  BY DEF Init, ClosedForAReason
<1>2. TypeOK /\ Contiguous /\ InStep /\ ClosedForAReason /\ [Next]_vars => ClosedForAReason'
  <2> SUFFICES ASSUME TypeOK, Contiguous, InStep, ClosedForAReason, [Next]_vars
               PROVE  ClosedForAReason'
    OBVIOUS
  <2>0. Numbers
    BY NumbersHold
  <2> USE <2>0 DEF Numbers
  <2>1. ASSUME NEW L \in Lengths, NEW c \in Cmds, PeerSends(L, c) PROVE ClosedForAReason'
    BY <2>1 DEF PeerSends, ClosedForAReason
  <2>2. ASSUME NEW k \in 1..(total - recvd), onRead(k) PROVE ClosedForAReason'
    BY <2>2 DEF onRead, ClosedForAReason, uSize
  <2>3. CASE Reject
    <3>1. PICK L \in Lengths : peekLen(head, L) /\ ~Legal(L)
      BY <2>3 DEF Reject
    <3>2. LET n == Len(dispatched) + 1
          IN  n \in DOMAIN stream /\ stream[n].at = head /\ L = stream[n].len
      BY <2>3, <3>1, AtNextPacket DEF Reject
    <3>3. L < HEADER_SIZE \/ (m_uPacketLimit # 0 /\ L > m_uPacketLimit)
      <4>1. L \in Nat /\ m_uPacketLimit \in Nat /\ HEADER_SIZE \in Nat
        BY DataHandlerAssumption DEF TypeOK
      <4> QED
        BY <3>1, <4>1 DEF Legal
    <3>4. UNCHANGED <<stream, head, dispatched, m_uPacketLimit>>
      BY <2>3 DEF Reject
    <3> QED
      BY ONLY <3>2, <3>3, <3>4 DEF ClosedForAReason
  <2>4. CASE pc' # "closed"
    BY <2>4 DEF ClosedForAReason
  <2>5. CASE UNCHANGED <<stream, recvd, head, pc, dispatched, m_uPacketLimit>>
    BY <2>5 DEF ClosedForAReason
  <2> QED
    BY <2>1, <2>2, <2>3, <2>4, <2>5
       DEF Next, Step, Break, makeRequest, addEntry, onHandlerPrint, vars
<1> QED
  BY <1>1, <1>2, Framing, PTL DEF Spec

-----------------------------------------------------------------------------
\* A difference of at least one multiple is at least the divisor.
LEMMA Multiple ==
    ASSUME NEW M \in Nat, NEW q \in Int, q >= 1
    PROVE  M * q >= M
  OBVIOUS

\* Quotient and remainder are unique.
LEMMA Remainder ==
    ASSUME NEW M \in Nat \ {0}, NEW a \in Int, NEW q \in Int, NEW r \in 0..(M - 1), a = M * q + r
    PROVE  a % M = r
<1> DEFINE p == a \div M
           s == a % M
<1>1. p \in Int /\ s \in 0..(M - 1) /\ a = M * p + s
  OBVIOUS
<1> HIDE DEF p, s
<1>2. M * (q - p) = s - r /\ M * (p - q) = r - s
  BY <1>1
<1>3. ~(q - p >= 1)
  <2> SUFFICES ASSUME q - p >= 1 PROVE FALSE
    OBVIOUS
  <2>1. M * (q - p) >= M
    BY <1>1, Multiple
  <2> QED
    BY <1>1, <1>2, <2>1
<1>4. ~(p - q >= 1)
  <2> SUFFICES ASSUME p - q >= 1 PROVE FALSE
    OBVIOUS
  <2>1. M * (p - q) >= M
    BY <1>1, Multiple
  <2> QED
    BY <1>1, <1>2, <2>1
<1>5. p = q
  BY <1>1, <1>3, <1>4
<1> QED
  BY <1>1, <1>5 DEF s

\* Quotient and remainder exist, and are what \div and % say.
LEMMA Divided ==
    ASSUME NEW M \in Nat \ {0}, NEW a \in Int
    PROVE  \E q \in Int, r \in 0..(M - 1) : a = M * q + r /\ r = a % M
<1> DEFINE p == a \div M
           s == a % M
<1>1. p \in Int /\ s \in 0..(M - 1) /\ a = M * p + s
  OBVIOUS
<1> HIDE DEF p
<1>2. s = a % M
  OBVIOUS
<1> HIDE DEF s
<1> QED
  BY <1>1, <1>2

\* Counting on keeps two numbers with one remainder at one remainder.
Agree(M, p, m, d) == (p + m) % M = d % M

LEMMA CountOn ==
    ASSUME NEW M \in Nat \ {0}, NEW p \in Nat, NEW m \in Nat, NEW d \in Nat, Agree(M, p, m, d)
    PROVE  Agree(M, p, (m + 1) % M, d + 1)
<1> DEFINE a == p + m
           n == m + 1
           b == d + 1
<1>0. a \in Int /\ n \in Int /\ b \in Int /\ d \in Int
  OBVIOUS
<1>d. a = p + m /\ n = m + 1 /\ b = d + 1 /\ a % M = d % M
  BY DEF Agree
<1> HIDE DEF a, n, b
<1>1. PICK q1 \in Int, r1 \in 0..(M - 1) : a = M * q1 + r1 /\ r1 = a % M
  BY <1>0, Divided
<1>2. PICK q2 \in Int, r2 \in 0..(M - 1) : d = M * q2 + r2 /\ r2 = d % M
  BY <1>0, Divided
<1>3. PICK q3 \in Int, r3 \in 0..(M - 1) : n = M * q3 + r3 /\ r3 = n % M
  BY <1>0, Divided
<1>4. r1 = r2
  BY <1>1, <1>2, <1>d
<1> DEFINE c == p + r3
<1>c. c \in Int /\ c = p + r3
  OBVIOUS
<1> HIDE DEF c
<1>e. /\ a = M * q1 + r1 /\ d = M * q2 + r2 /\ n = M * q3 + r3
      /\ a = p + m /\ n = m + 1 /\ b = d + 1
  BY ONLY <1>1, <1>2, <1>3, <1>d
<1>f. /\ M \in Int /\ q1 \in Int /\ q2 \in Int /\ q3 \in Int /\ r1 \in Int /\ r2 \in Int
      /\ r3 \in Int /\ p \in Int /\ m \in Int
  OBVIOUS
<1>5. c = M * (q1 - q3) + (r1 + 1)
  BY ONLY <1>0, <1>c, <1>e, <1>f
<1>6. b = M * q2 + (r1 + 1)
  BY ONLY <1>0, <1>4, <1>e, <1>f
<1>7. c % M = b % M
  <2>1. CASE r1 + 1 < M
    <3>1. r1 + 1 \in 0..(M - 1)
      BY <2>1
    <3>2. c % M = r1 + 1
      <4>1. PICK q \in Int : q = q1 - q3
        OBVIOUS
      <4>2. c = M * q + (r1 + 1)
        BY ONLY <1>5, <4>1
      <4> QED
        BY <1>c, <3>1, <4>2, Remainder
    <3>3. b % M = r1 + 1
      BY <1>6, <1>0, <3>1, Remainder
    <3> QED
      BY ONLY <3>2, <3>3
  <2>2. CASE r1 + 1 = M
    <3>1. c = M * (q1 - q3 + 1) + 0 /\ b = M * (q2 + 1) + 0
      BY <1>5, <1>6, <2>2
    <3>2. 0 \in 0..(M - 1) /\ q1 - q3 + 1 \in Int /\ q2 + 1 \in Int
      OBVIOUS
    <3>3. c % M = 0
      BY <1>c, <3>1, <3>2, Remainder
    <3>4. b % M = 0
      BY <1>0, <3>1, <3>2, Remainder
    <3> QED
      BY ONLY <3>3, <3>4
  <2> QED
    BY <2>1, <2>2
<1>8. (m + 1) % M = r3
  BY ONLY <1>3, <1>d
<1>9. (p + r3) % M = (d + 1) % M
  BY ONLY <1>7, <1>c, <1>d
<1> QED
  BY ONLY <1>8, <1>9 DEF Agree

\* No byte is counted twice or lost between m_uBytes64 and what __onHandlerPrint has
\* reported, and the requests add up modulo the width of m_uProc, through every
\* wrap of the counter and every reset by the timer.
THEOREM Counters == Spec => []CountersAddUp
<1>1. Init => CountersAddUp
  BY DataHandlerAssumption DEF Init, CountersAddUp
<1>2. TypeOK /\ CountersAddUp /\ [Next]_vars => CountersAddUp'
  <2> SUFFICES ASSUME TypeOK, CountersAddUp, [Next]_vars PROVE CountersAddUp'
    OBVIOUS
  <2>0. /\ printed.proc \in Nat /\ printed.bytes \in Nat /\ m_uProc \in Nat
        /\ m_uBytes64 \in Nat /\ head \in Nat /\ Len(dispatched) \in Nat
        /\ ProcMod \in Nat \ {0}
    BY DataHandlerAssumption DEF TypeOK
  <2>1. ASSUME NEW L \in Lengths, NEW c \in Cmds, makeRequest(L, c) PROVE CountersAddUp'
    <3>1. /\ head' = head + L /\ m_uProc' = (m_uProc + 1) % ProcMod
          /\ m_uBytes64' = m_uBytes64 + L /\ printed' = printed
      BY <2>1 DEF makeRequest
    <3>2. Len(dispatched') = Len(dispatched) + 1
      BY <2>1 DEF makeRequest, RequestDispatch, TypeOK
    <3>3. L \in Nat
      BY DataHandlerAssumption
    <3>4. printed'.bytes + m_uBytes64' = head'
      <4>1. printed.bytes + m_uBytes64 = head
        BY DEF CountersAddUp
      <4> QED
        BY ONLY <2>0, <3>1, <3>3, <4>1
    <3>5. Agree(ProcMod, printed.proc, (m_uProc + 1) % ProcMod, Len(dispatched) + 1)
      <4>1. Agree(ProcMod, printed.proc, m_uProc, Len(dispatched))
        BY DEF CountersAddUp, Agree
      <4> QED
        BY ONLY <2>0, <4>1, CountOn
    <3>6. Agree(ProcMod, printed'.proc, m_uProc', Len(dispatched'))
      BY ONLY <3>1, <3>2, <3>5
    <3> QED
      BY ONLY <3>4, <3>6 DEF CountersAddUp, Agree
  <2>2. CASE onHandlerPrint
    <3>1. /\ printed' = [proc |-> printed.proc + m_uProc, bytes |-> printed.bytes + m_uBytes64]
          /\ m_uProc' = 0 /\ m_uBytes64' = 0 /\ UNCHANGED <<head, dispatched>>
      BY <2>2 DEF onHandlerPrint
    <3>2. printed'.proc + m_uProc' = printed.proc + m_uProc
      BY <2>0, <3>1
    <3>3. printed'.bytes + m_uBytes64' = printed.bytes + m_uBytes64
      BY <2>0, <3>1
    <3> QED
      BY ONLY CountersAddUp, <3>1, <3>2, <3>3 DEF CountersAddUp
  <2>3. CASE UNCHANGED <<printed, m_uProc, m_uBytes64, head, dispatched>>
    BY <2>3 DEF CountersAddUp
  <2> QED
    BY <2>1, <2>2, <2>3 DEF Next, Step, PeerSends, onRead, Break, Reject, addEntry, vars
<1> QED
  BY <1>1, <1>2, TypeCorrect, PTL DEF Spec
=============================================================================
