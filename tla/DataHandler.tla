---------------------------- MODULE DataHandler -----------------------------
(***************************************************************************)
(* CDataHandler (libevwork_full/jsmfc/DataHandler.cpp, the same in pbmfc): *)
(* cuts the byte stream of one connection into packets and dispatches each *)
(* to the entry of its command (CMfcAppContext).                           *)
(*                                                                         *)
(* A byte is known by its position in the stream; m_Input holds the bytes  *)
(* head .. head + size - 1 (that CBuffer keeps them intact is the business *)
(* of the module CBuffer).  The length field of a packet is read from the  *)
(* byte at its start; at any other position the bytes that stand for it    *)
(* are a body, and the length read there is some number.                   *)
(***************************************************************************)
EXTENDS Integers, Sequences

CONSTANTS HEADER_SIZE, \* JS_HEADER_SIZE, PB_HEADER_SIZE
          MaxInput,    \* MAX_INPUT_SIZE of the connection
          Limits,      \* values for m_uPacketLimit; 0 stands for (uint32_t)-1, no limit
          Lengths,     \* length fields the peer writes
          Cmds,        \* commands of the packets
          ProcMod,     \* m_uProc counts modulo 2^32
          MaxPackets   \* bound: packets the peer sends

ASSUME DataHandlerAssumption ==
    /\ HEADER_SIZE \in Nat \ {0} /\ MaxInput \in Nat \ {0}
    /\ Limits \subseteq Nat /\ Lengths \subseteq Nat
    /\ ProcMod \in Nat \ {0} /\ MaxPackets \in Nat \ {0}

VARIABLES
    stream,         \* the packets sent: [at, len, cmd], len the length field
    total,          \* bytes sent
    recvd,          \* bytes taken from the kernel
    head,           \* the position of pData: the bytes before it have been processed
    pc,             \* "idle", "onData" (in the loop) or "closed"
    m_uPacketLimit,
    m_mapEntry,     \* the commands with an entry
    m_uProc, m_uBytes64,
    dispatched,     \* history: [at, len, cmd, entry] of the requests, in order
    printed         \* history: the requests and bytes __onHandlerPrint has reported

vars == <<stream, total, recvd, head, pc, m_uPacketLimit, m_mapEntry, m_uProc, m_uBytes64,
          dispatched, printed>>

Packet == [at : Nat, len : Lengths, cmd : Cmds]

TypeOK ==
    /\ stream \in Seq(Packet)
    /\ total \in Nat /\ recvd \in 0..total /\ head \in 0..recvd
    /\ pc \in {"idle", "onData", "closed"}
    /\ m_uPacketLimit \in Limits
    /\ m_mapEntry \subseteq Cmds
    /\ m_uProc \in 0..(ProcMod - 1) /\ m_uBytes64 \in Nat
    /\ dispatched \in Seq([at : Nat, len : Nat, cmd : Cmds, entry : BOOLEAN])
    /\ printed \in [proc : Nat, bytes : Nat]

\* setPacketLimit is called, if at all, before the loop runs.
Init ==
    /\ stream = <<>> /\ total = 0 /\ recvd = 0 /\ head = 0
    /\ pc = "idle"
    /\ m_uPacketLimit \in Limits
    /\ m_mapEntry = {}
    /\ m_uProc = 0 /\ m_uBytes64 = 0
    /\ dispatched = <<>> /\ printed = [proc |-> 0, bytes |-> 0]

uSize == recvd - head

\* peekLen and parseHeader: L and c are what a header at position p reads as.  At
\* the start of a packet these are its fields, elsewhere anything.
peekLen(p, L) == \A n \in DOMAIN stream : stream[n].at = p => L = stream[n].len
peekCmd(p, c) == \A n \in DOMAIN stream : stream[n].at = p => c = stream[n].cmd

Legal_LimitExcluded(L) ==                                   \* mutant: uPktLen >= m_uPacketLimit
    L >= HEADER_SIZE /\ (m_uPacketLimit = 0 \/ L < m_uPacketLimit)
Legal(L) == L >= HEADER_SIZE /\ (m_uPacketLimit = 0 \/ L <= m_uPacketLimit)

Complete_Strict(L) == uSize > L                             \* mutant: uSize <= uPktLen breaks
Complete(L) == uSize >= L

-----------------------------------------------------------------------------
\* The peer sends a packet: a header and the rest its length field announces.
PeerSends(L, c) ==
    /\ Len(stream) < MaxPackets
    /\ stream' = Append(stream, [at |-> total, len |-> L, cmd |-> c])
    /\ total' = total + (IF L < HEADER_SIZE THEN HEADER_SIZE ELSE L)
    /\ UNCHANGED <<recvd, head, pc, m_uPacketLimit, m_mapEntry, m_uProc, m_uBytes64, dispatched,
                   printed>>

\* CClientConn::__onRead: k bytes are there, and are given to onData unless they
\* exceed the input buffer, which ends the connection.
onRead(k) ==
    /\ pc = "idle"
    /\ recvd + k <= total
    /\ recvd' = recvd + k
    /\ pc' = IF uSize + k > MaxInput THEN "closed" ELSE "onData"
    /\ UNCHANGED <<stream, total, head, m_uPacketLimit, m_mapEntry, m_uProc, m_uBytes64,
                   dispatched, printed>>

\* The loop of onData ends: too little for a header, or for the packet.  The
\* connection erases the nProcessed bytes before head from m_Input.
Break_AfterFirst ==                                         \* mutant: if instead of while
    /\ pc = "onData"
    /\ pc' = "idle"
    /\ UNCHANGED <<stream, total, recvd, head, m_uPacketLimit, m_mapEntry, m_uProc, m_uBytes64,
                   dispatched, printed>>

Break ==
    /\ pc = "onData"
    /\ \/ uSize < HEADER_SIZE
       \/ \E L \in Lengths : peekLen(head, L) /\ Legal(L) /\ ~Complete(L)
    /\ pc' = "idle"
    /\ UNCHANGED <<stream, total, recvd, head, m_uPacketLimit, m_mapEntry, m_uProc, m_uBytes64,
                   dispatched, printed>>

\* A length that is out of range: onData answers -1 and the connection is closed,
\* with what the loop has dispatched before.
Reject ==
    /\ pc = "onData" /\ uSize >= HEADER_SIZE
    /\ \E L \in Lengths : peekLen(head, L) /\ ~Legal(L)
    /\ pc' = "closed"
    /\ UNCHANGED <<stream, total, recvd, head, m_uPacketLimit, m_mapEntry, m_uProc, m_uBytes64,
                   dispatched, printed>>

\* CMfcAppContext::RequestDispatch: to the entry of the command, else to
\* DefaultDispatch.
RequestDispatch(L, c) ==
    dispatched' = Append(dispatched,
                         [at |-> head, len |-> L, cmd |-> c, entry |-> c \in m_mapEntry])

\* __makeRequest and __requestDispatch: a handler that throws is caught, and its
\* packet counts as processed.
makeRequest_LengthOfBody(L, c) ==                           \* mutant: pData += JS_HEADER_SIZE + uPktLen
    /\ pc = "onData" /\ uSize >= HEADER_SIZE
    /\ peekLen(head, L) /\ peekCmd(head, c) /\ Legal(L) /\ Complete(HEADER_SIZE + L)
    /\ RequestDispatch(L, c)
    /\ head' = head + HEADER_SIZE + L
    /\ m_uProc' = (m_uProc + 1) % ProcMod
    /\ m_uBytes64' = m_uBytes64 + L
    /\ UNCHANGED <<stream, total, recvd, pc, m_uPacketLimit, m_mapEntry, printed>>

makeRequest(L, c) ==
    /\ pc = "onData" /\ uSize >= HEADER_SIZE
    /\ peekLen(head, L) /\ peekCmd(head, c) /\ Legal(L) /\ Complete(L)
    /\ RequestDispatch(L, c)
    /\ head' = head + L
    /\ m_uProc' = (m_uProc + 1) % ProcMod
    /\ m_uBytes64' = m_uBytes64 + L
    /\ UNCHANGED <<stream, total, recvd, pc, m_uPacketLimit, m_mapEntry, printed>>

-----------------------------------------------------------------------------
\* addEntry: a second entry for a command ends the process (assert).
addEntry(c) ==
    /\ pc = "idle" /\ c \notin m_mapEntry
    /\ m_mapEntry' = m_mapEntry \cup {c}
    /\ UNCHANGED <<stream, total, recvd, head, pc, m_uPacketLimit, m_uProc, m_uBytes64, dispatched,
                   printed>>

\* The timer of ten seconds.
onHandlerPrint_KeepBytes ==                                 \* mutant: m_uBytes64 = 0 missing
    /\ pc # "onData"
    /\ printed' = [proc |-> printed.proc + m_uProc, bytes |-> printed.bytes + m_uBytes64]
    /\ m_uProc' = 0 /\ UNCHANGED m_uBytes64
    /\ UNCHANGED <<stream, total, recvd, head, pc, m_uPacketLimit, m_mapEntry, dispatched>>

onHandlerPrint ==
    /\ pc # "onData"
    /\ printed' = [proc |-> printed.proc + m_uProc, bytes |-> printed.bytes + m_uBytes64]
    /\ m_uProc' = 0 /\ m_uBytes64' = 0
    /\ UNCHANGED <<stream, total, recvd, head, pc, m_uPacketLimit, m_mapEntry, dispatched>>

Step == Break \/ Reject \/ \E L \in Lengths, c \in Cmds : makeRequest(L, c)

Next ==
    \/ \E L \in Lengths, c \in Cmds : PeerSends(L, c)
    \/ \E k \in 1..(total - recvd) : onRead(k)
    \/ Step
    \/ \E c \in Cmds : addEntry(c)
    \/ onHandlerPrint

Spec == Init /\ [][Next]_vars

\* The read event of the connection is served, and onData returns.
FairSpec == Spec /\ WF_vars(\E k \in 1..(total - recvd) : onRead(k)) /\ WF_vars(Step)

-----------------------------------------------------------------------------
\* The requests are the packets of the peer, in order, each once and with its own
\* bytes and command, however the stream was cut into pieces; a command with no
\* entry goes to DefaultDispatch.
RequestsAreThePackets ==
    \A i \in DOMAIN dispatched :
        /\ i \in DOMAIN stream
        /\ dispatched[i].at = stream[i].at
        /\ dispatched[i].len = stream[i].len
        /\ dispatched[i].cmd = stream[i].cmd
        /\ dispatched[i].entry => stream[i].cmd \in m_mapEntry

\* Between two reads no packet that has arrived waits in m_Input: of all packets
\* whose header is there only the next one may be undispatched, because it is
\* incomplete, and its length has been accepted.
NoPacketWaits ==
    pc = "idle" => \A n \in DOMAIN stream :
        n > Len(dispatched) /\ stream[n].at + HEADER_SIZE <= recvd =>
            /\ n = Len(dispatched) + 1
            /\ stream[n].len >= HEADER_SIZE
            /\ m_uPacketLimit # 0 => stream[n].len <= m_uPacketLimit
            /\ stream[n].at + stream[n].len > recvd

\* A connection is closed only for a length field out of range, read where the
\* packet after the dispatched ones begins, or for more input than MAX_INPUT_SIZE.
ClosedForAReason ==
    pc = "closed" =>
        \/ recvd - head > MaxInput
        \/ LET n == Len(dispatched) + 1
           IN  /\ n \in DOMAIN stream /\ stream[n].at = head
               /\ \/ stream[n].len < HEADER_SIZE
                  \/ m_uPacketLimit # 0 /\ stream[n].len > m_uPacketLimit

\* What the timer has printed and the counters hold together is what has been
\* processed: every byte, and the requests modulo the width of m_uProc.
CountersAddUp ==
    /\ printed.bytes + m_uBytes64 = head
    /\ (printed.proc + m_uProc) % ProcMod = Len(dispatched) % ProcMod

\* Every packet is dispatched in the end, unless the connection is closed.
EveryPacketDispatched ==
    \A n \in 1..MaxPackets : (Len(stream) >= n) ~> (Len(dispatched) >= n \/ pc = "closed")
=============================================================================
