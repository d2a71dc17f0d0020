----------------------------- MODULE ClientConn -----------------------------
(***************************************************************************)
(* One CClientConn (libevwork_full/ClientConn.cpp) on the event loop of its *)
(* thread: construction, sendBin called by the application at any time or  *)
(* from inside its callbacks, the read and write callbacks, both timers    *)
(* and the destructor, against a kernel socket and a peer that may send,   *)
(* stop reading, close or reset at any moment.                             *)
(*                                                                         *)
(* A callback runs to its end before the loop runs the next one, so a      *)
(* callback is one action, except __onRead: its recv loop is one action    *)
(* per round, because the peer may send or close between two rounds.       *)
(***************************************************************************)
EXTENDS Buffer

CONSTANTS MaxOutput,    \* MAX_OUTPUT_SIZE
          MaxInput,     \* MAX_INPUT_SIZE
          BaseRead,     \* BASE_READ_SIZE
          SndBuf,       \* bytes the kernel's send buffer holds
          Messages,     \* what the application passes to sendBin
          PeerChunks,   \* what the peer sends at a time
          MaxSent,      \* bound: bytes the application sends
          MaxPeer,      \* bound: bytes the peer sends
          CloseSends    \* does a link event call sendBin from its onClose?

ASSUME ClientConnAssumption ==
    /\ {MaxOutput, MaxInput, BaseRead, SndBuf, MaxSent, MaxPeer} \subseteq Nat \ {0}
    /\ Messages \subseteq Seq(Byte) \ {<<>>}
    /\ PeerChunks \subseteq Seq(Byte) \ {<<>>}
    /\ CloseSends \in BOOLEAN

VARIABLES
    obj,           \* "unborn", "alive" or "freed"
    cb,            \* the callback that is running: "none", or __onRead at "read" or "data"
    m_bConnected,
    m_Input,
    hRead,         \* is m_hRead in CEVLoop::m_setHandle, its watcher started?
    m_bTimerNoDataStart,
    tx,            \* the sending side, see TxType
    so,            \* kernel: "connecting", "up", "refused" or "closed"
    rx,            \* kernel: bytes received and not yet read
    fin,           \* kernel: the peer has closed
    links,         \* history: the link events notified, in order
    peerSent,      \* history: every byte the peer has sent
    consumed,      \* history: every byte onData has consumed
    rxTorn         \* history: m_Input was used outside its exact uses

vars == <<obj, cb, m_bConnected, m_Input, hRead, m_bTimerNoDataStart, tx, so, rx, fin,
          links, peerSent, consumed, rxTorn>>

\* What sendBin reads and writes, as one value so that a callback can call it.
TxType == [out      : Buffers,          \* m_Output
           hWrite   : BOOLEAN,          \* is m_hWrite in m_setHandle?
           destroy  : BOOLEAN,          \* m_bTimerDestroyStart
           wire     : Seq(Cell),        \* every byte handed to the kernel
           load     : 0..SndBuf,        \* kernel: bytes of them not yet acknowledged
           rst      : BOOLEAN,          \* kernel: the connection has been reset
           accepted : Seq(Byte),        \* history: messages sendBin answered true for
           failed   : BOOLEAN,          \* history: sendBin has answered false
           torn     : BOOLEAN]          \* history: m_Output used outside its exact uses

NewTx == [out |-> reset, hWrite |-> FALSE, destroy |-> FALSE, wire |-> <<>>, load |-> 0,
          rst |-> FALSE, accepted |-> <<>>, failed |-> FALSE, torn |-> FALSE]

Init ==
    /\ obj = "unborn" /\ cb = "none" /\ m_bConnected = FALSE /\ m_Input = reset /\ hRead = FALSE
    /\ m_bTimerNoDataStart = FALSE /\ tx = NewTx /\ so = "closed" /\ rx = <<>>
    /\ fin = FALSE /\ links = <<>> /\ peerSent = <<>> /\ consumed = <<>> /\ rxTorn = FALSE

-----------------------------------------------------------------------------
\* ::send(2) in the loop of __sendData: n bytes are offered; k of them go to
\* the kernel before everything is gone, EAGAIN (ok) or another error (not ok).
\* The kernel takes at least what it has room for, more when the peer reads
\* meanwhile; a reset may arrive before the first or between two calls.
sendData(t, n) ==
    LET room == IF SndBuf - t.load < n THEN SndBuf - t.load ELSE n
    IN  [k : IF t.rst THEN {} ELSE room..n, ok : {TRUE}]
        \cup [k : IF t.rst THEN {0} ELSE 0..(n - 1), ok : {FALSE}]

\* The kernel has taken the first k bytes of data.
Sent(t, data, r) ==
    [t EXCEPT !.wire = @ \o SubSeq(data, 1, r.k),
              !.load = IF @ + r.k > SndBuf THEN SndBuf ELSE @ + r.k,
              !.rst  = @ \/ ~r.ok]

\* sendBin's catch block: the connection is released by a timer, later.
WillDestroy_NoTimer(t) == [t EXCEPT !.failed = TRUE]        \* mutant
WillDestroy(t) == [t EXCEPT !.destroy = TRUE, !.failed = TRUE]

\* __appendBuffer throws when the output would exceed MAX_OUTPUT_SIZE.
appendBuffer(t, data) ==
    [t EXCEPT !.out  = append(@, data),
              !.torn = @ \/ ~IncrementIsExact(t.out, Len(data))]
Overflows(t, data) == size(t.out) + Len(data) > MaxOutput

Accept(t, data) == [t EXCEPT !.accepted = @ \o data]

\* sendBin with the connection state up and the answer r of the kernel.
sendBin_NoHandle(t, up, data, r) ==                         \* mutant: write event not started
    LET rest == SubSeq(data, r.k + 1, Len(data))
        s    == Sent(t, data, r)
    IN  IF up /\ size(t.out) = 0
        THEN IF ~r.ok \/ Overflows(t, rest) THEN WillDestroy(s)
             ELSE Accept(appendBuffer(s, rest), data)
        ELSE IF Overflows(t, data) THEN WillDestroy(t)
             ELSE Accept(appendBuffer(t, data), data)

sendBin_Overtakes(t, up, data, r) ==                        \* mutant: sends past a non-empty buffer
    LET rest == SubSeq(data, r.k + 1, Len(data))
        s    == Sent(t, data, r)
    IN  IF up
        THEN IF ~r.ok \/ Overflows(t, rest) THEN WillDestroy(s)
             ELSE Accept([appendBuffer(s, rest) EXCEPT !.hWrite = TRUE], data)
        ELSE IF Overflows(t, data) THEN WillDestroy(t)
             ELSE Accept(appendBuffer(t, data), data)

sendBin(t, up, data, r) ==
    LET rest == SubSeq(data, r.k + 1, Len(data))
        s    == Sent(t, data, r)
    IN  IF up /\ size(t.out) = 0
        THEN IF ~r.ok \/ Overflows(t, rest) THEN WillDestroy(s)
             ELSE IF rest = <<>> THEN Accept(s, data)
             ELSE Accept([appendBuffer(s, rest) EXCEPT !.hWrite = TRUE], data)
        ELSE IF Overflows(t, data) THEN WillDestroy(t)
             ELSE Accept(appendBuffer(t, data), data)

\* What the application may have made of t when its callback returns: nothing,
\* or one call of sendBin.
AppSends(t, up) ==
    {t} \cup UNION {{sendBin(t, up, data, r) : r \in sendData(t, Len(data))} :
                    data \in {d \in Messages :
                                Len(t.wire) + size(t.out) + Len(d) <= MaxSent}}

\* ~CClientConn: events and timers are cleared, then onClose is notified, then
\* the descriptor is closed.  up and l are the connection state and the link
\* events at that point.
Destroyed_KeepTimer(t) == [t EXCEPT !.hWrite = FALSE]       \* mutant
Destroyed(t) == [t EXCEPT !.hWrite = FALSE, !.destroy = FALSE]

Free_SilentBeforeConnect(t, up, l) ==    \* mutant: no onClose for a failed connect
    /\ obj' = "freed" /\ cb' = "none"
    /\ m_bConnected' = up
    /\ hRead' = FALSE
    /\ m_bTimerNoDataStart' = FALSE
    /\ tx' = Destroyed(t)
    /\ links' = IF up THEN Append(l, "close") ELSE l
    /\ so' = "closed" /\ rx' = <<>> /\ m_Input' = reset
    /\ UNCHANGED <<fin, peerSent, consumed, rxTorn>>

Free(t, up, l) ==
    /\ obj' = "freed" /\ cb' = "none"
    /\ m_bConnected' = up
    /\ hRead' = FALSE
    /\ m_bTimerNoDataStart' = FALSE
    /\ tx' \in IF CloseSends THEN AppSends(Destroyed(t), up) ELSE {Destroyed(t)}
    /\ links' = Append(l, "close")
    /\ so' = "closed" /\ rx' = <<>> /\ m_Input' = reset
    /\ UNCHANGED <<fin, peerSent, consumed, rxTorn>>

-----------------------------------------------------------------------------
\* The constructor behind getConnByIpPort: a connect is under way.
NewOutgoing ==
    /\ obj = "unborn"
    /\ obj' = "alive" /\ so' = "connecting"
    /\ tx' = [tx EXCEPT !.hWrite = TRUE]
    /\ UNCHANGED <<cb, m_bConnected, m_Input, hRead, m_bTimerNoDataStart, rx, fin, links,
                   peerSent, consumed, rxTorn>>

\* The constructor behind cbAccept: connected at once; onConnected may send.
NewAccepted_NoReadEvent ==               \* mutant: the read event is not started
    /\ obj = "unborn"
    /\ obj' = "alive" /\ so' = "up"
    /\ m_bConnected' = TRUE /\ m_bTimerNoDataStart' = TRUE
    /\ links' = <<"connected">>
    /\ tx' \in AppSends(tx, TRUE)
    /\ UNCHANGED <<cb, m_Input, hRead, rx, fin, peerSent, consumed, rxTorn>>

NewAccepted ==
    /\ obj = "unborn"
    /\ obj' = "alive" /\ so' = "up"
    /\ m_bConnected' = TRUE /\ hRead' = TRUE /\ m_bTimerNoDataStart' = TRUE
    /\ links' = <<"connected">>
    /\ tx' \in AppSends(tx, TRUE)
    /\ UNCHANGED <<cb, m_Input, rx, fin, peerSent, consumed, rxTorn>>

Idle == obj = "alive" /\ cb = "none"

\* sendBin called by the application outside the callbacks of this connection.
Send ==
    /\ Idle
    /\ tx' \in AppSends(tx, m_bConnected) \ {tx}
    /\ UNCHANGED <<obj, cb, m_bConnected, m_Input, hRead, m_bTimerNoDataStart, so, rx, fin,
                   links, peerSent, consumed, rxTorn>>

\* __sendBuffer and the end of __onWrite, after the kernel's answer r.
sendBuffer_AlwaysDel(t, r) ==                               \* mutant: write event always cleared
    [Sent(t, t.out.bytes, r) EXCEPT
        !.out    = erase(@, r.k),
        !.torn   = @ \/ ~EraseIsExact(t.out, r.k),
        !.hWrite = FALSE]

sendBuffer(t, r) ==
    [Sent(t, t.out.bytes, r) EXCEPT
        !.out    = erase(@, r.k),
        !.torn   = @ \/ ~EraseIsExact(t.out, r.k),
        !.hWrite = @ /\ r.k < size(t.out)]

Writable == so = "refused" \/ (so = "up" /\ (tx.load < SndBuf \/ tx.rst))

\* __onWrite on a connection that is not connected yet, and the connect failed.
OnConnectFailed ==
    /\ Idle /\ tx.hWrite /\ Writable
    /\ ~m_bConnected
    /\ so = "refused" \/ tx.rst
    /\ Free(tx, FALSE, links)

\* __onWrite otherwise: report the new connection, send what waits in m_Output.
onWrite ==
    /\ Idle /\ tx.hWrite /\ Writable
    /\ m_bConnected \/ (so = "up" /\ ~tx.rst)
    /\ LET l == IF m_bConnected THEN links ELSE Append(links, "connected")
       IN  \E t \in IF m_bConnected THEN {tx} ELSE AppSends(tx, TRUE) :
           \E r \in IF size(t.out) = 0 THEN {[k |-> 0, ok |-> TRUE]}
                                       ELSE sendData(t, size(t.out)) :
             \/ /\ r.ok
                /\ tx' = sendBuffer(t, r)
                /\ m_bConnected' = TRUE /\ hRead' = TRUE /\ m_bTimerNoDataStart' = TRUE
                /\ links' = l
                /\ UNCHANGED <<obj, cb, m_Input, so, rx, fin, peerSent, consumed, rxTorn>>
             \/ ~r.ok /\ Free(Sent(t, t.out.bytes, r), TRUE, l)

\* __onRead starts.
OnReadable ==
    /\ Idle /\ hRead
    /\ rx # <<>> \/ fin \/ tx.rst
    /\ cb' = "read"
    /\ UNCHANGED <<obj, m_bConnected, m_Input, hRead, m_bTimerNoDataStart, tx, so, rx, fin,
                   links, peerSent, consumed, rxTorn>>

\* One round of its loop: at least BASE_READ_SIZE bytes of room, then recv until
\* the room is full, the kernel is empty, or the end of the stream or an error
\* shows - and that throws, whatever was received in this round.
recvRoom(b) == IF freesize(b) < BaseRead THEN inc_capacity(b, BaseRead) ELSE b

inputOverflow_None(b, n) == FALSE                           \* mutant
inputOverflow(b, n) == n > 0 /\ size(b) + n > MaxInput

onRead ==
    /\ cb = "read"
    /\ LET b    == recvRoom(m_Input)
           free == freesize(b)
           n    == IF Len(rx) < free THEN Len(rx) ELSE free
       IN  \/ /\ (n < free /\ (fin \/ tx.rst)) \/ inputOverflow(b, n)
              /\ Free(tx, m_bConnected, links)
           \/ /\ ~(n < free /\ (fin \/ tx.rst)) /\ ~inputOverflow(b, n)
              /\ m_Input' = inc_size(b, SubSeq(rx, 1, n))
              /\ rxTorn' = (rxTorn \/ (b # m_Input /\ ~IncrementIsExact(m_Input, BaseRead)))
              /\ rx' = SubSeq(rx, n + 1, Len(rx))
              /\ cb' = IF n < free THEN "data" ELSE "read"
              /\ UNCHANGED <<obj, m_bConnected, hRead, m_bTimerNoDataStart, tx, so, fin,
                             links, peerSent, consumed>>

\* The data callback: the handler may call sendBin, and returns how many bytes
\* it has processed, or -1 to have the connection closed.
onData_NoErase ==                                           \* mutant: processed bytes stay in m_Input
    /\ cb = "data"
    /\ \E t \in IF size(m_Input) = 0 THEN {tx} ELSE AppSends(tx, TRUE) :
         \/ \E n \in 0..size(m_Input) :
              /\ tx' = t
              /\ UNCHANGED <<m_Input, rxTorn>>
              /\ consumed' = consumed \o SubSeq(m_Input.bytes, 1, n)
              /\ cb' = "none"
              /\ UNCHANGED <<obj, m_bConnected, hRead, m_bTimerNoDataStart, so, rx, fin,
                             links, peerSent>>
         \/ size(m_Input) > 0 /\ Free(t, m_bConnected, links)

onData ==
    /\ cb = "data"
    /\ \E t \in IF size(m_Input) = 0 THEN {tx} ELSE AppSends(tx, TRUE) :
         \/ \E n \in 0..size(m_Input) :
              /\ tx' = t
              /\ m_Input' = erase(m_Input, n)
              /\ rxTorn' = (rxTorn \/ ~EraseIsExact(m_Input, n))
              /\ consumed' = consumed \o SubSeq(m_Input.bytes, 1, n)
              /\ cb' = "none"
              /\ UNCHANGED <<obj, m_bConnected, hRead, m_bTimerNoDataStart, so, rx, fin,
                             links, peerSent>>
         \/ size(m_Input) > 0 /\ Free(t, m_bConnected, links)

\* __cbTimerNoData: no read event for the time-out.
TimerNoData ==
    /\ Idle /\ m_bTimerNoDataStart
    /\ Free(tx, m_bConnected, links)

\* __cbTimerDestry, 0.1 s after sendBin failed.
TimerDestroy ==
    /\ Idle /\ tx.destroy
    /\ Free(tx, m_bConnected, links)

-----------------------------------------------------------------------------
\* The kernel and the peer (external).
Kernel == <<obj, cb, m_bConnected, m_Input, hRead, m_bTimerNoDataStart, links, consumed, rxTorn>>

ConnectEnds ==
    /\ so = "connecting"
    /\ so' \in {"up", "refused"}
    /\ UNCHANGED <<Kernel, tx, rx, fin, peerSent>>

PeerSends ==
    /\ so = "up" /\ ~fin /\ ~tx.rst
    /\ \E d \in PeerChunks :
         /\ Len(peerSent) + Len(d) <= MaxPeer
         /\ rx' = rx \o d
         /\ peerSent' = peerSent \o d
    /\ UNCHANGED <<Kernel, tx, so, fin>>

PeerCloses ==
    /\ so = "up" /\ ~fin /\ ~tx.rst
    /\ fin' = TRUE
    /\ UNCHANGED <<Kernel, tx, so, rx, peerSent>>

PeerResets ==
    /\ so = "up" /\ ~tx.rst
    /\ tx' = [tx EXCEPT !.rst = TRUE]
    /\ UNCHANGED <<Kernel, so, rx, fin, peerSent>>

PeerReads ==
    /\ so = "up" /\ tx.load > 0
    /\ \E n \in 0..(tx.load - 1) : tx' = [tx EXCEPT !.load = n]
    /\ UNCHANGED <<Kernel, so, rx, fin, peerSent>>

-----------------------------------------------------------------------------
Next ==
    \/ NewOutgoing \/ NewAccepted
    \/ Send
    \/ OnConnectFailed \/ onWrite
    \/ OnReadable \/ onRead \/ onData
    \/ TimerNoData \/ TimerDestroy
    \/ ConnectEnds \/ PeerSends \/ PeerCloses \/ PeerResets \/ PeerReads

Spec == Init /\ [][Next]_vars

\* The loop runs every callback whose event is pending (libev, level-triggered),
\* a callback that has started ends, a connect attempt ends, and the peer's
\* host acknowledges what it was sent.
FairSpec ==
    /\ Spec
    /\ WF_vars(OnConnectFailed) /\ WF_vars(onWrite)
    /\ WF_vars(OnReadable) /\ WF_vars(onRead) /\ WF_vars(onData)
    /\ WF_vars(TimerDestroy)
    /\ WF_vars(ConnectEnds) /\ WF_vars(PeerReads)
-----------------------------------------------------------------------------
TypeOK ==
    /\ obj \in {"unborn", "alive", "freed"}
    /\ cb \in {"none", "read", "data"}
    /\ m_bConnected \in BOOLEAN /\ hRead \in BOOLEAN /\ m_bTimerNoDataStart \in BOOLEAN
    /\ m_Input \in Buffers
    /\ tx \in TxType
    /\ so \in {"connecting", "up", "refused", "closed"}
    /\ rx \in Seq(Byte) /\ peerSent \in Seq(Byte) /\ consumed \in Seq(Cell)
    /\ fin \in BOOLEAN /\ rxTorn \in BOOLEAN
    /\ links \in Seq({"connected", "close"})

IsWirePrefix(w, acc) ==
    /\ Len(w) <= Len(acc)
    /\ \A i \in 1..Len(w) : w[i] = acc[i]

\* sendBin, __onWrite and the constructors never leave a live connection with
\* output, or with a connect under way, and no write event to wait for.
WriteEventArmed ==
    obj = "alive" /\ (~m_bConnected \/ size(tx.out) > 0) => tx.hWrite

\* Once the object is freed no watcher and no timer of it is left in the loop:
\* the destructor's first four calls ("clear the read and write events",
\* "destroy the timers", ClientConn.cpp:92 and 96) are not undone by onClose.
FreedIsInert ==
    obj = "freed" => ~hRead /\ ~m_bTimerNoDataStart /\ ~tx.hWrite /\ ~tx.destroy

\* Until a sendBin fails, the bytes given to the kernel followed by the bytes in
\* m_Output are exactly the accepted messages in order, whatever was sent
\* directly, queued before the connect, or sent from inside a callback; and a
\* connection that is freed has sent a prefix of them.
StreamIntact ==
    ~tx.failed /\ ~tx.torn =>
        /\ obj # "freed" => tx.wire \o tx.out.bytes = tx.accepted
        /\ obj = "freed" => IsWirePrefix(tx.wire, tx.accepted)

\* While the connection lives, what onData has consumed, what waits in m_Input
\* and what waits in the kernel is exactly what the peer has sent.
InputIntact ==
    obj = "alive" /\ ~rxTorn => consumed \o m_Input.bytes \o rx = peerSent

\* Neither buffer grows past its limit, and both stay inside their memory.
BuffersBounded ==
    /\ size(tx.out) <= MaxOutput /\ tail(tx.out) <= tx.out.cap
    /\ size(m_Input) <= MaxInput /\ tail(m_Input) <= m_Input.cap

\* The link events are told of a connection at most once, and of its end
\* exactly when the object goes, also when it never became connected.
LinkEventsMatch ==
    links = (IF m_bConnected THEN <<"connected">> ELSE <<>>)
            \o (IF obj = "freed" THEN <<"close">> ELSE <<>>)

\* A connection on which sendBin has failed is released.
FailedIsFreed == tx.failed ~> (obj = "freed")

\* What waits in m_Output of a connected connection is sent, unless it is freed.
OutputDrains ==
    (obj = "alive" /\ m_bConnected /\ size(tx.out) > 0)
        ~> (size(tx.out) = 0 \/ obj = "freed")

\* The peer's close or reset is noticed, and the connection released.
PeerGoneIsFreed == (obj = "alive" /\ so = "up" /\ (fin \/ tx.rst)) ~> (obj = "freed")
=============================================================================
