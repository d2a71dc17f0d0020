---------------------------- MODULE AsyncWriter -----------------------------
(***************************************************************************)
(* CAsyncWriter (libevwork_full/AsyncWriter.cpp): worker threads hand       *)
(* packets to the thread of the event loop, which alone may touch a        *)
(* connection.  Every thread has its own CThreadWriter, made on its first  *)
(* send and kept in a thread-specific pointer and in m_vecpThreadWriter;   *)
(* the loop empties all of them when the eventfd wakes it, and once a      *)
(* second.  m_bFlushing is a plain bool that both sides read and write.    *)
(*                                                                         *)
(* CThreadWriter::send and flush hold m_lock from end to end, so each is   *)
(* one action; __flushReal holds m_lockVecWriter over several of them.     *)
(*                                                                         *)
(* A CThreadWriter used after its thread has ended is a destroyed mutex    *)
(* locked and a freed vector walked: what the program does then is         *)
(* undefined, so every action has the guard ~badAccess and the behaviour   *)
(* ends there.                                                             *)
(***************************************************************************)
EXTENDS Integers, Sequences

CONSTANTS Threads,    \* the threads that call send and flush
          MaxPackets, \* bound: packets a thread sends
          MayExit     \* may a thread end while the loop runs?

ASSUME AsyncWriterAssumption ==
    /\ MaxPackets \in Nat \ {0}
    /\ MayExit \in BOOLEAN

VARIABLES
    pc,          \* pc[t]: where thread t is, see TypeOK
    count,       \* count[t]: packets t has sent so far; packet n is the number n
    m_vecPacket, \* m_vecPacket[t]: packets waiting in the writer of t
    writer,      \* writer[t]: "none", "made" or "deleted"
    m_vecpThreadWriter,
    lockVec,     \* who holds m_lockVecWriter between actions: "loop" or "nobody"
    m_fdFlush,   \* is the eventfd's counter above zero?
    m_bFlushing,
    loop,        \* 0 when the loop waits, else the index __flushReal is at
    sent,        \* history: sent[t]: packets of t given to CWriter::send
    asked,       \* history: asked[t]: packets a finished flush() of t was meant for
    badAccess    \* a deleted CThreadWriter has been used

vars == <<pc, count, m_vecPacket, writer, m_vecpThreadWriter, lockVec, m_fdFlush,
          m_bFlushing, loop, sent, asked, badAccess>>

Packets == 1..MaxPackets

TypeOK ==
    /\ pc \in [Threads -> {"idle", "register", "push", "write", "set", "gone"}]
    /\ count \in [Threads -> 0..MaxPackets]
    /\ m_vecPacket \in [Threads -> Seq(Packets)]
    /\ writer \in [Threads -> {"none", "made", "deleted"}]
    /\ m_vecpThreadWriter \in Seq(Threads)
    /\ lockVec \in {"nobody", "loop"}
    /\ m_fdFlush \in BOOLEAN /\ m_bFlushing \in BOOLEAN /\ badAccess \in BOOLEAN
    /\ loop \in 0..(Len(m_vecpThreadWriter) + 1)
    /\ sent \in [Threads -> Seq(Packets)]
    /\ asked \in [Threads -> 0..MaxPackets]

Init ==
    /\ pc = [t \in Threads |-> "idle"]
    /\ count = [t \in Threads |-> 0]
    /\ m_vecPacket = [t \in Threads |-> <<>>]
    /\ writer = [t \in Threads |-> "none"]
    /\ m_vecpThreadWriter = <<>>
    /\ lockVec = "nobody"
    /\ m_fdFlush = FALSE /\ m_bFlushing = FALSE /\ badAccess = FALSE
    /\ loop = 0
    /\ sent = [t \in Threads |-> <<>>]
    /\ asked = [t \in Threads |-> 0]

-----------------------------------------------------------------------------
\* send(): __getThreadWriter finds the thread's writer, or goes on to make it.
Send(t) ==
    /\ ~badAccess
    /\ pc[t] = "idle"
    /\ count[t] < MaxPackets
    /\ count' = [count EXCEPT ![t] = @ + 1]
    /\ pc' = [pc EXCEPT ![t] = IF writer[t] = "none" THEN "register" ELSE "push"]
    /\ UNCHANGED <<m_vecPacket, writer, m_vecpThreadWriter, lockVec, m_fdFlush, m_bFlushing,
                   loop, sent, asked, badAccess>>

\* __getThreadWriter, first time, under m_lockVecWriter.
getThreadWriter(t) ==
    /\ ~badAccess
    /\ pc[t] = "register"
    /\ lockVec = "nobody"
    /\ writer' = [writer EXCEPT ![t] = "made"]
    /\ m_vecpThreadWriter' = Append(m_vecpThreadWriter, t)
    /\ pc' = [pc EXCEPT ![t] = "push"]
    /\ UNCHANGED <<count, m_vecPacket, lockVec, m_fdFlush, m_bFlushing, loop, sent, asked,
                   badAccess>>

\* CThreadWriter::send under m_lock.
Push(t) ==
    /\ ~badAccess
    /\ pc[t] = "push"
    /\ m_vecPacket' = [m_vecPacket EXCEPT ![t] = Append(@, count[t])]
    /\ pc' = [pc EXCEPT ![t] = "idle"]
    /\ UNCHANGED <<count, writer, m_vecpThreadWriter, lockVec, m_fdFlush, m_bFlushing, loop,
                   sent, asked, badAccess>>

\* flush(), in the order of the code: look at m_bFlushing, write the eventfd,
\* set m_bFlushing.
Flush(t) ==
    /\ ~badAccess
    /\ pc[t] = "idle"
    /\ IF m_bFlushing
       THEN asked' = [asked EXCEPT ![t] = count[t]] /\ UNCHANGED pc
       ELSE pc' = [pc EXCEPT ![t] = "write"] /\ UNCHANGED asked
    /\ UNCHANGED <<count, m_vecPacket, writer, m_vecpThreadWriter, lockVec, m_fdFlush,
                   m_bFlushing, loop, sent, badAccess>>

FlushWrite(t) ==
    /\ ~badAccess
    /\ pc[t] = "write"
    /\ m_fdFlush' = TRUE
    /\ pc' = [pc EXCEPT ![t] = "set"]
    /\ UNCHANGED <<count, m_vecPacket, writer, m_vecpThreadWriter, lockVec, m_bFlushing, loop,
                   sent, asked, badAccess>>

FlushSet(t) ==
    /\ ~badAccess
    /\ pc[t] = "set"
    /\ m_bFlushing' = TRUE
    /\ asked' = [asked EXCEPT ![t] = count[t]]
    /\ pc' = [pc EXCEPT ![t] = "idle"]
    /\ UNCHANGED <<count, m_vecPacket, writer, m_vecpThreadWriter, lockVec, m_fdFlush, loop,
                   sent, badAccess>>

\* The thread ends: boost deletes its thread-specific CThreadWriter, which
\* stays in m_vecpThreadWriter.
Exit(t) ==
    /\ ~badAccess
    /\ MayExit
    /\ pc[t] = "idle"
    /\ pc' = [pc EXCEPT ![t] = "gone"]
    /\ writer' = [writer EXCEPT ![t] = IF @ = "made" THEN "deleted" ELSE @]
    /\ UNCHANGED <<count, m_vecPacket, m_vecpThreadWriter, lockVec, m_fdFlush, m_bFlushing,
                   loop, sent, asked, badAccess>>

-----------------------------------------------------------------------------
\* __cbFlush and __onRead: the eventfd is read, which clears it; then __flushReal
\* takes m_lockVecWriter.
cbFlush ==
    /\ ~badAccess
    /\ loop = 0 /\ m_fdFlush /\ lockVec = "nobody"
    /\ m_fdFlush' = FALSE
    /\ loop' = 1 /\ lockVec' = "loop"
    /\ UNCHANGED <<pc, count, m_vecPacket, writer, m_vecpThreadWriter, m_bFlushing, sent, asked,
                   badAccess>>

\* __onHandlerFlush: once a second, the same without a look at the eventfd.
onHandlerFlush_OnlyIfFlushing ==                            \* mutant: the timer trusts m_bFlushing
    /\ ~badAccess
    /\ ~m_bFlushing
    /\ loop = 0 /\ lockVec = "nobody"
    /\ loop' = 1 /\ lockVec' = "loop"
    /\ UNCHANGED <<pc, count, m_vecPacket, writer, m_vecpThreadWriter, m_fdFlush, m_bFlushing,
                   sent, asked, badAccess>>

onHandlerFlush ==
    /\ ~badAccess
    /\ loop = 0 /\ lockVec = "nobody"
    /\ loop' = 1 /\ lockVec' = "loop"
    /\ UNCHANGED <<pc, count, m_vecPacket, writer, m_vecpThreadWriter, m_fdFlush, m_bFlushing,
                   sent, asked, badAccess>>

\* CThreadWriter::flush of the next writer, under its m_lock: every packet to
\* CWriter::send in order, then the vector is cleared.
FlushNext_NoClear ==                                        \* mutant: m_vecPacket.clear() missing
    /\ ~badAccess
    /\ loop \in 1..Len(m_vecpThreadWriter)
    /\ LET t == m_vecpThreadWriter[loop]
       IN  /\ Len(sent[t]) <= 2 * MaxPackets
           /\ sent' = [sent EXCEPT ![t] = @ \o m_vecPacket[t]]
           /\ UNCHANGED <<m_vecPacket, badAccess>>
    /\ loop' = loop + 1
    /\ UNCHANGED <<pc, count, writer, m_vecpThreadWriter, lockVec, m_fdFlush, m_bFlushing, asked>>

FlushNext ==
    /\ ~badAccess
    /\ loop \in 1..Len(m_vecpThreadWriter)
    /\ LET t == m_vecpThreadWriter[loop]
       IN  IF writer[t] = "deleted"
           THEN badAccess' = TRUE /\ UNCHANGED <<sent, m_vecPacket, loop>>
           ELSE /\ sent' = [sent EXCEPT ![t] = @ \o m_vecPacket[t]]
                /\ m_vecPacket' = [m_vecPacket EXCEPT ![t] = <<>>]
                /\ loop' = loop + 1
                /\ UNCHANGED badAccess
    /\ UNCHANGED <<pc, count, writer, m_vecpThreadWriter, lockVec, m_fdFlush, m_bFlushing, asked>>

\* The end of __flushReal.
FlushDone ==
    /\ ~badAccess
    /\ loop > Len(m_vecpThreadWriter)
    /\ m_bFlushing' = FALSE
    /\ loop' = 0 /\ lockVec' = "nobody"
    /\ UNCHANGED <<pc, count, m_vecPacket, writer, m_vecpThreadWriter, m_fdFlush, sent, asked,
                   badAccess>>

Next ==
    \/ \E t \in Threads : \/ Send(t) \/ getThreadWriter(t) \/ Push(t)
                          \/ Flush(t) \/ FlushWrite(t) \/ FlushSet(t) \/ Exit(t)
    \/ cbFlush \/ onHandlerFlush \/ FlushNext \/ FlushDone

Spec == Init /\ [][Next]_vars

\* A call that has started ends; the loop runs its callbacks, and its timer.
FairSpec ==
    /\ Spec
    /\ \A t \in Threads : /\ SF_vars(getThreadWriter(t)) /\ WF_vars(Push(t))
                          /\ WF_vars(FlushWrite(t)) /\ WF_vars(FlushSet(t))
    /\ WF_vars(cbFlush) /\ WF_vars(onHandlerFlush) /\ WF_vars(FlushNext) /\ WF_vars(FlushDone)

-----------------------------------------------------------------------------
\* The packets of one thread reach the connections in the order they were
\* passed to send, each once: what was sent and what waits is 1, 2, 3, ...
\* (as long as the loop has not used a deleted writer).
FifoPerThread ==
    ~badAccess => \A t \in Threads :
        LET all == sent[t] \o m_vecPacket[t]
        IN  /\ all = [i \in 1..Len(all) |-> i]
            /\ Len(all) = count[t] - (IF pc[t] \in {"register", "push"} THEN 1 ELSE 0)

\* The eventfd is the event notification mechanism (AsyncWriter.cpp:49): while
\* packets a finished flush() was meant for still wait, the loop has been
\* notified, is flushing, or will be notified by a thread that is in flush().
FlushIsNotified ==
    (\E t \in Threads : Len(sent[t]) < asked[t])
        => m_fdFlush \/ loop > 0 \/ \E t \in Threads : pc[t] = "write"

\* The loop never uses a CThreadWriter after its thread has ended.
NoDeletedWriterUsed == ~badAccess

\* Every packet is sent in the end, with or without a notification, unless its
\* thread ends first or the loop uses the deleted writer of another thread, after
\* which nothing is promised to anyone.
EveryPacketSent ==
    \A t \in Threads : \A n \in Packets :
        (count[t] = n) ~> (Len(sent[t]) >= n \/ pc[t] = "gone" \/ badAccess)
=============================================================================
