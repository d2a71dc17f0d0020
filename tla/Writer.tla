------------------------------- MODULE Writer -------------------------------
(***************************************************************************)
(* CWriter (libevwork_full/Writer.cpp) on top of CConnManager: a packet    *)
(* goes to an address, by way of the connection getConnByIpPort finds or   *)
(* makes for it.  A connection keeps packets until it is connected and the *)
(* kernel takes them (CClientConn::sendBin, __onWrite); what it has not    *)
(* given to the kernel when it ends is lost.                               *)
(***************************************************************************)
EXTENDS ConnManager

CONSTANT MaxPackets    \* bound: packets sent; packet n is the n-th call of send

ASSUME WriterAssumption == MaxPackets \in Nat

VARIABLES posted,      \* packets sent so far
          m_Output,    \* m_Output[c]: the packets in the buffer of connection c
          left         \* left[p]: the last packet for address p that has left the process

writerVars == <<vars, posted, m_Output, left>>

WriterInit ==
    /\ Init
    /\ posted = 0
    /\ m_Output = [c \in Conns |-> {}]
    /\ left = [p \in Peers |-> 0]

send_Overtakes(p) ==                 \* mutant: sendBin does not look whether packets wait
    /\ posted < MaxPackets
    /\ \/ getConnByIpPort(p)
       \/ m_mapIpPortConn[p] # None /\ UNCHANGED vars
    /\ posted' = posted + 1
    /\ LET c == m_mapIpPortConn'[p]
       IN IF state'[c] = "connected"
          THEN left' = [left EXCEPT ![p] = posted'] /\ UNCHANGED m_Output
          ELSE m_Output' = [m_Output EXCEPT ![c] = @ \cup {posted'}] /\ UNCHANGED left
\* CWriter::send.
send(p) ==
    /\ posted < MaxPackets
    /\ \/ getConnByIpPort(p)
       \/ m_mapIpPortConn[p] # None /\ UNCHANGED vars
    /\ posted' = posted + 1
    /\ m_Output' = [m_Output EXCEPT ![m_mapIpPortConn'[p]] = @ \cup {posted'}]
    /\ UNCHANGED left

\* sendBin or __onWrite: the kernel takes the oldest packet of a connected connection.
Leave(c) ==
    /\ state[c] = "connected" /\ m_Output[c] # {}
    /\ LET n == CHOOSE k \in m_Output[c] : \A j \in m_Output[c] : k <= j
       IN /\ m_Output' = [m_Output EXCEPT ![c] = @ \ {n}]
          /\ left' = [left EXCEPT ![peer[c]] = n]
    /\ UNCHANGED <<vars, posted>>

WriterNext ==
    \/ \E p \in Peers : send(p)
    \/ \E c \in Conns : Leave(c)
    \/ /\ \/ \E p \in Peers : getConnByIpPort(p) \/ cbAccept(p)
          \/ \E c \in Conns : Connected(c)
          \/ \E e \in LinkEvents : addLE(e) \/ delLE(e)
       /\ UNCHANGED <<posted, m_Output, left>>
    \/ \E c \in Conns : /\ Close(c)
                        /\ m_Output' = [m_Output EXCEPT ![c] = {}]
                        /\ UNCHANGED <<posted, left>>

WriterSpec == WriterInit /\ [][WriterNext]_writerVars

-----------------------------------------------------------------------------
\* Packets for one address leave in the order in which they were sent, whatever
\* connections come and go in between: no packet that still waits is older than one
\* that has left.  The exception is an address whose entry another connection's onClose
\* has erased: its packets are then spread over two connections.
NothingOvertaken ==
    \A c \in Alive : outgoing[c] /\ peer[c] \notin clobbered =>
        \A n \in m_Output[c] : n > left[peer[c]]
=============================================================================
