---------------------------- MODULE ConnManager -----------------------------
(***************************************************************************)
(* CConnManager (libevwork_full/ConnManager.cpp) with the connections whose *)
(* life it follows: outgoing ones made by getConnByIpPort, incoming ones   *)
(* made by CListenConn::cbAccept, and the two maps that lead from a number *)
(* and from an address to a connection.  A connection here is the address  *)
(* of its object, so a freed one may come back as a new connection.        *)
(***************************************************************************)
EXTENDS Integers

CONSTANTS Conns,     \* addresses of CClientConn objects
          Peers,     \* "ip:port" keys
          CidMod,    \* 2^32: the values of a uint32_t connection number
          LinkEvents,\* listeners that addLE may register
          MaxIssued, \* bound: connection numbers given out
          None       \* no connection

ASSUME ConnManagerAssumption ==
    /\ None \notin Conns
    /\ CidMod \in Nat \ {0, 1}
    /\ MaxIssued \in Nat

VARIABLES
    state,           \* state[c]: "free", "connecting" or "connected"
    outgoing,        \* outgoing[c]: was c made by getConnByIpPort?
    peer,            \* peer[c]: the key of getPeerInfo
    cid,             \* cid[c]: m_cid, 0 until onConnected
    m_uLastConnId,
    m_mapCIdConn,    \* from numbers to connections, None where there is no entry
    m_mapIpPortConn, \* from keys to connections
    m_setLE,
    told,            \* history: told[e]: the connections e believes to be open
    issued,          \* history: how many numbers have been given out
    clobbered        \* history: keys whose entry a connection that is not in it erased

vars == <<state, outgoing, peer, cid, m_uLastConnId, m_mapCIdConn, m_mapIpPortConn,
          m_setLE, told, issued, clobbered>>

Cids  == 0..(CidMod - 1)
Alive == {c \in Conns : state[c] # "free"}

TypeOK ==
    /\ state \in [Conns -> {"free", "connecting", "connected"}]
    /\ outgoing \in [Conns -> BOOLEAN]
    /\ peer \in [Conns -> Peers]
    /\ cid \in [Conns -> Cids]
    /\ m_uLastConnId \in Cids
    /\ m_mapCIdConn \in [Cids -> Conns \cup {None}]
    /\ m_mapIpPortConn \in [Peers -> Conns \cup {None}]
    /\ m_setLE \subseteq LinkEvents
    /\ told \in [LinkEvents -> SUBSET Conns]
    /\ issued \in Nat
    /\ clobbered \subseteq Peers

Init ==
    /\ state = [c \in Conns |-> "free"]
    /\ outgoing = [c \in Conns |-> FALSE]
    /\ peer \in {[c \in Conns |-> p] : p \in Peers}
    /\ cid = [c \in Conns |-> 0]
    /\ m_uLastConnId = 1
    /\ m_mapCIdConn = [i \in Cids |-> None]
    /\ m_mapIpPortConn = [p \in Peers |-> None]
    /\ m_setLE = {}
    /\ told = [e \in LinkEvents |-> {}]
    /\ issued = 0
    /\ clobbered = {}

-----------------------------------------------------------------------------
\* onConnected: the next number, the entry for it, and the listeners.
onConnected_Wide(c) ==                                      \* mutant: a counter wider than the number
    /\ issued < MaxIssued
    /\ cid' = [cid EXCEPT ![c] = m_uLastConnId % CidMod]
    /\ m_mapCIdConn' = [m_mapCIdConn EXCEPT ![m_uLastConnId % CidMod] = c]
    /\ m_uLastConnId' = m_uLastConnId + 1
    /\ issued' = issued + 1
    /\ told' = [e \in LinkEvents |-> IF e \in m_setLE THEN told[e] \cup {c} ELSE told[e]]

onConnected_NoIncrement(c) ==                               \* mutant
    /\ issued < MaxIssued
    /\ cid' = [cid EXCEPT ![c] = m_uLastConnId]
    /\ m_mapCIdConn' = [m_mapCIdConn EXCEPT ![m_uLastConnId] = c]
    /\ m_uLastConnId' = m_uLastConnId
    /\ issued' = issued + 1
    /\ told' = [e \in LinkEvents |-> IF e \in m_setLE THEN told[e] \cup {c} ELSE told[e]]

onConnected(c) ==
    /\ issued < MaxIssued
    /\ cid' = [cid EXCEPT ![c] = m_uLastConnId]
    /\ m_mapCIdConn' = [m_mapCIdConn EXCEPT ![m_uLastConnId] = c]
    /\ m_uLastConnId' = (m_uLastConnId + 1) % CidMod
    /\ issued' = issued + 1
    /\ told' = [e \in LinkEvents |-> IF e \in m_setLE THEN told[e] \cup {c} ELSE told[e]]

\* onClose: the listeners, then both entries go, by number and by key.
onClose_ByIdOnly(c) ==                                      \* mutant: the entry by key stays
    /\ told' = [e \in LinkEvents |-> IF e \in m_setLE THEN told[e] \ {c} ELSE told[e]]
    /\ m_mapCIdConn' = [m_mapCIdConn EXCEPT ![cid[c]] = None]
    /\ UNCHANGED <<m_mapIpPortConn, clobbered>>

onClose_IfMapped(c) ==                                      \* mutant: tells of mapped connections only
    /\ told' = [e \in LinkEvents |-> IF e \in m_setLE /\ m_mapCIdConn[cid[c]] = c
                                     THEN told[e] \ {c} ELSE told[e]]
    /\ m_mapCIdConn' = [m_mapCIdConn EXCEPT ![cid[c]] = None]
    /\ m_mapIpPortConn' = [m_mapIpPortConn EXCEPT ![peer[c]] = None]
    /\ clobbered' = IF m_mapIpPortConn[peer[c]] \in {c, None}
                    THEN clobbered ELSE clobbered \cup {peer[c]}

onClose(c) ==
    /\ told' = [e \in LinkEvents |-> IF e \in m_setLE THEN told[e] \ {c} ELSE told[e]]
    /\ m_mapCIdConn' = [m_mapCIdConn EXCEPT ![cid[c]] = None]
    /\ m_mapIpPortConn' = [m_mapIpPortConn EXCEPT ![peer[c]] = None]
    /\ clobbered' = IF m_mapIpPortConn[peer[c]] \in {c, None}
                    THEN clobbered ELSE clobbered \cup {peer[c]}

-----------------------------------------------------------------------------
\* getConnByIpPort for a key without an entry: a new CClientConn, connecting.
getConnByIpPort_Remap(p) ==                                 \* mutant: always a new connection
    \E c \in Conns \ Alive :
        /\ state' = [state EXCEPT ![c] = "connecting"]
        /\ outgoing' = [outgoing EXCEPT ![c] = TRUE]
        /\ peer' = [peer EXCEPT ![c] = p]
        /\ cid' = [cid EXCEPT ![c] = 0]
        /\ m_mapIpPortConn' = [m_mapIpPortConn EXCEPT ![p] = c]
        /\ UNCHANGED <<m_uLastConnId, m_mapCIdConn, m_setLE, told, issued, clobbered>>

getConnByIpPort(p) ==
    /\ m_mapIpPortConn[p] = None
    /\ \E c \in Conns \ Alive :
        /\ state' = [state EXCEPT ![c] = "connecting"]
        /\ outgoing' = [outgoing EXCEPT ![c] = TRUE]
        /\ peer' = [peer EXCEPT ![c] = p]
        /\ cid' = [cid EXCEPT ![c] = 0]
        /\ m_mapIpPortConn' = [m_mapIpPortConn EXCEPT ![p] = c]
    /\ UNCHANGED <<m_uLastConnId, m_mapCIdConn, m_setLE, told, issued, clobbered>>

\* The outgoing connection succeeds (CClientConn::__onWrite).
Connected(c) ==
    /\ state[c] = "connecting"
    /\ state' = [state EXCEPT ![c] = "connected"]
    /\ onConnected(c)
    /\ UNCHANGED <<outgoing, peer, m_mapIpPortConn, m_setLE, clobbered>>

\* cbAccept: a new connection, connected in its constructor.  It is not entered
\* under its key, whatever that key is.
cbAccept(p) ==
    \E c \in Conns \ Alive :
        /\ state' = [state EXCEPT ![c] = "connected"]
        /\ outgoing' = [outgoing EXCEPT ![c] = FALSE]
        /\ peer' = [peer EXCEPT ![c] = p]
        /\ onConnected(c)
        /\ UNCHANGED <<m_mapIpPortConn, m_setLE, clobbered>>

\* Any way a connection ends (CClientConn::__willFreeMyself).
Close(c) ==
    /\ c \in Alive
    /\ state' = [state EXCEPT ![c] = "free"]
    /\ onClose(c)
    /\ UNCHANGED <<outgoing, peer, cid, m_uLastConnId, m_setLE, issued>>

addLE(e) == /\ e \notin m_setLE
            /\ m_setLE' = m_setLE \cup {e}
            /\ UNCHANGED <<state, outgoing, peer, cid, m_uLastConnId, m_mapCIdConn,
                           m_mapIpPortConn, told, issued, clobbered>>

\* A listener that is removed hears nothing more, so it starts from nothing
\* when it is registered again.
delLE(e) == /\ e \in m_setLE
            /\ m_setLE' = m_setLE \ {e}
            /\ told' = [told EXCEPT ![e] = {}]
            /\ UNCHANGED <<state, outgoing, peer, cid, m_uLastConnId, m_mapCIdConn,
                           m_mapIpPortConn, issued, clobbered>>

Next ==
    \/ \E p \in Peers : getConnByIpPort(p) \/ cbAccept(p)
    \/ \E c \in Conns : Connected(c) \/ Close(c)
    \/ \E e \in LinkEvents : addLE(e) \/ delLE(e)

Spec == Init /\ [][Next]_vars

-----------------------------------------------------------------------------
\* getConnById and getConnByIpPort never return a freed connection: every entry
\* of either map is a live connection, and the one its number or its key says.
NoDanglingEntry ==
    /\ \A i \in Cids : m_mapCIdConn[i] # None =>
           m_mapCIdConn[i] \in Alive /\ cid[m_mapCIdConn[i]] = i
    /\ \A p \in Peers : m_mapIpPortConn[p] # None =>
           m_mapIpPortConn[p] \in Alive /\ peer[m_mapIpPortConn[p]] = p

\* Until the uint32_t counter has wrapped, every connected connection is the one
\* its number leads to.  (Number 0 is left out of the first round.)
ReachableById ==
    issued < CidMod =>
        \A c \in Conns : state[c] = "connected" => m_mapCIdConn[cid[c]] = c

\* A live outgoing connection is the one its address leads to, so that a packet
\* for that address does not open a second connection.  The only way to lose it
\* is onClose of another connection with the same address, which erases the
\* entry by its key, whoever it belongs to.
LostOnlyByClobber ==
    \A c \in Alive : outgoing[c] /\ peer[c] \notin clobbered => m_mapIpPortConn[peer[c]] = c

\* A listener never believes a freed connection to be open.
ListenersUpToDate == \A e \in m_setLE : told[e] \subseteq Alive
=============================================================================
