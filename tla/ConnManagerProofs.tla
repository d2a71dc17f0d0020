------------------------- MODULE ConnManagerProofs --------------------------
(***************************************************************************)
(* The invariants of CConnManager for every set of connections, addresses  *)
(* and listeners and every width of the connection number; and CWriter on  *)
(* top of it: the composition keeps what CConnManager promises, and        *)
(* packets for one address do not overtake each other.                     *)
(***************************************************************************)
EXTENDS Writer, WellFoundedInduction, TLAPS

\* An entry by number belongs to a connection that is connected and has that
\* number, an entry by key to a live connection with that key.  NoDanglingEntry
\* alone is not inductive: an entry by number of a connecting connection would
\* survive the end of that connection.
EntriesValid ==
    /\ \A i \in Cids : m_mapCIdConn[i] # None =>
           state[m_mapCIdConn[i]] = "connected" /\ cid[m_mapCIdConn[i]] = i
    /\ \A p \in Peers : m_mapIpPortConn[p] # None =>
           m_mapIpPortConn[p] \in Alive /\ peer[m_mapIpPortConn[p]] = p

\* Before the counter has wrapped, the numbers in use are 1..issued and lead to
\* their connections; a connection that is still connecting has number 0.
NumbersFresh ==
    /\ \A c \in Conns : state[c] = "connecting" => cid[c] = 0
    /\ issued < CidMod - 1 => m_uLastConnId = issued + 1
    /\ issued < CidMod =>
           \A c \in Conns : state[c] = "connected" =>
               cid[c] >= 1 /\ cid[c] <= issued /\ m_mapCIdConn[cid[c]] = c

\* A listener that is not registered has been told of nothing.
ListenersValid ==
    \A e \in LinkEvents : IF e \in m_setLE THEN told[e] \subseteq Alive ELSE told[e] = {}

-----------------------------------------------------------------------------
\* The next number is a number, and the next one until the counter wraps.
LEMMA NextNumber ==
    ASSUME NEW n \in Cids
    PROVE  /\ (n + 1) % CidMod \in Cids
           /\ n + 1 < CidMod => (n + 1) % CidMod = n + 1
  BY ConnManagerAssumption DEF Cids

\* Every variable keeps its type: in particular m_uLastConnId, a uint32_t, wraps.
THEOREM TypeCorrect == Spec => []TypeOK
<1>1. Init => TypeOK
  BY ConnManagerAssumption DEF Init, TypeOK, Cids
<1>2. TypeOK /\ [Next]_vars => TypeOK'
  <2> SUFFICES ASSUME TypeOK, [Next]_vars PROVE TypeOK'
    OBVIOUS
  <2> USE DEF TypeOK
  <2>0. 0 \in Cids /\ (m_uLastConnId + 1) % CidMod \in Cids
    BY NextNumber, ConnManagerAssumption DEF Cids
  <2>1. ASSUME NEW p \in Peers, getConnByIpPort(p) PROVE TypeOK'
    BY <2>0, <2>1 DEF getConnByIpPort, Alive
  <2>2. ASSUME NEW p \in Peers, cbAccept(p) PROVE TypeOK'
    BY <2>0, <2>2 DEF cbAccept, onConnected, Alive
  <2>3. ASSUME NEW c \in Conns, Connected(c) PROVE TypeOK'
    BY <2>0, <2>3 DEF Connected, onConnected
  <2>4. ASSUME NEW c \in Conns, Close(c) PROVE TypeOK'
    BY <2>4 DEF Close, onClose, Alive
  <2>5. ASSUME NEW e \in LinkEvents, addLE(e) PROVE TypeOK'
    BY <2>5 DEF addLE
  <2>6. ASSUME NEW e \in LinkEvents, delLE(e) PROVE TypeOK'
    BY <2>6 DEF delLE
  <2>7. CASE UNCHANGED vars
    BY <2>7 DEF vars
  <2> QED
    BY <2>1, <2>2, <2>3, <2>4, <2>5, <2>6, <2>7 DEF Next
<1> QED
  BY <1>1, <1>2, PTL DEF Spec

\* EntriesValid is inductive.
LEMMA EntriesStep == TypeOK /\ EntriesValid /\ [Next]_vars => EntriesValid'
<1> SUFFICES ASSUME TypeOK, EntriesValid, [Next]_vars PROVE EntriesValid'
  OBVIOUS
<1> USE ConnManagerAssumption DEF TypeOK, EntriesValid, Alive
<1>1. ASSUME NEW p \in Peers, getConnByIpPort(p) PROVE EntriesValid'
  BY <1>1 DEF getConnByIpPort
<1>2. ASSUME NEW p \in Peers, cbAccept(p) PROVE EntriesValid'
  BY <1>2 DEF cbAccept, onConnected
<1>3. ASSUME NEW c \in Conns, Connected(c) PROVE EntriesValid'
  BY <1>3 DEF Connected, onConnected
<1>4. ASSUME NEW c \in Conns, Close(c) PROVE EntriesValid'
  BY <1>4 DEF Close, onClose
<1>5. ASSUME NEW e \in LinkEvents, addLE(e) PROVE EntriesValid'
  BY <1>5 DEF addLE
<1>6. ASSUME NEW e \in LinkEvents, delLE(e) PROVE EntriesValid'
  BY <1>6 DEF delLE
<1>7. CASE UNCHANGED vars
  BY <1>7 DEF vars
<1> QED
  BY <1>1, <1>2, <1>3, <1>4, <1>5, <1>6, <1>7 DEF Next

\* getConnById and getConnByIpPort never return a freed connection, nor one with
\* another number or address than the one asked for.
THEOREM NoDangling == Spec => []NoDanglingEntry
<1>1. Init => EntriesValid
  BY DEF Init, EntriesValid
<1>2. TypeOK /\ EntriesValid => NoDanglingEntry
  BY DEF TypeOK, EntriesValid, NoDanglingEntry, Alive
<1> QED
  BY <1>1, <1>2, EntriesStep, TypeCorrect, PTL DEF Spec

\* A connection that gets its number has one nobody else has.
LEMMA NewNumber ==
    ASSUME TypeOK, NumbersFresh, NEW c \in Conns, state[c] # "connected",
           state' = [state EXCEPT ![c] = "connected"], onConnected(c)
    PROVE  NumbersFresh'
<1> USE ConnManagerAssumption DEF TypeOK, NumbersFresh, onConnected
<1>1. m_uLastConnId + 1 < CidMod => m_uLastConnId' = m_uLastConnId + 1
  BY NextNumber
<1>2. \A d \in Conns : state'[d] = "connecting" => cid'[d] = 0
  OBVIOUS
<1>3. issued' < CidMod - 1 => m_uLastConnId' = issued' + 1
  BY <1>1
<1>4. ASSUME issued' < CidMod, NEW d \in Conns, state'[d] = "connected"
      PROVE  cid'[d] >= 1 /\ cid'[d] <= issued' /\ m_mapCIdConn'[cid'[d]] = d
  <2>1. CASE d = c
    BY <1>4, <2>1 DEF Cids
  <2>2. CASE d # c
    BY <1>4, <2>2 DEF Cids
  <2> QED
    BY <2>1, <2>2
<1> QED
  BY <1>2, <1>3, <1>4

\* NumbersFresh is inductive.
LEMMA NumbersStep == TypeOK /\ EntriesValid /\ NumbersFresh /\ [Next]_vars => NumbersFresh'
<1> SUFFICES ASSUME TypeOK, EntriesValid, NumbersFresh, [Next]_vars PROVE NumbersFresh'
  OBVIOUS
<1> USE ConnManagerAssumption DEF TypeOK, NumbersFresh, Alive
<1>1. ASSUME NEW p \in Peers, getConnByIpPort(p) PROVE NumbersFresh'
  BY <1>1 DEF getConnByIpPort
<1>2. ASSUME NEW p \in Peers, cbAccept(p) PROVE NumbersFresh'
  BY <1>2, NewNumber DEF cbAccept
<1>3. ASSUME NEW c \in Conns, Connected(c) PROVE NumbersFresh'
  BY <1>3, NewNumber DEF Connected
<1>4. ASSUME NEW c \in Conns, Close(c) PROVE NumbersFresh'
  BY <1>4 DEF Close, onClose, Cids
<1>5. ASSUME NEW e \in LinkEvents, addLE(e) PROVE NumbersFresh'
  BY <1>5 DEF addLE
<1>6. ASSUME NEW e \in LinkEvents, delLE(e) PROVE NumbersFresh'
  BY <1>6 DEF delLE
<1>7. CASE UNCHANGED vars
  BY <1>7 DEF vars
<1> QED
  BY <1>1, <1>2, <1>3, <1>4, <1>5, <1>6, <1>7 DEF Next

\* Until the counter has wrapped, onClose of one connection never takes another
\* one out of the map by number: every connected connection stays reachable.
THEOREM Reachable == Spec => []ReachableById
<1>1. Init => EntriesValid /\ NumbersFresh
  BY ConnManagerAssumption DEF Init, EntriesValid, NumbersFresh
<1>2. NumbersFresh => ReachableById
  BY DEF NumbersFresh, ReachableById
<1> QED
  BY <1>1, <1>2, EntriesStep, NumbersStep, TypeCorrect, PTL DEF Spec

\* An outgoing connection is lost from the map by address only through the end of
\* another connection with the same address.
THEOREM OnlyClobber == Spec => []LostOnlyByClobber
<1>1. Init => LostOnlyByClobber
  BY DEF Init, LostOnlyByClobber, Alive
<1>2. TypeOK /\ LostOnlyByClobber /\ [Next]_vars => LostOnlyByClobber'
  <2> SUFFICES ASSUME TypeOK, LostOnlyByClobber, [Next]_vars PROVE LostOnlyByClobber'
    OBVIOUS
  <2> USE ConnManagerAssumption DEF TypeOK, LostOnlyByClobber, Alive
  <2>1. ASSUME NEW p \in Peers, getConnByIpPort(p) PROVE LostOnlyByClobber'
    BY <2>1 DEF getConnByIpPort
  <2>2. ASSUME NEW p \in Peers, cbAccept(p) PROVE LostOnlyByClobber'
    BY <2>2 DEF cbAccept, onConnected
  <2>3. ASSUME NEW c \in Conns, Connected(c) PROVE LostOnlyByClobber'
    BY <2>3 DEF Connected, onConnected
  <2>4. ASSUME NEW c \in Conns, Close(c) PROVE LostOnlyByClobber'
    BY <2>4 DEF Close, onClose
  <2>5. ASSUME NEW e \in LinkEvents, addLE(e) PROVE LostOnlyByClobber'
    BY <2>5 DEF addLE
  <2>6. ASSUME NEW e \in LinkEvents, delLE(e) PROVE LostOnlyByClobber'
    BY <2>6 DEF delLE
  <2>7. CASE UNCHANGED vars
    BY <2>7 DEF vars
  <2> QED
    BY <2>1, <2>2, <2>3, <2>4, <2>5, <2>6, <2>7 DEF Next
<1> QED
  BY <1>1, <1>2, TypeCorrect, PTL DEF Spec

\* No registered listener keeps a connection that has been freed.
THEOREM Listeners == Spec => []ListenersUpToDate
<1>1. Init => ListenersValid
  BY DEF Init, ListenersValid
<1>2. TypeOK /\ ListenersValid /\ [Next]_vars => ListenersValid'
  <2> SUFFICES ASSUME TypeOK, ListenersValid, [Next]_vars PROVE ListenersValid'
    OBVIOUS
  <2> USE DEF TypeOK, ListenersValid, Alive
  <2>1. ASSUME NEW p \in Peers, getConnByIpPort(p) PROVE ListenersValid'
    BY <2>1 DEF getConnByIpPort
  <2>2. ASSUME NEW p \in Peers, cbAccept(p) PROVE ListenersValid'
    BY <2>2 DEF cbAccept, onConnected
  <2>3. ASSUME NEW c \in Conns, Connected(c) PROVE ListenersValid'
    BY <2>3 DEF Connected, onConnected
  <2>4. ASSUME NEW c \in Conns, Close(c) PROVE ListenersValid'
    BY <2>4 DEF Close, onClose
  <2>5. ASSUME NEW e \in LinkEvents, addLE(e) PROVE ListenersValid'
    BY <2>5 DEF addLE
  <2>6. ASSUME NEW e \in LinkEvents, delLE(e) PROVE ListenersValid'
    BY <2>6 DEF delLE
  <2>7. CASE UNCHANGED vars
    BY <2>7 DEF vars
  <2> QED
    BY <2>1, <2>2, <2>3, <2>4, <2>5, <2>6, <2>7 DEF Next
<1>3. TypeOK /\ ListenersValid => ListenersUpToDate
  BY DEF TypeOK, ListenersValid, ListenersUpToDate
<1> QED
  BY <1>1, <1>2, <1>3, TypeCorrect, PTL DEF Spec

-----------------------------------------------------------------------------
\* CWriter.
\* Packets are numbered by the calls of send, so every packet that waits or has left
\* has a number that was given out.
PacketsPosted ==
    /\ posted \in Nat
    /\ m_Output \in [Conns -> SUBSET (1..posted)]
    /\ left \in [Peers -> 0..posted]

\* send goes through the map by address, which leads to outgoing connections only:
\* nothing waits in an incoming connection, nor in a freed one.
OnlyOutgoingHold ==
    /\ \A p \in Peers : m_mapIpPortConn[p] # None => outgoing[m_mapIpPortConn[p]]
    /\ \A c \in Conns : m_Output[c] # {} => c \in Alive /\ outgoing[c]

-----------------------------------------------------------------------------
\* A set of packets that is not empty has an oldest one.
LEMMA OldestExists ==
    ASSUME NEW n \in Nat, NEW S \in SUBSET (1..n), S # {}
    PROVE  \E k \in S : \A j \in S : k <= j
<1>1. S \subseteq Nat
  OBVIOUS
<1>2. PICK k \in S : \A j \in S : ~(<<j, k>> \in OpToRel(<, Nat))
  BY <1>1, WFMin, NatLessThanWellFounded, Zenon
<1>3. \A j \in S : ~(j < k)
  BY <1>1, <1>2 DEF OpToRel
<1> QED
  BY <1>1, <1>3

\* Every step of CWriter is a step of CConnManager or leaves it alone.
LEMMA WriterStep == [WriterNext]_writerVars => [Next]_vars
  BY DEF WriterNext, writerVars, send, Leave, Next

\* CWriter on top of CConnManager behaves as CConnManager does: it makes, connects and
\* ends connections only in the ways CConnManager allows.
THEOREM WriterImplementsConnManager == WriterSpec => Spec
<1>1. WriterInit => Init
  BY DEF WriterInit
<1> QED
  BY <1>1, WriterStep, PTL DEF WriterSpec, Spec

-----------------------------------------------------------------------------
\* The facts of CConnManager the argument needs.
ManagerFacts == TypeOK /\ EntriesValid /\ LostOnlyByClobber

LEMMA ManagerInvariant == WriterSpec => []ManagerFacts
<1>1. Spec => []EntriesValid
  <2>1. Init => EntriesValid
    BY DEF Init, EntriesValid
  <2> QED
    BY <2>1, EntriesStep, TypeCorrect, PTL DEF Spec
<1> QED
  BY <1>1, TypeCorrect, OnlyClobber, WriterImplementsConnManager, PTL DEF ManagerFacts

\* What send does: the packet goes to the live outgoing connection the address leads
\* to, new or not, and no connection that holds packets changes.
LEMMA SendFacts ==
    ASSUME ManagerFacts, OnlyOutgoingHold, NEW p \in Peers, send(p)
    PROVE  \E c \in Conns :
              /\ state'[c] # "free" /\ outgoing'[c] /\ peer'[c] = p
              /\ \A d \in Conns \ {c} : UNCHANGED <<state[d], outgoing[d], peer[d]>>
              /\ c \in Alive => UNCHANGED <<state[c], outgoing[c], peer[c]>>
              /\ m_Output' = [m_Output EXCEPT ![c] = @ \cup {posted'}]
              /\ \A q \in Peers : m_mapIpPortConn'[q] # None => outgoing'[m_mapIpPortConn'[q]]
              /\ posted' = posted + 1 /\ UNCHANGED <<left, clobbered>>
<1> USE ConnManagerAssumption DEF ManagerFacts, TypeOK, EntriesValid, OnlyOutgoingHold, Alive
<1>1. CASE getConnByIpPort(p)
  <2>1. PICK c \in Conns \ Alive :
           /\ state' = [state EXCEPT ![c] = "connecting"]
           /\ outgoing' = [outgoing EXCEPT ![c] = TRUE]
           /\ peer' = [peer EXCEPT ![c] = p]
           /\ m_mapIpPortConn' = [m_mapIpPortConn EXCEPT ![p] = c]
    BY <1>1 DEF getConnByIpPort
  <2>2. m_mapIpPortConn'[p] = c
    BY <2>1
  <2>3. \A q \in Peers : m_mapIpPortConn'[q] # None => outgoing'[m_mapIpPortConn'[q]]
    BY <2>1
  <2>4. UNCHANGED <<left, clobbered>> /\ posted' = posted + 1
        /\ m_Output' = [m_Output EXCEPT ![c] = @ \cup {posted'}]
    BY <1>1, <2>2 DEF send, getConnByIpPort
  <2>5. state'[c] # "free" /\ outgoing'[c] /\ peer'[c] = p /\ c \notin Alive
    BY <2>1
  <2>6. \A d \in Conns \ {c} :
           state'[d] = state[d] /\ outgoing'[d] = outgoing[d] /\ peer'[d] = peer[d]
    BY <2>1
  <2> HIDE DEF ManagerFacts, TypeOK, EntriesValid, OnlyOutgoingHold, Alive
  <2> WITNESS c \in Conns
  <2> QED
    BY <2>3, <2>4, <2>5, <2>6
<1>2. CASE m_mapIpPortConn[p] # None /\ UNCHANGED vars
  <2>0. PICK c \in Conns : c = m_mapIpPortConn[p]
    BY <1>2
  <2>1. state[c] # "free" /\ outgoing[c] /\ peer[c] = p
    BY <1>2, <2>0
  <2>2. /\ UNCHANGED <<left, clobbered>> /\ posted' = posted + 1
        /\ m_Output' = [m_Output EXCEPT ![c] = @ \cup {posted'}]
    BY <1>2, <2>0 DEF send, vars
  <2>3. UNCHANGED <<state, outgoing, peer, m_mapIpPortConn>>
    BY <1>2 DEF vars
  <2>4. \A q \in Peers : m_mapIpPortConn'[q] # None => outgoing'[m_mapIpPortConn'[q]]
    BY <2>3
  <2> HIDE DEF ManagerFacts, TypeOK, EntriesValid, OnlyOutgoingHold, Alive
  <2> WITNESS c \in Conns
  <2> QED
    BY <2>1, <2>2, <2>3, <2>4
<1> QED
  BY <1>1, <1>2 DEF send

\* PacketsPosted and OnlyOutgoingHold make NothingOvertaken inductive.
WriterInv == PacketsPosted /\ OnlyOutgoingHold /\ NothingOvertaken

LEMMA SendStep ==
    ASSUME ManagerFacts, WriterInv, NEW p \in Peers, send(p) PROVE WriterInv'
<1>1. PICK c \in Conns :
              /\ state'[c] # "free" /\ outgoing'[c] /\ peer'[c] = p
              /\ \A d \in Conns \ {c} : UNCHANGED <<state[d], outgoing[d], peer[d]>>
              /\ c \in Alive => UNCHANGED <<state[c], outgoing[c], peer[c]>>
              /\ m_Output' = [m_Output EXCEPT ![c] = @ \cup {posted'}]
              /\ \A q \in Peers : m_mapIpPortConn'[q] # None => outgoing'[m_mapIpPortConn'[q]]
              /\ posted' = posted + 1 /\ UNCHANGED <<left, clobbered>>
  BY SendFacts DEF WriterInv
<1>2. PacketsPosted'
  BY <1>1 DEF WriterInv, PacketsPosted
<1>3. OnlyOutgoingHold'
  BY <1>1 DEF WriterInv, PacketsPosted, OnlyOutgoingHold, Alive
<1>4. NothingOvertaken'
  <2> SUFFICES ASSUME NEW d \in Conns, state'[d] # "free", outgoing'[d], peer'[d] \notin clobbered',
                      NEW n \in m_Output'[d]
               PROVE  n > left'[peer'[d]]
    BY DEF NothingOvertaken, Alive
  <2>1. CASE n \in m_Output[d]
    <3>1. d \in Alive /\ outgoing[d]
      BY <2>1 DEF WriterInv, OnlyOutgoingHold
    <3>2. peer'[d] = peer[d] /\ peer[d] \notin clobbered
      BY <1>1, <3>1
    <3> QED
      BY <1>1, <2>1, <3>1, <3>2 DEF WriterInv, NothingOvertaken
  <2>2. CASE n \notin m_Output[d]
    <3>1. d = c /\ n = posted + 1 /\ peer'[d] = p
      BY <1>1, <2>2 DEF WriterInv, PacketsPosted
    <3> QED
      BY <1>1, <3>1 DEF WriterInv, PacketsPosted
  <2> QED
    BY <2>1, <2>2
<1> QED
  BY <1>2, <1>3, <1>4 DEF WriterInv

\* A packet that leaves is the oldest of its connection, and no other live outgoing
\* connection leads to its address unless the address has been clobbered.
LEMMA LeaveStep ==
    ASSUME ManagerFacts, WriterInv, NEW c \in Conns, Leave(c) PROVE WriterInv'
<1> DEFINE n == CHOOSE k \in m_Output[c] : \A j \in m_Output[c] : k <= j
<1>1. /\ state[c] = "connected" /\ m_Output[c] # {} /\ UNCHANGED <<vars, posted>>
      /\ m_Output' = [m_Output EXCEPT ![c] = @ \ {n}]
      /\ left' = [left EXCEPT ![peer[c]] = n]
  BY DEF Leave
<1>2. posted \in Nat /\ m_Output[c] \in SUBSET (1..posted)
  BY DEF WriterInv, PacketsPosted
<1>3. n \in m_Output[c] /\ \A j \in m_Output[c] : n <= j
  BY <1>1, <1>2, OldestExists
<1> HIDE DEF n
<1>4. UNCHANGED <<state, outgoing, peer, m_mapIpPortConn, clobbered, Alive>>
  BY <1>1 DEF vars, Alive
<1>5. c \in Alive /\ outgoing[c] /\ peer[c] \in Peers
  BY <1>1 DEF WriterInv, OnlyOutgoingHold, ManagerFacts, TypeOK
<1>6. PacketsPosted'
  BY <1>1, <1>2, <1>3, <1>5 DEF WriterInv, PacketsPosted
<1>7. OnlyOutgoingHold'
  BY <1>1, <1>2, <1>4 DEF WriterInv, PacketsPosted, OnlyOutgoingHold
<1>8. NothingOvertaken'
  <2> SUFFICES ASSUME NEW d \in Alive, outgoing[d], peer[d] \notin clobbered, NEW k \in m_Output'[d]
               PROVE  k > left'[peer[d]]
    BY <1>4 DEF NothingOvertaken
  <2>1. peer[d] \in Peers /\ d \in Conns
    BY DEF ManagerFacts, TypeOK, Alive
  <2>2. CASE d = c
    BY <1>1, <1>2, <1>3, <1>5, <2>2 DEF WriterInv, PacketsPosted
  <2>3. CASE d # c
    <3>1. peer[d] # peer[c]
      BY <1>5, <2>3 DEF ManagerFacts, LostOnlyByClobber
    <3>2. k \in m_Output[d] /\ left'[peer[d]] = left[peer[d]]
      BY <1>1, <1>5, <2>1, <2>3, <3>1 DEF WriterInv, PacketsPosted
    <3> QED
      BY <3>2 DEF WriterInv, NothingOvertaken
  <2> QED
    BY <2>2, <2>3
<1> QED
  BY <1>6, <1>7, <1>8 DEF WriterInv

LEMMA WriterInvStep ==
    ManagerFacts /\ WriterInv /\ [WriterNext]_writerVars => WriterInv'
<1> SUFFICES ASSUME ManagerFacts, WriterInv, [WriterNext]_writerVars PROVE WriterInv'
  OBVIOUS
<1> DEFINE Keep == UNCHANGED <<posted, m_Output, left>>
<1>1. ASSUME NEW p \in Peers, send(p) PROVE WriterInv'
  BY <1>1, SendStep
<1>2. ASSUME NEW c \in Conns, Leave(c) PROVE WriterInv'
  BY <1>2, LeaveStep
<1>a. Keep => PacketsPosted'
  BY DEF WriterInv, PacketsPosted
<1> USE ConnManagerAssumption DEF ManagerFacts, TypeOK, EntriesValid, OnlyOutgoingHold, NothingOvertaken, Alive
<1>3. ASSUME NEW p \in Peers, getConnByIpPort(p), Keep PROVE WriterInv'
  BY <1>3, <1>a DEF WriterInv, getConnByIpPort
<1>4. ASSUME NEW p \in Peers, cbAccept(p), Keep PROVE WriterInv'
  BY <1>4, <1>a DEF WriterInv, cbAccept
<1>5. ASSUME NEW c \in Conns, Connected(c), Keep PROVE WriterInv'
  BY <1>5, <1>a DEF WriterInv, Connected
<1>6. ASSUME NEW e \in LinkEvents, addLE(e) \/ delLE(e), Keep PROVE WriterInv'
  BY <1>6, <1>a DEF WriterInv, addLE, delLE
<1>7. ASSUME NEW c \in Conns, Close(c), m_Output' = [m_Output EXCEPT ![c] = {}],
             UNCHANGED <<posted, left>>
      PROVE  WriterInv'
  <2>1. PacketsPosted'
    BY <1>7 DEF WriterInv, PacketsPosted
  <2> QED
    BY <1>7, <2>1 DEF WriterInv, PacketsPosted, Close, onClose
<1>8. CASE UNCHANGED writerVars
  BY <1>8, <1>a DEF WriterInv, writerVars, vars
<1> QED
  BY <1>1, <1>2, <1>3, <1>4, <1>5, <1>6, <1>7, <1>8 DEF WriterNext

\* Packets for one address leave in the order of the calls of send, whatever
\* connections come and go in between, unless another connection's onClose has erased the
\* address's entry.
THEOREM SentInOrder == WriterSpec => []NothingOvertaken
<1>1. WriterInit => WriterInv
  <2> SUFFICES ASSUME WriterInit PROVE WriterInv
    OBVIOUS
  <2>1. PacketsPosted /\ \A c \in Conns : m_Output[c] = {}
    BY DEF WriterInit, PacketsPosted
  <2>2. OnlyOutgoingHold
    BY <2>1 DEF WriterInit, Init, OnlyOutgoingHold
  <2>3. NothingOvertaken
    BY <2>1 DEF NothingOvertaken, Alive
  <2> QED
    BY <2>1, <2>2, <2>3 DEF WriterInv
<1>2. WriterInv => NothingOvertaken
  BY DEF WriterInv
<1> QED
  BY <1>1, <1>2, WriterInvStep, ManagerInvariant, PTL DEF WriterSpec
=============================================================================
