------------------------------- MODULE Robots -------------------------------
(***************************************************************************)
(* The robot client of libevwork_using/sample: it keeps robots waiting in  *)
(* a queue for each game server, starts them one by one (Client.cpp,       *)
(* Config.cpp), plays, and disconnects them one by one (main.cpp,          *)
(* LinkEV.cpp).  The callbacks of one event loop share the tables of       *)
(* g_args.  `w` is g_args with the objects its pointers lead to; a handler *)
(* is an operator from w to w, so that one can call another the way the    *)
(* code does.  The game server and Redis are external.                     *)
(***************************************************************************)
EXTENDS Integers, Sequences, FiniteSets, SequencesExt

CONSTANTS Uids,        \* robots the configuration may name
          NumVids,     \* game servers: their vid is 1..NumVids
          Home,        \* the vid in whose list of uids a robot is: of one list only, a
                       \* uid listed twice (parse_cfg would queue it twice) is left out
          Reads,       \* sets of robots a reading of the configuration and of Redis may yield
          Fds,         \* descriptors that Client::m_fd can hold; bounds the robots online
          WideFds,     \* descriptors that it cannot hold
          MaxReloads   \* bound on the runs of the daily __cbTimerParseCfg

\* Client::m_fd is a short, while main raises the limit of descriptors.
short(fd) == ((fd + 2^15) % 2^16) - 2^15

ASSUME RobotsAssumption ==
    /\ IsFiniteSet(Uids) /\ IsFiniteSet(Fds)
    /\ Fds \subseteq {fd \in Nat : short(fd) = fd}
    /\ WideFds \subseteq {fd \in Nat : short(fd) # fd}
    /\ Reads \subseteq SUBSET Uids
    /\ NumVids \in Nat \ {0} /\ MaxReloads \in Nat
    /\ Home \in [Uids -> 1..NumVids]

VARIABLES
    w,            \* g_args, the clients and the connections
    quitLater,    \* set by SIGUSR1
    reloads,      \* number of reloads
    exited        \* the process ended in __cbTimerMonitor

vars == <<w, quitLater, reloads, exited>>

None == -1                             \* no entry
Null == 0                              \* an entry that is a NULL pointer
Vids == 0..NumVids                     \* robots[uid] makes up a robot of vid 0
Objs == 1..Cardinality(Fds)            \* addresses of clients and of connections
Free(objects) == Objs \ DOMAIN objects
Fresh(objects) == CHOOSE o \in Free(objects) : \A p \in Free(objects) : o <= p
In(e, s) == \E i \in 1..Len(s) : s[i] = e

Requests == {"login", "ready", "logout"}
Clients == [uid : Uids, fd : Fds, conn : Objs,
            login : BOOLEAN, ready : BOOLEAN, logout : BOOLEAN,   \* timers under way
            playing : BOOLEAN]
Conns == [fd : Fds, open : BOOLEAN,
          req : SUBSET Requests,                            \* sent, not yet answered
          seat : {"out", "in", "ready", "playing"}]         \* what the server made of it
Faults == {"none",                     \* what ends the program, and every behaviour here:
           "null", "freed",            \*   a table leads to NULL or to a deleted object
           "erase",                    \*   the front of an empty vector is erased
           "send",                     \*   a client is used after its send has deleted it
           "wide",                     \*   see NewClient
           "connect", "redis"}         \*   see AddUserFails

TypeOK ==
    /\ w.queues \in [Vids -> [uids : Seq(Uids), dels : Seq(Fds)]]
    /\ w.robots \in [Uids -> Vids \cup {None}] /\ w.last \subseteq Uids
    /\ w.cmap \in [Fds -> Objs \cup {None}]
    /\ w.conMap \in [Fds -> Objs \cup {None, Null}]
    /\ \A c \in DOMAIN w.client : c \in Objs /\ w.client[c] \in Clients
    /\ \A p \in DOMAIN w.conn : p \in Objs /\ w.conn[p] \in Conns
    /\ w.fault \in Faults
    /\ quitLater \in BOOLEAN /\ exited \in BOOLEAN /\ reloads \in 0..MaxReloads

Running == ~exited /\ w.fault = "none"
New(objects, o, r) == [p \in DOMAIN objects \cup {o} |-> IF p = o THEN r ELSE objects[p]]
Delete(objects, o) == Restrict(objects, DOMAIN objects \ {o})
NoObjects == [o \in {} |-> None]

Nothing == [queues |-> [v \in Vids |-> [uids |-> <<>>, dels |-> <<>>]],
            robots |-> [uid \in Uids |-> None], last |-> {},
            cmap |-> [fd \in Fds |-> None], conMap |-> [fd \in Fds |-> None],
            client |-> NoObjects, conn |-> NoObjects, fault |-> "none"]

-----------------------------------------------------------------------------
\* Parts of handlers.

\* The program has crashed: nothing is left of what it knew.
Crash(why) == [Nothing EXCEPT !.fault = why]

\* g_args.robots[uid], which makes an entry of vid 0 where there is none.
Known(x, uid) == IF x.robots[uid] = None THEN [x EXCEPT !.robots[uid] = 0] ELSE x

DeleteClient_Forgets(x, c) ==          \* mutant: the robot does not queue up again
    [x EXCEPT !.cmap[x.client[c].fd] = None, !.client = Delete(@, c)]
\* Client::~Client: the robot queues up again if it is still configured.
DeleteClient(x, c) ==
    LET r == x.client[c]
        x1 == [x EXCEPT !.cmap[r.fd] = None, !.client = Delete(@, c)]
    IN IF x.robots[r.uid] = None THEN x1
       ELSE [x1 EXCEPT !.queues[x.robots[r.uid]].uids = Append(@, r.uid)]

\* The first kill queue that holds fd loses it.
Unqueue_Not(queues, fd) == queues      \* mutant: the kill queues are left alone
Unqueue(queues, fd) ==
    LET has == {v \in Vids : In(fd, queues[v].dels)}
        v == CHOOSE u \in has : \A t \in has : u <= t
    IN IF has = {} THEN queues ELSE [queues EXCEPT ![v].dels = RemoveFirst(@, fd)]

OnClose_KeepsEntry(x, p) ==            \* mutant: conMap.erase missing
    LET fd == x.conn[p].fd IN [DeleteClient(x, x.cmap[fd]) EXCEPT !.queues = Unqueue(@, fd)]
\* LinkEV::onClose.
OnClose(x, p) ==
    LET fd == x.conn[p].fd
    IN IF x.cmap[fd] = None THEN Crash("null")
       ELSE IF x.cmap[fd] \notin DOMAIN x.client THEN Crash("freed")
       ELSE [DeleteClient(x, x.cmap[fd]) EXCEPT !.conMap[fd] = None, !.queues = Unqueue(@, fd)]

\* CClientConn::~CClientConn: the listeners hear of it before the descriptor is closed.
DeleteConn(x, p) == IF p \notin DOMAIN x.conn THEN Crash("freed")
                    ELSE [OnClose(x, p) EXCEPT !.conn = Delete(@, p)]

\* The macro sendData with a send that the kernel takes, or that waits in m_strOutput.
SendData(x, c, request) ==
    LET fd == x.client[c].fd
        p  == x.conMap[fd]
    IN IF p \in {None, Null} THEN [x EXCEPT !.conMap[fd] = Null]
       ELSE IF p \notin DOMAIN x.conn THEN Crash("freed")
       ELSE [x EXCEPT !.conn[p].req = @ \cup {request}]

\* sendBin deletes the connection when ::send fails, and with it the client whose
\* method is running.
CanFail(x, c) == LET p == x.conMap[x.client[c].fd] IN p \in DOMAIN x.conn /\ x.conn[p].open

\* Client::__disConnectLater.
DisConnectLater(x, c) ==
    LET r == x.client[c]
        x1 == Known(x, r.uid)
        v == x1.robots[r.uid]
    IN IF In(r.fd, x1.queues[v].dels) THEN x1
       ELSE [x1 EXCEPT !.queues[v].dels = Append(@, r.fd)]

\* Client::Client for the robot at the front of queue v, on descriptor fd.  When m_fd cannot
\* hold fd the client is filed in cmap under another number, and the next event of its
\* connection, connected or closed, reads through a NULL client (LinkEV.cpp:19 and 37); what
\* the other callbacks do until then is not followed.
NewClient(x, v, fd) ==
    LET uid == Head(x.queues[v].uids)
        x1  == Known(x, uid)
        u   == x1.robots[uid]
        p   == Fresh(x.conn)
        c   == Fresh(x.client)
    IN IF x1.queues[u].uids = <<>> THEN Crash("erase")
       ELSE IF short(fd) # fd THEN Crash("wide")
       ELSE [x1 EXCEPT !.queues[u].uids = Tail(@),
                       !.conn = New(@, p, [fd |-> fd, open |-> FALSE, req |-> {}, seat |-> "out"]),
                       !.client = New(@, c, [uid |-> uid, fd |-> fd, conn |-> p, login |-> TRUE,
                                             ready |-> FALSE, logout |-> FALSE, playing |-> FALSE]),
                       !.cmap[fd] = c]

-----------------------------------------------------------------------------
\* Configuration.

Shuffles(s) == {[i \in 1..Len(s) |-> s[f[i]]] : f \in Bijection(1..Len(s), 1..Len(s))}

\* parse_cfg when the robots in `read` are configured and could be read from Redis:
\* every configured queue starts empty, robots that were not read the last time are
\* put into theirs, and robots that are no more are taken out of the queues.  The
\* queues are shuffled afterwards, so the order they have here does not matter.
Load(x, read) ==
    LET new(v) == SetToSeq({uid \in read \ x.last : Home[uid] = v})
        kept == SetToSeq({i \in 1..Len(x.queues[0].uids) : x.queues[0].uids[i] \in read})
    IN [x EXCEPT !.queues = [v \in Vids |->
                     IF v = 0 THEN [uids |-> [i \in 1..Len(kept) |-> x.queues[0].uids[kept[i]]],
                                    dels |-> x.queues[0].dels]
                     ELSE [uids |-> new(v), dels |-> <<>>]],
                 !.robots = [uid \in Uids |-> IF uid \in read THEN Home[uid] ELSE None],
                 !.last = read]

\* ... and its last loop, which shuffles the queues.
Shuffled(x) ==
    LET uids == UNION {Shuffles(x.queues[v].uids) : v \in Vids}
        shuffle(q) == [v \in Vids |-> [x.queues[v] EXCEPT !.uids = q[v]]]
    IN {[x EXCEPT !.queues = shuffle(q)] :
            q \in {f \in [Vids -> uids] : \A v \in Vids : f[v] \in Shuffles(x.queues[v].uids)}}

Init ==
    /\ \E read \in Reads : w \in Shuffled(Load(Nothing, read))
    /\ quitLater = FALSE /\ reloads = 0 /\ exited = FALSE

\* __cbTimerParseCfg.
Reload ==
    /\ Running /\ reloads < MaxReloads
    /\ \E read \in Reads : w' \in Shuffled(Load(w, read))
    /\ reloads' = reloads + 1
    /\ UNCHANGED <<quitLater, exited>>

-----------------------------------------------------------------------------
\* The timers and the signal of main.cpp.

\* pickOneRichRobot: the first k robots of queue v are poor, or Redis does not say, and
\* go to its end; the next one, if there is one, is rich.
Poor(x, v, k) == [x EXCEPT !.queues[v].uids = SubSeq(@, k + 1, Len(@)) \o SubSeq(@, 1, k)]

\* One round of the loop of __cbTimerAddUser.
StartOne(x, v, k, fd) ==
    IF x.fault # "none" THEN x
    ELSE IF k = Len(x.queues[v].uids) THEN Poor(x, v, k)
    ELSE NewClient(Poor(x, v, k), v, fd)

Starts(k) == {v \in 1..NumVids : k[v] < Len(w.queues[v].uids)}

\* __cbTimerAddUser.  Once quitLater is set it only stops its timer.
AddUser ==
    /\ Running /\ ~quitLater
    /\ \E k \in [1..NumVids -> 0..Cardinality(Uids)], fd \in [1..NumVids -> Fds \cup WideFds] :
          /\ \A v \in 1..NumVids : k[v] <= Len(w.queues[v].uids)
          /\ \A v \in Starts(k) : \A p \in DOMAIN w.conn : w.conn[p].fd # fd[v]
          /\ \A u, v \in Starts(k) : fd[u] = fd[v] => u = v
          /\ LET after[v \in Vids] == IF v = 0 THEN {w}      \* no robot is picked for vid 0
                     ELSE {StartOne(x, v, k[v], fd[v]) : x \in after[v - 1]}
             IN w' \in after[NumVids]
    /\ UNCHANGED <<quitLater, reloads, exited>>

\* connect fails at once: the watcher is started with descriptor -1, onClose finds no
\* client, the client is deleted and used.  Or Redis hangs up: CRedisClient::command
\* reads the error text through the pointer __commPrepareReply has just set to NULL.
AddUserFails ==
    /\ Running /\ ~quitLater
    /\ \E v \in 1..NumVids : w.queues[v].uids # <<>>
    /\ \E why \in {"connect", "redis"} : w' = Crash(why)
    /\ UNCHANGED <<quitLater, reloads, exited>>

\* One round of the loop of __cbTimerDisconnect.
KillOne(x, v) ==
    IF x.fault # "none" \/ x.queues[v].dels = <<>> THEN x
    ELSE LET fd == Head(x.queues[v].dels)
         IN IF x.conMap[fd] \in {None, Null}
            THEN [x EXCEPT !.conMap[fd] = Null, !.queues[v].dels = Tail(@)]
            ELSE DeleteConn(x, x.conMap[fd])

\* __cbTimerDisconnect.
Disconnect ==
    /\ Running /\ \E v \in Vids : w.queues[v].dels # <<>>
    /\ LET after[v \in Vids] == {KillOne(x, v) : x \in IF v = 0 THEN {w} ELSE after[v - 1]}
       IN w' \in after[NumVids]
    /\ UNCHANGED <<quitLater, reloads, exited>>

\* __cbTimerMonitor, where it does more than log.
Monitor ==
    /\ Running /\ quitLater /\ \A fd \in Fds : w.cmap[fd] = None
    /\ exited' = TRUE
    /\ UNCHANGED <<w, quitLater, reloads>>

CancelReady_All(x, c) == DisConnectLater(SendData(x, c, "logout"), c)      \* mutant: m_playing
\* Client::cancelReady.
CancelReady(x, c) == IF x.client[c].playing THEN x ELSE DisConnectLater(SendData(x, c, "logout"), c)

\* sigusr1_handler, between two callbacks of the loop.  A send that fails deletes the
\* client while the handler walks cmap.
Sigusr1 ==
    /\ Running
    /\ quitLater' = TRUE
    /\ LET cancel(x, fd) == IF x.fault # "none" \/ fd \notin Fds \/ x.cmap[fd] = None THEN x
                            ELSE CancelReady(x, x.cmap[fd])
           after[fd \in 0..Max(Fds \cup {0})] ==      \* the order of a std::map
               {cancel(x, fd) : x \in IF fd = 0 THEN {w} ELSE after[fd - 1]}
       IN \/ w' \in after[Max(Fds \cup {0})]
          \/ /\ \E c \in DOMAIN w.client : ~w.client[c].playing /\ CanFail(w, c)
             /\ w' = Crash("send")
    /\ UNCHANGED <<reloads, exited>>

-----------------------------------------------------------------------------
\* The timers of a client.  Heartbeats, actions and cards are only sent: when that
\* fails, or a READY or LOGOUT cannot be sent, the connection ends as in ConnLost.

\* Client::__doLogin, which goes on to use the client after it has sent.
DoLogin(x, c) ==
    LET r == x.client[c]
        x1 == [x EXCEPT !.client[c].login = FALSE]
    IN IF x.conMap[r.fd] = None
       THEN {DisConnectLater([x1 EXCEPT !.conMap[r.fd] = r.conn], c)}
       ELSE {SendData(Known(x1, r.uid), c, "login")} \cup
            (IF CanFail(x, c) THEN {Crash("send")} ELSE {})

TimerLogin(c) ==
    /\ Running /\ w.client[c].login
    /\ w' \in DoLogin(w, c)
    /\ UNCHANGED <<quitLater, reloads, exited>>

TimerReady(c) ==
    /\ Running /\ w.client[c].ready
    /\ w' = SendData([w EXCEPT !.client[c].ready = FALSE], c, "ready")
    /\ UNCHANGED <<quitLater, reloads, exited>>

TimerLogout(c) ==
    /\ Running /\ w.client[c].logout
    /\ w' = SendData([w EXCEPT !.client[c].logout = FALSE], c, "logout")
    /\ UNCHANGED <<quitLater, reloads, exited>>

-----------------------------------------------------------------------------
\* What the event loop finds out about a connection.

\* CClientConn::__onWrite, first call, and LinkEV::onConnected.
Connected(p) ==
    /\ Running /\ ~w.conn[p].open
    /\ LET fd == w.conn[p].fd
           x == [w EXCEPT !.conn[p].open = TRUE, !.conMap[fd] = p]
       IN w' = IF w.cmap[fd] = None THEN Crash("null") ELSE x
    /\ UNCHANGED <<quitLater, reloads, exited>>

\* connect fails, the peer closes or resets, or no data came for uConnTimeout.
ConnLost(p) ==
    /\ Running
    /\ w' = DeleteConn(w, p)
    /\ UNCHANGED <<quitLater, reloads, exited>>

findClientByfd(fd) == w.cmap[fd]

\* A packet for the client of connection p, handled as h(client); seat and req are the
\* server's side of it.  findClientByfd may return NULL.
Packet(p, answered, seat, h(_, _)) ==
    LET x == [w EXCEPT !.conn[p].req = @ \ answered, !.conn[p].seat = seat]
        c == findClientByfd(w.conn[p].fd)
    IN w' \in IF c = None THEN {Crash("null")} ELSE h(x, c)

\* Where cbTableInfo finds the robot when it has entered.  The server may put one whose
\* connection was lost in the middle of a round, of this process or of an earlier one, back
\* into it: cbTableInfo takes its cards over and ends the trust, and m_playing stays false.
TableInfo == {"in", "playing"}

\* cbEnterRoom: code 0, another code, or the failure that cbEnterRoomFail handles.
EnterRoom(p) ==
    /\ Running /\ w.conn[p].open /\ "login" \in w.conn[p].req
    /\ \/ \E seat \in TableInfo :
              Packet(p, {"login"}, seat, LAMBDA x, c :
                  {[x EXCEPT !.client[c].ready = TRUE], Crash("send")})
       \/ Packet(p, {"login"}, "out", LAMBDA x, c : {x, DisConnectLater(x, c)})
    /\ UNCHANGED <<quitLater, reloads, exited>>

\* cbEnterRoom again: the reply is a broadcast, and cbEnterRoom does not look whose entry
\* it is about.
OtherEnters(p) ==
    /\ Running /\ w.conn[p].open /\ w.conn[p].seat # "out"
    /\ Packet(p, {}, w.conn[p].seat, LAMBDA x, c :
          {[x EXCEPT !.client[c].ready = TRUE], Crash("send")})
    /\ UNCHANGED <<quitLater, reloads, exited>>

\* cbReady for the own uid; cbReadyFail and cbChangeTableFail.
ReadyReply(p) ==
    /\ Running /\ w.conn[p].open /\ "ready" \in w.conn[p].req
    /\ \E seat \in IF w.conn[p].seat = "in" THEN {"in", "ready"} ELSE {w.conn[p].seat} :
          Packet(p, {"ready"}, seat, LAMBDA x, c : {[x EXCEPT !.client[c].logout = TRUE]})
    /\ UNCHANGED <<quitLater, reloads, exited>>

\* cbInitHandCards.
InitHandCards(p) ==
    /\ Running /\ w.conn[p].open /\ w.conn[p].seat = "ready"
    /\ Packet(p, {}, "playing", LAMBDA x, c :
          {[x EXCEPT !.client[c].playing = TRUE, !.client[c].logout = FALSE]})
    /\ UNCHANGED <<quitLater, reloads, exited>>

AfterRound_Stays(x, c) ==              \* mutant: g_args.quitLater is not looked at
    {[x EXCEPT !.client[c].logout = TRUE], [x EXCEPT !.client[c].ready = TRUE]}
\* The robot leaves, by chance or because of the signal, or gets ready again.
AfterRound(x, c) ==
    {[x EXCEPT !.client[c].logout = TRUE]} \cup
    (IF quitLater THEN {} ELSE {[x EXCEPT !.client[c].ready = TRUE]})

\* cbNextRound.
NextRound(p) ==
    /\ Running /\ w.conn[p].open /\ w.conn[p].seat = "playing"
    /\ Packet(p, {}, "in", LAMBDA x, c : AfterRound([x EXCEPT !.client[c].playing = FALSE], c))
    /\ UNCHANGED <<quitLater, reloads, exited>>

\* cbLogoutOK for the own uid, which does not look at m_playing.  In a round the server
\* may refuse.
LogoutReply(p) ==
    /\ Running /\ w.conn[p].open /\ "logout" \in w.conn[p].req
    /\ \/ w.conn[p].seat = "playing" /\ Packet(p, {"logout"}, "playing", LAMBDA x, c : {x})
       \/ Packet(p, {"logout"}, "out", LAMBDA x, c : {DisConnectLater(x, c)})
    /\ UNCHANGED <<quitLater, reloads, exited>>

-----------------------------------------------------------------------------
Answer(p) == EnterRoom(p) \/ ReadyReply(p) \/ NextRound(p) \/ LogoutReply(p)

Next ==
    \/ Reload \/ AddUser \/ AddUserFails \/ Disconnect \/ Monitor \/ Sigusr1
    \/ \E c \in DOMAIN w.client : TimerLogin(c) \/ TimerReady(c) \/ TimerLogout(c)
    \/ \E p \in DOMAIN w.conn : Connected(p) \/ ConnLost(p) \/ InitHandCards(p)
                              \/ OtherEnters(p) \/ Answer(p)

Spec == Init /\ [][Next]_vars

\* A connection that ends by itself: connect fails, or nothing more is to be expected, and
\* the server or the timer of uConnTimeout ends it.
Settled(p) ==
    \/ ~w.conn[p].open
    \/ /\ w.conn[p].req = {} /\ w.conn[p].seat = "out"
       /\ \A c \in DOMAIN w.client : w.client[c].conn = p => ~w.client[c].login

\* What the loop does next for a client: a timer of it runs, its connection attempt ends,
\* the server answers or ends the round, or its silent connection ends.
Due(c) ==
    LET p == w.client[c].conn
    IN \/ TimerLogin(c) \/ TimerReady(c) \/ TimerLogout(c)
       \/ Connected(p) \/ Answer(p) \/ (Settled(p) /\ ConnLost(p))

\* The timers of main.cpp run, and what is due for a client happens in the end.  Only the
\* time between the signal and a reload matters for what is promised.
Leaving == quitLater /\ reloads = 0
Fairness ==
    /\ WF_vars(Leaving /\ Disconnect) /\ WF_vars(Leaving /\ Monitor)
    /\ \A c \in Objs : WF_vars(Leaving /\ c \in DOMAIN w.client /\ Due(c))

FairSpec == Spec /\ Fairness

-----------------------------------------------------------------------------
\* The tables never lie: an entry of cmap is the living client on that descriptor, an
\* entry of conMap the living connection on it, and a connection has its client, so
\* that no callback finds NULL or a deleted object there.  That is so as long as every
\* descriptor fits into Client::m_fd; the first that does not ends in the fault "wide".
TablesMatch ==
    /\ w.fault \notin {"null", "freed", "erase"}
    /\ w.fault = "none" => \A fd \in Fds :
          /\ w.cmap[fd] # None => /\ w.cmap[fd] \in DOMAIN w.client
                                  /\ w.client[w.cmap[fd]].fd = fd
          /\ w.conMap[fd] \in Objs => /\ w.conMap[fd] \in DOMAIN w.conn
                                       /\ w.conn[w.conMap[fd]].fd = fd
          /\ \A p \in DOMAIN w.conn : w.conn[p].fd = fd => w.cmap[fd] # None

\* Until the configuration is read again, a robot that was read is in one place: once
\* in the queue of its server, or online as one client.  (Load empties the queues and
\* fills in only robots that are new, so a robot that waits at a reload is gone.  That a
\* uid is in the list of one server is assumed, see Home.)
RobotsConserved ==
    w.fault = "none" /\ reloads = 0 =>
        \A uid \in w.last :
            LET q == w.queues[Home[uid]].uids
            IN Cardinality({i \in 1..Len(q) : q[i] = uid})
               + Cardinality({c \in DOMAIN w.client : w.client[c].uid = uid}) = 1

\* A descriptor waits to be disconnected in one queue and once, and only as long as the
\* connection lives that was meant: the descriptor's next owner does not inherit it.  One
\* reload does not change that.  After a second one, which brings back a robot the first
\* had left out, the descriptor may wait in two queues and onClose clears only one.
KillsAreMeant ==
    w.fault = "none" /\ reloads <= 1 =>
        \A v \in Vids : \A i \in 1..Len(w.queues[v].dels) :
            LET fd == w.queues[v].dels[i] IN
            /\ w.cmap[fd] # None
            /\ \A u \in Vids : \A j \in 1..Len(w.queues[u].dels) :
                   w.queues[u].dels[j] = fd => u = v /\ i = j

\* A robot that was dealt its cards in this connection (m_playing) finishes the round: no
\* step, neither the signal nor an answer that comes late, puts it into a kill queue
\* unless the server has let it go, which cbLogoutOK does not question.  Two players are
\* not spared, whatever Client.cpp:426 says ("the robots that are playing finish and then
\* leave"): one that was put into a kill queue before its round began, and one that took
\* a round up again and has m_playing false.
Doomed(x, c) == \E v \in Vids : In(x.client[c].fd, x.queues[v].dels)
LetGo(x, c) == x.conn[x.client[c].conn].seat = "out"
PlayersFinish ==
    [][\A c \in DOMAIN w.client \cap DOMAIN w'.client :
          w.client[c].playing /\ ~Doomed(w, c) /\ Doomed(w', c) => LetGo(w', c)]_vars

\* After the signal the process ends: rounds are played to their end, everybody leaves,
\* and the monitor finds nobody online.  Unless it crashes, forgets at a reload whom it
\* wanted to disconnect, or players keep entering the rooms, each of whom makes the
\* robots get ready for one more round.
QuitEnds ==
    \/ []<><<\E p \in DOMAIN w.conn : OtherEnters(p)>>_vars
    \/ quitLater ~> (~Running \/ reloads > 0)
=============================================================================
