---------------------------- MODULE RobotsProofs ----------------------------
(***************************************************************************)
(* The tables of the robot client, for every number of servers and robots, *)
(* every set of descriptors and every order in which the loop runs the     *)
(* callbacks, until a descriptor does not fit into Client::m_fd.  The      *)
(* lemmas follow the handlers from the inside out: what each part of one   *)
(* does to the tables, what a whole handler does, and what a step does.    *)
(***************************************************************************)
EXTENDS Robots, FiniteSetTheorems, SequenceTheorems, TLAPS

\* The values of w between two callbacks.
Table(S) == UNION {[D -> S] : D \in SUBSET Objs}
Worlds == [queues : [Vids -> [uids : Seq(Uids), dels : Seq(Fds)]],
           robots : [Uids -> Vids \cup {None}], last : SUBSET Uids,
           cmap : [Fds -> Objs \cup {None}], conMap : [Fds -> Objs \cup {None, Null}],
           client : Table(Clients), conn : Table(Conns), fault : Faults]

\* cmap, conMap, the clients and the connections lead to each other.
Linked(x) ==
    /\ \A fd \in Fds : x.cmap[fd] # None =>
          x.cmap[fd] \in DOMAIN x.client /\ x.client[x.cmap[fd]].fd = fd
    /\ \A c \in DOMAIN x.client :
          /\ x.cmap[x.client[c].fd] = c
          /\ x.client[c].conn \in DOMAIN x.conn
          /\ x.conn[x.client[c].conn].fd = x.client[c].fd
    /\ \A p \in DOMAIN x.conn :
          x.cmap[x.conn[p].fd] # None /\ x.client[x.cmap[x.conn[p].fd]].conn = p
    /\ \A fd \in Fds : x.conMap[fd] \in Objs =>
          x.conMap[fd] \in DOMAIN x.conn /\ x.conn[x.conMap[fd]].fd = fd

\* A robot that waits for a server is one of that server.
Waiting(x) == \A v \in 1..NumVids : \A i \in 1..Len(x.queues[v].uids) :
                 x.robots[x.queues[v].uids[i]] = v

\* The request to log in goes out once, before everything else, and who plays is in a round
\* or was let go.
InStep(k, r) ==
    /\ k.playing => r.seat \in {"playing", "out"}
    /\ k.login \/ "login" \in r.req => ~k.playing /\ r.seat = "out"
    /\ ~(k.login /\ "login" \in r.req)
Playing(x) == \A c \in DOMAIN x.client : InStep(x.client[c], x.conn[x.client[c].conn])

Once(s) == \A i, j \in 1..Len(s) : s[i] = s[j] => i = j

\* Before the first reload every robot is in one place.
Online(x, uid) == \E c \in DOMAIN x.client : x.client[c].uid = uid
Idle(x, uid) == uid \in x.last /\ ~Online(x, uid)
Conserved(x) ==
    /\ x.queues[0].dels = <<>>
    /\ \A uid \in x.last : x.robots[uid] = Home[uid]
    /\ \A c \in DOMAIN x.client : x.client[c].uid \in x.last
    /\ \A c, d \in DOMAIN x.client : x.client[c].uid = x.client[d].uid => c = d
    /\ \A v \in 1..NumVids : /\ Once(x.queues[v].uids)
                             /\ \A i \in 1..Len(x.queues[v].uids) : Idle(x, x.queues[v].uids[i])
    /\ \A uid \in x.last : Online(x, uid) \/ In(uid, x.queues[Home[uid]].uids)

\* Before the second, a descriptor waits in the kill queue of the server its robot is of.
Owner(x, fd) == x.client[x.cmap[fd]].uid
Meant(x, v, fd) == x.cmap[fd] # None /\ x.robots[Owner(x, fd)] = v
Kills(x) == \A v \in Vids : /\ Once(x.queues[v].dels)
                            /\ \A i \in 1..Len(x.queues[v].dels) : Meant(x, v, x.queues[v].dels[i])

\* What the handlers keep, n reloads after the start.
Good(x, n) ==
    /\ x \in Worlds /\ x.fault = "none"
    /\ Linked(x) /\ Waiting(x) /\ Playing(x)
    /\ n = 0 => Conserved(x)
    /\ n <= 1 => Kills(x)

-----------------------------------------------------------------------------
\* What the provers need to know of a world.
LEMMA WorldFacts ==
    ASSUME NEW x \in Worlds
    PROVE  /\ x.queues \in [Vids -> [uids : Seq(Uids), dels : Seq(Fds)]]
           /\ \A v \in Vids : x.queues[v].uids \in Seq(Uids) /\ x.queues[v].dels \in Seq(Fds)
           /\ x.robots \in [Uids -> Vids \cup {None}] /\ x.last \in SUBSET Uids
           /\ x.cmap \in [Fds -> Objs \cup {None}]
           /\ x.conMap \in [Fds -> Objs \cup {None, Null}]
           /\ DOMAIN x.client \subseteq Objs /\ x.client \in [DOMAIN x.client -> Clients]
           /\ \A c \in DOMAIN x.client :
                 /\ x.client[c].uid \in Uids /\ x.client[c].fd \in Fds
                 /\ x.client[c].conn \in Objs /\ x.client[c] \in Clients
           /\ DOMAIN x.conn \subseteq Objs /\ x.conn \in [DOMAIN x.conn -> Conns]
           /\ \A p \in DOMAIN x.conn : x.conn[p] \in Conns /\ x.conn[p].fd \in Fds
           /\ x.fault \in Faults
<1>1. /\ x.queues \in [Vids -> [uids : Seq(Uids), dels : Seq(Fds)]]
      /\ x.robots \in [Uids -> Vids \cup {None}] /\ x.last \in SUBSET Uids
      /\ x.cmap \in [Fds -> Objs \cup {None}]
      /\ x.conMap \in [Fds -> Objs \cup {None, Null}]
      /\ x.client \in Table(Clients) /\ x.conn \in Table(Conns) /\ x.fault \in Faults
  BY DEF Worlds
<1>2. /\ DOMAIN x.client \subseteq Objs /\ x.client \in [DOMAIN x.client -> Clients]
      /\ DOMAIN x.conn \subseteq Objs /\ x.conn \in [DOMAIN x.conn -> Conns]
  BY <1>1 DEF Table
<1>3. \A c \in DOMAIN x.client : x.client[c] \in Clients
  BY <1>2
<1>4. \A p \in DOMAIN x.conn : x.conn[p] \in Conns
  BY <1>2
<1>5. \A c \in DOMAIN x.client : x.client[c].uid \in Uids /\ x.client[c].fd \in Fds
                                 /\ x.client[c].conn \in Objs
  BY <1>3 DEF Clients
<1>6. \A p \in DOMAIN x.conn : x.conn[p].fd \in Fds
  BY <1>4 DEF Conns
<1>7. \A v \in Vids : x.queues[v].uids \in Seq(Uids) /\ x.queues[v].dels \in Seq(Fds)
  BY <1>1
<1> QED
  BY <1>1, <1>2, <1>3, <1>4, <1>5, <1>6, <1>7

\* The numbers used for no entry and a NULL entry are no addresses, and vid 0 is no server.
LEMMA Numbers ==
    /\ None \notin Objs /\ Null \notin Objs /\ None # Null
    /\ None \notin Vids /\ 0 \in Vids /\ 0 \notin 1..NumVids
    /\ \A v \in 1..NumVids : v \in Vids
    /\ \A v \in Vids : v # 0 => v \in 1..NumVids
    /\ \A uid \in Uids : Home[uid] \in Vids /\ Home[uid] \in 1..NumVids
    /\ Cardinality(Fds) \in Nat
<1>1. NumVids \in Nat \ {0} /\ Home \in [Uids -> 1..NumVids] /\ Cardinality(Fds) \in Nat
  BY RobotsAssumption, FS_CardinalityType
<1> QED
  BY <1>1 DEF None, Null, Objs, Vids

\* Descriptors, and the fault of one that is too wide.
LEMMA Descriptors ==
    /\ Fds \subseteq Nat /\ WideFds \subseteq Nat
    /\ \A fd \in Fds : short(fd) = fd
    /\ \A fd \in WideFds : short(fd) # fd
    /\ Crash("wide").fault = "wide"
<1>1. Crash("wide").fault = "wide"
  BY DEF Crash, Nothing
<1> QED
  BY <1>1, RobotsAssumption

\* A step that touches nothing but timers, requests and seats.
LEMMA Touched ==
    ASSUME NEW x, NEW n \in Nat, Good(x, n), NEW y \in Worlds, y.fault = "none",
           y.queues = x.queues, y.robots = x.robots, y.last = x.last,
           y.cmap = x.cmap, y.conMap = x.conMap,
           DOMAIN y.client = DOMAIN x.client, DOMAIN y.conn = DOMAIN x.conn,
           \A c \in DOMAIN x.client : /\ y.client[c].uid = x.client[c].uid
                                      /\ y.client[c].fd = x.client[c].fd
                                      /\ y.client[c].conn = x.client[c].conn,
           \A p \in DOMAIN x.conn : y.conn[p].fd = x.conn[p].fd,
           Playing(y)
    PROVE  Good(y, n)
<1>0. x \in Worlds /\ Linked(x) /\ Waiting(x) /\ (n = 0 => Conserved(x)) /\ (n <= 1 => Kills(x))
  BY DEF Good
<1>1. Linked(y)
  <2>1. ASSUME NEW fd \in Fds, y.cmap[fd] # None
        PROVE  y.cmap[fd] \in DOMAIN y.client /\ y.client[y.cmap[fd]].fd = fd
    <3>1. x.cmap[fd] \in DOMAIN x.client /\ x.client[x.cmap[fd]].fd = fd
      BY <1>0, <2>1 DEF Linked
    <3> QED
      BY <3>1
  <2>2. ASSUME NEW c \in DOMAIN y.client
        PROVE  /\ y.cmap[y.client[c].fd] = c /\ y.client[c].conn \in DOMAIN y.conn
               /\ y.conn[y.client[c].conn].fd = y.client[c].fd
    <3>1. /\ x.cmap[x.client[c].fd] = c /\ x.client[c].conn \in DOMAIN x.conn
          /\ x.conn[x.client[c].conn].fd = x.client[c].fd
      BY <1>0 DEF Linked
    <3> QED
      BY <3>1
  <2>3. ASSUME NEW p \in DOMAIN y.conn
        PROVE  y.cmap[y.conn[p].fd] # None /\ y.client[y.cmap[y.conn[p].fd]].conn = p
    <3>1. x.cmap[x.conn[p].fd] # None /\ x.client[x.cmap[x.conn[p].fd]].conn = p
      BY <1>0 DEF Linked
    <3>2. x.cmap[x.conn[p].fd] \in DOMAIN x.client
      BY <1>0, <3>1, WorldFacts DEF Linked
    <3> QED
      BY <3>1, <3>2
  <2>4. ASSUME NEW fd \in Fds, y.conMap[fd] \in Objs
        PROVE  y.conMap[fd] \in DOMAIN y.conn /\ y.conn[y.conMap[fd]].fd = fd
    <3>1. x.conMap[fd] \in DOMAIN x.conn /\ x.conn[x.conMap[fd]].fd = fd
      BY <1>0, <2>4 DEF Linked
    <3> QED
      BY <3>1
  <2> QED
    BY <2>1, <2>2, <2>3, <2>4 DEF Linked
<1>2. Waiting(y)
  BY <1>0 DEF Waiting
<1>3. n = 0 => Conserved(y)
  BY <1>0 DEF Conserved, Idle, Online
<1>4. n <= 1 => Kills(y)
  <2> SUFFICES ASSUME n <= 1, NEW v \in Vids
               PROVE  /\ Once(y.queues[v].dels)
                      /\ \A i \in 1..Len(y.queues[v].dels) : Meant(y, v, y.queues[v].dels[i])
    BY DEF Kills
  <2>1. ASSUME NEW i \in 1..Len(x.queues[v].dels) PROVE Meant(y, v, x.queues[v].dels[i])
    <3>1. x.queues[v].dels[i] \in Fds
      BY <1>0, WorldFacts
    <3>2. Meant(x, v, x.queues[v].dels[i])
      BY <1>0 DEF Kills
    <3>3. x.cmap[x.queues[v].dels[i]] \in DOMAIN x.client
      BY <1>0, <3>1, <3>2 DEF Meant, Linked
    <3> QED
      BY <3>2, <3>3 DEF Meant, Owner
  <2> QED
    BY <1>0, <2>1 DEF Kills
<1> QED
  BY <1>1, <1>2, <1>3, <1>4 DEF Good

\* g_args.robots[uid] makes up robots, but none that waits or is online.
LEMMA KnownGood ==
    ASSUME NEW x, NEW n \in Nat, Good(x, n), NEW uid \in Uids
    PROVE  LET y == Known(x, uid)
           IN /\ Good(y, n) /\ y.robots[uid] \in Vids
              /\ y.queues = x.queues /\ y.last = x.last /\ y.cmap = x.cmap
              /\ y.conMap = x.conMap /\ y.client = x.client /\ y.conn = x.conn
              /\ x.robots[uid] # None => y = x
<1>1. x \in Worlds
  BY DEF Good
<1>2. CASE x.robots[uid] # None
  <2>1. Known(x, uid) = x
    BY <1>2 DEF Known
  <2>2. x.robots[uid] \in Vids
    BY <1>1, <1>2, WorldFacts
  <2> QED
    BY <2>1, <2>2
<1>3. CASE x.robots[uid] = None
  <2> DEFINE y == Known(x, uid)
  <2>1. /\ y \in Worlds /\ y.fault = x.fault
        /\ y.queues = x.queues /\ y.last = x.last /\ y.cmap = x.cmap
        /\ y.conMap = x.conMap /\ y.client = x.client /\ y.conn = x.conn
        /\ y.robots = [x.robots EXCEPT ![uid] = 0]
    BY <1>1, <1>3, Numbers DEF Known, Worlds
  <2> HIDE DEF y
  <2>2. y.robots[uid] = 0 /\ \A u \in Uids : u # uid => y.robots[u] = x.robots[u]
    BY <1>1, <2>1, WorldFacts
  <2>3. \A u \in Uids : x.robots[u] # None => y.robots[u] = x.robots[u]
    BY <1>3, <2>2
  <2>4. Linked(y)
    BY <2>1 DEF Good, Linked
  <2>5. Waiting(y)
    <3>1. \A v \in 1..NumVids : \A i \in 1..Len(x.queues[v].uids) :
             x.queues[v].uids[i] \in Uids /\ x.robots[x.queues[v].uids[i]] = v /\ v # None
      BY <1>1, WorldFacts, Numbers DEF Good, Waiting
    <3> QED
      BY <2>1, <2>3, <3>1 DEF Waiting
  <2>6. Playing(y)
    BY <2>1 DEF Good, Playing
  <2>7. n = 0 => Conserved(y)
    <3> SUFFICES ASSUME n = 0 PROVE Conserved(y)
      OBVIOUS
    <3>1. Conserved(x)
      BY DEF Good
    <3>2. \A u \in x.last : y.robots[u] = Home[u]
      <4> SUFFICES ASSUME NEW u \in x.last PROVE y.robots[u] = Home[u]
        OBVIOUS
      <4>1. u \in Uids /\ x.robots[u] = Home[u] /\ Home[u] # None
        BY <1>1, <3>1, WorldFacts, Numbers DEF Conserved
      <4> QED
        BY <2>3, <4>1
    <3> QED
      BY <2>1, <3>1, <3>2 DEF Conserved, Idle, Online
  <2>8. n <= 1 => Kills(y)
    <3> SUFFICES ASSUME n <= 1 PROVE Kills(y)
      OBVIOUS
    <3>1. Kills(x) /\ Linked(x)
      BY DEF Good
    <3>2. ASSUME NEW v \in Vids, NEW i \in 1..Len(x.queues[v].dels)
          PROVE  Meant(y, v, x.queues[v].dels[i])
      <4>1. x.queues[v].dels[i] \in Fds /\ v # None
        BY <1>1, WorldFacts, Numbers
      <4>2. Meant(x, v, x.queues[v].dels[i])
        BY <3>1 DEF Kills
      <4>3. x.cmap[x.queues[v].dels[i]] \in DOMAIN x.client
        BY <3>1, <4>1, <4>2 DEF Meant, Linked
      <4>4. Owner(x, x.queues[v].dels[i]) \in Uids
        BY <1>1, <4>3, WorldFacts DEF Owner
      <4>5. Owner(y, x.queues[v].dels[i]) = Owner(x, x.queues[v].dels[i])
        BY <2>1 DEF Owner
      <4> QED
        BY <2>1, <2>3, <4>1, <4>2, <4>4, <4>5 DEF Meant
    <3> QED
      BY <2>1, <3>1, <3>2 DEF Kills
  <2>9. Good(y, n)
    BY <2>1, <2>4, <2>5, <2>6, <2>7, <2>8 DEF Good
  <2> QED
    BY <1>3, <2>1, <2>2, <2>9, Numbers DEF y
<1> QED
  BY <1>2, <1>3

\* A step that touches nothing but the kill queues and conMap.
LEMMA DelsTouched ==
    ASSUME NEW x, NEW n \in Nat, Good(x, n), NEW y \in Worlds, y.fault = "none",
           y.robots = x.robots, y.last = x.last, y.cmap = x.cmap,
           y.client = x.client, y.conn = x.conn,
           \A v \in Vids : y.queues[v].uids = x.queues[v].uids,
           Linked(y), n = 0 => y.queues[0].dels = <<>>, n <= 1 => Kills(y)
    PROVE  Good(y, n)
<1>0. x \in Worlds /\ Waiting(x) /\ Playing(x) /\ (n = 0 => Conserved(x))
  BY DEF Good
<1>1. Waiting(y)
  BY <1>0, Numbers DEF Waiting
<1>2. Playing(y)
  BY <1>0 DEF Playing
<1>3. n = 0 => Conserved(y)
  <2> SUFFICES ASSUME n = 0 PROVE Conserved(y)
    OBVIOUS
  <2>1. Conserved(x) /\ x.last \subseteq Uids
    BY <1>0, WorldFacts
  <2>2. \A uid \in x.last : Home[uid] \in Vids
    BY <2>1, Numbers
  <2>3. \A v \in 1..NumVids : v \in Vids
    BY Numbers
  <2> QED
    BY <2>1, <2>2, <2>3 DEF Conserved, Idle, Online
<1> QED
  BY <1>1, <1>2, <1>3 DEF Good

\* Queue v gets other kills, or other robots.
LEMMA SetDels ==
    ASSUME NEW x \in Worlds, NEW v \in Vids, NEW s \in Seq(Fds)
    PROVE  LET y == [x EXCEPT !.queues[v].dels = s]
           IN /\ y \in Worlds /\ y.fault = x.fault /\ y.robots = x.robots /\ y.last = x.last
              /\ y.cmap = x.cmap /\ y.conMap = x.conMap /\ y.client = x.client /\ y.conn = x.conn
              /\ y.queues = [x.queues EXCEPT ![v].dels = s]
<1>1. [x.queues EXCEPT ![v].dels = s] \in [Vids -> [uids : Seq(Uids), dels : Seq(Fds)]]
  BY WorldFacts
<1> QED
  BY <1>1 DEF Worlds

\* A queue of robots is replaced.
LEMMA SetUids ==
    ASSUME NEW x \in Worlds, NEW v \in Vids, NEW s \in Seq(Uids)
    PROVE  LET y == [x EXCEPT !.queues[v].uids = s]
           IN /\ y \in Worlds /\ y.fault = x.fault /\ y.robots = x.robots /\ y.last = x.last
              /\ y.cmap = x.cmap /\ y.conMap = x.conMap /\ y.client = x.client /\ y.conn = x.conn
              /\ y.queues = [x.queues EXCEPT ![v].uids = s]
<1>1. [x.queues EXCEPT ![v].uids = s] \in [Vids -> [uids : Seq(Uids), dels : Seq(Fds)]]
  BY WorldFacts
<1> QED
  BY <1>1 DEF Worlds

\* Appending something new.
LEMMA AppendOnce ==
    ASSUME NEW S, NEW s \in Seq(S), NEW e \in S, Once(s), ~In(e, s)
    PROVE  Once(Append(s, e))
  BY DEF Once, In

\* What is in a sequence after something is appended.
LEMMA AppendIn ==
    ASSUME NEW S, NEW s \in Seq(S), NEW e \in S
    PROVE  \A d : In(d, Append(s, e)) <=> In(d, s) \/ d = e
<1>1. /\ Len(Append(s, e)) = Len(s) + 1 /\ Len(s) \in Nat /\ Append(s, e)[Len(s) + 1] = e
      /\ \A i \in 1..Len(s) : Append(s, e)[i] = s[i]
  OBVIOUS
<1>2. \A i \in 1..(Len(s) + 1) : i \in 1..Len(s) \/ i = Len(s) + 1
  BY <1>1
<1>3. \A i \in 1..Len(s) : i \in 1..(Len(s) + 1)
  BY <1>1
<1>4. Len(s) + 1 \in 1..(Len(s) + 1)
  BY <1>1
<1> QED
  BY <1>1, <1>2, <1>3, <1>4 DEF In

\* __disConnectLater dooms the client it is called for and nobody else.
LEMMA DisConnectLaterGood ==
    ASSUME NEW x, NEW n \in Nat, Good(x, n), NEW c \in DOMAIN x.client
    PROVE  LET y == DisConnectLater(x, c)
           IN /\ Good(y, n) /\ y.client = x.client /\ y.conn = x.conn
              /\ \A v \in Vids, fd \in Fds :
                    In(fd, y.queues[v].dels) => In(fd, x.queues[v].dels) \/ fd = x.client[c].fd
<1> DEFINE uid == x.client[c].uid
           fd == x.client[c].fd
           z == Known(x, uid)
           v == z.robots[uid]
           y == DisConnectLater(x, c)
<1>1. x \in Worlds /\ Linked(x) /\ uid \in Uids /\ fd \in Fds /\ x.cmap[fd] = c
  <2>1. x \in Worlds /\ Linked(x)
    BY DEF Good
  <2> QED
    BY <2>1, WorldFacts DEF Linked
<1> HIDE DEF z, uid
<1>2. /\ Good(z, n) /\ v \in Vids /\ z.queues = x.queues
      /\ z.cmap = x.cmap /\ z.client = x.client /\ z.conn = x.conn /\ z.last = x.last
  BY <1>1, KnownGood DEF z
<1> HIDE DEF v
<1>3. CASE In(fd, z.queues[v].dels)
  <2>1. y = z
    BY <1>3 DEF DisConnectLater, z, v, uid
  <2> QED
    BY <1>2, <2>1
<1>4. CASE ~In(fd, z.queues[v].dels)
  <2> DEFINE s == Append(z.queues[v].dels, fd)
  <2>1. y = [z EXCEPT !.queues[v].dels = s]
    BY <1>4 DEF DisConnectLater, z, v, uid
  <2>2. z \in Worlds /\ z.fault = "none" /\ Linked(z) /\ (n <= 1 => Kills(z)) /\ (n = 0 => Conserved(z))
    BY <1>2 DEF Good
  <2>3. z.queues[v].dels \in Seq(Fds) /\ s \in Seq(Fds)
    BY <1>1, <1>2, <2>2, WorldFacts
  <2> HIDE DEF s, y, fd
  <2>4. /\ y \in Worlds /\ y.fault = "none" /\ y.robots = z.robots /\ y.last = z.last
        /\ y.cmap = z.cmap /\ y.conMap = z.conMap /\ y.client = z.client /\ y.conn = z.conn
        /\ y.queues = [z.queues EXCEPT ![v].dels = s]
    BY <1>2, <2>1, <2>2, <2>3, SetDels
  <2>5. /\ \A u \in Vids : y.queues[u].uids = z.queues[u].uids
        /\ y.queues[v].dels = s
        /\ \A u \in Vids : u # v => y.queues[u] = z.queues[u]
    BY <1>2, <2>2, <2>4, WorldFacts
  <2>6. \A d : In(d, s) <=> In(d, z.queues[v].dels) \/ d = fd
    BY <1>1, <2>3, AppendIn DEF s
  <2>7. Linked(y)
    BY <2>2, <2>4 DEF Linked
  <2>8. n = 0 => y.queues[0].dels = <<>>
    <3> SUFFICES ASSUME n = 0 PROVE y.queues[0].dels = <<>>
      OBVIOUS
    <3>1. uid \in z.last
      BY <1>2, <2>2 DEF Conserved, uid
    <3>2. v = Home[uid]
      BY <2>2, <3>1 DEF Conserved, v
    <3>3. v # 0 /\ 0 \in Vids
      BY <1>1, <3>2, Numbers
    <3> QED
      BY <2>2, <2>5, <3>3 DEF Conserved
  <2>9. n <= 1 => Kills(y)
    <3> SUFFICES ASSUME n <= 1, NEW u \in Vids
                 PROVE  /\ Once(y.queues[u].dels)
                        /\ \A i \in 1..Len(y.queues[u].dels) : Meant(y, u, y.queues[u].dels[i])
      BY DEF Kills
    <3>1. \A d : Meant(y, u, d) <=> Meant(z, u, d)
      BY <2>4 DEF Meant, Owner
    <3>2. CASE u # v
      BY <2>2, <2>5, <3>1, <3>2 DEF Kills
    <3>3. CASE u = v
      <4>1. Once(s)
        BY <1>1, <1>2, <1>4, <2>2, <2>3, AppendOnce DEF Kills, s
      <4>2. Meant(z, v, fd)
        <5>1. z.cmap[fd] = c /\ c # None
          BY <1>1, <1>2, WorldFacts, Numbers
        <5> QED
          BY <1>2, <5>1 DEF Meant, Owner, v, uid
      <4>3. ASSUME NEW i \in 1..Len(s) PROVE Meant(z, v, s[i])
        <5>1. In(s[i], z.queues[v].dels) \/ s[i] = fd
          BY <2>6 DEF In
        <5> QED
          BY <1>2, <2>2, <4>2, <5>1 DEF Kills, In
      <4> QED
        BY <2>5, <3>1, <3>3, <4>1, <4>3
    <3> QED
      BY <3>2, <3>3
  <2>10. Good(y, n)
    BY <1>2, <2>4, <2>5, <2>7, <2>8, <2>9, DelsTouched
  <2>11. \A u \in Vids, d \in Fds :
            In(d, y.queues[u].dels) => In(d, x.queues[u].dels) \/ d = fd
    BY <1>2, <2>5, <2>6
  <2> QED
    BY <1>2, <2>4, <2>10, <2>11 DEF y, fd
<1> QED
  BY <1>3, <1>4

\* A step that touches the timers of one client and what its server makes of it.
SameClient(k, l) == k \in Clients /\ k.uid = l.uid /\ k.fd = l.fd /\ k.conn = l.conn
SameConn(r, s) == r \in Conns /\ r.fd = s.fd
With(x, c, k, r) == [x EXCEPT !.client = [x.client EXCEPT ![c] = k],
                              !.conn = [x.conn EXCEPT ![x.client[c].conn] = r]]
\* It keeps the tables good and leaves the queues alone.
LEMMA SetBoth ==
    ASSUME NEW x, NEW n \in Nat, Good(x, n), NEW c \in DOMAIN x.client,
           NEW k, SameClient(k, x.client[c]),
           NEW r, SameConn(r, x.conn[x.client[c].conn]), InStep(k, r)
    PROVE  LET y == With(x, c, k, r)
           IN /\ Good(y, n) /\ y.queues = x.queues
              /\ y.client = [x.client EXCEPT ![c] = k]
<1> DEFINE p == x.client[c].conn
           C == [x.client EXCEPT ![c] = k]
           N == [x.conn EXCEPT ![p] = r]
           y == [x EXCEPT !.client = C, !.conn = N]
<1>1. x \in Worlds /\ x.fault = "none" /\ Linked(x) /\ Playing(x)
  BY DEF Good
<1>2. /\ DOMAIN x.client \subseteq Objs /\ x.client \in [DOMAIN x.client -> Clients]
      /\ DOMAIN x.conn \subseteq Objs /\ x.conn \in [DOMAIN x.conn -> Conns]
  BY <1>1, WorldFacts
<1>3. p \in DOMAIN x.conn
  BY <1>1 DEF Linked
<1>4. C \in [DOMAIN x.client -> Clients] /\ C[c] = k /\ \A d \in DOMAIN x.client : d # c => C[d] = x.client[d]
  BY <1>2 DEF SameClient
<1>5. N \in [DOMAIN x.conn -> Conns] /\ N[p] = r /\ \A q \in DOMAIN x.conn : q # p => N[q] = x.conn[q]
  BY <1>2, <1>3 DEF SameConn
<1> HIDE DEF C, N, p
<1>6. C \in Table(Clients) /\ N \in Table(Conns)
  BY <1>2, <1>4, <1>5 DEF Table
<1>7. /\ y \in Worlds /\ y.fault = x.fault /\ y.robots = x.robots /\ y.last = x.last
      /\ y.cmap = x.cmap /\ y.conMap = x.conMap /\ y.queues = x.queues
      /\ y.client = C /\ y.conn = N
  BY <1>1, <1>6 DEF Worlds
<1> HIDE DEF y
<1>8. \A d \in DOMAIN x.client : /\ C[d].uid = x.client[d].uid
                                 /\ C[d].fd = x.client[d].fd
                                 /\ C[d].conn = x.client[d].conn
  BY <1>4 DEF SameClient
<1>9. \A q \in DOMAIN x.conn : N[q].fd = x.conn[q].fd
  BY <1>5 DEF SameConn, p
<1>10. Playing(y)
  <2> SUFFICES ASSUME NEW d \in DOMAIN x.client PROVE InStep(C[d], N[C[d].conn])
    BY <1>4, <1>7 DEF Playing
  <2>1. CASE d = c
    BY <1>4, <1>5, <1>8, <2>1 DEF p
  <2>2. CASE d # c
    <3>1. x.client[d].conn # p /\ x.client[d].conn \in DOMAIN x.conn
      <4>1. /\ x.cmap[x.client[d].fd] = d /\ x.conn[x.client[d].conn].fd = x.client[d].fd
            /\ x.cmap[x.client[c].fd] = c /\ x.conn[p].fd = x.client[c].fd
            /\ x.client[d].conn \in DOMAIN x.conn
        BY <1>1 DEF Linked, p
      <4> QED
        BY <2>2, <4>1
    <3>2. InStep(x.client[d], x.conn[x.client[d].conn])
      BY <1>1 DEF Playing
    <3> QED
      BY <1>4, <1>5, <2>2, <3>1, <3>2
  <2> QED
    BY <2>1, <2>2
<1>11. Good(y, n)
  BY <1>1, <1>4, <1>5, <1>7, <1>8, <1>9, <1>10, Touched
<1> QED
  BY <1>7, <1>11 DEF y, C, N, p, With

\* The client of a connection and the connection of a client.
LEMMA Partners ==
    ASSUME NEW x, NEW n \in Nat, Good(x, n)
    PROVE  /\ \A p \in DOMAIN x.conn : LET c == x.cmap[x.conn[p].fd]
              IN c # None /\ c \in DOMAIN x.client /\ x.client[c].conn = p /\ x.client[c].fd = x.conn[p].fd
           /\ \A c \in DOMAIN x.client : LET p == x.client[c].conn
              IN p \in DOMAIN x.conn /\ x.conn[p].fd = x.client[c].fd /\ x.cmap[x.client[c].fd] = c
<1>1. x \in Worlds /\ Linked(x)
  BY DEF Good
<1>2. \A p \in DOMAIN x.conn : x.conn[p].fd \in Fds
  BY <1>1, WorldFacts
<1>3. ASSUME NEW p \in DOMAIN x.conn
      PROVE  LET c == x.cmap[x.conn[p].fd]
             IN c # None /\ c \in DOMAIN x.client /\ x.client[c].conn = p /\ x.client[c].fd = x.conn[p].fd
  BY <1>1, <1>2 DEF Linked
<1>4. ASSUME NEW c \in DOMAIN x.client
      PROVE  LET p == x.client[c].conn
             IN p \in DOMAIN x.conn /\ x.conn[p].fd = x.client[c].fd /\ x.cmap[x.client[c].fd] = c
  BY <1>1 DEF Linked
<1> QED
  BY <1>3, <1>4

\* The macro sendData: the connection is there, or the entry is NULL.
LEMMA SendDataGood ==
    ASSUME NEW x, NEW n \in Nat, Good(x, n), NEW c \in DOMAIN x.client, NEW request \in Requests,
           request = "login" => /\ ~x.client[c].login /\ ~x.client[c].playing
                                /\ x.conn[x.client[c].conn].seat = "out"
    PROVE  LET y == SendData(x, c, request)
           IN Good(y, n) /\ y.queues = x.queues /\ y.client = x.client
<1> DEFINE fd == x.client[c].fd
           p == x.conMap[fd]
           y == SendData(x, c, request)
<1>1. x \in Worlds /\ x.fault = "none" /\ Linked(x) /\ Playing(x) /\ fd \in Fds
  BY WorldFacts DEF Good
<1>2. p \in Objs \cup {None, Null}
  BY <1>1, WorldFacts
<1>3. CASE p \in {None, Null}
  <2>1. y = [x EXCEPT !.conMap[fd] = Null]
    BY <1>3 DEF SendData
  <2> HIDE DEF y, fd
  <2>2. /\ y \in Worlds /\ y.fault = x.fault /\ y.robots = x.robots /\ y.last = x.last
        /\ y.cmap = x.cmap /\ y.queues = x.queues /\ y.client = x.client /\ y.conn = x.conn
        /\ y.conMap = [x.conMap EXCEPT ![fd] = Null]
    BY <1>1, <2>1 DEF Worlds
  <2>3. \A d \in Fds : y.conMap[d] \in Objs => y.conMap[d] = x.conMap[d]
    BY <1>1, <2>2, WorldFacts, Numbers
  <2>4. Linked(y)
    BY <1>1, <2>2, <2>3 DEF Linked
  <2>5. /\ n = 0 => y.queues[0].dels = <<>>
        /\ n <= 1 => Kills(y)
    <3>1. (n = 0 => Conserved(x)) /\ (n <= 1 => Kills(x))
      BY DEF Good
    <3>2. \A v, d : Meant(y, v, d) <=> Meant(x, v, d)
      BY <2>2 DEF Meant, Owner
    <3> QED
      BY <2>2, <3>1, <3>2 DEF Conserved, Kills
  <2>6. Good(y, n)
    BY <1>1, <2>2, <2>4, <2>5, DelsTouched
  <2> QED
    BY <2>2, <2>6 DEF y
<1>4. CASE p \in Objs
  <2>1. p \in DOMAIN x.conn /\ x.conn[p].fd = fd /\ x.client[c].conn = p
    BY <1>1, <1>4 DEF Linked
  <2>2. y = [x EXCEPT !.conn[p].req = @ \cup {request}]
    BY <1>4, <2>1, Numbers DEF SendData
  <2> DEFINE k == x.client[c]
             r == [x.conn[p] EXCEPT !.req = @ \cup {request}]
             z == With(x, c, k, r)
  <2>3. x.conn[p] \in Conns /\ k \in Clients /\ x.client \in [DOMAIN x.client -> Clients]
    BY <1>1, <2>1, WorldFacts
  <2>4. SameClient(k, x.client[c])
    BY <2>3 DEF SameClient
  <2>5. SameConn(r, x.conn[p]) /\ r.seat = x.conn[p].seat /\ r.req = x.conn[p].req \cup {request}
    BY <2>3 DEF SameConn, Conns
  <2>6. InStep(k, r)
    <3>1. InStep(k, x.conn[p])
      BY <1>1, <2>1 DEF Playing
    <3> HIDE DEF k, r, p
    <3>2. "login" \in r.req => "login" \in x.conn[p].req \/ request = "login"
      BY <2>5
    <3>3. request = "login" => ~k.login /\ ~k.playing /\ x.conn[p].seat = "out"
      BY <2>1 DEF k
    <3> QED
      BY <2>5, <3>1, <3>2, <3>3 DEF InStep
  <2>7. y = z
    <3>1. [x.client EXCEPT ![c] = k] = x.client
      BY <2>3
    <3>2. y = [x EXCEPT !.conn = [x.conn EXCEPT ![p] = r]]
      BY <2>2
    <3>3. z = [x EXCEPT !.conn = [x.conn EXCEPT ![p] = r]]
      <4> DEFINE N == [x.conn EXCEPT ![p] = r]
      <4>1. z = [x EXCEPT !.client = x.client, !.conn = N]
        BY <2>1, <3>1 DEF With
      <4> HIDE DEF N, z
      <4>2. [x EXCEPT !.client = x.client, !.conn = N] = [x EXCEPT !.conn = N]
        BY <1>1 DEF Worlds
      <4> QED
        BY <4>1, <4>2 DEF N
    <3> QED
      BY <3>2, <3>3
  <2>8. Good(z, n) /\ z.queues = x.queues /\ z.client = [x.client EXCEPT ![c] = k]
    <3>1. SameConn(r, x.conn[x.client[c].conn])
      BY <2>1, <2>5
    <3> HIDE DEF r, k
    <3> QED
      BY <2>4, <2>6, <3>1, SetBoth
  <2>9. [x.client EXCEPT ![c] = k] = x.client
    BY <2>3
  <2> HIDE DEF z, y, k
  <2> QED
    BY <2>7, <2>8, <2>9 DEF y
<1> QED
  BY <1>2, <1>3, <1>4

\* A set of numbers has a least one.
LEMMA Least ==
    ASSUME NEW S, S \subseteq Nat, S # {}
    PROVE  \E m \in S : \A k \in S : m <= k
<1>1. PICK m \in S : \A k \in S : ~(<<k, m>> \in OpToRel(<, Nat))
  BY NatLessThanWellFounded, WFMin, Zenon
<1>2. \A k \in S : ~(k < m)
  BY <1>1 DEF OpToRel
<1> QED
  BY <1>2

\* s without its place j.
LEMMA RemovePlaces ==
    ASSUME NEW S, NEW s \in Seq(S), NEW j \in 1..Len(s)
    PROVE  LET t == RemoveAt(s, j)
           IN /\ t \in Seq(S) /\ Len(t) = Len(s) - 1
              /\ \A k \in 1..(j - 1) : t[k] = s[k]
              /\ \A k \in j..(Len(s) - 1) : t[k] = s[k + 1]
<1> DEFINE n == Len(s)
           a == SubSeq(s, 1, j - 1)
           b == SubSeq(s, j + 1, n)
<1>1. n \in Nat /\ j \in 1..n
  OBVIOUS
<1>2. a \in Seq(S) /\ Len(a) = j - 1 /\ \A k \in 1..(j - 1) : a[k] = s[k]
  OBVIOUS
<1>3. b \in Seq(S) /\ Len(b) = n - j /\ \A k \in 1..(n - j) : b[k] = s[j + k]
  OBVIOUS
<1>4. RemoveAt(s, j) = a \o b
  BY DEF RemoveAt
<1> HIDE DEF a, b, n
<1>5. /\ a \o b \in Seq(S) /\ Len(a \o b) = Len(a) + Len(b)
      /\ \A k \in 1..Len(a) : (a \o b)[k] = a[k]
      /\ \A k \in (Len(a) + 1)..(Len(a) + Len(b)) : (a \o b)[k] = b[k - Len(a)]
  <2>1. /\ a \o b \in Seq(S) /\ Len(a \o b) = Len(a) + Len(b)
        /\ \A k \in 1..(Len(a) + Len(b)) :
              (a \o b)[k] = IF k <= Len(a) THEN a[k] ELSE b[k - Len(a)]
    BY <1>2, <1>3, ConcatProperties
  <2>2. Len(a) \in Nat /\ Len(b) \in Nat
    BY <1>2, <1>3
  <2>3. ASSUME NEW k \in 1..Len(a) PROVE (a \o b)[k] = a[k]
    <3>1. k \in 1..(Len(a) + Len(b)) /\ k <= Len(a)
      BY <2>2
    <3> QED
      BY <2>1, <3>1
  <2>4. ASSUME NEW k \in (Len(a) + 1)..(Len(a) + Len(b)) PROVE (a \o b)[k] = b[k - Len(a)]
    <3>1. k \in 1..(Len(a) + Len(b)) /\ ~(k <= Len(a))
      BY <2>2
    <3> QED
      BY <2>1, <3>1
  <2> QED
    BY <2>1, <2>3, <2>4
<1>6. Len(a \o b) = n - 1 /\ \A k \in 1..(j - 1) : (a \o b)[k] = s[k]
  BY <1>1, <1>2, <1>3, <1>5
<1>7. \A k \in j..(n - 1) : (a \o b)[k] = s[k + 1]
  <2> SUFFICES ASSUME NEW k \in j..(n - 1) PROVE (a \o b)[k] = s[k + 1]
    OBVIOUS
  <2>1. (a \o b)[k] = b[k - (j - 1)] /\ k - (j - 1) \in 1..(n - j) /\ j + (k - (j - 1)) = k + 1
    BY <1>1, <1>2, <1>3, <1>5
  <2> QED
    BY <1>3, <2>1
<1> QED
  BY <1>4, <1>5, <1>6, <1>7 DEF n

\* What is left of a sequence without the first e in it.
LEMMA RemoveFirstFacts ==
    ASSUME NEW S, NEW s \in Seq(S), NEW e, In(e, s)
    PROVE  LET t == RemoveFirst(s, e)
           IN /\ t \in Seq(S) /\ \A d : In(d, t) => In(d, s)
              /\ Once(s) => Once(t) /\ ~In(e, t)
<1> DEFINE n == Len(s)
           t == RemoveFirst(s, e)
           I == {i \in 1..n : s[i] = e}
<1>1. n \in Nat /\ I \subseteq Nat /\ I # {}
  BY DEF In
<1>2. PICK j \in 1..n : s[j] = e /\ t = RemoveAt(s, j)
  <2>1. \E m \in I : \A k \in I : m <= k
    BY <1>1, Least
  <2>2. Min(I) \in I
    <3> HIDE DEF I
    <3>1. \A m \in I : (\A k \in I : m <= k) <=> (\A k \in I : m =< k)
      OBVIOUS
    <3> QED
      BY <2>1 DEF Min
  <2>3. SelectInSeq(s, LAMBDA v : v = e) = Min(I)
    BY <1>1 DEF SelectInSeq
  <2>4. t = RemoveAt(s, SelectInSeq(s, LAMBDA v : v = e))
    BY DEF RemoveFirst, In
  <2> QED
    BY <2>2, <2>3, <2>4
<1> HIDE DEF t
<1>3. /\ t \in Seq(S) /\ Len(t) = n - 1
      /\ \A k \in 1..(j - 1) : t[k] = s[k]
      /\ \A k \in j..(n - 1) : t[k] = s[k + 1]
  BY <1>2, RemovePlaces
<1> HIDE DEF n
<1>4. \A k \in 1..Len(t) : \E i \in 1..n : /\ t[k] = s[i] /\ i # j
                                           /\ (k < j => i = k) /\ (k >= j => i = k + 1)
  <2> SUFFICES ASSUME NEW k \in 1..(n - 1)
               PROVE  \E i \in 1..n : /\ t[k] = s[i] /\ i # j
                                      /\ (k < j => i = k) /\ (k >= j => i = k + 1)
    BY <1>3
  <2>1. CASE k < j
    <3>1. k \in 1..(j - 1) /\ k \in 1..n /\ k # j /\ ~(k >= j)
      BY <1>1, <2>1
    <3> QED
      BY <1>3, <3>1
  <2>2. CASE k >= j
    <3>1. k \in j..(n - 1) /\ k + 1 \in 1..n /\ k + 1 # j /\ ~(k < j)
      BY <1>1, <2>2
    <3> QED
      BY <1>3, <3>1
  <2> QED
    BY <2>1, <2>2
<1>5. \A d : In(d, t) => In(d, s)
  BY <1>4 DEF In, n
<1>6. ASSUME Once(s) PROVE Once(t) /\ ~In(e, t)
  <2>0. Len(t) \in Nat
    BY <1>1, <1>3
  <2>1. ~In(e, t)
    BY <1>2, <1>4, <1>6 DEF In, Once, n
  <2>2. ASSUME NEW k \in 1..Len(t), NEW m \in 1..Len(t), t[k] = t[m] PROVE k = m
    <3>1. PICK i \in 1..n : /\ t[k] = s[i] /\ i # j
                            /\ (k < j => i = k) /\ (k >= j => i = k + 1)
      BY <1>4
    <3>2. PICK l \in 1..n : /\ t[m] = s[l] /\ l # j
                            /\ (m < j => l = m) /\ (m >= j => l = m + 1)
      BY <1>4
    <3>3. i = l
      BY <1>6, <2>2, <3>1, <3>2 DEF Once, n
    <3> QED
      BY <1>1, <2>0, <3>1, <3>2, <3>3
  <2> QED
    BY <2>1, <2>2 DEF Once
<1> QED
  BY <1>3, <1>5, <1>6 DEF t

\* LinkEV::onClose takes a descriptor out of the kill queue it waits in.
QueuesType == [Vids -> [uids : Seq(Uids), dels : Seq(Fds)]]
Unqueued(q, fd, t) ==
    /\ \A v \in Vids : /\ t[v].uids = q[v].uids
                       /\ \A d : In(d, t[v].dels) => In(d, q[v].dels)
                       /\ q[v].dels = <<>> => t[v].dels = <<>>
                       /\ Once(q[v].dels) => Once(t[v].dels)
    /\ (\A v \in Vids : Once(q[v].dels)) /\
       (\A u, v \in Vids : In(fd, q[u].dels) /\ In(fd, q[v].dels) => u = v)
       => \A v \in Vids : ~In(fd, t[v].dels)
\* onClose takes a descriptor out of the first kill queue that holds it; where none holds it
\* twice and no two hold it, it is in none afterwards.
LEMMA UnqueueFacts ==
    ASSUME NEW q \in QueuesType, NEW fd \in Fds
    PROVE  Unqueue(q, fd) \in QueuesType /\ Unqueued(q, fd, Unqueue(q, fd))
<1> DEFINE t == Unqueue(q, fd)
           has == {v \in Vids : In(fd, q[v].dels)}
<1>1. CASE has = {}
  <2>1. t = q
    BY <1>1 DEF Unqueue
  <2>2. \A v \in Vids : ~In(fd, q[v].dels)
    BY <1>1
  <2> HIDE DEF t
  <2> QED
    BY <2>1, <2>2 DEF t, Unqueued
<1>2. CASE has # {}
  <2> DEFINE v == CHOOSE u \in has : \A k \in has : u <= k
             s == RemoveFirst(q[v].dels, fd)
  <2>1. v \in has
    <3>1. has \subseteq Nat
      BY DEF Vids
    <3>2. \E u \in has : \A k \in has : u <= k
      BY <1>2, <3>1, Least
    <3> HIDE DEF has
    <3> QED
      BY <3>2
  <2>2. t = [q EXCEPT ![v].dels = s]
    BY <1>2 DEF Unqueue
  <2>3. v \in Vids /\ In(fd, q[v].dels)
    BY <2>1
  <2> HIDE DEF v
  <2>4. q[v].dels \in Seq(Fds)
    BY <2>3 DEF QueuesType
  <2>5. /\ s \in Seq(Fds) /\ \A d : In(d, s) => In(d, q[v].dels)
        /\ Once(q[v].dels) => Once(s) /\ ~In(fd, s)
    BY <2>3, <2>4, RemoveFirstFacts
  <2> HIDE DEF s, t, has
  <2>6. /\ t \in QueuesType /\ t[v].dels = s /\ t[v].uids = q[v].uids
        /\ \A u \in Vids : u # v => t[u] = q[u]
    BY <2>2, <2>3, <2>5 DEF QueuesType
  <2>7. q[v].dels # <<>>
    BY <2>3 DEF In
  <2>8. \A u \in Vids : /\ t[u].uids = q[u].uids
                        /\ \A d : In(d, t[u].dels) => In(d, q[u].dels)
                        /\ q[u].dels = <<>> => t[u].dels = <<>>
                        /\ Once(q[u].dels) => Once(t[u].dels)
    BY <2>5, <2>6, <2>7
  <2>9. ASSUME \A u \in Vids : Once(q[u].dels),
               \A u, k \in Vids : In(fd, q[u].dels) /\ In(fd, q[k].dels) => u = k,
               NEW u \in Vids
        PROVE  ~In(fd, t[u].dels)
    BY <2>3, <2>5, <2>6, <2>9
  <2> QED
    BY <2>6, <2>8, <2>9 DEF t, Unqueued
<1> QED
  BY <1>1, <1>2

\* Without one entry.
LEMMA DeleteFacts ==
    ASSUME NEW S, NEW f \in Table(S), NEW o
    PROVE  /\ Delete(f, o) \in Table(S) /\ DOMAIN Delete(f, o) = DOMAIN f \ {o}
           /\ \A d \in DOMAIN f \ {o} : Delete(f, o)[d] = f[d]
<1>1. DOMAIN f \subseteq Objs /\ \A d \in DOMAIN f : f[d] \in S
  BY DEF Table
<1>2. Delete(f, o) \in [DOMAIN f \ {o} -> S]
  BY <1>1 DEF Delete, Restrict
<1>3. DOMAIN f \ {o} \in SUBSET Objs
  BY <1>1
<1> QED
  BY <1>2, <1>3 DEF Delete, Restrict, Table

\* The fields after CClientConn::~CClientConn of p, whose client is c.
LEMMA DeleteConnIs ==
    ASSUME NEW x \in Worlds, NEW p \in DOMAIN x.conn, NEW c, c = x.cmap[x.conn[p].fd],
           c # None, c \in DOMAIN x.client, x.client[c].fd = x.conn[p].fd
    PROVE  LET y == DeleteConn(x, p)
               fd == x.conn[p].fd
               uid == x.client[c].uid
               q == IF x.robots[uid] = None THEN x.queues
                    ELSE [x.queues EXCEPT ![x.robots[uid]].uids = Append(@, uid)]
           IN /\ y \in Worlds /\ y.fault = x.fault /\ y.robots = x.robots /\ y.last = x.last
              /\ y.cmap = [x.cmap EXCEPT ![fd] = None]
              /\ y.conMap = [x.conMap EXCEPT ![fd] = None]
              /\ y.client = Delete(x.client, c) /\ y.conn = Delete(x.conn, p)
              /\ q \in QueuesType /\ y.queues = Unqueue(q, fd)
<1> DEFINE fd == x.conn[p].fd
           uid == x.client[c].uid
           q == IF x.robots[uid] = None THEN x.queues
                ELSE [x.queues EXCEPT ![x.robots[uid]].uids = Append(@, uid)]
           C == Delete(x.client, c)
           N == Delete(x.conn, p)
           z == DeleteClient(x, c)
           o == OnClose(x, p)
           y == DeleteConn(x, p)
<1>1. /\ x.queues \in QueuesType /\ x.robots \in [Uids -> Vids \cup {None}]
      /\ x.cmap \in [Fds -> Objs \cup {None}] /\ x.conMap \in [Fds -> Objs \cup {None, Null}]
      /\ x.client \in Table(Clients) /\ x.conn \in Table(Conns) /\ fd \in Fds /\ uid \in Uids
  <2>1. x.client \in Table(Clients) /\ x.conn \in Table(Conns)
    BY DEF Worlds
  <2> QED
    BY <2>1, WorldFacts DEF QueuesType
<1>2. C \in Table(Clients) /\ N \in Table(Conns)
  BY <1>1, DeleteFacts
<1>3. q \in QueuesType
  <2>1. CASE x.robots[uid] = None
    BY <1>1, <2>1
  <2>2. CASE x.robots[uid] # None
    <3>1. x.robots[uid] \in Vids
      BY <1>1, <2>2
    <3> DEFINE v == x.robots[uid]
               s == Append(x.queues[v].uids, uid)
    <3>2. v \in Vids /\ q = [x.queues EXCEPT ![v].uids = s]
      BY <2>2, <3>1
    <3> HIDE DEF v, uid
    <3>3. x.queues[v].uids \in Seq(Uids)
      BY <3>2, WorldFacts
    <3>4. s \in Seq(Uids)
      BY <1>1, <3>3
    <3> HIDE DEF s, q
    <3> QED
      BY <1>1, <3>2, <3>4 DEF QueuesType
  <2> QED
    BY <2>1, <2>2
<1>4. /\ z \in Worlds /\ z.fault = x.fault /\ z.robots = x.robots /\ z.last = x.last
      /\ z.cmap = [x.cmap EXCEPT ![fd] = None] /\ z.conMap = x.conMap
      /\ z.client = C /\ z.conn = x.conn /\ z.queues = q
  <2> DEFINE x1 == [x EXCEPT !.cmap[fd] = None, !.client = C]
  <2>1. /\ x1 \in Worlds /\ x1.fault = x.fault /\ x1.robots = x.robots /\ x1.last = x.last
        /\ x1.cmap = [x.cmap EXCEPT ![fd] = None] /\ x1.conMap = x.conMap
        /\ x1.client = C /\ x1.conn = x.conn /\ x1.queues = x.queues
    <3> HIDE DEF C, fd
    <3>1. [x.cmap EXCEPT ![fd] = None] \in [Fds -> Objs \cup {None}]
      BY <1>1
    <3> QED
      BY <1>2, <3>1 DEF Worlds
  <2>2. z = IF x.robots[uid] = None THEN x1
            ELSE [x1 EXCEPT !.queues[x.robots[uid]].uids = Append(@, uid)]
    BY DEF DeleteClient
  <2> HIDE DEF x1, z, uid, C, fd
  <2>3. CASE x.robots[uid] = None
    BY <2>1, <2>2, <2>3
  <2>4. CASE x.robots[uid] # None
    <3> DEFINE v == x.robots[uid]
               s == Append(x1.queues[v].uids, uid)
    <3>1. v \in Vids
      BY <1>1, <2>4
    <3>2. z = [x1 EXCEPT !.queues[v].uids = s]
      BY <2>2, <2>4
    <3>3. s \in Seq(Uids)
      BY <1>1, <2>1, <3>1, WorldFacts
    <3>4. q = [x1.queues EXCEPT ![v].uids = s]
      BY <2>1, <2>4
    <3> HIDE DEF v, s, q
    <3> QED
      BY <2>1, <3>1, <3>2, <3>3, <3>4, SetUids
  <2> QED
    BY <2>3, <2>4
<1>5. Unqueue(q, fd) \in QueuesType
  <2> HIDE DEF q, fd
  <2> QED
    BY <1>1, <1>3, UnqueueFacts
<1> HIDE DEF q, C, N, z, uid, fd
<1>6. o = [z EXCEPT !.conMap[fd] = None, !.queues = Unqueue(@, fd)]
  BY DEF OnClose, fd, z
<1>7. /\ o \in Worlds /\ o.fault = x.fault /\ o.robots = x.robots /\ o.last = x.last
      /\ o.cmap = [x.cmap EXCEPT ![fd] = None] /\ o.conMap = [x.conMap EXCEPT ![fd] = None]
      /\ o.client = C /\ o.conn = x.conn /\ o.queues = Unqueue(q, fd)
  <2>1. o = [z EXCEPT !.conMap[fd] = None, !.queues = Unqueue(q, fd)]
    BY <1>4, <1>6
  <2> HIDE DEF o
  <2> DEFINE U == Unqueue(q, fd)
  <2>2. U \in [Vids -> [uids : Seq(Uids), dels : Seq(Fds)]]
    BY <1>5 DEF QueuesType
  <2>3. [z.conMap EXCEPT ![fd] = None] \in [Fds -> Objs \cup {None, Null}]
    BY <1>1, <1>4
  <2>4. o = [z EXCEPT !.conMap[fd] = None, !.queues = U]
    BY <2>1
  <2> HIDE DEF U
  <2>5. o \in Worlds /\ o.queues = U /\ o.conMap = [z.conMap EXCEPT ![fd] = None]
        /\ o.fault = z.fault /\ o.robots = z.robots /\ o.last = z.last
        /\ o.cmap = z.cmap /\ o.client = z.client /\ o.conn = z.conn
    BY <1>4, <2>2, <2>3, <2>4 DEF Worlds
  <2> QED
    BY <1>4, <2>5 DEF U
<1> HIDE DEF o
<1>8. y = [o EXCEPT !.conn = N]
  BY <1>7 DEF DeleteConn, o, N
<1>9. /\ y \in Worlds /\ y.fault = o.fault /\ y.robots = o.robots /\ y.last = o.last
      /\ y.cmap = o.cmap /\ y.conMap = o.conMap /\ y.client = o.client /\ y.conn = N
      /\ y.queues = o.queues
  <2> HIDE DEF y
  <2> QED
    BY <1>2, <1>7, <1>8 DEF Worlds
<1> HIDE DEF y
<1> QED
  BY <1>3, <1>7, <1>9 DEF y, q, C, N, uid, fd

\* A client and its connection leave the tables together.
Leaves(x, y, p, c, fd) ==
    /\ y.cmap = [x.cmap EXCEPT ![fd] = None] /\ y.conMap = [x.conMap EXCEPT ![fd] = None]
    /\ y.client = Delete(x.client, c) /\ y.conn = Delete(x.conn, p)
\* The tables that are left lead to each other.
LEMMA LeaveLinked ==
    ASSUME NEW x \in Worlds, Linked(x), NEW p \in DOMAIN x.conn, NEW y \in Worlds,
           NEW fd, fd = x.conn[p].fd, NEW c, c = x.cmap[fd], Leaves(x, y, p, c, fd)
    PROVE  /\ Linked(y) /\ DOMAIN y.client = DOMAIN x.client \ {c}
           /\ \A d \in DOMAIN y.client : y.client[d] = x.client[d]
           /\ \A d \in DOMAIN y.client : y.conn[y.client[d].conn] = x.conn[x.client[d].conn]
           /\ \A g \in Fds : g # fd => y.cmap[g] = x.cmap[g]
           /\ \A g \in Fds : x.cmap[g] = c => g = fd
<1>1. /\ fd \in Fds /\ x.cmap \in [Fds -> Objs \cup {None}]
      /\ x.conMap \in [Fds -> Objs \cup {None, Null}]
      /\ \A d \in DOMAIN x.client : x.client[d].fd \in Fds
      /\ \A q \in DOMAIN x.conn : x.conn[q].fd \in Fds
  BY WorldFacts
<1>2. c # None /\ x.client[c].conn = p /\ c \in DOMAIN x.client /\ x.client[c].fd = fd
  BY <1>1 DEF Linked
<1>3. /\ DOMAIN y.client = DOMAIN x.client \ {c} /\ DOMAIN y.conn = DOMAIN x.conn \ {p}
      /\ \A d \in DOMAIN x.client \ {c} : y.client[d] = x.client[d]
      /\ \A q \in DOMAIN x.conn \ {p} : y.conn[q] = x.conn[q]
  <2>1. x.client \in Table(Clients) /\ x.conn \in Table(Conns)
    BY DEF Worlds
  <2>2. y.client = Delete(x.client, c) /\ y.conn = Delete(x.conn, p)
    BY DEF Leaves
  <2>3. /\ DOMAIN Delete(x.client, c) = DOMAIN x.client \ {c}
        /\ \A d \in DOMAIN x.client \ {c} : Delete(x.client, c)[d] = x.client[d]
    BY DEF Delete, Restrict
  <2>4. /\ DOMAIN Delete(x.conn, p) = DOMAIN x.conn \ {p}
        /\ \A d \in DOMAIN x.conn \ {p} : Delete(x.conn, p)[d] = x.conn[d]
    BY DEF Delete, Restrict
  <2> QED
    BY <2>2, <2>3, <2>4
<1>4. /\ y.cmap[fd] = None /\ y.conMap[fd] = None
      /\ \A g \in Fds : g # fd => y.cmap[g] = x.cmap[g] /\ y.conMap[g] = x.conMap[g]
  BY <1>1 DEF Leaves
<1>5. \A d \in DOMAIN x.client : d # c => x.client[d].fd # fd
  BY <1>2 DEF Linked
<1>6. ASSUME NEW q \in DOMAIN x.conn, q # p PROVE x.conn[q].fd # fd
  <2>1. x.client[x.cmap[x.conn[q].fd]].conn = q
    BY DEF Linked
  <2> QED
    BY <1>2, <1>6, <2>1
<1>7. ASSUME NEW g \in Fds, y.cmap[g] # None
      PROVE  y.cmap[g] \in DOMAIN y.client /\ y.client[y.cmap[g]].fd = g
  <2>1. g # fd /\ y.cmap[g] = x.cmap[g]
    BY <1>4, <1>7
  <2>2. x.cmap[g] \in DOMAIN x.client /\ x.client[x.cmap[g]].fd = g
    BY <1>7, <2>1 DEF Linked
  <2> QED
    BY <1>2, <1>3, <2>1, <2>2
<1>8. ASSUME NEW d \in DOMAIN y.client
      PROVE  /\ y.cmap[y.client[d].fd] = d /\ y.client[d].conn \in DOMAIN y.conn
             /\ y.conn[y.client[d].conn].fd = y.client[d].fd
             /\ y.conn[y.client[d].conn] = x.conn[x.client[d].conn]
  <2>1. d \in DOMAIN x.client /\ d # c /\ y.client[d] = x.client[d]
    BY <1>3
  <2>2. /\ x.cmap[x.client[d].fd] = d /\ x.client[d].conn \in DOMAIN x.conn
        /\ x.conn[x.client[d].conn].fd = x.client[d].fd
    BY <2>1 DEF Linked
  <2>3. x.client[d].fd # fd /\ x.client[d].fd \in Fds
    BY <1>1, <1>5, <2>1
  <2>4. x.client[d].conn # p
    BY <2>2, <2>3
  <2> QED
    BY <1>3, <1>4, <2>1, <2>2, <2>3, <2>4
<1>9. ASSUME NEW q \in DOMAIN y.conn
      PROVE  y.cmap[y.conn[q].fd] # None /\ y.client[y.cmap[y.conn[q].fd]].conn = q
  <2>1. q \in DOMAIN x.conn /\ q # p /\ y.conn[q] = x.conn[q]
    BY <1>3
  <2>2. x.cmap[x.conn[q].fd] # None /\ x.client[x.cmap[x.conn[q].fd]].conn = q
    BY <2>1 DEF Linked
  <2>3. x.conn[q].fd # fd /\ x.conn[q].fd \in Fds
    BY <1>1, <1>6, <2>1
  <2>4. y.cmap[x.conn[q].fd] = x.cmap[x.conn[q].fd]
    BY <1>4, <2>3
  <2>5. x.cmap[x.conn[q].fd] \in DOMAIN x.client /\ x.cmap[x.conn[q].fd] # c
    BY <1>2, <2>1, <2>2, <2>3 DEF Linked
  <2> QED
    BY <1>3, <2>1, <2>2, <2>4, <2>5
<1>10. ASSUME NEW g \in Fds, y.conMap[g] \in Objs
       PROVE  y.conMap[g] \in DOMAIN y.conn /\ y.conn[y.conMap[g]].fd = g
  <2>1. g # fd /\ y.conMap[g] = x.conMap[g]
    BY <1>4, <1>10, Numbers
  <2>2. x.conMap[g] \in DOMAIN x.conn /\ x.conn[x.conMap[g]].fd = g
    BY <1>10, <2>1 DEF Linked
  <2>3. x.conMap[g] # p
    BY <2>1, <2>2
  <2> QED
    BY <1>3, <2>1, <2>2, <2>3
<1>11. Linked(y)
  BY <1>7, <1>8, <1>9, <1>10 DEF Linked
<1>12. \A g \in Fds : x.cmap[g] = c => g = fd
  BY <1>2 DEF Linked
<1> QED
  BY <1>3, <1>4, <1>8, <1>11, <1>12

\* CClientConn::~CClientConn leaves good tables: the connection, its client and its place
\* in a kill queue are gone, and the robot waits again.
LEMMA DeleteConnGood ==
    ASSUME NEW x, NEW n \in Nat, Good(x, n), NEW p \in DOMAIN x.conn
    PROVE  LET y == DeleteConn(x, p)
           IN /\ Good(y, n)
              /\ \A c \in DOMAIN y.client : c \in DOMAIN x.client /\ y.client[c] = x.client[c]
              /\ \A v \in Vids, d \in Fds : In(d, y.queues[v].dels) => In(d, x.queues[v].dels)
<1> DEFINE y == DeleteConn(x, p)
           fd == x.conn[p].fd
           c == x.cmap[fd]
           uid == x.client[c].uid
           h == x.robots[uid]
           q == IF h = None THEN x.queues
                ELSE [x.queues EXCEPT ![h].uids = Append(@, uid)]
<1>1. /\ x \in Worlds /\ x.fault = "none" /\ Linked(x) /\ Waiting(x) /\ Playing(x)
      /\ n = 0 => Conserved(x)
      /\ n <= 1 => Kills(x)
  BY DEF Good
<1>2. fd \in Fds /\ c # None /\ c \in DOMAIN x.client /\ x.client[c].fd = fd
  BY <1>1, Partners, WorldFacts
<1>3. uid \in Uids /\ h \in Vids \cup {None}
  BY <1>1, <1>2, WorldFacts
<1>4. /\ y \in Worlds /\ y.fault = x.fault /\ y.robots = x.robots /\ y.last = x.last
      /\ y.cmap = [x.cmap EXCEPT ![fd] = None]
      /\ y.conMap = [x.conMap EXCEPT ![fd] = None]
      /\ y.client = Delete(x.client, c) /\ y.conn = Delete(x.conn, p)
      /\ q \in QueuesType /\ y.queues = Unqueue(q, fd)
  BY <1>1, <1>2, DeleteConnIs
<1>5. /\ \A v \in Vids : q[v].dels = x.queues[v].dels
      /\ \A v \in Vids : v # h => q[v].uids = x.queues[v].uids
      /\ h # None => q[h].uids = Append(x.queues[h].uids, uid)
  <2>1. x.queues \in [Vids -> [uids : Seq(Uids), dels : Seq(Fds)]]
    BY <1>1, WorldFacts
  <2>2. CASE h = None
    BY <2>2
  <2>3. CASE h # None
    <3>1. h \in Vids /\ q = [x.queues EXCEPT ![h].uids = Append(@, uid)]
      BY <1>3, <2>3
    <3> HIDE DEF q, h
    <3> QED
      BY <2>1, <3>1
  <2> QED
    BY <2>2, <2>3
<1> HIDE DEF y, fd, c, uid, h, q
<1>6. /\ \A v \in Vids : /\ y.queues[v].uids = q[v].uids
                         /\ \A d : In(d, y.queues[v].dels) => In(d, x.queues[v].dels)
                         /\ x.queues[v].dels = <<>> => y.queues[v].dels = <<>>
                         /\ Once(x.queues[v].dels) => Once(y.queues[v].dels)
      /\ (\A v \in Vids : Once(x.queues[v].dels)) /\
         (\A u, v \in Vids : In(fd, x.queues[u].dels) /\ In(fd, x.queues[v].dels) => u = v)
         => \A v \in Vids : ~In(fd, y.queues[v].dels)
  <2> DEFINE t == Unqueue(q, fd)
  <2>1. Unqueued(q, fd, t)
    BY <1>2, <1>4, UnqueueFacts
  <2>2. y.queues = t
    BY <1>4
  <2> HIDE DEF t
  <2> QED
    BY <1>5, <2>1, <2>2 DEF Unqueued
<1>7. /\ Linked(y) /\ DOMAIN y.client = DOMAIN x.client \ {c}
      /\ \A d \in DOMAIN y.client : y.client[d] = x.client[d]
      /\ \A d \in DOMAIN y.client : y.conn[y.client[d].conn] = x.conn[x.client[d].conn]
      /\ \A g \in Fds : g # fd => y.cmap[g] = x.cmap[g]
      /\ \A g \in Fds : x.cmap[g] = c => g = fd
  <2>1. fd = x.conn[p].fd /\ c = x.cmap[fd]
    BY DEF fd, c
  <2>2. Leaves(x, y, p, c, fd)
    BY <1>4 DEF Leaves
  <2>3. y \in Worlds
    BY <1>4
  <2> QED
    BY <1>1, <2>1, <2>2, <2>3, LeaveLinked
<1>8. \A v \in Vids : x.queues[v].uids \in Seq(Uids)
  BY <1>1, WorldFacts
<1>9. ASSUME NEW v \in 1..NumVids, NEW i \in 1..Len(y.queues[v].uids)
      PROVE  In(y.queues[v].uids[i], x.queues[v].uids) \/ (y.queues[v].uids[i] = uid /\ v = h)
  <2>0. v \in Vids
    BY Numbers
  <2>1. CASE v # h
    BY <1>5, <1>6, <2>0, <2>1 DEF In
  <2>2. CASE v = h
    <3>1. y.queues[v].uids = Append(x.queues[v].uids, uid)
      BY <1>5, <1>6, <2>0, <2>2, Numbers
    <3>2. In(y.queues[v].uids[i], Append(x.queues[v].uids, uid))
      BY <3>1 DEF In
    <3> QED
      BY <1>3, <1>8, <2>0, <2>2, <3>2, AppendIn
  <2> QED
    BY <2>1, <2>2
<1>10. Waiting(y)
  <2> SUFFICES ASSUME NEW v \in 1..NumVids, NEW i \in 1..Len(y.queues[v].uids)
               PROVE  y.robots[y.queues[v].uids[i]] = v
    BY DEF Waiting
  <2>1. CASE In(y.queues[v].uids[i], x.queues[v].uids)
    BY <1>1, <1>4, <2>1 DEF Waiting, In
  <2>2. CASE y.queues[v].uids[i] = uid /\ v = h
    BY <1>4, <2>2 DEF h
  <2> QED
    BY <1>9, <2>1, <2>2
<1>11. Playing(y)
  BY <1>1, <1>7 DEF Playing
<1>12. ASSUME n = 0 PROVE Conserved(y)
  <2>1. Conserved(x)
    BY <1>1, <1>12
  <2>2. uid \in x.last /\ h = Home[uid] /\ h \in 1..NumVids /\ h \in Vids /\ h # None /\ 0 \in Vids
    <3>1. uid \in x.last /\ h = Home[uid]
      BY <1>2, <2>1 DEF Conserved, uid, h
    <3> QED
      BY <1>3, <3>1, Numbers
  <2>3. \A d \in DOMAIN x.client : x.client[d].uid = uid => d = c
    BY <1>2, <2>1 DEF Conserved, uid
  <2>4. \A u : Online(y, u) <=> Online(x, u) /\ u # uid
    BY <1>7, <2>3 DEF Online, uid
  <2>5. Online(x, uid)
    BY <1>2 DEF Online, uid
  <2>6. y.queues[0].dels = <<>>
    BY <1>6, <2>1, <2>2 DEF Conserved
  <2>7. \A u \in y.last : y.robots[u] = Home[u]
    BY <1>4, <2>1 DEF Conserved
  <2>8. \A d \in DOMAIN y.client : y.client[d].uid \in y.last
    BY <1>4, <1>7, <2>1 DEF Conserved
  <2>9. \A d, e \in DOMAIN y.client : y.client[d].uid = y.client[e].uid => d = e
    BY <1>7, <2>1 DEF Conserved
  <2>10. ASSUME NEW v \in 1..NumVids
         PROVE  /\ Once(y.queues[v].uids)
                /\ \A i \in 1..Len(y.queues[v].uids) : Idle(y, y.queues[v].uids[i])
    <3>0. v \in Vids
      BY Numbers
    <3>1. Once(x.queues[v].uids) /\ \A u : In(u, x.queues[v].uids) => Idle(x, u)
      BY <2>1 DEF Conserved, In
    <3>2. ~In(uid, x.queues[v].uids)
      BY <2>5, <3>1 DEF Idle
    <3>3. Once(y.queues[v].uids)
      <4>1. CASE v # h
        BY <1>5, <1>6, <3>0, <3>1, <4>1
      <4>2. CASE v = h
        <5> DEFINE s == x.queues[v].uids
        <5>1. s \in Seq(Uids) /\ Once(s) /\ ~In(uid, s) /\ uid \in Uids
          BY <1>3, <1>8, <3>0, <3>1, <3>2
        <5>2. y.queues[v].uids = Append(s, uid)
          BY <1>5, <1>6, <2>2, <3>0, <4>2
        <5> HIDE DEF s
        <5>3. Once(Append(s, uid))
          BY <5>1, AppendOnce
        <5> QED
          BY <5>2, <5>3
      <4> QED
        BY <4>1, <4>2
    <3>4. Idle(y, uid)
      BY <1>4, <2>2, <2>4 DEF Idle
    <3>5. \A u : Idle(x, u) => Idle(y, u)
      BY <1>4, <2>4 DEF Idle
    <3> QED
      BY <1>9, <3>1, <3>3, <3>4, <3>5
  <2>11. ASSUME NEW u \in y.last PROVE Online(y, u) \/ In(u, y.queues[Home[u]].uids)
    <3>1. u \in x.last /\ u \in Uids
      BY <1>1, <1>4, WorldFacts
    <3>2. Home[u] \in Vids
      BY <3>1, Numbers
    <3>3. CASE u = uid
      <4>1. y.queues[h].uids = Append(x.queues[h].uids, uid)
        BY <1>5, <1>6, <2>2
      <4>2. In(uid, Append(x.queues[h].uids, uid))
        BY <1>3, <1>8, <2>2, AppendIn
      <4> QED
        BY <2>2, <3>3, <4>1, <4>2
    <3>4. CASE u # uid /\ Online(x, u)
      BY <2>4, <3>4
    <3>5. CASE In(u, x.queues[Home[u]].uids)
      <4>1. CASE Home[u] # h
        BY <1>5, <1>6, <3>2, <3>5, <4>1
      <4>2. CASE Home[u] = h
        <5>1. y.queues[h].uids = Append(x.queues[h].uids, uid)
          BY <1>5, <1>6, <2>2
        <5>2. In(u, Append(x.queues[h].uids, uid))
          BY <1>3, <1>8, <2>2, <3>5, <4>2, AppendIn
        <5> QED
          BY <4>2, <5>1, <5>2
      <4> QED
        BY <4>1, <4>2
    <3> QED
      BY <2>1, <3>1, <3>3, <3>4, <3>5 DEF Conserved
  <2> QED
    BY <2>6, <2>7, <2>8, <2>9, <2>10, <2>11 DEF Conserved
<1>13. ASSUME n <= 1 PROVE Kills(y)
  <2>1. Kills(x)
    BY <1>1, <1>13
  <2>2. \A v \in Vids : \A d : In(d, x.queues[v].dels) => Meant(x, v, d)
    BY <2>1 DEF Kills, In
  <2>3. \A v \in Vids : ~In(fd, y.queues[v].dels)
    <3>1. \A v \in Vids : Once(x.queues[v].dels)
      BY <2>1 DEF Kills
    <3>2. \A u, v \in Vids : In(fd, x.queues[u].dels) /\ In(fd, x.queues[v].dels) => u = v
      BY <2>2 DEF Meant
    <3> QED
      BY <1>6, <3>1, <3>2
  <2> SUFFICES ASSUME NEW v \in Vids
               PROVE  /\ Once(y.queues[v].dels)
                      /\ \A i \in 1..Len(y.queues[v].dels) : Meant(y, v, y.queues[v].dels[i])
    BY DEF Kills
  <2>4. Once(y.queues[v].dels)
    BY <1>6, <2>1 DEF Kills
  <2>5. ASSUME NEW d \in Fds, In(d, y.queues[v].dels) PROVE Meant(y, v, d)
    <3>1. d # fd /\ In(d, x.queues[v].dels)
      BY <1>6, <2>3, <2>5
    <3>2. Meant(x, v, d)
      BY <2>2, <3>1
    <3>3. y.cmap[d] = x.cmap[d] /\ x.cmap[d] # c /\ x.cmap[d] # None
      BY <1>7, <3>1, <3>2 DEF Meant
    <3>4. x.cmap[d] \in DOMAIN x.client
      BY <1>1, <3>3 DEF Linked
    <3>5. y.client[x.cmap[d]] = x.client[x.cmap[d]]
      BY <1>7, <3>3, <3>4
    <3> QED
      BY <1>4, <3>2, <3>3, <3>5 DEF Meant, Owner
  <2>6. \A i \in 1..Len(y.queues[v].dels) : y.queues[v].dels[i] \in Fds
    BY <1>4, WorldFacts
  <2> QED
    BY <2>4, <2>5, <2>6 DEF In
<1>14. Good(y, n)
  BY <1>1, <1>4, <1>7, <1>10, <1>11, <1>12, <1>13 DEF Good
<1> QED
  BY <1>6, <1>7, <1>14 DEF y

\* The same in another order.
Reordered(s, t) == (\A d : In(d, t) <=> In(d, s)) /\ (Once(s) => Once(t))

\* A step that touches nothing but the order in which robots wait.
SameBut(x, y) ==
    /\ y.fault = x.fault /\ y.robots = x.robots /\ y.last = x.last /\ y.cmap = x.cmap
    /\ y.conMap = x.conMap /\ y.client = x.client /\ y.conn = x.conn
\* It keeps the tables good.
LEMMA RequeueGood ==
    ASSUME NEW x, NEW n \in Nat, Good(x, n), NEW y \in Worlds, SameBut(x, y),
           \A v \in Vids : /\ y.queues[v].dels = x.queues[v].dels
                           /\ Reordered(x.queues[v].uids, y.queues[v].uids)
    PROVE  Good(y, n)
<1>1. /\ x \in Worlds /\ x.fault = "none" /\ Linked(x) /\ Waiting(x) /\ Playing(x)
      /\ n = 0 => Conserved(x)
      /\ n <= 1 => Kills(x)
  BY DEF Good
<1>2. Linked(y)
  BY <1>1 DEF Linked, SameBut
<1>3. Waiting(y)
  <2> SUFFICES ASSUME NEW v \in 1..NumVids, NEW i \in 1..Len(y.queues[v].uids)
               PROVE  y.robots[y.queues[v].uids[i]] = v
    BY DEF Waiting
  <2>1. In(y.queues[v].uids[i], x.queues[v].uids)
    <3>1. v \in Vids
      BY Numbers
    <3>2. In(y.queues[v].uids[i], y.queues[v].uids)
      BY DEF In
    <3> QED
      BY <3>1, <3>2 DEF Reordered
  <2>2. PICK j \in 1..Len(x.queues[v].uids) : x.queues[v].uids[j] = y.queues[v].uids[i]
    BY <2>1 DEF In
  <2>3. x.robots[x.queues[v].uids[j]] = v
    BY <1>1 DEF Waiting
  <2>4. y.robots = x.robots
    BY DEF SameBut
  <2> QED
    BY <2>2, <2>3, <2>4
<1>4. Playing(y)
  BY <1>1 DEF Playing, SameBut
<1>5. ASSUME n = 0 PROVE Conserved(y)
  <2>1. Conserved(x)
    BY <1>1, <1>5
  <2>2. \A u : Online(y, u) <=> Online(x, u)
    BY DEF Online, SameBut
  <2>3. \A u : Idle(y, u) <=> Idle(x, u)
    BY <2>2 DEF Idle, SameBut
  <2>4. y.queues[0].dels = <<>>
    BY <2>1, Numbers DEF Conserved
  <2>5. ASSUME NEW v \in 1..NumVids
        PROVE  /\ Once(y.queues[v].uids)
               /\ \A i \in 1..Len(y.queues[v].uids) : Idle(y, y.queues[v].uids[i])
    <3>0. v \in Vids
      BY Numbers
    <3>1. Once(x.queues[v].uids) /\ \A u : In(u, x.queues[v].uids) => Idle(x, u)
      BY <2>1 DEF Conserved, In
    <3>2. Once(y.queues[v].uids) /\ \A u : In(u, y.queues[v].uids) => Idle(y, u)
      BY <2>3, <3>0, <3>1 DEF Reordered
    <3> QED
      BY <3>2 DEF In
  <2>6. ASSUME NEW u \in y.last PROVE Online(y, u) \/ In(u, y.queues[Home[u]].uids)
    <3>1. u \in x.last /\ u \in Uids
      BY <1>1, WorldFacts DEF SameBut
    <3>2. Home[u] \in Vids
      BY <3>1, Numbers
    <3>3. Online(x, u) \/ In(u, x.queues[Home[u]].uids)
      BY <2>1, <3>1 DEF Conserved
    <3> QED
      BY <2>2, <3>2, <3>3 DEF Reordered
  <2> QED
    BY <2>1, <2>4, <2>5, <2>6 DEF Conserved, SameBut
<1>6. ASSUME n <= 1 PROVE Kills(y)
  <2>1. \A v, d : Meant(y, v, d) <=> Meant(x, v, d)
    BY DEF Meant, Owner, SameBut
  <2> QED
    BY <1>1, <1>6, <2>1 DEF Kills
<1> QED
  BY <1>1, <1>2, <1>3, <1>4, <1>5, <1>6 DEF Good, SameBut

\* The first k go to the end.
LEMMA RotateFacts ==
    ASSUME NEW S, NEW s \in Seq(S), NEW k \in 0..Len(s)
    PROVE  LET t == SubSeq(s, k + 1, Len(s)) \o SubSeq(s, 1, k)
           IN t \in Seq(S) /\ Len(t) = Len(s) /\ Reordered(s, t)
<1> DEFINE n == Len(s)
           a == SubSeq(s, k + 1, n)
           b == SubSeq(s, 1, k)
           t == a \o b
<1>1. n \in Nat /\ k \in 0..n /\ k \in Nat
  OBVIOUS
<1>2. a \in Seq(S) /\ Len(a) = n - k /\ \A i \in 1..(n - k) : a[i] = s[i + k]
  <2>1. a \in Seq(S) /\ Len(a) = (IF k + 1 <= n THEN n - (k + 1) + 1 ELSE 0)
    OBVIOUS
  <2>2. \A i \in 1..(n - k) : a[i] = s[(k + 1) + i - 1]
    OBVIOUS
  <2> QED
    BY <1>1, <2>1, <2>2
<1>3. b \in Seq(S) /\ Len(b) = k /\ \A i \in 1..k : b[i] = s[i]
  <2>1. b \in Seq(S) /\ Len(b) = (IF 1 <= k THEN k - 1 + 1 ELSE 0)
    OBVIOUS
  <2>2. \A i \in 1..k : b[i] = s[1 + i - 1]
    OBVIOUS
  <2> QED
    BY <1>1, <2>1, <2>2
<1> HIDE DEF a, b, n
<1>4. /\ t \in Seq(S) /\ Len(t) = Len(a) + Len(b)
      /\ \A i \in 1..Len(a) : t[i] = a[i]
      /\ \A i \in (Len(a) + 1)..(Len(a) + Len(b)) : t[i] = b[i - Len(a)]
  <2>1. a \in Seq(S) /\ b \in Seq(S)
    BY <1>2, <1>3
  <2> QED
    BY <2>1, ConcatProperties
<1> HIDE DEF t
<1>5. Len(t) = n
  BY <1>1, <1>2, <1>3, <1>4
<1> DEFINE at(i) == IF i <= n - k THEN i + k ELSE i - (n - k)
<1>6. \A i \in 1..n : at(i) \in 1..n /\ t[i] = s[at(i)]
  <2> SUFFICES ASSUME NEW i \in 1..n PROVE at(i) \in 1..n /\ t[i] = s[at(i)]
    OBVIOUS
  <2>1. CASE i <= n - k
    <3>1. i \in 1..(n - k) /\ i + k \in 1..n
      BY <1>1, <2>1
    <3> QED
      BY <1>2, <1>4, <2>1, <3>1
  <2>2. CASE ~(i <= n - k)
    <3>1. i - (n - k) \in 1..k /\ i - (n - k) \in 1..n /\ i \in ((n - k) + 1)..((n - k) + k)
      BY <1>1, <2>2
    <3> QED
      BY <1>2, <1>3, <1>4, <2>2, <3>1
  <2> QED
    BY <2>1, <2>2
<1>7. \A i, j \in 1..n : at(i) = at(j) => i = j
  BY <1>1
<1>8. \A j \in 1..n : \E i \in 1..n : at(i) = j
  <2> SUFFICES ASSUME NEW j \in 1..n PROVE \E i \in 1..n : at(i) = j
    OBVIOUS
  <2>1. CASE j > k
    <3>1. j - k \in 1..n /\ at(j - k) = j
      BY <1>1, <2>1
    <3> QED
      BY <3>1
  <2>2. CASE ~(j > k)
    <3>1. j + (n - k) \in 1..n /\ at(j + (n - k)) = j
      BY <1>1, <2>2
    <3> QED
      BY <3>1
  <2> QED
    BY <1>1, <2>1, <2>2
<1> HIDE DEF at
<1>9. Len(s) = n
  BY DEF n
<1>10. Reordered(s, t)
  <2>1. ASSUME NEW d PROVE In(d, t) <=> In(d, s)
    BY <1>5, <1>6, <1>8, <1>9 DEF In
  <2>2. Once(s) => Once(t)
    BY <1>5, <1>6, <1>7, <1>9 DEF Once
  <2> QED
    BY <2>1, <2>2 DEF Reordered
<1> QED
  BY <1>4, <1>5, <1>10 DEF t, a, b, n

\* pickOneRichRobot keeps the robots that wait.
LEMMA PoorGood ==
    ASSUME NEW x, NEW n \in Nat, Good(x, n), NEW v \in 1..NumVids,
           NEW k \in 0..Len(x.queues[v].uids)
    PROVE  LET y == Poor(x, v, k)
           IN /\ Good(y, n) /\ SameBut(x, y)
              /\ \A u \in Vids : /\ y.queues[u].dels = x.queues[u].dels
                                 /\ u # v => y.queues[u] = x.queues[u]
                                 /\ Len(y.queues[u].uids) = Len(x.queues[u].uids)
<1> DEFINE s == x.queues[v].uids
           t == SubSeq(s, k + 1, Len(s)) \o SubSeq(s, 1, k)
           y == Poor(x, v, k)
<1>1. x \in Worlds /\ v \in Vids
  BY Numbers DEF Good
<1>2. s \in Seq(Uids)
  BY <1>1, WorldFacts
<1>3. y = [x EXCEPT !.queues[v].uids = t]
  BY DEF Poor
<1>4. k \in 0..Len(s)
  OBVIOUS
<1> HIDE DEF s, y
<1>5. t \in Seq(Uids) /\ Len(t) = Len(s) /\ Reordered(s, t)
  BY <1>2, <1>4, RotateFacts
<1> HIDE DEF t
<1>6. /\ y \in Worlds /\ SameBut(x, y) /\ y.queues = [x.queues EXCEPT ![v].uids = t]
  BY <1>1, <1>3, <1>5, SetUids DEF SameBut
<1>7. /\ y.queues[v].uids = t /\ y.queues[v].dels = x.queues[v].dels
      /\ \A u \in Vids : u # v => y.queues[u] = x.queues[u]
  BY <1>1, <1>6, WorldFacts
<1>8. \A u \in Vids : /\ y.queues[u].dels = x.queues[u].dels
                      /\ Reordered(x.queues[u].uids, y.queues[u].uids)
                      /\ Len(y.queues[u].uids) = Len(x.queues[u].uids)
  BY <1>5, <1>7 DEF Reordered, s
<1>9. Good(y, n)
  BY <1>6, <1>8, RequeueGood
<1> QED
  BY <1>6, <1>7, <1>8, <1>9 DEF y

\* As long as a descriptor is not in use there is an address for a new object.
LEMMA FreshIsFree ==
    ASSUME NEW f, DOMAIN f \subseteq Objs, NEW fd \in Fds,
           \A o \in DOMAIN f : f[o].fd \in Fds /\ f[o].fd # fd,
           \A o, p \in DOMAIN f : f[o].fd = f[p].fd => o = p
    PROVE  Fresh(f) \in Objs /\ Fresh(f) \notin DOMAIN f
<1> DEFINE D == DOMAIN f
           T == Fds \ {fd}
           g == [o \in D |-> f[o].fd]
<1>1. g \in Injection(D, T)
  <2>1. g \in [D -> T]
    OBVIOUS
  <2>2. IsInjective(g)
    BY DEF IsInjective
  <2> HIDE DEF g, D, T
  <2> QED
    BY <2>1, <2>2 DEF Injection
<1>2. IsFiniteSet(T) /\ Cardinality(T) = Cardinality(Fds) - 1
  BY RobotsAssumption, FS_RemoveElement
<1>3. Cardinality(D) <= Cardinality(T)
  <2> HIDE DEF g, D, T
  <2> QED
    BY <1>1, <1>2, FS_Injection
<1>4. Cardinality(Objs) = Cardinality(Fds)
  <2>1. Cardinality(Fds) \in Nat
    BY Numbers
  <2>2. Cardinality(1..Cardinality(Fds)) = IF 1 > Cardinality(Fds) THEN 0 ELSE Cardinality(Fds) - 1 + 1
    BY <2>1, FS_Interval
  <2> QED
    BY <2>1, <2>2 DEF Objs
<1>5. D # Objs
  <2> SUFFICES ASSUME D = Objs PROVE FALSE
    OBVIOUS
  <2>1. Cardinality(Objs) <= Cardinality(T)
    BY <1>3
  <2>2. Cardinality(Fds) \in Nat
    BY Numbers
  <2> QED
    BY <1>2, <1>4, <2>1, <2>2
<1>6. Free(f) # {} /\ Free(f) \subseteq Nat
  <2>1. Objs \subseteq Nat
    BY Numbers DEF Objs
  <2> QED
    BY <1>5, <2>1 DEF Free
<1>7. \E o \in Free(f) : \A p \in Free(f) : o <= p
  BY <1>6, Least
<1>8. Fresh(f) \in Free(f)
  BY <1>7 DEF Fresh
<1> QED
  BY <1>8 DEF Free

\* With one entry more.
LEMMA NewFacts ==
    ASSUME NEW S, NEW f \in Table(S), NEW o \in Objs, NEW r \in S
    PROVE  /\ New(f, o, r) \in Table(S) /\ DOMAIN New(f, o, r) = DOMAIN f \cup {o}
           /\ New(f, o, r)[o] = r
           /\ \A d \in DOMAIN f : d # o => New(f, o, r)[d] = f[d]
<1>1. DOMAIN f \subseteq Objs /\ \A d \in DOMAIN f : f[d] \in S
  BY DEF Table
<1>2. New(f, o, r) \in [DOMAIN f \cup {o} -> S]
  BY <1>1 DEF New
<1>3. DOMAIN f \cup {o} \in SUBSET Objs
  BY <1>1
<1>4. New(f, o, r) \in Table(S)
  BY <1>2, <1>3 DEF Table
<1> QED
  BY <1>4 DEF New

\* A client and its connection enter the tables together, on a descriptor without them.
Enters(x, y, p, r, c, k, fd) ==
    /\ y.cmap = [x.cmap EXCEPT ![fd] = c] /\ y.conMap = x.conMap
    /\ y.client = New(x.client, c, k) /\ y.conn = New(x.conn, p, r)
Unused(x, fd) == \A p \in DOMAIN x.conn : x.conn[p].fd # fd
\* The tables then lead to each other.
LEMMA EnterLinked ==
    ASSUME NEW x \in Worlds, Linked(x), NEW y \in Worlds, NEW fd \in Fds, Unused(x, fd),
           NEW p \in Objs, p \notin DOMAIN x.conn, NEW c \in Objs, c \notin DOMAIN x.client,
           NEW r \in Conns, r.fd = fd, NEW k \in Clients, k.fd = fd, k.conn = p,
           Enters(x, y, p, r, c, k, fd)
    PROVE  /\ Linked(y) /\ x.cmap[fd] = None
           /\ DOMAIN y.client = DOMAIN x.client \cup {c} /\ y.client[c] = k
           /\ DOMAIN y.conn = DOMAIN x.conn \cup {p} /\ y.conn[p] = r
           /\ \A d \in DOMAIN x.client : y.client[d] = x.client[d]
           /\ \A q \in DOMAIN x.conn : y.conn[q] = x.conn[q]
           /\ \A g \in Fds : g # fd => y.cmap[g] = x.cmap[g]
<1>1. /\ x.cmap \in [Fds -> Objs \cup {None}] /\ x.conMap \in [Fds -> Objs \cup {None, Null}]
      /\ \A d \in DOMAIN x.client : x.client[d].fd \in Fds
      /\ \A q \in DOMAIN x.conn : x.conn[q].fd \in Fds
  BY WorldFacts
<1>2. x.cmap[fd] = None
  <2> SUFFICES ASSUME x.cmap[fd] # None PROVE FALSE
    OBVIOUS
  <2>1. x.cmap[fd] \in DOMAIN x.client /\ x.client[x.cmap[fd]].fd = fd
    BY DEF Linked
  <2>2. /\ x.client[x.cmap[fd]].conn \in DOMAIN x.conn
        /\ x.conn[x.client[x.cmap[fd]].conn].fd = fd
    BY <2>1 DEF Linked
  <2> QED
    BY <2>2 DEF Unused
<1>3. /\ DOMAIN y.client = DOMAIN x.client \cup {c} /\ y.client[c] = k
      /\ \A d \in DOMAIN x.client : y.client[d] = x.client[d]
  BY DEF Enters, New
<1>4. /\ DOMAIN y.conn = DOMAIN x.conn \cup {p} /\ y.conn[p] = r
      /\ \A q \in DOMAIN x.conn : y.conn[q] = x.conn[q]
  BY DEF Enters, New
<1>5. /\ y.cmap[fd] = c /\ y.conMap = x.conMap
      /\ \A g \in Fds : g # fd => y.cmap[g] = x.cmap[g]
  BY <1>1 DEF Enters
<1>6. ASSUME NEW g \in Fds, y.cmap[g] # None
      PROVE  y.cmap[g] \in DOMAIN y.client /\ y.client[y.cmap[g]].fd = g
  <2>1. CASE g = fd
    BY <1>3, <1>5, <2>1
  <2>2. CASE g # fd
    <3>1. y.cmap[g] = x.cmap[g]
      BY <1>5, <2>2
    <3>2. x.cmap[g] \in DOMAIN x.client /\ x.client[x.cmap[g]].fd = g
      BY <1>6, <3>1 DEF Linked
    <3> QED
      BY <1>3, <3>1, <3>2
  <2> QED
    BY <2>1, <2>2
<1>7. ASSUME NEW d \in DOMAIN y.client
      PROVE  /\ y.cmap[y.client[d].fd] = d /\ y.client[d].conn \in DOMAIN y.conn
             /\ y.conn[y.client[d].conn].fd = y.client[d].fd
  <2>1. CASE d = c
    BY <1>3, <1>4, <1>5, <2>1
  <2>2. CASE d # c
    <3>1. d \in DOMAIN x.client /\ y.client[d] = x.client[d]
      BY <1>3, <2>2
    <3>2. /\ x.cmap[x.client[d].fd] = d /\ x.client[d].conn \in DOMAIN x.conn
          /\ x.conn[x.client[d].conn].fd = x.client[d].fd
      BY <3>1 DEF Linked
    <3>3. x.client[d].fd # fd /\ x.client[d].fd \in Fds
      BY <1>1, <3>1, <3>2 DEF Unused
    <3> QED
      BY <1>4, <1>5, <3>1, <3>2, <3>3
  <2> QED
    BY <2>1, <2>2
<1>8. ASSUME NEW q \in DOMAIN y.conn
      PROVE  y.cmap[y.conn[q].fd] # None /\ y.client[y.cmap[y.conn[q].fd]].conn = q
  <2>1. CASE q = p
    BY <1>3, <1>4, <1>5, <2>1, Numbers
  <2>2. CASE q # p
    <3>1. q \in DOMAIN x.conn /\ y.conn[q] = x.conn[q]
      BY <1>4, <2>2
    <3>2. x.cmap[x.conn[q].fd] # None /\ x.client[x.cmap[x.conn[q].fd]].conn = q
      BY <3>1 DEF Linked
    <3>3. x.conn[q].fd # fd /\ x.conn[q].fd \in Fds
      BY <1>1, <3>1 DEF Unused
    <3>4. x.cmap[x.conn[q].fd] \in DOMAIN x.client
      BY <3>2, <3>3 DEF Linked
    <3> QED
      BY <1>3, <1>5, <3>1, <3>2, <3>3, <3>4
  <2> QED
    BY <2>1, <2>2
<1>9. ASSUME NEW g \in Fds, y.conMap[g] \in Objs
      PROVE  y.conMap[g] \in DOMAIN y.conn /\ y.conn[y.conMap[g]].fd = g
  BY <1>4, <1>5, <1>9 DEF Linked
<1>10. Linked(y)
  BY <1>6, <1>7, <1>8, <1>9 DEF Linked
<1> QED
  BY <1>2, <1>3, <1>4, <1>5, <1>10

\* The first robot that waits for v leaves its queue.
Dequeues(x, y, v) == y.queues = [x.queues EXCEPT ![v].uids = Tail(x.queues[v].uids)]

\* The robot at the front of v is one of v, so robots[uid] makes no entry.
LEMMA FrontIs ==
    ASSUME NEW x, NEW n \in Nat, Good(x, n), NEW v \in 1..NumVids, x.queues[v].uids # <<>>
    PROVE  LET uid == Head(x.queues[v].uids)
           IN uid \in Uids /\ x.robots[uid] = v /\ Known(x, uid) = x
<1> DEFINE s == x.queues[v].uids
           uid == Head(s)
<1>1. x \in Worlds /\ Waiting(x) /\ v \in Vids
  BY Numbers DEF Good
<1>2. s \in Seq(Uids)
  BY <1>1, WorldFacts
<1>3. uid \in Uids /\ 1 \in 1..Len(s) /\ uid = s[1]
  <2> HIDE DEF s
  <2>1. s # <<>>
    BY DEF s
  <2> QED
    BY <1>2, <2>1
<1>4. x.robots[uid] = v
  BY <1>1, <1>3 DEF Waiting
<1>5. Known(x, uid) = x
  BY <1>1, <1>4, Numbers DEF Known
<1> QED
  BY <1>3, <1>4, <1>5

\* Client::Client on a descriptor that m_fd cannot hold.
LEMMA NewClientWide ==
    ASSUME NEW x, NEW n \in Nat, Good(x, n), NEW v \in 1..NumVids, x.queues[v].uids # <<>>,
           NEW fd \in WideFds
    PROVE  NewClient(x, v, fd) = Crash("wide")
<1>1. LET uid == Head(x.queues[v].uids) IN x.robots[uid] = v /\ Known(x, uid) = x
  BY FrontIs
<1>2. short(fd) # fd
  BY Descriptors
<1> QED
  BY <1>1, <1>2 DEF NewClient

\* The fields after Client::Client for a robot that waits for v.
LEMMA NewClientIs ==
    ASSUME NEW x, NEW n \in Nat, Good(x, n), NEW v \in 1..NumVids, x.queues[v].uids # <<>>,
           NEW fd \in Fds, Unused(x, fd)
    PROVE  LET y == NewClient(x, v, fd)
               s == x.queues[v].uids
           IN /\ y \in Worlds /\ y.fault = "none" /\ y.robots = x.robots /\ y.last = x.last
              /\ Dequeues(x, y, v)
              /\ \E p \in Objs, c \in Objs, r \in Conns, k \in Clients :
                    /\ p \notin DOMAIN x.conn /\ c \notin DOMAIN x.client
                    /\ r.fd = fd /\ k.fd = fd /\ k.conn = p /\ k.uid = Head(s)
                    /\ InStep(k, r) /\ Enters(x, y, p, r, c, k, fd)
<1> DEFINE y == NewClient(x, v, fd)
           s == x.queues[v].uids
           uid == Head(s)
           p == Fresh(x.conn)
           c == Fresh(x.client)
           r == [fd |-> fd, open |-> FALSE, req |-> {}, seat |-> "out"]
           k == [uid |-> uid, fd |-> fd, conn |-> p, login |-> TRUE,
                 ready |-> FALSE, logout |-> FALSE, playing |-> FALSE]
           N == New(x.conn, p, r)
           C == New(x.client, c, k)
<1>1. x \in Worlds /\ x.fault = "none" /\ Linked(x) /\ Waiting(x) /\ v \in Vids
  BY Numbers DEF Good
<1>2. /\ s \in Seq(Uids) /\ uid \in Uids /\ Tail(s) \in Seq(Uids)
      /\ x.client \in Table(Clients) /\ x.conn \in Table(Conns)
      /\ DOMAIN x.client \subseteq Objs /\ DOMAIN x.conn \subseteq Objs
  <2>1. s \in Seq(Uids)
    BY <1>1, WorldFacts
  <2>2. x.client \in Table(Clients) /\ x.conn \in Table(Conns)
    BY <1>1 DEF Worlds
  <2>3. uid \in Uids /\ Tail(s) \in Seq(Uids)
    <3> HIDE DEF s
    <3>1. s # <<>>
      BY DEF s
    <3> QED
      BY <2>1, <3>1
  <2> QED
    BY <1>1, <2>1, <2>2, <2>3, WorldFacts
<1>3. x.robots[uid] = v /\ Known(x, uid) = x
  BY FrontIs
<1>4. short(fd) = fd
  BY Descriptors
<1>5. y = [x EXCEPT !.queues[v].uids = Tail(s), !.conn = N, !.client = C, !.cmap[fd] = c]
  <2> HIDE DEF r, k
  <2>1. y = LET x1 == x
                u == x.robots[uid]
            IN IF x1.queues[u].uids = <<>> THEN Crash("erase")
               ELSE [x1 EXCEPT !.queues[u].uids = Tail(@), !.conn = New(@, p, r),
                               !.client = New(@, c, k), !.cmap[fd] = c]
    BY <1>3, <1>4 DEF NewClient, r, k
  <2> QED
    BY <1>3, <2>1
<1>6. p \in Objs /\ p \notin DOMAIN x.conn
  <2>1. \A o \in DOMAIN x.conn : x.conn[o].fd \in Fds /\ x.conn[o].fd # fd
    BY <1>1, WorldFacts DEF Unused
  <2>2. \A o, q \in DOMAIN x.conn : x.conn[o].fd = x.conn[q].fd => o = q
    <3> SUFFICES ASSUME NEW o \in DOMAIN x.conn, NEW q \in DOMAIN x.conn, x.conn[o].fd = x.conn[q].fd
                 PROVE  o = q
      OBVIOUS
    <3>1. x.client[x.cmap[x.conn[o].fd]].conn = o /\ x.client[x.cmap[x.conn[q].fd]].conn = q
      BY <1>1 DEF Linked
    <3> QED
      BY <3>1
  <2> QED
    BY <1>2, <2>1, <2>2, FreshIsFree
<1>7. c \in Objs /\ c \notin DOMAIN x.client
  <2>1. ASSUME NEW o \in DOMAIN x.client PROVE x.client[o].fd \in Fds /\ x.client[o].fd # fd
    BY <1>1, WorldFacts DEF Linked, Unused
  <2>2. \A o, q \in DOMAIN x.client : x.client[o].fd = x.client[q].fd => o = q
    <3> SUFFICES ASSUME NEW o \in DOMAIN x.client, NEW q \in DOMAIN x.client,
                        x.client[o].fd = x.client[q].fd
                 PROVE  o = q
      OBVIOUS
    <3>1. x.cmap[x.client[o].fd] = o /\ x.cmap[x.client[q].fd] = q
      BY <1>1 DEF Linked
    <3> QED
      BY <3>1
  <2> QED
    BY <1>2, <2>1, <2>2, FreshIsFree
<1> HIDE DEF p, c
<1>8. r \in Conns /\ r.fd = fd
  BY DEF Conns
<1>9. k \in Clients /\ k.fd = fd /\ k.conn = p /\ k.uid = uid
  <2> HIDE DEF uid
  <2> QED
    BY <1>2, <1>6 DEF Clients
<1>10. InStep(k, r)
  BY DEF InStep
<1> HIDE DEF r, k, uid
<1>11. N \in Table(Conns) /\ C \in Table(Clients)
  <2>1. N \in Table(Conns)
    BY <1>2, <1>6, <1>8, NewFacts
  <2>2. C \in Table(Clients)
    BY <1>2, <1>7, <1>9, NewFacts
  <2> QED
    BY <2>1, <2>2
<1> HIDE DEF N, C
<1> DEFINE Q == [x.queues EXCEPT ![v].uids = Tail(s)]
           M == [x.cmap EXCEPT ![fd] = c]
<1>14. M \in [Fds -> Objs \cup {None}]
  BY <1>1, <1>7, WorldFacts
<1> HIDE DEF y
<1>15. /\ y \in Worlds /\ y.fault = x.fault /\ y.robots = x.robots /\ y.last = x.last
       /\ y.queues = Q /\ y.conn = N /\ y.client = C /\ y.cmap = M /\ y.conMap = x.conMap
  <2> DEFINE t == Tail(s)
             z == [x EXCEPT !.queues[v].uids = t]
  <2>1. y = [z EXCEPT !.conn = N, !.client = C, !.cmap[fd] = c]
    BY <1>5
  <2>0. t \in Seq(Uids)
    BY <1>2
  <2> HIDE DEF t
  <2>2. /\ z \in Worlds /\ z.fault = x.fault /\ z.robots = x.robots /\ z.last = x.last
        /\ z.cmap = x.cmap /\ z.conMap = x.conMap
        /\ z.queues = [x.queues EXCEPT ![v].uids = t]
    BY <1>1, <2>0, SetUids
  <2>3. z.queues = Q
    BY <2>2 DEF t
  <2>4. M = [z.cmap EXCEPT ![fd] = c]
    BY <2>2
  <2> HIDE DEF z, M, Q
  <2>5. /\ y \in Worlds /\ y.fault = z.fault /\ y.robots = z.robots /\ y.last = z.last
        /\ y.queues = z.queues /\ y.conn = N /\ y.client = C /\ y.cmap = M /\ y.conMap = z.conMap
    BY <1>11, <1>14, <2>1, <2>2, <2>4 DEF Worlds
  <2> QED
    BY <2>2, <2>3, <2>5
<1> HIDE DEF M, Q
<1>16. Enters(x, y, p, r, c, k, fd)
  BY <1>15 DEF Enters, N, C, M
<1>17. Dequeues(x, y, v)
  BY <1>15 DEF Q, Dequeues
<1>18. k.uid = Head(s)
  BY <1>9 DEF uid
<1> QED
  BY <1>1, <1>6, <1>7, <1>8, <1>9, <1>10, <1>15, <1>16, <1>17, <1>18 DEF y

\* The first of those who wait once is not among the others.
LEMMA TailFacts ==
    ASSUME NEW S, NEW s \in Seq(S), s # <<>>
    PROVE  /\ \A d : In(d, s) <=> In(d, Tail(s)) \/ d = Head(s)
           /\ Once(s) => Once(Tail(s)) /\ ~In(Head(s), Tail(s))
<1>1. /\ Len(s) \in Nat /\ Len(s) >= 1 /\ Len(Tail(s)) = Len(s) - 1 /\ Head(s) = s[1]
      /\ \A i \in 1..(Len(s) - 1) : Tail(s)[i] = s[i + 1]
  OBVIOUS
<1>2. ASSUME NEW d PROVE In(d, s) <=> In(d, Tail(s)) \/ d = Head(s)
  <2>1. ASSUME NEW i \in 1..Len(s), s[i] = d PROVE In(d, Tail(s)) \/ d = Head(s)
    <3>1. CASE i = 1
      BY <1>1, <2>1, <3>1
    <3>2. CASE i # 1
      <4>1. i - 1 \in 1..(Len(s) - 1) /\ (i - 1) + 1 = i
        BY <1>1, <3>2
      <4>2. Tail(s)[i - 1] = d
        BY <1>1, <2>1, <4>1
      <4> QED
        BY <1>1, <4>1, <4>2 DEF In
    <3> QED
      BY <3>1, <3>2
  <2>2. ASSUME NEW i \in 1..Len(Tail(s)), Tail(s)[i] = d PROVE In(d, s)
    <3>1. i + 1 \in 1..Len(s) /\ s[i + 1] = d
      BY <1>1, <2>2
    <3> QED
      BY <3>1 DEF In
  <2>3. In(Head(s), s)
    <3>1. 1 \in 1..Len(s)
      BY <1>1
    <3> QED
      BY <1>1, <3>1 DEF In
  <2> QED
    BY <2>1, <2>2, <2>3 DEF In
<1>3. ASSUME Once(s) PROVE Once(Tail(s)) /\ ~In(Head(s), Tail(s))
  <2>1. \A i \in 1..Len(Tail(s)) : /\ i \in Int /\ i + 1 \in 1..Len(s) /\ i + 1 # 1
                                   /\ Tail(s)[i] = s[i + 1] /\ 1 \in 1..Len(s)
    BY <1>1
  <2>2. \A i, j \in 1..Len(Tail(s)) : Tail(s)[i] = Tail(s)[j] => i = j
    <3> SUFFICES ASSUME NEW i \in 1..Len(Tail(s)), NEW j \in 1..Len(Tail(s)),
                        Tail(s)[i] = Tail(s)[j]
                 PROVE  i = j
      OBVIOUS
    <3>1. s[i + 1] = s[j + 1] /\ i + 1 \in 1..Len(s) /\ j + 1 \in 1..Len(s)
      BY <2>1
    <3>2. i + 1 = j + 1
      BY <1>3, <3>1 DEF Once
    <3> QED
      BY <2>1, <3>2
  <2>3. ~In(Head(s), Tail(s))
    BY <1>1, <1>3, <2>1 DEF In, Once
  <2> QED
    BY <2>2, <2>3 DEF Once
<1> QED
  BY <1>2, <1>3

\* Client::Client leaves good tables.
Started(x, y, v, fd) ==
    /\ \A d \in DOMAIN x.client : d \in DOMAIN y.client /\ y.client[d] = x.client[d]
    /\ \A u \in Vids : /\ y.queues[u].dels = x.queues[u].dels
                       /\ u # v => y.queues[u] = x.queues[u]
    /\ \A g : g # fd /\ Unused(x, g) => Unused(y, g)
\* The client that is started joins the others; they and the other queues stay as they are.
LEMMA NewClientGood ==
    ASSUME NEW x, NEW n \in Nat, Good(x, n), NEW v \in 1..NumVids, x.queues[v].uids # <<>>,
           NEW fd \in Fds, Unused(x, fd)
    PROVE  Good(NewClient(x, v, fd), n) /\ Started(x, NewClient(x, v, fd), v, fd)
<1> DEFINE y == NewClient(x, v, fd)
           s == x.queues[v].uids
           uid == Head(s)
<1>1. /\ x \in Worlds /\ x.fault = "none" /\ Linked(x) /\ Waiting(x) /\ Playing(x)
      /\ n = 0 => Conserved(x)
      /\ n <= 1 => Kills(x)
      /\ v \in Vids
  BY Numbers DEF Good
<1>2. /\ y \in Worlds /\ y.fault = "none" /\ y.robots = x.robots /\ y.last = x.last
      /\ Dequeues(x, y, v)
  BY NewClientIs
<1>3. PICK p \in Objs, c \in Objs, r \in Conns, k \in Clients :
         /\ p \notin DOMAIN x.conn /\ c \notin DOMAIN x.client
         /\ r.fd = fd /\ k.fd = fd /\ k.conn = p /\ k.uid = Head(s)
         /\ InStep(k, r) /\ Enters(x, y, p, r, c, k, fd)
  BY NewClientIs
<1>4. s \in Seq(Uids) /\ s # <<>>
  BY <1>1, WorldFacts
<1> HIDE DEF y, s
<1>5. /\ Linked(y) /\ x.cmap[fd] = None
      /\ DOMAIN y.client = DOMAIN x.client \cup {c} /\ y.client[c] = k
      /\ DOMAIN y.conn = DOMAIN x.conn \cup {p} /\ y.conn[p] = r
      /\ \A d \in DOMAIN x.client : y.client[d] = x.client[d]
      /\ \A q \in DOMAIN x.conn : y.conn[q] = x.conn[q]
      /\ \A g \in Fds : g # fd => y.cmap[g] = x.cmap[g]
  BY <1>1, <1>2, <1>3, EnterLinked
<1>6. /\ y.queues[v].uids = Tail(s) /\ y.queues[v].dels = x.queues[v].dels
      /\ \A u \in Vids : u # v => y.queues[u] = x.queues[u]
  <2> DEFINE t == Tail(s)
  <2>1. y.queues = [x.queues EXCEPT ![v].uids = t]
    BY <1>2 DEF Dequeues, s
  <2> HIDE DEF t
  <2>2. /\ y.queues[v].uids = t /\ y.queues[v].dels = x.queues[v].dels
        /\ \A u \in Vids : u # v => y.queues[u] = x.queues[u]
    BY <1>1, <2>1, WorldFacts
  <2> QED
    BY <2>2 DEF t
<1>7. /\ \A d : In(d, s) <=> In(d, Tail(s)) \/ d = uid
      /\ Once(s) => Once(Tail(s)) /\ ~In(uid, Tail(s))
  BY <1>4, TailFacts
<1> HIDE DEF uid
<1>8. \A u \in Vids : \A d : In(d, y.queues[u].uids) => In(d, x.queues[u].uids)
  <2>1. \A d : In(d, y.queues[v].uids) => In(d, x.queues[v].uids)
    BY <1>6, <1>7 DEF s
  <2> QED
    BY <1>6, <2>1
<1>9. Waiting(y)
  <2> SUFFICES ASSUME NEW u \in 1..NumVids, NEW i \in 1..Len(y.queues[u].uids)
               PROVE  y.robots[y.queues[u].uids[i]] = u
    BY DEF Waiting
  <2>1. In(y.queues[u].uids[i], x.queues[u].uids)
    <3>1. u \in Vids
      BY Numbers
    <3>2. In(y.queues[u].uids[i], y.queues[u].uids)
      BY DEF In
    <3> QED
      BY <1>8, <3>1, <3>2
  <2> QED
    BY <1>1, <1>2, <2>1 DEF Waiting, In
<1>10. Playing(y)
  <2> SUFFICES ASSUME NEW d \in DOMAIN y.client PROVE InStep(y.client[d], y.conn[y.client[d].conn])
    BY DEF Playing
  <2>1. CASE d = c
    BY <1>3, <1>5, <2>1
  <2>2. CASE d # c
    <3>1. d \in DOMAIN x.client /\ y.client[d] = x.client[d] /\ x.client[d].conn \in DOMAIN x.conn
      BY <1>1, <1>5, <2>2 DEF Linked
    <3>2. InStep(x.client[d], x.conn[x.client[d].conn])
      BY <1>1, <3>1 DEF Playing
    <3> QED
      BY <1>5, <3>1, <3>2
  <2> QED
    BY <2>1, <2>2
<1>11. x.robots[uid] = v
  <2>1. In(uid, x.queues[v].uids)
    BY <1>7 DEF s
  <2> QED
    BY <1>1, <2>1 DEF Waiting, In
<1>12. ASSUME n = 0 PROVE Conserved(y)
  <2>1. Conserved(x)
    BY <1>1, <1>12
  <2>2. \A u \in 1..NumVids : \A e : In(e, x.queues[u].uids) => Idle(x, e) /\ x.robots[e] = u
    BY <1>1, <2>1 DEF Conserved, Waiting, In
  <2>3. Idle(x, uid)
    <3>1. In(uid, x.queues[v].uids)
      BY <1>7 DEF s
    <3> QED
      BY <2>2, <3>1
  <2>4. \A e : Online(y, e) <=> Online(x, e) \/ e = uid
    <3>1. k.uid = uid
      BY <1>3 DEF uid
    <3> QED
      BY <1>5, <3>1 DEF Online
  <2>5. y.queues[0].dels = <<>>
    BY <1>6, <2>1, Numbers DEF Conserved
  <2>6. \A e \in y.last : y.robots[e] = Home[e]
    BY <1>2, <2>1 DEF Conserved
  <2>7. \A d \in DOMAIN y.client : y.client[d].uid \in y.last
    <3>1. k.uid \in x.last
      BY <1>3, <2>3 DEF Idle, uid
    <3> QED
      BY <1>2, <1>5, <2>1, <3>1 DEF Conserved
  <2>8. ASSUME NEW d \in DOMAIN y.client, NEW e \in DOMAIN y.client,
               y.client[d].uid = y.client[e].uid
        PROVE  d = e
    <3>1. \A b \in DOMAIN x.client : x.client[b].uid # k.uid
      BY <1>3, <2>3 DEF Idle, Online, uid
    <3>2. \A b, a \in DOMAIN x.client : x.client[b].uid = x.client[a].uid => b = a
      BY <2>1 DEF Conserved
    <3> QED
      BY <1>5, <2>8, <3>1, <3>2
  <2>9. ASSUME NEW u \in 1..NumVids
        PROVE  /\ Once(y.queues[u].uids)
               /\ \A i \in 1..Len(y.queues[u].uids) : Idle(y, y.queues[u].uids[i])
    <3>0. u \in Vids
      BY Numbers
    <3>1. Once(x.queues[u].uids)
      BY <2>1 DEF Conserved
    <3>2. Once(y.queues[u].uids) /\ ~In(uid, y.queues[u].uids)
      <4>1. CASE u = v
        BY <1>6, <1>7, <3>1, <4>1 DEF s
      <4>2. CASE u # v
        BY <1>6, <1>11, <2>2, <3>0, <3>1, <4>2
      <4> QED
        BY <4>1, <4>2
    <3>3. ASSUME NEW e, In(e, y.queues[u].uids) PROVE Idle(y, e)
      <4>1. Idle(x, e) /\ e # uid
        BY <1>8, <2>2, <3>0, <3>2, <3>3
      <4> QED
        BY <1>2, <2>4, <4>1 DEF Idle
    <3> QED
      BY <3>2, <3>3 DEF In
  <2>10. ASSUME NEW e \in y.last PROVE Online(y, e) \/ In(e, y.queues[Home[e]].uids)
    <3>1. e \in x.last /\ e \in Uids
      BY <1>1, <1>2, WorldFacts
    <3>2. Home[e] \in Vids
      BY <3>1, Numbers
    <3>3. Online(x, e) \/ In(e, x.queues[Home[e]].uids)
      BY <2>1, <3>1 DEF Conserved
    <3>4. CASE Online(x, e) \/ e = uid
      BY <2>4, <3>4
    <3>5. CASE In(e, x.queues[Home[e]].uids) /\ e # uid
      <4>1. CASE Home[e] = v
        <5>1. In(e, s)
          BY <3>5, <4>1 DEF s
        <5>2. In(e, Tail(s))
          BY <1>7, <3>5, <5>1
        <5> QED
          BY <1>6, <4>1, <5>2
      <4>2. CASE Home[e] # v
        BY <1>6, <3>2, <3>5, <4>2
      <4> QED
        BY <4>1, <4>2
    <3> QED
      BY <3>3, <3>4, <3>5
  <2> QED
    BY <2>5, <2>6, <2>7, <2>8, <2>9, <2>10 DEF Conserved
<1>13. \A u \in Vids : y.queues[u].dels = x.queues[u].dels
  BY <1>6
<1>14. ASSUME n <= 1 PROVE Kills(y)
  <2>1. Kills(x)
    BY <1>1, <1>14
  <2> SUFFICES ASSUME NEW u \in Vids
               PROVE  /\ Once(y.queues[u].dels)
                      /\ \A i \in 1..Len(y.queues[u].dels) : Meant(y, u, y.queues[u].dels[i])
    BY DEF Kills
  <2>2. y.queues[u].dels = x.queues[u].dels
    BY <1>13
  <2>3. ASSUME NEW i \in 1..Len(x.queues[u].dels) PROVE Meant(y, u, x.queues[u].dels[i])
    <3> DEFINE g == x.queues[u].dels[i]
    <3>1. g \in Fds
      BY <1>1, WorldFacts
    <3>2. Meant(x, u, g)
      BY <2>1 DEF Kills
    <3> HIDE DEF g
    <3>3. g # fd /\ x.cmap[g] # None
      BY <1>5, <3>2 DEF Meant
    <3>4. y.cmap[g] = x.cmap[g] /\ x.cmap[g] \in DOMAIN x.client
      BY <1>1, <1>5, <3>1, <3>3 DEF Linked
    <3>5. Meant(y, u, g)
      BY <1>2, <1>5, <3>2, <3>4 DEF Meant, Owner
    <3> QED
      BY <3>5 DEF g
  <2> QED
    BY <2>1, <2>2, <2>3 DEF Kills
<1>15. Good(y, n)
  BY <1>2, <1>5, <1>9, <1>10, <1>12, <1>14 DEF Good
<1>16. Started(x, y, v, fd)
  <2>1. ASSUME NEW g, g # fd, Unused(x, g) PROVE Unused(y, g)
    BY <1>3, <1>5, <2>1 DEF Unused
  <2> QED
    BY <1>5, <1>6, <1>13, <2>1 DEF Started
<1> QED
  BY <1>15, <1>16 DEF y

\* One round of __cbTimerAddUser.
LEMMA StartOneGood ==
    ASSUME NEW x, NEW n \in Nat, Good(x, n), NEW v \in 1..NumVids,
           NEW k \in 0..Len(x.queues[v].uids), NEW fd \in Fds \cup WideFds,
           k < Len(x.queues[v].uids) => Unused(x, fd)
    PROVE  LET y == StartOne(x, v, k, fd)
           IN \/ y = Crash("wide")
              \/ /\ Good(y, n) /\ Started(x, y, v, fd)
                 /\ k = Len(x.queues[v].uids) => Started(x, y, v, None)
<1> DEFINE y == StartOne(x, v, k, fd)
           z == Poor(x, v, k)
<1>1. x \in Worlds /\ x.fault = "none" /\ v \in Vids
  BY Numbers DEF Good
<1>2. /\ Good(z, n) /\ SameBut(x, z)
      /\ \A u \in Vids : /\ z.queues[u].dels = x.queues[u].dels
                         /\ u # v => z.queues[u] = x.queues[u]
                         /\ Len(z.queues[u].uids) = Len(x.queues[u].uids)
  BY PoorGood
<1> HIDE DEF z
<1>3. \A g : Unused(z, g) <=> Unused(x, g)
  BY <1>2 DEF Unused, SameBut
<1>4. CASE k = Len(x.queues[v].uids)
  <2>1. y = z
    BY <1>1, <1>4 DEF StartOne, z
  <2>2. \A g : Started(x, z, v, g)
    BY <1>2, <1>3 DEF Started, SameBut
  <2> QED
    BY <1>2, <2>1, <2>2
<1>5. CASE k # Len(x.queues[v].uids)
  <2>1. y = NewClient(z, v, fd)
    BY <1>1, <1>5 DEF StartOne, z
  <2>2. k < Len(x.queues[v].uids) /\ Len(x.queues[v].uids) \in Nat /\ Len(x.queues[v].uids) # 0
    <3>1. Len(x.queues[v].uids) \in Nat
      BY <1>1, WorldFacts
    <3> QED
      BY <1>5, <3>1
  <2>3. z.queues[v].uids # <<>>
    BY <1>1, <1>2, <2>2
  <2>4. CASE fd \in WideFds
    BY <1>2, <2>1, <2>3, <2>4, NewClientWide
  <2>5. CASE fd \in Fds
    <3>1. Good(y, n) /\ Started(z, y, v, fd)
      BY <1>2, <1>3, <2>1, <2>2, <2>3, <2>5, NewClientGood
    <3>2. Started(x, y, v, fd)
      BY <1>2, <1>3, <3>1 DEF Started, SameBut
    <3> QED
      BY <1>5, <3>1, <3>2
  <2> QED
    BY <2>4, <2>5
<1> QED
  BY <1>4, <1>5

\* One round of __cbTimerDisconnect.
Killed(x, y) ==
    /\ \A c \in DOMAIN y.client : c \in DOMAIN x.client /\ y.client[c] = x.client[c]
    /\ \A v \in Vids, d \in Fds : In(d, y.queues[v].dels) => In(d, x.queues[v].dels)
\* It keeps the tables good and puts nobody into a kill queue.
LEMMA KillOneGood ==
    ASSUME NEW x, NEW n \in Nat, Good(x, n), NEW v \in Vids
    PROVE  Good(KillOne(x, v), n) /\ Killed(x, KillOne(x, v))
<1> DEFINE y == KillOne(x, v)
           s == x.queues[v].dels
           fd == Head(s)
<1>1. /\ x \in Worlds /\ x.fault = "none" /\ Linked(x)
      /\ n = 0 => Conserved(x)
      /\ n <= 1 => Kills(x)
  BY DEF Good
<1>2. s \in Seq(Fds)
  BY <1>1, WorldFacts
<1>3. CASE s = <<>>
  BY <1>3 DEF KillOne, Killed
<1>4. CASE s # <<>> /\ x.conMap[fd] \notin {None, Null}
  <2>1. y = DeleteConn(x, x.conMap[fd])
    BY <1>1, <1>4 DEF KillOne
  <2>2. fd \in Fds
    <3> HIDE DEF s
    <3> QED
      BY <1>2, <1>4
  <2>3. x.conMap[fd] \in DOMAIN x.conn
    <3> HIDE DEF fd
    <3>1. x.conMap[fd] \in Objs
      BY <1>1, <1>4, <2>2, WorldFacts
    <3> QED
      BY <1>1, <2>2, <3>1 DEF Linked
  <2> HIDE DEF y
  <2> QED
    BY <2>1, <2>3, DeleteConnGood DEF y, Killed
<1>5. CASE s # <<>> /\ x.conMap[fd] \in {None, Null}
  <2> DEFINE t == Tail(s)
             z == [x EXCEPT !.queues[v].dels = t]
  <2>1. y = [x EXCEPT !.conMap[fd] = Null, !.queues[v].dels = t]
    BY <1>1, <1>5 DEF KillOne
  <2>2. /\ fd \in Fds /\ t \in Seq(Fds)
        /\ \A d : In(d, t) => In(d, s)
        /\ Once(s) => Once(t)
    <3> HIDE DEF s
    <3>1. fd \in Fds /\ t \in Seq(Fds)
      BY <1>2, <1>5
    <3>2. /\ \A d : In(d, s) <=> In(d, Tail(s)) \/ d = Head(s)
          /\ Once(s) => Once(Tail(s)) /\ ~In(Head(s), Tail(s))
      BY <1>2, <1>5, TailFacts
    <3> QED
      BY <3>1, <3>2
  <2> HIDE DEF t, y, fd
  <2>3. /\ z \in Worlds /\ z.fault = x.fault /\ z.robots = x.robots /\ z.last = x.last
        /\ z.cmap = x.cmap /\ z.conMap = x.conMap /\ z.client = x.client /\ z.conn = x.conn
        /\ z.queues = [x.queues EXCEPT ![v].dels = t]
    BY <1>1, <2>2, SetDels
  <2>4. y = [z EXCEPT !.conMap[fd] = Null]
    BY <1>1, <2>1 DEF Worlds
  <2>5. /\ z.queues[v].dels = t /\ z.queues[v].uids = x.queues[v].uids
        /\ \A u \in Vids : u # v => z.queues[u] = x.queues[u]
    BY <1>1, <2>3, WorldFacts
  <2> HIDE DEF z
  <2>6. /\ y \in Worlds /\ y.fault = z.fault /\ y.robots = z.robots /\ y.last = z.last
        /\ y.cmap = z.cmap /\ y.queues = z.queues /\ y.client = z.client /\ y.conn = z.conn
        /\ y.conMap = [z.conMap EXCEPT ![fd] = Null]
    BY <2>2, <2>3, <2>4 DEF Worlds
  <2>7. \A g \in Fds : y.conMap[g] \in Objs => y.conMap[g] = x.conMap[g]
    BY <1>1, <2>2, <2>3, <2>6, WorldFacts, Numbers
  <2>8. Linked(y)
    BY <1>1, <2>3, <2>6, <2>7 DEF Linked
  <2>9. n = 0 => y.queues[0].dels = <<>>
    BY <1>1, <1>5, <2>5, <2>6, Numbers DEF Conserved, s
  <2>10. ASSUME n <= 1 PROVE Kills(y)
    <3> SUFFICES ASSUME NEW u \in Vids
                 PROVE  /\ Once(y.queues[u].dels)
                        /\ \A i \in 1..Len(y.queues[u].dels) : Meant(y, u, y.queues[u].dels[i])
      BY DEF Kills
    <3>1. \A d : Meant(y, u, d) <=> Meant(x, u, d)
      BY <2>3, <2>6 DEF Meant, Owner
    <3>2. Once(x.queues[u].dels) /\ \A d : In(d, x.queues[u].dels) => Meant(x, u, d)
      BY <1>1, <2>10 DEF Kills, In
    <3>3. Once(y.queues[u].dels) /\ \A d : In(d, y.queues[u].dels) => In(d, x.queues[u].dels)
      BY <2>2, <2>5, <2>6, <3>2 DEF s
    <3> QED
      BY <3>1, <3>2, <3>3 DEF In
  <2>11. \A u \in Vids : y.queues[u].uids = x.queues[u].uids
    BY <2>5, <2>6
  <2>12. Good(y, n)
    BY <1>1, <2>3, <2>6, <2>8, <2>9, <2>10, <2>11, DelsTouched
  <2>13. Killed(x, y)
    BY <2>2, <2>3, <2>5, <2>6 DEF Killed, s
  <2> QED
    BY <2>12, <2>13 DEF y
<1> QED
  BY <1>3, <1>4, <1>5

\* Client::cancelReady spares those who play.
Cancelled(x, y) ==
    /\ y.client = x.client
    /\ \A v \in Vids, c \in DOMAIN x.client :
          x.client[c].playing /\ In(x.client[c].fd, y.queues[v].dels)
          => In(x.client[c].fd, x.queues[v].dels)
\* It keeps the tables good and spares the players.
LEMMA CancelReadyGood ==
    ASSUME NEW x, NEW n \in Nat, Good(x, n), NEW c \in DOMAIN x.client
    PROVE  Good(CancelReady(x, c), n) /\ Cancelled(x, CancelReady(x, c))
<1>1. CASE x.client[c].playing
  BY <1>1 DEF CancelReady, Cancelled
<1>2. CASE ~x.client[c].playing
  <2> DEFINE z == SendData(x, c, "logout")
             y == DisConnectLater(z, c)
  <2>1. Good(z, n) /\ z.queues = x.queues /\ z.client = x.client
    <3>1. "logout" \in Requests /\ "logout" # "login"
      BY DEF Requests
    <3> QED
      BY <3>1, SendDataGood
  <2> HIDE DEF z
  <2>2. /\ Good(y, n) /\ y.client = z.client
        /\ \A v \in Vids, fd \in Fds :
              In(fd, y.queues[v].dels) => In(fd, z.queues[v].dels) \/ fd = z.client[c].fd
    BY <2>1, DisConnectLaterGood
  <2>3. CancelReady(x, c) = y
    BY <1>2 DEF CancelReady, z
  <2>4. \A d \in DOMAIN x.client : x.client[d].playing => x.client[d].fd # x.client[c].fd
    BY <1>2, Partners
  <2>5. \A d \in DOMAIN x.client : x.client[d].fd \in Fds
    BY WorldFacts DEF Good
  <2>6. Cancelled(x, y)
    <3> HIDE DEF y
    <3> QED
      BY <2>1, <2>2, <2>4, <2>5 DEF Cancelled
  <2> QED
    BY <2>2, <2>3, <2>6
<1> QED
  BY <1>1, <1>2

\* Induction up to a bound, over a set of numbers instead of a predicate.
LEMMA UpTo ==
    ASSUME NEW N \in Nat, NEW S, 0 \in S, \A m \in 0..(N - 1) : m \in S => m + 1 \in S
    PROVE  0..N \subseteq S
<1> DEFINE T == (0..N) \ S
<1> SUFFICES ASSUME T # {} PROVE FALSE
  OBVIOUS
<1>1. T \subseteq Nat
  OBVIOUS
<1>2. PICK k \in T : \A j \in T : k <= j
  BY <1>1, Least
<1>3. k # 0 /\ k \in 1..N /\ k \notin S
  OBVIOUS
<1>4. k - 1 \in S /\ k - 1 \in 0..(N - 1)
  BY <1>2, <1>3
<1> QED
  BY <1>3, <1>4

\* The loop of __cbTimerAddUser: where it gets, server by server.
StartAll(X, v, k, fd) == {StartOne(x, v, k[v], fd[v]) : x \in X}
Starting(f, N, x, k, fd) ==
    f = [v \in 0..N |-> IF v = 0 THEN {x} ELSE StartAll(f[v - 1], v, k, fd)]
\* There is such a function, so the recursive definition in AddUser means it.
LEMMA StartsExist ==
    ASSUME NEW N \in Nat, NEW x, NEW k, NEW fd
    PROVE  \E f : Starting(f, N, x, k, fd)
<1> DEFINE T == {m \in 0..N : \E f : Starting(f, m, x, k, fd)}
<1>1. 0 \in T
  <2> DEFINE f == [v \in 0..0 |-> {x}]
  <2>1. f = [v \in 0..0 |-> IF v = 0 THEN {x} ELSE StartAll(f[v - 1], v, k, fd)]
    <3>1. \A v \in 0..0 : v = 0
      OBVIOUS
    <3> QED
      BY <3>1
  <2>2. Starting(f, 0, x, k, fd)
    BY <2>1 DEF Starting
  <2>3. 0 \in 0..N
    OBVIOUS
  <2> QED
    BY <2>2, <2>3
<1>2. ASSUME NEW m \in 0..(N - 1), m \in T PROVE m + 1 \in T
  <2>1. PICK f : Starting(f, m, x, k, fd)
    BY <1>2
  <2> DEFINE g == [v \in 0..(m + 1) |-> IF v = 0 THEN {x} ELSE StartAll(f[v - 1], v, k, fd)]
             h == [v \in 0..(m + 1) |-> IF v = 0 THEN {x} ELSE StartAll(g[v - 1], v, k, fd)]
  <2>2. \A v \in 0..m : f[v] = IF v = 0 THEN {x} ELSE StartAll(f[v - 1], v, k, fd)
    <3> DEFINE r == [v \in 0..m |-> IF v = 0 THEN {x} ELSE StartAll(f[v - 1], v, k, fd)]
    <3>1. f = r
      BY <2>1 DEF Starting
    <3>2. \A v \in 0..m : r[v] = IF v = 0 THEN {x} ELSE StartAll(f[v - 1], v, k, fd)
      OBVIOUS
    <3> HIDE DEF r
    <3> QED
      BY <3>1, <3>2
  <2>3. \A v \in 0..m : f[v] = g[v]
    <3>1. \A v \in 0..m : v \in 0..(m + 1)
      OBVIOUS
    <3>2. \A v \in 0..(m + 1) : g[v] = IF v = 0 THEN {x} ELSE StartAll(f[v - 1], v, k, fd)
      OBVIOUS
    <3> HIDE DEF g
    <3> QED
      BY <2>2, <3>1, <3>2
  <2>4. \A v \in 0..(m + 1) : v # 0 => v - 1 \in 0..m
    OBVIOUS
  <2>5. \A v \in 0..(m + 1) : g[v] = h[v]
    <3> SUFFICES ASSUME NEW v \in 0..(m + 1) PROVE g[v] = h[v]
      OBVIOUS
    <3>1. CASE v = 0
      BY <3>1
    <3>2. CASE v # 0
      <4>1. f[v - 1] = g[v - 1]
        BY <2>3, <2>4, <3>2
      <4>2. g[v] = StartAll(f[v - 1], v, k, fd)
        BY <3>2
      <4>3. h[v] = StartAll(g[v - 1], v, k, fd)
        BY <3>2
      <4> HIDE DEF g, h
      <4> QED
        BY <4>1, <4>2, <4>3
    <3> QED
      BY <3>1, <3>2
  <2>6. g = h
    BY <2>5
  <2>7. Starting(g, m + 1, x, k, fd)
    BY <2>6 DEF Starting
  <2>8. m + 1 \in 0..N
    OBVIOUS
  <2> QED
    BY <2>7, <2>8
<1>3. 0..N \subseteq T
  <2> HIDE DEF T
  <2> QED
    BY <1>1, <1>2, UpTo
<1> QED
  BY <1>3

\* The descriptors a round of __cbTimerAddUser gets are new ones.
StartSet(x, k) == {v \in 1..NumVids : k[v] < Len(x.queues[v].uids)}
NewFds(x, k, fd) ==
    /\ \A v \in 1..NumVids : k[v] <= Len(x.queues[v].uids)
    /\ \A v \in StartSet(x, k) : Unused(x, fd[v])
    /\ \A u, v \in StartSet(x, k) : fd[u] = fd[v] => u = v
Joined(x, y) ==
    /\ \A d \in DOMAIN x.client : d \in DOMAIN y.client /\ y.client[d] = x.client[d]
    /\ \A u \in Vids : y.queues[u].dels = x.queues[u].dels
\* After the servers up to v.
StartedUpTo(x, y, v, n, k, fd) ==
    /\ Good(y, n) /\ Joined(x, y)
    /\ \A u \in (v + 1)..NumVids : /\ y.queues[u] = x.queues[u]
                                   /\ u \in StartSet(x, k) => Unused(y, fd[u])
\* The loop keeps the tables good, as long as m_fd can hold the descriptors.
LEMMA StartsGood ==
    ASSUME NEW x, NEW n \in Nat, Good(x, n), NEW k \in [1..NumVids -> 0..Cardinality(Uids)],
           NEW fd \in [1..NumVids -> Fds \cup WideFds], NewFds(x, k, fd),
           NEW f, Starting(f, NumVids, x, k, fd), NEW z \in f[NumVids]
    PROVE  z = Crash("wide") \/ (Good(z, n) /\ Joined(x, z))
<1> DEFINE N == NumVids
           T == {m \in 0..N : \A y \in f[m] :
                    y = Crash("wide") \/ StartedUpTo(x, y, m, n, k, fd)}
<1>1. N \in Nat
  BY RobotsAssumption
<1>2. f[0] = {x} /\ \A v \in 1..N : f[v] = StartAll(f[v - 1], v, k, fd)
  <2> DEFINE r == [v \in 0..N |-> IF v = 0 THEN {x} ELSE StartAll(f[v - 1], v, k, fd)]
  <2>1. f = r
    BY DEF Starting
  <2>2. \A v \in 0..N : r[v] = IF v = 0 THEN {x} ELSE StartAll(f[v - 1], v, k, fd)
    OBVIOUS
  <2> HIDE DEF r
  <2>3. 0 \in 0..N /\ \A v \in 1..N : v \in 0..N /\ v # 0
    BY <1>1
  <2> QED
    BY <2>1, <2>2, <2>3
<1>3. x \in Worlds
  BY DEF Good
<1>4. 0 \in T
  <2> SUFFICES StartedUpTo(x, x, 0, n, k, fd)
    BY <1>1, <1>2
  <2>1. Joined(x, x)
    BY DEF Joined
  <2> QED
    BY <2>1 DEF StartedUpTo, NewFds
<1>5. ASSUME NEW m \in 0..(N - 1), m \in T PROVE m + 1 \in T
  <2> DEFINE v == m + 1
  <2>1. v \in 1..N /\ v \in 0..N /\ v - 1 = m /\ v \in Vids
    BY <1>1 DEF Vids
  <2> HIDE DEF v
  <2> SUFFICES ASSUME NEW y \in f[v], y # Crash("wide") PROVE StartedUpTo(x, y, v, n, k, fd)
    BY <2>1 DEF v
  <2>2. f[v] = StartAll(f[m], v, k, fd)
    BY <1>2, <2>1
  <2>3. PICK b \in f[m] : y = StartOne(b, v, k[v], fd[v])
    BY <2>2 DEF StartAll
  <2>4. StartedUpTo(x, b, m, n, k, fd)
    <3>1. b # Crash("wide")
      BY <2>3, Descriptors DEF StartOne
    <3> QED
      BY <1>5, <2>3, <3>1
  <2>5. v \in (m + 1)..N /\ \A u \in (v + 1)..N : u \in (m + 1)..N /\ u # v /\ u \in Vids
    BY <1>1, <2>1 DEF v, Vids
  <2>6. Good(b, n) /\ Joined(x, b) /\ b.queues[v] = x.queues[v]
    BY <2>4, <2>5 DEF StartedUpTo
  <2>7. Len(x.queues[v].uids) \in Nat /\ k[v] \in Nat /\ fd[v] \in Fds \cup WideFds
    <3>1. x.queues[v].uids \in Seq(Uids)
      BY <1>3, <2>1, WorldFacts
    <3>2. k[v] \in 0..Cardinality(Uids)
      BY <2>1
    <3>3. Cardinality(Uids) \in Nat
      BY RobotsAssumption, FS_CardinalityType
    <3> QED
      BY <2>1, <3>1, <3>2, <3>3
  <2>8. k[v] \in 0..Len(b.queues[v].uids)
    BY <2>1, <2>6, <2>7 DEF NewFds
  <2>9. k[v] < Len(b.queues[v].uids) => Unused(b, fd[v])
    BY <2>1, <2>4, <2>5, <2>6 DEF StartedUpTo, StartSet
  <2>10. /\ Good(y, n) /\ Started(b, y, v, fd[v])
         /\ k[v] = Len(b.queues[v].uids) => Started(b, y, v, None)
    BY <2>1, <2>3, <2>6, <2>7, <2>8, <2>9, StartOneGood
  <2>11. Joined(x, y)
    BY <2>6, <2>10 DEF Joined, Started
  <2>12. ASSUME NEW u \in (v + 1)..N
         PROVE  y.queues[u] = x.queues[u] /\ (u \in StartSet(x, k) => Unused(y, fd[u]))
    <3>1. u \in Vids /\ u # v /\ b.queues[u] = x.queues[u]
      BY <2>4, <2>5 DEF StartedUpTo
    <3>2. y.queues[u] = x.queues[u]
      BY <2>10, <3>1 DEF Started
    <3>3. ASSUME u \in StartSet(x, k) PROVE Unused(y, fd[u])
      <4>1. Unused(b, fd[u]) /\ fd[u] \in Fds \cup WideFds
        BY <2>4, <2>5, <3>3 DEF StartedUpTo, StartSet
      <4>2. CASE v \in StartSet(x, k)
        <5>1. fd[u] # fd[v]
          BY <3>1, <3>3, <4>2 DEF NewFds
        <5> QED
          BY <2>10, <4>1, <5>1 DEF Started
      <4>3. CASE v \notin StartSet(x, k)
        <5>1. k[v] = Len(b.queues[v].uids)
          BY <2>1, <2>6, <2>7, <2>8, <4>3 DEF StartSet
        <5>2. fd[u] # None
          BY <4>1, Descriptors DEF None
        <5> QED
          BY <2>10, <4>1, <5>1, <5>2 DEF Started
      <4> QED
        BY <4>2, <4>3
    <3> QED
      BY <3>2, <3>3
  <2> QED
    BY <2>10, <2>11, <2>12 DEF StartedUpTo
<1>6. 0..N \subseteq T
  <2> HIDE DEF T
  <2> QED
    BY <1>1, <1>4, <1>5, UpTo
<1>7. N \in T
  BY <1>1, <1>6
<1> QED
  BY <1>7 DEF StartedUpTo

\* __cbTimerAddUser.
LEMMA AddUserGood ==
    ASSUME NEW n \in Nat, Good(w, n), AddUser
    PROVE  w' = Crash("wide") \/ (Good(w', n) /\ Joined(w, w'))
<1>1. PICK k \in [1..NumVids -> 0..Cardinality(Uids)], fd \in [1..NumVids -> Fds \cup WideFds] :
         /\ \A v \in 1..NumVids : k[v] <= Len(w.queues[v].uids)
         /\ \A v \in Starts(k) : \A p \in DOMAIN w.conn : w.conn[p].fd # fd[v]
         /\ \A u, v \in Starts(k) : fd[u] = fd[v] => u = v
         /\ LET after[v \in Vids] == IF v = 0 THEN {w}
                    ELSE {StartOne(x, v, k[v], fd[v]) : x \in after[v - 1]}
            IN w' \in after[NumVids]
  BY DEF AddUser
<1>2. NewFds(w, k, fd)
  BY <1>1 DEF NewFds, StartSet, Starts, Unused
<1>3. w' \in (CHOOSE f : Starting(f, NumVids, w, k, fd))[NumVids]
  BY <1>1 DEF Starting, StartAll, Vids
<1>4. PICK f : Starting(f, NumVids, w, k, fd) /\ w' \in f[NumVids]
  <2>1. NumVids \in Nat
    BY RobotsAssumption
  <2>2. \E f : Starting(f, NumVids, w, k, fd)
    BY <2>1, StartsExist
  <2> QED
    BY <1>3, <2>2
<1> QED
  BY <1>2, <1>4, StartsGood

\* The loop of __cbTimerDisconnect.
KillAll(X, v) == {KillOne(x, v) : x \in X}
Killing(f, N, x) == f = [v \in 0..N |-> KillAll(IF v = 0 THEN {x} ELSE f[v - 1], v)]
\* There is such a function, so the recursive definition in Disconnect means it.
LEMMA KillsExist ==
    ASSUME NEW N \in Nat, NEW x
    PROVE  \E f : Killing(f, N, x)
<1> DEFINE T == {m \in 0..N : \E f : Killing(f, m, x)}
<1>1. 0 \in T
  <2> DEFINE f == [v \in 0..0 |-> KillAll({x}, v)]
  <2>1. f = [v \in 0..0 |-> KillAll(IF v = 0 THEN {x} ELSE f[v - 1], v)]
    <3>1. \A v \in 0..0 : v = 0
      OBVIOUS
    <3> QED
      BY <3>1
  <2>2. Killing(f, 0, x)
    BY <2>1 DEF Killing
  <2>3. 0 \in 0..N
    OBVIOUS
  <2> QED
    BY <2>2, <2>3
<1>2. ASSUME NEW m \in 0..(N - 1), m \in T PROVE m + 1 \in T
  <2>1. PICK f : Killing(f, m, x)
    BY <1>2
  <2> DEFINE g == [v \in 0..(m + 1) |-> KillAll(IF v = 0 THEN {x} ELSE f[v - 1], v)]
             h == [v \in 0..(m + 1) |-> KillAll(IF v = 0 THEN {x} ELSE g[v - 1], v)]
  <2>2. \A v \in 0..m : f[v] = KillAll(IF v = 0 THEN {x} ELSE f[v - 1], v)
    <3> DEFINE r == [v \in 0..m |-> KillAll(IF v = 0 THEN {x} ELSE f[v - 1], v)]
    <3>1. f = r
      BY <2>1 DEF Killing
    <3>2. \A v \in 0..m : r[v] = KillAll(IF v = 0 THEN {x} ELSE f[v - 1], v)
      OBVIOUS
    <3> HIDE DEF r
    <3> QED
      BY <3>1, <3>2
  <2>3. \A v \in 0..m : f[v] = g[v]
    <3>1. \A v \in 0..m : v \in 0..(m + 1)
      OBVIOUS
    <3>2. \A v \in 0..(m + 1) : g[v] = KillAll(IF v = 0 THEN {x} ELSE f[v - 1], v)
      OBVIOUS
    <3> HIDE DEF g
    <3> QED
      BY <2>2, <3>1, <3>2
  <2>4. \A v \in 0..(m + 1) : v # 0 => v - 1 \in 0..m
    OBVIOUS
  <2>5. \A v \in 0..(m + 1) : g[v] = h[v]
    <3> SUFFICES ASSUME NEW v \in 0..(m + 1) PROVE g[v] = h[v]
      OBVIOUS
    <3>1. g[v] = KillAll(IF v = 0 THEN {x} ELSE f[v - 1], v)
      OBVIOUS
    <3>2. h[v] = KillAll(IF v = 0 THEN {x} ELSE g[v - 1], v)
      OBVIOUS
    <3>3. v # 0 => f[v - 1] = g[v - 1]
      BY <2>3, <2>4
    <3> HIDE DEF g, h
    <3>4. (IF v = 0 THEN {x} ELSE f[v - 1]) = (IF v = 0 THEN {x} ELSE g[v - 1])
      BY <3>3
    <3> QED
      BY <3>1, <3>2, <3>4
  <2>6. g = h
    BY <2>5
  <2>7. Killing(g, m + 1, x)
    BY <2>6 DEF Killing
  <2>8. m + 1 \in 0..N
    OBVIOUS
  <2> QED
    BY <2>7, <2>8
<1>3. 0..N \subseteq T
  <2> HIDE DEF T
  <2> QED
    BY <1>1, <1>2, UpTo
<1> QED
  BY <1>3

\* ... and what holds all the way.
LEMMA KillsGood ==
    ASSUME NEW x, NEW n \in Nat, Good(x, n), NEW N \in Nat, 0..N \subseteq Vids,
           NEW f, Killing(f, N, x), NEW z \in f[N]
    PROVE  Good(z, n) /\ Killed(x, z)
<1> DEFINE T == {m \in 0..N : \A y \in f[m] : Good(y, n) /\ Killed(x, y)}
<1>1. \A v \in 0..N : f[v] = KillAll(IF v = 0 THEN {x} ELSE f[v - 1], v)
  <2> DEFINE r == [v \in 0..N |-> KillAll(IF v = 0 THEN {x} ELSE f[v - 1], v)]
  <2>1. f = r
    BY DEF Killing
  <2>2. \A v \in 0..N : r[v] = KillAll(IF v = 0 THEN {x} ELSE f[v - 1], v)
    OBVIOUS
  <2> HIDE DEF r
  <2> QED
    BY <2>1, <2>2
<1>2. ASSUME NEW v \in 0..N, NEW X, f[v] = KillAll(X, v), \A y \in X : Good(y, n) /\ Killed(x, y)
      PROVE  v \in T
  <2> SUFFICES ASSUME NEW y \in f[v] PROVE Good(y, n) /\ Killed(x, y)
    OBVIOUS
  <2>1. PICK b \in X : y = KillOne(b, v)
    BY <1>2 DEF KillAll
  <2>2. Good(b, n) /\ Killed(x, b)
    BY <1>2
  <2>3. Good(y, n) /\ Killed(b, y)
    BY <2>1, <2>2, KillOneGood
  <2> QED
    BY <2>2, <2>3 DEF Killed
<1>3. 0 \in T
  <2>1. 0 \in 0..N /\ f[0] = KillAll({x}, 0)
    BY <1>1
  <2>2. Killed(x, x)
    BY DEF Killed
  <2> HIDE DEF T
  <2> QED
    BY <1>2, <2>1, <2>2
<1>4. ASSUME NEW m \in 0..(N - 1), m \in T PROVE m + 1 \in T
  <2>1. m + 1 \in 0..N /\ m + 1 # 0 /\ (m + 1) - 1 = m
    OBVIOUS
  <2>2. f[m + 1] = KillAll(f[m], m + 1)
    BY <1>1, <2>1
  <2>3. \A y \in f[m] : Good(y, n) /\ Killed(x, y)
    BY <1>4
  <2> HIDE DEF T
  <2> QED
    BY <1>2, <2>1, <2>2, <2>3
<1>5. 0..N \subseteq T
  <2> HIDE DEF T
  <2> QED
    BY <1>3, <1>4, UpTo
<1> QED
  BY <1>5

\* The loop of sigusr1_handler.
CancelAt(x, fd) == IF x.fault # "none" \/ fd \notin Fds \/ x.cmap[fd] = None THEN x
                   ELSE CancelReady(x, x.cmap[fd])
CancelAll(X, v) == {CancelAt(x, v) : x \in X}
Cancelling(f, N, x) == f = [v \in 0..N |-> CancelAll(IF v = 0 THEN {x} ELSE f[v - 1], v)]
\* There is such a function, so the recursive definition in Sigusr1 means it.
LEMMA CancelsExist ==
    ASSUME NEW N \in Nat, NEW x
    PROVE  \E f : Cancelling(f, N, x)
<1> DEFINE T == {m \in 0..N : \E f : Cancelling(f, m, x)}
<1>1. 0 \in T
  <2> DEFINE f == [v \in 0..0 |-> CancelAll({x}, v)]
  <2>1. f = [v \in 0..0 |-> CancelAll(IF v = 0 THEN {x} ELSE f[v - 1], v)]
    <3>1. \A v \in 0..0 : v = 0
      OBVIOUS
    <3> QED
      BY <3>1
  <2>2. Cancelling(f, 0, x)
    BY <2>1 DEF Cancelling
  <2>3. 0 \in 0..N
    OBVIOUS
  <2> QED
    BY <2>2, <2>3
<1>2. ASSUME NEW m \in 0..(N - 1), m \in T PROVE m + 1 \in T
  <2>1. PICK f : Cancelling(f, m, x)
    BY <1>2
  <2> DEFINE g == [v \in 0..(m + 1) |-> CancelAll(IF v = 0 THEN {x} ELSE f[v - 1], v)]
             h == [v \in 0..(m + 1) |-> CancelAll(IF v = 0 THEN {x} ELSE g[v - 1], v)]
  <2>2. \A v \in 0..m : f[v] = CancelAll(IF v = 0 THEN {x} ELSE f[v - 1], v)
    <3> DEFINE r == [v \in 0..m |-> CancelAll(IF v = 0 THEN {x} ELSE f[v - 1], v)]
    <3>1. f = r
      BY <2>1 DEF Cancelling
    <3>2. \A v \in 0..m : r[v] = CancelAll(IF v = 0 THEN {x} ELSE f[v - 1], v)
      OBVIOUS
    <3> HIDE DEF r
    <3> QED
      BY <3>1, <3>2
  <2>3. \A v \in 0..m : f[v] = g[v]
    <3>1. \A v \in 0..m : v \in 0..(m + 1)
      OBVIOUS
    <3>2. \A v \in 0..(m + 1) : g[v] = CancelAll(IF v = 0 THEN {x} ELSE f[v - 1], v)
      OBVIOUS
    <3> HIDE DEF g
    <3> QED
      BY <2>2, <3>1, <3>2
  <2>4. \A v \in 0..(m + 1) : v # 0 => v - 1 \in 0..m
    OBVIOUS
  <2>5. \A v \in 0..(m + 1) : g[v] = h[v]
    <3> SUFFICES ASSUME NEW v \in 0..(m + 1) PROVE g[v] = h[v]
      OBVIOUS
    <3>1. g[v] = CancelAll(IF v = 0 THEN {x} ELSE f[v - 1], v)
      OBVIOUS
    <3>2. h[v] = CancelAll(IF v = 0 THEN {x} ELSE g[v - 1], v)
      OBVIOUS
    <3>3. v # 0 => f[v - 1] = g[v - 1]
      BY <2>3, <2>4
    <3> HIDE DEF g, h
    <3>4. (IF v = 0 THEN {x} ELSE f[v - 1]) = (IF v = 0 THEN {x} ELSE g[v - 1])
      BY <3>3
    <3> QED
      BY <3>1, <3>2, <3>4
  <2>6. g = h
    BY <2>5
  <2>7. Cancelling(g, m + 1, x)
    BY <2>6 DEF Cancelling
  <2>8. m + 1 \in 0..N
    OBVIOUS
  <2> QED
    BY <2>7, <2>8
<1>3. 0..N \subseteq T
  <2> HIDE DEF T
  <2> QED
    BY <1>1, <1>2, UpTo
<1> QED
  BY <1>3

\* ... and what holds all the way.
LEMMA CancelsGood ==
    ASSUME NEW x, NEW n \in Nat, Good(x, n), NEW N \in Nat,
           NEW f, Cancelling(f, N, x), NEW z \in f[N]
    PROVE  Good(z, n) /\ Cancelled(x, z)
<1> DEFINE T == {m \in 0..N : \A y \in f[m] : Good(y, n) /\ Cancelled(x, y)}
<1>1. \A v \in 0..N : f[v] = CancelAll(IF v = 0 THEN {x} ELSE f[v - 1], v)
  <2> DEFINE r == [v \in 0..N |-> CancelAll(IF v = 0 THEN {x} ELSE f[v - 1], v)]
  <2>1. f = r
    BY DEF Cancelling
  <2>2. \A v \in 0..N : r[v] = CancelAll(IF v = 0 THEN {x} ELSE f[v - 1], v)
    OBVIOUS
  <2> HIDE DEF r
  <2> QED
    BY <2>1, <2>2
<1>2. ASSUME NEW v \in 0..N, NEW X, f[v] = CancelAll(X, v), \A y \in X : Good(y, n) /\ Cancelled(x, y)
      PROVE  v \in T
  <2> SUFFICES ASSUME NEW y \in f[v] PROVE Good(y, n) /\ Cancelled(x, y)
    OBVIOUS
  <2>1. PICK b \in X : y = CancelAt(b, v)
    BY <1>2 DEF CancelAll
  <2>2. Good(b, n) /\ Cancelled(x, b)
    BY <1>2
  <2>3. Good(y, n) /\ Cancelled(b, y)
    <3>1. CASE b.fault # "none" \/ v \notin Fds \/ b.cmap[v] = None
      BY <2>1, <2>2, <3>1 DEF CancelAt, Cancelled
    <3>2. CASE ~(b.fault # "none" \/ v \notin Fds \/ b.cmap[v] = None)
      <4>1. y = CancelReady(b, b.cmap[v])
        BY <2>1, <3>2 DEF CancelAt
      <4>2. b.cmap[v] \in DOMAIN b.client
        BY <2>2, <3>2 DEF Good, Linked
      <4> QED
        BY <2>2, <4>1, <4>2, CancelReadyGood
    <3> QED
      BY <3>1, <3>2
  <2> QED
    BY <2>2, <2>3 DEF Cancelled
<1>3. 0 \in T
  <2>1. 0 \in 0..N /\ f[0] = CancelAll({x}, 0)
    BY <1>1
  <2>2. Cancelled(x, x)
    BY DEF Cancelled
  <2> HIDE DEF T
  <2> QED
    BY <1>2, <2>1, <2>2
<1>4. ASSUME NEW m \in 0..(N - 1), m \in T PROVE m + 1 \in T
  <2>1. m + 1 \in 0..N /\ m + 1 # 0 /\ (m + 1) - 1 = m
    OBVIOUS
  <2>2. f[m + 1] = CancelAll(f[m], m + 1)
    BY <1>1, <2>1
  <2>3. \A y \in f[m] : Good(y, n) /\ Cancelled(x, y)
    BY <1>4
  <2> HIDE DEF T
  <2> QED
    BY <1>2, <2>1, <2>2, <2>3
<1>5. 0..N \subseteq T
  <2> HIDE DEF T
  <2> QED
    BY <1>3, <1>4, UpTo
<1> QED
  BY <1>5

\* A finite set of numbers has a greatest one.
LEMMA Greatest ==
    ASSUME NEW S, S \subseteq Nat, IsFiniteSet(S), S # {}
    PROVE  Max(S) \in S
<1> DEFINE n == Cardinality(S)
<1>1. n \in Nat /\ ExistsBijection(1..n, S)
  BY FS_CardinalityType
<1>2. PICK f : f \in [1..n -> S] /\ \A s \in S : \E i \in 1..n : f[i] = s
  BY <1>1 DEF ExistsBijection, Bijection, Surjection
<1> HIDE DEF n
<1> DEFINE T == {m \in 0..n : m = 0 \/ \E i \in 1..n : \A j \in 1..m : f[j] <= f[i]}
<1>3. 0 \in T
  BY <1>1
<1>4. ASSUME NEW m \in 0..(n - 1), m \in T PROVE m + 1 \in T
  <2>1. m + 1 \in 1..n /\ m + 1 \in 0..n /\ \A j \in 1..(m + 1) : j \in 1..m \/ j = m + 1
    BY <1>1
  <2>2. \A j \in 1..n : f[j] \in Nat
    BY <1>2
  <2>3. CASE m = 0
    <3>1. \A j \in 1..(m + 1) : j = m + 1
      BY <2>3
    <3>2. \A j \in 1..(m + 1) : f[j] <= f[m + 1]
      BY <2>1, <2>2, <3>1
    <3> QED
      BY <2>1, <3>2
  <2>4. CASE m # 0
    <3>1. PICK i \in 1..n : \A j \in 1..m : f[j] <= f[i]
      BY <1>4, <2>4
    <3>2. \A j \in 1..m : j \in 1..n
      BY <1>1
    <3>3. CASE f[m + 1] <= f[i]
      BY <2>1, <3>1, <3>3
    <3>4. CASE ~(f[m + 1] <= f[i])
      <4>1. \A j \in 1..(m + 1) : f[j] <= f[m + 1]
        BY <2>1, <2>2, <3>1, <3>2, <3>4
      <4> QED
        BY <2>1, <4>1
    <3> QED
      BY <3>3, <3>4
  <2> QED
    BY <2>3, <2>4
<1>5. 0..n \subseteq T
  <2> HIDE DEF T
  <2> QED
    BY <1>1, <1>3, <1>4, UpTo
<1>6. n # 0
  <2>1. PICK s \in S : TRUE
    OBVIOUS
  <2>2. PICK i \in 1..n : f[i] = s
    BY <1>2
  <2> QED
    BY <1>1
<1>7. PICK i \in 1..n : \A j \in 1..n : f[j] <= f[i]
  <2>1. n \in T
    <3> HIDE DEF T
    <3> QED
      BY <1>1, <1>5
  <2> QED
    BY <1>6, <2>1
<1>8. \A s \in S : f[i] >= s
  BY <1>2, <1>7
<1> QED
  BY <1>2, <1>8 DEF Max

\* __cbTimerDisconnect.
LEMMA DisconnectGood ==
    ASSUME NEW n \in Nat, Good(w, n), Disconnect
    PROVE  Good(w', n) /\ Killed(w, w')
<1>1. LET after[v \in Vids] == {KillOne(x, v) : x \in IF v = 0 THEN {w} ELSE after[v - 1]}
      IN w' \in after[NumVids]
  BY DEF Disconnect
<1>2. w' \in (CHOOSE f : Killing(f, NumVids, w))[NumVids]
  BY <1>1 DEF Killing, KillAll, Vids
<1>3. NumVids \in Nat
  BY RobotsAssumption
<1>4. PICK f : Killing(f, NumVids, w) /\ w' \in f[NumVids]
  <2>1. \E f : Killing(f, NumVids, w)
    BY <1>3, KillsExist
  <2> QED
    BY <1>2, <2>1
<1>5. 0..NumVids \subseteq Vids
  BY DEF Vids
<1> QED
  BY <1>3, <1>4, <1>5, KillsGood

\* sigusr1_handler.
LEMMA Sigusr1Good ==
    ASSUME NEW n \in Nat, Good(w, n), Sigusr1
    PROVE  w' = Crash("send") \/ (Good(w', n) /\ Cancelled(w, w'))
<1> DEFINE N == Max(Fds \cup {0})
<1>1. \/ LET cancel(x, fd) == IF x.fault # "none" \/ fd \notin Fds \/ x.cmap[fd] = None THEN x
                              ELSE CancelReady(x, x.cmap[fd])
             after[fd \in 0..N] == {cancel(x, fd) : x \in IF fd = 0 THEN {w} ELSE after[fd - 1]}
         IN w' \in after[N]
      \/ w' = Crash("send")
  BY DEF Sigusr1
<1>2. w' = Crash("send") \/ w' \in (CHOOSE f : Cancelling(f, N, w))[N]
  BY <1>1 DEF Cancelling, CancelAll, CancelAt
<1>3. N \in Nat
  <2>1. IsFiniteSet(Fds \cup {0}) /\ Fds \cup {0} \subseteq Nat /\ Fds \cup {0} # {}
    BY RobotsAssumption, FS_AddElement
  <2>2. Max(Fds \cup {0}) \in Fds \cup {0}
    BY <2>1, Greatest
  <2> QED
    BY <2>1, <2>2
<1> HIDE DEF N
<1>4. \E f : Cancelling(f, N, w)
  BY <1>3, CancelsExist
<1>5. ASSUME w' # Crash("send") PROVE Good(w', n) /\ Cancelled(w, w')
  <2>1. PICK f : Cancelling(f, N, w) /\ w' \in f[N]
    BY <1>2, <1>4, <1>5
  <2> QED
    BY <1>3, <2>1, CancelsGood
<1> QED
  BY <1>5

\* A finite set as a sequence.
LEMMA SetToSeqFacts ==
    ASSUME NEW S, IsFiniteSet(S)
    PROVE  LET s == SetToSeq(S)
           IN s \in Seq(S) /\ Once(s) /\ \A e : In(e, s) <=> e \in S
<1> DEFINE n == Cardinality(S)
           s == SetToSeq(S)
<1>1. n \in Nat /\ ExistsBijection(1..n, S)
  BY FS_CardinalityType
<1>2. \E f \in [1..n -> S] : IsInjective(f)
  BY <1>1 DEF ExistsBijection, Bijection, Injection
<1>3. s \in [1..n -> S] /\ IsInjective(s)
  BY <1>2 DEF SetToSeq
<1> HIDE DEF n, s
<1>4. s \in Seq(S) /\ Len(s) = n
  BY <1>1, <1>3
<1>5. Once(s)
  BY <1>3, <1>4 DEF Once, IsInjective
<1>6. s \in Surjection(1..n, S)
  <2>1. s \in Injection(1..n, S)
    BY <1>3 DEF Injection
  <2>2. Cardinality(1..n) = n
    BY <1>1, FS_Interval
  <2>3. Cardinality(1..n) = Cardinality(S)
    BY <2>2 DEF n
  <2> QED
    BY <2>1, <2>3, FS_Injection
<1>7. ASSUME NEW e PROVE In(e, s) <=> e \in S
  BY <1>3, <1>4, <1>6 DEF Surjection, In
<1> QED
  BY <1>4, <1>5, <1>7 DEF s

\* std::random_shuffle.
LEMMA ShuffleFacts ==
    ASSUME NEW S, NEW s \in Seq(S), NEW t \in Shuffles(s)
    PROVE  t \in Seq(S) /\ Reordered(s, t)
<1> DEFINE n == Len(s)
<1>1. PICK f \in Bijection(1..n, 1..n) : t = [i \in 1..n |-> s[f[i]]]
  BY DEF Shuffles
<1>2. /\ f \in [1..n -> 1..n] /\ \A i, j \in 1..n : f[i] = f[j] => i = j
      /\ \A j \in 1..n : \E i \in 1..n : f[i] = j
  BY DEF Bijection, Injection, Surjection, IsInjective
<1>3. n \in Nat /\ \A i \in 1..n : s[i] \in S
  OBVIOUS
<1>4. t \in [1..n -> S] /\ \A i \in 1..n : t[i] = s[f[i]]
  BY <1>1, <1>2, <1>3
<1> HIDE DEF n
<1>5. t \in Seq(S) /\ Len(t) = n
  BY <1>3, <1>4
<1>6. Len(s) = n
  BY DEF n
<1>7. ASSUME NEW d PROVE In(d, t) <=> In(d, s)
  <2>1. ASSUME NEW i \in 1..n, t[i] = d PROVE \E j \in 1..n : s[j] = d
    <3>1. f[i] \in 1..n /\ s[f[i]] = d
      BY <1>2, <1>4, <2>1
    <3> QED
      BY <3>1
  <2>2. ASSUME NEW j \in 1..n, s[j] = d PROVE \E i \in 1..n : t[i] = d
    <3>1. PICK i \in 1..n : f[i] = j
      BY <1>2
    <3>2. t[i] = s[f[i]]
      BY <1>4
    <3> QED
      BY <2>2, <3>1, <3>2
  <2> QED
    BY <1>5, <1>6, <2>1, <2>2 DEF In
<1>8. ASSUME Once(s) PROVE Once(t)
  <2> SUFFICES ASSUME NEW i \in 1..n, NEW j \in 1..n, t[i] = t[j] PROVE i = j
    BY <1>5 DEF Once
  <2>1. f[i] \in 1..n /\ f[j] \in 1..n /\ s[f[i]] = s[f[j]]
    BY <1>2, <1>4
  <2>2. f[i] = f[j]
    BY <1>6, <1>8, <2>1 DEF Once
  <2> QED
    BY <1>2, <2>2
<1> QED
  BY <1>5, <1>7, <1>8 DEF Reordered

\* parse_cfg may shuffle the queues as it likes.
LEMMA ShuffledGood ==
    ASSUME NEW x, NEW n \in Nat, Good(x, n), NEW y \in Shuffled(x)
    PROVE  Good(y, n) /\ SameBut(x, y) /\ \A v \in Vids : y.queues[v].dels = x.queues[v].dels
<1>1. x \in Worlds
  BY DEF Good
<1> DEFINE shuffle(q) == [v \in Vids |-> [x.queues[v] EXCEPT !.uids = q[v]]]
<1>2. PICK q : (\A v \in Vids : q[v] \in Shuffles(x.queues[v].uids))
               /\ y = [x EXCEPT !.queues = shuffle(q)]
  BY DEF Shuffled
<1>3. \A v \in Vids : q[v] \in Seq(Uids) /\ Reordered(x.queues[v].uids, q[v])
  <2> SUFFICES ASSUME NEW v \in Vids
               PROVE  q[v] \in Seq(Uids) /\ Reordered(x.queues[v].uids, q[v])
    OBVIOUS
  <2>1. x.queues[v].uids \in Seq(Uids) /\ q[v] \in Shuffles(x.queues[v].uids)
    BY <1>1, <1>2, WorldFacts
  <2> QED
    BY <2>1, ShuffleFacts
<1> DEFINE Q == shuffle(q)
<1>4. /\ Q \in [Vids -> [uids : Seq(Uids), dels : Seq(Fds)]]
      /\ \A v \in Vids : Q[v].uids = q[v] /\ Q[v].dels = x.queues[v].dels
  <2>1. \A v \in Vids : Q[v] = [x.queues[v] EXCEPT !.uids = q[v]]
    OBVIOUS
  <2>2. DOMAIN Q = Vids /\ Q = [v \in Vids |-> Q[v]]
    OBVIOUS
  <2> HIDE DEF Q, shuffle
  <2>3. ASSUME NEW v \in Vids
        PROVE  /\ Q[v] \in [uids : Seq(Uids), dels : Seq(Fds)]
               /\ Q[v].uids = q[v] /\ Q[v].dels = x.queues[v].dels
    <3>1. x.queues[v] \in [uids : Seq(Uids), dels : Seq(Fds)] /\ q[v] \in Seq(Uids)
      BY <1>1, <1>3, WorldFacts
    <3> QED
      BY <2>1, <3>1
  <2> QED
    BY <2>2, <2>3
<1>5. y = [x EXCEPT !.queues = Q]
  BY <1>2
<1> HIDE DEF Q, shuffle
<1>6. y \in Worlds /\ SameBut(x, y) /\ y.queues = Q
  BY <1>1, <1>4, <1>5 DEF Worlds, SameBut
<1>7. \A v \in Vids : /\ y.queues[v].dels = x.queues[v].dels
                      /\ Reordered(x.queues[v].uids, y.queues[v].uids)
  BY <1>3, <1>4, <1>6
<1>8. Good(y, n)
  BY <1>6, <1>7, RequeueGood
<1> QED
  BY <1>6, <1>7, <1>8

\* The fields after parse_cfg, up to its last loop.
NewRobots(x, read, v) == {uid \in read \ x.last : Home[uid] = v}
\* Waiting robots are new ones, except in the queue of vid 0, which is only thinned out.
LEMMA LoadIs ==
    ASSUME NEW x \in Worlds, NEW read \in SUBSET Uids
    PROVE  LET y == Load(x, read)
           IN /\ y \in Worlds /\ y.fault = x.fault /\ y.last = read /\ y.cmap = x.cmap
              /\ y.conMap = x.conMap /\ y.client = x.client /\ y.conn = x.conn
              /\ \A uid \in read : y.robots[uid] = Home[uid]
              /\ y.queues[0].dels = x.queues[0].dels
              /\ \A v \in 1..NumVids : /\ y.queues[v].dels = <<>>
                                       /\ Once(y.queues[v].uids)
                                       /\ \A e : In(e, y.queues[v].uids) <=> e \in NewRobots(x, read, v)
<1> DEFINE y == Load(x, read)
           I == {i \in 1..Len(x.queues[0].uids) : x.queues[0].uids[i] \in read}
           kept == SetToSeq(I)
           old == [i \in 1..Len(kept) |-> x.queues[0].uids[kept[i]]]
           new(v) == SetToSeq(NewRobots(x, read, v))
           Q == [v \in Vids |-> IF v = 0 THEN [uids |-> old, dels |-> x.queues[0].dels]
                                ELSE [uids |-> new(v), dels |-> <<>>]]
           R == [uid \in Uids |-> IF uid \in read THEN Home[uid] ELSE None]
<1>1. y = [x EXCEPT !.queues = Q, !.robots = R, !.last = read]
  BY DEF Load, NewRobots
<1>2. x.queues[0].uids \in Seq(Uids) /\ x.queues[0].dels \in Seq(Fds) /\ 0 \in Vids
  BY WorldFacts, Numbers
<1>3. IsFiniteSet(I) /\ I \subseteq 1..Len(x.queues[0].uids)
  <2>1. Len(x.queues[0].uids) \in Nat
    BY <1>2
  <2>2. IsFiniteSet(1..Len(x.queues[0].uids))
    <3> DEFINE m == Len(x.queues[0].uids)
    <3>1. m \in Int /\ 1 \in Int
      BY <2>1
    <3> HIDE DEF m
    <3>2. IsFiniteSet(1..m)
      BY <3>1, FS_Interval
    <3> QED
      BY <3>2 DEF m
  <2>3. I \in SUBSET (1..Len(x.queues[0].uids))
    OBVIOUS
  <2> HIDE DEF I
  <2> QED
    BY <2>2, <2>3, FS_Subset
<1>4. old \in Seq(Uids)
  <2> HIDE DEF I
  <2>1. kept \in Seq(I)
    BY <1>3, SetToSeqFacts
  <2> HIDE DEF kept
  <2>2. Len(kept) \in Nat /\ \A i \in 1..Len(kept) : kept[i] \in 1..Len(x.queues[0].uids)
    <3>1. Len(kept) \in Nat /\ \A i \in 1..Len(kept) : kept[i] \in I
      BY <2>1
    <3> QED
      BY <1>3, <3>1
  <2>3. \A j \in 1..Len(x.queues[0].uids) : x.queues[0].uids[j] \in Uids
    BY <1>2
  <2>4. old \in [1..Len(kept) -> Uids]
    BY <2>2, <2>3
  <2> HIDE DEF old
  <2> QED
    BY <2>2, <2>4
<1>5. \A v : /\ new(v) \in Seq(Uids) /\ Once(new(v))
             /\ \A e : In(e, new(v)) <=> e \in NewRobots(x, read, v)
  <2> SUFFICES ASSUME NEW v
               PROVE  /\ new(v) \in Seq(Uids) /\ Once(new(v))
                      /\ \A e : In(e, new(v)) <=> e \in NewRobots(x, read, v)
    OBVIOUS
  <2>1. NewRobots(x, read, v) \in SUBSET Uids
    BY DEF NewRobots
  <2>2. IsFiniteSet(NewRobots(x, read, v))
    BY <2>1, RobotsAssumption, FS_Subset
  <2>3. /\ new(v) \in Seq(NewRobots(x, read, v)) /\ Once(new(v))
        /\ \A e : In(e, new(v)) <=> e \in NewRobots(x, read, v)
    BY <2>2, SetToSeqFacts
  <2> HIDE DEF new
  <2>4. new(v) \in Seq(Uids)
    BY <2>1, <2>3
  <2> QED
    BY <2>3, <2>4
<1> HIDE DEF old, new
<1>6. Q \in [Vids -> [uids : Seq(Uids), dels : Seq(Fds)]]
  <2>1. \A v \in Vids : Q[v] \in [uids : Seq(Uids), dels : Seq(Fds)]
    <3> SUFFICES ASSUME NEW v \in Vids
                 PROVE  (IF v = 0 THEN [uids |-> old, dels |-> x.queues[0].dels]
                         ELSE [uids |-> new(v), dels |-> <<>>]) \in [uids : Seq(Uids), dels : Seq(Fds)]
      OBVIOUS
    <3>1. new(v) \in Seq(Uids)
      BY <1>5
    <3>2. <<>> \in Seq(Fds)
      OBVIOUS
    <3> QED
      BY <1>2, <1>4, <3>1, <3>2
  <2> QED
    BY <2>1
<1>7. R \in [Uids -> Vids \cup {None}] /\ \A uid \in read : R[uid] = Home[uid]
  BY Numbers
<1>8. /\ Q[0].dels = x.queues[0].dels
      /\ \A v \in 1..NumVids : Q[v].dels = <<>> /\ Q[v].uids = new(v)
  BY Numbers
<1> HIDE DEF Q, R, y
<1>9. /\ y \in Worlds /\ y.fault = x.fault /\ y.last = read /\ y.cmap = x.cmap
      /\ y.conMap = x.conMap /\ y.client = x.client /\ y.conn = x.conn
      /\ y.robots = R /\ y.queues = Q
  BY <1>1, <1>6, <1>7 DEF Worlds
<1> QED
  BY <1>5, <1>7, <1>8, <1>9 DEF y

\* parse_cfg, with its last loop.
LEMMA LoadGood ==
    ASSUME NEW x, NEW n \in Nat, Good(x, n), NEW read \in SUBSET Uids
    PROVE  Good(Load(x, read), n + 1)
<1> DEFINE y == Load(x, read)
<1>1. x \in Worlds /\ x.fault = "none" /\ Linked(x) /\ Playing(x) /\ (n = 0 => Conserved(x))
  BY DEF Good
<1>2. /\ y \in Worlds /\ y.fault = x.fault /\ y.last = read /\ y.cmap = x.cmap
      /\ y.conMap = x.conMap /\ y.client = x.client /\ y.conn = x.conn
      /\ \A uid \in read : y.robots[uid] = Home[uid]
      /\ y.queues[0].dels = x.queues[0].dels
      /\ \A v \in 1..NumVids : /\ y.queues[v].dels = <<>>
                               /\ Once(y.queues[v].uids)
                               /\ \A e : In(e, y.queues[v].uids) <=> e \in NewRobots(x, read, v)
  BY <1>1, LoadIs
<1> HIDE DEF y
<1>3. Linked(y)
  BY <1>1, <1>2 DEF Linked
<1>4. Waiting(y)
  <2> SUFFICES ASSUME NEW v \in 1..NumVids, NEW i \in 1..Len(y.queues[v].uids)
               PROVE  y.robots[y.queues[v].uids[i]] = v
    BY DEF Waiting
  <2>1. In(y.queues[v].uids[i], y.queues[v].uids)
    BY DEF In
  <2>2. y.queues[v].uids[i] \in NewRobots(x, read, v)
    BY <1>2, <2>1
  <2> QED
    BY <1>2, <2>2 DEF NewRobots
<1>5. Playing(y)
  BY <1>1, <1>2 DEF Playing
<1>6. n + 1 # 0
  OBVIOUS
<1>7. ASSUME n + 1 <= 1 PROVE Kills(y)
  <2>1. n = 0
    BY <1>7
  <2>2. \A v \in Vids : y.queues[v].dels = <<>>
    <3>1. y.queues[0].dels = <<>>
      BY <1>1, <1>2, <2>1 DEF Conserved
    <3> QED
      BY <1>2, <3>1, Numbers
  <2>3. Once(<<>>) /\ \A i \in 1..Len(<<>>) : FALSE
    BY DEF Once
  <2> QED
    BY <2>2, <2>3 DEF Kills
<1> QED
  BY <1>1, <1>2, <1>3, <1>4, <1>5, <1>6, <1>7 DEF Good, y

\* Before parse_cfg there is nothing, and a crash leaves nothing.
LEMMA NothingGood == Good(Nothing, 0) /\ Nothing \in Worlds
<1> DEFINE x == Nothing
<1>1. /\ x.queues = [v \in Vids |-> [uids |-> <<>>, dels |-> <<>>]]
      /\ x.robots = [uid \in Uids |-> None] /\ x.last = {}
      /\ x.cmap = [fd \in Fds |-> None] /\ x.conMap = [fd \in Fds |-> None]
      /\ x.client = NoObjects /\ x.conn = NoObjects /\ x.fault = "none"
  BY DEF Nothing
<1>2. /\ NoObjects \in Table(Clients) /\ NoObjects \in Table(Conns) /\ DOMAIN NoObjects = {}
  <2>1. {} \in SUBSET Objs
    OBVIOUS
  <2>2. NoObjects \in [{} -> Clients] /\ NoObjects \in [{} -> Conns] /\ DOMAIN NoObjects = {}
    BY DEF NoObjects
  <2> QED
    BY <2>1, <2>2 DEF Table
<1>3. x \in Worlds
  <2>1. x.queues \in [Vids -> [uids : Seq(Uids), dels : Seq(Fds)]]
    BY <1>1
  <2>2. /\ x.robots \in [Uids -> Vids \cup {None}] /\ x.cmap \in [Fds -> Objs \cup {None}]
        /\ x.conMap \in [Fds -> Objs \cup {None, Null}] /\ x.last \in SUBSET Uids
        /\ x.client \in Table(Clients) /\ x.conn \in Table(Conns) /\ x.fault \in Faults
    BY <1>1, <1>2 DEF Faults
  <2>3. x = [queues |-> x.queues, robots |-> x.robots, last |-> x.last, cmap |-> x.cmap,
             conMap |-> x.conMap, client |-> x.client, conn |-> x.conn, fault |-> x.fault]
    BY DEF Nothing
  <2> HIDE DEF x
  <2> QED
    BY <2>1, <2>2, <2>3 DEF Worlds
<1> HIDE DEF x
<1>4. \A v \in Vids : x.queues[v].uids = <<>> /\ x.queues[v].dels = <<>>
  BY <1>1
<1>5. Linked(x)
  <2>1. \A fd \in Fds : x.cmap[fd] = None /\ x.conMap[fd] = None
    BY <1>1
  <2> QED
    BY <1>1, <1>2, <2>1, Numbers DEF Linked
<1>6. Once(<<>>) /\ \A i \in 1..Len(<<>>) : FALSE
  BY DEF Once
<1>7. Waiting(x)
  BY <1>4, <1>6, Numbers DEF Waiting
<1>8. Playing(x)
  BY <1>1, <1>2 DEF Playing
<1>9. Conserved(x)
  BY <1>1, <1>2, <1>4, <1>6, Numbers DEF Conserved
<1>10. Kills(x)
  BY <1>4, <1>6 DEF Kills
<1> QED
  BY <1>1, <1>3, <1>5, <1>7, <1>8, <1>9, <1>10 DEF Good, x

\* A crash leaves the world empty.
LEMMA CrashIs ==
    ASSUME NEW why \in Faults
    PROVE  Crash(why) \in Worlds /\ Crash(why).fault = why /\ DOMAIN Crash(why).client = {}
<1>1. Nothing \in Worlds
  BY NothingGood
<1>2. Crash(why) \in Worlds /\ Crash(why).fault = why /\ Crash(why).client = Nothing.client
  BY <1>1 DEF Crash, Worlds
<1>3. DOMAIN Nothing.client = {}
  BY DEF Nothing, NoObjects
<1> QED
  BY <1>2, <1>3

\* At the start every robot that was read waits for its server.
LEMMA InitGood ==
    ASSUME Init
    PROVE  Good(w, 0)
<1>1. PICK read \in Reads : w \in Shuffled(Load(Nothing, read))
  BY DEF Init
<1>2. read \in SUBSET Uids
  BY RobotsAssumption
<1> DEFINE x == Nothing
           y == Load(x, read)
<1>3. Good(y, 1)
  <2>1. 0 \in Nat /\ 0 + 1 = 1
    OBVIOUS
  <2>2. Good(y, 0 + 1)
    BY <1>2, <2>1, LoadGood, NothingGood
  <2> QED
    BY <2>1, <2>2
<1>4. /\ y.last = read /\ y.client = x.client
      /\ \A uid \in read : y.robots[uid] = Home[uid]
      /\ y.queues[0].dels = x.queues[0].dels
      /\ \A v \in 1..NumVids : /\ Once(y.queues[v].uids)
                               /\ \A e : In(e, y.queues[v].uids) <=> e \in NewRobots(x, read, v)
  BY <1>2, NothingGood, LoadIs
<1>5. DOMAIN x.client = {} /\ x.last = {} /\ x.queues[0].dels = <<>>
  BY Numbers DEF Nothing, NoObjects
<1> HIDE DEF x, y
<1>6. \A uid : ~Online(y, uid)
  BY <1>4, <1>5 DEF Online
<1>7. \A v \in 1..NumVids : \A i \in 1..Len(y.queues[v].uids) : Idle(y, y.queues[v].uids[i])
  <2> SUFFICES ASSUME NEW v \in 1..NumVids, NEW i \in 1..Len(y.queues[v].uids)
               PROVE  Idle(y, y.queues[v].uids[i])
    OBVIOUS
  <2>1. In(y.queues[v].uids[i], y.queues[v].uids)
    BY DEF In
  <2>2. y.queues[v].uids[i] \in read
    BY <1>4, <2>1 DEF NewRobots
  <2> QED
    BY <1>4, <1>6, <2>2 DEF Idle
<1>8. \A uid \in read : In(uid, y.queues[Home[uid]].uids)
  <2> SUFFICES ASSUME NEW uid \in read PROVE In(uid, y.queues[Home[uid]].uids)
    OBVIOUS
  <2>1. Home[uid] \in 1..NumVids
    BY <1>2, Numbers
  <2>2. uid \in NewRobots(x, read, Home[uid])
    BY <1>5 DEF NewRobots
  <2> QED
    BY <1>4, <2>1, <2>2
<1>9. Conserved(y)
  BY <1>4, <1>5, <1>7, <1>8 DEF Conserved
<1>10. Good(y, 0)
  BY <1>3, <1>9 DEF Good
<1> QED
  BY <1>1, <1>10, ShuffledGood DEF x, y

\* A reload keeps the tables good, one reload later: the clients stay, and kill queues only
\* lose descriptors.
LEMMA ReloadGood ==
    ASSUME NEW n \in Nat, Good(w, n), Reload
    PROVE  /\ Good(w', n + 1) /\ w'.client = w.client
           /\ \A v \in Vids : \A d : In(d, w'.queues[v].dels) => In(d, w.queues[v].dels)
<1>1. PICK read \in Reads : w' \in Shuffled(Load(w, read))
  BY DEF Reload
<1>2. read \in SUBSET Uids
  BY RobotsAssumption
<1> DEFINE y == Load(w, read)
<1>3. Good(y, n + 1) /\ n + 1 \in Nat
  BY <1>2, LoadGood
<1>4. /\ y.client = w.client /\ y.queues[0].dels = w.queues[0].dels
      /\ \A v \in 1..NumVids : y.queues[v].dels = <<>>
  BY <1>2, LoadIs DEF Good
<1>5. /\ Good(w', n + 1) /\ SameBut(y, w') /\ \A v \in Vids : w'.queues[v].dels = y.queues[v].dels
  BY <1>1, <1>3, ShuffledGood
<1> HIDE DEF y
<1>6. \A d : ~In(d, <<>>)
  BY DEF In
<1> QED
  BY <1>4, <1>5, <1>6, Numbers DEF SameBut

\* Nobody who plays is put into a kill queue: all steps are so but one of the server.
Spared(x, y) ==
    \A c \in DOMAIN x.client \cap DOMAIN y.client :
        x.client[c].playing /\ ~Doomed(x, c) => ~Doomed(y, c)
\* ... or only one whom the server has let go.
Finish(x, y) ==
    \A c \in DOMAIN x.client \cap DOMAIN y.client :
        x.client[c].playing /\ ~Doomed(x, c) /\ Doomed(y, c) => LetGo(y, c)
\* How a handler ends.
Crashes == {Crash("send"), Crash("connect"), Crash("redis"), Crash("wide")}
Outcome(x, y, n) == y \in Crashes \/ (Good(y, n) /\ Finish(x, y))

\* To spare is more than to let finish.
LEMMA SparedFinish ==
    ASSUME NEW x, NEW y, Spared(x, y)
    PROVE  Finish(x, y)
  BY DEF Spared, Finish

\* Robots that join, leave, or are cancelled by the signal leave those who play alone.
LEMMA SparedWhen ==
    ASSUME NEW x \in Worlds, NEW y
    PROVE  /\ Joined(x, y) => Spared(x, y)
           /\ Killed(x, y) => Spared(x, y)
           /\ Cancelled(x, y) => Spared(x, y)
<1>1. Joined(x, y) => Spared(x, y)
  BY DEF Joined, Spared, Doomed
<1>2. Killed(x, y) => Spared(x, y)
  <2>1. \A c \in DOMAIN x.client : x.client[c].fd \in Fds
    BY WorldFacts
  <2> QED
    BY <2>1 DEF Killed, Spared, Doomed
<1>3. Cancelled(x, y) => Spared(x, y)
  BY DEF Cancelled, Spared, Doomed
<1> QED
  BY <1>1, <1>2, <1>3

\* A change of one client's timers and of its connection spares everybody.
LEMMA WithSpared ==
    ASSUME NEW x, NEW n \in Nat, Good(x, n), NEW c \in DOMAIN x.client,
           NEW k, SameClient(k, x.client[c]),
           NEW r, SameConn(r, x.conn[x.client[c].conn]), InStep(k, r),
           NEW y, y = With(x, c, k, r)
    PROVE  /\ Good(y, n) /\ Spared(x, y) /\ y.queues = x.queues /\ y.client[c] = k
           /\ DOMAIN y.client = DOMAIN x.client
           /\ \A d \in DOMAIN x.client : y.client[d].fd = x.client[d].fd
<1>1. Good(y, n) /\ y.queues = x.queues /\ y.client = [x.client EXCEPT ![c] = k]
  BY SetBoth
<1>2. /\ y.client[c] = k /\ DOMAIN y.client = DOMAIN x.client
      /\ \A d \in DOMAIN x.client : d # c => y.client[d] = x.client[d]
  BY <1>1
<1>3. \A d \in DOMAIN x.client : y.client[d].fd = x.client[d].fd
  BY <1>2 DEF SameClient
<1>4. Spared(x, y)
  BY <1>1, <1>2, <1>3 DEF Spared, Doomed
<1> QED
  BY <1>1, <1>2, <1>3, <1>4

\* __disConnectLater for a client that does not play, or that was let go.
LEMMA LaterSpared ==
    ASSUME NEW x \in Worlds, NEW n \in Nat, NEW y, Good(y, n), NEW c \in DOMAIN y.client,
           y.queues = x.queues, DOMAIN y.client = DOMAIN x.client,
           \A d \in DOMAIN x.client : y.client[d].fd = x.client[d].fd
    PROVE  /\ Good(DisConnectLater(y, c), n)
           /\ ~x.client[c].playing => Spared(x, DisConnectLater(y, c))
           /\ LetGo(y, c) => Finish(x, DisConnectLater(y, c))
<1> DEFINE z == DisConnectLater(y, c)
<1>1. /\ Good(z, n) /\ z.client = y.client /\ z.conn = y.conn
      /\ \A v \in Vids, fd \in Fds :
            In(fd, z.queues[v].dels) => In(fd, y.queues[v].dels) \/ fd = y.client[c].fd
  BY DisConnectLaterGood
<1>2. \A d \in DOMAIN y.client : d # c => y.client[d].fd # y.client[c].fd
  BY Partners
<1>3. \A d \in DOMAIN x.client : x.client[d].fd \in Fds
  BY WorldFacts
<1> HIDE DEF z
<1>4. ASSUME NEW d \in DOMAIN x.client, d # c, ~Doomed(x, d) PROVE ~Doomed(z, d)
  <2>1. z.client[d].fd = x.client[d].fd /\ x.client[d].fd \in Fds /\ x.client[d].fd # y.client[c].fd
    BY <1>1, <1>2, <1>3, <1>4
  <2> QED
    BY <1>1, <1>4, <2>1 DEF Doomed
<1>5. ~x.client[c].playing => Spared(x, z)
  BY <1>1, <1>4 DEF Spared
<1>6. LetGo(y, c) => Finish(x, z)
  <2>1. LetGo(y, c) <=> LetGo(z, c)
    BY <1>1 DEF LetGo
  <2> QED
    BY <1>1, <1>4, <2>1 DEF Finish
<1> QED
  BY <1>1, <1>5, <1>6 DEF z

\* A change of one client as an EXCEPT of the world.
LEMMA ClientIs ==
    ASSUME NEW x \in Worlds, NEW c \in DOMAIN x.client, NEW k,
           x.client[c].conn \in DOMAIN x.conn
    PROVE  [x EXCEPT !.client = [x.client EXCEPT ![c] = k]]
           = With(x, c, k, x.conn[x.client[c].conn])
<1> DEFINE p == x.client[c].conn
           C == [x.client EXCEPT ![c] = k]
<1>1. x.conn \in [DOMAIN x.conn -> Conns]
  BY WorldFacts
<1>2. [x.conn EXCEPT ![p] = x.conn[p]] = x.conn
  BY <1>1
<1>3. With(x, c, k, x.conn[p]) = [x EXCEPT !.client = C, !.conn = x.conn]
  BY <1>2 DEF With
<1> HIDE DEF C, p
<1>4. [x EXCEPT !.client = C, !.conn = x.conn] = [x EXCEPT !.client = C]
  BY DEF Worlds
<1> QED
  BY <1>3, <1>4 DEF C, p

\* ... and one of a connection and its client.
Seats == {"out", "in", "ready", "playing"}
Answers == SUBSET Requests
Answered(s, A, seat) == [s EXCEPT !.req = @ \ A, !.seat = seat]
Told(x, p, A, seat) == [x EXCEPT !.conn[p].req = @ \ A, !.conn[p].seat = seat]
SetClient(x, c, k) == [x EXCEPT !.client = [x.client EXCEPT ![c] = k]]
\* A packet changes one client and its connection.
LEMMA PacketIs ==
    ASSUME NEW x \in Worlds, NEW p \in DOMAIN x.conn, NEW c \in DOMAIN x.client,
           x.client[c].conn = p, NEW A, NEW seat
    PROVE  LET r == Answered(x.conn[p], A, seat)
               y == Told(x, p, A, seat)
           IN /\ y = With(x, c, x.client[c], r)
              /\ \A k : SetClient(y, c, k) = With(x, c, k, r)
<1> DEFINE r == [x.conn[p] EXCEPT !.req = @ \ A, !.seat = seat]
           y == [x EXCEPT !.conn[p].req = @ \ A, !.conn[p].seat = seat]
           N == [x.conn EXCEPT ![p] = r]
<1>1. x.conn \in [DOMAIN x.conn -> Conns] /\ x.client \in [DOMAIN x.client -> Clients]
  BY WorldFacts
<1>2. y = [x EXCEPT !.conn = N]
  BY <1>1 DEF Conns
<1> HIDE DEF y, r
<1>3. ASSUME NEW k PROVE [y EXCEPT !.client = [x.client EXCEPT ![c] = k]] = With(x, c, k, r)
  <2> DEFINE C == [x.client EXCEPT ![c] = k]
  <2>1. With(x, c, k, r) = [x EXCEPT !.client = C, !.conn = N]
    BY DEF With
  <2> HIDE DEF C, N
  <2>2. [y EXCEPT !.client = C] = [x EXCEPT !.client = C, !.conn = N]
    BY <1>2 DEF Worlds
  <2> QED
    BY <2>1, <2>2 DEF C
<1>4. y.client = x.client
  BY <1>2 DEF Worlds
<1>5. y = With(x, c, x.client[c], r)
  <2>1. [x.client EXCEPT ![c] = x.client[c]] = x.client
    BY <1>1
  <2>2. With(x, c, x.client[c], r) = [x EXCEPT !.client = x.client, !.conn = N]
    BY <2>1 DEF With
  <2> HIDE DEF N
  <2>3. [x EXCEPT !.client = x.client, !.conn = N] = [x EXCEPT !.conn = N]
    BY DEF Worlds
  <2> QED
    BY <1>2, <2>2, <2>3
<1> QED
  BY <1>3, <1>4, <1>5 DEF y, r, Answered, Told, SetClient

\* A client with other timers, or playing or not, on the same connection.
Timers(k, l) == SameClient(k, l) /\ (k.login => l.login)
\* Timers that end, or a round that ends, keep the tables good.
LEMMA OneClient ==
    ASSUME NEW x, NEW n \in Nat, Good(x, n), NEW c \in DOMAIN x.client,
           NEW k, Timers(k, x.client[c]), k.playing => x.client[c].playing,
           NEW y, y = [x EXCEPT !.client = [x.client EXCEPT ![c] = k]]
    PROVE  /\ Good(y, n) /\ Spared(x, y) /\ y.queues = x.queues /\ y.client[c] = k
           /\ DOMAIN y.client = DOMAIN x.client /\ y.conn = x.conn /\ y.conMap = x.conMap
           /\ \A d \in DOMAIN x.client : y.client[d].fd = x.client[d].fd
<1> DEFINE r == x.conn[x.client[c].conn]
<1>1. x \in Worlds /\ x.client[c].conn \in DOMAIN x.conn /\ Playing(x)
  BY Partners DEF Good
<1>2. y = With(x, c, k, r)
  BY <1>1, ClientIs
<1>3. r \in Conns /\ InStep(x.client[c], r)
  BY <1>1, WorldFacts DEF Playing
<1>4. SameConn(r, r) /\ SameClient(k, x.client[c])
  BY <1>3 DEF SameConn, Timers
<1>5. InStep(k, r)
  BY <1>3 DEF InStep, Timers
<1>6. y.conn = x.conn /\ y.conMap = x.conMap
  <2> DEFINE C == [x.client EXCEPT ![c] = k]
  <2>1. y = [x EXCEPT !.client = C]
    OBVIOUS
  <2> HIDE DEF C
  <2> QED
    BY <1>1, <2>1 DEF Worlds
<1> QED
  BY <1>2, <1>4, <1>5, <1>6, WithSpared

\* sendData spares everybody, too.
LEMMA SendSpared ==
    ASSUME NEW x, NEW y, NEW n \in Nat, Good(y, n), Spared(x, y), NEW c \in DOMAIN y.client,
           NEW request \in Requests,
           request = "login" => /\ ~y.client[c].login /\ ~y.client[c].playing
                                /\ y.conn[y.client[c].conn].seat = "out"
    PROVE  LET z == SendData(y, c, request) IN Good(z, n) /\ Spared(x, z)
<1> DEFINE z == SendData(y, c, request)
<1>1. Good(z, n) /\ z.queues = y.queues /\ z.client = y.client
  BY SendDataGood
<1> HIDE DEF z
<1>2. Spared(x, z)
  BY <1>1 DEF Spared, Doomed
<1> QED
  BY <1>1, <1>2 DEF z

\* Client::__doReady and Client::__doLogout.
LEMMA TimerReadyGood ==
    ASSUME NEW n \in Nat, Good(w, n), NEW c \in DOMAIN w.client, TimerReady(c)
    PROVE  Outcome(w, w', n)
<1> DEFINE k == [w.client[c] EXCEPT !.ready = FALSE]
           y == [w EXCEPT !.client = [w.client EXCEPT ![c] = k]]
<1>1. w \in Worlds /\ w.client[c] \in Clients
  BY WorldFacts DEF Good
<1>2. w' = SendData(y, c, "ready")
  BY DEF TimerReady
<1>3. Timers(k, w.client[c]) /\ k.playing = w.client[c].playing
  BY <1>1 DEF Timers, SameClient, Clients
<1> HIDE DEF k
<1>4. Good(y, n) /\ Spared(w, y) /\ DOMAIN y.client = DOMAIN w.client
  BY <1>3, OneClient
<1>5. "ready" \in Requests /\ "ready" # "login"
  BY DEF Requests
<1> HIDE DEF y
<1>6. Good(w', n) /\ Spared(w, w')
  BY <1>2, <1>4, <1>5, SendSpared
<1> QED
  BY <1>6, SparedFinish DEF Outcome

\* Client::__doLogout.
LEMMA TimerLogoutGood ==
    ASSUME NEW n \in Nat, Good(w, n), NEW c \in DOMAIN w.client, TimerLogout(c)
    PROVE  Outcome(w, w', n)
<1> DEFINE k == [w.client[c] EXCEPT !.logout = FALSE]
           y == [w EXCEPT !.client = [w.client EXCEPT ![c] = k]]
<1>1. w \in Worlds /\ w.client[c] \in Clients
  BY WorldFacts DEF Good
<1>2. w' = SendData(y, c, "logout")
  BY DEF TimerLogout
<1>3. Timers(k, w.client[c]) /\ k.playing = w.client[c].playing
  BY <1>1 DEF Timers, SameClient, Clients
<1> HIDE DEF k
<1>4. Good(y, n) /\ Spared(w, y) /\ DOMAIN y.client = DOMAIN w.client
  BY <1>3, OneClient
<1>5. "logout" \in Requests /\ "logout" # "login"
  BY DEF Requests
<1> HIDE DEF y
<1>6. Good(w', n) /\ Spared(w, w')
  BY <1>2, <1>4, <1>5, SendSpared
<1> QED
  BY <1>6, SparedFinish DEF Outcome

\* An entry of conMap.
LEMMA SetConMap ==
    ASSUME NEW x, NEW n \in Nat, Good(x, n), NEW p \in DOMAIN x.conn
    PROVE  LET y == [x EXCEPT !.conMap[x.conn[p].fd] = p]
           IN Good(y, n) /\ y.queues = x.queues /\ y.client = x.client /\ y.conn = x.conn
<1> DEFINE fd == x.conn[p].fd
           y == [x EXCEPT !.conMap[fd] = p]
<1>1. /\ x \in Worlds /\ x.fault = "none" /\ Linked(x)
      /\ n = 0 => Conserved(x)
      /\ n <= 1 => Kills(x)
  BY DEF Good
<1>2. fd \in Fds /\ p \in Objs /\ x.conMap \in [Fds -> Objs \cup {None, Null}]
  BY <1>1, WorldFacts
<1> HIDE DEF fd
<1>3. /\ y \in Worlds /\ y.fault = x.fault /\ y.robots = x.robots /\ y.last = x.last
      /\ y.cmap = x.cmap /\ y.queues = x.queues /\ y.client = x.client /\ y.conn = x.conn
      /\ y.conMap = [x.conMap EXCEPT ![fd] = p]
  BY <1>1, <1>2 DEF Worlds
<1> HIDE DEF y
<1>4. y.conMap[fd] = p /\ \A g \in Fds : g # fd => y.conMap[g] = x.conMap[g]
  BY <1>2, <1>3
<1>5. Linked(y)
  <2>1. ASSUME NEW g \in Fds, y.conMap[g] \in Objs
        PROVE  y.conMap[g] \in DOMAIN y.conn /\ y.conn[y.conMap[g]].fd = g
    <3>1. CASE g = fd
      BY <1>3, <1>4, <3>1 DEF fd
    <3>2. CASE g # fd
      BY <1>1, <1>3, <1>4, <2>1, <3>2 DEF Linked
    <3> QED
      BY <3>1, <3>2
  <2> QED
    BY <1>1, <1>3, <2>1 DEF Linked
<1>6. /\ n = 0 => y.queues[0].dels = <<>>
      /\ n <= 1 => Kills(y)
  <2>1. \A v, d : Meant(y, v, d) <=> Meant(x, v, d)
    BY <1>3 DEF Meant, Owner
  <2> QED
    BY <1>1, <1>3, <2>1 DEF Conserved, Kills
<1>7. Good(y, n)
  BY <1>1, <1>3, <1>5, <1>6, DelsTouched
<1> QED
  BY <1>3, <1>7 DEF y, fd

\* Client::__doLogin.
LEMMA TimerLoginGood ==
    ASSUME NEW n \in Nat, Good(w, n), NEW c \in DOMAIN w.client, TimerLogin(c)
    PROVE  Outcome(w, w', n)
<1> DEFINE k == [w.client[c] EXCEPT !.login = FALSE]
           y == [w EXCEPT !.client = [w.client EXCEPT ![c] = k]]
           fd == w.client[c].fd
           p == w.client[c].conn
           uid == w.client[c].uid
<1>1. /\ w \in Worlds /\ w.client[c] \in Clients /\ Playing(w) /\ uid \in Uids
      /\ p \in DOMAIN w.conn /\ w.conn[p].fd = fd
  <2>1. w \in Worlds /\ Playing(w)
    BY DEF Good
  <2> QED
    BY <2>1, Partners, WorldFacts
<1>2. w' \in IF w.conMap[fd] = None
             THEN {DisConnectLater([y EXCEPT !.conMap[fd] = p], c)}
             ELSE {SendData(Known(y, uid), c, "login")} \cup
                  (IF CanFail(w, c) THEN {Crash("send")} ELSE {})
  BY DEF TimerLogin, DoLogin
<1>3. Timers(k, w.client[c]) /\ k.playing = w.client[c].playing /\ ~k.login /\ k.conn = p
      /\ k.uid = uid
  BY <1>1 DEF Timers, SameClient, Clients
<1>4. w.conn[p].seat = "out" /\ ~w.client[c].playing
  <2>1. InStep(w.client[c], w.conn[p]) /\ w.client[c].login
    BY <1>1 DEF Playing, TimerLogin
  <2> QED
    BY <2>1 DEF InStep
<1> HIDE DEF k
<1>5. /\ Good(y, n) /\ Spared(w, y) /\ DOMAIN y.client = DOMAIN w.client /\ y.client[c] = k
      /\ y.queues = w.queues /\ y.conn = w.conn
      /\ \A d \in DOMAIN w.client : y.client[d].fd = w.client[d].fd
  BY <1>3, OneClient
<1> HIDE DEF y, fd, p, uid
<1>6. CASE w.conMap[fd] = None
  <2> DEFINE z == [y EXCEPT !.conMap[fd] = p]
  <2>1. Good(z, n) /\ z.queues = y.queues /\ z.client = y.client
    <3>1. y.conn[p].fd = fd /\ p \in DOMAIN y.conn
      BY <1>1, <1>5
    <3> HIDE DEF z
    <3>2. z = [y EXCEPT !.conMap[y.conn[p].fd] = p]
      BY <3>1 DEF z
    <3> QED
      BY <1>5, <3>1, <3>2, SetConMap
  <2>2. w' = DisConnectLater(z, c)
    BY <1>2, <1>6
  <2> HIDE DEF z
  <2>3. /\ c \in DOMAIN z.client /\ z.queues = w.queues /\ DOMAIN z.client = DOMAIN w.client
        /\ \A d \in DOMAIN w.client : z.client[d].fd = w.client[d].fd
    BY <1>5, <2>1
  <2>4. Good(w', n) /\ Spared(w, w')
    BY <1>1, <1>4, <2>1, <2>2, <2>3, LaterSpared
  <2> QED
    BY <2>4, SparedFinish DEF Outcome
<1>7. CASE w.conMap[fd] # None
  <2> DEFINE z == Known(y, uid)
  <2>1. Good(z, n) /\ z.queues = y.queues /\ z.client = y.client /\ z.conn = y.conn
    BY <1>1, <1>5, KnownGood
  <2>2. w' = SendData(z, c, "login") \/ w' = Crash("send")
    BY <1>2, <1>7
  <2> HIDE DEF z
  <2>3. Spared(w, z)
    BY <1>5, <2>1 DEF Spared, Doomed
  <2>4. /\ c \in DOMAIN z.client /\ "login" \in Requests
        /\ ~z.client[c].login /\ ~z.client[c].playing /\ z.conn[z.client[c].conn].seat = "out"
    BY <1>3, <1>4, <1>5, <2>1 DEF Requests
  <2>5. Good(SendData(z, c, "login"), n) /\ Spared(w, SendData(z, c, "login"))
    BY <2>1, <2>3, <2>4, SendSpared
  <2> QED
    BY <2>2, <2>5, SparedFinish DEF Outcome, Crashes
<1> QED
  BY <1>6, <1>7

\* LinkEV::onConnected finds the client.
LEMMA ConnectedGood ==
    ASSUME NEW n \in Nat, Good(w, n), NEW p \in DOMAIN w.conn, Connected(p)
    PROVE  Outcome(w, w', n)
<1> DEFINE fd == w.conn[p].fd
           c == w.cmap[fd]
           r == [w.conn[p] EXCEPT !.open = TRUE]
           N == [w.conn EXCEPT ![p] = r]
           y == [w EXCEPT !.conn = N]
<1>1. /\ w \in Worlds /\ Playing(w) /\ c # None /\ c \in DOMAIN w.client /\ w.client[c].conn = p
      /\ w.conn[p] \in Conns /\ w.client[c] \in Clients
      /\ w.client \in [DOMAIN w.client -> Clients] /\ w.conn \in [DOMAIN w.conn -> Conns]
  <2>1. w \in Worlds /\ Playing(w)
    BY DEF Good
  <2>2. c # None /\ c \in DOMAIN w.client /\ w.client[c].conn = p
    BY Partners
  <2> QED
    BY <2>1, <2>2, WorldFacts
<1>2. w' = [w EXCEPT !.conn[p].open = TRUE, !.conMap[fd] = p]
  BY <1>1 DEF Connected
<1>3. w' = [y EXCEPT !.conMap[fd] = p]
  BY <1>1, <1>2
<1>4. /\ SameConn(r, w.conn[p]) /\ SameClient(w.client[c], w.client[c])
      /\ InStep(w.client[c], r)
  <2>1. InStep(w.client[c], w.conn[p])
    BY <1>1 DEF Playing
  <2>2. SameConn(r, w.conn[p]) /\ r.seat = w.conn[p].seat /\ r.req = w.conn[p].req
    BY <1>1 DEF SameConn, Conns
  <2> HIDE DEF r
  <2> QED
    BY <1>1, <2>1, <2>2 DEF SameClient, InStep
<1>5. DOMAIN N = DOMAIN w.conn /\ N[p].fd = fd
  BY <1>1, <1>4 DEF SameConn
<1> HIDE DEF r, c, fd
<1>6. y = With(w, c, w.client[c], r)
  <2>1. [w.client EXCEPT ![c] = w.client[c]] = w.client
    BY <1>1
  <2>2. With(w, c, w.client[c], r) = [w EXCEPT !.client = w.client, !.conn = N]
    BY <1>1, <2>1 DEF With
  <2> HIDE DEF N
  <2>3. [w EXCEPT !.client = w.client, !.conn = N] = [w EXCEPT !.conn = N]
    BY <1>1 DEF Worlds
  <2> QED
    BY <2>2, <2>3
<1> HIDE DEF N
<1>7. y.conn = N
  BY <1>1 DEF Worlds
<1> HIDE DEF y
<1>8. Good(y, n) /\ Spared(w, y)
  BY <1>1, <1>4, <1>6, WithSpared
<1>9. Good(w', n) /\ w'.queues = y.queues /\ w'.client = y.client
  <2>1. y.conn[p].fd = fd /\ p \in DOMAIN y.conn
    BY <1>5, <1>7
  <2>2. w' = [y EXCEPT !.conMap[y.conn[p].fd] = p]
    BY <1>3, <2>1
  <2> QED
    BY <1>8, <2>1, <2>2, SetConMap
<1>10. Spared(w, w')
  BY <1>8, <1>9 DEF Spared, Doomed
<1> QED
  BY <1>9, <1>10, SparedFinish DEF Outcome

\* A connection ends, and its client with it.
LEMMA ConnLostGood ==
    ASSUME NEW n \in Nat, Good(w, n), NEW p \in DOMAIN w.conn, ConnLost(p)
    PROVE  Outcome(w, w', n)
<1>1. w' = DeleteConn(w, p)
  BY DEF ConnLost
<1>2. Good(w', n) /\ Killed(w, w')
  BY <1>1, DeleteConnGood DEF Killed
<1>3. w \in Worlds
  BY DEF Good
<1>4. Spared(w, w')
  BY <1>2, <1>3, SparedWhen
<1> QED
  BY <1>2, <1>4, SparedFinish DEF Outcome

-----------------------------------------------------------------------------
\* The client and the connection of a packet, before and after.
ClientOf(x, p, c) == c = x.cmap[x.conn[p].fd]
\* The client is there, and the reply is about its connection.
LEMMA PacketFacts ==
    ASSUME NEW n \in Nat, Good(w, n), NEW p \in DOMAIN w.conn, NEW A \in Answers,
           NEW seat \in Seats,
           NEW c, ClientOf(w, p, c)
    PROVE  /\ w \in Worlds /\ c # None /\ c \in DOMAIN w.client /\ w.client[c].conn = p
           /\ w.client[c] \in Clients /\ InStep(w.client[c], w.conn[p])
           /\ SameConn(Answered(w.conn[p], A, seat), w.conn[w.client[c].conn])
           /\ Answered(w.conn[p], A, seat).seat = seat
           /\ Answered(w.conn[p], A, seat).req = w.conn[p].req \ A
<1>1. w \in Worlds /\ Playing(w)
  BY DEF Good
<1>2. c # None /\ c \in DOMAIN w.client /\ w.client[c].conn = p
  BY Partners DEF ClientOf
<1>3. w.conn[p] \in Conns /\ w.client[c] \in Clients
  BY <1>1, <1>2, WorldFacts
<1>4. InStep(w.client[c], w.conn[p])
  BY <1>1, <1>2 DEF Playing
<1>5. /\ SameConn(Answered(w.conn[p], A, seat), w.conn[p])
      /\ Answered(w.conn[p], A, seat).seat = seat
      /\ Answered(w.conn[p], A, seat).req = w.conn[p].req \ A
  BY <1>3 DEF SameConn, Answered, Answers, Seats, Conns
<1> QED
  BY <1>1, <1>2, <1>3, <1>4, <1>5

\* A handler that changes the client to k.
LEMMA HandlerGood ==
    ASSUME NEW n \in Nat, Good(w, n), NEW p \in DOMAIN w.conn, NEW A \in Answers,
           NEW seat \in Seats,
           NEW c, ClientOf(w, p, c), NEW k, SameClient(k, w.client[c]),
           InStep(k, Answered(w.conn[p], A, seat)),
           NEW y, y = SetClient(Told(w, p, A, seat), c, k)
    PROVE  Outcome(w, y, n)
<1> DEFINE r == Answered(w.conn[p], A, seat)
<1>1. /\ w \in Worlds /\ c # None /\ c \in DOMAIN w.client /\ w.client[c].conn = p
      /\ SameConn(r, w.conn[w.client[c].conn])
  BY PacketFacts
<1>2. y = With(w, c, k, r)
  BY <1>1, PacketIs
<1> HIDE DEF r
<1>3. InStep(k, r)
  BY DEF r
<1>4. Good(y, n) /\ Spared(w, y)
  BY <1>1, <1>2, <1>3, WithSpared
<1> QED
  BY <1>4, SparedFinish DEF Outcome

\* A handler that leaves the client, or disconnects it later.
LEMMA LaterGood ==
    ASSUME NEW n \in Nat, Good(w, n), NEW p \in DOMAIN w.conn, NEW A \in Answers,
           NEW seat \in Seats, NEW c, ClientOf(w, p, c),
           InStep(w.client[c], Answered(w.conn[p], A, seat)),
           NEW x, x = Told(w, p, A, seat)
    PROVE  /\ Outcome(w, x, n)
           /\ ~w.client[c].playing \/ seat = "out" => Outcome(w, DisConnectLater(x, c), n)
<1> DEFINE r == Answered(w.conn[p], A, seat)
           k == w.client[c]
<1>1. /\ w \in Worlds /\ c # None /\ c \in DOMAIN w.client /\ w.client[c].conn = p
      /\ k \in Clients /\ SameConn(r, w.conn[w.client[c].conn]) /\ r.seat = seat
  BY PacketFacts
<1>2. x = With(w, c, k, r)
  BY <1>1, PacketIs
<1> HIDE DEF r
<1>3. InStep(k, r) /\ SameClient(k, w.client[c])
  BY <1>1 DEF r, SameClient
<1>4. /\ Good(x, n) /\ Spared(w, x) /\ x.queues = w.queues
      /\ DOMAIN x.client = DOMAIN w.client
      /\ \A d \in DOMAIN w.client : x.client[d].fd = w.client[d].fd
  BY <1>1, <1>2, <1>3, WithSpared
<1>5. seat = "out" => LetGo(x, c)
  <2>1. x.conn = [w.conn EXCEPT ![p] = r] /\ x.client = [w.client EXCEPT ![c] = k]
    BY <1>1, <1>2 DEF With, Worlds
  <2>2. w.conn \in [DOMAIN w.conn -> Conns] /\ w.client \in [DOMAIN w.client -> Clients]
    BY <1>1, WorldFacts
  <2>3. x.conn[p] = r /\ x.client[c].conn = p
    BY <1>1, <2>1, <2>2
  <2> QED
    BY <1>1, <2>3 DEF LetGo
<1>6. /\ Good(DisConnectLater(x, c), n)
      /\ ~w.client[c].playing \/ seat = "out" => Finish(w, DisConnectLater(x, c))
  BY <1>1, <1>4, <1>5, LaterSpared, SparedFinish
<1> QED
  BY <1>4, <1>6, SparedFinish DEF Outcome

\* A packet that answers no request.
NoAnswer == {}

\* What the server says changes no client by itself.
LEMMA ToldClient ==
    ASSUME NEW x \in Worlds, NEW p, NEW A, NEW seat
    PROVE  Told(x, p, A, seat).client = x.client
  BY DEF Told, Worlds

\* cbEnterRoom and cbEnterRoomFail.
LEMMA EnterRoomGood ==
    ASSUME NEW n \in Nat, Good(w, n), NEW p \in DOMAIN w.conn, EnterRoom(p)
    PROVE  Outcome(w, w', n)
<1> DEFINE c == w.cmap[w.conn[p].fd]
           A == {"login"}
           x(seat) == Told(w, p, A, seat)
           y == Told(w, p, A, "out")
           k == [w.client[c] EXCEPT !.ready = TRUE]
<1>1. /\ ClientOf(w, p, c) /\ A \in Answers
      /\ "in" \in Seats /\ "playing" \in Seats /\ "out" \in Seats
  BY DEF ClientOf, Answers, Requests, Seats
<1> HIDE DEF c
<1>2. /\ w \in Worlds /\ c # None /\ w.client[c] \in Clients /\ InStep(w.client[c], w.conn[p])
      /\ \A seat \in Seats : /\ Answered(w.conn[p], A, seat).seat = seat
                             /\ Answered(w.conn[p], A, seat).req = w.conn[p].req \ A
  BY <1>1, PacketFacts
<1>3. \A seat : x(seat).client = w.client
  BY <1>2, ToldClient
<1>4. \/ \E seat \in {"in", "playing"} :
             w' \in {[x(seat) EXCEPT !.client[c].ready = TRUE], Crash("send")}
      \/ w' \in {y, DisConnectLater(y, c)}
  BY <1>2 DEF EnterRoom, TableInfo, Packet, findClientByfd, Told, c
<1>5. "login" \in w.conn[p].req
  BY DEF EnterRoom
<1>6. ~w.client[c].playing /\ ~w.client[c].login
  BY <1>2, <1>5 DEF InStep
<1> HIDE DEF x, y
<1>7. ASSUME NEW seat \in {"in", "playing"}, w' = [x(seat) EXCEPT !.client[c].ready = TRUE]
      PROVE  Outcome(w, w', n)
  <2>1. w' = SetClient(x(seat), c, k)
    BY <1>3, <1>7 DEF SetClient
  <2>2. SameClient(k, w.client[c]) /\ k.playing = w.client[c].playing /\ k.login = w.client[c].login
    BY <1>2 DEF SameClient, Clients
  <2> HIDE DEF k
  <2>3. seat \in Seats
    BY <1>1, <1>7
  <2>4. InStep(k, Answered(w.conn[p], A, seat))
    BY <1>2, <1>6, <2>2, <2>3 DEF InStep
  <2> HIDE DEF A
  <2> QED
    BY <1>1, <2>1, <2>2, <2>3, <2>4, HandlerGood DEF x
<1>8. InStep(w.client[c], Answered(w.conn[p], A, "out"))
  BY <1>1, <1>2, <1>6 DEF InStep
<1> HIDE DEF A
<1>9. Outcome(w, y, n) /\ Outcome(w, DisConnectLater(y, c), n)
  BY <1>1, <1>6, <1>8, LaterGood DEF y
<1>10. CASE w' = Crash("send")
  BY <1>10 DEF Outcome, Crashes
<1> QED
  BY <1>4, <1>7, <1>9, <1>10

\* cbEnterRoom for another player.
LEMMA OtherEntersGood ==
    ASSUME NEW n \in Nat, Good(w, n), NEW p \in DOMAIN w.conn, OtherEnters(p)
    PROVE  Outcome(w, w', n)
<1> DEFINE c == w.cmap[w.conn[p].fd]
           seat == w.conn[p].seat
           x == Told(w, p, NoAnswer, seat)
           k == [w.client[c] EXCEPT !.ready = TRUE]
<1>0. w \in Worlds
  BY DEF Good
<1>1. ClientOf(w, p, c) /\ NoAnswer \in Answers /\ seat \in Seats
  <2>1. w.conn[p] \in Conns
    BY <1>0, WorldFacts
  <2> QED
    BY <2>1 DEF ClientOf, NoAnswer, Answers, Seats, Conns
<1> HIDE DEF c, seat
<1>2. /\ c # None /\ w.client[c] \in Clients /\ InStep(w.client[c], w.conn[p])
      /\ Answered(w.conn[p], NoAnswer, seat).seat = seat
      /\ Answered(w.conn[p], NoAnswer, seat).req = w.conn[p].req \ NoAnswer
  BY <1>1, PacketFacts
<1>3. x.client = w.client
  BY <1>0, ToldClient
<1>4. w' \in {[x EXCEPT !.client[c].ready = TRUE], Crash("send")}
  BY <1>2 DEF OtherEnters, Packet, findClientByfd, Told, NoAnswer, c, seat
<1> HIDE DEF x
<1>5. CASE w' = [x EXCEPT !.client[c].ready = TRUE]
  <2>1. w' = SetClient(x, c, k)
    BY <1>3, <1>5 DEF SetClient
  <2>2. SameClient(k, w.client[c]) /\ k.playing = w.client[c].playing /\ k.login = w.client[c].login
    BY <1>2 DEF SameClient, Clients
  <2> HIDE DEF k
  <2>3. InStep(k, Answered(w.conn[p], NoAnswer, seat))
    BY <1>2, <2>2 DEF InStep, NoAnswer, seat
  <2> QED
    BY <1>1, <2>1, <2>2, <2>3, HandlerGood DEF x
<1>6. CASE w' = Crash("send")
  BY <1>6 DEF Outcome, Crashes
<1> QED
  BY <1>4, <1>5, <1>6

\* cbReady, cbReadyFail and cbChangeTableFail.
LEMMA ReadyReplyGood ==
    ASSUME NEW n \in Nat, Good(w, n), NEW p \in DOMAIN w.conn, ReadyReply(p)
    PROVE  Outcome(w, w', n)
<1> DEFINE c == w.cmap[w.conn[p].fd]
           A == {"ready"}
           k == [w.client[c] EXCEPT !.logout = TRUE]
<1>0. w \in Worlds /\ w.conn[p] \in Conns
  BY WorldFacts DEF Good
<1>1. c # None
  BY Partners
<1>2. PICK seat \in IF w.conn[p].seat = "in" THEN {"in", "ready"} ELSE {w.conn[p].seat} :
         w' \in {[Told(w, p, A, seat) EXCEPT !.client[c].logout = TRUE]}
  BY <1>1 DEF ReadyReply, Packet, findClientByfd, Told
<1> DEFINE x == Told(w, p, A, seat)
<1>3. ClientOf(w, p, c) /\ A \in Answers /\ seat \in Seats
  BY <1>0, <1>2 DEF ClientOf, Answers, Requests, Seats, Conns
<1> HIDE DEF c
<1>4. /\ w.client[c] \in Clients /\ InStep(w.client[c], w.conn[p])
      /\ Answered(w.conn[p], A, seat).seat = seat
      /\ Answered(w.conn[p], A, seat).req = w.conn[p].req \ A
  BY <1>3, PacketFacts
<1>5. x.client = w.client
  BY <1>0, ToldClient
<1>6. w' = [x EXCEPT !.client[c].logout = TRUE]
  BY <1>2
<1> HIDE DEF x
<1>7. w' = SetClient(x, c, k)
  BY <1>5, <1>6 DEF SetClient
<1>8. SameClient(k, w.client[c]) /\ k.playing = w.client[c].playing /\ k.login = w.client[c].login
  BY <1>4 DEF SameClient, Clients
<1> HIDE DEF k
<1>9. InStep(k, Answered(w.conn[p], A, seat))
  <2>1. seat = w.conn[p].seat \/ w.conn[p].seat = "in"
    BY <1>2
  <2> QED
    BY <1>4, <1>8, <2>1 DEF InStep
<1> HIDE DEF A
<1> QED
  BY <1>3, <1>7, <1>8, <1>9, HandlerGood DEF x

\* cbInitHandCards.
LEMMA InitHandCardsGood ==
    ASSUME NEW n \in Nat, Good(w, n), NEW p \in DOMAIN w.conn, InitHandCards(p)
    PROVE  Outcome(w, w', n)
<1> DEFINE c == w.cmap[w.conn[p].fd]
           x == Told(w, p, NoAnswer, "playing")
           k == [w.client[c] EXCEPT !.playing = TRUE, !.logout = FALSE]
<1>0. w \in Worlds
  BY DEF Good
<1>1. ClientOf(w, p, c) /\ NoAnswer \in Answers /\ "playing" \in Seats
  BY DEF ClientOf, NoAnswer, Answers, Seats
<1> HIDE DEF c
<1>2. /\ c # None /\ c \in DOMAIN w.client /\ w.client[c] \in Clients
      /\ InStep(w.client[c], w.conn[p])
      /\ Answered(w.conn[p], NoAnswer, "playing").seat = "playing"
      /\ Answered(w.conn[p], NoAnswer, "playing").req = w.conn[p].req \ NoAnswer
  BY <1>1, PacketFacts
<1>10. w.client \in [DOMAIN w.client -> Clients]
  BY <1>0, WorldFacts
<1>3. x.client = w.client
  BY <1>0, ToldClient
<1>4. w' = [x EXCEPT !.client[c].playing = TRUE, !.client[c].logout = FALSE]
  BY <1>2 DEF InitHandCards, Packet, findClientByfd, Told, NoAnswer, c
<1>5. w.conn[p].seat = "ready"
  BY DEF InitHandCards
<1> HIDE DEF x
<1>6. w' = SetClient(x, c, k)
  BY <1>2, <1>3, <1>4, <1>10 DEF SetClient, Clients
<1>7. SameClient(k, w.client[c]) /\ k.playing /\ k.login = w.client[c].login
  BY <1>2 DEF SameClient, Clients
<1> HIDE DEF k
<1>8. InStep(k, Answered(w.conn[p], NoAnswer, "playing"))
  BY <1>2, <1>5, <1>7 DEF InStep, NoAnswer
<1> QED
  BY <1>1, <1>6, <1>7, <1>8, HandlerGood DEF x

\* cbNextRound.
LEMMA NextRoundGood ==
    ASSUME NEW n \in Nat, Good(w, n), NEW p \in DOMAIN w.conn, NextRound(p)
    PROVE  Outcome(w, w', n)
<1> DEFINE c == w.cmap[w.conn[p].fd]
           x == Told(w, p, NoAnswer, "in")
           k == [w.client[c] EXCEPT !.playing = FALSE, !.logout = TRUE]
           l == [w.client[c] EXCEPT !.playing = FALSE, !.ready = TRUE]
<1>0. w \in Worlds
  BY DEF Good
<1>1. ClientOf(w, p, c) /\ NoAnswer \in Answers /\ "in" \in Seats
  BY DEF ClientOf, NoAnswer, Answers, Seats
<1> HIDE DEF c
<1>2. /\ c # None /\ c \in DOMAIN w.client /\ w.client[c] \in Clients
      /\ InStep(w.client[c], w.conn[p])
      /\ Answered(w.conn[p], NoAnswer, "in").seat = "in"
      /\ Answered(w.conn[p], NoAnswer, "in").req = w.conn[p].req \ NoAnswer
  BY <1>1, PacketFacts
<1>10. w.client \in [DOMAIN w.client -> Clients]
  BY <1>0, WorldFacts
<1>3. x.client = w.client
  BY <1>0, ToldClient
<1>4. w' \in {[x EXCEPT !.client[c].playing = FALSE, !.client[c].logout = TRUE],
              [x EXCEPT !.client[c].playing = FALSE, !.client[c].ready = TRUE]}
  BY <1>2 DEF NextRound, Packet, findClientByfd, Told, NoAnswer, AfterRound, c
<1>5. w.conn[p].seat = "playing"
  BY DEF NextRound
<1> HIDE DEF x
<1>6. CASE w' = [x EXCEPT !.client[c].playing = FALSE, !.client[c].logout = TRUE]
  <2>1. w' = SetClient(x, c, k)
    BY <1>2, <1>3, <1>6, <1>10 DEF SetClient, Clients
  <2>2. SameClient(k, w.client[c]) /\ ~k.playing /\ k.login = w.client[c].login
    BY <1>2 DEF SameClient, Clients
  <2> HIDE DEF k
  <2>3. InStep(k, Answered(w.conn[p], NoAnswer, "in"))
    BY <1>2, <1>5, <2>2 DEF InStep, NoAnswer
  <2> QED
    BY <1>1, <2>1, <2>2, <2>3, HandlerGood DEF x
<1>7. CASE w' = [x EXCEPT !.client[c].playing = FALSE, !.client[c].ready = TRUE]
  <2>1. w' = SetClient(x, c, l)
    BY <1>2, <1>3, <1>7, <1>10 DEF SetClient, Clients
  <2>2. SameClient(l, w.client[c]) /\ ~l.playing /\ l.login = w.client[c].login
    BY <1>2 DEF SameClient, Clients
  <2> HIDE DEF l
  <2>3. InStep(l, Answered(w.conn[p], NoAnswer, "in"))
    BY <1>2, <1>5, <2>2 DEF InStep, NoAnswer
  <2> QED
    BY <1>1, <2>1, <2>2, <2>3, HandlerGood DEF x
<1> QED
  BY <1>4, <1>6, <1>7

\* cbLogoutOK.
LEMMA LogoutReplyGood ==
    ASSUME NEW n \in Nat, Good(w, n), NEW p \in DOMAIN w.conn, LogoutReply(p)
    PROVE  Outcome(w, w', n)
<1> DEFINE c == w.cmap[w.conn[p].fd]
           A == {"logout"}
<1>1. ClientOf(w, p, c) /\ A \in Answers /\ "playing" \in Seats /\ "out" \in Seats
  BY DEF ClientOf, Answers, Requests, Seats
<1> HIDE DEF c
<1>2. /\ c # None /\ InStep(w.client[c], w.conn[p])
      /\ \A s \in Seats : /\ Answered(w.conn[p], A, s).seat = s
                          /\ Answered(w.conn[p], A, s).req = w.conn[p].req \ A
  BY <1>1, PacketFacts
<1>3. \/ w.conn[p].seat = "playing" /\ w' = Told(w, p, A, "playing")
      \/ w' = DisConnectLater(Told(w, p, A, "out"), c)
  BY <1>2 DEF LogoutReply, Packet, findClientByfd, Told, c
<1>4. w.conn[p].seat = "playing" => InStep(w.client[c], Answered(w.conn[p], A, "playing"))
  BY <1>1, <1>2 DEF InStep
<1>5. InStep(w.client[c], Answered(w.conn[p], A, "out"))
  BY <1>1, <1>2 DEF InStep
<1> HIDE DEF A
<1>6. CASE w.conn[p].seat = "playing" /\ w' = Told(w, p, A, "playing")
  BY <1>1, <1>4, <1>6, LaterGood
<1>7. CASE w' = DisConnectLater(Told(w, p, A, "out"), c)
  BY <1>1, <1>5, <1>7, LaterGood
<1> QED
  BY <1>3, <1>6, <1>7

\* The inductive invariant: until it crashes the program keeps good tables, and only a
\* failing send, connect or Redis, or a descriptor too wide for m_fd, crashes it.
RobotsInv ==
    /\ w \in Worlds /\ w.fault \in {"none", "send", "connect", "redis", "wide"}
    /\ w.fault = "none" => Good(w, reloads)
    /\ reloads \in 0..MaxReloads
    /\ quitLater \in BOOLEAN /\ exited \in BOOLEAN

\* A crash leaves no clients.
LEMMA CrashesAre ==
    ASSUME NEW x \in Crashes
    PROVE  /\ x \in Worlds /\ x.fault \in {"send", "connect", "redis", "wide"}
           /\ \A y : Finish(y, x)
<1>1. PICK why \in {"send", "connect", "redis", "wide"} : x = Crash(why)
  BY DEF Crashes
<1>2. why \in Faults
  BY DEF Faults
<1>3. x \in Worlds /\ x.fault = why /\ DOMAIN x.client = {}
  BY <1>1, <1>2, CrashIs
<1> QED
  BY <1>3 DEF Finish

\* What a packet of the server does.
LEMMA PacketGood ==
    ASSUME NEW n \in Nat, Good(w, n), NEW p \in DOMAIN w.conn,
           InitHandCards(p) \/ OtherEnters(p) \/ Answer(p)
    PROVE  Outcome(w, w', n)
<1>1. \/ InitHandCards(p) \/ OtherEnters(p) \/ EnterRoom(p)
      \/ ReadyReply(p) \/ NextRound(p) \/ LogoutReply(p)
  BY DEF Answer
<1>2. CASE InitHandCards(p)
  BY <1>2, InitHandCardsGood
<1>3. CASE OtherEnters(p)
  BY <1>3, OtherEntersGood
<1>4. CASE EnterRoom(p)
  BY <1>4, EnterRoomGood
<1>5. CASE ReadyReply(p)
  BY <1>5, ReadyReplyGood
<1>6. CASE NextRound(p)
  BY <1>6, NextRoundGood
<1>7. CASE LogoutReply(p)
  BY <1>7, LogoutReplyGood
<1> QED
  BY <1>1, <1>2, <1>3, <1>4, <1>5, <1>6, <1>7

\* What every other step but a reload and the monitor does.
LEMMA HandlersGood ==
    ASSUME NEW n \in Nat, Good(w, n),
           \/ AddUser \/ AddUserFails \/ Disconnect \/ Sigusr1
           \/ \E c \in DOMAIN w.client : TimerLogin(c) \/ TimerReady(c) \/ TimerLogout(c)
           \/ \E p \in DOMAIN w.conn : Connected(p) \/ ConnLost(p)
    PROVE  Outcome(w, w', n)
<1>0. w \in Worlds
  BY DEF Good
<1>1. CASE AddUser
  <2>1. w' = Crash("wide") \/ (Good(w', n) /\ Joined(w, w'))
    BY <1>1, AddUserGood
  <2>2. w' = Crash("wide") => w' \in Crashes
    BY DEF Crashes
  <2> QED
    BY <1>0, <2>1, <2>2, SparedWhen, SparedFinish DEF Outcome
<1>2. CASE AddUserFails
  BY <1>2 DEF AddUserFails, Outcome, Crashes
<1>3. CASE Disconnect
  BY <1>0, <1>3, DisconnectGood, SparedWhen, SparedFinish DEF Outcome
<1>4. CASE Sigusr1
  <2>1. w' = Crash("send") \/ (Good(w', n) /\ Cancelled(w, w'))
    BY <1>4, Sigusr1Good
  <2>2. w' = Crash("send") => w' \in Crashes
    BY DEF Crashes
  <2> QED
    BY <1>0, <2>1, <2>2, SparedWhen, SparedFinish DEF Outcome
<1>5. CASE \E c \in DOMAIN w.client : TimerLogin(c) \/ TimerReady(c) \/ TimerLogout(c)
  BY <1>5, TimerLoginGood, TimerReadyGood, TimerLogoutGood
<1>6. CASE \E p \in DOMAIN w.conn : Connected(p) \/ ConnLost(p)
  BY <1>6, ConnectedGood, ConnLostGood
<1> QED
  BY <1>1, <1>2, <1>3, <1>4, <1>5, <1>6

\* Only the reload counts reloads.
LEMMA Counted ==
    ASSUME Next
    PROVE  \/ Reload
           \/ reloads' = reloads
  BY DEF Next, AddUser, AddUserFails, Disconnect, Monitor, Sigusr1, TimerLogin, TimerReady,
         TimerLogout, Connected, ConnLost, InitHandCards, OtherEnters, Answer, EnterRoom,
         ReadyReply, NextRound, LogoutReply

\* The signal and the end of the process are remembered as such.
LEMMA Flags ==
    ASSUME Next, quitLater \in BOOLEAN, exited \in BOOLEAN
    PROVE  quitLater' \in BOOLEAN /\ exited' \in BOOLEAN /\ w.fault = "none"
  BY DEF Next, Reload, AddUser, AddUserFails, Disconnect, Monitor, Sigusr1, TimerLogin, TimerReady,
         TimerLogout, Connected, ConnLost, InitHandCards, OtherEnters, Answer, EnterRoom,
         ReadyReply, NextRound, LogoutReply, Running

\* A step of the program.
LEMMA StepGood ==
    ASSUME RobotsInv, Next
    PROVE  RobotsInv' /\ Finish(w, w')
<1>1. /\ quitLater' \in BOOLEAN /\ exited' \in BOOLEAN /\ w.fault = "none"
  BY Flags DEF RobotsInv
<1>2. /\ Good(w, reloads) /\ reloads \in Nat /\ MaxReloads \in Nat /\ reloads \in 0..MaxReloads
      /\ w \in Worlds
  BY <1>1, RobotsAssumption DEF RobotsInv
<1>3. CASE Reload
  <2>1. /\ Good(w', reloads + 1) /\ w'.client = w.client
        /\ \A v \in Vids : \A d : In(d, w'.queues[v].dels) => In(d, w.queues[v].dels)
    BY <1>2, <1>3, ReloadGood
  <2>2. reloads' = reloads + 1 /\ reloads' \in 0..MaxReloads
    BY <1>2, <1>3 DEF Reload
  <2>3. Finish(w, w')
    BY <2>1 DEF Finish, Doomed
  <2>4. w' \in Worlds /\ w'.fault = "none"
    BY <2>1 DEF Good
  <2>5. Good(w', reloads')
    BY <2>1, <2>2
  <2> QED
    BY <1>1, <2>2, <2>3, <2>4, <2>5 DEF RobotsInv
<1>4. CASE Monitor
  <2>1. w' = w /\ reloads' = reloads
    BY <1>4 DEF Monitor
  <2> QED
    BY <1>1, <1>2, <2>1 DEF RobotsInv, Finish
<1>5. CASE Outcome(w, w', reloads) /\ reloads' = reloads
  <2>1. CASE w' \in Crashes
    <3>1. /\ w' \in Worlds /\ w'.fault \in {"send", "connect", "redis", "wide"} /\ Finish(w, w')
      BY <2>1, CrashesAre
    <3> QED
      BY <1>1, <1>2, <1>5, <3>1 DEF RobotsInv
  <2>2. CASE Good(w', reloads) /\ Finish(w, w')
    <3>1. w' \in Worlds /\ w'.fault = "none" /\ Good(w', reloads')
      BY <1>5, <2>2 DEF Good
    <3> QED
      BY <1>1, <1>2, <1>5, <2>2, <3>1 DEF RobotsInv
  <2> QED
    BY <1>5, <2>1, <2>2 DEF Outcome
<1>6. CASE ~Reload /\ ~Monitor
  <2>1. reloads' = reloads
    BY <1>6, Counted
  <2>2. \/ AddUser \/ AddUserFails \/ Disconnect \/ Sigusr1
        \/ \E c \in DOMAIN w.client : TimerLogin(c) \/ TimerReady(c) \/ TimerLogout(c)
        \/ \E p \in DOMAIN w.conn : Connected(p) \/ ConnLost(p)
        \/ \E p \in DOMAIN w.conn : InitHandCards(p) \/ OtherEnters(p) \/ Answer(p)
    BY <1>6 DEF Next
  <2>3. Outcome(w, w', reloads)
    BY <1>2, <2>2, PacketGood, HandlersGood
  <2> QED
    BY <1>5, <2>1, <2>3
<1> QED
  BY <1>3, <1>4, <1>6

-----------------------------------------------------------------------------
\* The callbacks keep RobotsInv, whatever order the loop runs them in.
THEOREM RobotsInvariant == Spec => []RobotsInv
<1>1. Init => RobotsInv
  <2> SUFFICES ASSUME Init PROVE RobotsInv
    OBVIOUS
  <2>1. Good(w, 0)
    BY InitGood
  <2>2. quitLater = FALSE /\ reloads = 0 /\ exited = FALSE /\ MaxReloads \in Nat
    BY RobotsAssumption DEF Init
  <2>3. Good(w, reloads)
    BY <2>1, <2>2
  <2>4. w \in Worlds /\ w.fault = "none"
    BY <2>1 DEF Good
  <2>5. reloads \in 0..MaxReloads
    <3>1. reloads = 0 /\ MaxReloads \in Nat
      BY <2>2
    <3> QED
      BY <3>1
  <2>6. quitLater \in BOOLEAN /\ exited \in BOOLEAN
    BY <2>2, Zenon
  <2> QED
    BY <2>3, <2>4, <2>5, <2>6 DEF RobotsInv
<1>2. RobotsInv /\ [Next]_vars => RobotsInv'
  <2> SUFFICES ASSUME RobotsInv, [Next]_vars PROVE RobotsInv'
    OBVIOUS
  <2>1. CASE Next
    BY <2>1, StepGood
  <2>2. CASE UNCHANGED vars
    BY <2>2 DEF vars, RobotsInv
  <2> QED
    BY <2>1, <2>2
<1> QED
  BY <1>1, <1>2, PTL DEF Spec

\* Types.
THEOREM RobotsTypeCorrect == Spec => []TypeOK
<1>1. RobotsInv => TypeOK
  <2> SUFFICES ASSUME RobotsInv PROVE TypeOK
    OBVIOUS
  <2>1. w \in Worlds /\ quitLater \in BOOLEAN /\ exited \in BOOLEAN /\ reloads \in 0..MaxReloads
    BY DEF RobotsInv
  <2>2. /\ w.queues \in [Vids -> [uids : Seq(Uids), dels : Seq(Fds)]]
        /\ w.robots \in [Uids -> Vids \cup {None}] /\ w.last \subseteq Uids
        /\ w.cmap \in [Fds -> Objs \cup {None}]
        /\ w.conMap \in [Fds -> Objs \cup {None, Null}]
        /\ w.fault \in Faults
    BY <2>1, WorldFacts
  <2>3. /\ \A c \in DOMAIN w.client : c \in Objs /\ w.client[c] \in Clients
        /\ \A p \in DOMAIN w.conn : p \in Objs /\ w.conn[p] \in Conns
    BY <2>1, WorldFacts
  <2> QED
    BY <2>1, <2>2, <2>3 DEF TypeOK
<1> QED
  BY <1>1, RobotsInvariant, PTL

\* TablesMatch: cmap and conMap lead to living objects of their descriptor, so that no
\* callback meets NULL or a deleted object, as long as Client::m_fd holds every descriptor.
THEOREM TablesStayTrue == Spec => []TablesMatch
<1>1. RobotsInv => TablesMatch
  <2> SUFFICES ASSUME RobotsInv PROVE TablesMatch
    OBVIOUS
  <2>1. w.fault \notin {"null", "freed", "erase"}
    BY DEF RobotsInv
  <2>2. w.fault = "none" => Linked(w)
    BY DEF RobotsInv, Good
  <2> QED
    BY <2>1, <2>2 DEF TablesMatch, Linked
<1> QED
  BY <1>1, RobotsInvariant, PTL

\* In the tables of one configuration a robot has one place.
LEMMA OnePlace ==
    ASSUME NEW n \in Nat, Good(w, n), Conserved(w), NEW uid \in w.last
    PROVE  LET q == w.queues[Home[uid]].uids
           IN Cardinality({i \in 1..Len(q) : q[i] = uid})
              + Cardinality({c \in DOMAIN w.client : w.client[c].uid = uid}) = 1
<1> DEFINE q == w.queues[Home[uid]].uids
           I == {i \in 1..Len(q) : q[i] = uid}
           C == {c \in DOMAIN w.client : w.client[c].uid = uid}
<1>1. Home[uid] \in 1..NumVids
  <2>1. w \in Worlds
    BY DEF Good
  <2>2. uid \in Uids
    BY <2>1, WorldFacts
  <2> QED
    BY <2>2, Numbers
<1>2. Once(q) /\ \A i \in 1..Len(q) : Idle(w, q[i])
  BY <1>1 DEF Conserved
<1>3. Online(w, uid) \/ In(uid, q)
  BY DEF Conserved
<1>4. \A c, d \in DOMAIN w.client : w.client[c].uid = w.client[d].uid => c = d
  BY DEF Conserved
<1> HIDE DEF q
<1>5. CASE Online(w, uid)
  <2>1. I = {}
    BY <1>2, <1>5 DEF Idle
  <2>2. PICK c \in DOMAIN w.client : w.client[c].uid = uid
    BY <1>5 DEF Online
  <2>3. C = {c}
    BY <1>4, <2>2
  <2>4. Cardinality(I) = 0 /\ Cardinality(C) = 1
    BY <2>1, <2>3, FS_EmptySet, FS_Singleton
  <2> QED
    BY <2>4 DEF q
<1>6. CASE ~Online(w, uid)
  <2>1. C = {}
    BY <1>6 DEF Online
  <2>2. PICK i \in 1..Len(q) : q[i] = uid
    BY <1>3, <1>6 DEF In
  <2>3. I = {i}
    BY <1>2, <2>2 DEF Once
  <2>4. Cardinality(I) = 1 /\ Cardinality(C) = 0
    BY <2>1, <2>3, FS_EmptySet, FS_Singleton
  <2> QED
    BY <2>4 DEF q
<1> QED
  BY <1>5, <1>6

\* RobotsConserved: until the first reload no robot that was read is lost or doubled.
THEOREM RobotsStayConserved == Spec => []RobotsConserved
<1>1. RobotsInv => RobotsConserved
  <2> SUFFICES ASSUME RobotsInv, w.fault = "none", reloads = 0, NEW uid \in w.last
               PROVE  LET q == w.queues[Home[uid]].uids
                      IN Cardinality({i \in 1..Len(q) : q[i] = uid})
                         + Cardinality({c \in DOMAIN w.client : w.client[c].uid = uid}) = 1
    BY DEF RobotsConserved
  <2>1. Good(w, reloads)
    BY DEF RobotsInv
  <2>2. Good(w, 0) /\ Conserved(w)
    BY <2>1 DEF Good
  <2> QED
    BY <2>2, OnePlace
<1> QED
  BY <1>1, RobotsInvariant, PTL

\* KillsAreMeant: until the second reload a descriptor waits to be disconnected in one
\* queue and once, and only while its client lives.
THEOREM KillsStayMeant == Spec => []KillsAreMeant
<1>1. RobotsInv => KillsAreMeant
  <2> SUFFICES ASSUME RobotsInv, w.fault = "none", reloads <= 1,
                      NEW v \in Vids, NEW i \in 1..Len(w.queues[v].dels)
               PROVE  /\ w.cmap[w.queues[v].dels[i]] # None
                      /\ \A u \in Vids : \A j \in 1..Len(w.queues[u].dels) :
                            w.queues[u].dels[j] = w.queues[v].dels[i] => u = v /\ i = j
    BY DEF KillsAreMeant
  <2>1. Kills(w)
    BY DEF RobotsInv, Good
  <2>2. Meant(w, v, w.queues[v].dels[i])
    BY <2>1 DEF Kills
  <2>3. ASSUME NEW u \in Vids, NEW j \in 1..Len(w.queues[u].dels),
               w.queues[u].dels[j] = w.queues[v].dels[i]
        PROVE  u = v /\ i = j
    <3>1. Meant(w, u, w.queues[v].dels[i])
      BY <2>1, <2>3 DEF Kills
    <3>2. u = v
      BY <2>2, <3>1 DEF Meant
    <3>3. Once(w.queues[v].dels)
      BY <2>1 DEF Kills
    <3> QED
      BY <2>3, <3>2, <3>3 DEF Once
  <2> QED
    BY <2>2, <2>3 DEF Meant
<1> QED
  BY <1>1, RobotsInvariant, PTL

\* PlayersFinish: no step puts a robot that plays into a kill queue, unless the server has
\* let it go.
THEOREM PlayersAreSpared == Spec => PlayersFinish
<1>1. RobotsInv /\ [Next]_vars => [Finish(w, w')]_vars
  BY StepGood
<1>2. [Finish(w, w')]_vars =>
         [\A c \in DOMAIN w.client \cap DOMAIN w'.client :
             w.client[c].playing /\ ~Doomed(w, c) /\ Doomed(w', c) => LetGo(w', c)]_vars
  BY DEF Finish
<1> QED
  BY <1>1, <1>2, RobotsInvariant, PTL DEF Spec, PlayersFinish
=============================================================================
