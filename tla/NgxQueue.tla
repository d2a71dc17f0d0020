------------------------------ MODULE NgxQueue ------------------------------
(***************************************************************************)
(* The intrusive ring of Queue/ngx_queue.h and ngx_queue.c.  A queue is a  *)
(* head (the sentinel) and the nodes reached from it; nothing but the two  *)
(* pointers of each says which nodes those are.  Every macro is modelled   *)
(* by the pointers it writes, in its order, and beside them `lists` keeps  *)
(* what the queue should hold.                                             *)
(***************************************************************************)
EXTENDS Integers, Sequences, FiniteSets

CONSTANTS Heads,    \* sentinels
          Nodes,    \* ngx_queue_t members of the caller's objects
          NodeKey   \* what the caller's cmp looks at

ASSUME NgxQueueAssumption ==
    /\ Heads \cap Nodes = {}
    /\ IsFiniteSet(Nodes)
    /\ NodeKey \in [Nodes -> Int]

VARIABLES
    ring,           \* ring.next and ring.prev, the two pointers of every ngx_queue_t
    lists           \* history: lists[h], the nodes of queue h, <<h>> while h is no queue

queueVars == <<ring, lists>>

Cells == Heads \cup Nodes
Dead(h) == <<h>>                                   \* not initialised, or given to ngx_queue_add
Live    == {h \in Heads : lists[h] # Dead(h)}
Linked  == UNION {{lists[h][i] : i \in 1..Len(lists[h])} : h \in Live}

-----------------------------------------------------------------------------
\* The macros, on a ring r.
ngx_queue_init(r, q) == [next |-> [r.next EXCEPT ![q] = q], prev |-> [r.prev EXCEPT ![q] = q]]

ngx_queue_empty(r, h) == h = r.prev[h]

ngx_queue_insert_head(r, h, x) ==                  \* also ngx_queue_insert_after
    [next |-> [r.next EXCEPT ![x] = r.next[h], ![h] = x],
     prev |-> [r.prev EXCEPT ![r.next[h]] = x, ![x] = h]]

ngx_queue_insert_tail(r, h, x) ==
    [next |-> [r.next EXCEPT ![r.prev[h]] = x, ![x] = h],
     prev |-> [r.prev EXCEPT ![x] = r.prev[h], ![h] = x]]

\* Without NGX_DEBUG the removed node keeps its pointers.
ngx_queue_remove(r, x) ==
    [next |-> [r.next EXCEPT ![r.prev[x]] = r.next[x]],
     prev |-> [r.prev EXCEPT ![r.next[x]] = r.prev[x]]]

\* n takes q and what follows it in h.
ngx_queue_split(r, h, q, n) ==
    [next |-> [r.next EXCEPT ![r.prev[h]] = n, ![n] = q, ![r.prev[q]] = h],
     prev |-> [r.prev EXCEPT ![n] = r.prev[h], ![h] = r.prev[q], ![q] = n]]

\* h takes the nodes of n.  The third assignment reads (n)->prev after the second may
\* have written it.
ngx_queue_add(r, h, n) ==
    LET p1 == [r.prev EXCEPT ![r.next[n]] = r.prev[h]]
        n1 == [r.next EXCEPT ![r.prev[h]] = r.next[n]]
        p2 == [p1 EXCEPT ![h] = p1[n]]
    IN [next |-> [n1 EXCEPT ![p2[h]] = h], prev |-> p2]

-----------------------------------------------------------------------------
\* ngx_queue_middle: middle takes one step where next takes two.
ngx_queue_middle_Early(r, h) ==                    \* mutant: middle steps after both steps of next
    LET last == r.prev[h]
        run[k \in 0..Cardinality(Nodes)] ==
            IF k = 0 THEN <<r.next[h], r.next[h]>>
            ELSE IF last \in {run[k - 1][2], r.next[run[k - 1][2]]} THEN run[k - 1]
            ELSE <<r.next[run[k - 1][1]], r.next[r.next[run[k - 1][2]]]>>
    IN run[Cardinality(Nodes)][1]

ngx_queue_middle(r, h) ==
    LET last == r.prev[h]
        two(n) == IF r.next[n] = last THEN last ELSE r.next[r.next[n]]
        run[k \in 0..Cardinality(Nodes)] ==        \* <<middle, next>> after k rounds
            IF k = 0 THEN <<r.next[h], r.next[h]>>
            ELSE IF run[k - 1][2] = last THEN run[k - 1]
            ELSE <<r.next[run[k - 1][1]], two(run[k - 1][2])>>
    IN run[Cardinality(Nodes)][1]

\* ngx_queue_sort: each node from the second on is taken out and put behind the
\* first node before it that is not greater, or behind the sentinel.
SortBack_Unstable(r, h, q) ==                      \* mutant: cmp(prev, q) < 0
    LET back[p \in Cells] ==
            IF p = h \/ NodeKey[p] < NodeKey[q] THEN p ELSE back[r.prev[p]]
    IN back[r.prev[q]]
SortBack(r, h, q) ==
    LET back[p \in Cells] ==
            IF p = h \/ NodeKey[p] <= NodeKey[q] THEN p ELSE back[r.prev[p]]
    IN back[r.prev[q]]

ngx_queue_sort(r, h) ==
    LET round(s) == [ring |-> ngx_queue_insert_head(ngx_queue_remove(s.ring, s.q),
                                                    SortBack(s.ring, h, s.q), s.q),
                     q |-> s.ring.next[s.q]]
        run[k \in 0..Cardinality(Nodes)] ==        \* after k rounds
            IF k = 0 THEN [ring |-> r, q |-> r.next[r.next[h]]]
            ELSE IF run[k - 1].q = h THEN run[k - 1] ELSE round(run[k - 1])
    IN IF r.next[h] = r.prev[h] THEN r ELSE run[Cardinality(Nodes)].ring

\* What a stable sort of s is: a node comes after the smaller ones and after the
\* equal ones that were before it.
StableSort(s) ==
    LET before(i, j) == NodeKey[s[i]] < NodeKey[s[j]] \/ (NodeKey[s[i]] = NodeKey[s[j]] /\ i < j)
        place(j) == Cardinality({i \in DOMAIN s : before(i, j)}) + 1
    IN [k \in DOMAIN s |-> s[CHOOSE j \in DOMAIN s : place(j) = k]]

-----------------------------------------------------------------------------
\* What a caller does: the operations on queues that exist and nodes that are in
\* none, or in the one the call names.
QueueInit ==
    /\ ring = [next |-> [c \in Cells |-> c], prev |-> [c \in Cells |-> c]]
    /\ lists = [h \in Heads |-> Dead(h)]

Create(h) ==
    /\ h \notin Live
    /\ ring' = ngx_queue_init(ring, h)
    /\ lists' = [lists EXCEPT ![h] = <<>>]

InsertHead(h, x) ==
    /\ h \in Live /\ x \notin Linked
    /\ ring' = ngx_queue_insert_head(ring, h, x)
    /\ lists' = [lists EXCEPT ![h] = <<x>> \o @]

InsertTail(h, x) ==
    /\ h \in Live /\ x \notin Linked
    /\ ring' = ngx_queue_insert_tail(ring, h, x)
    /\ lists' = [lists EXCEPT ![h] = Append(@, x)]

\* ngx_queue_insert_after: the macro of insert_head with a node for its head.
InsertAfter(h, i, x) ==
    /\ h \in Live /\ x \notin Linked
    /\ ring' = ngx_queue_insert_head(ring, lists[h][i], x)
    /\ lists' = [lists EXCEPT ![h] = SubSeq(@, 1, i) \o <<x>> \o SubSeq(@, i + 1, Len(@))]

Remove(h, i) ==
    /\ h \in Live
    /\ ring' = ngx_queue_remove(ring, lists[h][i])
    /\ lists' = [lists EXCEPT ![h] = SubSeq(@, 1, i - 1) \o SubSeq(@, i + 1, Len(@))]

\* The new head need not be initialised: ngx_queue_split sets both its pointers.
Split(h, i, n) ==
    /\ h \in Live /\ n \notin Live
    /\ ring' = ngx_queue_split(ring, h, lists[h][i], n)
    /\ lists' = [lists EXCEPT ![h] = SubSeq(@, 1, i - 1),
                              ![n] = SubSeq(lists[h], i, Len(lists[h]))]

\* The pointers of n still lead into h: n is no queue until it is initialised.
Add(h, n) ==
    /\ h \in Live /\ n \in Live \ {h}
    /\ ring' = ngx_queue_add(ring, h, n)
    /\ lists' = [lists EXCEPT ![h] = @ \o lists[n], ![n] = Dead(n)]

Sort(h) ==
    /\ h \in Live
    /\ ring' = ngx_queue_sort(ring, h)
    /\ lists' = [lists EXCEPT ![h] = StableSort(@)]

QueueNext ==
    \E h \in Heads :
        \/ Create(h) \/ Sort(h)
        \/ \E x \in Nodes : InsertHead(h, x) \/ InsertTail(h, x)
        \/ \E n \in Heads : Add(h, n)
        \/ \E i \in 1..Len(lists[h]) :
              \/ Remove(h, i)
              \/ \E x \in Nodes : InsertAfter(h, i, x)
              \/ \E n \in Heads : Split(h, i, n)

QueueSpec == QueueInit /\ [][QueueNext]_queueVars

-----------------------------------------------------------------------------
\* Whatever has been inserted, removed, split off, joined and sorted: from the head
\* of each queue the next pointers lead through its nodes in order and back to the
\* head, and the prev pointers through the same nodes backwards.
RingIsList ==
    \A h \in Live :
        LET s == <<h>> \o lists[h] IN
        \A i \in 1..Len(s) :
            LET j == (i % Len(s)) + 1 IN ring.next[s[i]] = s[j] /\ ring.prev[s[j]] = s[i]

\* ngx_queue_middle returns what its comment says: the middle of an odd number of
\* nodes, the first of the second half of an even number.  ngx_queue_empty tells
\* apart the queues that have one.
MiddleIsMiddle ==
    \A h \in Live :
        IF ngx_queue_empty(ring, h) THEN lists[h] = <<>>
        ELSE ngx_queue_middle(ring, h) = lists[h][Len(lists[h]) \div 2 + 1]
=============================================================================
