----------------------------- MODULE NgxRbtree ------------------------------
(***************************************************************************)
(* The red-black tree of Rbtree/ngx_rbtree.h and ngx_rbtree.c, at the      *)
(* level of its pointers.  The code spells every case out for the left and *)
(* for the right; here a case has the side as a parameter.  Beside the     *)
(* tree, `order` keeps what a walk through it should find: nodes by key,   *)
(* and nodes with equal keys in the order of their insertion.              *)
(***************************************************************************)
EXTENDS Integers, Sequences, FiniteSets

CONSTANTS TreeNodes, \* ngx_rbtree_node_t members of the caller's objects
          TreeKey,   \* the key the caller gives to each before it inserts it
          KeyMod,    \* 2^32: the values of an ngx_rbtree_key_t
          Now,       \* the earliest moment of a timer: a clock that may be about to wrap
          Sentinel,
          Null

ASSUME NgxRbtreeAssumption ==
    /\ Sentinel \notin TreeNodes /\ Null \notin TreeNodes \cup {Sentinel}
    /\ KeyMod \in Nat \ {0} /\ KeyMod % 2 = 0
    /\ TreeKey \in [TreeNodes -> 0..(KeyMod - 1)] /\ Now \in 0..(KeyMod - 1)
    /\ \A n \in TreeNodes : (TreeKey[n] - Now) % KeyMod < KeyMod \div 2
    /\ IsFiniteSet(TreeNodes)

VARIABLES
    tree,            \* root, insert (the callback), and of every node kid, parent and red
    order            \* history: the nodes in the tree, in the order of a walk

treeVars == <<tree, order>>

Sides == {"left", "right"}
Other(s) == IF s = "left" THEN "right" ELSE "left"
Slots == TreeNodes \cup {Sentinel}
Steps == 0..(Cardinality(TreeNodes) + 1)           \* no loop runs longer than the tree is high

InTree == {order[i] : i \in 1..Len(order)}

-----------------------------------------------------------------------------
\* ngx_rbtree_left_rotate and ngx_rbtree_right_rotate: node goes down to its side s.
Rotate(t, s, node) ==
    LET temp == t.kid[Other(s)][node]
        sub  == t.kid[s][temp]
        up   == t.parent[node]
        kid1 == [t.kid EXCEPT ![Other(s)][node] = sub, ![s][temp] = node]
        par1 == IF sub # Sentinel THEN [t.parent EXCEPT ![sub] = node] ELSE t.parent
        side == IF node = t.kid[s][up] THEN s ELSE Other(s)
    IN [t EXCEPT !.kid    = IF node = t.root THEN kid1 ELSE [kid1 EXCEPT ![side][up] = temp],
                 !.root   = IF node = t.root THEN temp ELSE @,
                 !.parent = [par1 EXCEPT ![temp] = up, ![node] = temp]]

Paint(t, node, red) == [t EXCEPT !.red[node] = red]        \* ngx_rbt_red, ngx_rbt_black

ngx_rbt_copy_color_Not(t, n1, n2) == t                     \* mutant: n1 keeps its colour
ngx_rbt_copy_color(t, n1, n2) == Paint(t, n1, t.red[n2])

\* node->key < temp->key in ngx_rbtree_insert_value; in ngx_rbtree_insert_timer_value
\* the difference is taken modulo 2^32 and read as a signed number.
KeyLess_Unsigned(t, a, b) == TreeKey[a] < TreeKey[b]       \* mutant: timers compared like values
KeyLess(t, a, b) ==
    IF t.insert = "value" THEN TreeKey[a] < TreeKey[b]
                          ELSE (TreeKey[a] - TreeKey[b]) % KeyMod >= KeyMod \div 2

\* The loop of both insert callbacks: the node below which a new one belongs.
InsertPoint(t, node) ==
    LET side(temp) == IF KeyLess(t, node, temp) THEN "left" ELSE "right"
        down[temp \in TreeNodes] ==
            IF t.kid[side(temp)][temp] = Sentinel THEN temp ELSE down[t.kid[side(temp)][temp]]
    IN [temp |-> down[t.root], side |-> side(down[t.root])]

InsertCallback(t, node) ==
    LET p == InsertPoint(t, node)
    IN [t EXCEPT !.kid = [s \in Sides |->
                              [t.kid[s] EXCEPT ![p.temp] = IF s = p.side THEN node ELSE @,
                                               ![node] = Sentinel]],
                 !.parent[node] = p.temp,
                 !.red[node] = TRUE]

\* One round of the loop of ngx_rbtree_insert, on x = [t, node].
InsertRound(x) ==
    LET t == x.t
        par == t.parent[x.node]
        grand == t.parent[par]
        s == IF par = t.kid["left"][grand] THEN "left" ELSE "right"
        uncle == t.kid[Other(s)][grand]
        inner == x.node = t.kid[Other(s)][par]
        n2 == IF inner THEN par ELSE x.node
        t2 == IF inner THEN Rotate(t, s, par) ELSE t
        t3 == Paint(Paint(t2, t2.parent[n2], FALSE), t2.parent[t2.parent[n2]], TRUE)
    IN IF t.red[uncle]
       THEN [t |-> Paint(Paint(Paint(t, par, FALSE), uncle, FALSE), grand, TRUE), node |-> grand]
       ELSE [t |-> Rotate(t3, Other(s), t3.parent[t3.parent[n2]]), node |-> n2]

ngx_rbtree_insert(t, node) ==
    IF t.root = Sentinel
    THEN [t EXCEPT !.root = node, !.parent[node] = Null, !.red[node] = FALSE,
                   !.kid = [s \in Sides |-> [t.kid[s] EXCEPT ![node] = Sentinel]]]
    ELSE LET run[k \in Steps] ==
                 IF k = 0 THEN [t |-> InsertCallback(t, node), node |-> node]
                 ELSE LET x == run[k - 1]
                      IN IF x.node # x.t.root /\ x.t.red[x.t.parent[x.node]]
                         THEN InsertRound(x) ELSE x
             end == run[Cardinality(TreeNodes) + 1].t
         IN Paint(end, end.root, FALSE)

-----------------------------------------------------------------------------
ngx_rbtree_min(t, node) ==
    LET down[n \in TreeNodes] == IF t.kid["left"][n] = Sentinel THEN n ELSE down[t.kid["left"][n]]
    IN down[node]

\* The first half of ngx_rbtree_delete: subst leaves its place to temp, its only
\* child or the sentinel, and takes the place of node.
Unlink(t, node, subst, temp) ==
    LET from == IF subst = t.kid["left"][t.parent[subst]] THEN "left" ELSE "right"
        t1 == [t EXCEPT !.kid[from][t.parent[subst]] = temp]
        up == t.parent[node]
        at == IF node = t1.kid["left"][up] THEN "left" ELSE "right"
        tempUp == IF subst # node /\ t.parent[subst] = node THEN subst ELSE t.parent[subst]
        kid1 == [s \in Sides |-> [t1.kid[s] EXCEPT ![subst] = t1.kid[s][node]]]
        kid2 == IF node = t.root THEN kid1 ELSE [kid1 EXCEPT ![at][up] = subst]
        par1 == [t.parent EXCEPT ![temp] = tempUp, ![subst] = up]
    IN IF subst = node
       THEN [t1 EXCEPT !.parent[temp] = tempUp]
       ELSE [ngx_rbt_copy_color(t1, subst, node) EXCEPT
                       !.kid = kid2,
                       !.parent = [n \in Slots |->
                                       IF n \in {kid1[s][subst] : s \in Sides} \ {Sentinel}
                                       THEN subst ELSE par1[n]],
                       !.root = IF node = t.root THEN subst ELSE @]

\* The DEBUG stuff: the removed node is wiped, its colour stays.
Wipe(t, node) ==
    [t EXCEPT !.kid = [s \in Sides |-> [t.kid[s] EXCEPT ![node] = Null]], !.parent[node] = Null]

\* One round of the delete fixup, on x = [t, temp].
FixupRound(x) ==
    LET s == IF x.temp = x.t.kid["left"][x.t.parent[x.temp]] THEN "left" ELSE "right"
        o == Other(s)
        par == x.t.parent[x.temp]
        w0 == x.t.kid[o][par]
        t1 == IF x.t.red[w0] THEN Rotate(Paint(Paint(x.t, w0, FALSE), par, TRUE), s, par) ELSE x.t
        w1 == t1.kid[o][par]
        far == t1.red[t1.kid[o][w1]]
        t2 == IF far THEN t1 ELSE Rotate(Paint(Paint(t1, t1.kid[s][w1], FALSE), w1, TRUE), o, w1)
        w2 == t2.kid[o][par]
        t3 == Paint(Paint(ngx_rbt_copy_color(t2, w2, par), par, FALSE), t2.kid[o][w2], FALSE)
        t4 == Rotate(t3, s, par)
    IN IF ~t1.red[t1.kid[s][w1]] /\ ~far THEN [t |-> Paint(t1, w1, TRUE), temp |-> par]
                                         ELSE [t |-> t4, temp |-> t4.root]

Fixup(t, temp) ==
    LET run[k \in Steps] ==
            IF k = 0 THEN [t |-> t, temp |-> temp]
            ELSE LET x == run[k - 1]
                 IN IF x.temp # x.t.root /\ ~x.t.red[x.temp] THEN FixupRound(x) ELSE x
        end == run[Cardinality(TreeNodes) + 1]
    IN Paint(end.t, end.temp, FALSE)

ngx_rbtree_delete(t, node) ==
    LET left == t.kid["left"]
        right == t.kid["right"]
        subst == IF left[node] = Sentinel \/ right[node] = Sentinel THEN node
                 ELSE ngx_rbtree_min(t, right[node])
        temp == IF left[subst] # Sentinel THEN left[subst] ELSE right[subst]
        t1 == Wipe(Unlink(t, node, subst, temp), node)
    IN IF subst = t.root THEN Wipe(Paint([t EXCEPT !.root = temp], temp, FALSE), node)
       ELSE IF t.red[subst] THEN t1 ELSE Fixup(t1, temp)

-----------------------------------------------------------------------------
\* ngx_rbtree_init: an empty tree for values or for timers.  The parent and the
\* children of the sentinel are not set.
TreeInit ==
    /\ order = <<>>
    /\ \E i \in {"value", "timer"} :
          tree = [root |-> Sentinel, insert |-> i,
                  kid |-> [s \in Sides |-> [n \in Slots |-> Null]],
                  parent |-> [n \in Slots |-> Null],
                  red |-> [n \in Slots |-> FALSE]]

\* What the keys mean: a number, or how far ahead of the clock the timer is.
Rank(n) == IF tree.insert = "value" THEN TreeKey[n] ELSE (TreeKey[n] - Now) % KeyMod

Insert(node) ==
    /\ node \notin InTree
    /\ tree' = ngx_rbtree_insert(tree, node)
    /\ LET before == SelectSeq(order, LAMBDA n : Rank(n) <= Rank(node))
           after  == SelectSeq(order, LAMBDA n : Rank(n) > Rank(node))
       IN order' = before \o <<node>> \o after

Delete(node) ==
    /\ node \in InTree
    /\ tree' = ngx_rbtree_delete(tree, node)
    /\ order' = SelectSeq(order, LAMBDA n : n # node)

TreeNext == \E node \in TreeNodes : Insert(node) \/ Delete(node)

TreeSpec == TreeInit /\ [][TreeNext]_treeVars

-----------------------------------------------------------------------------
\* Walks through the subtree of a node, cut off below the height no tree has.
Walk(t) ==
    LET walk[k \in Steps, n \in Slots] ==
            IF n = Sentinel THEN <<>>
            ELSE IF k = 0 THEN <<Null>>
            ELSE walk[k - 1, t.kid["left"][n]] \o <<n>> \o walk[k - 1, t.kid["right"][n]]
    IN walk[Cardinality(TreeNodes) + 1, t.root]

\* Black nodes on the way from a node to the sentinel, -1 if that depends on the way.
BlackHeight(t) ==
    LET height[k \in Steps, n \in Slots] ==
            IF n = Sentinel \/ k = 0 THEN 0
            ELSE LET l == height[k - 1, t.kid["left"][n]]
                     r == height[k - 1, t.kid["right"][n]]
                 IN IF l # r \/ l = -1 THEN -1 ELSE l + (IF t.red[n] THEN 0 ELSE 1)
    IN height[Cardinality(TreeNodes) + 1, t.root]

\* After any insertions and deletions a walk through the tree finds exactly the nodes
\* that are in it, by key and, among equal keys, in the order of insertion: two timers
\* for the same moment expire in the order they were set.  For timers this holds
\* across the wrap of the 32 bits.
WalkInOrder == Walk(tree) = order

\* The tree stays balanced: the root is black, a red node has no red child, and every
\* way down meets the same number of black nodes.  Rotations and deletions climb by the
\* parent pointers, which are those of the tree for every node but the root, whose parent
\* may be a node that was deleted.
RedBlack ==
    /\ ~tree.red[tree.root] /\ ~tree.red[Sentinel]
    /\ \A n \in InTree, s \in Sides : tree.red[n] => ~tree.red[tree.kid[s][n]]
    /\ BlackHeight(tree) # -1
    /\ \A n \in InTree, s \in Sides :
          tree.kid[s][n] # Sentinel => tree.parent[tree.kid[s][n]] = n
=============================================================================
