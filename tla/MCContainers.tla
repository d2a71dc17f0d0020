---------------------------- MODULE MCContainers ----------------------------
\* The sequential data structures are independent of each other: a behaviour uses one of
\* them, the buffer of MCBuffer, two queues with four nodes, of which two have equal keys,
\* a tree with seven nodes, of which three have equal keys, and whose clock wraps
\* between the fourth and the fifth, or a hand of eight cards of seven kinds, enough for
\* every type of meld and for an offer of three melds.
EXTENDS MCBuffer, NgxQueue, NgxRbtree, HandCards

VARIABLE lib                    \* "buffer", "queue", "tree" or "cards"

MCNodeKey == [n \in Nodes |-> n % 3]
MCTreeKey == [n \in TreeNodes |-> <<13, 15, 15, 15, 0, 1, 2>>[n]]

MCKinds == {<<1, FALSE>>, <<2, FALSE>>, <<3, FALSE>>, <<4, FALSE>>, <<7, FALSE>>,
            <<10, FALSE>>, <<2, TRUE>>}
MCDeals == {cards \in [MCKinds -> 0..4] :
               /\ MapThenSumSet(LAMBDA k : cards[k], MCKinds) = 8
               /\ \A k \in MCKinds : k[1] # 2 => cards[k] <= 2}

MCInit == /\ lib \in {"buffer", "queue", "tree", "cards"}
          /\ Init /\ QueueInit /\ TreeInit /\ CardsInit
          /\ lib # "tree" => tree.insert = "value"
          /\ lib # "cards" => user = "rules"
MCNext == /\ lib' = lib
          /\ \/ lib = "buffer" /\ Next /\ UNCHANGED <<queueVars, treeVars, cardVars>>
             \/ lib = "queue" /\ QueueNext /\ UNCHANGED <<vars, treeVars, cardVars>>
             \/ lib = "tree" /\ TreeNext /\ UNCHANGED <<vars, queueVars, cardVars>>
             \/ lib = "cards" /\ CardsNext /\ UNCHANGED <<vars, queueVars, treeVars>>
MCSpec == MCInit /\ [][MCNext]_<<lib, vars, queueVars, treeVars, cardVars>>
=============================================================================
