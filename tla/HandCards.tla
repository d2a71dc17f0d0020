------------------------------ MODULE HandCards ------------------------------
\* The bookkeeping of one player's cards (Cardlib/handCards.cpp): the hand, the melds on
\* the table, the running counters, the checks that say what may be done with a card and
\* the calls that do it.  It has two kinds of user.  Who plays by the rules calls the check
\* before the call, as handCards.h asks; the other players and the pile are external, a card
\* may turn up as long as fewer than four of its kind are in the hand and the melds.  The
\* robot (Client.cpp) keeps only its hand in the object, as a game server that is external
\* tells it, and takes melded cards out with removeCard directly.  Left out: the
\* search for a winning hand (checkHu and _Hu), which only reads this state, _outCards,
\* which nothing here reads, and the dead hand flags, which nothing in the repository sets.
EXTENDS Integers, Sequences, FiniteSets, FiniteSetsExt
LOCAL INSTANCE SequencesExt

CONSTANTS Kinds,                \* cards: pairs of a point, 1..10, and whether it is a big one
          Deals,                \* the hands that may be dealt: how many cards of each kind
          MaxTurns              \* bound: calls after the opening

ASSUME CardsAssumption == Kinds \subseteq ((1..10) \X BOOLEAN) /\ IsFiniteSet(Kinds)
                          /\ Deals \subseteq [Kinds -> 0..4] /\ MaxTurns \in Nat

VARIABLES hc,                   \* the HandCards object
          stage,                \* the calls since __firstBlood; before it Empty, then Dealt
          user,                 \* "rules" or "robot"
          removed               \* history: cards that removeCard, called directly, took out
cardVars == <<hc, stage, user, removed>>
Empty == -2
Dealt == -1

isHong(k) == k[1] \in {2, 7, 10}
\* A point outside 1..10 makes an invalid card, of which the hand has none.
getCardCount(cards, k) == IF k \in Kinds THEN cards[k] ELSE 0
getActiveCard(cards) == MapThenSumSet(LAMBDA k : cards[k], {k \in Kinds : cards[k] \in 1..2})

clear == [cards |-> [k \in Kinds |-> 0], passed |-> [k \in Kinds |-> {}], paoFlag |-> FALSE,
          count |-> 0, big |-> 0, small |-> 0, red |-> 0, pao |-> 0, huXi |-> 0, huXi2 |-> 0,
          eats |-> <<>>]

\* n more (or fewer) cards of kind k are in the hand or on the table.
Tally(h, k, n) == [h EXCEPT !.big = IF k[2] THEN @ + n ELSE @,
                            !.small = IF k[2] THEN @ ELSE @ + n,
                            !.red = IF isHong(k) THEN @ + n ELSE @]
\* n calls of addCard.
addCards(h, k, n) == [Tally(h, k, n) EXCEPT !.cards[k] = @ + n, !.count = @ + n]
addHandCards(cards) == FoldSet(LAMBDA k, h : addCards(h, k, cards[k]), clear, Kinds)
removeCard(h, k, n) == IF h.cards[k] >= n
                       THEN [h EXCEPT !.cards[k] = @ - n, !.count = @ - n]
                       ELSE h
passCard(h, k) == [h EXCEPT !.passed[k] = @ \cup {"chi"}]
passPeng(h, k) == [h EXCEPT !.passed[k] = @ \cup {"peng"}]

\* A meld: the card that came in and, in a chi, the two from the hand.
Meld(type, big, k, others) == [type |-> type, big |-> big, card |-> k, others |-> others]
Of(type, k) == Meld(type, k[2], k, <<>>)
Quads == {"Pao", "Ti", "QishouTi"}

\* What a meld counts for, by its type, as a small and as a big one.
Xi(m) == LET value == CASE m.type \in {"ShunZi", "Santa"} -> <<0, 0>>
                        [] m.type = "Peng" -> <<1, 3>>
                        [] m.type \in {"OneTwoThree", "Hong", "Wei", "Wei2"} -> <<3, 6>>
                        [] m.type = "Pao" -> <<6, 9>>
                        [] OTHER -> <<9, 12>>
         IN value[IF m.big THEN 2 ELSE 1]
XiSum(eats) == FoldSeq(LAMBDA m, n : n + Xi(m), 0, eats)
MeldSize(m) == IF m.type \in Quads THEN 4 ELSE 3
Members(m, Test(_)) == Len(SelectSeq(<<m.card>> \o m.others, Test))
BigOf(m) == IF m.type = "Santa" THEN Members(m, LAMBDA k : k[2])
            ELSE IF m.card[2] THEN MeldSize(m) ELSE 0
RedOf(m) == CASE m.type \in {"ShunZi", "OneTwoThree"} ->
                     IF isHong(m.card) THEN 1 ELSE Members(m, isHong)
              [] m.type = "Santa" -> Members(m, isHong)
              [] OTHER -> IF m.type = "Hong" \/ isHong(m.card) THEN MeldSize(m) ELSE 0
\* The melds as the object is told of them when a game is taken up again; the points
\* of a Wei are not shown to the others.
addEatCards(h, eats) ==
    LET sum(f(_)) == FoldSeq(LAMBDA m, n : n + f(m), 0, eats)
    IN [h EXCEPT !.eats = eats,
                 !.big = @ + sum(BigOf),
                 !.small = @ + sum(LAMBDA m : MeldSize(m) - BigOf(m)),
                 !.red = @ + sum(RedOf),
                 !.pao = sum(LAMBDA m : IF m.type \in Quads THEN 1 ELSE 0),
                 !.huXi = XiSum(eats),
                 !.huXi2 = XiSum(SelectSeq(eats, LAMBDA m : m.type # "Wei"))]

\* A new meld, worth its points to the player and, if seen, to the others.
Lay(h, m, seen) == [h EXCEPT !.eats = Append(@, m),
                             !.huXi = @ + Xi(m),
                             !.huXi2 = IF seen THEN @ + Xi(m) ELSE @,
                             !.pao = IF m.type \in Quads THEN @ + 1 ELSE @]

\* __firstBlood lays four of a kind down, in the order of the kinds.
FirstBlood(h) ==
    LET Order(a, b) == IF a[2] = b[2] THEN a[1] < b[1] ELSE b[2]
        fours == SetToSortSeq({k \in Kinds : h.cards[k] = 4}, Order)
        laid == FoldLeft(LAMBDA g, k : removeCard(Lay(g, Of("QishouTi", k), TRUE), k, 4), h, fours)
    IN [laid EXCEPT !.paoFlag = @ \/ laid.pao >= 2]

\* delTianHuCard takes one card back: of an opening four of a kind, whose other three
\* return to the hand, or of the hand.
delTianHuCard(h, k) ==
    IF \E i \in DOMAIN h.eats : h.eats[i] = Of("QishouTi", k)
    THEN LET i == CHOOSE j \in DOMAIN h.eats : h.eats[j] = Of("QishouTi", k)
             gone == [Tally(h, k, -4) EXCEPT !.eats = RemoveAt(@, i),
                                             !.pao = @ - 1,
                                             !.huXi = @ - Xi(h.eats[i]),
                                             !.huXi2 = @ - Xi(h.eats[i])]
         IN addCards([gone EXCEPT !.paoFlag = @ /\ gone.pao >= 2], k, 3)
    ELSE Tally(removeCard(h, k, 1), k, -1)

checkOut(h, k) == h.cards[k] \in 1..2
outHandCard(h, k) == IF checkOut(h, k) THEN passCard(Tally(removeCard(h, k, 1), k, -1), k) ELSE h

\* _checkChi: the melds of card k with two cards of the hand, none of a kind of which
\* the hand has three.
Run(k, i, j) == Meld(IF {k[1], i, j} = 1..3 THEN "OneTwoThree" ELSE "ShunZi",
                     k[2], k, <<<<i, k[2]>>, <<j, k[2]>>>>)
HongWith(k, i, j) == Meld("Hong", k[2], k, <<<<i, k[2]>>, <<j, k[2]>>>>)
Chis(cards, k) ==
    LET p == k[1]
        other == <<p, ~k[2]>>
        melds == {Run(k, p + 1, p + 2), Run(k, p - 1, p + 1), Run(k, p - 2, p - 1),
                  Meld("Santa", k[2], k, <<<<p, FALSE>>, <<p, TRUE>>>>)}
                 \cup {HongWith(k, i, j) : i \in {2, 7} \ {p}, j \in {7, 10} \ {p}}
        Fits(m) == /\ m.type = "Hong" => {p, m.others[1][1], m.others[2][1]} = {2, 7, 10}
                   /\ \A i \in 1..2 : getCardCount(cards, m.others[i]) \in 1..2
    IN {m \in melds : Fits(m)}
       \cup (IF getCardCount(cards, other) = 2
             THEN {Meld("Santa", other[2], k, <<other, other>>)} ELSE {})

\* _checkBi: who takes k for a chi must meld every k of the hand too.  An offer is the
\* first meld with the one or two that have to go with it.
Without(cards, m) == FoldLeft(LAMBDA c, k : [c EXCEPT ![k] = @ - 1], cards, m.others)
\* Mutant: the second meld is looked for without setting one k aside for it.
checkBi_NoneAside(cards, k) ==
    UNION {LET left == Without(cards, m)
           IN IF left[k] <= 0 THEN {<<m>>} ELSE {<<m, n>> : n \in Chis(left, k)} :
               m \in Chis(cards, k)}
checkBi(cards, k) ==
    LET one(c) == [c EXCEPT ![k] = @ - 1]
        second(first, left) ==
            UNION {LET rest == Without(left, m)
                   IN IF cards[k] = 2 /\ rest[k] > 0
                      THEN {<<first, m, n>> : n \in Chis(one(rest), k)}
                      ELSE {<<first, m>>} : m \in Chis(left, k)}
    IN UNION {LET left == one(Without(cards, m))
              IN IF left[k] < 0 THEN {<<m>>} ELSE second(m, left) : m \in Chis(cards, k)}
checkChi(h, k) ==
    IF "chi" \in h.passed[k] \/ h.cards[k] >= 3 \/ getActiveCard(h.cards) <= 2 THEN {}
    ELSE IF h.cards[k] = 0 THEN {<<m>> : m \in Chis(h.cards, k)}
    ELSE checkBi(h.cards, k)
checkPeng(h, k) == h.passed[k] = {} /\ getActiveCard(h.cards) > 2 /\ h.cards[k] = 2
checkWei(h, k) == h.cards[k] = 2
\* The first meld that k came in with decides.
FirstOf(h, k, types) == LET mine == SelectSeq(h.eats, LAMBDA m : m.card = k)
                        IN mine # <<>> /\ Head(mine).type \in types
checkTi(h, k) == h.cards[k] = 3 \/ FirstOf(h, k, {"Wei"})
checkPao(h, k, isOut) == h.cards[k] = 3 \/ FirstOf(h, k, IF isOut THEN {"Wei"} ELSE {"Wei", "Peng"})

\* The calls; each returns the object and whether it did anything.
Did(h) == [ok |-> TRUE, hc |-> h]
DidNot(h) == [ok |-> FALSE, hc |-> h]
EatChi(h, k, offer) ==
    LET taken == FoldLeft(LAMBDA l, m : l \o <<m.card>> \o m.others,
                          Head(offer).others, Tail(offer))
        left == FoldLeft(LAMBDA g, c : removeCard(g, c, 1), h, taken)
        laid == FoldLeft(LAMBDA g, m : Lay(g, m, TRUE), left, offer)
    IN IF \E i \in 1..2 : getCardCount(h.cards, Head(offer).others[i]) \notin 1..2
       THEN DidNot(h)
       ELSE IF left.cards[k] > 0 THEN DidNot(h) ELSE Did(Tally(laid, k, 1))
EatPeng(h, k) == IF h.cards[k] # 2 \/ getActiveCard(h.cards) <= 2 THEN DidNot(h)
                 ELSE Did(Lay(Tally(removeCard(h, k, 2), k, 1), Of("Peng", k), TRUE))
EatWei(h, k) == IF h.cards[k] # 2 THEN DidNot(h)
                ELSE Did(Lay(Tally(removeCard(h, k, 2), k, 1), Of("Wei", k), FALSE))
EatWei2(h, k) == IF h.cards[k] # 2 THEN DidNot(h)
                 ELSE Did(Lay(Tally(removeCard(h, k, 2), k, 1), Of("Wei2", k), TRUE))

\* A meld of three becomes one of four, goes to the end and gains by what it was.
Grow(h, k, type, gain) ==
    IF ~FirstOf(h, k, DOMAIN gain) THEN DidNot(h)
    ELSE LET i == SelectInSeq(h.eats, LAMBDA m : m.card = k)
             more == gain[h.eats[i].type]
         IN Did([Tally(h, k, 1) EXCEPT !.eats = Append(RemoveAt(@, i), Of(type, k)),
                                       !.huXi = @ + more,
                                       !.huXi2 = @ + more,
                                       !.pao = @ + 1])
\* Mutant: a Peng grows by as much as a Wei.
EatPao_AsWei(h, k) ==
    IF h.cards[k] = 3 THEN Did(Lay(Tally(removeCard(h, k, 3), k, 1), Of("Pao", k), TRUE))
    ELSE Grow(h, k, "Pao", [Peng |-> 3, Wei |-> 3])
EatPao(h, k) ==
    IF h.cards[k] = 3 THEN Did(Lay(Tally(removeCard(h, k, 3), k, 1), Of("Pao", k), TRUE))
    ELSE Grow(h, k, "Pao", [Peng |-> IF k[2] THEN 6 ELSE 5, Wei |-> 3])
EatTi(h, k) ==
    IF h.cards[k] = 3 THEN Did(Lay(Tally(removeCard(h, k, 3), k, 1), Of("Ti", k), TRUE))
    ELSE Grow(h, k, "Ti", [Wei |-> 6])

\* Cards of kind k in the hand and the melds.
Here(h, k) == h.cards[k] + FoldSeq(LAMBDA m, n : n + IF m.others = <<>>
                                                    THEN IF m.card = k THEN MeldSize(m) ELSE 0
                                                    ELSE Members(m, LAMBDA c : c = k), 0, h.eats)
Playing == stage >= 0
Counts == Playing /\ stage < MaxTurns /\ stage' = stage + 1 /\ UNCHANGED user
\* A call of who plays by the rules, and a card that turns up for it.
Turn == user = "rules" /\ Counts /\ UNCHANGED removed
TurnsUp(k) == user = "rules" /\ Playing /\ Here(hc, k) < 4

NoneRemoved == [k \in Kinds |-> 0]
CardsInit == hc = clear /\ stage = Empty /\ user \in {"rules", "robot"} /\ removed = NoneRemoved

\* The robot's cbInitHandCards, cbTableInfo and cbSyncHandCards clear the object (Restart)
\* and add the cards they are told, with nothing in between.
Deal == /\ stage = Empty
        /\ \E cards \in Deals : hc' = addHandCards(cards)
        /\ stage' = IF user = "rules" THEN Dealt ELSE 0
        /\ UNCHANGED <<user, removed>>
Open == stage = Dealt /\ hc' = FirstBlood(hc) /\ stage' = 0 /\ UNCHANGED <<user, removed>>
TakeBack(k) == /\ stage = 0 /\ Turn
               /\ hc.cards[k] > 0 \/ FirstOf(hc, k, {"QishouTi"})
               /\ hc' = delTianHuCard(hc, k)
Out(k) == Turn /\ checkOut(hc, k) /\ hc' = outHandCard(hc, k)
Pass(k) == Turn /\ TurnsUp(k) /\ hc' \in {passCard(hc, k), passPeng(hc, k)}
Chi(k) == /\ Turn /\ TurnsUp(k)
          /\ \E offer \in checkChi(hc, k) : hc' = EatChi(hc, k, offer).hc
Peng(k) == Turn /\ TurnsUp(k) /\ checkPeng(hc, k) /\ hc' = EatPeng(hc, k).hc
Wei(k) == /\ Turn /\ TurnsUp(k) /\ checkWei(hc, k)
          /\ hc' \in {EatWei(hc, k).hc, EatWei2(hc, k).hc}
Pao(k) == /\ Turn /\ TurnsUp(k)
          /\ \E isOut \in BOOLEAN : checkPao(hc, k, isOut)
          /\ hc' = EatPao(hc, k).hc
Ti(k) == Turn /\ TurnsUp(k) /\ checkTi(hc, k) /\ hc' = EatTi(hc, k).hc
\* A game taken up again: the flags are put back by setCardFlags and setFlags.
TakeUp == /\ Playing
          /\ hc' = [addEatCards(addHandCards(hc.cards), hc.eats) EXCEPT
                        !.passed = hc.passed, !.paoFlag = hc.paoFlag]
          /\ user = "rules" /\ UNCHANGED <<stage, user, removed>>
Restart == Playing /\ hc' = clear /\ stage' = Empty /\ removed' = NoneRemoved /\ UNCHANGED user

\* The robot is told of a card it has thrown.
SomeOneOutCard(k) == /\ user = "robot" /\ Counts
                     /\ hc' = outHandCard(hc, k)
                     /\ UNCHANGED removed
\* The robot is told of its own meld, or of the melds of a chi with all their cards.
Eaten(h, k, action, melds) ==
    CASE action \in {"Peng", "Wei"} -> removeCard(h, k, 2)
      [] action \in {"Pao", "Ti"} -> removeCard(h, k, 4)
      [] action = "Chi" ->
             LET cards == FoldLeft(LAMBDA l, m : l \o <<m.card>> \o m.others, <<>>, melds)
             IN FoldLeft(LAMBDA g, c : removeCard(g, c, 1), removeCard(h, k, -1), cards)
SomeOneEat(k) ==
    /\ user = "robot" /\ Counts
    /\ \/ \E action \in {"Peng", "Wei", "Pao", "Ti"} : hc' = Eaten(hc, k, action, <<>>)
       \/ \E melds \in checkChi(hc, k) : hc' = Eaten(hc, k, "Chi", melds)
    /\ removed' = [j \in Kinds |-> removed[j] + hc.cards[j] - hc'.cards[j]]

CardsNext == \/ Deal \/ Open \/ TakeUp \/ Restart
             \/ \E k \in Kinds : \/ TakeBack(k) \/ Out(k) \/ Pass(k) \/ Chi(k) \/ Peng(k)
                                 \/ Wei(k) \/ Pao(k) \/ Ti(k)
                                 \/ SomeOneOutCard(k) \/ SomeOneEat(k)
------------------------------------------------------------------------------
\* The counters every call adjusts by what it moved (_countCards, _bigCards, _smallCards,
\* _redCards, _paoTimes, _huXi) agree with a count of the hand and the melds, which is
\* what a game taken up again starts from: no sequence of checked calls makes a card, or a
\* point, out of nothing or loses one.  removeCard called directly adjusts _countCards only,
\* so in the robot's object _bigCards, _smallCards and _redCards still count the cards of its
\* melds, those and no others: they are ahead of the hand by exactly what removeCard took.
\* The points the others see (_huXi2) never exceed those of the melds they see; they fall
\* short when a Wei has become a Pao or a Ti.
CardsAddUp == stage # Empty =>
    LET held == addEatCards(addHandCards(hc.cards), hc.eats)
        counted == FoldSet(LAMBDA k, h : Tally(h, k, removed[k]), held, Kinds)
        grown == \E i \in DOMAIN hc.eats : hc.eats[i].type \in {"Pao", "Ti"}
    IN /\ \A f \in {"count", "big", "small", "red", "pao", "huXi"} : counted[f] = hc[f]
       /\ IF grown THEN hc.huXi2 <= counted.huXi2 ELSE hc.huXi2 = counted.huXi2

\* A call that its check allowed does not fail: every offer of checkChi, with all the
\* melds that go with it, is accepted by EatChi (which otherwise would put the hand back)
\* and leaves no card of that kind, and what checkPeng, checkWei, checkPao or checkTi
\* allow is done.
ChecksHold ==
    \A k \in Kinds : TurnsUp(k) =>
        /\ \A offer \in checkChi(hc, k) :
              LET r == EatChi(hc, k, offer)
              IN r.ok /\ r.hc.cards[k] = 0 /\ r.hc.count = hc.count + 1 - 3 * Len(offer)
        /\ checkPeng(hc, k) => EatPeng(hc, k).ok
        /\ checkWei(hc, k) => EatWei(hc, k).ok /\ EatWei2(hc, k).ok
        /\ \A isOut \in BOOLEAN : checkPao(hc, k, isOut) => EatPao(hc, k).ok
        /\ checkTi(hc, k) => EatTi(hc, k).ok
==============================================================================
