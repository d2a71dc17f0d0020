----------------------- MODULE AsyncDataHandlerProofs -----------------------
(***************************************************************************)
(* The worker pool of CAsyncDataHandler for every number of workers and    *)
(* requests: no wake-up is lost, every request is dispatched exactly once  *)
(* and the destructor leaves nothing behind.                               *)
(***************************************************************************)
EXTENDS AsyncDataHandler, FiniteSetTheorems, SequenceTheorems, TLAPS

\* A worker that sleeps is inside pop.
SleepersPop == \A w \in waiting : wpc[w] = "pop"

\* The requests leave the queue as 1, 2, 3 ...; what is left in it is the rest of
\* the requests made, in order, and behind them nothing but empty requests.
QueueInOrder ==
    /\ Len(taken) <= made
    /\ \A i \in 1..Len(taken) : taken[i] = i
    /\ made - Len(taken) <= Len(m_listV)
    /\ \A i \in 1..Len(m_listV) :
          m_listV[i] = IF i <= made - Len(taken) THEN Len(taken) + i ELSE Pill

\* A request that was taken is held by one worker or has been dispatched once;
\* one that was not taken is neither.
HeldOrDone ==
    /\ \A w \in Workers : wpc[w] = "dispatch" =>
          holds[w] \in 1..Len(taken) /\ done[holds[w]] = 0
    /\ \A v, w \in Workers :
          wpc[v] = "dispatch" /\ wpc[w] = "dispatch" /\ holds[v] = holds[w] => v = w
    /\ \A n \in Requests : \/ n > Len(taken) /\ done[n] = 0
                           \/ n <= Len(taken) /\ done[n] = 1
                           \/ \E w \in Workers : wpc[w] = "dispatch" /\ holds[w] = n

\* The workers whose loop has ended.
Exited == {w \in Workers : wpc[w] \in {"exit", "joined"}}

\* An empty request is in the queue or has ended one worker, and it ends one only
\* when no request is left in front of it.
PillsCounted ==
    /\ pills + (made - Len(taken)) = Len(m_listV) + Cardinality(Exited)
    /\ Exited # {} => Len(taken) = made
    /\ main \in {"setup", "run"} => pills = 0
    /\ main = "join" => pills = Cardinality(Workers)
    /\ \A w \in Workers : wpc[w] = "joined" =>
          /\ main \in {"join", "done", "crashed"}
          /\ main = "done" => /\ pills = Cardinality(Workers)
                              /\ \A u \in Workers : wpc[u] = "joined"

-----------------------------------------------------------------------------
\* A set of workers that gains or loses one changes its size by one.
LEMMA OneMore ==
    ASSUME NEW S \in SUBSET Workers, NEW w \in Workers
    PROVE  /\ Cardinality(S) \in Nat
           /\ w \notin S => Cardinality(S \cup {w}) = Cardinality(S) + 1
           /\ w \in S => Cardinality(S \ {w}) = Cardinality(S) - 1
           /\ Cardinality(S) <= Cardinality(Workers)
<1>1. IsFiniteSet(S)
  BY FS_Subset, AsyncDataHandlerAssumption
<1>2. Cardinality(S) <= Cardinality(Workers)
  BY FS_Subset, AsyncDataHandlerAssumption
<1>3. Cardinality(S) \in Nat
  BY <1>1, FS_CardinalityType
<1>4. w \notin S => Cardinality(S \cup {w}) = Cardinality(S) + 1
  BY <1>1, FS_AddElement
<1>5. w \in S => Cardinality(S \ {w}) = Cardinality(S) - 1
  BY <1>1, FS_RemoveElement
<1> QED
  BY <1>2, <1>3, <1>4, <1>5

\* Every variable keeps its type: in particular the destructor pushes at most
\* one empty request per worker.
THEOREM TypeCorrect == Spec => []TypeOK
<1>0. Cardinality(Workers) \in Nat
  BY FS_CardinalityType, AsyncDataHandlerAssumption
<1>1. Init => TypeOK
  BY <1>0, AsyncDataHandlerAssumption DEF Init, TypeOK, Requests, Pill
<1>2. TypeOK /\ [Next]_vars => TypeOK'
  <2> SUFFICES ASSUME TypeOK, [Next]_vars PROVE TypeOK'
    OBVIOUS
  <2> USE AsyncDataHandlerAssumption DEF TypeOK
  <2>1. ASSUME NEW w \in Workers, runLoop(w) PROVE TypeOK'
    BY <2>1 DEF runLoop
  <2>2. ASSUME NEW w \in Workers, Wait(w) PROVE TypeOK'
    BY <2>2 DEF Wait
  <2>3. ASSUME NEW w \in Workers, WakeUp(w) PROVE TypeOK'
    BY <2>3 DEF WakeUp
  <2>4. ASSUME NEW w \in Workers, Take(w) PROVE TypeOK'
    <3>1. Head(m_listV) \in Requests \cup {Pill} /\ Tail(m_listV) \in Seq(Requests \cup {Pill})
      BY <2>4, HeadTailProperties DEF Take, pop
    <3> QED
      BY <2>4, <3>1 DEF Take, pop
  <2>5. ASSUME NEW w \in Workers, requestDispatch(w) PROVE TypeOK'
    <3>1. done' \in [Requests -> Nat]
      <4>1. CASE holds[w] \in Requests
        BY <2>5, <4>1 DEF requestDispatch
      <4>2. CASE holds[w] \notin Requests
        BY <2>5, <4>2 DEF requestDispatch
      <4> QED
        BY <4>1, <4>2
    <3> QED
      BY <2>5, <3>1 DEF requestDispatch
  <2>6. ASSUME NEW w \in Workers, Join(w) PROVE TypeOK'
    BY <2>6 DEF Join
  <2>7. CASE createThreadWorker
    BY <2>7 DEF createThreadWorker
  <2>8. CASE makeRequest
    BY <2>8 DEF makeRequest, push, notify_one, Requests
  <2>9. CASE destroyThreadWorker
    BY <2>9 DEF destroyThreadWorker
  <2>10. CASE PushPill
    <3>1. CASE pills < Cardinality(Workers)
      <4>1. m_listV' = Append(m_listV, Pill) /\ waiting' \subseteq Workers
        BY <2>10, <3>1 DEF PushPill, push, notify_one
      <4>2. m_listV' \in Seq(Requests \cup {Pill})
        BY <4>1, AppendProperties
      <4> QED
        BY <1>0, <2>10, <3>1, <4>1, <4>2 DEF PushPill
    <3>2. CASE ~(pills < Cardinality(Workers))
      BY <2>10, <3>2 DEF PushPill
    <3> QED
      BY <3>1, <3>2
  <2>11. CASE UNCHANGED vars
    BY <2>11 DEF vars
  <2> QED
    BY <2>1, <2>2, <2>3, <2>4, <2>5, <2>6, <2>7, <2>8, <2>9, <2>10, <2>11 DEF Next, Done
<1> QED
  BY <1>1, <1>2, PTL DEF Spec

-----------------------------------------------------------------------------
\* What push does to the sleepers: none is there, or one of them is woken and
\* is from then on awake.
LEMMA PushWakes ==
    ASSUME TypeOK, SleepersPop, NEW v \in Requests \cup {Pill}, push(v), UNCHANGED wpc
    PROVE  /\ m_listV' = Append(m_listV, v)
           /\ Len(m_listV') = Len(m_listV) + 1
           /\ \/ waiting = {} /\ waiting' = {}
              \/ Cardinality(Awake') = Cardinality(Awake) + 1
           /\ SleepersPop'
<1> USE DEF TypeOK
<1>1. m_listV' = Append(m_listV, v) /\ Len(m_listV') = Len(m_listV) + 1
  BY DEF push
<1>2. waiting = {} => waiting' = {}
  BY DEF push, notify_one
<1>3. ASSUME waiting # {} PROVE Cardinality(Awake') = Cardinality(Awake) + 1
  <2>1. PICK w \in waiting : waiting' = waiting \ {w}
    BY <1>3 DEF push, notify_one
  <2>2. Awake' = Awake \cup {w} /\ w \notin Awake /\ Awake \subseteq Workers
    BY <2>1 DEF SleepersPop, Awake
  <2> QED
    BY <2>2, OneMore
<1>4. SleepersPop'
  BY DEF SleepersPop, push, notify_one
<1> QED
  BY <1>1, <1>2, <1>3, <1>4

\* NoLostWakeUp is inductive once the sleepers are known to be inside pop.
LEMMA WakeUpStep ==
    TypeOK /\ TypeOK' /\ SleepersPop /\ NoLostWakeUp /\ [Next]_vars => SleepersPop' /\ NoLostWakeUp'
<1> SUFFICES ASSUME TypeOK, TypeOK', SleepersPop, NoLostWakeUp, [Next]_vars
             PROVE  SleepersPop' /\ NoLostWakeUp'
  OBVIOUS
<1>0. Awake \subseteq Workers /\ Awake' \subseteq Workers
  BY DEF Awake
<1>a. Cardinality(Awake) \in Nat /\ Cardinality(Awake') \in Nat
  BY <1>0, OneMore, AsyncDataHandlerAssumption
<1>n. /\ Cardinality(Awake) \in Nat /\ Cardinality(Awake') \in Nat
      /\ Len(m_listV) \in Nat /\ Len(m_listV') \in Nat
  BY <1>a DEF TypeOK
<1>g. ASSUME NEW w \in Workers, w \notin Awake, Awake' = Awake \cup {w}
      PROVE  Cardinality(Awake') = Cardinality(Awake) + 1
  BY <1>0, <1>g, OneMore
<1>l. ASSUME NEW w \in Workers, w \in Awake, Awake' = Awake \ {w}
      PROVE  Cardinality(Awake') = Cardinality(Awake) - 1
  BY <1>0, <1>l, OneMore
<1>1. ASSUME NEW w \in Workers, runLoop(w) PROVE SleepersPop' /\ NoLostWakeUp'
  <2>1. CASE WorkerLogger
    <3>1. Awake' = Awake \cup {w} /\ w \notin Awake /\ UNCHANGED <<m_listV, waiting>> /\ SleepersPop'
      BY <1>1, <2>1 DEF TypeOK, runLoop, SleepersPop, Awake
    <3>2. Cardinality(Awake') = Cardinality(Awake) + 1
      BY <1>g, <3>1
    <3> QED
      BY <1>n, <3>1, <3>2 DEF NoLostWakeUp
  <2>2. CASE ~WorkerLogger
    BY <1>1, <2>2 DEF TypeOK, runLoop, SleepersPop, NoLostWakeUp, Awake
  <2> QED
    BY <2>1, <2>2
<1>2. ASSUME NEW w \in Workers, Wait(w) PROVE SleepersPop' /\ NoLostWakeUp'
  BY <1>2, <1>n DEF TypeOK, Wait, SleepersPop, NoLostWakeUp
<1>3. ASSUME NEW w \in Workers, WakeUp(w) PROVE SleepersPop' /\ NoLostWakeUp'
  <2>1. Awake' = Awake \cup {w} /\ w \notin Awake /\ waiting # {} /\ UNCHANGED m_listV /\ SleepersPop'
    BY <1>3 DEF TypeOK, WakeUp, SleepersPop, Awake
  <2>2. Cardinality(Awake') = Cardinality(Awake) + 1
    BY <1>g, <2>1
  <2> QED
    BY <1>n, <2>1, <2>2 DEF NoLostWakeUp
<1>4. ASSUME NEW w \in Workers, Take(w) PROVE SleepersPop' /\ NoLostWakeUp'
  <2>1. Awake' = Awake \ {w} /\ w \in Awake /\ UNCHANGED waiting /\ SleepersPop'
    BY <1>4 DEF TypeOK, Take, pop, SleepersPop, Awake
  <2>2. Len(m_listV') = Len(m_listV) - 1
    BY <1>4, HeadTailProperties DEF TypeOK, Take, pop
  <2>3. Cardinality(Awake') = Cardinality(Awake) - 1
    BY <1>l, <2>1
  <2> QED
    BY <1>n, <2>1, <2>2, <2>3 DEF NoLostWakeUp
<1>5. ASSUME NEW w \in Workers, requestDispatch(w) PROVE SleepersPop' /\ NoLostWakeUp'
  <2>1. Awake' = Awake \cup {w} /\ w \notin Awake /\ UNCHANGED <<m_listV, waiting>> /\ SleepersPop'
    BY <1>5 DEF TypeOK, requestDispatch, SleepersPop, Awake
  <2>2. Cardinality(Awake') = Cardinality(Awake) + 1
    BY <1>g, <2>1
  <2> QED
    BY <1>n, <2>1, <2>2 DEF NoLostWakeUp
<1>6. ASSUME NEW w \in Workers, Join(w) PROVE SleepersPop' /\ NoLostWakeUp'
  <2>1. Awake' = Awake /\ UNCHANGED <<m_listV, waiting>> /\ SleepersPop'
    BY <1>6 DEF TypeOK, Join, SleepersPop, Awake
  <2> QED
    BY <2>1 DEF NoLostWakeUp
<1>7. CASE createThreadWorker
  BY <1>7 DEF TypeOK, createThreadWorker, SleepersPop, NoLostWakeUp, Awake
<1>8. CASE makeRequest
  <2>1. made + 1 \in Requests
    BY <1>8, AsyncDataHandlerAssumption DEF TypeOK, makeRequest, Requests
  <2>2. push(made + 1) /\ UNCHANGED wpc
    BY <1>8 DEF makeRequest
  <2>3. /\ Len(m_listV') = Len(m_listV) + 1 /\ SleepersPop'
        /\ (waiting = {} /\ waiting' = {}) \/ Cardinality(Awake') = Cardinality(Awake) + 1
    BY <2>1, <2>2, PushWakes
  <2>4. waiting = {} => waiting' = {}
    BY <2>2 DEF push, notify_one
  <2> QED
    BY <1>n, <2>3, <2>4 DEF NoLostWakeUp
<1>9. CASE destroyThreadWorker
  BY <1>9 DEF TypeOK, destroyThreadWorker, SleepersPop, NoLostWakeUp, Awake
<1>10. CASE PushPill
  <2>1. CASE pills < Cardinality(Workers)
    <3>1. push(Pill) /\ UNCHANGED wpc
      BY <1>10, <2>1 DEF PushPill
    <3>2. /\ Len(m_listV') = Len(m_listV) + 1 /\ SleepersPop'
          /\ (waiting = {} /\ waiting' = {}) \/ Cardinality(Awake') = Cardinality(Awake) + 1
      BY <3>1, PushWakes
    <3>3. waiting = {} => waiting' = {}
      BY <3>1 DEF push, notify_one
    <3> QED
      BY <1>n, <3>2, <3>3 DEF NoLostWakeUp
  <2>2. CASE ~(pills < Cardinality(Workers))
    BY <1>10, <2>2 DEF TypeOK, PushPill, SleepersPop, NoLostWakeUp, Awake
  <2> QED
    BY <2>1, <2>2
<1>11. CASE UNCHANGED vars
  BY <1>11 DEF vars, SleepersPop, NoLostWakeUp, Awake
<1> QED
  BY <1>1, <1>2, <1>3, <1>4, <1>5, <1>6, <1>7, <1>8, <1>9, <1>10, <1>11 DEF Next, Done

\* notify_one under the mutex is enough: while a worker sleeps in pop, every entry
\* of the queue has an awake worker that is about to take one.
THEOREM WakeUpsKept == Spec => []NoLostWakeUp
<1>1. Init => SleepersPop /\ NoLostWakeUp
  BY DEF Init, SleepersPop, NoLostWakeUp
<1> QED
  BY <1>1, WakeUpStep, TypeCorrect, PTL DEF Spec

-----------------------------------------------------------------------------
\* The front of the queue is the next request in order; it is an empty request
\* only when every request has been taken.
LEMMA FrontOfQueue ==
    ASSUME TypeOK, QueueInOrder, m_listV # <<>>
    PROVE  /\ Len(m_listV) >= 1 /\ Head(m_listV) = m_listV[1]
           /\ Len(Tail(m_listV)) = Len(m_listV) - 1
           /\ \A i \in 1..Len(Tail(m_listV)) : Tail(m_listV)[i] = m_listV[i + 1]
           /\ Head(m_listV) # Pill => Len(taken) < made /\ Head(m_listV) = Len(taken) + 1
           /\ Head(m_listV) = Pill => Len(taken) = made
<1>1. Len(m_listV) \in Nat /\ Len(taken) \in Nat /\ made \in Nat
  BY AsyncDataHandlerAssumption DEF TypeOK
<1>2. /\ Len(m_listV) >= 1 /\ Head(m_listV) = m_listV[1]
      /\ Len(Tail(m_listV)) = Len(m_listV) - 1
      /\ \A i \in 1..Len(Tail(m_listV)) : Tail(m_listV)[i] = m_listV[i + 1]
  BY HeadTailProperties, <1>1 DEF TypeOK
<1>3. m_listV[1] = IF 1 <= made - Len(taken) THEN Len(taken) + 1 ELSE Pill
  BY <1>1, <1>2 DEF QueueInOrder
<1>4. Len(taken) <= made
  BY DEF QueueInOrder
<1> QED
  BY <1>1, <1>2, <1>3, <1>4 DEF Pill

\* What push appends: the next request while no empty request is queued, or an
\* empty request.
LEMMA PushInOrder ==
    ASSUME TypeOK, QueueInOrder, NEW v \in Requests \cup {Pill}, push(v),
           UNCHANGED taken, made' \in Nat,
           \/ v = Pill /\ made' = made
           \/ v = made + 1 /\ made' = made + 1 /\ Len(m_listV) = made - Len(taken)
    PROVE  QueueInOrder'
<1>1. Len(m_listV) \in Nat /\ Len(taken) \in Nat /\ made \in Nat
  BY AsyncDataHandlerAssumption DEF TypeOK
<1>2. /\ Len(m_listV') = Len(m_listV) + 1
      /\ \A i \in 1..Len(m_listV) : m_listV'[i] = m_listV[i]
      /\ m_listV'[Len(m_listV) + 1] = v
  BY AppendProperties DEF push, TypeOK
<1>3. \A i \in 1..Len(m_listV') : m_listV'[i] = IF i <= made' - Len(taken) THEN Len(taken) + i ELSE Pill
  <2> SUFFICES ASSUME NEW i \in 1..Len(m_listV')
               PROVE  m_listV'[i] = IF i <= made' - Len(taken) THEN Len(taken) + i ELSE Pill
    OBVIOUS
  <2>1. CASE i = Len(m_listV) + 1
    BY <1>1, <1>2, <2>1 DEF QueueInOrder
  <2>2. CASE i # Len(m_listV) + 1
    <3>1. i \in 1..Len(m_listV)
      BY <1>1, <1>2, <2>2
    <3>2. m_listV'[i] = IF i <= made - Len(taken) THEN Len(taken) + i ELSE Pill
      BY <1>2, <3>1 DEF QueueInOrder
    <3> QED
      BY <1>1, <3>1, <3>2 
  <2> QED
    BY <2>1, <2>2
<1> QED
  BY <1>1, <1>2, <1>3 DEF QueueInOrder

\* Taking the front leaves the rest in order.
LEMMA TakeInOrder ==
    ASSUME TypeOK, QueueInOrder, NEW w \in Workers, Take(w)
    PROVE  QueueInOrder'
<1>1. Len(m_listV) \in Nat /\ Len(taken) \in Nat /\ made \in Nat
  BY AsyncDataHandlerAssumption DEF TypeOK
<1>2. /\ m_listV # <<>> /\ m_listV' = Tail(m_listV) /\ UNCHANGED made
      /\ taken' = IF Head(m_listV) = Pill THEN taken ELSE Append(taken, Head(m_listV))
  BY DEF Take, pop
<1>3. /\ Len(m_listV) >= 1
      /\ Len(m_listV') = Len(m_listV) - 1
      /\ \A i \in 1..Len(m_listV') : m_listV'[i] = m_listV[i + 1]
      /\ Head(m_listV) # Pill => Len(taken) < made /\ Head(m_listV) = Len(taken) + 1
      /\ Head(m_listV) = Pill => Len(taken) = made
  BY <1>2, FrontOfQueue
<1>4. CASE Head(m_listV) = Pill
  BY <1>1, <1>2, <1>3, <1>4 DEF QueueInOrder
<1>5. CASE Head(m_listV) # Pill
  <2>1. Head(m_listV) \in Requests
    BY <1>2, <1>5, HeadTailProperties DEF TypeOK
  <2>2. /\ Len(taken') = Len(taken) + 1
        /\ \A i \in 1..Len(taken) : taken'[i] = taken[i]
        /\ taken'[Len(taken) + 1] = Head(m_listV)
    BY <1>2, <1>5, <2>1, AppendProperties DEF TypeOK
  <2>3. \A i \in 1..Len(taken') : taken'[i] = i
    BY <1>1, <1>3, <1>5, <2>2 DEF QueueInOrder
  <2>4. \A i \in 1..Len(m_listV') :
           m_listV'[i] = IF i <= made - Len(taken') THEN Len(taken') + i ELSE Pill
    BY <1>1, <1>3, <2>2 DEF QueueInOrder
  <2> QED
    BY <1>1, <1>2, <1>3, <1>5, <2>2, <2>3, <2>4 DEF QueueInOrder
<1> QED
  BY <1>4, <1>5

\* While no empty request has been pushed, the queue holds requests only.
LEMMA NoPillYet ==
    ASSUME TypeOK, QueueInOrder, PillsCounted, pills = 0
    PROVE  Len(m_listV) = made - Len(taken)
<1>1. Len(m_listV) \in Nat /\ Len(taken) \in Nat /\ made \in Nat
  BY AsyncDataHandlerAssumption DEF TypeOK
<1>2. Exited \subseteq Workers
  BY DEF Exited
<1>3. Cardinality(Exited) \in Nat
  BY <1>2, OneMore, AsyncDataHandlerAssumption
<1>4. made - Len(taken) = Len(m_listV) + Cardinality(Exited) /\ made - Len(taken) <= Len(m_listV)
  BY <1>1, <1>3 DEF PillsCounted, QueueInOrder
<1> QED
  BY <1>1, <1>3, <1>4

\* QueueInOrder is kept by every step of a state in which the empty requests add up.
LEMMA QueueStep ==
    TypeOK /\ QueueInOrder /\ PillsCounted /\ [Next]_vars => QueueInOrder'
<1> SUFFICES ASSUME TypeOK, QueueInOrder, PillsCounted, [Next]_vars PROVE QueueInOrder'
  OBVIOUS
<1>1. CASE UNCHANGED <<m_listV, made, taken>>
  BY <1>1 DEF QueueInOrder
<1>2. ASSUME NEW w \in Workers, Take(w) PROVE QueueInOrder'
  BY <1>2, TakeInOrder
<1>3. CASE makeRequest
  <2>1. /\ pills = 0 /\ push(made + 1) /\ UNCHANGED taken /\ made' = made + 1
        /\ made + 1 \in Requests /\ made' \in Nat
    BY <1>3, AsyncDataHandlerAssumption DEF TypeOK, PillsCounted, makeRequest, Requests
  <2>2. Len(m_listV) = made - Len(taken)
    BY <2>1, NoPillYet
  <2> QED
    BY <2>1, <2>2, PushInOrder
<1>4. CASE PushPill
  <2>1. CASE pills < Cardinality(Workers)
    <3>1. push(Pill) /\ UNCHANGED <<taken, made>> /\ made' \in Nat
      BY <1>4, <2>1, AsyncDataHandlerAssumption DEF TypeOK, PushPill
    <3> QED
      BY <3>1, PushInOrder
  <2>2. CASE ~(pills < Cardinality(Workers))
    BY <1>1, <1>4, <2>2 DEF PushPill
  <2> QED
    BY <2>1, <2>2
<1> QED
  BY <1>1, <1>2, <1>3, <1>4
  DEF Next, vars, Done, runLoop, Wait, WakeUp, requestDispatch, Join, createThreadWorker,
      destroyThreadWorker

\* HeldOrDone: a request changes hands in Take, and is finished in requestDispatch.
LEMMA HeldStep ==
    TypeOK /\ QueueInOrder /\ HeldOrDone /\ [Next]_vars => HeldOrDone'
<1> SUFFICES ASSUME TypeOK, QueueInOrder, HeldOrDone, [Next]_vars PROVE HeldOrDone'
  OBVIOUS
<1>0. Len(taken) \in Nat /\ made \in 0..MaxRequests /\ MaxRequests \in Nat
  BY AsyncDataHandlerAssumption DEF TypeOK
<1>1. CASE UNCHANGED <<wpc, holds, taken, done>>
  BY <1>1 DEF HeldOrDone
<1>2. ASSUME NEW w \in Workers, UNCHANGED <<holds, taken, done>>, wpc[w] # "dispatch",
             NEW x \in {"pop", "exit", "joined"}, wpc' = [wpc EXCEPT ![w] = x]
      PROVE  HeldOrDone'
  BY <1>2 DEF TypeOK, HeldOrDone
<1>3. ASSUME NEW w \in Workers, Take(w) PROVE HeldOrDone'
  <2>1. /\ wpc[w] = "pop" /\ m_listV # <<>>
        /\ holds' = [holds EXCEPT ![w] = Head(m_listV)] /\ UNCHANGED done
        /\ wpc' = [wpc EXCEPT ![w] = IF Head(m_listV) = Pill THEN "exit" ELSE "dispatch"]
        /\ taken' = IF Head(m_listV) = Pill THEN taken ELSE Append(taken, Head(m_listV))
    BY <1>3 DEF Take, pop
  <2>2. Head(m_listV) # Pill => Len(taken) < made /\ Head(m_listV) = Len(taken) + 1
    BY <2>1, FrontOfQueue
  <2>3. CASE Head(m_listV) = Pill
    BY <2>1, <2>3 DEF TypeOK, HeldOrDone
  <2>4. CASE Head(m_listV) # Pill
    <3>1. Len(taken') = Len(taken) + 1
      BY <2>1, <2>4, HeadTailProperties, AppendProperties DEF TypeOK
    <3>2. Len(taken) + 1 \in Requests
      BY <1>0, <2>2, <2>4 DEF Requests
    <3>3. done[Len(taken) + 1] = 0
      BY <1>0, <3>2 DEF HeldOrDone
    <3>4. holds' = [holds EXCEPT ![w] = Len(taken) + 1] /\ wpc' = [wpc EXCEPT ![w] = "dispatch"]
      BY <2>1, <2>2, <2>4
    <3>5. \A v \in Workers : wpc'[v] = "dispatch" =>
             holds'[v] \in 1..Len(taken') /\ done'[holds'[v]] = 0
      BY <1>0, <2>1, <3>1, <3>3, <3>4 DEF TypeOK, HeldOrDone
    <3>6. \A u, v \in Workers :
             wpc'[u] = "dispatch" /\ wpc'[v] = "dispatch" /\ holds'[u] = holds'[v] => u = v
      BY <1>0, <2>1, <3>4 DEF TypeOK, HeldOrDone
    <3>7. \A n \in Requests : \/ n > Len(taken') /\ done'[n] = 0
                              \/ n <= Len(taken') /\ done'[n] = 1
                              \/ \E v \in Workers : wpc'[v] = "dispatch" /\ holds'[v] = n
      BY <1>0, <2>1, <3>1, <3>4 DEF TypeOK, HeldOrDone, Requests
    <3> QED
      BY <3>5, <3>6, <3>7 DEF HeldOrDone
  <2> QED
    BY <2>3, <2>4
<1>4. ASSUME NEW w \in Workers, requestDispatch(w) PROVE HeldOrDone'
  <2>1. /\ wpc[w] = "dispatch" /\ done' = [done EXCEPT ![holds[w]] = @ + 1]
        /\ holds' = [holds EXCEPT ![w] = Pill] /\ wpc' = [wpc EXCEPT ![w] = "pop"]
        /\ UNCHANGED taken
    BY <1>4 DEF requestDispatch
  <2>2. holds[w] \in 1..Len(taken) /\ holds[w] \in Requests /\ done[holds[w]] = 0
    BY <1>0, <2>1 DEF TypeOK, HeldOrDone, QueueInOrder, Requests
  <2>3. done' = [done EXCEPT ![holds[w]] = 1]
    BY <2>1, <2>2
  <2>4. \A v \in Workers : wpc'[v] = "dispatch" =>
           holds'[v] \in 1..Len(taken') /\ done'[holds'[v]] = 0
    BY <2>1, <2>2, <2>3 DEF TypeOK, HeldOrDone
  <2>5. \A u, v \in Workers :
           wpc'[u] = "dispatch" /\ wpc'[v] = "dispatch" /\ holds'[u] = holds'[v] => u = v
    BY <2>1 DEF TypeOK, HeldOrDone
  <2>6. \A n \in Requests : \/ n > Len(taken') /\ done'[n] = 0
                            \/ n <= Len(taken') /\ done'[n] = 1
                            \/ \E v \in Workers : wpc'[v] = "dispatch" /\ holds'[v] = n
    <3> SUFFICES ASSUME NEW n \in Requests
                 PROVE  \/ n > Len(taken') /\ done'[n] = 0
                        \/ n <= Len(taken') /\ done'[n] = 1
                        \/ \E v \in Workers : wpc'[v] = "dispatch" /\ holds'[v] = n
      OBVIOUS
    <3>1. CASE n = holds[w]
      BY <1>0, <2>1, <2>2, <2>3, <3>1 DEF TypeOK
    <3>2. CASE n # holds[w]
      BY <2>1, <2>3, <3>2 DEF TypeOK, HeldOrDone
    <3> QED
      BY <3>1, <3>2
  <2> QED
    BY <2>4, <2>5, <2>6 DEF HeldOrDone
<1>5. ASSUME NEW w \in Workers, runLoop(w) PROVE HeldOrDone'
  <2>1. CASE WorkerLogger
    BY <1>2, <1>5, <2>1 DEF runLoop
  <2>2. CASE ~WorkerLogger
    BY <1>1, <1>5, <2>2 DEF runLoop
  <2> QED
    BY <2>1, <2>2
<1>6. ASSUME NEW w \in Workers, Join(w) PROVE HeldOrDone'
  BY <1>2, <1>6 DEF Join
<1> QED
  BY <1>1, <1>3, <1>4, <1>5, <1>6
  DEF Next, vars, Done, Wait, WakeUp, makeRequest, PushPill, createThreadWorker, destroyThreadWorker

\* PillsCounted: an empty request is counted where it is pushed and where it ends
\* a worker; while requests arrive there is none.
LEMMA PillsStep ==
    TypeOK /\ QueueInOrder /\ PillsCounted /\ [Next]_vars => PillsCounted'
<1> SUFFICES ASSUME TypeOK, QueueInOrder, PillsCounted, [Next]_vars PROVE PillsCounted'
  OBVIOUS
<1>0. /\ Len(m_listV) \in Nat /\ Len(taken) \in Nat /\ made \in Nat /\ pills \in Nat
      /\ Cardinality(Workers) \in Nat /\ pills <= Cardinality(Workers)
  BY FS_CardinalityType, AsyncDataHandlerAssumption DEF TypeOK
<1>a. Exited \subseteq Workers
  BY DEF Exited
<1>b. Cardinality(Exited) \in Nat /\ (Cardinality(Exited) = 0 => Exited = {})
  BY <1>a, FS_Subset, FS_EmptySet, FS_CardinalityType, AsyncDataHandlerAssumption
<1>1. CASE UNCHANGED <<m_listV, wpc, main, pills, made, taken>>
  BY <1>1 DEF PillsCounted, Exited
<1>2. ASSUME NEW w \in Workers, runLoop(w) PROVE PillsCounted'
  <2>1. Exited' = Exited
    BY <1>2 DEF runLoop, Exited, TypeOK
  <2>2. \A u \in Workers : wpc'[u] = "joined" => wpc[u] = "joined"
    BY <1>2 DEF runLoop, TypeOK
  <2>3. UNCHANGED <<m_listV, pills, made, taken>> /\ main' \in {main, "crashed"} /\ main # "done"
    BY <1>2 DEF runLoop
  <2> QED
    BY <2>1, <2>2, <2>3 DEF PillsCounted
<1>3. ASSUME NEW w \in Workers, Take(w) PROVE PillsCounted'
  <2>1. /\ wpc[w] = "pop" /\ m_listV # <<>> /\ m_listV' = Tail(m_listV)
        /\ wpc' = [wpc EXCEPT ![w] = IF Head(m_listV) = Pill THEN "exit" ELSE "dispatch"]
        /\ taken' = IF Head(m_listV) = Pill THEN taken ELSE Append(taken, Head(m_listV))
        /\ UNCHANGED <<main, pills, made>>
    BY <1>3 DEF Take, pop
  <2>2. /\ Len(m_listV') = Len(m_listV) - 1
        /\ Head(m_listV) # Pill => Len(taken) < made
        /\ Head(m_listV) = Pill => Len(taken) = made
    BY <2>1, FrontOfQueue
  <2>3. \A u \in Workers : wpc'[u] = "joined" <=> wpc[u] = "joined"
    BY <2>1 DEF TypeOK
  <2>4. \A u \in Workers : wpc'[u] = "joined" =>
          /\ main' \in {"join", "done", "crashed"}
          /\ main' = "done" => /\ pills' = Cardinality(Workers)
                               /\ \A v \in Workers : wpc'[v] = "joined"
    BY <2>1, <2>3 DEF PillsCounted
  <2>5. /\ main' \in {"setup", "run"} => pills' = 0
        /\ main' = "join" => pills' = Cardinality(Workers)
    BY <2>1 DEF PillsCounted
  <2>6. CASE Head(m_listV) = Pill
    <3>1. Exited' = Exited \cup {w} /\ w \notin Exited
      BY <2>1, <2>6 DEF Exited, TypeOK
    <3>2. Cardinality(Exited') = Cardinality(Exited) + 1
      BY <3>1, <1>a, OneMore
    <3>3. pills' + (made' - Len(taken')) = Len(m_listV') + Cardinality(Exited')
      BY <1>0, <1>b, <2>1, <2>2, <2>6, <3>2 DEF PillsCounted
    <3>4. Len(taken') = made'
      BY <2>1, <2>2, <2>6
    <3> QED
      BY <2>4, <2>5, <3>3, <3>4 DEF PillsCounted
  <2>7. CASE Head(m_listV) # Pill
    <3>1. Exited' = Exited
      BY <2>1, <2>7 DEF Exited, TypeOK
    <3>2. Len(taken') = Len(taken) + 1
      BY <2>1, <2>7, HeadTailProperties, AppendProperties DEF TypeOK
    <3>3. pills' + (made' - Len(taken')) = Len(m_listV') + Cardinality(Exited')
      <4>1. /\ UNCHANGED <<pills, made>> /\ Cardinality(Exited') = Cardinality(Exited)
            /\ pills + (made - Len(taken)) = Len(m_listV) + Cardinality(Exited)
        BY <2>1, <3>1 DEF PillsCounted
      <4> QED
        BY <1>0, <1>b, <2>2, <3>2, <4>1
    <3>4. Exited = {}
      BY <1>0, <2>2, <2>7 DEF PillsCounted
    <3> QED
      BY <2>4, <2>5, <3>1, <3>3, <3>4 DEF PillsCounted
  <2> QED
    BY <2>6, <2>7
<1>4. ASSUME NEW w \in Workers, requestDispatch(w) PROVE PillsCounted'
  <2>1. Exited' = Exited /\ \A u \in Workers : wpc'[u] = "joined" <=> wpc[u] = "joined"
    BY <1>4 DEF requestDispatch, Exited, TypeOK
  <2>2. UNCHANGED <<m_listV, main, pills, made, taken>>
    BY <1>4 DEF requestDispatch
  <2> QED
    BY <2>1, <2>2 DEF PillsCounted
<1>5. ASSUME NEW w \in Workers, Join(w) PROVE PillsCounted'
  <2>1. Exited' = Exited
    BY <1>5 DEF Join, Exited, TypeOK
  <2>2. /\ UNCHANGED <<m_listV, pills, made, taken>> /\ main = "join"
        /\ main' \in {"join", "done"}
        /\ main' = "done" => \A u \in Workers : wpc'[u] = "joined"
    BY <1>5 DEF Join, TypeOK
  <2> QED
    BY <2>1, <2>2 DEF PillsCounted
<1>6. CASE createThreadWorker \/ destroyThreadWorker
  <2>1. Exited' = Exited /\ UNCHANGED <<m_listV, wpc, pills, made, taken>>
    BY <1>6 DEF createThreadWorker, destroyThreadWorker, Exited
  <2>2. main \in {"setup", "run"} /\ main' \in {"run", "done", "pills"} /\ (main' = "run" => main = "setup")
    BY <1>6 DEF createThreadWorker, destroyThreadWorker
  <2> QED
    BY <2>1, <2>2 DEF PillsCounted
<1>7. CASE makeRequest
  <2>1. /\ main \in {"setup", "run"} /\ made' = made + 1 /\ m_listV' = Append(m_listV, made + 1)
        /\ UNCHANGED <<wpc, main, pills, taken>> /\ made + 1 \in Requests
    BY <1>7, AsyncDataHandlerAssumption DEF makeRequest, push, TypeOK, Requests
  <2>2. Len(m_listV') = Len(m_listV) + 1
    BY <2>1, AppendProperties DEF TypeOK
  <2>3. Len(m_listV) = made - Len(taken) /\ pills = 0
    BY <2>1, NoPillYet DEF PillsCounted
  <2>4. Cardinality(Exited) = 0
    BY <1>0, <1>b, <2>3 DEF PillsCounted
  <2>5. Exited' = {} /\ Cardinality(Exited') = 0
    BY <1>b, <2>1, <2>4 DEF Exited
  <2>6. \A w \in Workers : wpc'[w] # "joined"
    BY <2>1 DEF PillsCounted
  <2>7. pills' + (made' - Len(taken')) = Len(m_listV') + Cardinality(Exited')
    BY <1>0, <2>1, <2>2, <2>3, <2>5
  <2> QED
    BY <2>1, <2>3, <2>5, <2>6, <2>7 DEF PillsCounted
<1>8. CASE PushPill
  <2>0. main = "pills" /\ UNCHANGED <<wpc, made, taken>> /\ Exited' = Exited
    BY <1>8 DEF PushPill, Exited
  <2>1. CASE pills < Cardinality(Workers)
    <3>1. m_listV' = Append(m_listV, Pill) /\ pills' = pills + 1 /\ UNCHANGED main
      BY <1>8, <2>1 DEF PushPill, push, notify_one
    <3>2. Len(m_listV') = Len(m_listV) + 1
      BY <3>1, AppendProperties DEF TypeOK
    <3>3. pills' + (made' - Len(taken')) = Len(m_listV') + Cardinality(Exited')
      BY <1>0, <1>b, <2>0, <3>1, <3>2 DEF PillsCounted
    <3> QED
      BY <2>0, <3>1, <3>3 DEF PillsCounted
  <2>2. CASE ~(pills < Cardinality(Workers))
    <3>1. main' = "join" /\ UNCHANGED <<m_listV, pills>> /\ pills = Cardinality(Workers)
      BY <1>0, <1>8, <2>2 DEF PushPill
    <3> QED
      BY <2>0, <3>1 DEF PillsCounted
  <2> QED
    BY <2>1, <2>2
<1> QED
  BY <1>1, <1>2, <1>3, <1>4, <1>5, <1>6, <1>7, <1>8 DEF Next, vars, Done, Wait, WakeUp

\* The three together are the inductive invariant of the pool.
PoolInv == QueueInOrder /\ HeldOrDone /\ PillsCounted

LEMMA PoolInvariant == Spec => []PoolInv
<1>1. Init => PoolInv
  <2> SUFFICES ASSUME Init PROVE PoolInv
    OBVIOUS
  <2>1. Exited = {} /\ Cardinality(Exited) = 0
    BY FS_EmptySet DEF Init, Exited
  <2>2. QueueInOrder
    BY DEF Init, QueueInOrder
  <2>3. HeldOrDone
    BY DEF Init, HeldOrDone, Requests
  <2>4. PillsCounted
    BY <2>1 DEF Init, PillsCounted
  <2> QED
    BY <2>2, <2>3, <2>4 DEF PoolInv
<1>2. TypeOK /\ PoolInv /\ [Next]_vars => PoolInv'
  BY QueueStep, HeldStep, PillsStep DEF PoolInv
<1> QED
  BY <1>1, <1>2, TypeCorrect, PTL DEF Spec

\* Every request is queued once, held by one worker or dispatched once, and the
\* requests leave the queue in the order in which their packets arrived.
THEOREM DispatchedOnce == Spec => []ExactlyOnce
<1>1. ASSUME TypeOK, PoolInv PROVE ExactlyOnce
  <2> USE <1>1
  <2>0. /\ Len(m_listV) \in Nat /\ Len(taken) \in Nat /\ made \in 0..MaxRequests
        /\ MaxRequests \in Nat /\ DOMAIN m_listV = 1..Len(m_listV)
    BY AsyncDataHandlerAssumption DEF TypeOK
  <2>1. taken = [i \in 1..Len(taken) |-> i]
    BY DEF TypeOK, PoolInv, QueueInOrder
  <2>2. ASSUME NEW n \in 1..made
        PROVE  Cardinality({i \in DOMAIN m_listV : m_listV[i] = n})
               + Cardinality({w \in Workers : wpc[w] = "dispatch" /\ holds[w] = n}) + done[n] = 1
    <3> DEFINE queued == {i \in DOMAIN m_listV : m_listV[i] = n}
               held   == {w \in Workers : wpc[w] = "dispatch" /\ holds[w] = n}
    <3>0. n \in Requests /\ n \in Nat /\ n >= 1 /\ n <= made
      BY <2>0, <2>2 DEF Requests
    <3>1. CASE n > Len(taken)
      <4>1. queued = {n - Len(taken)}
        <5>1. n - Len(taken) \in 1..Len(m_listV)
          BY <2>0, <3>0, <3>1 DEF PoolInv, QueueInOrder
        <5>2. \A i \in 1..Len(m_listV) : m_listV[i] = n <=> i = n - Len(taken)
          BY <2>0, <3>0, <3>1 DEF PoolInv, QueueInOrder, Pill
        <5> QED
          BY <2>0, <5>1, <5>2
      <4>2. held = {}
        BY <2>0, <3>0, <3>1 DEF PoolInv, HeldOrDone
      <4>3. done[n] = 0
        BY <2>0, <3>0, <3>1, <4>2 DEF PoolInv, HeldOrDone
      <4>4. Cardinality(queued) = 1 /\ Cardinality(held) = 0
        BY <4>1, <4>2, FS_Singleton, FS_EmptySet
      <4> QED
        BY <4>3, <4>4
    <3>2. CASE ~(n > Len(taken)) /\ held = {}
      <4>1. queued = {}
        BY <2>0, <3>0, <3>2 DEF PoolInv, QueueInOrder, Pill
      <4>2. done[n] = 1
        BY <2>0, <3>0, <3>2 DEF PoolInv, HeldOrDone
      <4>3. Cardinality(queued) = 0 /\ Cardinality(held) = 0
        BY <3>2, <4>1, FS_EmptySet
      <4> QED
        BY <4>2, <4>3
    <3>3. CASE ~(n > Len(taken)) /\ held # {}
      <4>1. queued = {}
        BY <2>0, <3>0, <3>3 DEF PoolInv, QueueInOrder, Pill
      <4>2. PICK w \in held : TRUE
        BY <3>3
      <4>3. done[n] = 0
        BY <4>2 DEF PoolInv, HeldOrDone
      <4>4. held = {w}
        BY <4>2 DEF PoolInv, HeldOrDone
      <4>5. Cardinality(queued) = 0 /\ Cardinality(held) = 1
        BY <4>1, <4>4, FS_EmptySet, FS_Singleton
      <4> QED
        BY <4>3, <4>5
    <3> QED
      BY <3>1, <3>2, <3>3
  <2> QED
    BY <2>1, <2>2 DEF ExactlyOnce
<1> QED
  BY <1>1, PoolInvariant, TypeCorrect, PTL

\* When the destructor of a working handler has joined its workers, the queue is
\* empty and every request that arrived has been dispatched.
THEOREM NothingLeftBehind == Spec => []ShutdownDrains
<1>1. ASSUME TypeOK, PoolInv PROVE ShutdownDrains
  <2> SUFFICES ASSUME main = "done", NEW w \in Workers, wpc[w] = "joined"
               PROVE  /\ m_listV = <<>>
                      /\ \A u \in Workers : wpc[u] = "joined"
                      /\ \A n \in 1..made : done[n] = 1
    BY DEF ShutdownDrains
  <2> USE <1>1
  <2>1. pills = Cardinality(Workers) /\ \A u \in Workers : wpc[u] = "joined"
    BY DEF PoolInv, PillsCounted
  <2>2. Exited = Workers
    BY <2>1 DEF Exited
  <2>3. Len(taken) = made
    BY <2>2 DEF PoolInv, PillsCounted
  <2>4. Len(m_listV) = 0
    <3>1. Cardinality(Workers) \in Nat
      BY FS_CardinalityType, AsyncDataHandlerAssumption
    <3>2. Len(m_listV) \in Nat /\ made \in Nat
      BY AsyncDataHandlerAssumption DEF TypeOK
    <3>3. Cardinality(Workers) + (made - made) = Len(m_listV) + Cardinality(Workers)
      BY <2>1, <2>2, <2>3 DEF PoolInv, PillsCounted
    <3> QED
      BY <3>1, <3>2, <3>3
  <2>5. m_listV = <<>>
    BY <2>4 DEF TypeOK
  <2>6. \A n \in 1..made : done[n] = 1
    BY <2>1, <2>3, AsyncDataHandlerAssumption DEF PoolInv, HeldOrDone, TypeOK, Requests
  <2> QED
    BY <2>1, <2>5, <2>6
<1> QED
  BY <1>1, PoolInvariant, TypeCorrect, PTL
=============================================================================
