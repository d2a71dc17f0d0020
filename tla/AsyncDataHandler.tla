-------------------------- MODULE AsyncDataHandler --------------------------
(***************************************************************************)
(* CAsyncDataHandler (libevwork_full/jsmfc/AsyncDataHandler.h and .cpp):   *)
(* the loop thread puts requests into TRequestQueue, CThreadWorker threads *)
(* take them out and dispatch them.  The destructor puts one empty request *)
(* per worker behind everything else and joins the workers one by one.     *)
(*                                                                         *)
(* push and pop hold the queue's mutex; pop gives it up only inside        *)
(* m_cond.wait, so the wait, and what follows a wake-up, are two actions.  *)
(***************************************************************************)
EXTENDS Integers, Sequences, FiniteSets

CONSTANTS Workers,     \* the workers setWorking creates
          MaxRequests, \* bound: requests that arrive
          WorkerLogger \* does LOG find a logger in a worker thread?  CThreadEnv is
                       \* per thread and no code sets one there: FALSE as the code
                       \* is, TRUE for the pool behind its first LOG

ASSUME AsyncDataHandlerAssumption ==
    /\ Workers # {} /\ IsFiniteSet(Workers)
    /\ MaxRequests \in Nat \ {0}
    /\ WorkerLogger \in BOOLEAN

VARIABLES
    m_listV,     \* the queue; 0 is the empty request that ends a worker
    waiting,     \* the workers inside m_cond.wait that have not been woken
    wpc,         \* wpc[w]: "new", "pop", "dispatch", "exit" or "joined"
    holds,       \* holds[w]: the request w dispatches, 0 for none
    main,        \* the loop thread: "setup", "run", "pills", "join" or "done";
                 \* "crashed" when the process is gone
    pills,       \* empty requests pushed so far
    made,        \* history: requests made so far; request n is the number n
    taken,       \* history: the requests popped, in order
    done         \* history: done[n]: how often request n has been dispatched

vars == <<m_listV, waiting, wpc, holds, main, pills, made, taken, done>>

Requests == 1..MaxRequests
Pill     == 0

TypeOK ==
    /\ m_listV \in Seq(Requests \cup {Pill})
    /\ waiting \subseteq Workers
    /\ wpc \in [Workers -> {"new", "pop", "dispatch", "exit", "joined"}]
    /\ holds \in [Workers -> Requests \cup {Pill}]
    /\ main \in {"setup", "run", "pills", "join", "done", "crashed"}
    /\ pills \in 0..Cardinality(Workers)
    /\ made \in 0..MaxRequests
    /\ taken \in Seq(Requests)
    /\ done \in [Requests -> Nat]

Init ==
    /\ m_listV = <<>> /\ waiting = {}
    /\ wpc = [w \in Workers |-> "new"]
    /\ holds = [w \in Workers |-> Pill]
    /\ main = "setup" /\ pills = 0 /\ made = 0 /\ taken = <<>>
    /\ done = [n \in Requests |-> 0]

-----------------------------------------------------------------------------
\* push(): append, then notify_one wakes one waiting worker if there is any.
notify_one ==
    IF waiting = {} THEN UNCHANGED waiting
                    ELSE \E w \in waiting : waiting' = waiting \ {w}

push_NoNotify(v) ==                                         \* mutant: notify_one() missing
    m_listV' = Append(m_listV, v) /\ UNCHANGED waiting
push_OnlyFirst(v) ==                                        \* mutant: notifies only for an empty queue
    /\ m_listV' = Append(m_listV, v)
    /\ IF m_listV = <<>> THEN notify_one ELSE UNCHANGED waiting

push(v) == m_listV' = Append(m_listV, v) /\ notify_one

Running == main # "crashed"

\* pop(): wait while the queue is empty, else take its front.
Wait(w) ==
    /\ Running
    /\ wpc[w] = "pop" /\ w \notin waiting
    /\ m_listV = <<>>
    /\ waiting' = waiting \cup {w}
    /\ UNCHANGED <<m_listV, wpc, holds, main, pills, made, taken, done>>

pop_Keep(w) ==                                              \* mutant: pop_front() missing
    /\ wpc[w] = "pop" /\ w \notin waiting
    /\ m_listV # <<>>
    /\ holds' = [holds EXCEPT ![w] = Head(m_listV)]
    /\ UNCHANGED <<m_listV, waiting>>

pop(w) ==
    /\ wpc[w] = "pop" /\ w \notin waiting
    /\ m_listV # <<>>
    /\ m_listV' = Tail(m_listV)
    /\ holds' = [holds EXCEPT ![w] = Head(m_listV)]
    /\ UNCHANGED waiting

\* runLoop: an empty request ends the worker, any other one is dispatched.
Take(w) ==
    /\ Running /\ pop(w)
    /\ wpc' = [wpc EXCEPT ![w] = IF Head(m_listV) = Pill THEN "exit" ELSE "dispatch"]
    /\ taken' = IF Head(m_listV) = Pill THEN taken ELSE Append(taken, Head(m_listV))
    /\ UNCHANGED <<main, pills, made, done>>

\* __requestDispatch: the handler runs to its end, or throws and is caught.
requestDispatch(w) ==
    /\ Running /\ wpc[w] = "dispatch"
    /\ done' = [done EXCEPT ![holds[w]] = @ + 1]
    /\ holds' = [holds EXCEPT ![w] = Pill]
    /\ wpc' = [wpc EXCEPT ![w] = "pop"]
    /\ UNCHANGED <<m_listV, waiting, main, pills, made, taken>>

\* A worker may wake up without having been notified; pop looks again.
WakeUp(w) ==
    /\ Running /\ w \in waiting
    /\ waiting' = waiting \ {w}
    /\ UNCHANGED <<m_listV, wpc, holds, main, pills, made, taken, done>>

-----------------------------------------------------------------------------
\* setWorking(): the threads are created ...
createThreadWorker ==
    /\ main = "setup"
    /\ main' = "run"
    /\ UNCHANGED <<m_listV, waiting, wpc, holds, pills, made, taken, done>>

\* ... and each begins with LOG, which calls through the logger of its thread.
runLoop(w) ==
    /\ main \in {"run", "pills", "join"} /\ wpc[w] = "new"
    /\ IF WorkerLogger
       THEN wpc' = [wpc EXCEPT ![w] = "pop"] /\ UNCHANGED main
       ELSE main' = "crashed" /\ UNCHANGED wpc
    /\ UNCHANGED <<m_listV, waiting, holds, pills, made, taken, done>>

\* __makeRequest, for a packet that arrives; also before setWorking().
makeRequest ==
    /\ main \in {"setup", "run"}
    /\ made < MaxRequests
    /\ made' = made + 1
    /\ push(made + 1)
    /\ UNCHANGED <<wpc, holds, main, pills, taken, done>>

\* The destructor: one empty request per worker ...
destroyThreadWorker ==
    /\ main \in {"setup", "run"}
    /\ main' = IF main = "setup" THEN "done" ELSE "pills"      \* m_vecWorker may be empty
    /\ UNCHANGED <<m_listV, waiting, wpc, holds, pills, made, taken, done>>

PushPill_TooFew ==                                          \* mutant: i starts at 1
    /\ main = "pills"
    /\ IF pills < Cardinality(Workers) - 1
       THEN push(Pill) /\ pills' = pills + 1 /\ UNCHANGED main
       ELSE main' = "join" /\ UNCHANGED <<m_listV, waiting, pills>>
    /\ UNCHANGED <<wpc, holds, made, taken, done>>

PushPill ==
    /\ main = "pills"
    /\ IF pills < Cardinality(Workers)
       THEN push(Pill) /\ pills' = pills + 1 /\ UNCHANGED main
       ELSE main' = "join" /\ UNCHANGED <<m_listV, waiting, pills>>
    /\ UNCHANGED <<wpc, holds, made, taken, done>>

\* ... then join and delete every worker.
Join_NoWait(w) ==                                           \* mutant: deletes without joining
    /\ main = "join" /\ wpc[w] # "joined"
    /\ wpc' = [wpc EXCEPT ![w] = "joined"]
    /\ main' = IF \A u \in Workers \ {w} : wpc[u] = "joined" THEN "done" ELSE "join"
    /\ UNCHANGED <<m_listV, waiting, holds, pills, made, taken, done>>

Join(w) ==
    /\ main = "join" /\ wpc[w] = "exit"
    /\ wpc' = [wpc EXCEPT ![w] = "joined"]
    /\ main' = IF \A u \in Workers \ {w} : wpc[u] = "joined" THEN "done" ELSE "join"
    /\ UNCHANGED <<m_listV, waiting, holds, pills, made, taken, done>>

Done == main \in {"done", "crashed"} /\ UNCHANGED vars

Next ==
    \/ \E w \in Workers : \/ runLoop(w) \/ Wait(w) \/ WakeUp(w) \/ Take(w)
                          \/ requestDispatch(w) \/ Join(w)
    \/ createThreadWorker \/ makeRequest \/ destroyThreadWorker \/ PushPill
    \/ Done

Spec == Init /\ [][Next]_vars

\* Threads are scheduled and handlers return; some thread gets the mutex, not
\* any particular one.  That the destructor is ever called is not assumed.
FairSpec ==
    /\ Spec
    /\ \A w \in Workers : /\ WF_vars(runLoop(w)) /\ WF_vars(requestDispatch(w))
                          /\ WF_vars(Join(w))
    /\ WF_vars(\E w \in Workers : Take(w))
    /\ WF_vars(PushPill)

-----------------------------------------------------------------------------
Awake == {w \in Workers : wpc[w] = "pop" /\ w \notin waiting}

\* Every request is in exactly one place: in the queue once, with one worker, or
\* dispatched once; and they left the queue in the order in which their packets arrived.
ExactlyOnce ==
    /\ taken = [i \in 1..Len(taken) |-> i]
    /\ \A n \in 1..made :
          LET queued == {i \in DOMAIN m_listV : m_listV[i] = n}
              held   == {w \in Workers : wpc[w] = "dispatch" /\ holds[w] = n}
          IN  Cardinality(queued) + Cardinality(held) + done[n] = 1

\* No wake-up is lost: as long as a worker sleeps in pop, every entry of the
\* queue has a worker of its own that is awake and about to take one.
NoLostWakeUp == waiting # {} => Len(m_listV) <= Cardinality(Awake)

\* When the destructor of a handler that was working returns, nothing is left
\* in the queue and every request has been dispatched: the empty requests are
\* behind all others.
ShutdownDrains ==
    main = "done" /\ (\E w \in Workers : wpc[w] = "joined") =>
        /\ m_listV = <<>>
        /\ \A w \in Workers : wpc[w] = "joined"
        /\ \A n \in 1..made : done[n] = 1

\* The library supports several threads (README.md:7): starting the workers
\* does not end the process.
WorkersStart == main # "crashed"

\* The destructor returns, however many workers sleep or are busy.
ShutdownEnds == (main = "pills") ~> (main = "done")

\* Once the workers run, every request that arrives is dispatched.
EveryRequestServed ==
    \A n \in Requests : (main = "run" /\ made >= n) ~> (done[n] = 1)
=============================================================================
