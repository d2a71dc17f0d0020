# TLA+ models of c-libs

`c-libs` is a collection of C and C++ libraries. Its own core is **libevwork_full**, a
network engine on top of libev: one event loop per thread, non-blocking connections with
input and output buffers, a connection manager, a framing layer with a message map
(`jsmfc` for JSON bodies, `pbmfc` for protobuf), a writer that hands packets from worker
threads to the loop, and a pool of worker threads. Beside it stand **libevwork_using**, an
older single-threaded engine with the robot client of a card game as its sample, and the
intrusive containers of `Queue` and `Rbtree`. These modules model them from their source.
By lines almost all of the repository is third-party code (glib, libev), which is not
modelled; the project's own part is about two hundredths of it.

## Inventory

| Component | State | Operations | Correct when |
|---|---|---|---|
| `CBuffer` (Buffer.h) | memory, capacity, head and tail offset | append, erase, reset, inc_capacity, inc_size, tail, operator= | a byte queue whose contents stay inside its allocation |
| `CClientConn` | connected flag, m_Input, m_Output, two event handles, two timers | constructors, sendBin, __onRead, __onWrite, no-data timer, destroy timer, destructor | bytes are neither lost, repeated nor reordered; a connection that fails is released; nothing in the loop points to a freed one |
| `CConnManager` | map by number, map by `ip:port`, last number, listeners | getConn, getConnByIpPort, onConnected, onClose, addLE, delLE | a lookup never returns a freed or another connection; listeners know what is open |
| `CListenConn` | listening descriptor | cbAccept | every accepted descriptor becomes one connection |
| `CEVLoop`, handles | set of handles with a started watcher | setHandle, delHandle, runLoop | external scheduling (libev) |
| `CWriter` | none of its own | send: look up by address, sendBin | packets for an address leave in the order they were sent |
| `CAsyncWriter`, `CThreadWriter` | a packet vector per thread, the vector of writers, eventfd, m_bFlushing | send, flush, __cbFlush, __onHandlerFlush, __flushReal | each packet goes out once, in the order of its thread; flush() wakes the loop |
| `CDataHandler`, `CMfcAppContext` | packet limit, counters, map of entries | onData, __makeRequest, addEntry, RequestDispatch, __onHandlerPrint | requests are the packets that were sent, however the stream is cut |
| `CAsyncDataHandler`, `CThreadWorker`, `TRequestQueue` | list of requests, condition variable, workers | setWorking, __makeRequest, push, pop, runLoop, destructor | each request is dispatched once; no wake-up is lost; the destructor returns |
| `CThreadEnv` | per-thread pointers (loop, logger, ...) | setters and getters | |
| `TimerHandler`, logger, exceptions | | | |
| `libevwork_using` | connections (std::string buffers), maps of connections | connectServer, sendBin, onClose, JSON framing | as the engine; its sendBin deletes the connection at once |
| robot client (`libevwork_using/sample`) | `g_args`: queues of robots and of descriptors to disconnect per server, `robots`, `cmap`, `conMap`; timers and flags per client | four timers of main.cpp, the signal, addUser, the callbacks of a client, onClose, the reload of the configuration | no table leads to a deleted object; no robot is lost or doubled; a disconnection hits the connection that was meant; after the signal the process ends |
| `HandCards` (its card library) | hand, melds, six counters, flags | deal, open, chi, peng, wei, pao, ti, out, pass, take up again; the robot's removeCard | counters agree with the cards; what a check allows can be done |
| `libtinyredis` | hiredis context per client, index of servers | command, connect, auth | only what its failures do to the robot client |
| `Queue` (ngx_queue) | next and prev pointers | insert, remove, split, add, middle, sort | two lists of the same nodes, forwards and backwards; the sort is stable |
| `Rbtree` (ngx_rbtree) | pointers, colours, two insert callbacks | insert, delete, minimum | ordered, balanced, equal keys in the order of insertion |
| `SList/list.h`, `ngx_crc32`, glib, libev | third-party code | | not modelled |

Interaction: libev calls `CListenConn::cbAccept`, `CClientConn::cbEvent` and the timers in
the loop thread. A connection calls the connection manager (`onConnected`, `onClose`),
which calls the listeners, and the data event (`onData`), which dispatches to the
application or pushes to the worker pool. The application calls `sendBin` back on the same
connection, possibly from inside those callbacks, or through a `CWriter` found by address.
Worker threads may touch a connection only through `CAsyncWriter`. In the robot client the
callbacks of one loop share the tables of `g_args`, keyed by uid and by descriptor.

The hard behaviours: callbacks that re-enter the connection they come from; a release that
is postponed to a timer; peers that stop reading, close or reset between any two steps;
objects found through maps that outlive them; connection numbers that wrap; two threads
and a plain `bool`; a condition variable with `notify_one`; a shutdown that joins sleeping
threads; streams cut at any byte; descriptors and addresses that are used again while a
table or a queue still names their last owner; pointer surgery. `PROJECT.json` lists each at its line, under `hazards`.

## Modules

| Module | Models | Correspondence |
|---|---|---|
| `Buffer` | Buffer.h | operators on a buffer value `[cap, head, bytes]`: m_capacity, m_head_off and the bytes between the offsets. Bytes from elsewhere in memory are `Junk`. |
| `CBuffer` | one buffer object | one action per public call, beside the history `fifo`, what an exact byte queue would hold, and `torn`, whether a call outside the exact uses was made |
| `ByteQueue` | the promise of a buffer | abstract specification: put at the end, take from the front, clear |
| `ClientConn` (uses `Buffer`) | ClientConn.cpp | one action per callback; the recv loop of `__onRead` is one action per round because the peer acts between rounds. Everything `sendBin` touches is one record `tx`, so that a callback which calls the application can apply `sendBin` to it (`AppSends`). Kernel and peer are `so`, `rx`, `fin`, `tx.load`, `tx.rst`. |
| `ConnManager` | ConnManager.cpp with creation and end of its connections | both maps, m_uLastConnId modulo `CidMod`, m_setLE; connections are object addresses and are used again |
| `Writer` (extends `ConnManager`) | Writer.cpp on the two maps | `send` is getConnByIpPort followed by sendBin; a connection is reduced to the set of packets in its output buffer (`ClientConn` shows that bytes keep their order there) |
| `AsyncWriter` | AsyncWriter.cpp | `pc[t]` is where a thread is in send or flush: the read of m_bFlushing, the write to the eventfd and the assignment to m_bFlushing are three steps. `loop` is the position of the loop in `__flushReal`. A behaviour ends where the loop uses a deleted writer (`badAccess`): nothing is claimed of what a freed mutex and vector do |
| `DataHandler` | jsmfc/DataHandler.cpp, MfcAppContext.cpp and the `pbmfc` twins | a byte is its position in the stream; one action per round of the loop of onData |
| `AsyncDataHandler` | jsmfc/AsyncDataHandler.{h,cpp} and the `pbmfc` twin | push and pop under the mutex are one step each, the wait inside pop is another; the empty request is 0 |
| `NgxQueue` | ngx_queue.h, ngx_queue.c | `ring` is the heap of next and prev pointers, one operator per macro; the history `lists` is what each queue should hold. `ngx_queue_sort` is the insertion sort, node by node |
| `NgxRbtree` | ngx_rbtree.h, ngx_rbtree.c | root, children, parents and colours; left and right cases share one definition with the side as a parameter. Timer keys are compared modulo `KeyMod`, the signed difference of the code |
| `HandCards` | Cardlib/handCards.cpp, card.h | `hc` is the object, field by field; checks and calls are operators on it, actions are a check followed by its call, the order handCards.h asks for. `user` tells who that is: somebody who plays by the rules of the library, or the robot client, which keeps a hand from the reports of the server, with `outHandCard` and with `removeCard` called directly (Client.cpp:655); the history `removed` counts what the latter took. An offer of checkChi is the first meld with those that _checkBi requires |
| `Robots` | libevwork_using/sample with the parts of ClientConn, ConnManager and libtinyredis it depends on | `w` is `g_args` with the objects its pointers lead to; handlers are operators from `w` to `w` because they call each other (a send that deletes its client, an onClose inside a disconnection). `fault` ends a behaviour where the code uses what it has deleted. A login may end in a round that is under way (`TableInfo`), the server may grant a logout in a round, and `short` is the type of `Client::m_fd` |
| `MC*` | | constants for TLC; `MCContainers` holds the sequential structures side by side, a behaviour uses one |
| `BufferLemmas` | | what each operation of `Buffer` returns, for the two modules that use it |
| `ContainerProofs` (of `CBuffer` and `NgxQueue`), `ClientConnProofs`, `ConnManagerProofs` (with `Writer`), `AsyncWriterProofs`, `DataHandlerProofs`, `AsyncDataHandlerProofs`, `RobotsProofs` | | theorems |

Definitions ending in a word after an underscore (`calc_capacity_RoundDown`, `pop_Keep`)
are deliberately wrong variants, used to show that a property notices the mistake.

Constants that select a variant of the code or of its environment:

* `MemcpyIsMemmove`: `__try_increment` copies between overlapping areas with memcpy, which
  is undefined. FALSE is a library that copies from the far end, TRUE one that behaves like
  memmove.
* `CloseSends`: does a listener call sendBin from `onClose`? The interface allows it.
* `MayExit`: may a thread that has used `CAsyncWriter` end while the loop runs? The pool's
  own workers do.
* `WorkerLogger`: does `LOG` find a logger in a worker thread? As the code is, nobody sets
  one (FALSE). TRUE is the pool behind that point, and what the other properties are about.

## Runs

| Run | Result | Shows |
|---|---|---|
| `containers` | pass | buffer: `TailInsideAllocation`: the offsets, and so every write, stay inside the allocation (the block move of erase may still read past its end); `IntactUnlessTorn`: as long as no memcpy overlaps and no block move leaves bytes behind, the contents are those of a byte queue. Queue: `RingIsList`, `MiddleIsMiddle`. Tree: `WalkInOrder`, `RedBlack`, also when timer keys wrap. Cards: `CardsAddUp` (for the robot's object: the counters removeCard does not adjust are ahead by exactly what it took), `ChecksHold` |
| `buffer_queue` | violation | `CBuffer` does not implement `ByteQueue`: the memmove in erase starts `_size` bytes too late (Buffer.h:77) |
| `conn` | pass | one connection, from either constructor to its destructor: `WriteEventArmed` (output never waits without a write event), `StreamIntact`, `InputIntact` (while the object lives), `BuffersBounded`, `LinkEventsMatch`, `FreedIsInert`; and, with fairness, `FailedIsFreed`, `OutputDrains`, `PeerGoneIsFreed` |
| `conn_close` | violation | with a listener that sends from onClose, a watcher or timer of a freed connection stays in the loop |
| `manager` | pass | `NoDanglingEntry` also after the numbers wrap; `ReachableById` until they do; `LostOnlyByClobber`: an outgoing connection leaves the map by address only because another connection with the same address ended; `ListenersUpToDate`; `NothingOvertaken`: what CWriter sends to an address leaves in order, except after such a clobber |
| `writer` | pass | `FifoPerThread` and `EveryPacketSent`: the timer makes up for a lost notification, as long as the loop does not meet a deleted writer |
| `writer_notify` | violation | `flush()` can return with packets waiting, m_bFlushing set and no notification under way |
| `writer_exit` | violation | `__flushReal` uses the writer of a thread that has ended |
| `framing` | pass | `RequestsAreThePackets`, `NoPacketWaits`, `ClosedForAReason`, `CountersAddUp`, `EveryPacketDispatched` |
| `pool` | pass | `ExactlyOnce` (and in order), `NoLostWakeUp`, `ShutdownDrains`, `ShutdownEnds`, `EveryRequestServed` |
| `pool_log` | violation | the first LOG of a worker calls through a NULL logger |
| `robots` | pass | `TablesMatch`: no callback finds NULL or a deleted object in a table, until a descriptor does not fit into a short; `RobotsConserved` and `KillsAreMeant` up to the reloads they name; `PlayersFinish`: a robot that was dealt its cards is put into a kill queue only when the server has let it go; `QuitEnds` |

The type invariants state the ranges of the variables. That of `ConnManager` is checked and
proved, those of `ClientConn`, `DataHandler`, `AsyncDataHandler`, `AsyncWriter` and
`Robots` are proved; the others are there for the reader.

### Bounds

* `containers`, buffer: blocks of 3 bytes and up to 7 bytes in the buffer: capacities of two
  and three blocks, contents that slide, overlap and cross a block. MinBlock = 2 keeps the
  rounding and the minimum apart; MinBlock = 1, that of the connection, is in the `conn`
  runs. Queue: two heads and four nodes, two of them with equal keys, so that splitting,
  joining and the stability of the sort all happen. Tree: seven nodes, enough for every
  case of insertion and deletion on both sides, three with equal keys, on a clock modulo 16
  that starts at 13 and wraps between the fourth and the fifth. Cards: every hand of eight
  cards of seven kinds with at most two of a kind, except the two kinds of point 2, which
  occur up to four times: all types of meld, two opening fours, and offers of three melds;
  then two calls, enough for a meld that is made and grows. The robot gets the same hands
  and two reports.
* `conn`: blocks, limits and read size of 2 bytes, a kernel buffer of 1, messages of 1, 2
  and 4 bytes, 5 bytes sent and 3 received: a message goes out at once, waits in part or
  overflows before or after a part has gone; input fits a round, needs two, or overflows.
* `manager`: three objects, two addresses, numbers modulo 4 and five of them given out, so
  that the counter wraps while an old connection is still there; two packets, one of which
  can overtake the other. Symmetric in objects.
* `writer`: two threads with two packets each: the race on m_bFlushing needs one thread in
  flush() and the loop, its effect a second flush().
* `framing`: a header of 2 bytes, lengths 1, 2, 4 and 6, the limit 4 or none, an input
  buffer of 5, three packets in every cutting: too short, header only, at the limit, above
  the limit, and legal but larger than m_Input. m_uProc counts modulo 2.
* `pool`: three workers and four requests: fewer, as many and more requests than sleepers.
* `robots`: two robots, one server, two descriptors that fit into a short and one that does
  not, and one reload, in which the configuration and Redis yield one robot or both. Descriptors and objects are used again
  by the same and by the other robot. Three robots, two servers or two reloads take more
  than five minutes; the second reload is what the exceptions of `RobotsConserved` and
  `KillsAreMeant` are about.

`CHECK_DEADLOCK FALSE` appears in the `conn`, `writer` and `robots` configurations only: a
freed connection stops, and so do a process that has ended and a behaviour in which the
loop has used a deleted writer.

### Fairness

libev is level-triggered, so a callback whose event stays pending is run (weak fairness of
the callbacks and of the destroy timer), and a callback that has started ends. A connect
attempt ends, and the peer's host acknowledges data (`ConnectEnds`, `PeerReads`): without
that `OutputDrains` is not the engine's to promise. The no-data timer is not assumed to
fire, so nothing depends on it. In `AsyncWriter` a call that has started ends; a thread gets
m_lockVecWriter by strong fairness, because the loop gives it up for most of each second;
no thread is assumed to call flush(). In the pool some worker gets the mutex, not any
particular one, and neither the destructor nor spurious wake-ups are assumed to happen. In
`DataHandler` received bytes are read and onData returns. In `Robots` the timers of main.cpp
run, and for every client one of the things that are due happens (`Due`, one condition for
all of them together): a timer of it runs, its connect attempt ends, the server answers what
it was sent or ends the round, or a connection on which nothing more is to come is ended by
the server or by uConnTimeout. This is assumed between the signal and a reload only, since
`QuitEnds` promises nothing else; that a configuration is read again, a player enters or the
signal comes is not assumed.

## Proofs

TLAPS proves, for every value of the constants that satisfies the named assumptions:

* `ConnManagerProofs` (from `ConnManagerAssumption`): `TypeCorrect`, `NoDangling`,
  `Reachable`, `OnlyClobber` and `Listeners`. NoDanglingEntry is not inductive: an entry by
  number of a connection that is still connecting would survive that connection, because
  `onClose` erases by the number 0 it has then. `EntriesValid` adds that entries by number
  belong to connected connections that carry that number. `Reachable` needs `NumbersFresh`:
  until the wrap the numbers in use lie in 1..issued and the next one is issued + 1.
  `Listeners` needs that an unregistered listener has been told of nothing.
* `ConnManagerProofs`, second half (from the assumptions of `ConnManager` and `Writer`):
  `WriterImplementsConnManager`, the composition implements the specification of the
  manager, so that all theorems above hold of it, and `SentInOrder`. NothingOvertaken needs
  `PacketsPosted` (numbers are given out by send), and `OnlyOutgoingHold`: the map by
  address leads to outgoing connections only, so nothing waits in an accepted connection or
  in one that has been freed. That a set of waiting packets has an oldest one is
  `OldestExists`, from the well-foundedness of the natural numbers.
* `BufferLemmas` and `ContainerProofs`, first part (from `BufferAssumption`, `CBufferAssumption`):
  `InsideAllocation` and `Intact`. The argument has one lemma per operation
  (`IncrementFacts`, `AppendFacts`, `IncSizeFacts`, `EraseFacts`): each keeps the offsets
  inside the allocation and, in its exact uses, changes the contents as a byte queue would.
  `CapacitySuffices` is the arithmetic of __calc_capacity. The invariant `BufInv` joins both
  theorems because the room for new bytes depends on the capacity.
* `ClientConnProofs` (from `BufferAssumption`, `ClientConnAssumption`): `TypeCorrect`,
  `WritesAreArmed`, `OutputInOrder`, `InputInOrder`, `BuffersStayBounded`,
  `LinkEventsPaired` and `DestructorLeavesNothing`. The invariant `ConnInv` has four parts,
  each preserved on its own: `Life` (`LifeStep`: __onRead runs only on a live and connected
  object, and the link events match), `TxSide` (`TxStep`), `RxSide` (`RxStep`) and `Flags`
  (`FlagsStep`). The sending side is a value that callbacks pass to sendBin, so the argument
  about it is one lemma per operator on that value, for any value that satisfies `TxInv`:
  `Kept` says what a call of sendBin keeps, `SendBinKept` shows it for the direct and the
  queued way and for every answer of the kernel, `AppSendsKept` for a call from inside any
  callback. `StreamIntact` is not inductive across the destructor: a connection that is
  freed with output waiting has sent a prefix only, and with `CloseSends` onClose may send
  more. `Ended` says what is true then: a prefix, which is everything accepted if nothing
  waits, because only then sendBin sends at once. `TxSide` also says that m_Output is empty before
  the constructor: the one for accepted connections starts without a write event.
  `DestructorLeavesNothing` assumes `~CloseSends`; the run `conn_close` shows that it must.
  `InputInOrder` is about a living object: what the callback that meets the end of the
  stream has read before it (ClientConn.cpp:463) goes with the object.
* `AsyncWriterProofs` (from `AsyncWriterAssumption`): `TypeCorrect`, `PacketsInOrder` and
  `OnlyExitDeletes`. FifoPerThread needs to know what a thread inside send has counted and
  not pushed (`SendingCounted`). `OnlyExitDeletes` assumes `~MayExit`: the end of a thread
  is the only way to the use of a deleted writer that the run `writer_exit` shows.
* `AsyncDataHandlerProofs` (from the assumption of `AsyncDataHandler`): `TypeCorrect`,
  `WakeUpsKept`, `DispatchedOnce` and `NothingLeftBehind`, for any number of workers and
  requests. NoLostWakeUp needs only that a worker which sleeps is inside pop
  (`SleepersPop`). The other two rest on `PoolInv`: `QueueInOrder` (the requests in the
  queue are the next ones, and only empty requests follow them), `HeldOrDone` (a request
  taken is held by one worker or has been dispatched once) and `PillsCounted` (the empty
  requests in the queue and the workers that have ended make up those that were pushed, and
  a worker ends only when no request is left). The last one counts workers as the
  cardinality of a set.
* `DataHandlerProofs` (from `DataHandlerAssumption`): `TypeCorrect`, `Requests`,
  `NoWaiting`, `Closed` and `Counters`. The invariant is `Contiguous`, the packets follow each other
  without a gap, and `InStep`, the loop is always at the start of the packet after the last
  one it dispatched; without it the length read could be a part of a body. `AtNextPacket`
  draws the consequence: what the loop reads as a header is the header of the next packet.
  `Counters` needs the uniqueness of quotient and remainder (`Remainder`), from which
  `CountOn` shows that counting on modulo `ProcMod` keeps two counters in agreement.

* `ContainerProofs`, second part (from `NgxQueueAssumption`): `RingStaysList` and
  `MiddleStaysMiddle`, for any number of queues and nodes and any keys. RingIsList says what
  a walk through a queue meets; `QueueInv` says what the pointers are: every queue is a
  `Cycle` through its head and its nodes, in both directions, no cell is in two queues
  or twice in one, and a cell outside has whatever the last operation left there. Without
  the second part an insertion into one queue could break another (`Frame` is the
  lemma that it does not). One lemma per macro shows what becomes of the cycle. The
  sort is a loop in a loop: the inner one, which looks for the place from the back, stops
  at the last node that is not greater, and so the outer one keeps a sorted and stable
  part in front of the rest. The two pointers of ngx_queue_middle are at i and 2i.
* `RobotsProofs` (from `RobotsAssumption`): `TablesStayTrue`, `RobotsStayConserved`,
  `KillsStayMeant`, `PlayersAreSpared` and `RobotsTypeCorrect`, for any number of servers,
  robots and reloads and any descriptors. The invariant `RobotsInv` says that the tables are
  `Good` until the program crashes, and that only a send, connect or Redis that fails, or a
  descriptor that does not fit into a short, makes it crash. `Good` has five parts. `Linked`: clients and connections come in pairs and both
  tables lead to them; TablesMatch alone does not say that a client has its connection.
  `Waiting`: a robot in the queue of a server is one of that server, so that the constructor
  of a client removes it from the queue it was picked from, and that one is not empty.
  `Playing`: the client believes to play only while the server has it in a round or has let
  it go, and a login is sent once and before that; so what the timer of the login does never
  hits a player.
  `Conserved`, until the first reload, and `Kills`, until the second: a descriptor waits in
  the kill queue of the server its robot belongs to at that moment, so in one only, and
  onClose, which clears the first queue it finds, clears it. The loops of
  `__cbTimerAddUser`, `__cbTimerDisconnect` and the signal handler are recursive functions:
  `StartsExist`, `KillsExist` and `CancelsExist` show that these functions exist, and
  `StartsGood`, `KillsGood` and `CancelsGood` that every round keeps the tables good.
  `PlayersAreSpared` is the action property. All handlers but one leave a player alone
  altogether (`Spared`); that one is cbLogoutOK, and for it `Finish` says that the server
  has let the player go.

What is recursive in these two modules is a function on numbers up to a bound, except
`SortBack`, which walks along the prev pointers: `SortBackDef` shows that
this function exists whatever the pointers are. Instead of a
theorem of induction with a predicate as its parameter, which the provers cannot apply,
`UpTo` takes the set of the numbers for which the claim holds and shows that it has all of
them, from the well-foundedness of the natural numbers.

Only model-checked:

* every liveness property: fairness is out of the prover's reach;
* `WalkInOrder`, `RedBlack` of `NgxRbtree`: the walk, the height in black nodes and the
  loops that repair the tree are recursive over trees, not over a range of numbers;
* `CardsAddUp`, `ChecksHold` of `HandCards`: sums over bags of cards and the offers of
  checkChi, which are recursive over the hand.

`IntactUnlessTorn` and the theorems about `ClientConn` speak of the exact uses of a buffer;
outside of them `CBuffer` is no byte queue, and its refinement of `ByteQueue` fails.

## Observations

Met while modelling; no comment or document of the repository says otherwise, so there is
no run that refutes one. The properties name them where they are stated.

* A reload (Config.cpp:82) empties the queues and fills in only robots that are new: one
  that was waiting is never started again, and who was to be disconnected is forgotten.
  After two reloads a descriptor can wait in two kill queues, of which onClose clears one.
* sendBin of libevwork_using deletes the connection, and with it the client, when a send
  fails; a client that sends goes on using itself (fault `send`).
* A client whose connect fails at once deletes itself in its constructor (Client.cpp:52)
  and the caller goes on to use it (fault `connect`).
* After a network error libtinyredis reads the error text of a context it has just set to
  NULL (fault `redis`), and its loop for a second try runs once.
* `cancelReady` means to let robots that are playing finish (Client.cpp:426) and asks
  m_playing, which only cbInitHandCards sets: a robot that lost its connection in a round
  and took it up again (cbTableInfo) is disconnected in the middle of it, as is one that
  is dealt its cards between the signal and the disconnection.
* `Client::m_fd` is a short (Client.h:42), and main raises the limit of descriptors: from
  32768 on a client is filed in `cmap` under another number, and `LinkEV` reads through the
  NULL it finds for the real one (fault `wide`).
* A player who enters the room restarts the ready timer of a robot, also after the signal:
  players who keep coming can postpone the exit for ever.
* `_huXi2`, the points the other players see, grows by the difference only when a hidden
  Wei becomes a Pao or Ti, although nothing of it was counted before; taking the game up
  again counts it in full.
* On a Pao or Ti the robot removes four cards of which it has at most three, and
  removeCard removes none: its hand differs from the server's until the next
  synchronisation. Its counters of big, small and red cards, which removeCard leaves alone,
  count the cards of its melds as if they were still in the hand.

## Not modelled

* Failure of socket(), fcntl() and listen() in constructors, and the exceptions they throw;
  hence an exception out of `CThreadWriter::flush` is not modelled either.
* A listener that adds or removes itself from inside its callback.
* The memory of a Json value when a handler throws, logging, formatting, text of bodies.
* `DataHandler` takes m_Input to be intact, which `CBuffer` shows for its exact uses only.
* In `Robots`: a reload that fails or that removes a server; a uid that is in the lists of
  two servers, or twice in one, which parse_cfg would queue twice (`Home` is a function); a
  signal in the middle of a callback (main.cpp:201 installs a plain handler), which could
  find any table half changed; what the other callbacks do between the start of a client
  on too wide a descriptor and the next event of its connection; and what is played in a
  round. The framing of libevwork_using (JsonData.cpp) is
  a variant of the one in `DataHandler` and is not modelled a second time.
* In `HandCards`: the search for a winning hand (checkHu, _Hu, IsTing), a search over
  data that only reads the state; getHandCards, _outCards and the flags of a dead hand.
* `libtinyredis` beyond its failures: one pointer used by one thread, and an index modulo
  the number of servers. `SList/list.h`, `ngx_crc32`, glib and libev are third-party code.

## Plan

1. Theorems: `WalkInOrder` of `NgxRbtree`, with the invariant that a subtree holds an
   interval of the order of insertion and key; `CardsAddUp` call by call.
2. A constructor of `CClientConn` that throws, in `Writer` and `AsyncWriter`.
3. The winning hand of `HandCards` against a definition by partitions of the hand.
