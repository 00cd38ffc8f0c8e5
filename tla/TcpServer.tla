----------------------------- MODULE TcpServer -----------------------------
(***************************************************************************)
(* A TcpServer (src/src/TcpServer.cc) with its Acceptor on the base loop,  *)
(* the I/O loops of its EventLoopThreadPool, and all its connections: who  *)
(* holds a TcpConnectionPtr, which Channel pointers the pollers and the    *)
(* batches of reported events hold, and the reuse of descriptors.          *)
(*                                                                         *)
(* Every loop is the check -> polling -> dispatch -> calling machine of    *)
(* EventLoop::loop(); a handler or a functor is one step.  Data are left   *)
(* out (module TcpConnection has them): an event on a connection is a      *)
(* message while its peer is open and the end of the stream afterwards.    *)
(***************************************************************************)
EXTENDS EpollPoller, Naturals, Sequences, FiniteSets

CONSTANTS
    acceptor, listenFd,     \* the Acceptor's channel and its descriptor
    base,                   \* loop_, the loop the server is given
    IOLoops,                \* the loops a pool may start, in order
    ThreadNums,             \* the arguments setThreadNum() may be given
    Uses,                   \* what message callbacks may do, one set for each way of use:
                            \* call shutdown(), or send to another connection, whose peer is gone
    Quits                   \* the base loop may be quit and the server destroyed

ASSUME ServerAssumption ==
    /\ acceptor \in Chans /\ listenFd \in Fds /\ Fds \subseteq Nat
    /\ Chans \ {acceptor} = 1 .. Cardinality(Chans \ {acceptor})
    /\ IOLoops \in Seq({IOLoops[i] : i \in DOMAIN IOLoops})
    /\ \A i, j \in DOMAIN IOLoops : IOLoops[i] = IOLoops[j] => i = j
    /\ \A i \in DOMAIN IOLoops : IOLoops[i] # base
    /\ ThreadNums \subseteq 0 .. Len(IOLoops)
    /\ Uses \subseteq SUBSET {"shutdown", "sendToOther"}
    /\ Quits \in BOOLEAN

VARIABLES
    conns,          \* the TcpConnection objects
    connections,    \* connections_: those the server's map holds
    loops,          \* the loop threads: where each is and what is queued
    quits,          \* the loops whose quit_ is set
    pollers,        \* the poller of each loop
    pool,           \* loops_ of the thread pool
    next,           \* next_ of the thread pool
    server,         \* where the life of the TcpServer is
    uses            \* what the message callbacks of this server may do

svars == <<conns, connections, loops, quits, pollers, pool, next, server, uses>>

\* Connections are numbered by nextConnId_.
Conns == Chans \ {acceptor}
Loops == {base} \cup {IOLoops[i] : i \in DOMAIN IOLoops}
Pool == {pool[i] : i \in DOMAIN pool}

Functor(call, c) == [call |-> call, conn |-> c]
Calls == {"connectEstablished", "connectDestroyed", "removeConnectionInLoop"}

Init ==
    /\ conns = [c \in Conns |-> [state |-> "none", loop |-> base, fd |-> listenFd,
                                 peer |-> "open", callbacks |-> "none"]]
    /\ connections = {}
    /\ loops = [l \in Loops |-> [pc |-> "check", batch |-> {}, queue |-> <<>>,
                                 pass |-> 0, held |-> {}]]
    /\ quits = {}
    /\ pollers = [l \in Loops |-> EmptyPoller]
    /\ pool = <<>>
    /\ next = 1
    /\ server = "new"
    /\ uses \in Uses

\* A TcpConnection lives as long as the map, a queued functor, or a functor of
\* the current pass holds a pointer to it.  Its destructor closes the descriptor.
Created(c) == conns[c].state # "none"
Alive(c) ==
    /\ Created(c)
    /\ \/ c \in connections
       \/ \E l \in Loops :
            \/ c \in loops[l].held
            \/ \E i \in DOMAIN loops[l].queue : loops[l].queue[i].conn = c
\* accept() takes the lowest descriptor that is free.
Free(fd) == fd # listenFd /\ \A c \in Conns : Alive(c) => conns[c].fd # fd
Lowest(fd) == Free(fd) /\ \A lower \in Fds : lower < fd => ~Free(lower)

Running == \A l \in Loops : pollers[l].failed = "none"

-----------------------------------------------------------------------------
(* The parts of a step. *)

Post(ls, l, f) == [ls EXCEPT ![l].queue = Append(@, f)]

\* The connection callback, once up and then once down; messages in between.
CallBack(now, event) ==
    IF \/ event = "up" /\ now = "none"
       \/ event = "down" /\ now = "up"
    THEN event
    ELSE IF event = "message" /\ now = "up" THEN now ELSE "wrong"

\* connectEstablished(), on loop l.
Establish(c, l, cs, ps) ==
    /\ conns' = [cs EXCEPT ![c].state = "kConnected",
                           ![c].callbacks = CallBack(@, "up")]
    /\ pollers' = [ps EXCEPT ![l] = Enable(@, c, cs[c].fd, "IN")]

\* connectDestroyed(), on loop l: only a connected one disables its channel.
StillUp(c) == conns[c].state = "kConnected"
Destroy(c, l) ==
    LET up == StillUp(c)
        quiet == IF up THEN DisableAll(pollers[l], c, conns[c].fd) ELSE pollers[l]
    IN
    /\ conns' = IF up THEN [conns EXCEPT ![c].state = "kDisconnected",
                                         ![c].callbacks = CallBack(@, "down")]
                ELSE conns
    /\ pollers' = [pollers EXCEPT ![l] = IF quiet.failed = "none"
                                         THEN RemoveChannel(quiet, c, conns[c].fd)
                                         ELSE quiet]

\* Mutants of removeConnectionInLoop(): the map keeps the connection; nothing is
\* queued to destroy it.
RemoveConnectionKeptInMap(c, ls) ==
    /\ loops' = Post(ls, conns[c].loop, Functor("connectDestroyed", c))
    /\ UNCHANGED connections
RemoveConnectionEraseOnly(c, ls) ==
    /\ connections' = connections \ {c}
    /\ loops' = ls

\* TcpServer::removeConnectionInLoop(), on the base loop.
RemoveConnectionInLoop(c, ls) ==
    /\ connections' = connections \ {c}
    /\ loops' = Post(ls, conns[c].loop, Functor("connectDestroyed", c))

\* TcpServer::removeConnection(), called on loop l.
RemoveConnection(c, l, ls) ==
    IF l = base THEN RemoveConnectionInLoop(c, ls)
    ELSE loops' = Post(ls, base, Functor("removeConnectionInLoop", c)) /\ UNCHANGED connections

\* Mutants of handleClose(): the channel stays registered; the user is not told.
HandleCloseStaysRegistered(c, l, ls) ==
    /\ conns' = [conns EXCEPT ![c].state = "kDisconnected",
                              ![c].callbacks = CallBack(@, "down")]
    /\ RemoveConnection(c, l, ls)
    /\ UNCHANGED pollers
HandleCloseSilent(c, l, ls) ==
    /\ conns' = [conns EXCEPT ![c].state = "kDisconnected"]
    /\ pollers' = [pollers EXCEPT ![l] = DisableAll(@, c, conns[c].fd)]
    /\ RemoveConnection(c, l, ls)

\* TcpConnection::handleClose(), on loop l.
HandleClose(c, l, ls) ==
    /\ conns' = [conns EXCEPT ![c].state = "kDisconnected",
                              ![c].callbacks = CallBack(@, "down")]
    /\ pollers' = [pollers EXCEPT ![l] = DisableAll(@, c, conns[c].fd)]
    /\ RemoveConnection(c, l, ls)

-----------------------------------------------------------------------------
(* The life of the server, on the thread of the base loop. *)

\* setThreadNum(n) and start(): the pool's loops run, and the acceptor listens.
Start(n) ==
    /\ server = "new"
    /\ server' = "running"
    /\ pool' = SubSeq(IOLoops, 1, n)
    /\ pollers' = [pollers EXCEPT ![base] = Enable(@, acceptor, listenFd, "IN")]
    /\ UNCHANGED <<conns, connections, loops, quits, next, uses>>

\* User code quits the base loop; what follows is the end of main().
QuitBase ==
    /\ Quits /\ server = "running"
    /\ quits' = quits \cup {base}
    /\ UNCHANGED <<conns, connections, loops, pollers, pool, next, server, uses>>

\* ~TcpServer(): every connection in the map is given up and destroyed on its
\* own loop ...
Destroying == Running /\ server = "running" /\ loops[base].pc = "stopped"

DtorConnection(c) ==
    /\ Destroying
    /\ c \in connections
    /\ connections' = connections \ {c}
    /\ IF conns[c].loop = base
       THEN Destroy(c, base) /\ UNCHANGED loops
       ELSE /\ loops' = Post(loops, conns[c].loop, Functor("connectDestroyed", c))
            /\ UNCHANGED <<conns, pollers>>
    /\ UNCHANGED <<quits, pool, next, server, uses>>

\* ... then the pool's threads are quit and joined, one after the other ...
\* (Mutant: only joined.)
DtorThreadJoinOnly(i) ==
    /\ Destroying
    /\ connections = {}
    /\ pool[i] \notin quits
    /\ UNCHANGED svars
DtorThread(i) ==
    /\ Destroying
    /\ connections = {}
    /\ \A j \in 1 .. i - 1 : loops[pool[j]].pc = "stopped"
    /\ pool[i] \notin quits
    /\ quits' = quits \cup {pool[i]}
    /\ UNCHANGED <<conns, connections, loops, pollers, pool, next, server, uses>>

\* ... then the acceptor leaves the base loop's poller; last of all the base
\* loop goes, with what is left in its queue.
DtorAcceptor ==
    LET quiet == DisableAll(pollers[base], acceptor, listenFd) IN
    /\ Destroying
    /\ connections = {}
    /\ \A l \in {base} \cup Pool : loops[l].pc = "stopped"
    /\ pollers' = [pollers EXCEPT ![base] = RemoveChannel(quiet, acceptor, listenFd)]
    /\ loops' = [loops EXCEPT ![base].queue = <<>>]
    /\ server' = "destroyed"
    /\ UNCHANGED <<conns, connections, quits, pool, next, uses>>

-----------------------------------------------------------------------------
(* The loops. *)

At(l, pc) == Running /\ server # "new" /\ l \in {base} \cup Pool /\ loops[l].pc = pc

\* while (!quit_).  threadFunc() of a pool thread destroys its EventLoop after
\* loop() has returned, and with it the functors still queued.
CheckQuit(l) ==
    /\ At(l, "check")
    /\ loops' = IF l \notin quits THEN [loops EXCEPT ![l].pc = "polling"]
                ELSE [loops EXCEPT ![l].pc = "stopped",
                                   ![l].queue = IF l = base THEN @ ELSE <<>>]
    /\ UNCHANGED <<conns, connections, quits, pollers, pool, next, server, uses>>

\* The channels epoll_wait can report; it must report a peer that is gone.
Registered(l) ==
    {c \in Chans : \E fd \in Fds : pollers[l].epoll[fd] = c /\ pollers[l].events[c] # {}}
Gone(c) == c \in Conns /\ conns[c].peer = "closed"

Poll(l) ==
    /\ At(l, "polling")
    /\ \E B \in SUBSET Registered(l) :
          /\ \A c \in Registered(l) : Gone(c) => c \in B
          /\ loops' = [loops EXCEPT ![l].pc = "dispatch", ![l].batch = B]
    /\ UNCHANGED <<conns, connections, quits, pollers, pool, next, server, uses>>

Event(l, c) == At(l, "dispatch") /\ c \in loops[l].batch
Handled(l, c) == [loops EXCEPT ![l].batch = @ \ {c}]

\* getNextLoop(): a round robin over the pool.
NextIndex(n) == (n % Len(pool)) + 1

\* Acceptor::handleRead() and newConnection(): runInLoop() establishes at once a
\* connection of the base loop.  The descriptor may be that of a connection
\* destroyed before, which its close took out of every interest list.
NewConnection(c, fd) ==
    LET loop == IF pool = <<>> THEN base ELSE pool[next]
        cs == [conns EXCEPT ![c] = [@ EXCEPT !.state = "kConnecting", !.loop = loop, !.fd = fd]]
        ps == [l \in Loops |-> CloseFd(pollers[l], fd)]
    IN
    /\ Event(base, acceptor)
    /\ ~Created(c) /\ \A d \in Conns : d < c => Created(d)
    /\ Lowest(fd)
    /\ connections' = connections \cup {c}
    /\ next' = IF pool = <<>> THEN next ELSE NextIndex(next)
    /\ IF loop = base
       THEN Establish(c, base, cs, ps) /\ loops' = Handled(base, acceptor)
       ELSE /\ loops' = Post(Handled(base, acceptor), loop, Functor("connectEstablished", c))
            /\ conns' = cs
            /\ pollers' = ps
    /\ UNCHANGED <<quits, pool, server, uses>>

\* accept() fails (no descriptor left, or the peer has gone away): only logged.
AcceptFails ==
    /\ Event(base, acceptor)
    /\ loops' = Handled(base, acceptor)
    /\ UNCHANGED <<conns, connections, quits, pollers, pool, next, server, uses>>

\* handleRead() with data: the message callback, which may shut the connection
\* down ...
Message(l, c, shut) ==
    /\ Event(l, c) /\ c \in Conns /\ Alive(c)
    /\ conns[c].peer = "open"
    /\ shut => "shutdown" \in uses /\ conns[c].state = "kConnected"
    /\ conns' = [conns EXCEPT ![c].state = IF shut THEN "kDisconnecting" ELSE @,
                              ![c].callbacks = CallBack(@, "message")]
    /\ loops' = Handled(l, c)
    /\ UNCHANGED <<connections, quits, pollers, pool, next, server, uses>>

\* ... or send to another connection of the loop, where the write fails and
\* doWriting() closes that connection on the spot.
MessageClosesOther(l, c, d) ==
    /\ "sendToOther" \in uses
    /\ Event(l, c) /\ c \in Conns /\ Alive(c)
    /\ conns[c].peer = "open"
    /\ Alive(d) /\ conns[d].loop = l
    /\ conns[d].state = "kConnected" /\ Gone(d)
    /\ HandleClose(d, l, Handled(l, c))
    /\ UNCHANGED <<quits, pool, next, server, uses>>

\* handleRead() at the end of the stream, or EPOLLHUP.
PeerIsGone(l, c) ==
    /\ Event(l, c) /\ c \in Conns /\ Alive(c)
    /\ Gone(c)
    /\ HandleClose(c, l, Handled(l, c))
    /\ UNCHANGED <<quits, pool, next, server, uses>>

\* doPendingFunctors(): the swap ...
DoPendingFunctors(l) ==
    /\ At(l, "dispatch")
    /\ loops[l].batch = {}
    /\ loops' = [loops EXCEPT ![l].pc = "calling", ![l].pass = Len(loops[l].queue)]
    /\ UNCHANGED <<conns, connections, quits, pollers, pool, next, server, uses>>

\* ... each functor, whose pointer stays in the swapped vector ...
Calling(l, call) ==
    /\ At(l, "calling") /\ loops[l].pass > 0
    /\ Head(loops[l].queue).call = call
Current(l) == Head(loops[l].queue).conn
Called(l) == [loops EXCEPT ![l].queue = Tail(@), ![l].pass = @ - 1,
                           ![l].held = @ \cup {Current(l)}]

RunEstablished(l) ==
    /\ Calling(l, "connectEstablished")
    /\ Establish(Current(l), l, conns, pollers)
    /\ loops' = Called(l)
    /\ UNCHANGED <<connections, quits, pool, next, server, uses>>

RunDestroyed(l) ==
    /\ Calling(l, "connectDestroyed")
    /\ Destroy(Current(l), l)
    /\ loops' = Called(l)
    /\ UNCHANGED <<connections, quits, pool, next, server, uses>>

RunRemove(l) ==
    /\ Calling(l, "removeConnectionInLoop")
    /\ RemoveConnectionInLoop(Current(l), Called(l))
    /\ UNCHANGED <<conns, quits, pollers, pool, next, server, uses>>

\* ... until the pass is over.
FunctorsDone(l) ==
    /\ At(l, "calling") /\ loops[l].pass = 0
    /\ loops' = [loops EXCEPT ![l].pc = "check", ![l].held = {}]
    /\ UNCHANGED <<conns, connections, quits, pollers, pool, next, server, uses>>

-----------------------------------------------------------------------------
PeerCloses(c) ==
    /\ Running /\ Alive(c) /\ conns[c].peer = "open"
    /\ conns' = [conns EXCEPT ![c].peer = "closed"]
    /\ UNCHANGED <<connections, loops, quits, pollers, pool, next, server, uses>>

LoopSteps(l) ==
    \/ CheckQuit(l) \/ Poll(l)
    \/ \E c \in Conns :
        \/ \E shut \in BOOLEAN : Message(l, c, shut)
        \/ PeerIsGone(l, c)
        \/ \E d \in Conns \ {c} : MessageClosesOther(l, c, d)
    \/ DoPendingFunctors(l)
    \/ RunEstablished(l) \/ RunDestroyed(l) \/ RunRemove(l)
    \/ FunctorsDone(l)

AcceptSteps ==
    \/ \E c \in Conns, fd \in Fds : NewConnection(c, fd)
    \/ AcceptFails

DtorSteps ==
    \/ \E c \in Conns : DtorConnection(c)
    \/ \E i \in DOMAIN pool : DtorThread(i)
    \/ DtorAcceptor

Next ==
    \/ \E n \in ThreadNums : Start(n)
    \/ QuitBase \/ DtorSteps
    \/ AcceptSteps
    \/ \E l \in Loops : LoopSteps(l)
    \/ \E c \in Conns : PeerCloses(c)

Spec == Init /\ [][Next]_svars

\* Every loop thread runs, its handlers return, and epoll_wait reports a peer
\* that is gone or returns on a wakeup; main() gets on with the destructor.
Fairness ==
    /\ \A l \in Loops \ {base} : WF_svars(LoopSteps(l))
    /\ WF_svars(LoopSteps(base) \/ AcceptSteps)
    /\ WF_svars(DtorSteps)

FairSpec == Spec /\ Fairness

-----------------------------------------------------------------------------
(* What the server must guarantee. *)

States == {"none", "kConnecting", "kConnected", "kDisconnecting", "kDisconnected"}

ConnType ==
    [state : States, loop : Loops, fd : Fds, peer : {"open", "closed"},
     callbacks : {"none", "up", "down", "wrong"}]
LoopType ==
    [pc : {"check", "polling", "dispatch", "calling", "stopped"},
     batch : SUBSET Chans, queue : Seq([call : Calls, conn : Conns]),
     pass : Nat, held : SUBSET Conns]

\* The variables hold what their declarations say.
TypeOK ==
    /\ conns \in [Conns -> ConnType]
    /\ connections \subseteq Conns
    /\ loops \in [Loops -> LoopType]
    /\ \A l \in Loops : loops[l].pass <= Len(loops[l].queue)
    /\ quits \subseteq Loops
    /\ pollers \in [Loops -> PollerType]
    /\ \E n \in ThreadNums \cup {0} : pool = SubSeq(IOLoops, 1, n)
    /\ next = 1 \/ next \in DOMAIN pool
    /\ server \in {"new", "running", "destroyed"}
    /\ uses \in Uses

\* No Channel pointer outlives its connection (the Channel is a member of it):
\* neither in the batch a loop is working through, nor in the poller of a loop
\* that still runs.
NoDanglingChannel ==
    \A l \in Loops : \A c \in Conns :
        c \in loops[l].batch
        \/ (loops[l].pc # "stopped" /\ \E fd \in Fds : pollers[l].channels[fd] = c)
          => Alive(c)

\* No assert() of EpollPoller.cc fails and no epoll_ctl() is fatal, if message callbacks
\* leave the ends of connections to the peers.
PollerAssertsHold == uses = {} => Running

\* A reused descriptor never meets the channel of its former connection, neither
\* in channels_ nor in the kernel's interest list.
ReusedFdIsClean == \A l \in Loops : pollers[l].failed \notin {"updateChannel", "epoll_ctl"}

\* A connection that went up is told that it went down before it is destroyed,
\* always ...
DownBeforeDestroyed ==
    \A c \in Conns : conns[c].callbacks = "up" => Alive(c)

\* ... or at least as long as nobody ends the server.
DownWhileRunning == base \in quits \/ DownBeforeDestroyed

\* A connection whose peer is gone is destroyed and its descriptor comes back,
\* unless the server ends first.
ClosedIsReclaimed ==
    \A c \in Conns : (uses = {} /\ Gone(c)) ~> (~Alive(c) \/ base \in quits)

\* The destructor of the server comes to its end, and no connection survives it.
DestructorCompletes ==
    (uses = {} /\ base \in quits) ~> (server = "destroyed" /\ \A c \in Conns : ~Alive(c))
=============================================================================
