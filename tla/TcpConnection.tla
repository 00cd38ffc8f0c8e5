--------------------------- MODULE TcpConnection ---------------------------
(***************************************************************************)
(* One TcpConnection (src/src/TcpConnection.cc) on the thread of its I/O   *)
(* loop, with its socket, the part of TcpServer that removes it, and the   *)
(* other threads that call its API.                                        *)
(*                                                                         *)
(* The loop thread is the state machine poll -> dispatch -> calling of     *)
(* EventLoop::loop(); the functors queued on it are those of this          *)
(* connection.  One iteration of the loop in doWriting() is one step, so   *)
(* that the kernel and other threads interleave with it.  Data are counted *)
(* in units, and every unit carries the number of the send it belongs to.  *)
(***************************************************************************)
EXTENDS Naturals, Sequences, FiniteSets

CONSTANTS
    Workers,            \* threads other than the loop's that use the connection
    WorkerCalls,        \* the API calls they make: a subset of Calls
    NeighbourCalls,     \* API calls made by handlers of other channels of the loop
    SameLoop,           \* the I/O loop is also the server's base loop
    Sizes,              \* lengths of a send
    MaxSends,           \* bound: sends and files handed over
    MaxData,            \* bound: arrivals of input
    SndBuf,             \* units the kernel's send buffer holds
    HighWaterMark       \* highWaterMark_

Calls == {"send", "sendFile", "shutdown"}

ASSUME ConnectionAssumption ==
    /\ WorkerCalls \subseteq Calls /\ NeighbourCalls \subseteq Calls
    /\ SameLoop \in BOOLEAN
    /\ Sizes \subseteq Nat
    /\ {MaxSends, MaxData, SndBuf, HighWaterMark} \subseteq Nat
    /\ SndBuf > 0

VARIABLES
    conn,       \* the members of TcpConnection
    poller,     \* the poller's view of its channel
    loop,       \* the loop thread: where it is and what is queued
    net,        \* the socket: kernel buffers and the peer
    own,        \* who holds a TcpConnectionPtr
    worker,     \* the call each worker is in the middle of
    hist        \* history: what was promised, done and called

cvars == <<conn, poller, loop, net, own, worker, hist>>

Chan == "channel"
Fd == "socket"
INSTANCE EpollPoller WITH Chans <- {Chan}, Fds <- {Fd}, NoChan <- "null"

States == {"kConnecting", "kConnected", "kDisconnecting", "kDisconnected"}

\* A functor of this connection: the call, and the number and size of a send.
Functor(call, id, size) == [call |-> call, id |-> id, size |-> size]
Plain(call) == Functor(call, 0, 0)
Idle == Plain("none")
RawCalls == Calls                               \* bind a raw this
RefCalls == {"connectEstablished", "connectDestroyed"}  \* bind a TcpConnectionPtr

\* A queued context: which send, and how much of it is left.
Context(id, left) == [id |-> id, left |-> left]
Copies(id, n) == [i \in 1 .. n |-> id]

\* TcpServer::newConnection() has stored the connection in connections_ and
\* handed connectEstablished() to the I/O loop.
Init ==
    /\ conn = [state |-> "kConnecting", contexts |-> <<>>, pending |-> 0,
               highTriggered |-> FALSE]
    /\ poller = EmptyPoller
    /\ loop = [pc |-> "poll", reported |-> {}, untouched |-> TRUE,
               upcall |-> FALSE, writing |-> FALSE,
               queue |-> <<Plain("connectEstablished")>>, pass |-> 0]
    /\ net = [input |-> FALSE, peer |-> "open", sockErr |-> FALSE, unsent |-> 0,
              fin |-> FALSE, arrivals |-> 0]
    /\ own = [inMap |-> TRUE, removals |-> 0, inPass |-> FALSE, held |-> {}]
    /\ worker = [w \in Workers |-> Idle]
    /\ hist = [accepted |-> <<>>, wire |-> <<>>, sends |-> 0, callbacks |-> "none",
               misuse |-> FALSE]

\* The loop thread inside a handler of this connection holds the guard of
\* Channel::handleEvent() or of handleClose().
InHandler == loop.upcall \/ loop.writing
Alive ==
    \/ own.inMap \/ own.removals > 0 \/ own.inPass \/ own.held # {} \/ InHandler
    \/ \E i \in DOMAIN loop.queue : loop.queue[i].call \in RefCalls

\* A failed assert(), a use of a destroyed connection or other undefined behaviour
\* ends the program.
Running == poller.failed = "none" /\ ~hist.misuse

-----------------------------------------------------------------------------
(* The parts of a step. *)

Queued(l, call) == [l EXCEPT !.queue = Append(@, call)]

\* The user callbacks, as a protocol: up once, then messages, then down once.
CallBack(h, event) ==
    LET next == CASE event = "up" /\ h.callbacks = "none" -> "up"
                  [] event = "message" /\ h.callbacks = "up" -> "up"
                  [] event = "down" /\ h.callbacks = "up" -> "down"
                  [] OTHER -> "wrong"
    IN [h EXCEPT !.callbacks = next]

\* Mutant: handleClose() does not call closeCallback_.
RemoveForgotten(l, o) == loop' = l /\ own' = o

\* TcpServer::removeConnectionInLoop(): on the base loop itself at once, else
\* in a functor that holds the connection.
Remove(l, o) ==
    IF SameLoop
    THEN loop' = Queued(l, Plain("connectDestroyed")) /\ own' = [o EXCEPT !.inMap = FALSE]
    ELSE loop' = l /\ own' = [o EXCEPT !.removals = @ + 1]

\* Mutant: handleClose() leaves the channel's events on.
HandleCloseStaysRegistered(c, l) ==
    /\ conn' = [c EXCEPT !.state = "kDisconnected"]
    /\ UNCHANGED poller
    /\ hist' = CallBack(hist, "down")
    /\ Remove(l, own)

\* handleClose(), continuing from the connection c and the loop state l.
HandleClose(c, l) ==
    /\ conn' = [c EXCEPT !.state = "kDisconnected"]
    /\ poller' = DisableAll(poller, Chan, Fd)
    /\ hist' = CallBack(hist, "down")
    /\ Remove(l, own)

\* A new context at the back of contextQueue_.
Enqueue(c, id, size) ==
    [c EXCEPT !.contexts = Append(@, Context(id, size)), !.pending = @ + size]

\* sendInLoop() and sendFileInLoop() up to their call of doWriting().  Only the
\* former looks at the state.
Accept(call, id, size, l) ==
    IF call = "send" /\ conn.state = "kDisconnected"
    THEN loop' = l /\ UNCHANGED <<conn, hist>>
    ELSE /\ conn' = Enqueue(conn, id, size)
         /\ hist' = [hist EXCEPT !.accepted = @ \o Copies(id, size)]
         /\ loop' = [l EXCEPT !.writing = TRUE]

\* shutdownInLoop(): the FIN goes out only when EPOLLOUT is not watched.  (Mutant:
\* it goes out at once.)
ShutdownInLoopAtOnce == net' = [net EXCEPT !.fin = TRUE]
ShutdownInLoop ==
    net' = IF "OUT" \in poller.events[Chan] THEN net ELSE [net EXCEPT !.fin = TRUE]

-----------------------------------------------------------------------------
(* The API called on the loop thread: from a callback of this connection, or *)
(* from the handler of another channel of the same loop.                     *)

InUserCode(call) ==
    /\ Running /\ ~loop.writing
    /\ conn.state = "kConnected"
    /\ \/ loop.upcall
       \/ /\ call \in NeighbourCalls /\ loop.pc = "dispatch"
          /\ loop.untouched \/ loop.reported = {}

SendHere(call, size) ==
    /\ InUserCode(call)
    /\ hist.sends < MaxSends
    /\ conn' = Enqueue(conn, hist.sends + 1, size)
    /\ hist' = [hist EXCEPT !.sends = @ + 1,
                            !.accepted = @ \o Copies(hist.sends + 1, size)]
    /\ loop' = [loop EXCEPT !.writing = TRUE]
    /\ UNCHANGED <<poller, net, own, worker>>

ShutdownHere ==
    /\ InUserCode("shutdown")
    /\ conn' = [conn EXCEPT !.state = "kDisconnecting"]
    /\ ShutdownInLoop
    /\ UNCHANGED <<poller, loop, own, worker, hist>>

CallbackReturns ==
    /\ Running /\ loop.upcall /\ ~loop.writing
    /\ loop' = [loop EXCEPT !.upcall = FALSE]
    /\ UNCHANGED <<conn, poller, net, own, worker, hist>>

-----------------------------------------------------------------------------
(* doWriting(): one iteration of its loop per step. *)

Writing == Running /\ loop.writing /\ conn.contexts # <<>>
Front == Head(conn.contexts)
Room == SndBuf - net.unsent
Stop(l) == [l EXCEPT !.writing = FALSE]
Broken == net.peer = "reset" \/ net.fin         \* write() reports a hard error

\* n units of the front context are written.  (Mutants: a completed one
\* is not subtracted, the rest of a partial write starts from the beginning.)
AdvanceUnderCounting(c, n) ==
    IF n = Head(c.contexts).left THEN [c EXCEPT !.contexts = Tail(@)]
    ELSE [c EXCEPT !.pending = @ - n, !.contexts[1].left = @ - n]
AdvanceRestarting(c, n) ==
    [c EXCEPT !.pending = @ - n, !.contexts = IF n = Head(@).left THEN Tail(@) ELSE @]
Advance(c, n) ==
    LET rest == IF n = Head(c.contexts).left THEN Tail(c.contexts)
                ELSE [c.contexts EXCEPT ![1].left = @ - n]
    IN [c EXCEPT !.pending = @ - n, !.contexts = rest]

\* EPOLLOUT is asked for once when a write blocks, and given up when the last
\* context is complete.  (Mutants: it is not.)
WatchOutputNever(p) == p
WatchOutput(p) ==
    IF "OUT" \in p.events[Chan] THEN p ELSE Enable(p, Chan, Fd, "OUT")
UnwatchOutputNever(p) == p
UnwatchOutput(p) ==
    IF "OUT" \in p.events[Chan] THEN Disable(p, Chan, Fd, "OUT") ELSE p

\* while (!contextQueue_.empty())
WritingDone ==
    /\ Running /\ loop.writing /\ conn.contexts = <<>>
    /\ loop' = Stop(loop)
    /\ UNCHANGED <<conn, poller, net, own, worker, hist>>

\* The kernel takes part or all of the front context.  When the last context
\* is complete EPOLLOUT is given up; what runInLoop() gets is a bind of the data
\* member writeCompleteCallback_, so calling it calls nothing.
WriteSome ==
    LET n == IF Front.left <= Room THEN Front.left ELSE Room
        last == n = Front.left /\ Len(conn.contexts) = 1
    IN
    /\ Writing /\ ~Broken
    /\ n > 0 \/ n = Front.left
    /\ conn' = Advance(conn, n)
    /\ poller' = IF last THEN UnwatchOutput(poller) ELSE poller
    /\ net' = [net EXCEPT !.unsent = @ + n]
    /\ hist' = [hist EXCEPT !.wire = @ \o Copies(Front.id, n)]
    /\ UNCHANGED <<loop, own, worker>>

\* EAGAIN: note that the pending output is above the high water mark (nothing
\* takes the note back), and wait for EPOLLOUT.
WriteBlocked ==
    /\ Writing /\ ~Broken
    /\ Room = 0 /\ Front.left > 0
    /\ conn' = [conn EXCEPT !.highTriggered = @ \/ conn.pending > HighWaterMark]
    /\ poller' = WatchOutput(poller)
    /\ loop' = Stop(loop)
    /\ UNCHANGED <<net, own, worker, hist>>

\* Any other error: the context is dropped and the connection closed.
WriteFails ==
    /\ Writing /\ Broken
    /\ HandleClose([conn EXCEPT !.contexts = Tail(@)], Stop(loop))
    /\ net' = [net EXCEPT !.sockErr = FALSE]
    /\ UNCHANGED worker

-----------------------------------------------------------------------------
(* The loop: epoll_wait, then the channel's handleEvent(). *)

\* What epoll reports of the channel: HUP and ERR need not be asked for.
Ready ==
    IF poller.epoll[Fd] = "null" THEN {}
    ELSE (IF net.input \/ net.peer # "open" THEN {"IN"} \cap poller.events[Chan] ELSE {})
         \cup (IF Room > 0 \/ net.peer = "reset" THEN {"OUT"} \cap poller.events[Chan] ELSE {})
         \cup (IF net.sockErr THEN {"ERR"} ELSE {})
         \cup (IF net.peer = "reset" \/ (net.peer = "closed" /\ net.fin) THEN {"HUP"} ELSE {})

Poll ==
    /\ Running /\ loop.pc = "poll"
    /\ loop' = [loop EXCEPT !.pc = "dispatch", !.untouched = TRUE,
                            !.reported = IF "IN" \in Ready THEN Ready \ {"HUP"} ELSE Ready]
    /\ UNCHANGED <<conn, poller, net, own, worker, hist>>

\* The loop thread is about to handle the parts of handleEventWithGuard(), in the
\* order of the code, for a connection whose tie_ can still be locked.
Handling(e) ==
    /\ Running /\ loop.pc = "dispatch" /\ ~InHandler /\ Alive
    /\ e \in loop.reported
    /\ \A f \in loop.reported \ {e} :
          e = "HUP" \/ (e = "ERR" /\ f # "HUP") \/ (e = "IN" /\ f = "OUT")
Handled(e) == [loop EXCEPT !.reported = @ \ {e}, !.untouched = FALSE]

EventHup ==
    /\ Handling("HUP")
    /\ HandleClose(conn, Handled("HUP"))
    /\ UNCHANGED <<net, worker>>

\* handleError() only reads SO_ERROR, which clears it.
EventErr ==
    /\ Handling("ERR")
    /\ loop' = Handled("ERR")
    /\ net' = [net EXCEPT !.sockErr = FALSE]
    /\ UNCHANGED <<conn, poller, own, worker, hist>>

\* handleRead() with data: the message callback.
EventMessage ==
    /\ Handling("IN") /\ net.input
    /\ net' = [net EXCEPT !.input = FALSE]
    /\ hist' = CallBack(hist, "message")
    /\ loop' = [Handled("IN") EXCEPT !.upcall = TRUE]
    /\ UNCHANGED <<conn, poller, own, worker>>

\* Buffer::readFd() when readv() fails: its -1, kept in a size_t, is taken for a huge
\* read and appended.  What std::copy() does with the wrapped length is undefined:
\* it crashes, or copies nothing, and readFd() returns -1 after all.
ReadFdFails(h) == {h, [h EXCEPT !.misuse = TRUE]}

\* handleRead() with an error (a reset, or nothing there any more): only logged.
EventReadError ==
    /\ Handling("IN") /\ ~net.input /\ (net.sockErr \/ net.peer = "open")
    /\ loop' = Handled("IN")
    /\ net' = [net EXCEPT !.sockErr = FALSE]
    /\ hist' \in ReadFdFails(hist)
    /\ UNCHANGED <<conn, poller, own, worker>>

\* handleRead() at the end of the stream.
EventEof ==
    /\ Handling("IN") /\ ~net.input /\ ~net.sockErr /\ net.peer # "open"
    /\ HandleClose(conn, Handled("IN"))
    /\ UNCHANGED <<net, worker>>

\* handleWrite()
EventOut ==
    /\ Handling("OUT")
    /\ loop' = [Handled("OUT") EXCEPT
                    !.writing = "OUT" \in poller.events[Chan] /\ conn.contexts # <<>>]
    /\ UNCHANGED <<conn, poller, net, own, worker, hist>>

-----------------------------------------------------------------------------
(* The loop: doPendingFunctors(). *)

DoPendingFunctors ==
    /\ Running /\ loop.pc = "dispatch" /\ ~InHandler
    /\ loop.reported = {}
    /\ loop' = [loop EXCEPT !.pc = "calling", !.pass = Len(loop.queue)]
    /\ UNCHANGED <<conn, poller, net, own, worker, hist>>

\* The swapped vector, and the pointers bound in it, live until the pass is over.
FunctorsDone ==
    /\ Running /\ loop.pc = "calling" /\ ~InHandler
    /\ loop.pass = 0
    /\ loop' = [loop EXCEPT !.pc = "poll"]
    /\ own' = [own EXCEPT !.inPass = FALSE]
    /\ UNCHANGED <<conn, poller, net, worker, hist>>

Calling(call) ==
    /\ Running /\ loop.pc = "calling" /\ ~InHandler
    /\ loop.pass > 0
    /\ Head(loop.queue).call = call
\* The functor is taken from the swapped vector.
Called == [loop EXCEPT !.queue = Tail(@), !.pass = @ - 1]

ConnectEstablished ==
    /\ Calling("connectEstablished")
    /\ conn' = [conn EXCEPT !.state = "kConnected"]
    /\ poller' = Enable(poller, Chan, Fd, "IN")
    /\ hist' = CallBack(hist, "up")
    /\ loop' = [Called EXCEPT !.upcall = TRUE]
    /\ own' = [own EXCEPT !.inPass = TRUE, !.held = Workers]
    /\ UNCHANGED <<net, worker>>

\* connectDestroyed(): a connection that is still up goes down here.  (Mutant: any
\* connection does.)
StillUpAlways == TRUE
StillUp == conn.state = "kConnected"
Unlist(p) == IF p.failed = "none" THEN RemoveChannel(p, Chan, Fd) ELSE p

ConnectDestroyed ==
    LET up == StillUp IN
    /\ Calling("connectDestroyed")
    /\ conn' = IF up THEN [conn EXCEPT !.state = "kDisconnected"] ELSE conn
    /\ poller' = Unlist(IF up THEN DisableAll(poller, Chan, Fd) ELSE poller)
    /\ hist' = IF up THEN CallBack(hist, "down") ELSE hist
    /\ loop' = Called
    /\ own' = [own EXCEPT !.inPass = TRUE]
    /\ UNCHANGED <<net, worker>>

\* The functors of send(), sendFile() and shutdown() bind a raw this.
RunSend(call) ==
    /\ Calling(call) /\ Alive
    /\ Accept(call, Head(loop.queue).id, Head(loop.queue).size, Called)
    /\ UNCHANGED <<poller, net, own, worker>>

RunShutdown ==
    /\ Calling("shutdown") /\ Alive
    /\ loop' = Called
    /\ ShutdownInLoop
    /\ UNCHANGED <<conn, poller, own, worker, hist>>

RunDangling ==
    /\ \E call \in RawCalls : Calling(call)
    /\ ~Alive
    /\ hist' = [hist EXCEPT !.misuse = TRUE]
    /\ UNCHANGED <<conn, poller, loop, net, own, worker>>

-----------------------------------------------------------------------------
(* The base loop, when it is another thread; and the worker threads. *)

RemoveConnectionInLoop ==
    /\ Running /\ own.removals > 0
    /\ own' = [own EXCEPT !.inMap = FALSE, !.removals = @ - 1]
    /\ loop' = Queued(loop, Plain("connectDestroyed"))
    /\ UNCHANGED <<conn, poller, net, worker, hist>>

\* The test of state_ at the head of send(), sendFile() and shutdown() ...
WorkerTests(w, call, size) ==
    /\ Running
    /\ w \in own.held /\ worker[w] = Idle
    /\ call \in WorkerCalls
    /\ conn.state = "kConnected"
    /\ IF call = "shutdown"
       THEN size = 0 /\ worker' = [worker EXCEPT ![w] = Plain("setState")] /\ UNCHANGED hist
       ELSE /\ hist.sends < MaxSends
            /\ worker' = [worker EXCEPT ![w] = Functor(call, hist.sends + 1, size)]
            /\ hist' = [hist EXCEPT !.sends = @ + 1]
    /\ UNCHANGED <<conn, poller, loop, net, own>>

\* ... shutdown()'s store, which nothing ties to the test ...
WorkerSetsState(w) ==
    /\ Running
    /\ worker[w].call = "setState"
    /\ conn' = [conn EXCEPT !.state = "kDisconnecting"]
    /\ worker' = [worker EXCEPT ![w] = Plain("shutdown")]
    /\ UNCHANGED <<poller, loop, net, own, hist>>

\* ... and the push into the loop's queue.
WorkerQueues(w) ==
    /\ Running
    /\ worker[w].call \in RawCalls
    /\ loop' = Queued(loop, worker[w])
    /\ worker' = [worker EXCEPT ![w] = Idle]
    /\ UNCHANGED <<conn, poller, net, own, hist>>

WorkerDropsRef(w) ==
    /\ Running
    /\ w \in own.held /\ worker[w] = Idle
    /\ own' = [own EXCEPT !.held = @ \ {w}]
    /\ UNCHANGED <<conn, poller, loop, net, worker, hist>>

-----------------------------------------------------------------------------
(* The kernel and the peer. *)

PeerSends ==
    /\ Running /\ net.peer = "open" /\ ~net.input /\ net.arrivals < MaxData
    /\ net' = [net EXCEPT !.input = TRUE, !.arrivals = @ + 1]
    /\ UNCHANGED <<conn, poller, loop, own, worker, hist>>

PeerReads ==
    /\ Running /\ net.peer # "reset" /\ net.unsent > 0
    /\ net' = [net EXCEPT !.unsent = @ - 1]
    /\ UNCHANGED <<conn, poller, loop, own, worker, hist>>

PeerCloses ==
    /\ Running /\ net.peer = "open"
    /\ net' = [net EXCEPT !.peer = "closed"]
    /\ UNCHANGED <<conn, poller, loop, own, worker, hist>>

\* Input that has not been read yet may or may not survive a reset.
PeerResets ==
    /\ Running /\ net.peer # "reset"
    /\ \E input \in {FALSE, net.input} :
          net' = [net EXCEPT !.peer = "reset", !.sockErr = TRUE, !.input = input,
                             !.unsent = 0]
    /\ UNCHANGED <<conn, poller, loop, own, worker, hist>>

-----------------------------------------------------------------------------
UserSteps ==
    \/ \E call \in {"send", "sendFile"}, size \in Sizes : SendHere(call, size)
    \/ ShutdownHere
WriteSteps == WritingDone \/ WriteSome \/ WriteBlocked \/ WriteFails
EventSteps == EventHup \/ EventErr \/ EventMessage \/ EventReadError \/ EventEof \/ EventOut
FunctorSteps ==
    \/ DoPendingFunctors \/ FunctorsDone \/ ConnectEstablished \/ ConnectDestroyed
    \/ RunSend("send") \/ RunSend("sendFile") \/ RunShutdown \/ RunDangling
LoopSteps == CallbackReturns \/ WriteSteps \/ Poll \/ EventSteps \/ FunctorSteps
WorkerSteps(w) ==
    \/ \E call \in Calls, size \in Sizes \cup {0} : WorkerTests(w, call, size)
    \/ WorkerSetsState(w) \/ WorkerQueues(w) \/ WorkerDropsRef(w)
PeerSteps == PeerSends \/ PeerReads \/ PeerCloses \/ PeerResets

Next ==
    \/ UserSteps \/ LoopSteps \/ RemoveConnectionInLoop \/ PeerSteps
    \/ \E w \in Workers : WorkerSteps(w)

Spec == Init /\ [][Next]_cvars

(***************************************************************************)
(* Fairness: the loop thread runs (its callbacks return), the base loop    *)
(* serves its functors, a worker finishes the call it is in and eventually *)
(* drops its pointer, and the peer reads what has been sent to it.         *)
(***************************************************************************)
Fairness ==
    /\ WF_cvars(LoopSteps) /\ WF_cvars(RemoveConnectionInLoop) /\ WF_cvars(PeerReads)
    /\ \A w \in Workers :
          WF_cvars(WorkerSetsState(w) \/ WorkerQueues(w) \/ WorkerDropsRef(w))

FairSpec == Spec /\ Fairness

-----------------------------------------------------------------------------
(* What the connection must guarantee. *)

SendIds == 1 .. MaxSends
Queueable ==
    [call : {"send", "sendFile"}, id : SendIds, size : Nat]
        \cup {Plain(call) : call \in {"shutdown"} \cup RefCalls}
ConnType ==
    [state : States, contexts : Seq([id : SendIds, left : Nat]), pending : Nat,
     highTriggered : BOOLEAN]
LoopType ==
    [pc : {"poll", "dispatch", "calling"}, reported : SUBSET {"HUP", "ERR", "IN", "OUT"},
     untouched : BOOLEAN, upcall : BOOLEAN, writing : BOOLEAN, queue : Seq(Queueable),
     pass : Nat]
NetType ==
    [input : BOOLEAN, peer : {"open", "closed", "reset"}, sockErr : BOOLEAN,
     unsent : 0 .. SndBuf, fin : BOOLEAN, arrivals : 0 .. MaxData]
OwnType == [inMap : BOOLEAN, removals : Nat, inPass : BOOLEAN, held : SUBSET Workers]
HistType ==
    [accepted : Seq(SendIds), wire : Seq(SendIds), sends : 0 .. MaxSends,
     callbacks : {"none", "up", "down", "wrong"}, misuse : BOOLEAN]

\* The variables hold what their declarations say.
TypeOK ==
    /\ conn \in ConnType /\ poller \in PollerType
    /\ loop \in LoopType /\ loop.pass <= Len(loop.queue)
    /\ net \in NetType /\ own \in OwnType /\ hist \in HistType
    /\ worker \in [Workers -> Queueable \cup {Idle, Plain("setState")}]

\* The user has been told that the connection is up, and not yet that it is down.
Open == hist.callbacks = "up"

\* ends[i] is the place in the accepted stream where the i-th queued context ends:
\* the contexts follow each other without a gap, and each holds units of its send.
Consecutive(ends) ==
    /\ ends[0] = Len(hist.wire) /\ ends[Len(conn.contexts)] = Len(hist.accepted)
    /\ \A i \in DOMAIN conn.contexts :
          /\ ends[i] = ends[i - 1] + conn.contexts[i].left
          /\ \A k \in ends[i - 1] + 1 .. ends[i] : hist.accepted[k] = conn.contexts[i].id

\* Every unit handed to an open connection is in the kernel or in contextQueue_,
\* once, and in the order of the calls, however the writes were cut into pieces.
StreamIntact ==
    Open =>
        /\ \E ends \in [0 .. Len(conn.contexts) -> 0 .. Len(hist.accepted)] : Consecutive(ends)
        /\ \A k \in DOMAIN hist.wire : hist.wire[k] = hist.accepted[k]

\* totalPendingBytes_, which the high water mark is compared with, is what is
\* really left to write; so this size_t cannot wrap below zero.
PendingIsExact == Open => conn.pending = Len(hist.accepted) - Len(hist.wire)

\* Outside doWriting() EPOLLOUT is watched exactly while output is waiting: a
\* missing EPOLLOUT stalls the output, a needless one makes the loop spin.
OutputIsWatched ==
    Open /\ ~loop.writing =>
        (conn.contexts # <<>> <=> "OUT" \in poller.events[Chan] /\ poller.epoll[Fd] = Chan)

\* The FIN never overtakes output that was accepted before it.
FinAfterData == net.fin /\ Open => conn.contexts = <<>> /\ hist.wire = hist.accepted

\* The connection callback comes once with the connection up, then once with it
\* down, and the message callback only in between.
CallbackProtocol == hist.callbacks # "wrong"

\* No assert() of EpollPoller.cc fails and no epoll_ctl() is fatal.
PollerAssertsHold == poller.failed = "none"

\* Accepted output reaches the kernel while the peer keeps reading, unless the
\* connection goes down, or a failed read has ended the program.
OutputDrains ==
    (conn.contexts # <<>>)
      ~> (conn.contexts = <<>> \/ conn.state = "kDisconnected" \/ hist.misuse)

\* After the peer has closed or reset, the connection is torn down completely:
\* it goes down, leaves connections_ and the poller, and is destroyed (unless a
\* failed read has ended the program).
ClosedIsDestroyed == (net.peer # "open") ~> (~Alive \/ hist.misuse)

\* shutdown() ends in a FIN (or the connection goes down first, or a failed read
\* has ended the program).
ShutdownCompletes == (conn.state = "kDisconnecting") ~> (net.fin \/ ~Open \/ hist.misuse)
=============================================================================
