----------------------- MODULE TcpConnection_proofs ------------------------
(***************************************************************************)
(* Theorems about TcpConnection, for any numbers of threads, sends and     *)
(* units, and any buffer.                                                  *)
(***************************************************************************)
EXTENDS TcpConnection, TLAPS

\* Before connectEstablished() nothing has happened to the connection.
Fresh ==
    hist.callbacks = "none" =>
        /\ conn.state = "kConnecting" /\ conn.contexts = <<>> /\ conn.pending = 0
        /\ poller = EmptyPoller
        /\ loop.queue = <<Plain("connectEstablished")>> /\ loop.reported = {}
        /\ ~loop.upcall /\ ~loop.writing
        /\ ~net.fin
        /\ own.removals = 0 /\ own.held = {}
        /\ \A w \in Workers : worker[w] = Idle
        /\ hist.accepted = <<>> /\ hist.wire = <<>>

\* The channel of an open connection is in epoll, and input is always asked for.
Registered ==
    Open =>
        /\ poller.channels[Fd] = Chan /\ poller.index[Chan] = "kAdded"
        /\ poller.epoll[Fd] = Chan /\ "IN" \in poller.events[Chan]

\* The places in the accepted stream where the queued contexts end.  The second
\* conjunct bounds them all at once by the last one.
Ends ==
    {ends \in [0 .. Len(conn.contexts) -> Nat] :
        /\ \A i \in DOMAIN conn.contexts : ends[i] = ends[i - 1] + conn.contexts[i].left
        /\ \A i \in 0 .. Len(conn.contexts) : ends[i] <= ends[Len(conn.contexts)]}

\* The stream of an open connection: what the kernel has, then the contexts.
Cut(ends) ==
    /\ Consecutive(ends)
    /\ conn.pending = Len(hist.accepted) - Len(hist.wire)
    /\ \A k \in DOMAIN hist.wire : hist.wire[k] = hist.accepted[k]

\* A context that is dropped is not subtracted, so once the connection is closed the
\* count is at least what the contexts hold.
Backlog ==
    \E ends \in Ends :
        /\ ends[Len(conn.contexts)] <= ends[0] + conn.pending
        /\ Open => Cut(ends)

\* EPOLLOUT is given up with the last context, and asked for before doWriting() returns
\* with a context left.
Watched ==
    Open =>
        /\ conn.contexts = <<>> => "OUT" \notin poller.events[Chan]
        /\ conn.contexts # <<>> /\ ~loop.writing => "OUT" \in poller.events[Chan]

IInv == TypeOK /\ Fresh /\ Registered /\ Backlog /\ Watched

(* With shutdown() as the only call from elsewhere. *)

QueuedCalls(q) == {q[i].call : i \in DOMAIN q}
OnlyShutdown ==
    /\ \A w \in Workers : worker[w].call \in {"none", "setState", "shutdown"}
    /\ QueuedCalls(loop.queue) \subseteq {"shutdown"} \cup RefCalls

\* A shutdown() on its way, and a FIN, have changed the state first; and the FIN finds
\* no output, nor does any follow it.
ShutdownFollows ==
    /\ Open /\ conn.state = "kConnected" =>
          /\ ~net.fin
          /\ \A w \in Workers : worker[w].call # "shutdown"
          /\ "shutdown" \notin QueuedCalls(loop.queue)
    /\ Open /\ net.fin => conn.contexts = <<>>

SInv == IInv /\ OnlyShutdown /\ ShutdownFollows

\* How many functors that hold the connection are queued: none, or one connectDestroyed().
NoRef(q) == \A i \in DOMAIN q : q[i].call \notin RefCalls
OneRef(q) ==
    \E i \in DOMAIN q : /\ q[i].call = "connectDestroyed"
                        /\ \A j \in DOMAIN q : j # i => q[j].call \notin RefCalls
Leaving ==
    \/ own.removals = 1 /\ NoRef(loop.queue)
    \/ own.removals = 0 /\ OneRef(loop.queue)

\* The dispatch of one batch of events, in the order of the code.
Dispatch ==
    /\ loop.reported # {} => loop.pc = "dispatch"
    /\ "HUP" \in loop.reported => "IN" \notin loop.reported
    /\ InHandler => loop.pc # "poll" /\ loop.reported \subseteq {"OUT"}

\* The connection is new, up, or down; down it waits for connectDestroyed(), or is gone.
Up ==
    /\ conn.state \in {"kConnected", "kDisconnecting"}
    /\ own.removals = 0 /\ NoRef(loop.queue)
Down ==
    /\ conn.state \in {"kDisconnecting", "kDisconnected"}
    /\ ~loop.writing /\ loop.reported \subseteq {"ERR", "OUT"}
    /\ poller.events[Chan] = {} /\ poller.epoll[Fd] = "null"
    /\ \/ /\ poller.channels[Fd] = Chan /\ poller.index[Chan] = "kDeleted"
          /\ Leaving
       \/ own.removals = 0 /\ NoRef(loop.queue)
Lifecycle ==
    /\ poller.failed = "none"
    /\ hist.callbacks # "wrong"
    /\ Open => Up
    /\ hist.callbacks = "down" => Down

LInv == SInv /\ Dispatch /\ Lifecycle

-----------------------------------------------------------------------------
(* The poller with its one channel. *)

LEMMA PollerTyped ==
    ASSUME NEW p \in PollerType, NEW e \in Events
    PROVE  /\ Enable(p, Chan, Fd, e) \in PollerType
           /\ Disable(p, Chan, Fd, e) \in PollerType
           /\ DisableAll(p, Chan, Fd) \in PollerType
           /\ RemoveChannel(p, Chan, Fd) \in PollerType
BY DEF PollerType, Enable, Disable, DisableAll, RemoveChannel, UpdateChannel, CtlAdd, CtlMod,
       CtlDel, Fail, Indexes, Failures

\* A channel that is in epoll, and changes its mask.
InEpoll(p) ==
    p.channels[Fd] = Chan /\ p.index[Chan] = "kAdded" /\ p.epoll[Fd] = Chan

LEMMA EnableInEpoll ==
    ASSUME NEW p \in PollerType, InEpoll(p), NEW e \in Events
    PROVE  LET q == Enable(p, Chan, Fd, e) IN
           /\ InEpoll(q) /\ q.events[Chan] = p.events[Chan] \cup {e}
           /\ q.failed = p.failed
<1> DEFINE r == [p EXCEPT !.events[Chan] = @ \cup {e}]
<1>1. /\ r \in PollerType /\ InEpoll(r) /\ r.failed = p.failed
      /\ r.events[Chan] = p.events[Chan] \cup {e} /\ r.events[Chan] # {}
    BY DEF PollerType, InEpoll, Events
<1>2. Enable(p, Chan, Fd, e) = UpdateChannel(r, Chan, Fd)
    BY DEF Enable
<1> HIDE DEF r
<1>3. UpdateChannel(r, Chan, Fd) = [r EXCEPT !.epoll[Fd] = Chan]
    <2>1. /\ r.channels[Fd] = Chan /\ r.index[Chan] = "kAdded" /\ r.events[Chan] # {}
          /\ r.epoll[Fd] # "null" /\ r.index[Chan] # "kNew"
        BY <1>1 DEF InEpoll, Chan
    <2> QED BY <2>1, Zenon DEF UpdateChannel, CtlMod
<1>4. /\ InEpoll([r EXCEPT !.epoll[Fd] = Chan])
      /\ [r EXCEPT !.epoll[Fd] = Chan].events = r.events
      /\ [r EXCEPT !.epoll[Fd] = Chan].failed = r.failed
    BY <1>1 DEF PollerType, InEpoll
<1> QED BY <1>1, <1>2, <1>3, <1>4

LEMMA DisableInEpoll ==
    ASSUME NEW p \in PollerType, InEpoll(p), NEW e \in Events, p.events[Chan] \ {e} # {}
    PROVE  LET q == Disable(p, Chan, Fd, e) IN
           /\ InEpoll(q) /\ q.events[Chan] = p.events[Chan] \ {e}
           /\ q.failed = p.failed
<1> DEFINE r == [p EXCEPT !.events[Chan] = @ \ {e}]
<1>1. /\ r \in PollerType /\ InEpoll(r) /\ r.failed = p.failed
      /\ r.events[Chan] = p.events[Chan] \ {e} /\ r.events[Chan] # {}
    BY DEF PollerType, InEpoll, Events
<1>2. Disable(p, Chan, Fd, e) = UpdateChannel(r, Chan, Fd)
    BY DEF Disable
<1> HIDE DEF r
<1>3. UpdateChannel(r, Chan, Fd) = [r EXCEPT !.epoll[Fd] = Chan]
    <2>1. /\ r.channels[Fd] = Chan /\ r.index[Chan] = "kAdded" /\ r.events[Chan] # {}
          /\ r.epoll[Fd] # "null" /\ r.index[Chan] # "kNew"
        BY <1>1 DEF InEpoll, Chan
    <2> QED BY <2>1, Zenon DEF UpdateChannel, CtlMod
<1>4. /\ InEpoll([r EXCEPT !.epoll[Fd] = Chan])
      /\ [r EXCEPT !.epoll[Fd] = Chan].events = r.events
      /\ [r EXCEPT !.epoll[Fd] = Chan].failed = r.failed
    BY <1>1 DEF PollerType, InEpoll
<1> QED BY <1>1, <1>2, <1>3, <1>4

\* handleClose() takes the channel out of the kernel's list and leaves it in channels_.
LEMMA CloseInEpoll ==
    ASSUME NEW p \in PollerType, InEpoll(p)
    PROVE  LET q == DisableAll(p, Chan, Fd) IN
           /\ q.channels[Fd] = Chan /\ q.index[Chan] = "kDeleted"
           /\ q.events[Chan] = {} /\ q.epoll[Fd] = "null"
           /\ q.failed = p.failed
BY DEF PollerType, InEpoll, DisableAll, UpdateChannel, CtlDel

LEMMA RemoveClosed ==
    ASSUME NEW p \in PollerType,
           p.channels[Fd] = Chan, p.index[Chan] = "kDeleted", p.events[Chan] = {}
    PROVE  LET q == RemoveChannel(p, Chan, Fd) IN
           /\ q.channels[Fd] = "null" /\ q.index[Chan] = "kNew"
           /\ q.events[Chan] = {} /\ q.epoll[Fd] = p.epoll[Fd]
           /\ q.failed = p.failed
BY DEF PollerType, RemoveChannel

\* connectEstablished() adds the channel.
LEMMA EnableNew ==
    LET q == Enable(EmptyPoller, Chan, Fd, "IN") IN
    InEpoll(q) /\ q.events[Chan] = {"IN"} /\ q.failed = "none"
BY DEF EmptyPoller, InEpoll, Enable, UpdateChannel, CtlAdd

-----------------------------------------------------------------------------
(* Types. *)

LEMMA SeqElement ==
    ASSUME NEW S, NEW s \in Seq(S), NEW i \in DOMAIN s PROVE s[i] \in S
OBVIOUS

LEMMA SeqTaken ==
    ASSUME NEW S, NEW s \in Seq(S), s # <<>>
    PROVE  /\ Len(s) \in Nat \ {0} /\ DOMAIN s = 1 .. Len(s) /\ 1 \in DOMAIN s
           /\ Head(s) = s[1] /\ s[1] \in S
           /\ Tail(s) \in Seq(S) /\ Len(Tail(s)) = Len(s) - 1
           /\ DOMAIN Tail(s) = 1 .. Len(s) - 1
           /\ \A i \in DOMAIN Tail(s) : Tail(s)[i] = s[i + 1]
OBVIOUS

LEMMA SeqAppended ==
    ASSUME NEW S, NEW s \in Seq(S), NEW e \in S
    PROVE  /\ Append(s, e) \in Seq(S) /\ Len(Append(s, e)) = Len(s) + 1 /\ Len(s) \in Nat
           /\ DOMAIN s = 1 .. Len(s) /\ DOMAIN Append(s, e) = 1 .. Len(s) + 1
           /\ \A i \in DOMAIN s : Append(s, e)[i] = s[i]
           /\ Append(s, e)[Len(s) + 1] = e
OBVIOUS

LEMMA IdleTyped == Idle \notin Queueable /\ Plain("setState") \notin Queueable
BY DEF Idle, Plain, Functor, Queueable, RefCalls

LEMMA CopiesTyped ==
    ASSUME NEW id \in SendIds, NEW n \in Nat
    PROVE  /\ Copies(id, n) \in Seq(SendIds) /\ Len(Copies(id, n)) = n
           /\ DOMAIN Copies(id, n) = 1 .. n
           /\ \A k \in 1 .. n : Copies(id, n)[k] = id
BY DEF Copies

\* The numbers of a step that queues a send, takes a functor, or writes.
LEMMA EnqueueTyped ==
    ASSUME conn \in ConnType, NEW id \in SendIds, NEW n \in Nat
    PROVE  /\ Enqueue(conn, id, n) \in ConnType
           /\ Enqueue(conn, id, n).contexts = Append(conn.contexts, Context(id, n))
           /\ Enqueue(conn, id, n).pending = conn.pending + n
           /\ Enqueue(conn, id, n).state = conn.state
           /\ Context(id, n) \in [id : SendIds, left : Nat]
           /\ Context(id, n).id = id /\ Context(id, n).left = n
<1>1. /\ Context(id, n) \in [id : SendIds, left : Nat]
      /\ Context(id, n).id = id /\ Context(id, n).left = n
    BY DEF Context
<1>2. Append(conn.contexts, Context(id, n)) \in Seq([id : SendIds, left : Nat])
    BY <1>1 DEF ConnType
<1>3. conn.pending + n \in Nat
    BY DEF ConnType
<1> QED BY <1>1, <1>2, <1>3 DEF ConnType, Enqueue

LEMMA AcceptedTyped ==
    ASSUME hist \in HistType, NEW id \in SendIds, NEW n \in Nat, NEW m \in 0 .. MaxSends
    PROVE  /\ [hist EXCEPT !.accepted = @ \o Copies(id, n)] \in HistType
           /\ [hist EXCEPT !.sends = m, !.accepted = @ \o Copies(id, n)] \in HistType
<1>1. hist.accepted \o Copies(id, n) \in Seq(SendIds)
    BY CopiesTyped DEF HistType
<1> QED BY <1>1 DEF HistType

LEMMA CalledTyped ==
    ASSUME loop \in LoopType, loop.pass <= Len(loop.queue), loop.pass > 0
    PROVE  /\ Called \in LoopType /\ Called.pass <= Len(Called.queue)
           /\ Called.queue = Tail(loop.queue) /\ Head(loop.queue) \in Queueable
           /\ Called.pc = loop.pc /\ Called.reported = loop.reported
           /\ Called.upcall = loop.upcall /\ Called.writing = loop.writing
           /\ Len(loop.queue) \in Nat /\ Len(Called.queue) = Len(loop.queue) - 1
<1>1. /\ loop.queue \in Seq(Queueable) /\ loop.queue # <<>>
      /\ loop.pass \in Nat /\ loop.pass - 1 \in Nat
    BY DEF LoopType
<1>2. /\ Tail(loop.queue) \in Seq(Queueable) /\ Head(loop.queue) \in Queueable
      /\ Len(loop.queue) \in Nat /\ Len(Tail(loop.queue)) = Len(loop.queue) - 1
    BY <1>1
<1>3. Called \in LoopType
    BY <1>1, <1>2 DEF LoopType, Called
<1>4. /\ Called.queue = Tail(loop.queue) /\ Called.pass = loop.pass - 1
      /\ Called.pc = loop.pc /\ Called.reported = loop.reported
      /\ Called.upcall = loop.upcall /\ Called.writing = loop.writing
    BY DEF LoopType, Called
<1>5. loop.pass - 1 <= Len(loop.queue) - 1
    BY <1>1, <1>2
<1> QED BY <1>2, <1>3, <1>4, <1>5

LEMMA QueuedTyped ==
    ASSUME NEW l \in LoopType, l.pass <= Len(l.queue), NEW f \in Queueable
    PROVE  /\ Queued(l, f) \in LoopType /\ Queued(l, f).pass <= Len(Queued(l, f).queue)
           /\ Queued(l, f).queue = Append(l.queue, f)
           /\ Queued(l, f).pc = l.pc /\ Queued(l, f).reported = l.reported
           /\ Queued(l, f).upcall = l.upcall /\ Queued(l, f).writing = l.writing
<1>1. /\ Append(l.queue, f) \in Seq(Queueable)
      /\ Len(l.queue) \in Nat /\ Len(Append(l.queue, f)) = Len(l.queue) + 1
    BY DEF LoopType
<1>2. Queued(l, f) \in LoopType
    BY <1>1 DEF LoopType, Queued
<1>3. /\ Queued(l, f).queue = Append(l.queue, f) /\ Queued(l, f).pass = l.pass
      /\ Queued(l, f).pc = l.pc /\ Queued(l, f).reported = l.reported
      /\ Queued(l, f).upcall = l.upcall /\ Queued(l, f).writing = l.writing
    BY DEF LoopType, Queued
<1>4. l.pass <= Len(l.queue) + 1
    BY <1>1 DEF LoopType
<1> QED BY <1>1, <1>2, <1>3, <1>4

LEMMA HandledTyped ==
    ASSUME loop \in LoopType, loop.pass <= Len(loop.queue), NEW e
    PROVE  /\ Handled(e) \in LoopType /\ Handled(e).pass <= Len(Handled(e).queue)
           /\ Handled(e).reported = loop.reported \ {e}
           /\ Handled(e).pc = loop.pc /\ Handled(e).queue = loop.queue
           /\ Handled(e).upcall = loop.upcall /\ Handled(e).writing = loop.writing
BY DEF LoopType, Handled

LEMMA StopTyped ==
    ASSUME loop \in LoopType, loop.pass <= Len(loop.queue)
    PROVE  /\ Stop(loop) \in LoopType /\ Stop(loop).pass <= Len(Stop(loop).queue)
           /\ ~Stop(loop).writing
           /\ Stop(loop).reported = loop.reported /\ Stop(loop).queue = loop.queue
           /\ Stop(loop).pc = loop.pc /\ Stop(loop).upcall = loop.upcall
BY DEF LoopType, Stop

LEMMA CallBackTyped ==
    ASSUME hist \in HistType, NEW event
    PROVE  /\ CallBack(hist, event) \in HistType
           /\ CallBack(hist, event).accepted = hist.accepted
           /\ CallBack(hist, event).wire = hist.wire
           /\ CallBack(hist, event).callbacks =
                 IF event = "up" /\ hist.callbacks = "none" THEN "up"
                 ELSE IF event = "message" /\ hist.callbacks = "up" THEN "up"
                 ELSE IF event = "down" /\ hist.callbacks = "up" THEN "down" ELSE "wrong"
BY DEF HistType, CallBack

LEMMA PlainTyped ==
    /\ Plain("shutdown") \in Queueable
    /\ \A call \in RefCalls : Plain(call) \in Queueable /\ Plain(call).call = call
    /\ Plain("shutdown").call = "shutdown" /\ Plain("setState").call = "setState"
    /\ Idle.call = "none"
BY DEF Queueable, RefCalls, Plain, Functor, Idle

LEMMA QueueableCalls ==
    ASSUME NEW f \in Queueable
    PROVE  /\ f.call \in RawCalls \cup RefCalls
           /\ f.call \in {"send", "sendFile"} => f.id \in SendIds /\ f.size \in Nat
BY DEF Queueable, RawCalls, RefCalls, Calls, Plain, Functor

LEMMA RemoveTyped ==
    ASSUME NEW l \in LoopType, l.pass <= Len(l.queue), NEW o \in OwnType, Remove(l, o)
    PROVE  /\ loop' \in LoopType /\ loop'.pass <= Len(loop'.queue) /\ own' \in OwnType
           /\ loop'.pc = l.pc /\ loop'.reported = l.reported
           /\ loop'.upcall = l.upcall /\ loop'.writing = l.writing
           /\ own'.held = o.held
           /\ \/ loop'.queue = l.queue /\ own'.removals = o.removals + 1
              \/ /\ loop'.queue = Append(l.queue, Plain("connectDestroyed"))
                 /\ own'.removals = o.removals
<1>1. Plain("connectDestroyed") \in Queueable
    BY PlainTyped DEF RefCalls
<1>2. CASE SameLoop
    <2>1. loop' = Queued(l, Plain("connectDestroyed")) /\ own' = [o EXCEPT !.inMap = FALSE]
        BY <1>2 DEF Remove
    <2> QED BY <1>1, <2>1, QueuedTyped DEF OwnType
<1>3. CASE ~SameLoop
    <2>1. loop' = l /\ own' = [o EXCEPT !.removals = @ + 1]
        BY <1>3 DEF Remove
    <2> QED BY <2>1 DEF OwnType
<1> QED BY <1>2, <1>3

LEMMA HandleCloseTyped ==
    ASSUME TypeOK, NEW c \in ConnType, NEW l \in LoopType, l.pass <= Len(l.queue),
           HandleClose(c, l)
    PROVE  /\ conn' \in ConnType /\ poller' \in PollerType /\ hist' \in HistType
           /\ loop' \in LoopType /\ loop'.pass <= Len(loop'.queue) /\ own' \in OwnType
           /\ conn' = [c EXCEPT !.state = "kDisconnected"]
           /\ poller' = DisableAll(poller, Chan, Fd)
           /\ hist' = CallBack(hist, "down")
           /\ Remove(l, own)
<1>1. conn' \in ConnType
    BY DEF HandleClose, ConnType, States
<1>2. poller' \in PollerType
    BY PollerTyped DEF TypeOK, HandleClose, Events
<1>3. hist' \in HistType
    BY CallBackTyped DEF TypeOK, HandleClose
<1> QED BY <1>1, <1>2, <1>3, RemoveTyped DEF TypeOK, HandleClose

\* What is left of the first context is part of what is pending.
LEMMA FrontIsPending ==
    ASSUME TypeOK, Backlog, conn.contexts # <<>>
    PROVE  /\ Front \in [id : SendIds, left : Nat]
           /\ Front.left <= conn.pending
           /\ Front = conn.contexts[1]
           /\ Tail(conn.contexts) \in Seq([id : SendIds, left : Nat])
           /\ Len(conn.contexts) \in Nat \ {0}
<1>1. conn.contexts \in Seq([id : SendIds, left : Nat]) /\ conn.pending \in Nat
    BY DEF TypeOK, ConnType
<1>2. /\ Len(conn.contexts) \in Nat \ {0} /\ 1 \in DOMAIN conn.contexts
      /\ Front \in [id : SendIds, left : Nat] /\ Front = conn.contexts[1]
      /\ Tail(conn.contexts) \in Seq([id : SendIds, left : Nat])
    BY <1>1, SeqTaken, Zenon DEF Front
<1>3. PICK ends \in Ends : ends[Len(conn.contexts)] <= ends[0] + conn.pending
    BY DEF Backlog
<1>4. /\ ends[0] \in Nat /\ ends[1] \in Nat /\ ends[Len(conn.contexts)] \in Nat
      /\ ends[1] = ends[0] + conn.contexts[1].left
      /\ ends[1] <= ends[Len(conn.contexts)]
    BY SMTT(20), <1>2, <1>3 DEF Ends
<1>5. conn.contexts[1].left \in Nat
    BY <1>2
<1> QED BY <1>1, <1>2, <1>3, <1>4, <1>5

LEMMA AdvanceTyped ==
    ASSUME conn \in ConnType, conn.contexts # <<>>, NEW n \in Nat,
           n <= Front.left, n <= conn.pending
    PROVE  /\ Advance(conn, n) \in ConnType
           /\ Advance(conn, n).pending = conn.pending - n
           /\ n = Front.left => Advance(conn, n).contexts = Tail(conn.contexts)
           /\ n # Front.left =>
                 Advance(conn, n).contexts = [conn.contexts EXCEPT ![1].left = @ - n]
<1>1. /\ conn.contexts \in Seq([id : SendIds, left : Nat])
      /\ conn.pending \in Nat /\ conn.pending - n \in Nat
      /\ Front = Head(conn.contexts) /\ Front = conn.contexts[1]
    BY SeqTaken DEF ConnType, Front
<1>2. /\ Tail(conn.contexts) \in Seq([id : SendIds, left : Nat])
      /\ Len(conn.contexts) \in Nat /\ 1 \in DOMAIN conn.contexts
      /\ DOMAIN conn.contexts = 1 .. Len(conn.contexts)
    BY <1>1, SeqTaken
<1>3. conn.contexts[1] \in [id : SendIds, left : Nat]
    BY <1>1, SeqTaken, Zenon
<1> DEFINE rest == [conn.contexts EXCEPT ![1].left = @ - n]
<1>4. [conn.contexts[1] EXCEPT !.left = @ - n] \in [id : SendIds, left : Nat]
    BY <1>1, <1>3
<1>5. rest \in Seq([id : SendIds, left : Nat])
    BY <1>1, <1>2, <1>4
<1> DEFINE left == IF n = Front.left THEN Tail(conn.contexts) ELSE rest
<1>6. Advance(conn, n) = [conn EXCEPT !.pending = @ - n, !.contexts = left]
    BY <1>1, Zenon DEF Advance
<1>7. left \in Seq([id : SendIds, left : Nat])
    BY <1>2, <1>5
<1> HIDE DEF left
<1>8. /\ Advance(conn, n) \in ConnType /\ Advance(conn, n).pending = conn.pending - n
      /\ Advance(conn, n).contexts = left
    BY <1>1, <1>6, <1>7 DEF ConnType
<1> QED BY <1>8 DEF left, rest

LEMMA OutputTyped ==
    ASSUME poller \in PollerType
    PROVE  WatchOutput(poller) \in PollerType /\ UnwatchOutput(poller) \in PollerType
BY PollerTyped DEF WatchOutput, UnwatchOutput, Events

LEMMA TypeInit == Init => TypeOK
<1> SUFFICES ASSUME Init PROVE TypeOK
    OBVIOUS
<1> USE ConnectionAssumption DEF Init
<1>1. conn \in ConnType
    BY DEF ConnType, States
<1>2. poller \in PollerType
    BY DEF EmptyPoller, PollerType, Indexes, Failures
<1>3. <<Plain("connectEstablished")>> \in Seq(Queueable)
    BY PlainTyped DEF RefCalls
<1>4. loop \in LoopType /\ loop.pass <= Len(loop.queue)
    BY <1>3 DEF LoopType
<1>5. net \in NetType /\ own \in OwnType /\ hist \in HistType
    BY DEF NetType, OwnType, HistType
<1>6. worker \in [Workers -> Queueable \cup {Idle, Plain("setState")}]
    OBVIOUS
<1> QED BY <1>1, <1>2, <1>4, <1>5, <1>6 DEF TypeOK

LEMMA TypeStep == TypeOK /\ Backlog /\ [Next]_cvars => TypeOK'
<1> SUFFICES ASSUME TypeOK, Backlog, [Next]_cvars PROVE TypeOK'
    OBVIOUS
<1> USE ConnectionAssumption
<1>1. ASSUME NEW call, NEW size \in Sizes, SendHere(call, size) PROVE TypeOK'
    <2>1. hist.sends + 1 \in SendIds /\ hist.sends + 1 \in 0 .. MaxSends /\ size \in Nat
        BY <1>1 DEF SendHere, TypeOK, HistType, SendIds
    <2>2. conn' \in ConnType
        BY <1>1, <2>1, EnqueueTyped DEF SendHere, TypeOK
    <2>3. hist' = [hist EXCEPT !.sends = hist.sends + 1,
                               !.accepted = @ \o Copies(hist.sends + 1, size)]
        BY <1>1 DEF SendHere
    <2>4. hist' \in HistType
        BY <2>1, <2>3, AcceptedTyped DEF TypeOK
    <2>5. loop' \in LoopType /\ loop'.pass <= Len(loop'.queue)
        BY <1>1 DEF SendHere, TypeOK, LoopType
    <2> QED BY <1>1, <2>2, <2>4, <2>5 DEF SendHere, TypeOK
<1>2. ASSUME ShutdownHere PROVE TypeOK'
    <2>1. conn' \in ConnType
        BY <1>2 DEF ShutdownHere, TypeOK, ConnType, States
    <2>2. net' \in NetType
        BY <1>2 DEF ShutdownHere, ShutdownInLoop, TypeOK, NetType
    <2> QED BY <1>2, <2>1, <2>2 DEF ShutdownHere, TypeOK
<1>3. ASSUME CallbackReturns PROVE TypeOK'
    BY <1>3 DEF CallbackReturns, TypeOK, LoopType
<1>4. ASSUME WritingDone PROVE TypeOK'
    BY <1>4, StopTyped DEF WritingDone, TypeOK
<1>5. ASSUME WriteSome PROVE TypeOK'
    <2> DEFINE n == IF Front.left <= Room THEN Front.left ELSE Room
    <2>1. conn.contexts # <<>>
        BY <1>5 DEF WriteSome, Writing
    <2>2. Front \in [id : SendIds, left : Nat] /\ Front.left <= conn.pending
        BY <2>1, FrontIsPending
    <2>3. Room \in Nat /\ SndBuf \in Nat /\ net.unsent \in 0 .. SndBuf /\ conn.pending \in Nat
        BY DEF TypeOK, NetType, ConnType, Room
    <2>4. n \in Nat /\ n <= Front.left /\ n <= conn.pending /\ n <= Room
        BY <2>2, <2>3
    <2>5. net.unsent + n \in 0 .. SndBuf
        BY <2>3, <2>4 DEF Room
    <2>6. /\ conn' = Advance(conn, n)
          /\ net' = [net EXCEPT !.unsent = @ + n]
          /\ hist' = [hist EXCEPT !.wire = @ \o Copies(Front.id, n)]
          /\ poller' = UnwatchOutput(poller) \/ UNCHANGED poller
          /\ UNCHANGED <<loop, own, worker>>
        BY <1>5 DEF WriteSome
    <2> HIDE DEF n
    <2>7. conn' \in ConnType
        BY <2>1, <2>4, <2>6, AdvanceTyped DEF TypeOK
    <2>8. net' \in NetType
        BY <2>5, <2>6 DEF TypeOK, NetType
    <2>9. hist.wire \o Copies(Front.id, n) \in Seq(SendIds)
        BY <2>2, <2>4, CopiesTyped DEF TypeOK, HistType
    <2>10. hist' \in HistType
        BY <2>6, <2>9 DEF TypeOK, HistType
    <2>11. poller' \in PollerType
        BY <2>6, OutputTyped DEF TypeOK
    <2> QED BY <2>6, <2>7, <2>8, <2>10, <2>11 DEF TypeOK
<1>6. ASSUME WriteBlocked PROVE TypeOK'
    <2>1. conn' \in ConnType
        BY <1>6 DEF WriteBlocked, TypeOK, ConnType
    <2> QED BY <1>6, <2>1, OutputTyped, StopTyped DEF WriteBlocked, TypeOK
<1>7. ASSUME WriteFails PROVE TypeOK'
    <2> DEFINE c == [conn EXCEPT !.contexts = Tail(@)]
    <2>1. conn.contexts # <<>> /\ HandleClose(c, Stop(loop))
          /\ net' = [net EXCEPT !.sockErr = FALSE] /\ UNCHANGED worker
        BY <1>7 DEF WriteFails, Writing
    <2>2. c \in ConnType
        BY <2>1, FrontIsPending DEF TypeOK, ConnType
    <2>3. Stop(loop) \in LoopType /\ Stop(loop).pass <= Len(Stop(loop).queue)
        BY StopTyped DEF TypeOK
    <2> HIDE DEF c
    <2>4. net' \in NetType
        BY <2>1 DEF TypeOK, NetType
    <2> QED BY <2>1, <2>2, <2>3, <2>4, HandleCloseTyped DEF TypeOK
<1>8. ASSUME Poll PROVE TypeOK'
    <2>1. Ready \in SUBSET {"HUP", "ERR", "IN", "OUT"}
        BY DEF Ready
    <2> QED BY <1>8, <2>1 DEF Poll, TypeOK, LoopType
<1>9. ASSUME EventHup \/ EventEof PROVE TypeOK'
    <2>1. PICK e : HandleClose(conn, Handled(e)) /\ UNCHANGED <<net, worker>>
        BY <1>9 DEF EventHup, EventEof
    <2>2. Handled(e) \in LoopType /\ Handled(e).pass <= Len(Handled(e).queue)
        BY HandledTyped DEF TypeOK
    <2> QED BY <2>1, <2>2, HandleCloseTyped DEF TypeOK
<1>10. ASSUME EventErr PROVE TypeOK'
    <2>1. net' \in NetType
        BY <1>10 DEF EventErr, TypeOK, NetType
    <2> QED BY <1>10, <2>1, HandledTyped DEF EventErr, TypeOK
<1>11. ASSUME EventMessage PROVE TypeOK'
    <2>1. net' \in NetType
        BY <1>11 DEF EventMessage, TypeOK, NetType
    <2>2. loop' \in LoopType /\ loop'.pass <= Len(loop'.queue)
        BY <1>11, HandledTyped DEF EventMessage, TypeOK, LoopType
    <2> QED BY <1>11, <2>1, <2>2, CallBackTyped DEF EventMessage, TypeOK
<1>12. ASSUME EventReadError PROVE TypeOK'
    <2>1. net' \in NetType
        BY <1>12 DEF EventReadError, TypeOK, NetType
    <2>2. hist' \in HistType
        BY <1>12 DEF EventReadError, ReadFdFails, TypeOK, HistType
    <2> QED BY <1>12, <2>1, <2>2, HandledTyped DEF EventReadError, TypeOK
<1>13. ASSUME EventOut PROVE TypeOK'
    <2>1. loop' \in LoopType /\ loop'.pass <= Len(loop'.queue)
        BY <1>13, HandledTyped DEF EventOut, TypeOK, LoopType
    <2> QED BY <1>13, <2>1 DEF EventOut, TypeOK
<1>14. ASSUME DoPendingFunctors PROVE TypeOK'
    <2>1. Len(loop.queue) \in Nat
        BY DEF TypeOK, LoopType
    <2>2. loop' \in LoopType /\ loop'.queue = loop.queue /\ loop'.pass = Len(loop.queue)
        BY <1>14, <2>1 DEF DoPendingFunctors, TypeOK, LoopType
    <2> QED BY <1>14, <2>1, <2>2 DEF DoPendingFunctors, TypeOK
<1>15. ASSUME FunctorsDone PROVE TypeOK'
    BY <1>15 DEF FunctorsDone, TypeOK, LoopType, OwnType
<1>16. ASSUME NEW call, Calling(call)
       PROVE  /\ Called \in LoopType /\ Called.pass <= Len(Called.queue)
              /\ Head(loop.queue) \in Queueable /\ Head(loop.queue).call = call
    BY <1>16, CalledTyped DEF Calling, TypeOK
<1>17. ASSUME ConnectEstablished PROVE TypeOK'
    <2>1. Calling("connectEstablished")
        BY <1>17 DEF ConnectEstablished
    <2>2. conn' \in ConnType
        BY <1>17 DEF ConnectEstablished, TypeOK, ConnType, States
    <2>3. poller' \in PollerType /\ hist' \in HistType
        BY <1>17, PollerTyped, CallBackTyped DEF ConnectEstablished, TypeOK, Events
    <2>4. loop' \in LoopType /\ loop'.pass <= Len(loop'.queue)
        BY <1>16, <1>17, <2>1 DEF ConnectEstablished, LoopType
    <2>5. own' \in OwnType /\ UNCHANGED <<net, worker>>
        BY <1>17 DEF ConnectEstablished, TypeOK, OwnType
    <2> QED BY <2>2, <2>3, <2>4, <2>5 DEF TypeOK
<1>18. ASSUME ConnectDestroyed PROVE TypeOK'
    <2>1. Calling("connectDestroyed")
        BY <1>18 DEF ConnectDestroyed
    <2>2. conn' \in ConnType
        BY <1>18 DEF ConnectDestroyed, TypeOK, ConnType, States
    <2>3. hist' \in HistType
        BY <1>18, CallBackTyped DEF ConnectDestroyed, TypeOK
    <2> DEFINE p == IF StillUp THEN DisableAll(poller, Chan, Fd) ELSE poller
    <2>4. poller' = Unlist(p)
        BY <1>18, Zenon DEF ConnectDestroyed
    <2>5. p \in PollerType
        BY PollerTyped DEF TypeOK, Events
    <2> HIDE DEF p
    <2>6. poller' \in PollerType
        BY <2>5, <2>4, PollerTyped DEF Unlist, Events
    <2>7. own' \in OwnType /\ UNCHANGED <<net, worker>> /\ loop' = Called
        BY <1>18 DEF ConnectDestroyed, TypeOK, OwnType
    <2> QED BY <1>16, <2>1, <2>2, <2>3, <2>6, <2>7 DEF TypeOK
<1>19. ASSUME NEW call \in {"send", "sendFile"}, RunSend(call) PROVE TypeOK'
    <2> DEFINE f == Head(loop.queue)
    <2>1. Calling(call) /\ Accept(call, f.id, f.size, Called)
          /\ UNCHANGED <<poller, net, own, worker>>
        BY <1>19 DEF RunSend
    <2>2. f.id \in SendIds /\ f.size \in Nat
        BY <1>16, <2>1, QueueableCalls
    <2> HIDE DEF f
    <2>3. CASE loop' = Called /\ UNCHANGED <<conn, hist>>
        BY <1>16, <2>1, <2>3 DEF TypeOK
    <2>4. CASE /\ conn' = Enqueue(conn, f.id, f.size)
               /\ hist' = [hist EXCEPT !.accepted = @ \o Copies(f.id, f.size)]
               /\ loop' = [Called EXCEPT !.writing = TRUE]
        <3>1. conn' \in ConnType
            BY <2>2, <2>4, EnqueueTyped DEF TypeOK
        <3>2. hist.sends \in 0 .. MaxSends
            BY DEF TypeOK, HistType
        <3>3. hist' \in HistType
            BY <2>2, <2>4, <3>2, AcceptedTyped DEF TypeOK
        <3>4. loop' \in LoopType /\ loop'.pass <= Len(loop'.queue)
            BY <1>16, <2>1, <2>4 DEF LoopType
        <3> QED BY <2>1, <3>1, <3>3, <3>4 DEF TypeOK
    <2> QED BY <2>1, <2>3, <2>4 DEF Accept
<1>20. ASSUME RunShutdown PROVE TypeOK'
    <2>1. net' \in NetType
        BY <1>20 DEF RunShutdown, ShutdownInLoop, TypeOK, NetType
    <2> QED BY <1>16, <1>20, <2>1 DEF RunShutdown, TypeOK
<1>21. ASSUME RunDangling PROVE TypeOK'
    BY <1>21 DEF RunDangling, TypeOK, HistType
<1>22. ASSUME RemoveConnectionInLoop PROVE TypeOK'
    <2>1. Plain("connectDestroyed") \in Queueable
        BY PlainTyped DEF RefCalls
    <2>2. loop' \in LoopType /\ loop'.pass <= Len(loop'.queue)
        BY <1>22, <2>1, QueuedTyped DEF RemoveConnectionInLoop, TypeOK
    <2>3. own.removals - 1 \in Nat /\ own' = [own EXCEPT !.inMap = FALSE, !.removals = @ - 1]
        BY <1>22 DEF RemoveConnectionInLoop, TypeOK, OwnType
    <2>4. own' \in OwnType
        BY <2>3 DEF TypeOK, OwnType
    <2> QED BY <1>22, <2>2, <2>4 DEF RemoveConnectionInLoop, TypeOK
<1>23. ASSUME NEW w \in Workers, WorkerSteps(w) PROVE TypeOK'
    <2>1. ASSUME NEW call \in Calls, NEW size \in Sizes \cup {0}, WorkerTests(w, call, size)
          PROVE  TypeOK'
        <3>1. CASE call = "shutdown"
            BY <2>1, <3>1 DEF WorkerTests, TypeOK
        <3>2. CASE call # "shutdown"
            <4>1. /\ worker' = [worker EXCEPT ![w] = Functor(call, hist.sends + 1, size)]
                  /\ hist' = [hist EXCEPT !.sends = @ + 1] /\ hist.sends < MaxSends
                BY <2>1, <3>2 DEF WorkerTests
            <4>2. hist.sends + 1 \in SendIds /\ hist.sends + 1 \in 0 .. MaxSends /\ size \in Nat
                BY <4>1 DEF TypeOK, HistType, SendIds
            <4>3. Functor(call, hist.sends + 1, size) \in Queueable
                BY <3>2, <4>2 DEF Functor, Queueable, Calls
            <4>4. hist' \in HistType
                BY <4>1, <4>2 DEF TypeOK, HistType
            <4> QED BY <2>1, <4>1, <4>3, <4>4 DEF WorkerTests, TypeOK
        <3> QED BY <3>1, <3>2
    <2>2. ASSUME WorkerSetsState(w) PROVE TypeOK'
        <3>1. conn' \in ConnType
            BY <2>2 DEF WorkerSetsState, TypeOK, ConnType, States
        <3> QED BY <2>2, <3>1, PlainTyped DEF WorkerSetsState, TypeOK
    <2>3. ASSUME WorkerQueues(w) PROVE TypeOK'
        <3>1. worker[w] \in Queueable
            BY <2>3, PlainTyped DEF WorkerQueues, TypeOK, RawCalls, Calls
        <3>2. loop' \in LoopType /\ loop'.pass <= Len(loop'.queue)
            BY <2>3, <3>1, QueuedTyped DEF WorkerQueues, TypeOK
        <3> QED BY <2>3, <3>2 DEF WorkerQueues, TypeOK
    <2>4. ASSUME WorkerDropsRef(w) PROVE TypeOK'
        BY <2>4 DEF WorkerDropsRef, TypeOK, OwnType
    <2> QED BY <1>23, <2>1, <2>2, <2>3, <2>4 DEF WorkerSteps
<1>24. ASSUME PeerSteps PROVE TypeOK'
    <2>1. ASSUME PeerSends PROVE net' \in NetType
        <3>1. /\ net.arrivals + 1 \in 0 .. MaxData
              /\ net' = [net EXCEPT !.input = TRUE, !.arrivals = @ + 1]
            BY <2>1 DEF PeerSends, TypeOK, NetType
        <3> QED BY <3>1 DEF TypeOK, NetType
    <2>2. ASSUME PeerReads PROVE net' \in NetType
        <3>1. net.unsent - 1 \in 0 .. SndBuf /\ net' = [net EXCEPT !.unsent = @ - 1]
            BY <2>2 DEF PeerReads, TypeOK, NetType
        <3> QED BY <3>1 DEF TypeOK, NetType
    <2>3. ASSUME PeerCloses PROVE net' \in NetType
        BY <2>3 DEF PeerCloses, TypeOK, NetType
    <2>4. ASSUME PeerResets PROVE net' \in NetType
        <3>1. 0 \in 0 .. SndBuf /\ net.input \in BOOLEAN
            BY DEF TypeOK, NetType
        <3> QED BY <2>4, <3>1 DEF PeerResets, TypeOK, NetType
    <2>5. net' \in NetType
        BY <1>24, <2>1, <2>2, <2>3, <2>4 DEF PeerSteps
    <2> QED BY <1>24, <2>5
            DEF PeerSteps, PeerSends, PeerReads, PeerCloses, PeerResets, TypeOK
<1>25. CASE UNCHANGED cvars
    BY <1>25 DEF cvars, TypeOK
<1> QED BY <1>1, <1>2, <1>3, <1>4, <1>5, <1>6, <1>7, <1>8, <1>9, <1>10, <1>11, <1>12, <1>13,
           <1>14, <1>15, <1>17, <1>18, <1>19, <1>20, <1>21, <1>22, <1>23, <1>24, <1>25
        DEF Next, UserSteps, LoopSteps, WriteSteps, EventSteps, FunctorSteps

-----------------------------------------------------------------------------
(* The connection that is new: nothing but connectEstablished() is on its way. *)

LEMMA FreshInit == Init => Fresh
BY DEF Init, Fresh

LEMMA FreshStep == TypeOK /\ Fresh /\ [Next]_cvars => Fresh'
<1> SUFFICES ASSUME TypeOK, Fresh, [Next]_cvars, hist'.callbacks = "none" PROVE Fresh'
    BY DEF Fresh
<1> USE DEF Fresh
<1> hist \in HistType
    BY DEF TypeOK
<1>1. ASSUME NEW c, NEW l, HandleClose(c, l) PROVE FALSE
    BY <1>1, CallBackTyped DEF HandleClose
<1>2. CASE hist.callbacks # "none"
    <2>1. ASSUME UserSteps PROVE FALSE
        BY <1>2, <2>1 DEF UserSteps, SendHere, ShutdownHere, HistType
    <2>2. ASSUME WriteSteps PROVE FALSE
        BY <1>1, <1>2, <2>2
           DEF WriteSteps, WritingDone, WriteSome, WriteBlocked, WriteFails, HistType
    <2>3. ASSUME EventSteps PROVE FALSE
        BY <1>1, <1>2, <2>3, CallBackTyped
           DEF EventSteps, EventHup, EventErr, EventMessage, EventReadError, EventEof, EventOut,
               ReadFdFails, HistType
    <2>4. ASSUME NEW call, RunSend(call) PROVE FALSE
        BY <1>2, <2>4 DEF RunSend, Accept, HistType
    <2>5. ASSUME FunctorSteps PROVE FALSE
        BY <1>2, <2>4, <2>5, CallBackTyped
           DEF FunctorSteps, DoPendingFunctors, FunctorsDone, ConnectEstablished,
               ConnectDestroyed, RunShutdown, RunDangling, HistType
    <2>6. ASSUME NEW w \in Workers, WorkerSteps(w) PROVE FALSE
        BY <1>2, <2>6
           DEF WorkerSteps, WorkerTests, WorkerSetsState, WorkerQueues, WorkerDropsRef, HistType
    <2> QED BY <1>2, <2>1, <2>2, <2>3, <2>5, <2>6
            DEF Next, LoopSteps, CallbackReturns, Poll, RemoveConnectionInLoop, PeerSteps,
                PeerSends, PeerReads, PeerCloses, PeerResets, cvars
<1>3. CASE hist.callbacks = "none"
    <2>1. loop.queue # <<>> /\ Head(loop.queue).call = "connectEstablished"
        <3>1. ASSUME NEW f PROVE <<f>> # <<>> /\ Head(<<f>>) = f
            OBVIOUS
        <3>2. loop.queue = <<Plain("connectEstablished")>>
            BY <1>3
        <3> QED BY <3>1, <3>2, PlainTyped, Zenon DEF RefCalls
    <2>2. ~UserSteps /\ ~CallbackReturns /\ ~WriteSteps /\ ~EventSteps
        BY <1>3
           DEF UserSteps, SendHere, ShutdownHere, InUserCode, CallbackReturns, WriteSteps,
               WritingDone, WriteSome, WriteBlocked, WriteFails, Writing, EventSteps, EventHup,
               EventErr, EventMessage, EventReadError, EventEof, EventOut, Handling
    <2>3. ~ConnectEstablished
        BY <1>3, CallBackTyped DEF ConnectEstablished
    <2>4. ~ConnectDestroyed /\ ~RunSend("send") /\ ~RunSend("sendFile") /\ ~RunShutdown
          /\ ~RunDangling
        BY <2>1 DEF ConnectDestroyed, RunSend, RunShutdown, RunDangling, Calling, RawCalls, Calls
    <2>5. ~RemoveConnectionInLoop
        BY <1>3 DEF RemoveConnectionInLoop
    <2>6. ASSUME NEW w \in Workers PROVE ~WorkerSteps(w)
        BY <1>3, PlainTyped
           DEF WorkerSteps, WorkerTests, WorkerSetsState, WorkerQueues, WorkerDropsRef, RawCalls,
               Calls
    <2>7. ASSUME Poll PROVE Fresh'
        <3>1. Ready = {}
            BY <1>3 DEF Ready, EmptyPoller, Fd
        <3> QED BY <1>3, <2>7, <3>1 DEF Poll, TypeOK, LoopType
    <2>8. ASSUME DoPendingFunctors \/ FunctorsDone PROVE Fresh'
        BY ZenonT(40), <1>3, <2>8 DEF DoPendingFunctors, FunctorsDone, TypeOK, LoopType, OwnType
    <2>9. ASSUME PeerSteps PROVE Fresh'
        BY <1>3, <2>9
           DEF PeerSteps, PeerSends, PeerReads, PeerCloses, PeerResets, TypeOK, NetType
    <2>10. CASE UNCHANGED cvars
        BY <1>3, <2>10 DEF cvars
    <2> QED BY <2>2, <2>3, <2>4, <2>5, <2>6, <2>7, <2>8, <2>9, <2>10
            DEF Next, LoopSteps, FunctorSteps
<1> QED BY <1>2, <1>3

-----------------------------------------------------------------------------
(* The channel of an open connection stays in epoll. *)

LEMMA RegisteredInit == Init => Registered
BY DEF Init, Registered, Open

\* EPOLLOUT asked for or given up: the channel stays, with EPOLLIN.
LEMMA OutputInEpoll ==
    ASSUME poller \in PollerType, InEpoll(poller), "IN" \in poller.events[Chan]
    PROVE  /\ InEpoll(WatchOutput(poller)) /\ InEpoll(UnwatchOutput(poller))
           /\ WatchOutput(poller).events[Chan] = poller.events[Chan] \cup {"OUT"}
           /\ UnwatchOutput(poller).events[Chan] = poller.events[Chan] \ {"OUT"}
           /\ WatchOutput(poller).failed = poller.failed
           /\ UnwatchOutput(poller).failed = poller.failed
<1>1. "OUT" \in Events /\ "IN" \in poller.events[Chan] \ {"OUT"}
    BY DEF Events
<1>2. /\ InEpoll(WatchOutput(poller))
      /\ WatchOutput(poller).events[Chan] = poller.events[Chan] \cup {"OUT"}
      /\ WatchOutput(poller).failed = poller.failed
    BY <1>1, EnableInEpoll DEF WatchOutput
<1>3. /\ InEpoll(UnwatchOutput(poller))
      /\ UnwatchOutput(poller).events[Chan] = poller.events[Chan] \ {"OUT"}
      /\ UnwatchOutput(poller).failed = poller.failed
    BY <1>1, DisableInEpoll DEF UnwatchOutput
<1> QED BY <1>2, <1>3

\* A connection opens in connectEstablished(), and closes with the callback "down".
LEMMA OpenSteps ==
    ASSUME TypeOK, [Next]_cvars
    PROVE  \/ ConnectEstablished
           \/ hist'.callbacks # "up"
           \/ Open /\ (poller' = WatchOutput(poller) /\ WriteBlocked)
           \/ Open /\ (poller' = UnwatchOutput(poller) /\ WriteSome)
           \/ Open /\ poller' = RemoveChannel(poller, Chan, Fd)
           \/ Open /\ UNCHANGED poller
<1> USE DEF Open
<1> hist \in HistType
    BY DEF TypeOK
<1>1. ASSUME NEW c, NEW l, HandleClose(c, l) PROVE hist'.callbacks # "up"
    BY <1>1, CallBackTyped DEF HandleClose
<1>2. ASSUME UserSteps PROVE UNCHANGED poller /\ hist'.callbacks = hist.callbacks
    BY <1>2 DEF UserSteps, SendHere, ShutdownHere, HistType
<1>3. ASSUME WriteSteps
      PROVE  \/ hist'.callbacks # "up"
             \/ /\ hist'.callbacks = hist.callbacks
                /\ \/ UNCHANGED poller
                   \/ WriteBlocked /\ poller' = WatchOutput(poller)
                   \/ WriteSome /\ poller' = UnwatchOutput(poller)
    BY <1>1, <1>3 DEF WriteSteps, WritingDone, WriteSome, WriteBlocked, WriteFails, HistType
<1>4. ASSUME EventSteps
      PROVE  \/ hist'.callbacks # "up"
             \/ hist.callbacks = "up" /\ UNCHANGED poller
    BY <1>1, <1>4, CallBackTyped
       DEF EventSteps, EventHup, EventErr, EventMessage, EventReadError, EventEof, EventOut,
           ReadFdFails, HistType
<1>5. ASSUME NEW call, RunSend(call)
      PROVE  hist'.callbacks = hist.callbacks /\ UNCHANGED poller
    BY <1>5 DEF RunSend, Accept, HistType
<1>6. ASSUME ConnectDestroyed
      PROVE  \/ hist'.callbacks # "up"
             \/ hist.callbacks = "up" /\ poller' = RemoveChannel(poller, Chan, Fd)
    <2>1. CASE StillUp
        BY <1>6, <2>1, CallBackTyped DEF ConnectDestroyed
    <2>2. CASE ~StillUp
        <3>1. UNCHANGED hist /\ poller' = Unlist(poller)
            BY <1>6, <2>2, Zenon DEF ConnectDestroyed
        <3>2. poller.failed = "none"
            BY <1>6 DEF ConnectDestroyed, Calling, Running
        <3> QED BY <3>1, <3>2 DEF Unlist
    <2> QED BY <2>1, <2>2
<1>7. ASSUME NEW w \in Workers, WorkerSteps(w)
      PROVE  UNCHANGED poller /\ hist'.callbacks = hist.callbacks
    BY <1>7
       DEF WorkerSteps, WorkerTests, WorkerSetsState, WorkerQueues, WorkerDropsRef, HistType
<1>8. ASSUME \/ CallbackReturns \/ Poll \/ DoPendingFunctors \/ FunctorsDone \/ RunShutdown
             \/ RunDangling \/ RemoveConnectionInLoop \/ PeerSteps \/ UNCHANGED cvars
      PROVE  UNCHANGED poller /\ hist'.callbacks = hist.callbacks
    BY <1>8
       DEF CallbackReturns, Poll, DoPendingFunctors, FunctorsDone, RunShutdown, RunDangling,
           RemoveConnectionInLoop, PeerSteps, PeerSends, PeerReads, PeerCloses, PeerResets,
           cvars, HistType
<1> QED BY <1>2, <1>3, <1>4, <1>5, <1>6, <1>7, <1>8 DEF Next, LoopSteps, FunctorSteps

LEMMA RegisteredStep == TypeOK /\ Fresh /\ Registered /\ [Next]_cvars => Registered'
<1> SUFFICES ASSUME TypeOK, Fresh, Registered, [Next]_cvars, hist'.callbacks = "up"
             PROVE  InEpoll(poller') /\ "IN" \in poller'.events[Chan]
    BY DEF Registered, Open, InEpoll
<1> poller \in PollerType
    BY DEF TypeOK
<1>1. CASE ConnectEstablished
    <2>1. hist.callbacks = "none"
        BY <1>1, CallBackTyped DEF ConnectEstablished, TypeOK
    <2>2. poller' = Enable(EmptyPoller, Chan, Fd, "IN")
        BY <1>1, <2>1 DEF ConnectEstablished, Fresh
    <2> QED BY <2>2, EnableNew
<1>2. CASE Open
    <2>1. InEpoll(poller) /\ "IN" \in poller.events[Chan]
        BY <1>2 DEF Registered, InEpoll
    <2>2. CASE poller' = RemoveChannel(poller, Chan, Fd)
        <3>1. poller.events[Chan] # {}
            BY <2>1
        <3>2. poller' = Fail(poller, "removeChannel")
            BY <2>2, <3>1, Zenon DEF RemoveChannel
        <3> QED BY <2>1, <3>2 DEF Fail, InEpoll, PollerType
    <2>3. CASE poller' = WatchOutput(poller) \/ poller' = UnwatchOutput(poller)
        BY <2>1, <2>3, OutputInEpoll
    <2>4. CASE UNCHANGED poller
        BY <2>1, <2>4
    <2> QED BY <1>1, <2>2, <2>3, <2>4, OpenSteps
<1> QED BY <1>1, <1>2, OpenSteps

-----------------------------------------------------------------------------
(* The stream: what every step leaves of the queued output. *)

Quiet ==
    /\ conn'.contexts = conn.contexts /\ conn'.pending = conn.pending
    /\ hist'.accepted = hist.accepted /\ hist'.wire = hist.wire
    /\ Open' => Open

\* Output is accepted for a send.
Accepted(id, n) ==
    /\ conn' = Enqueue(conn, id, n)
    /\ hist'.accepted = hist.accepted \o Copies(id, n) /\ hist'.wire = hist.wire
    /\ Open' => Open

Sending ==
    /\ loop'.writing
    /\ conn.state = "kConnected" \/ \E call \in {"send", "sendFile"} : Calling(call)

LEMMA OutputSteps ==
    ASSUME TypeOK, [Next]_cvars
    PROVE  \/ \E id \in SendIds, n \in Nat : Accepted(id, n) /\ Sending
           \/ WriteSome \/ WriteFails \/ ConnectEstablished
           \/ Quiet
<1> hist \in HistType /\ conn \in ConnType /\ loop \in LoopType
    BY DEF TypeOK
<1> USE ConnectionAssumption
<1>1. ASSUME HandleClose(conn, Handled("HUP")) \/ HandleClose(conn, Handled("IN")) PROVE Quiet
    BY <1>1, CallBackTyped DEF HandleClose, Quiet, Open, ConnType
<1>2. ASSUME NEW call, NEW size \in Sizes, SendHere(call, size)
      PROVE  \E id \in SendIds, n \in Nat : Accepted(id, n) /\ Sending
    <2>1. hist.sends + 1 \in SendIds /\ size \in Nat
        BY <1>2 DEF SendHere, HistType, SendIds
    <2>2. Accepted(hist.sends + 1, size) /\ Sending
        BY <1>2 DEF SendHere, InUserCode, Sending, Accepted, Open, HistType, LoopType
    <2> QED BY <2>1, <2>2
<1>3. ASSUME NEW call \in {"send", "sendFile"}, RunSend(call)
      PROVE  \/ \E id \in SendIds, n \in Nat : Accepted(id, n) /\ Sending
             \/ Quiet
    <2> DEFINE f == Head(loop.queue)
    <2>1. Calling(call) /\ Accept(call, f.id, f.size, Called)
        BY <1>3 DEF RunSend
    <2>2. f \in Queueable /\ f.call = call /\ Called \in LoopType
        BY <2>1, CalledTyped DEF Calling, TypeOK
    <2>3. f.id \in SendIds /\ f.size \in Nat
        BY <2>2, QueueableCalls
    <2> HIDE DEF f
    <2>4. CASE UNCHANGED <<conn, hist>>
        BY <2>4 DEF Quiet, Open
    <2>5. CASE /\ conn' = Enqueue(conn, f.id, f.size)
               /\ hist' = [hist EXCEPT !.accepted = @ \o Copies(f.id, f.size)]
               /\ loop' = [Called EXCEPT !.writing = TRUE]
        <3>1. Accepted(f.id, f.size) /\ Sending
            BY <2>1, <2>2, <2>5 DEF Sending, Accepted, Open, HistType, LoopType
        <3> QED BY <2>3, <3>1
    <2> QED BY <2>1, <2>4, <2>5 DEF Accept
<1>4. ASSUME ShutdownHere \/ CallbackReturns \/ WritingDone \/ WriteBlocked PROVE Quiet
    BY <1>4 DEF ShutdownHere, CallbackReturns, WritingDone, WriteBlocked, Quiet, Open, ConnType
<1>5. ASSUME Poll \/ EventSteps PROVE Quiet
    BY <1>1, <1>5, CallBackTyped
       DEF Poll, EventSteps, EventHup, EventErr, EventMessage, EventReadError, EventEof, EventOut,
           ReadFdFails, Quiet, Open, HistType
<1>6. ASSUME ConnectDestroyed PROVE Quiet
    BY <1>6, CallBackTyped DEF ConnectDestroyed, Quiet, Open, ConnType
<1>7. ASSUME \/ DoPendingFunctors \/ FunctorsDone \/ RunShutdown \/ RunDangling
             \/ RemoveConnectionInLoop \/ PeerSteps \/ UNCHANGED cvars
      PROVE  Quiet
    BY <1>7
       DEF DoPendingFunctors, FunctorsDone, RunShutdown, RunDangling, RemoveConnectionInLoop,
           PeerSteps, PeerSends, PeerReads, PeerCloses, PeerResets, cvars, Quiet, Open, HistType
<1>8. ASSUME NEW w \in Workers, WorkerSteps(w) PROVE Quiet
    BY <1>8
       DEF WorkerSteps, WorkerTests, WorkerSetsState, WorkerQueues, WorkerDropsRef, Quiet, Open,
           HistType, ConnType
<1> QED BY <1>2, <1>3, <1>4, <1>5, <1>6, <1>7, <1>8
        DEF Next, UserSteps, LoopSteps, WriteSteps, FunctorSteps

LEMMA OutputTypes ==
    ASSUME TypeOK
    PROVE  /\ conn.contexts \in Seq([id : SendIds, left : Nat]) /\ conn.pending \in Nat
           /\ hist.accepted \in Seq(SendIds) /\ hist.wire \in Seq(SendIds)
           /\ Len(conn.contexts) \in Nat /\ DOMAIN conn.contexts = 1 .. Len(conn.contexts)
           /\ Len(hist.accepted) \in Nat /\ DOMAIN hist.accepted = 1 .. Len(hist.accepted)
           /\ Len(hist.wire) \in Nat /\ DOMAIN hist.wire = 1 .. Len(hist.wire)
           /\ \A i \in DOMAIN conn.contexts : conn.contexts[i].left \in Nat
<1>1. /\ conn.contexts \in Seq([id : SendIds, left : Nat]) /\ conn.pending \in Nat
      /\ hist.accepted \in Seq(SendIds) /\ hist.wire \in Seq(SendIds)
    BY DEF TypeOK, ConnType, HistType
<1>2. ASSUME NEW i \in DOMAIN conn.contexts PROVE conn.contexts[i].left \in Nat
    <2>1. conn.contexts[i] \in [id : SendIds, left : Nat]
        BY <1>1, SeqElement, Zenon
    <2> QED BY <2>1
<1> QED BY <1>1, <1>2

\* Units appended to a stream come after it.
Extends(t, s, id, n) ==
    /\ Len(t) = Len(s) + n /\ DOMAIN t = 1 .. Len(s) + n
    /\ \A k \in 1 .. Len(s) : t[k] = s[k]
    /\ \A k \in Len(s) + 1 .. Len(s) + n : t[k] = id

LEMMA StreamAppended ==
    ASSUME NEW s \in Seq(SendIds), NEW id \in SendIds, NEW n \in Nat
    PROVE  Extends(s \o Copies(id, n), s, id, n)
<1>1. Copies(id, n) \in Seq(SendIds) /\ Len(Copies(id, n)) = n
    BY CopiesTyped
<1>2. \A k \in 1 .. n : Copies(id, n)[k] = id
    BY CopiesTyped
<1>3. \A k \in Len(s) + 1 .. Len(s) + n : k - Len(s) \in 1 .. n
    OBVIOUS
<1> QED BY <1>1, <1>2, <1>3 DEF Extends

LEMMA BacklogInit == Init => Backlog
<1> SUFFICES ASSUME Init PROVE Backlog
    OBVIOUS
<1> DEFINE ends == [i \in 0 .. 0 |-> 0]
<1>1. conn.contexts = <<>> /\ conn.pending = 0 /\ ~Open
    BY DEF Init, Open
<1>2. ends \in Ends
    BY <1>1 DEF Ends
<1>3. ends[Len(conn.contexts)] <= ends[0] + conn.pending
    BY <1>1
<1> QED BY <1>1, <1>2, <1>3 DEF Backlog

LEMMA BacklogQuiet == ASSUME Backlog, Quiet PROVE Backlog'
<1>1. PICK ends \in Ends : /\ ends[Len(conn.contexts)] <= ends[0] + conn.pending
                           /\ Open => Cut(ends)
    BY DEF Backlog
<1>2. ends \in Ends'
    BY <1>1 DEF Ends, Quiet
<1>3. Cut(ends) => Cut(ends)'
    BY DEF Cut, Consecutive, Quiet
<1> QED BY <1>1, <1>2, <1>3 DEF Backlog, Quiet

\* Places bounded by the last, and one more place after them.
Rising(ends, m) == ends \in [0 .. m -> Nat] /\ \A i \in 0 .. m : ends[i] <= ends[m]
Longer(more, ends, m, n) ==
    (\A i \in 0 .. m : more[i] = ends[i]) /\ more[m + 1] = ends[m] + n

LEMMA EndsMore ==
    ASSUME NEW m \in Nat, NEW n \in Nat, NEW ends, Rising(ends, m)
    PROVE  \E more : Rising(more, m + 1) /\ Longer(more, ends, m, n)
<1> DEFINE more == [i \in 0 .. m + 1 |-> IF i <= m THEN ends[i] ELSE ends[m] + n]
<1>1. ends[m] \in Nat /\ ends \in [0 .. m -> Nat] /\ \A i \in 0 .. m : ends[i] <= ends[m]
    BY DEF Rising
<1>2. more \in [0 .. m + 1 -> Nat]
    BY <1>1
<1>3. \A i \in 0 .. m : more[i] = ends[i]
    OBVIOUS
<1>4. more[m + 1] = ends[m] + n
    OBVIOUS
<1> HIDE DEF more
<1>5. ASSUME NEW i \in 0 .. m + 1 PROVE more[i] <= more[m + 1]
    <2>1. CASE i \in 0 .. m
        <3>1. ends[i] \in Nat /\ ends[i] <= ends[m]
            BY <1>1, <2>1
        <3> QED BY <1>1, <1>3, <1>4, <2>1, <3>1
    <2>2. CASE i = m + 1
        BY <1>1, <1>4, <2>2
    <2> QED BY <2>1, <2>2
<1>6. Rising(more, m + 1) /\ Longer(more, ends, m, n)
    BY <1>2, <1>3, <1>4, <1>5 DEF Rising, Longer
<1> QED BY <1>6

LEMMA BacklogAccepted ==
    ASSUME TypeOK, Backlog, NEW id \in SendIds, NEW n \in Nat, Accepted(id, n)
    PROVE  Backlog'
<1>1. PICK ends \in Ends : /\ ends[Len(conn.contexts)] <= ends[0] + conn.pending
                           /\ Open => Cut(ends)
    BY DEF Backlog
<1> DEFINE m == Len(conn.contexts)
<1>2. /\ conn'.contexts = Append(conn.contexts, Context(id, n))
      /\ conn'.pending = conn.pending + n /\ conn.pending \in Nat
      /\ Context(id, n) \in [id : SendIds, left : Nat]
      /\ Context(id, n).id = id /\ Context(id, n).left = n
    BY ZenonT(40), EnqueueTyped, OutputTypes DEF Accepted, TypeOK
<1>3. /\ m \in Nat /\ Len(conn'.contexts) = m + 1 /\ DOMAIN conn'.contexts = 1 .. m + 1
      /\ \A i \in 1 .. m : conn'.contexts[i] = conn.contexts[i]
      /\ conn'.contexts[m + 1] = Context(id, n)
      /\ DOMAIN conn.contexts = 1 .. m /\ \A i \in 1 .. m : conn.contexts[i].left \in Nat
    BY <1>2, SeqAppended, OutputTypes
<1>4. /\ ends \in [0 .. m -> Nat] /\ \A i \in 0 .. m : ends[i] <= ends[m]
      /\ \A i \in 1 .. m : ends[i] = ends[i - 1] + conn.contexts[i].left
      /\ ends[m] <= ends[0] + conn.pending
    BY <1>1, <1>3 DEF Ends
<1> HIDE DEF m
<1>5. PICK more : Rising(more, m + 1) /\ Longer(more, ends, m, n)
    <2>1. Rising(ends, m)
        BY <1>4 DEF Rising
    <2> QED BY <1>3, <2>1, EndsMore, Zenon
<1>6. /\ more \in [0 .. m + 1 -> Nat] /\ more[m + 1] = ends[m] + n
      /\ \A i \in 0 .. m : more[i] = ends[i]
      /\ \A i \in 0 .. m + 1 : more[i] <= more[m + 1]
    BY <1>5 DEF Rising, Longer
<1>7. ends[0] \in Nat /\ ends[m] \in Nat /\ more[0] = ends[0] /\ more[m] = ends[m]
    BY <1>3, <1>4, <1>6
<1>8. \A i \in 1 .. m + 1 : more[i] = more[i - 1] + conn'.contexts[i].left
    <2>1. ASSUME NEW i \in 1 .. m PROVE more[i] = more[i - 1] + conn'.contexts[i].left
        <3>1. i \in 0 .. m /\ i - 1 \in 0 .. m
            BY <1>3
        <3> QED BY <1>3, <1>4, <1>6, <3>1
    <2>2. more[m + 1] = more[(m + 1) - 1] + conn'.contexts[m + 1].left
        BY <1>2, <1>3, <1>6, <1>7
    <2>3. \A i \in 1 .. m + 1 : i \in 1 .. m \/ i = m + 1
        BY <1>3
    <2> QED BY <2>1, <2>2, <2>3
<1>9. more \in Ends'
    BY <1>3, <1>6, <1>8 DEF Ends
<1>10. more[m + 1] <= more[0] + conn'.pending
    BY <1>2, <1>4, <1>6, <1>7
<1>11. ASSUME Cut(ends) PROVE Cut(more)'
    <2>1. /\ ends[0] = Len(hist.wire) /\ ends[m] = Len(hist.accepted)
          /\ \A i \in 1 .. m : \A k \in ends[i - 1] + 1 .. ends[i] :
                hist.accepted[k] = conn.contexts[i].id
          /\ conn.pending = Len(hist.accepted) - Len(hist.wire)
          /\ \A k \in 1 .. Len(hist.wire) : hist.wire[k] = hist.accepted[k]
        BY <1>3, <1>11, OutputTypes DEF Cut, Consecutive, m
    <2>2. /\ Len(hist'.accepted) = Len(hist.accepted) + n /\ hist'.wire = hist.wire
          /\ \A k \in 1 .. Len(hist.accepted) : hist'.accepted[k] = hist.accepted[k]
          /\ \A k \in Len(hist.accepted) + 1 .. Len(hist.accepted) + n : hist'.accepted[k] = id
          /\ DOMAIN hist.wire = 1 .. Len(hist.wire)
        <3>1. hist.accepted \in Seq(SendIds) /\ DOMAIN hist.wire = 1 .. Len(hist.wire)
            BY OutputTypes
        <3>2. hist'.accepted = hist.accepted \o Copies(id, n) /\ hist'.wire = hist.wire
            BY DEF Accepted
        <3>3. Extends(hist'.accepted, hist.accepted, id, n)
            BY <3>1, <3>2, StreamAppended, Zenon
        <3> QED BY <3>1, <3>2, <3>3 DEF Extends
    <2>3. ASSUME NEW i \in 1 .. m, NEW k \in more[i - 1] + 1 .. more[i]
          PROVE  hist'.accepted[k] = conn'.contexts[i].id
        <3>1. i \in 0 .. m /\ i - 1 \in 0 .. m
            BY <1>3
        <3>2. k \in ends[i - 1] + 1 .. ends[i] /\ ends[i] <= ends[m] /\ ends[i - 1] \in Nat
              /\ ends[i] \in Nat
            BY <1>4, <1>6, <3>1
        <3>3. k \in 1 .. Len(hist.accepted)
            BY <1>7, <2>1, <3>2
        <3>4. conn'.contexts[i].id = conn.contexts[i].id
            BY <1>3
        <3>5. hist'.accepted[k] = hist.accepted[k]
            BY <2>2, <3>3
        <3>6. hist.accepted[k] = conn.contexts[i].id
            BY <2>1, <3>2
        <3> QED BY <3>4, <3>5, <3>6
    <2>4. ASSUME NEW k \in more[(m + 1) - 1] + 1 .. more[m + 1]
          PROVE  hist'.accepted[k] = conn'.contexts[m + 1].id
        <3>1. k \in ends[m] + 1 .. ends[m] + n
            BY <1>3, <1>6, <1>7
        <3> QED BY <1>2, <1>3, <2>1, <2>2, <3>1
    <2>5. \A k \in DOMAIN hist'.wire : hist'.wire[k] = hist'.accepted[k]
        <3>1. Len(hist.wire) \in Nat /\ Len(hist.accepted) \in Nat
              /\ Len(hist.wire) <= Len(hist.accepted)
            <4>1. ends[0] <= ends[m]
                BY <1>1, <1>3 DEF Ends, m
            <4> QED BY <1>7, <2>1, <4>1
        <3> QED BY <2>1, <2>2, <3>1
    <2>6. conn'.pending = Len(hist'.accepted) - Len(hist'.wire)
        <3>1. Len(hist.wire) \in Nat /\ Len(hist.accepted) \in Nat
            BY <1>7, <2>1
        <3>2. /\ conn'.pending = conn.pending + n
              /\ conn.pending = Len(hist.accepted) - Len(hist.wire)
              /\ Len(hist'.accepted) = Len(hist.accepted) + n
              /\ Len(hist'.wire) = Len(hist.wire)
            BY <1>2, <2>1, <2>2
        <3> QED BY <3>1, <3>2
    <2>7. \A i \in 1 .. m + 1 : \A k \in more[i - 1] + 1 .. more[i] :
             hist'.accepted[k] = conn'.contexts[i].id
        <3>1. \A i \in 1 .. m + 1 : i \in 1 .. m \/ i = m + 1
            BY <1>3
        <3> QED BY <2>3, <2>4, <3>1
    <2>8. more[0] = Len(hist'.wire) /\ more[m + 1] = Len(hist'.accepted)
        BY <1>6, <1>7, <2>1, <2>2
    <2> QED BY <1>3, <1>8, <2>5, <2>6, <2>7, <2>8 DEF Cut, Consecutive
<1>12. Open' => Cut(more)'
    BY <1>1, <1>11 DEF Accepted
<1> QED BY <1>3, <1>9, <1>10, <1>12 DEF Backlog

\* The first place given up, and the place before the first context moved.
LEMMA EndsShifted ==
    ASSUME NEW m \in Nat \ {0}, NEW ends, Rising(ends, m)
    PROVE  \E more : Rising(more, m - 1) /\ \A i \in 0 .. m - 1 : more[i] = ends[i + 1]
<1> DEFINE more == [i \in 0 .. m - 1 |-> ends[i + 1]]
<1>1. ends \in [0 .. m -> Nat] /\ \A i \in 0 .. m : ends[i] <= ends[m]
    BY DEF Rising
<1>2. more \in [0 .. m - 1 -> Nat]
    BY <1>1
<1>3. \A i \in 0 .. m - 1 : more[i] = ends[i + 1]
    OBVIOUS
<1> HIDE DEF more
<1>4. m - 1 \in 0 .. m - 1 /\ more[m - 1] = ends[m]
    BY <1>3
<1>5. \A i \in 0 .. m - 1 : more[i] <= more[m - 1]
    BY <1>1, <1>3, <1>4
<1> QED BY <1>2, <1>3, <1>5 DEF Rising

Moved(more, ends, m, n) ==
    more[0] = ends[0] + n /\ \A i \in 1 .. m : more[i] = ends[i]

LEMMA EndsMoved ==
    ASSUME NEW m \in Nat \ {0}, NEW n \in Nat, NEW ends, Rising(ends, m), ends[0] + n <= ends[m]
    PROVE  \E more : Rising(more, m) /\ Moved(more, ends, m, n)
<1> DEFINE more == [i \in 0 .. m |-> IF i = 0 THEN ends[0] + n ELSE ends[i]]
<1>1. ends \in [0 .. m -> Nat] /\ \A i \in 0 .. m : ends[i] <= ends[m]
    BY DEF Rising
<1>2. more \in [0 .. m -> Nat] /\ more[0] = ends[0] + n /\ \A i \in 1 .. m : more[i] = ends[i]
    BY <1>1
<1> HIDE DEF more
<1>3. \A i \in 0 .. m : more[i] <= more[m]
    BY <1>1, <1>2
<1>4. Rising(more, m) /\ Moved(more, ends, m, n)
    BY <1>2, <1>3 DEF Rising, Moved
<1> QED BY <1>4

\* What the invariant says of the contexts before a step that takes the first of them.
LEMMA BacklogFront ==
    ASSUME TypeOK, Backlog, conn.contexts # <<>>
    PROVE  LET m == Len(conn.contexts) IN
           \E ends \in Ends :
              /\ m \in Nat \ {0} /\ Rising(ends, m)
              /\ \A i \in 1 .. m : ends[i] = ends[i - 1] + conn.contexts[i].left
              /\ ends[m] <= ends[0] + conn.pending
              /\ Front.left \in Nat /\ ends[0] \in Nat /\ ends[1] \in Nat /\ ends[m] \in Nat
              /\ ends[1] = ends[0] + Front.left /\ ends[1] <= ends[m]
              /\ Open => Cut(ends)
<1>1. PICK ends \in Ends : /\ ends[Len(conn.contexts)] <= ends[0] + conn.pending
                           /\ Open => Cut(ends)
    BY DEF Backlog
<1> DEFINE m == Len(conn.contexts)
<1>2. m \in Nat \ {0} /\ DOMAIN conn.contexts = 1 .. m /\ Front = conn.contexts[1]
    BY FrontIsPending, OutputTypes
<1>3. Front.left \in Nat
    BY FrontIsPending
<1> HIDE DEF m
<1>4. /\ ends \in [0 .. m -> Nat] /\ \A i \in 0 .. m : ends[i] <= ends[m]
      /\ \A i \in 1 .. m : ends[i] = ends[i - 1] + conn.contexts[i].left
    BY <1>1, <1>2 DEF Ends, m
<1>5. /\ ends[0] \in Nat /\ ends[1] \in Nat /\ ends[m] \in Nat /\ ends[1] <= ends[m]
      /\ ends[1] = ends[0] + Front.left
    BY <1>2, <1>4
<1> QED BY <1>1, <1>2, <1>3, <1>4, <1>5 DEF Rising, m

\* Units of the first context that are written are the next ones of the stream.
PrefixOf(s, t) == \A k \in DOMAIN s : s[k] = t[k]

LEMMA WireGrows ==
    ASSUME TypeOK, conn.contexts # <<>>, NEW ends, Cut(ends),
           ends[0] \in Nat, ends[1] \in Nat, ends[1] = ends[0] + Front.left,
           ends[1] <= Len(hist.accepted),
           NEW n \in Nat, n <= Front.left, Front.left \in Nat,
           hist'.wire = hist.wire \o Copies(Front.id, n), hist'.accepted = hist.accepted
    PROVE  Len(hist'.wire) = ends[0] + n /\ PrefixOf(hist'.wire, hist'.accepted)
<1>1. /\ Front = conn.contexts[1] /\ 1 \in DOMAIN conn.contexts /\ Front.id \in SendIds
      /\ hist.wire \in Seq(SendIds) /\ Len(hist.wire) \in Nat
      /\ DOMAIN hist.wire = 1 .. Len(hist.wire)
    <2>1. conn.contexts \in Seq([id : SendIds, left : Nat])
        BY OutputTypes
    <2>2. Front = conn.contexts[1] /\ 1 \in DOMAIN conn.contexts
          /\ conn.contexts[1] \in [id : SendIds, left : Nat]
        BY <2>1, SeqTaken, Zenon DEF Front
    <2> QED BY <2>2, OutputTypes
<1>2. Extends(hist'.wire, hist.wire, Front.id, n)
    BY <1>1, StreamAppended, Zenon
<1>3. /\ ends[0] = Len(hist.wire)
      /\ \A k \in ends[0] + 1 .. ends[1] : hist.accepted[k] = Front.id
      /\ \A k \in 1 .. Len(hist.wire) : hist.wire[k] = hist.accepted[k]
    <2>1. \A k \in ends[1 - 1] + 1 .. ends[1] : hist.accepted[k] = conn.contexts[1].id
        BY <1>1 DEF Cut, Consecutive
    <2>2. 1 - 1 = 0
        OBVIOUS
    <2> QED BY <1>1, <2>1, <2>2 DEF Cut, Consecutive
<1>4. /\ Len(hist'.wire) = Len(hist.wire) + n /\ DOMAIN hist'.wire = 1 .. Len(hist.wire) + n
      /\ \A k \in 1 .. Len(hist.wire) : hist'.wire[k] = hist.wire[k]
      /\ \A k \in Len(hist.wire) + 1 .. Len(hist.wire) + n : hist'.wire[k] = Front.id
    BY <1>2 DEF Extends
<1>5. ASSUME NEW k \in 1 .. Len(hist.wire) + n PROVE hist'.wire[k] = hist.accepted[k]
    <2>1. CASE k \in 1 .. Len(hist.wire)
        BY <1>3, <1>4, <2>1
    <2>2. CASE k \in Len(hist.wire) + 1 .. Len(hist.wire) + n
        <3>1. k \in ends[0] + 1 .. ends[1]
            BY <1>3, <2>2
        <3> QED BY <1>3, <1>4, <2>2, <3>1
    <2>3. k \in 1 .. Len(hist.wire) \/ k \in Len(hist.wire) + 1 .. Len(hist.wire) + n
        BY <1>1
    <2> QED BY <2>1, <2>2, <2>3
<1> QED BY <1>3, <1>4, <1>5 DEF PrefixOf

\* A context is complete: the contexts that follow it, and where they end.
LEMMA ContextsShifted ==
    ASSUME TypeOK, Backlog, conn.contexts # <<>>, conn'.contexts = Tail(conn.contexts),
           conn'.pending \in Nat, conn.pending <= conn'.pending + Front.left,
           Open' => /\ Open /\ hist'.accepted = hist.accepted
                    /\ hist'.wire = hist.wire \o Copies(Front.id, Front.left)
                    /\ conn'.pending = conn.pending - Front.left
    PROVE  Backlog'
<1> DEFINE m == Len(conn.contexts)
<1>1. PICK ends \in Ends :
              /\ m \in Nat \ {0} /\ Rising(ends, m)
              /\ \A i \in 1 .. m : ends[i] = ends[i - 1] + conn.contexts[i].left
              /\ ends[m] <= ends[0] + conn.pending
              /\ Front.left \in Nat /\ ends[0] \in Nat /\ ends[1] \in Nat /\ ends[m] \in Nat
              /\ ends[1] = ends[0] + Front.left /\ ends[1] <= ends[m]
              /\ Open => Cut(ends)
    BY BacklogFront
<1>2. /\ Len(conn'.contexts) = m - 1 /\ DOMAIN conn'.contexts = 1 .. m - 1
      /\ \A i \in 1 .. m - 1 : conn'.contexts[i] = conn.contexts[i + 1]
      /\ DOMAIN conn.contexts = 1 .. m
    BY SeqTaken, OutputTypes
<1>3. conn.pending \in Nat
    BY OutputTypes
<1> HIDE DEF m
<1>4. PICK more : Rising(more, m - 1) /\ \A i \in 0 .. m - 1 : more[i] = ends[i + 1]
    BY <1>1, EndsShifted, Zenon
<1>5. more[0] = ends[1] /\ more[m - 1] = ends[m]
    BY <1>1, <1>4
<1>6. ASSUME NEW i \in 1 .. m - 1
      PROVE  /\ more[i] = more[i - 1] + conn'.contexts[i].left
             /\ more[i] = ends[i + 1] /\ more[i - 1] = ends[i]
             /\ i + 1 \in 1 .. m
    <2>1. i \in 0 .. m - 1 /\ i - 1 \in 0 .. m - 1 /\ i + 1 \in 1 .. m /\ (i + 1) - 1 = i
          /\ (i - 1) + 1 = i
        BY SMTT(20), <1>1
    <2>2. more[i] = ends[i + 1] /\ more[i - 1] = ends[i]
        BY <1>4, <2>1
    <2>3. ends[i + 1] = ends[i] + conn.contexts[i + 1].left
        BY <1>1, <2>1
    <2> QED BY <1>2, <2>1, <2>2, <2>3
<1>7. more \in Ends'
    <2>1. more \in [0 .. m - 1 -> Nat] /\ \A i \in 0 .. m - 1 : more[i] <= more[m - 1]
        BY <1>4 DEF Rising
    <2> QED BY <1>2, <1>6, <2>1 DEF Ends
<1>8. more[m - 1] <= more[0] + conn'.pending
    BY SMTT(20), <1>1, <1>3, <1>5
<1>9. ASSUME Open' PROVE Cut(more)'
    <2>1. /\ Cut(ends) /\ hist'.accepted = hist.accepted
          /\ hist'.wire = hist.wire \o Copies(Front.id, Front.left)
          /\ conn'.pending = conn.pending - Front.left
        BY <1>1, <1>9
    <2>2. /\ ends[0] = Len(hist.wire) /\ ends[m] = Len(hist.accepted)
          /\ \A i \in 1 .. m : \A k \in ends[i - 1] + 1 .. ends[i] :
                hist.accepted[k] = conn.contexts[i].id
          /\ conn.pending = Len(hist.accepted) - Len(hist.wire)
        BY <1>2, <2>1 DEF Cut, Consecutive, m
    <2>3. Len(hist'.wire) = ends[0] + Front.left /\ PrefixOf(hist'.wire, hist'.accepted)
        <3>1. ends[1] <= Len(hist.accepted) /\ Front.left <= Front.left
            BY <1>1, <2>2
        <3> QED BY <1>1, <2>1, <3>1, WireGrows, Zenon
    <2>4. ASSUME NEW i \in 1 .. m - 1, NEW k \in more[i - 1] + 1 .. more[i]
          PROVE  hist'.accepted[k] = conn'.contexts[i].id
        <3>1. k \in ends[(i + 1) - 1] + 1 .. ends[i + 1] /\ i + 1 \in 1 .. m
            BY <1>6
        <3>2. hist.accepted[k] = conn.contexts[i + 1].id
            BY <2>2, <3>1
        <3> QED BY <1>2, <2>1, <3>2
    <2>5. more[0] = Len(hist'.wire) /\ more[m - 1] = Len(hist'.accepted)
        BY <1>1, <1>5, <2>1, <2>2, <2>3
    <2>6. conn'.pending = Len(hist'.accepted) - Len(hist'.wire)
        <3>1. Len(hist.wire) \in Nat /\ Len(hist.accepted) \in Nat /\ Front.left \in Nat
            BY <1>1, <2>2
        <3>2. /\ Len(hist'.accepted) = Len(hist.accepted)
              /\ Len(hist'.wire) = Len(hist.wire) + Front.left
              /\ conn.pending = Len(hist.accepted) - Len(hist.wire)
              /\ conn'.pending = conn.pending - Front.left
            BY <2>1, <2>2, <2>3
        <3>3. ASSUME NEW a \in Nat, NEW b \in Nat, NEW c \in Nat PROVE (a - b) - c = a - (b + c)
            OBVIOUS
        <3>4. conn'.pending = (Len(hist.accepted) - Len(hist.wire)) - Front.left
            BY <3>2, Zenon
        <3>5. (Len(hist.accepted) - Len(hist.wire)) - Front.left
                 = Len(hist.accepted) - (Len(hist.wire) + Front.left)
            BY <3>1, <3>3, Zenon
        <3> QED BY <3>2, <3>4, <3>5, Zenon
    <2> QED BY <1>2, <1>6, <2>3, <2>4, <2>5, <2>6 DEF Cut, Consecutive, PrefixOf
<1> QED BY <1>2, <1>7, <1>8, <1>9 DEF Backlog

\* Part of the first context is written.
LEMMA FrontShortened ==
    ASSUME TypeOK, Backlog, conn.contexts # <<>>, NEW n \in Nat, n < Front.left,
           conn'.contexts = [conn.contexts EXCEPT ![1].left = @ - n],
           conn'.pending = conn.pending - n, n <= conn.pending,
           hist'.accepted = hist.accepted, hist'.wire = hist.wire \o Copies(Front.id, n),
           Open' => Open
    PROVE  Backlog'
<1> DEFINE m == Len(conn.contexts)
<1>1. PICK ends \in Ends :
              /\ m \in Nat \ {0} /\ Rising(ends, m)
              /\ \A i \in 1 .. m : ends[i] = ends[i - 1] + conn.contexts[i].left
              /\ ends[m] <= ends[0] + conn.pending
              /\ Front.left \in Nat /\ ends[0] \in Nat /\ ends[1] \in Nat /\ ends[m] \in Nat
              /\ ends[1] = ends[0] + Front.left /\ ends[1] <= ends[m]
              /\ Open => Cut(ends)
    BY BacklogFront
<1>2. /\ Len(conn'.contexts) = m /\ DOMAIN conn'.contexts = 1 .. m
      /\ \A i \in 2 .. m : conn'.contexts[i] = conn.contexts[i]
      /\ conn'.contexts[1].left = Front.left - n /\ conn'.contexts[1].id = conn.contexts[1].id
      /\ DOMAIN conn.contexts = 1 .. m
    <2>1. conn.contexts \in Seq([id : SendIds, left : Nat])
        BY OutputTypes
    <2>2. Front = conn.contexts[1] /\ 1 \in DOMAIN conn.contexts
          /\ conn.contexts[1] \in [id : SendIds, left : Nat]
          /\ DOMAIN conn.contexts = 1 .. m
        BY <2>1, SeqTaken, Zenon DEF Front
    <2>3. /\ conn'.contexts[1] = [conn.contexts[1] EXCEPT !.left = @ - n]
          /\ \A i \in 2 .. m : conn'.contexts[i] = conn.contexts[i]
          /\ DOMAIN conn'.contexts = 1 .. m
        BY <1>1, <2>1, <2>2
    <2>4. Len(conn'.contexts) = m
        BY <1>1, <2>1, <2>2, <2>3
    <2> QED BY <2>2, <2>3, <2>4
<1>3. conn.pending \in Nat
    BY OutputTypes
<1> HIDE DEF m
<1>4. PICK more : Rising(more, m) /\ Moved(more, ends, m, n)
    <2>1. ends[0] + n <= ends[m]
        BY <1>1
    <2> QED BY <1>1, <2>1, EndsMoved, Zenon
<1>5. /\ Rising(more, m) /\ more[0] = ends[0] + n
      /\ \A i \in 1 .. m : more[i] = ends[i]
    BY <1>4 DEF Moved
<1>6. more[m] = ends[m] /\ more[1] = ends[1]
    BY <1>1, <1>5
<1>7. ASSUME NEW i \in 1 .. m
      PROVE  more[i] = more[i - 1] + conn'.contexts[i].left
    <2>1. CASE i = 1
        BY <1>1, <1>2, <1>5, <1>6, <2>1
    <2>2. CASE i # 1
        <3>1. i \in 2 .. m /\ i - 1 \in 1 .. m
            BY <1>1, <2>2
        <3> QED BY <1>1, <1>2, <1>5, <3>1
    <2> QED BY <2>1, <2>2
<1>8. more \in Ends'
    <2>1. more \in [0 .. m -> Nat] /\ \A i \in 0 .. m : more[i] <= more[m]
        BY <1>5 DEF Rising
    <2> QED BY <1>2, <1>7, <2>1 DEF Ends
<1>9. more[m] <= more[0] + conn'.pending
    BY <1>1, <1>3, <1>5, <1>6
<1>10. ASSUME Open' PROVE Cut(more)'
    <2>1. Cut(ends)
        BY <1>1, <1>10
    <2>2. /\ ends[0] = Len(hist.wire) /\ ends[m] = Len(hist.accepted)
          /\ \A i \in 1 .. m : \A k \in ends[i - 1] + 1 .. ends[i] :
                hist.accepted[k] = conn.contexts[i].id
          /\ conn.pending = Len(hist.accepted) - Len(hist.wire)
        BY <1>2, <2>1 DEF Cut, Consecutive, m
    <2>3. Len(hist'.wire) = ends[0] + n /\ PrefixOf(hist'.wire, hist'.accepted)
        <3>1. ends[1] <= Len(hist.accepted) /\ n <= Front.left
            BY <1>1, <2>2
        <3> QED BY <1>1, <2>1, <3>1, WireGrows, Zenon
    <2>4. ASSUME NEW i \in 1 .. m, NEW k \in more[i - 1] + 1 .. more[i]
          PROVE  hist'.accepted[k] = conn'.contexts[i].id
        <3>1. CASE i = 1
            <4>1. k \in ends[1 - 1] + 1 .. ends[1] /\ 1 \in 1 .. m
                BY <1>1, <1>5, <1>6, <3>1
            <4> QED BY SMTT(20), <1>2, <2>2, <3>1, <4>1
        <3>2. CASE i # 1
            <4>1. i \in 2 .. m /\ i - 1 \in 1 .. m
                BY <1>1, <3>2
            <4>2. k \in ends[i - 1] + 1 .. ends[i]
                BY <1>5, <4>1
            <4> QED BY <1>2, <2>2, <4>1, <4>2
        <3> QED BY <3>1, <3>2
    <2>5. more[0] = Len(hist'.wire) /\ more[m] = Len(hist'.accepted)
        BY <1>5, <1>6, <2>2, <2>3
    <2>6. conn'.pending = Len(hist'.accepted) - Len(hist'.wire)
        <3>1. Len(hist.wire) \in Nat /\ Len(hist.accepted) \in Nat
            BY <1>1, <2>2
        <3>2. /\ Len(hist'.accepted) = Len(hist.accepted)
              /\ Len(hist'.wire) = Len(hist.wire) + n
              /\ conn.pending = Len(hist.accepted) - Len(hist.wire)
            BY <2>2, <2>3
        <3>3. ASSUME NEW a \in Nat, NEW b \in Nat, NEW c \in Nat PROVE (a - b) - c = a - (b + c)
            OBVIOUS
        <3>4. conn'.pending = (Len(hist.accepted) - Len(hist.wire)) - n
            BY <3>2, Zenon
        <3>5. (Len(hist.accepted) - Len(hist.wire)) - n = Len(hist.accepted) - (Len(hist.wire) + n)
            BY <3>1, <3>3, Zenon
        <3> QED BY <3>2, <3>4, <3>5, Zenon
    <2> QED BY <1>2, <1>7, <2>3, <2>4, <2>5, <2>6 DEF Cut, Consecutive, PrefixOf
<1> QED BY <1>2, <1>8, <1>9, <1>10 DEF Backlog

LEMMA BacklogStep == TypeOK /\ Fresh /\ Backlog /\ [Next]_cvars => Backlog'
<1> SUFFICES ASSUME TypeOK, Fresh, Backlog, [Next]_cvars PROVE Backlog'
    OBVIOUS
<1> conn \in ConnType /\ hist \in HistType
    BY DEF TypeOK
<1>1. ASSUME WriteSome PROVE Backlog'
    <2> DEFINE n == IF Front.left <= Room THEN Front.left ELSE Room
    <2>1. /\ conn.contexts # <<>> /\ conn' = Advance(conn, n)
          /\ hist' = [hist EXCEPT !.wire = @ \o Copies(Front.id, n)]
        BY <1>1 DEF WriteSome, Writing
    <2>2. /\ Front \in [id : SendIds, left : Nat] /\ Front.left <= conn.pending
          /\ Room \in Nat /\ conn.pending \in Nat
        BY <2>1, FrontIsPending, ConnectionAssumption DEF TypeOK, NetType, ConnType, Room
    <2>3. n \in Nat /\ n <= Front.left /\ n <= conn.pending
        BY <2>2
    <2> HIDE DEF n
    <2>4. /\ hist'.wire = hist.wire \o Copies(Front.id, n) /\ hist'.accepted = hist.accepted
          /\ hist'.callbacks = hist.callbacks
        BY <2>1 DEF HistType
    <2>5. /\ conn'.pending = conn.pending - n /\ conn'.pending \in Nat
          /\ n = Front.left => conn'.contexts = Tail(conn.contexts)
          /\ n # Front.left => conn'.contexts = [conn.contexts EXCEPT ![1].left = @ - n]
        <3>1. conn' \in ConnType /\ conn'.pending = conn.pending - n
            BY <2>1, <2>3, AdvanceTyped, Zenon
        <3>2. /\ n = Front.left => conn'.contexts = Tail(conn.contexts)
              /\ n # Front.left => conn'.contexts = [conn.contexts EXCEPT ![1].left = @ - n]
            BY <2>1, <2>3, AdvanceTyped, Zenon
        <3> QED BY <3>1, <3>2 DEF ConnType
    <2>6. CASE n = Front.left
        <3>1. conn.pending <= conn'.pending + Front.left
            BY <2>2, <2>3, <2>5, <2>6
        <3>2. Open' => Open
            BY <2>4 DEF Open
        <3> QED BY <2>1, <2>4, <2>5, <2>6, <3>1, <3>2, ContextsShifted
    <2>7. CASE n # Front.left
        <3>1. n < Front.left
            BY <2>2, <2>3, <2>7
        <3>2. Open' => Open
            BY <2>4 DEF Open
        <3> QED BY <2>1, <2>3, <2>4, <2>5, <2>7, <3>1, <3>2, FrontShortened
    <2> QED BY <2>6, <2>7
<1>2. ASSUME WriteFails PROVE Backlog'
    <2>1. /\ conn.contexts # <<>> /\ HandleClose([conn EXCEPT !.contexts = Tail(@)], Stop(loop))
        BY <1>2 DEF WriteFails, Writing
    <2>2. conn'.contexts = Tail(conn.contexts) /\ conn'.pending = conn.pending
        BY <2>1 DEF HandleClose, ConnType
    <2>3. ~Open'
        BY <2>1, CallBackTyped DEF HandleClose, Open
    <2>4. Front.left \in Nat /\ conn.pending \in Nat
        BY <2>1, FrontIsPending, OutputTypes
    <2>5. conn'.pending \in Nat /\ conn.pending <= conn'.pending + Front.left
        BY <2>2, <2>4
    <2> QED BY <2>1, <2>2, <2>3, <2>5, ContextsShifted
<1>3. ASSUME ConnectEstablished PROVE Backlog'
    <2>1. /\ conn'.contexts = conn.contexts /\ conn'.pending = conn.pending
          /\ hist'.accepted = hist.accepted /\ hist'.wire = hist.wire
          /\ Open' => hist.callbacks = "none"
        BY <1>3, CallBackTyped DEF ConnectEstablished, ConnType, Open
    <2>2. CASE ~Open'
        BY <2>1, <2>2, BacklogQuiet DEF Quiet
    <2>3. CASE Open'
        <3> DEFINE ends == [i \in 0 .. 0 |-> 0]
        <3>1. /\ conn'.contexts = <<>> /\ conn'.pending = 0
              /\ hist'.accepted = <<>> /\ hist'.wire = <<>>
            BY <2>1, <2>3 DEF Fresh
        <3>2. ends \in Ends'
            BY <3>1 DEF Ends
        <3>3. Cut(ends)'
            BY <3>1 DEF Cut, Consecutive
        <3>4. (ends[Len(conn.contexts)] <= ends[0] + conn.pending)'
            BY <3>1
        <3> QED BY <3>2, <3>3, <3>4 DEF Backlog
    <2> QED BY <2>2, <2>3
<1> QED BY <1>1, <1>2, <1>3, BacklogQuiet, BacklogAccepted, OutputSteps

-----------------------------------------------------------------------------
(* EPOLLOUT, while output is waiting. *)

LEMMA WatchedInit == Init => Watched
BY DEF Init, Watched, Open

\* doWriting() ends in one of three ways.
LEMMA WritingEnds ==
    ASSUME TypeOK, [Next]_cvars, loop.writing, ~loop'.writing
    PROVE  WritingDone \/ WriteBlocked \/ WriteFails
<1> loop \in LoopType
    BY DEF TypeOK
<1>1. ASSUME UserSteps \/ CallbackReturns \/ WriteSome PROVE FALSE
    BY <1>1 DEF UserSteps, SendHere, ShutdownHere, InUserCode, CallbackReturns, WriteSome
<1>2. ASSUME Poll PROVE FALSE
    BY <1>2 DEF Poll, LoopType
<1>3. ~EventSteps /\ ~FunctorSteps
    BY DEF EventSteps, EventHup, EventErr, EventMessage, EventReadError, EventEof, EventOut,
           Handling, InHandler, FunctorSteps, DoPendingFunctors, FunctorsDone,
           ConnectEstablished, ConnectDestroyed, RunSend, RunShutdown, RunDangling, Calling
<1>4. ASSUME RemoveConnectionInLoop PROVE FALSE
    BY <1>4 DEF RemoveConnectionInLoop, Queued, LoopType
<1>5. ASSUME NEW w \in Workers, WorkerSteps(w) PROVE FALSE
    BY <1>5
       DEF WorkerSteps, WorkerTests, WorkerSetsState, WorkerQueues, WorkerDropsRef, Queued,
           LoopType
<1>6. ASSUME PeerSteps \/ UNCHANGED cvars PROVE FALSE
    BY <1>6 DEF PeerSteps, PeerSends, PeerReads, PeerCloses, PeerResets, cvars
<1> QED BY <1>1, <1>2, <1>3, <1>4, <1>5, <1>6 DEF Next, LoopSteps, WriteSteps

LEMMA WatchedStep ==
    TypeOK /\ Fresh /\ Registered /\ Backlog /\ Watched /\ [Next]_cvars => Watched'
<1> SUFFICES ASSUME TypeOK, Fresh, Registered, Backlog, Watched, [Next]_cvars,
                    hist'.callbacks = "up"
             PROVE  /\ conn'.contexts = <<>> => "OUT" \notin poller'.events[Chan]
                    /\ conn'.contexts # <<>> /\ ~loop'.writing => "OUT" \in poller'.events[Chan]
    BY DEF Watched, Open
<1> conn \in ConnType /\ hist \in HistType /\ poller \in PollerType /\ loop \in LoopType
    BY DEF TypeOK
<1>1. CASE \E id \in SendIds, n \in Nat : Accepted(id, n) /\ Sending
    <2>1. PICK id \in SendIds, n \in Nat : Accepted(id, n) /\ Sending
        BY <1>1
    <2>2. /\ conn'.contexts = Append(conn.contexts, Context(id, n))
          /\ conn.contexts \in Seq([id : SendIds, left : Nat])
          /\ Context(id, n) \in [id : SendIds, left : Nat]
        <3>1. conn' = Enqueue(conn, id, n) /\ conn.contexts \in Seq([id : SendIds, left : Nat])
            BY <2>1, OutputTypes DEF Accepted
        <3> QED BY <3>1, EnqueueTyped, SMTT(20)
    <2>3. conn'.contexts # <<>>
        BY <2>2, SeqAppended
    <2> QED BY <2>1, <2>3 DEF Sending
<1>2. CASE WriteSome
    <2> DEFINE n == IF Front.left <= Room THEN Front.left ELSE Room
               last == n = Front.left /\ Len(conn.contexts) = 1
    <2>1. /\ conn.contexts # <<>> /\ conn' = Advance(conn, n)
          /\ poller' = IF last THEN UnwatchOutput(poller) ELSE poller
          /\ loop'.writing /\ hist'.callbacks = hist.callbacks
        BY <1>2 DEF WriteSome, Writing, HistType
    <2>2. /\ Front \in [id : SendIds, left : Nat] /\ Front.left <= conn.pending
          /\ Room \in Nat /\ conn.pending \in Nat
        BY <2>1, FrontIsPending, ConnectionAssumption DEF TypeOK, NetType, ConnType, Room
    <2>3. n \in Nat /\ n <= Front.left /\ n <= conn.pending
        BY <2>2
    <2>4. InEpoll(poller) /\ "IN" \in poller.events[Chan]
        BY <2>1 DEF Registered, Open, InEpoll
    <2> HIDE DEF n
    <2>5. /\ n = Front.left => conn'.contexts = Tail(conn.contexts)
          /\ n # Front.left => conn'.contexts = [conn.contexts EXCEPT ![1].left = @ - n]
        BY <2>1, <2>3, AdvanceTyped, Zenon
    <2>6. /\ conn.contexts \in Seq([id : SendIds, left : Nat])
          /\ Len(conn.contexts) \in Nat \ {0} /\ 1 \in DOMAIN conn.contexts
          /\ Len(Tail(conn.contexts)) = Len(conn.contexts) - 1
        BY <2>1, SeqTaken DEF ConnType
    <2>7. CASE last
        <3>1. "OUT" \notin poller'.events[Chan]
            BY <2>1, <2>4, <2>7, OutputInEpoll
        <3> QED BY <2>1, <3>1
    <2>8. CASE ~last
        <3>1. conn'.contexts # <<>>
            <4>1. CASE n = Front.left
                <5>1. conn'.contexts = Tail(conn.contexts) /\ Len(conn.contexts) # 1
                    BY <2>5, <2>8, <4>1
                <5>2. Len(conn'.contexts) # 0
                    BY <2>6, <5>1
                <5> QED BY <5>2
            <4>2. CASE n # Front.left
                <5>1. DOMAIN conn'.contexts = DOMAIN conn.contexts
                    BY <2>5, <4>2
                <5> QED BY <2>6, <5>1
            <4> QED BY <4>1, <4>2
        <3> QED BY <2>1, <3>1
    <2> QED BY <2>7, <2>8
<1>3. CASE WriteFails
    BY <1>3, CallBackTyped DEF WriteFails, HandleClose
<1>4. CASE ConnectEstablished
    <2>1. hist.callbacks = "none"
        BY <1>4, CallBackTyped DEF ConnectEstablished
    <2>2. conn'.contexts = <<>> /\ poller' = Enable(EmptyPoller, Chan, Fd, "IN")
        BY <1>4, <2>1 DEF ConnectEstablished, Fresh, ConnType
    <2> QED BY <2>2, EnableNew
<1>5. CASE Quiet /\ ~WriteSome /\ ~WriteFails /\ ~ConnectEstablished
    <2>1. Open /\ conn'.contexts = conn.contexts
        BY <1>5 DEF Quiet, Open
    <2>2. InEpoll(poller) /\ "IN" \in poller.events[Chan]
        BY <2>1 DEF Registered, InEpoll
    <2>3. CASE WriteBlocked
        <3>1. conn.contexts # <<>> /\ poller' = WatchOutput(poller)
            BY <2>3 DEF WriteBlocked, Writing
        <3> QED BY <2>1, <2>2, <3>1, OutputInEpoll
    <2>4. CASE ~WriteBlocked
        <3>1. poller'.events = poller.events
            <4>1. poller' = RemoveChannel(poller, Chan, Fd) \/ UNCHANGED poller
                BY <1>5, <2>4, OpenSteps
            <4>2. RemoveChannel(poller, Chan, Fd) = Fail(poller, "removeChannel")
                BY <2>2, Zenon DEF RemoveChannel
            <4> QED BY <4>1, <4>2 DEF Fail, PollerType
        <3>2. loop.writing /\ ~loop'.writing => conn.contexts = <<>>
            BY <1>5, <2>4, WritingEnds DEF WritingDone
        <3> QED BY <2>1, <3>1, <3>2 DEF Watched
    <2> QED BY <2>3, <2>4
<1> QED BY <1>1, <1>2, <1>3, <1>4, <1>5, OutputSteps

-----------------------------------------------------------------------------
(* The theorems for any use of the connection. *)

LEMMA IInvInvariant == Spec => []IInv
<1>1. Init => IInv
    BY TypeInit, FreshInit, RegisteredInit, BacklogInit, WatchedInit DEF IInv
<1>2. IInv /\ [Next]_cvars => IInv'
    BY TypeStep, FreshStep, RegisteredStep, BacklogStep, WatchedStep DEF IInv
<1> QED BY <1>1, <1>2, PTL DEF Spec

\* A connection never holds values outside its types, however it is called: no count of
\* the model, like totalPendingBytes_ (TcpConnection.h), is ever taken below zero.
THEOREM ConnectionTypeCorrect == Spec => []TypeOK
<1>1. IInv => TypeOK
    BY DEF IInv
<1> QED BY <1>1, IInvInvariant, PTL

\* What doWriting() hands to the kernel, followed by contextQueue_, is what send() and
\* sendFile() accepted, in order, wherever they were called from.
THEOREM StreamStaysIntact == Spec => []StreamIntact
<1>1. IInv => StreamIntact
    <2> SUFFICES ASSUME IInv, Open PROVE StreamIntact
        BY DEF StreamIntact
    <2>1. PICK ends \in Ends : Cut(ends)
        BY DEF IInv, Backlog
    <2>2. ends \in [0 .. Len(conn.contexts) -> 0 .. Len(hist.accepted)]
        BY <2>1, OutputTypes DEF IInv, Ends, Cut, Consecutive
    <2> QED BY <2>1, <2>2 DEF StreamIntact, Cut
<1> QED BY <1>1, IInvInvariant, PTL

\* totalPendingBytes_ of an open connection is the output accepted and not yet written.
THEOREM PendingStaysExact == Spec => []PendingIsExact
<1>1. IInv => PendingIsExact
    BY DEF IInv, Backlog, Cut, PendingIsExact
<1> QED BY <1>1, IInvInvariant, PTL

\* Between two calls of doWriting() the poller watches EPOLLOUT exactly while output waits.
THEOREM OutputStaysWatched == Spec => []OutputIsWatched
<1>1. IInv => OutputIsWatched
    BY DEF IInv, Registered, Watched, OutputIsWatched
<1> QED BY <1>1, IInvInvariant, PTL

-----------------------------------------------------------------------------
(* With shutdown() as the only call from other threads: the FIN. *)

LEMMA QueueTaken ==
    ASSUME NEW q \in Seq(Queueable), q # <<>>
    PROVE  /\ QueuedCalls(Tail(q)) \subseteq QueuedCalls(q)
           /\ Head(q).call \in QueuedCalls(q)
<1>1. /\ DOMAIN Tail(q) = 1 .. Len(q) - 1 /\ DOMAIN q = 1 .. Len(q) /\ 1 \in DOMAIN q
      /\ \A i \in DOMAIN Tail(q) : Tail(q)[i] = q[i + 1]
      /\ Head(q) = q[1] /\ Len(q) \in Nat
    BY SeqTaken
<1>2. \A i \in DOMAIN Tail(q) : i + 1 \in DOMAIN q
    BY <1>1
<1> QED BY <1>1, <1>2 DEF QueuedCalls

LEMMA QueueAppended ==
    ASSUME NEW q \in Seq(Queueable), NEW f \in Queueable
    PROVE  QueuedCalls(Append(q, f)) = QueuedCalls(q) \cup {f.call}
<1>1. /\ DOMAIN q = 1 .. Len(q) /\ DOMAIN Append(q, f) = 1 .. Len(q) + 1
      /\ \A i \in DOMAIN q : Append(q, f)[i] = q[i]
      /\ Append(q, f)[Len(q) + 1] = f /\ Len(q) \in Nat
    BY SeqAppended
<1>2. \A i \in DOMAIN Append(q, f) : i \in DOMAIN q \/ i = Len(q) + 1
    BY <1>1
<1>3. \A i \in DOMAIN q : i \in DOMAIN Append(q, f)
    BY <1>1
<1>4. Len(q) + 1 \in DOMAIN Append(q, f)
    BY <1>1
<1> QED BY <1>1, <1>2, <1>3, <1>4 DEF QueuedCalls

\* What a step does to the queue of functors.
LEMMA QueueSteps ==
    ASSUME TypeOK, [Next]_cvars
    PROVE  \/ loop'.queue = loop.queue
           \/ loop.queue # <<>> /\ loop'.queue = Tail(loop.queue)
           \/ loop'.queue = Append(loop.queue, Plain("connectDestroyed"))
           \/ \E w \in Workers : /\ WorkerQueues(w) /\ worker[w] \in Queueable
                                 /\ loop'.queue = Append(loop.queue, worker[w])
<1> loop \in LoopType /\ own \in OwnType
    BY DEF TypeOK
<1>1. ASSUME NEW c, NEW l \in LoopType, l.pass <= Len(l.queue), l.queue = loop.queue,
             HandleClose(c, l)
      PROVE  \/ loop'.queue = loop.queue
             \/ loop'.queue = Append(loop.queue, Plain("connectDestroyed"))
    BY <1>1, RemoveTyped DEF HandleClose
<1>2. ASSUME UserSteps \/ CallbackReturns \/ WritingDone \/ WriteSome \/ WriteBlocked
      PROVE  loop'.queue = loop.queue
    BY <1>2
       DEF UserSteps, SendHere, ShutdownHere, CallbackReturns, WritingDone, WriteSome,
           WriteBlocked, Stop, LoopType
<1>3. ASSUME WriteFails
      PROVE  \/ loop'.queue = loop.queue
             \/ loop'.queue = Append(loop.queue, Plain("connectDestroyed"))
    BY <1>1, <1>3, StopTyped DEF WriteFails, TypeOK
<1>4. ASSUME Poll \/ EventErr \/ EventMessage \/ EventReadError \/ EventOut
      PROVE  loop'.queue = loop.queue
    BY <1>4 DEF Poll, EventErr, EventMessage, EventReadError, EventOut, Handled, LoopType
<1>5. ASSUME EventHup \/ EventEof
      PROVE  \/ loop'.queue = loop.queue
             \/ loop'.queue = Append(loop.queue, Plain("connectDestroyed"))
    BY <1>1, <1>5, HandledTyped DEF EventHup, EventEof, TypeOK
<1>6. ASSUME DoPendingFunctors \/ FunctorsDone \/ RunDangling PROVE loop'.queue = loop.queue
    BY <1>6 DEF DoPendingFunctors, FunctorsDone, RunDangling, LoopType
<1>7. ASSUME \/ ConnectEstablished \/ ConnectDestroyed \/ RunShutdown
             \/ \E call \in {"send", "sendFile"} : RunSend(call)
      PROVE  loop.queue # <<>> /\ loop'.queue = Tail(loop.queue)
    <2>1. /\ \E call : Calling(call)
          /\ \/ loop' = Called \/ loop' = [Called EXCEPT !.writing = TRUE]
             \/ loop' = [Called EXCEPT !.upcall = TRUE]
        BY <1>7
           DEF ConnectEstablished, ConnectDestroyed, RunShutdown, RunSend, Accept, ShutdownInLoop
    <2>2. loop.pass > 0 /\ loop.pass <= Len(loop.queue)
        BY <2>1 DEF Calling, TypeOK
    <2>3. Called \in LoopType /\ Called.queue = Tail(loop.queue) /\ Len(loop.queue) \in Nat
        BY <2>2, CalledTyped
    <2>4. loop.queue # <<>>
        BY <2>2 DEF LoopType
    <2> QED BY <2>1, <2>3, <2>4 DEF LoopType
<1>8. ASSUME RemoveConnectionInLoop
      PROVE  loop'.queue = Append(loop.queue, Plain("connectDestroyed"))
    BY <1>8 DEF RemoveConnectionInLoop, Queued, LoopType
<1>9. ASSUME NEW w \in Workers, WorkerSteps(w)
      PROVE  \/ loop'.queue = loop.queue
             \/ /\ WorkerQueues(w) /\ worker[w] \in Queueable
                /\ loop'.queue = Append(loop.queue, worker[w])
    <2>1. ASSUME WorkerQueues(w)
          PROVE  worker[w] \in Queueable /\ loop'.queue = Append(loop.queue, worker[w])
        <3>1. worker[w] \in Queueable
            BY <2>1, PlainTyped DEF WorkerQueues, TypeOK, RawCalls, Calls
        <3> QED BY <2>1, <3>1 DEF WorkerQueues, Queued, LoopType
    <2> QED BY <1>9, <2>1 DEF WorkerSteps, WorkerTests, WorkerSetsState, WorkerDropsRef
<1>10. ASSUME PeerSteps \/ UNCHANGED cvars PROVE loop'.queue = loop.queue
    BY <1>10 DEF PeerSteps, PeerSends, PeerReads, PeerCloses, PeerResets, cvars
<1> QED BY <1>2, <1>3, <1>4, <1>5, <1>6, <1>7, <1>8, <1>9, <1>10
        DEF Next, LoopSteps, WriteSteps, EventSteps, FunctorSteps

\* What a step does to the workers, when shutdown() is all they call.
LEMMA WorkersStep ==
    ASSUME TypeOK, WorkerCalls \subseteq {"shutdown"}, [Next]_cvars, NEW w \in Workers
    PROVE  \/ worker'[w] = worker[w]
           \/ worker'[w].call \in {"none", "setState"}
           \/ /\ worker'[w].call = "shutdown" /\ worker[w].call = "setState"
              /\ conn'.state = "kDisconnecting" /\ UNCHANGED <<net, hist>>
<1> worker \in [Workers -> Queueable \cup {Idle, Plain("setState")}] /\ conn \in ConnType
    BY DEF TypeOK
<1>1. ASSUME NEW u \in Workers, NEW call, NEW size, WorkerTests(u, call, size)
      PROVE  worker'[w] = worker[w] \/ worker'[w].call = "setState"
    <2>1. worker' = [worker EXCEPT ![u] = Plain("setState")]
        BY <1>1 DEF WorkerTests
    <2> QED BY <2>1, PlainTyped
<1>2. ASSUME NEW u \in Workers, WorkerSetsState(u)
      PROVE  \/ worker'[w] = worker[w]
             \/ /\ worker'[w].call = "shutdown" /\ worker[w].call = "setState"
                /\ conn'.state = "kDisconnecting" /\ UNCHANGED <<net, hist>>
    BY <1>2, PlainTyped DEF WorkerSetsState, ConnType
<1>3. ASSUME NEW u \in Workers, WorkerQueues(u)
      PROVE  worker'[w] = worker[w] \/ worker'[w].call = "none"
    BY <1>3, PlainTyped DEF WorkerQueues
<1>4. ASSUME NEW u \in Workers, WorkerDropsRef(u) PROVE worker'[w] = worker[w]
    BY <1>4 DEF WorkerDropsRef
<1>5. ASSUME UserSteps \/ LoopSteps PROVE worker' = worker
    BY <1>5
       DEF UserSteps, SendHere, ShutdownHere, LoopSteps, CallbackReturns, WriteSteps, WritingDone,
           WriteSome, WriteBlocked, WriteFails, Poll, EventSteps, EventHup, EventErr,
           EventMessage, EventReadError, EventEof, EventOut, FunctorSteps, DoPendingFunctors,
           FunctorsDone, ConnectEstablished, ConnectDestroyed, RunSend, RunShutdown, RunDangling
<1>6. ASSUME RemoveConnectionInLoop \/ PeerSteps \/ UNCHANGED cvars PROVE worker' = worker
    BY <1>6
       DEF RemoveConnectionInLoop, PeerSteps, PeerSends, PeerReads, PeerCloses, PeerResets, cvars
<1> QED BY <1>1, <1>2, <1>3, <1>4, <1>5, <1>6 DEF Next, WorkerSteps

LEMMA OnlyShutdownInit == Init => OnlyShutdown
<1> SUFFICES ASSUME Init PROVE OnlyShutdown
    OBVIOUS
<1>1. \A w \in Workers : worker[w].call \in {"none", "setState", "shutdown"}
    BY PlainTyped DEF Init
<1>2. ASSUME NEW f PROVE QueuedCalls(<<f>>) = {f.call}
    BY DEF QueuedCalls
<1>3. QueuedCalls(loop.queue) = {"connectEstablished"}
    BY <1>2, PlainTyped DEF Init, RefCalls
<1> QED BY <1>1, <1>3 DEF OnlyShutdown, RefCalls

LEMMA OnlyShutdownStep ==
    ASSUME TypeOK, WorkerCalls \subseteq {"shutdown"}, OnlyShutdown, [Next]_cvars
    PROVE  OnlyShutdown'
<1> loop.queue \in Seq(Queueable)
    BY DEF TypeOK, LoopType
<1>1. ASSUME NEW w \in Workers PROVE worker'[w].call \in {"none", "setState", "shutdown"}
    BY WorkersStep DEF OnlyShutdown
<1>2. QueuedCalls(loop'.queue) \subseteq {"shutdown"} \cup RefCalls
    <2>1. CASE loop'.queue = loop.queue
        BY <2>1 DEF OnlyShutdown
    <2>2. CASE loop.queue # <<>> /\ loop'.queue = Tail(loop.queue)
        BY <2>2, QueueTaken DEF OnlyShutdown
    <2>3. CASE loop'.queue = Append(loop.queue, Plain("connectDestroyed"))
        BY <2>3, QueueAppended, PlainTyped DEF OnlyShutdown, RefCalls
    <2>4. ASSUME NEW w \in Workers, worker[w] \in Queueable,
                 loop'.queue = Append(loop.queue, worker[w])
          PROVE  QueuedCalls(loop'.queue) \subseteq {"shutdown"} \cup RefCalls
        <3>1. worker[w].call = "shutdown"
            BY <2>4, QueueableCalls DEF OnlyShutdown, RawCalls, Calls, RefCalls
        <3> QED BY <2>4, <3>1, QueueAppended DEF OnlyShutdown
    <2> QED BY <2>1, <2>2, <2>3, <2>4, QueueSteps
<1> QED BY <1>1, <1>2 DEF OnlyShutdown

\* kConnected is set in one place.
LEMMA StateSteps ==
    ASSUME TypeOK, [Next]_cvars, conn'.state = "kConnected"
    PROVE  ConnectEstablished \/ conn.state = "kConnected"
<1> conn \in ConnType
    BY DEF TypeOK
<1>1. ASSUME UserSteps \/ WriteSteps
      PROVE  conn.state = "kConnected"
    BY <1>1
       DEF UserSteps, SendHere, ShutdownHere, InUserCode, Enqueue, WriteSteps, WritingDone,
           WriteSome, Advance, WriteBlocked, WriteFails, HandleClose, ConnType
<1>2. ASSUME CallbackReturns \/ Poll \/ EventSteps PROVE conn.state = "kConnected"
    BY <1>2
       DEF CallbackReturns, Poll, EventSteps, EventHup, EventErr, EventMessage, EventReadError,
           EventEof, EventOut, HandleClose, ConnType
<1>3. ASSUME FunctorSteps PROVE ConnectEstablished \/ conn.state = "kConnected"
    BY <1>3
       DEF FunctorSteps, DoPendingFunctors, FunctorsDone, ConnectDestroyed, StillUp, RunSend,
           Accept, Enqueue, RunShutdown, RunDangling, ConnType
<1>4. ASSUME NEW w \in Workers, WorkerSteps(w) PROVE conn.state = "kConnected"
    BY <1>4
       DEF WorkerSteps, WorkerTests, WorkerSetsState, WorkerQueues, WorkerDropsRef, ConnType
<1>5. ASSUME RemoveConnectionInLoop \/ PeerSteps \/ UNCHANGED cvars
      PROVE  conn.state = "kConnected"
    BY <1>5
       DEF RemoveConnectionInLoop, PeerSteps, PeerSends, PeerReads, PeerCloses, PeerResets, cvars
<1> QED BY <1>1, <1>2, <1>3, <1>4, <1>5 DEF Next, LoopSteps

\* The FIN is sent in one place.
LEMMA FinSteps ==
    ASSUME TypeOK, [Next]_cvars, net'.fin
    PROVE  \/ net.fin
           \/ /\ ShutdownHere \/ RunShutdown
              /\ "OUT" \notin poller.events[Chan]
<1> net \in NetType
    BY DEF TypeOK
<1>1. ASSUME ShutdownHere \/ RunShutdown
      PROVE  net.fin \/ "OUT" \notin poller.events[Chan]
    BY <1>1 DEF ShutdownHere, RunShutdown, ShutdownInLoop
<1>2. ASSUME NEW call, NEW size, SendHere(call, size) PROVE net.fin
    BY <1>2 DEF SendHere
<1>3. ASSUME CallbackReturns \/ WriteSteps \/ Poll \/ EventSteps PROVE net.fin
    BY <1>3
       DEF CallbackReturns, WriteSteps, WritingDone, WriteSome, WriteBlocked, WriteFails, Poll,
           EventSteps, EventHup, EventErr, EventMessage, EventReadError, EventEof, EventOut,
           NetType
<1>4. ASSUME FunctorSteps PROVE RunShutdown \/ net.fin
    BY <1>4
       DEF FunctorSteps, DoPendingFunctors, FunctorsDone, ConnectEstablished, ConnectDestroyed,
           RunSend, RunDangling
<1>5. ASSUME \/ RemoveConnectionInLoop \/ PeerSteps \/ UNCHANGED cvars
             \/ \E w \in Workers : WorkerSteps(w)
      PROVE  net.fin
    BY <1>5
       DEF RemoveConnectionInLoop, PeerSteps, PeerSends, PeerReads, PeerCloses, PeerResets, cvars,
           WorkerSteps, WorkerTests, WorkerSetsState, WorkerQueues, WorkerDropsRef, NetType
<1> QED BY <1>1, <1>2, <1>3, <1>4, <1>5 DEF Next, UserSteps, LoopSteps

LEMMA ShutdownFollowsStep ==
    ASSUME SInv, WorkerCalls \subseteq {"shutdown"}, [Next]_cvars
    PROVE  ShutdownFollows'
<1> TypeOK /\ IInv
    BY DEF SInv, IInv
<1> /\ conn \in ConnType /\ hist \in HistType
    /\ loop.queue \in Seq(Queueable)
    /\ worker \in [Workers -> Queueable \cup {Idle, Plain("setState")}]
    BY DEF TypeOK, LoopType
<1> SUFFICES ASSUME Open'
             PROVE  /\ conn'.state = "kConnected" =>
                          /\ ~net'.fin
                          /\ \A w \in Workers : worker'[w].call # "shutdown"
                          /\ "shutdown" \notin QueuedCalls(loop'.queue)
                    /\ net'.fin => conn'.contexts = <<>>
    BY DEF ShutdownFollows
<1>1. CASE ConnectEstablished
    <2>1. hist.callbacks = "none"
        BY <1>1, CallBackTyped DEF ConnectEstablished, Open
    <2>2. /\ ~net.fin /\ loop.queue = <<Plain("connectEstablished")>>
          /\ \A w \in Workers : worker[w] = Idle
        BY <2>1 DEF Fresh, IInv
    <2>3. UNCHANGED <<net, worker>> /\ Calling("connectEstablished")
        BY <1>1 DEF ConnectEstablished
    <2>4. loop'.queue = Tail(loop.queue) /\ loop.queue # <<>>
        <3>1. loop.pass > 0 /\ loop.pass <= Len(loop.queue) /\ loop \in LoopType
            BY <2>3 DEF Calling, TypeOK
        <3>2. Called \in LoopType /\ Called.queue = Tail(loop.queue)
            BY <3>1, CalledTyped
        <3>3. loop.queue # <<>>
            BY <2>2
        <3> QED BY <1>1, <3>2, <3>3 DEF ConnectEstablished, LoopType
    <2>5. QueuedCalls(loop.queue) = {"connectEstablished"}
        <3>1. ASSUME NEW f PROVE QueuedCalls(<<f>>) = {f.call}
            BY DEF QueuedCalls
        <3> QED BY <2>2, <3>1, PlainTyped DEF RefCalls
    <2>6. "shutdown" \notin QueuedCalls(loop'.queue)
        BY <2>4, <2>5, QueueTaken
    <2> QED BY <2>2, <2>3, <2>6, PlainTyped
<1>2. CASE ~ConnectEstablished
    <2>1. Open
        BY <1>2, OpenSteps DEF Open
    <2>2. ASSUME conn'.state = "kConnected"
          PROVE  /\ ~net'.fin
                 /\ \A w \in Workers : worker'[w].call # "shutdown"
                 /\ "shutdown" \notin QueuedCalls(loop'.queue)
        <3>1. /\ ~net.fin
              /\ \A w \in Workers : worker[w].call # "shutdown"
              /\ "shutdown" \notin QueuedCalls(loop.queue)
            BY <1>2, <2>1, <2>2, StateSteps DEF SInv, ShutdownFollows
        <3>2. ~net'.fin
            <4>1. ~ShutdownHere
                BY <2>2 DEF ShutdownHere, ConnType
            <4>2. ASSUME RunShutdown PROVE FALSE
                <5>1. loop.queue # <<>> /\ Head(loop.queue).call = "shutdown"
                    BY <4>2 DEF RunShutdown, Calling, TypeOK, LoopType
                <5> QED BY <3>1, <5>1, QueueTaken
            <4> QED BY <3>1, <4>1, <4>2, FinSteps
        <3>3. ASSUME NEW w \in Workers PROVE worker'[w].call # "shutdown"
            BY <2>2, <3>1, WorkersStep
        <3>4. "shutdown" \notin QueuedCalls(loop'.queue)
            <4>1. CASE loop.queue # <<>> /\ loop'.queue = Tail(loop.queue)
                BY <3>1, <4>1, QueueTaken
            <4>2. CASE loop'.queue = Append(loop.queue, Plain("connectDestroyed"))
                BY <3>1, <4>2, QueueAppended, PlainTyped DEF RefCalls
            <4>3. ASSUME NEW w \in Workers, worker[w] \in Queueable,
                         loop'.queue = Append(loop.queue, worker[w])
                  PROVE  "shutdown" \notin QueuedCalls(loop'.queue)
                BY <3>1, <4>3, QueueAppended
            <4> QED BY <3>1, <4>1, <4>2, <4>3, QueueSteps
        <3> QED BY <3>2, <3>3, <3>4
    <2>3. ASSUME net'.fin PROVE conn'.contexts = <<>>
        <3>1. CASE net.fin
            <4>1. conn.contexts = <<>> /\ conn.state # "kConnected"
                BY <2>1, <3>1 DEF SInv, ShutdownFollows
            <4>2. ~Sending
                <5>1. ASSUME NEW call \in {"send", "sendFile"}, Calling(call) PROVE FALSE
                    <6>1. loop.queue # <<>> /\ Head(loop.queue).call = call
                        BY <5>1 DEF Calling, TypeOK, LoopType
                    <6> QED BY <6>1, QueueTaken DEF SInv, OnlyShutdown, RefCalls
                <5> QED BY <4>1, <5>1 DEF Sending
            <4>3. ~WriteSome /\ ~WriteFails
                BY <4>1 DEF WriteSome, WriteFails, Writing
            <4> QED BY <1>2, <4>1, <4>2, <4>3, OutputSteps DEF Quiet
        <3>2. CASE ~net.fin
            <4>1. ShutdownHere \/ RunShutdown
                BY <2>3, <3>2, FinSteps
            <4>2. ~loop.writing /\ conn'.contexts = conn.contexts
                BY <4>1
                   DEF ShutdownHere, InUserCode, RunShutdown, Calling, InHandler, ConnType
            <4>3. "OUT" \notin poller.events[Chan]
                BY <2>3, <3>2, FinSteps
            <4> QED BY <2>1, <4>2, <4>3 DEF IInv, Watched
        <3> QED BY <3>1, <3>2
    <2> QED BY <2>2, <2>3
<1> QED BY <1>1, <1>2

LEMMA SInvInvariant ==
    ASSUME WorkerCalls \subseteq {"shutdown"}
    PROVE  Spec => []SInv
<1>1. Init => SInv
    <2>1. Init => ShutdownFollows
        BY DEF Init, ShutdownFollows, Open
    <2>2. Init => IInv
        BY TypeInit, FreshInit, RegisteredInit, BacklogInit, WatchedInit DEF IInv
    <2> QED BY <2>1, <2>2, OnlyShutdownInit DEF SInv
<1>2. SInv /\ [Next]_cvars => SInv'
    <2>1. IInv /\ [Next]_cvars => IInv'
        BY TypeStep, FreshStep, RegisteredStep, BacklogStep, WatchedStep DEF IInv
    <2> QED BY <2>1, OnlyShutdownStep, ShutdownFollowsStep DEF SInv, IInv
<1> QED BY <1>1, <1>2, PTL DEF Spec

\* When other threads only call shutdown(), the FIN leaves after all output that was
\* accepted, and none is accepted behind it: shutdownInLoop() finds EPOLLOUT unwatched
\* only once contextQueue_ is empty.
THEOREM FinComesLast ==
    ASSUME WorkerCalls \subseteq {"shutdown"}
    PROVE  Spec => []FinAfterData
<1>1. SInv => FinAfterData
    <2> SUFFICES ASSUME SInv, net.fin, Open
                 PROVE  conn.contexts = <<>> /\ hist.wire = hist.accepted
        BY DEF FinAfterData
    <2>1. conn.contexts = <<>>
        BY DEF SInv, ShutdownFollows
    <2>2. PICK ends \in Ends : Cut(ends)
        BY DEF SInv, IInv, Backlog
    <2>3. Len(hist.wire) = Len(hist.accepted)
        BY <2>1, <2>2 DEF Cut, Consecutive
    <2>4. \A k \in DOMAIN hist.wire : hist.wire[k] = hist.accepted[k]
        BY <2>2 DEF Cut
    <2>5. hist.wire \in Seq(SendIds) /\ hist.accepted \in Seq(SendIds)
        BY DEF SInv, IInv, TypeOK, HistType
    <2> QED BY <2>1, <2>3, <2>4, <2>5
<1> QED BY <1>1, SInvInvariant, PTL

-----------------------------------------------------------------------------
(* With nothing but shutdown() from elsewhere: the life of the connection. *)

LEMMA RefAppended ==
    ASSUME NEW q \in Seq(Queueable), NEW f \in Queueable
    PROVE  /\ f.call \notin RefCalls /\ NoRef(q) => NoRef(Append(q, f))
           /\ f.call \notin RefCalls /\ OneRef(q) => OneRef(Append(q, f))
           /\ f.call = "connectDestroyed" /\ NoRef(q) => OneRef(Append(q, f))
<1> DEFINE r == Append(q, f)
<1>1. /\ DOMAIN q = 1 .. Len(q) /\ DOMAIN r = 1 .. Len(q) + 1
      /\ \A i \in DOMAIN q : r[i] = q[i]
      /\ r[Len(q) + 1] = f /\ Len(q) \in Nat
    BY SeqAppended
<1> HIDE DEF r
<1>2. /\ \A i \in DOMAIN r : i \in DOMAIN q \/ i = Len(q) + 1
      /\ \A i \in DOMAIN q : i \in DOMAIN r /\ i # Len(q) + 1
      /\ Len(q) + 1 \in DOMAIN r
    BY <1>1
<1>3. ASSUME f.call \notin RefCalls, NoRef(q) PROVE NoRef(r)
    BY <1>1, <1>2, <1>3 DEF NoRef
<1>4. ASSUME f.call \notin RefCalls, OneRef(q) PROVE OneRef(r)
    <2>1. PICK i \in DOMAIN q : /\ q[i].call = "connectDestroyed"
                                /\ \A j \in DOMAIN q : j # i => q[j].call \notin RefCalls
        BY <1>4 DEF OneRef
    <2>2. i \in DOMAIN r /\ r[i].call = "connectDestroyed"
        BY <1>1, <1>2, <2>1
    <2>3. ASSUME NEW j \in DOMAIN r, j # i PROVE r[j].call \notin RefCalls
        BY <1>1, <1>2, <1>4, <2>1, <2>3
    <2> QED BY <2>2, <2>3 DEF OneRef
<1>5. ASSUME f.call = "connectDestroyed", NoRef(q) PROVE OneRef(r)
    <2>1. ASSUME NEW j \in DOMAIN r, j # Len(q) + 1 PROVE r[j].call \notin RefCalls
        BY <1>1, <1>2, <1>5, <2>1 DEF NoRef
    <2> QED BY <1>1, <1>2, <1>5, <2>1 DEF OneRef
<1> QED BY <1>3, <1>4, <1>5 DEF r

LEMMA RefTaken ==
    ASSUME NEW q \in Seq(Queueable), q # <<>>
    PROVE  /\ NoRef(q) => NoRef(Tail(q)) /\ Head(q).call \notin RefCalls
           /\ Head(q).call \notin RefCalls /\ OneRef(q) => OneRef(Tail(q))
           /\ Head(q).call \in RefCalls /\ OneRef(q) =>
                 Head(q).call = "connectDestroyed" /\ NoRef(Tail(q))
<1> DEFINE r == Tail(q)
<1>1. /\ DOMAIN r = 1 .. Len(q) - 1 /\ DOMAIN q = 1 .. Len(q) /\ 1 \in DOMAIN q
      /\ \A i \in DOMAIN r : r[i] = q[i + 1]
      /\ Head(q) = q[1] /\ Len(q) \in Nat
    BY SeqTaken
<1> HIDE DEF r
<1>2. /\ \A i \in DOMAIN r : i + 1 \in DOMAIN q /\ i + 1 # 1
      /\ \A i \in DOMAIN q : i # 1 => i - 1 \in DOMAIN r /\ (i - 1) + 1 = i
      /\ \A i \in DOMAIN r : \A j \in DOMAIN q : j # 1 /\ i # j - 1 => i + 1 # j
    BY <1>1
<1>3. ASSUME NoRef(q) PROVE NoRef(r) /\ Head(q).call \notin RefCalls
    BY <1>1, <1>2, <1>3 DEF NoRef
<1>4. ASSUME NEW i \in DOMAIN q, q[i].call = "connectDestroyed",
             \A j \in DOMAIN q : j # i => q[j].call \notin RefCalls
      PROVE  /\ Head(q).call \notin RefCalls => OneRef(r)
             /\ Head(q).call \in RefCalls =>
                   Head(q).call = "connectDestroyed" /\ NoRef(r)
    <2>1. CASE i = 1
        <3>1. NoRef(r)
            BY <1>1, <1>2, <1>4, <2>1 DEF NoRef
        <3> QED BY <1>1, <1>4, <2>1, <3>1 DEF RefCalls
    <2>2. CASE i # 1
        <3>1. Head(q).call \notin RefCalls
            BY <1>1, <1>4, <2>2
        <3>2. i - 1 \in DOMAIN r /\ r[i - 1].call = "connectDestroyed"
            BY <1>1, <1>2, <1>4, <2>2
        <3>3. ASSUME NEW j \in DOMAIN r, j # i - 1 PROVE r[j].call \notin RefCalls
            BY <1>1, <1>2, <1>4, <2>2, <3>3
        <3> QED BY <3>1, <3>2, <3>3 DEF OneRef
    <2> QED BY <2>1, <2>2
<1> QED BY <1>3, <1>4 DEF OneRef, r

\* The functor at the front of the queue.
LEMMA Front1 ==
    ASSUME TypeOK, NEW call, Calling(call)
    PROVE  /\ loop.queue # <<>> /\ Head(loop.queue).call = call
           /\ loop.queue \in Seq(Queueable)
           /\ Called \in LoopType /\ Called.queue = Tail(loop.queue)
           /\ Called.pc = loop.pc /\ Called.reported = loop.reported
           /\ Called.upcall = loop.upcall /\ Called.writing = loop.writing
<1>1. loop.pass > 0 /\ loop.pass <= Len(loop.queue) /\ loop \in LoopType
    BY DEF Calling, TypeOK
<1>2. loop.queue # <<>> /\ loop.queue \in Seq(Queueable)
    BY <1>1 DEF LoopType
<1> QED BY <1>1, <1>2, CalledTyped DEF Calling

\* Only the connection's own callbacks send.
LEMMA SendsFromUpcall ==
    ASSUME NeighbourCalls \subseteq {"shutdown"},
           NEW call \in {"send", "sendFile"}, NEW size, SendHere(call, size)
    PROVE  loop.upcall
BY DEF SendHere, InUserCode

LEMMA DispatchInit == Init => Dispatch
BY DEF Init, Dispatch, InHandler

LEMMA DispatchStep ==
    ASSUME TypeOK, NeighbourCalls \subseteq {"shutdown"}, Dispatch, [Next]_cvars
    PROVE  Dispatch'
<1> loop \in LoopType /\ loop.pass <= Len(loop.queue) /\ own \in OwnType
    BY DEF TypeOK
<1> USE DEF Dispatch, InHandler
<1>1. ASSUME loop'.pc = loop.pc, loop'.reported = loop.reported,
             loop'.upcall => loop.upcall, loop'.writing => InHandler
      PROVE  Dispatch'
    BY <1>1
<1>2. ASSUME NEW e, Handling(e), loop'.pc = loop.pc, loop'.reported = loop.reported \ {e},
             loop'.upcall \/ loop'.writing => e \in {"IN", "OUT"}
      PROVE  Dispatch'
    BY <1>2 DEF Handling
<1>3. ASSUME NEW call, NEW size, SendHere(call, size), call \in {"send", "sendFile"}
      PROVE  Dispatch'
    BY <1>1, <1>3, SendsFromUpcall DEF SendHere, LoopType
<1>4. ASSUME CallbackReturns \/ WritingDone \/ WriteBlocked PROVE Dispatch'
    BY <1>1, <1>4 DEF CallbackReturns, WritingDone, WriteBlocked, Stop, LoopType
<1>5. ASSUME WriteFails PROVE Dispatch'
    BY <1>1, <1>5, StopTyped, RemoveTyped DEF WriteFails, HandleClose
<1>6. ASSUME Poll PROVE Dispatch'
    BY <1>6 DEF Poll, LoopType
<1>7. ASSUME NEW e \in {"HUP", "IN"}, Handling(e), HandleClose(conn, Handled(e))
      PROVE  Dispatch'
    <2>1. /\ loop'.pc = loop.pc /\ loop'.reported = loop.reported \ {e}
          /\ loop'.upcall = loop.upcall /\ loop'.writing = loop.writing
        BY <1>7, HandledTyped, RemoveTyped DEF HandleClose
    <2> QED BY <1>2, <1>7, <2>1 DEF Handling
<1>8. ASSUME EventErr \/ EventReadError PROVE Dispatch'
    BY <1>2, <1>8, HandledTyped DEF EventErr, EventReadError, Handling
<1>9. ASSUME EventMessage PROVE Dispatch'
    BY <1>2, <1>9 DEF EventMessage, Handled, LoopType
<1>10. ASSUME EventOut PROVE Dispatch'
    BY <1>2, <1>10 DEF EventOut, Handled, LoopType
<1>11. ASSUME DoPendingFunctors \/ FunctorsDone PROVE Dispatch'
    BY <1>11 DEF DoPendingFunctors, FunctorsDone, LoopType
<1>12. ASSUME NEW call, Calling(call), loop'.pc = Called.pc, loop'.reported = Called.reported
       PROVE  Dispatch'
    BY <1>12, Front1 DEF Calling
<1>13. ASSUME ConnectEstablished \/ ConnectDestroyed \/ RunShutdown PROVE Dispatch'
    BY <1>12, <1>13, Front1 DEF ConnectEstablished, ConnectDestroyed, RunShutdown, LoopType
<1>14. ASSUME NEW call, RunSend(call) PROVE Dispatch'
    BY ZenonT(40), <1>12, <1>14, Front1 DEF RunSend, Accept, LoopType
<1>15. ASSUME RemoveConnectionInLoop PROVE Dispatch'
    BY <1>1, <1>15 DEF RemoveConnectionInLoop, Queued, LoopType
<1>16. ASSUME NEW w \in Workers, WorkerSteps(w) PROVE Dispatch'
    BY <1>1, <1>16
       DEF WorkerSteps, WorkerTests, WorkerSetsState, WorkerQueues, WorkerDropsRef, Queued,
           LoopType
<1>17. ASSUME \/ ShutdownHere \/ WriteSome \/ RunDangling \/ PeerSteps \/ UNCHANGED cvars
       PROVE  Dispatch'
    BY <1>17
       DEF ShutdownHere, WriteSome, RunDangling, PeerSteps, PeerSends, PeerReads, PeerCloses,
           PeerResets, cvars
<1> QED BY <1>3, <1>4, <1>5, <1>6, <1>7, <1>8, <1>9, <1>10, <1>11, <1>13, <1>14, <1>15, <1>16,
           <1>17
        DEF Next, UserSteps, LoopSteps, WriteSteps, EventSteps, EventHup, EventEof, FunctorSteps

LEMMA LifecycleInit == Init => Lifecycle
BY DEF Init, Lifecycle, EmptyPoller, Open

\* A step that leaves the callbacks, the poller and connectDestroyed() as they are.
LEMMA LifecycleKept ==
    ASSUME Lifecycle, hist'.callbacks = hist.callbacks, poller' = poller,
           own'.removals = own.removals, conn'.state \in {conn.state, "kDisconnecting"},
           NoRef(loop.queue) => NoRef(loop'.queue),
           OneRef(loop.queue) => OneRef(loop'.queue),
           hist.callbacks = "down" =>
              ~loop'.writing /\ loop'.reported \subseteq {"ERR", "OUT"}
    PROVE  Lifecycle'
<1>1. Open' => Open /\ Up'
    BY DEF Lifecycle, Open, Up
<1>2. hist'.callbacks = "down" => Down'
    BY DEF Lifecycle, Down, Leaving
<1> QED BY <1>1, <1>2 DEF Lifecycle

\* What an event or a write needs of the connection.
LEMMA OpenToHandle ==
    ASSUME LInv
    PROVE  /\ loop.writing => Open
           /\ "IN" \in loop.reported => Open
           /\ "HUP" \in loop.reported => Open
           /\ conn.state = "kConnected" => Open
           /\ hist.callbacks \in {"none", "up", "down"}
           /\ Open => InEpoll(poller) /\ "IN" \in poller.events[Chan]
<1>1. hist.callbacks \in {"none", "up", "down"}
    BY DEF LInv, SInv, IInv, TypeOK, HistType, Lifecycle
<1>2. CASE hist.callbacks = "none"
    BY <1>2 DEF LInv, SInv, IInv, Fresh, Open
<1>3. CASE hist.callbacks = "up"
    BY <1>3 DEF LInv, SInv, IInv, Registered, Open, InEpoll
<1>4. CASE hist.callbacks = "down"
    BY <1>4 DEF LInv, Lifecycle, Down, Open
<1> QED BY <1>1, <1>2, <1>3, <1>4

\* The connection goes down.
LEMMA ClosedLifecycle ==
    ASSUME LInv, Open, NEW c \in ConnType, NEW l \in LoopType, l.pass <= Len(l.queue),
           l.queue = loop.queue, ~l.writing, l.reported \subseteq {"ERR", "OUT"},
           HandleClose(c, l)
    PROVE  Lifecycle'
<1>1. poller \in PollerType /\ own \in OwnType /\ hist \in HistType /\ TypeOK
    BY DEF LInv, SInv, IInv, TypeOK
<1>2. InEpoll(poller)
    BY OpenToHandle
<1>3. /\ poller'.channels[Fd] = Chan /\ poller'.index[Chan] = "kDeleted"
      /\ poller'.events[Chan] = {} /\ poller'.epoll[Fd] = "null"
      /\ poller'.failed = "none"
    BY <1>1, <1>2, CloseInEpoll DEF HandleClose, LInv, Lifecycle
<1>4. hist'.callbacks = "down" /\ conn'.state = "kDisconnected"
    BY <1>1, CallBackTyped DEF HandleClose, Open, ConnType
<1>5. /\ loop'.reported = l.reported /\ loop'.writing = l.writing
      /\ \/ loop'.queue = loop.queue /\ own'.removals = own.removals + 1
         \/ /\ loop'.queue = Append(loop.queue, Plain("connectDestroyed"))
            /\ own'.removals = own.removals
    BY <1>1, RemoveTyped DEF HandleClose
<1>6. own.removals = 0 /\ NoRef(loop.queue)
    BY DEF LInv, Lifecycle, Up
<1>7. /\ Plain("connectDestroyed") \in Queueable
      /\ Plain("connectDestroyed").call = "connectDestroyed"
    BY PlainTyped DEF RefCalls
<1>8. Leaving'
    <2>1. loop.queue \in Seq(Queueable)
        BY <1>1 DEF TypeOK, LoopType
    <2>2. OneRef(Append(loop.queue, Plain("connectDestroyed")))
        BY <1>6, <1>7, <2>1, RefAppended
    <2>3. CASE loop'.queue = loop.queue /\ own'.removals = own.removals + 1
        BY <1>6, <2>3 DEF Leaving
    <2>4. CASE /\ loop'.queue = Append(loop.queue, Plain("connectDestroyed"))
               /\ own'.removals = own.removals
        BY <1>6, <2>2, <2>4 DEF Leaving
    <2> QED BY <1>5, <2>3, <2>4
<1> QED BY <1>3, <1>4, <1>5, <1>8 DEF Lifecycle, Down, Open

LEMMA LifecycleStep ==
    ASSUME LInv, WorkerCalls \subseteq {"shutdown"}, NeighbourCalls \subseteq {"shutdown"},
           [Next]_cvars
    PROVE  Lifecycle'
<1> TypeOK /\ Lifecycle /\ Dispatch /\ Fresh
    BY DEF LInv, SInv, IInv
<1> /\ conn \in ConnType /\ hist \in HistType /\ poller \in PollerType
    /\ loop \in LoopType /\ loop.pass <= Len(loop.queue) /\ own \in OwnType
    /\ loop.queue \in Seq(Queueable)
    /\ worker \in [Workers -> Queueable \cup {Idle, Plain("setState")}]
    BY DEF TypeOK, LoopType
<1> poller.failed = "none"
    BY DEF Lifecycle
<1>1. hist.callbacks = "down" => ~loop.writing /\ loop.reported \subseteq {"ERR", "OUT"}
    BY DEF Lifecycle, Down
<1>2. ASSUME NEW call, NEW size, SendHere(call, size) PROVE Lifecycle'
    <2>1. Open
        BY <1>2, OpenToHandle DEF SendHere, InUserCode
    <2>2. /\ hist'.callbacks = hist.callbacks /\ conn'.state = conn.state
          /\ loop'.queue = loop.queue /\ UNCHANGED <<poller, own>>
        BY <1>2 DEF SendHere, Enqueue, HistType, ConnType, LoopType
    <2> QED BY <2>1, <2>2, LifecycleKept DEF Open
<1>3. ASSUME ShutdownHere PROVE Lifecycle'
    BY <1>1, <1>3, LifecycleKept DEF ShutdownHere, ConnType
<1>4. ASSUME CallbackReturns \/ WritingDone PROVE Lifecycle'
    BY <1>1, <1>4, LifecycleKept DEF CallbackReturns, WritingDone, Stop, LoopType
<1>5. ASSUME WriteSome \/ WriteBlocked PROVE Lifecycle'
    <2>1. Open
        BY <1>5, OpenToHandle DEF WriteSome, WriteBlocked, Writing
    <2>2. /\ hist'.callbacks = hist.callbacks /\ loop'.queue = loop.queue /\ UNCHANGED own
        BY <1>5 DEF WriteSome, WriteBlocked, Stop, HistType, LoopType
    <2>3. conn'.state = conn.state
        BY <1>5 DEF WriteSome, Advance, WriteBlocked, ConnType
    <2>4. poller'.failed = "none"
        BY <1>5, <2>1, OpenToHandle, OutputInEpoll DEF WriteSome, WriteBlocked
    <2> QED BY <2>1, <2>2, <2>3, <2>4 DEF Lifecycle, Open, Up
<1>6. ASSUME WriteFails PROVE Lifecycle'
    <2> DEFINE c == [conn EXCEPT !.contexts = Tail(@)]
    <2>1. loop.writing /\ conn.contexts # <<>> /\ HandleClose(c, Stop(loop))
        BY <1>6 DEF WriteFails, Writing
    <2>2. c \in ConnType
        BY <2>1, FrontIsPending DEF LInv, SInv, IInv, ConnType
    <2> HIDE DEF c
    <2>3. Open /\ loop.reported \subseteq {"ERR", "OUT"}
        BY <2>1, OpenToHandle DEF Dispatch, InHandler
    <2> QED BY <2>1, <2>2, <2>3, StopTyped, ClosedLifecycle
<1>7. ASSUME Poll PROVE Lifecycle'
    <2>1. hist.callbacks = "down" => Ready = {}
        BY DEF Lifecycle, Down, Ready
    <2>2. loop'.queue = loop.queue /\ loop'.writing = loop.writing
        BY <1>7 DEF Poll, LoopType
    <2>3. hist.callbacks = "down" => loop'.reported = {}
        BY <1>7, <2>1 DEF Poll, LoopType
    <2> QED BY <1>1, <1>7, <2>2, <2>3, LifecycleKept DEF Poll
<1>8. ASSUME NEW e \in {"HUP", "IN"}, Handling(e), HandleClose(conn, Handled(e))
      PROVE  Lifecycle'
    <2>1. Open
        BY <1>8, OpenToHandle DEF Handling
    <2>2. /\ Handled(e) \in LoopType /\ Handled(e).pass <= Len(Handled(e).queue)
          /\ Handled(e).queue = loop.queue /\ Handled(e).writing = loop.writing
          /\ Handled(e).reported = loop.reported \ {e}
        BY HandledTyped
    <2>3. ~loop.writing
        BY <1>8 DEF Handling, InHandler
    <2>4. loop.reported \ {e} \subseteq {"ERR", "OUT"}
        BY <1>8 DEF Handling, Dispatch, LoopType
    <2> QED BY <1>8, <2>1, <2>2, <2>3, <2>4, ClosedLifecycle
<1>9. ASSUME EventErr \/ EventReadError PROVE Lifecycle'
    <2>1. \E e : loop' = Handled(e)
        BY <1>9 DEF EventErr, EventReadError
    <2>2. /\ loop'.queue = loop.queue /\ loop'.writing = loop.writing
          /\ loop'.reported \subseteq loop.reported
        BY <2>1, HandledTyped
    <2>3. hist'.callbacks = hist.callbacks /\ UNCHANGED <<conn, poller, own>>
        BY <1>9 DEF EventErr, EventReadError, ReadFdFails, HistType
    <2> QED BY <1>1, <2>2, <2>3, LifecycleKept
<1>10. ASSUME EventMessage PROVE Lifecycle'
    <2>1. Open
        BY <1>10, OpenToHandle DEF EventMessage, Handling
    <2>2. hist'.callbacks = hist.callbacks
        BY <1>10, <2>1, CallBackTyped DEF EventMessage, Open
    <2>3. loop'.queue = loop.queue
        BY <1>10 DEF EventMessage, Handled, LoopType
    <2> QED BY <1>10, <2>1, <2>2, <2>3, LifecycleKept DEF EventMessage, Open
<1>11. ASSUME EventOut PROVE Lifecycle'
    <2>1. /\ loop'.queue = loop.queue /\ loop'.reported \subseteq loop.reported
          /\ loop'.writing => "OUT" \in poller.events[Chan]
        BY <1>11 DEF EventOut, Handled, LoopType
    <2>2. hist.callbacks = "down" => ~loop'.writing
        BY <2>1 DEF Lifecycle, Down
    <2> QED BY <1>1, <1>11, <2>1, <2>2, LifecycleKept DEF EventOut
<1>12. ASSUME DoPendingFunctors \/ FunctorsDone \/ RunDangling PROVE Lifecycle'
    BY <1>1, <1>12, LifecycleKept
       DEF DoPendingFunctors, FunctorsDone, RunDangling, LoopType, OwnType, HistType
<1>13. ASSUME ConnectEstablished PROVE Lifecycle'
    <2>1. /\ Calling("connectEstablished")
          /\ conn' = [conn EXCEPT !.state = "kConnected"]
          /\ poller' = Enable(poller, Chan, Fd, "IN")
          /\ hist' = CallBack(hist, "up")
          /\ loop' = [Called EXCEPT !.upcall = TRUE]
          /\ own' = [own EXCEPT !.inPass = TRUE, !.held = Workers]
        BY <1>13 DEF ConnectEstablished
    <2>2. /\ loop.queue # <<>> /\ Head(loop.queue).call = "connectEstablished"
          /\ Called \in LoopType /\ Called.queue = Tail(loop.queue)
        BY <2>1, Front1
    <2>3. ~NoRef(loop.queue) /\ ~OneRef(loop.queue)
        BY <2>2, RefTaken DEF RefCalls
    <2>4. hist.callbacks = "none"
        <3>1. CASE hist.callbacks = "up"
            BY <2>3, <3>1 DEF Lifecycle, Open, Up
        <3>2. CASE hist.callbacks = "down"
            BY <2>3, <3>2 DEF Lifecycle, Down, Leaving
        <3> QED BY <3>1, <3>2, OpenToHandle
    <2>5. poller'.failed = "none"
        BY <2>1, <2>4, EnableNew DEF Fresh
    <2>6. hist'.callbacks = "up" /\ conn'.state = "kConnected" /\ own'.removals = 0
        BY <2>1, <2>4, CallBackTyped DEF Fresh, ConnType, OwnType
    <2>7. NoRef(loop'.queue)
        <3>1. ASSUME NEW f PROVE NoRef(Tail(<<f>>))
            BY DEF NoRef
        <3>2. loop.queue = <<Plain("connectEstablished")>>
            BY <2>4 DEF Fresh
        <3>3. loop'.queue = Tail(loop.queue)
            BY <2>1, <2>2 DEF LoopType
        <3> QED BY <3>1, <3>2, <3>3
    <2> QED BY <2>5, <2>6, <2>7 DEF Lifecycle, Open, Up
<1>14. ASSUME ConnectDestroyed PROVE Lifecycle'
    <2>1. /\ Calling("connectDestroyed") /\ loop' = Called
          /\ own' = [own EXCEPT !.inPass = TRUE]
        BY <1>14 DEF ConnectDestroyed
    <2>2. /\ loop.queue # <<>> /\ Head(loop.queue).call = "connectDestroyed"
          /\ Called \in LoopType /\ Called.queue = Tail(loop.queue)
          /\ Called.writing = loop.writing /\ Called.reported = loop.reported
        BY <2>1, Front1
    <2>3. ~NoRef(loop.queue)
        BY <2>2, RefTaken DEF RefCalls
    <2>4. hist.callbacks = "down"
        <3>1. CASE hist.callbacks = "up"
            BY <2>3, <3>1 DEF Lifecycle, Open, Up
        <3>2. CASE hist.callbacks = "none"
            <4>1. ASSUME NEW f PROVE Head(<<f>>) = f
                OBVIOUS
            <4>2. loop.queue = <<Plain("connectEstablished")>>
                BY <3>2 DEF Fresh
            <4> QED BY <2>2, <4>1, <4>2, PlainTyped DEF RefCalls
        <3> QED BY <3>1, <3>2, OpenToHandle
    <2>5. Down
        BY <2>4 DEF Lifecycle
    <2>6. /\ poller.channels[Fd] = Chan /\ poller.index[Chan] = "kDeleted"
          /\ own.removals = 0 /\ OneRef(loop.queue)
        BY <2>3, <2>5 DEF Down, Leaving
    <2>7. UNCHANGED <<conn, hist>> /\ poller' = RemoveChannel(poller, Chan, Fd)
        <3>1. ~StillUp
            BY <2>5 DEF Down, StillUp
        <3>2. UNCHANGED <<conn, hist>> /\ poller' = Unlist(poller)
            BY <1>14, <3>1, Zenon DEF ConnectDestroyed
        <3> QED BY <3>2 DEF Unlist
    <2>8. /\ poller'.events[Chan] = {} /\ poller'.epoll[Fd] = "null"
          /\ poller'.failed = "none"
        BY <2>5, <2>6, <2>7, RemoveClosed DEF Down
    <2>9. NoRef(loop'.queue)
        BY <2>1, <2>2, <2>6, RefTaken DEF RefCalls
    <2>10. own'.removals = 0
        BY <2>1, <2>6 DEF OwnType
    <2>11. Down'
        BY <2>1, <2>2, <2>5, <2>7, <2>8, <2>9, <2>10 DEF Down
    <2> QED BY <2>4, <2>7, <2>8, <2>11 DEF Lifecycle, Open
<1>15. ASSUME NEW call \in {"send", "sendFile"}, RunSend(call) PROVE FALSE
    <2>1. loop.queue # <<>> /\ Head(loop.queue).call = call
        BY <1>15, Front1 DEF RunSend
    <2> QED BY <2>1, QueueTaken DEF LInv, SInv, OnlyShutdown, RefCalls
<1>16. ASSUME RunShutdown PROVE Lifecycle'
    <2>1. /\ Calling("shutdown") /\ loop' = Called /\ UNCHANGED <<conn, poller, own, hist>>
        BY <1>16 DEF RunShutdown
    <2>2. /\ loop.queue # <<>> /\ Head(loop.queue).call = "shutdown"
          /\ loop'.queue = Tail(loop.queue)
          /\ loop'.writing = loop.writing /\ loop'.reported = loop.reported
        BY <2>1, Front1
    <2>3. /\ NoRef(loop.queue) => NoRef(loop'.queue)
          /\ OneRef(loop.queue) => OneRef(loop'.queue)
        BY <2>2, RefTaken DEF RefCalls
    <2> QED BY <1>1, <2>1, <2>2, <2>3, LifecycleKept
<1>17. ASSUME RemoveConnectionInLoop PROVE Lifecycle'
    <2>1. /\ own.removals > 0 /\ own'.removals = own.removals - 1
          /\ loop'.queue = Append(loop.queue, Plain("connectDestroyed"))
          /\ loop'.writing = loop.writing /\ loop'.reported = loop.reported
          /\ UNCHANGED <<conn, poller, hist>>
        BY <1>17 DEF RemoveConnectionInLoop, Queued, LoopType, OwnType
    <2>2. hist.callbacks = "down"
        <3>1. hist.callbacks \in {"none", "up"} => own.removals = 0
            BY DEF Fresh, Lifecycle, Open, Up
        <3> QED BY <2>1, <3>1, OpenToHandle
    <2>3. Down
        BY <2>2 DEF Lifecycle
    <2>4. /\ poller.channels[Fd] = Chan /\ poller.index[Chan] = "kDeleted"
          /\ own.removals = 1 /\ NoRef(loop.queue)
        BY <2>1, <2>3 DEF Down, Leaving
    <2>5. Leaving'
        BY <2>1, <2>4, PlainTyped, RefAppended DEF Leaving, RefCalls
    <2>6. Down'
        BY <2>1, <2>3, <2>4, <2>5 DEF Down
    <2> QED BY <2>1, <2>2, <2>6 DEF Lifecycle, Open
<1>18. ASSUME NEW w \in Workers, WorkerSteps(w) PROVE Lifecycle'
    <2>1. ASSUME NEW call, NEW size, WorkerTests(w, call, size) PROVE Lifecycle'
        <3>1. hist'.callbacks = hist.callbacks /\ UNCHANGED <<conn, poller, loop, own>>
            BY <2>1 DEF WorkerTests, HistType
        <3> QED BY <1>1, <3>1, LifecycleKept
    <2>2. ASSUME WorkerSetsState(w) PROVE Lifecycle'
        BY <1>1, <2>2, LifecycleKept DEF WorkerSetsState, ConnType
    <2>3. ASSUME WorkerQueues(w) PROVE Lifecycle'
        <3>1. worker[w] \in Queueable /\ worker[w].call \notin RefCalls
            BY <2>3, PlainTyped DEF WorkerQueues, RawCalls, Calls, RefCalls
        <3>2. /\ loop'.queue = Append(loop.queue, worker[w])
              /\ loop'.writing = loop.writing /\ loop'.reported = loop.reported
              /\ UNCHANGED <<conn, poller, own, hist>>
            BY <2>3 DEF WorkerQueues, Queued, LoopType
        <3>3. /\ NoRef(loop.queue) => NoRef(loop'.queue)
              /\ OneRef(loop.queue) => OneRef(loop'.queue)
            BY <3>1, <3>2, RefAppended
        <3> QED BY <1>1, <3>2, <3>3, LifecycleKept
    <2>4. ASSUME WorkerDropsRef(w) PROVE Lifecycle'
        BY <1>1, <2>4, LifecycleKept DEF WorkerDropsRef, OwnType
    <2> QED BY <1>18, <2>1, <2>2, <2>3, <2>4 DEF WorkerSteps
<1>19. ASSUME PeerSteps \/ UNCHANGED cvars PROVE Lifecycle'
    BY <1>1, <1>19, LifecycleKept
       DEF PeerSteps, PeerSends, PeerReads, PeerCloses, PeerResets, cvars
<1> QED BY <1>2, <1>3, <1>4, <1>5, <1>6, <1>7, <1>8, <1>9, <1>10, <1>11, <1>12, <1>13, <1>14,
           <1>15, <1>16, <1>17, <1>18, <1>19
        DEF Next, UserSteps, LoopSteps, WriteSteps, EventSteps, EventHup, EventEof, FunctorSteps

LEMMA LInvInvariant ==
    ASSUME WorkerCalls \subseteq {"shutdown"}, NeighbourCalls \subseteq {"shutdown"}
    PROVE  Spec => []LInv
<1>1. Init => Dispatch /\ Lifecycle
    BY DispatchInit, LifecycleInit
<1>2. SInv /\ (Dispatch /\ Lifecycle) /\ [Next]_cvars => (Dispatch /\ Lifecycle)'
    BY DispatchStep, LifecycleStep DEF LInv, SInv, IInv
<1>3. SInv /\ Dispatch /\ Lifecycle <=> LInv
    BY DEF LInv
<1> QED BY <1>1, <1>2, <1>3, SInvInvariant, PTL DEF Spec

\* When nothing but the connection's own callbacks sends, and other handlers and threads
\* at most shut it down, the user sees it come up once and go down once, with messages only
\* in between: no two of handleRead(), handleClose(), handleWrite() and connectDestroyed()
\* close it twice.
THEOREM CallbacksFollowProtocol ==
    ASSUME WorkerCalls \subseteq {"shutdown"}, NeighbourCalls \subseteq {"shutdown"}
    PROVE  Spec => []CallbackProtocol
<1>1. LInv => CallbackProtocol
    BY DEF LInv, Lifecycle, CallbackProtocol
<1> QED BY <1>1, LInvInvariant, PTL

\* Used in the same way, the connection never makes an assert() of EpollPoller fail:
\* its channel is removed once, and only after its mask has been cleared.
THEOREM PollerAssertsNeverFail ==
    ASSUME WorkerCalls \subseteq {"shutdown"}, NeighbourCalls \subseteq {"shutdown"}
    PROVE  Spec => []PollerAssertsHold
<1>1. LInv => PollerAssertsHold
    BY DEF LInv, Lifecycle, PollerAssertsHold
<1> QED BY <1>1, LInvInvariant, PTL
=============================================================================
