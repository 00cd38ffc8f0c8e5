-------------------------- MODULE TcpServer_proofs --------------------------
(***************************************************************************)
(* Theorems about TcpServer, for any numbers of connections, descriptors   *)
(* and loops.                                                              *)
(***************************************************************************)
EXTENDS TcpServer, TLAPS

ToEstablish(c) == Functor("connectEstablished", c)
ToDestroy(c) == Functor("connectDestroyed", c)
ToRemove(c) == Functor("removeConnectionInLoop", c)
FunctorType == [call : Calls, conn : Conns]

Home(c) == conns[c].loop
Queue(l) == loops[l].queue
Stopped(l) == loops[l].pc = "stopped"

\* Functors in a queue.
In(q, f) == \E i \in DOMAIN q : q[i] = f
Once(q, f) == \A i, j \in DOMAIN q : q[i] = f /\ q[j] = f => i = j
Before(q, f, g) == \A i \in DOMAIN q : q[i] = f => \E j \in DOMAIN q : i < j /\ q[j] = g
After(q, f, g) == \A j \in DOMAIN q : q[j] = g => \E i \in DOMAIN q : i < j /\ q[i] = f

\* How far the server and its threads have come.
Stages ==
    /\ server = "new" =>
          /\ \A c \in Conns : ~Created(c)
          /\ quits = {} /\ pool = <<>>
          /\ pollers = [l \in Loops |-> EmptyPoller]
          /\ \A l \in Loops : ~Stopped(l) /\ Queue(l) = <<>>
    /\ Stopped(base) => base \in quits
    /\ \A l \in Loops \ {base} : l \in quits \/ Stopped(l) => Stopped(base)
    /\ \A l \in Loops :
          /\ loops[l].batch # {} => loops[l].pc = "dispatch"
          /\ loops[l].pass > 0 => loops[l].pc = "calling"

\* Functors are about connections that exist, and are queued on the loop they belong to.
Sent(l, f) ==
    /\ Created(f.conn)
    /\ l = IF f.call = "removeConnectionInLoop" THEN base ELSE Home(f.conn)
Pointers ==
    /\ \A c \in connections : Created(c)
    /\ \A l \in Loops : \A c \in loops[l].held : Created(c)
    /\ \A l \in Loops : \A f \in FunctorType : In(Queue(l), f) => Sent(l, f)
    /\ \A c \in Conns :
          /\ Created(c) => Home(c) \in {base} \cup Pool /\ conns[c].fd # listenFd
          /\ conns[c].callbacks # "none" => Created(c)

\* Until the base loop has stopped, a connection leaves the map only once it is down.
InMap ==
    \A c \in Conns :
        /\ Created(c) /\ conns[c].callbacks \in {"none", "up"} =>
              c \in connections \/ Stopped(base)
        /\ In(Queue(base), ToRemove(c)) => conns[c].callbacks \in {"down", "wrong"}

-----------------------------------------------------------------------------
(* Queues. *)

LEMMA InQueue ==
    ASSUME NEW S, NEW q \in Seq(S), NEW f, In(q, f) PROVE f \in S
BY DEF In

LEMMA QueueAppend ==
    ASSUME NEW S, NEW q \in Seq(S), NEW f \in S
    PROVE  /\ Append(q, f) \in Seq(S) /\ Len(Append(q, f)) = Len(q) + 1
           /\ \A i \in DOMAIN Append(q, f) : i \in DOMAIN q \/ i = Len(q) + 1
           /\ \A i \in DOMAIN q : i \in DOMAIN Append(q, f) /\ Append(q, f)[i] = q[i]
           /\ Append(q, f)[Len(q) + 1] = f /\ Len(q) + 1 \in DOMAIN Append(q, f)
           /\ Append(q, f) # <<>>
OBVIOUS

LEMMA QueueTail ==
    ASSUME NEW S, NEW q \in Seq(S), q # <<>>
    PROVE  /\ Head(q) \in S /\ Head(q) = q[1] /\ 1 \in DOMAIN q
           /\ Tail(q) \in Seq(S) /\ Len(Tail(q)) = Len(q) - 1
           /\ \A i \in DOMAIN Tail(q) : i + 1 \in DOMAIN q /\ Tail(q)[i] = q[i + 1]
           /\ \A i \in DOMAIN q : i = 1 \/ (i - 1 \in DOMAIN Tail(q) /\ Tail(q)[i - 1] = q[i])
OBVIOUS

LEMMA InAppend ==
    ASSUME NEW S, NEW q \in Seq(S), NEW f \in S, NEW g
    PROVE  In(Append(q, f), g) <=> In(q, g) \/ g = f
BY QueueAppend, SMT DEF In

LEMMA InTail ==
    ASSUME NEW S, NEW q \in Seq(S), q # <<>>, NEW g
    PROVE  In(q, g) <=> g = Head(q) \/ In(Tail(q), g)
<1>1. ASSUME NEW i \in DOMAIN q, q[i] = g, i # 1 PROVE In(Tail(q), g)
    <2>1. i - 1 \in DOMAIN Tail(q) /\ Tail(q)[i - 1] = q[i]
        BY <1>1, QueueTail
    <2> QED BY <1>1, <2>1 DEF In
<1>2. ASSUME NEW i \in DOMAIN Tail(q), Tail(q)[i] = g PROVE In(q, g)
    <2>1. i + 1 \in DOMAIN q /\ Tail(q)[i] = q[i + 1]
        BY <1>2, QueueTail
    <2> QED BY <1>2, <2>1 DEF In
<1>3. Head(q) = q[1] /\ 1 \in DOMAIN q
    BY QueueTail
<1> QED BY <1>1, <1>2, <1>3 DEF In

LEMMA BeforeAppend ==
    ASSUME NEW S, NEW q \in Seq(S), NEW h \in S, NEW f, NEW g, f # h,
           Before(q, f, g) \/ h = g
    PROVE  Before(Append(q, h), f, g)
<1>1. CASE Before(q, f, g)
    BY <1>1, QueueAppend, SMT DEF Before
<1>2. CASE h = g
    <2>1. \A i \in DOMAIN q : i < Len(q) + 1
        OBVIOUS
    <2> QED BY <1>2, <2>1, QueueAppend, SMT DEF Before
<1> QED BY <1>1, <1>2

LEMMA BeforeTail ==
    ASSUME NEW S, NEW q \in Seq(S), q # <<>>, NEW f, NEW g, Before(q, f, g)
    PROVE  Before(Tail(q), f, g) /\ (Head(q) = f => In(Tail(q), g))
<1>1. Before(Tail(q), f, g)
    <2>1. SUFFICES ASSUME NEW i \in DOMAIN Tail(q), Tail(q)[i] = f
                   PROVE  \E j \in DOMAIN Tail(q) : i < j /\ Tail(q)[j] = g
        BY DEF Before
    <2>2. PICK j \in DOMAIN q : i + 1 < j /\ q[j] = g
        BY <2>1, QueueTail DEF Before
    <2>3. i \in Nat /\ j \in Nat
        BY <2>1, <2>2, QueueTail
    <2>4. j - 1 \in DOMAIN Tail(q) /\ Tail(q)[j - 1] = g
        BY <2>1, <2>2, <2>3, QueueTail
    <2>5. i < j - 1
        BY <2>2, <2>3
    <2> QED BY <2>4, <2>5
<1>2. ASSUME Head(q) = f PROVE In(Tail(q), g)
    <2>1. PICK j \in DOMAIN q : 1 < j /\ q[j] = g
        BY <1>2, QueueTail DEF Before
    <2>2. j - 1 \in DOMAIN Tail(q) /\ Tail(q)[j - 1] = g
        BY <2>1, QueueTail
    <2> QED BY <2>2 DEF In
<1> QED BY <1>1, <1>2

LEMMA AfterAppend ==
    ASSUME NEW S, NEW q \in Seq(S), NEW h \in S, NEW f, NEW g, After(q, f, g),
           h # g \/ In(q, f)
    PROVE  After(Append(q, h), f, g)
<1>1. SUFFICES ASSUME NEW j \in DOMAIN Append(q, h), Append(q, h)[j] = g
               PROVE  \E i \in DOMAIN Append(q, h) : i < j /\ Append(q, h)[i] = f
    BY DEF After
<1>2. CASE j \in DOMAIN q
    BY <1>1, <1>2, QueueAppend DEF After
<1>3. CASE j = Len(q) + 1
    <2>1. In(q, f)
        BY <1>1, <1>3, QueueAppend
    <2>2. \A i \in DOMAIN q : i < Len(q) + 1
        OBVIOUS
    <2> QED BY <1>3, <2>1, <2>2, QueueAppend DEF In
<1> QED BY <1>2, <1>3, QueueAppend

LEMMA AfterTail ==
    ASSUME NEW S, NEW q \in Seq(S), q # <<>>, NEW f, NEW g, After(q, f, g)
    PROVE  Head(q) # g /\ (Head(q) # f => After(Tail(q), f, g))
<1>1. Head(q) # g
    <2>1. ~ \E i \in DOMAIN q : i < 1
        OBVIOUS
    <2> QED BY <2>1, QueueTail DEF After
<1>2. ASSUME Head(q) # f PROVE After(Tail(q), f, g)
    <2>1. SUFFICES ASSUME NEW j \in DOMAIN Tail(q), Tail(q)[j] = g
                   PROVE  \E i \in DOMAIN Tail(q) : i < j /\ Tail(q)[i] = f
        BY DEF After
    <2>2. PICK i \in DOMAIN q : i < j + 1 /\ q[i] = f
        BY <2>1, QueueTail DEF After
    <2>3. i - 1 \in DOMAIN Tail(q) /\ Tail(q)[i - 1] = f
        BY <2>2, <1>2, QueueTail
    <2>4. i - 1 < j
        BY <2>2, <2>1, QueueTail
    <2> QED BY <2>3, <2>4
<1> QED BY <1>1, <1>2

LEMMA OnceAppend ==
    ASSUME NEW S, NEW q \in Seq(S), NEW h \in S, NEW f, Once(q, f),
           h # f \/ ~In(q, f)
    PROVE  Once(Append(q, h), f)
BY QueueAppend, SMT DEF Once, In

LEMMA OnceTail ==
    ASSUME NEW S, NEW q \in Seq(S), q # <<>>, NEW f, Once(q, f)
    PROVE  Once(Tail(q), f) /\ (Head(q) = f => ~In(Tail(q), f))
<1>1. \A i \in DOMAIN Tail(q) : i \in Nat /\ i > 0
    BY QueueTail
<1>2. Once(Tail(q), f)
    BY <1>1, QueueTail, SMT DEF Once
<1>3. Head(q) = f => ~In(Tail(q), f)
    BY <1>1, QueueTail, SMT DEF Once, In
<1> QED BY <1>2, <1>3

-----------------------------------------------------------------------------
(* Types, and what the parts of a step do to the loops. *)

LoopsTyped(ls) ==
    /\ ls \in [Loops -> LoopType]
    /\ \A l \in Loops : ls[l].pass <= Len(ls[l].queue)

\* Only a queue has changed.
Like(a, b) == a.pc = b.pc /\ a.batch = b.batch /\ a.pass = b.pass /\ a.held = b.held

LEMMA PostEffect ==
    ASSUME NEW ls, LoopsTyped(ls), NEW l \in Loops, NEW f \in FunctorType
    PROVE  /\ LoopsTyped(Post(ls, l, f))
           /\ \A m \in Loops :
                 /\ Like(Post(ls, l, f)[m], ls[m])
                 /\ m # l => Post(ls, l, f)[m].queue = ls[m].queue
           /\ Post(ls, l, f)[l].queue = Append(ls[l].queue, f)
<1>1. /\ ls[l] \in LoopType /\ ls[l].queue \in Seq(FunctorType) /\ ls[l].pass \in Nat
      /\ ls[l].pass <= Len(ls[l].queue)
    BY DEF LoopsTyped, LoopType, FunctorType
<1>2. Append(ls[l].queue, f) \in Seq(FunctorType)
      /\ Len(Append(ls[l].queue, f)) = Len(ls[l].queue) + 1
    BY <1>1, QueueAppend
<1> DEFINE q == Append(ls[l].queue, f)
           r == [ls[l] EXCEPT !.queue = q]
<1>3. Post(ls, l, f) = [ls EXCEPT ![l] = r]
    BY DEF Post
<1>4. /\ r \in LoopType /\ r.queue = q /\ r.pass = ls[l].pass
      /\ Like(r, ls[l]) /\ Len(q) = Len(ls[l].queue) + 1
    <2> HIDE DEF q
    <2> QED BY <1>1, <1>2 DEF LoopType, FunctorType, Like, q
<1> HIDE DEF r
<1>5. /\ \A m \in Loops \ {l} : Post(ls, l, f)[m] = ls[m]
      /\ Post(ls, l, f)[l] = r /\ Post(ls, l, f) \in [Loops -> LoopType]
    BY <1>3, <1>4 DEF LoopsTyped
<1>6. \A m \in Loops : Like(ls[m], ls[m])
    BY DEF Like
<1>7. r.pass <= Len(r.queue)
    BY <1>1, <1>4
<1>8. LoopsTyped(Post(ls, l, f))
    BY <1>5, <1>7 DEF LoopsTyped
<1> QED BY <1>4, <1>5, <1>6, <1>8

LEMMA HandledEffect ==
    ASSUME LoopsTyped(loops), NEW l \in Loops, NEW c
    PROVE  /\ LoopsTyped(Handled(l, c))
           /\ \A m \in Loops :
                 /\ Handled(l, c)[m].pc = loops[m].pc
                 /\ Handled(l, c)[m].queue = loops[m].queue
                 /\ Handled(l, c)[m].held = loops[m].held
                 /\ Handled(l, c)[m].pass = loops[m].pass
                 /\ m # l => Handled(l, c)[m].batch = loops[m].batch
           /\ Handled(l, c)[l].batch = loops[l].batch \ {c}
BY DEF LoopsTyped, LoopType, Handled

LEMMA CalledEffect ==
    ASSUME LoopsTyped(loops), NEW l \in Loops, loops[l].pass > 0
    PROVE  /\ Queue(l) \in Seq(FunctorType) /\ Queue(l) # <<>>
           /\ Head(Queue(l)) \in FunctorType /\ Current(l) \in Conns
           /\ LoopsTyped(Called(l))
           /\ \A m \in Loops :
                 /\ Called(l)[m].pc = loops[m].pc
                 /\ Called(l)[m].batch = loops[m].batch
                 /\ m # l => /\ Called(l)[m].queue = loops[m].queue
                             /\ Called(l)[m].held = loops[m].held
                             /\ Called(l)[m].pass = loops[m].pass
           /\ Called(l)[l].queue = Tail(Queue(l))
           /\ Called(l)[l].held = loops[l].held \cup {Current(l)}
           /\ Called(l)[l].pass = loops[l].pass - 1
<1>1. /\ loops[l] \in LoopType /\ Queue(l) \in Seq(FunctorType) /\ loops[l].pass \in Nat
      /\ loops[l].pass <= Len(Queue(l))
    BY DEF LoopsTyped, LoopType, FunctorType, Queue
<1>2. Queue(l) # <<>>
    BY <1>1
<1>3. /\ Head(Queue(l)) \in FunctorType /\ Tail(Queue(l)) \in Seq(FunctorType)
      /\ Len(Tail(Queue(l))) = Len(Queue(l)) - 1
    BY <1>1, <1>2, QueueTail
<1>4. Current(l) \in Conns
    BY <1>3 DEF Current, Queue, FunctorType
<1> DEFINE q == Tail(Queue(l))
           h == loops[l].held \cup {Current(l)}
           n == loops[l].pass - 1
<1>5. /\ q \in Seq(FunctorType) /\ Len(q) = Len(Queue(l)) - 1
      /\ h \subseteq Conns /\ n \in Nat /\ n <= Len(q)
    BY <1>1, <1>3, <1>4 DEF LoopType
<1>6. Called(l) = [loops EXCEPT ![l] = [loops[l] EXCEPT !.queue = q, !.pass = n, !.held = h]]
    BY DEF Called, Queue
<1> HIDE DEF q, h, n
<1>7. [loops[l] EXCEPT !.queue = q, !.pass = n, !.held = h] \in LoopType
    BY <1>1, <1>5 DEF LoopType, FunctorType
<1>8. LoopsTyped(Called(l))
    BY <1>1, <1>5, <1>6, <1>7, ZenonT(40) DEF LoopsTyped, LoopType
<1>9. loops \in [Loops -> LoopType]
    BY DEF LoopsTyped
<1>10. /\ \A m \in Loops :
             /\ Called(l)[m].pc = loops[m].pc
             /\ Called(l)[m].batch = loops[m].batch
             /\ m # l => Called(l)[m] = loops[m]
       /\ Called(l)[l].queue = q /\ Called(l)[l].held = h /\ Called(l)[l].pass = n
    BY <1>1, <1>6, <1>9 DEF LoopType
<1> QED BY <1>1, <1>2, <1>3, <1>4, <1>8, <1>10 DEF q, h, n

LEMMA PollerTyped ==
    ASSUME NEW p \in PollerType, NEW c \in Chans, NEW fd \in Fds, NEW e \in Events
    PROVE  /\ Enable(p, c, fd, e) \in PollerType
           /\ DisableAll(p, c, fd) \in PollerType
           /\ RemoveChannel(p, c, fd) \in PollerType
           /\ CloseFd(p, fd) \in PollerType
<1>1. ASSUME NEW r \in PollerType PROVE UpdateChannel(r, c, fd) \in PollerType
    BY <1>1 DEF PollerType, UpdateChannel, CtlAdd, CtlMod, CtlDel, Fail, Indexes, Failures
<1>2. /\ [p EXCEPT !.events[c] = @ \cup {e}] \in PollerType
      /\ [p EXCEPT !.events[c] = {}] \in PollerType
    BY DEF PollerType
<1>3. RemoveChannel(p, c, fd) \in PollerType
    BY DEF PollerType, RemoveChannel, CtlDel, Fail, Indexes, Failures
<1>4. CloseFd(p, fd) \in PollerType
    BY DEF PollerType, CloseFd, CtlDel
<1> QED BY <1>1, <1>2, <1>3, <1>4 DEF Enable, DisableAll

LEMMA CallBackTyped ==
    ASSUME NEW now \in {"none", "up", "down", "wrong"}, NEW e \in {"up", "down", "message"}
    PROVE  /\ CallBack(now, e) \in {"none", "up", "down", "wrong"}
           /\ CallBack(now, e) # "none"
           /\ now \in {"down", "wrong"} \/ e = "down" => CallBack(now, e) \in {"down", "wrong"}
           /\ CallBack(now, e) = "up" => e = "up" \/ now = "up"
BY DEF CallBack

LEMMA ConstantFacts ==
    /\ base \in Loops /\ acceptor \in Chans /\ listenFd \in Fds
    /\ Conns \subseteq Chans /\ Conns \subseteq Nat /\ acceptor \notin Conns
    /\ NoChan \notin Chans
    /\ \A c \in Conns : c \in Chans
    /\ \A n \in ThreadNums : n \in 0 .. Len(IOLoops)
    /\ IOLoops \in Seq(Loops \ {base})
<1>1. Conns \subseteq Nat
    BY ServerAssumption, SMT DEF Conns
<1>2. IOLoops \in Seq(Loops \ {base})
    BY ServerAssumption, SMT DEF Loops
<1> QED BY <1>1, <1>2, ServerAssumption, PollerAssumption DEF Loops, Conns

LEMMA PoolTyped ==
    ASSUME NEW n \in ThreadNums \cup {0}
    PROVE  /\ SubSeq(IOLoops, 1, n) \in Seq(Loops \ {base})
           /\ Len(SubSeq(IOLoops, 1, n)) = n /\ n \in Nat
           /\ n = 0 => SubSeq(IOLoops, 1, n) = <<>>
<1>1. n \in 0 .. Len(IOLoops) /\ IOLoops \in Seq(Loops \ {base}) /\ Len(IOLoops) \in Nat
    BY ConstantFacts, SMT
<1> QED BY <1>1

LEMMA PoolFacts ==
    ASSUME TypeOK
    PROVE  /\ pool \in Seq(Loops \ {base}) /\ base \notin Pool /\ Pool \subseteq Loops
           /\ pool # <<>> => pool[next] \in Pool /\ next \in DOMAIN pool
                             /\ NextIndex(next) \in DOMAIN pool
<1>1. PICK n \in ThreadNums \cup {0} : pool = SubSeq(IOLoops, 1, n)
    BY DEF TypeOK
<1>2. pool \in Seq(Loops \ {base}) /\ Len(pool) \in Nat
    BY <1>1, PoolTyped
<1>3. ASSUME pool # <<>> PROVE next \in DOMAIN pool /\ NextIndex(next) \in DOMAIN pool
    <2>1. DOMAIN pool = 1 .. Len(pool) /\ Len(pool) > 0
        BY <1>2, <1>3
    <2>2. next \in DOMAIN pool
        BY <1>2, <2>1 DEF TypeOK
    <2>3. next % Len(pool) \in 0 .. Len(pool) - 1
        BY <1>2, <2>1, <2>2
    <2> QED BY <1>2, <2>1, <2>2, <2>3 DEF NextIndex
<1> QED BY <1>2, <1>3 DEF Pool

LEMMA TypedLoops == TypeOK => LoopsTyped(loops)
BY DEF TypeOK, LoopsTyped

LEMMA FunctorTyped ==
    ASSUME NEW c \in Conns
    PROVE  /\ ToEstablish(c) \in FunctorType /\ ToDestroy(c) \in FunctorType
           /\ ToRemove(c) \in FunctorType
           /\ Functor("connectEstablished", c) \in FunctorType
           /\ Functor("connectDestroyed", c) \in FunctorType
           /\ Functor("removeConnectionInLoop", c) \in FunctorType
BY DEF ToEstablish, ToDestroy, ToRemove, Functor, FunctorType, Calls

LEMMA TypeInit == Init => TypeOK
<1> SUFFICES ASSUME Init PROVE TypeOK
    OBVIOUS
<1>1. conns \in [Conns -> ConnType]
    BY ConstantFacts DEF Init, ConnType, States
<1>2. LoopsTyped(loops)
    <2>1. <<>> \in Seq([call : Calls, conn : Conns]) /\ Len(<<>>) = 0
        OBVIOUS
    <2>2. [pc |-> "check", batch |-> {}, queue |-> <<>>, pass |-> 0, held |-> {}] \in LoopType
        BY <2>1 DEF LoopType
    <2> QED BY <2>1, <2>2 DEF Init, LoopsTyped
<1>3. pollers \in [Loops -> PollerType]
    BY DEF Init, EmptyPoller, PollerType, Indexes, Failures
<1>4. \E n \in ThreadNums \cup {0} : pool = SubSeq(IOLoops, 1, n)
    BY PoolTyped DEF Init
<1> QED BY <1>1, <1>2, <1>3, <1>4 DEF Init, TypeOK, LoopsTyped

LEMMA DownTyped ==
    ASSUME TypeOK, NEW c \in Conns
    PROVE  [conns EXCEPT ![c].state = "kDisconnected", ![c].callbacks = CallBack(@, "down")]
              \in [Conns -> ConnType]
<1> DEFINE k == CallBack(conns[c].callbacks, "down")
<1>1. k \in {"none", "up", "down", "wrong"} /\ conns[c] \in ConnType
    BY CallBackTyped DEF TypeOK, ConnType
<1>2. [conns EXCEPT ![c].state = "kDisconnected", ![c].callbacks = CallBack(@, "down")]
      = [conns EXCEPT ![c] = [conns[c] EXCEPT !.state = "kDisconnected", !.callbacks = k]]
    BY DEF TypeOK, ConnType
<1> HIDE DEF k
<1>3. [conns[c] EXCEPT !.state = "kDisconnected", !.callbacks = k] \in ConnType
    BY <1>1 DEF ConnType, States
<1> QED BY <1>2, <1>3 DEF TypeOK

LEMMA DestroyTyped ==
    ASSUME TypeOK, NEW c \in Conns, NEW l \in Loops, Destroy(c, l)
    PROVE  conns' \in [Conns -> ConnType] /\ pollers' \in [Loops -> PollerType]
<1>1. conns' \in [Conns -> ConnType]
    BY DownTyped DEF Destroy, TypeOK
<1>2. pollers' \in [Loops -> PollerType]
    <2>1. /\ pollers \in [Loops -> PollerType] /\ pollers[l] \in PollerType
          /\ conns[c].fd \in Fds /\ c \in Chans
        BY ConstantFacts DEF TypeOK, ConnType
    <2> DEFINE q == IF StillUp(c) THEN DisableAll(pollers[l], c, conns[c].fd) ELSE pollers[l]
    <2>2. q \in PollerType
        BY <2>1, PollerTyped DEF Events
    <2>3. RemoveChannel(q, c, conns[c].fd) \in PollerType
        BY <2>1, <2>2, PollerTyped DEF Events
    <2>4. pollers' = [pollers EXCEPT ![l] = IF q.failed = "none"
                                            THEN RemoveChannel(q, c, conns[c].fd) ELSE q]
        BY Zenon DEF Destroy
    <2> HIDE DEF q
    <2> QED BY <2>1, <2>2, <2>3, <2>4
<1> QED BY <1>1, <1>2

LEMMA EstablishTyped ==
    ASSUME NEW cs \in [Conns -> ConnType], NEW ps \in [Loops -> PollerType],
           NEW c \in Conns, NEW l \in Loops, Establish(c, l, cs, ps)
    PROVE  conns' \in [Conns -> ConnType] /\ pollers' \in [Loops -> PollerType]
<1>1. CallBack(cs[c].callbacks, "up") \in {"none", "up", "down", "wrong"}
    BY CallBackTyped DEF ConnType
<1>2. Enable(ps[l], c, cs[c].fd, "IN") \in PollerType
    BY PollerTyped, ConstantFacts DEF ConnType, Events
<1> QED BY <1>1, <1>2, ZenonT(40) DEF Establish, ConnType, States

LEMMA RemoveTyped ==
    ASSUME TypeOK, NEW ls, LoopsTyped(ls), NEW c \in Conns,
           RemoveConnectionInLoop(c, ls)
    PROVE  LoopsTyped(loops') /\ connections' \subseteq Conns
BY PostEffect, FunctorTyped DEF RemoveConnectionInLoop, TypeOK, ConnType

LEMMA HandleCloseTyped ==
    ASSUME TypeOK, NEW ls, LoopsTyped(ls), NEW c \in Conns, NEW l \in Loops,
           HandleClose(c, l, ls)
    PROVE  /\ conns' \in [Conns -> ConnType] /\ pollers' \in [Loops -> PollerType]
           /\ LoopsTyped(loops') /\ connections' \subseteq Conns
<1>1. conns' \in [Conns -> ConnType]
    BY DownTyped DEF HandleClose
<1>2. pollers' \in [Loops -> PollerType]
    <2>1. DisableAll(pollers[l], c, conns[c].fd) \in PollerType
        BY PollerTyped, ConstantFacts DEF TypeOK, ConnType, Events
    <2> QED BY <2>1 DEF HandleClose, TypeOK
<1>3. LoopsTyped(loops') /\ connections' \subseteq Conns
    <2>1. CASE l = base
        BY <2>1, RemoveTyped DEF HandleClose, RemoveConnection
    <2>2. CASE l # base
        BY <2>2, PostEffect, FunctorTyped, ConstantFacts
        DEF HandleClose, RemoveConnection, TypeOK
    <2> QED BY <2>1, <2>2
<1> QED BY <1>1, <1>2, <1>3

LEMMA TypeStep == TypeOK /\ Stages /\ [Next]_svars => TypeOK'
<1> SUFFICES ASSUME TypeOK, Stages, [Next]_svars PROVE TypeOK'
    OBVIOUS
<1> USE ConstantFacts
<1>1. LoopsTyped(loops) /\ \A l \in Loops : loops[l] \in LoopType
    BY TypedLoops DEF TypeOK
<1> DEFINE Rest == UNCHANGED <<quits, pool, next, server, uses>>
<1>2. ASSUME NEW n \in ThreadNums, Start(n) PROVE TypeOK'
    <2>1. Enable(pollers[base], acceptor, listenFd, "IN") \in PollerType
        BY PollerTyped DEF TypeOK, Events
    <2>2. pollers' \in [Loops -> PollerType]
        BY <1>2, <2>1 DEF Start, TypeOK
    <2>3. next = 1
        <3>1. pool = <<>>
            BY <1>2 DEF Start, Stages
        <3> QED BY <3>1 DEF TypeOK
    <2> QED BY <1>2, <2>2, <2>3 DEF Start, TypeOK
<1>3. ASSUME QuitBase PROVE TypeOK'
    BY <1>3 DEF QuitBase, TypeOK
<1>4. ASSUME NEW c \in Conns, DtorConnection(c) PROVE TypeOK'
    <2>1. CASE conns[c].loop = base
        BY <1>4, <2>1, DestroyTyped DEF DtorConnection, TypeOK
    <2>2. CASE conns[c].loop # base
        <3>1. LoopsTyped(loops')
            BY <1>1, <1>4, <2>2, PostEffect, FunctorTyped DEF DtorConnection, TypeOK, ConnType
        <3> QED BY <1>4, <2>2, <3>1 DEF DtorConnection, TypeOK, LoopsTyped
    <2> QED BY <2>1, <2>2
<1>5. ASSUME NEW i \in DOMAIN pool, DtorThread(i) PROVE TypeOK'
    <2>1. pool[i] \in Loops
        BY <1>5, PoolFacts DEF Pool
    <2> QED BY <1>5, <2>1 DEF DtorThread, TypeOK
<1>6. ASSUME DtorAcceptor PROVE TypeOK'
    <2>1. pollers' \in [Loops -> PollerType]
        <3> DEFINE quiet == DisableAll(pollers[base], acceptor, listenFd)
        <3>1. quiet \in PollerType
            BY PollerTyped DEF TypeOK, Events
        <3>2. RemoveChannel(quiet, acceptor, listenFd) \in PollerType
            BY <3>1, PollerTyped DEF Events
        <3>3. pollers' = [pollers EXCEPT ![base] = RemoveChannel(quiet, acceptor, listenFd)]
            BY <1>6 DEF DtorAcceptor
        <3> HIDE DEF quiet
        <3> QED BY <3>2, <3>3 DEF TypeOK
    <2>2. loops[base].pass = 0
        BY <1>1, <1>6 DEF DtorAcceptor, Destroying, Stages, LoopType
    <2>3. LoopsTyped(loops')
        <3>1. <<>> \in Seq([call : Calls, conn : Conns]) /\ Len(<<>>) = 0
            OBVIOUS
        <3>2. /\ [loops[base] EXCEPT !.queue = <<>>] \in LoopType
              /\ [loops[base] EXCEPT !.queue = <<>>].pass = 0
              /\ [loops[base] EXCEPT !.queue = <<>>].queue = <<>>
            BY <1>1, <2>2, <3>1 DEF LoopType
        <3>3. loops' = [loops EXCEPT ![base] = [loops[base] EXCEPT !.queue = <<>>]]
            BY <1>6 DEF DtorAcceptor
        <3> QED BY <1>1, <3>1, <3>2, <3>3 DEF LoopsTyped
    <2> QED BY <1>6, <2>1, <2>3 DEF DtorAcceptor, TypeOK, LoopsTyped
<1>7. ASSUME NEW l \in Loops, CheckQuit(l) PROVE TypeOK'
    <2>1. LoopsTyped(loops')
        <3>1. <<>> \in Seq([call : Calls, conn : Conns]) /\ Len(<<>>) = 0
            OBVIOUS
        <3>2. loops[l].pass = 0
            BY <1>1, <1>7 DEF CheckQuit, At, Stages, LoopType
        <3> DEFINE on == [loops[l] EXCEPT !.pc = "polling"]
                   off == [loops[l] EXCEPT !.pc = "stopped",
                                           !.queue = IF l = base THEN @ ELSE <<>>]
        <3>3. /\ on \in LoopType /\ off \in LoopType /\ on.pass = 0 /\ off.pass = 0
              /\ on.queue \in Seq(FunctorType) /\ off.queue \in Seq(FunctorType)
            BY <1>1, <3>1, <3>2 DEF LoopType, FunctorType
        <3>4. loops' = [loops EXCEPT ![l] = on] \/ loops' = [loops EXCEPT ![l] = off]
            BY <1>1, <1>7 DEF CheckQuit, LoopsTyped
        <3> HIDE DEF on, off
        <3>5. on.pass <= Len(on.queue) /\ off.pass <= Len(off.queue)
            BY <3>3, SMT
        <3> QED BY <1>1, <3>3, <3>4, <3>5 DEF LoopsTyped
    <2> QED BY <1>7, <2>1 DEF CheckQuit, TypeOK, LoopsTyped
<1>8. ASSUME NEW l \in Loops, Poll(l) PROVE TypeOK'
    <2>1. PICK B \in SUBSET Registered(l) :
              loops' = [loops EXCEPT ![l].pc = "dispatch", ![l].batch = B]
        BY <1>8 DEF Poll
    <2>2. B \subseteq Chans
        BY <2>1 DEF Registered
    <2>3. LoopsTyped(loops')
        BY <1>1, <2>1, <2>2, ZenonT(40) DEF LoopsTyped, LoopType
    <2> QED BY <1>8, <2>3 DEF Poll, TypeOK, LoopsTyped
<1>9. ASSUME NEW c \in Conns, NEW fd \in Fds, NewConnection(c, fd) PROVE TypeOK'
    <2> DEFINE loop == IF pool = <<>> THEN base ELSE pool[next]
               cs == [conns EXCEPT ![c] = [@ EXCEPT !.state = "kConnecting", !.loop = loop,
                                                    !.fd = fd]]
               ps == [m \in Loops |-> CloseFd(pollers[m], fd)]
    <2>1. loop \in Loops /\ (pool # <<>> => NextIndex(next) \in DOMAIN pool)
        BY PoolFacts
    <2>2. cs \in [Conns -> ConnType]
        <3> HIDE DEF loop
        <3> QED BY <2>1, ZenonT(40) DEF TypeOK, ConnType, States
    <2>3. ps \in [Loops -> PollerType]
        BY PollerTyped DEF TypeOK, Events
    <2>4. LoopsTyped(Handled(base, acceptor))
        BY <1>1, HandledEffect
    <2>5. /\ conns' \in [Conns -> ConnType] /\ pollers' \in [Loops -> PollerType]
          /\ LoopsTyped(loops')
        <3>1. CASE loop = base
            <4>1. Establish(c, base, cs, ps) /\ loops' = Handled(base, acceptor)
                BY <1>9, <3>1, Zenon DEF NewConnection
            <4> HIDE DEF loop, cs, ps
            <4> QED BY <2>2, <2>3, <2>4, <4>1, EstablishTyped
        <3>2. CASE loop # base
            <4>1. /\ loops' = Post(Handled(base, acceptor), loop, Functor("connectEstablished", c))
                  /\ conns' = cs /\ pollers' = ps
                BY <1>9, <3>2, Zenon DEF NewConnection
            <4> HIDE DEF loop, cs, ps
            <4> QED BY <2>1, <2>2, <2>3, <2>4, <4>1, PostEffect, FunctorTyped
        <3> QED BY <3>1, <3>2
    <2>6. /\ connections' = connections \cup {c} /\ UNCHANGED <<quits, pool, server, uses>>
          /\ next' = IF pool = <<>> THEN next ELSE NextIndex(next)
        BY <1>9, Zenon DEF NewConnection
    <2> HIDE DEF loop, cs, ps
    <2> QED BY <2>1, <2>5, <2>6 DEF TypeOK, LoopsTyped
<1>10. ASSUME AcceptFails PROVE TypeOK'
    BY <1>1, <1>10, HandledEffect DEF AcceptFails, TypeOK, LoopsTyped
<1>11. ASSUME NEW l \in Loops, NEW c \in Conns, NEW shut \in BOOLEAN, Message(l, c, shut)
       PROVE  TypeOK'
    <2> DEFINE k == CallBack(conns[c].callbacks, "message")
               s == IF shut THEN "kDisconnecting" ELSE conns[c].state
    <2>1. k \in {"none", "up", "down", "wrong"} /\ s \in States /\ conns[c] \in ConnType
        BY CallBackTyped DEF TypeOK, ConnType, States
    <2>2. conns' = [conns EXCEPT ![c] = [conns[c] EXCEPT !.state = s, !.callbacks = k]]
        BY <1>11 DEF Message, TypeOK, ConnType
    <2> HIDE DEF k, s
    <2>3. [conns[c] EXCEPT !.state = s, !.callbacks = k] \in ConnType
        BY <2>1 DEF ConnType
    <2>4. conns' \in [Conns -> ConnType]
        BY <2>2, <2>3 DEF TypeOK
    <2> QED BY <1>1, <1>11, <2>4, HandledEffect DEF Message, TypeOK, LoopsTyped
<1>12. ASSUME NEW l \in Loops, NEW c \in Conns, NEW d \in Conns,
              MessageClosesOther(l, c, d)
       PROVE  TypeOK'
    <2>1. LoopsTyped(Handled(l, c))
        BY <1>1, HandledEffect
    <2>2. HandleClose(d, l, Handled(l, c)) /\ UNCHANGED <<quits, pool, next, server, uses>>
        BY <1>12 DEF MessageClosesOther
    <2> QED BY <2>1, <2>2, HandleCloseTyped DEF TypeOK, LoopsTyped
<1>13. ASSUME NEW l \in Loops, NEW c \in Conns, PeerIsGone(l, c) PROVE TypeOK'
    <2>1. LoopsTyped(Handled(l, c))
        BY <1>1, HandledEffect
    <2>2. HandleClose(c, l, Handled(l, c)) /\ UNCHANGED <<quits, pool, next, server, uses>>
        BY <1>13 DEF PeerIsGone
    <2> QED BY <2>1, <2>2, HandleCloseTyped DEF TypeOK, LoopsTyped
<1>14. ASSUME NEW l \in Loops, DoPendingFunctors(l) PROVE TypeOK'
    <2>1. Len(loops[l].queue) \in Nat
        BY <1>1 DEF LoopType
    <2>2. LoopsTyped(loops')
        <3> DEFINE n == Len(loops[l].queue)
                   r == [loops[l] EXCEPT !.pc = "calling", !.pass = n]
        <3>1. r \in LoopType /\ r.pass <= Len(r.queue)
            <4> HIDE DEF n
            <4>1. r \in LoopType /\ r.pass = n /\ r.queue = loops[l].queue
                BY <1>1, <2>1 DEF LoopType, n
            <4> QED BY <2>1, <4>1 DEF n
        <3>2. loops' = [loops EXCEPT ![l] = r]
            BY <1>14 DEF DoPendingFunctors
        <3> HIDE DEF r
        <3> QED BY <1>1, <3>1, <3>2 DEF LoopsTyped
    <2> QED BY <1>14, <2>2 DEF DoPendingFunctors, TypeOK, LoopsTyped
<1>15. ASSUME NEW l \in Loops, RunEstablished(l) PROVE TypeOK'
    <2>1. Current(l) \in Conns /\ LoopsTyped(Called(l))
        BY <1>1, <1>15, CalledEffect DEF RunEstablished, Calling
    <2>2. conns' \in [Conns -> ConnType] /\ pollers' \in [Loops -> PollerType]
        BY <1>15, <2>1, EstablishTyped DEF RunEstablished, TypeOK
    <2> QED BY <1>15, <2>1, <2>2 DEF RunEstablished, TypeOK, LoopsTyped
<1>16. ASSUME NEW l \in Loops, RunDestroyed(l) PROVE TypeOK'
    <2>1. Current(l) \in Conns /\ LoopsTyped(Called(l))
        BY <1>1, <1>16, CalledEffect DEF RunDestroyed, Calling
    <2>2. conns' \in [Conns -> ConnType] /\ pollers' \in [Loops -> PollerType]
        BY <1>16, <2>1, DestroyTyped DEF RunDestroyed
    <2> QED BY <1>16, <2>1, <2>2 DEF RunDestroyed, TypeOK, LoopsTyped
<1>17. ASSUME NEW l \in Loops, RunRemove(l) PROVE TypeOK'
    <2>1. Current(l) \in Conns /\ LoopsTyped(Called(l))
        BY <1>1, <1>17, CalledEffect DEF RunRemove, Calling
    <2>2. LoopsTyped(loops') /\ connections' \subseteq Conns
        BY <1>17, <2>1, RemoveTyped DEF RunRemove
    <2> QED BY <1>17, <2>2 DEF RunRemove, TypeOK, LoopsTyped
<1>18. ASSUME NEW l \in Loops, FunctorsDone(l) PROVE TypeOK'
    <2>1. LoopsTyped(loops')
        BY <1>1, <1>18, ZenonT(40) DEF FunctorsDone, LoopsTyped, LoopType
    <2> QED BY <1>18, <2>1 DEF FunctorsDone, TypeOK, LoopsTyped
<1>19. ASSUME NEW c \in Conns, PeerCloses(c) PROVE TypeOK'
    BY <1>19 DEF PeerCloses, TypeOK, ConnType
<1>20. CASE UNCHANGED svars
    BY <1>20 DEF svars, TypeOK
<1> QED
    BY <1>2, <1>3, <1>4, <1>5, <1>6, <1>7, <1>8, <1>9, <1>10, <1>11, <1>12, <1>13, <1>14,
       <1>15, <1>16, <1>17, <1>18, <1>19, <1>20
    DEF Next, LoopSteps, AcceptSteps, DtorSteps

-----------------------------------------------------------------------------
(* What each step does, field by field. *)

\* A functor is queued on l; the oldest of l is taken; and no queue changes.
Posted(l, f) ==
    /\ Queue(l)' = Append(Queue(l), f)
    /\ \A m \in Loops \ {l} : Queue(m)' = Queue(m)
Taken(l) ==
    /\ Queue(l)' = Tail(Queue(l))
    /\ \A m \in Loops \ {l} : Queue(m)' = Queue(m)
SameQueues == \A m \in Loops : Queue(m)' = Queue(m)

\* The loops stay where they are, and so do their passes.
SamePlaces ==
    \A m \in Loops :
        /\ loops'[m].pc = loops[m].pc /\ loops'[m].pass = loops[m].pass
        /\ loops'[m].held = loops[m].held
SameBatches == \A m \in Loops : loops'[m].batch = loops[m].batch
HandledIn(l, x) ==
    /\ loops'[l].batch = loops[l].batch \ {x}
    /\ \A m \in Loops \ {l} : loops'[m].batch = loops[m].batch

\* The other connections are left alone, and this one where it is.
Stays(c) == conns'[c].loop = conns[c].loop /\ conns'[c].fd = conns[c].fd
SameConns(cs) == \A d \in Conns \ cs : conns'[d] = conns[d]

LEMMA DownDoes ==
    ASSUME TypeOK, NEW c \in Conns,
           conns' = [conns EXCEPT ![c].state = "kDisconnected",
                                  ![c].callbacks = CallBack(@, "down")]
    PROVE  /\ conns'[c].state = "kDisconnected" /\ conns'[c].callbacks \in {"down", "wrong"}
           /\ conns'[c].peer = conns[c].peer
           /\ Stays(c) /\ SameConns({c})
<1> DEFINE k == CallBack(conns[c].callbacks, "down")
<1>1. k \in {"down", "wrong"}
    BY CallBackTyped DEF TypeOK, ConnType
<1>2. conns' = [conns EXCEPT ![c] = [conns[c] EXCEPT !.state = "kDisconnected", !.callbacks = k]]
    BY DEF TypeOK, ConnType
<1> DEFINE r == [conns[c] EXCEPT !.state = "kDisconnected", !.callbacks = k]
<1>3. /\ r.state = "kDisconnected" /\ r.callbacks = k /\ r.loop = conns[c].loop
      /\ r.fd = conns[c].fd /\ r.peer = conns[c].peer
    <2> HIDE DEF k
    <2>1. conns[c] \in ConnType
        BY DEF TypeOK
    <2> QED BY <2>1 DEF ConnType
<1>4. conns' = [conns EXCEPT ![c] = r]
    BY <1>2
<1> HIDE DEF k, r
<1> QED BY <1>1, <1>3, <1>4 DEF TypeOK, Stays, SameConns

LEMMA HandledPosted ==
    ASSUME LoopsTyped(loops), NEW l \in Loops, NEW e, NEW m \in Loops, NEW f \in FunctorType,
           loops' = Post(Handled(l, e), m, f)
    PROVE  SamePlaces /\ HandledIn(l, e) /\ Posted(m, f)
<1> DEFINE ls == Handled(l, e)
<1>1. LoopsTyped(ls)
    BY HandledEffect
<1>2. /\ \A n \in Loops : /\ Like(loops'[n], ls[n])
                          /\ n # m => loops'[n].queue = ls[n].queue
      /\ loops'[m].queue = Append(ls[m].queue, f)
    <2> HIDE DEF ls
    <2> QED BY <1>1, PostEffect DEF ls
<1>3. /\ \A n \in Loops :
            /\ ls[n].pc = loops[n].pc /\ ls[n].queue = loops[n].queue
            /\ ls[n].held = loops[n].held /\ ls[n].pass = loops[n].pass
            /\ n # l => ls[n].batch = loops[n].batch
      /\ ls[l].batch = loops[l].batch \ {e}
    BY HandledEffect
<1> HIDE DEF ls
<1>4. SamePlaces
    BY <1>2, <1>3 DEF SamePlaces, Like
<1>5. HandledIn(l, e)
    BY <1>2, <1>3 DEF HandledIn, Like
<1>6. Posted(m, f)
    BY <1>2, <1>3 DEF Posted, Queue
<1> QED BY <1>4, <1>5, <1>6

LEMMA QueuePosted ==
    ASSUME LoopsTyped(loops), NEW m \in Loops, NEW f \in FunctorType,
           loops' = Post(loops, m, f)
    PROVE  SamePlaces /\ SameBatches /\ Posted(m, f)
<1>1. /\ \A n \in Loops : /\ Like(loops'[n], loops[n])
                          /\ n # m => loops'[n].queue = loops[n].queue
      /\ loops'[m].queue = Append(loops[m].queue, f)
    BY PostEffect
<1> QED BY <1>1 DEF SamePlaces, SameBatches, Posted, Queue, Like

LEMMA CloseDoes ==
    ASSUME TypeOK, NEW c \in Conns, NEW l \in Loops, NEW e, HandleClose(c, l, Handled(l, e))
    PROVE  /\ SamePlaces /\ HandledIn(l, e)
           /\ conns'[c].state = "kDisconnected" /\ conns'[c].callbacks \in {"down", "wrong"}
           /\ Stays(c) /\ SameConns({c})
           /\ pollers' = [pollers EXCEPT ![l] = DisableAll(@, c, conns[c].fd)]
           /\ l = base => connections' = connections \ {c} /\ Posted(Home(c), ToDestroy(c))
           /\ l # base => connections' = connections /\ Posted(base, ToRemove(c))
<1>1. /\ LoopsTyped(loops) /\ LoopsTyped(Handled(l, e)) /\ Home(c) \in Loops /\ base \in Loops
      /\ ToDestroy(c) \in FunctorType /\ ToRemove(c) \in FunctorType
    BY TypedLoops, HandledEffect, ConstantFacts, FunctorTyped DEF TypeOK, ConnType, Home
<1>2. CASE l = base
    <2>1. loops' = Post(Handled(l, e), Home(c), ToDestroy(c)) /\ connections' = connections \ {c}
        BY <1>2 DEF HandleClose, RemoveConnection, RemoveConnectionInLoop, Home, ToDestroy
    <2>2. SamePlaces /\ HandledIn(l, e) /\ Posted(Home(c), ToDestroy(c))
        BY <1>1, <2>1, HandledPosted
    <2> QED BY <1>2, <2>1, <2>2, DownDoes DEF HandleClose
<1>3. CASE l # base
    <2>1. loops' = Post(Handled(l, e), base, ToRemove(c)) /\ connections' = connections
        BY <1>3 DEF HandleClose, RemoveConnection, ToRemove
    <2>2. SamePlaces /\ HandledIn(l, e) /\ Posted(base, ToRemove(c))
        BY <1>1, <2>1, HandledPosted
    <2> QED BY <1>3, <2>1, <2>2, DownDoes DEF HandleClose
<1> QED BY <1>2, <1>3

\* Both ways in which a connection is closed while events are handled.
Closes(l, e, c) ==
    /\ Event(l, e) /\ e \in Conns /\ Alive(c) /\ c \in Conns
    /\ \/ e = c
       \/ "sendToOther" \in uses /\ conns[c].state = "kConnected" /\ Home(c) = l
    /\ HandleClose(c, l, Handled(l, e))
    /\ UNCHANGED <<quits, pool, next, server, uses>>

LEMMA ClosingSteps ==
    ASSUME NEW l \in Loops, NEW c \in Conns, NEW d \in Conns
    PROVE  /\ PeerIsGone(l, c) => Closes(l, c, c)
           /\ MessageClosesOther(l, c, d) => Closes(l, c, d)
BY DEF PeerIsGone, MessageClosesOther, Closes, Home

LEMMA TakenEffect ==
    ASSUME LoopsTyped(loops), NEW l \in Loops, loops[l].pass > 0, loops' = Called(l)
    PROVE  /\ \A m \in Loops : loops'[m].pc = loops[m].pc
           /\ SameBatches /\ Taken(l)
           /\ loops'[l].held = loops[l].held \cup {Current(l)}
           /\ loops'[l].pass = loops[l].pass - 1
           /\ \A m \in Loops \ {l} :
                 loops'[m].pass = loops[m].pass /\ loops'[m].held = loops[m].held
BY CalledEffect DEF SameBatches, Taken, Queue

\* connectEstablished() and connectDestroyed().
LEMMA EstablishDoes ==
    ASSUME NEW cs \in [Conns -> ConnType], NEW ps \in [Loops -> PollerType],
           NEW c \in Conns, NEW l \in Loops, Establish(c, l, cs, ps)
    PROVE  /\ conns'[c].state = "kConnected" /\ conns'[c].callbacks # "none"
           /\ cs[c].callbacks \in {"down", "wrong"} => conns'[c].callbacks \in {"down", "wrong"}
           /\ conns'[c].loop = cs[c].loop /\ conns'[c].fd = cs[c].fd
           /\ conns'[c].peer = cs[c].peer
           /\ \A d \in Conns \ {c} : conns'[d] = cs[d]
           /\ pollers' = [ps EXCEPT ![l] = Enable(@, c, cs[c].fd, "IN")]
<1> DEFINE k == CallBack(cs[c].callbacks, "up")
<1>1. k # "none" /\ (cs[c].callbacks \in {"down", "wrong"} => k \in {"down", "wrong"})
    BY CallBackTyped DEF ConnType
<1>2. conns' = [cs EXCEPT ![c] = [cs[c] EXCEPT !.state = "kConnected", !.callbacks = k]]
    BY DEF Establish, ConnType
<1> DEFINE r == [cs[c] EXCEPT !.state = "kConnected", !.callbacks = k]
<1>3. /\ r.state = "kConnected" /\ r.callbacks = k /\ r.loop = cs[c].loop
      /\ r.fd = cs[c].fd /\ r.peer = cs[c].peer
    <2> HIDE DEF k
    <2> QED BY DEF ConnType
<1>4. conns' = [cs EXCEPT ![c] = r]
    BY <1>2
<1> HIDE DEF k, r
<1> QED BY <1>1, <1>3, <1>4 DEF Establish

LEMMA DestroyDoes ==
    ASSUME TypeOK, NEW c \in Conns, NEW l \in Loops, Destroy(c, l)
    PROVE  /\ conns'[c].state \in {conns[c].state, "kDisconnected"}
           /\ conns'[c].state # "kConnected"
           /\ conns'[c].callbacks \in {conns[c].callbacks, "down", "wrong"}
           /\ conns'[c].state = "none" <=> conns[c].state = "none"
           /\ Stays(c) /\ SameConns({c})
<1>1. CASE StillUp(c)
    BY <1>1, DownDoes DEF Destroy, StillUp
<1>2. CASE ~StillUp(c)
    BY <1>2 DEF Destroy, StillUp, Stays, SameConns
<1> QED BY <1>1, <1>2

LEMMA MessageDoes ==
    ASSUME TypeOK, NEW l \in Loops, NEW c \in Conns, NEW shut \in BOOLEAN, Message(l, c, shut)
    PROVE  /\ SamePlaces /\ HandledIn(l, c) /\ SameQueues
           /\ \/ conns'[c].state = conns[c].state
              \/ conns'[c].state = "kDisconnecting" /\ "shutdown" \in uses
           /\ conns'[c].callbacks # "none"
           /\ conns[c].callbacks \in {"down", "wrong"} =>
                 conns'[c].callbacks \in {"down", "wrong"}
           /\ Stays(c) /\ SameConns({c})
           /\ UNCHANGED <<connections, quits, pollers, pool, next, server, uses>>
<1> DEFINE k == CallBack(conns[c].callbacks, "message")
           s == IF shut THEN "kDisconnecting" ELSE conns[c].state
<1>1. k # "none" /\ (conns[c].callbacks \in {"down", "wrong"} => k \in {"down", "wrong"})
    BY CallBackTyped DEF TypeOK, ConnType
<1>2. conns' = [conns EXCEPT ![c] = [conns[c] EXCEPT !.state = s, !.callbacks = k]]
    BY DEF Message, TypeOK, ConnType
<1>3. s = conns[c].state \/ (s = "kDisconnecting" /\ "shutdown" \in uses)
    <2>1. shut => "shutdown" \in uses
        BY DEF Message
    <2>2. CASE shut
        BY <2>1, <2>2
    <2>3. CASE ~shut
        BY <2>3
    <2> QED BY <2>2, <2>3
<1> DEFINE r == [conns[c] EXCEPT !.state = s, !.callbacks = k]
<1>4. r.state = s /\ r.callbacks = k /\ r.loop = conns[c].loop /\ r.fd = conns[c].fd
    <2> HIDE DEF k, s
    <2>1. conns[c] \in ConnType
        BY DEF TypeOK
    <2> QED BY <2>1 DEF ConnType
<1>5. conns' = [conns EXCEPT ![c] = r]
    BY <1>2
<1> HIDE DEF k, s, r
<1>6. Stays(c) /\ SameConns({c}) /\ conns'[c] = r
    BY <1>4, <1>5 DEF TypeOK, Stays, SameConns
<1>7. SamePlaces /\ HandledIn(l, c) /\ SameQueues
    BY TypedLoops, HandledEffect DEF Message, SamePlaces, HandledIn, SameQueues, Queue
<1> QED BY <1>1, <1>3, <1>4, <1>6, <1>7 DEF Message

\* removeConnectionInLoop(): the oldest functor of l is taken, then one is queued on m.
TakenPosted(l, m, f) ==
    \A n \in Loops :
        Queue(n)' = IF n = m
                    THEN IF n = l THEN Append(Tail(Queue(l)), f) ELSE Append(Queue(n), f)
                    ELSE IF n = l THEN Tail(Queue(l)) ELSE Queue(n)

LEMMA QueueTyped ==
    ASSUME LoopsTyped(loops), NEW l \in Loops PROVE Queue(l) \in Seq(FunctorType)
BY DEF LoopsTyped, LoopType, FunctorType, Queue

LEMMA PostedIn ==
    ASSUME LoopsTyped(loops), NEW l \in Loops, NEW f \in FunctorType, Posted(l, f),
           NEW m \in Loops, NEW g
    PROVE  In(Queue(m)', g) <=> In(Queue(m), g) \/ (m = l /\ g = f)
<1>1. CASE m = l
    <2>1. In(Append(Queue(l), f), g) <=> In(Queue(l), g) \/ g = f
        BY QueueTyped, InAppend
    <2> QED BY <1>1, <2>1 DEF Posted
<1>2. CASE m # l
    BY <1>2 DEF Posted
<1> QED BY <1>1, <1>2

LEMMA TakenIn ==
    ASSUME LoopsTyped(loops), NEW l \in Loops, Queue(l) # <<>>, Taken(l), NEW m \in Loops, NEW g
    PROVE  In(Queue(m), g) <=> In(Queue(m)', g) \/ (m = l /\ g = Head(Queue(l)))
<1>1. CASE m = l
    <2>1. In(Queue(l), g) <=> g = Head(Queue(l)) \/ In(Tail(Queue(l)), g)
        BY QueueTyped, InTail
    <2> QED BY <1>1, <2>1 DEF Taken
<1>2. CASE m # l
    BY <1>2 DEF Taken
<1> QED BY <1>1, <1>2

LEMMA TakenPostedIn ==
    ASSUME LoopsTyped(loops), NEW l \in Loops, Queue(l) # <<>>,
           NEW k \in Loops, NEW f \in FunctorType, TakenPosted(l, k, f),
           NEW m \in Loops, NEW g
    PROVE  /\ In(Queue(m), g) => In(Queue(m)', g) \/ (m = l /\ g = Head(Queue(l)))
           /\ In(Queue(m)', g) => In(Queue(m), g) \/ (m = k /\ g = f)
           /\ m = k /\ g = f => In(Queue(m)', g)
<1>1. In(Queue(l), g) <=> g = Head(Queue(l)) \/ In(Tail(Queue(l)), g)
    BY QueueTyped, InTail
<1>2. In(Append(Queue(m), f), g) <=> In(Queue(m), g) \/ g = f
    BY QueueTyped, InAppend
<1>3. In(Append(Tail(Queue(l)), f), g) <=> In(Tail(Queue(l)), g) \/ g = f
    <2>1. Tail(Queue(l)) \in Seq(FunctorType)
        BY QueueTyped, QueueTail
    <2> QED BY <2>1, InAppend
<1> QED BY <1>1, <1>2, <1>3 DEF TakenPosted

LEMMA NewConnectionDoes ==
    ASSUME TypeOK, NEW c \in Conns, NEW fd \in Fds, NewConnection(c, fd)
    PROVE  LET loop == IF pool = <<>> THEN base ELSE pool[next]
               ps == [m \in Loops |-> CloseFd(pollers[m], fd)]
           IN
           /\ loop \in {base} \cup Pool /\ loop \in Loops
           /\ ps \in [Loops -> PollerType]
           /\ Event(base, acceptor) /\ ~Created(c) /\ Free(fd)
           /\ connections' = connections \cup {c}
           /\ conns'[c].loop = loop /\ conns'[c].fd = fd /\ SameConns({c})
           /\ SamePlaces /\ HandledIn(base, acceptor)
           /\ loop = base =>
                 /\ SameQueues
                 /\ conns'[c].state = "kConnected" /\ conns'[c].callbacks # "none"
                 /\ pollers' = [ps EXCEPT ![base] = Enable(@, c, fd, "IN")]
           /\ loop # base =>
                 /\ Posted(loop, ToEstablish(c))
                 /\ conns'[c].state = "kConnecting"
                 /\ conns'[c].callbacks = conns[c].callbacks
                 /\ pollers' = ps
           /\ UNCHANGED <<quits, pool, server, uses>>
<1> DEFINE loop == IF pool = <<>> THEN base ELSE pool[next]
           cs == [conns EXCEPT ![c] = [@ EXCEPT !.state = "kConnecting", !.loop = loop,
                                                !.fd = fd]]
           ps == [m \in Loops |-> CloseFd(pollers[m], fd)]
<1>1. /\ loop \in {base} \cup Pool /\ loop \in Loops
    BY PoolFacts, ConstantFacts
<1>2. ps \in [Loops -> PollerType]
    BY PollerTyped, ConstantFacts DEF TypeOK, Events
<1>3. /\ Event(base, acceptor) /\ ~Created(c) /\ Free(fd)
      /\ connections' = connections \cup {c}
      /\ UNCHANGED <<quits, pool, server, uses>>
    BY DEF NewConnection, Lowest
<1>4. /\ cs \in [Conns -> ConnType]
      /\ cs[c].state = "kConnecting" /\ cs[c].loop = loop /\ cs[c].fd = fd
      /\ cs[c].callbacks = conns[c].callbacks
      /\ \A d \in Conns \ {c} : cs[d] = conns[d]
    <2> DEFINE r == [conns[c] EXCEPT !.state = "kConnecting", !.loop = loop, !.fd = fd]
    <2>1. /\ r \in ConnType /\ r.state = "kConnecting" /\ r.loop = loop /\ r.fd = fd
          /\ r.callbacks = conns[c].callbacks
        <3> HIDE DEF loop
        <3>1. conns[c] \in ConnType
            BY DEF TypeOK
        <3> QED BY <1>1, <3>1 DEF ConnType, States
    <2>2. cs = [conns EXCEPT ![c] = r]
        OBVIOUS
    <2> HIDE DEF r, cs
    <2> QED BY <2>1, <2>2 DEF TypeOK
<1>5. LoopsTyped(loops)
    BY TypedLoops
<1>6. CASE loop = base
    <2>1. Establish(c, base, cs, ps) /\ loops' = Handled(base, acceptor)
        BY <1>6, Zenon DEF NewConnection
    <2>2. SamePlaces /\ HandledIn(base, acceptor) /\ SameQueues
        BY <1>5, <2>1, HandledEffect, ConstantFacts
        DEF SamePlaces, HandledIn, SameQueues, Queue
    <2> HIDE DEF loop, cs, ps
    <2>3. /\ conns'[c].state = "kConnected" /\ conns'[c].callbacks # "none"
          /\ conns'[c].loop = cs[c].loop /\ conns'[c].fd = cs[c].fd
          /\ \A d \in Conns \ {c} : conns'[d] = cs[d]
          /\ pollers' = [ps EXCEPT ![base] = Enable(@, c, cs[c].fd, "IN")]
        BY <2>1, <1>2, <1>4, EstablishDoes, ConstantFacts
    <2>4. conns'[c].loop = loop /\ conns'[c].fd = fd /\ SameConns({c})
        BY <2>3, <1>4 DEF SameConns
    <2>5. pollers' = [ps EXCEPT ![base] = Enable(@, c, fd, "IN")]
        BY <2>3, <1>4
    <2> QED BY <1>1, <1>2, <1>3, <1>6, <2>2, <2>3, <2>4, <2>5 DEF loop, ps
<1>7. CASE loop # base
    <2>1. /\ loops' = Post(Handled(base, acceptor), loop, ToEstablish(c))
          /\ conns' = cs /\ pollers' = ps
        BY <1>7, Zenon DEF NewConnection, ToEstablish
    <2> HIDE DEF loop, cs, ps
    <2>2. SamePlaces /\ HandledIn(base, acceptor) /\ Posted(loop, ToEstablish(c))
        BY <1>1, <1>5, <2>1, HandledPosted, FunctorTyped, ConstantFacts
    <2>3. SameConns({c})
        BY <2>1, <1>4 DEF SameConns
    <2> QED BY <1>1, <1>2, <1>3, <1>4, <1>7, <2>1, <2>2, <2>3 DEF loop, ps
<1> QED BY <1>6, <1>7

LEMMA RunEstablishedDoes ==
    ASSUME TypeOK, NEW l \in Loops, RunEstablished(l)
    PROVE  LET c == Current(l) IN
           /\ Calling(l, "connectEstablished")
           /\ Queue(l) # <<>> /\ Head(Queue(l)) = ToEstablish(c) /\ c \in Conns
           /\ conns'[c].state = "kConnected" /\ conns'[c].callbacks # "none"
           /\ conns[c].callbacks \in {"down", "wrong"} =>
                 conns'[c].callbacks \in {"down", "wrong"}
           /\ Stays(c) /\ SameConns({c})
           /\ pollers' = [pollers EXCEPT ![l] = Enable(@, c, conns[c].fd, "IN")]
           /\ loops' = Called(l) /\ loops[l].pass > 0
           /\ UNCHANGED <<connections, quits, pool, next, server, uses>>
<1> DEFINE c == Current(l)
<1>1. /\ Queue(l) # <<>> /\ Head(Queue(l)) \in FunctorType /\ c \in Conns
      /\ Head(Queue(l)).call = "connectEstablished" /\ Head(Queue(l)).conn = c
    BY TypedLoops, CalledEffect DEF RunEstablished, Calling, Current, Queue
<1>2. Head(Queue(l)) = ToEstablish(c)
    BY <1>1 DEF FunctorType, ToEstablish, Functor
<1>3. /\ Calling(l, "connectEstablished") /\ loops' = Called(l) /\ loops[l].pass > 0
      /\ UNCHANGED <<connections, quits, pool, next, server, uses>>
      /\ Establish(c, l, conns, pollers)
    BY DEF RunEstablished, Calling
<1> HIDE DEF c
<1>4. /\ conns'[c].state = "kConnected" /\ conns'[c].callbacks # "none"
      /\ conns[c].callbacks \in {"down", "wrong"} => conns'[c].callbacks \in {"down", "wrong"}
      /\ conns'[c].loop = conns[c].loop /\ conns'[c].fd = conns[c].fd
      /\ \A d \in Conns \ {c} : conns'[d] = conns[d]
      /\ pollers' = [pollers EXCEPT ![l] = Enable(@, c, conns[c].fd, "IN")]
    BY <1>1, <1>3, EstablishDoes DEF TypeOK
<1> QED BY <1>1, <1>2, <1>3, <1>4 DEF c, Stays, SameConns

LEMMA RunDestroyedDoes ==
    ASSUME TypeOK, NEW l \in Loops, RunDestroyed(l)
    PROVE  LET c == Current(l) IN
           /\ Calling(l, "connectDestroyed")
           /\ Queue(l) # <<>> /\ Head(Queue(l)) = ToDestroy(c) /\ c \in Conns
           /\ Destroy(c, l)
           /\ loops' = Called(l) /\ loops[l].pass > 0
           /\ UNCHANGED <<connections, quits, pool, next, server, uses>>
<1> DEFINE c == Current(l)
<1>1. /\ Queue(l) # <<>> /\ Head(Queue(l)) \in FunctorType /\ c \in Conns
      /\ Head(Queue(l)).call = "connectDestroyed" /\ Head(Queue(l)).conn = c
    BY TypedLoops, CalledEffect DEF RunDestroyed, Calling, Current, Queue
<1>2. Head(Queue(l)) = ToDestroy(c)
    BY <1>1 DEF FunctorType, ToDestroy, Functor
<1> QED BY <1>1, <1>2 DEF RunDestroyed, Calling

LEMMA RunRemoveDoes ==
    ASSUME TypeOK, NEW l \in Loops, RunRemove(l)
    PROVE  LET c == Current(l) IN
           /\ Calling(l, "removeConnectionInLoop")
           /\ Queue(l) # <<>> /\ Head(Queue(l)) = ToRemove(c) /\ c \in Conns
           /\ connections' = connections \ {c}
           /\ TakenPosted(l, Home(c), ToDestroy(c)) /\ Home(c) \in Loops
           /\ \A m \in Loops : /\ loops'[m].pc = loops[m].pc
                               /\ loops'[m].pass <= loops[m].pass
                               /\ m # l => loops'[m].held = loops[m].held
           /\ loops'[l].held = loops[l].held \cup {c}
           /\ SameBatches
           /\ UNCHANGED <<conns, quits, pollers, pool, next, server, uses>>
<1> DEFINE c == Current(l)
<1>1. /\ Queue(l) # <<>> /\ Head(Queue(l)) \in FunctorType /\ c \in Conns
      /\ Head(Queue(l)).call = "removeConnectionInLoop" /\ Head(Queue(l)).conn = c
    BY TypedLoops, CalledEffect DEF RunRemove, Calling, Current, Queue
<1>2. Head(Queue(l)) = ToRemove(c)
    BY <1>1 DEF FunctorType, ToRemove, Functor
<1>3. LoopsTyped(loops) /\ Home(c) \in Loops /\ ToDestroy(c) \in FunctorType
    BY <1>1, TypedLoops, FunctorTyped DEF TypeOK, ConnType, Home
<1> DEFINE ls == Called(l)
<1>4. loops' = Post(ls, Home(c), ToDestroy(c)) /\ loops[l].pass > 0
    BY DEF RunRemove, RemoveConnectionInLoop, Home, ToDestroy, Calling
<1>5. /\ LoopsTyped(ls)
      /\ \A m \in Loops :
            /\ ls[m].pc = loops[m].pc /\ ls[m].batch = loops[m].batch
            /\ m # l => /\ ls[m].queue = loops[m].queue /\ ls[m].held = loops[m].held
                        /\ ls[m].pass = loops[m].pass
      /\ ls[l].queue = Tail(Queue(l)) /\ ls[l].held = loops[l].held \cup {c}
      /\ ls[l].pass = loops[l].pass - 1
    BY <1>3, <1>4, CalledEffect
<1>6. \A m \in Loops : loops[m].pass \in Nat
    BY <1>3 DEF LoopsTyped, LoopType
<1> HIDE DEF ls, c
<1>7. /\ \A m \in Loops : /\ Like(loops'[m], ls[m])
                          /\ m # Home(c) => loops'[m].queue = ls[m].queue
      /\ loops'[Home(c)].queue = Append(ls[Home(c)].queue, ToDestroy(c))
    BY <1>3, <1>4, <1>5, PostEffect
<1>8. TakenPosted(l, Home(c), ToDestroy(c))
    BY <1>3, <1>5, <1>7 DEF TakenPosted, Queue
<1>9. /\ \A m \in Loops : /\ loops'[m].pc = loops[m].pc
                          /\ loops'[m].pass <= loops[m].pass
                          /\ m # l => loops'[m].held = loops[m].held
      /\ loops'[l].held = loops[l].held \cup {c} /\ SameBatches
    BY <1>5, <1>6, <1>7 DEF Like, SameBatches
<1>10. /\ Calling(l, "removeConnectionInLoop") /\ connections' = connections \ {c}
       /\ UNCHANGED <<conns, quits, pollers, pool, next, server, uses>>
    BY DEF RunRemove, RemoveConnectionInLoop, c
<1> QED BY <1>1, <1>2, <1>3, <1>8, <1>9, <1>10 DEF c

LEMMA DtorConnectionDoes ==
    ASSUME TypeOK, NEW c \in Conns, DtorConnection(c)
    PROVE  /\ Destroying /\ c \in connections /\ connections' = connections \ {c}
           /\ SamePlaces /\ SameBatches
           /\ Home(c) = base => Destroy(c, base) /\ SameQueues
           /\ Home(c) # base => /\ Posted(Home(c), ToDestroy(c))
                                /\ UNCHANGED <<conns, pollers>>
           /\ UNCHANGED <<quits, pool, next, server, uses>>
<1>1. LoopsTyped(loops) /\ Home(c) \in Loops /\ ToDestroy(c) \in FunctorType
    BY TypedLoops, FunctorTyped DEF TypeOK, ConnType, Home
<1>2. CASE Home(c) = base
    BY <1>2 DEF DtorConnection, Home, SamePlaces, SameBatches, SameQueues, Queue
<1>3. CASE Home(c) # base
    <2>1. loops' = Post(loops, Home(c), ToDestroy(c))
        BY <1>3 DEF DtorConnection, Home, ToDestroy
    <2>2. SamePlaces /\ SameBatches /\ Posted(Home(c), ToDestroy(c))
        BY <1>1, <2>1, QueuePosted
    <2> QED BY <1>3, <2>2 DEF DtorConnection, Home
<1> QED BY <1>2, <1>3

\* The other steps of a loop change its place, and no connection.
Moves(l) == CheckQuit(l) \/ Poll(l) \/ DoPendingFunctors(l) \/ FunctorsDone(l)

LEMMA MovesDoes ==
    ASSUME TypeOK, NEW l \in Loops, Moves(l)
    PROVE  /\ server # "new" /\ Running
           /\ \A m \in Loops \ {l} : loops'[m] = loops[m]
           /\ ~Stopped(l) /\ loops'[l].held \subseteq loops[l].held
           /\ Stopped(l)' <=> CheckQuit(l) /\ l \in quits
           /\ Queue(l)' = Queue(l) \/ (CheckQuit(l) /\ l \in quits /\ l # base /\ Queue(l)' = <<>>)
           /\ loops'[l].batch = loops[l].batch \/ Poll(l)
           /\ Poll(l) => loops'[l].pc = "dispatch" /\ loops'[l].batch \subseteq Registered(l)
                         /\ loops'[l].pass = loops[l].pass /\ loops[l].pc = "polling"
           /\ CheckQuit(l) => loops[l].pc = "check" /\ loops'[l].pass = loops[l].pass
           /\ DoPendingFunctors(l) => loops[l].batch = {} /\ loops'[l].pc = "calling"
           /\ FunctorsDone(l) => loops[l].pc = "calling" /\ loops'[l].pass = 0
           /\ UNCHANGED <<conns, connections, quits, pollers, pool, next, server, uses>>
<1>1. loops \in [Loops -> LoopType] /\ loops[l] \in LoopType
    BY DEF TypeOK
<1>2. CASE CheckQuit(l)
    <2>1. CASE l \notin quits
        BY <1>1, <1>2, <2>1 DEF CheckQuit, At, Stopped, Queue, LoopType, Poll,
                                DoPendingFunctors, FunctorsDone, Moves
    <2>2. CASE l \in quits
        <3> DEFINE q == IF l = base THEN Queue(l) ELSE <<>>
        <3>1. loops' = [loops EXCEPT ![l] = [loops[l] EXCEPT !.pc = "stopped", !.queue = q]]
            BY <1>1, <1>2, <2>2 DEF CheckQuit, Queue
        <3>2. q = Queue(l) \/ (l # base /\ q = <<>>)
            OBVIOUS
        <3> HIDE DEF q
        <3>3. /\ Queue(l)' = q /\ loops'[l].pc = "stopped" /\ loops'[l].pass = loops[l].pass
              /\ loops'[l].held = loops[l].held /\ loops'[l].batch = loops[l].batch
              /\ \A m \in Loops \ {l} : loops'[m] = loops[m]
            BY <1>1, <3>1 DEF LoopType, Queue
        <3> QED BY <1>1, <1>2, <2>2, <3>2, <3>3 DEF CheckQuit, At, Stopped, Poll,
                                DoPendingFunctors, FunctorsDone, Moves
    <2> QED BY <2>1, <2>2
<1>3. CASE Poll(l)
    <2>1. PICK B \in SUBSET Registered(l) :
              loops' = [loops EXCEPT ![l].pc = "dispatch", ![l].batch = B]
        BY <1>3 DEF Poll
    <2> QED BY <1>1, <1>3, <2>1 DEF Poll, CheckQuit, At, Stopped, Queue, LoopType,
                                DoPendingFunctors, FunctorsDone
<1>4. CASE DoPendingFunctors(l)
    BY <1>1, <1>4 DEF Poll, CheckQuit, At, Stopped, Queue, LoopType,
                      DoPendingFunctors, FunctorsDone
<1>5. CASE FunctorsDone(l)
    BY <1>1, <1>5 DEF Poll, CheckQuit, At, Stopped, Queue, LoopType,
                      DoPendingFunctors, FunctorsDone
<1> QED BY <1>2, <1>3, <1>4, <1>5 DEF Moves

-----------------------------------------------------------------------------
(* Stages, pointers, and the map. *)

LEMMA StagesKept ==
    ASSUME TypeOK, Stages, server' # "new", quits' = quits,
           \A m \in Loops : /\ loops'[m].pc = loops[m].pc
                            /\ loops'[m].batch \subseteq loops[m].batch
                            /\ loops'[m].pass > 0 => loops[m].pass > 0
    PROVE  Stages'
<1>1. \A m \in Loops : Stopped(m)' <=> Stopped(m)
    BY DEF Stopped
<1>2. /\ Stopped(base)' => base \in quits'
      /\ \A m \in Loops \ {base} : m \in quits' \/ Stopped(m)' => Stopped(base)'
    BY <1>1, ConstantFacts DEF Stages
<1>3. \A m \in Loops : /\ loops'[m].batch # {} => loops'[m].pc = "dispatch"
                       /\ loops'[m].pass > 0 => loops'[m].pc = "calling"
    BY DEF Stages
<1> QED BY <1>2, <1>3 DEF Stages

LEMMA StagesInit == Init => Stages
<1> SUFFICES ASSUME Init PROVE Stages
    OBVIOUS
<1>1. \A c \in Conns : ~Created(c)
    BY DEF Init, Created
<1>2. \A l \in Loops : /\ ~Stopped(l) /\ Queue(l) = <<>>
                       /\ loops[l].batch = {} /\ ~(loops[l].pass > 0)
    BY DEF Init, Stopped, Queue
<1> QED BY <1>1, <1>2, ConstantFacts DEF Init, Stages

LEMMA StagesStep == TypeOK /\ Stages /\ [Next]_svars => Stages'
<1> SUFFICES ASSUME TypeOK, Stages, [Next]_svars PROVE Stages'
    OBVIOUS
<1> USE ConstantFacts
<1>1. LoopsTyped(loops) /\ \A l \in Loops : loops[l] \in LoopType /\ loops[l].pass \in Nat
    BY TypedLoops DEF TypeOK, LoopType
<1>2. ASSUME NEW n \in ThreadNums, Start(n) PROVE Stages'
    BY <1>2 DEF Start, Stages, Stopped
<1>3. ASSUME QuitBase PROVE Stages'
    BY <1>3 DEF QuitBase, Stages, Stopped
<1>4. ASSUME NEW c \in Conns, DtorConnection(c) PROVE Stages'
    BY <1>4, DtorConnectionDoes, StagesKept DEF SamePlaces, SameBatches, Destroying
<1>5. ASSUME NEW i \in DOMAIN pool, DtorThread(i) PROVE Stages'
    BY <1>5 DEF DtorThread, Destroying, Stages, Stopped
<1>6. ASSUME DtorAcceptor PROVE Stages'
    <2>1. \A m \in Loops : /\ loops'[m].pc = loops[m].pc /\ loops'[m].pass = loops[m].pass
                           /\ loops'[m].batch = loops[m].batch
        BY <1>1, <1>6 DEF DtorAcceptor, LoopsTyped, LoopType
    <2> QED BY <1>6, <2>1, StagesKept DEF DtorAcceptor
<1>7. ASSUME NEW l \in Loops, Moves(l) PROVE Stages'
    <2>1. server' # "new" /\ Stopped(base) => base \in quits
        BY <1>7, MovesDoes DEF Stages
    <2>2. \A m \in Loops : Stopped(m) => Stopped(m)'
        BY <1>7, MovesDoes DEF Stopped
    <2>3. \A m \in Loops : Stopped(m)' => Stopped(m) \/ m \in quits
        BY <1>7, MovesDoes DEF Stopped
    <2>4. \A m \in Loops \ {base} : m \in quits' \/ Stopped(m)' => Stopped(base)'
        BY <1>7, MovesDoes, <2>2, <2>3 DEF Stages
    <2>5. /\ loops'[l].batch # {} => loops'[l].pc = "dispatch"
          /\ loops'[l].pass > 0 => loops'[l].pc = "calling"
        BY <1>1, <1>7, MovesDoes DEF Stages, Moves
    <2>6. Stopped(base)' => base \in quits'
        BY <1>7, MovesDoes, <2>3, <2>1 DEF Stages
    <2>7. \A m \in Loops : /\ loops'[m].batch # {} => loops'[m].pc = "dispatch"
                           /\ loops'[m].pass > 0 => loops'[m].pc = "calling"
        BY <1>7, MovesDoes, <2>5 DEF Stages
    <2>8. server' # "new"
        BY <1>7, MovesDoes
    <2> QED BY <2>4, <2>6, <2>7, <2>8 DEF Stages
<1>8. ASSUME NEW c \in Conns, NEW fd \in Fds, NewConnection(c, fd) PROVE Stages'
    <2>1. /\ SamePlaces /\ HandledIn(base, acceptor) /\ server' = server /\ quits' = quits
          /\ Event(base, acceptor)
        BY <1>8, NewConnectionDoes
    <2> QED BY <2>1, StagesKept DEF SamePlaces, HandledIn, Event, At
<1>9. ASSUME AcceptFails PROVE Stages'
    BY <1>1, <1>9, HandledEffect, StagesKept DEF AcceptFails, Event, At
<1>10. ASSUME NEW l \in Loops, NEW c \in Conns, NEW shut \in BOOLEAN, Message(l, c, shut)
       PROVE  Stages'
    BY <1>10, MessageDoes, StagesKept, ZenonT(40) DEF SamePlaces, HandledIn, Message, Event, At
<1>11. ASSUME NEW l \in Loops, NEW c \in Conns, NEW d \in Conns, Closes(l, c, d)
       PROVE  Stages'
    BY <1>11, CloseDoes, StagesKept DEF SamePlaces, HandledIn, Closes, Event, At
<1>12. ASSUME NEW l \in Loops, RunEstablished(l) \/ RunDestroyed(l) PROVE Stages'
    <2>1. /\ loops' = Called(l) /\ loops[l].pass > 0 /\ server' # "new" /\ quits' = quits
        BY <1>12, RunEstablishedDoes, RunDestroyedDoes DEF Calling, At
    <2> QED BY <1>1, <2>1, TakenEffect, StagesKept DEF SameBatches
<1>13. ASSUME NEW l \in Loops, RunRemove(l) PROVE Stages'
    <2>1. /\ \A m \in Loops : loops'[m].pc = loops[m].pc /\ loops'[m].pass <= loops[m].pass
          /\ SameBatches /\ server' # "new" /\ quits' = quits
        BY <1>13, RunRemoveDoes DEF Calling, At
    <2>2. \A m \in Loops : loops'[m].pass > 0 => loops[m].pass > 0
        <3>1. TypeOK'
            BY TypeStep
        <3>2. \A m \in Loops : loops'[m].pass \in Nat
            BY <3>1 DEF TypeOK, LoopType
        <3> QED BY <1>1, <2>1, <3>2
    <2> QED BY <2>1, <2>2, StagesKept DEF SameBatches
<1>14. ASSUME NEW c \in Conns, PeerCloses(c) PROVE Stages'
    <2>1. server # "new"
        BY <1>14 DEF PeerCloses, Alive, Stages
    <2> QED BY <1>14, <2>1, StagesKept DEF PeerCloses
<1>15. CASE UNCHANGED svars
    BY <1>15 DEF svars, Stages, Created, Stopped, Queue
<1> QED
    BY <1>2, <1>3, <1>4, <1>5, <1>6, <1>7, <1>8, <1>9, <1>10, <1>11, <1>12, <1>13, <1>14,
       <1>15, ClosingSteps
    DEF Next, LoopSteps, AcceptSteps, DtorSteps, Moves

\* No connection is made, and none is moved.
Placed == \A d \in Conns : (Created(d)' <=> Created(d)) /\ Stays(d)

LEMMA SentFunctors ==
    ASSUME NEW c \in Conns, Created(c)
    PROVE  /\ Sent(Home(c), ToEstablish(c)) /\ Sent(Home(c), ToDestroy(c))
           /\ Sent(base, ToRemove(c))
           /\ \A l : Sent(l, ToDestroy(c)) \/ Sent(l, ToEstablish(c)) => l = Home(c)
           /\ \A l : Sent(l, ToRemove(c)) => l = base
BY DEF Sent, ToEstablish, ToDestroy, ToRemove, Functor

LEMMA HeadIn ==
    ASSUME LoopsTyped(loops), NEW l \in Loops, Queue(l) # <<>>
    PROVE  In(Queue(l), Head(Queue(l)))
BY QueueTyped, InTail

\* What is alive, or queued, has been created.
LEMMA QueuedIsCreated ==
    ASSUME TypeOK, Pointers, NEW l \in Loops, NEW c \in Conns,
           In(Queue(l), ToEstablish(c)) \/ In(Queue(l), ToDestroy(c)) \/ In(Queue(l), ToRemove(c))
    PROVE  Created(c)
BY FunctorTyped DEF Pointers, Sent, ToEstablish, ToDestroy, ToRemove, Functor

LEMMA DestroyPlaces ==
    ASSUME TypeOK, NEW c \in Conns, NEW l \in Loops, Destroy(c, l) PROVE Placed
BY DestroyDoes DEF Placed, Created, SameConns, Stays

LEMMA PlacedStep ==
    ASSUME TypeOK, Pointers, [Next]_svars,
           \A c \in Conns : \A fd \in Fds : ~NewConnection(c, fd)
    PROVE  Placed
<1>1. ASSUME UNCHANGED conns PROVE Placed
    BY <1>1 DEF Placed, Created, Stays
<1>2. ASSUME NEW l \in Loops, NEW c \in Conns, NEW d \in Conns, Closes(l, c, d) PROVE Placed
    BY <1>2, CloseDoes DEF Placed, Created, SameConns, Stays, Closes, Alive
<1>3. ASSUME NEW l \in Loops, NEW c \in Conns, NEW shut \in BOOLEAN, Message(l, c, shut)
      PROVE  Placed
    <2>1. Created(c) /\ Created(c)'
        BY <1>3, MessageDoes DEF Created, Message, Alive
    <2> QED BY <1>3, <2>1, MessageDoes DEF Placed, Created, SameConns, Stays
<1>4. ASSUME NEW l \in Loops, RunEstablished(l) PROVE Placed
    <2>1. Created(Current(l))
        BY <1>4, RunEstablishedDoes, HeadIn, TypedLoops, QueuedIsCreated
    <2> QED BY <1>4, <2>1, RunEstablishedDoes DEF Placed, Created, SameConns, Stays
<1>5. ASSUME NEW l \in Loops, RunDestroyed(l) PROVE Placed
    BY <1>5, RunDestroyedDoes, DestroyPlaces
<1>6. ASSUME NEW c \in Conns, DtorConnection(c) PROVE Placed
    BY <1>1, <1>6, DtorConnectionDoes, DestroyPlaces, ConstantFacts
<1>7. ASSUME NEW c \in Conns, PeerCloses(c) PROVE Placed
    BY <1>7 DEF PeerCloses, Placed, Created, Stays, TypeOK, ConnType
<1>8. ASSUME NEW n \in ThreadNums, Start(n) PROVE Placed
    BY <1>8, <1>1 DEF Start
<1>9. ASSUME QuitBase \/ (\E i \in DOMAIN pool : DtorThread(i)) \/ DtorAcceptor \/ AcceptFails
      PROVE  Placed
    BY <1>9, <1>1 DEF QuitBase, DtorThread, DtorAcceptor, AcceptFails
<1>10. ASSUME NEW l \in Loops, Moves(l) \/ RunRemove(l) PROVE Placed
    BY <1>10, <1>1, MovesDoes DEF RunRemove
<1>11. CASE UNCHANGED svars
    BY <1>1, <1>11 DEF svars
<1> QED
    BY <1>2, <1>3, <1>4, <1>5, <1>6, <1>7, <1>8, <1>9, <1>10, <1>11, ClosingSteps
    DEF Next, LoopSteps, AcceptSteps, DtorSteps, Moves

LEMMA SentKept ==
    ASSUME Placed, NEW l \in Loops, NEW f \in FunctorType
    PROVE  Sent(l, f)' <=> Sent(l, f)
BY DEF Placed, Sent, Stays, Home, FunctorType

LEMMA PointersInit == Init => Pointers
<1> SUFFICES ASSUME Init PROVE Pointers
    OBVIOUS
<1>1. \A c \in Conns : ~Created(c) /\ conns[c].callbacks = "none"
    BY DEF Init, Created
<1>2. \A l \in Loops : Queue(l) = <<>> /\ loops[l].held = {}
    BY DEF Init, Queue
<1>3. \A f : ~In(<<>>, f)
    BY DEF In
<1> QED BY <1>1, <1>2, <1>3 DEF Init, Pointers

\* In a step that makes no connection, it is enough to look at what is new.
LEMMA PointersKept ==
    ASSUME TypeOK, TypeOK', Pointers, Placed, pool' = pool,
           \A c \in connections' : Created(c),
           \A l \in Loops : \A c \in loops'[l].held : Created(c),
           \A l \in Loops : \A f \in FunctorType :
              In(Queue(l)', f) => In(Queue(l), f) \/ Sent(l, f),
           \A c \in Conns : conns'[c].callbacks # "none" =>
              conns[c].callbacks # "none" \/ Created(c)
    PROVE  Pointers'
<1>1. \A c \in connections' : Created(c)'
    BY DEF Placed, TypeOK
<1>2. \A l \in Loops : \A c \in loops'[l].held : Created(c)'
    BY DEF Placed, TypeOK, LoopType
<1>3. \A l \in Loops : \A f \in FunctorType : In(Queue(l)', f) => Sent(l, f)'
    BY SentKept DEF Pointers
<1>4. \A c \in Conns :
          /\ Created(c)' => Home(c)' \in {base} \cup Pool' /\ conns'[c].fd # listenFd
          /\ conns'[c].callbacks # "none" => Created(c)'
    BY DEF Placed, Pointers, Stays, Home, Pool
<1> QED BY <1>1, <1>2, <1>3, <1>4 DEF Pointers

LEMMA PointersStep == TypeOK /\ Stages /\ Pointers /\ [Next]_svars => Pointers'
<1> SUFFICES ASSUME TypeOK, Stages, Pointers, [Next]_svars PROVE Pointers'
    OBVIOUS
<1> USE ConstantFacts
<1>1. LoopsTyped(loops) /\ TypeOK'
    BY TypedLoops, TypeStep
<1>2. /\ \A c \in connections : Created(c)
      /\ \A l \in Loops : \A c \in loops[l].held : Created(c)
      /\ \A c \in Conns : Home(c) \in Loops
      /\ \A l \in Loops : \A f : In(Queue(l), f) => f \in FunctorType
    BY <1>1, QueueTyped, InQueue DEF Pointers, TypeOK, ConnType, Home
<1>3. \A f : ~In(<<>>, f)
    BY DEF In
<1>4. ASSUME NEW n \in ThreadNums, Start(n) PROVE Pointers'
    <2>1. UNCHANGED <<conns, connections, loops>> /\ \A c \in Conns : ~Created(c)
        BY <1>4 DEF Start, Stages
    <2>2. \A c \in Conns : ~Created(c)'
        BY <2>1 DEF Created
    <2>3. \A l \in Loops : Queue(l) = <<>> /\ Queue(l)' = <<>>
        BY <1>4, <2>1 DEF Start, Stages, Queue
    <2>4. \A l \in Loops : \A c \in loops'[l].held : Created(c)'
        BY <1>2, <2>1 DEF TypeOK, LoopType
    <2>5. \A c \in connections' : Created(c)'
        BY <1>2, <2>1 DEF TypeOK
    <2>6. \A c \in Conns : conns'[c].callbacks = "none"
        BY <2>1 DEF Pointers
    <2>7. \A l \in Loops : \A f \in FunctorType : ~In(Queue(l)', f)
        BY <1>3, <2>3
    <2> QED BY <2>2, <2>4, <2>5, <2>6, <2>7 DEF Pointers
<1> SUFFICES ASSUME \A n \in ThreadNums : ~Start(n) PROVE Pointers'
    BY <1>4
<1>5. ASSUME NEW c \in Conns, NEW fd \in Fds, NewConnection(c, fd) PROVE Pointers'
    <2> DEFINE loop == IF pool = <<>> THEN base ELSE pool[next]
    <2>1. /\ loop \in {base} \cup Pool /\ loop \in Loops
          /\ ~Created(c) /\ Free(fd) /\ connections' = connections \cup {c}
          /\ conns'[c].loop = loop /\ conns'[c].fd = fd /\ SameConns({c})
          /\ SamePlaces
          /\ SameQueues \/ Posted(loop, ToEstablish(c))
          /\ conns'[c].state \in {"kConnected", "kConnecting"}
          /\ pool' = pool
        BY <1>5, NewConnectionDoes
    <2> HIDE DEF loop
    <2>2. Created(c)' /\ Home(c)' = loop
        BY <2>1 DEF Created, Home
    <2>3. \A d \in Conns \ {c} : (Created(d)' <=> Created(d)) /\ conns'[d] = conns[d]
        BY <2>1 DEF SameConns, Created
    <2>4. \A d \in connections' : Created(d)'
        BY <1>2, <2>1, <2>2, <2>3 DEF TypeOK
    <2>5. \A l \in Loops : \A d \in loops'[l].held : Created(d)'
        BY <1>1, <1>2, <2>1, <2>3, <2>2 DEF SamePlaces, TypeOK, LoopType
    <2>6. ASSUME NEW l \in Loops, NEW f \in FunctorType, In(Queue(l)', f) PROVE Sent(l, f)'
        <3>1. CASE In(Queue(l), f)
            <4>1. Sent(l, f) /\ f.conn \in Conns \ {c}
                BY <2>1, <3>1 DEF Pointers, Sent, FunctorType
            <4> QED BY <2>3, <4>1 DEF Sent, Home
        <3>2. CASE ~In(Queue(l), f)
            <4>1. l = loop /\ f = ToEstablish(c)
                BY <1>1, <2>1, <2>6, <3>2, PostedIn, FunctorTyped DEF SameQueues
            <4> QED BY <2>2, <4>1 DEF Sent, ToEstablish, Functor
        <3> QED BY <3>1, <3>2
    <2>7. ASSUME NEW d \in Conns
          PROVE  /\ Created(d)' => Home(d)' \in {base} \cup Pool' /\ conns'[d].fd # listenFd
                 /\ conns'[d].callbacks # "none" => Created(d)'
        <3>1. CASE d = c
            BY <2>1, <2>2, <3>1 DEF Pool, Free
        <3>2. CASE d # c
            BY <2>1, <2>3, <3>2 DEF Pointers, Home, Pool
        <3> QED BY <3>1, <3>2
    <2> QED BY <2>4, <2>5, <2>6, <2>7 DEF Pointers
<1> SUFFICES ASSUME \A c \in Conns : \A fd \in Fds : ~NewConnection(c, fd) PROVE Pointers'
    BY <1>5
<1>6. Placed
    BY PlacedStep
<1>7. ASSUME pool' = pool, UNCHANGED <<conns, connections>>,
             \A l \in Loops : loops'[l].held \subseteq loops[l].held,
             \A l \in Loops : Queue(l)' = Queue(l) \/ Queue(l)' = <<>>
      PROVE  Pointers'
    BY <1>1, <1>2, <1>3, <1>6, <1>7, PointersKept
<1>8. ASSUME NEW c \in Conns, DtorConnection(c) PROVE Pointers'
    <2>1. /\ c \in connections /\ connections' = connections \ {c} /\ SamePlaces
          /\ Home(c) = base => Destroy(c, base) /\ SameQueues
          /\ Home(c) # base => Posted(Home(c), ToDestroy(c)) /\ UNCHANGED <<conns, pollers>>
          /\ pool' = pool
        BY <1>8, DtorConnectionDoes
    <2>2. Created(c) /\ Sent(Home(c), ToDestroy(c))
        BY <1>2, <2>1, SentFunctors
    <2>3. \A l \in Loops : \A f \in FunctorType :
              In(Queue(l)', f) => In(Queue(l), f) \/ Sent(l, f)
        BY <1>1, <1>2, <2>1, <2>2, PostedIn, FunctorTyped DEF SameQueues
    <2>4. \A d \in Conns : conns'[d].callbacks # "none" => conns[d].callbacks # "none" \/ Created(d)
        BY <2>1, <2>2, DestroyDoes DEF SameConns
    <2> QED BY <1>1, <1>2, <1>6, <2>1, <2>3, <2>4, PointersKept DEF SamePlaces
<1>9. ASSUME NEW l \in Loops, NEW e \in Conns, NEW c \in Conns, Closes(l, e, c) PROVE Pointers'
    <2>1. /\ SamePlaces /\ SameConns({c}) /\ pool' = pool /\ Created(c)
          /\ l = base => connections' = connections \ {c} /\ Posted(Home(c), ToDestroy(c))
          /\ l # base => connections' = connections /\ Posted(base, ToRemove(c))
        BY <1>9, CloseDoes DEF Closes, Alive
    <2>2. \A m \in Loops : \A f \in FunctorType :
              In(Queue(m)', f) => In(Queue(m), f) \/ Sent(m, f)
        <3>1. CASE l = base
            BY <1>1, <1>2, <2>1, <3>1, PostedIn, FunctorTyped, SentFunctors
        <3>2. CASE l # base
            BY <1>1, <2>1, <3>2, PostedIn, FunctorTyped, SentFunctors
        <3> QED BY <3>1, <3>2
    <2> QED BY <1>1, <1>2, <1>6, <2>1, <2>2, PointersKept DEF SamePlaces, SameConns
<1>10. ASSUME NEW l \in Loops, NEW c \in Conns, NEW shut \in BOOLEAN, Message(l, c, shut)
       PROVE  Pointers'
    <2>1. Created(c)
        BY <1>10 DEF Message, Alive
    <2> QED BY <1>1, <1>2, <1>6, <1>10, <2>1, MessageDoes, PointersKept
            DEF SamePlaces, SameConns, SameQueues
<1>11. ASSUME NEW l \in Loops, RunEstablished(l) \/ RunDestroyed(l) PROVE Pointers'
    <2> DEFINE c == Current(l)
    <2>1. /\ loops' = Called(l) /\ loops[l].pass > 0 /\ Queue(l) # <<>> /\ c \in Conns
          /\ Head(Queue(l)) \in {ToEstablish(c), ToDestroy(c)}
          /\ SameConns({c}) /\ UNCHANGED <<connections, pool>>
        BY <1>11, RunEstablishedDoes, RunDestroyedDoes, DestroyDoes
    <2> HIDE DEF c
    <2>2. Created(c)
        BY <1>1, <2>1, HeadIn, QueuedIsCreated
    <2>3. \A m \in Loops : \A d \in loops'[m].held : Created(d)
        BY <1>1, <1>2, <2>1, <2>2, TakenEffect DEF c
    <2>4. \A m \in Loops : \A f \in FunctorType : In(Queue(m)', f) => In(Queue(m), f)
        BY <1>1, <2>1, TakenEffect, TakenIn
    <2> QED BY <1>1, <1>2, <1>6, <2>1, <2>2, <2>3, <2>4, PointersKept DEF SameConns
<1>12. ASSUME NEW l \in Loops, RunRemove(l) PROVE Pointers'
    <2> DEFINE c == Current(l)
    <2>1. /\ Queue(l) # <<>> /\ Head(Queue(l)) = ToRemove(c) /\ c \in Conns
          /\ connections' = connections \ {c}
          /\ TakenPosted(l, Home(c), ToDestroy(c)) /\ Home(c) \in Loops
          /\ \A m \in Loops : loops'[m].held \subseteq loops[m].held \cup {c}
          /\ UNCHANGED <<conns, pool>>
        BY <1>12, RunRemoveDoes
    <2> HIDE DEF c
    <2>2. Created(c)
        BY <1>1, <2>1, HeadIn, QueuedIsCreated
    <2>3. \A m \in Loops : \A f \in FunctorType :
              In(Queue(m)', f) => In(Queue(m), f) \/ Sent(m, f)
        BY <1>1, <2>1, <2>2, TakenPostedIn, FunctorTyped, SentFunctors
    <2> QED BY <1>1, <1>2, <1>6, <2>1, <2>2, <2>3, PointersKept
<1>13. ASSUME NEW l \in Loops, Moves(l) PROVE Pointers'
    <2>1. \A m \in Loops \ {l} : Queue(m)' = Queue(m) /\ loops'[m].held = loops[m].held
        BY <1>13, MovesDoes DEF Queue
    <2> QED BY <1>13, <2>1, <1>7, MovesDoes
<1>14. ASSUME QuitBase \/ (\E i \in DOMAIN pool : DtorThread(i)) PROVE Pointers'
    BY <1>14, <1>7 DEF QuitBase, DtorThread, Queue
<1>15. ASSUME DtorAcceptor PROVE Pointers'
    BY <1>1, <1>15, <1>7 DEF DtorAcceptor, Queue, LoopsTyped, LoopType
<1>16. ASSUME AcceptFails PROVE Pointers'
    BY <1>1, <1>16, <1>7, HandledEffect DEF AcceptFails, Queue
<1>17. ASSUME NEW c \in Conns, PeerCloses(c) PROVE Pointers'
    <2>1. \A d \in Conns : conns'[d].callbacks = conns[d].callbacks
        BY <1>17 DEF PeerCloses, TypeOK, ConnType
    <2> QED BY <1>1, <1>2, <1>6, <1>17, <2>1, PointersKept DEF PeerCloses, Queue
<1>18. CASE UNCHANGED svars
    BY <1>7, <1>18 DEF svars, Queue
<1> QED
    BY <1>8, <1>9, <1>10, <1>11, <1>12, <1>13, <1>14, <1>15, <1>16, <1>17, <1>18,
       ClosingSteps
    DEF Next, LoopSteps, AcceptSteps, DtorSteps, Moves

LEMMA StoppedStays ==
    ASSUME TypeOK, Stages, [Next]_svars, NEW l \in Loops, Stopped(l) PROVE Stopped(l)'
<1> USE ConstantFacts
<1>1. LoopsTyped(loops)
    BY TypedLoops
<1>2. ASSUME NEW c \in Conns, DtorConnection(c) PROVE Stopped(l)'
    BY <1>2, DtorConnectionDoes DEF SamePlaces, Stopped
<1>3. ASSUME NEW c \in Conns, NEW fd \in Fds, NewConnection(c, fd) PROVE Stopped(l)'
    BY <1>3, NewConnectionDoes DEF SamePlaces, Stopped
<1>4. ASSUME NEW m \in Loops, NEW e \in Conns, NEW c \in Conns, Closes(m, e, c)
      PROVE  Stopped(l)'
    BY <1>4, CloseDoes DEF Closes, SamePlaces, Stopped
<1>5. ASSUME NEW m \in Loops, NEW c \in Conns, NEW shut \in BOOLEAN, Message(m, c, shut)
      PROVE  Stopped(l)'
    BY <1>5, MessageDoes DEF SamePlaces, Stopped
<1>6. ASSUME NEW m \in Loops, RunEstablished(m) \/ RunDestroyed(m) \/ RunRemove(m)
      PROVE  Stopped(l)'
    BY <1>1, <1>6, RunEstablishedDoes, RunDestroyedDoes, RunRemoveDoes, TakenEffect DEF Stopped
<1>7. ASSUME NEW m \in Loops, Moves(m) PROVE Stopped(l)'
    BY <1>7, MovesDoes DEF Stopped
<1>8. ASSUME DtorAcceptor PROVE Stopped(l)'
    BY <1>1, <1>8 DEF DtorAcceptor, Stopped, LoopsTyped, LoopType
<1>9. ASSUME AcceptFails PROVE Stopped(l)'
    BY <1>1, <1>9, HandledEffect DEF AcceptFails, Stopped
<1>10. ASSUME UNCHANGED loops PROVE Stopped(l)'
    BY <1>10 DEF Stopped
<1> QED
    BY <1>2, <1>3, <1>4, <1>5, <1>6, <1>7, <1>8, <1>9, <1>10, ClosingSteps
    DEF Next, LoopSteps, AcceptSteps, DtorSteps, Moves, Start, QuitBase, DtorThread,
        PeerCloses, svars

LEMMA InMapKept ==
    ASSUME TypeOK, TypeOK', InMap, Placed, Stopped(base) => Stopped(base)',
           \A c \in Conns : conns[c].callbacks \in {"down", "wrong"} =>
              conns'[c].callbacks \in {"down", "wrong"},
           \A c \in connections \ connections' :
              Stopped(base)' \/ conns'[c].callbacks \in {"down", "wrong"},
           \A c \in Conns : In(Queue(base)', ToRemove(c)) =>
              In(Queue(base), ToRemove(c)) \/ conns'[c].callbacks \in {"down", "wrong"}
    PROVE  InMap'
<1>1. SUFFICES ASSUME NEW c \in Conns
               PROVE  /\ Created(c)' /\ conns'[c].callbacks \in {"none", "up"} =>
                            c \in connections' \/ Stopped(base)'
                      /\ In(Queue(base)', ToRemove(c)) =>
                            conns'[c].callbacks \in {"down", "wrong"}
    BY DEF InMap
<1>2. conns[c].callbacks \in {"none", "up", "down", "wrong"}
    BY DEF TypeOK, ConnType
<1> QED BY <1>2 DEF InMap, Placed

LEMMA InMapInit == Init => InMap
<1> SUFFICES ASSUME Init PROVE InMap
    OBVIOUS
<1>1. \A c \in Conns : ~Created(c)
    BY DEF Init, Created
<1>2. \A f : ~In(Queue(base), f)
    BY ConstantFacts DEF Init, Queue, In
<1> QED BY <1>1, <1>2 DEF InMap

LEMMA OtherFunctors ==
    ASSUME NEW c, NEW d
    PROVE  /\ ToEstablish(c) # ToDestroy(d) /\ ToEstablish(c) # ToRemove(d)
           /\ ToDestroy(c) # ToRemove(d)
           /\ ToEstablish(c) = ToEstablish(d) => c = d
           /\ ToDestroy(c) = ToDestroy(d) => c = d
           /\ ToRemove(c) = ToRemove(d) => c = d
BY DEF ToEstablish, ToDestroy, ToRemove, Functor

LEMMA InMapStep == TypeOK /\ Stages /\ Pointers /\ InMap /\ [Next]_svars => InMap'
<1> SUFFICES ASSUME TypeOK, Stages, Pointers, InMap, [Next]_svars PROVE InMap'
    OBVIOUS
<1> USE ConstantFacts
<1>1. LoopsTyped(loops) /\ TypeOK' /\ (Stopped(base) => Stopped(base)')
    BY TypedLoops, TypeStep, StoppedStays
<1>2. \A c \in Conns : Home(c) \in Loops
    BY DEF TypeOK, ConnType, Home
<1>3. ASSUME NEW c \in Conns, NEW fd \in Fds, NewConnection(c, fd) PROVE InMap'
    <2> DEFINE loop == IF pool = <<>> THEN base ELSE pool[next]
    <2>1. /\ loop \in Loops /\ ~Created(c) /\ connections' = connections \cup {c}
          /\ SameConns({c}) /\ SamePlaces
          /\ SameQueues \/ Posted(loop, ToEstablish(c))
        BY <1>3, NewConnectionDoes
    <2> HIDE DEF loop
    <2>2. \A d \in Conns : In(Queue(base)', ToRemove(d)) => In(Queue(base), ToRemove(d))
        BY <1>1, <2>1, PostedIn, FunctorTyped, OtherFunctors DEF SameQueues
    <2>3. ~In(Queue(base), ToRemove(c))
        BY <2>1, QueuedIsCreated
    <2> QED BY <1>1, <2>1, <2>2, <2>3 DEF InMap, SameConns, Created
<1> SUFFICES ASSUME \A c \in Conns : \A fd \in Fds : ~NewConnection(c, fd) PROVE InMap'
    BY <1>3
<1>4. Placed
    BY PlacedStep
<1>5. ASSUME UNCHANGED <<conns, connections>>,
             \A f : In(Queue(base)', f) => In(Queue(base), f)
      PROVE  InMap'
    BY <1>1, <1>4, <1>5, InMapKept
<1>6. ASSUME NEW c \in Conns, DtorConnection(c) PROVE InMap'
    <2>1. /\ Stopped(base) /\ connections' = connections \ {c}
          /\ Home(c) = base => Destroy(c, base) /\ SameQueues
          /\ Home(c) # base => Posted(Home(c), ToDestroy(c)) /\ UNCHANGED <<conns, pollers>>
        BY <1>6, DtorConnectionDoes DEF Destroying, Stopped
    <2>2. \A d \in Conns : In(Queue(base)', ToRemove(d)) => In(Queue(base), ToRemove(d))
        BY <1>1, <1>2, <2>1, PostedIn, FunctorTyped, OtherFunctors DEF SameQueues
    <2>3. \A d \in Conns : conns[d].callbacks \in {"down", "wrong"} =>
              conns'[d].callbacks \in {"down", "wrong"}
        BY <2>1, DestroyDoes DEF SameConns
    <2> QED BY <1>1, <1>4, <2>1, <2>2, <2>3, InMapKept
<1>7. ASSUME NEW l \in Loops, NEW e \in Conns, NEW c \in Conns, Closes(l, e, c) PROVE InMap'
    <2>1. /\ SameConns({c}) /\ conns'[c].callbacks \in {"down", "wrong"}
          /\ connections \ connections' \subseteq {c}
          /\ Posted(Home(c), ToDestroy(c)) \/ Posted(base, ToRemove(c))
        BY <1>7, CloseDoes DEF Closes
    <2>2. \A d \in Conns : In(Queue(base)', ToRemove(d)) => In(Queue(base), ToRemove(d)) \/ d = c
        <3>1. CASE Posted(Home(c), ToDestroy(c))
            BY <1>1, <1>2, <3>1, PostedIn, FunctorTyped, OtherFunctors
        <3>2. CASE Posted(base, ToRemove(c))
            BY <1>1, <3>2, PostedIn, FunctorTyped, OtherFunctors
        <3> QED BY <2>1, <3>1, <3>2
    <2> QED BY <1>1, <1>4, <2>1, <2>2, InMapKept DEF SameConns
<1>8. ASSUME NEW l \in Loops, NEW c \in Conns, NEW shut \in BOOLEAN, Message(l, c, shut)
      PROVE  InMap'
    BY <1>1, <1>4, <1>8, MessageDoes, InMapKept DEF SameConns, SameQueues
<1>9. ASSUME NEW l \in Loops, RunEstablished(l) \/ RunDestroyed(l) PROVE InMap'
    <2> DEFINE c == Current(l)
    <2>1. /\ loops' = Called(l) /\ loops[l].pass > 0 /\ Queue(l) # <<>> /\ c \in Conns
          /\ SameConns({c}) /\ UNCHANGED connections
          /\ conns[c].callbacks \in {"down", "wrong"} => conns'[c].callbacks \in {"down", "wrong"}
        BY <1>9, RunEstablishedDoes, RunDestroyedDoes, DestroyDoes
    <2> HIDE DEF c
    <2>2. \A f : In(Queue(base)', f) => In(Queue(base), f)
        BY <1>1, <2>1, TakenEffect, TakenIn
    <2> QED BY <1>1, <1>4, <2>1, <2>2, InMapKept DEF SameConns
<1>10. ASSUME NEW l \in Loops, RunRemove(l) PROVE InMap'
    <2> DEFINE c == Current(l)
    <2>1. /\ Queue(l) # <<>> /\ Head(Queue(l)) = ToRemove(c) /\ c \in Conns
          /\ connections' = connections \ {c}
          /\ TakenPosted(l, Home(c), ToDestroy(c)) /\ Home(c) \in Loops
          /\ UNCHANGED conns
        BY <1>10, RunRemoveDoes
    <2> HIDE DEF c
    <2>2. l = base
        <3>1. In(Queue(l), ToRemove(c))
            BY <1>1, <2>1, HeadIn
        <3>2. Sent(l, ToRemove(c))
            BY <2>1, <3>1, FunctorTyped DEF Pointers
        <3> QED BY <3>2 DEF Sent, ToRemove, Functor
    <2>3. conns[c].callbacks \in {"down", "wrong"}
        BY <1>1, <2>1, <2>2, HeadIn DEF InMap
    <2>4. \A d \in Conns : In(Queue(base)', ToRemove(d)) => In(Queue(base), ToRemove(d))
        BY <1>1, <2>1, TakenPostedIn, FunctorTyped, OtherFunctors
    <2> QED BY <1>1, <1>4, <2>1, <2>3, <2>4, InMapKept
<1>11. ASSUME NEW l \in Loops, Moves(l) PROVE InMap'
    <2>1. Queue(base)' = Queue(base)
        BY <1>11, MovesDoes DEF Queue
    <2> QED BY <1>5, <1>11, <2>1, MovesDoes
<1>12. ASSUME QuitBase \/ (\E i \in DOMAIN pool : DtorThread(i)) PROVE InMap'
    BY <1>5, <1>12 DEF QuitBase, DtorThread, Queue
<1>13. ASSUME NEW n \in ThreadNums, Start(n) PROVE InMap'
    BY <1>5, <1>13 DEF Start, Queue
<1>14. ASSUME DtorAcceptor PROVE InMap'
    <2>1. Queue(base)' = <<>>
        BY <1>1, <1>14 DEF DtorAcceptor, Queue, LoopsTyped, LoopType
    <2> QED BY <1>5, <1>14, <2>1 DEF DtorAcceptor, In
<1>15. ASSUME AcceptFails PROVE InMap'
    BY <1>1, <1>5, <1>15, HandledEffect DEF AcceptFails, Queue
<1>16. ASSUME NEW c \in Conns, PeerCloses(c) PROVE InMap'
    <2>1. \A d \in Conns : conns'[d].callbacks = conns[d].callbacks
        BY <1>16 DEF PeerCloses, TypeOK, ConnType
    <2> QED BY <1>1, <1>4, <1>16, <2>1, InMapKept DEF PeerCloses, Queue
<1>17. CASE UNCHANGED svars
    BY <1>5, <1>17 DEF svars, Queue
<1> QED
    BY <1>6, <1>7, <1>8, <1>9, <1>10, <1>11, <1>12, <1>13, <1>14, <1>15, <1>16, <1>17,
       ClosingSteps
    DEF Next, LoopSteps, AcceptSteps, DtorSteps, Moves

-----------------------------------------------------------------------------

Order == TypeOK /\ Stages /\ Pointers /\ InMap

LEMMA OrderInvariant == Spec => []Order
<1>1. Init => Order
    BY TypeInit, StagesInit, PointersInit, InMapInit DEF Order
<1>2. Order /\ [Next]_svars => Order'
    BY TypeStep, StagesStep, PointersStep, InMapStep DEF Order
<1> QED BY <1>1, <1>2, PTL DEF Spec

\* The server, its loops and connections never hold values outside their types.
THEOREM ServerTypeCorrect == Spec => []TypeOK
<1>1. Order => TypeOK
    BY DEF Order
<1> QED BY <1>1, OrderInvariant, PTL

\* As long as nobody quits the base loop, a connection that went up is told that it is down
\* before its last pointer goes: removeConnectionInLoop() (TcpServer.cc) comes only after
\* handleClose(), and until then the map holds it.
THEOREM DownIsTold == Spec => []DownWhileRunning
<1>1. Order => DownWhileRunning
    <2> SUFFICES ASSUME Order, base \notin quits, NEW c \in Conns, conns[c].callbacks = "up"
                 PROVE  Alive(c)
        BY DEF DownWhileRunning, DownBeforeDestroyed
    <2>1. Created(c) /\ ~Stopped(base)
        BY DEF Order, Pointers, Stages
    <2> QED BY <2>1 DEF Order, InMap, Alive
<1> QED BY <1>1, OrderInvariant, PTL

-----------------------------------------------------------------------------
(* The pollers. *)

\* The descriptor and the loop of a channel.
FdOf == [x \in Chans |-> IF x = acceptor THEN listenFd ELSE conns[x].fd]
LoopOf(x) == IF x = acceptor THEN base ELSE Home(x)

\* channels_, index_ and the kernel's list say the same, given the channels' descriptors.
Consistent(p, at) ==
    /\ \A x \in Chans :
          /\ p.index[x] # "kNew" => p.channels[at[x]] = x
          /\ p.index[x] = "kAdded" => p.epoll[at[x]] = x
    /\ \A fd \in Fds :
          /\ p.channels[fd] # NoChan =>
                p.index[p.channels[fd]] # "kNew" /\ at[p.channels[fd]] = fd
          /\ p.epoll[fd] # NoChan =>
                p.epoll[fd] = p.channels[fd] /\ p.index[p.epoll[fd]] = "kAdded"

\* The same but for the place of one channel, or for a mask.
SameOthers(q, p, c) == \A x \in Chans \ {c} : q.index[x] = p.index[x] /\ q.events[x] = p.events[x]

LEMMA UpdateDoes ==
    ASSUME NEW p \in PollerType, NEW at \in [Chans -> Fds], Consistent(p, at),
           NEW c \in Chans, p.index[c] = "kNew" => p.channels[at[c]] = NoChan
    PROVE  LET q == UpdateChannel(p, c, at[c]) IN
           /\ q \in PollerType /\ Consistent(q, at)
           /\ q.failed = p.failed /\ q.index[c] # "kNew" /\ q.events = p.events
           /\ \A x \in Chans \ {c} : q.index[x] = p.index[x]
<1> DEFINE fd == at[c]
<1>1. fd \in Fds /\ NoChan \notin Chans
    BY ConstantFacts
<1> HIDE DEF fd
<1>2. p.index[c] # "kAdded" => p.epoll[fd] = NoChan
    BY <1>1 DEF Consistent, fd, PollerType
<1>3. p.channels[fd] = IF p.index[c] = "kNew" THEN NoChan ELSE c
    BY DEF Consistent, fd
<1>4. \A x \in Chans \ {c} : p.index[x] # "kNew" => at[x] # fd
    BY <1>3, <1>1 DEF Consistent, fd
<1>5. ASSUME NEW g \in Fds, g # fd PROVE p.channels[g] # c
    BY <1>5, <1>1 DEF Consistent, fd
<1>6. CASE p.index[c] # "kAdded"
    <2> DEFINE q == [p EXCEPT !.channels[fd] = c, !.index[c] = "kAdded", !.epoll[fd] = c]
    <2>1. UpdateChannel(p, c, fd) = q
        BY <1>1, <1>2, <1>3, <1>6 DEF UpdateChannel, CtlAdd, PollerType
    <2>2. /\ q \in PollerType /\ q.failed = p.failed /\ q.events = p.events
          /\ q.index[c] = "kAdded" /\ q.channels[fd] = c /\ q.epoll[fd] = c
          /\ \A x \in Chans \ {c} : q.index[x] = p.index[x]
          /\ \A g \in Fds \ {fd} : q.channels[g] = p.channels[g] /\ q.epoll[g] = p.epoll[g]
        BY <1>1 DEF PollerType, Indexes
    <2> HIDE DEF q
    <2>3. Consistent(q, at)
        <3>1. ASSUME NEW x \in Chans
              PROVE  /\ q.index[x] # "kNew" => q.channels[at[x]] = x
                     /\ q.index[x] = "kAdded" => q.epoll[at[x]] = x
            BY <2>2, <1>4 DEF Consistent, fd
        <3>2. ASSUME NEW g \in Fds
              PROVE  /\ q.channels[g] # NoChan =>
                            q.index[q.channels[g]] # "kNew" /\ at[q.channels[g]] = g
                     /\ q.epoll[g] # NoChan =>
                            q.epoll[g] = q.channels[g] /\ q.index[q.epoll[g]] = "kAdded"
            <4>1. CASE g = fd
                BY <2>2, <4>1 DEF fd
            <4>2. CASE g # fd
                <5>1. p.channels[g] # c
                    BY <4>2, <1>1 DEF Consistent, fd
                <5> QED BY <2>2, <4>2, <5>1 DEF Consistent, PollerType
            <4> QED BY <4>1, <4>2
        <3> QED BY <3>1, <3>2 DEF Consistent
    <2> QED BY <2>1, <2>2, <2>3 DEF fd
<1>7. CASE p.index[c] = "kAdded" /\ p.events[c] = {}
    <2> DEFINE q == [p EXCEPT !.index[c] = "kDeleted", !.epoll[fd] = NoChan]
    <2>1. UpdateChannel(p, c, fd) = q
        BY <1>1, <1>3, <1>7 DEF UpdateChannel, CtlDel, PollerType
    <2>2. /\ q \in PollerType /\ q.failed = p.failed /\ q.events = p.events
          /\ q.index[c] = "kDeleted" /\ q.channels = p.channels /\ q.epoll[fd] = NoChan
          /\ \A x \in Chans \ {c} : q.index[x] = p.index[x]
          /\ \A g \in Fds \ {fd} : q.epoll[g] = p.epoll[g]
        BY <1>1 DEF PollerType, Indexes
    <2> HIDE DEF q
    <2>3. Consistent(q, at)
        <3>1. ASSUME NEW x \in Chans
              PROVE  /\ q.index[x] # "kNew" => q.channels[at[x]] = x
                     /\ q.index[x] = "kAdded" => q.epoll[at[x]] = x
            BY <2>2, <1>4, <1>7 DEF Consistent, fd
        <3>2. ASSUME NEW g \in Fds
              PROVE  /\ q.channels[g] # NoChan =>
                            q.index[q.channels[g]] # "kNew" /\ at[q.channels[g]] = g
                     /\ q.epoll[g] # NoChan =>
                            q.epoll[g] = q.channels[g] /\ q.index[q.epoll[g]] = "kAdded"
            <4>1. CASE g = fd
                BY <1>1, <1>3, <1>7, <2>2, <4>1 DEF fd
            <4>2. CASE g # fd
                <5>1. p.channels[g] # c
                    BY <4>2, <1>1 DEF Consistent, fd
                <5> QED BY <2>2, <4>2, <5>1 DEF Consistent, PollerType
            <4> QED BY <4>1, <4>2
        <3> QED BY <3>1, <3>2 DEF Consistent
    <2> QED BY <2>1, <2>2, <2>3 DEF fd
<1>8. CASE p.index[c] = "kAdded" /\ p.events[c] # {}
    <2>1. p.epoll[fd] = c
        BY <1>8 DEF Consistent, fd
    <2>2. UpdateChannel(p, c, fd) = [p EXCEPT !.epoll[fd] = c]
        BY <1>1, <1>3, <1>8, <2>1 DEF UpdateChannel, CtlMod, PollerType
    <2>3. [p EXCEPT !.epoll[fd] = c] = p
        BY <2>1 DEF PollerType
    <2> QED BY <1>8, <2>2, <2>3 DEF fd
<1> QED BY <1>6, <1>7, <1>8

LEMMA EnableDoes ==
    ASSUME NEW p \in PollerType, NEW at \in [Chans -> Fds], Consistent(p, at),
           NEW c \in Chans, p.index[c] = "kNew" => p.channels[at[c]] = NoChan
    PROVE  LET q == Enable(p, c, at[c], "IN") IN
           /\ q \in PollerType /\ Consistent(q, at)
           /\ q.failed = p.failed /\ q.index[c] # "kNew" /\ SameOthers(q, p, c)
<1> DEFINE m == p.events[c] \cup {"IN"}
           r == [p EXCEPT !.events[c] = m]
<1>1. m \in SUBSET Events
    BY DEF PollerType, Events
<1> HIDE DEF m
<1>2. /\ r \in PollerType /\ r.index = p.index /\ r.failed = p.failed
      /\ r.channels = p.channels /\ r.epoll = p.epoll
      /\ \A x \in Chans \ {c} : r.events[x] = p.events[x]
    BY <1>1 DEF PollerType
<1>3. Enable(p, c, at[c], "IN") = UpdateChannel(r, c, at[c])
    BY DEF Enable, m
<1> HIDE DEF r
<1>4. Consistent(r, at)
    BY <1>2 DEF Consistent
<1> QED BY <1>2, <1>3, <1>4, UpdateDoes DEF SameOthers

LEMMA DisableDoes ==
    ASSUME NEW p \in PollerType, NEW at \in [Chans -> Fds], Consistent(p, at),
           NEW c \in Chans, p.index[c] # "kNew"
    PROVE  LET q == DisableAll(p, c, at[c]) IN
           /\ q \in PollerType /\ Consistent(q, at)
           /\ q.failed = p.failed /\ q.index[c] # "kNew" /\ q.events[c] = {}
           /\ SameOthers(q, p, c)
<1> DEFINE r == [p EXCEPT !.events[c] = {}]
<1>1. /\ r \in PollerType /\ r.index = p.index /\ r.failed = p.failed
      /\ r.channels = p.channels /\ r.epoll = p.epoll /\ r.events[c] = {}
      /\ \A x \in Chans \ {c} : r.events[x] = p.events[x]
    BY DEF PollerType
<1>2. DisableAll(p, c, at[c]) = UpdateChannel(r, c, at[c])
    BY DEF DisableAll
<1> HIDE DEF r
<1>3. Consistent(r, at)
    BY <1>1 DEF Consistent
<1> QED BY <1>1, <1>2, <1>3, UpdateDoes DEF SameOthers

LEMMA RemoveDoes ==
    ASSUME NEW p \in PollerType, NEW at \in [Chans -> Fds], Consistent(p, at), NEW c \in Chans
    PROVE  LET q == RemoveChannel(p, c, at[c]) IN
           /\ \/ q = Fail(p, "removeChannel")
              \/ /\ Consistent(q, at) /\ q.failed = p.failed /\ q.index[c] = "kNew"
                 /\ p.events[c] = {} /\ q.events = p.events /\ SameOthers(q, p, c)
           /\ p.index[c] # "kNew" /\ p.events[c] = {} => q.failed = p.failed
<1> DEFINE fd == at[c]
<1>1. fd \in Fds /\ NoChan \notin Chans
    BY ConstantFacts
<1> HIDE DEF fd
<1>2. CASE p.channels[fd] # c \/ p.events[c] # {}
    <2>1. RemoveChannel(p, c, fd) = Fail(p, "removeChannel")
        BY <1>2 DEF RemoveChannel
    <2>2. ~(p.index[c] # "kNew" /\ p.events[c] = {})
        BY <1>2 DEF Consistent, fd
    <2> QED BY <2>1, <2>2 DEF fd
<1>3. CASE p.channels[fd] = c /\ p.events[c] = {}
    <2> DEFINE q == [p EXCEPT !.channels[fd] = NoChan, !.index[c] = "kNew",
                              !.epoll[fd] = NoChan]
    <2>1. p.index[c] # "kAdded" => p.epoll[fd] = NoChan
        BY <1>1, <1>3 DEF Consistent
    <2>2. RemoveChannel(p, c, fd) = q
        <3>1. CASE p.index[c] = "kAdded"
            BY <1>1, <1>3, <3>1 DEF RemoveChannel, CtlDel, PollerType
        <3>2. CASE p.index[c] # "kAdded"
            <4>1. RemoveChannel(p, c, fd)
                  = [p EXCEPT !.channels[fd] = NoChan, !.index[c] = "kNew"]
                BY <1>3, <3>2 DEF RemoveChannel
            <4>2. [p.epoll EXCEPT ![fd] = NoChan] = p.epoll
                BY <2>1, <3>2 DEF PollerType
            <4> QED BY <4>1, <4>2 DEF PollerType
        <3> QED BY <3>1, <3>2
    <2>3. /\ q \in PollerType /\ q.failed = p.failed /\ q.events = p.events
          /\ q.index[c] = "kNew" /\ q.channels[fd] = NoChan /\ q.epoll[fd] = NoChan
          /\ \A x \in Chans \ {c} : q.index[x] = p.index[x]
          /\ \A g \in Fds \ {fd} : q.channels[g] = p.channels[g] /\ q.epoll[g] = p.epoll[g]
        BY <1>1 DEF PollerType, Indexes
    <2> HIDE DEF q
    <2>4. Consistent(q, at)
        <3>1. ASSUME NEW x \in Chans
              PROVE  /\ q.index[x] # "kNew" => q.channels[at[x]] = x
                     /\ q.index[x] = "kAdded" => q.epoll[at[x]] = x
            <4>1. x # c /\ p.index[x] # "kNew" => at[x] # fd
                BY <1>3 DEF Consistent
            <4> QED BY <2>3, <4>1 DEF Consistent
        <3>2. ASSUME NEW g \in Fds
              PROVE  /\ q.channels[g] # NoChan =>
                            q.index[q.channels[g]] # "kNew" /\ at[q.channels[g]] = g
                     /\ q.epoll[g] # NoChan =>
                            q.epoll[g] = q.channels[g] /\ q.index[q.epoll[g]] = "kAdded"
            <4>1. CASE g = fd
                BY <2>3, <4>1
            <4>2. CASE g # fd
                <5>1. p.channels[g] # c
                    BY <4>2, <1>1 DEF Consistent, fd
                <5> QED BY <2>3, <4>2, <5>1 DEF Consistent, PollerType
            <4> QED BY <4>1, <4>2
        <3> QED BY <3>1, <3>2 DEF Consistent
    <2> QED BY <1>3, <2>2, <2>3, <2>4 DEF fd, SameOthers
<1> QED BY <1>2, <1>3

LEMMA CloseFdDoes ==
    ASSUME NEW p \in PollerType, NEW fd \in Fds, p.epoll[fd] = NoChan
    PROVE  CloseFd(p, fd) = p
<1>1. [p.epoll EXCEPT ![fd] = NoChan] = p.epoll
    BY DEF PollerType
<1> QED BY <1>1 DEF CloseFd, CtlDel, PollerType

LEMMA ConsistentMoved ==
    ASSUME NEW p \in PollerType, NEW at, NEW new, Consistent(p, at),
           \A x \in Chans : p.index[x] # "kNew" => new[x] = at[x]
    PROVE  Consistent(p, new)
BY DEF Consistent, PollerType, Indexes

-----------------------------------------------------------------------------
(* The channels of live connections. *)

Listed(l, x) == pollers[l].index[x] # "kNew"
Clean == \A l \in Loops : Consistent(pollers[l], FdOf)

\* Each channel is listed by the loop it belongs to, from connectEstablished() on.
Channels ==
    /\ Clean
    /\ \A l \in Loops : \A x \in Chans : Listed(l, x) => LoopOf(x) = l
    /\ \A l \in Loops : \A c \in Conns : Listed(l, c) => Created(c)
    /\ server = "running" => Listed(base, acceptor)
    /\ \A c \in Conns : StillUp(c) => Listed(Home(c), c)

\* Somebody holds a pointer to a connection, and will have it destroyed on its loop.
Kept(c) ==
    \/ c \in connections
    \/ In(Queue(base), ToRemove(c))
    \/ In(Queue(Home(c)), ToDestroy(c))
Owned ==
    /\ \A c \in Conns : Listed(Home(c), c) => Kept(c) \/ Stopped(Home(c))
    /\ \A l \in Loops : \A c \in Conns : c \in loops[l].batch => Listed(l, c)
    /\ \A c \in Conns : c \in connections \/ Stopped(Home(c))
                        \/ Before(Queue(Home(c)), ToEstablish(c), ToDestroy(c))

Distinct ==
    \A c, d \in Conns : Alive(c) /\ Alive(d) /\ c # d => conns[c].fd # conns[d].fd

Core == Channels /\ Owned /\ Distinct

\* What a step does to the pollers: one channel is touched.
Steady(l, x) ==
    \A m \in Loops : \A y \in Chans :
        m # l \/ y # x => /\ pollers'[m].index[y] = pollers[m].index[y]
                          /\ pollers'[m].events[y] = pollers[m].events[y]
Touches(l, x) == Running' /\ Clean' /\ Steady(l, x)

LEMMA AliveIs ==
    ASSUME NEW c \in Conns
    PROVE  Alive(c) <=> Created(c) /\ \/ c \in connections
                                      \/ \E l \in Loops : c \in loops[l].held
                                      \/ \E l \in Loops : \E i \in DOMAIN Queue(l) :
                                            Queue(l)[i].conn = c
BY DEF Alive, Queue

LEMMA QueuedAlive ==
    ASSUME NEW c \in Conns, Created(c), NEW l \in Loops, NEW f, In(Queue(l), f), f.conn = c
    PROVE  Alive(c)
BY DEF Alive, Queue, In

LEMMA KeptAlive ==
    ASSUME TypeOK, NEW c \in Conns, Created(c), Kept(c) PROVE Alive(c)
<1> USE ConstantFacts
<1>1. Home(c) \in Loops
    BY DEF TypeOK, ConnType, Home
<1>2. ToRemove(c).conn = c /\ ToDestroy(c).conn = c
    BY DEF ToRemove, ToDestroy, Functor
<1>3. c \in connections => Alive(c)
    BY DEF Alive
<1> QED BY <1>1, <1>2, <1>3, QueuedAlive, Zenon DEF Kept

LEMMA ListedAlive ==
    ASSUME TypeOK, Channels, Owned, NEW l \in Loops, ~Stopped(l), NEW c \in Conns, Listed(l, c)
    PROVE  Alive(c) /\ Home(c) = l /\ Created(c) /\ Kept(c)
<1> USE ConstantFacts
<1>1. Home(c) = l /\ Created(c)
    BY DEF Channels, LoopOf
<1>2. Kept(c)
    BY <1>1 DEF Owned
<1> QED BY <1>1, <1>2, KeptAlive

LEMMA FdTyped == TypeOK => FdOf \in [Chans -> Fds]
BY ConstantFacts DEF FdOf, TypeOK, ConnType, Conns

LEMMA FdIs ==
    ASSUME NEW c \in Conns PROVE FdOf[c] = conns[c].fd
BY ConstantFacts DEF FdOf

LEMMA FdSame ==
    ASSUME Placed PROVE FdOf' = FdOf
BY DEF FdOf, Placed, Stays, Conns

\* A loop that runs has nothing under a descriptor that no live connection has.
LEMMA Slot ==
    ASSUME TypeOK, Channels, Owned, NEW l \in Loops, ~Stopped(l), NEW fd \in Fds, fd # listenFd,
           \A c \in Conns : Alive(c) /\ Listed(l, c) => conns[c].fd # fd
    PROVE  pollers[l].channels[fd] = NoChan /\ pollers[l].epoll[fd] = NoChan
<1> USE ConstantFacts
<1> DEFINE p == pollers[l]
           x == p.channels[fd]
<1>1. p \in PollerType /\ Consistent(p, FdOf)
    BY DEF TypeOK, Channels, Clean
<1> HIDE DEF p
<1>2. SUFFICES ASSUME x # NoChan PROVE FALSE
    BY <1>1 DEF Consistent, p
<1>3. x \in Chans /\ p.index[x] # "kNew" /\ FdOf[x] = fd
    BY <1>1, <1>2 DEF PollerType, Consistent
<1> HIDE DEF x
<1>4. x # acceptor
    BY <1>3 DEF FdOf
<1>5. x \in Conns /\ conns[x].fd = fd
    BY <1>3, <1>4, FdIs DEF Conns
<1>6. Listed(l, x)
    BY <1>3 DEF Listed, p
<1> QED BY <1>5, <1>6, ListedAlive

LEMMA PollerChange ==
    ASSUME TypeOK, Running, NEW l \in Loops, NEW x \in Chans, NEW q \in PollerType,
           \A m \in Loops : Consistent(pollers[m], FdOf'), Consistent(q, FdOf'),
           q.failed = pollers[l].failed, SameOthers(q, pollers[l], x),
           pollers' = [pollers EXCEPT ![l] = q]
    PROVE  Touches(l, x) /\ pollers'[l] = q
<1>1. pollers'[l] = q /\ \A m \in Loops \ {l} : pollers'[m] = pollers[m]
    BY DEF TypeOK
<1>2. Running'
    BY <1>1 DEF Running
<1>3. Clean'
    BY <1>1 DEF Clean
<1>4. Steady(l, x)
    BY <1>1 DEF Steady, SameOthers
<1> QED BY <1>1, <1>2, <1>3, <1>4 DEF Touches

LEMMA FdKept ==
    ASSUME NEW c \in Conns, Stays(c), SameConns({c}) PROVE FdOf' = FdOf
<1>1. \A d \in Conns : conns'[d].fd = conns[d].fd
    BY DEF Stays, SameConns
<1> QED BY <1>1 DEF FdOf, Conns

LEMMA RunEstablishedPoller ==
    ASSUME Order, Core, Running, NEW l \in Loops, RunEstablished(l),
           NEW c, c = Current(l)
    PROVE  /\ c \in Conns /\ Home(c) = l /\ Created(c)
           /\ Touches(l, c) /\ Listed(l, c)'
<1> USE ConstantFacts
<1>1. TypeOK /\ LoopsTyped(loops) /\ Pointers
    BY TypedLoops DEF Order
<1>2. /\ Queue(l) # <<>> /\ Head(Queue(l)) = ToEstablish(c) /\ c \in Conns
      /\ FdOf' = FdOf
      /\ pollers' = [pollers EXCEPT ![l] = Enable(@, c, conns[c].fd, "IN")]
    BY <1>1, RunEstablishedDoes, FdKept
<1>3. ~Stopped(l)
    BY DEF RunEstablished, Calling, At, Stopped
<1>4. In(Queue(l), ToEstablish(c))
    BY <1>1, <1>2, HeadIn
<1>5. Created(c) /\ Home(c) = l /\ conns[c].fd # listenFd
    BY <1>1, <1>2, <1>4, FunctorTyped, SentFunctors, QueuedIsCreated DEF Pointers
<1>6. Alive(c)
    BY <1>2, <1>4, <1>5, QueuedAlive DEF ToEstablish, Functor
<1> DEFINE p == pollers[l]
           q == Enable(p, c, FdOf[c], "IN")
<1>7. FdOf[c] = conns[c].fd /\ FdOf[c] \in Fds /\ FdOf \in [Chans -> Fds]
    BY <1>1, <1>2, FdIs, FdTyped
<1>8. p \in PollerType /\ Consistent(p, FdOf)
    BY <1>1 DEF TypeOK, Core, Channels, Clean
<1>9. p.index[c] = "kNew" => p.channels[FdOf[c]] = NoChan
    <2> SUFFICES ASSUME ~Listed(l, c) PROVE p.channels[FdOf[c]] = NoChan
        BY DEF Listed
    <2>1. \A d \in Conns : Alive(d) /\ Listed(l, d) => conns[d].fd # FdOf[c]
        BY <1>2, <1>6, <1>7 DEF Core, Distinct
    <2> QED BY <1>1, <1>3, <1>5, <1>7, <2>1, Slot DEF Core
<1>10. /\ q \in PollerType /\ Consistent(q, FdOf)
       /\ q.failed = p.failed /\ q.index[c] # "kNew" /\ SameOthers(q, p, c)
    BY <1>2, <1>7, <1>8, <1>9, EnableDoes
<1>11. pollers' = [pollers EXCEPT ![l] = q]
    BY <1>2, <1>7
<1> HIDE DEF q
<1>12. /\ \A m \in Loops : Consistent(pollers[m], FdOf')
       /\ Consistent(q, FdOf')
    BY <1>2, <1>10 DEF Core, Channels, Clean
<1>13. /\ c \in Chans /\ q \in PollerType
       /\ q.failed = pollers[l].failed /\ SameOthers(q, pollers[l], c)
    BY <1>2, <1>10
<1>14. Touches(l, c) /\ pollers'[l] = q
    BY <1>1, <1>11, <1>12, <1>13, PollerChange
<1> QED BY <1>2, <1>5, <1>10, <1>14 DEF Listed

LEMMA ListedDisable ==
    ASSUME TypeOK, Clean, NEW l \in Loops, NEW x \in Chans, Listed(l, x)
    PROVE  LET p == pollers[l]
               q == DisableAll(p, x, FdOf[x])
           IN
           /\ q \in PollerType /\ Consistent(q, FdOf)
           /\ q.failed = p.failed /\ q.index[x] # "kNew" /\ q.events[x] = {}
           /\ SameOthers(q, p, x)
<1>1. pollers[l] \in PollerType /\ Consistent(pollers[l], FdOf)
    BY DEF TypeOK, Clean
<1>2. pollers[l].index[x] # "kNew" /\ FdOf \in [Chans -> Fds]
    BY FdTyped DEF Listed
<1> QED BY <1>1, <1>2, DisableDoes

LEMMA ClosePoller ==
    ASSUME Order, Core, Running, NEW l \in Loops, NEW e \in Conns, NEW c \in Conns, Closes(l, e, c)
    PROVE  /\ Touches(l, c) /\ Listed(l, c)' /\ Listed(l, c) /\ Home(c) = l /\ Created(c)
           /\ pollers'[l].events[c] = {}
<1> USE ConstantFacts
<1>1. TypeOK
    BY DEF Order
<1>2. Stays(c) /\ SameConns({c}) /\ pollers' = [pollers EXCEPT ![l] = DisableAll(@, c, conns[c].fd)]
    BY <1>1, CloseDoes DEF Closes
<1>3. Listed(l, c)
    BY DEF Closes, Event, Core, Owned, Channels, StillUp
<1>4. Home(c) = l /\ Created(c)
    BY <1>3 DEF Core, Channels, LoopOf
<1> DEFINE p == pollers[l]
           q == DisableAll(p, c, FdOf[c])
<1>5. FdOf[c] = conns[c].fd /\ FdOf \in [Chans -> Fds] /\ FdOf' = FdOf
    BY <1>1, <1>2, FdIs, FdTyped, FdKept
<1>6. p \in PollerType /\ Consistent(p, FdOf)
    BY <1>1 DEF TypeOK, Core, Channels, Clean
<1>7. p.index[c] # "kNew" /\ c \in Chans
    BY <1>3 DEF Listed
<1>8. /\ q \in PollerType /\ Consistent(q, FdOf) /\ q.events[c] = {}
      /\ q.failed = p.failed /\ q.index[c] # "kNew" /\ SameOthers(q, p, c)
    BY <1>7, <1>5, <1>6, DisableDoes, ZenonT(40)
<1>9. pollers' = [pollers EXCEPT ![l] = q]
    BY <1>2, <1>5
<1> HIDE DEF q
<1>10. Touches(l, c) /\ pollers'[l] = q
    BY <1>1, <1>5, <1>8, <1>9, PollerChange DEF Core, Channels, Clean
<1> QED BY <1>3, <1>4, <1>8, <1>10 DEF Listed

\* connectDestroyed() of a connection that is not listed, or whose mask is not empty, fails.
Failing(l) == pollers' = [pollers EXCEPT ![l] = Fail(@, "removeChannel")]

LEMMA DestroyPoller ==
    ASSUME Order, Core, Running, NEW l \in Loops, NEW c \in Conns, Destroy(c, l), Home(c) = l
    PROVE  /\ \/ Touches(l, c) /\ ~Listed(l, c)' /\ pollers'[l].events[c] = {}
              \/ Failing(l)
           /\ StillUp(c) \/ (Listed(l, c) /\ pollers[l].events[c] = {}) => Touches(l, c)
<1> USE ConstantFacts
<1>1. TypeOK
    BY DEF Order
<1>2. Stays(c) /\ SameConns({c})
    BY <1>1, DestroyDoes
<1> DEFINE p == pollers[l]
           r == IF StillUp(c) THEN DisableAll(p, c, FdOf[c]) ELSE p
           q == RemoveChannel(r, c, FdOf[c])
<1>3. FdOf[c] = conns[c].fd /\ FdOf[c] \in Fds /\ FdOf \in [Chans -> Fds] /\ FdOf' = FdOf
    BY <1>1, <1>2, FdIs, FdTyped, FdKept
<1>4. p \in PollerType /\ Consistent(p, FdOf) /\ p.failed = "none"
    BY <1>1 DEF TypeOK, Core, Channels, Clean, Running
<1>5. StillUp(c) => Listed(l, c)
    BY DEF Core, Channels
<1>6. /\ r \in PollerType /\ Consistent(r, FdOf) /\ r.failed = "none" /\ SameOthers(r, p, c)
      /\ r.index[c] = "kNew" <=> p.index[c] = "kNew"
      /\ StillUp(c) => r.events[c] = {}
      /\ ~StillUp(c) => r = p
    <2>1. CASE StillUp(c)
        <3>1. p.index[c] # "kNew" /\ c \in Chans
            BY <1>5, <2>1 DEF Listed
        <3>2. r = DisableAll(p, c, FdOf[c])
            BY <2>1
        <3> HIDE DEF r
        <3> QED BY <1>3, <1>4, <2>1, <3>1, <3>2, DisableDoes, ZenonT(40)
    <2>2. CASE ~StillUp(c)
        BY <1>4, <2>2 DEF SameOthers
    <2> QED BY <2>1, <2>2
<1>7. pollers' = [pollers EXCEPT ![l] = q]
    BY <1>3, <1>4, <1>6 DEF Destroy
<1> HIDE DEF r
<1>8. /\ \/ q = Fail(r, "removeChannel")
         \/ /\ Consistent(q, FdOf) /\ q.failed = r.failed /\ q.index[c] = "kNew"
            /\ r.events[c] = {} /\ q.events = r.events /\ SameOthers(q, r, c)
      /\ r.index[c] # "kNew" /\ r.events[c] = {} => q.failed = r.failed
    BY <1>3, <1>6, RemoveDoes
<1>9. q \in PollerType /\ Fail(r, "removeChannel").failed = "removeChannel"
    BY <1>3, <1>6, PollerTyped DEF Fail, PollerType, Events
<1> HIDE DEF q
<1>10. CASE q # Fail(r, "removeChannel")
    <2>1. SameOthers(q, p, c)
        BY <1>6, <1>8, <1>10 DEF SameOthers
    <2>2. /\ \A m \in Loops : Consistent(pollers[m], FdOf')
          /\ Consistent(q, FdOf') /\ q.failed = pollers[l].failed
        BY <1>3, <1>4, <1>6, <1>8, <1>10 DEF Core, Channels, Clean
    <2>3. Touches(l, c) /\ pollers'[l] = q
        BY <1>1, <1>7, <1>9, <2>1, <2>2, PollerChange
    <2> QED BY <1>8, <1>10, <2>3 DEF Listed
<1>11. CASE q = Fail(r, "removeChannel")
    <2>1. ~(r.index[c] # "kNew" /\ r.events[c] = {})
        BY <1>6, <1>8, <1>9, <1>11
    <2>2. ~StillUp(c) /\ r = p /\ ~(Listed(l, c) /\ pollers[l].events[c] = {})
        BY <1>5, <1>6, <2>1 DEF Listed
    <2>3. Failing(l)
        BY <1>7, <1>11, <2>2 DEF Failing
    <2> QED BY <2>2, <2>3
<1> QED BY <1>10, <1>11

LEMMA NewConnectionPoller ==
    ASSUME Order, Core, Running, NEW c \in Conns, NEW fd \in Fds, NewConnection(c, fd)
    PROVE  /\ Touches(base, c) /\ ~Created(c) /\ Free(fd) /\ conns'[c].fd = fd
           /\ \A l \in Loops : ~Listed(l, c)
           /\ Home(c)' # base => pollers' = pollers
           /\ Home(c)' = base => Listed(base, c)'
<1> USE ConstantFacts
<1> DEFINE loop == IF pool = <<>> THEN base ELSE pool[next]
           ps == [m \in Loops |-> CloseFd(pollers[m], fd)]
<1>1. TypeOK /\ Stages
    BY DEF Order
<1>2. /\ Event(base, acceptor) /\ ~Created(c) /\ Free(fd)
      /\ conns'[c].loop = loop /\ conns'[c].fd = fd /\ SameConns({c})
      /\ loop = base => pollers' = [ps EXCEPT ![base] = Enable(@, c, fd, "IN")]
      /\ loop # base => pollers' = ps
    BY <1>1, NewConnectionDoes, ZenonT(40)
<1> HIDE DEF loop
<1>3. \A l \in Loops : ~Listed(l, c)
    BY <1>2 DEF Core, Channels
<1>4. \A l \in Loops : ~Stopped(l)
    <2>1. ~Stopped(base)
        BY <1>2 DEF Event, At, Stopped
    <2> QED BY <1>1, <2>1 DEF Stages
<1>5. fd # listenFd /\ \A d \in Conns : Alive(d) => conns[d].fd # fd
    BY <1>2 DEF Free
<1>6. \A l \in Loops : pollers[l].channels[fd] = NoChan /\ pollers[l].epoll[fd] = NoChan
    BY <1>1, <1>4, <1>5, Slot DEF Core
<1>7. \A l \in Loops : CloseFd(pollers[l], fd) = pollers[l]
    BY <1>1, <1>6, CloseFdDoes DEF TypeOK
<1>8. ps = pollers
    BY <1>1, <1>7 DEF TypeOK
<1> HIDE DEF ps
<1>9. /\ \A x \in Chans \ {c} : FdOf'[x] = FdOf[x]
      /\ FdOf'[c] = fd /\ FdOf' \in [Chans -> Fds]
    <2>1. \A d \in Conns \ {c} : conns'[d].fd = conns[d].fd
        BY <1>2 DEF SameConns
    <2>2. FdOf \in [Chans -> Fds]
        BY <1>1, FdTyped
    <2> QED BY <1>2, <2>1, <2>2 DEF FdOf, Conns
<1>10. \A m \in Loops : Consistent(pollers[m], FdOf')
    <2> SUFFICES ASSUME NEW m \in Loops PROVE Consistent(pollers[m], FdOf')
        OBVIOUS
    <2>1. pollers[m] \in PollerType /\ Consistent(pollers[m], FdOf)
        BY <1>1 DEF TypeOK, Core, Channels, Clean
    <2>2. \A x \in Chans : pollers[m].index[x] # "kNew" => FdOf'[x] = FdOf[x]
        BY <1>3, <1>9 DEF Listed
    <2> QED BY <2>1, <2>2, ConsistentMoved
<1>11. Home(c)' = loop
    BY <1>2 DEF Home
<1>12. CASE loop # base
    <2>1. pollers' = pollers
        BY <1>2, <1>8, <1>12
    <2>2. Touches(base, c)
        BY <1>10, <2>1 DEF Touches, Running, Clean, Steady
    <2> QED BY <1>2, <1>3, <1>11, <1>12, <2>1, <2>2
<1>13. CASE loop = base
    <2> DEFINE p == pollers[base]
               q == Enable(p, c, FdOf'[c], "IN")
    <2>1. p \in PollerType /\ Consistent(p, FdOf') /\ c \in Chans
        BY <1>1, <1>10 DEF TypeOK
    <2>2. p.index[c] = "kNew" => p.channels[FdOf'[c]] = NoChan
        BY <1>6, <1>9
    <2>3. /\ q \in PollerType /\ Consistent(q, FdOf')
          /\ q.failed = p.failed /\ q.index[c] # "kNew" /\ SameOthers(q, p, c)
        BY <1>9, <2>1, <2>2, EnableDoes
    <2>4. pollers' = [pollers EXCEPT ![base] = q]
        BY <1>2, <1>8, <1>9, <1>13
    <2> HIDE DEF q
    <2>5. Touches(base, c) /\ pollers'[base] = q
        BY <1>1, <1>10, <2>1, <2>3, <2>4, PollerChange
    <2> QED BY <1>2, <1>3, <1>11, <1>13, <2>3, <2>5 DEF Listed
<1> QED BY <1>12, <1>13

LEMMA DtorAcceptorPoller ==
    ASSUME Order, Core, Running, DtorAcceptor
    PROVE  Touches(base, acceptor)
<1> USE ConstantFacts
<1> DEFINE p == pollers[base]
           r == DisableAll(p, acceptor, FdOf[acceptor])
           q == RemoveChannel(r, acceptor, FdOf[acceptor])
<1>1. TypeOK
    BY DEF Order
<1>2. FdOf[acceptor] = listenFd /\ FdOf \in [Chans -> Fds] /\ FdOf' = FdOf
    BY <1>1, FdTyped DEF FdOf, DtorAcceptor
<1>3. p \in PollerType /\ Consistent(p, FdOf) /\ p.index[acceptor] # "kNew"
    BY <1>1 DEF TypeOK, Core, Channels, Clean, Listed, DtorAcceptor, Destroying
<1>4. /\ r \in PollerType /\ Consistent(r, FdOf) /\ r.events[acceptor] = {}
      /\ r.failed = p.failed /\ r.index[acceptor] # "kNew" /\ SameOthers(r, p, acceptor)
    <2>1. Clean /\ Listed(base, acceptor)
        BY DEF Core, Channels, DtorAcceptor, Destroying
    <2> QED BY <1>1, <2>1, ListedDisable
<1>5. pollers' = [pollers EXCEPT ![base] = q]
    BY <1>2 DEF DtorAcceptor
<1> HIDE DEF r
<1>6. /\ \/ q = Fail(r, "removeChannel")
         \/ /\ Consistent(q, FdOf) /\ q.failed = r.failed /\ q.index[acceptor] = "kNew"
            /\ r.events[acceptor] = {} /\ q.events = r.events /\ SameOthers(q, r, acceptor)
      /\ q.failed = r.failed
    BY <1>2, <1>4, RemoveDoes
<1>7. q \in PollerType /\ Fail(r, "removeChannel").failed = "removeChannel"
    BY <1>2, <1>4, PollerTyped DEF Fail, PollerType, Events
<1>8. q # Fail(r, "removeChannel")
    BY <1>3, <1>4, <1>6, <1>7 DEF Running
<1>9. SameOthers(q, p, acceptor) /\ q.failed = p.failed /\ Consistent(q, FdOf')
    BY <1>2, <1>4, <1>6, <1>8 DEF SameOthers
<1>10. \A m \in Loops : Consistent(pollers[m], FdOf')
    BY <1>2 DEF Core, Channels, Clean
<1> HIDE DEF q
<1> QED BY <1>1, <1>5, <1>7, <1>9, <1>10, PollerChange

-----------------------------------------------------------------------------
(* What a step does to the pointers: most steps leave them alone. *)

Idle ==
    /\ connections' = connections
    /\ \A l \in Loops : loops'[l].held \subseteq loops[l].held
    /\ \A l \in Loops : Queue(l)' = Queue(l) \/ (Queue(l)' = <<>> /\ Stopped(l)')
    /\ \A l \in {base} \cup Pool : Queue(base)' = Queue(base) \/ Stopped(l)'

IdleActions ==
    \/ \E n \in ThreadNums : Start(n)
    \/ QuitBase \/ DtorAcceptor \/ AcceptFails
    \/ \E i \in DOMAIN pool : DtorThread(i)
    \/ \E l \in Loops : \E c \in Conns : \E shut \in BOOLEAN : Message(l, c, shut)
    \/ \E l \in Loops : Moves(l)
    \/ \E c \in Conns : PeerCloses(c)
    \/ UNCHANGED svars

LEMMA Shapes ==
    ASSUME TypeOK, [Next]_svars
    PROVE  \/ Idle /\ IdleActions
           \/ \E c \in Conns, fd \in Fds : NewConnection(c, fd)
           \/ \E c \in Conns : DtorConnection(c)
           \/ \E l \in Loops : \E e, c \in Conns : Closes(l, e, c)
           \/ \E l \in Loops : RunEstablished(l) \/ RunDestroyed(l) \/ RunRemove(l)
<1> USE ConstantFacts
<1>1. LoopsTyped(loops)
    BY TypedLoops
<1>2. ASSUME UNCHANGED connections, SamePlaces, SameQueues PROVE Idle
    BY <1>2 DEF Idle, SamePlaces, SameQueues
<1>3. ASSUME UNCHANGED <<connections, loops>> PROVE Idle
    BY <1>3 DEF Idle, Queue
<1>4. ASSUME NEW l \in Loops, NEW c \in Conns, NEW shut \in BOOLEAN, Message(l, c, shut)
      PROVE  Idle
    BY <1>2, <1>4, MessageDoes
<1>5. ASSUME NEW l \in Loops, Moves(l) PROVE Idle
    <2>1. \A m \in Loops \ {l} : Queue(m)' = Queue(m) /\ loops'[m].held = loops[m].held
        BY <1>5, MovesDoes DEF Queue
    <2>2. Queue(l)' = Queue(l) \/ (Queue(l)' = <<>> /\ Stopped(l)' /\ l # base)
        BY <1>5, MovesDoes
    <2> QED BY <1>5, <2>1, <2>2, MovesDoes DEF Idle
<1>6. ASSUME DtorAcceptor PROVE Idle
    <2>1. /\ \A l \in Loops : loops'[l].held = loops[l].held /\ loops'[l].pc = loops[l].pc
          /\ \A l \in Loops \ {base} : Queue(l)' = Queue(l)
          /\ Queue(base)' = <<>>
        BY <1>1, <1>6 DEF DtorAcceptor, Queue, LoopsTyped, LoopType
    <2>2. \A l \in {base} \cup Pool : loops[l].pc = "stopped"
        BY <1>6 DEF DtorAcceptor
    <2>3. \A l \in {base} \cup Pool : Stopped(l)'
        BY <2>1, <2>2, PoolFacts DEF Stopped
    <2> QED BY <1>6, <2>1, <2>3 DEF Idle, DtorAcceptor
<1>7. ASSUME AcceptFails PROVE Idle
    BY <1>1, <1>2, <1>7, HandledEffect DEF AcceptFails, SamePlaces, SameQueues, Queue
<1>8. IdleActions => Idle
    BY <1>3, <1>4, <1>5, <1>6, <1>7
    DEF IdleActions, Start, QuitBase, DtorThread, PeerCloses, svars
<1> QED
    BY <1>8, ClosingSteps
    DEF IdleActions, Next, LoopSteps, AcceptSteps, DtorSteps, Moves

\* No step but that of accept() brings a connection to life.
LEMMA AliveIn ==
    ASSUME TypeOK, NEW c \in Conns
    PROVE  Alive(c) <=> Created(c) /\ \/ c \in connections
                                      \/ \E l \in Loops : c \in loops[l].held
                                      \/ \E l \in Loops : \E f \in FunctorType :
                                            In(Queue(l), f) /\ f.conn = c
<1>1. \A l \in Loops : \A i \in DOMAIN Queue(l) : Queue(l)[i] \in FunctorType
    BY QueueTyped, TypedLoops
<1> QED BY <1>1 DEF Alive, Queue, In

LEMMA AliveKept ==
    ASSUME TypeOK, TypeOK', Placed,
           \A c \in connections' : Alive(c),
           \A l \in Loops : \A c \in loops'[l].held : Alive(c),
           \A l \in Loops : \A f \in FunctorType :
              In(Queue(l)', f) => In(Queue(l), f) \/ Alive(f.conn),
           NEW c \in Conns, Alive(c)'
    PROVE  Alive(c)
<1>1. Created(c) /\ \/ c \in connections'
                    \/ \E l \in Loops : c \in loops'[l].held
                    \/ \E l \in Loops : \E f \in FunctorType :
                          In(Queue(l)', f) /\ f.conn = c
    <2>1. \A l \in Loops : \A i \in DOMAIN Queue(l)' : Queue(l)'[i] \in FunctorType
        <3>1. \A l \in Loops : loops'[l].queue \in Seq(FunctorType)
            BY DEF TypeOK, LoopType, FunctorType
        <3> QED BY <3>1 DEF Queue
    <2> QED BY <2>1 DEF Alive, Queue, In, Placed
<1> QED BY <1>1, AliveIn

LEMMA AliveStep ==
    ASSUME Order, [Next]_svars, \A c \in Conns : \A fd \in Fds : ~NewConnection(c, fd),
           NEW c \in Conns, Alive(c)'
    PROVE  Alive(c)
<1> USE ConstantFacts
<1>1. TypeOK /\ TypeOK' /\ LoopsTyped(loops) /\ Placed /\ Pointers
    BY TypedLoops, TypeStep, PlacedStep DEF Order
<1>2. /\ \A d \in connections : Alive(d)
      /\ \A l \in Loops : \A d \in loops[l].held : Alive(d)
      /\ \A d \in Conns : Home(d) \in Loops
    BY <1>1 DEF Pointers, Alive, TypeOK, ConnType, LoopType, Home
<1>3. \A l \in Loops : \A f \in FunctorType : In(Queue(l), f) => Alive(f.conn)
    <2> SUFFICES ASSUME NEW l \in Loops, NEW f \in FunctorType, In(Queue(l), f)
                 PROVE  Alive(f.conn)
        OBVIOUS
    <2>1. f.conn \in Conns /\ Created(f.conn)
        BY <1>1 DEF FunctorType, Pointers, Sent
    <2> QED BY <1>1, <2>1, QueuedAlive
<1>4. \A f : ~In(<<>>, f)
    BY DEF In
<1>5. CASE Idle
    BY <1>1, <1>2, <1>4, <1>5, AliveKept DEF Idle
<1>6. ASSUME NEW d \in Conns, DtorConnection(d) PROVE Alive(c)
    <2>1. /\ d \in connections /\ connections' = connections \ {d} /\ SamePlaces
          /\ Home(d) = base => SameQueues
          /\ Home(d) # base => Posted(Home(d), ToDestroy(d))
        BY <1>1, <1>6, DtorConnectionDoes
    <2>2. \A l \in Loops : \A f \in FunctorType :
              In(Queue(l)', f) => In(Queue(l), f) \/ Alive(f.conn)
        <3>1. Alive(ToDestroy(d).conn)
            BY <1>2, <2>1 DEF ToDestroy, Functor
        <3> QED BY <1>1, <1>2, <2>1, <3>1, PostedIn, FunctorTyped DEF SameQueues
    <2> QED BY <1>1, <1>2, <2>1, <2>2, AliveKept DEF SamePlaces
<1>7. ASSUME NEW l \in Loops, NEW e \in Conns, NEW d \in Conns, Closes(l, e, d) PROVE Alive(c)
    <2>1. /\ SamePlaces /\ Alive(d) /\ connections' \subseteq connections
          /\ Posted(Home(d), ToDestroy(d)) \/ Posted(base, ToRemove(d))
        BY <1>1, <1>7, CloseDoes DEF Closes
    <2>2. Alive(ToDestroy(d).conn) /\ Alive(ToRemove(d).conn)
        BY <2>1 DEF ToDestroy, ToRemove, Functor
    <2>3. \A m \in Loops : \A f \in FunctorType :
              In(Queue(m)', f) => In(Queue(m), f) \/ Alive(f.conn)
        <3>1. CASE Posted(Home(d), ToDestroy(d))
            BY <1>1, <1>2, <2>2, <3>1, PostedIn, FunctorTyped
        <3>2. CASE Posted(base, ToRemove(d))
            BY <1>1, <2>2, <3>2, PostedIn, FunctorTyped
        <3> QED BY <2>1, <3>1, <3>2
    <2> QED BY <1>1, <1>2, <2>1, <2>3, AliveKept DEF SamePlaces
<1>8. ASSUME NEW l \in Loops, RunEstablished(l) \/ RunDestroyed(l) PROVE Alive(c)
    <2> DEFINE d == Current(l)
    <2>1. /\ loops' = Called(l) /\ loops[l].pass > 0 /\ Queue(l) # <<>> /\ d \in Conns
          /\ Head(Queue(l)) \in {ToEstablish(d), ToDestroy(d)}
          /\ UNCHANGED connections
        BY <1>1, <1>8, RunEstablishedDoes, RunDestroyedDoes
    <2>2. Alive(d)
        BY <1>1, <1>3, <2>1, HeadIn, FunctorTyped DEF ToEstablish, ToDestroy, Functor
    <2>3. \A m \in Loops : \A x \in loops'[m].held : Alive(x)
        BY <1>1, <1>2, <2>1, <2>2, TakenEffect
    <2>4. \A m \in Loops : \A f \in FunctorType : In(Queue(m)', f) => In(Queue(m), f)
        BY <1>1, <2>1, TakenEffect, TakenIn
    <2> QED BY <1>1, <1>2, <2>1, <2>3, <2>4, AliveKept
<1>9. ASSUME NEW l \in Loops, RunRemove(l) PROVE Alive(c)
    <2> DEFINE d == Current(l)
    <2>1. /\ Queue(l) # <<>> /\ Head(Queue(l)) = ToRemove(d) /\ d \in Conns
          /\ connections' = connections \ {d}
          /\ TakenPosted(l, Home(d), ToDestroy(d)) /\ Home(d) \in Loops
          /\ \A m \in Loops : loops'[m].held \subseteq loops[m].held \cup {d}
        BY <1>1, <1>9, RunRemoveDoes
    <2>2. Alive(d) /\ Alive(ToDestroy(d).conn)
        BY <1>1, <1>3, <2>1, HeadIn, FunctorTyped DEF ToRemove, ToDestroy, Functor
    <2>3. \A m \in Loops : \A f \in FunctorType :
              In(Queue(m)', f) => In(Queue(m), f) \/ Alive(f.conn)
        BY <1>1, <2>1, <2>2, TakenPostedIn, FunctorTyped, ZenonT(40)
    <2> QED BY <1>1, <1>2, <2>1, <2>2, <2>3, AliveKept
<1> QED BY <1>1, <1>5, <1>6, <1>7, <1>8, <1>9, Shapes

LEMMA AliveNew ==
    ASSUME Order, NEW c \in Conns, NEW fd \in Fds, NewConnection(c, fd),
           NEW d \in Conns \ {c}, Alive(d)'
    PROVE  Alive(d)
<1> USE ConstantFacts
<1> DEFINE loop == IF pool = <<>> THEN base ELSE pool[next]
<1>1. TypeOK /\ TypeOK' /\ LoopsTyped(loops)
    BY TypedLoops, TypeStep DEF Order, Next, AcceptSteps
<1>2. /\ loop \in Loops /\ connections' = connections \cup {c} /\ SameConns({c}) /\ SamePlaces
      /\ SameQueues \/ Posted(loop, ToEstablish(c))
    BY <1>1, NewConnectionDoes
<1> HIDE DEF loop
<1>3. Created(d) /\ \/ d \in connections'
                    \/ \E l \in Loops : d \in loops'[l].held
                    \/ \E l \in Loops : \E f \in FunctorType :
                          In(Queue(l)', f) /\ f.conn = d
    <2>1. \A l \in Loops : \A i \in DOMAIN Queue(l)' : Queue(l)'[i] \in FunctorType
        <3>1. \A l \in Loops : loops'[l].queue \in Seq(FunctorType)
            BY <1>1 DEF TypeOK, LoopType, FunctorType
        <3> QED BY <3>1 DEF Queue
    <2>2. Created(d)
        BY <1>2 DEF SameConns, Created, Alive
    <2> QED BY <2>1, <2>2 DEF Alive, Queue, In
<1>4. ToEstablish(c).conn = c
    BY DEF ToEstablish, Functor
<1>5. \A l \in Loops : \A f \in FunctorType :
          In(Queue(l)', f) /\ f.conn = d => In(Queue(l), f)
    BY <1>1, <1>2, <1>4, PostedIn, FunctorTyped DEF SameQueues
<1> QED BY <1>1, <1>2, <1>3, <1>5, AliveIn DEF SamePlaces

LEMMA DistinctStep ==
    ASSUME Order, Distinct, [Next]_svars PROVE Distinct'
<1>1. TypeOK /\ Pointers
    BY DEF Order
<1>2. ASSUME NEW c \in Conns, NEW fd \in Fds, NewConnection(c, fd) PROVE Distinct'
    <2>1. Free(fd) /\ conns'[c].fd = fd /\ SameConns({c})
        BY <1>1, <1>2, NewConnectionDoes
    <2>2. \A d \in Conns \ {c} : Alive(d)' => Alive(d) /\ conns'[d].fd = conns[d].fd
        BY <1>2, <2>1, AliveNew DEF SameConns
    <2>3. \A d \in Conns \ {c} : Alive(d)' => conns'[d].fd # fd
        BY <2>1, <2>2 DEF Free
    <2> QED BY <2>1, <2>2, <2>3 DEF Distinct
<1>3. ASSUME \A c \in Conns : \A fd \in Fds : ~NewConnection(c, fd) PROVE Distinct'
    <2>1. Placed
        BY <1>1, <1>3, PlacedStep
    <2>2. \A c \in Conns : Alive(c)' => Alive(c)
        BY <1>3, AliveStep
    <2> QED BY <2>1, <2>2 DEF Distinct, Placed, Stays
<1> QED BY <1>2, <1>3

\* connectEstablished() is queued only before connectDestroyed(): who leaves the map has it
\* queued behind.
Ordered(c) ==
    \/ c \in connections
    \/ Stopped(Home(c))
    \/ Before(Queue(Home(c)), ToEstablish(c), ToDestroy(c))

LEMMA BeforePosted ==
    ASSUME LoopsTyped(loops), NEW l \in Loops, NEW f \in FunctorType, Posted(l, f),
           NEW m \in Loops, NEW c \in Conns, f # ToEstablish(c),
           \/ Before(Queue(m), ToEstablish(c), ToDestroy(c))
           \/ m = l /\ f = ToDestroy(c)
    PROVE  Before(Queue(m)', ToEstablish(c), ToDestroy(c))
<1>1. CASE m = l
    BY <1>1, QueueTyped, BeforeAppend DEF Posted
<1>2. CASE m # l
    BY <1>2 DEF Posted
<1> QED BY <1>1, <1>2

LEMMA BeforeTaken ==
    ASSUME LoopsTyped(loops), NEW l \in Loops, Queue(l) # <<>>, Taken(l),
           NEW m \in Loops, NEW f, NEW g, Before(Queue(m), f, g)
    PROVE  Before(Queue(m)', f, g)
<1>1. CASE m = l
    BY <1>1, QueueTyped, BeforeTail DEF Taken
<1>2. CASE m # l
    BY <1>2 DEF Taken
<1> QED BY <1>1, <1>2

LEMMA BeforeTakenPosted ==
    ASSUME LoopsTyped(loops), NEW l \in Loops, Queue(l) # <<>>,
           NEW k \in Loops, NEW f \in FunctorType, TakenPosted(l, k, f),
           NEW m \in Loops, NEW c \in Conns, f # ToEstablish(c),
           \/ Before(Queue(m), ToEstablish(c), ToDestroy(c))
           \/ m = k /\ f = ToDestroy(c)
    PROVE  Before(Queue(m)', ToEstablish(c), ToDestroy(c))
<1> DEFINE e == ToEstablish(c)
           d == ToDestroy(c)
           q == IF m = l THEN Tail(Queue(m)) ELSE Queue(m)
<1>1. q \in Seq(FunctorType) /\ (Before(Queue(m), e, d) => Before(q, e, d))
    BY QueueTyped, QueueTail, BeforeTail
<1>2. Queue(m)' = IF m = k THEN Append(q, f) ELSE q
    BY DEF TakenPosted
<1> HIDE DEF q, e, d
<1>3. f # e /\ (Before(q, e, d) \/ (m = k /\ f = d))
    BY <1>1 DEF e, d
<1>4. Before(Queue(m)', e, d)
    BY <1>1, <1>2, <1>3, BeforeAppend
<1> QED BY <1>4 DEF e, d

LEMMA OrderedStep ==
    ASSUME Order, \A c \in Conns : Ordered(c), [Next]_svars, NEW c \in Conns,
           NEW h \in Loops, h = Home(c)
    PROVE  Ordered(c)'
<1> USE ConstantFacts
<1>1. TypeOK /\ TypeOK' /\ LoopsTyped(loops) /\ Pointers /\ Stages
    BY TypedLoops, TypeStep DEF Order
<1>2. \A d \in Conns : Home(d) \in Loops
    BY <1>1 DEF TypeOK, ConnType, Home
<1>3. \A f, g : Before(<<>>, f, g)
    BY DEF Before
<1>4. ASSUME NEW d \in Conns, NEW fd \in Fds, NewConnection(d, fd) PROVE Ordered(c)'
    <2> DEFINE loop == IF pool = <<>> THEN base ELSE pool[next]
    <2>1. /\ loop \in Loops /\ connections' = connections \cup {d} /\ SameConns({d})
          /\ SamePlaces
          /\ SameQueues \/ Posted(loop, ToEstablish(d))
        BY <1>1, <1>4, NewConnectionDoes
    <2> HIDE DEF loop
    <2>2. CASE c = d
        BY <2>1, <2>2 DEF Ordered
    <2>3. CASE c # d
        <3>1. Home(c)' = h
            BY <2>1, <2>3 DEF SameConns, Home
        <3>2. ToEstablish(d) # ToEstablish(c)
            BY <2>3, OtherFunctors
        <3>3. Before(Queue(h), ToEstablish(c), ToDestroy(c)) =>
              Before(Queue(h)', ToEstablish(c), ToDestroy(c))
            BY <1>1, <2>1, <3>2, BeforePosted, FunctorTyped DEF SameQueues
        <3>4. Stopped(h)' <=> Stopped(h)
            BY <2>1 DEF SamePlaces, Stopped
        <3> QED BY <2>1, <3>1, <3>3, <3>4 DEF Ordered
    <2> QED BY <2>2, <2>3
<1> SUFFICES ASSUME \A d \in Conns : \A fd \in Fds : ~NewConnection(d, fd) PROVE Ordered(c)'
    BY <1>4
<1> DEFINE Fine(q) == Before(q, ToEstablish(c), ToDestroy(c))
<1>5. Home(c)' = h /\ (Stopped(h) => Stopped(h)')
    BY <1>1, <1>2, PlacedStep, StoppedStays DEF Placed, Stays, Home
<1>6. SUFFICES ASSUME ~Stopped(h), ~Stopped(h)', c \notin connections'
               PROVE  Fine(Queue(h)')
    BY <1>5 DEF Ordered
<1>7. c \in connections \/ Fine(Queue(h))
    BY <1>6 DEF Ordered
<1> HIDE DEF Fine
<1>8. CASE Idle
    BY <1>3, <1>5, <1>6, <1>7, <1>8 DEF Idle, Fine
<1>9. ASSUME NEW d \in Conns, DtorConnection(d) PROVE Fine(Queue(h)')
    <2>1. /\ connections' = connections \ {d} /\ Stopped(base)
          /\ Home(d) = base => SameQueues
          /\ Home(d) # base => Posted(Home(d), ToDestroy(d))
        BY <1>1, <1>9, DtorConnectionDoes DEF Destroying, Stopped
    <2>2. CASE Home(d) = base
        <3>1. c # d
            BY <1>6, <2>1, <2>2
        <3> QED BY <1>5, <1>6, <1>7, <2>1, <2>2, <3>1 DEF SameQueues
    <2>3. CASE Home(d) # base
        BY <1>1, <1>2, <1>5, <1>6, <1>7, <2>1, <2>3, BeforePosted, FunctorTyped, OtherFunctors
        DEF Fine
    <2> QED BY <2>2, <2>3
<1>10. ASSUME NEW l \in Loops, NEW e \in Conns, NEW d \in Conns, Closes(l, e, d)
       PROVE  Fine(Queue(h)')
    <2>1. \/ connections' = connections \ {d} /\ Posted(Home(d), ToDestroy(d))
          \/ connections' = connections /\ Posted(base, ToRemove(d))
        BY <1>1, <1>10, CloseDoes DEF Closes
    <2>2. CASE connections' = connections \ {d} /\ Posted(Home(d), ToDestroy(d))
        BY <1>1, <1>2, <1>5, <1>6, <1>7, <2>2, BeforePosted, FunctorTyped, OtherFunctors
        DEF Fine
    <2>3. CASE connections' = connections /\ Posted(base, ToRemove(d))
        BY <1>1, <1>5, <1>6, <1>7, <2>3, BeforePosted, FunctorTyped, OtherFunctors DEF Fine
    <2> QED BY <2>1, <2>2, <2>3
<1>11. ASSUME NEW l \in Loops, RunEstablished(l) \/ RunDestroyed(l) PROVE Fine(Queue(h)')
    <2>1. /\ loops' = Called(l) /\ loops[l].pass > 0 /\ Queue(l) # <<>>
          /\ UNCHANGED connections
        BY <1>1, <1>11, RunEstablishedDoes, RunDestroyedDoes
    <2> QED BY <1>1, <1>5, <1>6, <1>7, <2>1, TakenEffect, BeforeTaken DEF Fine
<1>12. ASSUME NEW l \in Loops, RunRemove(l) PROVE Fine(Queue(h)')
    <2> DEFINE d == Current(l)
    <2>1. /\ Queue(l) # <<>> /\ d \in Conns
          /\ connections' = connections \ {d}
          /\ TakenPosted(l, Home(d), ToDestroy(d)) /\ Home(d) \in Loops
        BY <1>1, <1>12, RunRemoveDoes
    <2> HIDE DEF d
    <2> QED BY <1>1, <1>5, <1>6, <1>7, <2>1, BeforeTakenPosted, FunctorTyped, OtherFunctors
            DEF Fine
<1> QED BY <1>1, <1>8, <1>9, <1>10, <1>11, <1>12, Shapes

-----------------------------------------------------------------------------
(* The channels, step by step, as long as nothing fails. *)

LEMMA StartPoller ==
    ASSUME Order, Core, Running, NEW n \in ThreadNums, Start(n)
    PROVE  Touches(base, acceptor) /\ Listed(base, acceptor)'
<1> USE ConstantFacts
<1> DEFINE p == pollers[base]
           q == Enable(p, acceptor, FdOf[acceptor], "IN")
<1>1. TypeOK /\ p = EmptyPoller
    BY DEF Order, Stages, Start
<1>2. FdOf[acceptor] = listenFd /\ FdOf \in [Chans -> Fds] /\ FdOf' = FdOf
    BY <1>1, FdTyped DEF FdOf, Start
<1>3. /\ p \in PollerType /\ Consistent(p, FdOf)
      /\ p.channels[FdOf[acceptor]] = NoChan
    <2>1. p \in PollerType /\ Consistent(p, FdOf)
        BY <1>1 DEF TypeOK, Core, Channels, Clean
    <2>2. EmptyPoller.channels[listenFd] = NoChan
        BY DEF EmptyPoller
    <2> QED BY <1>1, <1>2, <2>1, <2>2
<1>4. /\ q \in PollerType /\ Consistent(q, FdOf)
      /\ q.failed = p.failed /\ q.index[acceptor] # "kNew" /\ SameOthers(q, p, acceptor)
    <2>1. FdOf \in [Chans -> Fds]
        BY <1>2
    <2> QED BY <1>3, <2>1, EnableDoes
<1>5. pollers' = [pollers EXCEPT ![base] = q]
    BY <1>2 DEF Start
<1>6. Consistent(q, FdOf') /\ \A m \in Loops : Consistent(pollers[m], FdOf')
    BY <1>2, <1>4 DEF Core, Channels, Clean
<1> HIDE DEF q
<1>7. Touches(base, acceptor) /\ pollers'[base] = q
    BY <1>1, <1>4, <1>5, <1>6, PollerChange
<1> QED BY <1>4, <1>7 DEF Listed

LEMMA IdleChannels ==
    ASSUME Order, Core, Running, IdleActions
    PROVE  /\ Touches(base, acceptor) /\ Placed
           /\ server' = "running" => Listed(base, acceptor)'
           /\ \A c \in Conns : StillUp(c)' => StillUp(c)
<1> USE ConstantFacts
<1>1. TypeOK
    BY DEF Order
<1>2. ASSUME pollers' = pollers, FdOf' = FdOf PROVE Touches(base, acceptor)
    BY <1>2 DEF Core, Channels, Clean, Touches, Running, Steady
<1>3. ASSUME UNCHANGED <<conns, pollers>>, server' = "running" => server = "running"
      PROVE  /\ Touches(base, acceptor) /\ Placed
             /\ server' = "running" => Listed(base, acceptor)'
             /\ \A c \in Conns : StillUp(c)' => StillUp(c)
    <2>1. FdOf' = FdOf /\ Placed /\ \A c \in Conns : StillUp(c)' => StillUp(c)
        BY <1>3 DEF FdOf, Placed, Created, Stays, StillUp
    <2> QED BY <1>2, <1>3, <2>1 DEF Core, Channels, Listed
<1>4. ASSUME NEW n \in ThreadNums, Start(n)
      PROVE  /\ Touches(base, acceptor) /\ Placed
             /\ server' = "running" => Listed(base, acceptor)'
             /\ \A c \in Conns : StillUp(c)' => StillUp(c)
    BY <1>4, StartPoller DEF Start, Placed, Created, Stays, StillUp
<1>5. ASSUME DtorAcceptor
      PROVE  /\ Touches(base, acceptor) /\ Placed
             /\ server' = "running" => Listed(base, acceptor)'
             /\ \A c \in Conns : StillUp(c)' => StillUp(c)
    BY <1>5, DtorAcceptorPoller DEF DtorAcceptor, Placed, Created, Stays, StillUp
<1>6. ASSUME NEW l \in Loops, NEW c \in Conns, NEW shut \in BOOLEAN, Message(l, c, shut)
      PROVE  /\ Touches(base, acceptor) /\ Placed
             /\ server' = "running" => Listed(base, acceptor)'
             /\ \A d \in Conns : StillUp(d)' => StillUp(d)
    <2>1. /\ \/ conns'[c].state = conns[c].state
             \/ conns'[c].state = "kDisconnecting"
          /\ Stays(c) /\ SameConns({c}) /\ UNCHANGED <<pollers, server>> /\ Created(c)
        BY <1>1, <1>6, MessageDoes DEF Message, Alive
    <2>2. FdOf' = FdOf
        BY <2>1, FdKept
    <2>3. \A d \in Conns : StillUp(d)' => StillUp(d)
        BY <2>1 DEF SameConns, StillUp
    <2>4. Placed
        BY <2>1 DEF Placed, SameConns, Stays, Created
    <2> QED BY <1>2, <2>1, <2>2, <2>3, <2>4 DEF Core, Channels, Listed
<1>7. ASSUME NEW c \in Conns, PeerCloses(c)
      PROVE  /\ Touches(base, acceptor) /\ Placed
             /\ server' = "running" => Listed(base, acceptor)'
             /\ \A d \in Conns : StillUp(d)' => StillUp(d)
    <2>1. /\ \A d \in Conns : conns'[d].state = conns[d].state /\ Stays(d)
          /\ UNCHANGED <<pollers, server>>
        BY <1>1, <1>7 DEF PeerCloses, TypeOK, ConnType, Stays
    <2>2. FdOf' = FdOf
        BY <2>1 DEF FdOf, Stays, Conns
    <2>3. Placed /\ \A d \in Conns : StillUp(d)' => StillUp(d)
        BY <2>1 DEF StillUp, Placed, Created
    <2> QED BY <1>2, <2>1, <2>2, <2>3 DEF Core, Channels, Listed
<1>8. ASSUME NEW l \in Loops, Moves(l)
      PROVE  UNCHANGED <<conns, pollers, server>>
    BY <1>1, <1>8, MovesDoes
<1> QED BY <1>3, <1>4, <1>5, <1>6, <1>7, <1>8
        DEF IdleActions, QuitBase, AcceptFails, DtorThread, svars

LEMMA ChannelsKept ==
    ASSUME TypeOK, Channels, Placed, NEW l \in Loops, NEW x \in Chans, Touches(l, x),
           LoopOf(x) = l, x \in Conns => Created(x),
           server' = "running" => Listed(base, acceptor)',
           \A c \in Conns : StillUp(c)' => IF c = x THEN Listed(l, x)' ELSE StillUp(c)
    PROVE  Channels'
<1> USE ConstantFacts
<1>1. \A y \in Chans : LoopOf(y)' = LoopOf(y)
    BY DEF LoopOf, Placed, Stays, Home, Conns
<1>2. \A m \in Loops : \A y \in Chans : Listed(m, y)' => Listed(m, y) \/ (m = l /\ y = x)
    BY DEF Touches, Steady, Listed
<1>3. \A m \in Loops : \A y \in Chans : Listed(m, y)' => LoopOf(y)' = m
    BY <1>1, <1>2 DEF Channels
<1>4. \A m \in Loops : \A c \in Conns : Listed(m, c)' => Created(c)'
    BY <1>2 DEF Channels, Placed
<1>5. ASSUME NEW c \in Conns, StillUp(c)', NEW h \in Loops, h = Home(c)' PROVE Listed(h, c)'
    <2>1. h = Home(c)
        BY <1>5 DEF Placed, Stays, Home
    <2>2. CASE c = x
        BY <1>5, <2>1, <2>2 DEF LoopOf
    <2>3. CASE c # x
        <3>1. Listed(h, c)
            BY <1>5, <2>1, <2>3 DEF Channels
        <3> QED BY <2>3, <3>1 DEF Touches, Steady, Listed
    <2> QED BY <2>2, <2>3
<1>6. \A c \in Conns : Home(c)' \in Loops
    BY DEF Placed, Stays, Home, TypeOK, ConnType
<1>7. \A c \in Conns : StillUp(c)' => Listed(Home(c), c)'
    BY <1>5, <1>6 DEF Listed
<1> QED BY <1>3, <1>4, <1>7 DEF Channels, Touches

\* A step that destroys a connection, on its own loop.
Destroys(l, c) ==
    /\ c \in Conns /\ l = Home(c) /\ Created(c) /\ Destroy(c, l)
    /\ server' = server
    /\ \/ RunDestroyed(l) /\ c = Current(l)
       \/ DtorConnection(c) /\ l = base

LEMMA DestroyingSteps ==
    ASSUME Order
    PROVE  /\ \A l \in Loops : RunDestroyed(l) => Destroys(l, Current(l))
           /\ \A c \in Conns : DtorConnection(c) /\ Home(c) = base => Destroys(base, c)
<1> USE ConstantFacts
<1>1. TypeOK /\ Pointers /\ LoopsTyped(loops)
    BY TypedLoops DEF Order
<1>2. ASSUME NEW l \in Loops, RunDestroyed(l) PROVE Destroys(l, Current(l))
    <2> DEFINE c == Current(l)
    <2>1. /\ Queue(l) # <<>> /\ Head(Queue(l)) = ToDestroy(c) /\ c \in Conns
          /\ Destroy(c, l) /\ server' = server
        BY <1>1, <1>2, RunDestroyedDoes
    <2> HIDE DEF c
    <2>2. In(Queue(l), ToDestroy(c))
        BY <1>1, <2>1, HeadIn
    <2>3. Created(c) /\ l = Home(c)
        BY <1>1, <2>1, <2>2, FunctorTyped, SentFunctors, QueuedIsCreated DEF Pointers
    <2> QED BY <1>2, <2>1, <2>3 DEF Destroys, c
<1>3. ASSUME NEW c \in Conns, DtorConnection(c), Home(c) = base PROVE Destroys(base, c)
    BY <1>1, <1>3, DtorConnectionDoes DEF Destroys, Pointers
<1> QED BY <1>2, <1>3

LEMMA UntouchedChannels ==
    ASSUME TypeOK, Channels, UNCHANGED <<conns, pollers, server>> PROVE Channels'
BY DEF Channels, Clean, Listed, LoopOf, Home, Created, StillUp, FdOf

LEMMA ChannelsStep ==
    ASSUME Order, Core, Running, Running', [Next]_svars PROVE Channels'
<1> USE ConstantFacts
<1>1. TypeOK /\ Pointers /\ Channels /\ \A c \in Conns : Home(c) \in Loops
    BY DEF Order, Core, TypeOK, ConnType, Home
<1>2. ASSUME NEW c \in Conns, NEW fd \in Fds, NewConnection(c, fd) PROVE Channels'
    <2> DEFINE loop == IF pool = <<>> THEN base ELSE pool[next]
    <2>1. /\ loop \in Loops /\ conns'[c].loop = loop /\ SameConns({c}) /\ server' = server
          /\ loop # base => conns'[c].state = "kConnecting"
          /\ conns'[c].state \in {"kConnecting", "kConnected"}
        BY <1>1, <1>2, NewConnectionDoes
    <2>2. /\ Touches(base, c) /\ \A l \in Loops : ~Listed(l, c)
          /\ Home(c)' # base => pollers' = pollers
          /\ Home(c)' = base => Listed(base, c)'
        BY <1>2, NewConnectionPoller
    <2> HIDE DEF loop
    <2>3. \A d \in Conns \ {c} : Home(d)' = Home(d) /\ (Created(d)' <=> Created(d))
                                 /\ (StillUp(d)' <=> StillUp(d))
        BY <2>1 DEF SameConns, Home, Created, StillUp
    <2>4. Created(c)' /\ Home(c)' = loop
        BY <2>1 DEF Created, Home
    <2>5. \A m \in Loops : \A y \in Chans \ {c} : Listed(m, y)' <=> Listed(m, y)
        BY <2>2 DEF Touches, Steady, Listed
    <2>6. \A m \in Loops : Listed(m, c)' => m = base /\ loop = base
        BY <2>2, <2>4 DEF Touches, Steady, Listed
    <2>7. \A m \in Loops : \A y \in Chans : Listed(m, y)' => LoopOf(y)' = m
        <3>1. \A y \in Chans \ {c} : LoopOf(y)' = LoopOf(y)
            BY <2>3 DEF LoopOf, Conns
        <3>2. LoopOf(c)' = loop
            BY <2>4 DEF LoopOf
        <3> QED BY <1>1, <2>5, <2>6, <3>1, <3>2 DEF Channels
    <2>8. \A m \in Loops : \A d \in Conns : Listed(m, d)' => Created(d)'
        BY <1>1, <2>3, <2>4, <2>5 DEF Channels
    <2>9. server' = "running" => Listed(base, acceptor)'
        BY <1>1, <2>1, <2>5 DEF Channels
    <2>10. ASSUME NEW d \in Conns, NEW h \in Loops, h = Home(d)', StillUp(d)' PROVE Listed(h, d)'
        <3>1. CASE d = c
            BY <2>1, <2>2, <2>4, <2>10, <3>1 DEF StillUp
        <3>2. CASE d # c
            BY <1>1, <2>3, <2>5, <2>10, <3>2 DEF Channels
        <3> QED BY <3>1, <3>2
    <2>11. \A d \in Conns : Home(d)' \in Loops
        BY <1>1, <2>1, <2>3, <2>4
    <2>12. \A d \in Conns : StillUp(d)' => Listed(Home(d), d)'
        BY <2>10, <2>11 DEF Listed
    <2> QED BY <2>2, <2>7, <2>8, <2>9, <2>12 DEF Channels, Touches
<1> SUFFICES ASSUME \A c \in Conns : \A fd \in Fds : ~NewConnection(c, fd) PROVE Channels'
    BY <1>2
<1>3. Placed
    BY <1>1, PlacedStep
<1>4. CASE IdleActions
    <2>1. acceptor \in Chans /\ LoopOf(acceptor) = base /\ acceptor \notin Conns
        BY DEF LoopOf
    <2> QED BY <1>1, <1>3, <1>4, <2>1, IdleChannels, ChannelsKept
<1>5. ASSUME NEW l \in Loops, NEW c \in Conns, Touches(l, c), Home(c) = l, Created(c),
             SameConns({c}), StillUp(c)' => Listed(l, c)', server' = server
      PROVE  Channels'
    <2>1. \A d \in Conns : StillUp(d)' => IF d = c THEN Listed(l, c)' ELSE StillUp(d)
        BY <1>5 DEF SameConns, StillUp
    <2>2. Listed(base, acceptor)' <=> Listed(base, acceptor)
        BY <1>5 DEF Touches, Steady, Listed
    <2>3. LoopOf(c) = l
        BY <1>5 DEF LoopOf
    <2>4. server' = "running" => Listed(base, acceptor)'
        BY <1>1, <1>5, <2>2 DEF Channels
    <2> QED BY <1>1, <1>3, <1>5, <2>1, <2>3, <2>4, ChannelsKept
<1>6. ASSUME NEW l \in Loops, NEW e \in Conns, NEW c \in Conns, Closes(l, e, c) PROVE Channels'
    BY <1>1, <1>5, <1>6, ClosePoller, CloseDoes DEF Closes
<1>7. ASSUME NEW l \in Loops, RunEstablished(l) PROVE Channels'
    BY <1>1, <1>5, <1>7, RunEstablishedPoller, RunEstablishedDoes
<1>8. ASSUME NEW l \in Loops, NEW c \in Conns, Destroys(l, c) PROVE Channels'
    <2>1. SameConns({c}) /\ ~StillUp(c)'
        BY <1>1, <1>8, DestroyDoes DEF Destroys, StillUp
    <2>2. ~Failing(l)
        BY <1>1 DEF Failing, Fail, Running, TypeOK, PollerType
    <2> QED BY <1>5, <1>8, <2>1, <2>2, DestroyPoller DEF Destroys
<1>9. ASSUME NEW c \in Conns, DtorConnection(c) PROVE Channels'
    <2>1. CASE Home(c) = base
        BY <1>8, <1>9, <2>1, DestroyingSteps
    <2>2. CASE Home(c) # base
        BY <1>1, <1>3, <1>9, <2>2, DtorConnectionDoes, UntouchedChannels
    <2> QED BY <2>1, <2>2
<1>10. ASSUME NEW l \in Loops, RunRemove(l) PROVE Channels'
    BY <1>1, <1>3, <1>10, RunRemoveDoes, UntouchedChannels
<1>11. ASSUME NEW l \in Loops, RunDestroyed(l) PROVE Channels'
    BY <1>1, <1>8, <1>11, DestroyingSteps, RunDestroyedDoes
<1> QED BY <1>1, <1>4, <1>6, <1>7, <1>9, <1>10, <1>11, Shapes

LEMMA ListedStep ==
    ASSUME Order, Core, Running, Running', [Next]_svars,
           \A d \in Conns : \A fd \in Fds : ~NewConnection(d, fd),
           NEW h \in Loops, NEW c \in Conns, Listed(h, c)'
    PROVE  /\ Listed(h, c) \/ (RunEstablished(h) /\ c = Current(h))
           /\ ~Destroys(h, c)
<1> USE ConstantFacts
<1>1. TypeOK /\ c # acceptor
    BY DEF Order
<1>2. \A l \in Loops : ~Failing(l)
    BY <1>1 DEF Failing, Fail, Running, TypeOK, PollerType
<1>3. ASSUME NEW l \in Loops, NEW x \in Chans, Touches(l, x), l # h \/ x # c
      PROVE  Listed(h, c)
    BY <1>3 DEF Touches, Steady, Listed
<1>4. CASE IdleActions
    <2>1. Listed(h, c)
        BY <1>1, <1>3, <1>4, IdleChannels
    <2>2. ~Destroys(h, c)
        BY <1>1, <1>2, DestroyPoller DEF Destroys
    <2> QED BY <2>1, <2>2
<1>5. ASSUME NEW l \in Loops, NEW e \in Conns, NEW d \in Conns, Closes(l, e, d)
      PROVE  Listed(h, c)
    BY <1>3, <1>5, ClosePoller
<1>6. ASSUME NEW l \in Loops, RunEstablished(l)
      PROVE  Listed(h, c) \/ (RunEstablished(h) /\ c = Current(h))
    BY <1>3, <1>6, RunEstablishedPoller
<1>7. ~Destroys(h, c)
    BY <1>1, <1>2, DestroyPoller DEF Destroys
<1>8. ASSUME NEW l \in Loops, NEW d \in Conns, Destroys(l, d) PROVE Listed(h, c)
    BY <1>2, <1>3, <1>7, <1>8, DestroyPoller DEF Destroys
<1>9. ASSUME NEW d \in Conns, DtorConnection(d) PROVE Listed(h, c)
    <2>1. CASE Home(d) = base
        BY <1>8, <1>9, <2>1, DestroyingSteps
    <2>2. CASE Home(d) # base
        BY <1>1, <1>9, <2>2, DtorConnectionDoes DEF Listed
    <2> QED BY <2>1, <2>2
<1>10. ASSUME NEW l \in Loops, RunRemove(l) PROVE Listed(h, c)
    BY <1>1, <1>10, RunRemoveDoes DEF Listed
<1>11. ASSUME NEW l \in Loops, RunDestroyed(l) PROVE Listed(h, c)
    BY <1>1, <1>8, <1>11, DestroyingSteps, RunDestroyedDoes
<1> QED BY <1>1, <1>4, <1>5, <1>6, <1>7, <1>9, <1>10, <1>11, Shapes

LEMMA KeptStep ==
    ASSUME Order, Core, Running, Running', [Next]_svars,
           NEW c \in Conns, NEW h \in Loops, h = Home(c)', Listed(h, c)', ~Stopped(h)'
    PROVE  \/ c \in connections'
           \/ In(Queue(base)', ToRemove(c))
           \/ In(Queue(h)', ToDestroy(c))
<1> USE ConstantFacts
<1> DEFINE Keeps == \/ c \in connections'
                    \/ In(Queue(base)', ToRemove(c))
                    \/ In(Queue(h)', ToDestroy(c))
<1>1. TypeOK /\ LoopsTyped(loops) /\ Stages /\ Pointers /\ \A d \in Conns : Home(d) \in Loops
    BY TypedLoops DEF Order, TypeOK, ConnType, Home
<1>2. ASSUME NEW d \in Conns, NEW fd \in Fds, NewConnection(d, fd) PROVE Keeps
    <2> DEFINE loop == IF pool = <<>> THEN base ELSE pool[next]
    <2>1. /\ loop \in Loops /\ connections' = connections \cup {d} /\ SameConns({d})
          /\ SamePlaces
          /\ SameQueues \/ Posted(loop, ToEstablish(d))
        BY <1>1, <1>2, NewConnectionDoes
    <2> HIDE DEF loop
    <2>2. SUFFICES ASSUME c # d PROVE Keeps
        BY <2>1
    <2>3. h = Home(c) /\ ~Stopped(h) /\ Listed(h, c)
        <3>1. Listed(h, c)
            BY <1>2, <2>2, NewConnectionPoller DEF Touches, Steady, Listed
        <3> QED BY <2>1, <2>2, <3>1 DEF SameConns, Home, SamePlaces, Stopped
    <2>4. Kept(c)
        BY <2>3 DEF Core, Owned
    <2>5. \A m \in Loops : \A f : In(Queue(m), f) => In(Queue(m)', f)
        BY <1>1, <2>1, PostedIn, FunctorTyped DEF SameQueues
    <2> QED BY <2>1, <2>3, <2>4, <2>5 DEF Kept
<1> SUFFICES ASSUME \A d \in Conns : \A fd \in Fds : ~NewConnection(d, fd) PROVE Keeps
    BY <1>2
<1>3. h = Home(c) /\ ~Stopped(h)
    BY <1>1, PlacedStep, StoppedStays DEF Placed, Stays, Home
<1>4. Listed(h, c) \/ (RunEstablished(h) /\ c = Current(h))
    BY ListedStep
<1>5. CASE RunEstablished(h) /\ c = Current(h)
    <2>1. /\ loops' = Called(h) /\ loops[h].pass > 0 /\ Queue(h) # <<>>
          /\ Head(Queue(h)) = ToEstablish(c)
          /\ UNCHANGED connections
        BY <1>1, <1>5, RunEstablishedDoes
    <2>2. Taken(h)
        BY <1>1, <2>1, TakenEffect
    <2>3. CASE c \in connections
        BY <2>1, <2>3
    <2>4. CASE Before(Queue(h), ToEstablish(c), ToDestroy(c))
        <3>1. Queue(h) \in Seq(FunctorType)
            BY <1>1, QueueTyped
        <3>2. In(Tail(Queue(h)), ToDestroy(c))
            BY <2>1, <2>4, <3>1, BeforeTail
        <3> QED BY <2>2, <3>2 DEF Taken
    <2> QED BY <1>3, <2>3, <2>4 DEF Core, Owned
<1> SUFFICES ASSUME Listed(h, c) PROVE Keeps
    BY <1>4, <1>5
<1>6. \/ c \in connections
      \/ In(Queue(base), ToRemove(c))
      \/ In(Queue(h), ToDestroy(c))
    BY <1>3 DEF Core, Owned, Kept
<1>7. h \in {base} \cup Pool
    BY <1>1, <1>3 DEF Core, Channels, Pointers
<1>8. CASE Idle
    BY <1>6, <1>7, <1>8 DEF Idle
<1>9. ASSUME NEW d \in Conns, DtorConnection(d) PROVE Keeps
    <2>1. CASE Home(d) = base
        <3>1. SameQueues /\ connections' = connections \ {d}
            BY <1>1, <1>9, <2>1, DtorConnectionDoes
        <3>2. c # d
            BY <1>3, <1>9, <2>1, DestroyingSteps, ListedStep
        <3> QED BY <1>6, <3>1, <3>2 DEF SameQueues
    <2>2. CASE Home(d) # base
        <3>1. Posted(Home(d), ToDestroy(d)) /\ connections' = connections \ {d}
            BY <1>1, <1>9, <2>2, DtorConnectionDoes
        <3> QED BY <1>1, <1>3, <1>6, <3>1, PostedIn, FunctorTyped
    <2> QED BY <2>1, <2>2
<1>10. ASSUME NEW l \in Loops, NEW e \in Conns, NEW d \in Conns, Closes(l, e, d) PROVE Keeps
    <2>1. \/ connections' = connections \ {d} /\ Posted(Home(d), ToDestroy(d))
          \/ connections' = connections /\ Posted(base, ToRemove(d))
        BY <1>1, <1>10, CloseDoes DEF Closes
    <2>2. CASE connections' = connections \ {d} /\ Posted(Home(d), ToDestroy(d))
        BY <1>1, <1>3, <1>6, <2>2, PostedIn, FunctorTyped
    <2>3. CASE connections' = connections /\ Posted(base, ToRemove(d))
        BY <1>1, <1>6, <2>3, PostedIn, FunctorTyped
    <2> QED BY <2>1, <2>2, <2>3
<1>11. ASSUME NEW l \in Loops, RunEstablished(l) \/ RunDestroyed(l) PROVE Keeps
    <2> DEFINE d == Current(l)
    <2>1. /\ loops' = Called(l) /\ loops[l].pass > 0 /\ Queue(l) # <<>>
          /\ UNCHANGED connections
          /\ Head(Queue(l)) \in {ToEstablish(d), ToDestroy(d)}
          /\ Head(Queue(l)) = ToDestroy(d) => RunDestroyed(l)
        BY <1>1, <1>11, RunEstablishedDoes, RunDestroyedDoes, OtherFunctors
    <2> HIDE DEF d
    <2>2. ~(l = h /\ Head(Queue(l)) = ToDestroy(c))
        <3> SUFFICES ASSUME l = h, Head(Queue(l)) = ToDestroy(c) PROVE FALSE
            OBVIOUS
        <3>1. c = d
            BY <2>1, OtherFunctors
        <3>2. Destroys(h, c)
            BY <2>1, <3>1, DestroyingSteps DEF d
        <3> QED BY <3>2, ListedStep
    <2>3. Head(Queue(l)) # ToRemove(c)
        BY <2>1, OtherFunctors
    <2>4. Taken(l)
        BY <1>1, <2>1, TakenEffect
    <2> QED BY <1>1, <1>6, <2>1, <2>2, <2>3, <2>4, TakenIn
<1>12. ASSUME NEW l \in Loops, RunRemove(l) PROVE Keeps
    <2> DEFINE d == Current(l)
    <2>1. /\ Queue(l) # <<>> /\ Head(Queue(l)) = ToRemove(d) /\ d \in Conns
          /\ connections' = connections \ {d}
          /\ TakenPosted(l, Home(d), ToDestroy(d)) /\ Home(d) \in Loops
        BY <1>1, <1>12, RunRemoveDoes
    <2> HIDE DEF d
    <2>2. CASE c = d
        BY <1>1, <1>3, <2>1, <2>2, TakenPostedIn, FunctorTyped
    <2>3. CASE c # d
        BY <1>1, <1>6, <2>1, <2>3, TakenPostedIn, FunctorTyped, OtherFunctors
    <2> QED BY <2>2, <2>3
<1> QED BY <1>1, <1>8, <1>9, <1>10, <1>11, <1>12, Shapes

LEMMA BatchStep ==
    ASSUME TypeOK, [Next]_svars, NEW l \in Loops
    PROVE  loops'[l].batch \subseteq loops[l].batch
           \/ (Poll(l) /\ loops'[l].batch \subseteq Registered(l))
<1> USE ConstantFacts
<1>1. LoopsTyped(loops)
    BY TypedLoops
<1>2. ASSUME SameBatches PROVE loops'[l].batch \subseteq loops[l].batch
    BY <1>2 DEF SameBatches
<1>3. ASSUME NEW m \in Loops, NEW x, HandledIn(m, x)
      PROVE  loops'[l].batch \subseteq loops[l].batch
    BY <1>3 DEF HandledIn
<1>4. ASSUME NEW c \in Conns, DtorConnection(c) PROVE loops'[l].batch \subseteq loops[l].batch
    BY <1>2, <1>4, DtorConnectionDoes
<1>5. ASSUME NEW c \in Conns, NEW fd \in Fds, NewConnection(c, fd)
      PROVE  loops'[l].batch \subseteq loops[l].batch
    BY <1>3, <1>5, NewConnectionDoes
<1>6. ASSUME NEW m \in Loops, NEW e \in Conns, NEW c \in Conns, Closes(m, e, c)
      PROVE  loops'[l].batch \subseteq loops[l].batch
    BY <1>3, <1>6, CloseDoes DEF Closes
<1>7. ASSUME NEW m \in Loops, NEW c \in Conns, NEW shut \in BOOLEAN, Message(m, c, shut)
      PROVE  loops'[l].batch \subseteq loops[l].batch
    BY <1>3, <1>7, MessageDoes
<1>8. ASSUME NEW m \in Loops, RunEstablished(m) \/ RunDestroyed(m) \/ RunRemove(m)
      PROVE  loops'[l].batch \subseteq loops[l].batch
    BY <1>1, <1>2, <1>8, RunEstablishedDoes, RunDestroyedDoes, RunRemoveDoes, TakenEffect
<1>9. ASSUME NEW m \in Loops, Moves(m)
      PROVE  loops'[l].batch \subseteq loops[l].batch
             \/ (Poll(l) /\ loops'[l].batch \subseteq Registered(l))
    BY <1>9, MovesDoes
<1>10. ASSUME DtorAcceptor PROVE loops'[l].batch \subseteq loops[l].batch
    BY <1>1, <1>10 DEF DtorAcceptor, LoopsTyped, LoopType
<1>11. ASSUME AcceptFails PROVE loops'[l].batch \subseteq loops[l].batch
    BY <1>1, <1>11, HandledEffect DEF AcceptFails
<1>12. ASSUME UNCHANGED loops PROVE loops'[l].batch \subseteq loops[l].batch
    BY <1>12
<1> QED
    BY <1>4, <1>5, <1>6, <1>7, <1>8, <1>9, <1>10, <1>11, <1>12, ClosingSteps
    DEF Next, LoopSteps, AcceptSteps, DtorSteps, Moves, Start, QuitBase, DtorThread,
        PeerCloses, svars

LEMMA ListedStays ==
    ASSUME Order, Core, Running, Running', [Next]_svars,
           NEW h \in Loops, NEW c \in Conns, Listed(h, c), ~Destroys(h, c)
    PROVE  Listed(h, c)'
<1> USE ConstantFacts
<1>1. TypeOK /\ c # acceptor
    BY DEF Order
<1>2. \A l \in Loops : ~Failing(l)
    BY <1>1 DEF Failing, Fail, Running, TypeOK, PollerType
<1>3. ASSUME NEW l \in Loops, NEW x \in Chans, Touches(l, x), l # h \/ x # c
      PROVE  Listed(h, c)'
    BY <1>3 DEF Touches, Steady, Listed
<1>4. CASE IdleActions
    BY <1>1, <1>3, <1>4, IdleChannels
<1>5. ASSUME NEW l \in Loops, NEW e \in Conns, NEW d \in Conns, Closes(l, e, d)
      PROVE  Listed(h, c)'
    BY <1>3, <1>5, ClosePoller
<1>6. ASSUME NEW l \in Loops, RunEstablished(l) PROVE Listed(h, c)'
    BY <1>3, <1>6, RunEstablishedPoller, ZenonT(40)
<1>7. ASSUME NEW l \in Loops, NEW d \in Conns, Destroys(l, d) PROVE Listed(h, c)'
    BY <1>2, <1>3, <1>7, DestroyPoller DEF Destroys
<1>8. ASSUME NEW d \in Conns, DtorConnection(d) PROVE Listed(h, c)'
    <2>1. CASE Home(d) = base
        BY <1>7, <1>8, <2>1, DestroyingSteps
    <2>2. CASE Home(d) # base
        BY <1>1, <1>8, <2>2, DtorConnectionDoes DEF Listed
    <2> QED BY <2>1, <2>2
<1>9. ASSUME NEW l \in Loops, RunRemove(l) PROVE Listed(h, c)'
    BY <1>1, <1>9, RunRemoveDoes DEF Listed
<1>10. ASSUME NEW l \in Loops, RunDestroyed(l) PROVE Listed(h, c)'
    BY <1>1, <1>7, <1>10, DestroyingSteps, RunDestroyedDoes
<1>11. ASSUME NEW d \in Conns, NEW fd \in Fds, NewConnection(d, fd) PROVE Listed(h, c)'
    BY <1>3, <1>11, NewConnectionPoller
<1> QED BY <1>1, <1>4, <1>5, <1>6, <1>8, <1>9, <1>10, <1>11, Shapes

LEMMA OwnedStep ==
    ASSUME Order, Core, Running, Running', [Next]_svars PROVE Owned'
<1> USE ConstantFacts
<1>1. TypeOK /\ TypeOK' /\ Stages
    BY TypeStep DEF Order
<1>2. \A c \in Conns : Home(c) \in Loops /\ Home(c)' \in Loops
    BY <1>1 DEF TypeOK, ConnType, Home
<1>3. ASSUME NEW c \in Conns, NEW h \in Loops, h = Home(c)', Listed(h, c)'
      PROVE  \/ c \in connections' \/ In(Queue(base)', ToRemove(c))
             \/ In(Queue(h)', ToDestroy(c)) \/ Stopped(h)'
    BY <1>3, KeptStep
<1>4. \A c \in Conns : Listed(Home(c), c)' => Kept(c)' \/ Stopped(Home(c))'
    BY <1>2, <1>3 DEF Listed, Kept, Queue, Stopped, Home, ToDestroy, ToRemove, Functor
<1>5. ASSUME NEW l \in Loops, NEW c \in Conns, c \in loops'[l].batch PROVE Listed(l, c)'
    <2>1. CASE Poll(l) /\ c \in Registered(l)
        <3>1. Listed(l, c)
            BY <2>1 DEF Registered, Core, Channels, Clean, Consistent, Listed
        <3>2. pollers' = pollers
            BY <2>1 DEF Poll
        <3> QED BY <3>1, <3>2 DEF Listed
    <2>2. CASE c \in loops[l].batch
        <3>1. Listed(l, c)
            BY <2>2 DEF Core, Owned
        <3>2. loops[l].pc = "dispatch"
            BY <1>1, <2>2 DEF Stages
        <3>3. ~Destroys(l, c)
            BY <3>2 DEF Destroys, RunDestroyed, Calling, At, DtorConnection, Destroying
        <3> QED BY <3>1, <3>3, ListedStays
    <2> QED BY <1>1, <1>5, <2>1, <2>2, BatchStep
<1>6. \A c \in Conns : Ordered(c) <=> \/ c \in connections \/ Stopped(Home(c))
                                      \/ Before(Queue(Home(c)), ToEstablish(c), ToDestroy(c))
    BY DEF Ordered
<1>7. \A c \in Conns : Ordered(c)'
    BY <1>2, <1>6, OrderedStep DEF Core, Owned
<1> QED BY <1>4, <1>5, <1>7 DEF Owned, Ordered

LEMMA CoreStep ==
    ASSUME Order, Core, Running, Running', [Next]_svars PROVE Core'
<1>1. Distinct'
    BY DistinctStep DEF Core
<1> QED BY <1>1, ChannelsStep, OwnedStep DEF Core

LEMMA CoreInit == Init => Core /\ Running
<1> SUFFICES ASSUME Init PROVE Core /\ Running
    OBVIOUS
<1> USE ConstantFacts
<1>1. \A l \in Loops : pollers[l] = EmptyPoller /\ loops[l].batch = {}
    BY DEF Init
<1>2. \A c \in Conns : conns[c].state = "none"
    BY DEF Init
<1>3. \A at : Consistent(EmptyPoller, at)
    BY DEF Consistent, EmptyPoller
<1>4. \A l \in Loops : \A x \in Chans : ~Listed(l, x)
    BY <1>1 DEF Listed, EmptyPoller
<1>5. \A l \in Loops : loops[l].queue = <<>>
    BY DEF Init
<1>6. \A c \in Conns : Home(c) = base
    BY DEF Init, Home
<1>7. Channels
    BY <1>1, <1>2, <1>3, <1>4 DEF Channels, Clean, StillUp, Init
<1>8. \A f, g : Before(<<>>, f, g)
    BY DEF Before
<1>9. Owned
    BY <1>1, <1>4, <1>5, <1>6, <1>8 DEF Owned, Queue
<1>10. Distinct
    BY <1>2 DEF Distinct, Alive, Created
<1>11. Running
    BY <1>1 DEF Running, EmptyPoller
<1> QED BY <1>7, <1>9, <1>10, <1>11 DEF Core

-----------------------------------------------------------------------------
(* An assert() that fails ends the process: it finds no dangling channel either. *)

Safe == IF Running THEN Core ELSE NoDanglingChannel /\ ReusedFdIsClean

LEMMA CoreIsSafe ==
    ASSUME Order, Core, Running PROVE NoDanglingChannel /\ ReusedFdIsClean
<1> USE ConstantFacts
<1>1. TypeOK /\ Stages
    BY DEF Order
<1>2. ReusedFdIsClean
    BY DEF ReusedFdIsClean, Running
<1>3. ASSUME NEW l \in Loops, NEW c \in Conns,
             \/ c \in loops[l].batch
             \/ loops[l].pc # "stopped" /\ \E fd \in Fds : pollers[l].channels[fd] = c
      PROVE  Alive(c)
    <2>1. ~Stopped(l)
        BY <1>1, <1>3 DEF Stages, Stopped
    <2>2. Listed(l, c)
        <3>1. CASE c \in loops[l].batch
            BY <3>1 DEF Core, Owned
        <3>2. ASSUME NEW fd \in Fds, pollers[l].channels[fd] = c PROVE Listed(l, c)
            BY <3>2 DEF Core, Channels, Clean, Consistent, Listed
        <3> QED BY <1>3, <3>1, <3>2
    <2> QED BY <1>1, <2>1, <2>2, ListedAlive DEF Core
<1> QED BY <1>2, <1>3 DEF NoDanglingChannel

LEMMA FailingStep ==
    ASSUME Order, Core, Running, ~Running', [Next]_svars
    PROVE  \E l \in Loops : \E c \in Conns : Destroys(l, c) /\ Failing(l)
<1>1. TypeOK
    BY DEF Order
<1>2. ASSUME pollers' = pollers PROVE FALSE
    BY <1>2 DEF Running
<1>3. ASSUME NEW l, NEW x, Touches(l, x) PROVE FALSE
    BY <1>3 DEF Touches
<1>4. ASSUME NEW c \in Conns, NEW fd \in Fds, NewConnection(c, fd) PROVE FALSE
    BY <1>3, <1>4, NewConnectionPoller
<1>5. ASSUME NEW l \in Loops, NEW e \in Conns, NEW c \in Conns, Closes(l, e, c) PROVE FALSE
    BY <1>3, <1>5, ClosePoller
<1>6. ASSUME NEW l \in Loops, RunEstablished(l) PROVE FALSE
    BY <1>3, <1>6, RunEstablishedPoller
<1>7. ASSUME NEW l \in Loops, RunRemove(l) PROVE FALSE
    BY <1>1, <1>2, <1>7, RunRemoveDoes
<1>8. ASSUME IdleActions PROVE FALSE
    BY <1>3, <1>8, IdleChannels
<1>9. ASSUME NEW l \in Loops, NEW c \in Conns, Destroys(l, c)
      PROVE  \E k \in Loops : \E d \in Conns : Destroys(k, d) /\ Failing(k)
    BY <1>3, <1>9, DestroyPoller DEF Destroys
<1>10. ASSUME NEW c \in Conns, DtorConnection(c)
       PROVE  \E k \in Loops : \E d \in Conns : Destroys(k, d) /\ Failing(k)
    <2>1. CASE Home(c) = base
        BY <1>9, <1>10, <2>1, DestroyingSteps, ConstantFacts
    <2>2. CASE Home(c) # base
        BY <1>1, <1>2, <1>10, <2>2, DtorConnectionDoes
    <2> QED BY <2>1, <2>2
<1>11. ASSUME NEW l \in Loops, RunDestroyed(l)
       PROVE  \E k \in Loops : \E d \in Conns : Destroys(k, d) /\ Failing(k)
    BY <1>1, <1>9, <1>11, DestroyingSteps, RunDestroyedDoes
<1> QED BY <1>1, <1>4, <1>5, <1>6, <1>7, <1>8, <1>10, <1>11, Shapes

LEMMA StillAlive ==
    ASSUME TypeOK, Placed, connections \subseteq connections',
           \A m \in Loops : loops[m].held \subseteq loops'[m].held,
           NEW x \in Conns, NEW l \in Loops, x \in loops'[l].held,
           \A m \in Loops : \A f \in FunctorType :
              In(Queue(m), f) => In(Queue(m)', f) \/ f.conn = x,
           NEW d \in Conns, Alive(d)
    PROVE  Alive(d)'
<1>1. Created(d)'
    BY DEF Alive, Placed
<1>2. CASE d \in connections \/ \E m \in Loops : d \in loops[m].held
    BY <1>1, <1>2 DEF Alive
<1>3. ASSUME NEW m \in Loops, NEW f \in FunctorType, In(Queue(m), f), f.conn = d
      PROVE  Alive(d)'
    <2>1. CASE d = x
        BY <1>1, <2>1 DEF Alive
    <2>2. CASE In(Queue(m)', f)
        BY <1>1, <1>3, <2>2 DEF Alive, In, Queue
    <2> QED BY <1>3, <2>1, <2>2
<1> QED BY <1>2, <1>3, AliveIn

LEMMA FailingIsSafe ==
    ASSUME Order, Core, Running, ~Running', [Next]_svars
    PROVE  NoDanglingChannel' /\ ReusedFdIsClean'
<1> USE ConstantFacts
<1>1. TypeOK /\ LoopsTyped(loops) /\ Pointers
    BY TypedLoops DEF Order
<1>2. PICK l \in Loops : \E c \in Conns : Destroys(l, c) /\ Failing(l)
    BY FailingStep
<1>3. PICK c \in Conns : Destroys(l, c) /\ Failing(l)
    BY <1>2
<1>4. Placed
    BY <1>1, <1>3, DestroyPlaces DEF Destroys
<1>5. \A m \in Loops : pollers'[m].channels = pollers[m].channels
                       /\ pollers'[m].failed \in {"none", "removeChannel"}
    <2>1. /\ pollers[l] \in PollerType
          /\ pollers'[l] = Fail(pollers[l], "removeChannel")
          /\ \A m \in Loops \ {l} : pollers'[m] = pollers[m]
        BY <1>1, <1>3 DEF Failing, TypeOK
    <2>2. pollers'[l].channels = pollers[l].channels /\ pollers'[l].failed = "removeChannel"
        BY <2>1 DEF Fail, PollerType
    <2> QED BY <2>1, <2>2 DEF Running
<1>6. ReusedFdIsClean'
    BY <1>5 DEF ReusedFdIsClean
<1>7. ASSUME NEW m \in Loops, NEW d \in Conns,
             \/ d \in loops[m].batch
             \/ loops[m].pc # "stopped" /\ \E fd \in Fds : pollers[m].channels[fd] = d
      PROVE  Alive(d) /\ Home(d) = m /\ ~Stopped(m)
    <2>1. Listed(m, d) /\ ~Stopped(m)
        BY <1>1, <1>7 DEF Core, Owned, Order, Stages, Channels, Clean, Consistent, Listed, Stopped
    <2> QED BY <1>1, <2>1, ListedAlive DEF Core
<1>8. CASE RunDestroyed(l) /\ c = Current(l)
    <2>1. /\ loops' = Called(l) /\ loops[l].pass > 0 /\ Queue(l) # <<>>
          /\ Head(Queue(l)) = ToDestroy(c) /\ UNCHANGED connections
        BY <1>1, <1>8, RunDestroyedDoes
    <2>2. /\ \A m \in Loops : loops'[m].pc = loops[m].pc /\ loops'[m].batch = loops[m].batch
          /\ Taken(l) /\ loops'[l].held = loops[l].held \cup {c}
          /\ \A m \in Loops \ {l} : loops'[m].held = loops[m].held
        BY <1>1, <1>8, <2>1, TakenEffect DEF SameBatches
    <2>3. \A m \in Loops : \A f \in FunctorType :
              In(Queue(m), f) => In(Queue(m)', f) \/ f.conn = c
        <3>1. ToDestroy(c).conn = c
            BY DEF ToDestroy, Functor
        <3> QED BY <1>1, <2>1, <2>2, <3>1, TakenIn
    <2>4. \A d \in Conns : Alive(d) => Alive(d)'
        BY <1>1, <1>4, <2>1, <2>2, <2>3, StillAlive
    <2> QED BY <1>5, <1>6, <1>7, <2>2, <2>4 DEF NoDanglingChannel
<1>9. CASE DtorConnection(c) /\ l = base
    <2>1. /\ connections' = connections \ {c} /\ SamePlaces /\ SameBatches /\ SameQueues
          /\ Home(c) = base /\ Stopped(base)
        BY <1>1, <1>3, <1>9, DtorConnectionDoes DEF Destroys, Destroying, Stopped
    <2>2. ASSUME NEW d \in Conns \ {c}, Alive(d) PROVE Alive(d)'
        <3>1. Created(d)' /\ Created(d)
            BY <1>4, <2>2 DEF Placed, Alive
        <3>2. CASE d \in connections \/ \E m \in Loops : d \in loops[m].held
            BY <2>1, <3>1, <3>2 DEF Alive, SamePlaces
        <3>3. CASE \E m \in Loops : \E f \in FunctorType : In(Queue(m), f) /\ f.conn = d
            BY <2>1, <3>1, <3>3 DEF Alive, SameQueues, In, Queue
        <3> QED BY <1>1, <2>2, <3>2, <3>3, AliveIn
    <2>3. \A m \in Loops : loops'[m].pc = loops[m].pc /\ loops'[m].batch = loops[m].batch
        BY <2>1 DEF SamePlaces, SameBatches
    <2>4. ASSUME NEW m \in Loops, NEW d \in Conns,
                 \/ d \in loops[m].batch
                 \/ loops[m].pc # "stopped" /\ \E fd \in Fds : pollers[m].channels[fd] = d
          PROVE  Alive(d)'
        BY <1>7, <2>1, <2>2, <2>4
    <2> QED BY <1>5, <1>6, <2>3, <2>4 DEF NoDanglingChannel
<1> QED BY <1>3, <1>8, <1>9 DEF Destroys

LEMMA SafeStep == Order /\ Safe /\ [Next]_svars => Safe'
<1> SUFFICES ASSUME Order, Safe, [Next]_svars PROVE Safe'
    OBVIOUS
<1>1. CASE Running
    BY <1>1, CoreStep, FailingIsSafe DEF Safe
<1>2. CASE ~Running
    <2>1. server # "new"
        BY <1>2 DEF Order, Stages, Running, EmptyPoller
    <2>2. UNCHANGED <<conns, connections, loops, pollers>>
        <3>1. \A l \in Loops : ~LoopSteps(l)
            <4>1. \A l, pc : ~At(l, pc)
                BY <1>2 DEF At
            <4>2. \A l, x : ~Event(l, x) /\ ~Calling(l, x)
                BY <4>1 DEF Event, Calling
            <4> QED BY <4>1, <4>2, ZenonT(40) DEF LoopSteps, CheckQuit, Poll, Message, PeerIsGone,
                MessageClosesOther, DoPendingFunctors, RunEstablished, RunDestroyed, RunRemove,
                FunctorsDone
        <3>2. ~AcceptSteps /\ ~DtorSteps /\ \A c \in Conns : ~PeerCloses(c)
            BY <1>2 DEF AcceptSteps, NewConnection, AcceptFails, Event, At, DtorSteps,
               DtorConnection, DtorThread, DtorAcceptor, Destroying, PeerCloses
        <3> QED BY <2>1, <3>1, <3>2 DEF Next, Start, QuitBase, svars
    <2>3. NoDanglingChannel' /\ ReusedFdIsClean' /\ ~Running'
        BY <1>2, <2>2 DEF Safe, NoDanglingChannel, ReusedFdIsClean, Running, Alive, Created
    <2> QED BY <2>3 DEF Safe
<1> QED BY <1>1, <1>2

LEMMA SafeInvariant == Spec => [](Order /\ Safe)
<1>1. Init => Order /\ Safe
    BY TypeInit, StagesInit, PointersInit, InMapInit, CoreInit DEF Order, Safe
<1>2. Order /\ Safe /\ [Next]_svars => (Order /\ Safe)'
    BY TypeStep, StagesStep, PointersStep, InMapStep, SafeStep DEF Order
<1> QED BY <1>1, <1>2, PTL DEF Spec

\* No Channel pointer outlives its connection: a channel stays in the poller of a running loop,
\* and in the batch of events that loop works through, only as long as somebody holds a
\* TcpConnectionPtr (removeConnectionInLoop() keeps one in the functor it queues).
THEOREM ChannelsAreAlive == Spec => []NoDanglingChannel
<1>1. Order /\ Safe => NoDanglingChannel
    BY CoreIsSafe DEF Safe
<1> QED BY <1>1, SafeInvariant, PTL

\* A descriptor that accept() returns again finds neither channels_ nor the kernel's interest
\* list of any loop occupied by the connection that had it before.
THEOREM DescriptorsAreReusable == Spec => []ReusedFdIsClean
<1>1. Order /\ Safe => ReusedFdIsClean
    BY CoreIsSafe DEF Safe
<1> QED BY <1>1, SafeInvariant, PTL

-----------------------------------------------------------------------------
(* When message callbacks leave the ends of connections to the peers, each *)
(* connection is destroyed once, and what is destroyed is ready for it.    *)

\* Whoever takes the connection out of the map queues its destruction, once.
Mapped(c, h) ==
    /\ c \in connections => ~In(Queue(h), ToDestroy(c))
    /\ Once(Queue(h), ToDestroy(c))
    /\ Stopped(base) \/ Once(Queue(base), ToRemove(c))
    /\ Stopped(base) \/ ~In(Queue(base), ToRemove(c))
       \/ (c \in connections /\ conns[c].state = "kDisconnected")
    /\ conns[c].state \in {"kConnecting", "kConnected"} => Stopped(base) \/ c \in connections

\* A connection that is not established yet is queued to be, before anything else.
Waiting(c, h) ==
    /\ In(Queue(h), ToEstablish(c)) => conns[c].state = "kConnecting"
    /\ Once(Queue(h), ToEstablish(c))
    /\ conns[c].state = "kConnecting" =>
          /\ h # base
          /\ Stopped(h) \/ ( /\ In(Queue(h), ToEstablish(c))
                             /\ After(Queue(h), ToEstablish(c), ToDestroy(c)))

\* An established one is listed until it is destroyed, and has events while it is up.
Silent(c, h) ==
    /\ conns[c].state # "kDisconnecting"
    /\ c \in connections \/ In(Queue(h), ToDestroy(c)) =>
          conns[c].state = "kConnecting" \/ Listed(h, c)
    /\ pollers[h].events[c] # {} => StillUp(c)
    /\ \A l \in Loops : c \in loops[l].batch => StillUp(c)

Calm(c, h) == Mapped(c, h) /\ Waiting(c, h) /\ Silent(c, h)
Quiet ==
    /\ \A c \in Conns : \A h \in Loops : Created(c) /\ Home(c) = h => Calm(c, h)
    /\ \A l \in Loops : \A c \in Conns : pollers[l].events[c] # {} => Listed(l, c)

\* For the functors of a connection nothing changes in a queue ...
SameFor(l, c) ==
    /\ \A f \in {ToEstablish(c), ToDestroy(c), ToRemove(c)} :
          /\ In(Queue(l)', f) <=> In(Queue(l), f)
          /\ Once(Queue(l), f) => Once(Queue(l)', f)
    /\ After(Queue(l), ToEstablish(c), ToDestroy(c)) =>
          After(Queue(l)', ToEstablish(c), ToDestroy(c))

LEMMA FunctorsOf ==
    ASSUME NEW c
    PROVE  /\ ToEstablish(c).conn = c /\ ToDestroy(c).conn = c /\ ToRemove(c).conn = c
           /\ \A d : d # c => \A f \in {ToEstablish(d), ToDestroy(d), ToRemove(d)} :
                 f # ToEstablish(c) /\ f # ToDestroy(c) /\ f # ToRemove(c)
BY DEF ToEstablish, ToDestroy, ToRemove, Functor

\* ... if it is not theirs that is appended ...
LEMMA SameWhenPosted ==
    ASSUME LoopsTyped(loops), NEW k \in Loops, NEW g \in FunctorType, Posted(k, g),
           NEW c, g.conn # c, NEW l \in Loops
    PROVE  SameFor(l, c)
<1>1. Queue(l) \in Seq(FunctorType)
    BY QueueTyped
<1>2. g # ToEstablish(c) /\ g # ToDestroy(c) /\ g # ToRemove(c)
    BY FunctorsOf
<1>3. CASE l = k
    <2>1. Queue(l)' = Append(Queue(l), g)
        BY <1>3 DEF Posted
    <2>2. ASSUME NEW f \in {ToEstablish(c), ToDestroy(c), ToRemove(c)}
          PROVE  /\ In(Queue(l)', f) <=> In(Queue(l), f)
                 /\ Once(Queue(l), f) => Once(Queue(l)', f)
        <3>1. f # g
            BY <1>2
        <3> QED BY <1>1, <2>1, <3>1, InAppend, OnceAppend
    <2>3. After(Queue(l), ToEstablish(c), ToDestroy(c)) =>
          After(Queue(l)', ToEstablish(c), ToDestroy(c))
        BY <1>1, <1>2, <2>1, AfterAppend
    <2> QED BY <2>2, <2>3 DEF SameFor
<1>4. CASE l # k
    BY <1>4 DEF Posted, SameFor
<1> QED BY <1>3, <1>4

\* ... or taken.
LEMMA SameWhenTaken ==
    ASSUME LoopsTyped(loops), NEW k \in Loops, Queue(k) # <<>>, Taken(k),
           NEW c, Head(Queue(k)).conn # c, NEW l \in Loops
    PROVE  SameFor(l, c)
<1> DEFINE g == Head(Queue(k))
<1>1. Queue(l) \in Seq(FunctorType)
    BY QueueTyped
<1>2. g # ToEstablish(c) /\ g # ToDestroy(c) /\ g # ToRemove(c)
    BY FunctorsOf
<1>3. CASE l = k
    <2>1. Queue(l)' = Tail(Queue(l)) /\ Queue(l) # <<>> /\ g = Head(Queue(l))
        BY <1>3 DEF Taken
    <2> HIDE DEF g
    <2>2. ASSUME NEW f \in {ToEstablish(c), ToDestroy(c), ToRemove(c)}
          PROVE  /\ In(Queue(l)', f) <=> In(Queue(l), f)
                 /\ Once(Queue(l), f) => Once(Queue(l)', f)
        <3>1. f # g
            BY <1>2
        <3> QED BY <1>1, <2>1, <3>1, InTail, OnceTail
    <2>3. After(Queue(l), ToEstablish(c), ToDestroy(c)) =>
          After(Queue(l)', ToEstablish(c), ToDestroy(c))
        BY <1>1, <1>2, <2>1, AfterTail
    <2> QED BY <2>2, <2>3 DEF SameFor
<1>4. CASE l # k
    BY <1>4 DEF Taken, SameFor
<1> QED BY <1>3, <1>4

LEMMA SameWhenTakenPosted ==
    ASSUME LoopsTyped(loops), NEW k \in Loops, Queue(k) # <<>>,
           NEW m \in Loops, NEW g \in FunctorType, TakenPosted(k, m, g),
           NEW c, Head(Queue(k)).conn # c, g.conn # c, NEW l \in Loops
    PROVE  SameFor(l, c)
<1> DEFINE q == IF l = k THEN Tail(Queue(l)) ELSE Queue(l)
<1>1. Queue(l) \in Seq(FunctorType) /\ q \in Seq(FunctorType)
    BY QueueTyped, QueueTail
<1>2. \A f \in {ToEstablish(c), ToDestroy(c), ToRemove(c)} : f # g /\ f # Head(Queue(k))
    BY FunctorsOf
<1>3. Queue(l)' = IF l = m THEN Append(q, g) ELSE q
    BY DEF TakenPosted
<1>4. /\ \A f \in {ToEstablish(c), ToDestroy(c), ToRemove(c)} :
            /\ In(q, f) <=> In(Queue(l), f)
            /\ Once(Queue(l), f) => Once(q, f)
      /\ After(Queue(l), ToEstablish(c), ToDestroy(c)) => After(q, ToEstablish(c), ToDestroy(c))
    <2>1. CASE l = k
        BY <1>1, <1>2, <2>1, InTail, OnceTail, AfterTail
    <2>2. CASE l # k
        BY <2>2
    <2> QED BY <2>1, <2>2
<1> HIDE DEF q
<1>5. /\ \A f \in {ToEstablish(c), ToDestroy(c), ToRemove(c)} :
            /\ In(Queue(l)', f) <=> In(q, f)
            /\ Once(q, f) => Once(Queue(l)', f)
      /\ After(q, ToEstablish(c), ToDestroy(c)) => After(Queue(l)', ToEstablish(c), ToDestroy(c))
    <2>1. CASE l = m
        BY <1>1, <1>2, <1>3, <2>1, InAppend, OnceAppend, AfterAppend
    <2>2. CASE l # m
        BY <1>3, <2>2
    <2> QED BY <2>1, <2>2
<1> QED BY <1>4, <1>5 DEF SameFor

LEMMA EmptyQueue ==
    \A f, g : ~In(<<>>, f) /\ Once(<<>>, f) /\ After(<<>>, f, g)
BY DEF In, Once, After

\* A connection stays calm in a step that is about another one.
LEMMA CalmKept ==
    ASSUME NEW c \in Conns, NEW h \in Loops, Calm(c, h), base \in Loops,
           conns'[c].state = conns[c].state,
           c \in connections' <=> c \in connections,
           SameFor(h, c) \/ (Stopped(h)' /\ Queue(h)' = <<>>),
           SameFor(base, c) \/ Stopped(base)',
           Stopped(h) => Stopped(h)', Stopped(base) => Stopped(base)',
           Listed(h, c)' <=> Listed(h, c), pollers'[h].events[c] = pollers[h].events[c],
           \A l \in Loops : c \in loops'[l].batch => c \in loops[l].batch \/ StillUp(c)
    PROVE  Calm(c, h)'
<1>1. Mapped(c, h)'
    BY EmptyQueue DEF Calm, Mapped, SameFor
<1>2. Waiting(c, h)'
    BY EmptyQueue DEF Calm, Waiting, SameFor
<1>3. Silent(c, h)'
    BY EmptyQueue DEF Calm, Silent, SameFor, StillUp
<1> QED BY <1>1, <1>2, <1>3 DEF Calm

LEMMA NoneIsOnce ==
    \A q, f, g : ~In(q, f) => Once(q, f) /\ After(q, g, f)
BY DEF In, Once, After

LEMMA PostedOnce ==
    ASSUME LoopsTyped(loops), NEW k \in Loops, NEW g \in FunctorType, Posted(k, g),
           NEW l \in Loops, NEW f, Once(Queue(l), f), l # k \/ f # g \/ ~In(Queue(l), f)
    PROVE  Once(Queue(l)', f)
<1>1. CASE l = k
    <2>1. Queue(l) \in Seq(FunctorType) /\ Queue(l)' = Append(Queue(l), g)
        BY <1>1, QueueTyped DEF Posted
    <2> QED BY <1>1, <2>1, OnceAppend
<1>2. CASE l # k
    BY <1>2 DEF Posted
<1> QED BY <1>1, <1>2

LEMMA TakenOnce ==
    ASSUME LoopsTyped(loops), NEW k \in Loops, Queue(k) # <<>>, Taken(k),
           NEW l \in Loops, NEW f, Once(Queue(l), f)
    PROVE  Once(Queue(l)', f) /\ (l = k /\ Head(Queue(k)) = f => ~In(Queue(l)', f))
<1>1. CASE l = k
    BY <1>1, QueueTyped, OnceTail DEF Taken
<1>2. CASE l # k
    BY <1>2 DEF Taken
<1> QED BY <1>1, <1>2

LEMMA TakenPostedOnce ==
    ASSUME LoopsTyped(loops), NEW k \in Loops, Queue(k) # <<>>,
           NEW m \in Loops, NEW g \in FunctorType, TakenPosted(k, m, g),
           NEW l \in Loops, NEW f, Once(Queue(l), f), l # m \/ f # g \/ ~In(Queue(l), f)
    PROVE  /\ Once(Queue(l)', f)
           /\ l = k /\ Head(Queue(k)) = f /\ (l # m \/ f # g) => ~In(Queue(l)', f)
<1> DEFINE q == IF l = k THEN Tail(Queue(l)) ELSE Queue(l)
<1>1. q \in Seq(FunctorType)
    BY QueueTyped, QueueTail
<1>2. Queue(l)' = IF l = m THEN Append(q, g) ELSE q
    BY DEF TakenPosted
<1>3. /\ Once(q, f) /\ (In(q, f) => In(Queue(l), f))
      /\ l = k /\ Head(Queue(k)) = f => ~In(q, f)
    BY QueueTyped, OnceTail, InTail
<1> HIDE DEF q
<1>4. CASE l = m
    BY <1>1, <1>2, <1>3, <1>4, OnceAppend, InAppend
<1>5. CASE l # m
    BY <1>2, <1>3, <1>5
<1> QED BY <1>4, <1>5

LEMMA BatchesUp ==
    ASSUME Order, Core, Quiet, [Next]_svars, Running, NEW l \in Loops, NEW c \in Conns,
           c \in loops'[l].batch
    PROVE  c \in loops[l].batch \/ StillUp(c)
<1> USE ConstantFacts
<1>1. TypeOK
    BY DEF Order
<1>2. CASE c \in Registered(l)
    <2>1. pollers[l].events[c] # {}
        BY <1>2 DEF Registered
    <2>2. Created(c) /\ Home(c) = l
        BY <2>1 DEF Quiet, Core, Channels, LoopOf
    <2> QED BY <2>1, <2>2 DEF Quiet, Calm, Silent
<1> QED BY <1>1, <1>2, BatchStep

LEMMA QuietAround ==
    ASSUME Order, Core, Quiet, Running, [Next]_svars,
           NEW x \in Conns, NEW l \in Loops, SameConns({x}), Steady(l, x),
           \A d \in Conns \ {x} : d \in connections' <=> d \in connections,
           \A d \in Conns \ {x} : \A m \in Loops : SameFor(m, d),
           \A h \in Loops : h = Home(x)' => Calm(x, h)',
           pollers'[l].events[x] = {} \/ Listed(l, x)'
    PROVE  Quiet'
<1> USE ConstantFacts
<1>1. TypeOK /\ Stages
    BY DEF Order
<1>2. ASSUME NEW d \in Conns \ {x}, NEW h \in Loops, Created(d)', Home(d)' = h
      PROVE  Calm(d, h)'
    <2>1. conns'[d] = conns[d]
        BY DEF SameConns
    <2>2. Calm(d, h)
        BY <1>2, <2>1 DEF Quiet, Created, Home
    <2>3. \A m \in Loops : d \in loops'[m].batch => d \in loops[m].batch \/ StillUp(d)
        BY BatchesUp
    <2>4. Stopped(h) => Stopped(h)'
        BY <1>1, StoppedStays
    <2>5. Stopped(base) => Stopped(base)'
        BY <1>1, StoppedStays
    <2>6. (Listed(h, d)' <=> Listed(h, d)) /\ pollers'[h].events[d] = pollers[h].events[d]
        BY DEF Steady, Listed
    <2> QED BY <2>1, <2>2, <2>3, <2>4, <2>5, <2>6, CalmKept
<1>3. \A m \in Loops : \A c \in Conns : pollers'[m].events[c] # {} => Listed(m, c)'
    BY DEF Quiet, Steady, Listed
<1> QED BY <1>2, <1>3 DEF Quiet

\* When a connection is destroyed, its channel is listed, and silent unless it is up.
LEMMA ReadyToBeDestroyed ==
    ASSUME Order, Core, Quiet, Running, NEW l \in Loops, NEW c \in Conns, Destroys(l, c)
    PROVE  /\ Calm(c, l) /\ Listed(l, c) /\ conns[c].state # "kConnecting"
           /\ StillUp(c) \/ pollers[l].events[c] = {}
<1> USE ConstantFacts
<1>1. TypeOK /\ LoopsTyped(loops)
    BY TypedLoops DEF Order
<1>2. Calm(c, l)
    BY DEF Destroys, Quiet
<1>3. CASE RunDestroyed(l) /\ c = Current(l)
    <2>1. /\ Queue(l) # <<>> /\ Head(Queue(l)) = ToDestroy(c) /\ ~Stopped(l)
        BY <1>1, <1>3, RunDestroyedDoes DEF Calling, At, Stopped
    <2>2. In(Queue(l), ToDestroy(c))
        BY <1>1, <2>1, HeadIn
    <2>3. ~After(Queue(l), ToEstablish(c), ToDestroy(c))
        BY <1>1, <2>1, QueueTyped, AfterTail
    <2>4. conns[c].state # "kConnecting"
        BY <1>2, <2>1, <2>3 DEF Calm, Waiting
    <2> QED BY <1>2, <2>2, <2>4 DEF Calm, Silent
<1>4. CASE DtorConnection(c) /\ l = base
    BY <1>2, <1>4 DEF Calm, Silent, Waiting, DtorConnection
<1> QED BY <1>3, <1>4 DEF Destroys

LEMMA NothingFails ==
    ASSUME Order, Core, Quiet, Running, [Next]_svars PROVE Running'
<1> SUFFICES ASSUME ~Running' PROVE FALSE
    OBVIOUS
<1>1. PICK l \in Loops : \E c \in Conns : Destroys(l, c) /\ Failing(l)
    BY FailingStep
<1>2. PICK c \in Conns : Destroys(l, c) /\ Failing(l)
    BY <1>1
<1>3. Listed(l, c) /\ (StillUp(c) \/ pollers[l].events[c] = {})
    BY <1>2, ReadyToBeDestroyed
<1>4. Touches(l, c)
    BY <1>2, <1>3, DestroyPoller DEF Destroys
<1> QED BY <1>4 DEF Touches

LEMMA SameQueue ==
    ASSUME NEW l \in Loops, NEW c, Queue(l)' = Queue(l) PROVE SameFor(l, c)
BY DEF SameFor

LEMMA IdleStates ==
    ASSUME TypeOK, uses = {}, IdleActions, NEW c \in Conns
    PROVE  conns'[c].state = conns[c].state
<1>1. ASSUME NEW l \in Loops, NEW d \in Conns, NEW shut \in BOOLEAN, Message(l, d, shut)
      PROVE  conns'[c].state = conns[c].state
    BY <1>1, MessageDoes DEF SameConns
<1>2. ASSUME NEW d \in Conns, PeerCloses(d) PROVE conns'[c].state = conns[c].state
    BY <1>2 DEF PeerCloses, TypeOK, ConnType
<1>3. ASSUME NEW l \in Loops, Moves(l) PROVE conns' = conns
    BY <1>3, MovesDoes
<1> QED BY <1>1, <1>2, <1>3
        DEF IdleActions, Start, QuitBase, DtorAcceptor, AcceptFails, DtorThread, svars

LEMMA QuietIdle ==
    ASSUME Order, Core, Quiet, Running, uses = {}, [Next]_svars, Idle, IdleActions PROVE Quiet'
<1> USE ConstantFacts
<1>1. TypeOK /\ Stages
    BY DEF Order
<1>2. Steady(base, acceptor) /\ Placed
    BY IdleChannels DEF Touches
<1>3. ASSUME NEW c \in Conns, NEW h \in Loops, Created(c)', Home(c)' = h
      PROVE  Calm(c, h)'
    <2>1. Calm(c, h)
        BY <1>2, <1>3 DEF Placed, Stays, Home, Quiet
    <2>2. conns'[c].state = conns[c].state
        BY <1>1, IdleStates
    <2>3. \A l \in Loops : c \in loops'[l].batch => c \in loops[l].batch \/ StillUp(c)
        BY BatchesUp
    <2>4. (Stopped(h) => Stopped(h)') /\ (Stopped(base) => Stopped(base)')
        BY <1>1, StoppedStays
    <2>5. (Listed(h, c)' <=> Listed(h, c)) /\ pollers'[h].events[c] = pollers[h].events[c]
        BY <1>2 DEF Steady, Listed
    <2>6. SameFor(h, c) \/ (Stopped(h)' /\ Queue(h)' = <<>>)
        BY SameQueue DEF Idle
    <2>7. SameFor(base, c) \/ Stopped(base)'
        BY SameQueue DEF Idle
    <2>8. c \in connections' <=> c \in connections
        BY DEF Idle
    <2> QED BY <2>1, <2>2, <2>3, <2>4, <2>5, <2>6, <2>7, <2>8, CalmKept
<1>4. \A m \in Loops : \A c \in Conns : pollers'[m].events[c] # {} => Listed(m, c)'
    BY <1>2 DEF Quiet, Steady, Listed
<1> QED BY <1>3, <1>4 DEF Quiet

LEMMA QuietNew ==
    ASSUME Order, Core, Quiet, Running, [Next]_svars,
           NEW c \in Conns, NEW fd \in Fds, NewConnection(c, fd)
    PROVE  Quiet'
<1> USE ConstantFacts
<1>1. TypeOK /\ Pointers /\ LoopsTyped(loops)
    BY TypedLoops DEF Order
<1>2. Steady(base, c) /\ ~Created(c) /\ \A l \in Loops : ~Listed(l, c)
    BY NewConnectionPoller DEF Touches
<1>3. /\ SameConns({c}) /\ connections' = connections \cup {c} /\ c \notin connections
      /\ Home(c)' \in Loops
    BY <1>1, <1>2, NewConnectionDoes DEF Pointers, Home
<1>4. \A m \in Loops : \A f \in {ToEstablish(c), ToDestroy(c), ToRemove(c)} : ~In(Queue(m), f)
    BY <1>1, <1>2, QueuedIsCreated
<1>5. \A l \in Loops : c \notin loops'[l].batch
    <2>1. \A l \in Loops : c \notin loops[l].batch
        BY <1>2 DEF Core, Owned
    <2> QED BY <1>2, <2>1, BatchesUp DEF StillUp, Created
<1>6. \A l \in Loops : pollers[l].events[c] = {}
    BY <1>2 DEF Quiet
<1>7. \A m \in Loops \ {base} : pollers'[m].events[c] = {}
    BY <1>2, <1>6 DEF Steady
<1>8. CASE Home(c)' = base
    <2>1. SameQueues /\ conns'[c].state = "kConnected" /\ Listed(base, c)'
        BY <1>1, <1>8, NewConnectionDoes, NewConnectionPoller DEF Home
    <2>2. \A m \in Loops : \A d : SameFor(m, d)
        BY <2>1, SameQueue DEF SameQueues
    <2>3. \A f \in {ToEstablish(c), ToDestroy(c), ToRemove(c)} :
             ~In(Queue(base)', f) /\ Once(Queue(base)', f)
        BY <1>4, <2>1, NoneIsOnce DEF SameQueues
    <2>4. Mapped(c, base)'
        BY <1>3, <2>1, <2>3 DEF Mapped
    <2>5. Waiting(c, base)'
        BY <2>1, <2>3 DEF Waiting
    <2>6. Silent(c, base)'
        BY <1>5, <2>1 DEF Silent, StillUp
    <2> QED BY <1>2, <1>3, <1>8, <2>1, <2>2, <2>4, <2>5, <2>6, QuietAround DEF Calm
<1>9. ASSUME NEW h \in Loops \ {base}, Home(c)' = h PROVE Quiet'
    <2> DEFINE f == ToEstablish(c)
    <2>1. Posted(h, f) /\ conns'[c].state = "kConnecting" /\ f \in FunctorType
        BY <1>1, <1>9, NewConnectionDoes, FunctorTyped DEF Home
    <2>2. f.conn = c
        BY FunctorsOf
    <2>3. f # ToDestroy(c) /\ f # ToRemove(c)
        BY OtherFunctors
    <2> HIDE DEF f
    <2>4. \A m \in Loops : \A d \in Conns \ {c} : SameFor(m, d)
        BY <1>1, <2>1, <2>2, SameWhenPosted
    <2>5. /\ ~In(Queue(h)', ToDestroy(c)) /\ ~In(Queue(base)', ToRemove(c))
          /\ In(Queue(h)', ToEstablish(c))
        BY <1>1, <1>4, <2>1, <2>3, PostedIn DEF f
    <2>6. Once(Queue(h)', ToEstablish(c))
        BY <1>1, <1>4, <2>1, PostedOnce, NoneIsOnce DEF f
    <2>7. Mapped(c, h)'
        BY <1>3, <2>1, <2>5, NoneIsOnce DEF Mapped
    <2>8. Waiting(c, h)'
        BY <2>1, <2>5, <2>6, NoneIsOnce DEF Waiting
    <2>9. Silent(c, h)'
        BY <1>5, <1>7, <2>1, <2>5 DEF Silent, StillUp
    <2>10. pollers'[base].events[c] = {}
        <3>1. pollers' = pollers
            BY <1>9, NewConnectionPoller
        <3> QED BY <3>1, <1>6
    <2> QED BY <1>2, <1>3, <1>9, <2>4, <2>7, <2>8, <2>9, <2>10, QuietAround DEF Calm
<1> QED BY <1>3, <1>8, <1>9

LEMMA QuietClose ==
    ASSUME Order, Core, Quiet, Running, uses = {}, [Next]_svars,
           NEW l \in Loops, NEW e \in Conns, NEW c \in Conns, Closes(l, e, c)
    PROVE  Quiet'
<1> USE ConstantFacts
<1>1. TypeOK /\ LoopsTyped(loops)
    BY TypedLoops DEF Order
<1>2. Steady(l, c) /\ Listed(l, c)' /\ Home(c) = l /\ Created(c) /\ pollers'[l].events[c] = {}
    BY ClosePoller DEF Touches
<1>3. /\ SamePlaces /\ HandledIn(l, e) /\ SameConns({c}) /\ Home(c)' = l
      /\ conns'[c].state = "kDisconnected"
      /\ l = base => connections' = connections \ {c} /\ Posted(l, ToDestroy(c))
      /\ l # base => connections' = connections /\ Posted(base, ToRemove(c))
    BY <1>1, <1>2, CloseDoes DEF Closes, Stays, Home
<1>4. e = c /\ c \in loops[l].batch /\ ~Stopped(l)
    BY DEF Closes, Event, At, Stopped
<1>5. StillUp(c) /\ Calm(c, l)
    BY <1>2, <1>4 DEF Quiet, Calm, Silent
<1>6. \A m \in Loops : c \notin loops'[m].batch
    <2>1. \A m \in Loops : c \in loops[m].batch => m = l
        BY <1>2 DEF Core, Owned, Channels, LoopOf
    <2> QED BY <1>3, <1>4, <2>1 DEF HandledIn
<1>7. Silent(c, l)'
    BY <1>2, <1>3, <1>6 DEF Silent
<1>8. /\ ToDestroy(c) \in FunctorType /\ ToRemove(c) \in FunctorType
      /\ ToDestroy(c).conn = c /\ ToRemove(c).conn = c
      /\ ToEstablish(c) # ToDestroy(c) /\ ToEstablish(c) # ToRemove(c)
      /\ ToDestroy(c) # ToRemove(c)
    BY FunctorTyped, FunctorsOf, OtherFunctors
<1>9. /\ Stopped(base) \/ (c \in connections /\ ~In(Queue(base), ToRemove(c)))
      /\ ~In(Queue(l), ToEstablish(c))
    BY <1>5 DEF Calm, Mapped, Waiting, StillUp
<1>10. Stopped(base)' <=> Stopped(base)
    BY <1>3 DEF SamePlaces, Stopped
<1>11. CASE l = base
    <2>1. Posted(base, ToDestroy(c)) /\ c \in connections /\ ~In(Queue(base), ToRemove(c))
        BY <1>3, <1>4, <1>9, <1>11
    <2>2. \A m \in Loops : \A d \in Conns \ {c} : SameFor(m, d)
        BY <1>1, <1>8, <2>1, SameWhenPosted
    <2>3. ~In(Queue(base), ToDestroy(c)) /\ Once(Queue(base), ToDestroy(c))
        BY <1>5, <1>11, <2>1 DEF Calm, Mapped
    <2>4. Once(Queue(base)', ToDestroy(c))
        BY <1>1, <1>8, <2>1, <2>3, PostedOnce
    <2>5. ~In(Queue(base)', ToRemove(c)) /\ ~In(Queue(base)', ToEstablish(c))
        BY <1>1, <1>8, <1>9, <1>11, <2>1, PostedIn
    <2>6. Mapped(c, l)'
        BY <1>3, <1>11, <2>4, <2>5, NoneIsOnce DEF Mapped
    <2>7. Waiting(c, l)'
        BY <1>3, <1>11, <2>5, NoneIsOnce DEF Waiting
    <2> QED BY <1>2, <1>3, <1>7, <1>11, <2>2, <2>6, <2>7, QuietAround DEF Calm
<1>12. CASE l # base
    <2>1. Posted(base, ToRemove(c)) /\ connections' = connections
        BY <1>3, <1>12
    <2>2. \A m \in Loops : \A d \in Conns \ {c} : SameFor(m, d)
        BY <1>1, <1>8, <2>1, SameWhenPosted
    <2>3. Queue(l)' = Queue(l)
        BY <1>12, <2>1 DEF Posted
    <2>4. Stopped(base) \/ Once(Queue(base)', ToRemove(c))
        BY <1>1, <1>8, <1>9, <2>1, PostedOnce, NoneIsOnce
    <2>5. Mapped(c, l)'
        BY <1>3, <1>5, <1>9, <1>10, <2>1, <2>3, <2>4 DEF Mapped, Calm
    <2>6. Waiting(c, l)'
        BY <1>3, <1>9, <2>3, NoneIsOnce DEF Waiting
    <2> QED BY <1>2, <1>3, <1>7, <2>1, <2>2, <2>5, <2>6, QuietAround DEF Calm
<1> QED BY <1>11, <1>12

LEMMA QuietEstablished ==
    ASSUME Order, Core, Quiet, Running, [Next]_svars, NEW l \in Loops, RunEstablished(l)
    PROVE  Quiet'
<1> USE ConstantFacts
<1>1. PICK c : c = Current(l)
    OBVIOUS
<1>2. TypeOK /\ LoopsTyped(loops)
    BY TypedLoops DEF Order
<1>3. c \in Conns /\ Home(c) = l /\ Created(c) /\ Steady(l, c) /\ Listed(l, c)'
    BY <1>1, RunEstablishedPoller DEF Touches
<1>4. /\ Queue(l) # <<>> /\ Head(Queue(l)) = ToEstablish(c)
      /\ conns'[c].state = "kConnected" /\ SameConns({c}) /\ Home(c)' = l
      /\ connections' = connections
    BY <1>1, <1>2, <1>3, RunEstablishedDoes DEF Stays, Home
<1>5. Taken(l) /\ \A m \in Loops : Stopped(m)' <=> Stopped(m)
    BY <1>2, RunEstablishedDoes, TakenEffect DEF Stopped
<1>6. Calm(c, l) /\ In(Queue(l), ToEstablish(c))
    BY <1>2, <1>3, <1>4, HeadIn DEF Quiet
<1>7. ~Stopped(l)
    BY DEF RunEstablished, Calling, At, Stopped
<1>8. conns[c].state = "kConnecting" /\ l # base /\ (Stopped(base) \/ c \in connections)
    BY <1>6, <1>7 DEF Calm, Waiting, Mapped
<1>9. \A m \in Loops : \A d \in Conns \ {c} : SameFor(m, d)
    BY <1>2, <1>4, <1>5, FunctorsOf, SameWhenTaken
<1>10. Queue(base)' = Queue(base)
    BY <1>5, <1>8 DEF Taken
<1>11. /\ Once(Queue(l)', ToDestroy(c)) /\ ~In(Queue(l)', ToEstablish(c))
       /\ In(Queue(l)', ToDestroy(c)) => In(Queue(l), ToDestroy(c))
    BY <1>2, <1>4, <1>5, <1>6, TakenOnce, TakenIn DEF Calm, Mapped, Waiting
<1>12. Mapped(c, l)'
    BY <1>4, <1>5, <1>6, <1>8, <1>10, <1>11 DEF Mapped, Calm
<1>13. Waiting(c, l)'
    BY <1>4, <1>11, NoneIsOnce DEF Waiting
<1>14. Silent(c, l)'
    BY <1>3, <1>4 DEF Silent, StillUp
<1> QED BY <1>3, <1>4, <1>9, <1>12, <1>13, <1>14, QuietAround DEF Calm

LEMMA QuietDestroyed ==
    ASSUME Order, Core, Quiet, Running, [Next]_svars, NEW l \in Loops, NEW c \in Conns,
           Destroys(l, c)
    PROVE  Quiet'
<1> USE ConstantFacts
<1>1. TypeOK /\ LoopsTyped(loops) /\ Stages
    BY TypedLoops DEF Order
<1>2. /\ Calm(c, l) /\ Listed(l, c) /\ conns[c].state # "kConnecting"
      /\ StillUp(c) \/ pollers[l].events[c] = {}
    BY ReadyToBeDestroyed
<1>3. Steady(l, c) /\ ~Listed(l, c)' /\ pollers'[l].events[c] = {}
    <2>1. ~Failing(l)
        BY <1>1, NothingFails DEF Failing, Fail, Running, TypeOK, PollerType
    <2> QED BY <1>2, <2>1, DestroyPoller DEF Destroys, Touches
<1>4. SameConns({c}) /\ Home(c)' = l /\ conns'[c].state = "kDisconnected" /\ Home(c) = l
    <2>1. /\ conns'[c].state \in {conns[c].state, "kDisconnected"}
          /\ conns'[c].state # "kConnected" /\ SameConns({c}) /\ Home(c)' = l
        BY <1>1, DestroyDoes DEF Destroys, Stays, Home
    <2>2. conns[c].state \in {"kConnected", "kDisconnected"}
        BY <1>1, <1>2 DEF Calm, Silent, Destroys, Created, TypeOK, ConnType, States
    <2> QED BY <2>1, <2>2 DEF Destroys
<1>5. loops[l].pc # "dispatch" /\ SameBatches
    BY <1>1, DtorConnectionDoes, RunDestroyedDoes, TakenEffect
       DEF Destroys, Calling, At, Destroying
<1>6. \A m \in Loops : c \notin loops'[m].batch
    <2>1. \A m \in Loops : c \in loops[m].batch => m = l
        BY <1>4 DEF Core, Owned, Channels, LoopOf
    <2> QED BY <1>1, <1>5, <2>1 DEF SameBatches, Stages
<1>7. ~In(Queue(l), ToEstablish(c)) /\ conns[c].state # "kConnecting"
    BY <1>2 DEF Calm, Waiting
<1>8. ASSUME ~In(Queue(l)', ToEstablish(c)), ~In(Queue(l)', ToDestroy(c)), c \notin connections',
             Stopped(base)' \/ ~In(Queue(base)', ToRemove(c)),
             \A d \in Conns \ {c} : d \in connections' <=> d \in connections,
             \A d \in Conns \ {c} : \A m \in Loops : SameFor(m, d)
      PROVE  Quiet'
    <2>1. Mapped(c, l)'
        BY <1>4, <1>8, NoneIsOnce DEF Mapped
    <2>2. Waiting(c, l)'
        BY <1>4, <1>8, NoneIsOnce DEF Waiting
    <2>3. Silent(c, l)'
        BY <1>3, <1>4, <1>6, <1>8 DEF Silent
    <2> QED BY <1>3, <1>4, <1>8, <2>1, <2>2, <2>3, QuietAround DEF Calm
<1>9. CASE RunDestroyed(l) /\ c = Current(l)
    <2>1. /\ Queue(l) # <<>> /\ Head(Queue(l)) = ToDestroy(c) /\ connections' = connections
          /\ Taken(l) /\ \A m \in Loops : Stopped(m)' <=> Stopped(m)
        BY <1>1, <1>9, RunDestroyedDoes, TakenEffect DEF Stopped
    <2>2. In(Queue(l), ToDestroy(c)) /\ Once(Queue(l), ToDestroy(c)) /\ c \notin connections
        BY <1>1, <1>2, <2>1, HeadIn DEF Calm, Mapped
    <2>3. ~In(Queue(l)', ToEstablish(c)) /\ ~In(Queue(l)', ToDestroy(c))
        BY <1>1, <1>7, <2>1, <2>2, TakenIn, TakenOnce
    <2>4. Stopped(base)' \/ ~In(Queue(base)', ToRemove(c))
        BY <1>1, <1>2, <2>1, <2>2, TakenIn DEF Calm, Mapped
    <2>5. \A d \in Conns \ {c} : \A m \in Loops : SameFor(m, d)
        BY <1>1, <2>1, FunctorsOf, SameWhenTaken
    <2> QED BY <1>8, <2>1, <2>2, <2>3, <2>4, <2>5
<1>10. CASE DtorConnection(c) /\ l = base
    <2>1. /\ SameQueues /\ c \in connections /\ connections' = connections \ {c}
          /\ Stopped(base)'
        BY <1>1, <1>4, <1>10, DtorConnectionDoes DEF Destroying, Stopped, SamePlaces
    <2>2. ~In(Queue(l)', ToEstablish(c)) /\ ~In(Queue(l)', ToDestroy(c))
        BY <1>2, <1>7, <2>1 DEF Calm, Mapped, SameQueues
    <2>3. \A d \in Conns \ {c} : \A m \in Loops : SameFor(m, d)
        BY <2>1, SameQueue DEF SameQueues
    <2> QED BY <1>8, <2>1, <2>2, <2>3
<1> QED BY <1>9, <1>10 DEF Destroys

LEMMA QuietRemove ==
    ASSUME Order, Core, Quiet, Running, [Next]_svars, NEW l \in Loops, RunRemove(l)
    PROVE  Quiet'
<1> USE ConstantFacts
<1>1. PICK c : c = Current(l)
    OBVIOUS
<1>2. TypeOK /\ LoopsTyped(loops) /\ Pointers
    BY TypedLoops DEF Order
<1>3. /\ Queue(l) # <<>> /\ Head(Queue(l)) = ToRemove(c) /\ c \in Conns
      /\ connections' = connections \ {c} /\ TakenPosted(l, Home(c), ToDestroy(c))
      /\ Home(c) \in Loops /\ SameBatches /\ UNCHANGED <<conns, pollers>>
    BY <1>1, <1>2, RunRemoveDoes
<1>4. In(Queue(l), ToRemove(c))
    BY <1>2, <1>3, HeadIn
<1>5. Created(c) /\ l = base
    BY <1>2, <1>3, <1>4, QueuedIsCreated, FunctorTyped, SentFunctors DEF Pointers
<1>6. PICK h \in Loops : h = Home(c)
    BY <1>3
<1>7. Calm(c, h) /\ ~Stopped(base)
    BY <1>3, <1>5, <1>6 DEF Quiet, RunRemove, Calling, At, Stopped
<1>8. /\ c \in connections /\ conns[c].state = "kDisconnected"
      /\ ~In(Queue(h), ToDestroy(c)) /\ ~In(Queue(h), ToEstablish(c))
    BY <1>4, <1>5, <1>7 DEF Calm, Mapped, Waiting
<1>9. Listed(h, c) /\ pollers[h].events[c] = {} /\ \A m \in Loops : c \notin loops[m].batch
    BY <1>7, <1>8 DEF Calm, Silent, StillUp
<1>10. TakenPosted(l, h, ToDestroy(c))
    BY <1>3, <1>6
<1>11. /\ ToDestroy(c) \in FunctorType /\ ToDestroy(c).conn = c /\ ToRemove(c).conn = c
       /\ ToEstablish(c) # ToDestroy(c) /\ ToRemove(c) # ToDestroy(c)
    BY <1>3, FunctorTyped, FunctorsOf, OtherFunctors
<1>12. \A m \in Loops : \A d \in Conns \ {c} : SameFor(m, d)
    BY <1>2, <1>3, <1>10, <1>11, SameWhenTakenPosted
<1>13. Once(Queue(h)', ToDestroy(c))
    BY <1>2, <1>3, <1>8, <1>10, <1>11, TakenPostedOnce, NoneIsOnce
<1>14. ~In(Queue(base)', ToRemove(c))
    <2>1. Once(Queue(base), ToRemove(c))
        BY <1>7 DEF Calm, Mapped
    <2> QED BY <1>2, <1>3, <1>5, <1>10, <1>11, <2>1, TakenPostedOnce
<1>15. ~In(Queue(h)', ToEstablish(c))
    BY <1>2, <1>3, <1>8, <1>10, <1>11, TakenPostedIn
<1>16. Mapped(c, h)'
    BY <1>3, <1>8, <1>13, <1>14, NoneIsOnce DEF Mapped
<1>17. Waiting(c, h)'
    BY <1>3, <1>8, <1>15, NoneIsOnce DEF Waiting
<1>18. Listed(h, c)' /\ pollers'[h].events[c] = {}
    BY <1>3, <1>9 DEF Listed
<1>19. Silent(c, h)'
    BY <1>3, <1>8, <1>9, <1>18 DEF Silent, SameBatches
<1>20. SameConns({c}) /\ Steady(h, c) /\ Home(c)' = h
    BY <1>3, <1>6 DEF SameConns, Steady, Home
<1> QED BY <1>3, <1>12, <1>16, <1>17, <1>18, <1>19, <1>20, QuietAround DEF Calm

LEMMA QuietGivenUp ==
    ASSUME Order, Core, Quiet, Running, [Next]_svars, NEW c \in Conns, DtorConnection(c),
           NEW h \in Loops \ {base}, h = Home(c)
    PROVE  Quiet'
<1> USE ConstantFacts
<1>1. TypeOK /\ LoopsTyped(loops) /\ Pointers
    BY TypedLoops DEF Order
<1>2. /\ c \in connections /\ connections' = connections \ {c} /\ SamePlaces /\ SameBatches
      /\ Posted(h, ToDestroy(c)) /\ UNCHANGED <<conns, pollers>> /\ Stopped(base)
    BY <1>1, DtorConnectionDoes DEF Destroying, Stopped
<1>3. Created(c) /\ Calm(c, h)
    BY <1>1, <1>2 DEF Pointers, Quiet
<1>4. /\ ToDestroy(c) \in FunctorType /\ ToDestroy(c).conn = c /\ ToEstablish(c) # ToDestroy(c)
    BY FunctorTyped, FunctorsOf, OtherFunctors
<1>5. \A m \in Loops : \A d \in Conns \ {c} : SameFor(m, d)
    BY <1>1, <1>2, <1>4, SameWhenPosted
<1>6. Once(Queue(h)', ToDestroy(c)) /\ Stopped(base)' /\ (Stopped(h)' <=> Stopped(h))
    BY <1>1, <1>2, <1>3, <1>4, PostedOnce DEF Calm, Mapped, SamePlaces, Stopped
<1>7. Mapped(c, h)'
    BY <1>2, <1>6 DEF Mapped
<1>8. (In(Queue(h)', ToEstablish(c)) <=> In(Queue(h), ToEstablish(c)))
      /\ Once(Queue(h)', ToEstablish(c))
    BY <1>1, <1>2, <1>3, <1>4, PostedIn, PostedOnce DEF Calm, Waiting
<1>9. ASSUME In(Queue(h), ToEstablish(c)), After(Queue(h), ToEstablish(c), ToDestroy(c))
      PROVE  After(Queue(h)', ToEstablish(c), ToDestroy(c))
    BY <1>1, <1>2, <1>4, <1>9, QueueTyped, AfterAppend DEF Posted
<1>10. Waiting(c, h)'
    BY <1>2, <1>3, <1>6, <1>8, <1>9 DEF Calm, Waiting
<1>11. Silent(c, h)'
    BY <1>2, <1>3 DEF Calm, Silent, StillUp, Listed, SameBatches
<1>12. SameConns({c}) /\ Steady(h, c) /\ Home(c)' = h
       /\ (pollers'[h].events[c] = {} \/ Listed(h, c)')
    BY <1>2 DEF SameConns, Steady, Home, Quiet, Listed
<1> QED BY <1>2, <1>5, <1>7, <1>10, <1>11, <1>12, QuietAround DEF Calm

LEMMA QuietStep ==
    ASSUME Order, Core, Quiet, Running, uses = {}, [Next]_svars PROVE Quiet'
<1> USE ConstantFacts
<1>1. TypeOK
    BY DEF Order
<1>2. CASE Idle /\ IdleActions
    BY <1>2, QuietIdle
<1>3. ASSUME NEW c \in Conns, NEW fd \in Fds, NewConnection(c, fd) PROVE Quiet'
    BY <1>3, QuietNew
<1>4. ASSUME NEW c \in Conns, DtorConnection(c) PROVE Quiet'
    <2>1. CASE Home(c) = base
        BY <1>4, <2>1, DestroyingSteps, QuietDestroyed
    <2>2. CASE Home(c) # base
        <3>1. PICK h \in Loops \ {base} : h = Home(c)
            BY <1>1, <2>2 DEF TypeOK, ConnType, Home
        <3> QED BY <1>4, <3>1, QuietGivenUp
    <2> QED BY <2>1, <2>2
<1>5. ASSUME NEW l \in Loops, NEW e \in Conns, NEW c \in Conns, Closes(l, e, c) PROVE Quiet'
    BY <1>5, QuietClose
<1>6. ASSUME NEW l \in Loops, RunEstablished(l) PROVE Quiet'
    BY <1>6, QuietEstablished
<1>7. ASSUME NEW l \in Loops, RunDestroyed(l) PROVE Quiet'
    <2>1. Destroys(l, Current(l)) /\ Current(l) \in Conns
        BY <1>1, <1>7, DestroyingSteps, RunDestroyedDoes
    <2> QED BY <2>1, QuietDestroyed
<1>8. ASSUME NEW l \in Loops, RunRemove(l) PROVE Quiet'
    BY <1>8, QuietRemove
<1> QED BY <1>1, <1>2, <1>3, <1>4, <1>5, <1>6, <1>7, <1>8, Shapes

LEMMA QuietInit == Init => Quiet
<1> SUFFICES ASSUME Init PROVE Quiet
    OBVIOUS
<1>1. \A l \in Loops : pollers[l] = EmptyPoller
    BY DEF Init
<1>2. \A c \in Conns : ~Created(c)
    BY DEF Init, Created
<1> QED BY <1>1, <1>2, ConstantFacts DEF Quiet, EmptyPoller

LEMMA UsesKept == [Next]_svars => uses' = uses
<1>1. ASSUME NEW l \in Loops, LoopSteps(l) PROVE uses' = uses
    BY <1>1 DEF LoopSteps, CheckQuit, Poll, Message, PeerIsGone, MessageClosesOther,
       DoPendingFunctors, RunEstablished, RunDestroyed, RunRemove, FunctorsDone
<1>2. AcceptSteps \/ DtorSteps => uses' = uses
    BY DEF AcceptSteps, NewConnection, AcceptFails,
       DtorSteps, DtorConnection, DtorThread, DtorAcceptor
<1> QED BY <1>1, <1>2 DEF Next, svars, Start, QuitBase, PeerCloses

\* As long as message callbacks leave the ends of connections to the peers, no assert() of
\* EpollPoller.cc fails and no epoll_ctl() is fatal, whatever the pool and the number of
\* connections, and also while ~TcpServer() destroys them.
THEOREM AssertsHold == Spec => []PollerAssertsHold
<1> DEFINE Inv == Order /\ Safe /\ (uses = {} => Running /\ Quiet)
<1>1. Init => Inv
    BY QuietInit, CoreInit, TypeInit, StagesInit, PointersInit, InMapInit DEF Order, Safe
<1>2. Inv /\ [Next]_svars => Inv'
    <2> SUFFICES ASSUME Inv, [Next]_svars PROVE Inv'
        OBVIOUS
    <2>1. Order'
        BY TypeStep, StagesStep, PointersStep, InMapStep DEF Order
    <2>2. Safe'
        BY SafeStep
    <2>3. ASSUME uses = {} PROVE Running' /\ Quiet'
        BY <2>3, NothingFails, QuietStep DEF Safe
    <2> QED BY <2>1, <2>2, <2>3, UsesKept
<1>3. Inv => PollerAssertsHold
    BY DEF PollerAssertsHold
<1> QED BY <1>1, <1>2, <1>3, PTL DEF Spec
=============================================================================
