----------------------------- MODULE MySQLPool ------------------------------
(***************************************************************************)
(* The pool of MySQL connections (src/Pool/MYSQLConnectionPool.cc). Every  *)
(* operation holds mutex_ from end to end, the heartbeat and the           *)
(* replacement of a dead connection included; only the wait in             *)
(* getConnection() gives it up. So an operation is one step, and a call    *)
(* that has to wait is two: falling asleep, and resuming with the mutex.   *)
(*                                                                         *)
(* A connection is the number of its creation. Threads keep to the header: *)
(* init() comes before the first getConnection(). Users that copy the      *)
(* shared_ptr of a connection among themselves are one user here.          *)
(***************************************************************************)
EXTENDS Naturals, Sequences, FiniteSets

CONSTANTS
    Threads,            \* the threads that borrow connections
    InitialSize,        \* the poolSize argument of init()
    MaxMade,            \* bound: connections created
    ExitWaits           \* whether main() ends only after the threads have

ASSUME PoolAssumption ==
    /\ IsFiniteSet(Threads) /\ InitialSize \in Nat /\ MaxMade \in Nat
    /\ InitialSize < MaxMade /\ ExitWaits \in BOOLEAN

VARIABLES
    driver,             \* driver_ is not null
    poolSize,           \* poolSize_, which totalCount() returns
    idle,               \* idleConnections_
    closed,             \* closed_
    active,             \* activeCount_
    place,              \* what each thread does with the pool
    borrowed,           \* the connection of each thread that has one
    alive,              \* the connections that exist
    made,               \* history: connections created
    missing,            \* history: connections that init() failed to create
    destroyed           \* the singleton has been destroyed

pvars == <<driver, poolSize, idle, closed, active, place, borrowed, alive, made,
           missing, destroyed>>

None == 0
Places == {"out", "asleep", "awake", "using"}
At(where) == {t \in Threads : place[t] = where}
Idle == {idle[i] : i \in DOMAIN idle}

PoolInit ==
    /\ driver = FALSE /\ poolSize = 0 /\ idle = <<>> /\ closed = FALSE /\ active = 0
    /\ place = [t \in Threads |-> "out"]
    /\ borrowed = [t \in Threads |-> None]
    /\ alive = {} /\ made = 0 /\ missing = 0 /\ destroyed = FALSE

-----------------------------------------------------------------------------
(* init(). *)

\* get_driver_instance() throws.
InitWithoutDriver ==
    /\ ~driver /\ ~destroyed
    /\ poolSize' = InitialSize
    /\ UNCHANGED <<driver, idle, closed, active, place, borrowed, alive, made, missing,
                   destroyed>>

\* The connection after the first `count` fails, in connect() or, with the connection
\* open, in setSchema(): init() throws and leaves what it has done.  A later init()
\* finds driver_ set and returns.
InitPool(count, opened) ==
    /\ ~driver /\ ~destroyed
    /\ count = InitialSize => opened = 0
    /\ driver' = TRUE
    /\ poolSize' = InitialSize
    /\ idle' = [i \in 1..count |-> i]
    /\ alive' = 1..(count + opened)
    /\ made' = count + opened
    /\ missing' = InitialSize - count
    /\ UNCHANGED <<closed, active, place, borrowed, destroyed>>

-----------------------------------------------------------------------------
(* getConnection(). *)

\* (Mutant: the front is not popped.)
AfterPopForgotten(queue) == queue
AfterPop(queue) == Tail(queue)

Take(t) ==
    /\ ~closed /\ idle # <<>>
    /\ place' = [place EXCEPT ![t] = "using"]
    /\ borrowed' = [borrowed EXCEPT ![t] = Head(idle)]
    /\ idle' = AfterPop(idle)
    /\ active' = active + 1
    /\ UNCHANGED <<driver, poolSize, closed, alive, made, missing, destroyed>>

GoTo(t, where) ==
    /\ place' = [place EXCEPT ![t] = where]
    /\ UNCHANGED <<driver, poolSize, idle, closed, active, borrowed, alive, made, missing,
                   destroyed>>

\* A call on a closed pool throws at once.
GetAtOnce(t) == driver /\ place[t] = "out" /\ Take(t)
GetWaits(t) == driver /\ ~closed /\ place[t] = "out" /\ idle = <<>> /\ GoTo(t, "asleep")

\* The wait times out, or ends for no reason.
WakeUp(t) == place[t] = "asleep" /\ ~destroyed /\ GoTo(t, "awake")

\* wait_for() looks once more, whatever has ended the wait.
ResumeTakes(t) == place[t] = "awake" /\ ~destroyed /\ Take(t)
ResumeThrows(t) ==
    /\ place[t] = "awake" /\ ~destroyed
    /\ closed \/ idle = <<>>
    /\ GoTo(t, "out")
ResumeWaits(t) ==
    /\ place[t] = "awake" /\ ~destroyed
    /\ ~closed /\ idle = <<>>
    /\ GoTo(t, "asleep")

-----------------------------------------------------------------------------
(* returnConnection(), called when the last copy of the shared_ptr goes. *)

\* Whom cond_.notify_one() may wake, t having returned.  (Mutant: only the first of
\* several idle connections is announced.)
NotifiedOnFirst(t) ==
    IF At("asleep") = {} \/ idle # <<>> THEN {[place EXCEPT ![t] = "out"]}
    ELSE {[place EXCEPT ![t] = "out", ![w] = "awake"] : w \in At("asleep")}
Notified(t) ==
    IF At("asleep") = {} THEN {[place EXCEPT ![t] = "out"]}
    ELSE {[place EXCEPT ![t] = "out", ![w] = "awake"] : w \in At("asleep")}

PutBack(t, conn) ==
    /\ idle' = Append(idle, conn)
    /\ active' = active - 1
    /\ place' \in Notified(t)
    /\ borrowed' = [borrowed EXCEPT ![t] = None]
    /\ UNCHANGED <<driver, poolSize, closed, missing, destroyed>>

ReturnValid(t) ==
    /\ place[t] = "using" /\ ~closed
    /\ PutBack(t, borrowed[t])
    /\ UNCHANGED <<alive, made>>

\* The heartbeat fails and a new connection takes the place of the dead one.
ReturnReplaced(t) ==
    /\ place[t] = "using" /\ ~closed
    /\ made < MaxMade
    /\ made' = made + 1
    /\ alive' = (alive \ {borrowed[t]}) \cup {made'}
    /\ PutBack(t, made')

\* ... and there is no new one: connect() fails, or setSchema() on an open connection.
\* (Mutant: the pool keeps its size.)
ShrunkNot(size) == size
Shrunk(size) == size - 1

ReturnLost(t, opened) ==
    /\ place[t] = "using" /\ ~closed
    /\ made + opened <= MaxMade
    /\ made' = made + opened
    /\ alive' = (alive \ {borrowed[t]}) \cup (made + 1)..made'
    /\ poolSize' = Shrunk(poolSize)
    /\ active' = active - 1
    /\ place' = [place EXCEPT ![t] = "out"]
    /\ borrowed' = [borrowed EXCEPT ![t] = None]
    /\ UNCHANGED <<driver, idle, closed, missing, destroyed>>

\* activeCount_ stays as it is.
ReturnToClosed(t) ==
    /\ place[t] = "using" /\ closed
    /\ alive' = alive \ {borrowed[t]}
    /\ place' = [place EXCEPT ![t] = "out"]
    /\ borrowed' = [borrowed EXCEPT ![t] = None]
    /\ UNCHANGED <<driver, poolSize, idle, closed, active, made, missing, destroyed>>

-----------------------------------------------------------------------------
(* closeAll(), and the destructor when the program exits. *)

CloseAll ==
    /\ ~destroyed
    /\ closed' = TRUE
    /\ alive' = alive \ Idle
    /\ idle' = <<>>
    /\ place' = [t \in Threads |-> IF place[t] = "asleep" THEN "awake" ELSE place[t]]
    /\ UNCHANGED <<driver, poolSize, active, borrowed, made, missing>>

Close == CloseAll /\ UNCHANGED destroyed

Exit ==
    /\ ExitWaits => At("out") = Threads
    /\ CloseAll
    /\ destroyed' = TRUE

PoolNext ==
    \/ InitWithoutDriver
    \/ \E count \in 0..InitialSize, opened \in 0..1 : InitPool(count, opened)
    \/ \E t \in Threads :
        \/ GetAtOnce(t) \/ GetWaits(t) \/ WakeUp(t)
        \/ ResumeTakes(t) \/ ResumeThrows(t) \/ ResumeWaits(t)
        \/ ReturnValid(t) \/ ReturnReplaced(t) \/ ReturnToClosed(t)
        \/ \E opened \in 0..1 : ReturnLost(t, opened)
    \/ Close \/ Exit

PoolSpec == PoolInit /\ [][PoolNext]_pvars

-----------------------------------------------------------------------------
(* What the pool must guarantee. *)

\* The variables hold what their declarations say.
TypeOK ==
    /\ driver \in BOOLEAN /\ closed \in BOOLEAN /\ destroyed \in BOOLEAN
    /\ poolSize \in Nat /\ active \in Nat /\ made \in Nat /\ missing \in Nat
    /\ idle \in Seq(1..made) /\ alive \subseteq 1..made
    /\ place \in [Threads -> Places]
    /\ borrowed \in [Threads -> 0..made]

\* A connection is used by one thread at a time and exists as long as it is used: two
\* threads never hold the same one, none that is held is idle, none is idle twice, and
\* neither a held nor an idle one has been deleted, whoever closes the pool meanwhile.
Exclusive ==
    /\ \A t \in Threads : (borrowed[t] # None) <=> (place[t] = "using")
    /\ \A t, u \in At("using") : borrowed[t] = borrowed[u] => t = u
    /\ \A t \in At("using") : borrowed[t] \in alive \ Idle
    /\ \A i, j \in DOMAIN idle : idle[i] = idle[j] => i = j
    /\ Idle \subseteq alive

\* While the pool is open, activeCount_ counts the borrowed connections, and with the idle
\* ones they make up poolSize_, but for those that init() did not get: what returnConnection()
\* gives up when it cannot replace a dead connection is taken from both.
CountsAgree ==
    driver /\ ~closed =>
        /\ active = Cardinality(At("using"))
        /\ poolSize = Len(idle) + active + missing

\* Whenever a thread sleeps in getConnection(), each idle connection is on its way to a
\* thread that has been woken: a connection that was returned to a waiter whose time
\* had just run out, or that a newcomer took, leaves no other waiter behind.
NoWaiterForgotten ==
    ~closed /\ At("asleep") # {} => Len(idle) <= Cardinality(At("awake"))

=============================================================================
