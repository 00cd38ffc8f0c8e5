----------------------------- MODULE TaskQueue -----------------------------
(***************************************************************************)
(* What an EventLoop promises to the threads that hand functors to it: a   *)
(* first-in first-out executor with one consumer.  A functor handed over   *)
(* by queueInLoop waits in the queue and starts in its turn, once; one     *)
(* handed over by runInLoop on the loop's own thread starts at once.  After*)
(* the loop has stopped nothing starts any more.                           *)
(***************************************************************************)
EXTENDS Sequences

CONSTANT Tasks          \* the functors that may be handed to the loop

VARIABLES
    fresh,              \* the tasks nobody has handed over yet
    queue,              \* the tasks waiting, the oldest first
    started,            \* the tasks started, in the order they started
    stopped             \* the executor will start nothing more

tqvars == <<fresh, queue, started, stopped>>

TQInit ==
    /\ fresh = Tasks
    /\ queue = <<>>
    /\ started = <<>>
    /\ stopped = FALSE

Submit(t) ==
    /\ t \in fresh
    /\ fresh' = fresh \ {t}
    /\ queue' = Append(queue, t)
    /\ UNCHANGED <<started, stopped>>

\* A task submitted from the executor's own thread may run without queueing.
RunDirectly(t) ==
    /\ ~stopped
    /\ t \in fresh
    /\ fresh' = fresh \ {t}
    /\ started' = Append(started, t)
    /\ UNCHANGED <<queue, stopped>>

RunOldest ==
    /\ ~stopped
    /\ queue # <<>>
    /\ started' = Append(started, Head(queue))
    /\ queue' = Tail(queue)
    /\ UNCHANGED <<fresh, stopped>>

Stop ==
    /\ ~stopped
    /\ stopped' = TRUE
    /\ UNCHANGED <<fresh, queue, started>>

TQNext ==
    \/ \E t \in Tasks : Submit(t) \/ RunDirectly(t)
    \/ RunOldest
    \/ Stop

TQSpec == TQInit /\ [][TQNext]_tqvars

-----------------------------------------------------------------------------
TQTypeOK ==
    /\ fresh \in SUBSET Tasks
    /\ queue \in Seq(Tasks)
    /\ started \in Seq(Tasks)
    /\ stopped \in BOOLEAN

\* Every task handed over is in exactly one place: waiting once, or started
\* once.  This is what makes it safe to hand a destructor to a loop.
ExactlyOnce ==
    LET all == started \o queue IN
    /\ \A i, j \in DOMAIN all : all[i] = all[j] => i = j
    /\ \A t \in Tasks : t \in fresh <=> \A i \in DOMAIN all : all[i] # t
=============================================================================
