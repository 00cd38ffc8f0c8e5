----------------------------- MODULE EventLoop -----------------------------
(***************************************************************************)
(* One EventLoop (src/src/EventLoop.cc): the thread that runs loop(), and  *)
(* the other threads that call queueInLoop(), runInLoop() and quit().  The *)
(* two hand-over operations are not atomic: a foreign thread first pushes  *)
(* the functor (or sets quit_) and only later writes the eventfd, and the  *)
(* loop thread can do anything in between.                                 *)
(*                                                                         *)
(* A functor is a member of Tasks, handed over once.  The eventfd counter  *)
(* is abstracted to "nonzero": handleRead() zeroes it in one read and      *)
(* epoll only looks at whether it is zero.                                 *)
(***************************************************************************)
EXTENDS Sequences, FiniteSets

CONSTANTS
    Threads,            \* the threads other than the loop's own
    Tasks               \* the functors that may be handed to the loop

VARIABLES
    pc,                 \* where the loop thread is in loop()
    quit,               \* quit_
    wakeFd,             \* the eventfd counter is nonzero
    pending,            \* pendingFunctors_
    functors,           \* the local vector doPendingFunctors() swapped out
    active,             \* activeChannels_: the channels poll() reported
    inFunctor,          \* a functor of this pass has been entered
    waking,             \* threads between their push (or quit_ = true) and wakeup()
    fresh,              \* tasks not handed over yet
    started,            \* history: the tasks the loop thread entered, in order
    early               \* history: queued by the loop's own thread before loop()

vars == <<pc, quit, wakeFd, pending, functors, active, inFunctor,
          waking, fresh, started, early>>

\* The program points of loop(): not called yet, at "while (!quit_)", inside
\* epoll_wait, iterating over activeChannels_, inside doPendingFunctors(),
\* returned.
Places == {"before", "check", "polling", "dispatch", "calling", "stopped"}

\* The wakeup channel, and any other channel registered with this poller.
Channels == {"wakeup", "io"}

Looping == pc \notin {"before", "stopped"}          \* looping_
CallingPendingFunctors == pc = "calling"            \* callingPendingFunctors_

Init ==
    /\ pc = "before"
    /\ quit = FALSE
    /\ wakeFd = FALSE
    /\ pending = <<>>
    /\ functors = <<>>
    /\ active = {}
    /\ inFunctor = FALSE
    /\ waking = {}
    /\ fresh = Tasks
    /\ started = <<>>
    /\ early = {}

-----------------------------------------------------------------------------
(* What the other threads do. *)

\* Mutant of PushFromThread: the push is not followed by a wakeup().
PushFromThreadUnannounced(th, t) ==
    /\ th \notin waking
    /\ t \in fresh
    /\ fresh' = fresh \ {t}
    /\ pending' = Append(pending, t)
    /\ UNCHANGED <<pc, quit, wakeFd, functors, active, inFunctor, waking, started, early>>

\* queueInLoop(), or runInLoop() which comes to the same thing here: the push
\* under mutex_.  The thread owes the loop a wakeup from now on.
PushFromThread(th, t) ==
    /\ th \notin waking
    /\ t \in fresh
    /\ fresh' = fresh \ {t}
    /\ pending' = Append(pending, t)
    /\ waking' = waking \cup {th}
    /\ UNCHANGED <<pc, quit, wakeFd, functors, active, inFunctor, started, early>>

\* Mutant: quit() leaves out the wakeup().
QuitFromThreadUnannounced(th) ==
    /\ th \notin waking
    /\ quit' = TRUE
    /\ UNCHANGED <<pc, wakeFd, pending, functors, active, inFunctor, waking, fresh,
                   started, early>>

\* quit() from another thread, up to the store to quit_.
QuitFromThread(th) ==
    /\ th \notin waking
    /\ quit' = TRUE
    /\ waking' = waking \cup {th}
    /\ UNCHANGED <<pc, wakeFd, pending, functors, active, inFunctor, fresh,
                   started, early>>

\* wakeup(): the write that ends queueInLoop() and quit().
Wakeup(th) ==
    /\ th \in waking
    /\ wakeFd' = TRUE
    /\ waking' = waking \ {th}
    /\ UNCHANGED <<pc, quit, pending, functors, active, inFunctor, fresh,
                   started, early>>

-----------------------------------------------------------------------------
(* User code on the loop's own thread: a channel's handler, or a functor.  *)

InHandler == pc = "dispatch" /\ "io" \in active
InUserCode == InHandler \/ (CallingPendingFunctors /\ inFunctor)

\* Mutant: callingPendingFunctors_ is not looked at.
QueueFromLoopQuietly(t) ==
    /\ InUserCode
    /\ t \in fresh
    /\ fresh' = fresh \ {t}
    /\ pending' = Append(pending, t)
    /\ UNCHANGED <<pc, quit, wakeFd, functors, active, inFunctor, waking, started, early>>

\* queueInLoop() on the loop thread: the eventfd is written only when
\* doPendingFunctors() is running, since otherwise the swap is still to come.
QueueFromLoop(t) ==
    /\ InUserCode
    /\ t \in fresh
    /\ fresh' = fresh \ {t}
    /\ pending' = Append(pending, t)
    /\ wakeFd' = (wakeFd \/ CallingPendingFunctors)
    /\ UNCHANGED <<pc, quit, functors, active, inFunctor, waking, started, early>>

\* The same before loop() is entered: no wakeup at all.
QueueBeforeLoop(t) ==
    /\ pc = "before"
    /\ t \in fresh
    /\ fresh' = fresh \ {t}
    /\ pending' = Append(pending, t)
    /\ early' = early \cup {t}
    /\ UNCHANGED <<pc, quit, wakeFd, functors, active, inFunctor, waking, started>>

\* runInLoop() on the loop thread calls the functor there and then.
RunInLoopDirectly(t) ==
    /\ pc = "before" \/ InUserCode
    /\ t \in fresh
    /\ fresh' = fresh \ {t}
    /\ started' = Append(started, t)
    /\ UNCHANGED <<pc, quit, wakeFd, pending, functors, active, inFunctor,
                   waking, early>>

\* quit() on the loop thread: no wakeup, "while (!quit_)" comes next anyway.
QuitFromLoop ==
    /\ pc = "before" \/ InUserCode
    /\ quit' = TRUE
    /\ UNCHANGED <<pc, wakeFd, pending, functors, active, inFunctor, waking,
                   fresh, started, early>>

-----------------------------------------------------------------------------
(* loop() itself. *)

\* Entering loop() forgets any quit() that came before it.
EnterLoop ==
    /\ pc = "before"
    /\ pc' = "check"
    /\ quit' = FALSE
    /\ UNCHANGED <<wakeFd, pending, functors, active, inFunctor, waking, fresh,
                   started, early>>

\* while (!quit_): leave, or clear activeChannels_ and enter epoll_wait.
CheckQuit ==
    /\ pc = "check"
    /\ pc' = IF quit THEN "stopped" ELSE "polling"
    /\ active' = {}
    /\ UNCHANGED <<quit, wakeFd, pending, functors, inFunctor, waking, fresh,
                   started, early>>

\* epoll_wait returns because the eventfd is readable (other channels may be
\* ready too) ...
PollWakeup ==
    /\ pc = "polling"
    /\ wakeFd
    /\ active' \in {{"wakeup"}, Channels}
    /\ pc' = "dispatch"
    /\ UNCHANGED <<quit, wakeFd, pending, functors, inFunctor, waking, fresh,
                   started, early>>

\* ... or because only other channels are ready ...
PollOther ==
    /\ pc = "polling"
    /\ ~wakeFd
    /\ active' = {"io"}
    /\ pc' = "dispatch"
    /\ UNCHANGED <<quit, wakeFd, pending, functors, inFunctor, waking, fresh,
                   started, early>>

\* Mutant: a poll without events goes straight to the next round.
PollTimeoutContinues ==
    /\ pc = "polling"
    /\ ~wakeFd
    /\ pc' = "check"
    /\ UNCHANGED <<quit, wakeFd, pending, functors, active, inFunctor, waking,
                   fresh, started, early>>

\* ... or with nothing at all, after kPollTimeMs.
PollTimeout ==
    /\ pc = "polling"
    /\ ~wakeFd
    /\ pc' = "dispatch"
    /\ UNCHANGED <<quit, wakeFd, pending, functors, active, inFunctor, waking,
                   fresh, started, early>>

\* The wakeup channel's handleEvent(): one read zeroes the eventfd.
HandleRead ==
    /\ pc = "dispatch"
    /\ "wakeup" \in active
    /\ wakeFd' = FALSE
    /\ active' = active \ {"wakeup"}
    /\ UNCHANGED <<pc, quit, pending, functors, inFunctor, waking, fresh,
                   started, early>>

\* Another channel's handleEvent() returns.  epoll lists the channels in any
\* order, so it may come before or after HandleRead.
HandlerReturns ==
    /\ InHandler
    /\ active' = active \ {"io"}
    /\ UNCHANGED <<pc, quit, wakeFd, pending, functors, inFunctor, waking, fresh,
                   started, early>>

\* Mutant: the vector is copied instead of swapped.
DoPendingFunctorsCopies ==
    /\ pc = "dispatch"
    /\ active = {}
    /\ pc' = "calling"
    /\ functors' = pending
    /\ UNCHANGED <<quit, wakeFd, pending, active, inFunctor, waking, fresh, started,
                   early>>

\* doPendingFunctors(): the swap under mutex_.
DoPendingFunctors ==
    /\ pc = "dispatch"
    /\ active = {}
    /\ pc' = "calling"
    /\ functors' = pending
    /\ pending' = <<>>
    /\ UNCHANGED <<quit, wakeFd, active, inFunctor, waking, fresh, started, early>>

\* ... the next cb() of the pass (the previous one, if any, has returned) ...
CallFunctor ==
    /\ pc = "calling"
    /\ functors # <<>>
    /\ started' = Append(started, Head(functors))
    /\ functors' = Tail(functors)
    /\ inFunctor' = TRUE
    /\ UNCHANGED <<pc, quit, wakeFd, pending, active, waking, fresh, early>>

\* ... and the end of the pass.
FunctorsDone ==
    /\ pc = "calling"
    /\ functors = <<>>
    /\ pc' = "check"
    /\ inFunctor' = FALSE
    /\ UNCHANGED <<quit, wakeFd, pending, functors, active, waking, fresh,
                   started, early>>

-----------------------------------------------------------------------------
OtherThreads ==
    \E th \in Threads :
        \/ \E t \in Tasks : PushFromThread(th, t)
        \/ QuitFromThread(th)
        \/ Wakeup(th)

UserCode ==
    \/ \E t \in Tasks : QueueFromLoop(t) \/ QueueBeforeLoop(t) \/ RunInLoopDirectly(t)
    \/ QuitFromLoop

\* The steps of loop() that need nothing from outside to happen.
LoopSteps ==
    \/ CheckQuit
    \/ PollWakeup
    \/ HandleRead
    \/ HandlerReturns
    \/ DoPendingFunctors
    \/ CallFunctor
    \/ FunctorsDone

Next == OtherThreads \/ UserCode \/ EnterLoop \/ LoopSteps \/ PollOther \/ PollTimeout

Spec == Init /\ [][Next]_vars

(***************************************************************************)
(* Fairness.  The scheduler runs the loop thread, handlers and functors    *)
(* return, and a thread that has pushed goes on to write the eventfd.      *)
(* Nothing is assumed of the poll timeout or of other descriptors: work    *)
(* handed over must not have to wait for either.                           *)
(***************************************************************************)
Fairness ==
    /\ WF_vars(LoopSteps)
    /\ \A th \in Threads : WF_vars(Wakeup(th))

FairSpec == Spec /\ Fairness

-----------------------------------------------------------------------------
(* What the loop must guarantee. *)

\* The variables hold what their declarations say.
TypeOK ==
    /\ pc \in Places
    /\ quit \in BOOLEAN
    /\ wakeFd \in BOOLEAN
    /\ pending \in Seq(Tasks)
    /\ functors \in Seq(Tasks)
    /\ active \in SUBSET Channels
    /\ inFunctor \in BOOLEAN
    /\ waking \in SUBSET Threads
    /\ fresh \in SUBSET Tasks
    /\ started \in Seq(Tasks)
    /\ early \in SUBSET Tasks

\* Something the blocked loop should be told about: a quit, or a functor that
\* was not queued by the loop's own thread before loop().
Unattended == quit \/ \E i \in DOMAIN pending : pending[i] \notin early

\* No lost wakeup: whenever the loop thread is in epoll_wait while there is
\* something for it to do, the eventfd is readable or some thread is about to
\* write it.  This is what the order push-then-write in queueInLoop(), the
\* order store-then-write in quit(), the swap after the read of the eventfd
\* and the test of callingPendingFunctors_ together achieve.
NoLostWakeup ==
    pc = "polling" /\ Unattended => wakeFd \/ waking # {}

\* The loop is a first-in first-out executor: the functors it starts are those
\* handed over, each once, in the order of their pushes.
TQ == INSTANCE TaskQueue WITH queue <- functors \o pending,
                              stopped <- (pc = "stopped")

ImplementsTaskQueue == TQ!TQSpec

\* No functor handed over is lost or started twice, whatever the interleaving of
\* pushes with the swap: it waits in one of the two vectors or has started once.
EachOnce == TQ!ExactlyOnce

Waiting(t) == t \in {(functors \o pending)[i] : i \in DOMAIN (functors \o pending)}
Started(t) == t \in {started[i] : i \in DOMAIN started}

\* A functor handed to a running loop starts, unless somebody quits the loop,
\* and it does so without the help of the poll timeout or of other traffic.
QueuedRuns ==
    \A t \in Tasks : (Looping /\ Waiting(t) /\ t \notin early) ~> (Started(t) \/ quit)

\* A functor queued by the loop's own thread before loop() writes no eventfd;
\* it starts all the same, provided that epoll_wait does time out.
EarlyRuns ==
    WF_vars(PollTimeout) =>
        \A t \in Tasks : (Looping /\ Waiting(t)) ~> (Started(t) \/ quit)

\* A quit() of a running loop, from any thread, makes loop() return.
QuitStops == (Looping /\ quit) ~> (pc = "stopped")
=============================================================================
