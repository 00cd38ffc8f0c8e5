-------------------------- MODULE EventLoopThread --------------------------
(***************************************************************************)
(* An EventLoopThread (src/src/EventloopThread.cc) around the EventLoop of *)
(* the module EventLoop: the owner constructs it, calls startLoop() and    *)
(* uses the pointer it returns, and finally destroys it; the new thread    *)
(* runs threadFunc(), which holds the EventLoop on its stack.  Whoever can *)
(* reach the loop may quit() it, and so end the thread at any time.        *)
(***************************************************************************)
EXTENDS EventLoop

CONSTANTS
    owner               \* the thread that owns the EventLoopThread

ASSUME OwnerAssumption == owner \in Threads

VARIABLES
    ownerPc,            \* where the owner is: startLoop(), using it, destructor
    threadPc,           \* where the new thread is in threadFunc()
    tid,                \* tid_ has been assigned
    loopPtr,            \* loop_ # nullptr
    loopAlive           \* the EventLoop object exists

threadVars == <<ownerPc, threadPc, tid, loopPtr, loopAlive>>
allVars == <<vars, threadVars>>

\* constructed; in Thread::start(); in the wait of startLoop(); past it; holding
\* the pointer; holding a null pointer; past the test of loop_ in the destructor;
\* past "quit_ = true"; in join(); destroyed, with the thread joined, or with the
\* thread, if there is one, detached.
OwnerPlaces == {"created", "starting", "waiting", "notified", "using", "refused",
                "quitting", "waking", "joining", "joined", "detached"}
\* no thread; spawned; constructing the loop and in the init callback; loop_
\* published; in loop(); loop_ cleared, still holding mutex_; ended.
ThreadPlaces == {"none", "spawned", "init", "published", "looping", "cleared", "exited"}

ThreadInit ==
    /\ Init
    /\ ownerPc = "created"
    /\ threadPc = "none"
    /\ tid = FALSE
    /\ loopPtr = FALSE
    /\ loopAlive = FALSE

-----------------------------------------------------------------------------
(* startLoop(), on the owner's side. *)

\* Thread::start(): the std::thread is created, the owner waits on the semaphore.
StartThread ==
    /\ ownerPc = "created"
    /\ ownerPc' = "starting"
    /\ threadPc' = "spawned"
    /\ UNCHANGED <<vars, tid, loopPtr, loopAlive>>

\* sem_wait returns; on to the wait for loop_.
StartReturns ==
    /\ ownerPc = "starting"
    /\ tid
    /\ ownerPc' = "waiting"
    /\ UNCHANGED <<vars, threadPc, tid, loopPtr, loopAlive>>

\* Mutant: the wait has no predicate, and returns without a notification.
WaitReturnsSpuriously ==
    /\ ownerPc = "waiting"
    /\ ownerPc' = "notified"
    /\ UNCHANGED <<vars, threadPc, tid, loopPtr, loopAlive>>

\* cond_.wait(lock, loop_ != nullptr) returns, and mutex_ is released ...
WaitReturns ==
    /\ ownerPc = "waiting"
    /\ loopPtr
    /\ ownerPc' = "notified"
    /\ UNCHANGED <<vars, threadPc, tid, loopPtr, loopAlive>>

\* ... and loop_ is read without it.
StartLoopReturns ==
    /\ ownerPc = "notified"
    /\ ownerPc' = IF loopPtr THEN "using" ELSE "refused"
    /\ UNCHANGED <<vars, threadPc, tid, loopPtr, loopAlive>>

-----------------------------------------------------------------------------
(* The new thread. *)

\* tid_ is assigned and the semaphore posted; threadFunc() constructs the loop.
ThreadBegins ==
    /\ threadPc = "spawned"
    /\ threadPc' = "init"
    /\ tid' = TRUE
    /\ loopAlive' = TRUE
    /\ UNCHANGED <<vars, ownerPc, loopPtr>>

\* The init callback may hand the loop work of its own, or call quit(), in vain.
InitCallback ==
    /\ threadPc = "init"
    /\ (\E t \in Tasks : QueueBeforeLoop(t) \/ RunInLoopDirectly(t)) \/ QuitFromLoop
    /\ UNCHANGED threadVars

\* loop_ = &loop and notify_all, under mutex_.
Publish ==
    /\ threadPc = "init"
    /\ threadPc' = "published"
    /\ loopPtr' = TRUE
    /\ UNCHANGED <<vars, ownerPc, tid, loopAlive>>

CallLoop ==
    /\ threadPc = "published"
    /\ EnterLoop
    /\ threadPc' = "looping"
    /\ UNCHANGED <<ownerPc, tid, loopPtr, loopAlive>>

RunLoop ==
    /\ threadPc = "looping"
    /\ LoopSteps
    /\ UNCHANGED threadVars

\* What the network, the clock, and the handlers and functors of a running loop may do.
LoopSurroundings ==
    /\ threadPc = "looping"
    /\ \/ PollOther \/ PollTimeout \/ QuitFromLoop
       \/ \E t \in Tasks : QueueFromLoop(t) \/ RunInLoopDirectly(t)
    /\ UNCHANGED threadVars

\* loop() has returned: loop_ = nullptr under mutex_.
ClearPointer ==
    /\ threadPc = "looping"
    /\ pc = "stopped"
    /\ threadPc' = "cleared"
    /\ loopPtr' = FALSE
    /\ UNCHANGED <<vars, ownerPc, tid, loopAlive>>

\* The end of threadFunc() releases mutex_ and destroys the EventLoop.
ThreadExits ==
    /\ threadPc = "cleared"
    /\ threadPc' = "exited"
    /\ loopAlive' = FALSE
    /\ UNCHANGED <<vars, ownerPc, tid, loopPtr>>

-----------------------------------------------------------------------------
(* The users of the pointer, and the destructor. *)

\* Any thread may hand work to the loop that startLoop() returned, or quit() it, as long as
\* that exists; all have returned when the owner starts the destructor.  (A wakeup() for a
\* loop that has ended meanwhile writes to an eventfd that is taken to be open still.)
UseLoop ==
    /\ ownerPc = "using"
    /\ \E th \in Threads :
          \/ loopAlive /\ ((\E t \in Tasks : PushFromThread(th, t)) \/ QuitFromThread(th))
          \/ Wakeup(th)
    /\ UNCHANGED threadVars

\* ~EventLoopThread() tests loop_ without the lock.  When it is null the
\* destructor is over, and ~Thread() detaches a thread that was started.
DtorTest ==
    /\ ownerPc \in {"created", "using", "refused"}
    /\ waking = {}
    /\ ownerPc' = IF loopPtr THEN "quitting" ELSE "detached"
    /\ UNCHANGED <<vars, threadPc, tid, loopPtr, loopAlive>>

\* loop_->quit(): quit_ = true, in a loop that may have ended since the test ...
DtorQuit ==
    /\ ownerPc = "quitting"
    /\ QuitFromThread(owner)
    /\ ownerPc' = "waking"
    /\ UNCHANGED <<threadPc, tid, loopPtr, loopAlive>>

\* Mutant: quit() from another thread writes nothing.
DtorWakeupOmitted ==
    /\ ownerPc = "waking"
    /\ waking' = waking \ {owner}
    /\ ownerPc' = "joining"
    /\ UNCHANGED <<pc, quit, wakeFd, pending, functors, active, inFunctor, fresh,
                   started, early, threadPc, tid, loopPtr, loopAlive>>

\* ... and its wakeup().
DtorWakeup ==
    /\ ownerPc = "waking"
    /\ Wakeup(owner)
    /\ ownerPc' = "joining"
    /\ UNCHANGED <<threadPc, tid, loopPtr, loopAlive>>

\* Mutant: the thread is not joined.
DtorJoinOmitted ==
    /\ ownerPc = "joining"
    /\ ownerPc' = "joined"
    /\ UNCHANGED <<vars, threadPc, tid, loopPtr, loopAlive>>

\* thread_.join()
DtorJoin ==
    /\ ownerPc = "joining"
    /\ threadPc = "exited"
    /\ ownerPc' = "joined"
    /\ UNCHANGED <<vars, threadPc, tid, loopPtr, loopAlive>>

-----------------------------------------------------------------------------
\* What the code does on its own once started, resp. once the destructor began.
ThreadSteps == ThreadBegins \/ Publish \/ CallLoop \/ RunLoop \/ ClearPointer \/ ThreadExits
OwnerSteps ==
    \/ StartReturns \/ WaitReturns \/ StartLoopReturns
    \/ DtorQuit \/ DtorWakeup \/ DtorJoin

ThreadNext ==
    \/ StartThread \/ DtorTest \/ OwnerSteps
    \/ ThreadSteps \/ InitCallback \/ LoopSurroundings
    \/ UseLoop

\* The scheduler runs both threads; nothing is assumed of the poll timeout.
ThreadSpec ==
    /\ ThreadInit
    /\ [][ThreadNext]_allVars
    /\ WF_allVars(ThreadSteps)
    /\ WF_allVars(OwnerSteps)

-----------------------------------------------------------------------------
ThreadTypeOK ==
    /\ TypeOK
    /\ ownerPc \in OwnerPlaces
    /\ threadPc \in ThreadPlaces
    /\ {tid, loopPtr, loopAlive} \subseteq BOOLEAN

\* startLoop() goes on only after the loop and its init callback are done
\* (EventloopThread.cc:27), and the thread's id is known by then.  The pointer it returns is
\* that of an existing loop, and null or the pointer of a loop that is gone is held for none
\* but a loop that has been quit: it is not only the owner that may end it.
StartLoopIsReady ==
    /\ ownerPc \in {"notified", "using", "refused", "quitting"} =>
           tid /\ threadPc \notin {"none", "spawned", "init"}
    /\ ownerPc \in {"using", "quitting"} => (loopPtr /\ loopAlive) \/ quit
    /\ ownerPc = "refused" => quit

\* The destructor leaves no thread that is still to run its loop, nor one in it.  A thread
\* that it has joined is over, and so is its loop.  One that it detaches has been quit by
\* somebody else and has returned from loop(): what may be left of threadFunc() is to release
\* mutex_ and to destroy the loop (EventloopThread.cc:19, :58-60; Thread.cc:22-28).
NoThreadLeftBehind ==
    /\ ownerPc = "joined" => threadPc = "exited" /\ ~loopAlive
    /\ ownerPc = "detached" =>
          \/ threadPc = "none"
          \/ threadPc \in {"cleared", "exited"} /\ pc = "stopped" /\ quit

\* The destructor returns, if loop() has been entered by then (entering it forgets a quit that
\* came before): the quit reaches the loop wherever that is, or finds it ended by another
\* quit, and the join succeeds.
DestructorReturns == (ownerPc = "quitting" /\ pc # "before") ~> (ownerPc = "joined")
=============================================================================
