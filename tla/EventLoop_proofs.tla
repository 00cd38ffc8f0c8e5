-------------------------- MODULE EventLoop_proofs --------------------------
(***************************************************************************)
(* Theorems about EventLoop, for any set of threads and any set of tasks,  *)
(* and about EventLoopThread, for an owner that destroys it at any time.   *)
(***************************************************************************)
EXTENDS EventLoopThread, SequenceTheorems, TLAPS

-----------------------------------------------------------------------------
(* Facts about sequences. *)

LEMMA ConcatAppend ==
    ASSUME NEW S, NEW s \in Seq(S), NEW q \in Seq(S), NEW e \in S
    PROVE  s \o Append(q, e) = Append(s \o q, e)
<1>1. s \o Append(q, e) = s \o (q \o <<e>>)
    BY AppendIsConcat
<1>2. s \o (q \o <<e>>) = (s \o q) \o <<e>>
    BY ConcatAssociative
<1>3. (s \o q) \o <<e>> = Append(s \o q, e)
    BY AppendIsConcat, ConcatProperties
<1> QED BY <1>1, <1>2, <1>3

LEMMA ConcatHeadTail ==
    ASSUME NEW S, NEW s \in Seq(S), NEW q \in Seq(S), s # <<>>
    PROVE  /\ s \o q # <<>>
           /\ Head(s \o q) = Head(s)
           /\ Tail(s \o q) = Tail(s) \o q
<1>1. /\ s \o q \in Seq(S)
      /\ Len(s) \in Nat \ {0}
      /\ Len(q) \in Nat
      /\ Len(s \o q) = Len(s) + Len(q)
    BY EmptySeq, LenProperties, ConcatProperties
<1>2. s \o q # <<>>
    BY <1>1, EmptySeq
<1>3. Head(s \o q) = Head(s)
    BY <1>1, <1>2, ConcatProperties
<1>4. Tail(s \o q) = Tail(s) \o q
    <2>1. /\ Tail(s) \in Seq(S)
          /\ Tail(s) \o q \in Seq(S)
          /\ Tail(s \o q) \in Seq(S)
          /\ Len(Tail(s)) = Len(s) - 1
          /\ Len(Tail(s \o q)) = Len(s) + Len(q) - 1
          /\ Len(Tail(s) \o q) = Len(s) - 1 + Len(q)
        BY <1>1, <1>2, HeadTailProperties, ConcatProperties
    <2>2. ASSUME NEW i \in 1 .. Len(Tail(s \o q))
          PROVE  Tail(s \o q)[i] = (Tail(s) \o q)[i]
        <3>1. Tail(s \o q)[i] = (s \o q)[i + 1]
            BY <1>1, <1>2, HeadTailProperties
        <3>2. (s \o q)[i + 1] = IF i + 1 <= Len(s) THEN s[i + 1]
                                ELSE q[i + 1 - Len(s)]
            BY <1>1, <2>1, ConcatProperties
        <3>3. (Tail(s) \o q)[i] = IF i <= Len(s) - 1 THEN Tail(s)[i]
                                  ELSE q[i - (Len(s) - 1)]
            BY <1>1, <2>1, ConcatProperties
        <3>4. i <= Len(s) - 1 => Tail(s)[i] = s[i + 1]
            BY <1>1, <2>1, HeadTailProperties
        <3> QED BY <1>1, <2>1, <3>1, <3>2, <3>3, <3>4
    <2> QED BY <1>1, <2>1, <2>2, SeqEqual
<1> QED BY <1>2, <1>3, <1>4

-----------------------------------------------------------------------------
(* Typing, and the invariant behind the absence of lost wakeups. *)

LEMMA TypeInit == Init => TypeOK
BY EmptySeq DEF Init, TypeOK, Places

LEMMA TypeStep == TypeOK /\ [Next]_vars => TypeOK'
<1> SUFFICES ASSUME TypeOK, [Next]_vars PROVE TypeOK'
    OBVIOUS
<1> USE DEF TypeOK, Places
<1>1. ASSUME NEW th \in Threads, NEW t \in Tasks, PushFromThread(th, t) PROVE TypeOK'
    BY <1>1, AppendProperties DEF PushFromThread
<1>2. ASSUME NEW th \in Threads, QuitFromThread(th) PROVE TypeOK'
    BY <1>2 DEF QuitFromThread
<1>3. ASSUME NEW th \in Threads, Wakeup(th) PROVE TypeOK'
    BY <1>3 DEF Wakeup
<1>4. ASSUME NEW t \in Tasks, QueueFromLoop(t) PROVE TypeOK'
    BY <1>4, AppendProperties DEF QueueFromLoop, CallingPendingFunctors
<1>5. ASSUME NEW t \in Tasks, QueueBeforeLoop(t) PROVE TypeOK'
    BY <1>5, AppendProperties DEF QueueBeforeLoop
<1>6. ASSUME NEW t \in Tasks, RunInLoopDirectly(t) PROVE TypeOK'
    BY <1>6, AppendProperties DEF RunInLoopDirectly
<1>7. CASE QuitFromLoop
    BY <1>7 DEF QuitFromLoop
<1>8. CASE EnterLoop
    BY <1>8 DEF EnterLoop
<1>9. CASE CheckQuit
    BY <1>9 DEF CheckQuit
<1>10. CASE PollWakeup
    BY <1>10 DEF PollWakeup, Channels
<1>11. CASE PollOther
    BY <1>11 DEF PollOther, Channels
<1>12. CASE PollTimeout
    BY <1>12 DEF PollTimeout
<1>13. CASE HandleRead
    BY <1>13 DEF HandleRead
<1>14. CASE HandlerReturns
    BY <1>14 DEF HandlerReturns
<1>15. CASE DoPendingFunctors
    BY <1>15, EmptySeq DEF DoPendingFunctors
<1>16. CASE CallFunctor
    BY <1>16, HeadTailProperties, AppendProperties DEF CallFunctor
<1>17. CASE FunctorsDone
    BY <1>17 DEF FunctorsDone
<1>18. CASE UNCHANGED vars
    BY <1>18 DEF vars
<1> QED
    BY <1>1, <1>2, <1>3, <1>4, <1>5, <1>6, <1>7, <1>8, <1>9, <1>10, <1>11, <1>12,
       <1>13, <1>14, <1>15, <1>16, <1>17, <1>18
       DEF Next, OtherThreads, UserCode, LoopSteps

(* In every reachable state the variables have their types. *)
THEOREM TypeCorrect == Spec => []TypeOK
BY TypeInit, TypeStep, PTL DEF Spec

\* Some functor in pendingFunctors_ was pushed by an operation that owes the
\* loop a wakeup (or whose wakeup is not needed because a swap follows).
Owed == \E i \in DOMAIN pending : pending[i] \notin early

\* Between a read of the eventfd and the swap that follows it the eventfd may be
\* clear although work is pending: everywhere else it is set, or about to be.
OwedIsAnnounced == pc # "dispatch" /\ Owed => wakeFd \/ waking # {}
QuitIsAnnounced == pc = "polling" /\ quit => wakeFd \/ waking # {}
SwapOnlyWhenEmpty == pc # "calling" => functors = <<>>

WakeupInv == OwedIsAnnounced /\ QuitIsAnnounced /\ SwapOnlyWhenEmpty

LEMMA WakeupInit == Init => WakeupInv
BY DEF Init, WakeupInv, OwedIsAnnounced, QuitIsAnnounced, SwapOnlyWhenEmpty, Owed

\* A step that pushes one functor creates no other debt.
LEMMA OwedAfterPush ==
    ASSUME TypeOK, NEW t \in Tasks, pending' = Append(pending, t),
           early' = early \/ early' = early \cup {t}
    PROVE  /\ Owed' => Owed \/ t \notin early'
<1>1. ASSUME Owed', t \in early' PROVE Owed
    <2>1. PICK i \in DOMAIN pending' : pending'[i] \notin early'
        BY <1>1 DEF Owed
    <2>2. /\ pending' \in Seq(Tasks)
          /\ Len(pending') = Len(pending) + 1
          /\ \A j \in 1 .. Len(pending) : pending'[j] = pending[j]
          /\ pending'[Len(pending) + 1] = t
        BY AppendProperties DEF TypeOK
    <2>3. /\ Len(pending) \in Nat
          /\ DOMAIN pending = 1 .. Len(pending)
          /\ DOMAIN pending' = 1 .. (Len(pending) + 1)
        BY <2>2, LenProperties DEF TypeOK
    <2>4. i # Len(pending) + 1
        BY <1>1, <2>1, <2>2
    <2>5. i \in DOMAIN pending /\ pending[i] \notin early
        BY <2>1, <2>2, <2>3, <2>4
    <2> QED BY <2>5 DEF Owed
<1> QED BY <1>1

LEMMA WakeupStep == TypeOK /\ WakeupInv /\ [Next]_vars => WakeupInv'
<1> SUFFICES ASSUME TypeOK, WakeupInv, [Next]_vars PROVE WakeupInv'
    OBVIOUS
<1> USE DEF WakeupInv, OwedIsAnnounced, QuitIsAnnounced, SwapOnlyWhenEmpty
<1>1. ASSUME NEW th \in Threads, NEW t \in Tasks, PushFromThread(th, t) PROVE WakeupInv'
    BY <1>1 DEF PushFromThread
<1>2. ASSUME NEW th \in Threads, QuitFromThread(th) PROVE WakeupInv'
    BY <1>2 DEF QuitFromThread
<1>3. ASSUME NEW th \in Threads, Wakeup(th) PROVE WakeupInv'
    BY <1>3 DEF Wakeup
<1>4. ASSUME NEW t \in Tasks, QueueFromLoop(t) PROVE WakeupInv'
    BY <1>4 DEF QueueFromLoop, InUserCode, InHandler, CallingPendingFunctors, TypeOK
<1>5. ASSUME NEW t \in Tasks, QueueBeforeLoop(t) PROVE WakeupInv'
    <2>1. Owed' => Owed
        BY <1>5, OwedAfterPush DEF QueueBeforeLoop
    <2> QED BY <1>5, <2>1 DEF QueueBeforeLoop
<1>6. ASSUME NEW t \in Tasks, RunInLoopDirectly(t) PROVE WakeupInv'
    BY <1>6 DEF RunInLoopDirectly, Owed
<1>7. CASE QuitFromLoop
    BY <1>7 DEF QuitFromLoop, InUserCode, InHandler, CallingPendingFunctors, Owed
<1>8. CASE EnterLoop
    BY <1>8 DEF EnterLoop, Owed
<1>9. CASE CheckQuit
    BY <1>9 DEF CheckQuit, Owed, TypeOK
<1>10. CASE PollWakeup \/ PollOther \/ PollTimeout
    BY <1>10 DEF PollWakeup, PollOther, PollTimeout
<1>11. CASE HandleRead
    BY <1>11 DEF HandleRead
<1>12. CASE HandlerReturns
    BY <1>12 DEF HandlerReturns, InHandler
<1>13. CASE DoPendingFunctors
    BY <1>13 DEF DoPendingFunctors, Owed
<1>14. CASE CallFunctor
    BY <1>14 DEF CallFunctor, Owed
<1>15. CASE FunctorsDone
    BY <1>15 DEF FunctorsDone, Owed
<1>16. CASE UNCHANGED vars
    BY <1>16 DEF vars, Owed
<1> QED
    BY <1>1, <1>2, <1>3, <1>4, <1>5, <1>6, <1>7, <1>8, <1>9, <1>10, <1>11, <1>12,
       <1>13, <1>14, <1>15, <1>16
       DEF Next, OtherThreads, UserCode, LoopSteps

LEMMA Inductive == Spec => [](TypeOK /\ WakeupInv)
<1>1. Init => TypeOK /\ WakeupInv
    BY TypeInit, WakeupInit
<1>2. (TypeOK /\ WakeupInv) /\ [Next]_vars => (TypeOK /\ WakeupInv)'
    BY TypeStep, WakeupStep
<1> QED BY <1>1, <1>2, PTL DEF Spec

(* The loop thread is never blocked in epoll_wait with a quit or an announced *)
(* functor waiting, unless the eventfd is readable or about to be written.    *)
THEOREM WakeupNeverLost == Spec => []NoLostWakeup
<1>1. TypeOK /\ WakeupInv => NoLostWakeup
    BY DEF WakeupInv, OwedIsAnnounced, QuitIsAnnounced, NoLostWakeup, Unattended, Owed
<1> QED BY <1>1, Inductive, PTL

-----------------------------------------------------------------------------
(* The loop implements the executor. *)

LEMMA ExecutorInit == Init => TQ!TQInit
<1> SUFFICES ASSUME Init PROVE TQ!TQInit
    OBVIOUS
<1>1. functors \o pending = <<>>
    BY EmptySeq, ConcatEmptySeq DEF Init
<1> QED BY <1>1 DEF Init, TQ!TQInit

LEMMA ExecutorStep == TypeOK /\ WakeupInv /\ [Next]_vars => [TQ!TQNext]_(TQ!tqvars)
<1> SUFFICES ASSUME TypeOK, WakeupInv, [Next]_vars PROVE [TQ!TQNext]_(TQ!tqvars)
    OBVIOUS
<1> USE DEF TQ!TQNext, TQ!tqvars
<1>1. ASSUME NEW th \in Threads, NEW t \in Tasks, PushFromThread(th, t)
      PROVE  TQ!Submit(t)
    BY <1>1, ConcatAppend DEF PushFromThread, TQ!Submit, TypeOK
<1>2. ASSUME NEW th \in Threads, QuitFromThread(th) \/ Wakeup(th)
      PROVE  UNCHANGED TQ!tqvars
    BY <1>2 DEF QuitFromThread, Wakeup
<1>3. ASSUME NEW t \in Tasks, QueueFromLoop(t) \/ QueueBeforeLoop(t)
      PROVE  TQ!Submit(t)
    <2>1. /\ t \in fresh
          /\ fresh' = fresh \ {t}
          /\ pending' = Append(pending, t)
          /\ UNCHANGED <<pc, functors, started>>
        BY <1>3 DEF QueueFromLoop, QueueBeforeLoop
    <2> QED BY <2>1, ConcatAppend DEF TQ!Submit, TypeOK
<1>4. ASSUME NEW t \in Tasks, RunInLoopDirectly(t) PROVE TQ!RunDirectly(t)
    BY <1>4 DEF RunInLoopDirectly, InUserCode, InHandler, CallingPendingFunctors,
                TQ!RunDirectly
<1>5. CASE QuitFromLoop
    BY <1>5 DEF QuitFromLoop
<1>6. CASE EnterLoop
    BY <1>6 DEF EnterLoop
<1>7. CASE CheckQuit
    <2>1. CASE quit
        BY <1>7, <2>1 DEF CheckQuit, TQ!Stop
    <2>2. CASE ~quit
        BY <1>7, <2>2 DEF CheckQuit
    <2> QED BY <2>1, <2>2
<1>8. CASE PollWakeup \/ PollOther \/ PollTimeout \/ HandleRead \/ HandlerReturns
    BY <1>8 DEF PollWakeup, PollOther, PollTimeout, HandleRead, HandlerReturns, InHandler
<1>9. CASE DoPendingFunctors
    <2>1. functors = <<>>
        BY <1>9 DEF DoPendingFunctors, WakeupInv, SwapOnlyWhenEmpty
    <2>2. functors \o pending = functors' \o pending'
        BY <1>9, <2>1, ConcatEmptySeq DEF DoPendingFunctors, TypeOK
    <2> QED BY <1>9, <2>2 DEF DoPendingFunctors
<1>10. CASE CallFunctor
    <2>1. /\ functors \o pending # <<>>
          /\ Head(functors \o pending) = Head(functors)
          /\ Tail(functors \o pending) = functors' \o pending'
        BY <1>10, ConcatHeadTail DEF CallFunctor, TypeOK
    <2> QED BY <1>10, <2>1 DEF CallFunctor, TQ!RunOldest
<1>11. CASE FunctorsDone
    BY <1>11 DEF FunctorsDone
<1>12. CASE UNCHANGED vars
    BY <1>12 DEF vars
<1> QED
    BY <1>1, <1>2, <1>3, <1>4, <1>5, <1>6, <1>7, <1>8, <1>9, <1>10, <1>11, <1>12
       DEF Next, OtherThreads, UserCode, LoopSteps

(* The loop is a first-in first-out executor: the functors it starts are those *)
(* handed over, in the order of their pushes.                                  *)
THEOREM LoopIsTaskQueue == Spec => ImplementsTaskQueue
BY ExecutorInit, ExecutorStep, Inductive, PTL DEF Spec, ImplementsTaskQueue, TQ!TQSpec

\* The theorems about the executor, under the refinement mapping.
Exec == INSTANCE TaskQueue_proofs WITH queue <- functors \o pending,
                                       stopped <- (pc = "stopped")

(* No functor handed to the loop is lost or started twice. *)
THEOREM FunctorsStartOnce == Spec => []EachOnce
<1>1. TQ!TQInit <=> Exec!TQInit
    BY DEF TQ!TQInit, Exec!TQInit
<1>2. [TQ!TQNext]_(TQ!tqvars) <=> [Exec!TQNext]_(Exec!tqvars)
    BY DEF TQ!TQNext, TQ!Submit, TQ!RunDirectly, TQ!RunOldest, TQ!Stop, TQ!tqvars,
           Exec!TQNext, Exec!Submit, Exec!RunDirectly, Exec!RunOldest, Exec!Stop,
           Exec!tqvars
<1>3. Exec!TQSpec => []Exec!ExactlyOnce
    BY Exec!StartedOnce
<1>4. EachOnce <=> Exec!ExactlyOnce
    BY DEF EachOnce, TQ!ExactlyOnce, Exec!ExactlyOnce
<1> QED
    BY LoopIsTaskQueue, <1>1, <1>2, <1>3, <1>4, PTL
       DEF ImplementsTaskQueue, TQ!TQSpec, Exec!TQSpec

-----------------------------------------------------------------------------
(* A loop in a thread of its own (EventLoopThread). *)

\* A loop that has returned was quit, by whomever, and that is not forgotten any more.
StoppedWasQuit == pc = "stopped" => quit

\* How far the new thread is says what it has done.
Reached ==
    /\ ownerPc = "created" => threadPc = "none"
    /\ ownerPc # "created" => threadPc # "none" \/ ownerPc = "detached"
    /\ tid <=> threadPc \notin {"none", "spawned"}
    /\ loopPtr <=> threadPc \in {"published", "looping"}
    /\ loopAlive <=> threadPc \in {"init", "published", "looping", "cleared"}
    /\ threadPc \in {"none", "spawned", "init", "published"} => pc = "before"
    /\ threadPc \in {"cleared", "exited"} => pc = "stopped"

\* What the owner has waited for, or seen.
Awaited ==
    /\ ownerPc \in {"notified", "using", "refused", "quitting", "waking", "joining"} =>
           threadPc \notin {"none", "spawned", "init"}
    /\ ownerPc = "refused" => threadPc \in {"cleared", "exited"}
    /\ ownerPc = "joined" => threadPc = "exited"
    /\ ownerPc = "detached" => threadPc \in {"none", "cleared", "exited"}

IInv ==
    /\ ownerPc \in OwnerPlaces /\ threadPc \in ThreadPlaces
    /\ tid \in BOOLEAN /\ loopPtr \in BOOLEAN /\ loopAlive \in BOOLEAN /\ quit \in BOOLEAN
    /\ StoppedWasQuit /\ Reached /\ Awaited

LEMMA IInvInit == ThreadInit => IInv
BY DEF ThreadInit, Init, IInv, OwnerPlaces, ThreadPlaces, StoppedWasQuit, Reached, Awaited

\* The users of the loop, its surroundings and its own steps end nothing but a loop that has
\* been quit, and do not take a quit back.
LEMMA QuitStays ==
    ASSUME IInv, UNCHANGED threadVars,
           InitCallback \/ LoopSurroundings \/ UseLoop \/ RunLoop
    PROVE  /\ quit' \in BOOLEAN /\ (quit => quit')
           /\ pc' = "stopped" => quit'
           /\ threadPc # "looping" => pc' = pc
<1> USE DEF IInv, StoppedWasQuit
<1>1. CASE InitCallback
    BY <1>1 DEF InitCallback, QueueBeforeLoop, RunInLoopDirectly, QuitFromLoop
<1>2. CASE LoopSurroundings
    BY <1>2 DEF LoopSurroundings, PollOther, PollTimeout, QueueFromLoop, RunInLoopDirectly,
                QuitFromLoop
<1>3. CASE UseLoop
    <2>1. PICK th \in Threads : (\E t \in Tasks : PushFromThread(th, t)) \/ QuitFromThread(th)
                                 \/ Wakeup(th)
        BY <1>3 DEF UseLoop
    <2>2. CASE \E t \in Tasks : PushFromThread(th, t)
        BY <2>2 DEF PushFromThread
    <2>3. CASE QuitFromThread(th)
        BY <2>3 DEF QuitFromThread
    <2>4. CASE Wakeup(th)
        BY <2>4 DEF Wakeup
    <2> QED BY <2>1, <2>2, <2>3, <2>4
<1>4. CASE RunLoop
    BY <1>4 DEF RunLoop, LoopSteps, CheckQuit, PollWakeup, HandleRead, HandlerReturns,
                DoPendingFunctors, CallFunctor, FunctorsDone
<1> QED BY <1>1, <1>2, <1>3, <1>4

LEMMA IInvStep == IInv /\ [ThreadNext]_allVars => IInv'
<1> SUFFICES ASSUME IInv, [ThreadNext]_allVars PROVE IInv'
    OBVIOUS
<1> USE DEF IInv, OwnerPlaces, ThreadPlaces, StoppedWasQuit, Reached, Awaited
<1>1. CASE StartThread
    BY <1>1 DEF StartThread, vars
<1>2. CASE StartReturns
    BY <1>2 DEF StartReturns, vars
<1>3. CASE WaitReturns \/ StartLoopReturns
    BY <1>3 DEF WaitReturns, StartLoopReturns, vars
<1>4. CASE ThreadBegins
    BY <1>4 DEF ThreadBegins, vars
<1>5. CASE Publish
    BY <1>5 DEF Publish, vars
<1>6. CASE CallLoop
    BY <1>6 DEF CallLoop, EnterLoop
<1>7. CASE ClearPointer
    BY <1>7 DEF ClearPointer, vars
<1>8. CASE ThreadExits
    BY <1>8 DEF ThreadExits, vars
<1>9. CASE DtorTest
    BY <1>9 DEF DtorTest, vars
<1>10. CASE DtorQuit
    BY <1>10 DEF DtorQuit, QuitFromThread
<1>11. CASE DtorWakeup
    BY <1>11 DEF DtorWakeup, Wakeup
<1>12. CASE DtorJoin
    BY <1>12 DEF DtorJoin, vars
<1>13. CASE InitCallback \/ LoopSurroundings \/ UseLoop \/ RunLoop
    <2>1. UNCHANGED threadVars
        BY <1>13 DEF InitCallback, LoopSurroundings, UseLoop, RunLoop
    <2> QED BY <1>13, <2>1, QuitStays DEF threadVars
<1>14. CASE UNCHANGED allVars
    BY <1>14 DEF allVars, vars, threadVars
<1> QED
    BY <1>1, <1>2, <1>3, <1>4, <1>5, <1>6, <1>7, <1>8, <1>9, <1>10, <1>11, <1>12, <1>13,
       <1>14 DEF ThreadNext, OwnerSteps, ThreadSteps

LEMMA IInvAlways == ThreadSpec => []IInv
BY IInvInit, IInvStep, PTL DEF ThreadSpec

(* startLoop() goes on when the loop exists, its init callback is over and the thread has its *)
(* id; a null pointer or one to a loop that is gone is held only of a loop that somebody has  *)
(* quit meanwhile: however the owner, the new thread and the users of the loop interleave.    *)
THEOREM StartedIsReady == ThreadSpec => []StartLoopIsReady
<1>1. IInv => StartLoopIsReady
    BY DEF IInv, StartLoopIsReady, ThreadPlaces, StoppedWasQuit, Reached, Awaited
<1> QED BY <1>1, IInvAlways, PTL

(* Whoever quits the loop, from whatever thread: a joined thread has ended and its loop is    *)
(* gone, and a thread that the destructor detaches has returned from loop().                  *)
THEOREM NothingIsLeft == ThreadSpec => []NoThreadLeftBehind
<1>1. IInv => NoThreadLeftBehind
    BY DEF IInv, NoThreadLeftBehind, StoppedWasQuit, Reached, Awaited
<1> QED BY <1>1, IInvAlways, PTL

\* Every step of the two threads is one of the loop's, or leaves the loop alone.
LEMMA ThreadStepIsLoopStep == [ThreadNext]_allVars => [Next]_vars
<1> SUFFICES ASSUME [ThreadNext]_allVars PROVE [Next]_vars
    OBVIOUS
<1> USE DEF Next, OtherThreads, UserCode
<1>1. CASE StartThread \/ StartReturns \/ WaitReturns \/ StartLoopReturns \/ DtorTest
               \/ DtorJoin
    BY <1>1 DEF StartThread, StartReturns, WaitReturns, StartLoopReturns, DtorTest, DtorJoin,
                vars
<1>2. CASE ThreadBegins \/ Publish \/ ClearPointer \/ ThreadExits
    BY <1>2 DEF ThreadBegins, Publish, ClearPointer, ThreadExits, vars
<1>3. CASE DtorQuit \/ DtorWakeup
    BY <1>3, OwnerAssumption DEF DtorQuit, DtorWakeup
<1>4. CASE CallLoop \/ RunLoop
    BY <1>4 DEF CallLoop, RunLoop
<1>5. CASE InitCallback \/ LoopSurroundings \/ UseLoop
    BY <1>5 DEF InitCallback, LoopSurroundings, UseLoop
<1>6. CASE UNCHANGED allVars
    BY <1>6 DEF allVars
<1> QED BY <1>1, <1>2, <1>3, <1>4, <1>5, <1>6 DEF ThreadNext, OwnerSteps, ThreadSteps

(* What holds of a loop holds of the loop that an EventLoopThread makes, runs and quits: *)
(* no wakeup is lost and the functors start in the order of their pushes, once each,      *)
(* through the start and the destruction of the thread (EventloopThread.cc:16-60).        *)
THEOREM OwnLoopIsALoop == ThreadSpec => []NoLostWakeup /\ ImplementsTaskQueue /\ []EachOnce
<1>1. ThreadSpec => Spec
    BY ThreadStepIsLoopStep, PTL DEF ThreadSpec, ThreadInit, Spec
<1> QED BY <1>1, WakeupNeverLost, LoopIsTaskQueue, FunctorsStartOnce, PTL
=============================================================================
