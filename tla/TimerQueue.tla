----------------------------- MODULE TimerQueue -----------------------------
(***************************************************************************)
(* The timers of an EventLoop (src/Timer/TimerQueue.cc): the ordered set   *)
(* timers_, the one timerfd behind it, and the loop thread that handles    *)
(* its read event.  Other threads hand timers over as functors.            *)
(*                                                                         *)
(* Time is counted in units of the least delay resetTimerFd() asks for     *)
(* (100 microseconds).  The code compares with the wall clock and sleeps   *)
(* by the monotonic clock of the timerfd: here they advance together.      *)
(***************************************************************************)
EXTENDS Integers, Sequences, FiniteSets

SX == INSTANCE SequencesExt
FX == INSTANCE FiniteSetsExt

CONSTANTS
    Timers,             \* the Timer objects
    Interval,           \* interval_ of each; 0 for one that is not repeated
    Times,              \* the times they may be set for
    Horizon             \* bound: the wall clock stands still from here on

ASSUME TimerAssumption ==
    /\ Interval \in [Timers -> Nat]
    /\ Times \subseteq Nat /\ Horizon \in Nat

VARIABLES
    wall,               \* gettimeofday()
    timerfd,            \* what is left until it fires (0: disarmed); is it readable
    timers,             \* timers_: pairs of an expiration and a timer
    adding,             \* addTimerInLoop() functors in the loop's queue
    reported,           \* poll() has put timerChannel_ in activeChannels_
    expired,            \* handleRead(): the entries taken out of timers_
    todo,               \* ... those whose callback has not been called yet
    handling,           \* the loop thread is in handleRead()
    first,              \* history: the expiration each timer was created with
    fired               \* history: how often each has been called

qvars == <<wall, timerfd, timers, adding, reported, expired, todo, handling, first, fired>>

Unset == -1
Repeated(t) == Interval[t] > 0
Entry(when, t) == [when |-> when, timer |-> t]
Earliest(S) == FX!Min({e.when : e \in S})

Init ==
    /\ wall = 0
    /\ timerfd = [left |-> 0, readable |-> FALSE]
    /\ timers = {}
    /\ adding = <<>>
    /\ reported = FALSE
    /\ expired = {}
    /\ todo = {}
    /\ handling = FALSE
    /\ first = [t \in Timers |-> Unset]
    /\ fired = [t \in Timers |-> 0]

-----------------------------------------------------------------------------
(* Adding a timer. *)

\* resetTimerFd(): at least one unit ahead.  timerfd_settime() forgets an
\* expiration that has not been read.
ResetTimerFd(when) ==
    timerfd' = [left |-> FX!Max({when - wall, 1}), readable |-> FALSE]

\* insert(): the timer is the earliest one.  (Mutant: the comparison is the wrong
\* way round.)
IsEarliestReversed(e) == timers = {} \/ e.when > Earliest(timers)
IsEarliest(e) == timers = {} \/ e.when < Earliest(timers)

AddTimerInLoop(e) ==
    /\ timers' = timers \cup {e}
    /\ IF IsEarliest(e) THEN ResetTimerFd(e.when) ELSE UNCHANGED timerfd

Create(t, when) == first[t] = Unset /\ first' = [first EXCEPT ![t] = when]

\* addTimer() on another thread.
AddFromThread(t, when) ==
    /\ Create(t, when)
    /\ adding' = Append(adding, Entry(when, t))
    /\ UNCHANGED <<wall, timerfd, timers, reported, expired, todo, handling, fired>>

\* addTimer() on the loop thread: in the callback of a timer, or anywhere else.
AddFromLoop(t, when) ==
    /\ handling => todo # expired
    /\ Create(t, when)
    /\ AddTimerInLoop(Entry(when, t))
    /\ UNCHANGED <<wall, adding, reported, expired, todo, handling, fired>>

\* The loop thread calls the functor, after the events of its iteration.
RunAdd ==
    /\ ~handling /\ ~reported
    /\ adding # <<>>
    /\ AddTimerInLoop(Head(adding))
    /\ adding' = Tail(adding)
    /\ UNCHANGED <<wall, reported, expired, todo, handling, first, fired>>

-----------------------------------------------------------------------------
(* The expiration. *)

Poll ==
    /\ ~handling /\ ~reported
    /\ timerfd.readable
    /\ reported' = TRUE
    /\ UNCHANGED <<wall, timerfd, timers, adding, expired, todo, handling, first, fired>>

\* getExpired(): the entries not later than now.  (Mutant: those strictly earlier.)
ExpiredStrictly == {e \in timers : e.when < wall}
Expired == {e \in timers : e.when <= wall}

\* handleRead(), up to the callbacks: the read of a timerfd that has been set
\* again in the meantime finds nothing and leaves it armed.
HandleRead ==
    /\ reported
    /\ reported' = FALSE
    /\ handling' = TRUE
    /\ timerfd' = [timerfd EXCEPT !.readable = FALSE]
    /\ expired' = Expired
    /\ todo' = Expired
    /\ timers' = timers \ Expired
    /\ UNCHANGED <<wall, adding, first, fired>>

\* Timer::run(), in the order of the expirations.
RunTimer(e) ==
    /\ e \in todo /\ e.when = Earliest(todo)
    /\ todo' = todo \ {e}
    /\ fired' = [fired EXCEPT ![e.timer] = @ + 1]
    /\ UNCHANGED <<wall, timerfd, timers, adding, reported, expired, handling, first>>

\* Timer::restart(): the interval counts from the expiration.  (Mutant: from the
\* time of the call.)
RestartFromNow(e) == Entry(wall + Interval[e.timer], e.timer)
Restart(e) == Entry(e.when + Interval[e.timer], e.timer)

\* timers_ after reset(): the repeated timers go back, the others are deleted.
\* (Mutant: those that callbacks added are forgotten.)
Renewed == {Restart(e) : e \in {x \in expired : Repeated(x.timer)}}
KeptRenewedOnly == Renewed
Kept == timers \cup Renewed

\* reset(): the timerfd is set again, if there was an expired timer at all.
Reset ==
    /\ handling /\ todo = {}
    /\ handling' = FALSE
    /\ timers' = Kept
    /\ IF expired # {} /\ Kept # {} THEN ResetTimerFd(Earliest(Kept)) ELSE UNCHANGED timerfd
    /\ expired' = {}
    /\ UNCHANGED <<wall, adding, reported, todo, first, fired>>

\* A unit of time passes for both clocks.
Tick ==
    /\ wall < Horizon \/ timerfd.left > 0
    /\ wall' = IF wall < Horizon THEN wall + 1 ELSE wall
    /\ timerfd' = IF timerfd.left = 0 THEN timerfd
                  ELSE [left |-> timerfd.left - 1,
                        readable |-> timerfd.readable \/ timerfd.left = 1]
    /\ UNCHANGED <<timers, adding, reported, expired, todo, handling, first, fired>>

-----------------------------------------------------------------------------
LoopSteps ==
    \/ RunAdd \/ Poll \/ HandleRead
    \/ \E e \in todo : RunTimer(e)
    \/ Reset

Next ==
    \/ \E t \in Timers, when \in Times : AddFromThread(t, when) \/ AddFromLoop(t, when)
    \/ LoopSteps
    \/ Tick

Spec == Init /\ [][Next]_qvars

\* Time passes, and the loop thread runs and takes the functors it is given.
FairSpec == Spec /\ WF_qvars(Tick) /\ WF_qvars(LoopSteps)

-----------------------------------------------------------------------------
(* What the timers must guarantee. *)

Entries == [when : Nat, timer : Timers]

\* The variables hold what their declarations say.
TypeOK ==
    /\ wall \in 0 .. Horizon
    /\ timerfd \in [left : Nat, readable : BOOLEAN]
    /\ timers \subseteq Entries /\ expired \subseteq Entries /\ todo \subseteq expired
    /\ adding \in Seq(Entries)
    /\ reported \in BOOLEAN /\ handling \in BOOLEAN
    /\ first \in [Timers -> Times \cup {Unset}]
    /\ fired \in [Timers -> Nat]

\* The time of the n-th call of a timer.
Due(t, n) == first[t] + (n - 1) * Interval[t]

\* Every timer handed over is in one place: on its way to the loop, in timers_, or
\* among the expired ones; only a timer that is not repeated disappears, and only
\* after its call.
Held == timers \cup expired \cup SX!ToSet(adding)
NoTimerLost ==
    /\ \A d, e \in Held : d.timer = e.timer => d = e
    /\ \A t \in Timers :
          first[t] # Unset /\ (Repeated(t) \/ fired[t] = 0) => \E e \in Held : e.timer = t

\* A timer is never early, never late by being forgotten, and does not drift: what
\* it waits for is its first expiration plus one interval per call.
OnSchedule ==
    /\ \A e \in timers \cup todo : e.when = Due(e.timer, fired[e.timer] + 1)
    /\ \A t \in Timers : fired[t] > 0 => Due(t, fired[t]) <= wall

\* Outside handleRead() the timerfd is set for the earliest timer, or has already
\* fired for it.
ArmedForEarliest ==
    ~handling /\ timers # {} /\ Earliest(timers) <= Horizon =>
        \/ timerfd.readable \/ reported
        \/ timerfd.left \in 1 .. FX!Max({Earliest(timers) - wall, 1})

\* Every timer handed over is called once it is due, and a repeated one again and
\* again, as long as the clock runs.
DueIsCalled ==
    \A t \in Timers, n \in 1 .. Horizon :
        (first[t] # Unset /\ (n = 1 \/ Repeated(t)) /\ Due(t, n) <= Horizon) ~> (fired[t] >= n)
=============================================================================
