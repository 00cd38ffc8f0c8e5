------------------------------ MODULE LogFile -------------------------------
(***************************************************************************)
(* The log file (src/Log/LogFile.cc) on top of AppendFile                  *)
(* (src/Log/FileUtil.cc): lines go into the buffer of a stdio stream; a    *)
(* line that makes the stream too long, and every CheckEveryN-th other     *)
(* line, may start a new stream or flush the present one.                  *)
(*                                                                         *)
(* The clock is time(), in seconds, and never runs backwards here. Lines   *)
(* are their lengths. Each operation runs under mutex_, or in the only     *)
(* thread that has the file, so it is one step.                            *)
(***************************************************************************)
EXTENDS Integers, FiniteSets

CONSTANTS
    Sizes,              \* lengths of lines
    RollSize,           \* rollSize_
    FlushInterval,      \* flushInterval_
    CheckEveryN,        \* checkEveryN_
    RollPerSeconds,     \* kRollPerSeconds_, the seconds of a day
    Start, Finish,      \* bound: the seconds that the model sees
    MaxBytes            \* bound: the size of the file

ASSUME LogFileAssumption ==
    /\ Sizes \subseteq Nat \ {0} /\ RollSize \in Nat /\ FlushInterval \in Nat
    /\ CheckEveryN \in Nat /\ CheckEveryN > 1
    /\ RollPerSeconds \in Nat \ {0}
    /\ Start \in Nat \ {0} /\ Finish \in Nat /\ MaxBytes \in Nat

VARIABLES
    now,                \* time()
    startOfPeriod,      \* startOfPeriod_
    lastRoll,           \* lastRoll_
    lastFlush,          \* lastFlush_
    count,              \* count_
    written,            \* writenBytes_ of the stream
    oldest,             \* when the oldest byte in the buffer of the stream came
    fileSize            \* the size that the file called basename_ has or will have

lvars == <<now, startOfPeriod, lastRoll, lastFlush, count, written, oldest, fileSize>>

Never == Finish + 1     \* the time of a byte that is not there

\* "Down to the day": the quotient gives the time back.
Period(time) == (time * RollPerSeconds) \div RollPerSeconds

\* The constructor rolls at once.
FileInit ==
    /\ now = Start
    /\ startOfPeriod = Period(Start) /\ lastRoll = Start /\ lastFlush = Start
    /\ count = 0 /\ written = 0 /\ oldest = Never /\ fileSize = 0

-----------------------------------------------------------------------------
(* append_unlocked(). *)

\* The line in the stream: `stored` of its bytes, fewer if fwrite() fails, and the time of
\* the oldest byte that the buffer then holds; when the buffer is full it goes out.
BytesAfter(stored) == written + stored
OldestAfter(stored) ==
    IF stored = 0 THEN {oldest} ELSE {Never, now, IF oldest < now THEN oldest ELSE now}

TooLong(stored) == BytesAfter(stored) > RollSize
CheckIsDue == count + 1 >= CheckEveryN
PeriodIsOver == Period(now) # startOfPeriod
FlushIsDue == now - lastFlush > FlushInterval

\* Streams are opened once a second at most.  (Mutant: once a day, and the
\* check still leaves it to the roll to flush.)
MayRollDaily == now > lastRoll + RollPerSeconds
MayRoll == now > lastRoll

\* rollFile(): the new stream appends to the file of the same name; the old one is flushed
\* as it is closed.
Roll ==
    /\ MayRoll
    /\ lastRoll' = now /\ lastFlush' = now /\ startOfPeriod' = Period(now)
    /\ written' = 0 /\ oldest' = Never

Stay(stored) ==
    /\ written' = BytesAfter(stored) /\ oldest' \in OldestAfter(stored)
    /\ UNCHANGED <<lastRoll, startOfPeriod>>

RollFile(stored) ==
    Roll \/ (~MayRoll /\ Stay(stored) /\ UNCHANGED lastFlush)

Store(stored) == fileSize' = fileSize + stored /\ fileSize' <= MaxBytes

\* A line that is too long for the stream is not counted.
AppendTooLong(stored) ==
    /\ Store(stored) /\ TooLong(stored)
    /\ RollFile(stored)
    /\ UNCHANGED <<now, count>>

AppendUnchecked(stored) ==
    /\ Store(stored) /\ ~TooLong(stored) /\ ~CheckIsDue
    /\ count' = count + 1
    /\ Stay(stored)
    /\ UNCHANGED <<now, lastFlush>>

AppendNewPeriod(stored) ==
    /\ Store(stored) /\ ~TooLong(stored) /\ CheckIsDue /\ PeriodIsOver
    /\ count' = 0
    /\ RollFile(stored)
    /\ UNCHANGED now

AppendSamePeriod(stored) ==
    /\ Store(stored) /\ ~TooLong(stored) /\ CheckIsDue /\ ~PeriodIsOver
    /\ count' = 0
    /\ IF FlushIsDue
       THEN /\ written' = BytesAfter(stored) /\ oldest' = Never /\ lastFlush' = now
            /\ UNCHANGED <<lastRoll, startOfPeriod>>
       ELSE Stay(stored) /\ UNCHANGED lastFlush
    /\ UNCHANGED now

-----------------------------------------------------------------------------
\* flush(): lastFlush_ stays.
Flush ==
    /\ oldest' = Never
    /\ UNCHANGED <<now, startOfPeriod, lastRoll, lastFlush, count, written, fileSize>>

Tick ==
    /\ now < Finish /\ now' = now + 1
    /\ UNCHANGED <<startOfPeriod, lastRoll, lastFlush, count, written, oldest, fileSize>>

FileNext ==
    \/ \E size \in Sizes : \E stored \in 0..size :
            \/ AppendTooLong(stored) \/ AppendUnchecked(stored)
            \/ AppendNewPeriod(stored) \/ AppendSamePeriod(stored)
    \/ Flush \/ Tick

FileSpec == FileInit /\ [][FileNext]_lvars

-----------------------------------------------------------------------------
(* What the log file must guarantee. *)

Checked == count = CheckEveryN - 1 /\ count' = 0
Fresh(time) == oldest' = Never \/ time - oldest' <= FlushInterval

\* Once in checkEveryN_ lines the buffer is looked at, and then no byte older than
\* flushInterval_ stays in it: rolling, refusing to roll and flushing share lastFlush_
\* and lastRoll_, and every way through the check leaves the buffer fresh.
ChecksFlush == [][Checked => Fresh(now)]_lvars

=============================================================================
