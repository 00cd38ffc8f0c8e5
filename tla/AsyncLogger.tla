---------------------------- MODULE AsyncLogger ----------------------------
(***************************************************************************)
(* The asynchronous logger (src/src/AsyncLogger.cc): any thread appends    *)
(* lines to the front buffers under mutex_, and the back-end thread swaps  *)
(* the buffers, writes them to the file and gives two empty ones back.     *)
(*                                                                         *)
(* append() and the critical section of threadFunc() are one step each.    *)
(* The wait in it ends by itself after flushInterval_, so that notify_one()*)
(* and notify_all() only make it shorter, and the step may come any time.  *)
(* A line is its number in the order of the calls and its size; the notice *)
(* that a drop writes to the file is left out, and so is the rolling of    *)
(* the file (src/Log/LogFile.cc).                                          *)
(***************************************************************************)
EXTENDS Naturals, Sequences, SequencesExt

CONSTANTS
    Capacity,           \* kLargeBuffer, what a buffer holds
    MaxBuffers,         \* a batch with more buffers than this is cut (25)
    Sizes,              \* lengths of a line
    MaxLines            \* bound: calls of append()

ASSUME LoggerAssumption ==
    /\ Capacity \in Nat \ {0} /\ MaxBuffers \in Nat /\ MaxBuffers >= 2
    /\ Sizes \subseteq Nat /\ MaxLines \in Nat

VARIABLES
    front,              \* currentBuffer_, nextBuffer_ and buffers_
    back,               \* newBuffer1, newBuffer2 and buffersToWrite
    place,              \* where threadFunc() is
    running,            \* running_
    output,             \* the file: the lines written, and how many are flushed
    appended,           \* history: the lines of all calls of append()
    dropped             \* history: those that were thrown away

lvars == <<front, back, place, running, output, appended, dropped>>

\* A BufferPtr: null, or a buffer with its lines.
Null == [set |-> FALSE, lines |-> <<>>, used |-> 0]
Empty == [set |-> TRUE, lines |-> <<>>, used |-> 0]
Line(number, size) == [number |-> number, size |-> size]

\* FixedBuffer::append() ignores a line that does not leave a byte free.
Fits(b, line) == Capacity - b.used > line.size
Put(b, line) ==
    IF Fits(b, line)
    THEN [b EXCEPT !.lines = Append(@, line), !.used = @ + line.size]
    ELSE b

Places == {"check", "collect", "trim", "write", "stopped"}

\* start() has been called.
Init ==
    /\ front = [current |-> Empty, next |-> Empty, full |-> <<>>]
    /\ back = [first |-> Empty, second |-> Empty, batch |-> <<>>, written |-> 0]
    /\ place = "check"
    /\ running = TRUE
    /\ output = [file |-> <<>>, flushed |-> 0]
    /\ appended = <<>>
    /\ dropped = {}

-----------------------------------------------------------------------------
(* The front end. *)

\* The buffer that follows a full one.
Successor(next) == IF next.set THEN next ELSE Empty

AppendLine(size) ==
    LET line == Line(Len(appended) + 1, size)
        fresh == Successor(front.next)
    IN
    /\ Len(appended) < MaxLines
    /\ appended' = Append(appended, line)
    /\ IF Fits(front.current, line)
       THEN /\ front' = [front EXCEPT !.current = Put(@, line)]
            /\ UNCHANGED dropped
       ELSE /\ front' = [current |-> Put(fresh, line), next |-> Null,
                         full |-> Append(front.full, front.current)]
            /\ dropped' = IF Fits(fresh, line) THEN dropped ELSE dropped \cup {line.number}
    /\ UNCHANGED <<back, place, running, output>>

\* stop(), up to its join(): the back end is not made to look once more.
Stop ==
    /\ running
    /\ running' = FALSE
    /\ UNCHANGED <<front, back, place, output, appended, dropped>>

-----------------------------------------------------------------------------
(* The back end. *)

\* while (running_)
Check ==
    /\ place = "check"
    /\ place' = IF running THEN "collect" ELSE "stopped"
    /\ UNCHANGED <<front, back, running, output, appended, dropped>>

\* The wait for a full buffer ends at the latest after flushInterval_.  (Mutant: it
\* does not time out.)
WaitOverWhenFull == front.full # <<>>
WaitOver == TRUE

\* The critical section.  (Mutant: buffers_ is copied instead of swapped.)
CollectCopies ==
    LET second == IF front.next.set THEN back.second ELSE Null IN
    /\ place = "collect" /\ WaitOver
    /\ place' = "trim"
    /\ back' = [back EXCEPT !.batch = Append(front.full, front.current),
                            !.first = Null, !.second = second]
    /\ front' = [front EXCEPT !.current = back.first,
                              !.next = IF front.next.set THEN @ ELSE back.second]
    /\ UNCHANGED <<running, output, appended, dropped>>
Collect ==
    LET lend == ~front.next.set IN
    /\ place = "collect" /\ WaitOver
    /\ place' = "trim"
    /\ back' = [back EXCEPT !.batch = Append(front.full, front.current),
                            !.first = Null,
                            !.second = IF lend THEN Null ELSE @]
    /\ front' = [current |-> back.first,
                 next |-> IF lend THEN back.second ELSE front.next,
                 full |-> <<>>]
    /\ UNCHANGED <<running, output, appended, dropped>>

\* More than MaxBuffers buffers: all but the first two are thrown away.
Numbers(buffers) ==
    {l.number : l \in UNION {ToSet(buffers[i].lines) : i \in DOMAIN buffers}}

DropExcess ==
    LET excess == Len(back.batch) > MaxBuffers IN
    /\ place = "trim"
    /\ place' = "write"
    /\ back' = IF excess THEN [back EXCEPT !.batch = SubSeq(@, 1, 2)] ELSE back
    /\ dropped' = IF excess
                  THEN dropped \cup Numbers(SubSeq(back.batch, 3, Len(back.batch)))
                  ELSE dropped
    /\ UNCHANGED <<front, running, output, appended>>

WriteBuffer ==
    /\ place = "write"
    /\ back.written < Len(back.batch)
    /\ output' = [output EXCEPT !.file = @ \o back.batch[back.written + 1].lines]
    /\ back' = [back EXCEPT !.written = @ + 1]
    /\ UNCHANGED <<front, place, running, appended, dropped>>

\* FixedBuffer::reset().  (Mutant: omitted.)
ResetOmitted(b) == b
Reset(b) == [set |-> b.set, lines |-> <<>>, used |-> 0]

\* The buffers the front end got are replaced by the last ones of the batch,
\* of which at most two are left.
Wanted == (IF back.first.set THEN 0 ELSE 1) + (IF back.second.set THEN 0 ELSE 1)
Left == IF Len(back.batch) > 2 THEN SubSeq(back.batch, 1, 2) ELSE back.batch

Recycle ==
    /\ place = "write"
    /\ back.written = Len(back.batch)
    /\ Len(Left) >= Wanted
    /\ place' = "check"
    /\ back' = [first   |-> IF back.first.set THEN back.first ELSE Reset(Left[Len(Left)]),
                second  |-> IF back.second.set THEN back.second
                            ELSE Reset(Left[Len(Left) + 1 - Wanted]),
                batch   |-> <<>>,
                written |-> 0]
    /\ output' = [output EXCEPT !.flushed = Len(output.file)]
    /\ UNCHANGED <<front, running, appended, dropped>>

BackEnd == Check \/ Collect \/ DropExcess \/ WriteBuffer \/ Recycle

Next ==
    \/ \E size \in Sizes : AppendLine(size)
    \/ Stop
    \/ BackEnd

Spec == Init /\ [][Next]_lvars

\* The back-end thread runs, its waits time out and the file takes its writes.
FairSpec == Spec /\ WF_lvars(BackEnd)

-----------------------------------------------------------------------------
(* What the logger must guarantee. *)

Lines == [number : Nat, size : Nat]
Buffers == [set : {TRUE}, lines : Seq(Lines), used : Nat]
Pointers == Buffers \cup {Null}

\* The variables hold what their declarations say; the front end always has a
\* buffer to append to.
TypeOK ==
    /\ front \in [current : Buffers, next : Pointers, full : Seq(Buffers)]
    /\ back \in [first : Pointers, second : Pointers, batch : Seq(Buffers), written : Nat]
    /\ place \in Places
    /\ running \in BOOLEAN
    /\ output \in [file : Seq(Lines), flushed : Nat]
    /\ appended \in Seq(Lines)
    /\ dropped \in SUBSET Nat

\* The assert()s of threadFunc() hold: two empty buffers at the top of the loop,
\* something to write after the swap, and enough buffers in the batch to replace
\* those that the front end took, even after a cut.
AssertsHold ==
    /\ place = "collect" => back.first = Empty /\ back.second = Empty /\ back.batch = <<>>
    /\ place \in {"trim", "write"} => back.batch # <<>> /\ Len(Left) >= Wanted

\* The lines in the file and, in the order in which they will follow, those that are on
\* their way to it.
Contents(buffers) == FlattenSeq([i \in DOMAIN buffers |-> buffers[i].lines])
Kept ==
    output.file
    \o Contents(SubSeq(back.batch, back.written + 1, Len(back.batch)))
    \o Contents(front.full) \o front.current.lines

InCallOrder(lines) ==
    \A i, j \in DOMAIN lines : i < j => lines[i].number < lines[j].number

\* Every line appended and not thrown away is in exactly one place, and the file,
\* the batch, the full buffers and the current one hold them in the order of the
\* calls.
LinesInOrder ==
    LET kept == Kept IN
    /\ InCallOrder(kept)
    /\ ToSet(kept) = {appended[n] : n \in DOMAIN appended \ dropped}

\* While the logger is not stopped, a line is in the file, and flushed, some
\* time after the call, or thrown away.
LineIsFlushed ==
    \A n \in 1 .. MaxLines :
        (Len(appended) >= n)
          ~> \/ \E i \in 1 .. output.flushed : output.file[i].number = n
             \/ n \in dropped
             \/ ~running

=============================================================================
