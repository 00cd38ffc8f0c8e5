------------------------------ MODULE LogLine ------------------------------
(***************************************************************************)
(* The log front end (src/Log/logger.cc, src/Log/logstream.cc): one thread *)
(* that writes log statements.  Each of them collects a line piece by      *)
(* piece in a buffer of fixed size, and hands it to g_output when the      *)
(* temporary Logger dies.  Threads have only the level in common.          *)
(*                                                                         *)
(* A line is a sequence of cells: a digit is its value, Char stands for    *)
(* the characters of texts, and Junk for a cell that the line has stepped  *)
(* over without writing it.  The line may grow behind the end of the       *)
(* buffer: what lies there is other memory.                                *)
(***************************************************************************)
EXTENDS Integers, Sequences

CONSTANTS
    Size,               \* kSmallBuffer
    NumericSize,        \* kMaxNumericSize
    HeaderSizes,        \* lengths of the pieces of the header
    NameSize,           \* length of the name of the source file
    LineNumber,         \* the line of the statement in it
    TextSizes,          \* lengths of texts
    Numbers,            \* integers that are streamed, and pointers
    Booleans,           \* booleans that are streamed
    MaxCells,           \* bound: a line that is as long as this is finished
    MaxLines            \* bound: lines handed over

ASSUME LineAssumption ==
    /\ {Size, NumericSize, NameSize, LineNumber, MaxCells, MaxLines} \subseteq Nat
    /\ HeaderSizes \in Seq(Nat) /\ TextSizes \subseteq Nat
    /\ Numbers \subseteq Int /\ Booleans \subseteq BOOLEAN

VARIABLES
    level,              \* g_loglevel
    stage,              \* of the thread: "between" statements, in the "content", "aborted"
    severity,           \* the level of the statement
    line,               \* the buffer of its stream, up to cur_
    reach,              \* history: how far that buffer has been written
    spelled,            \* history: the numbers in the line, and where
    lines               \* lines handed over to g_output

ovars == <<level, stage, severity, line, reach, spelled, lines>>

Levels == 0 .. 5
FATAL == 5

Char == -1
Minus == -2
Newline == -3
Junk == -4

\* initLogLevel(): TRACE, DEBUG or INFO.
LineInit ==
    /\ level \in 0 .. 2
    /\ stage = "between" /\ severity = FATAL
    /\ line = <<>> /\ reach = 0 /\ spelled = {}
    /\ lines = 0

-----------------------------------------------------------------------------
(* FixedBuffer and the conversions: a buffer is its cells and its reach. *)

Avail(b) == Size - Len(b.cells)
Add(b, cells, written) ==
    [cells |-> b.cells \o cells,
     reach |-> IF Len(b.cells) + written > b.reach THEN Len(b.cells) + written ELSE b.reach]

\* append() compares avail() as a size_t: less than nothing is room for anything.
Put(b, cells) ==
    IF Avail(b) > Len(cells) \/ Avail(b) < 0 THEN Add(b, cells, Len(cells)) ELSE b
Text(n) == [i \in 1 .. n |-> Char]

\* / and % of C, which round towards zero, and the table of digits around its zero.
Abs(i) == IF i < 0 THEN -i ELSE i
Quotient(i, base) == IF i < 0 THEN -(Abs(i) \div base) ELSE i \div base
Digit(i, base) == Abs(i) % base

\* The digits that convert() and convertHex() leave when they have turned them round.
Digits(v, base) ==
    LET D[i \in -Abs(v) .. Abs(v)] ==
            IF Quotient(i, base) = 0 THEN <<Digit(i, base)>>
            ELSE Append(D[Quotient(i, base)], Digit(i, base))
    IN D[v]
Convert(v) == (IF v < 0 THEN <<Minus>> ELSE <<>>) \o Digits(v, 10)
ConvertHex(v) == <<0, Char>> \o Digits(v, 16)

\* kMaxNumericSize is more than any number takes: with a NUL behind it, it still fits.
ASSUME FitAssumption ==
    \A v \in Numbers \cup {LineNumber} :
        Len(Convert(v)) < NumericSize /\ (v >= 0 => Len(ConvertHex(v)) < NumericSize)

\* A number is written with a NUL behind it, if there is room for any number.  (Mutant:
\* if there is room at all.)
RoomForSome(b) == Avail(b) > 0
Room(b) == Avail(b) >= NumericSize
Spell(b, cells) == IF Room(b) THEN Add(b, cells, Len(cells) + 1) ELSE b

-----------------------------------------------------------------------------
(* A log statement. *)

Buffer == [cells |-> line, reach |-> reach]
Fill(b) == line' = b.cells /\ reach' = b.reach
Note(b, cells, v, base) ==
    IF Room(b)
    THEN {[from |-> Len(b.cells) + 1, to |-> Len(b.cells) + Len(cells), value |-> v,
           base |-> base]}
    ELSE {}

\* What the constructor of Impl writes, piece by piece: LOG_FATAL adds the text of errno, if
\* that is not 0.
Headers(l) ==
    LET empty == [cells |-> <<>>, reach |-> 0]
        after[i \in 0 .. Len(HeaderSizes)] ==
            IF i = 0 THEN empty ELSE Put(after[i - 1], Text(HeaderSizes[i]))
        header == after[Len(HeaderSizes)]
    IN {header} \cup {Put(Put(header, Text(n)), Text(1)) : n \in {m \in TextSizes : l = FATAL}}

\* The macro looks at the level.
Begin(l) ==
    /\ stage = "between" /\ lines < MaxLines
    /\ level <= l
    /\ stage' = "content" /\ severity' = l
    /\ \E b \in Headers(l) : Fill(b)
    /\ spelled' = {}
    /\ UNCHANGED <<level, lines>>

Stream ==
    /\ stage = "content" /\ Len(line) < MaxCells
    /\ UNCHANGED <<level, stage, severity, lines>>

StreamText(n) == Stream /\ Fill(Put(Buffer, Text(n))) /\ UNCHANGED spelled
\* snprintf() is given kMaxNumericSize.
StreamDouble(n) ==
    /\ n < NumericSize
    /\ Stream /\ Fill(Spell(Buffer, Text(n))) /\ UNCHANGED spelled
StreamNumber(v) ==
    /\ Stream /\ Fill(Spell(Buffer, Convert(v)))
    /\ spelled' = spelled \cup Note(Buffer, Convert(v), v, 10)
StreamPointer(v) ==
    /\ v >= 0
    /\ Stream /\ Fill(Spell(Buffer, ConvertHex(v)))
    /\ spelled' = spelled \cup Note(Buffer, ConvertHex(v), v, 16)
\* operator<<(bool) only moves cur_, without a look at the room.
StreamBool(v) ==
    /\ Stream /\ Fill(Add(Buffer, IF v THEN <<Junk>> ELSE <<>>, 0))
    /\ UNCHANGED spelled

\* finish()
Named == Put(Put(Buffer, Text(NameSize)), Text(1))
Finished == Put(Spell(Named, Convert(LineNumber)), <<Newline>>)

\* ~Logger(): finish(), g_output, and abort() after a FATAL line.
FinishLine ==
    /\ stage = "content"
    /\ stage' = IF severity = FATAL THEN "aborted" ELSE "between"
    /\ Fill(Finished)
    /\ spelled' = spelled \cup Note(Named, Convert(LineNumber), LineNumber, 10)
    /\ lines' = lines + 1
    /\ UNCHANGED <<level, severity>>

SetLogLevel(l) ==
    /\ stage = "between" /\ level # l
    /\ level' = l
    /\ UNCHANGED <<stage, severity, line, reach, spelled, lines>>

LineNext ==
    \/ \E l \in Levels : Begin(l) \/ SetLogLevel(l)
    \/ \E n \in TextSizes : StreamText(n) \/ StreamDouble(n)
    \/ \E v \in Numbers : StreamNumber(v) \/ StreamPointer(v)
    \/ \E v \in Booleans : StreamBool(v)
    \/ FinishLine

LineSpec == LineInit /\ [][LineNext]_ovars

-----------------------------------------------------------------------------
(* What a log line must be. *)

\* Cells, read as a number.
ReadBack(cells, base) ==
    LET size[n \in 0 .. Len(cells)] ==
            IF n = 0 THEN 0
            ELSE IF cells[n] >= 0 THEN size[n - 1] * base + cells[n] ELSE size[n - 1]
    IN IF cells[1] = Minus THEN -size[Len(cells)] ELSE size[Len(cells)]

\* Every number in the line reads back as the value that was streamed, the least one of
\* its type included, and stands within the buffer, however full that was and whatever was
\* streamed.  Nothing but a boolean takes the line across the end of the buffer, and nothing
\* is written behind the end before one has.
NumbersReadBack ==
    /\ \A s \in spelled :
          s.to < Size /\ ReadBack(SubSeq(line, s.from, s.to), s.base) = s.value
    /\ Len(line) > Size => line[Size + 1] = Junk
    /\ reach > Size => Len(line) > Size

=============================================================================
