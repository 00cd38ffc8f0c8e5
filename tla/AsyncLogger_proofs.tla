------------------------- MODULE AsyncLogger_proofs -------------------------
(***************************************************************************)
(* Theorems about AsyncLogger, for any size of a buffer, any lines and any *)
(* limit of a batch.                                                       *)
(***************************************************************************)
EXTENDS AsyncLogger, SequenceFacts

\* Numbers rise through a concatenation when they do in its parts and from one to the other.
LEMMA ConcatOrder ==
    ASSUME NEW s \in Seq(Lines), NEW t \in Seq(Lines)
    PROVE  InCallOrder(s \o t) <=>
             /\ InCallOrder(s) /\ InCallOrder(t)
             /\ \A x \in ToSet(s), y \in ToSet(t) : x.number < y.number
<1> DEFINE q == s \o t
           n == Len(s)
           m == Len(t)
<1>1. n \in Nat /\ m \in Nat /\ DOMAIN s = 1..n /\ DOMAIN t = 1..m
    BY LenProperties
<1>2. /\ q \in Seq(Lines) /\ Len(q) = n + m
      /\ \A i \in 1 .. n + m : q[i] = IF i <= n THEN s[i] ELSE t[i - n]
    BY ConcatProperties
<1>3. DOMAIN q = 1..(n + m)
    BY <1>2, LenProperties
<1> HIDE DEF q, n, m
<1>4. /\ \A i \in 1..n : i \in DOMAIN q /\ q[i] = s[i]
      /\ \A i \in 1..m : n + i \in DOMAIN q /\ q[n + i] = t[i]
    <2>1. \A i \in 1..n : i \in 1..(n + m) /\ i <= n
        BY <1>1
    <2>2. \A i \in 1..n : i \in DOMAIN q /\ q[i] = s[i]
        BY <2>1, <1>2, <1>3
    <2>3. \A i \in 1..m : n + i \in DOMAIN q /\ q[n + i] = t[i]
        <3> TAKE i \in 1..m
        <3> DEFINE j == n + i
        <3>1. j \in 1..(n + m) /\ ~(j <= n) /\ j - n = i
            BY <1>1
        <3> HIDE DEF j
        <3>2. j \in DOMAIN q /\ q[j] = t[i]
            BY <3>1, <1>2, <1>3
        <3> QED BY <3>2 DEF j
    <2> QED BY <2>2, <2>3
<1>5. \A i \in 1..(n + m) : i \in 1..n \/ \E j \in 1..m : i = n + j
    <2> TAKE i \in 1..(n + m)
    <2>1. CASE i <= n
        BY <2>1, <1>1
    <2>2. CASE i > n
        <3>1. i - n \in 1..m /\ i = n + (i - n)
            BY <2>2, <1>1
        <3> QED BY <3>1
    <2> QED BY <2>1, <2>2, <1>1
<1>6. ASSUME InCallOrder(q)
      PROVE  /\ InCallOrder(s) /\ InCallOrder(t)
             /\ \A x \in ToSet(s), y \in ToSet(t) : x.number < y.number
    <2>1. \A i, j \in DOMAIN q : i < j => q[i].number < q[j].number
        BY <1>6 DEF InCallOrder
    <2>2. InCallOrder(s)
        BY <2>1, <1>1, <1>4 DEF InCallOrder
    <2>3. ASSUME NEW i \in 1..m, NEW j \in 1..m, i < j PROVE t[i].number < t[j].number
        <3>1. n + i < n + j
            BY <2>3, <1>1
        <3>2. q[n + i].number < q[n + j].number
            BY <3>1, <2>1, <1>4
        <3> QED BY <3>2, <1>4
    <2>4. ASSUME NEW i \in 1..n, NEW j \in 1..m PROVE s[i].number < t[j].number
        <3>1. i < n + j
            BY <1>1
        <3>2. q[i].number < q[n + j].number
            BY <3>1, <2>1, <1>4
        <3> QED BY <3>2, <1>4
    <2> QED BY <2>2, <2>3, <2>4, <1>1 DEF InCallOrder, ToSet
<1>7. ASSUME InCallOrder(s), InCallOrder(t),
             \A x \in ToSet(s), y \in ToSet(t) : x.number < y.number
      PROVE  InCallOrder(q)
    <2> SUFFICES ASSUME NEW i \in 1..(n + m), NEW j \in 1..(n + m), i < j
                 PROVE  q[i].number < q[j].number
        BY <1>3 DEF InCallOrder
    <2>1. CASE i \in 1..n /\ j \in 1..n
        BY <2>1, <1>1, <1>4, <1>7 DEF InCallOrder
    <2>2. CASE i \in 1..n /\ \E k \in 1..m : j = n + k
        BY <2>2, <1>1, <1>4, <1>7 DEF ToSet
    <2>3. CASE (\E k \in 1..m : i = n + k) /\ \E k \in 1..m : j = n + k
        <3>1. PICK k \in 1..m, l \in 1..m : i = n + k /\ j = n + l
            BY <2>3
        <3>2. k < l
            BY <3>1, <1>1
        <3>3. t[k].number < t[l].number
            BY <3>2, <1>1, <1>7 DEF InCallOrder
        <3> QED BY <3>1, <3>3, <1>4
    <2>4. CASE (\E k \in 1..m : i = n + k) /\ j \in 1..n
        BY <2>4, <1>1
    <2> QED BY <2>1, <2>2, <2>3, <2>4, <1>5
<1> QED BY <1>6, <1>7 DEF q

\* Lines thrown away out of the middle.
LEMMA CutMiddle ==
    ASSUME NEW a \in Seq(Lines), NEW b \in Seq(Lines), NEW c \in Seq(Lines),
           InCallOrder((a \o b) \o c)
    PROVE  /\ InCallOrder(a \o c)
           /\ ToSet(a \o c) = {x \in ToSet((a \o b) \o c) :
                                      x.number \notin {y.number : y \in ToSet(b)}}
<1>1. a \o b \in Seq(Lines)
    BY ConcatProperties
<1>2. /\ InCallOrder(a \o b) /\ InCallOrder(c)
      /\ \A x \in ToSet(a \o b), y \in ToSet(c) : x.number < y.number
    BY <1>1, ConcatOrder
<1>3. /\ InCallOrder(a)
      /\ \A x \in ToSet(a), y \in ToSet(b) : x.number < y.number
    BY <1>2, ConcatOrder
<1>4. /\ ToSet(a \o b) = ToSet(a) \cup ToSet(b)
      /\ ToSet((a \o b) \o c) = ToSet(a) \cup ToSet(b) \cup ToSet(c)
      /\ ToSet(a \o c) = ToSet(a) \cup ToSet(c)
    <2>1. ToSet(a \o b) = ToSet(a) \cup ToSet(b)
        BY ConcatMembers
    <2>2. ToSet(a \o c) = ToSet(a) \cup ToSet(c)
        BY ConcatMembers
    <2> DEFINE ab == a \o b
    <2>3. ab \in Seq(Lines)
        BY <1>1
    <2> HIDE DEF ab
    <2>4. ToSet(ab \o c) = ToSet(ab) \cup ToSet(c)
        BY <2>3, ConcatMembers
    <2> QED BY <2>1, <2>2, <2>4 DEF ab
<1>5. InCallOrder(a \o c)
    BY <1>2, <1>3, <1>4, ConcatOrder
<1>6. \A x \in ToSet(a) \cup ToSet(b) \cup ToSet(c) : x.number \in Nat
    <2>1. \A s \in Seq(Lines) : \A x \in ToSet(s) : x \in Lines
        BY LenProperties, ElementOfSeq DEF ToSet
    <2> QED BY <2>1 DEF Lines
<1>7. \A x \in ToSet(a) \cup ToSet(c), y \in ToSet(b) : x.number # y.number
    BY <1>2, <1>3, <1>4, <1>6
<1>8. ToSet(a \o c) = {x \in ToSet((a \o b) \o c) :
                              x.number \notin {y.number : y \in ToSet(b)}}
    BY <1>4, <1>7
<1> QED BY <1>5, <1>8

-----------------------------------------------------------------------------
(* The lines of a sequence of buffers. *)

\* Their lines, buffer by buffer.
LinesOf(buffers) == [i \in DOMAIN buffers |-> buffers[i].lines]

LEMMA LinesOfType ==
    ASSUME NEW q \in Seq(Buffers)
    PROVE  /\ LinesOf(q) \in Seq(Seq(Lines)) /\ Len(LinesOf(q)) = Len(q)
           /\ DOMAIN q = 1..Len(q) /\ Len(q) \in Nat /\ DOMAIN LinesOf(q) = 1..Len(q)
           /\ \A i \in 1..Len(q) : LinesOf(q)[i] = q[i].lines
<1>1. Len(q) \in Nat /\ DOMAIN q = 1..Len(q)
    BY LenProperties
<1>2. \A i \in 1..Len(q) : q[i].lines \in Seq(Lines)
    <2>1. \A i \in 1..Len(q) : q[i] \in Buffers
        BY ElementOfSeq
    <2> QED BY <2>1 DEF Buffers
<1>3. LinesOf(q) = [i \in 1..Len(q) |-> q[i].lines]
    BY <1>1 DEF LinesOf
<1>4. LinesOf(q) \in [1..Len(q) -> Seq(Lines)]
    BY <1>2, <1>3
<1>5. LinesOf(q) \in Seq(Seq(Lines)) /\ Len(LinesOf(q)) = Len(q)
    BY <1>1, <1>4, IsASeq, LenProperties
<1> QED BY <1>1, <1>3, <1>5

\* What Contents() makes of no buffers, of one and of a concatenation.
LEMMA ContentsFacts ==
    /\ Contents(<<>>) = <<>>
    /\ \A q \in Seq(Buffers) : Contents(q) \in Seq(Lines)
    /\ \A b \in Buffers : Contents(<<b>>) = b.lines
    /\ \A q, r \in Seq(Buffers) : Contents(q \o r) = Contents(q) \o Contents(r)
    /\ \A q \in Seq(Buffers) : Numbers(q) = {x.number : x \in ToSet(Contents(q))}
<1>0. \A q : Contents(q) = FlattenSeq(LinesOf(q))
    BY DEF Contents, LinesOf
<1>1. Contents(<<>>) = <<>>
    <2>1. LinesOf(<<>>) = <<>>
        BY DEF LinesOf
    <2> QED BY <1>0, <2>1, FlattenEmpty
<1>2. \A q \in Seq(Buffers) : Contents(q) \in Seq(Lines)
    BY <1>0, LinesOfType, FlattenType
<1>3. ASSUME NEW b \in Buffers PROVE Contents(<<b>>) = b.lines
    <2>1. b.lines \in Seq(Lines)
        BY DEF Buffers
    <2>2. LinesOf(<<b>>) = <<b.lines>>
        BY DEF LinesOf
    <2> QED BY <1>0, <2>1, <2>2, FlattenOne
<1>4. ASSUME NEW q \in Seq(Buffers), NEW r \in Seq(Buffers)
      PROVE  Contents(q \o r) = Contents(q) \o Contents(r)
    <2> DEFINE s == LinesOf(q)
               t == LinesOf(r)
               u == LinesOf(q \o r)
    <2>1. /\ s \in Seq(Seq(Lines)) /\ Len(s) = Len(q) /\ Len(q) \in Nat
          /\ \A i \in 1..Len(q) : s[i] = q[i].lines
        BY LinesOfType
    <2>2. /\ t \in Seq(Seq(Lines)) /\ Len(t) = Len(r) /\ Len(r) \in Nat
          /\ \A i \in 1..Len(r) : t[i] = r[i].lines
        BY LinesOfType
    <2>3. /\ q \o r \in Seq(Buffers) /\ Len(q \o r) = Len(q) + Len(r)
          /\ \A i \in 1 .. Len(q) + Len(r) :
                (q \o r)[i] = IF i <= Len(q) THEN q[i] ELSE r[i - Len(q)]
        BY ConcatProperties
    <2>4. /\ u \in Seq(Seq(Lines)) /\ Len(u) = Len(q) + Len(r)
          /\ \A i \in 1..(Len(q) + Len(r)) : u[i] = (q \o r)[i].lines
        BY <2>3, LinesOfType
    <2> HIDE DEF s, t, u
    <2>5. /\ s \o t \in Seq(Seq(Lines)) /\ Len(s \o t) = Len(q) + Len(r)
          /\ \A i \in 1 .. Len(q) + Len(r) :
                (s \o t)[i] = IF i <= Len(q) THEN s[i] ELSE t[i - Len(q)]
        <3>1. /\ s \o t \in Seq(Seq(Lines)) /\ Len(s \o t) = Len(s) + Len(t)
              /\ \A i \in 1 .. Len(s) + Len(t) :
                    (s \o t)[i] = IF i <= Len(s) THEN s[i] ELSE t[i - Len(s)]
            <4>1. s \in Seq(Seq(Lines)) /\ t \in Seq(Seq(Lines))
                BY <2>1, <2>2
            <4> QED BY <4>1, ConcatProperties
        <3> QED BY <3>1, <2>1, <2>2, Zenon
    <2>6. \A i \in 1..(Len(q) + Len(r)) : u[i] = (s \o t)[i]
        <3> TAKE i \in 1..(Len(q) + Len(r))
        <3>1. CASE i <= Len(q)
            <4>1. i \in 1..Len(q)
                BY <3>1, <2>1
            <4> QED BY <3>1, <4>1, <2>1, <2>3, <2>4, <2>5
        <3>2. CASE ~(i <= Len(q))
            <4>1. i - Len(q) \in 1..Len(r)
                BY <3>2, <2>1, <2>2
            <4> QED BY <3>2, <4>1, <2>2, <2>3, <2>4, <2>5
        <3> QED BY <3>1, <3>2
    <2>7. u = s \o t
        BY <2>4, <2>5, <2>6, SeqEqual
    <2> QED BY <1>0, <2>1, <2>2, <2>7, FlattenConcat DEF s, t, u
<1>5. ASSUME NEW q \in Seq(Buffers)
      PROVE  Numbers(q) = {x.number : x \in ToSet(Contents(q))}
    <2>1. ToSet(Contents(q)) = UNION {ToSet(LinesOf(q)[i]) : i \in DOMAIN LinesOf(q)}
        BY <1>0, LinesOfType, FlattenMembers
    <2>2. {ToSet(LinesOf(q)[i]) : i \in DOMAIN LinesOf(q)}
              = {ToSet(q[i].lines) : i \in DOMAIN q}
        BY LinesOfType
    <2> QED BY <2>1, <2>2 DEF Numbers
<1> QED BY <1>1, <1>2, <1>3, <1>4, <1>5

-----------------------------------------------------------------------------
(* Where the buffers are. *)

\* Where the buffers are.  The front end takes its spare buffer only when it puts
\* a full one into buffers_, so that a batch after which it needs two new buffers
\* has at least two to give back.
Exchange ==
    /\ {front.next, back.first, back.second} \subseteq {Null, Empty}
    /\ front.next = Null => front.full # <<>>
    /\ place \in {"check", "collect", "stopped"} =>
          back.first = Empty /\ back.second = Empty /\ back.batch = <<>>
    /\ place \in {"trim", "write"} =>
          /\ back.first = Null
          /\ back.batch # <<>>
          /\ back.second = Null => Len(back.batch) >= 2

IInv == TypeOK /\ Exchange

-----------------------------------------------------------------------------
(* The parts of a step. *)

\* A sequence of length two is not empty.
LEMMA TwoLong ==
    ASSUME NEW S, NEW s \in Seq(S), Len(s) = 2
    PROVE  s # <<>>
BY EmptySeq

\* Null and Empty are pointers, and told apart by their first field.
LEMMA PointerFacts ==
    /\ Empty \in Buffers /\ Null \in Pointers /\ Empty \in Pointers
    /\ Null # Empty /\ Null \notin Buffers
    /\ ~Null.set /\ Empty.set
<1>1. <<>> \in Seq(Lines)
    BY EmptySeq
<1> QED BY <1>1 DEF Null, Empty, Buffers, Pointers

\* A line put into a buffer leaves a buffer (FixedBuffer::append()).
LEMMA PutType ==
    ASSUME NEW b \in Buffers, NEW line \in Lines
    PROVE  Put(b, line) \in Buffers
<1>1. Append(b.lines, line) \in Seq(Lines)
    BY AppendProperties DEF Buffers
<1>2. b.used + line.size \in Nat
    BY DEF Buffers, Lines
<1> QED BY <1>1, <1>2 DEF Put, Buffers

\* The buffer that follows a full one is empty.
LEMMA SuccessorIsEmpty ==
    ASSUME NEW next \in {Null, Empty}
    PROVE  Successor(next) = Empty
BY PointerFacts DEF Successor

\* A buffer of the batch is empty after FixedBuffer::reset().
LEMMA ResetIsEmpty ==
    ASSUME NEW b \in Buffers
    PROVE  Reset(b) = Empty
BY DEF Reset, Empty, Buffers

\* The lines of a sequence of buffers have numbers.
LEMMA NumbersType ==
    ASSUME NEW buffers \in Seq(Buffers)
    PROVE  Numbers(buffers) \subseteq Nat
<1> SUFFICES ASSUME NEW n \in Numbers(buffers)
             PROVE  n \in Nat
    OBVIOUS
<1>1. PICK i \in DOMAIN buffers : \E l \in ToSet(buffers[i].lines) : n = l.number
    BY DEF Numbers
<1>2. buffers[i] \in Buffers
    BY <1>1, ElementOfSeq, LenProperties
<1>3. PICK l \in ToSet(buffers[i].lines) : n = l.number
    BY <1>1
<1>4. PICK j \in DOMAIN buffers[i].lines : l = buffers[i].lines[j]
    BY <1>3 DEF ToSet
<1>5. buffers[i].lines \in Seq(Lines)
    BY <1>2 DEF Buffers
<1>6. l \in Lines
    BY <1>4, <1>5, ElementOfSeq, LenProperties
<1> QED BY <1>3, <1>6 DEF Lines

\* At most two buffers of the batch are left to be given back, and all of them if
\* there are no more than two.
LEMMA LeftFacts ==
    ASSUME back.batch \in Seq(Buffers)
    PROVE  /\ Left \in Seq(Buffers)
           /\ Len(Left) = IF Len(back.batch) > 2 THEN 2 ELSE Len(back.batch)
<1>1. Len(back.batch) \in Nat
    BY LenProperties
<1>2. CASE Len(back.batch) > 2
    <2>1. /\ SubSeq(back.batch, 1, 2) \in Seq(Buffers)
          /\ Len(SubSeq(back.batch, 1, 2)) = 2
        BY <1>1, <1>2, SubSeqProperties
    <2> QED BY <1>2, <2>1 DEF Left
<1>3. CASE ~(Len(back.batch) > 2)
    BY <1>3 DEF Left
<1> QED BY <1>2, <1>3

-----------------------------------------------------------------------------
(* The invariant. *)

LEMMA InitInv == Init => IInv
<1> SUFFICES ASSUME Init
             PROVE  IInv
    OBVIOUS
<1>1. /\ <<>> \in Seq(Buffers) /\ <<>> \in Seq(Lines)
    BY EmptySeq
<1>2. TypeOK
    BY <1>1, PointerFacts DEF Init, TypeOK, Places
<1>3. Exchange
    BY PointerFacts DEF Init, Exchange
<1> QED BY <1>2, <1>3 DEF IInv

LEMMA AppendLineInv ==
    ASSUME IInv, NEW size \in Sizes, AppendLine(size)
    PROVE  IInv'
<1> DEFINE line == Line(Len(appended) + 1, size)
           fresh == Successor(front.next)
<1>1. line \in Lines
    BY LenProperties, LoggerAssumption DEF IInv, TypeOK, Line, Lines
<1>2. fresh = Empty
    BY SuccessorIsEmpty DEF IInv, Exchange
<1>3. appended' \in Seq(Lines)
    BY <1>1, AppendProperties DEF AppendLine, IInv, TypeOK
<1>4. /\ front' \in [current : Buffers, next : Pointers, full : Seq(Buffers)]
      /\ dropped' \in SUBSET Nat
      /\ front'.next \in {Null, Empty}
      /\ front'.next = Null => front'.full # <<>>
    <2>1. CASE Fits(front.current, line)
        <3>1. /\ front' = [front EXCEPT !.current = Put(@, line)]
              /\ dropped' = dropped
            BY <2>1 DEF AppendLine
        <3>2. Put(front.current, line) \in Buffers
            BY <1>1, PutType DEF IInv, TypeOK
        <3> QED BY <3>1, <3>2 DEF IInv, TypeOK, Exchange
    <2>2. CASE ~Fits(front.current, line)
        <3>1. /\ front' = [current |-> Put(fresh, line), next |-> Null,
                           full |-> Append(front.full, front.current)]
              /\ dropped' = IF Fits(fresh, line) THEN dropped ELSE dropped \cup {line.number}
            BY <2>2 DEF AppendLine
        <3>2. Put(fresh, line) \in Buffers
            BY <1>1, <1>2, PutType, PointerFacts
        <3>3. /\ Append(front.full, front.current) \in Seq(Buffers)
              /\ Append(front.full, front.current) # <<>>
            BY AppendProperties DEF IInv, TypeOK
        <3>4. line.number \in Nat
            BY <1>1 DEF Lines
        <3> QED BY <3>1, <3>2, <3>3, <3>4, PointerFacts DEF IInv, TypeOK
    <2> QED BY <2>1, <2>2
<1>5. UNCHANGED <<back, place, running, output>>
    BY DEF AppendLine
<1> QED BY <1>3, <1>4, <1>5 DEF IInv, TypeOK, Exchange

LEMMA StopInv ==
    ASSUME IInv, Stop
    PROVE  IInv'
BY DEF IInv, TypeOK, Exchange, Stop

LEMMA CheckInv ==
    ASSUME IInv, Check
    PROVE  IInv'
BY DEF IInv, TypeOK, Exchange, Check, Places

LEMMA CollectInv ==
    ASSUME IInv, Collect
    PROVE  IInv'
<1> DEFINE lend == ~front.next.set
           batch == Append(front.full, front.current)
<1>1. /\ place = "collect" /\ place' = "trim"
      /\ back' = [back EXCEPT !.batch = batch, !.first = Null,
                              !.second = IF lend THEN Null ELSE @]
      /\ front' = [current |-> back.first,
                   next |-> IF lend THEN back.second ELSE front.next,
                   full |-> <<>>]
      /\ UNCHANGED <<running, output, appended, dropped>>
    BY DEF Collect
<1>2. back.first = Empty /\ back.second = Empty
    BY <1>1 DEF IInv, Exchange
<1>3. /\ lend => front.next = Null
      /\ ~lend => front.next = Empty
    BY PointerFacts DEF IInv, Exchange
<1>4. /\ batch \in Seq(Buffers)
      /\ batch # <<>>
      /\ Len(batch) = Len(front.full) + 1
    BY AppendProperties DEF IInv, TypeOK
<1>5. lend => Len(batch) >= 2
    <2>1. lend => front.full # <<>>
        BY <1>3 DEF IInv, Exchange
    <2>2. front.full # <<>> => Len(front.full) >= 1
        BY EmptySeq, LenProperties DEF IInv, TypeOK
    <2>3. Len(front.full) \in Nat
        BY LenProperties DEF IInv, TypeOK
    <2> QED BY <1>4, <2>1, <2>2, <2>3
<1>6. <<>> \in Seq(Buffers)
    BY EmptySeq
<1>7. /\ back'.first = Null /\ back'.batch = batch /\ back'.written = back.written
      /\ back'.second = IF lend THEN Null ELSE Empty
      /\ back' \in [first : Pointers, second : Pointers, batch : Seq(Buffers), written : Nat]
    BY <1>1, <1>2, <1>4, PointerFacts DEF IInv, TypeOK
<1>8. /\ front'.next = Empty
      /\ front' \in [current : Buffers, next : Pointers, full : Seq(Buffers)]
    BY <1>1, <1>2, <1>3, <1>6, PointerFacts
<1>9. TypeOK'
    BY <1>1, <1>7, <1>8 DEF IInv, TypeOK, Places
<1>10. Exchange'
    BY <1>1, <1>4, <1>5, <1>7, <1>8, PointerFacts DEF Exchange
<1> QED BY <1>9, <1>10 DEF IInv

LEMMA DropExcessInv ==
    ASSUME IInv, DropExcess
    PROVE  IInv'
<1> DEFINE excess == Len(back.batch) > MaxBuffers
<1>1. /\ place = "trim" /\ place' = "write"
      /\ back' = IF excess THEN [back EXCEPT !.batch = SubSeq(@, 1, 2)] ELSE back
      /\ dropped' = IF excess
                    THEN dropped \cup Numbers(SubSeq(back.batch, 3, Len(back.batch)))
                    ELSE dropped
      /\ UNCHANGED <<front, running, output, appended>>
    BY DEF DropExcess
<1>2. back.batch \in Seq(Buffers) /\ Len(back.batch) \in Nat
    BY LenProperties DEF IInv, TypeOK
<1>3. CASE ~excess
    BY <1>1, <1>3 DEF IInv, TypeOK, Exchange, Places
<1>4. CASE excess
    <2>1. Len(back.batch) > 2
        BY <1>2, <1>4, LoggerAssumption
    <2>2. /\ SubSeq(back.batch, 1, 2) \in Seq(Buffers)
          /\ Len(SubSeq(back.batch, 1, 2)) = 2
          /\ SubSeq(back.batch, 3, Len(back.batch)) \in Seq(Buffers)
        BY <1>2, <2>1, SubSeqProperties
    <2>3. SubSeq(back.batch, 1, 2) # <<>>
        BY <2>2, TwoLong
    <2>4. dropped' \in SUBSET Nat
        BY <1>1, <1>4, <2>2, NumbersType DEF IInv, TypeOK
    <2>5. /\ back'.first = back.first /\ back'.second = back.second
          /\ back'.batch = SubSeq(back.batch, 1, 2)
          /\ back' \in [first : Pointers, second : Pointers, batch : Seq(Buffers), written : Nat]
        BY <1>1, <1>4, <2>2 DEF IInv, TypeOK
    <2>6. TypeOK'
        BY <1>1, <2>4, <2>5 DEF IInv, TypeOK, Places
    <2>7. Exchange'
        BY <1>1, <2>2, <2>3, <2>5 DEF IInv, Exchange
    <2> QED BY <2>6, <2>7 DEF IInv
<1> QED BY <1>3, <1>4

LEMMA WriteBufferInv ==
    ASSUME IInv, WriteBuffer
    PROVE  IInv'
<1>1. /\ place = "write"
      /\ back.written < Len(back.batch)
      /\ output' = [output EXCEPT !.file = @ \o back.batch[back.written + 1].lines]
      /\ back' = [back EXCEPT !.written = @ + 1]
      /\ UNCHANGED <<front, place, running, appended, dropped>>
    BY DEF WriteBuffer
<1>2. /\ back.batch \in Seq(Buffers) /\ Len(back.batch) \in Nat /\ back.written \in Nat
    BY LenProperties DEF IInv, TypeOK
<1>3. back.batch[back.written + 1] \in Buffers
    BY <1>1, <1>2, ElementOfSeq
<1>4. output.file \o back.batch[back.written + 1].lines \in Seq(Lines)
    BY <1>3, ConcatProperties DEF IInv, TypeOK, Buffers
<1>5. output' \in [file : Seq(Lines), flushed : Nat]
    BY <1>1, <1>4 DEF IInv, TypeOK
<1>6. /\ back'.first = back.first /\ back'.second = back.second /\ back'.batch = back.batch
      /\ back' \in [first : Pointers, second : Pointers, batch : Seq(Buffers), written : Nat]
    <2>1. back \in [first : Pointers, second : Pointers, batch : Seq(Buffers), written : Nat]
        BY DEF IInv, TypeOK
    <2>2. back' = [back EXCEPT !.written = back.written + 1]
        BY <1>1
    <2>3. back.written + 1 \in Nat
        BY <1>2
    <2> QED BY <2>1, <2>2, <2>3
<1>7. TypeOK'
    BY <1>1, <1>5, <1>6 DEF IInv, TypeOK
<1>8. Exchange'
    BY <1>1, <1>6 DEF IInv, Exchange
<1> QED BY <1>7, <1>8 DEF IInv

LEMMA RecycleInv ==
    ASSUME IInv, Recycle
    PROVE  IInv'
<1> DEFINE first == IF back.first.set THEN back.first ELSE Reset(Left[Len(Left)])
           second == IF back.second.set THEN back.second
                     ELSE Reset(Left[Len(Left) + 1 - Wanted])
<1>1. /\ place = "write" /\ place' = "check"
      /\ Len(Left) >= Wanted
      /\ back' = [first |-> first, second |-> second, batch |-> <<>>, written |-> 0]
      /\ output' = [output EXCEPT !.flushed = Len(output.file)]
      /\ UNCHANGED <<front, running, appended, dropped>>
    BY DEF Recycle
<1>2. back.first = Null /\ back.second \in {Null, Empty}
    BY <1>1 DEF IInv, Exchange
<1>3. Wanted = IF back.second = Null THEN 2 ELSE 1
    BY <1>2, PointerFacts DEF Wanted
<1>4. Left \in Seq(Buffers) /\ Len(Left) \in Nat
    BY LeftFacts, LenProperties DEF IInv, TypeOK
<1>5. first = Empty
    <2>1. Left[Len(Left)] \in Buffers
        BY <1>1, <1>3, <1>4, ElementOfSeq
    <2> QED BY <1>2, <2>1, ResetIsEmpty, PointerFacts
<1>6. second = Empty
    <2>1. CASE back.second = Empty
        BY <2>1, PointerFacts
    <2>2. CASE back.second = Null
        <3>1. Left[Len(Left) + 1 - Wanted] \in Buffers
            BY <1>1, <1>3, <1>4, <2>2, ElementOfSeq
        <3> QED BY <2>2, <3>1, ResetIsEmpty, PointerFacts
    <2> QED BY <1>2, <2>1, <2>2
<1>7. back' = [first |-> Empty, second |-> Empty, batch |-> <<>>, written |-> 0]
    BY <1>1, <1>5, <1>6
<1>8. <<>> \in Seq(Buffers)
    BY EmptySeq
<1>9. output' \in [file : Seq(Lines), flushed : Nat]
    BY <1>1, LenProperties DEF IInv, TypeOK
<1>10. TypeOK'
    BY <1>1, <1>7, <1>8, <1>9, PointerFacts DEF IInv, TypeOK, Places
<1>11. Exchange'
    BY <1>1, <1>7 DEF IInv, Exchange
<1> QED BY <1>10, <1>11 DEF IInv

LEMMA NextInv == IInv /\ [Next]_lvars => IInv'
<1> SUFFICES ASSUME IInv, [Next]_lvars
             PROVE  IInv'
    OBVIOUS
<1>1. ASSUME NEW size \in Sizes, AppendLine(size)
      PROVE  IInv'
    BY <1>1, AppendLineInv
<1>2. CASE Stop
    BY <1>2, StopInv
<1>3. CASE Check
    BY <1>3, CheckInv
<1>4. CASE Collect
    BY <1>4, CollectInv
<1>5. CASE DropExcess
    BY <1>5, DropExcessInv
<1>6. CASE WriteBuffer
    BY <1>6, WriteBufferInv
<1>7. CASE Recycle
    BY <1>7, RecycleInv
<1>8. CASE UNCHANGED lvars
    BY <1>8 DEF lvars, IInv, TypeOK, Exchange
<1> QED BY <1>1, <1>2, <1>3, <1>4, <1>5, <1>6, <1>7, <1>8 DEF Next, BackEnd

LEMMA Invariance == Spec => []IInv
<1> QED BY InitInv, NextInv, PTL DEF Spec

-----------------------------------------------------------------------------
(* The lines that are kept. *)

\* What LinesInOrder rests on: the lines are numbered as they come, and the buffers of a
\* batch are counted only while they are written.
OrderInv ==
    /\ back.written <= Len(back.batch)
    /\ place # "write" => back.written = 0
    /\ \A n \in DOMAIN appended : appended[n].number = n
    /\ dropped \subseteq DOMAIN appended
    /\ LinesInOrder

\* The four parts of what is kept are sequences of lines.
LEMMA KeptType ==
    ASSUME IInv
    PROVE  /\ output.file \in Seq(Lines)
           /\ SubSeq(back.batch, back.written + 1, Len(back.batch)) \in Seq(Buffers)
           /\ Contents(SubSeq(back.batch, back.written + 1, Len(back.batch))) \in Seq(Lines)
           /\ Contents(front.full) \in Seq(Lines) /\ front.current.lines \in Seq(Lines)
           /\ Kept \in Seq(Lines)
<1> DEFINE R == SubSeq(back.batch, back.written + 1, Len(back.batch))
<1>1. /\ output.file \in Seq(Lines) /\ front.full \in Seq(Buffers) /\ front.current \in Buffers
      /\ back.batch \in Seq(Buffers) /\ back.written \in Nat
    BY DEF IInv, TypeOK
<1>2. R \in Seq(Buffers)
    <2>1. Len(back.batch) \in Nat
        BY <1>1, LenProperties
    <2>2. \A i \in (back.written + 1)..Len(back.batch) : back.batch[i] \in Buffers
        BY <1>1, <2>1, ElementOfSeq
    <2> QED BY <1>1, <2>1, <2>2, SubSeqProperties
<1> HIDE DEF R
<1>3. Contents(R) \in Seq(Lines) /\ Contents(front.full) \in Seq(Lines)
    BY <1>1, <1>2, ContentsFacts
<1>4. front.current.lines \in Seq(Lines)
    BY <1>1 DEF Buffers
<1>5. output.file \o Contents(R) \in Seq(Lines)
    BY <1>1, <1>3, ConcatProperties
<1>6. (output.file \o Contents(R)) \o Contents(front.full) \in Seq(Lines)
    BY <1>3, <1>5, ConcatProperties
<1>7. ((output.file \o Contents(R)) \o Contents(front.full)) \o front.current.lines \in Seq(Lines)
    BY <1>4, <1>6, ConcatProperties
<1> QED BY <1>1, <1>2, <1>3, <1>4, <1>7 DEF Kept, R

\* A line that is appended comes last, or is thrown away at once.
LEMMA KeptGrows ==
    ASSUME IInv, OrderInv, NEW size \in Nat, NEW rest \in {<<>>, <<Line(Len(appended) + 1, size)>>},
           appended' = Append(appended, Line(Len(appended) + 1, size)),
           dropped' = IF rest = <<>> THEN dropped \cup {Len(appended) + 1} ELSE dropped,
           Kept' = Kept \o rest
    PROVE  /\ \A n \in DOMAIN appended' : appended'[n].number = n
           /\ dropped' \subseteq DOMAIN appended'
           /\ LinesInOrder'
<1> DEFINE line == Line(Len(appended) + 1, size)
           next == Len(appended) + 1
<1>1. /\ appended \in Seq(Lines) /\ Len(appended) \in Nat /\ DOMAIN appended = 1..Len(appended)
    BY LenProperties DEF IInv, TypeOK
<1>2. line \in Lines /\ line.number = next
    BY <1>1 DEF Line, Lines
<1>3. /\ DOMAIN appended' = DOMAIN appended \cup {next} /\ next \notin DOMAIN appended
      /\ appended'[next] = line /\ \A n \in DOMAIN appended : appended'[n] = appended[n]
    <2>1. /\ Append(appended, line) \in Seq(Lines)
          /\ Len(Append(appended, line)) = Len(appended) + 1
          /\ \A i \in 1..Len(appended) : Append(appended, line)[i] = appended[i]
          /\ Append(appended, line)[Len(appended) + 1] = line
        BY <1>1, <1>2, AppendProperties
    <2>2. DOMAIN appended' = 1..(Len(appended) + 1)
        BY <2>1, LenProperties
    <2> QED BY <1>1, <2>1, <2>2
<1> HIDE DEF line
<1>4. Kept \in Seq(Lines) /\ rest \in Seq(Lines)
    <2>1. rest = <<>> \/ rest = <<line>>
        BY DEF line
    <2>2. <<>> \in Seq(Lines) /\ <<line>> \in Seq(Lines)
        BY <1>2
    <2> QED BY <2>1, <2>2, KeptType
<1>5. InCallOrder(Kept) /\ ToSet(Kept) = {appended[n] : n \in DOMAIN appended \ dropped}
    BY DEF OrderInv, LinesInOrder
<1>6. \A n \in DOMAIN appended : appended[n].number = n /\ n < next
    BY <1>1 DEF OrderInv
<1>7. /\ InCallOrder(rest)
      /\ ToSet(rest) = IF rest = <<>> THEN {} ELSE {line}
    BY DEF InCallOrder, ToSet, line
<1> HIDE DEF next
<1>8. \A x \in ToSet(Kept), y \in ToSet(rest) : x.number < y.number
    BY <1>2, <1>5, <1>6, <1>7
<1>9. InCallOrder(Kept \o rest) /\ ToSet(Kept \o rest) = ToSet(Kept) \cup ToSet(rest)
    <2>1. ToSet(Kept \o rest) = ToSet(Kept) \cup ToSet(rest)
        BY <1>4, ConcatMembers
    <2>2. InCallOrder(Kept \o rest)
        BY <1>4, <1>5, <1>7, <1>8, ConcatOrder, Zenon
    <2> QED BY <2>1, <2>2
<1>10. dropped \subseteq DOMAIN appended
    BY DEF OrderInv
<1>11. dropped' = IF rest = <<>> THEN dropped \cup {next} ELSE dropped
    BY DEF next
<1>12. {appended'[n] : n \in DOMAIN appended' \ dropped'}
           = IF rest = <<>> THEN {appended[n] : n \in DOMAIN appended \ dropped}
             ELSE {appended[n] : n \in DOMAIN appended \ dropped} \cup {line}
    <2>1. CASE rest = <<>>
        <3>1. DOMAIN appended' \ dropped' = DOMAIN appended \ dropped
            BY <2>1, <1>3, <1>11
        <3> QED BY <2>1, <3>1, <1>3
    <2>2. CASE rest # <<>>
        <3>1. DOMAIN appended' \ dropped' = (DOMAIN appended \ dropped) \cup {next}
            BY <2>2, <1>3, <1>10, <1>11
        <3> QED BY <2>2, <3>1, <1>3
    <2> QED BY <2>1, <2>2
<1>13. ToSet(Kept \o rest) = {appended'[n] : n \in DOMAIN appended' \ dropped'}
    BY <1>5, <1>7, <1>9, <1>12
<1>14. LinesInOrder'
    <2>1. InCallOrder(Kept') /\ ToSet(Kept') = {appended'[n] : n \in DOMAIN appended' \ dropped'}
        BY <1>9, <1>13
    <2> QED BY <2>1 DEF LinesInOrder, InCallOrder, ToSet
<1> QED BY <1>2, <1>3, <1>6, <1>10, <1>11, <1>14

\* Lines that only move.
LEMMA KeptStays ==
    ASSUME OrderInv, UNCHANGED <<appended, dropped>>, Kept' = Kept
    PROVE  /\ \A n \in DOMAIN appended' : appended'[n].number = n
           /\ dropped' \subseteq DOMAIN appended'
           /\ LinesInOrder'
<1>1. InCallOrder(Kept') /\ ToSet(Kept') = {appended'[n] : n \in DOMAIN appended' \ dropped'}
    BY DEF OrderInv, LinesInOrder
<1> QED BY <1>1 DEF OrderInv, LinesInOrder, InCallOrder, ToSet

\* Nothing is kept at first.
LEMMA OrderInit == Init => OrderInv
<1> SUFFICES ASSUME Init PROVE OrderInv
    OBVIOUS
<1>1. /\ output.file = <<>> /\ back.batch = <<>> /\ back.written = 0 /\ front.full = <<>>
      /\ front.current.lines = <<>> /\ appended = <<>> /\ dropped = {}
    BY DEF Init, Empty
<1>2. Len(<<>>) = 0 /\ DOMAIN <<>> = {} /\ <<>> \in Seq(Lines) /\ <<>> \o <<>> = <<>>
    BY EmptySeq
<1>3. Kept = <<>>
    <2>1. SubSeq(back.batch, back.written + 1, Len(back.batch)) = <<>>
        BY <1>1, <1>2, SubSeqEmpty
    <2>2. Contents(<<>>) = <<>>
        BY ContentsFacts
    <2>3. Kept = <<>> \o <<>> \o <<>> \o <<>>
        BY <1>1, <2>1, <2>2, Zenon DEF Kept
    <2> QED BY <2>3, <1>2
<1> QED BY <1>1, <1>2, <1>3 DEF OrderInv, LinesInOrder, InCallOrder, ToSet

\* A line that fits goes behind the others; one that does not takes a fresh buffer, and the
\* full one goes behind the full ones; one that fits no buffer is thrown away.
LEMMA AppendLineOrder ==
    ASSUME IInv, OrderInv, NEW size \in Sizes, AppendLine(size)
    PROVE  OrderInv'
<1> DEFINE line == Line(Len(appended) + 1, size)
           fresh == Successor(front.next)
           R == Contents(SubSeq(back.batch, back.written + 1, Len(back.batch)))
           a == output.file \o R
<1>1. size \in Nat
    BY LoggerAssumption
<1>2. /\ appended' = Append(appended, line)
      /\ UNCHANGED <<back, place, output>>
    BY DEF AppendLine
<1>3. /\ front.full \in Seq(Buffers) /\ front.current \in Buffers
      /\ front.current.lines \in Seq(Lines) /\ line \in Lines /\ line.number = Len(appended) + 1
    <2>1. front \in [current : Buffers, next : Pointers, full : Seq(Buffers)]
        BY DEF IInv, TypeOK
    <2>2. Len(appended) \in Nat
        BY LenProperties DEF IInv, TypeOK
    <2>3. line \in Lines /\ line.number = Len(appended) + 1
        BY <1>1, <2>2 DEF Line, Lines
    <2>4. front.full \in Seq(Buffers) /\ front.current \in Buffers
        BY <2>1
    <2> QED BY <2>3, <2>4 DEF Buffers
<1>4. a \in Seq(Lines) /\ Contents(front.full) \in Seq(Lines) /\ Kept \in Seq(Lines)
    BY KeptType, ConcatProperties
<1>5. Kept = (a \o Contents(front.full)) \o front.current.lines
    BY DEF Kept
<1>6. Kept' = (a \o Contents(front'.full)) \o front'.current.lines
    BY <1>2 DEF Kept, Contents
<1> HIDE DEF line, a
<1>7. fresh = Empty
    BY SuccessorIsEmpty DEF IInv, Exchange
<1>8. PICK rest \in {<<>>, <<line>>} :
        /\ dropped' = IF rest = <<>> THEN dropped \cup {Len(appended) + 1} ELSE dropped
        /\ Kept' = Kept \o rest
    <2>0. <<>> \in Seq(Lines) /\ <<line>> \in Seq(Lines) /\ <<line>> # <<>>
        BY <1>3
    <2>1. CASE Fits(front.current, line)
        <3>1. front' = [front EXCEPT !.current = Put(@, line)] /\ dropped' = dropped
            BY <2>1 DEF AppendLine, line
        <3>2. front'.full = front.full /\ front'.current = Put(front.current, line)
            BY <3>1 DEF IInv, TypeOK
        <3>3. front'.current.lines = front.current.lines \o <<line>>
            <4>1. Put(front.current, line).lines = Append(front.current.lines, line)
                BY <2>1, <1>3 DEF Put, Buffers
            <4> QED BY <3>2, <4>1, <1>3, AppendIsConcat
        <3>4. Kept' = (a \o Contents(front.full)) \o (front.current.lines \o <<line>>)
            BY <1>6, <3>2, <3>3
        <3>5. a \o Contents(front.full) \in Seq(Lines)
            BY <1>4, ConcatProperties
        <3> DEFINE b == a \o Contents(front.full)
                   c == front.current.lines
        <3>6. /\ b \in Seq(Lines) /\ c \in Seq(Lines)
              /\ Kept = b \o c /\ Kept' = b \o (c \o <<line>>)
            BY <1>3, <1>5, <3>4, <3>5
        <3> HIDE DEF b, c
        <3>7. (b \o c) \o <<line>> = b \o (c \o <<line>>)
            BY <3>6, <2>0, Associate
        <3>8. Kept' = Kept \o <<line>>
            BY <3>6, <3>7
        <3> QED BY <3>1, <3>8, <2>0
    <2>2. CASE ~Fits(front.current, line)
        <3>1. /\ front'.full = Append(front.full, front.current)
              /\ front'.current = Put(Empty, line)
              /\ dropped' = IF Fits(Empty, line) THEN dropped ELSE dropped \cup {line.number}
            BY <2>2, <1>7 DEF AppendLine, line
        <3> DEFINE rest == IF Fits(Empty, line) THEN <<line>> ELSE <<>>
        <3>2. front'.current.lines = rest
            BY <3>1, PointerFacts DEF Put, Empty
        <3>3. rest \in {<<>>, <<line>>} /\ rest \in Seq(Lines)
              /\ dropped' = IF rest = <<>> THEN dropped \cup {Len(appended) + 1} ELSE dropped
            BY <3>1, <2>0, <1>3
        <3> HIDE DEF rest
        <3>4. Contents(front'.full) = Contents(front.full) \o front.current.lines
            <4>1. front'.full = front.full \o <<front.current>>
                BY <3>1, <1>3, AppendIsConcat
            <4>2. <<front.current>> \in Seq(Buffers)
                BY <1>3
            <4> QED BY <4>1, <4>2, <1>3, ContentsFacts
        <3>5. Kept' = (a \o (Contents(front.full) \o front.current.lines)) \o rest
            BY <1>6, <3>2, <3>4
        <3>6. a \o (Contents(front.full) \o front.current.lines) = Kept
            <4> DEFINE u == Contents(front.full)
                       c == front.current.lines
                       d == a
            <4>1. d \in Seq(Lines) /\ u \in Seq(Lines) /\ c \in Seq(Lines)
                BY <1>3, <1>4
            <4> HIDE DEF u, c, d
            <4>2. (d \o u) \o c = d \o (u \o c)
                BY <4>1, Associate
            <4> QED BY <4>2, <1>5 DEF u, c, d
        <3> QED BY <3>3, <3>5, <3>6
    <2> QED BY <2>1, <2>2
<1>9. /\ \A n \in DOMAIN appended' : appended'[n].number = n
      /\ dropped' \subseteq DOMAIN appended'
      /\ LinesInOrder'
    <2> USE DEF line
    <2> QED BY <1>1, <1>2, <1>8, KeptGrows
<1> QED BY <1>2, <1>9 DEF OrderInv

\* The swap moves the full buffers and the current one, in this order, to an empty batch.
LEMMA CollectOrder ==
    ASSUME IInv, OrderInv, Collect
    PROVE  OrderInv'
<1> DEFINE batch == Append(front.full, front.current)
<1>1. /\ place = "collect" /\ place' = "trim"
      /\ back'.batch = batch /\ back'.written = back.written
      /\ front'.current = back.first /\ front'.full = <<>>
      /\ UNCHANGED <<output, appended, dropped>>
    BY DEF Collect, IInv, TypeOK
<1>2. back.first = Empty /\ back.batch = <<>> /\ back.written = 0
    BY <1>1 DEF IInv, Exchange, OrderInv
<1>3. /\ front.full \in Seq(Buffers) /\ front.current \in Buffers
      /\ front.current.lines \in Seq(Lines) /\ output.file \in Seq(Lines)
    BY DEF IInv, TypeOK, Buffers
<1>4. batch \in Seq(Buffers) /\ Len(batch) \in Nat
    BY <1>3, AppendProperties, LenProperties
<1>5. Contents(batch) = Contents(front.full) \o front.current.lines
    <2>1. batch = front.full \o <<front.current>>
        BY <1>3, AppendIsConcat
    <2>2. <<front.current>> \in Seq(Buffers)
        BY <1>3
    <2> QED BY <2>1, <2>2, <1>3, ContentsFacts
<1> HIDE DEF batch
<1>6. SubSeq(back'.batch, back'.written + 1, Len(back'.batch)) = batch
    BY <1>1, <1>2, <1>4, SubSeqFull
<1>7. SubSeq(back.batch, back.written + 1, Len(back.batch)) = <<>>
    <2>1. Len(<<>>) = 0
        BY EmptySeq
    <2> QED BY <1>2, <2>1, SubSeqEmpty
<1> DEFINE f == output.file
           u == Contents(front.full)
           c == front.current.lines
<1>8. f \in Seq(Lines) /\ u \in Seq(Lines) /\ c \in Seq(Lines) /\ u \o c \in Seq(Lines)
    BY <1>3, ContentsFacts, ConcatProperties
<1>9. Contents(<<>>) = <<>> /\ front'.current.lines = <<>>
    BY <1>1, <1>2, ContentsFacts DEF Empty
<1>10. Kept = ((f \o <<>>) \o u) \o c
    BY <1>7, <1>9 DEF Kept
<1>11. Kept' = ((f \o (u \o c)) \o <<>>) \o <<>>
    BY <1>1, <1>5, <1>6, <1>9 DEF Kept, Contents
<1> HIDE DEF f, u, c
<1>12. Kept' = Kept
    <2>1. f \o (u \o c) \in Seq(Lines)
        BY <1>8, ConcatProperties
    <2>2. Kept' = f \o (u \o c)
        BY <1>11, <2>1, ConcatEmptySeq
    <2>3. Kept = (f \o u) \o c
        BY <1>8, <1>10, ConcatEmptySeq
    <2>4. (f \o u) \o c = f \o (u \o c)
        BY <1>8, Associate
    <2> QED BY <2>2, <2>3, <2>4
<1>13. /\ \A n \in DOMAIN appended' : appended'[n].number = n
       /\ dropped' \subseteq DOMAIN appended'
       /\ LinesInOrder'
    BY <1>1, <1>12, KeptStays
<1> QED BY <1>1, <1>2, <1>4, <1>13 DEF OrderInv

\* A batch that is cut loses exactly the lines that count as dropped, and they come between
\* what stays of it and what the front end has.
LEMMA DropExcessOrder ==
    ASSUME IInv, OrderInv, DropExcess
    PROVE  OrderInv'
<1> DEFINE b == back.batch
           m == Len(back.batch)
<1>1. /\ place = "trim" /\ place' = "write" /\ back.written = 0
      /\ UNCHANGED <<front, output, appended>>
    BY DEF DropExcess, OrderInv
<1>2. b \in Seq(Buffers) /\ m \in Nat
    BY LenProperties DEF IInv, TypeOK
<1>3. CASE ~(m > MaxBuffers)
    <2>1. back' = back /\ dropped' = dropped
        BY <1>3 DEF DropExcess
    <2>2. Kept' = Kept
        BY <1>1, <2>1 DEF Kept, Contents
    <2> QED BY <1>1, <2>1, <2>2, KeptStays DEF OrderInv
<1>4. CASE m > MaxBuffers
    <2> DEFINE b1 == SubSeq(b, 1, 2)
               b2 == SubSeq(b, 3, m)
    <2>1. m > 2
        BY <1>2, <1>4, LoggerAssumption
    <2>2. /\ b1 \in Seq(Buffers) /\ b2 \in Seq(Buffers) /\ Len(b1) = 2
          /\ b1 \o b2 = b
        <3>1. \A i \in 1..m : b[i] \in Buffers
            BY <1>2, ElementOfSeq
        <3>2. b1 \in Seq(Buffers) /\ Len(b1) = 2
            BY <1>2, <2>1, <3>1, SubSeqProperties
        <3>3. b2 \in Seq(Buffers)
            BY <1>2, <2>1, <3>1, SubSeqProperties
        <3>4. b1 \o b2 = SubSeq(b, 1, m)
            BY <1>2, <2>1, ConcatAdjacentSubSeq
        <3>5. SubSeq(b, 1, m) = b
            BY <1>2, SubSeqFull
        <3> QED BY <3>2, <3>3, <3>4, <3>5
    <2>3. /\ back'.batch = b1 /\ back'.written = 0
          /\ dropped' = dropped \cup Numbers(b2)
        BY <1>1, <1>4 DEF DropExcess, IInv, TypeOK
    <2>4. /\ SubSeq(back.batch, back.written + 1, Len(back.batch)) = b
          /\ SubSeq(back'.batch, back'.written + 1, Len(back'.batch)) = b1
        BY <1>1, <1>2, <2>2, <2>3, SubSeqFull
    <2> HIDE DEF b, b1, b2, m
    <2> DEFINE f == output.file
               r == Contents(b1)
               s == Contents(b2)
               u == Contents(front.full)
               c == front.current.lines
    <2>5. /\ f \in Seq(Lines) /\ r \in Seq(Lines) /\ s \in Seq(Lines)
          /\ u \in Seq(Lines) /\ c \in Seq(Lines)
        BY <2>2, KeptType, ContentsFacts
    <2>6. Contents(b) = r \o s /\ Numbers(b2) = {y.number : y \in ToSet(s)}
        BY <2>2, ContentsFacts
    <2>7. Kept = ((f \o (r \o s)) \o u) \o c
        BY <2>4, <2>6 DEF Kept
    <2>8. Kept' = ((f \o r) \o u) \o c
        BY <1>1, <2>4 DEF Kept, Contents
    <2> HIDE DEF f, r, s, u, c
    <2>9. /\ f \o r \in Seq(Lines) /\ u \o c \in Seq(Lines)
          /\ (f \o r) \o s \in Seq(Lines)
        BY <2>5, ConcatProperties
    <2>10. Kept = ((f \o r) \o s) \o (u \o c)
        <3>1. (f \o r) \o s = f \o (r \o s)
            BY <2>5, Associate, SMTT(30)
        <3> DEFINE x == (f \o r) \o s
        <3>2. Kept = (x \o u) \o c
            BY <2>7, <3>1
        <3>3. x \in Seq(Lines) /\ u \in Seq(Lines) /\ c \in Seq(Lines)
            BY <2>5, <2>9
        <3> HIDE DEF x
        <3>4. (x \o u) \o c = x \o (u \o c)
            BY <3>3, Associate
        <3> QED BY <3>2, <3>4 DEF x
    <2>11. Kept' = (f \o r) \o (u \o c)
        <3> DEFINE x == f \o r
        <3>1. x \in Seq(Lines) /\ u \in Seq(Lines) /\ c \in Seq(Lines)
            BY <2>5, <2>9
        <3> HIDE DEF x
        <3>2. (x \o u) \o c = x \o (u \o c)
            BY <3>1, Associate
        <3> QED BY <2>8, <3>2 DEF x
    <2>12. InCallOrder(Kept) /\ ToSet(Kept) = {appended[n] : n \in DOMAIN appended \ dropped}
        BY DEF OrderInv, LinesInOrder
    <2> DEFINE x == f \o r
               z == u \o c
    <2>13. /\ x \in Seq(Lines) /\ z \in Seq(Lines)
           /\ Kept = (x \o s) \o z /\ Kept' = x \o z
        BY <2>9, <2>10, <2>11
    <2> HIDE DEF x, z
    <2>14. /\ InCallOrder(x \o z)
           /\ ToSet(x \o z) = {l \in ToSet((x \o s) \o z) :
                                    l.number \notin {y.number : y \in ToSet(s)}}
        BY <2>5, <2>12, <2>13, CutMiddle
    <2>15. \A n \in DOMAIN appended : appended[n].number = n
        BY DEF OrderInv
    <2>16. ToSet(Kept') = {appended[n] : n \in DOMAIN appended \ dropped'}
        <3>1. ToSet(Kept') = {l \in {appended[n] : n \in DOMAIN appended \ dropped} :
                                    l.number \notin Numbers(b2)}
            BY <2>6, <2>12, <2>13, <2>14
        <3> QED BY <3>1, <2>3, <2>15
    <2>17. dropped' \subseteq DOMAIN appended
        <3>1. ToSet(s) \subseteq ToSet(Kept)
            <4>1. x \o s \in Seq(Lines)
                BY <2>5, <2>13, ConcatProperties
            <4>2. ToSet(x \o s) = ToSet(x) \cup ToSet(s)
                BY <2>5, <2>13, ConcatMembers
            <4> DEFINE v == x \o s
            <4>3. v \in Seq(Lines)
                BY <4>1
            <4> HIDE DEF v
            <4>4. ToSet(v \o z) = ToSet(v) \cup ToSet(z)
                BY <4>3, <2>13, ConcatMembers
            <4> QED BY <4>2, <4>4, <2>13 DEF v
        <3>2. \A y \in ToSet(s) : y.number \in DOMAIN appended
            BY <3>1, <2>12, <2>15
        <3> QED BY <3>2, <2>3, <2>6 DEF OrderInv
    <2>18. LinesInOrder'
        <3>1. /\ InCallOrder(Kept')
              /\ ToSet(Kept') = {appended'[n] : n \in DOMAIN appended' \ dropped'}
            BY <1>1, <2>13, <2>14, <2>16
        <3> QED BY <3>1 DEF LinesInOrder, InCallOrder, ToSet
    <2>19. back'.written <= Len(back'.batch)
        BY <2>2, <2>3
    <2> QED BY <1>1, <2>15, <2>17, <2>18, <2>19 DEF OrderInv
<1> QED BY <1>3, <1>4

\* The lines of the next buffer go from the head of the batch to the end of the file.
LEMMA WriteBufferOrder ==
    ASSUME IInv, OrderInv, WriteBuffer
    PROVE  OrderInv'
<1> DEFINE n == back.written
           b == back.batch
           m == Len(back.batch)
<1>1. /\ place = "write" /\ place' = "write" /\ n < m
      /\ output'.file = output.file \o b[n + 1].lines
      /\ back'.batch = b /\ back'.written = n + 1
      /\ UNCHANGED <<front, appended, dropped>>
    BY DEF WriteBuffer, IInv, TypeOK
<1>2. b \in Seq(Buffers) /\ m \in Nat /\ n \in Nat
    BY LenProperties DEF IInv, TypeOK
<1> DEFINE w == b[n + 1]
           rest == SubSeq(b, n + 2, m)
<1>3. w \in Buffers /\ w.lines \in Seq(Lines) /\ <<w>> \in Seq(Buffers)
    <2>1. w \in Buffers
        BY <1>1, <1>2, ElementOfSeq
    <2>2. w.lines \in Seq(Lines)
        BY <2>1 DEF Buffers
    <2>3. \A v \in Buffers : <<v>> \in Seq(Buffers)
        OBVIOUS
    <2> HIDE DEF w
    <2> QED BY <2>1, <2>2, <2>3, Zenon
<1>4. rest \in Seq(Buffers)
    <2>1. \A i \in (n + 2)..m : b[i] \in Buffers
        BY <1>2, ElementOfSeq
    <2> QED BY <1>2, <2>1, SubSeqProperties
<1>5. SubSeq(b, n + 1, m) = <<w>> \o rest
    <2>1. n + 1 \in 1..m /\ m \in (n + 1)..m /\ n + 1 + 1 = n + 2
        BY <1>1, <1>2
    <2> QED BY <1>2, <2>1, SubSeqRecursiveFirst
<1>6. SubSeq(back'.batch, back'.written + 1, Len(back'.batch)) = rest
    <2>1. n + 1 + 1 = n + 2
        BY <1>2
    <2> QED BY <1>1, <2>1
<1> HIDE DEF w, rest
<1> DEFINE f == output.file
           l == w.lines
           r == Contents(rest)
           u == Contents(front.full)
           c == front.current.lines
<1>7. /\ f \in Seq(Lines) /\ l \in Seq(Lines) /\ r \in Seq(Lines)
      /\ u \in Seq(Lines) /\ c \in Seq(Lines)
    BY <1>3, <1>4, KeptType, ContentsFacts
<1>8. Kept = ((f \o (l \o r)) \o u) \o c
    BY <1>3, <1>4, <1>5, ContentsFacts DEF Kept
<1>9. Kept' = (((f \o l) \o r) \o u) \o c
    BY <1>1, <1>6 DEF Kept, Contents, w
<1>10. (f \o l) \o r = f \o (l \o r)
    <2> HIDE DEF f, l, r
    <2> QED BY <1>7, Associate, SMTT(30)
<1>11. Kept' = Kept
    BY <1>8, <1>9, <1>10
<1> QED BY <1>1, <1>2, <1>11, KeptStays DEF OrderInv

\* Nothing is left of a batch that is written.
LEMMA RecycleOrder ==
    ASSUME IInv, OrderInv, Recycle
    PROVE  OrderInv'
<1>1. /\ back.written = Len(back.batch)
      /\ back'.batch = <<>> /\ back'.written = 0
      /\ output'.file = output.file
      /\ UNCHANGED <<front, appended, dropped>>
    BY DEF Recycle, IInv, TypeOK
<1>2. Len(<<>>) = 0 /\ Len(back.batch) \in Nat
    BY EmptySeq, LenProperties DEF IInv, TypeOK
<1>3. /\ SubSeq(back.batch, back.written + 1, Len(back.batch)) = <<>>
      /\ SubSeq(back'.batch, back'.written + 1, Len(back'.batch)) = <<>>
    BY <1>1, <1>2, SubSeqEmpty
<1>4. Kept' = Kept
    BY <1>1, <1>3 DEF Kept, Contents
<1> QED BY <1>1, <1>2, <1>4, KeptStays DEF OrderInv

LEMMA OrderStep == IInv /\ OrderInv /\ [Next]_lvars => OrderInv'
<1> SUFFICES ASSUME IInv, OrderInv, [Next]_lvars
             PROVE  OrderInv'
    OBVIOUS
<1>1. ASSUME NEW size \in Sizes, AppendLine(size)
      PROVE  OrderInv'
    BY <1>1, AppendLineOrder
<1>2. CASE UNCHANGED <<front, back, output, appended, dropped>> /\ place' = place
    <2>1. Kept' = Kept
        BY <1>2 DEF Kept, Contents
    <2> QED BY <1>2, <2>1, KeptStays DEF OrderInv
<1>3. CASE Stop
    BY <1>2, <1>3 DEF Stop
<1>4. CASE Check
    <2>1. place' # "write" /\ place = "check"
          /\ UNCHANGED <<front, back, running, output, appended, dropped>>
        BY <1>4 DEF Check
    <2>2. Kept' = Kept
        BY <2>1 DEF Kept, Contents
    <2> QED BY <2>1, <2>2, KeptStays DEF OrderInv
<1>5. CASE Collect
    BY <1>5, CollectOrder
<1>6. CASE DropExcess
    BY <1>6, DropExcessOrder
<1>7. CASE WriteBuffer
    BY <1>7, WriteBufferOrder
<1>8. CASE Recycle
    BY <1>8, RecycleOrder
<1>9. CASE UNCHANGED lvars
    BY <1>2, <1>9 DEF lvars
<1> QED BY <1>1, <1>3, <1>4, <1>5, <1>6, <1>7, <1>8, <1>9 DEF Next, BackEnd

-----------------------------------------------------------------------------
(* The theorems. *)

\* The variables always hold what their declarations say; in particular
\* currentBuffer_ is never null when append() dereferences it.
THEOREM LoggerTypeCorrect == Spec => []TypeOK
<1>1. IInv => TypeOK
    BY DEF IInv
<1> QED BY <1>1, Invariance, PTL

\* No assert() of threadFunc() ever fails: the buffers it gives to the front end
\* are always replaced from the batch it has written, even from one that was cut.
THEOREM LoggerAssertsHold == Spec => []AssertsHold
<1>1. IInv => AssertsHold
    <2> SUFFICES ASSUME IInv
                 PROVE  AssertsHold
        OBVIOUS
    <2>1. place = "collect" =>
              back.first = Empty /\ back.second = Empty /\ back.batch = <<>>
        BY DEF IInv, Exchange
    <2>2. ASSUME place \in {"trim", "write"}
          PROVE  back.batch # <<>> /\ Len(Left) >= Wanted
        <3>1. /\ back.first = Null /\ back.second \in {Null, Empty}
              /\ back.batch # <<>>
              /\ back.second = Null => Len(back.batch) >= 2
            BY <2>2 DEF IInv, Exchange
        <3>2. Wanted = IF back.second = Null THEN 2 ELSE 1
            BY <3>1, PointerFacts DEF Wanted
        <3>3. /\ Len(back.batch) \in Nat /\ Len(back.batch) >= 1
              /\ Len(Left) = IF Len(back.batch) > 2 THEN 2 ELSE Len(back.batch)
            BY <3>1, LeftFacts, EmptySeq, LenProperties DEF IInv, TypeOK
        <3> QED BY <3>1, <3>2, <3>3
    <2> QED BY <2>1, <2>2 DEF AssertsHold
<1> QED BY <1>1, Invariance, PTL

\* Every line that is appended and not thrown away is in the file or on its way to it exactly
\* once, and in the order of the calls of append(), however the front end and the back-end
\* thread interleave, whatever is cut off a batch (AsyncLogger.cc:28-151).
THEOREM LinesStayInOrder == Spec => []LinesInOrder
<1>1. OrderInv => LinesInOrder
    BY DEF OrderInv
<1> QED BY <1>1, Invariance, OrderInit, OrderStep, PTL DEF Spec
=============================================================================
