---------------------------- MODULE Parts_proofs ----------------------------
(***************************************************************************)
(* Theorems about the parts of the library that work on their own, those   *)
(* that MCParts runs together: first the pool of MySQL connections (any    *)
(* finite set of threads, any size of the pool and any number of           *)
(* connections made), then the log file (lines, streams, intervals and     *)
(* days of any size), then the cache (any keys, values, hash, capacity,    *)
(* number of slices, limit of the average and sentinel; of the order of    *)
(* eviction and of the refinement, any limit from 2 to below the sentinel),*)
(* then the buffer (any sizes, and fewer bytes in all than size_t counts;  *)
(* until a readv() fails), then the HTTP server (its answers and what it   *)
(* makes of the stream of a client, for any requests, routes and limits).  *)
(* Last, the log line, for any sizes and numbers, and texts of any length. *)
(***************************************************************************)
EXTENDS MySQLPool, LogFile, LFUCache, Buffer, HttpServer, LogLine,
        SequenceFacts, FiniteSetTheorems, TLAPS

(* The pool of MySQL connections (MySQLPool). *)

\* Before init() has found the driver nothing has been made or lent.
Untouched ==
    ~driver => /\ idle = <<>> /\ alive = {} /\ made = 0 /\ active = 0 /\ missing = 0
               /\ \A t \in Threads : place[t] = "out"

PoolInv == TypeOK /\ Exclusive /\ CountsAgree /\ NoWaiterForgotten /\ Untouched

-----------------------------------------------------------------------------
(* Queues of connections. *)

Elements(q) == {q[i] : i \in DOMAIN q}
Distinct(q) == \A i, j \in DOMAIN q : q[i] = q[j] => i = j

\* Taking the first connection out of a queue without repetitions.
LEMMA PopQueue ==
    ASSUME NEW S, NEW q \in Seq(S), q # <<>>, Distinct(q)
    PROVE  /\ Head(q) \in S /\ Head(q) \in Elements(q)
           /\ Tail(q) \in Seq(S) /\ Len(Tail(q)) = Len(q) - 1
           /\ Distinct(Tail(q))
           /\ Elements(Tail(q)) = Elements(q) \ {Head(q)}
<1>1. Len(q) \in Nat /\ Len(q) > 0 /\ DOMAIN q = 1..Len(q) /\ Head(q) = q[1]
    BY EmptySeq, LenProperties
<1>2. /\ Tail(q) \in Seq(S) /\ Len(Tail(q)) = Len(q) - 1 /\ DOMAIN Tail(q) = 1..(Len(q) - 1)
      /\ \A i \in 1..(Len(q) - 1) : Tail(q)[i] = q[i + 1]
    BY <1>1
<1>3. Head(q) \in S /\ Head(q) \in Elements(q)
    BY <1>1, ElementOfSeq DEF Elements
<1>4. Distinct(Tail(q))
    BY <1>1, <1>2 DEF Distinct
<1>5. Elements(Tail(q)) \subseteq Elements(q) \ {Head(q)}
    BY <1>1, <1>2 DEF Distinct, Elements
<1>6. ASSUME NEW x \in Elements(q) \ {Head(q)}
      PROVE  x \in Elements(Tail(q))
    <2>1. PICK i \in 1..Len(q) : x = q[i]
        BY <1>1 DEF Elements
    <2>2. i # 1 /\ i - 1 \in 1..(Len(q) - 1)
        BY <1>1, <2>1
    <2>3. Tail(q)[i - 1] = x
        BY <1>2, <2>1, <2>2
    <2> QED BY <1>2, <2>2, <2>3 DEF Elements
<1> QED BY <1>2, <1>3, <1>4, <1>5, <1>6

\* Putting a connection behind others.
LEMMA PushQueue ==
    ASSUME NEW S, NEW q \in Seq(S), NEW x \in S, Distinct(q), x \notin Elements(q)
    PROVE  /\ Append(q, x) \in Seq(S) /\ Len(Append(q, x)) = Len(q) + 1
           /\ Distinct(Append(q, x))
           /\ Elements(Append(q, x)) = Elements(q) \cup {x}
<1>1. Len(q) \in Nat /\ DOMAIN q = 1..Len(q)
    BY LenProperties
<1>2. /\ Append(q, x) \in Seq(S) /\ Len(Append(q, x)) = Len(q) + 1
      /\ DOMAIN Append(q, x) = 1..(Len(q) + 1)
      /\ \A i \in 1..Len(q) : Append(q, x)[i] = q[i]
      /\ Append(q, x)[Len(q) + 1] = x
    BY <1>1, AppendProperties
<1>3. ASSUME NEW i \in 1..(Len(q) + 1), NEW j \in 1..(Len(q) + 1),
             Append(q, x)[i] = Append(q, x)[j]
      PROVE  i = j
    <2>1. \A k \in 1..Len(q) : q[k] # x
        BY <1>1 DEF Elements
    <2>2. CASE i \in 1..Len(q) /\ j \in 1..Len(q)
        BY <1>1, <1>2, <1>3, <2>2 DEF Distinct
    <2>3. CASE i = Len(q) + 1 \/ j = Len(q) + 1
        BY <1>1, <1>2, <1>3, <2>1, <2>3
    <2> QED BY <1>1, <2>2, <2>3
<1>4. Elements(Append(q, x)) = Elements(q) \cup {x}
    <2>1. Elements(Append(q, x)) \subseteq Elements(q) \cup {x}
        BY <1>1, <1>2 DEF Elements
    <2>2. Elements(q) \subseteq Elements(Append(q, x))
        BY <1>1, <1>2 DEF Elements
    <2>3. x \in Elements(Append(q, x))
        BY <1>1, <1>2 DEF Elements
    <2> QED BY <2>1, <2>2, <2>3
<1> QED BY <1>2, <1>3, <1>4 DEF Distinct

\* The queue that init() makes.
LEMMA FreshQueue ==
    ASSUME NEW n \in Nat, NEW m \in Nat, n <= m, NEW q, q = [i \in 1..n |-> i]
    PROVE  q \in Seq(1..m) /\ Len(q) = n /\ Distinct(q) /\ Elements(q) = 1..n
<1>1. q \in [1..n -> 1..m]
    OBVIOUS
<1>2. q \in Seq(1..m)
    BY <1>1
<1>3. Len(q) = n
    BY <1>1, <1>2, LenProperties
<1> QED BY <1>2, <1>3 DEF Distinct, Elements

-----------------------------------------------------------------------------
(* How many threads are at a place. *)

AtIn(p, where) == {t \in Threads : p[t] = where}

\* The count of one place falls and that of another rises by one.
Moved(p, q, from, to) ==
    /\ q \in [Threads -> Places]
    /\ \A w : w \notin {from, to} => AtIn(q, w) = AtIn(p, w)
    /\ Cardinality(AtIn(q, from)) = Cardinality(AtIn(p, from)) - 1
    /\ Cardinality(AtIn(q, to)) = Cardinality(AtIn(p, to)) + 1

\* A thread that goes from one place to another.
LEMMA CountMove ==
    ASSUME NEW p \in [Threads -> Places], NEW t \in Threads, NEW to \in Places, p[t] # to,
           NEW q, q = [p EXCEPT ![t] = to]
    PROVE  Moved(p, q, p[t], to)
<1>1. \A w : IsFiniteSet(AtIn(p, w))
    BY PoolAssumption, FS_Subset DEF AtIn
<1>2. q \in [Threads -> Places]
    OBVIOUS
<1>3. AtIn(q, p[t]) = AtIn(p, p[t]) \ {t} /\ t \in AtIn(p, p[t])
    BY DEF AtIn
<1>4. AtIn(q, to) = AtIn(p, to) \cup {t} /\ t \notin AtIn(p, to)
    BY DEF AtIn
<1>5. \A w : w \notin {p[t], to} => AtIn(q, w) = AtIn(p, w)
    BY DEF AtIn
<1>6. Cardinality(AtIn(q, p[t])) = Cardinality(AtIn(p, p[t])) - 1
    BY <1>1, <1>3, FS_RemoveElement
<1>7. Cardinality(AtIn(q, to)) = Cardinality(AtIn(p, to)) + 1
    BY <1>1, <1>4, FS_AddElement
<1> QED BY <1>2, <1>5, <1>6, <1>7 DEF Moved

\* Places are counted in natural numbers.
LEMMA CountNat ==
    ASSUME NEW p, NEW w
    PROVE  Cardinality(AtIn(p, w)) \in Nat
BY PoolAssumption, FS_Subset, FS_CardinalityType DEF AtIn

\* A place with a thread is counted.
LEMMA CountPositive ==
    ASSUME NEW p \in [Threads -> Places], NEW t \in Threads
    PROVE  Cardinality(AtIn(p, p[t])) \in Nat \ {0}
<1>1. IsFiniteSet(AtIn(p, p[t]))
    BY PoolAssumption, FS_Subset DEF AtIn
<1>2. t \in AtIn(p, p[t])
    BY DEF AtIn
<1> QED BY <1>1, <1>2, FS_CardinalityType, FS_EmptySet

-----------------------------------------------------------------------------
(* The steps. *)

\* The connections of a smaller pool are connections of a larger one.
LEMMA MoreMade ==
    ASSUME NEW m \in Nat, NEW n \in Nat, m <= n, NEW q \in Seq(1..m)
    PROVE  q \in Seq(1..n)
<1>1. q \in [1..Len(q) -> 1..m] /\ Len(q) \in Nat
    BY LenProperties
<1>2. q \in [1..Len(q) -> 1..n]
    BY <1>1
<1> QED BY <1>1, <1>2

\* What the parts of the invariant say in terms of the operators above.
LEMMA InTheseTerms ==
    /\ Idle = Elements(idle)
    /\ \A w : At(w) = AtIn(place, w)
    /\ Exclusive => Distinct(idle)
BY DEF Idle, Elements, At, AtIn, Exclusive, Distinct

\* A thread with a connection, or asleep, or about to resume, has found the driver.
LEMMA DriverFound ==
    ASSUME PoolInv, NEW t \in Threads, place[t] # "out" \/ idle # <<>>
    PROVE  driver
BY DEF PoolInv, Untouched

\* A thread falls asleep, wakes up, or gives up.
LEMMA GoToStep ==
    ASSUME PoolInv, NEW t \in Threads, NEW where \in {"out", "asleep", "awake"}, GoTo(t, where),
           place[t] \in {"out", "asleep", "awake"}, place[t] # where, driver,
           closed \/ idle = <<>> \/ (place[t] = "asleep" /\ where = "awake")
    PROVE  PoolInv'
<1>1. TypeOK /\ Exclusive /\ CountsAgree /\ NoWaiterForgotten
    BY DEF PoolInv
<1>2. place' = [place EXCEPT ![t] = where] /\ place \in [Threads -> Places] /\ where \in Places
    BY <1>1 DEF GoTo, TypeOK, Places
<1>3. Moved(place, place', place[t], where)
    BY <1>2, CountMove
<1>9. /\ place' \in [Threads -> Places]
      /\ AtIn(place', "using") = AtIn(place, "using")
      /\ Cardinality(AtIn(place', where)) = Cardinality(AtIn(place, where)) + 1
    BY <1>3 DEF Moved
<1>10. \A w : Cardinality(AtIn(place, w)) \in Nat /\ Cardinality(AtIn(place', w)) \in Nat
    BY CountNat
<1>4. UNCHANGED <<driver, poolSize, idle, closed, active, borrowed, alive, made, missing,
                  destroyed>>
    BY DEF GoTo
<1>5. TypeOK'
    BY <1>1, <1>4, <1>9 DEF TypeOK
<1>6. Exclusive'
    BY <1>1, <1>2, <1>4 DEF Exclusive, At, Idle, TypeOK
<1>7. CountsAgree'
    BY <1>1, <1>4, <1>9 DEF CountsAgree, At, AtIn
<1>8. NoWaiterForgotten'
    <2>1. CASE closed
        BY <1>4, <2>1 DEF NoWaiterForgotten
    <2>2. CASE idle = <<>>
        <3>1. Cardinality(AtIn(place', "awake")) \in Nat
            BY <1>10
        <3> QED BY <1>4, <2>2, <3>1, EmptySeq DEF NoWaiterForgotten, At, AtIn
    <2>3. CASE ~closed /\ place[t] = "asleep" /\ where = "awake"
        <3>1. At("asleep") # {}
            BY <2>3 DEF At
        <3>2. Len(idle) <= Cardinality(AtIn(place, "awake")) /\ Len(idle) \in Nat
            BY <1>1, <2>3, <3>1, LenProperties DEF NoWaiterForgotten, TypeOK, At, AtIn
        <3>3. Len(idle) <= Cardinality(AtIn(place', "awake"))
            BY <1>9, <1>10, <2>3, <3>2
        <3> QED BY <1>4, <3>3 DEF NoWaiterForgotten, At, AtIn
    <2> QED BY <2>1, <2>2, <2>3
<1> QED BY <1>4, <1>5, <1>6, <1>7, <1>8 DEF PoolInv, Untouched

\* A thread takes the first idle connection.
LEMMA TakeStep ==
    ASSUME PoolInv, NEW t \in Threads, place[t] \in {"out", "awake"}, Take(t)
    PROVE  PoolInv'
<1>1. TypeOK /\ Exclusive /\ CountsAgree /\ NoWaiterForgotten /\ driver
    BY DriverFound DEF PoolInv, Take
<1>2. /\ place' = [place EXCEPT ![t] = "using"] /\ borrowed' = [borrowed EXCEPT ![t] = Head(idle)]
      /\ idle' = Tail(idle) /\ active' = active + 1 /\ ~closed /\ idle # <<>>
      /\ UNCHANGED <<driver, poolSize, closed, alive, made, missing, destroyed>>
    BY DEF Take, AfterPop
<1>3. /\ place' \in [Threads -> Places]
      /\ \A w : Cardinality(AtIn(place, w)) \in Nat
      /\ AtIn(place', "asleep") = AtIn(place, "asleep")
      /\ Cardinality(AtIn(place', "using")) = Cardinality(AtIn(place, "using")) + 1
      /\ Cardinality(AtIn(place', "awake")) >= Cardinality(AtIn(place, "awake")) - 1
    <2>1. place \in [Threads -> Places] /\ "using" \in Places
        BY <1>1 DEF TypeOK, Places
    <2>2. Moved(place, place', place[t], "using")
        BY <1>2, <2>1, CountMove
    <2>3. \A w : Cardinality(AtIn(place, w)) \in Nat
        BY CountNat
    <2>4. /\ place' \in [Threads -> Places]
          /\ AtIn(place', "asleep") = AtIn(place, "asleep")
          /\ Cardinality(AtIn(place', "using")) = Cardinality(AtIn(place, "using")) + 1
        BY <2>2 DEF Moved
    <2>5. Cardinality(AtIn(place', "awake")) >= Cardinality(AtIn(place, "awake")) - 1
        <3>1. CASE place[t] = "out"
            <4>1. AtIn(place', "awake") = AtIn(place, "awake")
                BY <2>2, <3>1 DEF Moved
            <4> QED BY <2>3, <4>1
        <3>2. CASE place[t] = "awake"
            BY <2>2, <2>3, <3>2 DEF Moved
        <3> QED BY <3>1, <3>2
    <2> QED BY <2>3, <2>4, <2>5
<1>4. /\ Head(idle) \in 1..made /\ Head(idle) \in Idle
      /\ idle' \in Seq(1..made) /\ Len(idle') = Len(idle) - 1
      /\ Distinct(idle') /\ Elements(idle') = Idle \ {Head(idle)}
      /\ Len(idle) \in Nat
    BY <1>1, <1>2, PopQueue, InTheseTerms, LenProperties DEF TypeOK
<1>5. TypeOK'
    BY <1>1, <1>2, <1>3, <1>4 DEF TypeOK
<1>6. Exclusive'
    <2>1. Idle' = Idle \ {Head(idle)}
        BY <1>4 DEF Idle, Elements
    <2>2. \A u \in Threads : u # t => place'[u] = place[u] /\ borrowed'[u] = borrowed[u]
        BY <1>1, <1>2 DEF TypeOK
    <2>3. place'[t] = "using" /\ borrowed'[t] = Head(idle) /\ Head(idle) # None
        BY <1>1, <1>2, <1>4 DEF TypeOK, None
    <2>4. \A u \in Threads : (borrowed'[u] # None) <=> (place'[u] = "using")
        BY <1>1, <2>2, <2>3 DEF Exclusive
    <2>5. \A u \in Threads : u # t /\ place'[u] = "using"
                => borrowed'[u] \in alive \ Idle
        BY <1>1, <2>2 DEF Exclusive, At
    <2>6. \A u, v \in At("using")' : borrowed'[u] = borrowed'[v] => u = v
        BY <1>1, <1>4, <2>2, <2>3, <2>5 DEF Exclusive, At
    <2>7. \A u \in At("using")' : borrowed'[u] \in alive' \ Idle'
        BY <1>1, <1>2, <1>4, <2>1, <2>3, <2>5 DEF Exclusive, At
    <2>8. Idle' \subseteq alive'
        BY <1>1, <1>2, <2>1 DEF Exclusive
    <2> QED BY <1>4, <2>4, <2>6, <2>7, <2>8 DEF Exclusive, Distinct
<1>7. CountsAgree'
    BY <1>1, <1>2, <1>3, <1>4 DEF CountsAgree, At, AtIn, TypeOK
<1>8. NoWaiterForgotten'
    <2>1. AtIn(place, "asleep") # {} => Len(idle) <= Cardinality(AtIn(place, "awake"))
        BY <1>1, <1>2 DEF NoWaiterForgotten, At, AtIn
    <2>2. Cardinality(AtIn(place', "awake")) \in Nat
        BY CountNat
    <2>3. AtIn(place', "asleep") # {} => Len(idle') <= Cardinality(AtIn(place', "awake"))
        BY <1>3, <1>4, <2>1, <2>2
    <2> QED BY <2>3 DEF NoWaiterForgotten, At, AtIn
<1> QED BY <1>1, <1>2, <1>5, <1>6, <1>7, <1>8 DEF PoolInv, Untouched

-----------------------------------------------------------------------------
(* Returns. *)

\* A thread gives its connection up, whatever becomes of the idle ones.
LEMMA LetGo ==
    ASSUME TypeOK, Exclusive, NEW t \in Threads, borrowed' = [borrowed EXCEPT ![t] = None],
           \A u \in Threads : place'[u] = "using" <=> (u # t /\ place[u] = "using"),
           Distinct(idle'), Idle' \subseteq alive',
           \A u \in Threads : u # t /\ place[u] = "using" => borrowed[u] \in alive' \ Idle'
    PROVE  Exclusive'
<1>1. borrowed'[t] = None /\ \A u \in Threads : u # t => borrowed'[u] = borrowed[u]
    BY DEF TypeOK
<1>2. \A u \in Threads : (borrowed'[u] # None) <=> (place'[u] = "using")
    BY <1>1 DEF Exclusive
<1>3. \A u, v \in At("using")' : borrowed'[u] = borrowed'[v] => u = v
    BY <1>1 DEF Exclusive, At
<1>4. \A u \in At("using")' : borrowed'[u] \in alive' \ Idle'
    BY <1>1 DEF At
<1> QED BY <1>2, <1>3, <1>4 DEF Exclusive, Distinct

\* What notify_one() makes of the places.
LEMMA NotifyStep ==
    ASSUME TypeOK, NEW t \in Threads, place[t] = "using", place' \in Notified(t)
    PROVE  /\ place' \in [Threads -> Places]
           /\ \A u \in Threads : place'[u] = "using" <=> (u # t /\ place[u] = "using")
           /\ Cardinality(AtIn(place', "using")) = Cardinality(AtIn(place, "using")) - 1
           /\ AtIn(place', "asleep") # {}
                => /\ AtIn(place, "asleep") # {}
                   /\ Cardinality(AtIn(place', "awake")) = Cardinality(AtIn(place, "awake")) + 1
<1> DEFINE mid == [place EXCEPT ![t] = "out"]
<1>1. place \in [Threads -> Places] /\ "out" \in Places /\ "awake" \in Places
    BY DEF TypeOK, Places
<1>2. Moved(place, mid, "using", "out")
    <2>1. Moved(place, mid, place[t], "out")
        BY <1>1, CountMove
    <2> QED BY <2>1
<1>3. mid \in [Threads -> Places] /\ AtIn(mid, "awake") = AtIn(place, "awake")
      /\ Cardinality(AtIn(mid, "using")) = Cardinality(AtIn(place, "using")) - 1
    BY <1>2 DEF Moved
<1>4. CASE At("asleep") = {}
    <2>1. place' = mid
        BY <1>4 DEF Notified
    <2>2. AtIn(place', "asleep") = {}
        BY <1>1, <1>4, <2>1 DEF AtIn, At
    <2>3. \A u \in Threads : place'[u] = "using" <=> (u # t /\ place[u] = "using")
        BY <1>1, <2>1
    <2> QED BY <1>3, <2>1, <2>2, <2>3
<1>5. CASE At("asleep") # {}
    <2>1. PICK w \in At("asleep") : place' = [place EXCEPT ![t] = "out", ![w] = "awake"]
        BY <1>5 DEF Notified
    <2>2. w \in Threads /\ w # t /\ place[w] = "asleep" /\ mid[w] = "asleep"
        BY <1>1, <2>1 DEF At
    <2>3. place' = [mid EXCEPT ![w] = "awake"]
        BY <1>1, <2>1, <2>2
    <2> HIDE DEF mid
    <2>4. Moved(mid, place', mid[w], "awake")
        BY <1>1, <1>3, <2>2, <2>3, CountMove
    <2>5. Moved(mid, place', "asleep", "awake")
        BY <2>2, <2>4
    <2>6. /\ place' \in [Threads -> Places] /\ AtIn(place', "using") = AtIn(mid, "using")
          /\ Cardinality(AtIn(place', "awake")) = Cardinality(AtIn(mid, "awake")) + 1
        BY <2>5 DEF Moved
    <2>7. \A u \in Threads : place'[u] = "using" <=> (u # t /\ place[u] = "using")
        BY <1>1, <2>1, <2>2
    <2>8. AtIn(place, "asleep") # {}
        BY <1>5 DEF At, AtIn
    <2> QED BY <1>3, <2>6, <2>7, <2>8
<1> QED BY <1>4, <1>5

\* A connection, old or new, is put behind the idle ones.
LEMMA PutBackStep ==
    ASSUME PoolInv, NEW t \in Threads, NEW x, place[t] = "using", ~closed, PutBack(t, x),
           made' \in Nat, made <= made', x \in (1..made') \ Idle, alive' \subseteq 1..made',
           Idle \cup {x} \subseteq alive',
           \A u \in Threads : u # t /\ place[u] = "using" => borrowed[u] \in alive' \ {x}
    PROVE  PoolInv'
<1>1. TypeOK /\ Exclusive /\ CountsAgree /\ NoWaiterForgotten /\ driver
    BY DriverFound DEF PoolInv
<1>2. /\ idle' = Append(idle, x) /\ active' = active - 1 /\ place' \in Notified(t)
      /\ borrowed' = [borrowed EXCEPT ![t] = None]
      /\ UNCHANGED <<driver, poolSize, closed, missing, destroyed>>
    BY DEF PutBack
<1>3. /\ place' \in [Threads -> Places]
      /\ \A u \in Threads : place'[u] = "using" <=> (u # t /\ place[u] = "using")
      /\ Cardinality(AtIn(place', "using")) = Cardinality(AtIn(place, "using")) - 1
      /\ AtIn(place', "asleep") # {}
           => /\ AtIn(place, "asleep") # {}
              /\ Cardinality(AtIn(place', "awake")) = Cardinality(AtIn(place, "awake")) + 1
    BY <1>1, <1>2, NotifyStep
<1>4. /\ idle' \in Seq(1..made') /\ Len(idle') = Len(idle) + 1 /\ Len(idle) \in Nat
      /\ Distinct(idle') /\ Elements(idle') = Idle \cup {x}
    <2>1. idle \in Seq(1..made')
        BY <1>1, MoreMade DEF TypeOK
    <2>2. Distinct(idle) /\ x \notin Elements(idle) /\ Idle = Elements(idle)
        BY <1>1, InTheseTerms
    <2> QED BY <1>2, <2>1, <2>2, PushQueue, LenProperties
<1>5. Cardinality(AtIn(place, "using")) \in Nat \ {0}
    <2>1. Cardinality(AtIn(place, place[t])) \in Nat \ {0}
        BY <1>1, CountPositive DEF TypeOK
    <2> QED BY <2>1
<1>6. active = Cardinality(AtIn(place, "using")) /\ poolSize = Len(idle) + active + missing
    BY <1>1 DEF CountsAgree, At, AtIn
<1>7. TypeOK'
    <2>1. active' \in Nat
        BY <1>2, <1>5, <1>6
    <2>2. borrowed' \in [Threads -> 0..made']
        BY <1>1, <1>2 DEF TypeOK, None
    <2> QED BY <1>1, <1>2, <1>3, <1>4, <2>1, <2>2 DEF TypeOK
<1>8. Exclusive'
    <2>1. Idle' = Idle \cup {x}
        BY <1>4 DEF Idle, Elements
    <2>2. \A u \in Threads : u # t /\ place[u] = "using" => borrowed[u] \in alive' \ Idle'
        BY <1>1, <2>1 DEF Exclusive, At
    <2> QED BY <1>1, <1>2, <1>3, <1>4, <2>1, <2>2, LetGo
<1>9. CountsAgree'
    <2>1. active' = Cardinality(AtIn(place', "using"))
        BY <1>2, <1>3, <1>6
    <2>2. poolSize' = Len(idle') + active' + missing'
        BY <1>1, <1>2, <1>4, <1>6 DEF TypeOK
    <2> QED BY <2>1, <2>2 DEF CountsAgree, At, AtIn
<1>10. NoWaiterForgotten'
    <2>1. AtIn(place, "asleep") # {} => Len(idle) <= Cardinality(AtIn(place, "awake"))
        BY <1>1 DEF NoWaiterForgotten, At, AtIn
    <2>2. Cardinality(AtIn(place, "awake")) \in Nat
        BY CountNat
    <2>3. AtIn(place', "asleep") # {} => Len(idle') <= Cardinality(AtIn(place', "awake"))
        BY <1>3, <1>4, <2>1, <2>2
    <2> QED BY <2>3 DEF NoWaiterForgotten, At, AtIn
<1> QED BY <1>1, <1>2, <1>7, <1>8, <1>9, <1>10 DEF PoolInv, Untouched

LEMMA ReturnValidStep ==
    ASSUME PoolInv, NEW t \in Threads, ReturnValid(t)
    PROVE  PoolInv'
<1>1. /\ TypeOK /\ Exclusive /\ place[t] = "using" /\ ~closed
      /\ PutBack(t, borrowed[t]) /\ alive' = alive /\ made' = made
    BY DEF PoolInv, ReturnValid
<1>2. borrowed[t] \in alive \ Idle /\ borrowed[t] \in 1..made /\ Idle \subseteq alive
    BY <1>1 DEF Exclusive, At, TypeOK
<1>3. \A u \in Threads : u # t /\ place[u] = "using" => borrowed[u] \in alive' \ {borrowed[t]}
    BY <1>1 DEF Exclusive, At
<1>4. made' \in Nat /\ made <= made' /\ alive' \subseteq 1..made'
    BY <1>1 DEF TypeOK
<1>5. borrowed[t] \in (1..made') \ Idle /\ Idle \cup {borrowed[t]} \subseteq alive'
    BY <1>1, <1>2
<1> QED BY <1>1, <1>3, <1>4, <1>5, PutBackStep

LEMMA ReturnReplacedStep ==
    ASSUME PoolInv, NEW t \in Threads, ReturnReplaced(t)
    PROVE  PoolInv'
<1>1. /\ TypeOK /\ Exclusive /\ place[t] = "using" /\ ~closed
      /\ PutBack(t, made') /\ made' = made + 1
      /\ alive' = (alive \ {borrowed[t]}) \cup {made'}
    BY DEF PoolInv, ReturnReplaced
<1>2. made \in Nat /\ alive \subseteq 1..made /\ Idle \subseteq alive /\ borrowed[t] \notin Idle
    BY <1>1 DEF Exclusive, At, TypeOK
<1>3. made' \in Nat /\ made <= made' /\ made' \in (1..made') \ Idle /\ alive' \subseteq 1..made'
    <2>1. made' \in Nat /\ made <= made' /\ made' \in 1..made' /\ made' \notin 1..made
        BY <1>1, <1>2
    <2>2. 1..made \subseteq 1..made'
        BY <1>2, <2>1
    <2> QED BY <1>1, <1>2, <2>1, <2>2
<1>6. Idle \cup {made'} \subseteq alive'
    BY <1>1, <1>2
<1>4. \A u \in Threads : u # t /\ place[u] = "using" => borrowed[u] \in alive \ {borrowed[t]}
    BY <1>1 DEF Exclusive, At
<1>5. \A u \in Threads : u # t /\ place[u] = "using" => borrowed[u] \in alive' \ {made'}
    <2>1. made' \notin alive
        BY <1>1, <1>2
    <2> QED BY <1>1, <1>4, <2>1
<1> QED BY <1>1, <1>3, <1>5, <1>6, PutBackStep

LEMMA ReturnLostStep ==
    ASSUME PoolInv, NEW t \in Threads, NEW opened \in 0..1, ReturnLost(t, opened)
    PROVE  PoolInv'
<1>1. TypeOK /\ Exclusive /\ CountsAgree /\ NoWaiterForgotten /\ driver
    BY DriverFound DEF PoolInv, ReturnLost
<1>2. /\ place[t] = "using" /\ ~closed /\ made' = made + opened
      /\ alive' = (alive \ {borrowed[t]}) \cup (made + 1)..made'
      /\ poolSize' = poolSize - 1 /\ active' = active - 1
      /\ place' = [place EXCEPT ![t] = "out"] /\ borrowed' = [borrowed EXCEPT ![t] = None]
      /\ UNCHANGED <<driver, idle, closed, missing, destroyed>>
    BY DEF ReturnLost, Shrunk
<1>3. Moved(place, place', place[t], "out")
    BY <1>1, <1>2, CountMove DEF TypeOK, Places
<1>4. /\ place' \in [Threads -> Places]
      /\ AtIn(place', "asleep") = AtIn(place, "asleep")
      /\ AtIn(place', "awake") = AtIn(place, "awake")
      /\ Cardinality(AtIn(place', "using")) = Cardinality(AtIn(place, "using")) - 1
    BY <1>2, <1>3 DEF Moved
<1>5. Cardinality(AtIn(place, "using")) \in Nat \ {0}
    <2>1. Cardinality(AtIn(place, place[t])) \in Nat \ {0}
        BY <1>1, CountPositive DEF TypeOK
    <2> QED BY <1>2, <2>1
<1>6. /\ active = Cardinality(AtIn(place, "using")) /\ poolSize = Len(idle) + active + missing
      /\ Len(idle) \in Nat /\ missing \in Nat /\ made \in Nat
    BY <1>1, <1>2, LenProperties DEF CountsAgree, At, AtIn, TypeOK
<1>7. TypeOK'
    <2>1. active' \in Nat /\ poolSize' \in Nat /\ made' \in Nat /\ made <= made'
        BY <1>2, <1>5, <1>6
    <2>2. idle' \in Seq(1..made')
        BY <1>1, <1>2, <2>1, MoreMade DEF TypeOK
    <2>3. alive' \subseteq 1..made'
        <3>1. 1..made \subseteq 1..made' /\ (made + 1)..made' \subseteq 1..made'
            BY <1>6, <2>1
        <3> QED BY <1>1, <1>2, <3>1 DEF TypeOK
    <2>4. borrowed' \in [Threads -> 0..made']
        BY <1>1, <1>2, <2>1 DEF TypeOK, None
    <2> QED BY <1>1, <1>2, <1>4, <2>1, <2>2, <2>3, <2>4 DEF TypeOK
<1>8. Exclusive'
    <2>1. Idle' = Idle /\ Distinct(idle')
        BY <1>1, <1>2, InTheseTerms DEF Idle
    <2>2. Idle \subseteq alive' /\ borrowed[t] \notin Idle
        BY <1>1, <1>2 DEF Exclusive, At
    <2>3. \A u \in Threads : u # t /\ place[u] = "using" => borrowed[u] \in alive' \ Idle
        BY <1>1, <1>2 DEF Exclusive, At
    <2>4. \A u \in Threads : place'[u] = "using" <=> (u # t /\ place[u] = "using")
        BY <1>1, <1>2 DEF TypeOK
    <2> QED BY <1>1, <1>2, <2>1, <2>2, <2>3, <2>4, LetGo
<1>9. CountsAgree'
    <2>1. active' = Cardinality(AtIn(place', "using"))
        BY <1>2, <1>4, <1>6
    <2>2. poolSize' = Len(idle') + active' + missing'
        BY <1>2, <1>5, <1>6
    <2> QED BY <2>1, <2>2 DEF CountsAgree, At, AtIn
<1>10. NoWaiterForgotten'
    BY <1>1, <1>2, <1>4 DEF NoWaiterForgotten, At, AtIn
<1> QED BY <1>1, <1>2, <1>7, <1>8, <1>9, <1>10 DEF PoolInv, Untouched

LEMMA ReturnToClosedStep ==
    ASSUME PoolInv, NEW t \in Threads, ReturnToClosed(t)
    PROVE  PoolInv'
<1>1. TypeOK /\ Exclusive /\ driver
    BY DriverFound DEF PoolInv, ReturnToClosed
<1>2. /\ place[t] = "using" /\ closed /\ alive' = alive \ {borrowed[t]}
      /\ place' = [place EXCEPT ![t] = "out"] /\ borrowed' = [borrowed EXCEPT ![t] = None]
      /\ UNCHANGED <<driver, poolSize, idle, closed, active, made, missing, destroyed>>
    BY DEF ReturnToClosed
<1>3. TypeOK'
    <2>1. place' \in [Threads -> Places]
        BY <1>1, <1>2 DEF TypeOK, Places
    <2>2. borrowed' \in [Threads -> 0..made']
        BY <1>1, <1>2 DEF TypeOK, None
    <2> QED BY <1>1, <1>2, <2>1, <2>2 DEF TypeOK
<1>4. Exclusive'
    <2>1. Idle' = Idle /\ Distinct(idle')
        BY <1>1, <1>2, InTheseTerms DEF Idle
    <2>2. Idle \subseteq alive'
        BY <1>1, <1>2 DEF Exclusive, At
    <2>3. \A u \in Threads : u # t /\ place[u] = "using" => borrowed[u] \in alive' \ Idle
        BY <1>1, <1>2 DEF Exclusive, At
    <2>4. \A u \in Threads : place'[u] = "using" <=> (u # t /\ place[u] = "using")
        BY <1>1, <1>2 DEF TypeOK
    <2> QED BY <1>1, <1>2, <2>1, <2>2, <2>3, <2>4, LetGo
<1> QED BY <1>1, <1>2, <1>3, <1>4 DEF PoolInv, Untouched, CountsAgree, NoWaiterForgotten

-----------------------------------------------------------------------------
(* init(), closeAll() and the whole. *)

\* With every thread outside, nothing is lent and nobody waits.
LEMMA AllOut ==
    ASSUME \A t \in Threads : place[t] = "out"
    PROVE  /\ At("using") = {} /\ At("asleep") = {}
           /\ Cardinality(At("using")) = 0
BY FS_EmptySet DEF At

LEMMA InitStep ==
    ASSUME PoolInit
    PROVE  PoolInv
<1>1. TypeOK
    <2>1. idle \in Seq(1..made)
        BY EmptySeq DEF PoolInit
    <2>2. borrowed \in [Threads -> 0..made]
        BY DEF PoolInit, None
    <2> QED BY <2>1, <2>2 DEF PoolInit, TypeOK, Places
<1>2. Exclusive
    BY AllOut DEF PoolInit, Exclusive, Idle, None
<1> QED BY <1>1, <1>2, AllOut DEF PoolInit, PoolInv, CountsAgree, NoWaiterForgotten, Untouched

LEMMA InitWithoutDriverStep ==
    ASSUME PoolInv, InitWithoutDriver
    PROVE  PoolInv'
BY PoolAssumption DEF PoolInv, InitWithoutDriver, TypeOK, Exclusive, CountsAgree,
   NoWaiterForgotten, Untouched, At, Idle

LEMMA InitPoolStep ==
    ASSUME PoolInv, NEW stock \in 0..InitialSize, NEW opened \in 0..1, InitPool(stock, opened)
    PROVE  PoolInv'
<1>1. TypeOK /\ Exclusive /\ Untouched /\ ~driver
    BY DEF PoolInv, InitPool
<1>2. /\ driver' /\ poolSize' = InitialSize /\ idle' = [i \in 1..stock |-> i]
      /\ alive' = 1..(stock + opened) /\ made' = stock + opened
      /\ missing' = InitialSize - stock /\ stock \in Nat /\ opened \in Nat
      /\ UNCHANGED <<closed, active, place, borrowed, destroyed>>
    BY PoolAssumption DEF InitPool
<1>3. /\ idle' \in Seq(1..made') /\ Len(idle') = stock
      /\ Distinct(idle') /\ Elements(idle') = 1..stock
    BY <1>2, FreshQueue
<1>4. \A t \in Threads : place[t] = "out" /\ borrowed[t] = None
    BY <1>1 DEF Untouched, Exclusive, TypeOK, None
<1>5. At("using")' = {} /\ At("asleep")' = {} /\ Cardinality(At("using")') = 0
    BY <1>2, <1>4, AllOut DEF At
<1>6. TypeOK'
    <2>1. missing' \in Nat /\ poolSize' \in Nat /\ made' \in Nat
        BY <1>2, PoolAssumption
    <2>2. borrowed' \in [Threads -> 0..made']
        BY <1>1, <1>2, <1>4, <2>1 DEF TypeOK, None
    <2> QED BY <1>1, <1>2, <1>3, <2>1, <2>2 DEF TypeOK
<1>7. Exclusive'
    <2>1. Idle' \subseteq alive'
        BY <1>2, <1>3, SMTT(30) DEF Idle, Elements
    <2> QED BY <1>2, <1>3, <1>4, <1>5, <2>1 DEF Exclusive, Distinct
<1>8. CountsAgree'
    <2>1. active' = 0
        BY <1>1, <1>2 DEF Untouched
    <2>2. InitialSize = stock + 0 + (InitialSize - stock)
        BY <1>2, PoolAssumption
    <2> QED BY <1>2, <1>3, <1>5, <2>1, <2>2 DEF CountsAgree
<1> QED BY <1>2, <1>5, <1>6, <1>7, <1>8 DEF PoolInv, NoWaiterForgotten, Untouched

LEMMA CloseStep ==
    ASSUME PoolInv, CloseAll, destroyed' \in BOOLEAN
    PROVE  PoolInv'
<1>1. TypeOK /\ Exclusive /\ Untouched
    BY DEF PoolInv
<1>2. /\ closed' = TRUE /\ alive' = alive \ Idle /\ idle' = <<>>
      /\ place' = [t \in Threads |-> IF place[t] = "asleep" THEN "awake" ELSE place[t]]
      /\ UNCHANGED <<driver, poolSize, active, borrowed, made, missing>>
    BY DEF CloseAll
<1>3. TypeOK'
    <2>1. idle' \in Seq(1..made')
        BY <1>2, EmptySeq
    <2>2. place' \in [Threads -> Places]
        BY <1>1, <1>2 DEF TypeOK, Places
    <2> QED BY <1>1, <1>2, <2>1, <2>2 DEF TypeOK
<1>4. Idle' = {} /\ At("using")' = At("using")
    BY <1>2 DEF Idle, At
<1>5. \A t \in Threads : place'[t] = "using" <=> place[t] = "using"
    BY <1>2
<1>6. Exclusive'
    BY <1>1, <1>2, <1>4, <1>5 DEF Exclusive
<1>7. Untouched'
    BY <1>1, <1>2 DEF Untouched, Idle
<1> QED BY <1>2, <1>3, <1>6, <1>7 DEF PoolInv, CountsAgree, NoWaiterForgotten

-----------------------------------------------------------------------------
(* Every reachable state satisfies the invariant. *)

\* Every step keeps the invariant.
LEMMA NextStep ==
    ASSUME PoolInv, [PoolNext]_pvars
    PROVE  PoolInv'
<1>1. CASE InitWithoutDriver
    BY <1>1, InitWithoutDriverStep
<1>2. CASE \E stock \in 0..InitialSize, opened \in 0..1 : InitPool(stock, opened)
    BY <1>2, InitPoolStep
<1>3. ASSUME NEW t \in Threads, GetAtOnce(t) \/ ResumeTakes(t)
      PROVE  PoolInv'
    BY <1>3, TakeStep DEF GetAtOnce, ResumeTakes
<1>4. ASSUME NEW t \in Threads, GetWaits(t)
      PROVE  PoolInv'
    BY <1>4, GoToStep DEF GetWaits
<1>5. ASSUME NEW t \in Threads, WakeUp(t) \/ ResumeThrows(t) \/ ResumeWaits(t)
      PROVE  PoolInv'
    <2>1. driver
        BY <1>5, DriverFound DEF WakeUp, ResumeThrows, ResumeWaits
    <2> QED BY <1>5, <2>1, GoToStep DEF WakeUp, ResumeThrows, ResumeWaits
<1>6. ASSUME NEW t \in Threads,
             \/ ReturnValid(t) \/ ReturnReplaced(t) \/ ReturnToClosed(t)
             \/ \E opened \in 0..1 : ReturnLost(t, opened)
      PROVE  PoolInv'
    BY <1>6, ReturnValidStep, ReturnReplacedStep, ReturnToClosedStep, ReturnLostStep
<1>7. CASE Close \/ Exit
    BY <1>7, CloseStep DEF Close, Exit, PoolInv, TypeOK
<1>8. CASE UNCHANGED pvars
    BY <1>8 DEF pvars, PoolInv, TypeOK, Exclusive, CountsAgree, NoWaiterForgotten, Untouched, At,
                Idle
<1> QED BY <1>1, <1>2, <1>3, <1>4, <1>5, <1>6, <1>7, <1>8 DEF PoolNext

\* The invariant holds in every state of the pool.
THEOREM PoolInvariant == PoolSpec => []PoolInv
BY InitStep, NextStep, PTL DEF PoolSpec

\* The variables of the pool hold what their declarations say, for any number of threads
\* and connections.
THEOREM PoolTypeCorrect == PoolSpec => []TypeOK
<1>1. PoolInv => TypeOK
    BY DEF PoolInv
<1> QED BY <1>1, PoolInvariant, PTL

\* getConnection() never lends a connection that another thread has, that is still idle, or
\* that has been deleted, through every failure of init() and of the heartbeat.
THEOREM NeverShared == PoolSpec => []Exclusive
<1>1. PoolInv => Exclusive
    BY DEF PoolInv
<1> QED BY <1>1, PoolInvariant, PTL

\* activeCount_ and poolSize_ of an open pool account for every connection.
THEOREM PoolCountsAgree == PoolSpec => []CountsAgree
<1>1. PoolInv => CountsAgree
    BY DEF PoolInv
<1> QED BY <1>1, PoolInvariant, PTL

\* No thread sleeps in getConnection() beside a connection that nobody is woken for: one
\* notify_one() for each return is enough, for any number of waiters.
THEOREM NobodyForgotten == PoolSpec => []NoWaiterForgotten
<1>1. PoolInv => NoWaiterForgotten
    BY DEF PoolInv
<1> QED BY <1>1, PoolInvariant, PTL

-----------------------------------------------------------------------------
(* The log file (LogFile). *)

FileTypes ==
    /\ {now, startOfPeriod, lastRoll, lastFlush, count, written} \subseteq Nat
    /\ oldest \in Nat

\* Period() gives the time itself, so that a period is over as soon as a roll is allowed,
\* and the bytes in the buffer have come since the last roll.
SamePeriodSameSecond ==
    /\ startOfPeriod = lastRoll /\ lastRoll <= now
    /\ oldest = Never \/ (lastRoll <= oldest /\ oldest <= now)

FileInv == FileTypes /\ SamePeriodSameSecond

\* Period() does not round down.
LEMMA PeriodIsTime == ASSUME NEW time \in Nat PROVE Period(time) = time
<1> DEFINE r == RollPerSeconds
           q == (time * r) \div r
<1>1. r \in Nat /\ r > 0
    BY LogFileAssumption
<1>2. time * r \in Nat
    BY <1>1
<1>3. q \in Int /\ r * q <= time * r /\ time * r < r * q + r
    BY <1>1, <1>2, Z3
<1>4. q = time
    BY <1>1, <1>3, Z3
<1> QED BY <1>4 DEF Period

\* What a line does to the buffer of the stream.
LEMMA OldestStays ==
    ASSUME FileInv, NEW stored \in Nat, NEW time \in OldestAfter(stored)
    PROVE  time \in Nat /\ (time = Never \/ (lastRoll <= time /\ time <= now))
BY LogFileAssumption DEF FileInv, FileTypes, SamePeriodSameSecond, OldestAfter, Never

LEMMA FileInvInit == FileInit => FileInv
BY LogFileAssumption, PeriodIsTime
   DEF FileInit, FileInv, FileTypes, SamePeriodSameSecond, Never

LEMMA FileInvRoll == ASSUME FileInv, Roll, now' = now, count' \in Nat PROVE FileInv'
BY LogFileAssumption, PeriodIsTime
   DEF FileInv, FileTypes, SamePeriodSameSecond, Roll, Never

LEMMA FileInvStay ==
    ASSUME FileInv, NEW stored \in Nat, Stay(stored), now' = now, count' \in Nat,
           lastFlush' = lastFlush
    PROVE  FileInv'
BY OldestStays DEF FileInv, FileTypes, SamePeriodSameSecond, Stay, BytesAfter, Never

LEMMA FileInvStep == FileInv /\ [FileNext]_lvars => FileInv'
<1> SUFFICES ASSUME FileInv, [FileNext]_lvars PROVE FileInv'
    OBVIOUS
<1>1. ASSUME NEW stored \in Nat, AppendTooLong(stored) PROVE FileInv'
    <2>1. count' \in Nat /\ now' = now
        BY <1>1 DEF AppendTooLong, FileInv, FileTypes
    <2> QED BY <1>1, <2>1, FileInvRoll, FileInvStay DEF AppendTooLong, RollFile
<1>2. ASSUME NEW stored \in Nat, AppendUnchecked(stored) PROVE FileInv'
    <2>1. count' \in Nat /\ now' = now
        BY <1>2 DEF AppendUnchecked, FileInv, FileTypes
    <2> QED BY <1>2, <2>1, FileInvStay DEF AppendUnchecked
<1>3. ASSUME NEW stored \in Nat, AppendNewPeriod(stored) PROVE FileInv'
    <2>1. count' \in Nat /\ now' = now
        BY <1>3 DEF AppendNewPeriod
    <2> QED BY <1>3, <2>1, FileInvRoll, FileInvStay DEF AppendNewPeriod, RollFile
<1>4. ASSUME NEW stored \in Nat, AppendSamePeriod(stored) PROVE FileInv'
    <2>1. count' \in Nat /\ now' = now
        BY <1>4 DEF AppendSamePeriod
    <2>2. CASE FlushIsDue
        BY <1>4, <2>1, <2>2, LogFileAssumption
           DEF AppendSamePeriod, FileInv, FileTypes, SamePeriodSameSecond, BytesAfter, Never
    <2>3. CASE ~FlushIsDue
        BY <1>4, <2>1, <2>3, FileInvStay DEF AppendSamePeriod
    <2> QED BY <2>2, <2>3
<1>5. CASE Flush
    BY <1>5, LogFileAssumption DEF Flush, FileInv, FileTypes, SamePeriodSameSecond, Never
<1>6. CASE Tick
    BY <1>6 DEF Tick, FileInv, FileTypes, SamePeriodSameSecond, Never
<1>7. CASE UNCHANGED lvars
    BY <1>7 DEF lvars, FileInv, FileTypes, SamePeriodSameSecond, Never
<1>8. \A size \in Sizes : 0 .. size \subseteq Nat
    BY LogFileAssumption
<1> QED BY <1>1, <1>2, <1>3, <1>4, <1>5, <1>6, <1>7, <1>8 DEF FileNext

LEMMA FileInvAlways == FileSpec => []FileInv
BY FileInvInit, FileInvStep, PTL DEF FileSpec

\* A check in a new second rolls, and a check in the second of the last roll finds bytes
\* of that second only.
LEMMA CheckIsFresh ==
    ASSUME FileInv, [FileNext]_lvars, Checked PROVE Fresh(now)
<1> USE DEF Checked, FileInv, FileTypes
<1>1. ASSUME NEW stored \in Nat, AppendTooLong(stored) PROVE FALSE
    BY <1>1, LogFileAssumption DEF AppendTooLong
<1>2. ASSUME NEW stored \in Nat, AppendUnchecked(stored) PROVE FALSE
    BY <1>2, LogFileAssumption DEF AppendUnchecked
<1>3. ASSUME NEW stored \in Nat, AppendNewPeriod(stored) PROVE Fresh(now)
    <2>1. now # lastRoll
        BY <1>3, PeriodIsTime DEF AppendNewPeriod, PeriodIsOver, SamePeriodSameSecond
    <2>2. MayRoll
        BY <2>1 DEF MayRoll, SamePeriodSameSecond
    <2> QED BY <1>3, <2>2 DEF AppendNewPeriod, RollFile, Roll, Fresh
<1>4. ASSUME NEW stored \in Nat, AppendSamePeriod(stored) PROVE Fresh(now)
    <2>1. now = lastRoll
        BY <1>4, PeriodIsTime DEF AppendSamePeriod, PeriodIsOver, SamePeriodSameSecond
    <2>2. CASE FlushIsDue
        BY <1>4, <2>2 DEF AppendSamePeriod, Fresh
    <2>3. CASE ~FlushIsDue
        <3>1. oldest' \in OldestAfter(stored)
            BY <1>4, <2>3 DEF AppendSamePeriod, Stay
        <3>2. oldest' = Never \/ oldest' = now
            BY <2>1, <3>1, OldestStays
        <3> QED BY <3>2, LogFileAssumption DEF Fresh
    <2> QED BY <2>2, <2>3
<1>5. CASE Flush
    BY <1>5 DEF Flush, Fresh
<1>6. CASE Tick
    BY <1>6, LogFileAssumption DEF Tick
<1>7. CASE UNCHANGED lvars
    BY <1>7, LogFileAssumption DEF lvars
<1>8. \A size \in Sizes : 0 .. size \subseteq Nat
    BY LogFileAssumption
<1> QED BY <1>1, <1>2, <1>3, <1>4, <1>5, <1>6, <1>7, <1>8 DEF FileNext

\* No check of append_unlocked() leaves a byte older than flushInterval_ in the buffer of
\* the stream, although a roll may be refused (LogFile.cc:88) and the branch that flushes
\* is tied to the second of the last roll (LogFile.cc:74).
THEOREM ChecksAlwaysFlush == FileSpec => ChecksFlush
<1>1. FileInv /\ [FileNext]_lvars => [Checked => Fresh(now)]_lvars
    BY CheckIsFresh
<1> QED BY <1>1, FileInvAlways, PTL DEF FileSpec, ChecksFlush

-----------------------------------------------------------------------------
(* The cache (LFUCache). *)

\* A slice is a record of its four fields, and its two indexes agree.
Whole(c) == \E n, l, m, t : c = [node |-> n, lists |-> l, min |-> m, total |-> t]
Agrees(s, c) ==
    /\ Whole(c)
    /\ Cached(c) \subseteq {k \in Keys : Slice[k] = s}
    /\ c.node \in [Cached(c) -> Slots]
    /\ c.lists = {<<c.node[k].freq, k>> : k \in Cached(c)}

CacheInv ==
    /\ slices = [s \in SliceIds |-> slices[s]]
    /\ \A s \in SliceIds : Agrees(s, slices[s])

-----------------------------------------------------------------------------
(* The operators on one slice. *)

\* EXCEPT changes a field of a slice, never its shape.
LEMMA WholeAfterOne ==
    ASSUME NEW c, Whole(c), NEW x
    PROVE  /\ Whole([c EXCEPT !.node = x]) /\ Whole([c EXCEPT !.lists = x])
           /\ Whole([c EXCEPT !.min = x]) /\ Whole([c EXCEPT !.total = x])
<1>1. PICK n, l, m, t : c = [node |-> n, lists |-> l, min |-> m, total |-> t]
    BY DEF Whole
<1>2. Whole([c EXCEPT !.node = x])
    <2>1. [c EXCEPT !.node = x] = [node |-> x, lists |-> l, min |-> m, total |-> t]
        BY <1>1
    <2> QED BY <2>1, Zenon DEF Whole
<1>3. Whole([c EXCEPT !.lists = x])
    <2>1. [c EXCEPT !.lists = x] = [node |-> n, lists |-> x, min |-> m, total |-> t]
        BY <1>1
    <2> QED BY <2>1, Zenon DEF Whole
<1>4. Whole([c EXCEPT !.min = x])
    <2>1. [c EXCEPT !.min = x] = [node |-> n, lists |-> l, min |-> x, total |-> t]
        BY <1>1
    <2> QED BY <2>1, Zenon DEF Whole
<1>5. Whole([c EXCEPT !.total = x])
    <2>1. [c EXCEPT !.total = x] = [node |-> n, lists |-> l, min |-> m, total |-> x]
        BY <1>1
    <2> QED BY <2>1, Zenon DEF Whole
<1> QED BY <1>2, <1>3, <1>4, <1>5

LEMMA WholeExcept ==
    ASSUME NEW c, Whole(c)
    PROVE  \A x, y, z :
             /\ Whole([c EXCEPT !.node = x]) /\ Whole([c EXCEPT !.min = x])
             /\ Whole([c EXCEPT !.total = x])
             /\ Whole([c EXCEPT !.node = x, !.lists = y])
             /\ Whole([c EXCEPT !.node = x, !.lists = y, !.total = z])
<1> TAKE x, y, z
<1> DEFINE d == [c EXCEPT !.node = x]
           e == [d EXCEPT !.lists = y]
<1>1. Whole(d)
    BY WholeAfterOne
<1> HIDE DEF d
<1>2. Whole(e)
    BY <1>1, WholeAfterOne
<1> HIDE DEF e
<1>3. Whole([e EXCEPT !.total = z])
    BY <1>2, WholeAfterOne
<1>4. Whole([c EXCEPT !.min = x]) /\ Whole([c EXCEPT !.total = x])
    BY WholeAfterOne
<1> QED BY <1>1, <1>2, <1>3, <1>4 DEF d, e

\* Whether the indexes agree depends on the two indexes only.
LEMMA SameIndexes ==
    ASSUME NEW s, NEW c, Agrees(s, c), NEW d, Whole(d), d.node = c.node, d.lists = c.lists
    PROVE  Agrees(s, d)
BY DEF Agrees, Cached

LEMMA SliceInRange == ASSUME NEW key \in Keys PROVE Slice[key] \in SliceIds
BY LFUAssumption DEF Slice, SliceIds

LEMMA AgedIsPositive == ASSUME NEW freq \in Nat \ {0} PROVE Aged(freq) \in Nat \ {0}
BY LFUAssumption DEF Aged

\* Aging: every node changes both indexes alike.
LEMMA AgeAgrees == ASSUME NEW s, NEW c, Agrees(s, c) PROVE Agrees(s, AgeAll(c))
<1> DEFINE d == AgeAll(c)
<1>1. c.lists \ {<<c.node[k].freq, k>> : k \in Cached(c)} = {}
    BY DEF Agrees
<1>2. d.lists = {<<Aged(c.node[k].freq), k>> : k \in Cached(c)}
    BY <1>1 DEF AgeAll
<1>3. /\ d.node = [k \in Cached(c) |-> [c.node[k] EXCEPT !.freq = Aged(@)]]
      /\ d.total = c.total /\ Whole(d)
    BY DEF AgeAll, Whole
<1>4. Cached(d) = Cached(c)
    BY <1>3 DEF Cached
<1>5. \A k \in Cached(c) : c.node[k] \in Slots
    BY DEF Agrees
<1>6. \A k \in Cached(c) : d.node[k] \in Slots /\ d.node[k].freq = Aged(c.node[k].freq)
    BY <1>3, <1>5, AgedIsPositive DEF Slots
<1>7. d.node \in [Cached(d) -> Slots]
    BY <1>3, <1>4, <1>6
<1>8. d.lists = {<<d.node[k].freq, k>> : k \in Cached(d)}
    BY <1>2, <1>4, <1>6
<1> QED BY <1>3, <1>4, <1>7, <1>8 DEF Agrees

LEMMA CountAgrees == ASSUME NEW s, NEW c, Agrees(s, c) PROVE Agrees(s, CountAccess(c))
<1> DEFINE counted == [c EXCEPT !.total = @ + 1]
<1>1. Whole(c)
    BY DEF Agrees
<1>2. Whole(counted)
    BY <1>1, WholeExcept
<1>3. counted.node = c.node /\ counted.lists = c.lists
    BY <1>1 DEF Whole
<1> HIDE DEF counted
<1>4. Agrees(s, counted)
    BY <1>2, <1>3, SameIndexes
<1>5. Agrees(s, AgeAll(counted))
    BY <1>4, AgeAgrees
<1> QED BY <1>4, <1>5 DEF CountAccess, counted

\* Nor does minFreq_ matter.
LEMMA MinAgrees ==
    ASSUME NEW s, NEW c, Agrees(s, c), NEW n PROVE Agrees(s, [c EXCEPT !.min = n])
<1> DEFINE d == [c EXCEPT !.min = n]
<1>1. Whole(c)
    BY DEF Agrees
<1>2. Whole(d)
    BY <1>1, WholeExcept
<1>3. d.node = c.node /\ d.lists = c.lists
    BY <1>1 DEF Whole
<1> HIDE DEF d
<1>4. Agrees(s, d)
    BY <1>2, <1>3, SameIndexes
<1> QED BY <1>4 DEF d

LEMMA TouchAgrees ==
    ASSUME NEW s, NEW c, Agrees(s, c), NEW key \in Cached(c)
    PROVE  Agrees(s, Touch(c, key))
<1> DEFINE freq == c.node[key].freq
           d == Promote(c, key)
<1>1. freq \in Nat \ {0}
    BY DEF Agrees, Slots
<1>2. Whole(c)
    BY DEF Agrees
<1>3. /\ d.node = [c.node EXCEPT ![key].freq = freq + 1]
      /\ d.lists = (c.lists \ {<<freq, key>>}) \cup {<<freq + 1, key>>}
    BY <1>2 DEF Promote, Whole
<1>4. Whole(d)
    BY <1>2, WholeExcept DEF Promote
<1> HIDE DEF d
<1>5. Cached(d) = Cached(c)
    BY <1>3 DEF Cached
<1>6. \A k \in Cached(c) :
        d.node[k] \in Slots /\ d.node[k].freq = IF k = key THEN freq + 1 ELSE c.node[k].freq
    BY <1>1, <1>3 DEF Agrees, Slots
<1>7. d.node \in [Cached(d) -> Slots]
    BY <1>3, <1>5, <1>6 DEF Agrees
<1>8. d.lists = {<<d.node[k].freq, k>> : k \in Cached(d)}
    BY <1>1, <1>3, <1>5, <1>6 DEF Agrees
<1>9. Agrees(s, d)
    BY <1>4, <1>5, <1>7, <1>8 DEF Agrees
<1>10. Agrees(s, [d EXCEPT !.min = IF MinListEmptied(d, freq) THEN @ + 1 ELSE @])
    BY <1>9, MinAgrees
<1> QED BY <1>10, CountAgrees DEF Touch, d

LEMMA InsertAgrees ==
    ASSUME NEW s, NEW c, Agrees(s, c), NEW key \in Keys, Slice[key] = s,
           key \notin Cached(c), NEW value \in Values
    PROVE  Agrees(s, Insert(c, key, value))
<1> DEFINE node == [k \in Cached(c) \cup {key} |->
                      IF k = key THEN [freq |-> 1, value |-> value] ELSE c.node[k]]
           d == [c EXCEPT !.node = node, !.lists = @ \cup {<<1, key>>}]
<1>1. Whole(c)
    BY DEF Agrees
<1>2. d.node = node /\ d.lists = c.lists \cup {<<1, key>>}
    BY <1>1 DEF Whole
<1>3. Whole(d)
    BY <1>1, WholeExcept
<1> HIDE DEF d
<1>4. Cached(d) = Cached(c) \cup {key}
    BY <1>2 DEF Cached
<1>5. node \in [Cached(c) \cup {key} -> Slots]
    BY DEF Agrees, Slots
<1>6. \A k \in Cached(c) : node[k] = c.node[k]
    OBVIOUS
<1>7. node[key].freq = 1
    OBVIOUS
<1> HIDE DEF node
<1>8. c.lists = {<<node[k].freq, k>> : k \in Cached(c)}
    BY <1>6 DEF Agrees
<1>9. d.lists = {<<node[k].freq, k>> : k \in Cached(c) \cup {key}}
    BY <1>2, <1>7, <1>8
<1>10. Agrees(s, d)
    BY <1>2, <1>4, <1>5, <1>9, <1>3 DEF Agrees
<1>11. Agrees(s, CountAccess(d))
    BY <1>10, CountAgrees
<1>12. Agrees(s, [CountAccess(d) EXCEPT !.min = IF @ < 1 THEN @ ELSE 1])
    BY <1>11, MinAgrees
<1> QED BY <1>12 DEF Insert, d, node

\* The victim leaves both indexes, and its place is not taken by another node.
LEMMA KickOutAgrees ==
    ASSUME NEW s, NEW c, Agrees(s, c), NEW victim \in Cached(c)
    PROVE  Agrees(s, KickOut(c, victim)) /\ Cached(KickOut(c, victim)) = Cached(c) \ {victim}
<1> DEFINE d == KickOut(c, victim)
<1>1. c.node[victim].freq \in Nat
    BY DEF Agrees, Slots
<1>2. Whole(c)
    BY DEF Agrees
<1>3. /\ d.node = [k \in Cached(c) \ {victim} |-> c.node[k]]
      /\ d.lists = c.lists \ {<<c.node[victim].freq, victim>>}
    BY <1>2 DEF KickOut, Whole
<1>4. Whole(d)
    BY <1>2, WholeExcept DEF KickOut
<1> HIDE DEF d
<1>5. Cached(d) = Cached(c) \ {victim}
    BY <1>3 DEF Cached
<1>6. d.node \in [Cached(d) -> Slots]
    BY <1>3, <1>5 DEF Agrees
<1>7. d.lists = {<<d.node[k].freq, k>> : k \in Cached(d)}
    BY <1>3, <1>5 DEF Agrees
<1>8. Agrees(s, d)
    BY <1>4, <1>5, <1>6, <1>7 DEF Agrees
<1> QED BY <1>5, <1>8 DEF d

LEMMA TailAgrees ==
    ASSUME NEW s, NEW c, Agrees(s, c)
    PROVE  Agrees(s, KickOutTail(c)) /\ Cached(KickOutTail(c)) = Cached(c)
<1> DEFINE d == KickOutTail(c)
<1>1. Whole(c)
    BY DEF Agrees
<1>2. Whole(d)
    BY <1>1, WholeExcept DEF KickOutTail
<1>3. d.node = c.node /\ d.lists = c.lists
    BY <1>1 DEF Whole, KickOutTail
<1> HIDE DEF d
<1>4. Agrees(s, d) /\ Cached(d) = Cached(c)
    BY <1>2, <1>3, SameIndexes DEF Cached
<1> QED BY <1>4 DEF d

-----------------------------------------------------------------------------
(* The operations. *)

\* A slice without nodes.
LEMMA EmptyAgrees ==
    ASSUME NEW s, NEW c, Whole(c), c.node = <<>>, c.lists = {} PROVE Agrees(s, c)
<1>1. DOMAIN <<>> = {} /\ <<>> \in [{} -> Slots]
    OBVIOUS
<1>2. Cached(c) = {}
    BY <1>1 DEF Cached
<1> QED BY <1>1, <1>2 DEF Agrees

LEMMA CacheInvInit == CacheInit => CacheInv
<1>1. Whole(EmptySlice)
    BY Zenon DEF Whole, EmptySlice
<1>2. EmptySlice.node = <<>> /\ EmptySlice.lists = {}
    BY DEF EmptySlice
<1>3. \A s : Agrees(s, EmptySlice)
    BY <1>1, <1>2, EmptyAgrees
<1> QED BY <1>3 DEF CacheInit, CacheInv

\* A step changes one slice.
LEMMA OneSlice ==
    ASSUME CacheInv, NEW s \in SliceIds, NEW c, Agrees(s, c),
           slices' = [slices EXCEPT ![s] = c]
    PROVE  CacheInv'
<1>1. \A t \in SliceIds : slices'[t] = IF t = s THEN c ELSE slices[t]
    BY DEF CacheInv
<1>2. slices' = [t \in SliceIds |-> slices'[t]]
    BY DEF CacheInv
<1>3. \A t \in SliceIds : Agrees(t, slices'[t])
    BY <1>1 DEF CacheInv
<1> QED BY <1>2, <1>3 DEF CacheInv, Agrees, Whole, Cached

LEMMA CacheInvStep == CacheInv /\ [CacheNext]_slices => CacheInv'
<1> SUFFICES ASSUME CacheInv, [CacheNext]_slices PROVE CacheInv'
    OBVIOUS
<1>1. ASSUME NEW key \in Keys, NEW value \in Values, PutAgain(key, value) PROVE CacheInv'
    <2> DEFINE s == Slice[key]
               c == slices[s]
               d == [c EXCEPT !.node[key].value = value]
    <2>1. s \in SliceIds /\ Agrees(s, c) /\ key \in Cached(c)
        BY <1>1, SliceInRange DEF PutAgain, CacheInv
    <2>2. Whole(c)
        BY <2>1 DEF Agrees
    <2>3. d.node = [c.node EXCEPT ![key].value = value] /\ d.lists = c.lists
        BY <2>2 DEF Whole
    <2>4. Whole(d)
        BY <2>2, WholeExcept
    <2>5. slices' = [slices EXCEPT ![s] = Touch(d, key)]
        BY <1>1 DEF PutAgain
    <2> HIDE DEF d
    <2>6. Cached(d) = Cached(c)
        BY <2>3 DEF Cached
    <2>7. \A k \in Cached(c) : d.node[k] \in Slots /\ d.node[k].freq = c.node[k].freq
        BY <2>1, <2>3 DEF Agrees, Slots
    <2>8. Agrees(s, d)
        BY <2>1, <2>3, <2>6, <2>7, <2>4 DEF Agrees
    <2>9. Agrees(s, Touch(d, key))
        BY <2>1, <2>6, <2>8, TouchAgrees
    <2> QED BY <2>1, <2>9, <2>5, OneSlice
<1>2. ASSUME NEW key \in Keys, NEW value \in Values, PutNew(key, value) PROVE CacheInv'
    <2> DEFINE s == Slice[key]
    <2>1. s \in SliceIds /\ Agrees(s, slices[s]) /\ key \notin Cached(slices[s])
        BY <1>2, SliceInRange DEF PutNew, CacheInv
    <2>2. Agrees(s, Insert(slices[s], key, value))
        BY <2>1, InsertAgrees
    <2> QED BY <1>2, <2>1, <2>2, OneSlice DEF PutNew
<1>3. ASSUME NEW key \in Keys, NEW value \in Values, PutEvicting(key, value) PROVE CacheInv'
    <2> DEFINE s == Slice[key]
               c == slices[s]
    <2>1. s \in SliceIds /\ Agrees(s, c) /\ key \notin Cached(c)
        BY <1>3, SliceInRange DEF PutEvicting, CacheInv
    <2>2. PICK room :
            /\ room = KickOutTail(c) \/ \E v \in Listed(c, c.min) : room = KickOut(c, v)
            /\ slices' = [slices EXCEPT ![s] = Insert(room, key, value)]
        BY <1>3 DEF PutEvicting
    <2>3. Agrees(s, KickOutTail(c)) /\ Cached(KickOutTail(c)) = Cached(c)
        BY <2>1, TailAgrees
    <2>4. Listed(c, c.min) \subseteq Cached(c)
        BY <2>1 DEF Listed, Agrees
    <2>5. Agrees(s, room) /\ key \notin Cached(room)
        BY <2>1, <2>2, <2>3, <2>4, KickOutAgrees
    <2>6. Agrees(s, Insert(room, key, value))
        BY <2>5, InsertAgrees
    <2> QED BY <2>1, <2>2, <2>6, OneSlice
<1>4. ASSUME NEW key \in Keys, Get(key) PROVE CacheInv'
    <2>1. Slice[key] \in SliceIds /\ Agrees(Slice[key], slices[Slice[key]])
        BY SliceInRange DEF CacheInv
    <2> QED BY <1>4, <2>1, TouchAgrees, OneSlice DEF Get
<1>5. ASSUME NEW s \in SliceIds, Purge(s) PROVE CacheInv'
    <2> DEFINE c == slices[s]
               d == [c EXCEPT !.node = <<>>, !.lists = {}]
    <2>1. Whole(c)
        BY DEF CacheInv, Agrees
    <2>2. d.node = <<>> /\ d.lists = {}
        BY <2>1 DEF Whole
    <2>3. Whole(d)
        BY <2>1, WholeExcept
    <2>4. slices' = [slices EXCEPT ![s] = d]
        BY <1>5 DEF Purge, CacheInv
    <2> HIDE DEF d
    <2>5. Agrees(s, d)
        BY <2>2, <2>3, EmptyAgrees
    <2> QED BY <2>4, <2>5, OneSlice
<1>6. CASE UNCHANGED slices
    BY <1>6 DEF CacheInv, Agrees, Whole, Cached
<1> QED BY <1>1, <1>2, <1>3, <1>4, <1>5, <1>6 DEF CacheNext

LEMMA CacheInvAlways == CacheSpec => []CacheInv
BY CacheInvInit, CacheInvStep, PTL DEF CacheSpec

\* The index by key and the index by frequency of every slice name the same nodes at the
\* same frequency, through puts, gets, evictions, aging and purges (LFU.h:172-316), and a key
\* is cached in the slice it hashes to only.
THEOREM IndexesAlwaysAgree == CacheSpec => []IndexesAgree
<1>1. CacheInv => IndexesAgree
    BY DEF CacheInv, IndexesAgree, Agrees
<1> QED BY <1>1, CacheInvAlways, PTL

-----------------------------------------------------------------------------
(* The frequencies and their total.                                        *)
(*                                                                         *)
(* The total of a slice is never below the sum of its frequencies (aging   *)
(* only widens the gap), so that an average within the limit bounds the    *)
(* least frequency; and an average beyond the limit ages every node.       *)

\* The sum of the frequencies, as a set to be counted.
Units(c) == {u \in Cached(c) \X Nat : 1 <= u[2] /\ u[2] <= c.node[u[1]].freq}

Least(c, m) ==
    /\ \E k \in Cached(c) : c.node[k].freq = m
    /\ \A k \in Cached(c) : m <= c.node[k].freq

Tallied(c) ==
    /\ c.total \in Nat /\ c.min \in Nat \ {0}
    /\ IsFiniteSet(Units(c)) /\ Cardinality(Units(c)) <= c.total
    /\ Cardinality(Cached(c)) <= SliceSize
    /\ Cached(c) # {} => c.min <= MaxAverage /\ Least(c, c.min)

TallyInv == \A s \in SliceIds : Tallied(slices[s])

\* What the operators need of a slice they are given.
LEMMA SliceIsFinite ==
    ASSUME NEW s, NEW c, Agrees(s, c)
    PROVE  IsFiniteSet(Cached(c)) /\ Cardinality(Cached(c)) \in Nat
<1>1. Cached(c) \subseteq Keys
    BY DEF Agrees
<1>2. IsFiniteSet(Cached(c))
    BY <1>1, FS_Subset, LFUAssumption
<1> QED BY <1>2, FS_CardinalityType

LEMMA FrequencyType ==
    ASSUME NEW s, NEW c, Agrees(s, c), NEW k \in Cached(c)
    PROVE  c.node[k].freq \in Nat \ {0} /\ c.node[k].value \in Values
BY DEF Agrees, Slots

\* Fewer nodes or lower frequencies: no more units.
LEMMA FewerUnits ==
    ASSUME NEW c, NEW d, IsFiniteSet(Units(c)), Cached(d) \subseteq Cached(c),
           \A k \in Cached(d) : /\ c.node[k].freq \in Nat /\ d.node[k].freq \in Nat
                                /\ d.node[k].freq <= c.node[k].freq
    PROVE  /\ IsFiniteSet(Units(d)) /\ Cardinality(Units(d)) \in Nat
           /\ Cardinality(Units(c)) \in Nat /\ Cardinality(Units(d)) <= Cardinality(Units(c))
<1>1. ASSUME NEW u \in Units(d) PROVE u \in Units(c)
    <2>1. u \in Cached(d) \X Nat /\ 1 <= u[2] /\ u[2] <= d.node[u[1]].freq
        BY DEF Units
    <2>2. u \in Cached(c) \X Nat /\ u[1] \in Cached(d) /\ u[2] \in Nat
        BY <2>1
    <2>3. u[2] <= c.node[u[1]].freq
        BY <2>1, <2>2
    <2> QED BY <2>1, <2>2, <2>3 DEF Units
<1>2. Units(d) \in SUBSET Units(c)
    BY <1>1
<1> QED BY <1>2, FS_Subset, FS_CardinalityType

\* As many units for every node as the least frequency has, and more for some.
LEMMA LeastBoundsUnits ==
    ASSUME NEW s, NEW c, Agrees(s, c), NEW m \in Nat \ {0}, Least(c, m), IsFiniteSet(Units(c))
    PROVE  Cardinality(Cached(c)) * m <= Cardinality(Units(c))
<1> DEFINE B == Cached(c) \X (1..m)
<1>1. IsFiniteSet(Cached(c))
    BY SliceIsFinite
<1>2. IsFiniteSet(1..m) /\ Cardinality(1..m) = m
    BY FS_Interval
<1>3. Cardinality(B) = Cardinality(Cached(c)) * m
    BY <1>1, <1>2, FS_Product
<1>4. ASSUME NEW u \in B PROVE u \in Units(c)
    <2>1. u[1] \in Cached(c) /\ u[2] \in 1..m /\ u \in Cached(c) \X Nat
        OBVIOUS
    <2>2. m <= c.node[u[1]].freq /\ c.node[u[1]].freq \in Nat
        BY <2>1, FrequencyType DEF Least
    <2> QED BY <2>1, <2>2 DEF Units
<1>5. B \in SUBSET Units(c)
    BY <1>4
<1>6. Cardinality(B) <= Cardinality(Units(c))
    BY <1>5, FS_Subset
<1> QED BY <1>3, <1>6

-----------------------------------------------------------------------------
(* Aging. *)

LEMMA AgedOrder ==
    /\ \A f \in Nat \ {0} : Aged(f) \in Nat \ {0} /\ Aged(f) <= f
    /\ \A f, g \in Nat \ {0} : f <= g => Aged(f) <= Aged(g)
    /\ 1 < MaxAverage =>
         \A f \in Nat \ {0} : f <= MaxAverage + 1 => Aged(f) <= MaxAverage
<1>1. MaxAverage \div 2 \in Nat /\ (1 < MaxAverage => MaxAverage \div 2 >= 1)
    BY LFUAssumption
<1> QED BY <1>1, LFUAssumption DEF Aged

\* updateMinFreq() finds the least frequency unless it is as great as the sentinel.
LEMMA LeastIsListed ==
    ASSUME NEW s, NEW c, Agrees(s, c), NEW m \in Nat \ {0}, Least(c, m), m < NoMinimum
    PROVE  LeastListed(c.lists) = m
<1> DEFINE F == {NoMinimum} \cup {p[1] : p \in c.lists}
<1>1. \A x \in F : x = NoMinimum \/ \E k \in Cached(c) : x = c.node[k].freq
    BY DEF Agrees
<1>2. \A x \in F : x \in Nat /\ m <= x
    BY <1>1, FrequencyType, LFUAssumption DEF Least
<1>3. m \in F
    <2>1. PICK k \in Cached(c) : c.node[k].freq = m
        BY DEF Least
    <2>2. <<m, k>> \in c.lists
        BY <2>1 DEF Agrees
    <2> QED BY <2>2
<1> HIDE DEF F
<1>4. Min(F) = m
    <2>1. \A x \in F : (\A y \in F : x <= y) => x = m
        BY <1>2, <1>3
    <2>2. m \in F /\ \A y \in F : m <= y
        BY <1>2, <1>3
    <2> QED BY <2>1, <2>2 DEF Min
<1>5. m # NoMinimum
    BY LFUAssumption
<1> QED BY <1>4, <1>5 DEF LeastListed, F

\* The least node stays the least, and is below the limit.
LEMMA AgeKeepsLeast ==
    ASSUME 1 < MaxAverage, MaxAverage < NoMinimum,
           NEW s, NEW c, Agrees(s, c), NEW m \in Nat \ {0}, Least(c, m), m <= MaxAverage + 1
    PROVE  LET d == AgeAll(c) IN
           /\ Cached(d) = Cached(c) /\ d.total = c.total
           /\ \A k \in Cached(c) : /\ d.node[k].freq = Aged(c.node[k].freq)
                                   /\ d.node[k].value = c.node[k].value
           /\ Aged(m) \in Nat \ {0} /\ Aged(m) <= m /\ Aged(m) <= MaxAverage
           /\ Least(d, Aged(m)) /\ d.min = Aged(m)
<1> DEFINE d == AgeAll(c)
<1>1. /\ d.node = [k \in Cached(c) |-> [c.node[k] EXCEPT !.freq = Aged(@)]]
      /\ d.total = c.total /\ d.min = LeastListed(d.lists)
    BY DEF AgeAll
<1>2. Agrees(s, d)
    BY AgeAgrees
<1> HIDE DEF d
<1>3. Cached(d) = Cached(c)
    BY <1>1 DEF Cached
<1>4. \A k \in Cached(c) : /\ d.node[k].freq = Aged(c.node[k].freq)
                            /\ d.node[k].value = c.node[k].value
    <2>1. \A k \in Cached(c) : c.node[k] \in Slots
        BY DEF Agrees
    <2> QED BY <1>1, <2>1 DEF Slots
<1>5. Aged(m) \in Nat \ {0} /\ Aged(m) <= m /\ Aged(m) <= MaxAverage
    BY AgedOrder
<1>6. Least(d, Aged(m))
    <2>1. PICK k \in Cached(c) : c.node[k].freq = m
        BY DEF Least
    <2>2. d.node[k].freq = Aged(m)
        BY <2>1, <1>4
    <2>3. \A j \in Cached(c) : Aged(m) <= d.node[j].freq
        BY <1>4, AgedOrder, FrequencyType DEF Least
    <2> QED BY <2>1, <2>2, <2>3, <1>3 DEF Least
<1>7. Aged(m) < NoMinimum
    BY <1>5, LFUAssumption
<1>8. d.min = Aged(m)
    BY <1>1, <1>2, <1>5, <1>6, <1>7, LeastIsListed
<1> QED BY <1>1, <1>3, <1>4, <1>5, <1>6, <1>8 DEF d

-----------------------------------------------------------------------------
(* Counting an access. *)

\* So often m, at least m times.
LEMMA QuotientBound ==
    ASSUME NEW n \in Nat \ {0}, NEW m \in Nat, NEW t \in Nat, n * m <= t
    PROVE  t \div n \in Nat /\ m <= t \div n
<1> DEFINE q == t \div n
<1>1. q \in Int /\ t = n * q + (t % n) /\ t % n \in 0..(n-1)
    OBVIOUS
<1>2. q \in Nat
    BY <1>1
<1>3. n * m < n * (q + 1)
    BY <1>1
<1> QED BY <1>1, <1>2, <1>3

\* One access more, and unless it ages the slice, an average within the limit: so the least
\* frequency is within the limit, and minFreq_ follows it.
LEMMA CountKeepsLeast ==
    ASSUME 1 < MaxAverage, MaxAverage < NoMinimum,
           NEW s, NEW c, Agrees(s, c), NEW m \in Nat \ {0}, Least(c, m), m <= MaxAverage + 1,
           c.total \in Nat, IsFiniteSet(Units(c)), Cardinality(Units(c)) <= c.total + 1
    PROVE  LET d == CountAccess(c) IN
           /\ Cached(d) = Cached(c) /\ d.total = c.total + 1
           /\ \A k \in Cached(c) : d.node[k].value = c.node[k].value
           /\ IsFiniteSet(Units(d)) /\ Cardinality(Units(d)) <= d.total
           /\ \E n \in Nat \ {0} : /\ n <= m /\ n <= MaxAverage /\ Least(d, n)
                                   /\ d.min = n \/ (d.min = c.min /\ n = m)
<1> DEFINE counted == [c EXCEPT !.total = @ + 1]
           d == CountAccess(c)
           old == AgeAll(counted)
<1>1. Whole(c)
    BY DEF Agrees
<1>2. Whole(counted)
    BY <1>1, WholeExcept
<1>3. counted.node = c.node /\ counted.lists = c.lists /\ counted.min = c.min
      /\ counted.total = c.total + 1
    BY <1>1 DEF Whole
<1>4. d = IF Cached(counted) # {} /\ counted.total \div Cardinality(Cached(counted)) > MaxAverage
          THEN old ELSE counted
    BY <1>3 DEF CountAccess, Cached
<1> HIDE DEF counted, d
<1>5. Agrees(s, counted)
    BY <1>2, <1>3, SameIndexes
<1>6. Cached(counted) = Cached(c) /\ Units(counted) = Units(c) /\ Least(counted, m)
    BY <1>3 DEF Cached, Units, Least
<1>7. Cached(c) # {}
    BY DEF Least
<1>8. CASE counted.total \div Cardinality(Cached(counted)) > MaxAverage
    <2>1. d = old
        BY <1>4, <1>6, <1>7, <1>8
    <2>2. /\ Cached(old) = Cached(counted) /\ old.total = counted.total
          /\ \A k \in Cached(counted) : /\ old.node[k].freq = Aged(counted.node[k].freq)
                                        /\ old.node[k].value = counted.node[k].value
          /\ Aged(m) \in Nat \ {0} /\ Aged(m) <= m /\ Aged(m) <= MaxAverage
          /\ Least(old, Aged(m)) /\ old.min = Aged(m)
        BY <1>5, <1>6, AgeKeepsLeast
    <2> HIDE DEF old
    <2>3. \A k \in Cached(c) : /\ c.node[k].freq \in Nat /\ d.node[k].freq \in Nat
                               /\ d.node[k].freq <= c.node[k].freq
                               /\ d.node[k].value = c.node[k].value
        BY <2>1, <2>2, <1>3, <1>6, FrequencyType, AgedOrder
    <2>4. Cached(d) = Cached(c) /\ d.total = c.total + 1 /\ Least(d, Aged(m)) /\ d.min = Aged(m)
        BY <2>1, <2>2, <1>3, <1>6
    <2>5. /\ IsFiniteSet(Units(d)) /\ Cardinality(Units(d)) \in Nat
          /\ Cardinality(Units(c)) \in Nat /\ Cardinality(Units(d)) <= Cardinality(Units(c))
        BY <2>3, <2>4, FewerUnits
    <2>6. Cardinality(Units(d)) <= d.total
        BY <2>4, <2>5
    <2> QED BY <2>2, <2>3, <2>4, <2>5, <2>6 DEF d
<1>9. CASE ~(counted.total \div Cardinality(Cached(counted)) > MaxAverage)
    <2>1. d = counted
        BY <1>4, <1>9
    <2>2. Cardinality(Cached(c)) * m <= Cardinality(Units(c))
        BY LeastBoundsUnits
    <2>3. Cardinality(Cached(c)) \in Nat /\ Cardinality(Cached(c)) # 0
        BY <1>7, SliceIsFinite, FS_EmptySet
    <2>4. Cardinality(Units(c)) \in Nat
        BY FS_CardinalityType
    <2>5. m <= MaxAverage
        <3>1. ASSUME NEW n \in Nat \ {0}, NEW u \in Nat, NEW t \in Nat,
                     n * m <= u, u <= t + 1, ~((t + 1) \div n > MaxAverage)
              PROVE  m <= MaxAverage
            <4>1. (t + 1) \div n >= m
                <5>1. n * m <= t + 1
                    BY <3>1
                <5> QED BY <5>1, QuotientBound
            <4> QED BY <4>1, <3>1, LFUAssumption
        <3> QED BY <3>1, <2>2, <2>3, <2>4, <1>3, <1>6, <1>9
    <2> QED BY <2>1, <2>5, <1>3, <1>6 DEF d
<1> QED BY <1>8, <1>9

-----------------------------------------------------------------------------
(* The operations on one slice. *)

\* What an access of key leaves of the frequencies before it is counted: one unit more.
LEMMA OneUnitMore ==
    ASSUME NEW s, NEW c, Agrees(s, c), NEW d, NEW key, Cached(d) = Cached(c) \cup {key},
           NEW f \in Nat \ {0}, d.node[key].freq = f,
           f = IF key \in Cached(c) THEN c.node[key].freq + 1 ELSE 1,
           \A k \in Cached(c) \ {key} : d.node[k].freq = c.node[k].freq,
           c.total \in Nat, IsFiniteSet(Units(c)), Cardinality(Units(c)) <= c.total
    PROVE  IsFiniteSet(Units(d)) /\ Cardinality(Units(d)) <= c.total + 1
<1>1. ASSUME NEW u \in Units(d) PROVE u \in Units(c) \cup {<<key, f>>}
    <2>1. u \in Cached(d) \X Nat /\ 1 <= u[2] /\ u[2] <= d.node[u[1]].freq
        BY DEF Units
    <2>2. u = <<u[1], u[2]>> /\ u[1] \in Cached(d) /\ u[2] \in Nat
        BY <2>1
    <2>3. CASE u[1] # key
        <3>1. u[1] \in Cached(c)
            BY <2>2, <2>3
        <3> QED BY <2>1, <2>2, <2>3, <3>1 DEF Units
    <2>4. CASE u[1] = key /\ u[2] = f
        BY <2>2, <2>4
    <2>5. CASE u[1] = key /\ u[2] # f
        <3>1. u[2] < f
            BY <2>1, <2>2, <2>5
        <3>2. key \in Cached(c) /\ f = c.node[key].freq + 1
            BY <2>1, <2>2, <3>1
        <3>3. u[2] <= c.node[u[1]].freq
            BY <3>1, <3>2, <2>2, <2>5, FrequencyType
        <3> QED BY <2>1, <2>2, <2>5, <3>2, <3>3 DEF Units
    <2> QED BY <2>3, <2>4, <2>5
<1>2. Units(d) \in SUBSET (Units(c) \cup {<<key, f>>})
    BY <1>1
<1>3. /\ IsFiniteSet(Units(c) \cup {<<key, f>>})
      /\ Cardinality(Units(c) \cup {<<key, f>>}) <= Cardinality(Units(c)) + 1
      /\ Cardinality(Units(c)) \in Nat
    <2>1. Cardinality(Units(c)) \in Nat
        BY FS_CardinalityType
    <2> DEFINE more == Units(c) \cup {<<key, f>>}
    <2>2. IsFiniteSet(more)
        BY FS_AddElement
    <2>3. Cardinality(more) = IF <<key, f>> \in Units(c) THEN Cardinality(Units(c))
                              ELSE Cardinality(Units(c)) + 1
        BY FS_AddElement
    <2> HIDE DEF more
    <2>4. Cardinality(more) <= Cardinality(Units(c)) + 1
        BY <2>1, <2>3
    <2> QED BY <2>1, <2>2, <2>4 DEF more
<1>4. /\ IsFiniteSet(Units(d))
      /\ Cardinality(Units(d)) <= Cardinality(Units(c) \cup {<<key, f>>})
    BY <1>2, <1>3, FS_Subset
<1>5. Cardinality(Units(d)) \in Nat /\ Cardinality(Units(c) \cup {<<key, f>>}) \in Nat
    BY <1>3, <1>4, FS_CardinalityType
<1> QED BY <1>3, <1>4, <1>5

\* A node moves up by one, and minFreq_ with it when it was the last of the least.
LEMMA TouchTallies ==
    ASSUME 1 < MaxAverage, MaxAverage < NoMinimum,
           NEW s, NEW c, Agrees(s, c), Tallied(c), NEW key \in Cached(c)
    PROVE  LET d == Touch(c, key) IN
           /\ Tallied(d) /\ Cached(d) = Cached(c)
           /\ \A k \in Cached(c) : d.node[k].value = c.node[k].value
<1> DEFINE freq == c.node[key].freq
           p == Promote(c, key)
           q == [p EXCEPT !.min = IF MinListEmptied(p, freq) THEN @ + 1 ELSE @]
           d == CountAccess(q)
<1>1. freq \in Nat \ {0} /\ Cached(c) # {}
    BY FrequencyType
<1>2. Whole(c)
    BY DEF Agrees
<1>3. /\ p.node = [c.node EXCEPT ![key].freq = freq + 1] /\ p.total = c.total /\ p.min = c.min
      /\ p.lists = (c.lists \ {<<freq, key>>}) \cup {<<freq + 1, key>>}
    BY <1>2 DEF Promote, Whole
<1>4. Whole(p)
    BY <1>2, WholeExcept DEF Promote
<1> HIDE DEF p
<1>5. /\ q.node = p.node /\ q.lists = p.lists /\ q.total = p.total
      /\ q.min = IF MinListEmptied(p, freq) THEN c.min + 1 ELSE c.min
    BY <1>3, <1>4 DEF Whole
<1>6. Whole(q)
    BY <1>4, WholeExcept
<1> HIDE DEF q
<1>7. Cached(q) = Cached(c)
    BY <1>3, <1>5 DEF Cached
<1>8. \A k \in Cached(c) :
        /\ q.node[k] \in Slots
        /\ q.node[k].freq = IF k = key THEN freq + 1 ELSE c.node[k].freq
        /\ q.node[k].value = c.node[k].value
    BY <1>1, <1>3, <1>5 DEF Agrees, Slots
<1>9. Agrees(s, q)
    <2>1. q.node \in [Cached(q) -> Slots]
        BY <1>3, <1>5, <1>7, <1>8 DEF Agrees
    <2>2. q.lists = {<<q.node[k].freq, k>> : k \in Cached(q)}
        BY <1>1, <1>3, <1>5, <1>7, <1>8 DEF Agrees
    <2> QED BY <1>6, <1>7, <2>1, <2>2 DEF Agrees
<1>10. q.total = c.total /\ q.total \in Nat
    BY <1>3, <1>5 DEF Tallied
<1>11. IsFiniteSet(Units(q)) /\ Cardinality(Units(q)) <= c.total + 1
    <2>1. Cached(q) = Cached(c) \cup {key} /\ q.node[key].freq = freq + 1 /\ freq + 1 \in Nat \ {0}
        BY <1>1, <1>7, <1>8
    <2>2. \A k \in Cached(c) \ {key} : q.node[k].freq = c.node[k].freq
        BY <1>8
    <2> QED BY <2>1, <2>2, OneUnitMore DEF Tallied
<1>12. c.min \in Nat \ {0} /\ c.min <= MaxAverage /\ Least(c, c.min)
    BY <1>1 DEF Tallied
<1>13. q.min \in Nat \ {0} /\ q.min <= MaxAverage + 1
    BY <1>12, <1>5, LFUAssumption
<1>14. Least(q, q.min)
    <2>1. CASE MinListEmptied(p, freq)
        <3>1. freq = c.min /\ q.min = c.min + 1 /\ Listed(q, freq) = {}
            BY <2>1, <1>3, <1>5 DEF MinListEmptied, Listed
        <3>2. q.node[key].freq = q.min
            BY <3>1, <1>8
        <3>3. \A k \in Cached(q) : q.node[k].freq # freq
            BY <3>1, <1>9 DEF Agrees, Listed
        <3>4. \A k \in Cached(q) : q.min <= q.node[k].freq
            BY <3>1, <3>2, <3>3, <1>7, <1>8, <1>12, FrequencyType DEF Least
        <3> QED BY <3>2, <3>4, <1>7 DEF Least
    <2>2. CASE ~MinListEmptied(p, freq)
        <3>1. q.min = c.min /\ (freq # c.min \/ Listed(q, freq) # {})
            BY <2>2, <1>3, <1>5 DEF MinListEmptied, Listed
        <3>2. \A k \in Cached(q) : q.min <= q.node[k].freq
            BY <3>1, <1>1, <1>7, <1>8, <1>12, FrequencyType DEF Least
        <3>3. CASE freq # c.min
            <4>1. PICK k \in Cached(c) : c.node[k].freq = c.min
                BY <1>12 DEF Least
            <4> QED BY <4>1, <3>1, <3>2, <3>3, <1>7, <1>8 DEF Least
        <3>4. CASE freq = c.min
            <4>1. PICK k \in Cached(q) : q.node[k].freq = freq
                BY <3>1, <3>4, <1>9 DEF Agrees, Listed
            <4> QED BY <4>1, <3>1, <3>2, <3>4 DEF Least
        <3> QED BY <3>3, <3>4
    <2> QED BY <2>1, <2>2
<1>15. /\ Cached(d) = Cached(q) /\ d.total = q.total + 1
       /\ \A k \in Cached(q) : d.node[k].value = q.node[k].value
       /\ IsFiniteSet(Units(d)) /\ Cardinality(Units(d)) <= d.total
       /\ \E n \in Nat \ {0} : /\ n <= q.min /\ n <= MaxAverage /\ Least(d, n)
                               /\ d.min = n \/ (d.min = q.min /\ n = q.min)
    BY <1>9, <1>10, <1>11, <1>13, <1>14, CountKeepsLeast
<1> HIDE DEF d
<1>16. d.min \in Nat \ {0} /\ d.min <= MaxAverage /\ Least(d, d.min)
    BY <1>15
<1>17. Tallied(d)
    BY <1>7, <1>10, <1>15, <1>16 DEF Tallied
<1>18. Touch(c, key) = d
    BY DEF Touch, d, q, p
<1> QED BY <1>7, <1>8, <1>15, <1>17, <1>18

\* A new node is the least, wherever minFreq_ was.
LEMMA InsertTallies ==
    ASSUME 1 < MaxAverage, MaxAverage < NoMinimum,
           NEW s, NEW c, Agrees(s, c), NEW key \in Keys, Slice[key] = s,
           key \notin Cached(c), NEW value \in Values,
           c.total \in Nat, c.min \in Nat \ {0},
           IsFiniteSet(Units(c)), Cardinality(Units(c)) <= c.total,
           Cardinality(Cached(c)) < SliceSize
    PROVE  LET d == Insert(c, key, value) IN
           /\ Tallied(d) /\ Cached(d) = Cached(c) \cup {key}
           /\ \A k \in Cached(d) : d.node[k].value = IF k = key THEN value ELSE c.node[k].value
<1> DEFINE node == [k \in Cached(c) \cup {key} |->
                      IF k = key THEN [freq |-> 1, value |-> value] ELSE c.node[k]]
           p == [c EXCEPT !.node = node, !.lists = @ \cup {<<1, key>>}]
           q == CountAccess(p)
           d == [q EXCEPT !.min = IF @ < 1 THEN @ ELSE 1]
<1>1. Whole(c)
    BY DEF Agrees
<1>2. /\ p.node = node /\ p.lists = c.lists \cup {<<1, key>>}
      /\ p.total = c.total /\ p.min = c.min
    BY <1>1 DEF Whole
<1>3. Whole(p)
    BY <1>1, WholeExcept
<1> HIDE DEF p
<1>4. Cached(p) = Cached(c) \cup {key}
    BY <1>2 DEF Cached
<1>5. \A k \in Cached(p) : /\ p.node[k] \in Slots
                           /\ p.node[k].freq = IF k = key THEN 1 ELSE c.node[k].freq
                           /\ p.node[k].value = IF k = key THEN value ELSE c.node[k].value
    BY <1>2, <1>4 DEF Agrees, Slots
<1>6. Agrees(s, p)
    <2>1. p.node \in [Cached(p) -> Slots]
        BY <1>2, <1>4, <1>5
    <2>2. p.lists = {<<p.node[k].freq, k>> : k \in Cached(p)}
        BY <1>2, <1>4, <1>5 DEF Agrees
    <2> QED BY <1>3, <1>4, <2>1, <2>2 DEF Agrees
<1>7. IsFiniteSet(Units(p)) /\ Cardinality(Units(p)) <= p.total + 1
    <2>1. p.node[key].freq = 1 /\ \A k \in Cached(c) \ {key} : p.node[k].freq = c.node[k].freq
        BY <1>4, <1>5
    <2> QED BY <1>2, <1>4, <2>1, OneUnitMore
<1>8. Least(p, 1)
    BY <1>4, <1>5, <1>6, FrequencyType DEF Least
<1>9. /\ Cached(q) = Cached(p) /\ q.total = p.total + 1
      /\ \A k \in Cached(p) : q.node[k].value = p.node[k].value
      /\ IsFiniteSet(Units(q)) /\ Cardinality(Units(q)) <= q.total
      /\ \E n \in Nat \ {0} : /\ n <= 1 /\ n <= MaxAverage /\ Least(q, n)
                              /\ q.min = n \/ (q.min = p.min /\ n = 1)
    <2>1. 1 \in Nat \ {0} /\ 1 <= MaxAverage + 1 /\ p.total \in Nat
        BY <1>2, LFUAssumption
    <2> QED BY <1>6, <1>7, <1>8, <2>1, CountKeepsLeast
<1>10. Agrees(s, q)
    BY <1>6, CountAgrees
<1> HIDE DEF q
<1>11. q.min \in Nat \ {0} /\ Least(q, 1)
    <2>1. PICK n \in Nat \ {0} : n <= 1 /\ Least(q, n) /\ (q.min = n \/ q.min = p.min)
        BY <1>9
    <2>2. n = 1
        BY <2>1
    <2> QED BY <1>2, <2>1, <2>2
<1>12. d.node = q.node /\ d.total = q.total /\ d.min = 1
    <2>1. Whole(q)
        BY <1>10 DEF Agrees
    <2> QED BY <2>1, <1>11 DEF Whole
<1> HIDE DEF d
<1>13. Cached(d) = Cached(q) /\ Units(d) = Units(q) /\ Least(d, 1)
    BY <1>11, <1>12 DEF Cached, Units, Least
<1>14. Cardinality(Cached(d)) <= SliceSize
    <2>1. Cardinality(Cached(d)) = Cardinality(Cached(c)) + 1
        <3>1. Cached(d) = Cached(c) \cup {key}
            BY <1>4, <1>9, <1>13
        <3>2. IsFiniteSet(Cached(c))
            BY SliceIsFinite
        <3>3. Cardinality(Cached(c) \cup {key}) = Cardinality(Cached(c)) + 1
            BY <3>2, FS_AddElement
        <3> QED BY <3>1, <3>3
    <2>2. Cardinality(Cached(c)) \in Nat /\ SliceSize \in Int
        BY SliceIsFinite, LFUAssumption DEF SliceSize
    <2> QED BY <2>1, <2>2
<1>15. Tallied(d)
    <2>1. d.total \in Nat /\ d.min \in Nat \ {0} /\ d.min <= MaxAverage
        BY <1>2, <1>9, <1>12
    <2> QED BY <2>1, <1>9, <1>12, <1>13, <1>14 DEF Tallied
<1>16. Insert(c, key, value) = d
    BY DEF Insert, d, q, p
<1> QED BY <1>4, <1>5, <1>9, <1>12, <1>13, <1>15, <1>16

\* The victim takes its units out of the total.
LEMMA KickOutTallies ==
    ASSUME NEW s, NEW c, Agrees(s, c), Tallied(c), NEW victim \in Cached(c)
    PROVE  LET d == KickOut(c, victim) IN
           /\ d.total \in Nat /\ d.min = c.min
           /\ IsFiniteSet(Units(d)) /\ Cardinality(Units(d)) <= d.total
           /\ Cardinality(Cached(d)) = Cardinality(Cached(c)) - 1
           /\ \A k \in Cached(c) \ {victim} : d.node[k] = c.node[k]
<1> DEFINE d == KickOut(c, victim)
           freq == c.node[victim].freq
           gone == {victim} \X (1..freq)
<1>1. freq \in Nat \ {0}
    BY FrequencyType
<1>2. /\ d.node = [k \in Cached(c) \ {victim} |-> c.node[k]]
      /\ d.total = c.total - freq /\ d.min = c.min
    BY DEF KickOut, Agrees, Whole
<1> HIDE DEF d, freq
<1>3. Cached(d) = Cached(c) \ {victim} /\ \A k \in Cached(d) : d.node[k] = c.node[k]
    BY <1>2 DEF Cached
<1>4. Cardinality(Cached(d)) = Cardinality(Cached(c)) - 1
    BY <1>3, SliceIsFinite, FS_RemoveElement
<1>5. IsFiniteSet(gone) /\ Cardinality(gone) = freq
    <2>1. IsFiniteSet(1..freq) /\ Cardinality(1..freq) = freq
        BY <1>1, FS_Interval
    <2>2. IsFiniteSet({victim}) /\ Cardinality({victim}) = 1
        BY FS_Singleton
    <2>3. IsFiniteSet(gone) /\ Cardinality(gone) = Cardinality({victim}) * Cardinality(1..freq)
        BY <2>1, <2>2, FS_Product
    <2> QED BY <2>1, <2>2, <2>3, <1>1
<1>6. Units(d) \in SUBSET Units(c) /\ gone \in SUBSET Units(c) /\ Units(d) \cap gone = {}
    <2>1. ASSUME NEW u \in Units(d) PROVE u \in Units(c) /\ u \notin gone
        <3>1. u \in Cached(d) \X Nat /\ 1 <= u[2] /\ u[2] <= d.node[u[1]].freq
            BY DEF Units
        <3>2. u = <<u[1], u[2]>> /\ u[1] \in Cached(d) /\ u[2] \in Nat
            BY <3>1
        <3> QED BY <3>1, <3>2, <1>3 DEF Units
    <2>2. ASSUME NEW u \in gone PROVE u \in Units(c)
        <3>1. u \in Cached(c) \X Nat /\ u[1] = victim /\ u[2] \in 1..freq
            OBVIOUS
        <3> QED BY <3>1, <1>1 DEF Units, freq
    <2> QED BY <2>1, <2>2
<1> HIDE DEF gone
<1>7. IsFiniteSet(Units(c)) /\ Cardinality(Units(c)) <= c.total /\ c.total \in Nat
    BY DEF Tallied
<1>8. IsFiniteSet(Units(d))
    BY <1>6, <1>7, FS_Subset
<1>9. Cardinality(Units(d)) + freq <= Cardinality(Units(c))
    <2>1. Cardinality(Units(d) \cup gone) =
              Cardinality(Units(d)) + Cardinality(gone) - Cardinality(Units(d) \cap gone)
        BY <1>5, <1>8, FS_Union
    <2>2. Cardinality(Units(d) \cap gone) = 0
        BY <1>6, FS_EmptySet
    <2>3. Units(d) \cup gone \in SUBSET Units(c)
        BY <1>6
    <2>4. Cardinality(Units(d) \cup gone) <= Cardinality(Units(c))
        BY <2>3, <1>7, FS_Subset
    <2>5. Cardinality(Units(d)) \in Nat
        BY <1>8, FS_CardinalityType
    <2> QED BY <2>1, <2>2, <2>4, <2>5, <1>1, <1>5
<1>10. Cardinality(Units(d)) \in Nat /\ Cardinality(Units(c)) \in Nat
    BY <1>7, <1>8, FS_CardinalityType
<1>11. d.total \in Nat /\ Cardinality(Units(d)) <= d.total
    BY <1>1, <1>2, <1>7, <1>9, <1>10
<1> QED BY <1>2, <1>3, <1>4, <1>8, <1>11 DEF d

-----------------------------------------------------------------------------
(* The slices together, and what is found in them. *)

LEMMA TallyInvInit == CacheInit => TallyInv
<1>1. /\ EmptySlice.node = <<>> /\ EmptySlice.total = 0 /\ EmptySlice.min = NoMinimum
    BY DEF EmptySlice
<1>2. Cached(EmptySlice) = {}
    BY <1>1 DEF Cached
<1>3. Units(EmptySlice) = {}
    BY <1>2 DEF Units
<1>4. SliceSize \in Nat
    BY LFUAssumption DEF SliceSize
<1>5. Tallied(EmptySlice)
    BY <1>1, <1>2, <1>3, <1>4, FS_EmptySet, LFUAssumption DEF Tallied
<1> QED BY <1>5 DEF CacheInit, TallyInv

LEMMA OneTally ==
    ASSUME CacheInv, TallyInv, NEW s \in SliceIds, NEW c, Tallied(c),
           slices' = [slices EXCEPT ![s] = c]
    PROVE  TallyInv'
<1>1. \A t \in SliceIds : slices'[t] = IF t = s THEN c ELSE slices[t]
    BY DEF CacheInv
<1>2. \A t \in SliceIds : Tallied(slices'[t])
    BY <1>1 DEF TallyInv
<1> QED BY <1>2 DEF TallyInv, Tallied, Units, Least, Cached

\* The two specifications count alike.
LEMMA SameCardinality == \A S : Promised!Cardinality(S) = Cardinality(S)
BY Zenon DEF Promised!Cardinality, Cardinality

LEMMA StoredIsCached ==
    ASSUME CacheInv
    PROVE  /\ \A k \in Keys : k \in DOMAIN Contents <=> k \in Cached(slices[Slice[k]])
           /\ \A k \in DOMAIN Contents : /\ k \in Keys /\ Slice[k] \in SliceIds
                                         /\ Contents[k] = slices[Slice[k]].node[k].value
           /\ \A s \in SliceIds : Promised!Stored(s) = Cached(slices[s])
<1>1. \A k \in Keys : k \in DOMAIN Contents <=> k \in Cached(slices[Slice[k]])
    BY DEF Contents
<1>2. \A k \in DOMAIN Contents : /\ k \in Keys /\ Slice[k] \in SliceIds
                                 /\ Contents[k] = slices[Slice[k]].node[k].value
    BY SliceInRange DEF Contents
<1>3. ASSUME NEW s \in SliceIds PROVE Promised!Stored(s) = Cached(slices[s])
    <2>1. Cached(slices[s]) \subseteq {k \in Keys : Slice[k] = s}
        BY DEF CacheInv, Agrees
    <2> QED BY <2>1, <1>1, <1>2 DEF Promised!Stored
<1> QED BY <1>1, <1>2, <1>3

\* What is found after a step of one slice.
LEMMA FoundAfter ==
    ASSUME CacheInv, NEW s \in SliceIds, NEW c, slices' = [slices EXCEPT ![s] = c],
           NEW D, \A k \in Keys : k \in D <=> IF Slice[k] = s THEN k \in Cached(c)
                                              ELSE k \in DOMAIN Contents,
           D \subseteq Keys
    PROVE  Contents' = [k \in D |-> IF Slice[k] = s THEN c.node[k].value ELSE Contents[k]]
<1> DEFINE found == {x \in Keys : x \in Cached(slices'[Slice[x]])}
<1>1. \A t \in SliceIds : slices'[t] = IF t = s THEN c ELSE slices[t]
    BY DEF CacheInv
<1>2. \A k \in Keys : slices'[Slice[k]] = IF Slice[k] = s THEN c ELSE slices[Slice[k]]
    BY <1>1, SliceInRange
<1>3. Contents' = [k \in found |-> slices'[Slice[k]].node[k].value]
    BY DEF Contents, Cached
<1>4. found = D
    BY <1>2, StoredIsCached
<1>5. \A k \in D : slices'[Slice[k]].node[k].value =
                      IF Slice[k] = s THEN c.node[k].value ELSE Contents[k]
    BY <1>2, StoredIsCached
<1> HIDE DEF found
<1> QED BY <1>3, <1>4, <1>5

\* getInternal(): nothing is stored and nothing is lost.
LEMMA GetFinds ==
    ASSUME 1 < MaxAverage, MaxAverage < NoMinimum, CacheInv, TallyInv,
           NEW key \in Keys, Get(key)
    PROVE  TallyInv' /\ UNCHANGED Contents
<1> DEFINE s == Slice[key]
           c == slices[s]
           d == Touch(c, key)
<1>1. s \in SliceIds /\ Agrees(s, c) /\ Tallied(c) /\ key \in Cached(c)
    BY SliceInRange DEF Get, CacheInv, TallyInv
<1>2. /\ Tallied(d) /\ Cached(d) = Cached(c)
      /\ \A k \in Cached(c) : d.node[k].value = c.node[k].value
    BY <1>1, TouchTallies
<1>3. slices' = [slices EXCEPT ![s] = d]
    BY DEF Get
<1> HIDE DEF d
<1>4. TallyInv'
    BY <1>1, <1>2, <1>3, OneTally
<1>5. Contents' = [k \in DOMAIN Contents |-> IF Slice[k] = s THEN d.node[k].value ELSE Contents[k]]
    <2>1. DOMAIN Contents \subseteq Keys
        BY StoredIsCached
    <2>2. \A k \in Keys : k \in DOMAIN Contents <=> IF Slice[k] = s THEN k \in Cached(d)
                                                   ELSE k \in DOMAIN Contents
        BY <1>2, StoredIsCached
    <2> QED BY <1>1, <1>3, <2>1, <2>2, FoundAfter
<1>6. \A k \in DOMAIN Contents :
          (IF Slice[k] = s THEN d.node[k].value ELSE Contents[k]) = Contents[k]
    BY <1>2, StoredIsCached
<1>7. Contents = [k \in DOMAIN Contents |-> Contents[k]]
    BY DEF Contents
<1> QED BY <1>4, <1>5, <1>6, <1>7

\* A put() under a key that is cached replaces its value.
LEMMA PutAgainFinds ==
    ASSUME 1 < MaxAverage, MaxAverage < NoMinimum, CacheInv, TallyInv,
           NEW key \in Keys, NEW value \in Values, PutAgain(key, value)
    PROVE  TallyInv' /\ Promised!Replace(key, value)
<1> DEFINE s == Slice[key]
           c == slices[s]
           p == [c EXCEPT !.node[key].value = value]
           d == Touch(p, key)
<1>1. s \in SliceIds /\ Agrees(s, c) /\ Tallied(c) /\ key \in Cached(c)
    BY SliceInRange DEF PutAgain, CacheInv, TallyInv
<1>2. Whole(c)
    BY <1>1 DEF Agrees
<1>3. /\ p.node = [c.node EXCEPT ![key].value = value] /\ p.lists = c.lists
      /\ p.total = c.total /\ p.min = c.min
    BY <1>2 DEF Whole
<1>4. Whole(p)
    BY <1>2, WholeExcept
<1>5. slices' = [slices EXCEPT ![s] = d]
    BY DEF PutAgain
<1> HIDE DEF p
<1>6. Cached(p) = Cached(c)
    BY <1>3 DEF Cached
<1>7. \A k \in Cached(c) :
        /\ p.node[k] \in Slots /\ p.node[k].freq = c.node[k].freq
        /\ p.node[k].value = IF k = key THEN value ELSE c.node[k].value
    BY <1>1, <1>3 DEF Agrees, Slots
<1>8. Agrees(s, p)
    <2>1. Cached(p) \subseteq {k \in Keys : Slice[k] = s}
        BY <1>1, <1>6 DEF Agrees
    <2>2. p.node \in [Cached(p) -> Slots]
        <3>1. c.node \in [Cached(c) -> Slots]
            BY <1>1 DEF Agrees
        <3>2. p.node = [k \in Cached(c) |-> p.node[k]]
            BY <1>3, <3>1
        <3> QED BY <1>6, <1>7, <3>2
    <2>3. p.lists = {<<p.node[k].freq, k>> : k \in Cached(p)}
        <3>1. p.lists = {<<c.node[k].freq, k>> : k \in Cached(c)}
            BY <1>1, <1>3 DEF Agrees
        <3> QED BY <1>6, <1>7, <3>1
    <2> QED BY <1>4, <2>1, <2>2, <2>3 DEF Agrees
<1>9. Units(p) = Units(c) /\ (Least(c, c.min) => Least(p, c.min))
    BY <1>6, <1>7 DEF Units, Least
<1>10. Tallied(p)
    BY <1>1, <1>3, <1>6, <1>9 DEF Tallied
<1>11. /\ Tallied(d) /\ Cached(d) = Cached(c)
       /\ \A k \in Cached(c) : d.node[k].value = IF k = key THEN value ELSE c.node[k].value
    <2>1. /\ Tallied(d) /\ Cached(d) = Cached(p)
          /\ \A k \in Cached(p) : d.node[k].value = p.node[k].value
        BY <1>1, <1>6, <1>8, <1>10, TouchTallies
    <2> QED BY <2>1, <1>6, <1>7
<1> HIDE DEF d
<1>12. TallyInv'
    BY <1>1, <1>5, <1>11, OneTally
<1>13. Contents' = [k \in DOMAIN Contents |-> IF Slice[k] = s THEN d.node[k].value ELSE Contents[k]]
    <2>1. DOMAIN Contents \subseteq Keys
        BY StoredIsCached
    <2>2. \A k \in Keys : k \in DOMAIN Contents <=> IF Slice[k] = s THEN k \in Cached(d)
                                                   ELSE k \in DOMAIN Contents
        BY <1>11, StoredIsCached
    <2> QED BY <1>1, <1>5, <2>1, <2>2, FoundAfter
<1>14. key \in DOMAIN Contents
    BY <1>1, StoredIsCached
<1>15. \A k \in DOMAIN Contents : (IF Slice[k] = s THEN d.node[k].value ELSE Contents[k]) =
                                      IF k = key THEN value ELSE Contents[k]
    BY <1>11, StoredIsCached
<1>16. Promised!With(DOMAIN Contents, key, value) =
           [k \in DOMAIN Contents |-> IF k = key THEN value ELSE Contents[k]]
    BY <1>14 DEF Promised!With
<1> QED BY <1>12, <1>13, <1>14, <1>15, <1>16 DEF Promised!Replace

\* A new key where a slice has room.
LEMMA PutNewFinds ==
    ASSUME 1 < MaxAverage, MaxAverage < NoMinimum, CacheInv, TallyInv,
           NEW key \in Keys, NEW value \in Values, PutNew(key, value)
    PROVE  TallyInv' /\ Promised!Add(key, value)
<1> DEFINE s == Slice[key]
           c == slices[s]
           d == Insert(c, key, value)
<1>1. /\ s \in SliceIds /\ Agrees(s, c) /\ Tallied(c) /\ key \notin Cached(c)
      /\ Cardinality(Cached(c)) # SliceSize
    BY SliceInRange DEF PutNew, Full, CacheInv, TallyInv
<1>2. Cardinality(Cached(c)) < SliceSize
    <2>1. Cardinality(Cached(c)) \in Nat /\ SliceSize \in Int
        BY <1>1, SliceIsFinite, LFUAssumption DEF SliceSize
    <2>2. Cardinality(Cached(c)) <= SliceSize
        BY <1>1 DEF Tallied
    <2> QED BY <2>1, <2>2, <1>1
<1>3. /\ Tallied(d) /\ Cached(d) = Cached(c) \cup {key}
      /\ \A k \in Cached(d) : d.node[k].value = IF k = key THEN value ELSE c.node[k].value
    BY <1>1, <1>2, InsertTallies DEF Tallied
<1>4. slices' = [slices EXCEPT ![s] = d]
    BY DEF PutNew
<1> HIDE DEF d
<1>5. TallyInv'
    BY <1>1, <1>3, <1>4, OneTally
<1> DEFINE D == DOMAIN Contents \cup {key}
<1>6. Contents' = [k \in D |-> IF Slice[k] = s THEN d.node[k].value ELSE Contents[k]]
    <2>1. D \subseteq Keys
        BY StoredIsCached
    <2>2. \A k \in Keys : k \in D <=> IF Slice[k] = s THEN k \in Cached(d)
                                     ELSE k \in DOMAIN Contents
        BY <1>3, StoredIsCached
    <2> HIDE DEF D
    <2> QED BY <1>1, <1>4, <2>1, <2>2, FoundAfter
<1>7. key \notin DOMAIN Contents
    BY <1>1, StoredIsCached
<1>8. \A k \in D : (IF Slice[k] = s THEN d.node[k].value ELSE Contents[k]) =
                       IF k = key THEN value ELSE Contents[k]
    BY <1>3, StoredIsCached
<1>9. Contents' = Promised!With(DOMAIN Contents, key, value)
    BY <1>6, <1>8 DEF Promised!With
<1>10. Promised!Cardinality(Promised!Stored(Slice[key])) < SliceSize
    BY <1>1, <1>2, StoredIsCached, SameCardinality
<1> QED BY <1>5, <1>7, <1>9, <1>10 DEF Promised!Add

\* A new key where a slice is full: minFreq_ leads kickOut() to a node.
LEMMA PutEvictingFinds ==
    ASSUME 1 < MaxAverage, MaxAverage < NoMinimum, CacheInv, TallyInv,
           NEW key \in Keys, NEW value \in Values, PutEvicting(key, value)
    PROVE  TallyInv' /\ Promised!GiveUp(key, value)
<1> DEFINE s == Slice[key]
           c == slices[s]
<1>1. /\ s \in SliceIds /\ Agrees(s, c) /\ Tallied(c) /\ key \notin Cached(c)
      /\ Cardinality(Cached(c)) = SliceSize /\ SliceSize # 0
    BY SliceInRange DEF PutEvicting, Full, CacheInv, TallyInv
<1>2. Cached(c) # {}
    BY <1>1, FS_EmptySet
<1>3. Listed(c, c.min) # {} /\ Listed(c, c.min) \subseteq Cached(c)
    <2>1. PICK k \in Cached(c) : c.node[k].freq = c.min
        BY <1>1, <1>2 DEF Tallied, Least
    <2>2. k \in Listed(c, c.min)
        BY <1>1, <2>1 DEF Listed, Agrees
    <2> QED BY <1>1, <2>2 DEF Listed, Agrees
<1>4. PICK lost \in Cached(c) :
            slices' = [slices EXCEPT ![s] = Insert(KickOut(c, lost), key, value)]
    BY <1>3 DEF PutEvicting
<1> DEFINE room == KickOut(c, lost)
           d == Insert(room, key, value)
<1>5. /\ Agrees(s, room) /\ Cached(room) = Cached(c) \ {lost}
      /\ room.total \in Nat /\ room.min = c.min
      /\ IsFiniteSet(Units(room)) /\ Cardinality(Units(room)) <= room.total
      /\ Cardinality(Cached(room)) = Cardinality(Cached(c)) - 1
      /\ \A k \in Cached(c) \ {lost} : room.node[k] = c.node[k]
    BY <1>1, KickOutAgrees, KickOutTallies
<1> HIDE DEF room
<1>6. Cardinality(Cached(room)) < SliceSize
    BY <1>1, <1>5, SliceIsFinite
<1>7. /\ Tallied(d) /\ Cached(d) = Cached(room) \cup {key}
      /\ \A k \in Cached(d) : d.node[k].value = IF k = key THEN value ELSE room.node[k].value
    <2>1. key \notin Cached(room) /\ room.min \in Nat \ {0}
        BY <1>1, <1>5 DEF Tallied
    <2>2. /\ Tallied(d) /\ Cached(d) = Cached(room) \cup {key}
          /\ \A k \in Cached(d) :
               d.node[k].value = IF k = key THEN value ELSE room.node[k].value
        <3>1. /\ Agrees(s, room) /\ Slice[key] = s /\ key \notin Cached(room)
              /\ room.total \in Nat /\ room.min \in Nat \ {0}
              /\ IsFiniteSet(Units(room)) /\ Cardinality(Units(room)) <= room.total
              /\ Cardinality(Cached(room)) < SliceSize
            BY <2>1, <1>5, <1>6
        <3> HIDE DEF s, c
        <3> QED BY <3>1, InsertTallies
    <2> QED BY <2>2
<1>8. slices' = [slices EXCEPT ![s] = d]
    BY <1>4 DEF room
<1> HIDE DEF d
<1>9. TallyInv'
    BY <1>1, <1>7, <1>8, OneTally
<1> DEFINE D == (DOMAIN Contents \ {lost}) \cup {key}
<1>10. lost \in Keys /\ Slice[lost] = s /\ lost # key /\ key \notin DOMAIN Contents
    BY <1>1, StoredIsCached DEF Agrees
<1>11. Contents' = [k \in D |-> IF Slice[k] = s THEN d.node[k].value ELSE Contents[k]]
    <2>1. D \subseteq Keys
        BY StoredIsCached
    <2>2. \A k \in Keys : k \in D <=> IF Slice[k] = s THEN k \in Cached(d)
                                     ELSE k \in DOMAIN Contents
        BY <1>5, <1>7, <1>10, StoredIsCached
    <2> HIDE DEF D
    <2> QED BY <1>1, <1>8, <2>1, <2>2, FoundAfter
<1>12. \A k \in D : (IF Slice[k] = s THEN d.node[k].value ELSE Contents[k]) =
                       IF k = key THEN value ELSE Contents[k]
    BY <1>5, <1>7, StoredIsCached
<1>13. Contents' = Promised!With(DOMAIN Contents \ {lost}, key, value)
    BY <1>11, <1>12 DEF Promised!With
<1>14. /\ Promised!Stored(Slice[key]) = Cached(c)
       /\ Promised!Cardinality(Promised!Stored(Slice[key])) = SliceSize
    BY <1>1, StoredIsCached, SameCardinality
<1> QED BY <1>1, <1>9, <1>10, <1>13, <1>14 DEF Promised!GiveUp

LEMMA PurgeFinds ==
    ASSUME CacheInv, TallyInv, NEW s \in SliceIds, Purge(s)
    PROVE  TallyInv' /\ Promised!Clear(s)
<1> DEFINE c == slices[s]
           d == [c EXCEPT !.node = <<>>, !.lists = {}]
<1>1. Whole(c) /\ Tallied(c)
    BY DEF CacheInv, TallyInv, Agrees
<1>2. d.node = <<>> /\ d.total = c.total /\ d.min = c.min
    BY <1>1 DEF Whole
<1>3. slices' = [slices EXCEPT ![s] = d]
    BY DEF Purge, CacheInv
<1> HIDE DEF d
<1>4. Cached(d) = {}
    BY <1>2 DEF Cached
<1>5. Units(d) = {}
    BY <1>4 DEF Units
<1>6. SliceSize \in Nat
    BY LFUAssumption DEF SliceSize
<1>7. Tallied(d)
    BY <1>1, <1>2, <1>4, <1>5, <1>6, FS_EmptySet DEF Tallied
<1>8. TallyInv'
    BY <1>3, <1>7, OneTally
<1> DEFINE D == DOMAIN Contents \ Promised!Stored(s)
<1>9. Contents' = [k \in D |-> IF Slice[k] = s THEN d.node[k].value ELSE Contents[k]]
    <2>1. D \subseteq Keys
        BY StoredIsCached
    <2>2. \A k \in Keys : k \in D <=> IF Slice[k] = s THEN k \in Cached(d)
                                     ELSE k \in DOMAIN Contents
        BY <1>4, StoredIsCached DEF Promised!Stored
    <2> HIDE DEF D
    <2> QED BY <1>3, <2>1, <2>2, FoundAfter
<1>10. \A k \in D : Slice[k] # s
    BY DEF Promised!Stored
<1> QED BY <1>8, <1>9, <1>10 DEF Promised!Clear

LEMMA TallyStep ==
    ASSUME 1 < MaxAverage, MaxAverage < NoMinimum, CacheInv, TallyInv, [CacheNext]_slices
    PROVE  TallyInv' /\ [Promised!Next]_Contents
<1>1. ASSUME NEW key \in Keys, Get(key) PROVE TallyInv' /\ [Promised!Next]_Contents
    BY <1>1, GetFinds
<1>2. ASSUME NEW key \in Keys, NEW value \in Values, PutAgain(key, value)
      PROVE  TallyInv' /\ [Promised!Next]_Contents
    BY <1>2, PutAgainFinds DEF Promised!Next
<1>3. ASSUME NEW key \in Keys, NEW value \in Values, PutNew(key, value)
      PROVE  TallyInv' /\ [Promised!Next]_Contents
    BY <1>3, PutNewFinds DEF Promised!Next
<1>4. ASSUME NEW key \in Keys, NEW value \in Values, PutEvicting(key, value)
      PROVE  TallyInv' /\ [Promised!Next]_Contents
    BY <1>4, PutEvictingFinds DEF Promised!Next
<1>5. ASSUME NEW s \in SliceIds, Purge(s) PROVE TallyInv' /\ [Promised!Next]_Contents
    BY <1>5, PurgeFinds DEF Promised!Next
<1>6. CASE UNCHANGED slices
    BY <1>6 DEF TallyInv, Tallied, Units, Least, Cached, Contents
<1> QED BY <1>1, <1>2, <1>3, <1>4, <1>5, <1>6 DEF CacheNext

LEMMA NothingFoundFirst == CacheInit => Contents = <<>>
<1> SUFFICES ASSUME CacheInit PROVE Contents = <<>>
    OBVIOUS
<1>1. \A k \in Keys : k \notin Cached(slices[Slice[k]])
    BY SliceInRange DEF CacheInit, EmptySlice, Cached
<1>2. {x \in Keys : x \in Cached(slices[Slice[x]])} = {}
    BY <1>1
<1> QED BY <1>2 DEF Contents

\* While the limit of the average is at least 2 and below INT8_MAX (it is 10 unless given,
\* LFU.h:92), minFreq_ is the least frequency in use and a list of a node leads there, so that
\* kickOut() (LFU.h:210-216) finds a least frequently used node: through ties, promotions,
\* evictions, purges that leave minFreq_ stale, and aging that never lowers curTotalFreq_.
THEOREM MinFreqStaysLeast ==
    ASSUME 1 < MaxAverage, MaxAverage < NoMinimum
    PROVE  CacheSpec => []MinFreqIsLeast
<1>1. CacheInit => TallyInv
    BY TallyInvInit
<1>2. CacheInv /\ TallyInv /\ [CacheNext]_slices => TallyInv'
    BY TallyStep
<1>3. CacheInv /\ TallyInv => MinFreqIsLeast
    <2> SUFFICES ASSUME CacheInv, TallyInv, NEW s \in SliceIds, Cached(slices[s]) # {}
                 PROVE  LET c == slices[s] IN
                        /\ c.min < NoMinimum /\ Listed(c, c.min) # {}
                        /\ \A k \in Cached(c) : c.min <= c.node[k].freq
        BY DEF MinFreqIsLeast
    <2> DEFINE c == slices[s]
    <2>1. Agrees(s, c) /\ c.min \in Nat /\ c.min <= MaxAverage /\ Least(c, c.min)
        BY DEF CacheInv, TallyInv, Tallied
    <2>2. PICK k \in Cached(c) : c.node[k].freq = c.min
        BY <2>1 DEF Least
    <2>3. k \in Listed(c, c.min)
        BY <2>1, <2>2 DEF Agrees, Listed
    <2> QED BY <2>1, <2>3, LFUAssumption DEF Least
<1> QED BY <1>1, <1>2, <1>3, CacheInvAlways, PTL DEF CacheSpec

\* With such a limit, the sliced cache does what a cache promises (LFU.h:100-145, 321-362):
\* get() finds what the last put() of the key stored, a put() into a full slice costs exactly
\* one other entry of that slice, and nothing else but a purge() costs any.
THEOREM CacheKeepsItsPromise ==
    ASSUME 1 < MaxAverage, MaxAverage < NoMinimum
    PROVE  CacheSpec => ImplementsCache
<1>1. CacheInit => TallyInv /\ Promised!Init
    BY TallyInvInit, NothingFoundFirst DEF Promised!Init
<1>2. CacheInv /\ TallyInv /\ [CacheNext]_slices => TallyInv' /\ [Promised!Next]_Contents
    BY TallyStep
<1> QED BY <1>1, <1>2, CacheInvAlways, PTL DEF CacheSpec, ImplementsCache, Promised!Spec

-----------------------------------------------------------------------------
(* The input buffer (Buffer). *)

\* The indices are in order within the vector, none has left the range of size_t, and every
\* place of the vector has a byte.
Sound(b) ==
    /\ {b.size, b.reader, b.writer} \subseteq Nat
    /\ b = [size |-> b.size, bytes |-> b.bytes, reader |-> b.reader, writer |-> b.writer]
    /\ b.bytes = [i \in 0..(b.size - 1) |-> b.bytes[i]]
    /\ CheapPrepend <= b.reader /\ b.reader <= b.writer /\ b.writer <= b.size
    /\ b.size < Modulus

\* The readable bytes are numbered on from `first`.
Numbered(b, first) == \A i \in b.reader..(b.writer - 1) : b.bytes[i] = first + (i - b.reader)

\* Behind the prepend area a buffer has used no more places than it has got bytes: it starts
\* again at the front whenever it is empty. So a vector that grows stays within the range.
BufferInv ==
    /\ added \in Nat /\ taken \in Nat /\ added <= MaxAdded
    /\ fault \in {"none", "read"}
    /\ fault = "none" =>
        /\ Sound(buf) /\ Numbered(buf, taken + 1)
        /\ taken + (buf.writer - buf.reader) = added
        /\ buf.writer <= CheapPrepend + added
        /\ buf.size <= CheapPrepend + InitialBytes + MaxAdded

LEMMA WithinRange == \A n \in Nat : n < Modulus => n % Modulus = n
BY BufferAssumption

LEMMA SoundFacts ==
    ASSUME NEW b, Sound(b)
    PROVE  /\ b.size \in Nat /\ b.reader \in Nat /\ b.writer \in Nat
           /\ Readable(b) = b.writer - b.reader /\ Writable(b) = b.size - b.writer
           /\ Readable(b) \in Nat /\ Writable(b) \in Nat
           /\ DOMAIN b.bytes = 0..(b.size - 1)
           /\ CheapPrepend \in Nat /\ CheapPrepend <= b.reader /\ b.reader <= b.writer
           /\ b.writer <= b.size /\ b.size < Modulus /\ Modulus \in Nat
<1>1. b.size \in Nat /\ b.reader \in Nat /\ b.writer \in Nat
    BY DEF Sound
<1>2. /\ b.writer - b.reader \in Nat /\ b.writer - b.reader < Modulus
      /\ b.size - b.writer \in Nat /\ b.size - b.writer < Modulus
    <2>1. /\ CheapPrepend <= b.reader /\ b.reader <= b.writer
          /\ b.writer <= b.size /\ b.size < Modulus
        BY DEF Sound
    <2> QED BY <1>1, <2>1, BufferAssumption
<1>3. Readable(b) = b.writer - b.reader /\ Writable(b) = b.size - b.writer
    BY <1>2, WithinRange DEF Readable, Writable
<1>4. DOMAIN b.bytes = 0..(b.size - 1)
    <2>1. DOMAIN [i \in 0..(b.size - 1) |-> b.bytes[i]] = 0..(b.size - 1)
        OBVIOUS
    <2> QED BY <2>1 DEF Sound
<1>5. /\ CheapPrepend \in Nat /\ CheapPrepend <= b.reader /\ b.reader <= b.writer
      /\ b.writer <= b.size /\ b.size < Modulus /\ Modulus \in Nat
    BY BufferAssumption DEF Sound
<1> QED BY <1>1, <1>2, <1>3, <1>4, <1>5

LEMMA SoundMade ==
    ASSUME NEW c, c.size \in Nat, c.reader \in Nat, c.writer \in Nat,
           c.bytes = [i \in 0..(c.size - 1) |-> c.bytes[i]],
           c = [size |-> c.size, bytes |-> c.bytes, reader |-> c.reader, writer |-> c.writer],
           CheapPrepend <= c.reader, c.reader <= c.writer, c.writer <= c.size,
           c.size < Modulus
    PROVE  Sound(c)
BY DEF Sound

\* ensureWritableBytes() makes room and keeps the readable bytes, whether it has to do
\* nothing, grow the vector or move them to the front: so its assert holds.
LEMMA RoomIsMade ==
    ASSUME NEW b, Sound(b), NEW len \in Nat, NEW first \in Nat, Numbered(b, first),
           b.writer + len < Modulus, len + CheapPrepend < Modulus
    PROVE  LET r == WithRoom(b, len) IN
           /\ Sound(r) /\ Numbered(r, first) /\ HasRoom(b, len)
           /\ r.writer - r.reader = b.writer - b.reader
           /\ r.writer <= b.writer /\ r.writer + len <= r.size
           /\ r.size <= b.size \/ r.size <= b.writer + len
<1> DEFINE r == WithRoom(b, len)
           P(c) == /\ Sound(c) /\ Numbered(c, first)
                   /\ c.writer - c.reader = b.writer - b.reader
                   /\ c.writer <= b.writer /\ c.writer + len <= c.size
                   /\ c.size <= b.size \/ c.size <= b.writer + len
<1>1. /\ b.size \in Nat /\ b.reader \in Nat /\ b.writer \in Nat /\ CheapPrepend \in Nat
      /\ Readable(b) = b.writer - b.reader /\ Writable(b) = b.size - b.writer
      /\ CheapPrepend <= b.reader /\ b.reader <= b.writer /\ b.writer <= b.size
      /\ b.size < Modulus /\ Modulus \in Nat
    BY SoundFacts
<1>2. CASE len <= Writable(b)
    <2>1. r = b
        BY <1>2 DEF WithRoom
    <2> QED BY <2>1, <1>2, SoundFacts DEF HasRoom
<1>3. CASE ~(len <= Writable(b)) /\ TooSmall(b, len)
    <2>1. r = Enlarged(b, len)
        BY <1>3 DEF WithRoom
    <2>2. (b.writer + len) % Modulus = b.writer + len
        <3>1. b.writer + len \in Nat
            BY <1>1
        <3> QED BY <3>1, WithinRange
    <2>3. /\ r.size = b.writer + len /\ r.reader = b.reader /\ r.writer = b.writer
          /\ r.bytes = [i \in 0..(r.size - 1) |-> IF i < b.size THEN b.bytes[i] ELSE Blank]
          /\ r = [size |-> r.size, bytes |-> r.bytes, reader |-> r.reader, writer |-> r.writer]
        BY <2>1, <2>2 DEF Enlarged, Sound
    <2> HIDE DEF r
    <2>4. r.bytes = [i \in 0..(r.size - 1) |-> r.bytes[i]]
        BY <2>3
    <2>5. r.size = b.writer + len /\ r.reader = b.reader /\ r.writer = b.writer
        BY <2>3
    <2>6. b.size - b.writer < len
        BY <1>1, <1>3
    <2>7. Sound(r)
        <3>1. /\ r.size \in Nat /\ r.reader \in Nat /\ r.writer \in Nat
              /\ CheapPrepend <= r.reader /\ r.reader <= r.writer /\ r.writer <= r.size
              /\ r.size < Modulus
            BY <2>5, <1>1
        <3> QED BY <2>3, <2>4, <3>1, SoundMade
    <2>8. Numbered(r, first)
        <3> SUFFICES ASSUME NEW i \in b.reader..(b.writer - 1)
                     PROVE  r.bytes[i] = first + (i - b.reader)
            BY <2>3 DEF Numbered
        <3>1. i \in 0..(r.size - 1) /\ i < b.size
            BY <2>5, <2>6, <1>1
        <3>2. r.bytes[i] = b.bytes[i]
            BY <2>3, <3>1
        <3> QED BY <3>2 DEF Numbered
    <2>9. P(r)
        BY <2>5, <2>6, <2>7, <2>8, <1>1
    <2>10. Writable(r) >= len
        <3>1. Writable(r) = r.size - r.writer
            BY <2>7, SoundFacts
        <3> QED BY <3>1, <2>5, <1>1
    <2> QED BY <2>9, <2>10 DEF HasRoom, r
<1>4. CASE ~(len <= Writable(b)) /\ ~TooSmall(b, len)
    <2>1. r = MovedToFront(b)
        BY <1>4 DEF WithRoom
    <2>2. (len + CheapPrepend) % Modulus = len + CheapPrepend
        <3>1. len + CheapPrepend \in Nat
            BY <1>1
        <3> QED BY <3>1, WithinRange
    <2>3. b.size - b.writer + b.reader >= len + CheapPrepend
        BY <1>1, <1>4, <2>2 DEF TooSmall
    <2> DEFINE end == CheapPrepend + (b.writer - b.reader)
    <2>4. /\ r.size = b.size /\ r.reader = CheapPrepend /\ r.writer = end
          /\ r.bytes = [i \in 0..(b.size - 1) |->
                          IF CheapPrepend <= i /\ i < end
                          THEN b.bytes[i - CheapPrepend + b.reader] ELSE b.bytes[i]]
          /\ r = [size |-> r.size, bytes |-> r.bytes, reader |-> r.reader, writer |-> r.writer]
        <3>1. /\ b = [size |-> b.size, bytes |-> b.bytes, reader |-> b.reader, writer |-> b.writer]
              /\ DOMAIN b.bytes = 0..(b.size - 1)
            BY SoundFacts DEF Sound
        <3>2. r = [b EXCEPT !.reader = CheapPrepend, !.writer = end,
                            !.bytes = [i \in 0..(b.size - 1) |->
                                         IF CheapPrepend <= i /\ i < end
                                         THEN b.bytes[i - CheapPrepend + b.reader]
                                         ELSE b.bytes[i]]]
            BY <2>1, <3>1, <1>1 DEF MovedToFront
        <3> HIDE DEF r, end
        <3> QED BY <3>1, <3>2
    <2> HIDE DEF r
    <2>5. r.size = b.size /\ r.reader = CheapPrepend /\ r.writer = end
        BY <2>4
    <2>6. r.bytes = [i \in 0..(r.size - 1) |-> r.bytes[i]]
        BY <2>4
    <2>7. Sound(r)
        <3>1. /\ r.size \in Nat /\ r.reader \in Nat /\ r.writer \in Nat
              /\ CheapPrepend <= r.reader /\ r.reader <= r.writer /\ r.writer <= r.size
              /\ r.size < Modulus
            BY <2>3, <2>5, <1>1
        <3> QED BY <2>4, <2>6, <3>1, SoundMade
    <2>8. Numbered(r, first)
        <3> SUFFICES ASSUME NEW i \in CheapPrepend..(end - 1)
                     PROVE  r.bytes[i] = first + (i - CheapPrepend)
            BY <2>4 DEF Numbered
        <3> DEFINE j == i - CheapPrepend + b.reader
        <3>1. /\ i \in 0..(b.size - 1) /\ CheapPrepend <= i /\ i < end
              /\ j \in b.reader..(b.writer - 1) /\ j - b.reader = i - CheapPrepend
            BY <1>1
        <3>2. r.bytes[i] = b.bytes[j]
            BY <2>4, <3>1
        <3> HIDE DEF j
        <3>3. b.bytes[j] = first + (j - b.reader)
            BY <3>1 DEF Numbered
        <3> QED BY <3>1, <3>2, <3>3
    <2>9. P(r)
        BY <2>3, <2>5, <2>7, <2>8, <1>1
    <2>10. Writable(r) >= len
        <3>1. Writable(r) = r.size - r.writer
            BY <2>7, SoundFacts
        <3> QED BY <3>1, <2>3, <2>5, <1>1
    <2> QED BY <2>9, <2>10 DEF HasRoom, r
<1> QED BY <1>2, <1>3, <1>4

\* append() puts its bytes behind those there are.
LEMMA BytesFollow ==
    ASSUME NEW b, Sound(b), NEW len \in Nat, NEW first \in Nat, Numbered(b, first),
           b.writer + len < Modulus, len + CheapPrepend < Modulus
    PROVE  LET a == Appended(b, len, first + (b.writer - b.reader)) IN
           /\ Sound(a) /\ Numbered(a, first)
           /\ a.writer - a.reader = b.writer - b.reader + len
           /\ a.writer <= b.writer + len
           /\ a.size <= b.size \/ a.size <= b.writer + len
<1> DEFINE r == WithRoom(b, len)
           next == first + (b.writer - b.reader)
           a == Appended(b, len, next)
<1>1. /\ Sound(r) /\ Numbered(r, first)
      /\ r.writer - r.reader = b.writer - b.reader
      /\ r.writer <= b.writer /\ r.writer + len <= r.size
      /\ r.size <= b.size \/ r.size <= b.writer + len
    BY RoomIsMade
<1>2. /\ b.writer \in Nat /\ b.reader \in Nat /\ b.size \in Nat /\ next \in Int
      /\ r.writer \in Nat /\ r.reader \in Nat /\ r.size \in Nat
      /\ CheapPrepend \in Nat /\ CheapPrepend <= r.reader /\ r.reader <= r.writer
      /\ b.size < Modulus /\ Modulus \in Nat
    BY <1>1, SoundFacts
<1>3. DOMAIN r.bytes = 0..(r.size - 1)
    BY <1>1, SoundFacts
<1>4. a = [r EXCEPT !.writer = @ + len,
                    !.bytes = [i \in DOMAIN r.bytes |->
                                 IF r.writer <= i /\ i < r.writer + len
                                 THEN next + (i - r.writer) ELSE r.bytes[i]]]
    BY DEF Appended
<1> HIDE DEF r, a, next
<1>5. /\ a.size = r.size /\ a.reader = r.reader /\ a.writer = r.writer + len
      /\ a.bytes = [i \in 0..(r.size - 1) |->
                      IF r.writer <= i /\ i < r.writer + len
                      THEN next + (i - r.writer) ELSE r.bytes[i]]
      /\ a = [size |-> a.size, bytes |-> a.bytes, reader |-> a.reader, writer |-> a.writer]
    BY <1>1, <1>3, <1>4 DEF Sound
<1>6. a.size = r.size /\ a.reader = r.reader /\ a.writer = r.writer + len
    BY <1>5
<1>7. /\ r.writer - r.reader = b.writer - b.reader
      /\ r.writer <= b.writer /\ r.writer + len <= r.size
      /\ r.size <= b.size \/ r.size <= b.writer + len
    BY <1>1
<1>8. a.bytes = [i \in 0..(a.size - 1) |-> a.bytes[i]]
    BY <1>5
<1>9. Sound(a)
    <2>1. /\ a.size \in Nat /\ a.reader \in Nat /\ a.writer \in Nat
          /\ CheapPrepend <= a.reader /\ a.reader <= a.writer /\ a.writer <= a.size
          /\ a.size < Modulus
        BY <1>7, <1>2, <1>6
    <2> QED BY <1>5, <1>8, <2>1, SoundMade
<1>10. Numbered(a, first)
    <2> SUFFICES ASSUME NEW i \in a.reader..(a.writer - 1)
                 PROVE  a.bytes[i] = first + (i - a.reader)
        BY DEF Numbered
    <2>1. i \in 0..(r.size - 1) /\ i \in r.reader..(r.writer + len - 1)
        BY <1>7, <1>2, <1>6
    <2>2. CASE r.writer <= i
        <3>1. a.bytes[i] = next + (i - r.writer)
            BY <1>2, <1>5, <2>1, <2>2
        <3>2. next + (i - r.writer) = first + (i - r.reader)
            BY <2>1, <1>7, <1>2 DEF next
        <3> QED BY <3>1, <3>2, <1>6
    <2>3. CASE i < r.writer
        <3>1. a.bytes[i] = r.bytes[i]
            BY <1>2, <1>5, <2>1, <2>3
        <3>2. i \in r.reader..(r.writer - 1)
            BY <1>2, <2>1, <2>3
        <3>3. r.bytes[i] = first + (i - r.reader)
            BY <3>2, <1>1 DEF Numbered
        <3> QED BY <3>1, <3>3, <1>6
    <2> QED BY <1>2, <2>1, <2>2, <2>3
<1>11. /\ a.writer - a.reader = b.writer - b.reader + len
       /\ a.writer <= b.writer + len
       /\ a.size <= b.size \/ a.size <= b.writer + len
    BY <1>7, <1>2, <1>6
<1> QED BY <1>9, <1>10, <1>11 DEF a, next

LEMMA BufferInvInit == BufferInit => BufferInv
<1> SUFFICES ASSUME BufferInit PROVE BufferInv
    OBVIOUS
<1>1. Sound(buf)
    BY BufferAssumption DEF BufferInit, Sound
<1> QED BY <1>1, BufferAssumption DEF BufferInit, BufferInv, Numbered

\* What has to be shown of a buffer that a step leaves.
LEMMA BufferIs ==
    ASSUME NEW c, buf' = c, fault' = fault, fault = "none", Sound(c), Numbered(c, taken' + 1),
           added' \in Nat, taken' \in Nat, added' <= MaxAdded,
           taken' + (c.writer - c.reader) = added', c.writer <= CheapPrepend + added',
           c.size <= CheapPrepend + InitialBytes + MaxAdded
    PROVE  BufferInv'
<1>1. Sound(buf)' /\ Numbered(buf, taken + 1)'
    BY DEF Sound, Numbered
<1> QED BY <1>1 DEF BufferInv

LEMMA AppendBytesKeeps ==
    ASSUME BufferInv, NEW len \in 0..MaxAdded, AppendBytes(len)
    PROVE  BufferInv'
<1> DEFINE next == taken + 1 + (buf.writer - buf.reader)
           a == Appended(buf, len, next)
<1>1. /\ fault = "none" /\ added + len <= MaxAdded /\ len \in Nat /\ CheapPrepend \in Nat
      /\ added' = added + len /\ taken' = taken /\ InitialBytes \in Nat /\ MaxAdded \in Nat
    BY BufferAssumption DEF AppendBytes
<1>2. /\ Sound(buf) /\ Numbered(buf, taken + 1) /\ added \in Nat /\ taken \in Nat
      /\ taken + (buf.writer - buf.reader) = added
      /\ buf.writer <= CheapPrepend + added
      /\ buf.size <= CheapPrepend + InitialBytes + MaxAdded
      /\ buf.writer \in Nat /\ buf.reader \in Nat /\ buf.size \in Nat
    BY <1>1, SoundFacts DEF BufferInv
<1>3. buf.writer + len < Modulus /\ len + CheapPrepend < Modulus
    BY <1>1, <1>2, BufferAssumption
<1>4. next = added + 1
    BY <1>2
<1>5. /\ HasRoom(buf, len)
      /\ Sound(a) /\ Numbered(a, taken + 1)
      /\ a.writer - a.reader = buf.writer - buf.reader + len
      /\ a.writer <= buf.writer + len
      /\ a.size <= buf.size \/ a.size <= buf.writer + len
    BY <1>1, <1>2, <1>3, RoomIsMade, BytesFollow
<1>6. buf' = a /\ fault' = fault
    BY <1>4, <1>5 DEF AppendBytes
<1> HIDE DEF a
<1>7. a.writer \in Nat /\ a.reader \in Nat /\ a.size \in Nat
    BY <1>5, SoundFacts
<1>8. /\ taken + (a.writer - a.reader) = added + len
      /\ a.writer <= CheapPrepend + (added + len)
      /\ a.size <= CheapPrepend + InitialBytes + MaxAdded
    <2>1. /\ a.writer - a.reader = buf.writer - buf.reader + len
          /\ a.writer <= buf.writer + len
          /\ a.size <= buf.size \/ a.size <= buf.writer + len
        BY <1>5
    <2>2. /\ added \in Nat /\ taken \in Nat /\ taken + (buf.writer - buf.reader) = added
          /\ buf.writer <= CheapPrepend + added
          /\ buf.size <= CheapPrepend + InitialBytes + MaxAdded
          /\ buf.writer \in Nat /\ buf.reader \in Nat /\ buf.size \in Nat
        BY <1>2
    <2>3. /\ added + len <= MaxAdded /\ len \in Nat /\ CheapPrepend \in Nat
          /\ InitialBytes \in Nat /\ MaxAdded \in Nat
        BY <1>1
    <2> HIDE DEF next
    <2>4. taken + (a.writer - a.reader) = added + len
        BY <2>1, <2>2, <2>3, <1>7
    <2>5. buf.writer + len <= CheapPrepend + (added + len)
        BY <2>2, <2>3
    <2>6. CheapPrepend + (added + len) <= CheapPrepend + InitialBytes + MaxAdded
        BY <2>2, <2>3
    <2>7. a.writer <= CheapPrepend + (added + len)
        BY <2>1, <2>2, <2>3, <2>5, <1>7
    <2>8. a.size <= CheapPrepend + InitialBytes + MaxAdded
        BY <2>1, <2>2, <2>3, <2>5, <2>6, <1>7
    <2> QED BY <2>4, <2>7, <2>8
<1> QED BY <1>1, <1>2, <1>5, <1>6, <1>8, BufferIs

LEMMA ReadFdKeeps ==
    ASSUME BufferInv, NEW n \in 0..MostRead, ReadFd(n)
    PROVE  BufferInv'
<1> DEFINE w == Writable(buf)
           next == taken + 1 + (buf.writer - buf.reader)
           full == Appended(buf, w, next)
           last == taken + 1 + (full.writer - full.reader)
           a == Appended(buf, n, next)
           z == Appended(full, n - w, last)
<1>1. /\ fault = "none" /\ added + n <= MaxAdded
      /\ added' = added + n /\ taken' = taken
    BY DEF ReadFd
<1>2. /\ added \in Nat /\ taken \in Nat /\ taken + (buf.writer - buf.reader) = added
      /\ buf.writer <= CheapPrepend + added
      /\ buf.size <= CheapPrepend + InitialBytes + MaxAdded
      /\ CheapPrepend \in Nat /\ InitialBytes \in Nat /\ MaxAdded \in Nat /\ Modulus \in Nat
      /\ CheapPrepend + InitialBytes + MaxAdded < Modulus
      /\ CheapPrepend + MaxAdded < Modulus
    BY <1>1, BufferAssumption DEF BufferInv
<1>3. Sound(buf) /\ Numbered(buf, taken + 1)
    BY <1>1 DEF BufferInv
<1>4. /\ buf.writer \in Nat /\ buf.reader \in Nat /\ buf.size \in Nat /\ w \in Nat
      /\ w = buf.size - buf.writer /\ buf.writer <= buf.size
    BY <1>3, SoundFacts
<1>5. n \in Nat
    <2>1. MostRead \in Nat
        BY <1>4, BufferAssumption DEF MostRead
    <2> QED BY <2>1
<1>6. next = added + 1
    BY <1>2, <1>4
<1> HIDE DEF w, next
<1>7. CASE n <= w
    <2>1. buf.writer + n < Modulus /\ n + CheapPrepend < Modulus
        BY <1>1, <1>2, <1>4, <1>5
    <2>2. /\ Sound(a) /\ Numbered(a, taken + 1)
          /\ a.writer - a.reader = buf.writer - buf.reader + n
          /\ a.writer <= buf.writer + n
          /\ a.size <= buf.size \/ a.size <= buf.writer + n
        BY <1>2, <1>3, <1>5, <2>1, BytesFollow DEF next
    <2>3. buf' = a /\ fault' = fault
        BY <1>6, <1>7 DEF ReadFd, w
    <2> HIDE DEF a
    <2>4. a.writer \in Nat /\ a.reader \in Nat /\ a.size \in Nat
        BY <2>2, SoundFacts
    <2>5. /\ taken + (a.writer - a.reader) = added + n
          /\ a.writer <= CheapPrepend + (added + n)
          /\ a.size <= CheapPrepend + InitialBytes + MaxAdded
        BY <2>2, <2>4, <1>1, <1>2, <1>4, <1>5
    <2> QED BY <1>1, <1>2, <1>5, <2>2, <2>3, <2>5, BufferIs
<1>8. CASE ~(n <= w)
    <2>1. buf.writer + w < Modulus /\ w + CheapPrepend < Modulus
        BY <1>1, <1>2, <1>4, <1>5, <1>8
    <2>2. /\ Sound(full) /\ Numbered(full, taken + 1)
          /\ full.writer - full.reader = buf.writer - buf.reader + w
          /\ full.writer <= buf.writer + w
          /\ full.size <= buf.size \/ full.size <= buf.writer + w
        BY <1>2, <1>3, <1>4, <2>1, BytesFollow DEF next
    <2>3. full.writer \in Nat /\ full.reader \in Nat /\ full.size \in Nat
        BY <2>2, SoundFacts
    <2> DEFINE more == n - w
    <2>4. more \in Nat /\ more + w = n
        BY <1>4, <1>5, <1>8
    <2> HIDE DEF full, more
    <2>5. full.writer + more < Modulus /\ more + CheapPrepend < Modulus
        BY <1>1, <1>2, <1>4, <1>5, <2>2, <2>3, <2>4
    <2>6. HasRoom(full, more)
        BY <1>2, <2>2, <2>4, <2>5, RoomIsMade
    <2>7. /\ Sound(z) /\ Numbered(z, taken + 1)
          /\ z.writer - z.reader = full.writer - full.reader + more
          /\ z.writer <= full.writer + more
          /\ z.size <= full.size \/ z.size <= full.writer + more
        BY <1>2, <2>2, <2>4, <2>5, BytesFollow DEF more
    <2>8. last = added + 1 + w
        BY <1>2, <1>4, <2>2, <2>3
    <2>9. buf' = z /\ fault' = fault
        BY <1>6, <1>8, <2>6, <2>8 DEF ReadFd, w, full, more
    <2> HIDE DEF z, last
    <2>10. z.writer \in Nat /\ z.reader \in Nat /\ z.size \in Nat
        BY <2>7, SoundFacts
    <2>11. /\ taken + (z.writer - z.reader) = added + n
           /\ z.writer <= CheapPrepend + (added + n)
           /\ z.size <= CheapPrepend + InitialBytes + MaxAdded
        <3>1. /\ z.writer - z.reader = full.writer - full.reader + more
              /\ z.writer <= full.writer + more
              /\ z.size <= full.size \/ z.size <= full.writer + more
              /\ full.writer - full.reader = buf.writer - buf.reader + w
              /\ full.writer <= buf.writer + w
              /\ full.size <= buf.size \/ full.size <= buf.writer + w
            BY <2>2, <2>7
        <3>2. taken + (z.writer - z.reader) = added + n
            <4>1. z.writer - z.reader = buf.writer - buf.reader + n
                BY <3>1, <2>3, <2>4, <2>10, <1>4, <1>5
            <4>2. taken + (buf.writer - buf.reader) = added
                BY <1>2
            <4> QED BY <4>1, <4>2, <2>10, <1>2, <1>4, <1>5
        <3>3. buf.writer + n <= CheapPrepend + (added + n) /\ added + n <= MaxAdded
            BY <1>1, <1>2, <1>4, <1>5
        <3>4. full.writer + more <= buf.writer + n
            BY <3>1, <2>3, <2>4, <1>4, <1>5
        <3>5. z.writer <= CheapPrepend + (added + n)
            BY <3>1, <3>3, <3>4, <2>3, <2>4, <2>10, <1>2, <1>4, <1>5
        <3>6. full.size <= CheapPrepend + InitialBytes + MaxAdded
            BY <3>1, <3>3, <2>3, <2>4, <1>2, <1>4, <1>5
        <3>7. full.writer + more <= CheapPrepend + InitialBytes + MaxAdded
            BY <3>3, <3>4, <2>3, <2>4, <1>2, <1>4, <1>5
        <3>8. z.size <= CheapPrepend + InitialBytes + MaxAdded
            BY <3>1, <3>6, <3>7, <2>3, <2>4, <2>10, <1>2
        <3> QED BY <3>2, <3>5, <3>8
    <2> QED BY <1>1, <1>2, <1>5, <2>7, <2>9, <2>11, BufferIs
<1> QED BY <1>7, <1>8

LEMMA RetrieveKeeps ==
    ASSUME BufferInv, NEW len \in 0..MaxAdded, Retrieve(len)
    PROVE  BufferInv'
<1> DEFINE c == Retrieved(buf, len)
<1>1. /\ fault = "none" /\ len <= Readable(buf) /\ buf' = c /\ taken' = taken + len
      /\ added' = added /\ fault' = fault
    BY DEF Retrieve
<1>2. /\ added \in Nat /\ taken \in Nat /\ taken + (buf.writer - buf.reader) = added
      /\ buf.writer <= CheapPrepend + added
      /\ buf.size <= CheapPrepend + InitialBytes + MaxAdded
      /\ CheapPrepend \in Nat /\ added <= MaxAdded /\ len \in Nat
    BY <1>1, BufferAssumption DEF BufferInv
<1>3. Sound(buf) /\ Numbered(buf, taken + 1)
    BY <1>1 DEF BufferInv
<1>4. /\ buf.writer \in Nat /\ buf.reader \in Nat /\ buf.size \in Nat
      /\ Readable(buf) = buf.writer - buf.reader
      /\ CheapPrepend <= buf.reader /\ buf.reader <= buf.writer /\ buf.writer <= buf.size
      /\ buf.size < Modulus
    BY <1>3, SoundFacts
<1>5. /\ buf = [size |-> buf.size, bytes |-> buf.bytes, reader |-> buf.reader,
                writer |-> buf.writer]
      /\ buf.bytes = [i \in 0..(buf.size - 1) |-> buf.bytes[i]]
    BY <1>3 DEF Sound
<1>6. PICK from \in Nat, to \in Nat :
        /\ c = [buf EXCEPT !.reader = from, !.writer = to]
        /\ \/ len < Readable(buf) /\ from = buf.reader + len /\ to = buf.writer
           \/ len = Readable(buf) /\ from = CheapPrepend /\ to = CheapPrepend
    <2>1. CASE len < Readable(buf)
        <3>1. c = [buf EXCEPT !.reader = buf.reader + len]
            BY <2>1 DEF Retrieved
        <3>2. c = [buf EXCEPT !.reader = buf.reader + len, !.writer = buf.writer]
            BY <3>1, <1>5
        <3>3. buf.reader + len \in Nat
            BY <1>2, <1>4
        <3> QED BY <2>1, <3>2, <3>3, <1>4
    <2>2. CASE ~(len < Readable(buf))
        <3>1. c = [buf EXCEPT !.reader = CheapPrepend, !.writer = CheapPrepend]
            BY <2>2 DEF Retrieved
        <3>2. len = Readable(buf)
            BY <2>2, <1>1, <1>2, <1>4
        <3> QED BY <3>1, <3>2, <1>2
    <2> QED BY <2>1, <2>2
<1> HIDE DEF c
<1>7. /\ c.size = buf.size /\ c.bytes = buf.bytes /\ c.reader = from /\ c.writer = to
      /\ c = [size |-> c.size, bytes |-> c.bytes, reader |-> c.reader, writer |-> c.writer]
    BY <1>5, <1>6
<1>8. /\ CheapPrepend <= from /\ from <= to /\ to <= buf.size /\ to <= buf.writer
      /\ to - from = buf.writer - buf.reader - len
    BY <1>2, <1>4, <1>6
<1>9. Sound(c)
    <2>1. c.bytes = [i \in 0..(c.size - 1) |-> c.bytes[i]]
        BY <1>5, <1>7
    <2> QED BY <2>1, <1>4, <1>7, <1>8, SoundMade
<1>10. Numbered(c, taken + len + 1)
    <2> SUFFICES ASSUME NEW i \in from..(to - 1)
                 PROVE  buf.bytes[i] = taken + len + 1 + (i - from)
        BY <1>7 DEF Numbered
    <2>1. from = buf.reader + len /\ to = buf.writer
        BY <1>6
    <2>2. i \in buf.reader..(buf.writer - 1)
        BY <2>1, <1>2, <1>4
    <2>3. buf.bytes[i] = taken + 1 + (i - buf.reader)
        BY <2>2, <1>3 DEF Numbered
    <2>4. taken + 1 + (i - buf.reader) = taken + len + 1 + (i - from)
        BY <2>1, <2>2, <1>2, <1>4
    <2> QED BY <2>3, <2>4
<1>11. /\ taken + len + (c.writer - c.reader) = added
       /\ c.writer <= CheapPrepend + added /\ taken + len \in Nat
       /\ c.size <= CheapPrepend + InitialBytes + MaxAdded
    BY <1>2, <1>4, <1>7, <1>8
<1> QED BY <1>1, <1>2, <1>9, <1>10, <1>11, BufferIs

LEMMA BufferInvStep == BufferInv /\ [BufferNext]_bvars => BufferInv'
<1> SUFFICES ASSUME BufferInv, [BufferNext]_bvars
             PROVE  BufferInv'
    OBVIOUS
<1>1. ASSUME NEW len \in 0..MaxAdded, AppendBytes(len)
      PROVE  BufferInv'
    BY <1>1, AppendBytesKeeps
<1>2. ASSUME NEW len \in 0..MaxAdded, Retrieve(len)
      PROVE  BufferInv'
    BY <1>2, RetrieveKeeps
<1>3. ASSUME NEW n \in 0..MostRead, ReadFd(n)
      PROVE  BufferInv'
    BY <1>3, ReadFdKeeps
<1>4. CASE ReadFdFails
    <2>1. fault' = "read" /\ UNCHANGED <<added, taken>>
        BY <1>4 DEF ReadFdFails
    <2> QED BY <2>1 DEF BufferInv
<1>5. CASE UNCHANGED bvars
    BY <1>5 DEF bvars, BufferInv, Sound, Numbered
<1> QED BY <1>1, <1>2, <1>3, <1>4, <1>5 DEF BufferNext

\* Through any mix of reads, appends and retrieves, each of which may move or enlarge the
\* vector, the readable bytes are those that were put in and not yet retrieved, in their
\* order, and the asserts of Buffer.h hold (Buffer.h:27-126, Buffer.cc:12-43): until a
\* readv() fails, and while fewer bytes have come than size_t can count.
THEOREM BytesStayInOrder == BufferSpec => []BytesInOrder
<1>1. BufferInv => BytesInOrder
    <2> SUFFICES ASSUME BufferInv
                 PROVE  BytesInOrder
        OBVIOUS
    <2>1. CASE fault = "none"
        <3>1. /\ Sound(buf) /\ Numbered(buf, taken + 1) /\ taken \in Nat
              /\ taken + (buf.writer - buf.reader) = added
            BY <2>1 DEF BufferInv
        <3>2. /\ Readable(buf) = buf.writer - buf.reader
              /\ buf.writer \in Nat /\ buf.reader \in Nat
            BY <3>1, SoundFacts
        <3>3. ASSUME NEW i \in 0..(Readable(buf) - 1)
              PROVE  buf.bytes[buf.reader + i] = taken + i + 1
            <4> DEFINE j == buf.reader + i
            <4>1. j \in buf.reader..(buf.writer - 1) /\ j - buf.reader = i
                BY <3>2
            <4> HIDE DEF j
            <4>2. buf.bytes[j] = taken + 1 + (j - buf.reader)
                BY <3>1, <4>1 DEF Numbered
            <4>3. buf.bytes[j] = taken + i + 1
                BY <3>1, <4>1, <4>2
            <4> QED BY <4>3 DEF j
        <3> QED BY <2>1, <3>1, <3>2, <3>3 DEF BytesInOrder
    <2>2. CASE fault # "none"
        BY <2>2 DEF BufferInv, BytesInOrder
    <2> QED BY <2>1, <2>2
<1> QED BY <1>1, BufferInvInit, BufferInvStep, PTL DEF BufferSpec

-----------------------------------------------------------------------------
(* The answers of the HTTP server (HttpServer). *)

Answers == [to : Nat, status : {"file", "page", "404", "400"}, close : BOOLEAN]

AnswersInv ==
    /\ answers \in Seq(Answers) /\ connected \in BOOLEAN
    /\ \E S : handed \in Seq(S)
    /\ AnsweredInOrder

\* What an answer more leaves of the order: it is for the next request, or for none.
LEMMA OneMoreAnswer ==
    ASSUME NEW a \in Seq(Answers), NEW answer \in Answers, NEW n \in Nat,
           \A i, j \in DOMAIN a : i < j => a[j].to = 0 \/ a[i].to < a[j].to,
           {a[i].to : i \in DOMAIN a} \ {0} = 1..n,
           \A i \in DOMAIN a : ~a[i].close,
           answer.to \in {0, n + 1}
    PROVE  LET b == Append(a, answer) IN
           /\ b \in Seq(Answers)
           /\ \A i, j \in DOMAIN b : i < j => b[j].to = 0 \/ b[i].to < b[j].to
           /\ {b[i].to : i \in DOMAIN b} \ {0} = IF answer.to = 0 THEN 1..n ELSE 1..(n + 1)
           /\ \A i \in DOMAIN b : b[i].close => i = Len(b)
           /\ (\A i \in DOMAIN b : ~b[i].close) <=> ~answer.close
<1> DEFINE b == Append(a, answer)
           l == Len(a)
<1>1. l \in Nat /\ DOMAIN a = 1..l /\ \A i \in 1..l : a[i] \in Answers
    BY LenProperties, ElementOfSeq
<1>2. /\ b \in Seq(Answers) /\ Len(b) = l + 1
      /\ \A i \in 1..l : b[i] = a[i]
      /\ b[l + 1] = answer
    BY AppendProperties
<1>3. DOMAIN b = 1..(l + 1)
    BY <1>2, LenProperties
<1> HIDE DEF b, l
<1>4. 1..(l + 1) = 1..l \cup {l + 1}
    BY <1>1
<1>5. \A i \in 1..l : a[i].to \in 0..n
    <2> TAKE i \in 1..l
    <2>1. a[i].to = 0 \/ a[i].to \in 1..n
        BY <1>1
    <2> QED BY <2>1
<1>6. ASSUME NEW i \in DOMAIN b, NEW j \in DOMAIN b, i < j
      PROVE  b[j].to = 0 \/ b[i].to < b[j].to
    <2>1. i \in 1..l
        BY <1>1, <1>3, <1>6
    <2>2. CASE j \in 1..l
        BY <2>1, <2>2, <1>1, <1>2, <1>6
    <2>3. CASE j = l + 1
        BY <2>1, <2>3, <1>2, <1>5
    <2> QED BY <2>2, <2>3, <1>3, <1>4
<1>7. {b[i].to : i \in DOMAIN b} = {a[i].to : i \in DOMAIN a} \cup {answer.to}
    BY <1>1, <1>2, <1>3, <1>4
<1>8. {b[i].to : i \in DOMAIN b} \ {0} = IF answer.to = 0 THEN 1..n ELSE 1..(n + 1)
    <2>1. 1..(n + 1) = 1..n \cup {n + 1} /\ n + 1 # 0
        OBVIOUS
    <2> QED BY <2>1, <1>7
<1>9. /\ \A i \in DOMAIN b : b[i].close => i = Len(b)
      /\ (\A i \in DOMAIN b : ~b[i].close) <=> ~answer.close
    BY <1>1, <1>2, <1>3, <1>4
<1> QED BY <1>2, <1>6, <1>8, <1>9 DEF b

LEMMA AnswersInit == HttpInit => AnswersInv
<1> SUFFICES ASSUME HttpInit PROVE AnswersInv
    OBVIOUS
<1>1. answers = <<>> /\ handed = <<>> /\ connected = TRUE
    BY DEF HttpInit
<1>2. <<>> \in Seq(Answers) /\ Len(<<>>) = 0 /\ DOMAIN <<>> = {} /\ 1..0 = {}
    BY EmptySeq
<1>3. AnsweredInOrder
    BY <1>1, <1>2 DEF AnsweredInOrder
<1> QED BY <1>1, <1>2, <1>3 DEF AnswersInv

\* While the connection is open, every request that was given to onRequest() has an answer.
LEMMA AllAnswered ==
    ASSUME AnswersInv, connected
    PROVE  /\ Len(handed) \in Nat
           /\ {answers[i].to : i \in DOMAIN answers} \ {0} = 1..Len(handed)
           /\ \A i \in DOMAIN answers : ~answers[i].close
<1>1. Len(handed) \in Nat
    BY LenProperties DEF AnswersInv
<1> QED BY <1>1 DEF AnswersInv, AnsweredInOrder

LEMMA LineFailsAnswers ==
    ASSUME AnswersInv, ParseLineFails
    PROVE  AnswersInv'
<1> DEFINE answer == Reply(0, "400", FALSE)
<1>1. answers' = Sent(answer) /\ UNCHANGED <<handed, connected>>
    BY DEF ParseLineFails
<1>2. CASE ~connected
    <2>1. answers' = answers
        BY <1>1, <1>2 DEF Sent
    <2> QED BY <1>1, <2>1 DEF AnswersInv, AnsweredInOrder
<1>3. CASE connected
    <2>1. answers' = Append(answers, answer)
        BY <1>1, <1>3 DEF Sent
    <2>2. answer \in Answers /\ answer.to = 0 /\ ~answer.close
        BY DEF Reply, Answers
    <2>3. /\ answers \in Seq(Answers)
          /\ \A i, j \in DOMAIN answers :
                i < j => answers[j].to = 0 \/ answers[i].to < answers[j].to
        BY DEF AnswersInv, AnsweredInOrder
    <2> HIDE DEF answer
    <2>4. /\ answers' \in Seq(Answers)
          /\ \A i, j \in DOMAIN answers' :
                i < j => answers'[j].to = 0 \/ answers'[i].to < answers'[j].to
          /\ {answers'[i].to : i \in DOMAIN answers'} \ {0} = 1..Len(handed)
          /\ \A i \in DOMAIN answers' : ~answers'[i].close
        <3> DEFINE n == Len(handed)
                   b == Append(answers, answer)
        <3>1. /\ n \in Nat /\ {answers[i].to : i \in DOMAIN answers} \ {0} = 1..n
              /\ \A i \in DOMAIN answers : ~answers[i].close
            BY <1>3, AllAnswered
        <3> HIDE DEF n
        <3>2. /\ b \in Seq(Answers)
              /\ \A i, j \in DOMAIN b : i < j => b[j].to = 0 \/ b[i].to < b[j].to
              /\ {b[i].to : i \in DOMAIN b} \ {0} = 1..n
              /\ \A i \in DOMAIN b : ~b[i].close
            BY <2>2, <2>3, <3>1, OneMoreAnswer
        <3> QED BY <2>1, <3>2 DEF n
    <2>5. Len(handed) \in 0..Len(handed)
        BY <1>3, AllAnswered
    <2>6. AnsweredInOrder'
        BY <1>1, <1>3, <2>4, <2>5 DEF AnsweredInOrder
    <2> QED BY <1>1, <2>4, <2>6 DEF AnswersInv
<1> QED BY <1>2, <1>3

LEMMA OnRequestAnswers ==
    ASSUME AnswersInv, OnRequest
    PROVE  AnswersInv'
<1> DEFINE closes == Closes
           answer == Reply(Len(handed) + 1, Status, closes)
<1>1. /\ answers' = Sent(answer) /\ handed' = Append(handed, request)
      /\ connected' = (connected /\ ~closes)
    BY DEF OnRequest
<1>2. PICK S : handed \in Seq(S)
    BY DEF AnswersInv
<1>3. Len(handed) \in Nat
    BY <1>2, LenProperties
<1>4. handed' \in Seq(S \cup {request}) /\ Len(handed') = Len(handed) + 1
    <2>1. handed \in Seq(S \cup {request})
        BY <1>2
    <2> QED BY <2>1, <1>1, AppendProperties
<1>5. closes \in BOOLEAN /\ Status \in {"file", "page", "404"}
    BY DEF Closes, Status
<1>6. answer \in Answers /\ answer.to = Len(handed) + 1 /\ answer.close = closes
    BY <1>3, <1>5 DEF Reply, Answers
<1> HIDE DEF answer, closes
<1>7. CASE ~connected
    <2>1. answers' = answers /\ connected' = FALSE
        BY <1>1, <1>7 DEF Sent
    <2>2. PICK n \in 0..Len(handed) : {answers[i].to : i \in DOMAIN answers} \ {0} = 1..n
        BY DEF AnswersInv, AnsweredInOrder
    <2>3. n \in 0..Len(handed')
        BY <1>3, <1>4, <2>2
    <2>4. AnsweredInOrder'
        BY <1>7, <2>1, <2>2, <2>3 DEF AnswersInv, AnsweredInOrder
    <2> QED BY <1>4, <2>1, <2>4 DEF AnswersInv
<1>8. CASE connected
    <2>1. answers' = Append(answers, answer)
        BY <1>1, <1>8 DEF Sent
    <2>2. /\ answers \in Seq(Answers)
          /\ \A i, j \in DOMAIN answers :
                i < j => answers[j].to = 0 \/ answers[i].to < answers[j].to
        BY DEF AnswersInv, AnsweredInOrder
    <2>3. /\ answers' \in Seq(Answers)
          /\ \A i, j \in DOMAIN answers' :
                i < j => answers'[j].to = 0 \/ answers'[i].to < answers'[j].to
          /\ {answers'[i].to : i \in DOMAIN answers'} \ {0} = 1..(Len(handed) + 1)
          /\ \A i \in DOMAIN answers' : answers'[i].close => i = Len(answers')
          /\ (\A i \in DOMAIN answers' : ~answers'[i].close) <=> ~answer.close
        <3> DEFINE n == Len(handed)
                   b == Append(answers, answer)
        <3>1. /\ n \in Nat /\ {answers[i].to : i \in DOMAIN answers} \ {0} = 1..n
              /\ \A i \in DOMAIN answers : ~answers[i].close
            BY <1>8, AllAnswered
        <3>2. answer \in Answers /\ answer.to = n + 1 /\ answer.to # 0
            BY <1>3, <1>6
        <3> HIDE DEF n
        <3>3. /\ b \in Seq(Answers)
              /\ \A i, j \in DOMAIN b : i < j => b[j].to = 0 \/ b[i].to < b[j].to
              /\ {b[i].to : i \in DOMAIN b} \ {0} = 1..(n + 1)
              /\ \A i \in DOMAIN b : b[i].close => i = Len(b)
              /\ (\A i \in DOMAIN b : ~b[i].close) <=> ~answer.close
            BY <2>2, <3>1, <3>2, OneMoreAnswer
        <3> QED BY <2>1, <3>3 DEF n
    <2>4. Len(handed') \in 0..Len(handed')
        BY <1>3, <1>4
    <2>5. connected' = ~closes /\ connected' \in BOOLEAN
        BY <1>1, <1>5, <1>8
    <2>6. AnsweredInOrder'
        BY <1>4, <1>6, <2>3, <2>4, <2>5 DEF AnsweredInOrder
    <2> QED BY <1>4, <2>3, <2>5, <2>6 DEF AnswersInv
<1>9. connected \in BOOLEAN
    BY DEF AnswersInv
<1> QED BY <1>7, <1>8, <1>9

LEMMA AnswersStep == AnswersInv /\ [HttpNext]_hvars => AnswersInv'
<1> SUFFICES ASSUME AnswersInv, [HttpNext]_hvars
             PROVE  AnswersInv'
    OBVIOUS
<1>1. ASSUME UNCHANGED <<handed, answers, connected>>
      PROVE  AnswersInv'
    BY <1>1 DEF AnswersInv, AnsweredInOrder
<1>2. ASSUME NEW n \in 1..Len(wire), Read(n)
      PROVE  AnswersInv'
    BY <1>1, <1>2 DEF Read
<1>3. CASE ParseMethodAgain \/ ParseLineStaleEnd \/ ParseHeadCut \/ ParseLengthThrows
    BY <1>1, <1>3 DEF ParseMethodAgain, ParseLineStaleEnd, ParseHeadCut, ParseLengthThrows, Fail
<1>4. CASE ParseRequestLine \/ ParseHeader \/ ParseHeadersEnd
    BY <1>1, <1>4 DEF ParseRequestLine, ParseHeader, ParseHeadersEnd
<1>5. CASE ParseBody \/ ParseBodyWaits
    BY <1>1, <1>5 DEF ParseBody, ParseBodyWaits
<1>6. CASE ParseLineFails
    BY <1>6, LineFailsAnswers
<1>7. CASE OnRequest
    BY <1>7, OnRequestAnswers
<1>8. CASE UNCHANGED hvars
    BY <1>1, <1>8 DEF hvars
<1> QED BY <1>2, <1>3, <1>4, <1>5, <1>6, <1>7, <1>8 DEF HttpNext

\* However the bytes are cut, whatever fails and whatever is asked for: every request given to
\* onRequest() is answered, in order, while the connection is open, and an answer that
\* announces its end is the last one sent (HttpServer.cc:31-115).
THEOREM AnswersStayInOrder == HttpSpec => []AnsweredInOrder
<1>1. AnswersInv => AnsweredInOrder
    BY DEF AnswersInv
<1> QED BY <1>1, AnswersInit, AnswersStep, PTL DEF HttpSpec

-----------------------------------------------------------------------------
(* The requests that the HTTP server hands over (HttpServer). *)

\* What is left of the requests q behind the first k of them, and of the i-th from each of
\* its parts on.
Remaining(q, k) == FlattenSeq([i \in 1..(Len(q) - k) |-> Tokens(q[k + i], k + i)])
BodyOn(q, i) == Data(q[i], i) \o Remaining(q, i)
EndOn(q, i) == <<Tok("eol", 0)>> \o BodyOn(q, i)
LengthOn(q, i) == Field("length", q[i].length, NoLength) \o EndOn(q, i)
ConnectionOn(q, i) == Field("connection", q[i].connection, "") \o LengthOn(q, i)
LineOn(q, i) ==
    <<Tok("letters", q[i]), Tok("target", q[i]), Tok("eol", 0)>> \o ConnectionOn(q, i)

\* What a token may be.
TokenSet ==
    ({"letters", "target"} \X Kinds) \cup ({"eol"} \X {0}) \cup ({"data"} \X Nat)
    \cup ({"field"} \X (({"connection"} \X {"", "close", "Keep-Alive"})
                        \cup ({"length"} \X (Nat \cup {NoLength, BadLength}))))

LEMMA FieldType ==
    ASSUME NEW r \in Kinds
    PROVE  /\ Field("connection", r.connection, "") \in Seq(TokenSet)
           /\ Field("length", r.length, NoLength) \in Seq(TokenSet)
<1>1. r.connection \in {"", "close", "Keep-Alive"} /\ r.length \in Nat \cup {NoLength, BadLength}
    BY HttpAssumption
<1>2. Tok("field", <<"connection", r.connection>>) \in TokenSet
    BY <1>1 DEF Tok, TokenSet
<1>3. Tok("field", <<"length", r.length>>) \in TokenSet
    BY <1>1 DEF Tok, TokenSet
<1>4. Tok("eol", 0) \in TokenSet
    BY DEF Tok, TokenSet
<1> HIDE DEF TokenSet
<1>5. <<>> \in Seq(TokenSet) /\ \A a, b \in TokenSet : <<a, b>> \in Seq(TokenSet)
    OBVIOUS
<1>6. Field("connection", r.connection, "") \in Seq(TokenSet)
    BY <1>2, <1>4, <1>5, Zenon DEF Field
<1>7. Field("length", r.length, NoLength) \in Seq(TokenSet)
    BY <1>3, <1>4, <1>5, Zenon DEF Field
<1> QED BY <1>6, <1>7

LEMMA DataType ==
    ASSUME NEW r \in Kinds, NEW i \in Nat
    PROVE  /\ Data(r, i) \in Seq(TokenSet)
           /\ Len(Data(r, i)) = IF r.length \in Nat THEN r.length ELSE 0
           /\ \A n \in 1..Len(Data(r, i)) : Data(r, i)[n] = Tok("data", i)
<1> DEFINE m == IF r.length \in Nat THEN r.length ELSE 0
<1>1. m \in Nat
    OBVIOUS
<1>2. Tok("data", i) \in TokenSet
    BY DEF Tok, TokenSet
<1>3. Data(r, i) = [n \in 1..m |-> Tok("data", i)]
    BY DEF Data
<1> HIDE DEF m, TokenSet
<1>4. Data(r, i) \in Seq(TokenSet) /\ Len(Data(r, i)) = m
    BY <1>1, <1>2, <1>3
<1> QED BY <1>3, <1>4 DEF m

LEMMA TokensType ==
    ASSUME NEW r \in Kinds, NEW i \in Nat
    PROVE  /\ Tokens(r, i) \in Seq(TokenSet)
           /\ <<Tok("letters", r), Tok("target", r), Tok("eol", 0)>> \in Seq(TokenSet)
           /\ <<Tok("eol", 0)>> \in Seq(TokenSet)
<1>1. /\ Tok("letters", r) \in TokenSet
      /\ Tok("target", r) \in TokenSet
      /\ Tok("eol", 0) \in TokenSet
    <2>1. /\ Tok("letters", r) \in {"letters", "target"} \X Kinds
          /\ Tok("target", r) \in {"letters", "target"} \X Kinds
          /\ Tok("eol", 0) \in {"eol"} \X {0}
        BY DEF Tok
    <2> QED BY <2>1 DEF TokenSet
<1>2. <<Tok("letters", r), Tok("target", r), Tok("eol", 0)>> \in Seq(TokenSet)
    <2>1. \A T : \A a, b, c \in T : <<a, b, c>> \in Seq(T)
        OBVIOUS
    <2> QED BY <1>1, <2>1, Zenon
<1>3. <<Tok("eol", 0)>> \in Seq(TokenSet)
    <2>1. \A T : \A a \in T : <<a>> \in Seq(T)
        OBVIOUS
    <2> QED BY <1>1, <2>1, Zenon
<1> QED BY <1>2, <1>3, FieldType, DataType, ConcatProperties DEF Tokens

LEMMA RemainingType ==
    ASSUME NEW q \in Seq(Kinds), NEW k \in 0..Len(q)
    PROVE  Remaining(q, k) \in Seq(TokenSet)
<1> DEFINE s == [i \in 1..(Len(q) - k) |-> Tokens(q[k + i], k + i)]
<1>1. Len(q) - k \in Nat
    BY LenProperties
<1>2. ASSUME NEW i \in 1..(Len(q) - k) PROVE s[i] \in Seq(TokenSet)
    <2>1. k + i \in 1..Len(q) /\ k + i \in Nat
        BY <1>1
    <2>2. q[k + i] \in Kinds
        BY <2>1, ElementOfSeq
    <2> QED BY <2>1, <2>2, TokensType
<1>3. s \in Seq(Seq(TokenSet))
    BY <1>1, <1>2
<1> HIDE DEF s
<1>4. FlattenSeq(s) \in Seq(TokenSet)
    BY <1>3, FlattenType
<1> QED BY <1>4 DEF Remaining, s

\* The parts of a request, joined from the right.
LEMMA PartsType ==
    ASSUME NEW q \in Seq(Kinds), NEW i \in DOMAIN q
    PROVE  /\ i \in Nat \ {0} /\ q[i] \in Kinds /\ Remaining(q, i) \in Seq(TokenSet)
           /\ Data(q[i], i) \in Seq(TokenSet) /\ BodyOn(q, i) \in Seq(TokenSet)
           /\ EndOn(q, i) \in Seq(TokenSet) /\ LengthOn(q, i) \in Seq(TokenSet)
           /\ ConnectionOn(q, i) \in Seq(TokenSet)
<1>1. i \in 1..Len(q) /\ i \in Nat \ {0} /\ q[i] \in Kinds /\ i \in 0..Len(q)
    BY LenProperties, ElementOfSeq
<1>2. Remaining(q, i) \in Seq(TokenSet) /\ Data(q[i], i) \in Seq(TokenSet)
    BY <1>1, RemainingType, DataType
<1>3. BodyOn(q, i) \in Seq(TokenSet)
    BY <1>2, ConcatProperties DEF BodyOn
<1>4. EndOn(q, i) \in Seq(TokenSet)
    BY <1>1, <1>3, TokensType, ConcatProperties DEF EndOn
<1>5. LengthOn(q, i) \in Seq(TokenSet)
    BY <1>1, <1>4, FieldType, ConcatProperties DEF LengthOn
<1>6. ConnectionOn(q, i) \in Seq(TokenSet)
    BY <1>1, <1>5, FieldType, ConcatProperties DEF ConnectionOn
<1> QED BY <1>1, <1>2, <1>3, <1>4, <1>5, <1>6

\* The first of the remaining requests, and then the others.
LEMMA RemainingParts ==
    ASSUME NEW q \in Seq(Kinds), NEW i \in DOMAIN q
    PROVE  Remaining(q, i - 1) = LineOn(q, i)
<1> DEFINE s(k) == [j \in 1..(Len(q) - k) |-> Tokens(q[k + j], k + j)]
           b == Tokens(q[i], i)
<1>1. /\ i \in 1..Len(q) /\ i \in Nat /\ q[i] \in Kinds /\ Len(q) \in Nat
      /\ \A j \in 1..Len(q) : q[j] \in Kinds
    BY LenProperties, ElementOfSeq
<1>2. \A k \in 0..Len(q) : s(k) \in Seq(Seq(TokenSet)) /\ Len(s(k)) = Len(q) - k
    <2> TAKE k \in 0..Len(q)
    <2>1. Len(q) - k \in Nat
        BY <1>1
    <2>2. ASSUME NEW j \in 1..(Len(q) - k) PROVE Tokens(q[k + j], k + j) \in Seq(TokenSet)
        <3>1. k + j \in 1..Len(q) /\ k + j \in Nat
            BY <1>1
        <3>2. q[k + j] \in Kinds
            BY <1>1, <3>1
        <3> QED BY <3>1, <3>2, TokensType
    <2> QED BY <2>1, <2>2
<1>3. b \in Seq(TokenSet)
    BY <1>1, TokensType
<1> DEFINE u == s(i)
           v == s(i - 1)
           t == <<b>> \o u
<1>4. /\ u \in Seq(Seq(TokenSet)) /\ Len(u) = Len(q) - i
      /\ v \in Seq(Seq(TokenSet)) /\ Len(v) = Len(q) - (i - 1)
    <2>1. i \in 0..Len(q) /\ i - 1 \in 0..Len(q)
        BY <1>1
    <2> HIDE DEF s
    <2> QED BY <2>1, <1>2
<1>5. /\ \A j \in 1..(Len(q) - i) : u[j] = Tokens(q[i + j], i + j)
      /\ \A j \in 1..(Len(q) - (i - 1)) : v[j] = Tokens(q[i - 1 + j], i - 1 + j)
    OBVIOUS
<1> HIDE DEF b, s, u, v
<1>6. /\ <<b>> \in Seq(Seq(TokenSet)) /\ Len(<<b>>) = 1 /\ <<b>>[1] = b
    BY <1>3
<1>7. v = t
    <2>1. /\ t \in Seq(Seq(TokenSet)) /\ Len(t) = 1 + (Len(q) - i)
          /\ \A j \in 1..(1 + (Len(q) - i)) : t[j] = IF j <= 1 THEN <<b>>[j] ELSE u[j - 1]
        BY <1>4, <1>6, ConcatProperties
    <2> HIDE DEF t
    <2>2. Len(v) = Len(t)
        BY <1>1, <1>4, <2>1
    <2>3. ASSUME NEW j \in 1..Len(v) PROVE v[j] = t[j]
        <3>0. j \in 1..(1 + (Len(q) - i)) /\ j \in 1..(Len(q) - (i - 1))
            BY <1>1, <1>4
        <3>1. v[j] = Tokens(q[i - 1 + j], i - 1 + j)
            BY <1>5, <3>0
        <3>2. CASE j = 1
            <4>1. i - 1 + 1 = i
                BY <1>1
            <4> QED BY <3>0, <3>1, <3>2, <4>1, <2>1, <1>6 DEF b
        <3>3. CASE j # 1
            <4>1. j - 1 \in 1..(Len(q) - i) /\ i + (j - 1) = i - 1 + j /\ ~(j <= 1)
                BY <3>0, <3>3, <1>1
            <4>2. t[j] = u[j - 1]
                BY <3>0, <4>1, <2>1
            <4>3. u[j - 1] = Tokens(q[i + (j - 1)], i + (j - 1))
                BY <4>1, <1>5
            <4> QED BY <4>1, <4>2, <4>3, <3>1
        <3> QED BY <3>2, <3>3
    <2> QED BY <1>4, <2>1, <2>2, <2>3, SeqEqual
<1>8. FlattenSeq(t) = b \o FlattenSeq(u)
    <2>1. FlattenSeq(t) = FlattenSeq(<<b>>) \o FlattenSeq(u)
        BY <1>4, <1>6, FlattenConcat
    <2>2. FlattenSeq(<<b>>) = b
        BY <1>3, FlattenOne
    <2> QED BY <2>1, <2>2
<1>9. Remaining(q, i - 1) = b \o Remaining(q, i)
    <2>1. Remaining(q, i - 1) = FlattenSeq(v) /\ Remaining(q, i) = FlattenSeq(u)
        BY DEF Remaining, u, v, s
    <2> QED BY <2>1, <1>7, <1>8
<1>10. b \o Remaining(q, i) = LineOn(q, i)
    <2> DEFINE l == <<Tok("letters", q[i]), Tok("target", q[i]), Tok("eol", 0)>>
               f == Field("connection", q[i].connection, "")
               g == Field("length", q[i].length, NoLength)
               e == <<Tok("eol", 0)>>
               d == Data(q[i], i)
               w == Remaining(q, i)
    <2>1. d \in Seq(TokenSet) /\ w \in Seq(TokenSet)
        BY <1>1, PartsType
    <2>2. e \in Seq(TokenSet) /\ l \in Seq(TokenSet)
        BY <1>1, TokensType
    <2>3. f \in Seq(TokenSet) /\ g \in Seq(TokenSet)
        BY <1>1, FieldType
    <2>4. b = (((l \o f) \o g) \o e) \o d
        BY DEF Tokens, b
    <2>5. LineOn(q, i) = l \o (f \o (g \o (e \o (d \o w))))
        BY DEF LineOn, ConnectionOn, LengthOn, EndOn, BodyOn
    <2> HIDE DEF l, f, g, e, d, w
    <2> DEFINE k == l \o f
               x == k \o g
               y == x \o e
               dw == d \o w
               edw == e \o dw
               gedw == g \o edw
    <2>6. k \in Seq(TokenSet) /\ dw \in Seq(TokenSet)
        BY <2>1, <2>2, <2>3, ConcatProperties
    <2>7. x \in Seq(TokenSet) /\ edw \in Seq(TokenSet)
        <3> HIDE DEF k, dw
        <3> QED BY <2>2, <2>3, <2>6, ConcatProperties
    <2>8. y \in Seq(TokenSet) /\ gedw \in Seq(TokenSet)
        <3> HIDE DEF x, edw
        <3> QED BY <2>2, <2>3, <2>7, ConcatProperties
    <2>9. (y \o d) \o w = y \o dw
        <3> HIDE DEF y
        <3>1. y \in Seq(TokenSet)
            BY <2>8
        <3>2. d \in Seq(TokenSet)
            BY <2>1
        <3>3. w \in Seq(TokenSet)
            BY <2>1
        <3> QED BY <3>1, <3>2, <3>3, ConcatAssociative, SMTT(30)
    <2>10. (x \o e) \o dw = x \o (e \o dw)
        <3> HIDE DEF x, dw
        <3>1. x \in Seq(TokenSet)
            BY <2>7
        <3>2. e \in Seq(TokenSet)
            BY <2>2
        <3>3. dw \in Seq(TokenSet)
            BY <2>6
        <3> QED BY <3>1, <3>2, <3>3, ConcatAssociative, SMTT(30)
    <2>11. (k \o g) \o edw = k \o (g \o edw)
        <3> HIDE DEF k, edw
        <3>1. k \in Seq(TokenSet)
            BY <2>6
        <3>2. g \in Seq(TokenSet)
            BY <2>3
        <3>3. edw \in Seq(TokenSet)
            BY <2>7
        <3> QED BY <3>1, <3>2, <3>3, ConcatAssociative, SMTT(30)
    <2>12. (l \o f) \o gedw = l \o (f \o gedw)
        <3> HIDE DEF gedw
        <3>1. l \in Seq(TokenSet)
            BY <2>2
        <3>2. f \in Seq(TokenSet)
            BY <2>3
        <3>3. gedw \in Seq(TokenSet)
            BY <2>8
        <3> QED BY <3>1, <3>2, <3>3, ConcatAssociative
    <2>13. b \o w = l \o (f \o gedw)
        BY <2>4, <2>9, <2>10, <2>11, <2>12
    <2> QED BY <2>5, <2>13 DEF w
<1> QED BY <1>9, <1>10

LEMMA RemainingNone ==
    ASSUME NEW q \in Seq(Kinds)
    PROVE  Remaining(q, Len(q)) = <<>>
<1>1. Len(q) - Len(q) = 0
    BY LenProperties
<1>2. [i \in 1..0 |-> Tokens(q[Len(q) + i], Len(q) + i)] = <<>>
    OBVIOUS
<1> QED BY <1>1, <1>2, FlattenEmpty DEF Remaining

-----------------------------------------------------------------------------
(* What each part of a request begins with. *)

LEMMA LineTokens ==
    ASSUME NEW q \in Seq(Kinds), NEW i \in DOMAIN q
    PROVE  LET p == <<Tok("letters", q[i]), Tok("target", q[i]), Tok("eol", 0)>> IN
           /\ p \in Seq(TokenSet) /\ Len(p) = 3 /\ LineOn(q, i) = p \o ConnectionOn(q, i)
           /\ LineOn(q, i)[1] = Tok("letters", q[i])
<1> DEFINE p == <<Tok("letters", q[i]), Tok("target", q[i]), Tok("eol", 0)>>
<1>1. p \in Seq(TokenSet) /\ ConnectionOn(q, i) \in Seq(TokenSet)
    BY PartsType, TokensType
<1>2. Len(p) = 3 /\ 1 \in DOMAIN p /\ p[1] = Tok("letters", q[i])
    OBVIOUS
<1>3. LineOn(q, i) = p \o ConnectionOn(q, i)
    BY DEF LineOn
<1> HIDE DEF p
<1>4. LineOn(q, i)[1] = p[1]
    BY <1>1, <1>2, <1>3, PrefixItems
<1> QED BY <1>1, <1>2, <1>3, <1>4 DEF p

\* A field of the head, followed by t.
LEMMA FieldTokens ==
    ASSUME NEW r \in Kinds, NEW t \in Seq(TokenSet), NEW name \in {"connection", "length"}
    PROVE  LET value == IF name = "connection" THEN r.connection ELSE r.length
               absent == IF name = "connection" THEN "" ELSE NoLength
               p == <<Tok("field", <<name, value>>), Tok("eol", 0)>>
           IN  /\ value = absent => Field(name, value, absent) \o t = t
               /\ value # absent =>
                    /\ p \in Seq(TokenSet) /\ Len(p) = 2
                    /\ Field(name, value, absent) \o t = p \o t
                    /\ (p \o t)[1] = Tok("field", <<name, value>>)
<1> DEFINE value == IF name = "connection" THEN r.connection ELSE r.length
           absent == IF name = "connection" THEN "" ELSE NoLength
           p == <<Tok("field", <<name, value>>), Tok("eol", 0)>>
<1>1. value = absent => Field(name, value, absent) \o t = t
    <2>1. value = absent => Field(name, value, absent) = <<>>
        BY DEF Field
    <2>2. <<>> \o t = t
        BY ConcatEmptySeq
    <2> HIDE DEF value, absent
    <2> QED BY <2>1, <2>2
<1>2. value # absent => Field(name, value, absent) = p
    BY DEF Field
<1>3. p \in Seq(TokenSet)
    <2>1. r.connection \in {"", "close", "Keep-Alive"} /\ r.length \in Nat \cup {NoLength, BadLength}
        BY HttpAssumption
    <2>2. Tok("field", <<name, value>>) \in TokenSet
        BY <2>1 DEF Tok, TokenSet
    <2>3. Tok("eol", 0) \in TokenSet
        BY DEF Tok, TokenSet
    <2>4. \A T : \A a, b \in T : <<a, b>> \in Seq(T)
        OBVIOUS
    <2> QED BY <2>2, <2>3, <2>4, Zenon
<1>4. Len(p) = 2 /\ 1 \in DOMAIN p /\ p[1] = Tok("field", <<name, value>>)
    OBVIOUS
<1>5. (p \o t)[1] = Tok("field", <<name, value>>)
    <2> HIDE DEF p
    <2>1. (p \o t)[1] = p[1]
        BY <1>3, <1>4, PrefixItems
    <2> QED BY <2>1, <1>4
<1> QED BY <1>1, <1>2, <1>3, <1>4, <1>5

LEMMA HeadTokens ==
    ASSUME NEW q \in Seq(Kinds), NEW i \in DOMAIN q
    PROVE  LET c == <<Tok("field", <<"connection", q[i].connection>>), Tok("eol", 0)>>
               l == <<Tok("field", <<"length", q[i].length>>), Tok("eol", 0)>>
               e == <<Tok("eol", 0)>>
           IN  /\ q[i].connection = "" => ConnectionOn(q, i) = LengthOn(q, i)
               /\ q[i].connection # "" =>
                    /\ c \in Seq(TokenSet) /\ Len(c) = 2
                    /\ ConnectionOn(q, i) = c \o LengthOn(q, i)
                    /\ ConnectionOn(q, i)[1] = Tok("field", <<"connection", q[i].connection>>)
               /\ q[i].length = NoLength => LengthOn(q, i) = EndOn(q, i)
               /\ q[i].length # NoLength =>
                    /\ l \in Seq(TokenSet) /\ Len(l) = 2
                    /\ LengthOn(q, i) = l \o EndOn(q, i)
                    /\ LengthOn(q, i)[1] = Tok("field", <<"length", q[i].length>>)
               /\ e \in Seq(TokenSet) /\ Len(e) = 1
               /\ EndOn(q, i) = e \o BodyOn(q, i)
               /\ EndOn(q, i)[1] = Tok("eol", 0)
<1>1. /\ q[i] \in Kinds /\ i \in Nat /\ LengthOn(q, i) \in Seq(TokenSet)
      /\ EndOn(q, i) \in Seq(TokenSet) /\ BodyOn(q, i) \in Seq(TokenSet)
    BY PartsType
<1> DEFINE c == <<Tok("field", <<"connection", q[i].connection>>), Tok("eol", 0)>>
           l == <<Tok("field", <<"length", q[i].length>>), Tok("eol", 0)>>
           e == <<Tok("eol", 0)>>
<1>2. /\ q[i].connection = "" => ConnectionOn(q, i) = LengthOn(q, i)
      /\ q[i].connection # "" =>
            /\ c \in Seq(TokenSet) /\ Len(c) = 2
            /\ ConnectionOn(q, i) = c \o LengthOn(q, i)
            /\ ConnectionOn(q, i)[1] = Tok("field", <<"connection", q[i].connection>>)
    <2> DEFINE t == LengthOn(q, i)
               f == Field("connection", q[i].connection, "")
    <2>1. ConnectionOn(q, i) = f \o t /\ t \in Seq(TokenSet)
        BY <1>1 DEF ConnectionOn
    <2> HIDE DEF t
    <2>2. /\ q[i].connection = "" => f \o t = t
          /\ q[i].connection # "" =>
                /\ c \in Seq(TokenSet) /\ Len(c) = 2 /\ f \o t = c \o t
                /\ (c \o t)[1] = Tok("field", <<"connection", q[i].connection>>)
        BY <1>1, <2>1, FieldTokens
    <2> HIDE DEF c, f
    <2> QED BY <2>1, <2>2 DEF t
<1>3. /\ q[i].length = NoLength => LengthOn(q, i) = EndOn(q, i)
      /\ q[i].length # NoLength =>
            /\ l \in Seq(TokenSet) /\ Len(l) = 2
            /\ LengthOn(q, i) = l \o EndOn(q, i)
            /\ LengthOn(q, i)[1] = Tok("field", <<"length", q[i].length>>)
    BY <1>1, FieldTokens DEF LengthOn
<1>4. /\ e \in Seq(TokenSet) /\ Len(e) = 1 /\ 1 \in DOMAIN e /\ e[1] = Tok("eol", 0)
    BY <1>1, TokensType
<1>5. EndOn(q, i) = e \o BodyOn(q, i)
    BY DEF EndOn
<1>6. EndOn(q, i)[1] = Tok("eol", 0)
    <2> HIDE DEF e
    <2> QED BY <1>1, <1>4, <1>5, PrefixItems
<1> QED BY <1>2, <1>3, <1>4, <1>5, <1>6

LEMMA BodyTokens ==
    ASSUME NEW q \in Seq(Kinds), NEW i \in DOMAIN q
    PROVE  /\ q[i].length \in Nat \cup {NoLength, BadLength}
           /\ q[i].length \in {0, NoLength, BadLength} => BodyOn(q, i) = Remaining(q, i)
           /\ q[i].length \notin {0, NoLength, BadLength} =>
                BodyOn(q, i) # <<>> /\ BodyOn(q, i)[1] = Tok("data", i)
<1>1. /\ q[i] \in Kinds /\ i \in Nat /\ Remaining(q, i) \in Seq(TokenSet)
      /\ Data(q[i], i) \in Seq(TokenSet)
    BY PartsType
<1>2. q[i].length \in Nat \cup {NoLength, BadLength}
    BY <1>1, HttpAssumption
<1>3. CASE q[i].length \in {0, NoLength, BadLength}
    <2>1. Len(Data(q[i], i)) = 0
        BY <1>1, <1>3, DataType DEF NoLength, BadLength
    <2>2. Data(q[i], i) = <<>>
        BY <1>1, <2>1, EmptySeq
    <2> QED BY <1>1, <1>2, <1>3, <2>2, ConcatEmptySeq DEF BodyOn
<1>4. CASE q[i].length \notin {0, NoLength, BadLength}
    <2>1. Len(Data(q[i], i)) \in Nat \ {0}
        BY <1>1, <1>2, <1>4, DataType
    <2>2. 1 \in DOMAIN Data(q[i], i) /\ 1 \in 1..Len(Data(q[i], i))
        BY <1>1, <2>1, LenProperties
    <2>3. Data(q[i], i)[1] = Tok("data", i)
        BY <1>1, <2>2, DataType
    <2> QED BY <1>1, <1>2, <1>4, <2>2, <2>3, PrefixItems DEF BodyOn
<1> QED BY <1>3, <1>4, <1>2

-----------------------------------------------------------------------------
(* Where the parser is in the stream of the client. *)

LineOf(r, s) == r.method = s.method /\ r.path = s.path /\ r.http10 = s.http10
HeadersOf(s) == [connection |-> s.connection, length |-> s.length]

\* The bytes that have not been parsed, read or not, and the number of the request in them.
Left == buffer \o wire
Asked == Len(handed) + 1

\* What is left begins in a body that was passed over: no line is found in it any more.
Lost == Left # <<>> /\ Kind(Left[1]) = "data"

AtLine ==
    /\ request.headers = NoHeaders
    /\ Lost \/ Left = Remaining(sent, Len(handed))

AtHeader ==
    /\ Asked \in DOMAIN sent /\ LineOf(request, sent[Asked])
    /\ \/ Left = ConnectionOn(sent, Asked) /\ request.headers = NoHeaders
       \/ /\ Left = LengthOn(sent, Asked)
          /\ request.headers = [NoHeaders EXCEPT !.connection = sent[Asked].connection]
       \/ Left = EndOn(sent, Asked) /\ request.headers = HeadersOf(sent[Asked])

AtBody ==
    /\ Asked \in DOMAIN sent /\ LineOf(request, sent[Asked])
    /\ request.headers = HeadersOf(sent[Asked])
    /\ Left = BodyOn(sent, Asked)
    /\ sent[Asked].length \notin {NoLength, BadLength} /\ contentLength \in {0, sent[Asked].length}

AtEnd ==
    /\ Asked \in DOMAIN sent /\ LineOf(request, sent[Asked])
    /\ request.headers = HeadersOf(sent[Asked])
    /\ HasBody(Asked) => request.body \in {<<>>, Data(sent[Asked], Asked)}
    /\ Lost \/ Left = Remaining(sent, Asked)

StreamType ==
    /\ sent \in Seq(Kinds) /\ buffer \in Seq(TokenSet) /\ wire \in Seq(TokenSet)
    /\ \E S : handed \in Seq(S)
    /\ request = [method |-> request.method, path |-> request.path, http10 |-> request.http10,
                  headers |-> request.headers, body |-> request.body]

ParsePlace ==
    /\ state \in {"kExpectRequestLine", "kExpectRequestHeader", "kExpectRequestBody", "kGotAll"}
    /\ state = "kExpectRequestLine" => AtLine
    /\ state = "kExpectRequestHeader" => AtHeader
    /\ state = "kExpectRequestBody" => AtBody
    /\ state = "kGotAll" => AtEnd

ParseInv == StreamType /\ HandedAsSent /\ (failed = "none" => ParsePlace)

\* The line of the next request is what a parser that sees a method has before it.
LEMMA LineSeen ==
    ASSUME StreamType, HandedAsSent, AtLine, SeesLine
    PROVE  /\ Asked \in DOMAIN sent /\ buffer[1] = Tok("letters", sent[Asked])
           /\ Rest(3) \in Seq(TokenSet) /\ Rest(3) \o wire = ConnectionOn(sent, Asked)
<1> USE DEF StreamType
<1>1. /\ 1 \in DOMAIN buffer /\ Kind(buffer[1]) = "letters" /\ Kind(buffer[2]) = "target"
      /\ Len(buffer) \in Nat /\ DOMAIN buffer = 1..Len(buffer)
    BY LenProperties DEF SeesLine, SeesMethod
<1>2. Left # <<>> /\ Left[1] = buffer[1]
    BY <1>1, PrefixItems DEF Left
<1>3. Left = Remaining(sent, Len(handed))
    <2>1. "letters" # "data"
        OBVIOUS
    <2> QED BY <1>1, <1>2, <2>1, Zenon DEF AtLine, Lost
<1>4. Asked \in DOMAIN sent /\ Len(handed) = Asked - 1
    <2>1. Len(handed) \in Nat /\ Len(sent) \in Nat /\ DOMAIN sent = 1..Len(sent)
        BY LenProperties
    <2>2. Len(handed) <= Len(sent)
        BY DEF HandedAsSent
    <2>3. Len(handed) # Len(sent)
        BY <1>2, <1>3, RemainingNone
    <2> QED BY <2>1, <2>2, <2>3 DEF Asked
<1>5. Left = LineOn(sent, Asked)
    BY <1>3, <1>4, RemainingParts
<1> DEFINE p == <<Tok("letters", sent[Asked]), Tok("target", sent[Asked]), Tok("eol", 0)>>
           t == ConnectionOn(sent, Asked)
<1>6. /\ p \in Seq(TokenSet) /\ Len(p) = 3 /\ LineOn(sent, Asked) = p \o t
      /\ LineOn(sent, Asked)[1] = Tok("letters", sent[Asked])
    BY <1>4, LineTokens
<1>7. t \in Seq(TokenSet)
    BY <1>4, PartsType
<1>8. Len(buffer) >= 3
    <2>1. PICK i \in DOMAIN buffer : Kind(buffer[i]) = "eol"
        BY DEF SeesLine, LineComplete
    <2>2. i # 1 /\ i # 2
        BY <1>1, <2>1
    <2> QED BY <1>1, <2>1, <2>2
<1> HIDE DEF p, t
<1>9. Rest(3) \in Seq(TokenSet) /\ Rest(3) \o wire = t
    <2>1. buffer \o wire = p \o t /\ Len(p) <= Len(buffer)
        BY <1>5, <1>6, <1>8 DEF Left
    <2>2. /\ SubSeq(buffer, Len(p) + 1, Len(buffer)) \in Seq(TokenSet)
          /\ SubSeq(buffer, Len(p) + 1, Len(buffer)) \o wire = t
        <3>1. buffer \in Seq(TokenSet) /\ wire \in Seq(TokenSet)
            OBVIOUS
        <3>2. SubSeq(buffer, Len(p) + 1, Len(buffer)) \in Seq(TokenSet)
            BY <1>6, <1>7, <2>1, <3>1, CutPrefix
        <3>3. SubSeq(buffer, Len(p) + 1, Len(buffer)) \o wire = t
            BY <1>6, <1>7, <2>1, <3>1, CutRest
        <3> QED BY <3>2, <3>3
    <2> QED BY <1>6, <2>2 DEF Rest
<1> QED BY <1>2, <1>4, <1>5, <1>6, <1>9 DEF t

\* The three places of the head, told apart by what is left of the fields.
LEMMA HeaderPlaces ==
    ASSUME StreamType, AtHeader
    PROVE  LET r == sent[Asked] IN
           \/ /\ r.connection # "" /\ Left = ConnectionOn(sent, Asked)
              /\ request.headers = NoHeaders
           \/ /\ r.length # NoLength /\ Left = LengthOn(sent, Asked)
              /\ request.headers = [NoHeaders EXCEPT !.connection = r.connection]
           \/ Left = EndOn(sent, Asked) /\ request.headers = HeadersOf(r)
<1>1. sent \in Seq(Kinds) /\ Asked \in DOMAIN sent
    BY DEF StreamType, AtHeader
<1>2. /\ sent[Asked].connection = "" => ConnectionOn(sent, Asked) = LengthOn(sent, Asked)
      /\ sent[Asked].length = NoLength => LengthOn(sent, Asked) = EndOn(sent, Asked)
    BY <1>1, HeadTokens
<1>0. \A c, l, d :
        [[connection |-> c, length |-> l] EXCEPT !.connection = d]
            = [connection |-> d, length |-> l]
    OBVIOUS
<1>3. NoHeaders = [NoHeaders EXCEPT !.connection = ""]
    BY <1>0 DEF NoHeaders
<1>4. sent[Asked].length = NoLength =>
        [NoHeaders EXCEPT !.connection = sent[Asked].connection] = HeadersOf(sent[Asked])
    <2>1. [NoHeaders EXCEPT !.connection = sent[Asked].connection]
            = [connection |-> sent[Asked].connection, length |-> NoLength]
        BY <1>0 DEF NoHeaders
    <2> QED BY <2>1 DEF HeadersOf
<1> QED BY <1>2, <1>3, <1>4 DEF AtHeader

\* What follows the first n tokens, where they are those of p and have been read.
LEMMA RestIs ==
    ASSUME StreamType, NEW p \in Seq(TokenSet), NEW t \in Seq(TokenSet), Left = p \o t,
           Len(p) <= Len(buffer)
    PROVE  /\ SubSeq(buffer, 1, Len(p)) = p
           /\ Rest(Len(p)) \in Seq(TokenSet) /\ Rest(Len(p)) \o wire = t
<1>1. buffer \in Seq(TokenSet) /\ wire \in Seq(TokenSet) /\ buffer \o wire = p \o t
    BY DEF StreamType, Left
<1>2. SubSeq(buffer, 1, Len(p)) = p
    BY <1>1, CutPrefix
<1>3. SubSeq(buffer, Len(p) + 1, Len(buffer)) \in Seq(TokenSet)
    BY <1>1, CutPrefix
<1>4. SubSeq(buffer, Len(p) + 1, Len(buffer)) \o wire = t
    BY <1>1, CutRest
<1> QED BY <1>2, <1>3, <1>4 DEF Rest

LEMMA ReadKeeps ==
    ASSUME ParseInv, NEW n \in 1..Len(wire), Read(n)
    PROVE  ParseInv'
<1>1. /\ buffer \in Seq(TokenSet) /\ wire \in Seq(TokenSet) /\ ParsePlace
      /\ buffer' = buffer \o SubSeq(wire, 1, n)
      /\ wire' = SubSeq(wire, n + 1, Len(wire)) /\ contentLength' = 0
      /\ UNCHANGED <<sent, state, request, handed, failed>>
    BY DEF ParseInv, StreamType, Read
<1> DEFINE a == SubSeq(wire, 1, n)
           b == SubSeq(wire, n + 1, Len(wire))
<1>2. a \in Seq(TokenSet) /\ b \in Seq(TokenSet) /\ wire = a \o b
    <2>1. wire \in Seq(TokenSet) /\ n \in 1..Len(wire) /\ Len(wire) \in Nat
        BY <1>1, LenProperties
    <2>2. \A i \in 1..Len(wire) : wire[i] \in TokenSet
        BY <2>1, ElementOfSeq
    <2>3. /\ a \in Seq(TokenSet) /\ Len(a) = n
          /\ \A i \in 1..n : a[i] = wire[i]
        BY <2>1, <2>2
    <2>4. /\ b \in Seq(TokenSet) /\ Len(b) = Len(wire) - n
          /\ \A i \in 1..(Len(wire) - n) : b[i] = wire[n + i]
        BY <2>1, <2>2
    <2> HIDE DEF a, b
    <2> DEFINE c == a \o b
    <2>5. /\ c \in Seq(TokenSet) /\ Len(c) = Len(a) + Len(b)
          /\ \A i \in 1..(Len(a) + Len(b)) : c[i] = IF i <= Len(a) THEN a[i] ELSE b[i - Len(a)]
        BY <2>3, <2>4, ConcatProperties
    <2> HIDE DEF c
    <2>6. Len(c) = Len(wire)
        BY <2>1, <2>3, <2>4, <2>5
    <2>7. ASSUME NEW i \in 1..Len(wire) PROVE c[i] = wire[i]
        <3>1. CASE i <= n
            BY <3>1, <2>1, <2>3, <2>4, <2>5
        <3>2. CASE ~(i <= n)
            <4>1. i - n \in 1..(Len(wire) - n) /\ n + (i - n) = i
                BY <3>2, <2>1
            <4>2. c[i] = b[i - n]
                BY <3>2, <2>1, <2>3, <2>4, <2>5
            <4>3. b[i - n] = wire[n + (i - n)]
                BY <4>1, <2>4
            <4> QED BY <4>1, <4>2, <4>3
        <3> QED BY <3>1, <3>2
    <2>8. c = wire
        BY <2>1, <2>5, <2>6, <2>7, SeqEqual
    <2> QED BY <2>3, <2>4, <2>8 DEF c
<1>3. buffer' = buffer \o a /\ wire' = b
    BY <1>1
<1> HIDE DEF a, b
<1>4. (buffer \o a) \o b = buffer \o (a \o b)
    <2>1. buffer \in Seq(TokenSet)
        BY <1>1
    <2>2. a \in Seq(TokenSet)
        BY <1>2
    <2>3. b \in Seq(TokenSet)
        BY <1>2
    <2> QED BY <2>1, <2>2, <2>3, ConcatAssociative, SMTT(30)
<1>5. Left' = Left
    BY <1>2, <1>3, <1>4 DEF Left
<1>6. buffer' \in Seq(TokenSet) /\ wire' \in Seq(TokenSet)
    BY <1>1, <1>2, <1>3, ConcatProperties
<1>7. StreamType'
    BY <1>1, <1>6 DEF StreamType, ParseInv
<1>8. HandedAsSent'
    BY <1>1 DEF HandedAsSent, HasBody, ParseInv
<1>9. ParsePlace'
    BY <1>1, <1>5 DEF ParsePlace, AtLine, AtHeader, AtBody, AtEnd, Asked, Lost, HasBody
<1> QED BY <1>7, <1>8, <1>9 DEF ParseInv

\* The steps that end the program, and those that answer 400 or wait.
LEMMA OtherStepsKeep ==
    ASSUME ParseInv,
           \/ ParseMethodAgain \/ ParseLineStaleEnd \/ ParseHeadCut \/ ParseLengthThrows
           \/ ParseLineFails \/ ParseBodyWaits \/ UNCHANGED hvars
    PROVE  ParseInv'
<1>1. UNCHANGED <<sent, wire, buffer, state, contentLength, handed>>
    BY DEF ParseMethodAgain, ParseLineStaleEnd, ParseHeadCut, ParseLineFails, ParseBodyWaits,
           ParseLengthThrows, Fail, hvars
<1>2. Left' = Left /\ Asked' = Asked /\ HandedAsSent'
    BY <1>1 DEF Left, Asked, ParseInv, HandedAsSent, HasBody
<1>3. CASE UNCHANGED request
    <2>1. StreamType'
        BY <1>1, <1>3 DEF StreamType, ParseInv
    <2>2. failed' = "none" => failed = "none"
        BY DEF ParseMethodAgain, ParseLineStaleEnd, ParseHeadCut, ParseLineFails, ParseBodyWaits,
               ParseLengthThrows, Fail, Parsing, hvars
    <2>3. ParsePlace => ParsePlace'
        BY <1>1, <1>2, <1>3 DEF ParsePlace, AtLine, AtHeader, AtBody, AtEnd, Lost, HasBody
    <2> QED BY <1>2, <2>1, <2>2, <2>3 DEF ParseInv
<1>4. CASE ParseLineFails
    <2>1. /\ state = "kExpectRequestLine" /\ failed = "none" /\ failed' = failed
          /\ request' = request \/ request' = [request EXCEPT !.method = buffer[1][2].method]
        BY <1>4 DEF ParseLineFails, Parsing
    <2>2. StreamType'
        BY <1>1, <2>1 DEF StreamType, ParseInv
    <2>3. request'.headers = request.headers
        BY <2>1 DEF StreamType, ParseInv
    <2>4. AtLine'
        BY <1>1, <1>2, <2>1, <2>3 DEF ParseInv, ParsePlace, AtLine, Lost
    <2>5. ParsePlace'
        BY <1>1, <2>1, <2>4 DEF ParsePlace
    <2> QED BY <1>2, <2>2, <2>5 DEF ParseInv
<1> QED BY <1>3, <1>4 DEF ParseMethodAgain, ParseLineStaleEnd, ParseHeadCut, ParseBodyWaits,
                      ParseLengthThrows, Fail, hvars

LEMMA LineStepKeeps ==
    ASSUME ParseInv, ParseRequestLine
    PROVE  ParseInv'
<1>1. /\ StreamType /\ HandedAsSent /\ AtLine /\ SeesLine
      /\ buffer' = Rest(3) /\ state' = "kExpectRequestHeader"
      /\ request' = [request EXCEPT !.method = buffer[1][2].method,
                                    !.path = buffer[1][2].path, !.http10 = buffer[1][2].http10]
      /\ UNCHANGED <<sent, wire, handed>>
    BY DEF ParseInv, ParsePlace, ParseRequestLine, Parsing
<1>2. /\ Asked \in DOMAIN sent /\ buffer[1] = Tok("letters", sent[Asked])
      /\ Rest(3) \in Seq(TokenSet) /\ Rest(3) \o wire = ConnectionOn(sent, Asked)
    BY <1>1, LineSeen
<1>3. LineOf(request', sent[Asked]) /\ request'.headers = NoHeaders
    <2>1. buffer[1][2] = sent[Asked]
        BY <1>2 DEF Tok
    <2> QED BY <1>1, <2>1 DEF LineOf, StreamType, AtLine
<1>4. StreamType'
    BY <1>1, <1>2 DEF StreamType
<1>5. Left' = ConnectionOn(sent, Asked) /\ Asked' = Asked
    BY <1>1, <1>2 DEF Left, Asked
<1>6. AtHeader'
    BY <1>1, <1>2, <1>3, <1>5 DEF AtHeader
<1>7. HandedAsSent'
    BY <1>1 DEF HandedAsSent, HasBody
<1> QED BY <1>1, <1>4, <1>6, <1>7 DEF ParseInv, ParsePlace

LEMMA HeaderStepKeeps ==
    ASSUME ParseInv, ParseHeader
    PROVE  ParseInv'
<1> DEFINE r == sent[Asked]
           k == buffer[1][2]
<1>1. /\ StreamType /\ HandedAsSent /\ AtHeader
      /\ Kind(buffer[1]) = "field" /\ Len(buffer) > 2
      /\ buffer' = Rest(2) /\ state' = state /\ state = "kExpectRequestHeader"
      /\ request' = [request EXCEPT !.headers[k[1]] = k[2]]
      /\ UNCHANGED <<sent, wire, handed>>
    BY DEF ParseInv, ParsePlace, ParseHeader, Parsing
<1>2. /\ sent \in Seq(Kinds) /\ Asked \in DOMAIN sent /\ LineOf(request, r)
      /\ buffer \in Seq(TokenSet) /\ wire \in Seq(TokenSet)
    BY <1>1 DEF StreamType, AtHeader
<1>3. Left # <<>> /\ Left[1] = buffer[1]
    <2>1. 1 \in DOMAIN buffer
        BY <1>1, <1>2, LenProperties
    <2> QED BY <1>2, <2>1, PrefixItems DEF Left
<1> DEFINE c == <<Tok("field", <<"connection", r.connection>>), Tok("eol", 0)>>
           l == <<Tok("field", <<"length", r.length>>), Tok("eol", 0)>>
<1>4. /\ r.connection # "" =>
            /\ c \in Seq(TokenSet) /\ Len(c) = 2
            /\ ConnectionOn(sent, Asked) = c \o LengthOn(sent, Asked)
            /\ ConnectionOn(sent, Asked)[1] = Tok("field", <<"connection", r.connection>>)
      /\ r.length # NoLength =>
            /\ l \in Seq(TokenSet) /\ Len(l) = 2
            /\ LengthOn(sent, Asked) = l \o EndOn(sent, Asked)
            /\ LengthOn(sent, Asked)[1] = Tok("field", <<"length", r.length>>)
      /\ EndOn(sent, Asked)[1] = Tok("eol", 0)
    BY <1>2, HeadTokens
<1>5. LengthOn(sent, Asked) \in Seq(TokenSet) /\ EndOn(sent, Asked) \in Seq(TokenSet)
    BY <1>2, PartsType
<1>6. 2 <= Len(buffer)
    <2>1. Len(buffer) \in Nat
        BY <1>2, LenProperties
    <2> QED BY <1>1, <2>1
<1>7. HandedAsSent' /\ Asked' = Asked
    BY <1>1 DEF HandedAsSent, HasBody, Asked
<1>8. /\ request' = [method |-> request'.method, path |-> request'.path,
                     http10 |-> request'.http10, headers |-> request'.headers,
                     body |-> request'.body]
      /\ request'.method = request.method /\ request'.path = request.path
      /\ request'.http10 = request.http10
      /\ request'.headers = [request.headers EXCEPT ![k[1]] = k[2]]
    BY <1>1 DEF StreamType
<1>9. LineOf(request', r)
    BY <1>2, <1>8 DEF LineOf
<1>10. CASE /\ r.connection # "" /\ Left = ConnectionOn(sent, Asked)
            /\ request.headers = NoHeaders
    <2> HIDE DEF c, l
    <2>1. Rest(Len(c)) \in Seq(TokenSet) /\ Rest(Len(c)) \o wire = LengthOn(sent, Asked)
        <3> DEFINE t == LengthOn(sent, Asked)
        <3>1. /\ c \in Seq(TokenSet) /\ t \in Seq(TokenSet) /\ Left = c \o t
              /\ Len(c) <= Len(buffer)
            BY <1>4, <1>5, <1>6, <1>10, Zenon
        <3> HIDE DEF t
        <3>2. Rest(Len(c)) \in Seq(TokenSet) /\ Rest(Len(c)) \o wire = t
            BY <1>1, <3>1, RestIs
        <3> QED BY <3>2 DEF t
    <2>2. buffer' \in Seq(TokenSet) /\ Left' = LengthOn(sent, Asked)
        BY <1>1, <1>4, <1>10, <2>1 DEF Left
    <2>3. k = <<"connection", r.connection>>
        <3>1. Left[1] = ConnectionOn(sent, Asked)[1]
            BY <1>10, Zenon
        <3>2. ConnectionOn(sent, Asked)[1] = Tok("field", <<"connection", r.connection>>)
            BY <1>4, <1>10
        <3>3. buffer[1] = Tok("field", <<"connection", r.connection>>)
            BY <1>3, <3>1, <3>2, Zenon
        <3> QED BY <3>3 DEF Tok
    <2>4. request'.headers = [NoHeaders EXCEPT !.connection = r.connection]
        <3>1. k[1] = "connection" /\ k[2] = r.connection
            BY <2>3
        <3> QED BY <1>8, <1>10, <3>1
    <2>5. AtHeader'
        BY <1>1, <1>2, <1>7, <1>9, <2>2, <2>4 DEF AtHeader
    <2>6. StreamType'
        BY <1>1, <1>8, <2>2 DEF StreamType
    <2> QED BY <1>1, <1>7, <2>5, <2>6 DEF ParseInv, ParsePlace
<1>11. CASE /\ r.length # NoLength /\ Left = LengthOn(sent, Asked)
            /\ request.headers = [NoHeaders EXCEPT !.connection = r.connection]
    <2> HIDE DEF c, l
    <2>1. Rest(Len(l)) \in Seq(TokenSet) /\ Rest(Len(l)) \o wire = EndOn(sent, Asked)
        <3> DEFINE t == EndOn(sent, Asked)
        <3>1. /\ l \in Seq(TokenSet) /\ t \in Seq(TokenSet) /\ Left = l \o t
              /\ Len(l) <= Len(buffer)
            BY <1>4, <1>5, <1>6, <1>11, Zenon
        <3> HIDE DEF t
        <3>2. Rest(Len(l)) \in Seq(TokenSet) /\ Rest(Len(l)) \o wire = t
            BY <1>1, <3>1, RestIs
        <3> QED BY <3>2 DEF t
    <2>2. buffer' \in Seq(TokenSet) /\ Left' = EndOn(sent, Asked)
        BY <1>1, <1>4, <1>11, <2>1 DEF Left
    <2>3. k = <<"length", r.length>>
        <3>1. Left[1] = LengthOn(sent, Asked)[1]
            BY <1>11, Zenon
        <3>2. LengthOn(sent, Asked)[1] = Tok("field", <<"length", r.length>>)
            BY <1>4, <1>11
        <3>3. buffer[1] = Tok("field", <<"length", r.length>>)
            BY <1>3, <3>1, <3>2, Zenon
        <3> QED BY <3>3 DEF Tok
    <2>4. request'.headers = HeadersOf(r)
        <3>1. \A a, b, x, y :
                [[[connection |-> a, length |-> b] EXCEPT !.connection = x] EXCEPT !["length"] = y]
                    = [connection |-> x, length |-> y]
            <4>1. \A a, b, x : [[connection |-> a, length |-> b] EXCEPT !.connection = x]
                                 = [connection |-> x, length |-> b]
                OBVIOUS
            <4>2. \A x, b, y : [[connection |-> x, length |-> b] EXCEPT !["length"] = y]
                                 = [connection |-> x, length |-> y]
                OBVIOUS
            <4> QED BY <4>1, <4>2, Zenon
        <3>2. request.headers
                = [[connection |-> "", length |-> NoLength] EXCEPT !.connection = r.connection]
            BY <1>11 DEF NoHeaders
        <3>3. request'.headers = [request.headers EXCEPT !["length"] = r.length]
            BY <1>8, <2>3
        <3> QED BY <3>1, <3>2, <3>3 DEF HeadersOf
    <2>5. AtHeader'
        BY <1>1, <1>2, <1>7, <1>9, <2>2, <2>4 DEF AtHeader
    <2>6. StreamType'
        BY <1>1, <1>8, <2>2 DEF StreamType
    <2> QED BY <1>1, <1>7, <2>5, <2>6 DEF ParseInv, ParsePlace
<1>12. CASE Left = EndOn(sent, Asked)
    <2>1. Left[1] = EndOn(sent, Asked)[1]
        BY <1>12, Zenon
    <2>2. buffer[1] = Tok("eol", 0)
        BY <1>3, <1>4, <2>1, Zenon
    <2> QED BY <1>1, <2>2 DEF Kind, Tok
<1> QED BY <1>1, <1>10, <1>11, <1>12, HeaderPlaces

LEMMA HeadersEndKeeps ==
    ASSUME ParseInv, ParseHeadersEnd
    PROVE  ParseInv'
<1> DEFINE r == sent[Asked]
           e == <<Tok("eol", 0)>>
<1>1. /\ StreamType /\ HandedAsSent /\ AtHeader
      /\ Kind(buffer[1]) = "eol" /\ LineComplete
      /\ buffer' = Rest(1)
      /\ request.headers.length # BadLength
      /\ IF request.headers.length # NoLength
         THEN state' = "kExpectRequestBody" /\ contentLength' = request.headers.length
         ELSE state' = "kGotAll"
      /\ UNCHANGED <<sent, wire, handed, request>>
    BY DEF ParseInv, ParsePlace, ParseHeadersEnd, Parsing
<1>2. /\ sent \in Seq(Kinds) /\ Asked \in DOMAIN sent /\ LineOf(request, r)
      /\ buffer \in Seq(TokenSet) /\ wire \in Seq(TokenSet)
    BY <1>1 DEF StreamType, AtHeader
<1>3. 1 \in DOMAIN buffer /\ 1 <= Len(buffer)
    <2>1. Len(buffer) \in Nat /\ DOMAIN buffer = 1..Len(buffer)
        BY <1>2, LenProperties
    <2> QED BY <1>1, <2>1 DEF LineComplete
<1>4. Left # <<>> /\ Left[1] = buffer[1]
    BY <1>2, <1>3, PrefixItems DEF Left
<1>5. /\ r.connection # "" =>
            ConnectionOn(sent, Asked)[1] = Tok("field", <<"connection", r.connection>>)
      /\ r.length # NoLength =>
            LengthOn(sent, Asked)[1] = Tok("field", <<"length", r.length>>)
      /\ e \in Seq(TokenSet) /\ Len(e) = 1 /\ EndOn(sent, Asked) = e \o BodyOn(sent, Asked)
    BY <1>2, HeadTokens
<1>6. BodyOn(sent, Asked) \in Seq(TokenSet)
    BY <1>2, PartsType
<1>7. Left = EndOn(sent, Asked) /\ request.headers = HeadersOf(r)
    <2>1. r.connection # "" => Left # ConnectionOn(sent, Asked)
        <3> SUFFICES ASSUME r.connection # "", Left = ConnectionOn(sent, Asked)
                     PROVE  FALSE
            OBVIOUS
        <3>1. Left[1] = ConnectionOn(sent, Asked)[1]
            BY Zenon
        <3>2. ConnectionOn(sent, Asked)[1] = Tok("field", <<"connection", r.connection>>)
            BY <1>5
        <3>3. buffer[1] = Tok("field", <<"connection", r.connection>>)
            BY <1>4, <3>1, <3>2, Zenon
        <3>4. Kind(buffer[1]) = "field"
            <4>1. \A x : Kind(Tok("field", x)) = "field"
                BY DEF Kind, Tok
            <4> QED BY <3>3, <4>1, Zenon
        <3>5. Kind(buffer[1]) = "eol" /\ "eol" # "field"
            BY <1>1
        <3> QED BY <3>4, <3>5, Zenon
    <2>2. r.length # NoLength => Left # LengthOn(sent, Asked)
        <3> SUFFICES ASSUME r.length # NoLength, Left = LengthOn(sent, Asked)
                     PROVE  FALSE
            OBVIOUS
        <3>1. Left[1] = LengthOn(sent, Asked)[1]
            BY Zenon
        <3>2. LengthOn(sent, Asked)[1] = Tok("field", <<"length", r.length>>)
            BY <1>5
        <3>3. buffer[1] = Tok("field", <<"length", r.length>>)
            BY <1>4, <3>1, <3>2, Zenon
        <3>4. Kind(buffer[1]) = "field"
            <4>1. \A x : Kind(Tok("field", x)) = "field"
                BY DEF Kind, Tok
            <4> QED BY <3>3, <4>1, Zenon
        <3>5. Kind(buffer[1]) = "eol" /\ "eol" # "field"
            BY <1>1
        <3> QED BY <3>4, <3>5, Zenon
    <2> QED BY <1>1, <2>1, <2>2, HeaderPlaces
<1>8. buffer' \in Seq(TokenSet) /\ Left' = BodyOn(sent, Asked)
    <2> HIDE DEF e
    <2>1. Rest(Len(e)) \in Seq(TokenSet) /\ Rest(Len(e)) \o wire = BodyOn(sent, Asked)
        BY <1>1, <1>3, <1>5, <1>6, <1>7, RestIs
    <2> QED BY <1>1, <1>5, <2>1 DEF Left
<1>9. HandedAsSent' /\ Asked' = Asked /\ StreamType'
    BY <1>1, <1>8 DEF HandedAsSent, HasBody, Asked, StreamType
<1>10. request.headers.length = r.length
    BY <1>7 DEF HeadersOf
<1>11. CASE r.length # NoLength
    <2>1. state' = "kExpectRequestBody" /\ contentLength' = r.length
        BY <1>1, <1>10, <1>11
    <2>2. AtBody'
        BY <1>1, <1>2, <1>7, <1>8, <1>9, <1>10, <1>11, <2>1 DEF AtBody
    <2> QED BY <1>9, <2>1, <2>2 DEF ParseInv, ParsePlace
<1>12. CASE r.length = NoLength
    <2>1. state' = "kGotAll"
        BY <1>1, <1>10, <1>12
    <2>2. BodyOn(sent, Asked) = Remaining(sent, Asked)
        BY <1>2, <1>12, BodyTokens
    <2>3. ~HasBody(Asked)
        BY <1>12 DEF HasBody, NoLength
    <2>4. AtEnd'
        BY <1>1, <1>2, <1>7, <1>8, <1>9, <2>2, <2>3 DEF AtEnd, HasBody
    <2> QED BY <1>9, <2>1, <2>4 DEF ParseInv, ParsePlace
<1> QED BY <1>11, <1>12

LEMMA BodyStepKeeps ==
    ASSUME ParseInv, ParseBody
    PROVE  ParseInv'
<1> DEFINE r == sent[Asked]
           n == contentLength
           d == Data(r, Asked)
<1>1. /\ StreamType /\ HandedAsSent /\ AtBody
      /\ Len(buffer) >= n
      /\ request' = [request EXCEPT !.body = SubSeq(buffer, 1, n)]
      /\ buffer' = Rest(n) /\ state' = "kGotAll"
      /\ UNCHANGED <<sent, wire, handed>>
    BY DEF ParseInv, ParsePlace, ParseBody, Parsing
<1>2. /\ sent \in Seq(Kinds) /\ Asked \in DOMAIN sent /\ LineOf(request, r)
      /\ buffer \in Seq(TokenSet) /\ wire \in Seq(TokenSet)
      /\ request.headers = HeadersOf(r) /\ Left = BodyOn(sent, Asked)
      /\ r.length \notin {NoLength, BadLength} /\ n \in {0, r.length}
    BY <1>1 DEF StreamType, AtBody
<1>3. /\ d \in Seq(TokenSet) /\ Remaining(sent, Asked) \in Seq(TokenSet)
      /\ r \in Kinds /\ Asked \in Nat /\ Left = d \o Remaining(sent, Asked)
    BY <1>2, PartsType DEF BodyOn
<1>4. r.length \in Nat /\ Len(d) = r.length
    BY <1>2, <1>3, BodyTokens, DataType
<1>5. /\ request' = [method |-> request'.method, path |-> request'.path,
                     http10 |-> request'.http10, headers |-> request'.headers,
                     body |-> request'.body]
      /\ request'.method = request.method /\ request'.path = request.path
      /\ request'.http10 = request.http10 /\ request'.headers = request.headers
      /\ request'.body = SubSeq(buffer, 1, n)
    BY <1>1 DEF StreamType
<1>6. HandedAsSent' /\ Asked' = Asked
    BY <1>1 DEF HandedAsSent, HasBody, Asked
<1>7. LineOf(request', r) /\ request'.headers = HeadersOf(r)
    BY <1>2, <1>5 DEF LineOf
<1>8. CASE n = r.length
    <2> HIDE DEF d
    <2>1. Len(d) <= Len(buffer) /\ Len(d) = n
        BY <1>1, <1>4, <1>8
    <2>2. SubSeq(buffer, 1, Len(d)) = d
        BY <1>1, <1>3, <2>1, RestIs
    <2>3. Rest(Len(d)) \in Seq(TokenSet) /\ Rest(Len(d)) \o wire = Remaining(sent, Asked)
        BY <1>1, <1>3, <2>1, RestIs
    <2>4. request'.body = d /\ buffer' \in Seq(TokenSet) /\ Left' = Remaining(sent, Asked)
        BY <1>1, <1>5, <2>1, <2>2, <2>3 DEF Left
    <2>5. StreamType'
        BY <1>1, <1>5, <2>4 DEF StreamType
    <2>6. AtEnd'
        BY <1>1, <1>2, <1>6, <1>7, <2>4 DEF AtEnd, HasBody, d
    <2> QED BY <1>1, <1>6, <2>5, <2>6 DEF ParseInv, ParsePlace
<1>9. CASE n = 0 /\ r.length # 0
    <2>1. Len(buffer) \in Nat
        BY <1>2, LenProperties
    <2>2. SubSeq(buffer, 1, 0) = <<>>
        BY <1>2
    <2>3. Rest(0) = buffer
        <3>1. \A i \in 1..Len(buffer) : buffer[i] \in TokenSet
            BY <1>2, ElementOfSeq
        <3>2. /\ Rest(0) \in Seq(TokenSet) /\ Len(Rest(0)) = Len(buffer)
              /\ \A i \in 1..Len(buffer) : Rest(0)[i] = buffer[i]
            BY <1>2, <2>1, <3>1 DEF Rest
        <3> QED BY <1>2, <3>2, SeqEqual
    <2>4. request'.body = <<>> /\ buffer' = buffer /\ Left' = Left
        BY <1>1, <1>5, <1>9, <2>2, <2>3 DEF Left
    <2>5. BodyOn(sent, Asked) # <<>> /\ BodyOn(sent, Asked)[1] = Tok("data", Asked)
        BY <1>2, <1>9, BodyTokens
    <2>6. Left # <<>> /\ Left[1] = Tok("data", Asked)
        BY <1>2, <2>5, Zenon
    <2>7. Lost'
        BY <2>4, <2>6 DEF Lost, Kind, Tok
    <2>8. StreamType'
        BY <1>1, <1>2, <1>5, <2>4 DEF StreamType
    <2>9. AtEnd'
        BY <1>1, <1>2, <1>6, <1>7, <2>4, <2>7 DEF AtEnd, HasBody
    <2> QED BY <1>1, <1>6, <2>8, <2>9 DEF ParseInv, ParsePlace
<1> QED BY <1>2, <1>8, <1>9

LEMMA HandOverKeeps ==
    ASSUME ParseInv, OnRequest
    PROVE  ParseInv'
<1>1. /\ StreamType /\ HandedAsSent /\ AtEnd
      /\ handed' = Append(handed, request)
      /\ state' = "kExpectRequestLine" /\ request' = Cleaned(request)
      /\ UNCHANGED <<sent, wire, buffer>>
    BY DEF ParseInv, ParsePlace, OnRequest, Parsing
<1>2. PICK S : handed \in Seq(S)
    BY <1>1 DEF StreamType
<1>3. handed \in Seq(S \cup {request}) /\ request \in S \cup {request}
    BY <1>2
<1>4. /\ handed' \in Seq(S \cup {request}) /\ Len(handed') = Asked /\ Len(handed) \in Nat
      /\ DOMAIN handed' = 1..Asked /\ DOMAIN handed = 1..Len(handed)
      /\ \A i \in 1..Len(handed) : handed'[i] = handed[i]
      /\ handed'[Asked] = request
    BY <1>1, <1>3 DEF Asked
<1>5. HandedAsSent'
    <2>1. Asked \in 1..Len(sent) /\ Len(sent) \in Nat
        BY <1>1, LenProperties DEF AtEnd, StreamType
    <2>2. ASSUME NEW i \in DOMAIN handed'
          PROVE  /\ handed'[i].method = sent[i].method /\ handed'[i].path = sent[i].path
                 /\ handed'[i].http10 = sent[i].http10
                 /\ handed'[i].headers = [connection |-> sent[i].connection,
                                          length |-> sent[i].length]
                 /\ HasBody(i) => handed'[i].body \in {<<>>, Data(sent[i], i)}
        <3>1. CASE i = Asked
            BY <1>1, <1>4, <3>1 DEF AtEnd, LineOf, HeadersOf
        <3>2. CASE i # Asked
            <4>1. i \in DOMAIN handed /\ handed'[i] = handed[i]
                BY <1>4, <3>2 DEF Asked
            <4> QED BY <1>1, <4>1 DEF HandedAsSent
        <3> QED BY <3>1, <3>2
    <2> QED BY <1>1, <1>4, <2>1, <2>2 DEF HandedAsSent, HasBody
<1>6. StreamType'
    BY <1>1, <1>4 DEF StreamType, Cleaned, NewRequest
<1>7. AtLine'
    BY <1>1, <1>4 DEF AtLine, AtEnd, Cleaned, NewRequest, Lost, Left
<1> QED BY <1>1, <1>5, <1>6, <1>7 DEF ParseInv, ParsePlace

LEMMA ParseBegins ==
    ASSUME HttpInit
    PROVE  ParseInv
<1>1. sent \in Seq(Kinds)
    <2>1. PICK n \in 0..MaxRequests : sent \in [1..n -> Kinds]
        BY DEF HttpInit
    <2>2. MaxRequests \in Nat
        BY HttpAssumption
    <2>3. n \in Nat
        BY <2>2
    <2> QED BY <2>1, <2>3
<1>2. Len(sent) \in Nat /\ DOMAIN sent = 1..Len(sent)
    BY <1>1, LenProperties
<1>3. wire = Remaining(sent, 0)
    <2>1. \A i \in 1..Len(sent) : 0 + i = i
        BY <1>2
    <2>2. [i \in DOMAIN sent |-> Tokens(sent[i], i)]
            = [i \in 1..(Len(sent) - 0) |-> Tokens(sent[0 + i], 0 + i)]
        BY <1>2, <2>1
    <2> QED BY <2>2 DEF HttpInit, Remaining
<1>4. buffer \in Seq(TokenSet) /\ wire \in Seq(TokenSet) /\ handed = <<>> /\ buffer = <<>>
    BY <1>1, <1>2, <1>3, RemainingType DEF HttpInit
<1>5. Left = Remaining(sent, 0) /\ Len(handed) = 0
    BY <1>3, <1>4, ConcatEmptySeq DEF Left
<1>6. StreamType
    BY <1>1, <1>4 DEF StreamType, HttpInit, NewRequest
<1>7. HandedAsSent
    BY <1>2, <1>4 DEF HandedAsSent
<1>8. state = "kExpectRequestLine" /\ AtLine
    BY <1>5 DEF AtLine, HttpInit, NewRequest
<1> QED BY <1>6, <1>7, <1>8 DEF ParseInv, ParsePlace

\* However the client's bytes are cut, the requests reach onRequest() in order, none skipped,
\* made up or mixed with another: line and headers are those sent, and a body is its own or
\* lost as a whole (src/Http/HttpContext.cc: parseRequest(), with the local content_Length).
THEOREM RequestsAreThoseSent == HttpSpec => []HandedAsSent
<1>1. HttpInit => ParseInv
    BY ParseBegins
<1>2. ParseInv /\ [HttpNext]_hvars => ParseInv'
    <2> SUFFICES ASSUME ParseInv, [HttpNext]_hvars PROVE ParseInv'
        OBVIOUS
    <2>1. CASE \E n \in 1..Len(wire) : Read(n)
        BY <2>1, ReadKeeps
    <2>2. CASE ParseRequestLine
        BY <2>2, LineStepKeeps
    <2>3. CASE ParseHeader
        BY <2>3, HeaderStepKeeps
    <2>4. CASE ParseHeadersEnd
        BY <2>4, HeadersEndKeeps
    <2>5. CASE ParseBody
        BY <2>5, BodyStepKeeps
    <2>6. CASE OnRequest
        BY <2>6, HandOverKeeps
    <2> QED BY <2>1, <2>2, <2>3, <2>4, <2>5, <2>6, OtherStepsKeep DEF HttpNext
<1>3. ParseInv => HandedAsSent
    BY DEF ParseInv
<1> QED BY <1>1, <1>2, <1>3, PTL DEF HttpSpec

-----------------------------------------------------------------------------
(* The numbers in a log line (LogLine). *)

\* The bases of convert() and convertHex().
Bases == {10, 16}

LEMMA Division ==
    ASSUME NEW i \in Int, NEW base \in Bases
    PROVE  /\ Quotient(i, base) \in Int /\ Abs(i) \in Nat /\ Digit(i, base) \in 0..(base - 1)
           /\ Abs(i) = Abs(Quotient(i, base)) * base + Digit(i, base)
           /\ i # 0 => Abs(Quotient(i, base)) < Abs(i)
           /\ Quotient(i, base) = 0 => Abs(i) = Digit(i, base)
<1>1. Abs(i) \in Nat
    BY DEF Abs
<1>2. CASE base = 10
    BY <1>2, <1>1 DEF Quotient, Digit, Abs
<1>3. CASE base = 16
    BY <1>3, <1>1 DEF Quotient, Digit, Abs
<1> QED BY <1>2, <1>3 DEF Bases

\* The cells q read as the number n, from the left to the right.
Reads(q, base, n) ==
    \E f \in [0..Len(q) -> Nat] :
        /\ f[0] = 0 /\ f[Len(q)] = n
        /\ \A i \in 1..Len(q) : f[i] = IF q[i] >= 0 THEN f[i - 1] * base + q[i] ELSE f[i - 1]

LEMMA ReadsDigit ==
    ASSUME NEW d \in Nat, NEW base \in Nat
    PROVE  Reads(<<d>>, base, d)
<1> DEFINE f == [i \in 0..1 |-> IF i = 0 THEN 0 ELSE d]
<1>1. f \in [0..1 -> Nat] /\ f[0] = 0 /\ f[1] = d
    OBVIOUS
<1>2. Len(<<d>>) = 1 /\ <<d>>[1] = d
    OBVIOUS
<1> HIDE DEF f
<1>3. 0 * base + d = d /\ d >= 0
    OBVIOUS
<1>4. \A i \in 1..1 : f[i] = IF <<d>>[i] >= 0 THEN f[i - 1] * base + <<d>>[i] ELSE f[i - 1]
    BY <1>1, <1>2, <1>3
<1> QED BY <1>1, <1>2, <1>4 DEF Reads

LEMMA ReadsAppend ==
    ASSUME NEW q \in Seq(Int), NEW base \in Nat, NEW n \in Nat, Reads(q, base, n), NEW d \in Nat,
           NEW k \in Nat, k = n * base + d
    PROVE  Reads(Append(q, d), base, k)
<1> DEFINE m == Len(q)
           t == Append(q, d)
<1>1. PICK f \in [0..m -> Nat] :
        /\ f[0] = 0 /\ f[m] = n
        /\ \A i \in 1..m : f[i] = IF q[i] >= 0 THEN f[i - 1] * base + q[i] ELSE f[i - 1]
    BY DEF Reads
<1>2. /\ m \in Nat /\ Len(t) = m + 1 /\ t[m + 1] = d /\ \A i \in 1..m : t[i] = q[i]
    BY LenProperties
<1> HIDE DEF m, t
<1> DEFINE g == [i \in 0..(m + 1) |-> IF i <= m THEN f[i] ELSE k]
<1>3. /\ g \in [0..(m + 1) -> Nat] /\ g[m + 1] = k /\ \A i \in 0..m : g[i] = f[i]
    BY <1>1, <1>2
<1> HIDE DEF g
<1>4. g[0] = 0 /\ g[m] = n
    BY <1>1, <1>2, <1>3
<1>5. \A i \in 1..(m + 1) : g[i] = IF t[i] >= 0 THEN g[i - 1] * base + t[i] ELSE g[i - 1]
    <2> TAKE i \in 1..(m + 1)
    <2>1. CASE i <= m
        <3>1. i \in 1..m /\ i \in 0..m /\ i - 1 \in 0..m
            BY <1>2, <2>1
        <3> QED BY <1>1, <1>2, <1>3, <3>1
    <2>2. CASE i = m + 1
        <3>1. i - 1 = m /\ t[i] = d /\ d >= 0 /\ g[i] = k
            BY <1>2, <1>3, <2>2
        <3> QED BY <1>4, <3>1
    <2> QED BY <1>2, <2>1, <2>2
<1>6. Reads(t, base, k)
    BY <1>2, <1>3, <1>4, <1>5 DEF Reads
<1> QED BY <1>6 DEF t

\* What is written before a number does not change it, if it is nothing by itself.
LEMMA ReadsBehind ==
    ASSUME NEW p \in Seq(Int), NEW q \in Seq(Int), NEW base \in Nat, NEW n \in Nat,
           Reads(p, base, 0), Reads(q, base, n)
    PROVE  Reads(p \o q, base, n)
<1> DEFINE m == Len(p)
           k == Len(q)
           t == p \o q
<1>1. PICK f \in [0..m -> Nat] :
        /\ f[0] = 0 /\ f[m] = 0
        /\ \A i \in 1..m : f[i] = IF p[i] >= 0 THEN f[i - 1] * base + p[i] ELSE f[i - 1]
    BY DEF Reads
<1>2. PICK g \in [0..k -> Nat] :
        /\ g[0] = 0 /\ g[k] = n
        /\ \A i \in 1..k : g[i] = IF q[i] >= 0 THEN g[i - 1] * base + q[i] ELSE g[i - 1]
    BY DEF Reads
<1>3. m \in Nat /\ k \in Nat
    BY LenProperties
<1>4. /\ Len(t) = m + k
      /\ \A i \in 1..(m + k) : t[i] = IF i <= m THEN p[i] ELSE q[i - m]
    BY ConcatProperties
<1> HIDE DEF m, k, t
<1> DEFINE h == [i \in 0..(m + k) |-> IF i <= m THEN f[i] ELSE g[i - m]]
<1>5. /\ h \in [0..(m + k) -> Nat] /\ \A i \in 0..m : h[i] = f[i]
    BY <1>1, <1>2, <1>3
<1>6. \A i \in 0..k : h[m + i] = g[i]
    <2> TAKE i \in 0..k
    <2>1. CASE i = 0
        BY <1>1, <1>2, <1>3, <2>1
    <2>2. CASE i # 0
        <3>1. m + i \in 0..(m + k) /\ ~(m + i <= m) /\ (m + i) - m = i
            BY <1>3, <2>2
        <3> DEFINE j == m + i
        <3>2. h[j] = IF j <= m THEN f[j] ELSE g[j - m]
            BY <3>1
        <3> HIDE DEF h
        <3> QED BY <3>1, <3>2
    <2> QED BY <2>1, <2>2
<1> HIDE DEF h
<1>7. h[0] = 0 /\ h[m + k] = n
    BY <1>1, <1>2, <1>3, <1>5, <1>6
<1>8. \A i \in 1..(m + k) : h[i] = IF t[i] >= 0 THEN h[i - 1] * base + t[i] ELSE h[i - 1]
    <2> TAKE i \in 1..(m + k)
    <2>1. CASE i <= m
        <3>1. i \in 1..m /\ i \in 0..m /\ i - 1 \in 0..m /\ t[i] = p[i]
            BY <1>3, <1>4, <2>1
        <3>2. h[i] = f[i] /\ h[i - 1] = f[i - 1]
            BY <3>1, <1>5
        <3> QED BY <1>1, <3>1, <3>2
    <2>2. CASE ~(i <= m)
        <3> DEFINE j == i - m
        <3>1. j \in 1..k /\ j \in 0..k /\ j - 1 \in 0..k /\ m + j = i /\ m + (j - 1) = i - 1
            BY <1>3, <2>2
        <3>2. t[i] = q[j]
            BY <1>4, <2>2
        <3> HIDE DEF j
        <3>3. h[i] = g[j] /\ h[i - 1] = g[j - 1]
            BY <3>1, <1>6
        <3> QED BY <1>2, <3>1, <3>2, <3>3
    <2> QED BY <2>1, <2>2
<1>9. Reads(t, base, n)
    BY <1>4, <1>5, <1>7, <1>8 DEF Reads
<1> QED BY <1>9 DEF t

LEMMA ReadBackIs ==
    ASSUME NEW q \in Seq(Int), NEW base \in Nat, NEW n \in Nat, Reads(q, base, n)
    PROVE  ReadBack(q, base) = IF q[1] = Minus THEN -n ELSE n
<1> DEFINE m == Len(q)
           Step(f, i) == IF i = 0 THEN 0
                         ELSE IF q[i] >= 0 THEN f[i - 1] * base + q[i] ELSE f[i - 1]
           Solves(f) == f = [i \in 0..m |->
                                IF i = 0 THEN 0
                                ELSE IF q[i] >= 0 THEN f[i - 1] * base + q[i] ELSE f[i - 1]]
           size == CHOOSE f : Solves(f)
<1>1. PICK f \in [0..m -> Nat] :
        /\ f[0] = 0 /\ f[m] = n
        /\ \A i \in 1..m : f[i] = IF q[i] >= 0 THEN f[i - 1] * base + q[i] ELSE f[i - 1]
    BY DEF Reads
<1>2. m \in Nat
    BY LenProperties
<1>3. Solves(f)
    <2> HIDE DEF m
    <2>1. \A i \in 0..m : i = 0 \/ i \in 1..m
        BY <1>2
    <2>2. \A i \in 0..m : f[i] = Step(f, i)
        BY <1>1, <2>1
    <2>3. f = [i \in 0..m |-> f[i]]
        BY <1>1
    <2> QED BY <2>2, <2>3
<1>4. Solves(size)
    <2> HIDE DEF Solves
    <2> QED BY <1>3
<1>5. ReadBack(q, base) = IF q[1] = Minus THEN -size[m] ELSE size[m]
    BY DEF ReadBack
<1>6. size[m] = n
    <2> HIDE DEF size, m
    <2>1. \A i \in 0..m : size[i] = Step(size, i)
        BY <1>4, Zenon
    <2> HIDE DEF Solves
    <2> DEFINE S == {i \in Nat : i <= m => size[i] = f[i]}
    <2>2. 0 \in S
        <3>1. 0 \in 0..m
            BY <1>2
        <3> QED BY <1>1, <2>1, <3>1
    <2>3. ASSUME NEW i \in Nat, i \in S PROVE i + 1 \in S
        <3>1. CASE i + 1 <= m
            <4>1. i + 1 \in 0..m /\ i + 1 \in 1..m /\ i + 1 # 0 /\ (i + 1) - 1 = i /\ i <= m
                BY <1>2, <3>1
            <4>2. size[i] = f[i]
                BY <2>3, <4>1
            <4>3. size[i + 1] = IF q[i + 1] >= 0 THEN size[i] * base + q[i + 1] ELSE size[i]
                BY <2>1, <4>1
            <4>4. f[i + 1] = IF q[i + 1] >= 0 THEN f[i] * base + q[i + 1] ELSE f[i]
                BY <1>1, <4>1
            <4> QED BY <4>2, <4>3, <4>4
        <3>2. CASE ~(i + 1 <= m)
            BY <3>2
        <3> QED BY <3>1, <3>2
    <2>4. Nat \subseteq S
        <3> HIDE DEF S
        <3> QED BY <2>2, <2>3, SetInduction
    <2> QED BY <1>1, <1>2, <2>4
<1> QED BY <1>5, <1>6

\* convert() comes to an end: each turn of its loop leaves a smaller number.
LEMMA DigitsDefined ==
    ASSUME NEW m \in Nat, NEW base \in Bases
    PROVE  \E g : g = [i \in -m..m |-> IF Quotient(i, base) = 0 THEN <<Digit(i, base)>>
                                       ELSE Append(g[Quotient(i, base)], Digit(i, base))]
<1> DEFINE Step(g, i) == IF Quotient(i, base) = 0 THEN <<Digit(i, base)>>
                         ELSE Append(g[Quotient(i, base)], Digit(i, base))
           Solves(g, n) == g = [i \in -n..n |-> Step(g, i)]
           S == {n \in Nat : \E g : Solves(g, n)}
<1>1. \A i \in Int : Quotient(i, base) \in Int /\ (i # 0 => Abs(Quotient(i, base)) < Abs(i))
    BY Division
<1>2. \A n \in Nat : \A i \in -n..n : Quotient(i, base) = 0 \/ Quotient(i, base) \in -n..n
    <2> SUFFICES ASSUME NEW n \in Nat, NEW i \in -n..n, Quotient(i, base) # 0
                 PROVE  Quotient(i, base) \in -n..n
        OBVIOUS
    <2>1. CASE i = 0
        BY <2>1 DEF Quotient, Bases
    <2>2. CASE i # 0
        <3>1. Quotient(i, base) \in Int /\ Abs(Quotient(i, base)) < Abs(i) /\ Abs(i) <= n
            BY <1>1, <2>2 DEF Abs
        <3> QED BY <3>1 DEF Abs
    <2> QED BY <2>1, <2>2
<1>3. 0 \in S
    <2> DEFINE g == [i \in -0..0 |-> <<Digit(i, base)>>]
    <2>1. \A i \in -0..0 : Quotient(i, base) = 0
        BY DEF Quotient, Bases
    <2>2. Solves(g, 0)
        BY <2>1
    <2> HIDE DEF Solves, g
    <2> QED BY <2>2
<1>4. ASSUME NEW n \in Nat, n \in S PROVE n + 1 \in S
    <2>1. PICK g : Solves(g, n)
        BY <1>4
    <2> DEFINE k == n + 1
               h == [i \in -k..k |-> IF i \in -n..n THEN g[i] ELSE Step(g, i)]
    <2>2. \A i \in -n..n : i \in -k..k
        OBVIOUS
    <2>3. \A i \in -n..n : g[i] = Step(g, i)
        BY <2>1, Zenon
    <2>4. \A i \in -k..k : h[i] = Step(g, i)
        <3> HIDE DEF Step, Solves, k
        <3> QED BY <2>3
    <2>5. \A i \in -n..n : h[i] = g[i]
        BY <2>2, <2>3, <2>4
    <2>6. \A i \in -k..k : Quotient(i, base) = 0 \/ Quotient(i, base) \in -n..n
        <3> SUFFICES ASSUME NEW i \in -k..k, Quotient(i, base) # 0
                     PROVE  Quotient(i, base) \in -n..n
            OBVIOUS
        <3>1. CASE i = 0
            BY <3>1 DEF Quotient, Bases
        <3>2. CASE i # 0
            <4>1. Quotient(i, base) \in Int /\ Abs(Quotient(i, base)) < Abs(i) /\ Abs(i) <= k
                BY <1>1, <3>2 DEF Abs
            <4> QED BY <4>1 DEF Abs
        <3> QED BY <3>1, <3>2
    <2> HIDE DEF h
    <2>7. \A i \in -k..k : Step(g, i) = Step(h, i)
        BY <2>5, <2>6
    <2>8. h = [i \in -k..k |-> h[i]]
        BY DEF h
    <2>9. Solves(h, k)
        <3> HIDE DEF k
        <3>1. \A i \in -k..k : h[i] = Step(h, i)
            BY <2>4, <2>7
        <3> QED BY <2>8, <3>1
    <2> HIDE DEF Solves
    <2> QED BY <2>9
<1>5. Nat \subseteq S
    <2> HIDE DEF S
    <2> QED BY <1>3, <1>4, SetInduction
<1> QED BY <1>5

LEMMA DigitsRead ==
    ASSUME NEW v \in Int, NEW base \in Bases
    PROVE  /\ Digits(v, base) \in Seq(Nat) /\ Len(Digits(v, base)) > 0
           /\ Reads(Digits(v, base), base, Abs(v))
<1> DEFINE m == Abs(v)
           Solves(g) == g = [i \in -m..m |-> IF Quotient(i, base) = 0 THEN <<Digit(i, base)>>
                                             ELSE Append(g[Quotient(i, base)], Digit(i, base))]
           D == CHOOSE g : Solves(g)
           Good(i) == /\ D[i] \in Seq(Nat) /\ Len(D[i]) > 0 /\ Reads(D[i], base, Abs(i))
           S == {n \in Nat : \A i \in -m..m : Abs(i) <= n => Good(i)}
<1>1. m \in Nat /\ v \in -m..m
    BY DEF Abs
<1>2. base \in Nat
    BY DEF Bases
<1>3. Digits(v, base) = D[v]
    BY DEF Digits
<1> HIDE DEF m
<1>4. Solves(D)
    <2>1. \E g : Solves(g)
        BY <1>1, DigitsDefined
    <2> HIDE DEF Solves
    <2> QED BY <2>1
<1> HIDE DEF D
<1>5. \A i \in -m..m : D[i] = IF Quotient(i, base) = 0 THEN <<Digit(i, base)>>
                              ELSE Append(D[Quotient(i, base)], Digit(i, base))
    BY <1>4, Zenon
<1>6. ASSUME NEW i \in -m..m, Quotient(i, base) = 0
      PROVE  Good(i)
    <2>1. i \in Int /\ D[i] = <<Digit(i, base)>>
        <3>1. i \in Int
            BY <1>1
        <3>2. D[i] = <<Digit(i, base)>>
            BY <1>5, <1>6, Zenon
        <3> QED BY <3>1, <3>2
    <2>2. Digit(i, base) \in Nat /\ Abs(i) = Digit(i, base)
        BY <1>2, <1>6, <2>1, Division
    <2>3. <<Digit(i, base)>> \in Seq(Nat) /\ Len(<<Digit(i, base)>>) > 0
        BY <2>2
    <2> QED BY <1>2, <2>1, <2>2, <2>3, ReadsDigit
<1>7. ASSUME NEW i \in -m..m, Quotient(i, base) \in -m..m, Quotient(i, base) # 0,
             Good(Quotient(i, base))
      PROVE  Good(i)
    <2> DEFINE k == Quotient(i, base)
               d == Digit(i, base)
               q == D[k]
    <2>1. i \in Int /\ D[i] = Append(q, d)
        <3>1. i \in Int
            BY <1>1
        <3>2. D[i] = Append(q, d)
            BY <1>5, <1>7, Zenon
        <3> QED BY <3>1, <3>2
    <2>2. k \in Int /\ d \in Nat /\ Abs(i) \in Nat /\ Abs(k) \in Nat
        <3>1. k \in Int /\ d \in 0..(base - 1) /\ Abs(i) \in Nat
            BY <2>1, Division
        <3>2. d \in Nat
            BY <1>2, <3>1
        <3> QED BY <3>1, <3>2 DEF Abs
    <2>3. Abs(i) = Abs(k) * base + d
        BY <2>1, Division
    <2>4. q \in Seq(Nat) /\ Reads(q, base, Abs(k))
        BY <1>7
    <2> HIDE DEF Good, k, d, q
    <2>5. q \in Seq(Int)
        BY <2>4
    <2>6. Reads(Append(q, d), base, Abs(i))
        BY <1>2, <2>2, <2>3, <2>4, <2>5, ReadsAppend
    <2>7. Append(q, d) \in Seq(Nat) /\ Len(Append(q, d)) > 0
        BY <2>2, <2>4
    <2> QED BY <2>1, <2>6, <2>7 DEF Good
<1> HIDE DEF Good
<1>8. 0 \in S
    <2> SUFFICES ASSUME NEW i \in -m..m, Abs(i) <= 0 PROVE Good(i)
        OBVIOUS
    <2>1. i = 0
        BY <1>1 DEF Abs
    <2>2. Quotient(i, base) = 0
        BY <2>1 DEF Quotient, Bases
    <2> QED BY <1>6, <2>2
<1>9. ASSUME NEW n \in Nat, n \in S PROVE n + 1 \in S
    <2> SUFFICES ASSUME NEW i \in -m..m, Abs(i) <= n + 1 PROVE Good(i)
        OBVIOUS
    <2>1. i \in Int
        BY <1>1
    <2>2. CASE Quotient(i, base) = 0
        BY <1>6, <2>2
    <2>3. CASE Quotient(i, base) # 0
        <3>1. i # 0
            BY <2>3 DEF Quotient, Bases
        <3>2. /\ Quotient(i, base) \in Int /\ Abs(Quotient(i, base)) < Abs(i)
            BY <2>1, <3>1, Division
        <3>3. Quotient(i, base) \in -m..m /\ Abs(Quotient(i, base)) <= n
            BY <1>1, <2>1, <3>2 DEF Abs
        <3>4. Good(Quotient(i, base))
            BY <1>9, <3>3
        <3> QED BY <1>7, <2>3, <3>3, <3>4
    <2> QED BY <2>2, <2>3
<1>10. Good(v)
    <2>1. Nat \subseteq S
        <3> HIDE DEF S
        <3> QED BY <1>8, <1>9, SetInduction
    <2>2. m \in S
        BY <1>1, <2>1
    <2> QED BY <1>1, <2>2 DEF m
<1> QED BY <1>3, <1>10 DEF Good

\* What is streamed reads back: the least of the integers has no positive counterpart, but
\* its digits have.
LEMMA NumberReads ==
    ASSUME NEW v \in Int
    PROVE  Convert(v) \in Seq(Int) /\ ReadBack(Convert(v), 10) = v
<1> DEFINE d == Digits(v, 10)
<1>1. d \in Seq(Nat) /\ Len(d) > 0 /\ Reads(d, 10, Abs(v))
    BY DigitsRead DEF Bases
<1>2. Abs(v) \in Nat /\ d \in Seq(Int) /\ d[1] \in Nat
    BY <1>1 DEF Abs
<1> HIDE DEF d
<1>3. CASE v >= 0
    <2>1. Convert(v) = d
        BY <1>2, <1>3, ConcatEmptySeq DEF Convert, d
    <2>2. d[1] # Minus /\ Abs(v) = v
        BY <1>2, <1>3 DEF Minus, Abs
    <2>3. ReadBack(d, 10) = Abs(v)
        BY <1>1, <1>2, <2>2, ReadBackIs
    <2> QED BY <1>2, <2>1, <2>2, <2>3
<1>4. CASE v < 0
    <2> DEFINE p == <<Minus>>
    <2>1. Convert(v) = p \o d
        BY <1>4 DEF Convert, d
    <2>2. p \in Seq(Int) /\ Len(p) = 1 /\ p[1] = Minus
        BY DEF Minus
    <2>3. Reads(p, 10, 0)
        <3> DEFINE f == [i \in 0..1 |-> 0]
        <3>1. f \in [0..1 -> Nat] /\ f[0] = 0 /\ f[1] = 0
            OBVIOUS
        <3>2. ~(p[1] >= 0)
            BY DEF Minus
        <3>3. \A i \in 1..1 : f[i] = IF p[i] >= 0 THEN f[i - 1] * 10 + p[i] ELSE f[i - 1]
            BY <3>1, <3>2
        <3> HIDE DEF f, p
        <3> QED BY <2>2, <3>1, <3>3 DEF Reads
    <2> HIDE DEF p
    <2>4. Reads(p \o d, 10, Abs(v)) /\ p \o d \in Seq(Int)
        BY <1>1, <1>2, <2>2, <2>3, ReadsBehind, ConcatProperties
    <2>5. (p \o d)[1] = Minus
        <3>1. 1 \in DOMAIN p
            BY <2>2
        <3> QED BY <1>2, <2>2, <3>1, PrefixItems
    <2>6. ReadBack(p \o d, 10) = -Abs(v)
        BY <1>2, <2>4, <2>5, ReadBackIs
    <2> QED BY <1>4, <2>1, <2>4, <2>6 DEF Abs
<1> QED BY <1>3, <1>4

LEMMA PointerReads ==
    ASSUME NEW v \in Nat
    PROVE  ConvertHex(v) \in Seq(Int) /\ ReadBack(ConvertHex(v), 16) = v
<1> DEFINE d == Digits(v, 16)
           p == <<0, Char>>
<1>1. d \in Seq(Nat) /\ Reads(d, 16, Abs(v)) /\ Abs(v) = v
    BY DigitsRead DEF Bases, Abs
<1>2. d \in Seq(Int)
    BY <1>1
<1>3. p \in Seq(Int) /\ Len(p) = 2 /\ p[1] = 0 /\ p[2] = Char
    BY DEF Char
<1>4. Reads(p, 16, 0)
    <2> DEFINE f == [i \in 0..2 |-> 0]
    <2>1. f \in [0..2 -> Nat] /\ f[0] = 0 /\ f[1] = 0 /\ f[2] = 0
        OBVIOUS
    <2>2. ~(p[2] >= 0) /\ p[1] = 0
        BY DEF Char
    <2>3. \A i \in 1..2 : f[i] = IF p[i] >= 0 THEN f[i - 1] * 16 + p[i] ELSE f[i - 1]
        <3> HIDE DEF f, p
        <3>1. \A i \in 1..2 : i = 1 \/ i = 2
            OBVIOUS
        <3> QED BY <2>1, <2>2, <3>1
    <2> HIDE DEF f, p
    <2> QED BY <1>3, <2>1, <2>3 DEF Reads
<1>5. ConvertHex(v) = p \o d
    BY DEF ConvertHex
<1> HIDE DEF d, p
<1>6. Reads(p \o d, 16, v) /\ p \o d \in Seq(Int)
    BY <1>1, <1>2, <1>3, <1>4, ReadsBehind, ConcatProperties
<1>7. (p \o d)[1] = 0
    <2>1. 1 \in DOMAIN p
        BY <1>3
    <2> QED BY <1>2, <1>3, <2>1, PrefixItems
<1>8. ReadBack(p \o d, 16) = v
    <2>1. ReadBack(p \o d, 16) = IF (p \o d)[1] = Minus THEN -v ELSE v
        BY <1>6, ReadBackIs
    <2>2. (p \o d)[1] # Minus
        BY <1>7 DEF Minus
    <2> QED BY <2>1, <2>2
<1> QED BY <1>5, <1>6, <1>8

-----------------------------------------------------------------------------
(* The buffer of a line. *)

\* A line that ends within the buffer has not been written behind it; one that has left the
\* buffer has done so by a step over the end.
Within(cells, far) ==
    /\ Len(cells) <= Size => far <= Size
    /\ Len(cells) > Size => cells[Size + 1] = Junk
LineBuffers == {b \in [cells : Seq(Int), reach : Nat] : Within(b.cells, b.reach)}

\* The numbers that are noted are in the cells, and in the buffer.
InLine(cells, noted) ==
    \A s \in noted :
        /\ s.from \in Nat \ {0} /\ s.to \in Nat /\ s.to <= Len(cells) /\ s.to < Size
        /\ ReadBack(SubSeq(cells, s.from, s.to), s.base) = s.value

LineInv ==
    /\ line \in Seq(Int) /\ reach \in Nat
    /\ Within(line, reach) /\ InLine(line, spelled)

LEMMA AddType ==
    ASSUME NEW b \in LineBuffers, NEW c \in Seq(Int), NEW w \in Nat,
           Within(Add(b, c, w).cells, Add(b, c, w).reach)
    PROVE  Add(b, c, w) \in LineBuffers
<1> DEFINE a == b.cells \o c
           r == IF Len(b.cells) + w > b.reach THEN Len(b.cells) + w ELSE b.reach
<1>1. b.cells \in Seq(Int) /\ b.reach \in Nat /\ Len(b.cells) \in Nat
    BY LenProperties DEF LineBuffers
<1>2. a \in Seq(Int)
    BY <1>1, ConcatProperties
<1>3. r \in Nat
    BY <1>1
<1>4. Add(b, c, w) = [cells |-> a, reach |-> r]
    BY DEF Add
<1> HIDE DEF a, r
<1> QED BY <1>2, <1>3, <1>4 DEF LineBuffers

LEMMA AddKeeps ==
    ASSUME NEW b \in LineBuffers, NEW c \in Seq(Int), NEW w \in Nat, Len(c) <= w,
           Len(b.cells) + w <= Size
    PROVE  Add(b, c, w) \in LineBuffers /\ Add(b, c, w).cells = b.cells \o c
<1> DEFINE a == b.cells \o c
           r == IF Len(b.cells) + w > b.reach THEN Len(b.cells) + w ELSE b.reach
<1>1. /\ b.cells \in Seq(Int) /\ b.reach \in Nat /\ Within(b.cells, b.reach)
      /\ Len(b.cells) \in Nat /\ Len(c) \in Nat /\ Size \in Nat
    BY LenProperties, LineAssumption DEF LineBuffers
<1>2. a \in Seq(Int) /\ Len(a) = Len(b.cells) + Len(c)
    BY <1>1, ConcatProperties
<1>3. b.reach <= Size
    BY <1>1 DEF Within
<1>4. r <= Size /\ Len(a) <= Size
    BY <1>1, <1>2, <1>3
<1>5. Add(b, c, w) = [cells |-> a, reach |-> r]
    BY DEF Add
<1> HIDE DEF a, r
<1>6. Len(a) \in Nat
    BY <1>2, LenProperties
<1>7. Within(a, r)
    BY <1>1, <1>4, <1>6 DEF Within
<1>8. Add(b, c, w) \in LineBuffers
    BY <1>5, <1>7, AddType
<1> QED BY <1>5, <1>8 DEF a

\* Behind the end, the cell that was stepped over stays as it is.
LEMMA AddBehind ==
    ASSUME NEW b \in LineBuffers, NEW c \in Seq(Int), NEW w \in Nat, Len(b.cells) > Size
    PROVE  Add(b, c, w) \in LineBuffers
<1> DEFINE a == b.cells \o c
<1>1. /\ b.cells \in Seq(Int) /\ Within(b.cells, b.reach)
      /\ Len(b.cells) \in Nat /\ Len(c) \in Nat /\ Size \in Nat
    BY LenProperties, LineAssumption DEF LineBuffers
<1>2. Len(a) = Len(b.cells) + Len(c) /\ Size + 1 \in 1..Len(b.cells)
    BY <1>1, ConcatProperties
<1>3. a[Size + 1] = b.cells[Size + 1]
    BY <1>1, <1>2, PrefixItems
<1>4. b.cells[Size + 1] = Junk
    BY <1>1 DEF Within
<1>5. Add(b, c, w).cells = a
    BY DEF Add
<1>6. Len(a) > Size /\ Len(a) \in Nat
    BY <1>1, <1>2
<1> HIDE DEF a
<1>7. Within(a, Add(b, c, w).reach)
    BY <1>1, <1>3, <1>4, <1>6 DEF Within
<1> QED BY <1>5, <1>7, AddType

LEMMA PutKeeps ==
    ASSUME NEW b \in LineBuffers, NEW c \in Seq(Int)
    PROVE  /\ Put(b, c) \in LineBuffers
           /\ Put(b, c).cells \in {b.cells, b.cells \o c}
<1>1. Len(b.cells) \in Nat /\ Len(c) \in Nat /\ Size \in Nat
    BY LenProperties, LineAssumption DEF LineBuffers
<1>2. CASE Avail(b) > Len(c)
    <2>1. Len(b.cells) + Len(c) <= Size /\ Len(c) <= Len(c)
        BY <1>1, <1>2 DEF Avail
    <2>2. Put(b, c) = Add(b, c, Len(c))
        BY <1>2 DEF Put
    <2> QED BY <1>1, <2>1, <2>2, AddKeeps
<1>3. CASE Avail(b) < 0
    <2>1. Len(b.cells) > Size
        BY <1>1, <1>3 DEF Avail
    <2>2. Put(b, c) = Add(b, c, Len(c)) /\ Add(b, c, Len(c)).cells = b.cells \o c
        BY <1>3 DEF Put, Add
    <2> QED BY <1>1, <2>1, <2>2, AddBehind
<1>4. CASE ~(Avail(b) > Len(c)) /\ ~(Avail(b) < 0)
    BY <1>4 DEF Put
<1> QED BY <1>2, <1>3, <1>4

\* A step over one cell: the only way across the end.
LEMMA StepKeeps ==
    ASSUME NEW b \in LineBuffers
    PROVE  Add(b, <<Junk>>, 0) \in LineBuffers
<1> DEFINE c == <<Junk>>
           n == Len(b.cells)
<1>1. /\ b.cells \in Seq(Int) /\ b.reach \in Nat /\ Within(b.cells, b.reach)
      /\ n \in Nat /\ Size \in Nat
    BY LenProperties, LineAssumption DEF LineBuffers
<1>2. c \in Seq(Int) /\ Len(c) = 1 /\ c[1] = Junk
    BY DEF Junk
<1> HIDE DEF c
<1>3. CASE n > Size
    BY <1>2, <1>3, AddBehind DEF c
<1>4. CASE n <= Size
    <2> DEFINE a == b.cells \o c
               r == IF n + 0 > b.reach THEN n + 0 ELSE b.reach
    <2>1. Add(b, c, 0) = [cells |-> a, reach |-> r]
        BY DEF Add
    <2>2. Len(a) = n + 1 /\ a[n + 1] = Junk
        <3>1. Len(a) = n + Len(c)
            BY <1>1, <1>2, ConcatProperties
        <3>2. \A i \in 1..(n + Len(c)) : a[i] = IF i <= n THEN b.cells[i] ELSE c[i - n]
            BY <1>1, <1>2, ConcatProperties
        <3> HIDE DEF a, n
        <3>3. n + 1 \in 1..(n + Len(c)) /\ ~(n + 1 <= n) /\ (n + 1) - n = 1
            BY <1>1, <1>2
        <3> QED BY <1>1, <1>2, <3>1, <3>2, <3>3
    <2>3. r <= Size
        BY <1>1, <1>4 DEF Within
    <2> HIDE DEF a, r, n
    <2>4. Within(a, r)
        BY <1>1, <1>4, <2>2, <2>3 DEF Within
    <2>5. Add(b, c, 0) \in LineBuffers
        BY <1>2, <2>1, <2>4, AddType
    <2> QED BY <2>5 DEF c
<1> QED BY <1>1, <1>3, <1>4

LEMMA SpellKeeps ==
    ASSUME NEW b \in LineBuffers, NEW c \in Seq(Int), Len(c) < NumericSize
    PROVE  /\ Spell(b, c) \in LineBuffers
           /\ Spell(b, c).cells = IF Room(b) THEN b.cells \o c ELSE b.cells
<1>1. /\ Len(b.cells) \in Nat /\ Len(c) \in Nat /\ Size \in Nat /\ NumericSize \in Nat
    BY LenProperties, LineAssumption DEF LineBuffers
<1>2. CASE Room(b)
    <2>1. Len(b.cells) + (Len(c) + 1) <= Size /\ Len(c) <= Len(c) + 1 /\ Len(c) + 1 \in Nat
        <3> DEFINE n == Len(b.cells)
                   k == Len(c)
        <3>1. Size - n >= NumericSize
            BY <1>2 DEF Room, Avail
        <3>2. k < NumericSize /\ n \in Nat /\ k \in Nat
            BY <1>1
        <3> HIDE DEF n, k
        <3>3. n + (k + 1) <= Size /\ k <= k + 1 /\ k + 1 \in Nat
            BY <1>1, <3>1, <3>2
        <3> QED BY <3>3 DEF n, k
    <2>2. Spell(b, c) = Add(b, c, Len(c) + 1)
        BY <1>2 DEF Spell
    <2> QED BY <1>2, <2>1, <2>2, AddKeeps
<1>3. CASE ~Room(b)
    BY <1>3 DEF Spell
<1> QED BY <1>2, <1>3

LEMMA TextType == \A n \in Nat : Text(n) \in Seq(Int) /\ Len(Text(n)) = n
BY DEF Text, Char

-----------------------------------------------------------------------------
(* A number stays where it was written. *)

LEMMA PieceStays ==
    ASSUME NEW c \in Seq(Int), NEW x \in Seq(Int), NEW from \in Nat \ {0}, NEW to \in Nat,
           to <= Len(c)
    PROVE  SubSeq(c \o x, from, to) = SubSeq(c, from, to)
<1> DEFINE u == c \o x
<1>1. /\ Len(c) \in Nat /\ Len(x) \in Nat /\ u \in Seq(Int) /\ Len(u) = Len(c) + Len(x)
      /\ \A i \in 1..Len(c) : u[i] = c[i]
    BY LenProperties, ConcatProperties
<1>2. /\ SubSeq(c, from, to) = [i \in 1..(to - from + 1) |-> c[from + i - 1]]
      /\ SubSeq(u, from, to) = [i \in 1..(to - from + 1) |-> u[from + i - 1]]
    <2> HIDE DEF u
    <2> QED BY <1>1, SubSeqProperties
<1>3. \A i \in 1..(to - from + 1) : u[from + i - 1] = c[from + i - 1]
    <2> HIDE DEF u
    <2>1. \A i \in 1..(to - from + 1) : from + i - 1 \in 1..Len(c)
        BY <1>1
    <2> QED BY <1>1, <2>1
<1> HIDE DEF u
<1>4. SubSeq(u, from, to) = SubSeq(c, from, to)
    BY <1>2, <1>3
<1> QED BY <1>4 DEF u

LEMMA PieceNew ==
    ASSUME NEW c \in Seq(Int), NEW x \in Seq(Int)
    PROVE  SubSeq(c \o x, Len(c) + 1, Len(c) + Len(x)) = x
<1> DEFINE u == c \o x
           n == Len(c)
           m == Len(x)
           p == SubSeq(u, n + 1, n + m)
<1>1. n \in Nat /\ m \in Nat
    BY LenProperties
<1>2. /\ u \in Seq(Int) /\ Len(u) = n + m
      /\ \A i \in 1..(n + m) : u[i] = IF i <= n THEN c[i] ELSE x[i - n]
    BY ConcatProperties
<1> HIDE DEF u, n, m
<1>3. \A i \in (n + 1)..(n + m) : u[i] \in Int
    <2> TAKE i \in (n + 1)..(n + m)
    <2>1. i \in 1..Len(u)
        BY <1>1, <1>2
    <2> QED BY <1>2, <2>1, ElementOfSeq
<1>4. /\ p \in Seq(Int) /\ Len(p) = m
      /\ \A i \in 1..m : p[i] = u[(n + 1) + i - 1]
    <2>1. n + 1 \in Int /\ n + m \in Int
        BY <1>1
    <2>2. /\ p \in Seq(Int)
          /\ Len(p) = IF n + 1 <= n + m THEN (n + m) - (n + 1) + 1 ELSE 0
          /\ \A i \in 1..((n + m) - (n + 1) + 1) : p[i] = u[(n + 1) + i - 1]
        BY <1>3, <2>1, SubSeqProperties
    <2> HIDE DEF p
    <2>3. (n + m) - (n + 1) + 1 = m
        BY <1>1
    <2>4. Len(p) = m
        BY <1>1, <2>2
    <2> QED BY <2>2, <2>3, <2>4
<1> HIDE DEF p
<1>5. \A i \in 1..m : p[i] = x[i]
    <2> TAKE i \in 1..m
    <2> DEFINE j == (n + 1) + i - 1
    <2>1. j \in 1..(n + m) /\ ~(j <= n) /\ j - n = i
        BY <1>1
    <2> HIDE DEF j
    <2>2. u[j] = x[j - n]
        BY <1>2, <2>1
    <2> QED BY <1>4, <2>1, <2>2 DEF j
<1>6. p = x
    BY <1>4, <1>5, SeqEqual DEF m
<1> QED BY <1>6 DEF p, u, n, m

LEMMA StaysInLine ==
    ASSUME NEW c \in Seq(Int), NEW x \in Seq(Int), NEW noted, InLine(c, noted)
    PROVE  InLine(c \o x, noted)
<1>1. Len(c \o x) = Len(c) + Len(x) /\ Len(c) \in Nat /\ Len(x) \in Nat
    BY ConcatProperties, LenProperties
<1> SUFFICES ASSUME NEW s \in noted
             PROVE  /\ s.from \in Nat \ {0} /\ s.to \in Nat /\ s.to <= Len(c \o x) /\ s.to < Size
                    /\ ReadBack(SubSeq(c \o x, s.from, s.to), s.base) = s.value
    BY DEF InLine
<1>2. /\ s.from \in Nat \ {0} /\ s.to \in Nat /\ s.to <= Len(c) /\ s.to < Size
      /\ ReadBack(SubSeq(c, s.from, s.to), s.base) = s.value
    BY DEF InLine
<1>3. SubSeq(c \o x, s.from, s.to) = SubSeq(c, s.from, s.to)
    BY <1>2, PieceStays
<1> DEFINE a == SubSeq(c \o x, s.from, s.to)
           b == SubSeq(c, s.from, s.to)
           k == Len(c \o x)
<1>4. s.to <= k
    BY <1>1, <1>2
<1>5. a = b /\ ReadBack(b, s.base) = s.value
    BY <1>2, <1>3
<1> HIDE DEF a, b, k
<1>6. ReadBack(a, s.base) = s.value
    BY <1>5
<1> QED BY <1>2, <1>4, <1>6 DEF a, k

LEMMA PutStaysInLine ==
    ASSUME NEW b \in LineBuffers, NEW c \in Seq(Int), NEW noted, InLine(b.cells, noted)
    PROVE  InLine(Put(b, c).cells, noted)
<1>1. b.cells \in Seq(Int)
    BY DEF LineBuffers
<1>2. InLine(b.cells \o c, noted)
    BY <1>1, StaysInLine
<1>3. Put(b, c).cells \in {b.cells, b.cells \o c}
    BY PutKeeps
<1> DEFINE a == b.cells \o c
<1>4. InLine(a, noted) /\ (Put(b, c).cells = b.cells \/ Put(b, c).cells = a)
    BY <1>2, <1>3
<1> HIDE DEF a
<1> QED BY <1>4

\* A number is written as a whole, and noted where it is, or not at all.
LEMMA SpellNotes ==
    ASSUME NEW b \in LineBuffers, NEW c \in Seq(Int), Len(c) < NumericSize, NEW noted,
           InLine(b.cells, noted), NEW base, NEW v, ReadBack(c, base) = v
    PROVE  InLine(Spell(b, c).cells, noted \cup Note(b, c, v, base))
<1>1. b.cells \in Seq(Int) /\ Len(b.cells) \in Nat /\ Len(c) \in Nat
    BY LenProperties DEF LineBuffers
<1>2. CASE ~Room(b)
    <2>1. Note(b, c, v, base) = {} /\ Spell(b, c).cells = b.cells
        BY <1>2, SpellKeeps DEF Note
    <2> QED BY <2>1
<1>3. CASE Room(b)
    <2> DEFINE a == b.cells \o c
               s == [from |-> Len(b.cells) + 1, to |-> Len(b.cells) + Len(c), value |-> v,
                     base |-> base]
    <2>1. Note(b, c, v, base) = {s} /\ Spell(b, c).cells = a
        BY <1>3, SpellKeeps DEF Note
    <2>2. InLine(a, noted)
        BY <1>1, StaysInLine
    <2>3. Len(a) = Len(b.cells) + Len(c)
        BY <1>1, ConcatProperties
    <2>4. SubSeq(a, Len(b.cells) + 1, Len(b.cells) + Len(c)) = c
        BY <1>1, PieceNew
    <2>5. /\ s.from = Len(b.cells) + 1 /\ s.to = Len(b.cells) + Len(c) /\ s.base = base
          /\ s.value = v
        OBVIOUS
    <2> HIDE DEF a, s
    <2>6. /\ s.from \in Nat \ {0} /\ s.to \in Nat /\ s.to <= Len(a) /\ s.to < Size
          /\ ReadBack(SubSeq(a, s.from, s.to), s.base) = s.value
        <3>1. SubSeq(a, s.from, s.to) = c
            BY <2>4, <2>5
        <3>2. s.from \in Nat \ {0} /\ s.to \in Nat /\ s.to <= Len(a)
            BY <1>1, <2>3, <2>5
        <3>4. s.to < Size
            <4> DEFINE n == Len(b.cells)
                       k == Len(c)
            <4>1. Size - n >= NumericSize /\ Size \in Nat /\ NumericSize \in Nat
                BY <1>3, LineAssumption DEF Room, Avail
            <4>2. n \in Nat /\ k \in Nat /\ k < NumericSize /\ s.to = n + k
                BY <1>1, <2>5
            <4> HIDE DEF n, k
            <4> QED BY <4>1, <4>2
        <3>3. ReadBack(SubSeq(a, s.from, s.to), s.base) = ReadBack(c, base)
            BY <3>1, <2>5, Zenon
        <3> QED BY <2>5, <3>2, <3>3, <3>4
    <2>7. InLine(a, noted \cup {s})
        BY <2>2, <2>6 DEF InLine
    <2> QED BY <2>1, <2>7
<1> QED BY <1>2, <1>3

LEMMA HeadersType ==
    ASSUME NEW l
    PROVE  Headers(l) \subseteq LineBuffers
<1> DEFINE empty == [cells |-> <<>>, reach |-> 0]
           m == Len(HeaderSizes)
           Solves(f) == f = [i \in 0..m |->
                                IF i = 0 THEN empty ELSE Put(f[i - 1], Text(HeaderSizes[i]))]
           after == CHOOSE f : Solves(f)
           header == after[m]
<1>1. m \in Nat /\ HeaderSizes \in Seq(Nat) /\ \A i \in 1..m : HeaderSizes[i] \in Nat
    BY LineAssumption, LenProperties, ElementOfSeq
<1>2. empty \in LineBuffers
    <2>1. Size \in Nat
        BY LineAssumption
    <2>2. <<>> \in Seq(Int) /\ Len(<<>>) = 0
        OBVIOUS
    <2> QED BY <2>1, <2>2 DEF LineBuffers, Within
<1> HIDE DEF empty, m
<1>3. \A b \in LineBuffers : \A i \in 1..m : Put(b, Text(HeaderSizes[i])) \in LineBuffers
    BY <1>1, TextType, PutKeeps
<1>4. \E f \in [0..m -> LineBuffers] : Solves(f)
    <2> DEFINE step == [x \in LineBuffers \X (1..m) |-> Put(x[1], Text(HeaderSizes[x[2]]))]
    <2>2. \A b \in LineBuffers : \A i \in 1..m : step[<<b, i>>] = Put(b, Text(HeaderSizes[i]))
        OBVIOUS
    <2>1. \A b \in LineBuffers : \A i \in 1..m : step[<<b, i>>] \in LineBuffers
        BY <1>3, <2>2
    <2> HIDE DEF step
    <2>3. PICK f \in [0..m -> LineBuffers] :
            f[0] = empty /\ \A i \in 1..m : f[i] = step[<<f[i - 1], i>>]
        <3>1. m \in Nat
            BY <1>1
        <3>2. \E f : SolvedBy(f, m, LineBuffers, empty, step)
            BY <3>1, <1>2, <2>1, Recursion
        <3> QED BY <3>2 DEF SolvedBy
    <2>4. \A i \in 0..m : f[i] = IF i = 0 THEN empty ELSE Put(f[i - 1], Text(HeaderSizes[i]))
        <3> TAKE i \in 0..m
        <3>1. CASE i = 0
            BY <2>3, <3>1
        <3>2. CASE i # 0
            <4>1. i \in 1..m /\ i - 1 \in 0..m
                BY <1>1, <3>2
            <4>2. f[i - 1] \in LineBuffers
                BY <2>3, <4>1
            <4> QED BY <2>2, <2>3, <3>2, <4>1, <4>2
        <3> QED BY <3>1, <3>2
    <2>5. f = [i \in 0..m |-> f[i]]
        BY <2>3
    <2>6. Solves(f)
        BY <2>4, <2>5
    <2> HIDE DEF Solves
    <2> QED BY <2>6
<1>5. Solves(after)
    <2> HIDE DEF Solves
    <2> QED BY <1>4
<1> HIDE DEF after
<1>6. \A i \in 0..m : after[i] = IF i = 0 THEN empty
                                 ELSE Put(after[i - 1], Text(HeaderSizes[i]))
    BY <1>5, Zenon
<1>7. after[m] \in LineBuffers
    <2> DEFINE S == {i \in Nat : i <= m => after[i] \in LineBuffers}
    <2>1. 0 \in S
        <3>1. 0 \in 0..m
            BY <1>1
        <3> QED BY <1>2, <1>6, <3>1
    <2>2. ASSUME NEW i \in Nat, i \in S PROVE i + 1 \in S
        <3>1. CASE i + 1 <= m
            <4>1. i + 1 \in 0..m /\ i + 1 \in 1..m /\ i + 1 # 0 /\ (i + 1) - 1 = i /\ i <= m
                BY <1>1, <3>1
            <4>2. after[i + 1] = Put(after[i], Text(HeaderSizes[i + 1]))
                BY <1>6, <4>1
            <4>3. after[i] \in LineBuffers
                BY <2>2, <4>1
            <4> QED BY <1>3, <4>1, <4>2, <4>3
        <3>2. CASE ~(i + 1 <= m)
            BY <3>2
        <3> QED BY <3>1, <3>2
    <2>3. Nat \subseteq S
        <3> HIDE DEF S
        <3> QED BY <2>1, <2>2, SetInduction
    <2> QED BY <1>1, <2>3
<1>8. \A n \in Nat : Put(Put(header, Text(n)), Text(1)) \in LineBuffers
    BY <1>7, TextType, PutKeeps
<1>9. Headers(l) = {header}
        \cup {Put(Put(header, Text(n)), Text(1)) : n \in {k \in TextSizes : l = FATAL}}
    BY DEF Headers, header, after, m, empty
<1> HIDE DEF header
<1> QED BY <1>7, <1>8, <1>9, LineAssumption DEF header

-----------------------------------------------------------------------------
(* The steps of a statement. *)

LEMMA LineStepKeepsNumbers ==
    ASSUME LineInv, [LineNext]_ovars
    PROVE  LineInv'
<1> USE DEF LineInv
<1>1. Buffer \in LineBuffers /\ Buffer.cells = line /\ Buffer.reach = reach
    BY DEF Buffer, LineBuffers
<1>2. ASSUME NEW b \in LineBuffers, Fill(b), InLine(b.cells, spelled')
      PROVE  LineInv'
    <2>1. line' = b.cells /\ reach' = b.reach
        BY <1>2 DEF Fill
    <2>2. b.cells \in Seq(Int) /\ b.reach \in Nat /\ Within(b.cells, b.reach)
        BY DEF LineBuffers
    <2> QED BY <1>2, <2>1, <2>2
<1>3. ASSUME NEW l \in Levels, Begin(l)
      PROVE  LineInv'
    <2>1. PICK b \in Headers(l) : Fill(b)
        BY <1>3 DEF Begin
    <2>2. b \in LineBuffers
        BY HeadersType
    <2>3. InLine(b.cells, spelled')
        BY <1>3 DEF Begin, InLine
    <2> QED BY <1>2, <2>1, <2>2, <2>3
<1>4. ASSUME NEW n \in TextSizes, StreamText(n)
      PROVE  LineInv'
    <2>1. n \in Nat
        BY LineAssumption
    <2>2. Text(n) \in Seq(Int)
        BY <2>1, TextType
    <2>3. Put(Buffer, Text(n)) \in LineBuffers
        BY <1>1, <2>2, PutKeeps
    <2>4. InLine(Put(Buffer, Text(n)).cells, spelled)
        BY <1>1, <2>2, PutStaysInLine
    <2>5. Fill(Put(Buffer, Text(n))) /\ spelled' = spelled
        BY <1>4 DEF StreamText
    <2> QED BY <1>2, <2>3, <2>4, <2>5
<1>5. ASSUME NEW n \in TextSizes, StreamDouble(n)
      PROVE  LineInv'
    <2>1. n \in Nat /\ n < NumericSize
        BY <1>5, LineAssumption DEF StreamDouble
    <2>2. Text(n) \in Seq(Int) /\ Len(Text(n)) < NumericSize
        BY <2>1, TextType
    <2>3. /\ Spell(Buffer, Text(n)) \in LineBuffers
          /\ Spell(Buffer, Text(n)).cells =
                IF Room(Buffer) THEN Buffer.cells \o Text(n) ELSE Buffer.cells
        BY <1>1, <2>2, SpellKeeps
    <2>4. InLine(line, spelled) /\ InLine(line \o Text(n), spelled)
        BY <2>2, StaysInLine
    <2> DEFINE a == line \o Text(n)
    <2>5. Spell(Buffer, Text(n)).cells = IF Room(Buffer) THEN a ELSE line
        BY <1>1, <2>3
    <2>6. InLine(a, spelled)
        BY <2>4
    <2> HIDE DEF a
    <2>7. InLine(Spell(Buffer, Text(n)).cells, spelled)
        BY <2>4, <2>5, <2>6
    <2>8. Fill(Spell(Buffer, Text(n))) /\ spelled' = spelled
        BY <1>5 DEF StreamDouble
    <2> QED BY <1>2, <2>3, <2>7, <2>8
<1>6. ASSUME NEW v \in Numbers, StreamNumber(v)
      PROVE  LineInv'
    <2> DEFINE c == Convert(v)
    <2>1. v \in Int /\ Len(c) < NumericSize
        BY LineAssumption, FitAssumption
    <2>2. c \in Seq(Int) /\ ReadBack(c, 10) = v
        BY <2>1, NumberReads
    <2>3. Fill(Spell(Buffer, c)) /\ spelled' = spelled \cup Note(Buffer, c, v, 10)
        BY <1>6 DEF StreamNumber
    <2> HIDE DEF c
    <2>4. Spell(Buffer, c) \in LineBuffers
        BY <1>1, <2>1, <2>2, SpellKeeps
    <2>5. InLine(Spell(Buffer, c).cells, spelled')
        BY <1>1, <2>1, <2>2, <2>3, SpellNotes
    <2> QED BY <1>2, <2>3, <2>4, <2>5
<1>7. ASSUME NEW v \in Numbers, StreamPointer(v)
      PROVE  LineInv'
    <2> DEFINE c == ConvertHex(v)
    <2>1. v \in Nat /\ Len(c) < NumericSize
        BY <1>7, LineAssumption, FitAssumption DEF StreamPointer
    <2>2. c \in Seq(Int) /\ ReadBack(c, 16) = v
        BY <2>1, PointerReads
    <2>3. Fill(Spell(Buffer, c)) /\ spelled' = spelled \cup Note(Buffer, c, v, 16)
        BY <1>7 DEF StreamPointer
    <2> HIDE DEF c
    <2>4. Spell(Buffer, c) \in LineBuffers
        BY <1>1, <2>1, <2>2, SpellKeeps
    <2>5. InLine(Spell(Buffer, c).cells, spelled')
        BY <1>1, <2>1, <2>2, <2>3, SpellNotes
    <2> QED BY <1>2, <2>3, <2>4, <2>5
<1>8. ASSUME NEW v \in Booleans, StreamBool(v)
      PROVE  LineInv'
    <2>1. CASE v = FALSE
        <3>1. Fill(Add(Buffer, <<>>, 0)) /\ spelled' = spelled
            BY <1>8, <2>1 DEF StreamBool
        <3>2. Add(Buffer, <<>>, 0).cells = line \o <<>>
            BY <1>1 DEF Add
        <3>3. line \o <<>> = line
            BY ConcatEmptySeq
        <3>4. Add(Buffer, <<>>, 0) \in LineBuffers
            <4>1. <<>> \in Seq(Int) /\ Len(<<>>) = 0
                OBVIOUS
            <4>2. CASE Len(line) > Size
                BY <1>1, <4>1, <4>2, AddBehind
            <4>3. CASE ~(Len(line) > Size)
                <5> DEFINE n == Len(line)
                <5>1. n \in Nat /\ Size \in Nat /\ ~(n > Size)
                    BY <4>3, LineAssumption, LenProperties
                <5> HIDE DEF n
                <5>2. n + 0 <= Size
                    BY <5>1
                <5>3. Len(Buffer.cells) + 0 <= Size
                    BY <1>1, <5>2, Zenon DEF n
                <5>4. Len(<<>>) <= 0 /\ 0 \in Nat
                    BY <4>1
                <5> QED BY <1>1, <4>1, <5>3, <5>4, AddKeeps
            <4> QED BY <4>2, <4>3
        <3>5. InLine(Add(Buffer, <<>>, 0).cells, spelled')
            BY <3>1, <3>2, <3>3
        <3> QED BY <1>2, <3>1, <3>4, <3>5
    <2>2. CASE v = TRUE
        <3>1. Fill(Add(Buffer, <<Junk>>, 0)) /\ spelled' = spelled
            BY <1>8, <2>2 DEF StreamBool
        <3>2. Add(Buffer, <<Junk>>, 0).cells = line \o <<Junk>>
            BY <1>1 DEF Add
        <3>3. <<Junk>> \in Seq(Int)
            BY DEF Junk
        <3>4. InLine(line \o <<Junk>>, spelled)
            BY <3>3, StaysInLine
        <3>5. Add(Buffer, <<Junk>>, 0) \in LineBuffers
            BY <1>1, StepKeeps
        <3>6. InLine(Add(Buffer, <<Junk>>, 0).cells, spelled')
            BY <3>1, <3>2, <3>4
        <3> QED BY <1>2, <3>1, <3>5, <3>6
    <2> QED BY <2>1, <2>2, LineAssumption
<1>9. ASSUME FinishLine
      PROVE  LineInv'
    <2> DEFINE c == Convert(LineNumber)
               a == Put(Buffer, Text(NameSize))
               d == Spell(Named, c)
    <2>1. NameSize \in Nat /\ LineNumber \in Int /\ Len(c) < NumericSize
        BY LineAssumption, FitAssumption
    <2>2. c \in Seq(Int) /\ ReadBack(c, 10) = LineNumber
        BY <2>1, NumberReads
    <2>3. Text(NameSize) \in Seq(Int) /\ Text(1) \in Seq(Int) /\ <<Newline>> \in Seq(Int)
        BY <2>1, TextType DEF Newline
    <2>4. /\ Named = Put(a, Text(1)) /\ Finished = Put(d, <<Newline>>) /\ Fill(Finished)
          /\ spelled' = spelled \cup Note(Named, c, LineNumber, 10)
        BY <1>9 DEF FinishLine, Named, Finished
    <2>5. a \in LineBuffers /\ InLine(a.cells, spelled)
        BY <1>1, <2>3, PutKeeps, PutStaysInLine
    <2> HIDE DEF a, c
    <2>6. Named \in LineBuffers /\ InLine(Named.cells, spelled)
        BY <2>3, <2>4, <2>5, PutKeeps, PutStaysInLine
    <2>7. d \in LineBuffers /\ InLine(d.cells, spelled')
        BY <2>1, <2>2, <2>4, <2>6, SpellKeeps, SpellNotes
    <2> HIDE DEF d
    <2>8. Finished \in LineBuffers /\ InLine(Finished.cells, spelled')
        BY <2>3, <2>4, <2>7, PutKeeps, PutStaysInLine
    <2> QED BY <1>2, <2>4, <2>8
<1>10. CASE UNCHANGED <<line, reach, spelled>>
    BY <1>10
<1>11. ASSUME NEW l \in Levels, SetLogLevel(l)
       PROVE  LineInv'
    BY <1>10, <1>11 DEF SetLogLevel
<1> HIDE DEF LineInv
<1>12. CASE LineNext
    BY <1>3, <1>4, <1>5, <1>6, <1>7, <1>8, <1>9, <1>11, <1>12 DEF LineNext
<1>13. CASE UNCHANGED ovars
    BY <1>10, <1>13 DEF ovars
<1> QED BY <1>12, <1>13

\* Whatever is streamed: every number in a line reads back as the value that it was given, the
\* least one of its type included, and lies within the buffer with the NUL behind it
\* (src/Log/logstream.cc: convert(), convertHex(), formatInteger(); logger.cc: finish()).  A
\* line crosses the end of the buffer by the step of operator<<(bool) only (logstream.h:69-73),
\* and nothing is written behind the end before that.
THEOREM NumbersStayReadable == LineSpec => []NumbersReadBack
<1>1. LineInit => LineInv
    <2>1. Size \in Nat /\ <<>> \in Seq(Int) /\ Len(<<>>) = 0
        BY LineAssumption
    <2> QED BY <2>1 DEF LineInit, LineInv, InLine, Within
<1>2. LineInv /\ [LineNext]_ovars => LineInv'
    BY LineStepKeepsNumbers
<1>3. LineInv => NumbersReadBack
    <2>1. Size \in Nat
        BY LineAssumption
    <2>2. line \in Seq(Int) => Len(line) \in Nat
        BY LenProperties
    <2> QED BY <2>1, <2>2 DEF LineInv, InLine, Within, NumbersReadBack
<1> QED BY <1>1, <1>2, <1>3, PTL DEF LineSpec

=============================================================================
