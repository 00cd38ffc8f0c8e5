--------------------------- MODULE SequenceFacts ---------------------------
(***************************************************************************)
(* What the proofs need to know of sequences and recursive functions in    *)
(* general: induction for a set of numbers, recursion over an interval,    *)
(* and what FlattenSeq() and \o do.                                        *)
(***************************************************************************)
EXTENDS SequencesExt, WellFoundedInduction, NaturalsInduction, SequenceTheorems, TLAPS

\* Induction, stated for a set of numbers, which needs no operator as a parameter.
LEMMA SetInduction ==
    ASSUME NEW S, 0 \in S, \A n \in Nat : n \in S => n + 1 \in S
    PROVE  Nat \subseteq S
<1> DEFINE T == Nat \ S
           R == OpToRel(<, Nat)
<1> SUFFICES ASSUME T # {} PROVE FALSE
    OBVIOUS
<1>1. IsWellFoundedOn(R, Nat)
    BY NatLessThanWellFounded
<1>2. \E x \in T : \A y \in T : ~(<<y, x>> \in R)
    <2>1. T \subseteq Nat
        OBVIOUS
    <2> HIDE DEF T, R
    <2> QED BY <1>1, <2>1, WFMin
<1>3. \A x, y \in Nat : y < x => <<y, x>> \in R
    BY DEF OpToRel
<1>4. PICK x \in T : \A y \in T : ~(y < x)
    BY <1>2, <1>3
<1>5. x # 0 /\ x - 1 \in Nat /\ x - 1 < x
    BY <1>4
<1>6. x - 1 \in S
    BY <1>4, <1>5
<1> QED BY <1>5, <1>6, <1>4

\* A recursion over an interval has a solution, if each step stays in a set.
SolvedBy(g, m, V, c, step) ==
    g \in [0..m -> V] /\ g[0] = c /\ \A i \in 1..m : g[i] = step[<<g[i - 1], i>>]

LEMMA Recursion ==
    ASSUME NEW m \in Nat, NEW V, NEW c \in V, NEW step,
           \A x \in V : \A i \in 1..m : step[<<x, i>>] \in V
    PROVE  \E g : SolvedBy(g, m, V, c, step)
<1> DEFINE Solves(g, n) == g[0] = c /\ \A i \in 1..n : g[i] = step[<<g[i - 1], i>>]
           S == {n \in Nat : n <= m => \E g \in [0..n -> V] : Solves(g, n)}
<1>1. 0 \in S
    <2> DEFINE g == [i \in 0..0 |-> c]
    <2>1. g \in [0..0 -> V] /\ g[0] = c /\ 1..0 = {}
        OBVIOUS
    <2> HIDE DEF g
    <2> QED BY <2>1
<1>2. ASSUME NEW n \in Nat, n \in S PROVE n + 1 \in S
    <2> SUFFICES ASSUME n + 1 <= m PROVE \E g \in [0..(n + 1) -> V] : Solves(g, n + 1)
        OBVIOUS
    <2>1. PICK g \in [0..n -> V] : Solves(g, n)
        BY <1>2
    <2> DEFINE k == n + 1
               last == step[<<g[n], k>>]
               h == [i \in 0..k |-> IF i <= n THEN g[i] ELSE last]
    <2>2. last \in V
        <3>1. g[n] \in V /\ k \in 1..m
            BY <2>1
        <3> QED BY <3>1
    <2>3. h \in [0..k -> V] /\ h[k] = last /\ \A i \in 0..n : h[i] = g[i]
        <3> HIDE DEF last
        <3> QED BY <2>1, <2>2
    <2> HIDE DEF h
    <2>4. Solves(h, k)
        <3>1. h[0] = c
            BY <2>1, <2>3
        <3>2. ASSUME NEW i \in 1..k PROVE h[i] = step[<<h[i - 1], i>>]
            <4>1. CASE i <= n
                <5>1. i \in 1..n /\ i \in 0..n /\ i - 1 \in 0..n
                    BY <4>1
                <5>2. h[i] = g[i] /\ h[i - 1] = g[i - 1]
                    BY <5>1, <2>3
                <5> QED BY <5>1, <5>2, <2>1
            <4>2. CASE i = k
                <5>1. i - 1 = n /\ n \in 0..n
                    BY <4>2
                <5>2. h[i - 1] = g[n]
                    BY <5>1, <2>3
                <5> QED BY <4>2, <5>2, <2>3
            <4> QED BY <4>1, <4>2
        <3> HIDE DEF k
        <3> QED BY <3>1, <3>2
    <2> HIDE DEF Solves
    <2> QED BY <2>3, <2>4 DEF k
<1>3. m \in S
    <2> HIDE DEF S
    <2> QED BY <1>1, <1>2, SetInduction
<1> QED BY <1>3 DEF SolvedBy

\* The recursion by which FlattenSeq() is defined has a solution...
LEMMA FlattenDefined ==
    ASSUME NEW q, NEW m \in Nat
    PROVE  \E g : g = [i \in 1..m |-> IF i = 1 THEN q[i] ELSE g[i - 1] \o q[i]]
<1> DEFINE S == {n \in Nat : \E g : g = [i \in 1..n |-> IF i = 1 THEN q[i] ELSE g[i - 1] \o q[i]]}
<1>1. 0 \in S
    <2> DEFINE g == [i \in 1..0 |-> q[i]]
    <2>1. g = [i \in 1..0 |-> IF i = 1 THEN q[i] ELSE g[i - 1] \o q[i]]
        OBVIOUS
    <2> HIDE DEF g
    <2> QED BY <2>1
<1>2. ASSUME NEW n \in Nat, n \in S PROVE n + 1 \in S
    <2>1. PICK g : g = [i \in 1..n |-> IF i = 1 THEN q[i] ELSE g[i - 1] \o q[i]]
        BY <1>2
    <2> DEFINE h == [i \in 1..(n + 1) |-> IF i <= n THEN g[i]
                                           ELSE IF i = 1 THEN q[i] ELSE g[n] \o q[i]]
    <2>2. \A i \in 1..n : h[i] = g[i] /\ g[i] = IF i = 1 THEN q[i] ELSE g[i - 1] \o q[i]
        <3>1. \A i \in 1..n : g[i] = IF i = 1 THEN q[i] ELSE g[i - 1] \o q[i]
            BY <2>1, Zenon
        <3>2. \A i \in 1..n : i \in 1..(n + 1) /\ i <= n
            OBVIOUS
        <3>3. \A i \in 1..n : h[i] = g[i]
            BY <3>2
        <3> QED BY <3>1, <3>3
    <2>3. h[n + 1] = IF n + 1 = 1 THEN q[n + 1] ELSE g[n] \o q[n + 1]
        OBVIOUS
    <2>4. \A i \in 1..(n + 1) : h[i] = IF i = 1 THEN q[i] ELSE h[i - 1] \o q[i]
        <3> TAKE i \in 1..(n + 1)
        <3>1. CASE i <= n
            <4>1. i = 1 \/ i - 1 \in 1..n
                BY <3>1
            <4> HIDE DEF h
            <4> QED BY <3>1, <4>1, <2>2
        <3>2. CASE i = n + 1
            <4>1. i = 1 \/ n \in 1..n
                BY <3>2
            <4> HIDE DEF h
            <4> QED BY <3>2, <4>1, <2>2, <2>3
        <3> QED BY <3>1, <3>2
    <2>5. h = [i \in 1..(n + 1) |-> h[i]]
        OBVIOUS
    <2> HIDE DEF h
    <2>6. h = [i \in 1..(n + 1) |-> IF i = 1 THEN q[i] ELSE h[i - 1] \o q[i]]
        <3> DEFINE k == [i \in 1..(n + 1) |-> IF i = 1 THEN q[i] ELSE h[i - 1] \o q[i]]
        <3>1. \A i \in 1..(n + 1) : k[i] = h[i]
            BY <2>4
        <3>2. k = [i \in 1..(n + 1) |-> k[i]]
            OBVIOUS
        <3> HIDE DEF k
        <3>3. k = h
            BY <2>5, <3>1, <3>2
        <3> QED BY <3>3 DEF k
    <2>7. n + 1 \in Nat
        OBVIOUS
    <2> QED BY <2>6, <2>7, Zenon
<1>3. Nat \subseteq S
    <2> HIDE DEF S
    <2> QED BY <1>1, <1>2, SetInduction
<1> QED BY <1>3

\* ... so that it joins its parts from the left to the right.
LEMMA FlattenSteps ==
    ASSUME NEW L, NEW q \in Seq(Seq(L)), q # <<>>
    PROVE  \E g \in [1..Len(q) -> Seq(L)] :
              /\ g[1] = q[1] /\ \A i \in 2..Len(q) : g[i] = g[i - 1] \o q[i]
              /\ FlattenSeq(q) = g[Len(q)]
<1> DEFINE m == Len(q)
           Solves(g) == g = [i \in 1..m |-> IF i = 1 THEN q[i] ELSE g[i - 1] \o q[i]]
           g == CHOOSE f : Solves(f)
<1>1. m \in Nat \ {0} /\ \A i \in 1..m : q[i] \in Seq(L)
    BY EmptySeq, LenProperties, ElementOfSeq
<1>2. Solves(g)
    BY <1>1, FlattenDefined
<1>3. FlattenSeq(q) = g[m]
    BY <1>1 DEF FlattenSeq
<1>4. g[1] = q[1] /\ \A i \in 2..m : g[i] = g[i - 1] \o q[i]
    <2> HIDE DEF g, m
    <2>1. \A i \in 1..m : g[i] = IF i = 1 THEN q[i] ELSE g[i - 1] \o q[i]
        BY <1>2, Zenon
    <2>2. 1 \in 1..m /\ \A i \in 2..m : i \in 1..m /\ i # 1
        BY <1>1
    <2> QED BY <2>1, <2>2, Zenon
<1>5. g \in [1..m -> {g[i] : i \in 1..m}]
    <2> DEFINE k == [i \in 1..m |-> IF i = 1 THEN q[i] ELSE g[i - 1] \o q[i]]
    <2>1. DOMAIN k = 1..m /\ k = [i \in DOMAIN k |-> k[i]]
        OBVIOUS
    <2>2. g = k
        BY <1>2
    <2> HIDE DEF k, g
    <2> QED BY <2>1, <2>2
<1> HIDE DEF g, Solves, m
<1>6. g \in [1..m -> Seq(L)]
    <2> DEFINE S == {n \in Nat : n + 1 \in 1..m => g[n + 1] \in Seq(L)}
    <2>1. 0 \in S
        BY <1>1, <1>4
    <2>2. ASSUME NEW n \in Nat, n \in S PROVE n + 1 \in S
        <3> SUFFICES ASSUME n + 2 \in 1..m PROVE g[n + 2] \in Seq(L)
            OBVIOUS
        <3>1. g[n + 2] = g[n + 1] \o q[n + 2]
            <4> DEFINE j == n + 2
            <4>1. j \in 2..m
                BY <1>1
            <4>2. j - 1 = n + 1
                OBVIOUS
            <4> HIDE DEF j
            <4>3. g[j] = g[j - 1] \o q[j]
                BY <1>4, <4>1, Zenon
            <4> QED BY <4>2, <4>3 DEF j
        <3>2. g[n + 1] \in Seq(L) /\ q[n + 2] \in Seq(L)
            BY <2>2, <1>1
        <3> QED BY <3>1, <3>2, ConcatProperties
    <2>3. Nat \subseteq S
        <3> HIDE DEF S
        <3> QED BY <2>1, <2>2, SetInduction
    <2>4. \A i \in 1..m : i - 1 \in Nat /\ i - 1 + 1 = i
        BY <1>1
    <2>5. \A i \in 1..m : g[i] \in Seq(L)
        BY <2>3, <2>4
    <2> QED BY <2>5, <1>5
<1> QED BY <1>3, <1>4, <1>6 DEF m

\* Where the items of two sequences are in their concatenation.
LEMMA ConcatParts ==
    ASSUME NEW L, NEW s \in Seq(L), NEW t \in Seq(L), s # <<>>, t # <<>>
    PROVE  /\ s \o t \in Seq(L) /\ s \o t # <<>> /\ Len(s \o t) = Len(s) + Len(t)
           /\ Len(s) \in Nat \ {0} /\ Len(t) \in Nat \ {0}
           /\ \A i \in 1..Len(s) : (s \o t)[i] = s[i]
           /\ \A i \in 1..Len(t) : (s \o t)[Len(s) + i] = t[i]
<1>1. Len(s) \in Nat \ {0} /\ Len(t) \in Nat \ {0}
    BY EmptySeq, LenProperties
<1>2. /\ s \o t \in Seq(L) /\ Len(s \o t) = Len(s) + Len(t)
      /\ \A i \in 1 .. Len(s) + Len(t) :
            (s \o t)[i] = IF i <= Len(s) THEN s[i] ELSE t[i - Len(s)]
    BY ConcatProperties
<1>3. s \o t # <<>>
    BY ConcatEqualIffEmpty
<1>4. \A i \in 1..Len(s) : (s \o t)[i] = s[i]
    BY <1>1, <1>2
<1>5. ASSUME NEW i \in 1..Len(t) PROVE (s \o t)[Len(s) + i] = t[i]
    <2>1. Len(s) + i \in 1..(Len(s) + Len(t)) /\ ~(Len(s) + i <= Len(s)) /\ Len(s) + i - Len(s) = i
        BY <1>1
    <2> QED BY <2>1, <1>2
<1> QED BY <1>1, <1>2, <1>3, <1>4, <1>5

\* Three sequences joined, however they are.
LEMMA Associate ==
    \A L : \A a, b, c \in Seq(L) : (a \o b) \o c = a \o (b \o c)
BY ConcatAssociative

\* What FlattenSeq() makes of no parts, of one, and of a concatenation of parts, and what
\* is in it.
LEMMA FlattenEmpty == FlattenSeq(<<>>) = <<>>
<1>1. Len(<<>>) = 0
    BY EmptySeq
<1> QED BY <1>1 DEF FlattenSeq

LEMMA FlattenType ==
    ASSUME NEW L, NEW q \in Seq(Seq(L))
    PROVE  FlattenSeq(q) \in Seq(L)
<1>1. CASE q = <<>>
    BY <1>1, FlattenEmpty, EmptySeq
<1>2. CASE q # <<>>
    <2>1. PICK g \in [1..Len(q) -> Seq(L)] : FlattenSeq(q) = g[Len(q)]
        BY <1>2, FlattenSteps
    <2>2. Len(q) \in 1..Len(q)
        BY <1>2, EmptySeq, LenProperties
    <2> QED BY <2>1, <2>2
<1> QED BY <1>1, <1>2

LEMMA FlattenOne ==
    ASSUME NEW L, NEW b \in Seq(L)
    PROVE  FlattenSeq(<<b>>) = b
<1>1. <<b>> \in Seq(Seq(L)) /\ <<b>> # <<>> /\ Len(<<b>>) = 1 /\ <<b>>[1] = b
    OBVIOUS
<1>2. PICK g \in [1..Len(<<b>>) -> Seq(L)] :
            g[1] = <<b>>[1] /\ FlattenSeq(<<b>>) = g[Len(<<b>>)]
    BY <1>1, FlattenSteps
<1> QED BY <1>1, <1>2

LEMMA FlattenConcat ==
    ASSUME NEW L, NEW s \in Seq(Seq(L)), NEW t \in Seq(Seq(L))
    PROVE  FlattenSeq(s \o t) = FlattenSeq(s) \o FlattenSeq(t)
<1>1. CASE s = <<>>
    BY <1>1, FlattenEmpty, FlattenType, ConcatEmptySeq
<1>2. CASE t = <<>>
    BY <1>2, FlattenEmpty, FlattenType, ConcatEmptySeq
<1>3. CASE s # <<>> /\ t # <<>>
    <2> DEFINE q == s \o t
               n == Len(s)
               m == Len(t)
    <2>1. /\ q \in Seq(Seq(L)) /\ q # <<>> /\ Len(q) = n + m
          /\ n \in Nat \ {0} /\ m \in Nat \ {0}
          /\ \A i \in 1..n : q[i] = s[i]
          /\ \A i \in 1..m : q[n + i] = t[i] /\ t[i] \in Seq(L)
        BY <1>3, ConcatParts, ElementOfSeq
    <2> HIDE DEF q
    <2>2. PICK g \in [1..Len(q) -> Seq(L)] :
            /\ g[1] = q[1] /\ \A i \in 2..Len(q) : g[i] = g[i - 1] \o q[i]
            /\ FlattenSeq(q) = g[Len(q)]
        BY <2>1, FlattenSteps
    <2>3. PICK h \in [1..Len(s) -> Seq(L)] :
            /\ h[1] = s[1] /\ \A i \in 2..Len(s) : h[i] = h[i - 1] \o s[i]
            /\ FlattenSeq(s) = h[Len(s)]
        BY <1>3, FlattenSteps
    <2>4. PICK k \in [1..Len(t) -> Seq(L)] :
            /\ k[1] = t[1] /\ \A i \in 2..Len(t) : k[i] = k[i - 1] \o t[i]
            /\ FlattenSeq(t) = k[Len(t)]
        BY <1>3, FlattenSteps
    <2> HIDE DEF n, m
    <2>5. g[n] = h[n]
        <3> DEFINE S == {i \in Nat : i + 1 \in 1..n => g[i + 1] = h[i + 1]}
        <3>1. 0 \in S
            BY <2>1, <2>2, <2>3 DEF n
        <3>2. ASSUME NEW i \in Nat, i \in S PROVE i + 1 \in S
            <4> SUFFICES ASSUME i + 2 \in 1..n PROVE g[i + 2] = h[i + 2]
                OBVIOUS
            <4> DEFINE j == i + 2
            <4>1. /\ j \in 2..Len(q) /\ j \in 2..Len(s) /\ j \in 1..n
                  /\ j - 1 = i + 1 /\ i + 1 \in 1..n
                BY <2>1 DEF n
            <4> HIDE DEF j
            <4>2. g[j] = g[j - 1] \o q[j]
                BY <2>2, <4>1, Zenon
            <4>3. h[j] = h[j - 1] \o s[j]
                BY <2>3, <4>1, Zenon
            <4>4. q[j] = s[j] /\ g[j - 1] = h[j - 1]
                BY <3>2, <2>1, <4>1
            <4>5. g[j] = h[j]
                BY <4>2, <4>3, <4>4, Zenon
            <4> QED BY <4>5 DEF j
        <3>3. Nat \subseteq S
            <4> HIDE DEF S
            <4> QED BY <3>1, <3>2, SetInduction
        <3>4. n - 1 \in Nat /\ n - 1 + 1 = n /\ n \in 1..n
            BY <2>1
        <3>5. n - 1 \in S
            BY <3>3, <3>4, Zenon
        <3> QED BY <3>4, <3>5
    <2>6. g[n + m] = h[n] \o k[m]
        <3> DEFINE S == {i \in Nat : i + 1 \in 1..m => g[n + i + 1] = h[n] \o k[i + 1]}
        <3>1. 0 \in S
            <4> DEFINE j == n + 1
            <4>1. j \in 2..Len(q) /\ j - 1 = n /\ 1 \in 1..m
                BY <2>1
            <4>2. q[j] = k[1]
                BY <2>1, <2>4, <4>1
            <4> HIDE DEF j
            <4>3. g[j] = g[j - 1] \o q[j]
                BY <2>2, <4>1, Zenon
            <4>4. g[j] = h[n] \o k[1]
                BY <4>1, <4>2, <4>3, <2>5
            <4>5. n + 0 + 1 = j /\ 0 + 1 = 1
                BY <2>1 DEF j
            <4> QED BY <4>4, <4>5
        <3>2. ASSUME NEW i \in Nat, i \in S PROVE i + 1 \in S
            <4>0. i + 1 \in Nat
                OBVIOUS
            <4> SUFFICES ASSUME (i + 1) + 1 \in 1..m
                         PROVE  g[n + (i + 1) + 1] = h[n] \o k[(i + 1) + 1]
                BY <4>0, Zenon
            <4> DEFINE j == n + (i + 1) + 1
                       l == (i + 1) + 1
            <4>1. /\ j \in 2..Len(q) /\ l \in 2..Len(t) /\ j - 1 = n + i + 1 /\ l - 1 = i + 1
                  /\ i + 1 \in 1..m /\ n \in 1..Len(s) /\ l \in 1..m /\ j = n + l
                  /\ i + 1 \in 1..Len(t)
                <5>1. Len(q) = n + m /\ Len(s) = n /\ Len(t) = m /\ n \in Nat \ {0} /\ m \in Nat
                    BY <2>1 DEF n, m
                <5> QED BY <5>1
            <4>2. q[j] = t[l] /\ t[l] \in Seq(L)
                BY <2>1, <4>1
            <4>3. g[n + i + 1] = h[n] \o k[i + 1]
                BY <3>2, <4>1
            <4>4. h[n] \in Seq(L) /\ k[i + 1] \in Seq(L)
                BY <4>1
            <4> HIDE DEF j, l
            <4>5. g[j] = g[j - 1] \o q[j]
                BY <2>2, <4>1, Zenon
            <4>6. k[l] = k[l - 1] \o t[l]
                BY <2>4, <4>1, Zenon
            <4>7. g[j] = (h[n] \o k[i + 1]) \o t[l]
                BY <4>1, <4>2, <4>3, <4>5
            <4>8. (h[n] \o k[i + 1]) \o t[l] = h[n] \o (k[i + 1] \o t[l])
                <5> DEFINE a == h[n]
                           b == k[i + 1]
                           c == t[l]
                <5>1. a \in Seq(L) /\ b \in Seq(L) /\ c \in Seq(L)
                    BY <4>2, <4>4
                <5> HIDE DEF a, b, c
                <5>2. (a \o b) \o c = a \o (b \o c)
                    BY <5>1, Associate, SMTT(30)
                <5> QED BY <5>2 DEF a, b, c
            <4>9. g[j] = h[n] \o k[l]
                BY <4>1, <4>6, <4>7, <4>8
            <4> QED BY <4>9 DEF j, l
        <3>3. Nat \subseteq S
            <4> HIDE DEF S
            <4> QED BY <3>1, <3>2, SetInduction
        <3>4. m - 1 \in Nat /\ m - 1 + 1 = m /\ m \in 1..m /\ n + (m - 1) + 1 = n + m
            BY <2>1
        <3>5. m - 1 \in S
            BY <3>3, <3>4, Zenon
        <3> QED BY <3>4, <3>5
    <2> QED BY <2>1, <2>2, <2>3, <2>4, <2>6 DEF n, m, q
<1> QED BY <1>1, <1>2, <1>3

\* What is in a concatenation.
LEMMA ConcatMembers ==
    ASSUME NEW L, NEW s \in Seq(L), NEW t \in Seq(L)
    PROVE  ToSet(s \o t) = ToSet(s) \cup ToSet(t)
<1>1. Len(s) \in Nat /\ Len(t) \in Nat /\ DOMAIN s = 1..Len(s) /\ DOMAIN t = 1..Len(t)
    BY LenProperties
<1>2. /\ s \o t \in Seq(L) /\ Len(s \o t) = Len(s) + Len(t)
      /\ \A i \in 1 .. Len(s) + Len(t) :
            (s \o t)[i] = IF i <= Len(s) THEN s[i] ELSE t[i - Len(s)]
    BY ConcatProperties
<1>3. DOMAIN (s \o t) = 1..(Len(s) + Len(t))
    BY <1>2, LenProperties
<1> DEFINE q == s \o t
<1>4. ASSUME NEW i \in 1..(Len(s) + Len(t))
      PROVE  q[i] \in ToSet(s) \cup ToSet(t)
    <2>1. CASE i <= Len(s)
        BY <2>1, <1>1, <1>2 DEF ToSet
    <2>2. CASE ~(i <= Len(s))
        <3>1. i - Len(s) \in 1..Len(t) /\ q[i] = t[i - Len(s)]
            BY <2>2, <1>1, <1>2
        <3> QED BY <3>1, <1>1 DEF ToSet
    <2> QED BY <2>1, <2>2
<1>5. ASSUME NEW i \in 1..Len(s) PROVE s[i] \in ToSet(q)
    <2>1. i \in DOMAIN q /\ q[i] = s[i]
        BY <1>1, <1>2, <1>3
    <2> HIDE DEF q
    <2> QED BY <2>1 DEF ToSet
<1>6. ASSUME NEW i \in 1..Len(t) PROVE t[i] \in ToSet(q)
    <2>1. Len(s) + i \in DOMAIN q /\ q[Len(s) + i] = t[i]
        BY <1>1, <1>2, <1>3
    <2> HIDE DEF q
    <2> QED BY <2>1 DEF ToSet
<1> HIDE DEF q
<1>7. ToSet(q) \subseteq ToSet(s) \cup ToSet(t)
    BY <1>3, <1>4 DEF ToSet, q
<1>8. ToSet(s) \cup ToSet(t) \subseteq ToSet(q)
    BY <1>1, <1>5, <1>6 DEF ToSet
<1> QED BY <1>7, <1>8 DEF q

LEMMA FlattenMembers ==
    ASSUME NEW L, NEW q \in Seq(Seq(L))
    PROVE  ToSet(FlattenSeq(q)) = UNION {ToSet(q[i]) : i \in DOMAIN q}
<1>1. CASE q = <<>>
    <2>1. DOMAIN <<>> = {}
        OBVIOUS
    <2> QED BY <1>1, <2>1, FlattenEmpty DEF ToSet
<1>2. CASE q # <<>>
    <2>1. PICK g \in [1..Len(q) -> Seq(L)] :
            /\ g[1] = q[1] /\ \A i \in 2..Len(q) : g[i] = g[i - 1] \o q[i]
            /\ FlattenSeq(q) = g[Len(q)]
        BY <1>2, FlattenSteps
    <2>2. /\ Len(q) \in Nat \ {0} /\ DOMAIN q = 1..Len(q)
          /\ \A i \in 1..Len(q) : q[i] \in Seq(L)
        BY <1>2, EmptySeq, LenProperties, ElementOfSeq
    <2> DEFINE m == Len(q)
               In(n) == UNION {ToSet(q[i]) : i \in 1..n}
               S == {n \in Nat : n + 1 \in 1..m => ToSet(g[n + 1]) = In(n + 1)}
    <2>3. 0 \in S
        <3>1. 1..(0 + 1) = {1} /\ 0 + 1 = 1
            OBVIOUS
        <3>2. In(0 + 1) = ToSet(q[1])
            BY <3>1
        <3>3. ToSet(g[0 + 1]) = In(0 + 1)
            BY <3>1, <3>2, <2>1
        <3> HIDE DEF In
        <3> QED BY <3>3
    <2>4. ASSUME NEW n \in Nat, n \in S PROVE n + 1 \in S
        <3>0. n + 1 \in Nat
            OBVIOUS
        <3> SUFFICES ASSUME (n + 1) + 1 \in 1..m
                     PROVE  ToSet(g[(n + 1) + 1]) = In((n + 1) + 1)
            BY <3>0, Zenon
        <3> DEFINE j == (n + 1) + 1
        <3>1. /\ j \in 2..Len(q) /\ j - 1 = n + 1 /\ n + 1 \in 1..m /\ n + 1 \in 1..Len(q)
              /\ j \in 1..Len(q)
            BY <2>2
        <3>2. 1..j = 1..(n + 1) \cup {j}
            OBVIOUS
        <3> HIDE DEF j
        <3>3. g[j] = g[j - 1] \o q[j]
            BY <2>1, <3>1, Zenon
        <3>4. g[n + 1] \in Seq(L) /\ q[j] \in Seq(L)
            BY <3>1, <2>2
        <3>5. ToSet(g[j]) = ToSet(g[n + 1]) \cup ToSet(q[j])
            BY <3>1, <3>3, <3>4, ConcatMembers
        <3>6. ToSet(g[n + 1]) = In(n + 1)
            BY <2>4, <3>1
        <3>7. In(j) = In(n + 1) \cup ToSet(q[j])
            BY <3>2
        <3> HIDE DEF In
        <3>8. ToSet(g[j]) = In(j)
            BY <3>5, <3>6, <3>7
        <3> QED BY <3>8 DEF j
    <2>5. Nat \subseteq S
        <3> HIDE DEF S
        <3> QED BY <2>3, <2>4, SetInduction
    <2>6. m - 1 \in Nat /\ m - 1 + 1 = m /\ m \in 1..m
        BY <2>2
    <2>7. m - 1 \in S
        BY <2>5, <2>6, Zenon
    <2>8. ToSet(g[m]) = In(m)
        <3> HIDE DEF In, m
        <3> QED BY <2>6, <2>7
    <2> QED BY <2>1, <2>2, <2>8
<1> QED BY <1>1, <1>2

-----------------------------------------------------------------------------
(* Cutting a sequence. *)

\* Where a sequence that is put together of s and w begins with p, it does so in s, if that
\* is long enough...
LEMMA CutPrefix ==
    ASSUME NEW L, NEW s \in Seq(L), NEW w \in Seq(L), NEW p \in Seq(L), NEW t \in Seq(L),
           s \o w = p \o t, Len(p) <= Len(s)
    PROVE  /\ SubSeq(s, 1, Len(p)) = p
           /\ SubSeq(s, Len(p) + 1, Len(s)) \in Seq(L)
<1> DEFINE n == Len(p)
           m == Len(s)
           u == SubSeq(s, n + 1, m)
<1>1. n \in Nat /\ m \in Nat /\ Len(w) \in Nat /\ Len(t) \in Nat /\ n <= m
    BY LenProperties
<1>2. /\ Len(s \o w) = m + Len(w)
      /\ \A i \in 1..(m + Len(w)) : (s \o w)[i] = IF i <= m THEN s[i] ELSE w[i - m]
    BY ConcatProperties
<1>3. /\ Len(p \o t) = n + Len(t)
      /\ \A i \in 1..(n + Len(t)) : (p \o t)[i] = IF i <= n THEN p[i] ELSE t[i - n]
    BY ConcatProperties
<1> HIDE DEF n, m
<1>4. m + Len(w) = n + Len(t)
    BY <1>2, <1>3
<1>5. \A i \in 1..m : s[i] \in L
    BY ElementOfSeq DEF m
<1>6. SubSeq(s, 1, n) = p
    <2> DEFINE v == SubSeq(s, 1, n)
    <2>1. v \in Seq(L) /\ Len(v) = n /\ \A i \in 1..n : v[i] = s[i]
        BY <1>1, <1>5
    <2>2. \A i \in 1..n : s[i] = p[i]
        <3> TAKE i \in 1..n
        <3>1. i \in 1..(m + Len(w)) /\ i <= m /\ i \in 1..(n + Len(t)) /\ i <= n
            BY <1>1
        <3> QED BY <3>1, <1>2, <1>3
    <2> HIDE DEF v
    <2>3. v = p
        BY <2>1, <2>2, SeqEqual DEF n
    <2> QED BY <2>3 DEF v
<1>7. u \in Seq(L) /\ Len(u) = m - n /\ \A i \in 1..(m - n) : u[i] = s[n + i]
    <2>1. n + 1 \in 1..(m + 1) /\ m - n \in Nat
        BY <1>1
    <2>2. \A i \in (n + 1)..m : s[i] \in L
        BY <1>1, <1>5
    <2> QED BY <2>1, <2>2, <1>1, SubSeqProperties DEF m
<1> QED BY <1>6, <1>7 DEF n, m, u

\* ... and w and what s has behind p is what follows.
LEMMA CutRest ==
    ASSUME NEW L, NEW s \in Seq(L), NEW w \in Seq(L), NEW p \in Seq(L), NEW t \in Seq(L),
           s \o w = p \o t, Len(p) <= Len(s)
    PROVE  SubSeq(s, Len(p) + 1, Len(s)) \o w = t
<1> DEFINE n == Len(p)
           m == Len(s)
           u == SubSeq(s, n + 1, m)
<1>1. n \in Nat /\ m \in Nat /\ Len(w) \in Nat /\ Len(t) \in Nat /\ n <= m
    BY LenProperties
<1>2. /\ Len(s \o w) = m + Len(w)
      /\ \A i \in 1..(m + Len(w)) : (s \o w)[i] = IF i <= m THEN s[i] ELSE w[i - m]
    BY ConcatProperties
<1>3. /\ Len(p \o t) = n + Len(t)
      /\ \A i \in 1..(n + Len(t)) : (p \o t)[i] = IF i <= n THEN p[i] ELSE t[i - n]
    BY ConcatProperties
<1> HIDE DEF n, m
<1>4. m + Len(w) = n + Len(t)
    BY <1>2, <1>3
<1>5. \A i \in 1..m : s[i] \in L
    BY ElementOfSeq DEF m
<1>7. u \in Seq(L) /\ Len(u) = m - n /\ \A i \in 1..(m - n) : u[i] = s[n + i]
    <2>1. n + 1 \in 1..(m + 1) /\ m - n \in Nat
        BY <1>1
    <2>2. \A i \in (n + 1)..m : s[i] \in L
        BY <1>1, <1>5
    <2> QED BY <2>1, <2>2, <1>1, SubSeqProperties DEF m
<1> HIDE DEF u
<1>8. u \o w = t
    <2> DEFINE v == u \o w
    <2> DEFINE k == m - n
    <2>0. Len(u) = k
        BY <1>7
    <2>1. /\ v \in Seq(L) /\ Len(v) = k + Len(w)
          /\ \A i \in 1..(k + Len(w)) : v[i] = IF i <= k THEN u[i] ELSE w[i - k]
        <3> HIDE DEF k
        <3>1. /\ v \in Seq(L) /\ Len(v) = Len(u) + Len(w)
              /\ \A i \in 1..(Len(u) + Len(w)) :
                    v[i] = IF i <= Len(u) THEN u[i] ELSE w[i - Len(u)]
            BY <1>7, ConcatProperties
        <3> QED BY <2>0, <3>1
    <2> HIDE DEF v
    <2>2. Len(v) = Len(t)
        BY <2>1, <1>1, <1>4
    <2>3. ASSUME NEW i \in 1..Len(t) PROVE v[i] = t[i]
        <3>1. /\ n + i \in 1..(n + Len(t)) /\ ~(n + i <= n) /\ n + i - n = i
              /\ n + i \in 1..(m + Len(w)) /\ i \in 1..((m - n) + Len(w))
            BY <1>1, <1>4
        <3>2. t[i] = (p \o t)[n + i]
            <4> DEFINE j == n + i
            <4>1. j \in 1..(n + Len(t)) /\ ~(j <= n) /\ j - n = i
                BY <3>1, <1>1
            <4> HIDE DEF j
            <4>2. (p \o t)[j] = t[j - n]
                BY <4>1, <1>3
            <4> QED BY <4>1, <4>2 DEF j
        <3>3. CASE i <= m - n
            <4>1. n + i <= m /\ i \in 1..(m - n)
                BY <3>3, <1>1
            <4>2. (s \o w)[n + i] = s[n + i] /\ v[i] = u[i]
                BY <4>1, <3>1, <3>3, <1>2, <2>1
            <4> QED BY <4>1, <4>2, <3>2, <1>7
        <3>4. CASE ~(i <= m - n)
            <4>1. ~(n + i <= m) /\ n + i - m = i - (m - n)
                BY <3>4, <1>1
            <4> DEFINE j == n + i
            <4>2. v[i] = w[i - (m - n)]
                BY <3>1, <3>4, <2>1
            <4>3. j \in 1..(m + Len(w)) /\ ~(j <= m)
                BY <3>1, <4>1
            <4> HIDE DEF j
            <4>4. (s \o w)[j] = w[j - m]
                BY <4>3, <1>2
            <4>5. (s \o w)[j] = (p \o t)[j]
                OBVIOUS
            <4>6. j - m = i - (m - n)
                BY <1>1 DEF j
            <4>7. (p \o t)[j] = t[i]
                BY <3>2 DEF j
            <4> QED BY <4>2, <4>4, <4>5, <4>6, <4>7
        <3> QED BY <3>3, <3>4
    <2>4. v = t
        BY <2>1, <2>2, <2>3, SeqEqual
    <2> QED BY <2>4 DEF v
<1>9. SubSeq(s, Len(p) + 1, Len(s)) = u
    BY DEF n, m, u
<1> QED BY <1>8, <1>9

\* What is there is the beginning of what is left.
LEMMA PrefixItems ==
    ASSUME NEW L, NEW s \in Seq(L), NEW w \in Seq(L), NEW n \in DOMAIN s
    PROVE  /\ (s \o w)[n] = s[n] /\ n \in DOMAIN (s \o w) /\ s \o w # <<>>
<1>1. Len(s) \in Nat /\ Len(w) \in Nat /\ DOMAIN s = 1..Len(s)
    BY LenProperties
<1>2. /\ s \o w \in Seq(L) /\ Len(s \o w) = Len(s) + Len(w)
      /\ (s \o w)[n] = s[n]
    BY <1>1, ConcatProperties
<1>3. n \in DOMAIN (s \o w)
    BY <1>1, <1>2, LenProperties
<1> QED BY <1>2, <1>3

=============================================================================
