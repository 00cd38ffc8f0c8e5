-------------------------- MODULE TaskQueue_proofs --------------------------
(***************************************************************************)
(* Theorems about the abstract executor, for any set of tasks.             *)
(***************************************************************************)
EXTENDS TaskQueue, Integers, SequenceTheorems, TLAPS

\* ExactlyOnce as a predicate of the set of fresh tasks and the sequence of
\* all the others.
Once(unused, all) ==
    /\ \A i, j \in DOMAIN all : all[i] = all[j] => i = j
    /\ \A t \in Tasks : t \in unused <=> \A i \in DOMAIN all : all[i] # t

\* Inserting a fresh task anywhere in the sequence keeps every task in one place.
LEMMA InsertOnce ==
    ASSUME NEW all \in Seq(Tasks), NEW more \in Seq(Tasks),
           NEW unused \in SUBSET Tasks, NEW t \in unused,
           NEW k \in 1 .. Len(all) + 1,
           Len(more) = Len(all) + 1,
           \A i \in 1 .. Len(more) :
               more[i] = IF i < k THEN all[i] ELSE IF i = k THEN t ELSE all[i - 1],
           Once(unused, all)
    PROVE  Once(unused \ {t}, more)
<1>1. /\ Len(all) \in Nat
      /\ DOMAIN all = 1 .. Len(all)
      /\ DOMAIN more = 1 .. Len(all) + 1
    BY LenProperties
<1>2. \A i \in 1 .. Len(all) : all[i] # t
    BY <1>1 DEF Once
<1>3. ASSUME NEW i \in DOMAIN more, NEW j \in DOMAIN more, more[i] = more[j]
      PROVE  i = j
    <2> DEFINE old(n) == IF n < k THEN n ELSE n - 1
    <2>1. i # k => old(i) \in 1 .. Len(all) /\ more[i] = all[old(i)]
        BY <1>1
    <2>2. j # k => old(j) \in 1 .. Len(all) /\ more[j] = all[old(j)]
        BY <1>1
    <2>3. i = k => j = k
        BY <1>1, <1>2, <1>3, <2>2
    <2>4. j = k => i = k
        BY <1>1, <1>2, <1>3, <2>1
    <2>5. CASE i # k /\ j # k
        <3>1. old(i) = old(j)
            BY <1>1, <1>3, <2>1, <2>2, <2>5 DEF Once
        <3> QED BY <1>1, <2>5, <3>1
    <2> QED BY <2>3, <2>4, <2>5
<1>4. ASSUME NEW u \in Tasks
      PROVE  u \in unused \ {t} <=> \A i \in DOMAIN more : more[i] # u
    <2>1. ASSUME u \in unused \ {t}, NEW i \in DOMAIN more PROVE more[i] # u
        <3>1. \A n \in 1 .. Len(all) : all[n] # u
            BY <1>1, <2>1 DEF Once
        <3>2. CASE i = k
            BY <1>1, <2>1, <3>2
        <3>3. CASE i < k
            BY <1>1, <3>1, <3>3
        <3>4. CASE i > k
            BY <1>1, <3>1, <3>4
        <3> QED BY <1>1, <3>2, <3>3, <3>4
    <2>2. ASSUME \A i \in DOMAIN more : more[i] # u PROVE u \in unused \ {t}
        <3>1. u # t
            BY <1>1, <2>2
        <3>2. ASSUME NEW n \in 1 .. Len(all) PROVE all[n] # u
            <4>1. CASE n < k
                BY <1>1, <2>2, <4>1
            <4>2. CASE n >= k
                <5>1. n + 1 \in DOMAIN more /\ more[n + 1] = all[n]
                    BY <1>1, <4>2
                <5> QED BY <2>2, <5>1
            <4> QED BY <1>1, <4>1, <4>2
        <3> QED BY <1>1, <3>1, <3>2 DEF Once
    <2> QED BY <2>1, <2>2
<1> QED BY <1>3, <1>4 DEF Once

\* The two ways a fresh task enters: at the end of what waits, and at the end of
\* what has started.
LEMMA EnterLast ==
    ASSUME NEW s \in Seq(Tasks), NEW q \in Seq(Tasks),
           NEW unused \in SUBSET Tasks, NEW t \in unused, Once(unused, s \o q)
    PROVE  Once(unused \ {t}, s \o Append(q, t))
<1> DEFINE all == s \o q
           more == s \o Append(q, t)
           k == Len(all) + 1
<1>1. all \in Seq(Tasks) /\ Len(all) \in Nat
    BY ConcatProperties, LenProperties
<1>2. more = Append(all, t)
    <2>1. more = s \o (q \o <<t>>)
        BY AppendIsConcat
    <2>2. s \o (q \o <<t>>) = all \o <<t>>
        BY ConcatAssociative
    <2> QED BY <1>1, <2>1, <2>2, AppendIsConcat
<1> HIDE DEF all
<1>3. /\ more \in Seq(Tasks)
      /\ Len(more) = Len(all) + 1
      /\ \A i \in 1 .. Len(all) : more[i] = all[i]
      /\ more[Len(all) + 1] = t
    BY <1>1, <1>2, AppendProperties
<1> HIDE DEF more
<1>4. k \in 1 .. Len(all) + 1
    BY <1>1
<1>5. \A i \in 1 .. Len(more) :
          more[i] = IF i < k THEN all[i] ELSE IF i = k THEN t ELSE all[i - 1]
    BY <1>1, <1>3
<1>6. Once(unused, all)
    BY DEF all
<1> HIDE DEF k
<1>7. all \in Seq(Tasks) /\ more \in Seq(Tasks) /\ Len(more) = Len(all) + 1
    BY <1>1, <1>3
<1>8. Once(unused \ {t}, more)
    BY <1>4, <1>5, <1>6, <1>7, InsertOnce
<1> QED BY <1>8 DEF more

LEMMA EnterStarted ==
    ASSUME NEW s \in Seq(Tasks), NEW q \in Seq(Tasks),
           NEW unused \in SUBSET Tasks, NEW t \in unused, Once(unused, s \o q)
    PROVE  Once(unused \ {t}, Append(s, t) \o q)
<1> DEFINE all == s \o q
           first == Append(s, t)
           more == first \o q
           k == Len(s) + 1
<1>1. /\ all \in Seq(Tasks)
      /\ Len(s) \in Nat /\ Len(q) \in Nat
      /\ Len(all) = Len(s) + Len(q)
      /\ \A i \in 1 .. Len(s) + Len(q) :
            all[i] = IF i <= Len(s) THEN s[i] ELSE q[i - Len(s)]
    BY ConcatProperties, LenProperties
<1>2. /\ first \in Seq(Tasks)
      /\ Len(first) = Len(s) + 1
      /\ \A i \in 1 .. Len(s) : first[i] = s[i]
      /\ first[Len(s) + 1] = t
    BY AppendProperties
<1> HIDE DEF first
<1>3. /\ more \in Seq(Tasks)
      /\ Len(more) = Len(first) + Len(q)
      /\ \A i \in 1 .. Len(first) + Len(q) :
            more[i] = IF i <= Len(first) THEN first[i] ELSE q[i - Len(first)]
    BY <1>2, ConcatProperties
<1>4. Once(unused, all)
    OBVIOUS
<1> HIDE DEF all, more
<1>5. k \in 1 .. Len(all) + 1 /\ Len(more) = Len(all) + 1
    BY <1>1, <1>2, <1>3
<1>6. ASSUME NEW i \in 1 .. Len(more)
      PROVE  more[i] = IF i < k THEN all[i] ELSE IF i = k THEN t ELSE all[i - 1]
    <2>1. i \in Int /\ 1 <= i /\ i <= Len(s) + 1 + Len(q)
        BY <1>1, <1>2, <1>3
    <2>2. CASE i < k
        BY <1>1, <1>2, <1>3, <2>1, <2>2
    <2>3. CASE i = k
        BY <1>1, <1>2, <1>3, <2>1, <2>3
    <2>4. CASE i > k
        <3>1. more[i] = q[i - k]
            BY <1>1, <1>2, <1>3, <2>1, <2>4
        <3>2. all[i - 1] = q[i - 1 - Len(s)]
            BY <1>1, <2>1, <2>4
        <3> QED BY <1>1, <2>1, <2>4, <3>1, <3>2
    <2> QED BY <1>1, <2>1, <2>2, <2>3, <2>4
<1> HIDE DEF k
<1>7. all \in Seq(Tasks) /\ more \in Seq(Tasks)
    BY <1>1, <1>3
<1>8. Once(unused \ {t}, more)
    BY <1>4, <1>5, <1>6, <1>7, InsertOnce
<1> QED BY <1>8 DEF more, first

LEMMA HeadIsPrefix ==
    ASSUME NEW s \in Seq(Tasks), NEW q \in Seq(Tasks), q # <<>>
    PROVE  Append(s, Head(q)) \o Tail(q) = s \o q
<1> DEFINE h == <<Head(q)>>
           both == h \o Tail(q)
<1>1. /\ Head(q) \in Tasks
      /\ Tail(q) \in Seq(Tasks)
      /\ Len(q) \in Nat \ {0}
      /\ Len(Tail(q)) = Len(q) - 1
      /\ \A i \in 1 .. Len(Tail(q)) : Tail(q)[i] = q[i + 1]
      /\ q[1] = Head(q)
    BY EmptySeq, HeadTailProperties
<1>2. h \in Seq(Tasks) /\ Len(h) = 1 /\ h[1] = Head(q)
    BY <1>1
<1> HIDE DEF h
<1>3. /\ both \in Seq(Tasks)
      /\ Len(both) = Len(h) + Len(Tail(q))
      /\ \A i \in 1 .. Len(h) + Len(Tail(q)) :
            both[i] = IF i <= Len(h) THEN h[i] ELSE Tail(q)[i - Len(h)]
    BY <1>1, <1>2, ConcatProperties
<1> HIDE DEF both
<1>4. Len(both) = Len(q)
    BY <1>1, <1>2, <1>3
<1>5. ASSUME NEW i \in 1 .. Len(q) PROVE q[i] = both[i]
    BY <1>1, <1>2, <1>3
<1>6. q = both
    BY <1>3, <1>4, <1>5, SeqEqual
<1>7. Append(s, Head(q)) = s \o h
    BY <1>1, AppendIsConcat DEF h
<1>8. (s \o h) \o Tail(q) = s \o (h \o Tail(q))
    BY <1>1, <1>2, ConcatAssociative
<1> QED BY <1>6, <1>7, <1>8 DEF both

LEMMA QueueType == TQTypeOK /\ [TQNext]_tqvars => TQTypeOK'
<1> SUFFICES ASSUME TQTypeOK, [TQNext]_tqvars PROVE TQTypeOK'
    OBVIOUS
<1> USE DEF TQTypeOK
<1>1. ASSUME NEW t \in Tasks, Submit(t) PROVE TQTypeOK'
    BY <1>1, AppendProperties DEF Submit
<1>2. ASSUME NEW t \in Tasks, RunDirectly(t) PROVE TQTypeOK'
    BY <1>2, AppendProperties DEF RunDirectly
<1>3. CASE RunOldest
    BY <1>3, HeadTailProperties, AppendProperties DEF RunOldest
<1>4. CASE Stop
    BY <1>4 DEF Stop
<1>5. CASE UNCHANGED tqvars
    BY <1>5 DEF tqvars
<1> QED BY <1>1, <1>2, <1>3, <1>4, <1>5 DEF TQNext

LEMMA OnceStep == TQTypeOK /\ ExactlyOnce /\ [TQNext]_tqvars => ExactlyOnce'
<1> SUFFICES ASSUME TQTypeOK, ExactlyOnce, [TQNext]_tqvars PROVE ExactlyOnce'
    OBVIOUS
<1>1. /\ ExactlyOnce <=> Once(fresh, started \o queue)
      /\ ExactlyOnce' <=> Once(fresh', started' \o queue')
    BY DEF ExactlyOnce, Once
<1>2. ASSUME NEW t \in Tasks, Submit(t) PROVE ExactlyOnce'
    BY <1>1, <1>2, EnterLast DEF Submit, TQTypeOK
<1>3. ASSUME NEW t \in Tasks, RunDirectly(t) PROVE ExactlyOnce'
    BY <1>1, <1>3, EnterStarted DEF RunDirectly, TQTypeOK
<1>4. CASE RunOldest
    BY <1>1, <1>4, HeadIsPrefix DEF RunOldest, TQTypeOK
<1>5. CASE Stop \/ UNCHANGED tqvars
    BY <1>1, <1>5 DEF Stop, tqvars
<1> QED BY <1>2, <1>3, <1>4, <1>5 DEF TQNext

(* No task handed to the executor is lost or started twice: it is waiting once *)
(* or it has been started once.                                                *)
THEOREM StartedOnce == TQSpec => []ExactlyOnce
<1>1. TQInit => TQTypeOK
    BY EmptySeq DEF TQInit, TQTypeOK
<1>2. ASSUME TQInit PROVE ExactlyOnce
    <2>1. started \o queue = <<>> /\ DOMAIN (started \o queue) = {}
        BY <1>2, EmptySeq, ConcatEmptySeq, LenProperties DEF TQInit
    <2> QED BY <1>2, <2>1 DEF TQInit, ExactlyOnce
<1>3. (TQTypeOK /\ ExactlyOnce) /\ [TQNext]_tqvars => (TQTypeOK /\ ExactlyOnce)'
    BY QueueType, OnceStep
<1> QED BY <1>1, <1>2, <1>3, PTL DEF TQSpec
=============================================================================
