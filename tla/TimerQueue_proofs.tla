------------------------- MODULE TimerQueue_proofs --------------------------
(***************************************************************************)
(* Theorems about TimerQueue, for any timers, intervals and times.         *)
(***************************************************************************)
EXTENDS TimerQueue, WellFoundedInduction, TLAPS

\* Where the entries are: an entry is in one place, and a timer has one entry.
Apart ==
    /\ timers \cap expired = {}
    /\ \A d, e \in timers \cup expired : d.timer = e.timer => d = e
    /\ \A i \in DOMAIN adding : \A e \in timers \cup expired : adding[i].timer # e.timer
    /\ \A i, j \in DOMAIN adding : adding[i].timer = adding[j].timer => i = j

\* Only timers that have been created have an entry, and have been called.
Created ==
    /\ \A e \in timers \cup expired : first[e.timer] # Unset
    /\ \A i \in DOMAIN adding : first[adding[i].timer] # Unset
    /\ \A t \in Timers : first[t] = Unset => fired[t] = 0

\* A timer that has calls to come has an entry.
Kin(t) ==
    \/ \E e \in timers \cup expired : e.timer = t
    \/ \E i \in DOMAIN adding : adding[i].timer = t
Present == \A t \in Timers : first[t] # Unset /\ (Repeated(t) \/ fired[t] = 0) => Kin(t)

\* What each entry is set for, given how often its timer has been called.
Punctual ==
    /\ \A e \in timers \cup todo : e.when = Due(e.timer, fired[e.timer] + 1)
    /\ \A e \in expired \ todo : e.when = Due(e.timer, fired[e.timer]) /\ fired[e.timer] > 0
    /\ \A i \in DOMAIN adding :
          /\ adding[i].when = first[adding[i].timer]
          /\ fired[adding[i].timer] = 0
    /\ \A e \in expired : e.when <= wall
    /\ \A t \in Timers : fired[t] > 0 => Due(t, fired[t]) <= wall

\* The timerfd is set for no other time than that of the earliest timer, neither an
\* earlier nor a later one, but between getExpired() and reset().
Armed ==
    timers # {} /\ Earliest(timers) <= Horizon =>
        \/ timerfd.readable /\ Earliest(timers) <= wall
        \/ /\ timerfd.left > 0
           /\ Earliest(timers) - wall <= timerfd.left
           /\ timerfd.left <= 1 \/ timerfd.left <= Earliest(timers) - wall

Reading ==
    /\ reported => ~handling
    /\ ~handling => expired = {}

IInv ==
    /\ TypeOK /\ Apart /\ Created /\ Present /\ Punctual /\ Reading
    /\ expired = {} => Armed

(* Facts about numbers and about the operators of the module. *)

LEMMA LeastOfNats ==
    ASSUME NEW S, S \subseteq Nat, S # {}
    PROVE  FX!Min(S) \in S /\ \A y \in S : FX!Min(S) <= y
<1>1. PICK x \in S : \A y \in S : ~(<<y, x>> \in OpToRel(<, Nat))
    BY NatLessThanWellFounded, WFMin, Zenon
<1>2. \A y \in S : y < x => <<y, x>> \in OpToRel(<, Nat)
    BY DEF OpToRel
<1>3. x \in S /\ \A y \in S : ~(y < x)
    BY <1>1, <1>2
<1>4. x \in S /\ \A y \in S : x =< y
    BY <1>3
<1> QED BY <1>4, Zenon DEF FX!Min

LEMMA MaxOfTwo == ASSUME NEW a \in Int PROVE FX!Max({a, 1}) = IF a > 1 THEN a ELSE 1
BY DEF FX!Max

\* Earliest() is the time of an entry, and of none that is later.
LEMMA EarliestIsLeast ==
    ASSUME NEW S, S \subseteq Entries, S # {}
    PROVE  /\ Earliest(S) \in Nat
           /\ \E e \in S : e.when = Earliest(S)
           /\ \A e \in S : Earliest(S) <= e.when
<1> DEFINE T == {e.when : e \in S}
<1>1. T \subseteq Nat /\ T # {}
    BY DEF Entries
<1>2. FX!Min(T) \in T /\ \A y \in T : FX!Min(T) <= y
    BY <1>1, LeastOfNats
<1> QED BY <1>1, <1>2 DEF Earliest

\* Inserting an entry changes the earliest time only if the entry is earlier.
LEMMA EarliestAfterInsert ==
    ASSUME NEW S, S \subseteq Entries, NEW e \in Entries
    PROVE  Earliest(S \cup {e}) =
             IF S = {} \/ e.when < Earliest(S) THEN e.when ELSE Earliest(S)
<1>1. S \cup {e} \subseteq Entries /\ S \cup {e} # {}
    OBVIOUS
<1>2. CASE S = {}
    BY <1>1, <1>2, EarliestIsLeast
<1>3. CASE S # {}
    <2>1. e.when \in Nat
        BY DEF Entries
    <2> QED BY <1>1, <1>3, <2>1, EarliestIsLeast DEF Entries
<1> QED BY <1>2, <1>3

LEMMA DueFirst ==
    ASSUME NEW t \in Timers, first[t] \in Int PROVE Due(t, 1) = first[t] /\ Due(t, 0 + 1) = first[t]
BY TimerAssumption DEF Due

LEMMA DueNext ==
    ASSUME NEW t \in Timers, first[t] \in Int, NEW n \in Nat
    PROVE  Due(t, n + 1) = Due(t, n) + Interval[t]
<1> DEFINE i == Interval[t]
<1>1. i \in Nat
    BY TimerAssumption
<1>2. (n + 1) - 1 = n /\ n = (n - 1) + 1
    OBVIOUS
<1> HIDE DEF i
<1>3. n * i = (n - 1) * i + i
    BY <1>1
<1> QED BY <1>1, <1>2, <1>3 DEF Due, i

\* The entries on their way.
LEMMA AddingAppended ==
    ASSUME NEW s \in Seq(Entries), NEW e \in Entries
    PROVE  /\ Append(s, e) \in Seq(Entries) /\ Len(s) \in Nat
           /\ DOMAIN s = 1 .. Len(s) /\ DOMAIN Append(s, e) = 1 .. Len(s) + 1
           /\ \A i \in DOMAIN s : Append(s, e)[i] = s[i]
           /\ Append(s, e)[Len(s) + 1] = e
OBVIOUS

LEMMA AddingTaken ==
    ASSUME NEW s \in Seq(Entries), s # <<>>
    PROVE  /\ Tail(s) \in Seq(Entries) /\ Len(s) \in Nat \ {0}
           /\ DOMAIN s = 1 .. Len(s) /\ DOMAIN Tail(s) = 1 .. Len(s) - 1
           /\ \A i \in DOMAIN Tail(s) : Tail(s)[i] = s[i + 1]
           /\ Head(s) = s[1] /\ Head(s) \in Entries
OBVIOUS

-----------------------------------------------------------------------------
(* The invariant. *)

LEMMA IInvInit == Init => IInv
<1> SUFFICES ASSUME Init PROVE IInv
    OBVIOUS
<1> USE TimerAssumption DEF Init
<1>1. TypeOK
    <2>1. wall \in 0 .. Horizon /\ timerfd \in [left : Nat, readable : BOOLEAN]
        OBVIOUS
    <2>2. first \in [Timers -> Times \cup {Unset}] /\ fired \in [Timers -> Nat]
        OBVIOUS
    <2>3. adding \in Seq(Entries)
        OBVIOUS
    <2> QED BY <2>1, <2>2, <2>3 DEF TypeOK
<1>2. DOMAIN adding = {}
    OBVIOUS
<1>3. Apart /\ Created /\ Present /\ Punctual /\ Reading /\ Armed
    BY <1>2 DEF Apart, Created, Present, Kin, Punctual, Reading, Armed, Unset
<1> QED BY <1>1, <1>3 DEF IInv

LEMMA AddFromThreadKeeps ==
    ASSUME IInv, NEW t \in Timers, NEW when \in Times, AddFromThread(t, when)
    PROVE  IInv'
<1> DEFINE e == Entry(when, t)
<1> USE DEF IInv
<1>1. /\ e \in Entries /\ e.when = when /\ e.timer = t
      /\ first[t] = Unset /\ first' = [first EXCEPT ![t] = when]
      /\ adding' = Append(adding, e)
      /\ UNCHANGED <<wall, timerfd, timers, reported, expired, todo, handling, fired>>
    BY TimerAssumption DEF AddFromThread, Create, Entry, Entries
<1> HIDE DEF e
<1>2. when \in Nat /\ adding \in Seq(Entries) /\ when # Unset
    BY TimerAssumption DEF TypeOK, Unset
<1>3. /\ DOMAIN adding = 1 .. Len(adding) /\ Len(adding) \in Nat
      /\ DOMAIN adding' = 1 .. Len(adding) + 1
      /\ \A i \in DOMAIN adding : adding'[i] = adding[i]
      /\ adding'[Len(adding) + 1] = e /\ adding' \in Seq(Entries)
    BY <1>1, <1>2, AddingAppended
<1>4. \A i \in DOMAIN adding : adding[i] \in Entries
    BY <1>2
<1>5. /\ \A u \in Timers \ {t} : first'[u] = first[u]
      /\ first'[t] = when /\ fired[t] = 0
    BY <1>1 DEF TypeOK, Created
<1>6. TypeOK'
    BY <1>1, <1>3 DEF TypeOK
<1>7. Apart'
    BY <1>1, <1>3 DEF Apart, Created
<1>8. Created'
    BY <1>1, <1>2, <1>3, <1>4, <1>5 DEF Created, TypeOK, Entries
<1>9. Present'
    BY <1>1, <1>3, <1>5 DEF Present, Kin
<1>10. Punctual'
    <2>1. \A d \in timers \cup expired : d.timer # t /\ d.timer \in Timers
        BY <1>1 DEF Created, TypeOK, Entries
    <2>2. \A u \in Timers \ {t} : \A n : Due(u, n)' = Due(u, n)
        BY <1>5 DEF Due
    <2>3. \A i \in DOMAIN adding : adding[i].timer \in Timers \ {t}
        BY <1>1, <1>4 DEF Created, Entries
    <2>4. /\ \A d \in timers \cup todo : d.when = Due(d.timer, fired[d.timer] + 1)'
          /\ \A d \in expired \ todo : d.when = Due(d.timer, fired[d.timer])' /\ fired[d.timer] > 0
        BY <2>1, <2>2, <1>1 DEF Punctual, TypeOK
    <2>5. ASSUME NEW u \in Timers, fired[u] > 0 PROVE Due(u, fired[u])' <= wall
        <3>1. u # t
            BY <1>5, <2>5
        <3>2. Due(u, fired[u])' = Due(u, fired[u])
            BY <3>1, <1>1, <2>2
        <3> QED BY <2>5, <3>2 DEF Punctual
    <2>6. \A i \in DOMAIN adding' : /\ adding'[i].when = first'[adding'[i].timer]
                                    /\ fired[adding'[i].timer] = 0
        BY <2>3, <1>1, <1>3, <1>5 DEF Punctual
    <2> QED BY <2>4, <2>5, <2>6, <1>1 DEF Punctual
<1>11. Reading' /\ (expired' = {} => Armed')
    BY <1>1 DEF Reading, Armed
<1> QED BY <1>6, <1>7, <1>8, <1>9, <1>10, <1>11

\* Setting the timerfd for the earliest of the entries arms it.
LEMMA ResetArms ==
    ASSUME NEW when \in Nat, wall \in Nat, wall' = wall, ResetTimerFd(when),
           timers' # {} => Earliest(timers') = when
    PROVE  Armed' /\ timerfd' \in [left : Nat, readable : BOOLEAN]
<1>1. FX!Max({when - wall, 1}) = IF when - wall > 1 THEN when - wall ELSE 1
    <2>1. when - wall \in Int
        OBVIOUS
    <2> QED BY <2>1, MaxOfTwo
<1>2. timerfd' = [left |-> IF when - wall > 1 THEN when - wall ELSE 1, readable |-> FALSE]
    BY <1>1, Zenon DEF ResetTimerFd
<1> QED BY <1>2 DEF Armed

LEMMA InsertArms ==
    ASSUME TypeOK, NEW e \in Entries, AddTimerInLoop(e), wall' = wall
    PROVE  /\ Armed => Armed'
           /\ timerfd' \in [left : Nat, readable : BOOLEAN]
<1>1. timers' = timers \cup {e} /\ timers \subseteq Entries /\ e.when \in Nat /\ wall \in Nat
    BY TimerAssumption DEF AddTimerInLoop, TypeOK, Entries
<1>2. Earliest(timers') = IF IsEarliest(e) THEN e.when ELSE Earliest(timers)
    BY <1>1, EarliestAfterInsert DEF IsEarliest
<1>3. CASE IsEarliest(e)
    BY <1>1, <1>2, <1>3, ResetArms DEF AddTimerInLoop
<1>4. CASE ~IsEarliest(e)
    <2>1. timerfd' = timerfd /\ timers # {}
        BY <1>4 DEF AddTimerInLoop, IsEarliest
    <2> QED BY <2>1, <1>1, <1>2, <1>4 DEF Armed, TypeOK
<1> QED BY <1>3, <1>4

LEMMA AddFromLoopKeeps ==
    ASSUME IInv, NEW t \in Timers, NEW when \in Times, AddFromLoop(t, when)
    PROVE  IInv'
<1> DEFINE e == Entry(when, t)
<1> USE DEF IInv
<1>1. /\ e \in Entries /\ e.when = when /\ e.timer = t
      /\ first[t] = Unset /\ first' = [first EXCEPT ![t] = when]
      /\ AddTimerInLoop(e) /\ timers' = timers \cup {e}
      /\ UNCHANGED <<wall, adding, reported, expired, todo, handling, fired>>
    BY TimerAssumption DEF AddFromLoop, AddTimerInLoop, Create, Entry, Entries
<1> HIDE DEF e
<1>2. when \in Nat /\ adding \in Seq(Entries) /\ when # Unset
    BY TimerAssumption DEF TypeOK, Unset
<1>3. \A i \in DOMAIN adding : adding[i] \in Entries
    BY <1>2
<1>4. /\ \A u \in Timers \ {t} : first'[u] = first[u]
      /\ first'[t] = when /\ fired[t] = 0
    BY <1>1 DEF TypeOK, Created
<1>5. Armed => Armed'
    BY <1>1, InsertArms
<1>6. TypeOK'
    BY <1>1, InsertArms DEF TypeOK
<1>7. \A d \in timers \cup expired : d.timer # t /\ d.timer \in Timers
    BY <1>1 DEF Created, TypeOK, Entries
<1>8. \A i \in DOMAIN adding : adding[i].timer \in Timers \ {t}
    BY <1>1, <1>3 DEF Created, Entries
<1>9. Apart'
    BY <1>1, <1>7, <1>8 DEF Apart
<1>10. Created'
    BY <1>1, <1>2, <1>4, <1>7, <1>8 DEF Created
<1>11. Present'
    BY <1>1, <1>4 DEF Present, Kin
<1>12. Punctual'
    <2>1. \A u \in Timers \ {t} : \A n : Due(u, n)' = Due(u, n)
        BY <1>4 DEF Due
    <2>2. \A d \in timers \cup todo : d.when = Due(d.timer, fired[d.timer] + 1)'
        BY <1>1, <1>7, <2>1 DEF Punctual, TypeOK
    <2>3. \A d \in expired \ todo : d.when = Due(d.timer, fired[d.timer])' /\ fired[d.timer] > 0
        BY <1>1, <1>7, <2>1 DEF Punctual, TypeOK
    <2>4. ASSUME NEW u \in Timers, fired[u] > 0 PROVE Due(u, fired[u])' <= wall
        <3>1. u # t
            BY <1>4, <2>4
        <3>2. Due(u, fired[u])' = Due(u, fired[u])
            BY <3>1, <1>1, <2>1
        <3> QED BY <2>4, <3>2 DEF Punctual
    <2>5. e.when = Due(e.timer, fired[e.timer] + 1)'
        <3>1. Due(t, 0 + 1)' = first'[t]
            BY TimerAssumption, <1>2, <1>4 DEF Due
        <3> QED BY <3>1, <1>1, <1>4
    <2>6. \A i \in DOMAIN adding : /\ adding[i].when = first'[adding[i].timer]
                                   /\ fired[adding[i].timer] = 0
        BY <1>8, <1>4 DEF Punctual
    <2> QED BY <2>2, <2>3, <2>4, <2>5, <2>6, <1>1 DEF Punctual
<1>13. Reading' /\ (expired' = {} => Armed')
    BY <1>1, <1>5 DEF Reading
<1> QED BY <1>6, <1>9, <1>10, <1>11, <1>12, <1>13

LEMMA RunAddKeeps == ASSUME IInv, RunAdd PROVE IInv'
<1> DEFINE e == Head(adding)
<1> USE DEF IInv
<1>1. /\ adding # <<>> /\ ~handling /\ ~reported /\ expired = {}
      /\ AddTimerInLoop(e) /\ timers' = timers \cup {e} /\ adding' = Tail(adding)
      /\ UNCHANGED <<wall, reported, expired, todo, handling, first, fired>>
    BY DEF RunAdd, AddTimerInLoop, Reading
<1>2. /\ e \in Entries /\ adding' \in Seq(Entries)
      /\ DOMAIN adding = 1 .. Len(adding) /\ Len(adding) \in Nat \ {0}
      /\ DOMAIN adding' = 1 .. Len(adding) - 1
      /\ \A i \in DOMAIN adding' : adding'[i] = adding[i + 1] /\ i + 1 \in DOMAIN adding
      /\ e = adding[1] /\ 1 \in DOMAIN adding
    BY <1>1, AddingTaken DEF TypeOK
<1>3. \A i \in DOMAIN adding : i = 1 \/ \E j \in DOMAIN adding' : adding'[j] = adding[i]
    <2> TAKE i \in DOMAIN adding
    <2> SUFFICES ASSUME i # 1 PROVE \E j \in DOMAIN adding' : adding'[j] = adding[i]
        BY <1>2
    <2>1. PICK j \in 1 .. Len(adding) - 1 : i = j + 1
        <3>1. i - 1 \in 1 .. Len(adding) - 1 /\ i = (i - 1) + 1
            BY <1>2
        <3> QED BY <3>1
    <2> QED BY <2>1, <1>2
<1> HIDE DEF e
<1>4. Armed => Armed'
    BY <1>1, <1>2, InsertArms
<1>5. TypeOK'
    BY <1>1, <1>2, InsertArms DEF TypeOK
<1>6. Apart'
    BY <1>1, <1>2 DEF Apart
<1>7. Created'
    BY <1>1, <1>2 DEF Created
<1>8. Present'
    <2>1. \A t : Kin(t) => Kin(t)'
        BY <1>1, <1>2, <1>3 DEF Kin
    <2> QED BY <1>1, <2>1 DEF Present
<1>9. Punctual'
    <2>1. \A t, n : Due(t, n)' = Due(t, n)
        BY <1>1 DEF Due
    <2>2. e.timer \in Timers /\ first[e.timer] \in Int
        <3>1. e.timer \in Timers
            BY <1>2 DEF Entries
        <3>2. first[e.timer] \in Times \cup {Unset}
            BY <3>1 DEF TypeOK
        <3>3. Times \cup {Unset} \subseteq Int
            BY TimerAssumption DEF Unset
        <3> QED BY <3>1, <3>2, <3>3
    <2>3. e.when = Due(e.timer, fired[e.timer] + 1)
        BY <1>2, <2>2, DueFirst DEF Punctual
    <2> QED BY <1>1, <1>2, <2>1, <2>3 DEF Punctual
<1>10. Reading' /\ (expired' = {} => Armed')
    BY <1>1, <1>4 DEF Reading
<1> QED BY <1>5, <1>6, <1>7, <1>8, <1>9, <1>10

LEMMA PollKeeps == ASSUME IInv, Poll PROVE IInv'
<1>1. /\ reported' = TRUE /\ ~handling
      /\ UNCHANGED <<wall, timerfd, timers, adding, expired, todo, handling, first, fired>>
    BY DEF Poll
<1>2. TypeOK' /\ Apart' /\ Created' /\ Present'
    BY <1>1 DEF IInv, TypeOK, Apart, Created, Present, Kin
<1>3. Punctual'
    BY <1>1 DEF IInv, Punctual, Due
<1>4. Reading' /\ (expired' = {} => Armed')
    BY <1>1 DEF IInv, Reading, Armed
<1> QED BY <1>2, <1>3, <1>4 DEF IInv

LEMMA HandleReadKeeps == ASSUME IInv, HandleRead PROVE IInv'
<1> USE DEF IInv
<1>1. /\ reported /\ reported' = FALSE /\ handling' = TRUE /\ expired = {}
      /\ timerfd' = [timerfd EXCEPT !.readable = FALSE]
      /\ expired' = Expired /\ todo' = Expired /\ timers' = timers \ Expired
      /\ UNCHANGED <<wall, adding, first, fired>>
    BY DEF HandleRead, Reading
<1>2. Expired \subseteq timers /\ timers \subseteq Entries
      /\ timers' \cup expired' = timers /\ timers' \cap expired' = {}
    BY <1>1 DEF Expired, TypeOK
<1>3. TypeOK'
    BY <1>1, <1>2 DEF TypeOK
<1>4. Apart' /\ Created' /\ Present'
    BY <1>1, <1>2 DEF Apart, Created, Present, Kin
<1>5. Punctual'
    <2>1. \A t, n : Due(t, n)' = Due(t, n)
        BY <1>1 DEF Due
    <2>2. \A d \in expired' : d.when <= wall
        BY <1>1 DEF Expired
    <2> QED BY <1>1, <1>2, <2>1, <2>2 DEF Punctual
<1>6. Reading'
    BY <1>1 DEF Reading
<1>7. ASSUME expired' = {} PROVE Armed'
    <2>1. timers' = timers
        BY <1>1, <1>7
    <2>2. \A d \in timers : ~(d.when <= wall)
        BY <1>1, <1>7 DEF Expired
    <2>3. timers # {} => Earliest(timers) \in Nat /\ ~(Earliest(timers) <= wall)
        BY <1>2, <2>2, EarliestIsLeast
    <2> QED BY <1>1, <2>1, <2>3 DEF Armed, TypeOK
<1> QED BY <1>3, <1>4, <1>5, <1>6, <1>7

LEMMA RunTimerKeeps == ASSUME IInv, NEW e \in todo, RunTimer(e) PROVE IInv'
<1> DEFINE t == e.timer
<1> USE DEF IInv
<1>1. /\ todo' = todo \ {e} /\ fired' = [fired EXCEPT ![t] = fired[t] + 1]
      /\ UNCHANGED <<wall, timerfd, timers, adding, reported, expired, handling, first>>
    BY DEF RunTimer
<1>2. /\ e \in expired /\ e \in Entries /\ t \in Timers /\ fired[t] \in Nat
      /\ first[t] # Unset
    BY DEF TypeOK, Entries, Created
<1> HIDE DEF t
<1>3. /\ fired'[t] = fired[t] + 1
      /\ \A u \in Timers \ {t} : fired'[u] = fired[u]
      /\ fired' \in [Timers -> Nat]
    BY <1>1, <1>2 DEF TypeOK
<1>4. TypeOK'
    BY <1>1, <1>3 DEF TypeOK
<1>5. Apart' /\ Reading'
    BY <1>1 DEF Apart, Reading
<1>6. Created'
    BY <1>1, <1>2, <1>3 DEF Created
<1>7. Present'
    <2>1. \A u : Kin(u)' = Kin(u)
        BY <1>1 DEF Kin
    <2>2. Kin(t)
        BY <1>2 DEF Kin, t
    <2> QED BY <1>1, <1>3, <2>1, <2>2 DEF Present
<1>8. Punctual'
    <2>1. \A u, n : Due(u, n)' = Due(u, n)
        BY <1>1 DEF Due
    <2>2. /\ \A d \in timers \cup expired : d \in Entries /\ (d.timer = t => d = e)
          /\ e \notin timers
        BY <1>2 DEF TypeOK, Apart, t
    <2>3. \A d \in timers \cup expired : d.timer \in Timers
        BY <2>2 DEF Entries
    <2>4. \A i \in DOMAIN adding : adding[i].timer \in Timers \ {t}
        <3>1. \A i \in DOMAIN adding : adding[i] \in Entries
            BY DEF TypeOK
        <3> QED BY <3>1, <1>2 DEF Apart, Entries, t
    <2>5. \A d \in (timers \cup expired) \ {e} : fired'[d.timer] = fired[d.timer]
        BY <1>3, <2>2, <2>3
    <2>6. \A d \in timers' \cup todo' : d.when = Due(d.timer, fired'[d.timer] + 1)
        <3>1. timers' \cup todo' \subseteq ((timers \cup expired) \ {e}) \cap (timers \cup todo)
            BY <1>1, <2>2 DEF TypeOK
        <3> QED BY <3>1, <2>5 DEF Punctual
    <2>7. \A d \in expired' \ todo' : d.when = Due(d.timer, fired'[d.timer]) /\ fired'[d.timer] > 0
        <3>1. e.when = Due(t, fired[t] + 1)
            BY DEF Punctual, t
        <3>2. e.when = Due(e.timer, fired'[e.timer]) /\ fired'[e.timer] > 0
            BY <3>1, <1>2, <1>3 DEF t
        <3> QED BY <3>2, <1>1, <2>5 DEF Punctual
    <2>8. \A u \in Timers : fired'[u] > 0 => Due(u, fired'[u]) <= wall
        <3>1. Due(t, fired'[t]) <= wall
            BY <1>2, <1>3 DEF Punctual, t
        <3> QED BY <3>1, <1>3 DEF Punctual
    <2>9. \A i \in DOMAIN adding : fired'[adding[i].timer] = 0
        BY <1>3, <2>4 DEF Punctual
    <2> QED BY <1>1, <2>1, <2>6, <2>7, <2>8, <2>9 DEF Punctual
<1>9. expired' = {} => Armed'
    BY <1>1 DEF Armed
<1> QED BY <1>4, <1>5, <1>6, <1>7, <1>8, <1>9

\* reset() puts back a repeated timer one interval on.
LEMMA RenewedIs ==
    ASSUME IInv, NEW e \in expired
    PROVE  /\ Restart(e) \in Entries /\ Restart(e).timer = e.timer
           /\ Restart(e).when = e.when + Interval[e.timer]
<1>1. e \in Entries /\ e.timer \in Timers /\ e.when \in Nat
    BY DEF IInv, TypeOK, Entries
<1>2. Interval[e.timer] \in Nat
    BY <1>1, TimerAssumption
<1> QED BY <1>1, <1>2 DEF Restart, Entry, Entries

LEMMA ResetKeeps == ASSUME IInv, Reset PROVE IInv'
<1> USE DEF IInv
<1>1. /\ handling /\ todo = {} /\ handling' = FALSE /\ timers' = Kept /\ expired' = {}
      /\ UNCHANGED <<wall, adding, reported, todo, first, fired>>
    BY DEF Reset
<1>2. /\ Kept = timers \cup Renewed
      /\ \A r \in Renewed : \E x \in expired : Repeated(x.timer) /\ r = Restart(x)
      /\ \A x \in expired : Repeated(x.timer) => Restart(x) \in Renewed
    BY DEF Kept, Renewed
<1>3. \A r \in Renewed : \E x \in expired :
          /\ Repeated(x.timer) /\ r.timer = x.timer /\ r.when = x.when + Interval[x.timer]
          /\ r = Restart(x) /\ r \in Entries
    BY <1>2, RenewedIs
<1>4. Kept \subseteq Entries /\ timers \subseteq Entries
    BY <1>2, <1>3 DEF TypeOK
<1>5. timerfd' \in [left : Nat, readable : BOOLEAN] /\ Armed'
    <2>1. CASE expired # {} /\ Kept # {}
        <3>1. ResetTimerFd(Earliest(Kept))
            BY <2>1 DEF Reset
        <3>2. Earliest(Kept) \in Nat /\ wall \in Nat
            BY <2>1, <1>4, EarliestIsLeast, TimerAssumption DEF TypeOK
        <3> QED BY <3>1, <3>2, <1>1, ResetArms
    <2>2. CASE Kept = {}
        BY <2>2, <1>1 DEF Reset, Armed, TypeOK
    <2>3. CASE expired = {} /\ Kept # {}
        <3>1. timers' = timers
            BY <2>3, <1>1, <1>2, <1>3
        <3>2. timerfd' = timerfd
            BY <2>3 DEF Reset
        <3> QED BY <3>1, <3>2, <2>3, <1>1 DEF Armed, TypeOK
    <2> QED BY <2>1, <2>2, <2>3
<1>6. TypeOK'
    BY <1>1, <1>4, <1>5 DEF TypeOK
<1>7. \A d \in timers' : d \in timers \/ \E x \in expired : d = Restart(x) /\ d.timer = x.timer
    BY <1>1, <1>2, <1>3
<1>8. Apart'
    <2>1. \A d, f \in timers' : d.timer = f.timer => d = f
        <3> SUFFICES ASSUME NEW d \in timers', NEW f \in timers', d.timer = f.timer PROVE d = f
            OBVIOUS
        <3>1. CASE d \in timers /\ f \in timers
            BY <3>1 DEF Apart
        <3>2. CASE d \notin timers /\ f \notin timers
            <4>1. PICK x \in expired : d = Restart(x) /\ d.timer = x.timer
                BY <3>2, <1>7
            <4>2. PICK y \in expired : f = Restart(y) /\ f.timer = y.timer
                BY <3>2, <1>7
            <4> QED BY <4>1, <4>2 DEF Apart
        <3>3. CASE d \in timers /\ f \notin timers
            BY <3>3, <1>7 DEF Apart
        <3>4. CASE d \notin timers /\ f \in timers
            BY <3>4, <1>7 DEF Apart
        <3> QED BY <3>1, <3>2, <3>3, <3>4
    <2>2. \A i \in DOMAIN adding : \A d \in timers' : adding[i].timer # d.timer
        BY <1>7 DEF Apart
    <2> QED BY <2>1, <2>2, <1>1 DEF Apart
<1>9. Created'
    BY <1>1, <1>7 DEF Created
<1>10. Present'
    <2> SUFFICES ASSUME NEW t \in Timers, first[t] # Unset, Repeated(t) \/ fired[t] = 0
                 PROVE  Kin(t)'
        BY <1>1 DEF Present
    <2>1. CASE \E i \in DOMAIN adding : adding[i].timer = t
        BY <2>1, <1>1 DEF Kin
    <2>2. CASE \E d \in timers : d.timer = t
        BY <2>2, <1>1, <1>2 DEF Kin
    <2>3. ASSUME NEW x \in expired, x.timer = t PROVE Kin(t)'
        <3>1. fired[t] > 0
            BY <2>3, <1>1 DEF Punctual
        <3>2. Repeated(t)
            BY <3>1
        <3>3. Restart(x) \in timers' /\ Restart(x).timer = t
            BY <2>3, <3>2, <1>1, <1>2, RenewedIs
        <3> QED BY <3>3 DEF Kin
    <2> QED BY <2>1, <2>2, <2>3 DEF Present, Kin
<1>11. Punctual'
    <2>1. \A t, n : Due(t, n)' = Due(t, n)
        BY <1>1 DEF Due
    <2>2. ASSUME NEW d \in timers' PROVE d.when = Due(d.timer, fired[d.timer] + 1)
        <3>1. CASE d \in timers
            BY <3>1 DEF Punctual
        <3>2. CASE d \notin timers
            <4>1. PICK x \in expired : /\ d.timer = x.timer
                                       /\ d.when = x.when + Interval[x.timer]
                BY <3>2, <1>1, <1>2, <1>3
            <4>2. /\ x.timer \in Timers /\ first[x.timer] \in Times \cup {Unset}
                  /\ fired[x.timer] \in Nat
                BY DEF TypeOK, Entries
            <4>3. first[x.timer] \in Int
                <5>1. Times \cup {Unset} \subseteq Int
                    BY TimerAssumption DEF Unset
                <5> QED BY <4>2, <5>1
            <4>4. x.when = Due(x.timer, fired[x.timer])
                BY <1>1 DEF Punctual
            <4> QED BY <4>1, <4>2, <4>3, <4>4, DueNext
        <3> QED BY <3>1, <3>2
    <2> QED BY <1>1, <2>1, <2>2 DEF Punctual
<1>12. Reading'
    BY <1>1 DEF Reading
<1> QED BY <1>5, <1>6, <1>8, <1>9, <1>10, <1>11, <1>12

LEMMA TickKeeps == ASSUME IInv, Tick PROVE IInv'
<1> USE DEF IInv
<1>1. /\ wall' = IF wall < Horizon THEN wall + 1 ELSE wall
      /\ timerfd' = IF timerfd.left = 0 THEN timerfd
                    ELSE [left |-> timerfd.left - 1,
                          readable |-> timerfd.readable \/ timerfd.left = 1]
      /\ UNCHANGED <<timers, adding, reported, expired, todo, handling, first, fired>>
    BY DEF Tick
<1>2. /\ wall \in 0 .. Horizon /\ wall' \in 0 .. Horizon /\ wall <= wall' /\ Horizon \in Nat
      /\ timerfd.left \in Nat /\ timerfd.readable \in BOOLEAN
    BY <1>1, TimerAssumption DEF TypeOK
<1>3. timerfd' \in [left : Nat, readable : BOOLEAN]
    BY <1>1, <1>2 DEF TypeOK
<1>4. TypeOK'
    BY <1>1, <1>2, <1>3 DEF TypeOK
<1>5. Apart' /\ Created' /\ Present' /\ Reading'
    BY <1>1 DEF Apart, Created, Present, Kin, Reading
<1>6. Punctual'
    <2>1. \A t, n : Due(t, n)' = Due(t, n)
        BY <1>1 DEF Due
    <2>2. \A d \in expired : d.when <= wall'
        BY <1>2 DEF Punctual, TypeOK, Entries
    <2>3. \A t \in Timers : fired[t] > 0 => Due(t, fired[t]) <= wall'
        <3>1. ASSUME NEW t \in Timers PROVE Due(t, fired[t]) \in Int
            <4>1. first[t] \in Times \cup {Unset} /\ Times \cup {Unset} \subseteq Int
                BY TimerAssumption DEF TypeOK, Unset
            <4>2. fired[t] \in Nat /\ Interval[t] \in Nat
                BY TimerAssumption DEF TypeOK
            <4>3. (fired[t] - 1) * Interval[t] \in Int
                BY <4>2
            <4> QED BY <4>1, <4>3 DEF Due
        <3> QED BY <3>1, <1>2 DEF Punctual
    <2> QED BY <1>1, <2>1, <2>2, <2>3 DEF Punctual
<1>7. ASSUME Armed PROVE Armed'
    <2> SUFFICES ASSUME timers # {}, Earliest(timers) <= Horizon PROVE Armed'
        BY <1>1 DEF Armed
    <2> DEFINE m == Earliest(timers)
    <2>1. m \in Nat /\ m' = m
        BY <1>1, EarliestIsLeast DEF TypeOK
    <2> HIDE DEF m
    <2>2. \/ timerfd.readable /\ m <= wall
          \/ /\ timerfd.left > 0 /\ m - wall <= timerfd.left
             /\ timerfd.left <= 1 \/ timerfd.left <= m - wall
        BY <1>7 DEF Armed, m
    <2>3. CASE timerfd.readable /\ m <= wall
        <3>1. timerfd'.readable
            BY <2>3, <1>1
        <3>2. m <= wall'
            BY <2>1, <2>3, <1>2
        <3> QED BY <3>1, <3>2, <2>1 DEF Armed, m
    <2>4. CASE /\ timerfd.left > 0 /\ m - wall <= timerfd.left
               /\ timerfd.left <= 1 \/ timerfd.left <= m - wall
        <3>1. timerfd'.left = timerfd.left - 1 /\ (timerfd.left = 1 => timerfd'.readable)
            <4>1. timerfd' = [left |-> timerfd.left - 1,
                              readable |-> timerfd.readable \/ timerfd.left = 1]
                BY <2>4, <1>1, <1>2
            <4> QED BY <4>1
        <3>2. CASE timerfd.left = 1
            <4>1. m <= wall'
                BY <3>2, <2>1, <2>4, <1>1, <1>2 DEF m
            <4> QED BY <4>1, <3>1, <3>2, <2>1 DEF Armed, m
        <3>3. CASE timerfd.left # 1
            <4>1. timerfd.left > 1 /\ m - wall = timerfd.left
                BY <3>3, <2>1, <2>4, <1>2
            <4>2. wall < Horizon /\ wall' = wall + 1
                BY <4>1, <2>1, <1>1, <1>2 DEF m
            <4>3. timerfd'.left > 0 /\ m - wall' = timerfd'.left
                BY <4>1, <4>2, <3>1, <2>1, <1>2
            <4> QED BY <4>3, <2>1, <1>2 DEF Armed, m
        <3> QED BY <3>2, <3>3
    <2> QED BY <2>2, <2>3, <2>4
<1> QED BY <1>1, <1>4, <1>5, <1>6, <1>7

LEMMA IInvStep == IInv /\ [Next]_qvars => IInv'
<1> SUFFICES ASSUME IInv, [Next]_qvars PROVE IInv'
    OBVIOUS
<1>1. ASSUME NEW t \in Timers, NEW when \in Times, AddFromThread(t, when) PROVE IInv'
    BY <1>1, AddFromThreadKeeps
<1>2. ASSUME NEW t \in Timers, NEW when \in Times, AddFromLoop(t, when) PROVE IInv'
    BY <1>2, AddFromLoopKeeps
<1>3. CASE LoopSteps
    BY <1>3, RunAddKeeps, PollKeeps, HandleReadKeeps, RunTimerKeeps, ResetKeeps DEF LoopSteps
<1>4. CASE Tick
    BY <1>4, TickKeeps
<1>5. CASE UNCHANGED qvars
    BY <1>5 DEF qvars, IInv, TypeOK, Apart, Created, Present, Kin, Punctual, Due, Reading, Armed
<1> QED BY <1>1, <1>2, <1>3, <1>4, <1>5 DEF Next

-----------------------------------------------------------------------------
(* The theorems. *)

LEMMA IInvAlways == Spec => []IInv
BY IInvInit, IInvStep, PTL DEF Spec

\* The members of a TimerQueue hold what their declarations say.
THEOREM TimersTypeCorrect == Spec => []TypeOK
<1>1. IInv => TypeOK
    BY DEF IInv
<1> QED BY <1>1, IInvAlways, PTL

\* A timer that has been handed over is in timers_, among the expired ones or on its way to the
\* loop, and in one of them only (TimerQueue.cc:54-214): it is lost neither when callbacks
\* add timers during an expiration nor when another thread adds one.
THEOREM TimersNeverLost == Spec => []NoTimerLost
<1>1. ASSUME IInv PROVE NoTimerLost
    <2> USE <1>1 DEF IInv
    <2>1. /\ \A i \in DOMAIN adding : adding[i] \in SX!ToSet(adding)
          /\ \A a \in SX!ToSet(adding) : \E i \in DOMAIN adding : a = adding[i]
        BY DEF SX!ToSet
    <2>2. \A d, e \in Held : d.timer = e.timer => d = e
        BY <2>1 DEF Held, Apart
    <2>3. \A t : Kin(t) => \E e \in Held : e.timer = t
        BY <2>1 DEF Held, Kin
    <2> QED BY <2>2, <2>3 DEF NoTimerLost, Present
<1> QED BY <1>1, IInvAlways, PTL

\* A timer is called at its first expiration plus a whole number of intervals, counted by its
\* calls, and not before (Timer::restart(), getExpired(), reset()).
THEOREM TimersOnSchedule == Spec => []OnSchedule
<1>1. IInv => OnSchedule
    BY DEF IInv, OnSchedule, Punctual
<1> QED BY <1>1, IInvAlways, PTL

\* Outside handleRead() the one timerfd covers the earliest of all timers (insert(), reset()).
THEOREM TimerfdIsArmed == Spec => []ArmedForEarliest
<1>1. ASSUME IInv PROVE ArmedForEarliest
    <2> SUFFICES ASSUME ~handling, timers # {}, Earliest(timers) <= Horizon, ~timerfd.readable
                 PROVE  timerfd.left \in 1 .. FX!Max({Earliest(timers) - wall, 1})
        BY DEF ArmedForEarliest
    <2>1. /\ Earliest(timers) - wall \in Int /\ timerfd.left \in Nat
        BY <1>1, EarliestIsLeast DEF IInv, TypeOK
    <2>2. FX!Max({Earliest(timers) - wall, 1}) =
            IF Earliest(timers) - wall > 1 THEN Earliest(timers) - wall ELSE 1
        BY <2>1, MaxOfTwo
    <2>3. timerfd.left > 0 /\ (timerfd.left <= 1 \/ timerfd.left <= Earliest(timers) - wall)
        BY <1>1 DEF IInv, Reading, Armed
    <2> QED BY <2>1, <2>2, <2>3
<1> QED BY <1>1, IInvAlways, PTL

=============================================================================
