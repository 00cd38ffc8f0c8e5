------------------------------ MODULE LFUCache ------------------------------
(***************************************************************************)
(* The least-frequently-used cache (src/include/LFU.h): HashLFUCache sends *)
(* a key to one of several LFUCaches, each of which runs its operations    *)
(* under its mutex_, so that an operation is one step of one slice.        *)
(*                                                                         *)
(* nodeMap_ is a function on the cached keys, and freqToFreqList_ a set of *)
(* pairs <<frequency, key>>: the order within a list is left out, so that  *)
(* any node of the list may be its first and the order in which aging      *)
(* walks through the unordered map is of no account. A list that does not  *)
(* exist is the same as an empty one. curAvgFreq_ is only read right after *)
(* it has been computed. purge() takes no lock in the code; it is one step *)
(* here, as for a caller that is alone.                                    *)
(***************************************************************************)
EXTENDS Integers, FiniteSets, FiniteSetsExt

CONSTANTS
    Keys, Values,
    Hash,               \* std::hash, a number for each key
    CacheCapacity,      \* capacity_ of the HashLFUCache
    SliceNum,           \* sliceNum_
    MaxAverage,         \* maxAvgFreq_
    NoMinimum,          \* INT8_MAX, by which updateMinFreq() says "none"
    MaxTotal            \* bound: accesses of a slice, as it counts them

ASSUME LFUAssumption ==
    /\ Hash \in [Keys -> Nat] /\ IsFiniteSet(Keys)
    /\ CacheCapacity \in Nat /\ SliceNum \in Nat \ {0}
    /\ MaxAverage \in Nat /\ NoMinimum \in Nat /\ NoMinimum > 1 /\ MaxTotal \in Nat

VARIABLE slices         \* LFUSliceCaches_

\* ceil(capacity_ / sliceNum_)
SliceSize == (CacheCapacity + SliceNum - 1) \div SliceNum

SliceIds == 0..(SliceNum - 1)
Slice == [k \in Keys |-> Hash[k] % SliceNum]

Cached(c) == DOMAIN c.node
Listed(c, freq) == {k \in Keys : <<freq, k>> \in c.lists}

EmptySlice == [node |-> <<>>, lists |-> {}, min |-> NoMinimum, total |-> 0]

CacheInit == slices = [s \in SliceIds |-> EmptySlice]

-----------------------------------------------------------------------------
(* The parts of an operation, on one slice. *)

\* What node->freq is lowered to.
Aged(freq) ==
    LET lower == freq - MaxAverage \div 2 IN IF lower < 1 THEN 1 ELSE lower

\* updateMinFreq()
LeastListed(lists) ==
    LET least == Min({NoMinimum} \cup {p[1] : p \in lists})
    IN  IF least = NoMinimum THEN 1 ELSE least

\* handleOverMaxAverageNum(): every node leaves the list of its frequency for the
\* list of its new one.  total is not lowered.
AgeAll(c) ==
    LET left == c.lists \ {<<c.node[k].freq, k>> : k \in Cached(c)}
        lists == left \cup {<<Aged(c.node[k].freq), k>> : k \in Cached(c)}
    IN  [node  |-> [k \in Cached(c) |-> [c.node[k] EXCEPT !.freq = Aged(@)]],
         lists |-> lists,
         min   |-> LeastListed(lists),
         total |-> c.total]

\* increaseFreq()
CountAccess(c) ==
    LET counted == [c EXCEPT !.total = @ + 1]
        average == counted.total \div Cardinality(Cached(c))
    IN  IF Cached(c) # {} /\ average > MaxAverage THEN AgeAll(counted) ELSE counted

\* A node moves to the list of the next frequency.  (Mutant: node->freq is raised
\* before the node is removed from its list.)
PromoteTooEarly(c, key) ==
    LET freq == c.node[key].freq IN
    [c EXCEPT !.node[key].freq = freq + 1,
              !.lists = (@ \ {<<freq + 1, key>>}) \cup {<<freq + 1, key>>}]
Promote(c, key) ==
    LET freq == c.node[key].freq IN
    [c EXCEPT !.node[key].freq = freq + 1,
              !.lists = (@ \ {<<freq, key>>}) \cup {<<freq + 1, key>>}]

\* Whether the list that minFreq_ points to has been emptied.  (Mutant: not asked.)
MinListEmptiedNever(c, freq) == FALSE
MinListEmptied(c, freq) == freq = c.min /\ Listed(c, freq) = {}

\* getInternal()
Touch(c, key) ==
    LET moved == Promote(c, key)
    IN  CountAccess(
          [moved EXCEPT !.min = IF MinListEmptied(moved, c.node[key].freq) THEN @ + 1 ELSE @])

\* putInternal(), after kickOut()
Insert(c, key, value) ==
    LET placed == [c EXCEPT !.node = [k \in Cached(c) \cup {key} |->
                                        IF k = key THEN [freq |-> 1, value |-> value]
                                        ELSE c.node[k]],
                            !.lists = @ \cup {<<1, key>>}]
        counted == CountAccess(placed)
    IN  [counted EXCEPT !.min = IF @ < 1 THEN @ ELSE 1]

\* kickOut(): the first node of the list of minFreq_.  The first of an empty list
\* is its dummy tail, of frequency 1, which is in no list and no map.
KickOut(c, victim) ==
    [c EXCEPT !.node = [k \in Cached(c) \ {victim} |-> c.node[k]],
              !.lists = @ \ {<<c.node[victim].freq, victim>>},
              !.total = @ - c.node[victim].freq]
KickOutTail(c) == [c EXCEPT !.total = @ - 1]

-----------------------------------------------------------------------------
(* The operations. *)

\* (Mutant: one node too many.)
FullTooLate(c) == Cardinality(Cached(c)) = SliceSize + 1
Full(c) == Cardinality(Cached(c)) = SliceSize

MayCount(c) == c.total < MaxTotal

PutAgain(key, value) ==
    LET s == Slice[key]
        c == slices[s]
    IN
    /\ SliceSize # 0
    /\ key \in Cached(c) /\ MayCount(c)
    /\ slices' = [slices EXCEPT ![s] = Touch([c EXCEPT !.node[key].value = value], key)]

PutNew(key, value) ==
    LET s == Slice[key]
        c == slices[s]
    IN
    /\ SliceSize # 0
    /\ key \notin Cached(c) /\ MayCount(c) /\ ~Full(c)
    /\ slices' = [slices EXCEPT ![s] = Insert(c, key, value)]

PutEvicting(key, value) ==
    LET s == Slice[key]
        c == slices[s]
        first == Listed(c, c.min)
    IN
    /\ SliceSize # 0
    /\ key \notin Cached(c) /\ MayCount(c) /\ Full(c)
    /\ \E room \in IF first = {} THEN {KickOutTail(c)} ELSE {KickOut(c, v) : v \in first} :
            slices' = [slices EXCEPT ![s] = Insert(room, key, value)]

\* A get() that finds nothing changes nothing.
Get(key) ==
    LET s == Slice[key]
        c == slices[s]
    IN
    /\ key \in Cached(c) /\ MayCount(c)
    /\ slices' = [slices EXCEPT ![s] = Touch(c, key)]

\* purge() of a slice: the maps are emptied, the counts stay.
Purge(s) ==
    slices' = [slices EXCEPT ![s].node = <<>>, ![s].lists = {}]

CacheNext ==
    \/ \E key \in Keys, value \in Values :
            PutAgain(key, value) \/ PutNew(key, value) \/ PutEvicting(key, value)
    \/ \E key \in Keys : Get(key)
    \/ \E s \in SliceIds : Purge(s)

CacheSpec == CacheInit /\ [][CacheNext]_slices

-----------------------------------------------------------------------------
(* What the cache must guarantee. *)

Slots == [freq : Nat \ {0}, value : Values]

\* The two indexes of a slice (nodeMap_ and freqToFreqList_) agree: every cached node is in the
\* list of its own frequency and in no other list, no list holds a node that is not
\* cached, and a key is cached in the slice it hashes to only.
IndexesAgree ==
    \A s \in SliceIds :
        LET c == slices[s] IN
        /\ Cached(c) \subseteq {k \in Keys : Slice[k] = s}
        /\ c.node \in [Cached(c) -> Slots]
        /\ c.lists = {<<c.node[k].freq, k>> : k \in Cached(c)}

\* minFreq_ is the least frequency in use, so that the victim of kickOut() exists and is
\* a least frequently used node; and it is below INT8_MAX, however often and unevenly
\* the slice is used and although aging never lowers curTotalFreq_.
MinFreqIsLeast ==
    \A s \in SliceIds :
        LET c == slices[s] IN
        Cached(c) # {} =>
            /\ c.min < NoMinimum /\ Listed(c, c.min) # {}
            /\ \A k \in Cached(c) : c.min <= c.node[k].freq

\* A get() finds what the last put() of its key stored; a put() into a full slice costs
\* exactly one other node of the slice, any other put() and every get() cost none.
Contents ==
    [k \in {x \in Keys : x \in Cached(slices[Slice[x]])} |-> slices[Slice[k]].node[k].value]

Promised == INSTANCE Cache WITH
    contents <- Contents, Shelves <- SliceIds, Shelf <- Slice, Room <- SliceSize

ImplementsCache == Promised!Spec

=============================================================================
