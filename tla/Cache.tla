------------------------------- MODULE Cache --------------------------------
(***************************************************************************)
(* What a sliced cache promises: every key has a shelf, a shelf has room   *)
(* for so many keys, and what is found under a key is what was stored there*)
(* last. Storing a new key on a full shelf costs one other key of that     *)
(* shelf; nothing else is ever lost but by clearing the shelf. Looking a   *)
(* key up changes nothing. Which key is given up is not said here.         *)
(***************************************************************************)
EXTENDS Naturals, FiniteSets

CONSTANTS
    Keys, Values, Shelves,
    Shelf,                  \* the shelf of each key
    Room                    \* the number of keys on a shelf at most

VARIABLE contents           \* what is found under the keys that are stored

Stored(s) == {k \in DOMAIN contents : Shelf[k] = s}

With(kept, k, v) == [x \in kept \cup {k} |-> IF x = k THEN v ELSE contents[x]]

Init == contents = <<>>

Replace(k, v) ==
    /\ k \in DOMAIN contents
    /\ contents' = With(DOMAIN contents, k, v)

Add(k, v) ==
    /\ k \notin DOMAIN contents
    /\ Cardinality(Stored(Shelf[k])) < Room
    /\ contents' = With(DOMAIN contents, k, v)

GiveUp(k, v) ==
    /\ k \notin DOMAIN contents
    /\ Cardinality(Stored(Shelf[k])) = Room
    /\ \E lost \in Stored(Shelf[k]) : contents' = With(DOMAIN contents \ {lost}, k, v)

Clear(s) ==
    contents' = [k \in DOMAIN contents \ Stored(s) |-> contents[k]]

Next ==
    \/ \E k \in Keys, v \in Values : Replace(k, v) \/ Add(k, v) \/ GiveUp(k, v)
    \/ \E s \in Shelves : Clear(s)

Spec == Init /\ [][Next]_contents

=============================================================================
