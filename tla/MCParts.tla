------------------------------ MODULE MCParts -------------------------------
(***************************************************************************)
(* The parts of the library that work on their own: the HTTP side of one   *)
(* connection, its input buffer, the cache, the pool of MySQL connections, *)
(* the log file and the log line.  They share no state, so that every      *)
(* state of all of them together is one of each; a behaviour here runs     *)
(* one, and the others rest in an initial state.                           *)
(***************************************************************************)
EXTENDS MCHttpServer, Buffer, LFUCache, MySQLPool, LogFile, LogLine, TLC

VARIABLE part           \* the one that runs

Parts == {"http", "buffer", "cache", "pool", "file", "line"}

Init ==
    /\ part \in Parts
    /\ HttpInit /\ BufferInit /\ CacheInit /\ PoolInit /\ FileInit /\ LineInit
    /\ part # "http" => sent = <<>>
    /\ part # "line" => level = 0

Next ==
    /\ UNCHANGED part
    /\ \/ part = "http" /\ HttpNext
       \/ part # "http" /\ UNCHANGED hvars
    /\ \/ part = "buffer" /\ BufferNext
       \/ part # "buffer" /\ UNCHANGED bvars
    /\ \/ part = "cache" /\ CacheNext
       \/ part # "cache" /\ UNCHANGED slices
    /\ \/ part = "pool" /\ PoolNext
       \/ part # "pool" /\ UNCHANGED pvars
    /\ \/ part = "file" /\ FileNext
       \/ part # "file" /\ UNCHANGED lvars
    /\ \/ part = "line" /\ LineNext
       \/ part # "line" /\ UNCHANGED ovars

Spec == Init /\ [][Next]_<<part, hvars, bvars, slices, pvars, lvars, ovars>>

-----------------------------------------------------------------------------
\* LFUCache: a slice with three keys and one with a single key.
MCKeys == 1..4
MCHash == [k \in MCKeys |-> IF k = 4 THEN 1 ELSE 2]

\* The values of the cache are interchangeable, and so are the threads of the pool.
Symmetry == Permutations(Values) \cup Permutations(Threads)

\* LogLine: eight-bit numbers.
Header == <<2, 1>>
Short == {1, 4}
Bytes == {-128, 0, 127}

=============================================================================
