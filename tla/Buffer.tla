------------------------------- MODULE Buffer -------------------------------
(***************************************************************************)
(* The input buffer of a connection (src/include/Buffer.h and readFd() of  *)
(* src/src/Buffer.cc), used by the loop thread alone: a vector with a      *)
(* reader and a writer index, which grows or moves its bytes to the front  *)
(* when they do not fit behind the writer index.                           *)
(*                                                                         *)
(* Bytes are numbered as they come in. Indices and lengths are size_t:     *)
(* they are taken modulo Modulus wherever they could leave the range.      *)
(***************************************************************************)
EXTENDS Integers

CONSTANTS
    CheapPrepend,       \* kCheapPrepend
    InitialBytes,        \* initialSize
    ExtraSize,          \* sizeof extrabuf
    Modulus,            \* 2^64
    MaxAdded            \* bound: bytes put in

ASSUME BufferAssumption ==
    /\ CheapPrepend \in Nat /\ InitialBytes \in Nat /\ ExtraSize \in Nat /\ MaxAdded \in Nat
    /\ Modulus \in Nat /\ 2 * CheapPrepend + InitialBytes + MaxAdded < Modulus

VARIABLES
    buf,                \* size of buffer_, its bytes, readerIndex_, writerIndex_
    added,              \* history: how many bytes have been put in
    taken,              \* history: how many have been retrieved
    fault              \* what has gone wrong: an "assert", or a "read", after which
                        \* nothing is known of the buffer

bvars == <<buf, added, taken, fault>>

Blank == 0              \* a byte that nobody has put in

BufferInit ==
    /\ buf = [size   |-> CheapPrepend + InitialBytes,
              bytes  |-> [i \in 0..(CheapPrepend + InitialBytes - 1) |-> Blank],
              reader |-> CheapPrepend,
              writer |-> CheapPrepend]
    /\ added = 0 /\ taken = 0 /\ fault = "none"

Readable(b) == (b.writer - b.reader) % Modulus
Writable(b) == (b.size - b.writer) % Modulus

-----------------------------------------------------------------------------
(* append(). *)

\* (Mutant: the prepend area counts as room.)
TooSmallWithPrepend(b, len) == Writable(b) + b.reader < len
TooSmall(b, len) == Writable(b) + b.reader < (len + CheapPrepend) % Modulus

Enlarged(b, len) ==
    LET size == (b.writer + len) % Modulus IN
    [b EXCEPT !.size = size,
              !.bytes = [i \in 0..(size - 1) |-> IF i < b.size THEN b.bytes[i] ELSE Blank]]

MovedToFront(b) ==
    LET end == CheapPrepend + Readable(b) IN
    [b EXCEPT !.reader = CheapPrepend, !.writer = end,
              !.bytes = [i \in DOMAIN b.bytes |->
                            IF CheapPrepend <= i /\ i < end
                            THEN b.bytes[i - CheapPrepend + b.reader] ELSE b.bytes[i]]]

\* ensureWritableBytes() with makeSpace().
WithRoom(b, len) ==
    IF len <= Writable(b) THEN b
    ELSE IF TooSmall(b, len) THEN Enlarged(b, len) ELSE MovedToFront(b)

\* The assert at its end.
HasRoom(b, len) == Writable(WithRoom(b, len)) >= len

\* The bytes with the numbers from `first` on.
Appended(b, len, first) ==
    LET r == WithRoom(b, len) IN
    [r EXCEPT !.writer = @ + len,
              !.bytes = [i \in DOMAIN r.bytes |->
                            IF r.writer <= i /\ i < r.writer + len
                            THEN first + (i - r.writer) ELSE r.bytes[i]]]

AppendBytes(len) ==
    /\ fault = "none" /\ added + len <= MaxAdded
    /\ IF HasRoom(buf, len)
       THEN buf' = Appended(buf, len, added + 1) /\ UNCHANGED fault
       ELSE fault' = "assert" /\ UNCHANGED buf
    /\ added' = added + len
    /\ UNCHANGED taken

-----------------------------------------------------------------------------
(* readFd(). *)

\* readv() fills the writable bytes and goes on in extrabuf, if that is the larger one.
MostRead ==
    IF Writable(buf) < ExtraSize THEN Writable(buf) + ExtraSize ELSE Writable(buf)

ReadFd(n) ==
    LET w == Writable(buf)
        full == Appended(buf, w, added + 1)
    IN
    /\ fault = "none" /\ added + n <= MaxAdded
    /\ IF n <= w THEN buf' = Appended(buf, n, added + 1) /\ UNCHANGED fault
       ELSE IF HasRoom(full, n - w)
       THEN buf' = Appended(full, n - w, added + 1 + w) /\ UNCHANGED fault
       ELSE fault' = "assert" /\ UNCHANGED buf
    /\ added' = added + n
    /\ UNCHANGED taken

\* The -1 of readv() is kept in a size_t and taken for a long read: the bytes past
\* the writable ones are appended from extrabuf. Copying that many is undefined; it
\* crashes, or copies nothing.
ReadFdFails ==
    LET full == [buf EXCEPT !.writer = buf.size]
        len == (Modulus - 1 - Writable(buf)) % Modulus
        room == WithRoom(full, len)
    IN
    /\ fault = "none"
    /\ \/ UNCHANGED buf
       \/ /\ HasRoom(full, len)
          /\ buf' = [room EXCEPT !.writer = (@ + len) % Modulus]
    /\ fault' = "read"
    /\ UNCHANGED <<added, taken>>

-----------------------------------------------------------------------------
(* retrieve(), of as many bytes as there are at most, and retrieveAll(). *)

Retrieved(b, len) ==
    IF len < Readable(b) THEN [b EXCEPT !.reader = @ + len]
    ELSE [b EXCEPT !.reader = CheapPrepend, !.writer = CheapPrepend]

Retrieve(len) ==
    /\ fault = "none" /\ len <= Readable(buf)
    /\ buf' = Retrieved(buf, len)
    /\ taken' = taken + len
    /\ UNCHANGED <<added, fault>>

BufferNext ==
    \/ \E len \in 0..MaxAdded : AppendBytes(len) \/ Retrieve(len)
    \/ \E n \in 0..MostRead : ReadFd(n)
    \/ ReadFdFails

BufferSpec == BufferInit /\ [][BufferNext]_bvars

-----------------------------------------------------------------------------
(* What the buffer must guarantee. *)

\* Through any mix of reads, appends and retrieves, each of which may move or enlarge the
\* vector, the readable bytes are those that were put in and not yet retrieved, in
\* their order, and no assert fails: as long as no readv() has.
BytesInOrder ==
    /\ fault # "assert"
    /\ fault = "none" =>
        /\ taken + Readable(buf) = added
        /\ \A i \in 0..(Readable(buf) - 1) : buf.bytes[buf.reader + i] = taken + i + 1

=============================================================================
