------------------------------ MODULE RingBuffer ------------------------------
(***************************************************************************)
(* The replay buffer of a terminal (internal/pty/ring.go): a circular byte *)
(* array that keeps the newest bytes written to it.  The hub of a terminal *)
(* (TerminalStream) holds one and calls its two methods.                   *)
(***************************************************************************)
EXTENDS Integers, Sequences

CONSTANTS
    Byte,       \* what a cell holds
    Zero,       \* content of a cell of make([]byte, size)
    RingSize    \* len(r.buf)

ASSUME RingAssumption == RingSize \in Nat \ {0} /\ Zero \in Byte

Ring == [buf : [0 .. RingSize - 1 -> Byte], pos : 0 .. RingSize - 1, full : BOOLEAN]

\* NewRingBuffer
EmptyRing == [buf |-> [i \in 0 .. RingSize - 1 |-> Zero], pos |-> 0, full |-> FALSE]

\* The last n elements of s, or all of them.
Newest(s, n) == IF Len(s) <= n THEN s ELSE SubSeq(s, Len(s) - n + 1, Len(s))

\* RingBuffer.Write: a long chunk replaces everything, a shorter one is copied
\* up to the end of the array and from its beginning (pos moves modulo size).
RingWrite(r, p) ==
    LET fits == RingSize - r.pos IN       \* cells up to the end of the array
    IF Len(p) = 0 THEN r
    ELSE IF Len(p) >= RingSize
    THEN [buf  |-> [i \in 0 .. RingSize - 1 |-> p[Len(p) - RingSize + i + 1]],
          pos  |-> 0,
          full |-> TRUE]
    ELSE [buf  |-> [i \in 0 .. RingSize - 1 |->
                        IF r.pos <= i /\ i < r.pos + Len(p) THEN p[i - r.pos + 1]
                        ELSE IF i < Len(p) - fits THEN p[fits + i + 1]
                        ELSE r.buf[i]],
          pos  |-> IF Len(p) < fits THEN r.pos + Len(p) ELSE Len(p) - fits,
          full |-> r.full \/ Len(p) >= fits]

\* RingBuffer.Snapshot: oldest byte first.
Snapshot(r) ==
    IF ~r.full THEN [k \in 1 .. r.pos |-> r.buf[k - 1]]
    ELSE [k \in 1 .. RingSize |->
             r.buf[IF k <= RingSize - r.pos THEN r.pos + k - 1
                                            ELSE k - 1 - (RingSize - r.pos)]]
===============================================================================
