---------------------------- MODULE SerialWindow ----------------------------
(***************************************************************************)
(* What one call of JitterBuffer.push or flush computes, as operators on   *)
(* the dictionary _buffered (sequence number to payload) and on _next_seq, *)
(* with the 16-bit serial arithmetic.  A stream position p travels under   *)
(* the sequence number First + p modulo 2^16.                              *)
(*                                                                         *)
(* A definition X_Fault is X with a plausible slip; no definition uses it. *)
(***************************************************************************)
EXTENDS Integers, Sequences, FiniteSets, SequencesExt

CONSTANTS
    Capacity,   \* capacity
    First       \* the sequence number of stream position 0

Half == 32768

ASSUME WindowAssumption == Capacity \in Nat \ {0} /\ First \in 0..65535

SequenceOf(p) == (First + p) % 65536

SeqLess_Fault(a, b) == a < b

SeqLess(a, b) == (a - b) % 65536 > Half
SeqDistance(base, s) == (s - base) % 65536

\* How many consecutive sequence numbers from n are buffered, and the two
\* results of the popping loop.
RunLength(b, n) ==
    CHOOSE k \in 0..Cardinality(DOMAIN b) :
        /\ \A j \in 0..(k - 1) : (n + j) % 65536 \in DOMAIN b
        /\ (n + k) % 65536 \notin DOMAIN b

Run(b, n) == [j \in 1..RunLength(b, n) |-> b[(n + j - 1) % 65536]]
AfterRun(b, n) == (n + RunLength(b, n)) % 65536
WithoutRun(b, n) ==
    [s \in DOMAIN b \ {(n + j) % 65536 : j \in 0..(RunLength(b, n) - 1)} |-> b[s]]

Nearest(b, base) ==
    CHOOSE s \in DOMAIN b : \A u \in DOMAIN b : SeqDistance(base, s) <= SeqDistance(base, u)

Stored(b, s, payload) == [u \in DOMAIN b \cup {s} |-> IF u = s THEN payload ELSE b[u]]

TooMany_Fault(b) == FALSE
TooMany_FaultEarly(b) == Cardinality(DOMAIN b) >= Capacity

TooMany(b) == Cardinality(DOMAIN b) > Capacity

\* The end of push: the run that is due and, past capacity, the nearest one.
Pop(b, n) ==
    LET b1 == WithoutRun(b, n)
        n1 == AfterRun(b, n)
        n2 == Nearest(b1, n1)
    IN  IF TooMany(b1)
        THEN [buffered |-> WithoutRun(b1, n2), nextSeq |-> AfterRun(b1, n2),
              out |-> Run(b, n) \o Run(b1, n2)]
        ELSE [buffered |-> b1, nextSeq |-> n1, out |-> Run(b, n)]

\* push: what is buffered and due afterwards, and the payloads returned.  The
\* first packet sets _next_seq (None is -1), one that is behind it is dropped.
PushResult(b, nextSeq, s, payload) ==
    LET n == IF nextSeq = -1 THEN s ELSE nextSeq
    IN  IF SeqLess(s, n)
        THEN [buffered |-> b, nextSeq |-> n, out |-> <<>>]
        ELSE Pop(Stored(b, s, payload), n)

FlushOrder_Fault(b, base) ==
    [i \in 1..Cardinality(DOMAIN b) |->
        CHOOSE s \in DOMAIN b : Cardinality({u \in DOMAIN b : u < s}) = i - 1]

\* The keys by their distance from base: the i-th has i - 1 nearer ones.
FlushOrder(b, base) ==
    [i \in 1..Cardinality(DOMAIN b) |->
        CHOOSE s \in DOMAIN b :
            Cardinality({u \in DOMAIN b : SeqDistance(base, u) < SeqDistance(base, s)}) = i - 1]

\* flush: the payloads it returns; the buffer is empty afterwards.
FlushResult(b, nextSeq) ==
    LET keys == FlushOrder(b, nextSeq)
    IN  [i \in 1..Len(keys) |-> b[keys[i]]]
=============================================================================
