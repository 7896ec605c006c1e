---------------------------- MODULE JitterBuffer ----------------------------
(***************************************************************************)
(* JitterBuffer, the reorder window between the RTP socket and the ASR,    *)
(* with its 16-bit sequence numbers.  The network delivers any packet      *)
(* within half the number space of the one that is due: late, early, again *)
(* or never.  A payload is the position of its packet in the stream, the   *)
(* first packet to arrive being at 0.                                      *)
(***************************************************************************)
EXTENDS SerialWindow

CONSTANTS
    Offsets,    \* where packets arrive, relative to the position that is due
    MaxPackets  \* bound: packets of a stream

ASSUME JitterAssumption ==
    MaxPackets \in Nat /\ Offsets \subseteq (1 - Half)..Half

VARIABLES
    buffered,  \* _buffered: sequence number to payload
    nextSeq,   \* _next_seq, -1 for None
    emitted,   \* every payload returned so far
    accepted,  \* history: the positions that arrived in time
    pushed,    \* the number of packets pushed
    flushed    \* the stream is over

vars == <<buffered, nextSeq, emitted, accepted, pushed, flushed>>

\* The position that is due: the first packet is handed on at once.
Due == IF emitted = <<>> THEN 0 ELSE Last(emitted) + 1

Push(p) ==
    LET after == PushResult(buffered, nextSeq, SequenceOf(p), p)
    IN  /\ ~flushed /\ pushed < MaxPackets
        /\ pushed' = pushed + 1
        /\ buffered' = after.buffered /\ nextSeq' = after.nextSeq
        /\ emitted' = emitted \o after.out
        /\ accepted' = IF p >= Due THEN accepted \cup {p} ELSE accepted
        /\ UNCHANGED flushed

Flush ==
    /\ ~flushed /\ nextSeq # -1
    /\ emitted' = emitted \o FlushResult(buffered, nextSeq)
    /\ buffered' = <<>> /\ flushed' = TRUE
    /\ UNCHANGED <<nextSeq, accepted, pushed>>

Init ==
    /\ buffered = <<>> /\ nextSeq = -1 /\ emitted = <<>>
    /\ accepted = {} /\ pushed = 0 /\ flushed = FALSE

Over == flushed /\ UNCHANGED vars

Next ==
    \/ nextSeq = -1 /\ Push(0)
    \/ nextSeq # -1 /\ \E d \in Offsets : Push(Due + d)
    \/ Flush
    \/ Over

Spec == Init /\ [][Next]_vars

-----------------------------------------------------------------------------
(* Properties.                                                             *)

Held == {buffered[s] : s \in DOMAIN buffered}

\* The buffer maps sequence numbers to payloads, the window is bounded.
TypeOK ==
    /\ DOMAIN buffered \subseteq 0..(2 * Half - 1) /\ Held \subseteq Int
    /\ Cardinality(DOMAIN buffered) <= Capacity
    /\ nextSeq \in -1..(2 * Half - 1) /\ emitted \in Seq(Int)
    /\ accepted \subseteq Int /\ pushed \in Nat /\ flushed \in BOOLEAN

\* However the network reorders, repeats or loses packets, and wherever the
\* numbers wrap: payloads come out in stream order and never twice, every
\* packet that was not too late is handed on or held, and none is held when
\* the stream is over.  Skipping a gap gives up only what never came.
StreamDelivered ==
    /\ \A i, j \in 1..Len(emitted) : i < j => emitted[i] < emitted[j]
    /\ accepted = {emitted[i] : i \in 1..Len(emitted)} \cup Held
    /\ flushed => Held = {}

\* The buffer with its 16-bit numbers does what a window over positions that
\* never wrap would do.
Window == INSTANCE ReorderWindow WITH
    held <- Held, nxt <- IF emitted = <<>> THEN {} ELSE {Due}, out <- emitted

ImplementsWindow == Window!Spec
=============================================================================
