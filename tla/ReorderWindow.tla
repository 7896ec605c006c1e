--------------------------- MODULE ReorderWindow ---------------------------
(***************************************************************************)
(* What the RTP jitter buffer promises, told with stream positions that    *)
(* never wrap: packets come out in order and once, a gap is given up only  *)
(* when more than Capacity packets wait behind it, and a packet that comes *)
(* after its turn is dropped.                                              *)
(***************************************************************************)
EXTENDS Integers, Sequences, FiniteSets, FiniteSetsExt

CONSTANT Capacity

VARIABLES
    held,  \* the positions waiting behind a gap
    nxt,   \* the position whose turn it is, or the empty set before the first packet
    out    \* the positions handed on, in order

vars == <<held, nxt, out>>

Init == held = {} /\ nxt = {} /\ out = <<>>

\* The positions of the run in S that starts at p.
RunFrom(S, p) == {q \in S : q >= p /\ p..q \subseteq S}

InOrder(S) ==
    [i \in 1..Cardinality(S) |-> CHOOSE q \in S : Cardinality({r \in S : r < q}) = i - 1]

\* Hands on the run at p and, when too many are held behind it, also the run
\* at the nearest position held.
Accept(S, p) ==
    LET first == RunFrom(S, p)
        rest  == S \ first
        skip  == IF Cardinality(rest) > Capacity THEN RunFrom(rest, Min(rest)) ELSE {}
        gone  == first \cup skip
    IN  /\ held' = S \ gone
        /\ out' = out \o InOrder(gone)
        /\ nxt' = IF gone = {} THEN {p} ELSE {Max(gone) + 1}

Packet(p) ==
    \/ nxt = {} /\ Accept({p}, p)
    \/ \E n \in nxt : /\ p >= n
                      /\ Accept(held \cup {p}, n)

Drain ==
    /\ held # {}
    /\ out' = out \o InOrder(held) /\ held' = {}
    /\ nxt' = {Max(held) + 1}

\* A packet that is not dropped is held or handed on after the step.
Next == (\E p \in held' \cup {out'[i] : i \in DOMAIN out'} : Packet(p)) \/ Drain

Spec == Init /\ [][Next]_vars
=============================================================================
