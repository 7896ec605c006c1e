---------------------------- MODULE TurnProtocol ----------------------------
(***************************************************************************)
(* What the client of a stream connection is promised, without tasks,      *)
(* queues or cancellation: turns follow one another, only the latest one   *)
(* speaks, and it speaks in the order speech events, partial transcripts,  *)
(* one final transcript, one reply, until it is hushed.  StreamSession     *)
(* implements it.                                                          *)
(***************************************************************************)
EXTENDS Integers, Sequences

CONSTANT Turn   \* the turn ids a client may use

VARIABLES
    current,  \* the latest turn, -1 before the first
    hushed,   \* that turn was abandoned, or has failed
    said      \* the frames of turns sent since it began

vars == <<current, hushed, said>>

Events  == {"speech_start", "speech_end"}
Replies == {"result", "NO_SPEECH", "UNKNOWN_SCENE", "INVALID_REQUEST", "ASR_FAILED"}
Spoken  == Events \cup {"partial", "final"} \cup Replies

Stage(type) ==
    CASE type \in Events    -> 1
      [] type = "partial"   -> 2
      [] type = "final"     -> 3
      [] type \in Replies   -> 4

\* What may come next: a stage never goes back, the last two are reached
\* once, and a result needs a transcript.
MayFollow(type) ==
    LET before == {said[i].type : i \in DOMAIN said}
    IN  /\ \A b \in before : Stage(b) <= Stage(type)
        /\ type = "final" => "final" \notin before
        /\ type \in Replies => before \cap Replies = {}
        /\ type = "result" => "final" \in before

Init == current = -1 /\ hushed = TRUE /\ said = <<>>

Begin(t) ==
    /\ hushed /\ t > current
    /\ current' = t /\ hushed' = FALSE /\ said' = <<>>

Say(type) ==
    /\ ~hushed /\ MayFollow(type)
    /\ said' = Append(said, [type |-> type, turn |-> current])
    /\ UNCHANGED <<current, hushed>>

Hush == ~hushed /\ hushed' = TRUE /\ UNCHANGED <<current, said>>

Next ==
    \/ \E t \in Turn : Begin(t)
    \/ \E type \in Spoken : Say(type)
    \/ Hush

Spec == Init /\ [][Next]_vars
=============================================================================
