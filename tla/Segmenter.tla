----------------------------- MODULE Segmenter -----------------------------
(***************************************************************************)
(* SegmentAggregator, the hysteresis state machine that cuts a stream of   *)
(* frames into speech segments, driven the way SileroVAD._drive_stream     *)
(* drives it: bytes gather in a residual, every full window is one frame,  *)
(* the tail is padded at the end of the stream and the aggregator flushed. *)
(*                                                                         *)
(* A frame is named by the time at which it ends, in milliseconds, so a    *)
(* buffer of frames shows which stretch of the audio it holds.  Whether a  *)
(* frame is speech is the neural detector's choice: any.                   *)
(*                                                                         *)
(* A definition X_Fault is X with a plausible slip; no definition uses it. *)
(***************************************************************************)
EXTENDS Integers, Sequences

CONSTANTS
    FrameMs,        \* frame_ms
    SpeechStartMs,  \* speech_start_ms
    SilenceEndMs,   \* silence_end_ms
    MinSpeechMs,    \* min_speech_duration_ms
    MaxSpeechMs,    \* max_speech_duration_ms
    Window,         \* window_bytes
    ChunkSizes,     \* the sizes of the chunks the stream may deliver
    MaxBytes        \* bound: bytes of a stream

ASSUME SegmenterAssumption ==
    /\ FrameMs \in Nat \ {0} /\ Window \in Nat \ {0}
    /\ SpeechStartMs \in Nat /\ SilenceEndMs \in Nat
    /\ MinSpeechMs \in Nat /\ MaxSpeechMs \in Nat \ {0}
    /\ ChunkSizes \subseteq Nat \ {0} /\ MaxBytes \in Nat

AtLeastOne(n) == IF n < 1 THEN 1 ELSE n
SpeechStartFrames == AtLeastOne(SpeechStartMs \div FrameMs)
SilenceEndFrames  == AtLeastOne(SilenceEndMs \div FrameMs)

VARIABLES
    agg,       \* the aggregator, with everything it has put out so far
    residual,  \* bytes waiting for a full window
    received,  \* bytes of the stream so far
    ended,     \* the stream is over and the aggregator flushed
    voiced     \* history: the frames the detector judged to be speech

vars == <<agg, residual, received, ended, voiced>>

Aggregator ==
    [state |-> "SILENT", speechCount |-> 0, silenceCount |-> 0, pre |-> <<>>, buf |-> <<>>,
     start |-> 0, cursor |-> 0, events |-> <<>>, segments |-> <<>>]

-----------------------------------------------------------------------------
(* The aggregator's methods, as functions from its state to its next state. *)

Event(kind, at) == [kind |-> kind, at |-> at]

LongEnough_Fault(a) == TRUE

LongEnough(a) == a.cursor - a.start >= MinSpeechMs /\ a.buf # <<>>

AnnounceEnd(a) ==
    IF LongEnough(a) THEN Append(a.events, Event("speech_end", a.cursor)) ELSE a.events

\* _emit_segment: both callers pass end_ms = cursor.
EmitSegment(a, kindAfter) ==
    [a EXCEPT
        !.segments = IF LongEnough(a)
                     THEN Append(@, [start |-> a.start, end |-> a.cursor, frames |-> a.buf]) ELSE @,
        !.events = AnnounceEnd(a),
        !.buf = <<>>,
        !.state = kindAfter]

CloseSegment_Fault(a) == [EmitSegment(a, "SPEAKING") EXCEPT !.silenceCount = 0]

CloseSegment(a) == [EmitSegment(a, "SILENT") EXCEPT !.silenceCount = 0]

\* The start of the segment, moved back over the pre-roll.
SegmentStart_Fault(a) == a.cursor

SegmentStart(a) ==
    LET ms == a.cursor - Len(a.pre) * FrameMs IN IF ms < 0 THEN 0 ELSE ms

ConfirmSpeech(a) ==
    [a EXCEPT !.start = SegmentStart(a), !.buf = a.pre, !.pre = <<>>, !.speechCount = 0,
              !.state = "SPEAKING", !.events = Append(@, Event("speech_start", SegmentStart(a)))]

HandleSilent(a, isSpeech) ==
    LET b == [a EXCEPT !.pre = Append(@, a.cursor), !.speechCount = @ + 1]
    IN  IF ~isSpeech THEN [a EXCEPT !.speechCount = 0, !.pre = <<>>]
        ELSE IF b.speechCount >= SpeechStartFrames THEN ConfirmSpeech(b) ELSE b

CloseIfSilent_Fault(a) == IF a.silenceCount > SilenceEndFrames THEN CloseSegment(a) ELSE a

CloseIfSilent(a) == IF a.silenceCount >= SilenceEndFrames THEN CloseSegment(a) ELSE a

HandleSpeaking(a, isSpeech) ==
    LET b == [a EXCEPT !.buf = Append(@, a.cursor)]
    IN  IF isSpeech THEN b
        ELSE CloseIfSilent([b EXCEPT !.state = "TRAILING", !.silenceCount = 1])

HandleTrailing(a, isSpeech) ==
    LET b == [a EXCEPT !.buf = Append(@, a.cursor)]
    IN  IF isSpeech THEN [b EXCEPT !.state = "SPEAKING", !.silenceCount = 0]
        ELSE CloseIfSilent([b EXCEPT !.silenceCount = @ + 1])

ForceCut(a) == [EmitSegment(a, "SPEAKING") EXCEPT !.start = a.cursor]

MaybeForceCut(a) ==
    IF a.state = "SILENT" \/ a.cursor - a.start < MaxSpeechMs THEN a ELSE ForceCut(a)

Handle(a, isSpeech) ==
    CASE a.state = "SILENT"   -> HandleSilent(a, isSpeech)
      [] a.state = "SPEAKING" -> HandleSpeaking(a, isSpeech)
      [] a.state = "TRAILING" -> HandleTrailing(a, isSpeech)

Feed(a, isSpeech) == MaybeForceCut(Handle([a EXCEPT !.cursor = @ + FrameMs], isSpeech))

Flush(a) == IF a.state \in {"SPEAKING", "TRAILING"} THEN CloseSegment(a) ELSE a

-----------------------------------------------------------------------------
(* SileroVAD._drive_stream.                                                *)

Init == agg = Aggregator /\ residual = 0 /\ received = 0 /\ ended = FALSE /\ voiced = {}

WindowReady_Fault == residual > 0

WindowReady == residual >= Window

Judged(frame, isSpeech) == IF isSpeech THEN voiced \cup {frame} ELSE voiced

\* A chunk arrives; the loop has fed every full window of the earlier ones.
Chunk(n) ==
    /\ ~ended /\ ~WindowReady /\ received + n <= MaxBytes
    /\ residual' = residual + n /\ received' = received + n
    /\ UNCHANGED <<agg, ended, voiced>>

FeedWindow(isSpeech) ==
    /\ ~ended /\ WindowReady
    /\ agg' = Feed(agg, isSpeech)
    /\ residual' = residual - Window
    /\ voiced' = Judged(agg'.cursor, isSpeech)
    /\ UNCHANGED <<received, ended>>

\* The end of the stream: the padded tail, if there is one, and the flush.
LastFrame_Fault(a, isSpeech) == a

LastFrame(a, isSpeech) == IF residual > 0 THEN Feed(a, isSpeech) ELSE a

EndStream(isSpeech) ==
    /\ ~ended /\ ~WindowReady
    /\ agg' = Flush(LastFrame(agg, isSpeech))
    /\ residual' = 0 /\ ended' = TRUE
    /\ voiced' = IF residual > 0 THEN Judged(agg'.cursor, isSpeech) ELSE voiced
    /\ UNCHANGED received

Over == ended /\ UNCHANGED vars

Next ==
    \/ \E n \in ChunkSizes : Chunk(n)
    \/ \E isSpeech \in BOOLEAN : FeedWindow(isSpeech) \/ EndStream(isSpeech)
    \/ Over

Spec == Init /\ [][Next]_vars

-----------------------------------------------------------------------------
(* Properties.                                                             *)

State == {"SILENT", "SPEAKING", "TRAILING"}
Segment == [start : Nat, end : Nat, frames : Seq(Nat)]

\* The aggregator keeps its shape; times are milliseconds of the stream.
TypeOK ==
    /\ agg \in [state : State, speechCount : Nat, silenceCount : Nat, pre : Seq(Nat),
                buf : Seq(Nat), start : Nat, cursor : Nat,
                events : Seq([kind : {"speech_start", "speech_end"}, at : Nat]),
                segments : Seq(Segment)]
    /\ residual \in Nat /\ received \in Nat /\ ended \in BOOLEAN
    /\ voiced \subseteq Nat

\* A buffer holds every frame between two times, each once and in order.
Covers(frames, from, to) ==
    /\ Len(frames) * FrameMs = to - from
    /\ \A i \in 1..Len(frames) : frames[i] = from + i * FrameMs

\* Whatever the frames were, the buffer of an open segment is exactly the
\* audio from segment_start_ms to now, across pre-roll, resumed speech and
\* forced cuts; while silent, the pre-roll is the latest run of speech.
BufferMatchesClock ==
    IF agg.state = "SILENT"
    THEN agg.buf = <<>> /\ Covers(agg.pre, agg.cursor - Len(agg.pre) * FrameMs, agg.cursor)
    ELSE agg.pre = <<>> /\ Covers(agg.buf, agg.start, agg.cursor)

\* An open segment never reaches max_speech_duration, and the counters stay
\* below the thresholds at which the state must have changed.
ThresholdsRespected ==
    /\ agg.state = "SILENT" => agg.speechCount = Len(agg.pre) /\ agg.speechCount < SpeechStartFrames
    /\ agg.state # "SILENT" => agg.cursor - agg.start < MaxSpeechMs
    /\ agg.state = "TRAILING" => agg.silenceCount \in 1..(SilenceEndFrames - 1)

\* The start of the audio that no segment put out so far may hold.
OpenFrom == IF agg.state = "SILENT" THEN agg.cursor - Len(agg.pre) * FrameMs ELSE agg.start

\* The segments put out hold the audio they say they hold, are at least
\* min_speech_duration long, and neither overlap one another nor the segment
\* that is open.
SegmentsAreDisjoint ==
    /\ \A i \in 1..Len(agg.segments) :
          LET s == agg.segments[i] IN
          /\ Covers(s.frames, s.start, s.end) /\ s.end - s.start >= MinSpeechMs
          /\ s.end <= OpenFrom
    /\ \A i, j \in 1..Len(agg.segments) : i < j => agg.segments[i].end <= agg.segments[j].start

\* The clock of the aggregator counts the stream: no byte is lost between
\* the chunks and the frames, and only the padding is added.
NoByteLost ==
    /\ ~ended => received * FrameMs = agg.cursor * Window + residual * FrameMs
    /\ ended => /\ agg.cursor * Window >= received * FrameMs
                /\ agg.cursor * Window < (received + Window) * FrameMs
                /\ agg.state = "SILENT"

\* The places of the speech_end events.
Ends(events) == {i \in 1..Len(events) : events[i].kind = "speech_end"}

\* The two consumers of a stream are told of the same speech: the speech_end
\* events are in order, and there is one where a segment ends and no other.
Agree(events, segments) ==
    /\ \A i, j \in Ends(events) : i < j => events[i].at < events[j].at
    /\ {events[i].at : i \in Ends(events)} = {segments[i].end : i \in 1..Len(segments)}

Speech(frames) == \E k \in 1..Len(frames) : frames[k] \in voiced

\* Events and segments agree, and a segment holds at least one frame the
\* detector judged to be speech, unless it is the rest of a segment that
\* _maybe_force_cut cut off while the speaker was already silent.
SegmentsHoldSpeech ==
    /\ Agree(agg.events, agg.segments)
    /\ \A i \in 1..Len(agg.segments) :
          \/ Speech(agg.segments[i].frames)
          \/ i > 1 /\ agg.segments[i - 1].end = agg.segments[i].start

=============================================================================
