-------------------------- MODULE SegmenterProofs --------------------------
(***************************************************************************)
(* Proofs about SegmentAggregator for every frame length, every threshold, *)
(* every window size and every stream: the invariants of Segmenter, from   *)
(* one inductive invariant.  The argument follows a call of feed: a lemma  *)
(* for each handler, one for the forced cut, one for flush.                *)
(***************************************************************************)
EXTENDS Segmenter, SequenceTheorems, TLAPS

Events == [kind : {"speech_start", "speech_end"}, at : Nat]

Aggregators ==
    [state : State, speechCount : Nat, silenceCount : Nat, pre : Seq(Nat),
     buf : Seq(Nat), start : Nat, cursor : Nat,
     events : Seq(Events), segments : Seq(Segment)]

\* The segments put out, none of which reaches beyond the time limit.
PutOut(segments, limit) ==
    /\ \A i \in 1..Len(segments) :
          /\ Covers(segments[i].frames, segments[i].start, segments[i].end)
          /\ segments[i].end - segments[i].start >= MinSpeechMs
          /\ segments[i].end <= limit
    /\ \A i, j \in 1..Len(segments) : i < j => segments[i].end <= segments[j].start

\* What is true of a silent aggregator whose clock shows the time t.
SilentAt(a, t) ==
    /\ a.buf = <<>> /\ a.speechCount = Len(a.pre) /\ a.speechCount < SpeechStartFrames
    /\ Len(a.pre) * FrameMs <= t
    /\ Covers(a.pre, t - Len(a.pre) * FrameMs, t)
    /\ PutOut(a.segments, t - Len(a.pre) * FrameMs)

\* What is true of an aggregator with an open segment when its clock shows t.
HoldsAt(a, t) ==
    /\ a.pre = <<>> /\ a.speechCount = 0 /\ a.start <= t
    /\ Covers(a.buf, a.start, t)
    /\ PutOut(a.segments, a.start)

OpenAt(a, t) ==
    /\ HoldsAt(a, t)
    /\ a.state = "TRAILING" => a.silenceCount \in 1..(SilenceEndFrames - 1)

SoundAt(a, t) ==
    /\ a \in Aggregators
    /\ a.state = "SILENT" => SilentAt(a, t)
    /\ a.state # "SILENT" => OpenAt(a, t)

\* The inductive invariant, of the aggregator and of the whole state.
Good(a) == SoundAt(a, a.cursor) /\ (a.state # "SILENT" => a.cursor - a.start < MaxSpeechMs)

IInv ==
    /\ Good(agg)
    /\ residual \in Nat /\ received \in Nat /\ ended \in BOOLEAN /\ voiced \subseteq Nat

-----------------------------------------------------------------------------
(* Facts about the thresholds and about buffers.                           *)

\* Both frame counts are at least one: __init__ takes max(1, ms // frame_ms).
LEMMA FrameCounts == SpeechStartFrames \in Nat \ {0} /\ SilenceEndFrames \in Nat \ {0}
BY SegmenterAssumption DEF SpeechStartFrames, SilenceEndFrames, AtLeastOne

\* A frame lasts at least a millisecond, as frame_duration_ms must.
LEMMA FrameMsPositive == FrameMs \in Nat /\ FrameMs > 0
BY SegmenterAssumption

\* One more frame of audio: the step of every product in the proofs.
LEMMA OneMore ==
    ASSUME NEW n \in Nat
    PROVE  (n + 1) * FrameMs = n * FrameMs + FrameMs /\ n * FrameMs \in Nat
BY FrameMsPositive

\* The cleared buffers of __init__ and _close_segment hold no time.
LEMMA EmptyBuffer == <<>> \in Seq(Nat) /\ Len(<<>>) = 0 /\ 0 * FrameMs = 0
BY FrameMsPositive

\* Appending the frame that has just ended keeps a buffer complete.
LEMMA CoversAppend ==
    ASSUME NEW f \in Seq(Nat), NEW from \in Int, NEW to \in Int, NEW next \in Nat,
           next = to + FrameMs, Covers(f, from, to)
    PROVE  Covers(Append(f, next), from, next)
<1> DEFINE g == Append(f, next)
           n == Len(f)
<1>1. n \in Nat /\ Len(g) = n + 1
  OBVIOUS
<1>2. n * FrameMs = to - from /\ \A i \in 1..n : f[i] = from + i * FrameMs
  BY DEF Covers
<1>3. (n + 1) * FrameMs = n * FrameMs + FrameMs
  BY <1>1, OneMore
<1>4. Len(g) * FrameMs = next - from
  <2> DEFINE p == n * FrameMs
             q == (n + 1) * FrameMs
  <2>1. q = p + FrameMs /\ p = to - from
    BY <1>2, <1>3
  <2>2. Len(g) * FrameMs = q
    BY <1>1
  <2> HIDE DEF p, q
  <2> QED BY <2>1, <2>2, FrameMsPositive
<1>5. ASSUME NEW i \in 1..Len(g) PROVE g[i] = from + i * FrameMs
  <2>1. CASE i \in 1..n
    <3>1. g[i] = f[i]
      BY <2>1
    <3> QED BY <3>1, <2>1, <1>2
  <2>2. CASE i = n + 1
    <3>1. g[i] = next
      BY <2>2
    <3> QED BY <3>1, <2>2, <1>1, <1>4, FrameMsPositive
  <2> QED BY <2>1, <2>2, <1>1
<1> QED BY <1>4, <1>5 DEF Covers

\* An empty buffer covers the empty interval: what a reset leaves behind.
LEMMA CoversNothing == ASSUME NEW t \in Int PROVE Covers(<<>>, t, t)
BY FrameMsPositive DEF Covers

\* Segments put out before t were put out before any later time.
LEMMA PutOutLater ==
    ASSUME NEW s \in Seq(Segment), NEW t \in Int, NEW u \in Int, t <= u, PutOut(s, t)
    PROVE  PutOut(s, u)
<1>0. \A i \in 1..Len(s) : s[i] \in Segment
  OBVIOUS
<1>1. \A i \in 1..Len(s) : s[i].end \in Nat
  BY <1>0 DEF Segment
<1>2. \A i \in 1..Len(s) : s[i].end <= u
  BY <1>1 DEF PutOut
<1> QED BY <1>2 DEF PutOut

-----------------------------------------------------------------------------
(* _emit_segment and its two callers.                                      *)

\* Emitting leaves segments that end by the clock, whether or not the
\* segment was long enough to be put out.
LEMMA EmitPutsOut ==
    ASSUME NEW a \in Aggregators, NEW k \in State, a.start <= a.cursor,
           Covers(a.buf, a.start, a.cursor), PutOut(a.segments, a.start)
    PROVE  /\ EmitSegment(a, k) \in Aggregators
           /\ PutOut(EmitSegment(a, k).segments, a.cursor)
           /\ EmitSegment(a, k).state = k /\ EmitSegment(a, k).buf = <<>>
           /\ EmitSegment(a, k).pre = a.pre /\ EmitSegment(a, k).start = a.start
           /\ EmitSegment(a, k).cursor = a.cursor
           /\ EmitSegment(a, k).speechCount = a.speechCount
           /\ EmitSegment(a, k).silenceCount = a.silenceCount
<1> DEFINE s == [start |-> a.start, end |-> a.cursor, frames |-> a.buf]
           segs == IF LongEnough(a) THEN Append(a.segments, s) ELSE a.segments
           e == EmitSegment(a, k)
<1>1. s \in Segment /\ a.segments \in Seq(Segment) /\ a.start \in Nat /\ a.cursor \in Nat
  BY DEF Segment, Aggregators
<1>2. segs \in Seq(Segment)
  BY <1>1
<1>3. AnnounceEnd(a) \in Seq(Events)
  <2>1. a.events \in Seq(Events) /\ Event("speech_end", a.cursor) \in Events
    BY <1>1 DEF Aggregators, Event, Events
  <2> QED BY <2>1 DEF AnnounceEnd
<1>4. e = [a EXCEPT !.segments = segs, !.events = AnnounceEnd(a), !.buf = <<>>, !.state = k]
  BY DEF EmitSegment
<1>5. e \in Aggregators
  <2> HIDE DEF segs, e
  <2> QED BY <1>2, <1>3, <1>4, EmptyBuffer DEF Aggregators
<1>6. /\ e.segments = segs /\ e.state = k /\ e.buf = <<>> /\ e.pre = a.pre
      /\ e.start = a.start /\ e.cursor = a.cursor
      /\ e.speechCount = a.speechCount /\ e.silenceCount = a.silenceCount
  BY <1>4 DEF Aggregators
<1>7. PutOut(segs, a.cursor)
  <2>1. CASE ~LongEnough(a)
    BY <2>1, <1>1, PutOutLater
  <2>2. CASE LongEnough(a)
    <3> DEFINE n == Len(a.segments)
    <3>1. segs = Append(a.segments, s) /\ n \in Nat /\ Len(segs) = n + 1
      BY <2>2, <1>1
    <3>2. segs[n + 1] = s /\ \A i \in 1..n : segs[i] = a.segments[i]
      BY <3>1, <1>1
    <3>3. a.cursor - a.start >= MinSpeechMs
      BY <2>2 DEF LongEnough
    <3>4. \A i \in 1..n : a.segments[i] \in Segment
      BY <1>1, <3>1
    <3>5. ASSUME NEW i \in 1..Len(segs)
          PROVE  /\ Covers(segs[i].frames, segs[i].start, segs[i].end)
                 /\ segs[i].end - segs[i].start >= MinSpeechMs
                 /\ segs[i].end <= a.cursor
      <4>1. CASE i = n + 1
        BY <4>1, <3>2, <3>3, <1>1
      <4>2. CASE i \in 1..n
        <5>1. a.segments[i].end \in Nat /\ segs[i] = a.segments[i]
          BY <4>2, <3>2, <3>4 DEF Segment
        <5>2. /\ Covers(a.segments[i].frames, a.segments[i].start, a.segments[i].end)
              /\ a.segments[i].end - a.segments[i].start >= MinSpeechMs
              /\ a.segments[i].end <= a.start
          BY <4>2 DEF PutOut
        <5> HIDE DEF segs
        <5> QED BY <5>1, <5>2, <1>1
      <4> QED BY <4>1, <4>2, <3>1
    <3>6. ASSUME NEW i \in 1..Len(segs), NEW j \in 1..Len(segs), i < j
          PROVE  segs[i].end <= segs[j].start
      <4>1. CASE j = n + 1
        BY <4>1, <3>1, <3>2, <3>6, <1>1 DEF PutOut
      <4>2. CASE j \in 1..n
        BY <4>2, <3>1, <3>2, <3>6 DEF PutOut
      <4> QED BY <4>1, <4>2, <3>1
    <3> HIDE DEF segs
    <3> QED BY <3>5, <3>6 DEF PutOut
  <2> QED BY <2>1, <2>2
<1> QED BY <1>5, <1>6, <1>7

\* _close_segment leaves a sound silent aggregator.
LEMMA CloseIsGood ==
    ASSUME NEW a \in Aggregators, HoldsAt(a, a.cursor)
    PROVE  /\ Good(CloseSegment(a)) /\ CloseSegment(a).state = "SILENT"
           /\ CloseSegment(a).cursor = a.cursor
<1> DEFINE e == EmitSegment(a, "SILENT")
           c == CloseSegment(a)
<1>1. /\ e \in Aggregators /\ PutOut(e.segments, a.cursor) /\ e.state = "SILENT"
      /\ e.buf = <<>> /\ e.pre = a.pre /\ e.cursor = a.cursor /\ e.speechCount = a.speechCount
  BY EmitPutsOut DEF HoldsAt, State
<1>2. c = [e EXCEPT !.silenceCount = 0]
  BY DEF CloseSegment
<1> HIDE DEF e, c
<1>3. /\ c \in Aggregators /\ c.segments = e.segments /\ c.state = "SILENT"
      /\ c.buf = <<>> /\ c.pre = <<>> /\ c.cursor = a.cursor /\ c.speechCount = 0
  BY <1>1, <1>2 DEF Aggregators, HoldsAt
<1>4. a.cursor \in Nat
  BY DEF Aggregators
<1>5. a.cursor - Len(c.pre) * FrameMs = a.cursor /\ Len(c.pre) = 0 /\ Len(c.pre) * FrameMs = 0
  BY <1>3, <1>4, EmptyBuffer
<1>6. SilentAt(c, c.cursor)
  BY <1>1, <1>3, <1>4, <1>5, CoversNothing, FrameCounts DEF SilentAt
<1> QED BY <1>3, <1>6 DEF Good, SoundAt, c

\* _maybe_force_cut: whatever the handler left, an open segment is shorter
\* than the maximum afterwards, and a cut segment restarts at the clock.
LEMMA CutIsGood ==
    ASSUME NEW a, SoundAt(a, a.cursor)
    PROVE  Good(MaybeForceCut(a)) /\ MaybeForceCut(a).cursor = a.cursor
<1>1. CASE a.state = "SILENT" \/ a.cursor - a.start < MaxSpeechMs
  BY <1>1 DEF MaybeForceCut, Good
<1>2. CASE ~(a.state = "SILENT" \/ a.cursor - a.start < MaxSpeechMs)
  <2> DEFINE e == EmitSegment(a, "SPEAKING")
             c == ForceCut(a)
  <2>1. a \in Aggregators /\ HoldsAt(a, a.cursor) /\ a.cursor \in Nat
    BY <1>2 DEF SoundAt, OpenAt, Aggregators
  <2>2. /\ e \in Aggregators /\ PutOut(e.segments, a.cursor) /\ e.state = "SPEAKING"
        /\ e.buf = <<>> /\ e.pre = a.pre /\ e.cursor = a.cursor /\ e.speechCount = a.speechCount
    BY <2>1, EmitPutsOut DEF HoldsAt, State
  <2>3. c = [e EXCEPT !.start = a.cursor]
    BY DEF ForceCut
  <2>4. MaybeForceCut(a) = c
    BY <1>2 DEF MaybeForceCut
  <2> HIDE DEF e, c
  <2>5. /\ c \in Aggregators /\ c.segments = e.segments /\ c.state = "SPEAKING"
        /\ c.buf = <<>> /\ c.pre = <<>> /\ c.cursor = a.cursor /\ c.speechCount = 0
        /\ c.start = a.cursor
    BY <2>1, <2>2, <2>3 DEF Aggregators, HoldsAt
  <2>6. OpenAt(c, c.cursor)
    BY <2>1, <2>2, <2>5, CoversNothing DEF OpenAt, HoldsAt
  <2>7. c.cursor - c.start < MaxSpeechMs
    BY <2>1, <2>5, SegmenterAssumption
  <2> QED BY <2>4, <2>5, <2>6, <2>7 DEF Good, SoundAt
<1> QED BY <1>1, <1>2

-----------------------------------------------------------------------------
(* The three handlers, called when the clock has moved on from t by one    *)
(* frame that no buffer holds yet.                                         *)

\* _handle_silent: the pre-roll grows, is dropped, or becomes the segment.
LEMMA SilentIsSound ==
    ASSUME NEW a \in Aggregators, NEW t \in Nat, NEW isSpeech \in BOOLEAN,
           a.state = "SILENT", a.cursor = t + FrameMs, SilentAt(a, t)
    PROVE  /\ SoundAt(HandleSilent(a, isSpeech), a.cursor)
           /\ HandleSilent(a, isSpeech).cursor = a.cursor
<1> DEFINE b == [a EXCEPT !.pre = Append(@, a.cursor), !.speechCount = @ + 1]
           h == HandleSilent(a, isSpeech)
           n == Len(a.pre)
<1>1. /\ a.pre \in Seq(Nat) /\ n \in Nat /\ a.cursor \in Nat /\ a.speechCount = n
      /\ a.segments \in Seq(Segment)
  BY DEF Aggregators, SilentAt
<1>2. n * FrameMs \in Nat /\ (n + 1) * FrameMs = n * FrameMs + FrameMs
  BY <1>1, OneMore
<1>3. PutOut(a.segments, a.cursor)
  <2> DEFINE p == n * FrameMs
  <2>1. p \in Nat /\ PutOut(a.segments, t - p)
    BY <1>2 DEF SilentAt
  <2> HIDE DEF p
  <2> QED BY <2>1, <1>1, PutOutLater, FrameMsPositive
<1>4. CASE ~isSpeech
  <2>1. h = [a EXCEPT !.speechCount = 0, !.pre = <<>>]
    BY <1>4 DEF HandleSilent
  <2> HIDE DEF h
  <2>2. /\ h \in Aggregators /\ h.pre = <<>> /\ h.speechCount = 0 /\ h.buf = <<>>
        /\ h.segments = a.segments /\ h.state = "SILENT" /\ h.cursor = a.cursor
    BY <2>1, EmptyBuffer DEF Aggregators, SilentAt
  <2>3. /\ Len(h.pre) = 0 /\ Len(h.pre) * FrameMs = 0
        /\ a.cursor - Len(h.pre) * FrameMs = a.cursor
    BY <2>2, <1>1, EmptyBuffer
  <2>4. SilentAt(h, a.cursor)
    BY <2>2, <2>3, <1>1, <1>3, CoversNothing, FrameCounts DEF SilentAt
  <2> QED BY <2>2, <2>4 DEF SoundAt, h
<1>5. /\ b \in Aggregators /\ b.pre = Append(a.pre, a.cursor) /\ b.speechCount = n + 1
      /\ b.buf = <<>> /\ b.segments = a.segments /\ b.state = "SILENT" /\ b.cursor = a.cursor
      /\ b.events = a.events
  <2> DEFINE longer == Append(a.pre, a.cursor)
  <2>1. longer \in Seq(Nat) /\ n + 1 \in Nat /\ a.buf = <<>>
    BY <1>1 DEF SilentAt
  <2>2. b = [a EXCEPT !.pre = longer, !.speechCount = n + 1]
    BY <1>1
  <2> HIDE DEF longer, b, n
  <2>3. /\ b \in Aggregators /\ b.pre = longer /\ b.speechCount = n + 1
        /\ b.buf = <<>> /\ b.segments = a.segments /\ b.state = "SILENT"
        /\ b.cursor = a.cursor /\ b.events = a.events
    BY <2>1, <2>2 DEF Aggregators
  <2> QED BY <2>3 DEF longer
<1>6. Len(b.pre) = n + 1 /\ b.pre \in Seq(Nat)
  BY <1>1, <1>5
<1>7. /\ a.cursor - Len(b.pre) * FrameMs = t - n * FrameMs
      /\ Len(b.pre) * FrameMs <= a.cursor /\ t - n * FrameMs \in Nat
  <2> DEFINE p == n * FrameMs
             q == (n + 1) * FrameMs
  <2>1. p \in Nat /\ q = p + FrameMs /\ p <= t
    BY <1>2 DEF SilentAt
  <2>2. Len(b.pre) * FrameMs = q
    BY <1>6
  <2> HIDE DEF p, q, b
  <2>3. a.cursor - q = t - p /\ q <= a.cursor /\ t - p \in Nat
    BY <2>1, FrameMsPositive
  <2> QED BY <2>2, <2>3 DEF p
<1>8. Covers(b.pre, t - n * FrameMs, a.cursor)
  BY <1>1, <1>5, <1>7, CoversAppend DEF SilentAt
<1>9. CASE isSpeech /\ ~(b.speechCount >= SpeechStartFrames)
  <2>1. h = b
    BY <1>9 DEF HandleSilent
  <2>2. SilentAt(b, a.cursor)
    <3> HIDE DEF b
    <3> QED BY <1>1, <1>5, <1>6, <1>7, <1>8, <1>9, FrameCounts DEF SilentAt
  <2> QED BY <2>1, <2>2, <1>5 DEF SoundAt
<1>10. CASE isSpeech /\ b.speechCount >= SpeechStartFrames
  <2> DEFINE c == ConfirmSpeech(b)
             from == t - n * FrameMs
  <2>1. h = c
    BY <1>10 DEF HandleSilent
  <2>2. SegmentStart(b) = from /\ from \in Nat /\ from <= a.cursor
    <3> DEFINE p == n * FrameMs
    <3>1. p \in Nat /\ t - p \in Nat /\ b.cursor - Len(b.pre) * FrameMs = t - p
      BY <1>2, <1>5, <1>7
    <3> HIDE DEF p, b
    <3>2. SegmentStart(b) = t - p
      BY <3>1 DEF SegmentStart
    <3>3. t - p <= a.cursor
      BY <3>1, FrameMsPositive
    <3> QED BY <3>1, <3>2, <3>3 DEF p
  <2>3. c = [b EXCEPT !.start = from, !.buf = b.pre, !.pre = <<>>, !.speechCount = 0,
                      !.state = "SPEAKING", !.events = Append(@, Event("speech_start", from))]
    BY <2>2 DEF ConfirmSpeech
  <2> HIDE DEF b, from, c
  <2>4. Append(b.events, Event("speech_start", from)) \in Seq(Events)
    <3>1. b.events \in Seq(Events) /\ Event("speech_start", from) \in Events
      BY <1>5, <2>2 DEF Aggregators, Event, Events
    <3> QED BY <3>1
  <2>5. /\ c \in Aggregators /\ c.start = from /\ c.buf = b.pre /\ c.pre = <<>>
        /\ c.speechCount = 0 /\ c.state = "SPEAKING" /\ c.segments = a.segments
        /\ c.cursor = a.cursor
    BY <1>5, <1>6, <2>2, <2>3, <2>4, EmptyBuffer DEF Aggregators, State
  <2>6. Covers(b.pre, from, a.cursor) /\ PutOut(a.segments, from)
    BY <1>8 DEF from, SilentAt
  <2>7. OpenAt(c, a.cursor)
    BY <2>2, <2>5, <2>6 DEF OpenAt, HoldsAt
  <2> QED BY <2>1, <2>5, <2>7 DEF SoundAt
<1> QED BY <1>4, <1>9, <1>10

\* What _handle_speaking and _handle_trailing both do first: the frame joins
\* the open segment.
Joined(a, k, c) == [a EXCEPT !.buf = Append(@, a.cursor), !.state = k, !.silenceCount = c]

\* A frame that joins the open segment keeps it complete.
LEMMA FrameJoins ==
    ASSUME NEW a \in Aggregators, NEW t \in Nat, NEW k \in State, NEW c \in Nat,
           a.cursor = t + FrameMs, HoldsAt(a, t)
    PROVE  /\ Joined(a, k, c) \in Aggregators /\ HoldsAt(Joined(a, k, c), a.cursor)
           /\ Joined(a, k, c).state = k /\ Joined(a, k, c).silenceCount = c
           /\ Joined(a, k, c).cursor = a.cursor
<1> DEFINE b == Joined(a, k, c)
<1> DEFINE longer == Append(a.buf, a.cursor)
<1>1. /\ a.buf \in Seq(Nat) /\ a.cursor \in Nat /\ a.start \in Nat
      /\ a.start <= t /\ Covers(a.buf, a.start, t)
  BY DEF Aggregators, HoldsAt
<1>2. longer \in Seq(Nat) /\ Covers(longer, a.start, a.cursor) /\ a.start <= a.cursor
  BY <1>1, CoversAppend, FrameMsPositive
<1>3. b = [a EXCEPT !.buf = longer, !.state = k, !.silenceCount = c]
  BY DEF Joined
<1> HIDE DEF longer
<1>4. /\ b \in Aggregators /\ b.buf = longer /\ b.state = k /\ b.silenceCount = c
      /\ b.cursor = a.cursor /\ b.start = a.start /\ b.pre = a.pre
      /\ b.speechCount = a.speechCount /\ b.segments = a.segments
  BY <1>2, <1>3 DEF Aggregators
<1> HIDE DEF b
<1>5. HoldsAt(b, a.cursor)
  BY <1>2, <1>4 DEF HoldsAt
<1> QED BY <1>4, <1>5 DEF b

\* The check at the end of _handle_speaking and _handle_trailing.
LEMMA CloseIfSilentIsSound ==
    ASSUME NEW b \in Aggregators, HoldsAt(b, b.cursor), b.state = "TRAILING",
           b.silenceCount \in Nat \ {0}
    PROVE  SoundAt(CloseIfSilent(b), b.cursor) /\ CloseIfSilent(b).cursor = b.cursor
<1>1. CASE b.silenceCount >= SilenceEndFrames
  BY <1>1, CloseIsGood DEF CloseIfSilent, Good
<1>2. CASE ~(b.silenceCount >= SilenceEndFrames)
  <2>1. b.silenceCount \in 1..(SilenceEndFrames - 1)
    BY <1>2, FrameCounts
  <2> QED BY <1>2, <2>1 DEF CloseIfSilent, SoundAt, OpenAt
<1> QED BY <1>1, <1>2

\* _handle_speaking keeps the segment sound, whatever the verdict.
LEMMA SpeakingIsSound ==
    ASSUME NEW a \in Aggregators, NEW t \in Nat, NEW isSpeech \in BOOLEAN,
           a.state = "SPEAKING", a.cursor = t + FrameMs, HoldsAt(a, t)
    PROVE  /\ SoundAt(HandleSpeaking(a, isSpeech), a.cursor)
           /\ HandleSpeaking(a, isSpeech).cursor = a.cursor
<1> DEFINE d == Joined(a, "SPEAKING", a.silenceCount)
           e == Joined(a, "TRAILING", 1)
<1>1. a.silenceCount \in Nat /\ "SPEAKING" \in State /\ "TRAILING" \in State
  BY DEF Aggregators, State
<1>2. CASE isSpeech
  <2>1. HandleSpeaking(a, isSpeech) = d
    BY <1>1, <1>2 DEF HandleSpeaking, Joined, Aggregators
  <2>2. d \in Aggregators /\ HoldsAt(d, a.cursor) /\ d.state = "SPEAKING" /\ d.cursor = a.cursor
    BY <1>1, FrameJoins
  <2> HIDE DEF d
  <2> QED BY <2>1, <2>2 DEF SoundAt, OpenAt
<1>3. CASE ~isSpeech
  <2>1. HandleSpeaking(a, isSpeech) = CloseIfSilent(e)
    BY <1>3 DEF HandleSpeaking, Joined, Aggregators
  <2>2. /\ e \in Aggregators /\ HoldsAt(e, a.cursor) /\ e.state = "TRAILING"
        /\ e.silenceCount = 1 /\ e.cursor = a.cursor
    BY <1>1, FrameJoins
  <2> HIDE DEF e
  <2> QED BY <2>1, <2>2, CloseIfSilentIsSound
<1> QED BY <1>2, <1>3

\* _handle_trailing keeps the segment sound, whatever the verdict.
LEMMA TrailingIsSound ==
    ASSUME NEW a \in Aggregators, NEW t \in Nat, NEW isSpeech \in BOOLEAN,
           a.state = "TRAILING", a.cursor = t + FrameMs, OpenAt(a, t)
    PROVE  /\ SoundAt(HandleTrailing(a, isSpeech), a.cursor)
           /\ HandleTrailing(a, isSpeech).cursor = a.cursor
<1> DEFINE d == Joined(a, "SPEAKING", 0)
           e == Joined(a, "TRAILING", a.silenceCount + 1)
<1>1. /\ a.silenceCount \in Nat /\ HoldsAt(a, t)
      /\ "SPEAKING" \in State /\ "TRAILING" \in State
  BY DEF Aggregators, State, OpenAt
<1>2. CASE isSpeech
  <2>1. HandleTrailing(a, isSpeech) = d
    BY <1>2 DEF HandleTrailing, Joined, Aggregators
  <2>2. d \in Aggregators /\ HoldsAt(d, a.cursor) /\ d.state = "SPEAKING" /\ d.cursor = a.cursor
    BY <1>1, FrameJoins
  <2> HIDE DEF d
  <2> QED BY <2>1, <2>2 DEF SoundAt, OpenAt
<1>3. CASE ~isSpeech
  <2>1. HandleTrailing(a, isSpeech) = CloseIfSilent(e)
    BY <1>3 DEF HandleTrailing, Joined, Aggregators
  <2>2. /\ e \in Aggregators /\ HoldsAt(e, a.cursor) /\ e.state = "TRAILING"
        /\ e.silenceCount = a.silenceCount + 1 /\ e.cursor = a.cursor
    BY <1>1, FrameJoins
  <2> HIDE DEF e
  <2> QED BY <1>1, <2>1, <2>2, CloseIfSilentIsSound
<1> QED BY <1>2, <1>3

-----------------------------------------------------------------------------
(* feed and flush.                                                         *)

\* feed, from one frame to the next: the handlers and the forced cut.
LEMMA FeedIsGood ==
    ASSUME NEW a, Good(a), NEW isSpeech \in BOOLEAN
    PROVE  Good(Feed(a, isSpeech)) /\ Feed(a, isSpeech).cursor = a.cursor + FrameMs
<1> DEFINE t == a.cursor
           b == [a EXCEPT !.cursor = @ + FrameMs]
           h == Handle(b, isSpeech)
<1>1. a \in Aggregators /\ t \in Nat /\ t + FrameMs \in Nat /\ SoundAt(a, t)
  BY FrameMsPositive DEF Good, SoundAt, Aggregators
<1>2. /\ b \in Aggregators /\ b.cursor = t + FrameMs /\ b.state = a.state /\ b.pre = a.pre
      /\ b.buf = a.buf /\ b.start = a.start /\ b.speechCount = a.speechCount
      /\ b.silenceCount = a.silenceCount /\ b.segments = a.segments
  BY <1>1 DEF Aggregators
<1>3. b.state \in State
  BY <1>2 DEF Aggregators
<1> HIDE DEF b, t
<1>4. SoundAt(h, b.cursor) /\ h.cursor = b.cursor
  <2>1. CASE b.state = "SILENT"
    <3>1. SilentAt(b, t)
      BY <1>1, <1>2, <2>1 DEF SoundAt, SilentAt
    <3>2. h = HandleSilent(b, isSpeech)
      BY <2>1 DEF Handle
    <3> QED BY <3>1, <3>2, <2>1, <1>1, <1>2, SilentIsSound
  <2>2. CASE b.state = "SPEAKING"
    <3>1. HoldsAt(b, t)
      BY <1>1, <1>2, <2>2 DEF SoundAt, OpenAt, HoldsAt
    <3>2. h = HandleSpeaking(b, isSpeech)
      BY <2>2 DEF Handle
    <3> QED BY <3>1, <3>2, <2>2, <1>1, <1>2, SpeakingIsSound
  <2>3. CASE b.state = "TRAILING"
    <3>1. OpenAt(b, t)
      BY <1>1, <1>2, <2>3 DEF SoundAt, OpenAt, HoldsAt
    <3>2. h = HandleTrailing(b, isSpeech)
      BY <2>3 DEF Handle
    <3> QED BY <3>1, <3>2, <2>3, <1>1, <1>2, TrailingIsSound
  <2> QED BY <2>1, <2>2, <2>3, <1>3 DEF State
<1>5. Feed(a, isSpeech) = MaybeForceCut(h)
  BY DEF Feed, b
<1> HIDE DEF h
<1>6. Good(MaybeForceCut(h)) /\ MaybeForceCut(h).cursor = h.cursor
  BY <1>4, CutIsGood
<1> QED BY <1>2, <1>4, <1>5, <1>6 DEF t

\* flush closes the open segment at the end of the stream.
LEMMA FlushIsGood ==
    ASSUME NEW a, Good(a)
    PROVE  Good(Flush(a)) /\ Flush(a).cursor = a.cursor /\ Flush(a).state = "SILENT"
<1>1. a \in Aggregators /\ a.state \in State
  BY DEF Good, SoundAt, Aggregators
<1>2. CASE a.state = "SILENT"
  BY <1>2 DEF Flush
<1>3. CASE a.state # "SILENT"
  <2>1. HoldsAt(a, a.cursor)
    BY <1>3 DEF Good, SoundAt, OpenAt
  <2>2. Flush(a) = CloseSegment(a)
    BY <1>1, <1>3 DEF Flush, State
  <2> QED BY <1>1, <2>1, <2>2, CloseIsGood
<1> QED BY <1>2, <1>3

-----------------------------------------------------------------------------
(* The invariance theorems.                                                *)

\* A new aggregator at the start of a stream is good.
LEMMA InitIsGood == Init => IInv
<1> SUFFICES ASSUME Init PROVE IInv
  OBVIOUS
<1>1. /\ agg = Aggregator /\ residual = 0 /\ received = 0 /\ ended = FALSE /\ voiced = {}
  BY DEF Init
<1>2. <<>> \in Seq(Events) /\ <<>> \in Seq(Segment)
  OBVIOUS
<1>3. Aggregator \in Aggregators
  BY <1>2, EmptyBuffer DEF Aggregator, Aggregators, State
<1>4. /\ Aggregator.pre = <<>> /\ Aggregator.buf = <<>> /\ Aggregator.speechCount = 0
      /\ Aggregator.cursor = 0 /\ Aggregator.segments = <<>> /\ Aggregator.state = "SILENT"
  BY DEF Aggregator
<1>5. PutOut(<<>>, 0)
  BY DEF PutOut
<1>6. 0 - Len(<<>>) * FrameMs = 0
  BY EmptyBuffer
<1>7. SilentAt(Aggregator, 0)
  BY <1>4, <1>5, <1>6, EmptyBuffer, CoversNothing, FrameCounts DEF SilentAt
<1> QED BY <1>1, <1>3, <1>4, <1>7 DEF IInv, Good, SoundAt

\* Every step of _drive_stream keeps the aggregator good.
LEMMA NextIsGood == IInv /\ [Next]_vars => IInv'
<1> SUFFICES ASSUME IInv, [Next]_vars PROVE IInv'
  OBVIOUS
<1> USE SegmenterAssumption
<1>1. ASSUME NEW n \in ChunkSizes, Chunk(n) PROVE IInv'
  BY <1>1 DEF Chunk, IInv
<1>2. ASSUME NEW isSpeech \in BOOLEAN, FeedWindow(isSpeech) PROVE IInv'
  <2>1. Good(agg) /\ agg' = Feed(agg, isSpeech)
    BY <1>2 DEF IInv, FeedWindow
  <2>2. Good(agg')
    BY <2>1, FeedIsGood
  <2>3. agg'.cursor \in Nat
    BY <2>2 DEF Good, SoundAt, Aggregators
  <2>4. residual' \in Nat
    BY <1>2 DEF IInv, FeedWindow, WindowReady
  <2>6. voiced' \subseteq Nat
    BY <1>2, <2>3 DEF IInv, FeedWindow, Judged
  <2>5. received' = received /\ ended' = ended
    BY <1>2 DEF FeedWindow
  <2> QED BY <2>2, <2>4, <2>5, <2>6 DEF IInv, Good
<1>3. ASSUME NEW isSpeech \in BOOLEAN, EndStream(isSpeech) PROVE IInv'
  <2>1. Good(agg) /\ agg' = Flush(LastFrame(agg, isSpeech))
    BY <1>3 DEF IInv, EndStream
  <2>2. Good(LastFrame(agg, isSpeech))
    BY <2>1, FeedIsGood DEF LastFrame
  <2>3. Good(agg')
    BY <2>1, <2>2, FlushIsGood
  <2>4. agg'.cursor \in Nat
    BY <2>3 DEF Good, SoundAt, Aggregators
  <2>5. residual' \in Nat /\ ended' \in BOOLEAN /\ voiced' \subseteq Nat /\ received' = received
    BY <1>3, <2>4 DEF IInv, EndStream, Judged
  <2> QED BY <2>3, <2>5 DEF IInv, Good
<1>4. CASE UNCHANGED vars
  BY <1>4 DEF vars, IInv
<1> QED BY <1>1, <1>2, <1>3, <1>4 DEF Next, Over

\* The inductive invariant holds of every stream.
THEOREM AlwaysGood == Spec => []IInv
BY InitIsGood, NextIsGood, PTL DEF Spec

\* The inductive invariant implies the invariants the run checks.
LEMMA GoodImplies == IInv => TypeOK /\ BufferMatchesClock /\ ThresholdsRespected /\ SegmentsAreDisjoint
<1> SUFFICES ASSUME IInv PROVE TypeOK /\ BufferMatchesClock /\ ThresholdsRespected /\ SegmentsAreDisjoint
  OBVIOUS
<1>1. agg \in Aggregators /\ SoundAt(agg, agg.cursor)
  BY DEF IInv, Good, SoundAt
<1>2. TypeOK
  BY <1>1 DEF IInv, TypeOK, Aggregators, Events
<1>3. BufferMatchesClock
  BY <1>1 DEF BufferMatchesClock, SoundAt, SilentAt, OpenAt, HoldsAt
<1>4. ThresholdsRespected
  BY <1>1 DEF ThresholdsRespected, IInv, Good, SoundAt, SilentAt, OpenAt
<1>5. PutOut(agg.segments, OpenFrom)
  BY <1>1 DEF OpenFrom, SoundAt, SilentAt, OpenAt, HoldsAt
<1>6. SegmentsAreDisjoint
  BY <1>5 DEF PutOut, SegmentsAreDisjoint
<1> QED BY <1>2, <1>3, <1>4, <1>6

\* The aggregator keeps its shape in every stream.
THEOREM AlwaysTyped == Spec => []TypeOK
BY AlwaysGood, GoodImplies, PTL

\* The buffer of an open segment is exactly the audio since segment_start_ms,
\* and the pre-roll the latest run of speech, across resumed speech and
\* forced cuts, for every choice of the thresholds.
THEOREM BufferAlwaysMatchesClock == Spec => []BufferMatchesClock
BY AlwaysGood, GoodImplies, PTL

\* No open segment reaches max_speech_duration and no counter its threshold.
THEOREM ThresholdsAlwaysRespected == Spec => []ThresholdsRespected
BY AlwaysGood, GoodImplies, PTL

\* Segments hold the audio they say, are long enough, and never overlap.
THEOREM SegmentsAlwaysDisjoint == Spec => []SegmentsAreDisjoint
BY AlwaysGood, GoodImplies, PTL

-----------------------------------------------------------------------------
(* No byte is lost: the products are kept apart, so that every leaf about  *)
(* them is linear.                                                         *)

\* Products over sums, for bytes times milliseconds.
LEMMA Distribute ==
    ASSUME NEW x \in Int, NEW y \in Int, NEW z \in Int
    PROVE  (x + y) * z = x * z + y * z /\ (x - y) * z = x * z - y * z /\ x * z \in Int /\ x * z = z * x
OBVIOUS

\* Every step of _drive_stream accounts for the bytes it moves.
LEMMA NextCounts == IInv /\ NoByteLost /\ [Next]_vars => NoByteLost'
<1> SUFFICES ASSUME IInv, NoByteLost, [Next]_vars PROVE NoByteLost'
  OBVIOUS
<1> DEFINE r == received * FrameMs
           c == agg.cursor * Window
           d == residual * FrameMs
           w == Window * FrameMs
<1>1. /\ received \in Nat /\ residual \in Nat /\ agg.cursor \in Nat /\ FrameMs \in Nat \ {0}
      /\ Window \in Nat \ {0} /\ Good(agg)
  BY SegmenterAssumption DEF IInv, Good, SoundAt, Aggregators
<1>2. r \in Int /\ c \in Int /\ d \in Int /\ w \in Int /\ FrameMs * Window = w
  BY <1>1, Distribute
<1>3. ASSUME NEW n \in ChunkSizes, Chunk(n) PROVE NoByteLost'
  <2>1. n \in Nat
    BY SegmenterAssumption
  <2>2. received' * FrameMs = r + n * FrameMs /\ residual' * FrameMs = d + n * FrameMs
    BY <1>1, <1>3, <2>1, Distribute DEF Chunk
  <2>3. agg' = agg /\ ~ended' /\ r = c + d
    BY <1>3 DEF Chunk, NoByteLost
  <2>4. n * FrameMs \in Int
    BY <1>1, <2>1
  <2> DEFINE m == n * FrameMs
  <2> HIDE DEF r, c, d, w, m
  <2>5. r + m = c + (d + m)
    BY <1>2, <2>3, <2>4 DEF m
  <2> QED BY <2>2, <2>3, <2>5 DEF NoByteLost, m, c
<1>4. ASSUME NEW isSpeech \in BOOLEAN, FeedWindow(isSpeech) PROVE NoByteLost'
  <2>1. agg'.cursor = agg.cursor + FrameMs
    BY <1>1, <1>4, FeedIsGood DEF FeedWindow
  <2>2. agg'.cursor * Window = c + w /\ residual' * FrameMs = d - w
    BY <1>1, <1>2, <1>4, <2>1, Distribute DEF FeedWindow
  <2>3. received' = received /\ ~ended' /\ r = c + d
    BY <1>4 DEF FeedWindow, NoByteLost
  <2> HIDE DEF r, c, d, w
  <2>4. r = (c + w) + (d - w)
    BY <1>2, <2>3
  <2> QED BY <2>2, <2>3, <2>4 DEF NoByteLost, r
<1>5. ASSUME NEW isSpeech \in BOOLEAN, EndStream(isSpeech) PROVE NoByteLost'
  <2>1. /\ received' = received /\ ended' /\ r = c + d /\ residual < Window
        /\ agg' = Flush(LastFrame(agg, isSpeech))
    BY <1>1, <1>5, SegmenterAssumption DEF EndStream, NoByteLost, WindowReady
  <2>2. Good(LastFrame(agg, isSpeech))
    BY <1>1, FeedIsGood DEF LastFrame
  <2>3. agg'.state = "SILENT" /\ agg'.cursor = LastFrame(agg, isSpeech).cursor
    BY <2>1, <2>2, FlushIsGood
  <2>4. (received' + Window) * FrameMs = r + w
    BY <1>1, <2>1, Distribute
  <2>5. d < w /\ d >= 0
    BY <1>1, <2>1
  <2>6. CASE residual > 0
    <3>1. agg'.cursor = agg.cursor + FrameMs
      BY <1>1, <2>3, <2>6, FeedIsGood DEF LastFrame
    <3>2. agg'.cursor * Window = c + w
      BY <1>1, <1>2, <3>1, Distribute
    <3>3. d > 0
      BY <1>1, <2>6
    <3> HIDE DEF r, c, d, w
    <3>4. c + w >= r /\ c + w < r + w
      BY <1>2, <2>1, <2>5, <3>3
    <3> QED BY <2>1, <2>3, <2>4, <3>2, <3>4 DEF NoByteLost, r
  <2>7. CASE ~(residual > 0)
    <3>1. agg'.cursor = agg.cursor /\ residual = 0
      BY <1>1, <2>3, <2>7 DEF LastFrame
    <3>2. d = 0 /\ w > 0
      BY <1>1, <3>1
    <3>3. agg'.cursor * Window = c
      BY <3>1
    <3> HIDE DEF r, c, d, w
    <3>4. c >= r /\ c < r + w
      BY <1>2, <2>1, <3>2
    <3> QED BY <2>1, <2>3, <2>4, <3>3, <3>4 DEF NoByteLost, r
  <2> QED BY <2>6, <2>7
<1>6. CASE UNCHANGED vars
  BY <1>6 DEF vars, NoByteLost
<1> QED BY <1>3, <1>4, <1>5, <1>6 DEF Next, Over

\* The aggregator's clock counts the bytes of the stream, for every window
\* size and every way the stream is cut into chunks: none is lost, and only
\* the padding of the last window is added.
THEOREM NoByteEverLost == Spec => []NoByteLost
<1>1. Init => NoByteLost
  BY SegmenterAssumption DEF Init, NoByteLost, Aggregator
<1>2. IInv /\ NoByteLost /\ [Next]_vars => NoByteLost'
  BY NextCounts
<1> QED BY <1>1, <1>2, AlwaysGood, PTL DEF Spec

-----------------------------------------------------------------------------
(* What the consumers are told, and that segments hold speech.  V is the   *)
(* set of the frames judged to be speech.                                  *)

Heard(frames, V) == \E k \in 1..Len(frames) : frames[k] \in V

Held(segments, V) ==
    \A i \in 1..Len(segments) :
        \/ Heard(segments[i].frames, V)
        \/ i > 1 /\ segments[i - 1].end = segments[i].start

\* A run of frames reaches max_speech_duration before it is as long as
\* min_speech_duration: a forced cut may put nothing out.
Short == \E n \in Nat : MaxSpeechMs <= n * FrameMs /\ n * FrameMs < MinSpeechMs

\* What is open holds speech, or goes on where the last segment ended.
Backed(a, V) == Heard(a.buf, V) \/ (a.segments # <<>> /\ a.segments[Len(a.segments)].end = a.start)

\* The third case of an open segment: the cut before it put nothing out, and
\* then it will not be put out either.
Told(a, V) ==
    /\ Agree(a.events, a.segments) /\ Held(a.segments, V)
    /\ a.state = "SILENT" => \A k \in 1..Len(a.pre) : a.pre[k] \in V
    /\ a.state # "SILENT" => /\ Backed(a, V) \/ Short
                             /\ LongEnough(a) => Backed(a, V)

\* The detector's later verdicts take nothing back.
LEMMA ToldLater ==
    ASSUME NEW a, NEW V, NEW W, V \subseteq W, Told(a, V)
    PROVE  Told(a, W)
<1>1. \A f : Heard(f, V) => Heard(f, W)
  BY DEF Heard
<1>2. Held(a.segments, V) => Held(a.segments, W)
  BY <1>1 DEF Held
<1>3. Backed(a, V) => Backed(a, W)
  BY <1>1 DEF Backed
<1> QED BY <1>2, <1>3 DEF Told

\* A speech_start event leaves the speech_end events alone.
LEMMA AgreeStart ==
    ASSUME NEW es \in Seq(Events), NEW e \in Events, e.kind = "speech_start", NEW segs,
           Agree(es, segs)
    PROVE  Agree(Append(es, e), segs)
<1> DEFINE n == Len(es)
           fs == Append(es, e)
<1>1. n \in Nat /\ Len(fs) = n + 1 /\ fs[n + 1] = e /\ \A i \in 1..n : fs[i] = es[i]
  OBVIOUS
<1> HIDE DEF fs
<1>2. Ends(fs) = Ends(es) /\ Ends(es) \subseteq 1..n
  <2>1. \A i \in 1..(n + 1) : i = n + 1 \/ i \in 1..n
    BY <1>1
  <2>2. \A i \in 1..n : i \in 1..(n + 1)
    BY <1>1
  <2> HIDE DEF n
  <2>3. Ends(es) = {i \in 1..n : es[i].kind = "speech_end"}
    BY DEF Ends, n
  <2>4. Ends(fs) = {i \in 1..(n + 1) : fs[i].kind = "speech_end"}
    BY <1>1 DEF Ends
  <2> QED BY <1>1, <2>1, <2>2, <2>3, <2>4
<1>3. \A i \in Ends(es) : fs[i] = es[i]
  BY <1>1, <1>2
<1>4. PICK E : E = Ends(es) /\ Ends(fs) = E
  BY <1>2
<1>5. \A i, j \in E : i < j => es[i].at < es[j].at
  BY <1>4 DEF Agree
<1>6. \A i, j \in Ends(fs) : i < j => fs[i].at < fs[j].at
  BY <1>3, <1>4, <1>5
<1>7. \A i \in E : fs[i].at = es[i].at
  BY <1>3, <1>4
<1>8. {fs[i].at : i \in E} = {es[i].at : i \in E}
  BY <1>7
<1>9. Agree(fs, segs)
  <2>1. {es[i].at : i \in E} = {segs[i].end : i \in 1..Len(segs)}
    BY <1>4 DEF Agree
  <2> QED BY <1>4, <1>6, <1>8, <2>1 DEF Agree
<1> QED BY <1>9 DEF fs

\* _emit_segment tells both consumers at once.
LEMMA AgreeEnd ==
    ASSUME NEW es \in Seq(Events), NEW segs \in Seq(Segment), NEW e \in Events, NEW s \in Segment,
           e.kind = "speech_end", e.at = s.end, Agree(es, segs),
           \A i \in 1..Len(segs) : segs[i].end < s.end
    PROVE  Agree(Append(es, e), Append(segs, s))
<1> DEFINE n == Len(es)
           m == Len(segs)
           fs == Append(es, e)
           ss == Append(segs, s)
<1>1. n \in Nat /\ Len(fs) = n + 1 /\ fs[n + 1] = e /\ \A i \in 1..n : fs[i] = es[i]
  OBVIOUS
<1>2. m \in Nat /\ Len(ss) = m + 1 /\ ss[m + 1] = s /\ \A i \in 1..m : ss[i] = segs[i]
  OBVIOUS
<1> HIDE DEF fs, ss
<1>3. Ends(fs) = Ends(es) \cup {n + 1} /\ Ends(es) \subseteq 1..n
  <2>1. \A i \in 1..(n + 1) : i = n + 1 \/ i \in 1..n
    BY <1>1
  <2>2. (\A i \in 1..n : i \in 1..(n + 1)) /\ n + 1 \in 1..(n + 1)
    BY <1>1
  <2> HIDE DEF n
  <2>3. Ends(es) = {i \in 1..n : es[i].kind = "speech_end"}
    BY DEF Ends, n
  <2>4. Ends(fs) = {i \in 1..(n + 1) : fs[i].kind = "speech_end"}
    BY <1>1 DEF Ends
  <2> QED BY <1>1, <2>1, <2>2, <2>3, <2>4
<1>4. \A i \in Ends(es) : fs[i] = es[i] /\ i <= n /\ i \in Int
  BY <1>1, <1>3
<1>5. \A i \in Ends(es) : es[i].at < s.end
  <2>1. \A i \in Ends(es) : \E j \in 1..m : es[i].at = segs[j].end
    BY DEF Agree
  <2> QED BY <2>1
<1>6. \A i, j \in Ends(fs) : i < j => fs[i].at < fs[j].at
  <2> SUFFICES ASSUME NEW i \in Ends(fs), NEW j \in Ends(fs), i < j
               PROVE  fs[i].at < fs[j].at
    OBVIOUS
  <2>1. i \in Ends(es)
    BY <1>1, <1>3, <1>4
  <2>2. CASE j \in Ends(es)
    BY <1>4, <2>1, <2>2 DEF Agree
  <2>3. CASE j = n + 1
    BY <1>1, <1>4, <1>5, <2>1, <2>3
  <2> QED BY <1>3, <2>2, <2>3
<1>7. {fs[i].at : i \in Ends(fs)} = {ss[i].end : i \in 1..Len(ss)}
  <2> DEFINE A == {es[i].at : i \in Ends(es)}
             B == {segs[i].end : i \in 1..m}
  <2>1. A = B
    BY DEF Agree
  <2>2. {fs[i].at : i \in Ends(fs)} = A \cup {e.at}
    BY <1>1, <1>3, <1>4
  <2>3. \A i \in 1..(m + 1) : i = m + 1 \/ i \in 1..m
    BY <1>2
  <2>4. (\A i \in 1..m : i \in 1..(m + 1)) /\ m + 1 \in 1..(m + 1)
    BY <1>2
  <2>5. {ss[i].end : i \in 1..Len(ss)} = B \cup {s.end}
    <3>1. \A i \in 1..(m + 1) : ss[i].end \in B \cup {s.end}
      BY <1>2, <2>3
    <3>2. \A i \in 1..m : segs[i].end = ss[i].end
      BY <1>2
    <3>3. \A x \in B \cup {s.end} : \E i \in 1..(m + 1) : x = ss[i].end
      BY <1>2, <2>4, <3>2
    <3> QED BY <1>2, <3>1, <3>3
  <2> QED BY <2>1, <2>2, <2>5
<1>8. Agree(fs, ss)
  BY <1>6, <1>7 DEF Agree
<1> QED BY <1>8 DEF fs, ss

\* No number of frames lies between one and the next.
LEMMA NoneBetween ==
    ASSUME NEW p \in Nat, NEW n \in Nat, p * FrameMs < n * FrameMs
    PROVE  (p + 1) * FrameMs <= n * FrameMs
<1>1. FrameMs \in Nat /\ FrameMs > 0
  BY FrameMsPositive
<1>2. ASSUME NEW x \in Nat, NEW y \in Nat, x <= y
      PROVE  x * FrameMs <= y * FrameMs
  <2>1. PICK d \in Nat : y = x + d
    <3>1. y - x \in Nat /\ y = x + (y - x)
      BY <1>2
    <3> QED BY <3>1
  <2>2. y * FrameMs = x * FrameMs + d * FrameMs /\ d * FrameMs \in Nat /\ x * FrameMs \in Nat
    BY <1>1, <2>1, Distribute
  <2> DEFINE u == x * FrameMs
             v == d * FrameMs
             w == y * FrameMs
  <2>3. w = u + v /\ v \in Nat /\ u \in Nat
    BY <2>2
  <2> HIDE DEF u, v, w
  <2>4. u <= w
    BY <2>3
  <2> QED BY <2>4 DEF u, w
<1>3. ~(n <= p)
  <2>1. p * FrameMs \in Nat /\ n * FrameMs \in Nat
    BY OneMore
  <2> QED BY <1>2, <2>1
<1>4. p + 1 <= n /\ p + 1 \in Nat
  BY <1>3
<1> QED BY <1>2, <1>4

\* _emit_segment: a segment that is put out is backed by speech.
LEMMA EmitTold ==
    ASSUME NEW a \in Aggregators, NEW k \in State, HoldsAt(a, a.cursor), NEW V,
           Agree(a.events, a.segments), Held(a.segments, V), LongEnough(a) => Backed(a, V)
    PROVE  /\ Agree(EmitSegment(a, k).events, EmitSegment(a, k).segments)
           /\ Held(EmitSegment(a, k).segments, V)
           /\ LongEnough(a) =>
                 /\ EmitSegment(a, k).segments # <<>>
                 /\ EmitSegment(a, k).segments[Len(EmitSegment(a, k).segments)].end = a.cursor
<1> DEFINE s == [start |-> a.start, end |-> a.cursor, frames |-> a.buf]
           segs == IF LongEnough(a) THEN Append(a.segments, s) ELSE a.segments
           e == EmitSegment(a, k)
           n == Len(a.segments)
<1>1. /\ s \in Segment /\ s.end = a.cursor /\ s.start = a.start /\ s.frames = a.buf
      /\ a.segments \in Seq(Segment) /\ a.events \in Seq(Events) /\ a.buf \in Seq(Nat)
      /\ a.start \in Nat /\ a.cursor \in Nat
  BY DEF Segment, Aggregators
<1>2. e = [a EXCEPT !.segments = segs, !.events = AnnounceEnd(a), !.buf = <<>>, !.state = k]
  BY DEF EmitSegment
<1>3. e.segments = segs /\ e.events = AnnounceEnd(a)
  <2> HIDE DEF segs
  <2> QED BY <1>2 DEF Aggregators
<1>4. CASE ~LongEnough(a)
  <2>1. e.segments = a.segments /\ e.events = a.events
    BY <1>3, <1>4 DEF AnnounceEnd
  <2> HIDE DEF e
  <2> QED BY <1>4, <2>1 DEF e
<1>5. CASE LongEnough(a)
  <2> DEFINE ev == Event("speech_end", a.cursor)
             ss == Append(a.segments, s)
  <2>1. e.segments = ss /\ e.events = Append(a.events, ev)
    BY <1>3, <1>5 DEF AnnounceEnd
  <2>2. ev \in Events /\ ev.kind = "speech_end" /\ ev.at = s.end
    BY <1>1 DEF Event, Events
  <2>3. a.start < a.cursor
    <3> DEFINE m == Len(a.buf)
    <3>1. m \in Nat /\ m > 0 /\ m * FrameMs = a.cursor - a.start
      BY <1>1, <1>5 DEF LongEnough, HoldsAt, Covers
    <3>2. m * FrameMs > 0
      <4>1. m - 1 \in Nat /\ (m - 1) + 1 = m
        BY <3>1
      <4>2. m * FrameMs = (m - 1) * FrameMs + FrameMs /\ (m - 1) * FrameMs \in Nat
        BY <4>1, OneMore
      <4> DEFINE x == (m - 1) * FrameMs
                 y == m * FrameMs
      <4>3. y = x + FrameMs /\ x \in Nat
        BY <4>2
      <4> HIDE DEF x, y
      <4>4. y > 0
        BY <4>3, FrameMsPositive
      <4> QED BY <4>4 DEF y
    <3> QED BY <1>1, <3>1, <3>2
  <2>4. \A i \in 1..n : a.segments[i].end < s.end
    <3>1. \A i \in 1..n : a.segments[i].end <= a.start /\ a.segments[i] \in Segment
      BY <1>1 DEF HoldsAt, PutOut
    <3>2. \A i \in 1..n : a.segments[i].end \in Nat
      BY <3>1 DEF Segment
    <3> QED BY <1>1, <2>3, <3>1, <3>2
  <2>5. n \in Nat /\ Len(ss) = n + 1 /\ ss[n + 1] = s /\ \A i \in 1..n : ss[i] = a.segments[i]
    BY <1>1
  <2> HIDE DEF ss, ev, s
  <2>6. Agree(Append(a.events, ev), Append(a.segments, s))
    BY <1>1, <2>2, <2>4, AgreeEnd
  <2>7. Held(ss, V)
    <3> SUFFICES ASSUME NEW i \in 1..(n + 1)
                 PROVE  Heard(ss[i].frames, V) \/ (i > 1 /\ ss[i - 1].end = ss[i].start)
      BY <2>5 DEF Held
    <3>1. CASE i = n + 1
      <4>1. ss[i].frames = a.buf /\ ss[i].start = a.start
        BY <1>1, <2>5, <3>1
      <4>2. CASE Heard(a.buf, V)
        BY <4>1, <4>2
      <4>3. CASE a.segments # <<>> /\ a.segments[n].end = a.start
        <5>1. n > 0 /\ n \in 1..n /\ i - 1 = n /\ i > 1
          BY <1>1, <2>5, <3>1, <4>3
        <5> QED BY <2>5, <4>1, <4>3, <5>1
      <4> QED BY <1>5, <4>2, <4>3 DEF Backed
    <3>2. CASE i \in 1..n
      <4>1. ss[i] = a.segments[i] /\ (i > 1 => i - 1 \in 1..n)
        BY <2>5, <3>2
      <4>2. i > 1 => ss[i - 1] = a.segments[i - 1]
        BY <2>5, <4>1
      <4>3. Heard(a.segments[i].frames, V) \/ (i > 1 /\ a.segments[i - 1].end = a.segments[i].start)
        BY <3>2 DEF Held
      <4> QED BY <4>1, <4>2, <4>3
    <3> QED BY <2>5, <3>1, <3>2
  <2>8. ss # <<>> /\ ss[Len(ss)].end = a.cursor
    BY <1>1, <2>5
  <2> HIDE DEF e
  <2> QED BY <2>1, <2>6, <2>7, <2>8 DEF ss, e
<1> QED BY <1>4, <1>5

\* _close_segment, with the pre-roll empty.
LEMMA CloseTold ==
    ASSUME NEW a \in Aggregators, HoldsAt(a, a.cursor), a.state # "SILENT", NEW V, Told(a, V)
    PROVE  Told(CloseSegment(a), V)
<1> DEFINE e == EmitSegment(a, "SILENT")
           c == CloseSegment(a)
<1>1. Agree(e.events, e.segments) /\ Held(e.segments, V)
  BY EmitTold DEF Told, State
<1>2. e \in Aggregators /\ e.pre = <<>> /\ e.state = "SILENT"
  BY EmitPutsOut DEF HoldsAt, State
<1>3. c = [e EXCEPT !.silenceCount = 0]
  BY DEF CloseSegment
<1> HIDE DEF e, c
<1>4. c.events = e.events /\ c.segments = e.segments /\ c.pre = <<>> /\ c.state = "SILENT"
  BY <1>2, <1>3 DEF Aggregators
<1>5. Told(c, V)
  BY <1>1, <1>4 DEF Told
<1> QED BY <1>5 DEF c

\* _maybe_force_cut: what is open afterwards goes on where the cut was, or
\* the cut put nothing out.
LEMMA CutTold ==
    ASSUME NEW a, SoundAt(a, a.cursor), NEW V, Told(a, V)
    PROVE  Told(MaybeForceCut(a), V)
<1>1. CASE a.state = "SILENT" \/ a.cursor - a.start < MaxSpeechMs
  BY <1>1 DEF MaybeForceCut
<1>2. CASE ~(a.state = "SILENT" \/ a.cursor - a.start < MaxSpeechMs)
  <2> DEFINE e == EmitSegment(a, "SPEAKING")
             c == ForceCut(a)
             m == Len(a.buf)
  <2>1. a \in Aggregators /\ HoldsAt(a, a.cursor) /\ a.cursor \in Nat /\ a.start \in Nat
        /\ a.buf \in Seq(Nat)
    BY <1>2 DEF SoundAt, OpenAt, Aggregators
  <2>2. /\ Agree(e.events, e.segments) /\ Held(e.segments, V)
        /\ LongEnough(a) => e.segments # <<>> /\ e.segments[Len(e.segments)].end = a.cursor
    BY <1>2, <2>1, EmitTold DEF Told, State
  <2>3. e \in Aggregators /\ e.state = "SPEAKING" /\ e.buf = <<>>
    BY <2>1, EmitPutsOut DEF HoldsAt, State
  <2>4. c = [e EXCEPT !.start = a.cursor] /\ MaybeForceCut(a) = c
    BY <1>2 DEF ForceCut, MaybeForceCut
  <2> HIDE DEF e, c
  <2>5. /\ c.events = e.events /\ c.segments = e.segments /\ c.state = "SPEAKING"
        /\ c.start = a.cursor /\ c.buf = <<>>
    BY <2>3, <2>4 DEF Aggregators
  <2>6. ~LongEnough(c)
    BY <2>5 DEF LongEnough
  <2>7. CASE LongEnough(a)
    <3>1. Backed(c, V)
      BY <2>2, <2>5, <2>7 DEF Backed
    <3> QED BY <2>2, <2>4, <2>5, <2>6, <3>1 DEF Told
  <2>8. CASE ~LongEnough(a)
    <3>1. m \in Nat /\ m * FrameMs = a.cursor - a.start
      BY <2>1 DEF HoldsAt, Covers
    <3>2. a.buf # <<>>
      BY <1>2, <2>1, <3>1, EmptyBuffer, SegmenterAssumption
    <3>3. MaxSpeechMs <= m * FrameMs /\ m * FrameMs < MinSpeechMs
      <4>1. a.cursor - a.start >= MaxSpeechMs /\ a.cursor - a.start < MinSpeechMs
        BY <1>2, <2>1, <2>8, <3>2, SegmenterAssumption DEF LongEnough
      <4> HIDE DEF m
      <4> QED BY <3>1, <4>1
    <3>4. Short
      <4> HIDE DEF m
      <4> QED BY <3>1, <3>3 DEF Short
    <3> QED BY <2>2, <2>4, <2>5, <2>6, <3>4 DEF Told
  <2> QED BY <2>7, <2>8
<1> QED BY <1>1, <1>2

\* _handle_silent: the pre-roll is speech, and becomes the segment.
LEMMA SilentTold ==
    ASSUME NEW a \in Aggregators, NEW isSpeech \in BOOLEAN, a.state = "SILENT", NEW V,
           Told(a, V), isSpeech => a.cursor \in V
    PROVE  Told(HandleSilent(a, isSpeech), V)
<1> DEFINE longer == Append(a.pre, a.cursor)
           b == [a EXCEPT !.pre = longer, !.speechCount = @ + 1]
           h == HandleSilent(a, isSpeech)
           n == Len(a.pre)
<1>1. /\ a.pre \in Seq(Nat) /\ a.cursor \in Nat /\ a.events \in Seq(Events) /\ n \in Nat
      /\ Agree(a.events, a.segments) /\ Held(a.segments, V)
      /\ \A k \in 1..n : a.pre[k] \in V
  BY DEF Aggregators, Told
<1>2. CASE ~isSpeech
  <2>1. h = [a EXCEPT !.speechCount = 0, !.pre = <<>>]
    BY <1>2 DEF HandleSilent
  <2>2. h.pre = <<>> /\ h.events = a.events /\ h.segments = a.segments /\ h.state = "SILENT"
    BY <2>1 DEF Aggregators
  <2> HIDE DEF h
  <2>3. Told(h, V)
    BY <1>1, <2>2 DEF Told
  <2> QED BY <2>3 DEF h
<1>3. CASE isSpeech
  <2>1. /\ longer \in Seq(Nat) /\ Len(longer) = n + 1 /\ longer[n + 1] = a.cursor
        /\ \A k \in 1..n : longer[k] = a.pre[k]
    BY <1>1
  <2>2. h = IF b.speechCount >= SpeechStartFrames THEN ConfirmSpeech(b) ELSE b
    BY <1>3 DEF HandleSilent
  <2> HIDE DEF longer
  <2>3. \A k \in 1..Len(longer) : longer[k] \in V
    <3>1. \A k \in 1..Len(longer) : k = n + 1 \/ k \in 1..n
      BY <1>1, <2>1
    <3>2. a.cursor \in V
      BY <1>3
    <3> QED BY <1>1, <2>1, <3>1, <3>2
  <2>4. /\ b.pre = longer /\ b.events = a.events /\ b.segments = a.segments /\ b.state = "SILENT"
        /\ b.cursor = a.cursor
    BY DEF Aggregators
  <2>5. CASE ~(b.speechCount >= SpeechStartFrames)
    <3>1. h = b
      BY <2>2, <2>5
    <3> HIDE DEF b, h
    <3>2. Told(b, V)
      BY <1>1, <2>3, <2>4 DEF Told
    <3> QED BY <3>1, <3>2 DEF h
  <2>6. CASE b.speechCount >= SpeechStartFrames
    <3> DEFINE from == SegmentStart(b)
               es == Append(b.events, Event("speech_start", from))
               c == ConfirmSpeech(b)
    <3>1. h = c
      BY <2>2, <2>6
    <3>2. c = [b EXCEPT !.start = from, !.buf = b.pre, !.pre = <<>>, !.speechCount = 0,
                        !.state = "SPEAKING", !.events = es]
      BY DEF ConfirmSpeech
    <3>3. b \in Aggregators
      <4>1. a.speechCount + 1 \in Nat
        BY DEF Aggregators
      <4> QED BY <2>1, <4>1 DEF Aggregators
    <3>4. from \in Nat
      <4>1. Len(longer) \in Nat
        BY <2>1
      <4>2. Len(longer) * FrameMs \in Nat
        BY <4>1, OneMore
      <4> DEFINE p == Len(longer) * FrameMs
      <4>3. from = IF a.cursor - p < 0 THEN 0 ELSE a.cursor - p
        BY <2>4 DEF SegmentStart
      <4>4. p \in Nat
        BY <4>2
      <4> HIDE DEF p, from
      <4> QED BY <1>1, <4>3, <4>4
    <3> HIDE DEF b, c, h, from
    <3>5. Event("speech_start", from) \in Events /\ Event("speech_start", from).kind = "speech_start"
      BY <3>4 DEF Event, Events
    <3>6. Agree(es, a.segments)
      BY <1>1, <2>4, <3>5, AgreeStart
    <3> HIDE DEF es
    <3>7. c.buf = longer /\ c.events = es /\ c.segments = a.segments /\ c.state = "SPEAKING"
      BY <2>4, <3>2, <3>3 DEF Aggregators
    <3>8. Backed(c, V)
      <4>1. n + 1 \in 1..Len(longer)
        BY <1>1, <2>1
      <4> QED BY <2>3, <3>7, <4>1 DEF Backed, Heard
    <3>9. Told(c, V)
      BY <1>1, <3>6, <3>7, <3>8 DEF Told
    <3> QED BY <3>1, <3>9 DEF h
  <2> QED BY <2>5, <2>6
<1> QED BY <1>2, <1>3

\* A frame joins the open segment, which was shorter than the maximum.
LEMMA JoinTold ==
    ASSUME NEW a \in Aggregators, NEW t \in Nat, NEW k \in State, NEW c \in Nat, k # "SILENT",
           a.cursor = t + FrameMs, HoldsAt(a, t), t - a.start < MaxSpeechMs, NEW V,
           Agree(a.events, a.segments), Held(a.segments, V), Backed(a, V) \/ Short
    PROVE  Told(Joined(a, k, c), V)
<1> DEFINE b == Joined(a, k, c)
           longer == Append(a.buf, a.cursor)
           m == Len(a.buf)
<1>1. /\ a.buf \in Seq(Nat) /\ a.cursor \in Nat /\ a.start \in Nat /\ m \in Nat
      /\ m * FrameMs = t - a.start
  BY DEF Aggregators, HoldsAt, Covers
<1>2. longer \in Seq(Nat) /\ Len(longer) = m + 1 /\ \A i \in 1..m : longer[i] = a.buf[i] /\ i \in 1..(m + 1)
  BY <1>1
<1>3. b = [a EXCEPT !.buf = longer, !.state = k, !.silenceCount = c]
  BY DEF Joined
<1> HIDE DEF longer
<1>4. /\ b.buf = longer /\ b.state = k /\ b.cursor = a.cursor /\ b.start = a.start
      /\ b.segments = a.segments /\ b.events = a.events
  BY <1>3 DEF Aggregators
<1> HIDE DEF b
<1>5. Backed(a, V) => Backed(b, V)
  BY <1>2, <1>4 DEF Backed, Heard
<1>6. ASSUME Short PROVE ~LongEnough(b)
  <2>1. PICK n \in Nat : MaxSpeechMs <= n * FrameMs /\ n * FrameMs < MinSpeechMs
    BY <1>6 DEF Short
  <2> DEFINE x == m * FrameMs
             y == n * FrameMs
             z == (m + 1) * FrameMs
  <2>2. x \in Nat /\ y \in Nat /\ z = x + FrameMs
    BY <1>1, OneMore
  <2>3. MaxSpeechMs \in Nat /\ MinSpeechMs \in Nat /\ FrameMs \in Nat
    BY SegmenterAssumption
  <2>4. x < y
    <3>1. x = t - a.start /\ MaxSpeechMs <= y
      BY <1>1, <2>1
    <3> HIDE DEF x, y, z
    <3> QED BY <1>1, <2>2, <2>3, <3>1
  <2>5. z <= y
    BY <1>1, <2>4, NoneBetween
  <2>6. x = t - a.start /\ y < MinSpeechMs
    BY <1>1, <2>1
  <2> HIDE DEF x, y, z
  <2>7. a.cursor - a.start < MinSpeechMs
    BY <1>1, <2>2, <2>3, <2>5, <2>6
  <2> QED BY <1>1, <1>4, <2>3, <2>7 DEF LongEnough
<1>7. Told(b, V)
  BY <1>4, <1>5, <1>6 DEF Told
<1> QED BY <1>7 DEF b

\* The check at the end of _handle_speaking and _handle_trailing.
LEMMA CloseIfSilentTold ==
    ASSUME NEW b \in Aggregators, HoldsAt(b, b.cursor), b.state = "TRAILING", NEW V, Told(b, V)
    PROVE  Told(CloseIfSilent(b), V)
BY CloseTold DEF CloseIfSilent

\* _handle_speaking and _handle_trailing.
LEMMA OpenTold ==
    ASSUME NEW a \in Aggregators, NEW t \in Nat, NEW isSpeech \in BOOLEAN,
           a.state \in {"SPEAKING", "TRAILING"}, a.cursor = t + FrameMs, HoldsAt(a, t),
           t - a.start < MaxSpeechMs, NEW V,
           Agree(a.events, a.segments), Held(a.segments, V), Backed(a, V) \/ Short
    PROVE  Told(Handle(a, isSpeech), V)
<1>1. /\ a.silenceCount \in Nat /\ a.silenceCount + 1 \in Nat /\ 0 \in Nat /\ 1 \in Nat
      /\ "SPEAKING" \in State /\ "TRAILING" \in State
  BY DEF Aggregators, State
<1>2. ASSUME NEW c \in Nat
      PROVE  /\ Told(Joined(a, "SPEAKING", c), V) /\ Told(CloseIfSilent(Joined(a, "TRAILING", c)), V)
  <2> DEFINE e == Joined(a, "TRAILING", c)
  <2>1. Told(Joined(a, "SPEAKING", c), V) /\ Told(e, V)
    BY <1>1, JoinTold
  <2>2. e \in Aggregators /\ HoldsAt(e, e.cursor) /\ e.state = "TRAILING"
    BY <1>1, FrameJoins
  <2> HIDE DEF e
  <2>3. Told(CloseIfSilent(e), V)
    BY <2>1, <2>2, CloseIfSilentTold
  <2> QED BY <2>1, <2>3 DEF e
<1>3. \/ Handle(a, isSpeech) = Joined(a, "SPEAKING", a.silenceCount)
      \/ Handle(a, isSpeech) = Joined(a, "SPEAKING", 0)
      \/ Handle(a, isSpeech) = CloseIfSilent(Joined(a, "TRAILING", 1))
      \/ Handle(a, isSpeech) = CloseIfSilent(Joined(a, "TRAILING", a.silenceCount + 1))
  <2>1. CASE a.state = "SPEAKING"
    <3>1. Handle(a, isSpeech) = HandleSpeaking(a, isSpeech)
      BY <2>1 DEF Handle
    <3>2. isSpeech => HandleSpeaking(a, isSpeech) = Joined(a, "SPEAKING", a.silenceCount)
      BY <1>1, <2>1 DEF HandleSpeaking, Joined, Aggregators
    <3>3. ~isSpeech => HandleSpeaking(a, isSpeech) = CloseIfSilent(Joined(a, "TRAILING", 1))
      BY <2>1 DEF HandleSpeaking, Joined, Aggregators
    <3> QED BY <3>1, <3>2, <3>3
  <2>2. CASE a.state = "TRAILING"
    <3>1. Handle(a, isSpeech) = HandleTrailing(a, isSpeech)
      BY <2>2 DEF Handle
    <3>2. isSpeech => HandleTrailing(a, isSpeech) = Joined(a, "SPEAKING", 0)
      BY <2>2 DEF HandleTrailing, Joined, Aggregators
    <3>3. ~isSpeech =>
              HandleTrailing(a, isSpeech) = CloseIfSilent(Joined(a, "TRAILING", a.silenceCount + 1))
      BY <2>2 DEF HandleTrailing, Joined, Aggregators
    <3> QED BY <3>1, <3>2, <3>3
  <2> QED BY <2>1, <2>2
<1> QED BY <1>1, <1>2, <1>3

\* feed, when the detector's verdict on the frame is in V.
LEMMA FeedTold ==
    ASSUME NEW a, Good(a), NEW isSpeech \in BOOLEAN, NEW V, Told(a, V),
           isSpeech => a.cursor + FrameMs \in V
    PROVE  Told(Feed(a, isSpeech), V)
<1> DEFINE t == a.cursor
           b == [a EXCEPT !.cursor = @ + FrameMs]
           h == Handle(b, isSpeech)
<1>1. a \in Aggregators /\ t \in Nat /\ t + FrameMs \in Nat /\ SoundAt(a, t)
      /\ (a.state # "SILENT" => t - a.start < MaxSpeechMs)
  BY FrameMsPositive DEF Good, SoundAt, Aggregators
<1>2. /\ b \in Aggregators /\ b.cursor = t + FrameMs /\ b.state = a.state /\ b.pre = a.pre
      /\ b.buf = a.buf /\ b.start = a.start /\ b.speechCount = a.speechCount
      /\ b.silenceCount = a.silenceCount /\ b.segments = a.segments /\ b.events = a.events
  BY <1>1 DEF Aggregators
<1>3. b.state \in State
  BY <1>2 DEF Aggregators
<1>9. isSpeech => b.cursor \in V
  BY <1>2
<1> HIDE DEF b, t
<1>4. Told(h, V) /\ SoundAt(h, h.cursor)
  <2>1. CASE b.state = "SILENT"
    <3>1. SilentAt(b, t)
      BY <1>1, <1>2, <2>1 DEF SoundAt, SilentAt
    <3>2. h = HandleSilent(b, isSpeech)
      BY <2>1 DEF Handle
    <3>3. SoundAt(h, h.cursor)
      BY <3>1, <3>2, <2>1, <1>1, <1>2, SilentIsSound
    <3>4. Told(b, V)
      BY <1>2, <2>1 DEF Told
    <3>5. Told(HandleSilent(b, isSpeech), V)
      BY <1>2, <1>9, <2>1, <3>4, SilentTold
    <3> QED BY <3>2, <3>3, <3>5
  <2>2. CASE b.state \in {"SPEAKING", "TRAILING"}
    <3>1. OpenAt(b, t) /\ HoldsAt(b, t)
      BY <1>1, <1>2, <2>2 DEF SoundAt, OpenAt, HoldsAt
    <3>2. h = IF b.state = "SPEAKING" THEN HandleSpeaking(b, isSpeech) ELSE HandleTrailing(b, isSpeech)
      BY <2>2 DEF Handle
    <3>3. SoundAt(h, h.cursor)
      BY <3>1, <3>2, <2>2, <1>1, <1>2, SpeakingIsSound, TrailingIsSound
    <3>4. Agree(b.events, b.segments) /\ Held(b.segments, V) /\ (Backed(b, V) \/ Short)
      BY <1>2, <2>2 DEF Told, Backed
    <3>5. t - b.start < MaxSpeechMs
      BY <1>1, <1>2, <2>2
    <3>6. Told(h, V)
      BY <1>1, <1>2, <2>2, <3>1, <3>4, <3>5, OpenTold
    <3> QED BY <3>3, <3>6
  <2> QED BY <2>1, <2>2, <1>3 DEF State
<1>5. Feed(a, isSpeech) = MaybeForceCut(h)
  BY DEF Feed, b
<1> HIDE DEF h
<1> QED BY <1>4, <1>5, CutTold

\* flush.
LEMMA FlushTold ==
    ASSUME NEW a, Good(a), NEW V, Told(a, V)
    PROVE  Told(Flush(a), V)
<1>1. a \in Aggregators /\ a.state \in State
  BY DEF Good, SoundAt, Aggregators
<1>2. CASE a.state = "SILENT"
  BY <1>2 DEF Flush
<1>3. CASE a.state # "SILENT"
  <2>1. HoldsAt(a, a.cursor)
    BY <1>3 DEF Good, SoundAt, OpenAt
  <2>2. Flush(a) = CloseSegment(a)
    BY <1>1, <1>3 DEF Flush, State
  <2> QED BY <1>1, <1>3, <2>1, <2>2, CloseTold
<1> QED BY <1>2, <1>3

\* Every step of _drive_stream keeps what was told true.
LEMMA NextTold == IInv /\ Told(agg, voiced) /\ [Next]_vars => Told(agg, voiced)'
<1> SUFFICES ASSUME IInv, Told(agg, voiced), [Next]_vars
             PROVE  Told(agg', voiced')
  BY DEF Told, Agree, Ends, Held, Heard, Backed, LongEnough, Short
<1>1. ASSUME NEW n \in ChunkSizes, Chunk(n) PROVE Told(agg', voiced')
  BY <1>1 DEF Chunk
<1>2. ASSUME NEW isSpeech \in BOOLEAN, FeedWindow(isSpeech) PROVE Told(agg', voiced')
  <2>1. Good(agg) /\ agg' = Feed(agg, isSpeech) /\ voiced' = Judged(agg'.cursor, isSpeech)
    BY <1>2 DEF IInv, FeedWindow
  <2>2. agg'.cursor = agg.cursor + FrameMs
    BY <2>1, FeedIsGood
  <2>3. voiced \subseteq voiced' /\ (isSpeech => agg.cursor + FrameMs \in voiced')
    BY <2>1, <2>2 DEF Judged
  <2>4. Told(agg, voiced')
    BY <2>3, ToldLater
  <2> QED BY <2>1, <2>3, <2>4, FeedTold
<1>3. ASSUME NEW isSpeech \in BOOLEAN, EndStream(isSpeech) PROVE Told(agg', voiced')
  <2> DEFINE last == LastFrame(agg, isSpeech)
  <2>1. /\ Good(agg) /\ agg' = Flush(last)
        /\ voiced' = IF residual > 0 THEN Judged(agg'.cursor, isSpeech) ELSE voiced
    BY <1>3 DEF IInv, EndStream
  <2>2. Good(last)
    BY <2>1, FeedIsGood DEF LastFrame
  <2>3. agg'.cursor = last.cursor
    BY <2>1, <2>2, FlushIsGood
  <2>4. voiced \subseteq voiced'
    BY <2>1 DEF Judged
  <2>5. Told(agg, voiced')
    BY <2>4, ToldLater
  <2>6. Told(last, voiced')
    <3>1. CASE residual > 0
      <4>1. last = Feed(agg, isSpeech) /\ last.cursor = agg.cursor + FrameMs
        BY <2>1, <3>1, FeedIsGood DEF LastFrame
      <4>2. isSpeech => agg.cursor + FrameMs \in voiced'
        BY <2>1, <2>3, <3>1, <4>1 DEF Judged
      <4> QED BY <2>1, <2>5, <4>1, <4>2, FeedTold
    <3>2. CASE ~(residual > 0)
      BY <2>5, <3>2 DEF LastFrame
    <3> QED BY <3>1, <3>2
  <2> HIDE DEF last
  <2> QED BY <2>1, <2>2, <2>6, FlushTold
<1>4. CASE UNCHANGED vars
  BY <1>4 DEF vars
<1> QED BY <1>1, <1>2, <1>3, <1>4 DEF Next, Over

\* For every choice of the thresholds and every verdict of the detector, the
\* speech_end events tell of the segments put out and of no other, and no
\* segment is without speech unless it is the rest of one that was cut.
THEOREM SegmentsAlwaysHoldSpeech == Spec => []SegmentsHoldSpeech
<1>1. Init => Told(agg, voiced)
  <2> SUFFICES ASSUME Init PROVE Told(agg, voiced)
    OBVIOUS
  <2>1. agg.events = <<>> /\ agg.segments = <<>> /\ agg.pre = <<>> /\ agg.state = "SILENT"
    BY DEF Init, Aggregator
  <2>2. Agree(<<>>, <<>>) /\ Held(<<>>, voiced)
    BY DEF Agree, Ends, Held
  <2> QED BY <2>1, <2>2 DEF Told
<1>2. IInv /\ Told(agg, voiced) /\ [Next]_vars => Told(agg, voiced)'
  BY NextTold
<1>3. Told(agg, voiced) => SegmentsHoldSpeech
  BY DEF Told, SegmentsHoldSpeech, Held, Heard, Speech
<1> QED BY <1>1, <1>2, <1>3, AlwaysGood, PTL DEF Spec

=============================================================================
