--------------------------- MODULE StreamSession ---------------------------
(***************************************************************************)
(* One WebSocket connection of /api/v1/recognize/stream: the receive loop  *)
(* with its _StreamSession and, for every turn, the four asyncio tasks a   *)
(* `start` frame brings to life: the VAD/ASR pump, the fan-out of the PCM  *)
(* queue, the forwarder of speech events and the finalizer.                *)
(*                                                                         *)
(* A step of the model runs one task from one await that can suspend to    *)
(* the next; asyncio interleaves tasks only there.  Putting to an unbounded *)
(* asyncio.Queue never suspends.  Task.cancel() follows asyncio: a task    *)
(* that awaits another unfinished task passes the cancellation to it, any  *)
(* other suspended task is resumed with CancelledError.  Sending a frame   *)
(* writes it first and may suspend afterwards; once the client is gone it  *)
(* raises instead, while frames the client sent before are still received. *)
(*                                                                         *)
(* A definition X_Fault is X with a plausible slip; no definition uses it. *)
(* Replacing X by it must break the property the slip concerns.            *)
(***************************************************************************)
EXTENDS Integers, Sequences, FiniteSets

CONSTANTS
    LastTurn,     \* turn ids are 0..LastTurn
    Session,      \* the session ids a client may put into `start`
    None,         \* Python's None: no session yet, end-of-stream, no audio
    Chunk,        \* the PCM chunks a client may send
    Vad,          \* the deployed detector: "silero" or "mock"
    Failing,      \* the parties that may fail: backends raise, the client vanishes
    MaxAudio,     \* get_max_audio_bytes(), counted in PCM chunks
    MaxPcm,       \* bound: PCM frames a client sends in a turn
    MaxStops,     \* bound: `stop` frames a client sends in a turn
    MaxPartials,  \* bound: partial transcripts of one segment
    MaxStale      \* bound: stale `start` frames a client sends in a turn

Turn == 0..LastTurn
Backend == {"vad", "asr", "scene", "request", "orchestrator", "client"}

ASSUME StreamAssumption ==
    /\ LastTurn \in Nat
    /\ None \notin Session
    /\ Chunk \subseteq {"voice", "quiet"} /\ None \notin Chunk
    /\ Vad \in {"silero", "mock"}
    /\ Failing \subseteq Backend
    /\ {MaxAudio, MaxPcm, MaxStops, MaxPartials, MaxStale} \subseteq Nat

VARIABLES
    hpc,    \* where the receive loop is suspended
    after,  \* what the receive loop does once the active turn is abandoned
    sid,    \* _session_id
    cur,    \* _current_turn_id; the active _ctx is ctx[cur], -1 for none
    ctx,    \* the _TurnContext of each turn
    pump,   \* the task ctx.task: _pump_vad_asr
    fan,    \* the task fan_out
    ev,     \* the task forward_events
    fin,    \* the task _finalize_turn
    wire,   \* the frames of turns sent to the client since the active turn began
    notices, \* the `start` frames refused to the client since then
    gauge,  \* the metric ws_active_turns
    gone    \* the client's end of the socket is closed

session == <<hpc, after, sid, cur, notices>>
tasks == <<pump, fan, ev, fin>>
vars == <<session, ctx, tasks, wire, gauge, gone>>

\* What may be wrong with a `start`: nothing, a required field is missing, an
\* n_best that int() refuses, or values that only RecognitionRequest refuses,
\* after the transcript: an n_best outside 1..20, a scene_id or category_path
\* that is no string.
StartForm == {"good", "badStart", "badNBest", "badRequest"}

Close == [kind |-> "close"]
Start(s, t, form) ==
    [kind |-> IF form = "badNBest" THEN "raise" ELSE "start", session |-> s, turn |-> t,
     valid |-> form # "badRequest"]

Frame(type, t) == [type |-> type, turn |-> t]
Send(type, t) == wire' = Append(wire, Frame(type, t))
Sent(type, t) == \E i \in DOMAIN wire : wire[i] = Frame(type, t)
Notice(type, t) == notices' = Append(notices, Frame(type, t))

\* A fresh context, and all that is remembered of a superseded one.  `pcm`
\* and `stops` count the frames the client sent, `audio` is what the
\* recognition request was given for Path B, and `valid` tells whether
\* RecognitionRequest accepts the scene, path and n_best of the `start`.
Context(cancelled) ==
    [cancelled |-> cancelled, metric |-> "none", queue |-> <<>>, accum |-> 0,
     overflow |-> FALSE, audio |-> None, pcm |-> 0, stops |-> 0,
     valid |-> TRUE]

\* A pump, an event forwarder and a finalizer whose locals hold nothing:
\* before the task runs and after it has ended.
PumpTask(pc, res) ==
    [pc |-> pc, res |-> res, kill |-> FALSE, q |-> <<>>, vad |-> "silent", seg |-> FALSE,
     exc |-> "none", partials |-> 0, text |-> "empty"]

EventsTask(pc) == [pc |-> pc, kill |-> FALSE, q |-> <<>>, vad |-> "silent"]

FinalizeTask(pc) == [pc |-> pc, kill |-> FALSE, outcome |-> "none"]

Init ==
    /\ hpc = "receive" /\ after = Close /\ sid = None /\ cur = -1
    /\ ctx = [t \in Turn |-> Context(FALSE)]
    /\ pump = [t \in Turn |-> PumpTask("none", "none")]
    /\ fan = [t \in Turn |-> [pc |-> "none", kill |-> FALSE]]
    /\ ev = [t \in Turn |-> EventsTask("none")]
    /\ fin = [t \in Turn |-> FinalizeTask("none")]
    /\ wire = <<>> /\ notices = <<>> /\ gauge = 0 /\ gone = FALSE

-----------------------------------------------------------------------------
(* The voice activity detector, per consumer of the fan-out.  A chunk holds *)
(* one decision: Silero confirms speech on a voiced chunk and closes the   *)
(* segment on a quiet one; MockVAD turns the whole stream into one segment. *)

VadNext(c) ==
    IF Vad = "mock" THEN "speaking"
    ELSE IF c = "voice" THEN "speaking" ELSE "silent"

\* The event that chunk c, or None for the end of the stream, makes it yield.
VadEvent(v, c) ==
    IF v = "silent"
    THEN IF c # None /\ VadNext(c) = "speaking" THEN "speech_start" ELSE "no_event"
    ELSE IF c = None \/ VadNext(c) = "silent" THEN "speech_end" ELSE "no_event"

ClosesSegment(v, c) == VadEvent(v, c) = "speech_end"

-----------------------------------------------------------------------------
(* Task.cancel() of the pump and of the finalizer.                         *)

CancelPump(t) ==
    LET inFan    == pump[t].pc = "drainFan" /\ fan[t].pc # "done"
        inEvents == pump[t].pc = "drainEvents" /\ ev[t].pc # "done"
    IN  /\ fan'  = IF inFan THEN [fan EXCEPT ![t].kill = TRUE] ELSE fan
        /\ ev'   = IF inEvents THEN [ev EXCEPT ![t].kill = TRUE] ELSE ev
        /\ pump' = IF inFan \/ inEvents THEN pump ELSE [pump EXCEPT ![t].kill = TRUE]

CancelFinalize(t) ==
    IF fin[t].pc = "awaitPump" /\ pump[t].pc # "done"
    THEN CancelPump(t) /\ UNCHANGED fin
    ELSE /\ fin' = [fin EXCEPT ![t].kill = TRUE]
         /\ UNCHANGED <<pump, fan, ev>>

-----------------------------------------------------------------------------
(* The receive loop and _StreamSession.                                    *)

HasTurn == cur # -1

\* handle_pcm: dropped without an active turn; otherwise mirrored into Path
\* B's accumulator, which overflows once and for all, and queued.
AcceptsAudio(t) == ~ctx[t].cancelled

OverflowSticks_Fault(c) == [c EXCEPT !.accum = 0]

OverflowSticks(c) == [c EXCEPT !.overflow = TRUE, !.accum = 0]

Accumulate(c) ==
    IF c.overflow THEN c
    ELSE IF c.accum + 1 > MaxAudio THEN OverflowSticks(c) ELSE [c EXCEPT !.accum = c.accum + 1]

TakeChunk(c, chunk) ==
    [Accumulate(c) EXCEPT !.queue = Append(c.queue, chunk), !.pcm = c.pcm + 1]

HandlePcm(chunk) ==
    /\ hpc = "receive" /\ HasTurn /\ AcceptsAudio(cur)
    /\ ctx[cur].pcm < MaxPcm
    /\ ctx' = [ctx EXCEPT ![cur] = TakeChunk(ctx[cur], chunk)]
    /\ UNCHANGED <<session, tasks, wire, gauge, gone>>

HandleStop ==
    /\ hpc = "receive" /\ HasTurn /\ AcceptsAudio(cur)
    /\ ctx[cur].stops < MaxStops
    /\ ctx' = [ctx EXCEPT ![cur].queue = Append(@, None), ![cur].stops = @ + 1]
    /\ UNCHANGED <<session, tasks, wire, gauge, gone>>

\* _abandon_active up to the first await that suspends.
MustCancelTurn == HasTurn /\ ~ctx[cur].cancelled

CancelContext_Fault(c) == [c EXCEPT !.cancelled = TRUE]

CancelContext(c) == [c EXCEPT !.cancelled = TRUE, !.queue = Append(c.queue, None)]

AbandonActive(next) ==
    /\ after' = next
    /\ ctx' = IF MustCancelTurn THEN [ctx EXCEPT ![cur] = CancelContext(ctx[cur])] ELSE ctx
    /\ \/ /\ MustCancelTurn /\ pump[cur].pc # "done"
          /\ CancelPump(cur)
          /\ hpc' = "awaitPump" /\ UNCHANGED fin
       \/ /\ ~(MustCancelTurn /\ pump[cur].pc # "done")
          /\ IF HasTurn /\ fin[cur].pc # "done" THEN CancelFinalize(cur) ELSE UNCHANGED tasks
          /\ hpc' = "awaitFinalize"
    /\ UNCHANGED <<sid, cur, gauge>>

\* handle_start: the rejections, in the order of the code.  A rejection that
\* cannot be sent raises out of the receive loop, whose `finally` closes the
\* session as a fatal one does.
RejectFatal(s, t, form) ==
    /\ form = "badStart" \/ (sid # None /\ s # sid)
    /\ IF gone THEN UNCHANGED notices
       ELSE Notice(IF form = "badStart" THEN "BAD_START" ELSE "SESSION_MISMATCH", t)
    /\ AbandonActive(Close)

IsStale(t) == t <= cur

RejectStale(s, t, form) ==
    /\ form # "badStart" /\ (sid = None \/ s = sid) /\ IsStale(t)
    /\ \/ /\ ~gone
          /\ Len(notices) < MaxStale
          /\ Notice("STALE_TURN", t)
          /\ UNCHANGED <<hpc, after, sid, cur, ctx, tasks, gauge>>
       \/ gone /\ AbandonActive(Close) /\ UNCHANGED notices

AcceptStart(s, t, form) ==
    /\ form # "badStart" /\ (sid = None \/ s = sid) /\ ~IsStale(t)
    /\ AbandonActive(Start(s, t, form)) /\ UNCHANGED notices

HandleStart(s, t, form) ==
    /\ hpc = "receive"
    /\ \/ RejectFatal(s, t, form)
       \/ RejectStale(s, t, form)
       \/ AcceptStart(s, t, form)
    /\ UNCHANGED <<wire, gone>>

\* A control frame that is JSON and no object: control.get raises.
ControlRaises == hpc = "receive" /\ AbandonActive(Close) /\ UNCHANGED <<notices, wire, gone>>

Disconnect_Fault ==
    /\ hpc = "receive" /\ MustCancelTurn
    /\ AbandonActive(Close) /\ gone' = TRUE /\ UNCHANGED <<notices, wire>>

Disconnect ==
    /\ hpc = "receive"
    /\ AbandonActive(Close) /\ gone' = TRUE /\ UNCHANGED <<notices, wire>>

\* The peer vanishes; the receive loop has yet to read what it sent.
ClientGone ==
    /\ "client" \in Failing /\ ~gone /\ hpc # "closed"
    /\ gone' = TRUE
    /\ UNCHANGED <<session, ctx, tasks, wire, gauge>>

\* _abandon_active after ctx.task has ended.
PumpAbandoned ==
    /\ hpc = "awaitPump" /\ pump[cur].pc = "done"
    /\ IF fin[cur].pc # "done" THEN CancelFinalize(cur) ELSE UNCHANGED tasks
    /\ hpc' = "awaitFinalize"
    /\ UNCHANGED <<after, sid, cur, notices, ctx, wire, gauge, gone>>

\* The rest of handle_start, or of the handler's `finally`.  The superseded
\* context and the results of its tasks become unreachable; what stays is
\* whether the tasks have ended and that the turn is cancelled.
Supersede(t) ==
    /\ ctx' = [ctx EXCEPT ![t] = Context(ctx[t].cancelled), ![after.turn].valid = after.valid]
    /\ pump' = [pump EXCEPT ![t] = PumpTask(pump[t].pc, "none"), ![after.turn].pc = "created"]
    /\ fin' = [fin EXCEPT ![t] = FinalizeTask(fin[t].pc), ![after.turn].pc = "created"]

BeginTurn ==
    /\ IF HasTurn THEN Supersede(cur)
       ELSE /\ pump' = [pump EXCEPT ![after.turn].pc = "created"]
            /\ fin' = [fin EXCEPT ![after.turn].pc = "created"]
            /\ ctx' = [ctx EXCEPT ![after.turn].valid = after.valid]
    /\ hpc' = "receive" /\ sid' = after.session /\ cur' = after.turn
    /\ wire' = <<>> /\ notices' = <<>>

FinalizeOver_Fault(t) == TRUE

FinalizeOver(t) == fin[t].pc = "done"

TurnAbandoned ==
    /\ hpc = "awaitFinalize" /\ (HasTurn => FinalizeOver(cur))
    /\ \/ after.kind = "start" /\ BeginTurn
       \/ /\ after.kind \in {"close", "raise"}
          /\ hpc' = "closed" /\ UNCHANGED <<sid, cur, notices, ctx, pump, fin, wire>>
    /\ UNCHANGED <<after, fan, ev, gauge, gone>>

-----------------------------------------------------------------------------
(* The pump and the two tasks it starts.                                   *)

\* The pump ends with a result or an exception.
PumpEnds(t, res) ==
    /\ pump' = [pump EXCEPT ![t] = PumpTask("done", res)]
    /\ gauge' = gauge - 1

\* A task cancelled before its first step never enters its body.
PumpNeverRan_Fault(t) == PumpEnds(t, "cancelled")

PumpNeverRan(t) ==
    /\ pump' = [pump EXCEPT ![t] = PumpTask("done", "cancelled")]
    /\ UNCHANGED gauge

PumpStart(t) ==
    /\ pump[t].pc = "created"
    /\ \/ pump[t].kill /\ PumpNeverRan(t) /\ UNCHANGED <<fan, ev>>
       \/ /\ ~pump[t].kill
          /\ pump' = [pump EXCEPT ![t].pc = "segment"]
          /\ fan' = [fan EXCEPT ![t].pc = "run"]
          /\ ev' = [ev EXCEPT ![t].pc = "run"]
          /\ gauge' = gauge + 1
    /\ UNCHANGED <<session, ctx, fin, wire, gone>>

ToEvents_Fault(q, item) == IF item = None THEN q ELSE Append(q, item)

ToEvents(q, item) == Append(q, item)

FanOut(t) ==
    /\ fan[t].pc = "run"
    /\ \/ /\ fan[t].kill
          /\ fan' = [fan EXCEPT ![t].pc = "done"]
          /\ UNCHANGED <<ctx, pump, ev>>
       \/ /\ ~fan[t].kill /\ ctx[t].queue # <<>>
          /\ LET item == Head(ctx[t].queue)
             IN  /\ ctx' = [ctx EXCEPT ![t].queue = Tail(@)]
                 /\ ev' = IF ev[t].pc = "run" THEN [ev EXCEPT ![t].q = ToEvents(@, item)] ELSE ev
                 /\ pump' = IF pump[t].pc = "segment" THEN [pump EXCEPT ![t].q = Append(@, item)]
                            ELSE pump
                 /\ fan' = IF item = None THEN [fan EXCEPT ![t].pc = "done"] ELSE fan
    /\ UNCHANGED <<session, fin, wire, gauge, gone>>

MayForward(t) == ~ctx[t].cancelled

ForwardEvents(t) ==
    /\ ev[t].pc = "run"
    /\ \/ /\ ev[t].kill \/ (ev[t].q # <<>> /\ "vad" \in Failing)
          /\ ev' = [ev EXCEPT ![t] = EventsTask("done")] /\ UNCHANGED wire
       \/ /\ ~ev[t].kill /\ ev[t].q # <<>>
          /\ LET c == Head(ev[t].q)
                 e == VadEvent(ev[t].vad, c)
                 stops == c = None \/ (e # "no_event" /\ (gone \/ ~MayForward(t)))
             IN  /\ ev' = IF stops THEN [ev EXCEPT ![t] = EventsTask("done")]
                          ELSE [ev EXCEPT ![t].q = Tail(@), ![t].vad = VadNext(c)]
                 /\ IF e # "no_event" /\ MayForward(t) /\ ~gone THEN Send(e, t) ELSE UNCHANGED wire
    /\ UNCHANGED <<session, ctx, pump, fan, fin, gauge, gone>>

\* A queue nobody reads any more is left out of the state: segments_q once
\* first_segment has returned, events_q once forward_events has ended.
\*
\* first_segment: ends with a segment, at the end of the stream, on
\* cancellation or with an exception of the detector.
FirstSegment(t) ==
    /\ pump[t].pc = "segment"
    /\ \/ /\ pump[t].kill
          /\ pump' = [pump EXCEPT ![t].pc = "drainFan", ![t].exc = "cancelled", ![t].kill = FALSE,
                                  ![t].q = <<>>]
       \/ /\ ~pump[t].kill /\ pump[t].q # <<>>
          /\ \/ /\ "vad" \in Failing
                /\ pump' = [pump EXCEPT ![t].pc = "drainFan", ![t].exc = "error", ![t].q = <<>>]
             \/ LET c == Head(pump[t].q)
                    closes == ClosesSegment(pump[t].vad, c)
                IN  pump' = [pump EXCEPT
                        ![t].q = IF closes \/ c = None THEN <<>> ELSE Tail(@),
                        ![t].vad = IF closes \/ c = None THEN "silent" ELSE VadNext(c),
                        ![t].seg = closes /\ ~ctx[t].cancelled,
                        ![t].pc = IF closes \/ c = None THEN "drainFan" ELSE @]
    /\ UNCHANGED <<session, ctx, fan, ev, fin, wire, gauge, gone>>

\* The `finally` of _pump_vad_asr_inner; both awaits suppress CancelledError.
DrainFan(t) ==
    /\ pump[t].pc = "drainFan" /\ (fan[t].pc = "done" \/ pump[t].kill)
    /\ pump' = [pump EXCEPT ![t].pc = "drainEvents", ![t].kill = FALSE]
    /\ UNCHANGED <<session, ctx, fan, ev, fin, wire, gauge, gone>>

EventsDrained_Fault(t) == TRUE

EventsDrained(t) == ev[t].pc = "done" \/ pump[t].kill

DrainEvents(t) ==
    /\ pump[t].pc = "drainEvents" /\ EventsDrained(t)
    /\ \/ /\ pump[t].exc # "none"
          /\ PumpEnds(t, pump[t].exc)
       \/ /\ pump[t].exc = "none" /\ (ctx[t].cancelled \/ ~pump[t].seg)
          /\ PumpEnds(t, "empty")
       \/ /\ pump[t].exc = "none" /\ ~ctx[t].cancelled /\ pump[t].seg
          /\ pump' = [pump EXCEPT ![t].pc = "asr", ![t].kill = FALSE]
          /\ UNCHANGED gauge
    /\ UNCHANGED <<session, ctx, fan, ev, fin, wire, gone>>

\* _stream_segment_through_asr: one item of asr.stream, its end, its failure.
\* When the client is gone the send of an item raises, and that of the error
\* after it.  No step is needed for the loop's checks of ctx.cancelled: who
\* cancels a turn that is here cancels the task too, or ImplementsProtocol
\* would not hold.
Transcribe(t) ==
    /\ pump[t].pc = "asr" /\ ~pump[t].kill
    /\ \/ /\ pump[t].partials < MaxPartials /\ ~Sent("final", t) /\ ~gone
          /\ Send("partial", t)
          /\ pump' = [pump EXCEPT ![t].partials = @ + 1] /\ UNCHANGED gauge
       \/ /\ ~Sent("final", t) /\ ~gone
          /\ Send("final", t)
          /\ \E text \in {"empty", "text"} : pump' = [pump EXCEPT ![t].text = text]
          /\ UNCHANGED gauge
       \/ /\ "asr" \in Failing /\ ~Sent("final", t) /\ ~gone
          /\ Send("ASR_FAILED", t)
          /\ pump' = [pump EXCEPT ![t].pc = "asrFailed"] /\ UNCHANGED gauge
       \/ /\ gone /\ ~Sent("final", t)
          /\ PumpEnds(t, "error") /\ UNCHANGED wire
       \/ /\ Sent("final", t)
          /\ PumpEnds(t, pump[t].text) /\ UNCHANGED wire
    /\ UNCHANGED <<session, ctx, fan, ev, fin, gone>>

FailContext(c) == [c EXCEPT !.cancelled = TRUE]

TranscribeFailed(t) ==
    /\ pump[t].pc = "asrFailed" /\ ~pump[t].kill
    /\ ctx' = [ctx EXCEPT ![t] = FailContext(ctx[t])]
    /\ PumpEnds(t, "empty")
    /\ UNCHANGED <<session, fan, ev, fin, wire, gone>>

TranscribeCancelled(t) ==
    /\ pump[t].pc \in {"asr", "asrFailed"} /\ pump[t].kill
    /\ PumpEnds(t, "cancelled")
    /\ UNCHANGED <<session, ctx, fan, ev, fin, wire, gone>>

-----------------------------------------------------------------------------
(* The finalizer.                                                          *)

\* The `finally` of _finalize_turn; "cancelled" is not observed.
FinalizeEnds(t, result) ==
    /\ fin' = [fin EXCEPT ![t].pc = "done", ![t].kill = FALSE]
    /\ ctx' = [ctx EXCEPT ![t].metric = result]
    /\ UNCHANGED wire

\* A reply that cannot be sent leaves `result` as it was, at "error".
Reply_Fault(t, type, outcome) ==
    IF gone THEN FinalizeEnds(t, outcome)
    ELSE /\ Send(type, t) /\ UNCHANGED ctx
         /\ fin' = [fin EXCEPT ![t].pc = "sending", ![t].outcome = outcome]

Reply(t, type, outcome) ==
    IF gone THEN FinalizeEnds(t, "error")
    ELSE /\ Send(type, t) /\ UNCHANGED ctx
         /\ fin' = [fin EXCEPT ![t].pc = "sending", ![t].outcome = outcome]

FinalizeStart(t) ==
    /\ fin[t].pc = "created"
    /\ fin' = [fin EXCEPT ![t].pc = IF fin[t].kill THEN "done" ELSE "awaitPump"]
    /\ UNCHANGED <<session, ctx, pump, fan, ev, wire, gauge, gone>>

AudioForPathB(c) == IF c.overflow THEN None ELSE c.accum

\* RecognitionRequest is built outside the `try` that answers: what it
\* refuses ends the turn without a frame.
FinalizeAwait(t) ==
    /\ fin[t].pc = "awaitPump" /\ (pump[t].pc = "done" \/ fin[t].kill)
    /\ \/ /\ fin[t].kill \/ pump[t].res = "cancelled" \/ (pump[t].res # "error" /\ ctx[t].cancelled)
          /\ FinalizeEnds(t, "cancelled")
       \/ /\ ~fin[t].kill /\ pump[t].res = "error"
          /\ FinalizeEnds(t, "error")
       \/ /\ ~fin[t].kill /\ ~ctx[t].cancelled /\ pump[t].res = "empty"
          /\ Reply(t, "NO_SPEECH", "no_speech")
       \/ /\ ~fin[t].kill /\ ~ctx[t].cancelled /\ pump[t].res = "text" /\ ~ctx[t].valid
          /\ FinalizeEnds(t, "error")
       \/ /\ ~fin[t].kill /\ ~ctx[t].cancelled /\ pump[t].res = "text" /\ ctx[t].valid
          /\ fin' = [fin EXCEPT ![t].pc = "recognize"]
          /\ ctx' = [ctx EXCEPT ![t].audio = AudioForPathB(ctx[t])]
          /\ UNCHANGED wire
    /\ UNCHANGED <<session, pump, fan, ev, gauge, gone>>

Recognize(t) ==
    /\ fin[t].pc = "recognize"
    /\ \/ /\ fin[t].kill \/ "orchestrator" \in Failing
          /\ FinalizeEnds(t, "error")
       \/ /\ ~fin[t].kill
          /\ \/ Reply(t, "result", "ok")
             \/ "scene" \in Failing /\ Reply(t, "UNKNOWN_SCENE", "error")
             \/ "request" \in Failing /\ Reply(t, "INVALID_REQUEST", "error")
    /\ UNCHANGED <<session, pump, fan, ev, gauge, gone>>

SentVerdict(f) == IF f.kill THEN "error" ELSE f.outcome

FinalizeSent(t) ==
    /\ fin[t].pc = "sending"
    /\ FinalizeEnds(t, SentVerdict(fin[t]))
    /\ UNCHANGED <<session, pump, fan, ev, gauge, gone>>

-----------------------------------------------------------------------------
(* Specification.                                                          *)

HandlerResumes == PumpAbandoned \/ TurnAbandoned

PumpStep(t) ==
    \/ PumpStart(t) \/ FirstSegment(t) \/ DrainFan(t) \/ DrainEvents(t)
    \/ Transcribe(t) \/ TranscribeFailed(t) \/ TranscribeCancelled(t)

FinalizeStep(t) == FinalizeStart(t) \/ FinalizeAwait(t) \/ Recognize(t) \/ FinalizeSent(t)

ClientStep ==
    \/ \E c \in Chunk : HandlePcm(c)
    \/ HandleStop
    \/ \E s \in Session, t \in Turn, form \in StartForm : HandleStart(s, t, form)
    \/ ControlRaises \/ Disconnect \/ ClientGone

\* The connection is over: nothing is left to run.
Ended == hpc = "closed" /\ UNCHANGED vars

Next ==
    \/ ClientStep
    \/ HandlerResumes
    \/ \E t \in Turn : PumpStep(t) \/ FanOut(t) \/ ForwardEvents(t) \/ FinalizeStep(t)
    \/ Ended

Spec == Init /\ [][Next]_vars

\* asyncio runs every task that is ready, the backends answer, and receive()
\* reports a client that is gone; nothing obliges a client to send a frame.
FairSpec ==
    /\ Spec
    /\ WF_vars(HandlerResumes) /\ WF_vars(gone /\ Disconnect)
    /\ \A t \in Turn : /\ WF_vars(PumpStep(t)) /\ WF_vars(FanOut(t))
                       /\ WF_vars(ForwardEvents(t)) /\ WF_vars(FinalizeStep(t))

-----------------------------------------------------------------------------
(* Properties.                                                             *)

ReplyType == {"result", "NO_SPEECH", "UNKNOWN_SCENE", "INVALID_REQUEST", "ASR_FAILED"}
TurnFrameType == {"speech_start", "speech_end", "partial", "final"} \cup ReplyType
NoticeType == {"BAD_START", "SESSION_MISMATCH", "STALE_TURN"}
LivePump == {"segment", "drainFan", "drainEvents", "asr", "asrFailed"}
Verdict == {"ok", "no_speech", "error", "cancelled"}

Items == Seq(Chunk \cup {None})
VadState == {"silent", "speaking"}
Ending == {"none", "cancelled", "error"}
Text == {"empty", "text"}
PumpState == LivePump \cup {"none", "created", "done"}
HelperState == {"none", "run", "done"}
FinalizeState == {"none", "created", "awaitPump", "recognize", "sending", "done"}

Contexts == [cancelled : BOOLEAN, metric : Verdict \cup {"none"}, queue : Items, accum : Nat,
             overflow : BOOLEAN, audio : Nat \cup {None}, pcm : Nat, stops : Nat,
             valid : BOOLEAN]
Pumps == [pc : PumpState, res : Ending \cup Text, kill : BOOLEAN, q : Items, vad : VadState,
          seg : BOOLEAN, exc : Ending, partials : Nat, text : Text]
FanOuts == [pc : HelperState, kill : BOOLEAN]
Forwarders == [pc : HelperState, kill : BOOLEAN, q : Items, vad : VadState]
Finalizers == [pc : FinalizeState, kill : BOOLEAN, outcome : Verdict \cup {"none"}]
Starts == [kind : {"start", "raise"}, session : Session, turn : Turn, valid : BOOLEAN]

\* The state of the session object, of every context and of every task keeps
\* its shape.
TypeOK ==
    /\ hpc \in {"receive", "awaitPump", "awaitFinalize", "closed"}
    /\ after \in {Close} \cup Starts
    /\ sid \in Session \cup {None} /\ cur \in Turn \cup {-1}
    /\ ctx \in [Turn -> Contexts] /\ pump \in [Turn -> Pumps] /\ fan \in [Turn -> FanOuts]
    /\ ev \in [Turn -> Forwarders] /\ fin \in [Turn -> Finalizers]
    /\ wire \in Seq([type : TurnFrameType, turn : Turn])
    /\ notices \in Seq([type : NoticeType, turn : Turn])
    /\ gauge \in Nat /\ gone \in BOOLEAN

\* Although three tasks write to the socket and are cancelled at any await,
\* the client sees the protocol of TurnProtocol: frames of the latest turn
\* only and none once it is cancelled (_cancel_turn, the ctx.cancelled checks),
\* speech events before partials before the one final transcript before the
\* one reply (_pump_vad_asr_inner waits for the event forwarder before the
\* ASR, _finalize_turn for the pump, and a failed ASR cancels the reply).
Protocol == INSTANCE TurnProtocol WITH
    current <- cur,
    hushed  <- (HasTurn => ctx[cur].cancelled),
    said    <- wire

ImplementsProtocol == Protocol!Spec

\* When a new turn begins or the connection ends, no task of an earlier turn
\* is left running, and ws_active_turns counts exactly the running pumps.
NoTaskOutlivesTurn ==
    /\ \A t \in Turn : t # cur \/ hpc = "closed" =>
            /\ pump[t].pc \in {"none", "done"} /\ fin[t].pc \in {"none", "done"}
            /\ fan[t].pc \in {"none", "done"} /\ ev[t].pc \in {"none", "done"}
    /\ gauge = Cardinality({t \in Turn : pump[t].pc \in LivePump})

\* Path B is handed all the audio of the turn up to the request or none of it
\* (handle_pcm's overflow rule, read by _finalize_turn after its await).
PathBAllOrNothing ==
    [][\A t \in Turn : ctx'[t].audio \notin {None, ctx[t].audio} =>
            ctx'[t].audio = ctx[t].pcm]_ctx

\* The verdict _finalize_turn records agrees with what the client was sent:
\* "ok" and "no_speech" only after their frame, "cancelled" only without one.
\* An "error" is recorded after a `result` or NO_SPEECH went out only when the
\* turn was abandoned while that send had not returned yet.
MetricMatchesWire ==
    \A t \in Turn :
        LET answered == Sent("result", t) \/ Sent("NO_SPEECH", t)
        IN  /\ ctx[t].metric = "ok" => Sent("result", t)
            /\ ctx[t].metric = "no_speech" => Sent("NO_SPEECH", t)
            /\ ctx[t].metric = "cancelled" => ~answered
            /\ ctx[t].metric = "error" => ~answered \/ ctx[t].cancelled

\* A `start` that supersedes the active turn, and a disconnect, get through:
\* the receive loop leaves _abandon_active.
BargeInCompletes == hpc \in {"awaitPump", "awaitFinalize"} ~> hpc \in {"receive", "closed"}

\* A client that vanishes is noticed and the connection is released, although
\* every send to it raises, wherever its turn was and whatever it sent before.
GoneIsReleased == gone ~> hpc = "closed"

\* A turn the client ends with `stop` is answered, unless it is abandoned,
\* the client is gone, or its `start` asked for what RecognitionRequest refuses.
StopIsAnswered ==
    \A t \in Turn : ctx[t].stops > 0 /\ ctx[t].valid ~>
        gone \/ ctx[t].cancelled \/ \E type \in ReplyType : Sent(type, t)

\* The detector, not the client, ends the utterance: a closed segment leads
\* to its transcript without a `stop`.
VadClosesUtterance ==
    \A t \in Turn : pump[t].seg ~>
        ctx[t].cancelled \/ Sent("final", t) \/ Sent("ASR_FAILED", t)

=============================================================================
