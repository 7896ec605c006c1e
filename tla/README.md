# TLA+ models of sandroid

sandroid is the recognition backend of a turn-based IVR: a caller streams the
audio of one utterance, the engine finds its end, transcribes it, matches it
against the intents of the current dialog scene and answers. This directory
holds TLA+ models of the parts of it that keep state, TLC configurations that
check them on small instances, and TLAPS proofs.

- `tlc -config X.cfg M` checks a run (the runs are listed below);
- `tlapm M.tla` checks the proofs of `M`: `SegmenterProofs`, `StreamProofs`,
  `BridgeProofs`, `FusionProofs`, `OrchestratorProofs`, `JitterProofs`,
  `MrcpServerProofs`, `SceneProofs`.

`PROJECT.json` relates every definition to the source lines it models and lists
runs, mutants, hazards, findings and theorems. A definition `X_Fault` is `X`
with a plausible slip; no definition uses it, and putting it in place of `X`
must break the property it is listed with.

Source paths below are relative to `src/src/sandroid/`, unless they start with
`native/`, `docs/` or `tests/` (below `src/`).

## Inventory

| component | state | operations | hard behaviour | what makes it correct |
|---|---|---|---|---|
| WebSocket endpoint, `api/routes.py` 194-663 | `_StreamSession`: session id, current turn, active `_TurnContext` (queue, Path B accumulator, flags), four tasks per turn | PCM, `stop`, `start`, disconnect, a peer that vanishes; pump, fan-out, event forwarder, finalizer | asyncio cancellation across tasks that await each other, barge-in at every await, three writers on one socket | protocol order of frames, one reply, silence of abandoned turns, no orphan task, barge-in and stop get through |
| VAD stream, `vad/silero.py`, `vad/segmenter.py` | residual bytes, state machine SILENT/SPEAKING/TRAILING with counters, pre-roll, buffer, clock | feed a window, flush | thresholds, forced cut, padding of the last window | segments are complete, disjoint, announced; no byte is lost |
| RTP parser and jitter buffer, `adapters/mrcp/rtp.py` | map of sequence number to payload, next number | parse, push, flush | loss, duplication, reordering, 16-bit wrap, full window | in order, nothing accepted is lost |
| UniMRCP plugin, `native/unimrcp-plugin/src/*.c` | channel struct, Unix socket | OPEN, RECOGNIZE, STOP, CLOSE, one call per media frame, bridge client | two threads, non-blocking writes, a ten second wait, a peer that dies | a request ends once, with a result of its own audio; STOP is answered |
| MRCP bridge, `adapters/mrcp/bridge.py` | per connection `_Channel` (queue, accumulator, flags), ASR task | frames START, AUDIO, EOS, STOP | connection drop in any state, ASR failure and timeout | resources released, both recognition paths hear the same |
| Step-0 MRCP server, `adapters/mrcp/server.py`, with its client `adapters/mrcp/client_sim.py` | per connection: RTP socket, jitter buffer, collected PCM, drain and sentinel tasks; per process: the event loop's callbacks and selector entries | request, RTP collection, sentinel, timeout, recognition, answer | race of drain and sentinel, turn timeout, damaged datagrams, hang-up, descriptors that are used again | a turn is made of what arrived for it, waits for its client, ends, and leaves nothing behind |
| Scene tree, `core/scene_loader.py`, `core/domain.py`, `core/scope.py` | immutable tree of categories | load, path_of, resolve_path, scope | recursive visibility across modes and shared ENUMs | the pool is what the mode table says, scope terminates, paths round-trip |
| REST endpoints, `api/routes.py` 60-181, and orchestrator, `core/orchestrator.py`, `core/fusion.py`, `core/matcher.py`, `storage/*.py` | session store, scene registry, request counter | recognize_text, recognize_file, recognize | concurrent calls on copies of one session, failures between creating and storing a session, two scoring paths, follow-up pointers | every request counted, no session lost, answer and pointer belong to the scene, documented score, histories grow |
| ASR, NLU, SLU backends, `models/` | model files; the accumulator of `ParaformerASR.stream` | transcribe, stream, embed, recognize_audio | CPU-bound threads | the final transcript is of all the audio; else outside: may answer anything or fail |
| API key and wiring, metrics, logging, runtime, audio decoding, message codec, deployment | none, or set once at start-up | | | stateless or set-up code |

How they interact: routes and the two MRCP adapters feed audio to VAD and ASR
and call `Orchestrator.recognize` with text, scene and audio; the orchestrator
resolves the scene in the registry, takes a copy of the session from the store,
runs the matcher (Path A) and the SLU (Path B) in threads, fuses and puts the
session back. The C plugin talks to the bridge over one Unix socket per MRCP
channel. Everything in Python runs on one event loop; a scoring thread shares
nothing with it but its result.

## Modules

| module | models | composed of |
|---|---|---|
| `StreamSession` | one WebSocket connection | |
| `TurnProtocol` | abstract specification: what a client is promised of its turns | `StreamSession` implements it |
| `StreamProofs` | the inductive invariant of `StreamSession`, its safety theorems, the refinement of `TurnProtocol` | extends it |
| `Segmenter` | `_drive_stream` and `SegmentAggregator` | |
| `SegmenterProofs` | theorems about `Segmenter` | extends it |
| `SerialWindow` | what one `push` or `flush` computes, with the 16-bit serial arithmetic | |
| `JitterBuffer` | a buffer fed by an unreliable network | extends `SerialWindow` |
| `ReorderWindow` | abstract specification: a window over positions that never wrap | `JitterBuffer` implements it |
| `JitterProofs` | theorems about `JitterBuffer`, the refinement among them | extends it |
| `BridgeSocket` | the Unix socket: a bounded buffer of frame parts, two ends | |
| `BridgeServer` | the bridge's handler and its ASR task | extends `BridgeSocket` |
| `RecogPlugin` | one channel of the C plugin with its two threads, and the bridge client | extends `BridgeSocket` |
| `MrcpBridge` | the whole channel, with a bridge process that may die | `RecogPlugin`, `BridgeServer` |
| `BridgeProofs` | theorems about `MrcpBridge` | extends it |
| `MrcpServer` | the step-0 server, its client, the event loop, and `ParaformerASR.stream` | extends `SerialWindow` |
| `MrcpServerProofs` | theorems about `MrcpServer` | extends it |
| `SceneTree` | loader, paths, scope | |
| `SceneProofs` | theorems about `SceneTree` | extends it |
| `Orchestrator` | the two REST endpoints, recognize, fusion, store, registry | |
| `FusionProofs` | lemmas about the ranking and the fusion | extends it |
| `OrchestratorProofs` | theorems about `Orchestrator` | extends `FusionProofs` |
| `MC...` | values of the constants for TLC | |

### StreamSession

A step runs one task from one await that can suspend to the next, as asyncio
does. `hpc` is the receive loop: handling a frame is one step unless it has to
abandon the active turn, where it awaits the pump and then the finalizer.
`pump`, `fan`, `ev` and `fin` are the tasks `_pump_vad_asr`, `fan_out`,
`forward_events` and `_finalize_turn` of each turn, with their pc, their queue
and a flag for a pending `CancelledError`. `CancelPump` and `CancelFinalize`
follow `Task.cancel()`: a task that awaits another one passes the cancellation
on; any other is resumed with it. The awaits under `suppress(CancelledError)`
(357-373) swallow it. A PCM chunk carries one decision of the detector. A send
writes its frame and may suspend afterwards. Backends in `Failing` may raise.
`gone` says that the peer has vanished: every send then raises, which ends the
forwarder, ends the pump with an exception (the error handler's own send raises
too), makes the finalizer record "error" and throws a rejection out of the
receive loop; frames sent before are still received, until `Disconnect`. A
control frame that is no JSON object, and a `start` whose `n_best` is no number,
raise out of the receive loop, the latter after the old turn was abandoned.
`wire` holds the frames sent for the active turn and `notices` the refusals of
`start` frames sent since it began; `TakeChunk` is `handle_pcm` accepting a chunk.
A `start` has a form (`StartForm`): with an `n_best` outside 1..20, or a `scene_id`
that is no string, it passes `handle_start`, and `RecognitionRequest` refuses it
after the final transcript (457-464), outside the `try` that reports failures: the
turn is counted as "error" and no frame is sent.

`TurnProtocol` is the same connection without tasks, queues or cancellation. The
refinement takes `ctx[cur].cancelled` for "hushed" and the frames of turns on the
wire for what was said.

### Segmenter

`agg` is the aggregator; its methods are operators from its state to its next
state, so `Feed` reads as `feed` does. A frame is the time at which it ends, so
that what a buffer should hold can be stated. The verdict of the ONNX model is
free. `Chunk`, `FeedWindow` and `EndStream` are `_drive_stream`: chunks of any
size, full windows, the padded tail, the flush.

### SerialWindow, JitterBuffer and ReorderWindow

`PushResult` and `FlushResult` are the two methods as functions of the dictionary
and the next number; both `JitterBuffer` and `MrcpServer` use them. A packet's
payload is its position in the stream, its sequence number is that position modulo
2^16. `Push` stores, emits the due run and, past capacity, jumps to the nearest
packet; `Flush` emits the rest. `FlushOrder`, the code's `sorted` by distance, says
of each key how many are nearer, which is its place. `ReorderWindow` says the same of
positions, without numbers that wrap; `ImplementsWindow` is the refinement.

### BridgeSocket, BridgeServer, RecogPlugin, MrcpBridge

Plugin to bridge, the socket holds at most `SocketRoom` frame parts; the header
and the payload of an AUDIO frame are two parts, as `sbr_send_audio` writes them
in two calls. When a payload is missing, `LoseSync` takes the parts that follow
for it and from then on the bridge reads `Noise`. The plugin's engine thread
handles OPEN, RECOGNIZE, STOP and CLOSE; its media thread handles one frame per
step and waits in `waiting` for the answer, until `TakeAnswer` or `GiveUp`.
`sent` (the audio frames written whole), `torn` (how many lost their payload behind
a written header) and `mrcp` are histories. UniMRCP's session layer is the environment: it
sends RECOGNIZE only when none is in progress and no STOP is unanswered.

### MrcpServer

One connection after the other, with the state that survives a connection: the
event loop. `Poll` begins an iteration of asyncio's loop: it takes what the
selector reports, in any order, and the timer, behind the callbacks that are
already scheduled, and the iteration runs exactly those (`ready`, `todo`). Every
other server action is one callback, from its start to where its coroutine
suspends; client and network act between any two of them.

| code | model |
|---|---|
| `_read_request`, the 405 and IN-PROGRESS replies | `ReadRequest` |
| `_bind_rtp_socket`, creation of the two tasks | `BindRtpSocket` |
| `drain_rtp` | `DrainDatagram` while datagrams wait, `DrainParks` when none does, `DrainStops` |
| `loop.sock_recv` | `RecvReady`; `reader` is its selector entry |
| `reader.readexactly(1)` | `SentinelReads`, `DataReceived`, `ConnectionLost` |
| `asyncio.wait`, the cancellations, the flush | `FirstCompleted`, `Collect` |
| `wait_for` with `turn_timeout_s` | `Expire`, possible in any iteration of the collection |
| START-OF-INPUT, `_run_asr`, RECOGNITION-COMPLETE | `Answer`; when the ASR raises, the handler ends behind START-OF-INPUT |
| `recognize_once` of the simulator | `Connect`, `Request`, `SendRtp`, `EndInput`, `HangUp` |

A datagram is its position, its size, its version and its CSRC count: what
`parse_rtp` and the L16 conversion look at. `pcm` is the sequence of payloads that
were handed on and converted, up to the first that cannot be (`Extended`); `Audio`
are its samples. A sample is the position it came
from, and a text is the audio it was decoded from, so that losing, repeating or
reordering audio anywhere between the socket and the final transcript shows.
`ParaformerASR.stream` is a fold over the slices of `_run_asr`. A datagram that the
network delays beyond the end byte counts as lost: which side of the collection's
end it falls on is no promise of the code.

`reader` is "live" while the kernel watches the socket, "stale" when the entry
outlived a descriptor that was closed under a waiting drain, and "deaf" when the
next socket of the same number found such an entry: `add_reader` then calls
`modify`, which compares the event mask, finds nothing changed and never tells
the kernel. The model lets the descriptor number be the same whenever an entry
was left, as it is when nothing else was opened in between.

### SceneTree

`raw` is the parsed file; `Load` accepts or rejects it by every rule of the
loader. `Scope` starts a search, `Collect` takes one call off the stack of
pending calls (`_collect_via_ancestor_view`), `Return` ends it; a stack deeper
than `RecursionLimit` is Python's RecursionError. A category holds at most one
ordinary and one special intent, which is all the search distinguishes.

A name, like the text of a path, is the list of segments `split("->")` makes of it,
since the loader forbids neither an empty name nor one that holds the separator:
`Join` puts names one after another, `Parts` drops the empty segments, and
`resolve_path` compares each part with whole names. `PathsRoundTrip` is therefore an
equivalence: it says for which categories the path leads back. What the search
should find is stated without it: `VisibleFrom(S)` is
the least set of categories that holds `S` and what its members let a search
through to, and `Visible(c)` is what scene `c` may match. `RaisesOnlyOnEnumLoop`
speaks of files with at most half as many categories as the interpreter allows
frames, because a category on the way adds at most two frames
(`_collect_via_ancestor_view`, and `_collect_enum_subtree` for an extended ENUM).

### Orchestrator

A request is screened by its endpoint (`Screened`: no scene, a file that is too
large, no WAV, silent, or fails the ASR; `Refuse`), and `recognize` is two steps:
up to the await of the scoring threads (`Begin`), and from there to the return
(`Complete`, or `Abort` when a thread raises or the call is cancelled: a KeyError
of a backend is answered with 404 and a ValueError with 422, as the endpoints
catch them, anything else with 500 and uncounted). `Answer`
is the reply with its status and the count in `recognize_requests_total`. The
store's lock is never
contended, since no coroutine suspends while it holds it. Confidences are small
naturals and scores are numerators over the sum of the weights, so nothing is
rounded. `Complete` chooses the confidences of Path A (`Scorings`) and the answer of
Path B. `Matcher` is the matcher: the embedder, which is the default, lists every
candidate that has a question, with confidence 0.0 too (`Lists`); the stub lists what
scored. The run uses the embedder, the theorems cover both. Path B is modelled as the
orchestrator has it; `get_orchestrator` (`api/deps.py`) passes no SLU, so that as
wired every call takes the early return of `fuse`.
`SortedBy` is Python's `sorted` with a key that orders totally; a worker without a
call is `Idle`. `UniqueIds` (no id twice in the pool) is where a score per id and a
score per intent are the same thing.

## Runs

| run | checks | shows |
|---|---|---|
| `StreamSilero` | `TypeOK`, `NoTaskOutlivesTurn`, `MetricMatchesWire`, `ImplementsProtocol`, `PathBAllOrNothing` | whatever is interleaved, superseded, fails or vanishes, the client sees the turn protocol, no task is left, and only what was sent is counted as answered |
| `StreamMock` | `BargeInCompletes`, `GoneIsReleased`, `StopIsAnswered` | with the detector that ends its segment with the stream, the receive loop always gets through, a vanished client is released and a stop is answered, unless `RecognitionRequest` refuses what the `start` asked for; deadlock is checked too |
| `StreamBargeInHang` (violation) | `BargeInCompletes` | with Silero the receive loop can wait for ever |
| `StreamVadCloses` (violation) | `VadClosesUtterance` | a closed segment leads to no transcript without a `stop` |
| `Segmenter` | `TypeOK`, `BufferMatchesClock`, `ThresholdsRespected`, `SegmentsAreDisjoint`, `NoByteLost`, `SegmentsHoldSpeech` | the segmenter neither loses, repeats nor mislabels audio |
| `JitterBuffer` | `TypeOK`, `StreamDelivered`, `ImplementsWindow` | the 16-bit window behaves as an ideal one |
| `MrcpBridge` | `TypeOK`, `EndsOnce`, `NoUnexpectedFrame`, `ResultHoldsAllAudio`, `PathsHearTheSame`, `ConnectionReleased`, `StopAnswered` | the channel as a whole keeps its promises across STOP, CLOSE, timeouts, a full socket and a dying bridge |
| `MrcpStaleResult` (violation) | `ResultIsForItsRequest` | a second request can get the first one's result |
| `SceneTree` | `TypeOK`, `PoolIsV3`, `RaisesOnlyOnEnumLoop`, `PathsRoundTrip` | the recursive search computes the visibility of the mode table, and recurses for ever only over an ENUM that lies above a category extending it; a path leads back exactly where every name is one segment |
| `Orchestrator` | `TypeOK`, `NotFoundMeansUnknown`, `Accounted`, `PointerStaysInTree`, `FusionIsWeightedSum`, `RankingIsSound`, `HistoryGrows` | requests, sessions, answers, pointers and histories are sound under concurrent and failing calls |
| `MrcpServer` | `TypeOK`, `HeardWhatArrived`, `AnswerWaitsForClient`, `NothingLeftBehind`, `TurnEnds` | a turn is transcribed from every packet that arrived before its sentinel, ends whatever the client does, and leaves nothing behind but the drain of a timed-out turn |
| `MrcpDeafTurn` (violation) | `EveryTurnIsHeard` | the turn after a timed-out one can hear nothing |

### Bounds

- `StreamSession`: two turns (one supersedes the other; a third repeats the
  situation, since at most one earlier turn is ever being abandoned), up to three
  PCM frames and one stop per turn, Path B room for two chunks, so that the
  overflow happens. The liveness run of the mock detector, whose one segment
  ends with the stream, uses one PCM frame per turn and two sessions, so that a
  mismatch happens; the violation runs need two PCM frames.
- `Segmenter`: 27 bytes in windows of two are up to 14 frames (the last one
  padded); speech is confirmed after two frames, closed after two silent ones and
  cut at five, so two cuts and a resumed segment fit.
- `JitterBuffer`: capacity 2, eight packets, starting at 65534 so that the
  numbers wrap inside the run; offsets around the due packet, a gap, and both
  ends of the half space.
- `MrcpBridge`: two requests on a channel, two audio frames, a socket of three
  parts (it holds a whole frame and the header of the next).
- `SceneTree`: every wiring, mode and extension of three categories, five modes
  in every shape of four, broken files, and trees of four whose names are empty or
  made of segments of other names; `RecursionLimit` 8 is twice four
  categories, so that `RaisesOnlyOnEnumLoop` speaks of every file.
- `Orchestrator`: two workers, three calls, two scenes; the pools contain a
  follow-up, one that leads nowhere, one without a segment, a repeated id and an
  intent without a question; confidences 0 and 1 under weights 2 and 3, so that
  Path B can overturn Path A; files with each defect and with several, so that the
  order of the checks shows.
- `MrcpServer`: two connections (what one leaves behind meets the other), three
  datagrams in a turn out of three good packets around the wrap, one with an odd
  payload, one cut in its CSRC list and an empty one; slices and partials of two
  samples, so that a turn has several of each. The capacity is the code's 8: what
  a window that overflows does is the question of the `JitterBuffer` run.

`CHECK_DEADLOCK FALSE` stands where the system may stop: `StreamSilero` and the
violation runs of `StreamSession` (a hang is a state in which nothing but further
frames of a client that is not obliged to send them could happen),
`SceneTree` (a search that has returned), `Orchestrator` and `MrcpServer` (no
more calls).

### Fairness

`StreamSession`: weak fairness of the resumed receive loop and of each task of
each turn: asyncio runs every ready task, and the backends return; and of the
disconnect that `receive()` reports once the peer is gone. The client is under no
obligation, so no property relies on a further frame. `Failing` of the
`StreamMock` run leaves out `vad` and `orchestrator`: an exception there ends the
turn without a frame, by the code.

`MrcpBridge`: weak fairness of the handler and ASR task (the event loop runs what
is ready, and the waits have timeouts), of the media thread's answer to a STOP
(it is called every 20 ms) and of its bounded wait. Neither the session layer nor
the activity detector is fair.

`MrcpServer`: weak fairness of the server as a whole: the loop runs its callbacks
in order, so it needs no more, and its timer fires. The client owes nothing.

## Findings

1. `StreamBargeInHang`, `api/routes.py:360`. The pump waits for its helpers
   under `suppress(CancelledError)`. A cancellation that arrives while it waits
   for `fan_task` ends that task and is swallowed; the event forwarder then waits
   for a `None` nobody will pass on, the pump waits for the forwarder, and the
   receive loop for the pump. The protocol text promises that a new `start` ends
   the turn.
2. `StreamVadCloses`, `api/routes.py:360`. The transcript of a segment the
   detector closed waits for the end of the stream.
3. `MrcpStaleResult`, `sandroid_recog_engine.c:331`. Per-channel flags are never
   reset and a late RESULT stays in the socket.
4. `MrcpDeafTurn`, `adapters/mrcp/server.py:109`. On a timeout `asyncio.wait` is
   cancelled, and it does not cancel the tasks it waits for; the socket is closed
   under the waiting drain, whose selector entry stays. The next turn's socket has
   the same descriptor number, is never registered with the kernel, and the turn
   ends as "001 no-input-timeout" although its RTP arrived. Running the server and
   the simulator against each other shows the same.

Other deviations met while modelling, which have no run of their own. Where a
property stops at one of them, its comment says so:

- A `start` with an `n_best` of 0 or 21 is accepted; its turn is transcribed,
  `RecognitionRequest` raises ValidationError outside the inner `try`
  (`api/routes.py:457-464`), and the turn ends without a result or an error, against
  `docs/ws-protocol.md:59-60` (failures "are reported"). An exception of `recognize`
  that is neither KeyError nor ValueError has the same effect. `StopIsAnswered`
  excepts the first, its run the second.
- `sbr_send_audio` (`bridge_client.c:267`) writes header and payload with two
  non-blocking calls. When only the payload meets EAGAIN, half a frame is dropped
  and the bridge loses the frame boundaries (`LoseSync`), against
  `bridge_client.h:52-53` ("on EAGAIN the frame is dropped"). The properties of the
  `MrcpBridge` run that need whole frames say so.
- The loader (`core/scene_loader.py:223`) accepts a category that extends the ENUM it
  lies under, and `scope()` of a scene that sees it raises RecursionError.
  `RaisesOnlyOnEnumLoop` says that this is the only way.
- Through such an ENUM (`core/scope.py:119`) a scene's own special intents can come
  back into its pool, against the comment at `core/scope.py:48-49` and
  `tests/core/test_scope_resolver.py:90`. `PoolIsV3` confines it to scenes an ENUM
  makes visible to themselves, and to these intents.
- Without a hypothesis of Path B `fuse` (`core/fusion.py:130`) returns the matcher's
  list as it is, and the default matcher lists candidates of confidence 0.0, against
  `core/fusion.py:28-29` ("zero-scored entries are filtered out"). `RankingIsSound`
  claims it where a hypothesis was fused in, or with the stub.
- Fusion sees Path A through its N-best (`core/orchestrator.py:98-104`): beyond it
  conf_A counts as zero, so a small `n_best` can change the winner, whereas
  `core/fusion.py:11` gives the score without regard to it. `FusionIsWeightedSum`
  speaks of the calls whose N-best holds every hit.
- The step-0 server acknowledges before it binds the RTP port
  (`adapters/mrcp/server.py:91-102`), while the simulator takes the
  acknowledgement for "ready for RTP" (`client_sim.py:68`): packets sent in between
  are lost.
- An odd payload in the flush raises out of `handle_connection` without an answer;
  before Python 3.12 the connection then stays open and the client waits.
- Every RTP socket is bound with SO_REUSEADDR to the one configured port: two
  connections at a time steal each other's audio.
- A `follow_up` without a segment raises ValueError after scoring and is answered
  with 422, as if the request were wrong; the turn is not recorded.
- An exception of `recognize` that is neither KeyError nor ValueError ends a REST
  call without being counted; a KeyError of a backend is answered with 404, as if
  the scene were unknown.
- An ASR that raises in the step-0 server leaves the client with START-OF-INPUT and
  without RECOGNITION-COMPLETE.
- A WebSocket turn that is abandoned while the send of its `result` has not returned
  is counted as "error" (`MetricMatchesWire` delimits it).
- `handle_stop` ignores the `turn_id` of the frame.
- `get_slu` (`api/deps.py`) has no caller, so an unknown SLU backend is silently
  ignored, against its comment that it is "a hard configuration error".
- The stored session pointer is never used for scoring: `resolve` demands a scene
  or a path, and either overrides it (`Overrides`).
- The rest of a segment after a forced cut may hold no speech
  (`SegmentsHoldSpeech` excepts it).
- PCM after `stop` or `final` still goes to the queue, where nothing reads it, and
  to the Path B accumulator, from which the request may still take it, against
  `docs/ws-protocol.md:174` ("dropped"). `PathBAllOrNothing` therefore speaks of
  the audio received up to the request.
- WebSocket and MRCP calls pass a session id the store never issued, so each turn
  creates a session, and nothing deletes one.
- Two calls on one session at a time: the later `put` wins (`HistoryGrows` holds
  of the sessions that were never shared).
- Intent ids are not checked for uniqueness (the last one wins in
  `_resolve_top`). Nor are names checked: the path of a category whose name, or an
  ancestor's, is empty or holds "->" leads to its parent, to another category or
  nowhere (`PathsRoundTrip`).
- An MRCP STOP sends no STOP frame, and a timeout completes with SUCCESS and the
  canned result, against `docs/mrcp-bridge-protocol.md:92-94` and `104-107`.
- `use_canned` in the plugin is written and never read.

## Proofs

`SegmenterProofs` proves, for every frame length, every threshold, every window
size, every set of chunk sizes and every stream (assumption
`SegmenterAssumption`: naturals, positive where the code divides by them or
advances by them):

- `AlwaysGood`: the inductive invariant `IInv`;
- `AlwaysTyped`, `BufferAlwaysMatchesClock`, `ThresholdsAlwaysRespected`,
  `SegmentsAlwaysDisjoint`, `NoByteEverLost`, `SegmentsAlwaysHoldSpeech`: the
  invariants of the `Segmenter` run of the corresponding names.

None of the invariants is inductive alone. That a closed segment holds its audio
needs that the open buffer does, that needs the pre-roll to be the last run of
frames at the moment speech is confirmed, and that needs `speechCount` to be its
length; that segments do not overlap needs the earlier ones to end before the
pre-roll begins. `IInv` collects this as `SilentAt` (no segment open), `OpenAt`
(one open) and `PutOut` (the segments so far), relative to a time `t`, because
`feed` advances the clock before a handler runs: between the two, the state is
sound for the old time. The proof has one lemma per method (`SilentIsSound`,
`SpeakingIsSound`, `TrailingIsSound`, `CutIsGood`, `CloseIsGood`, `FlushIsGood`),
joined by `FeedIsGood` and `NextIsGood`. `NoByteLost` is proved on top of it; its
products are kept apart so that each leaf is linear. `SegmentsHoldSpeech` needs a
further invariant, `Told`: the open segment holds a frame of speech, or begins where
the last one ended, or else (`Short`) a forced cut put nothing out because the
longest segment is shorter than the shortest allowed one, and then no later segment
is put out either. A segment that is put out is long enough, so one of the first two
is the case.

`StreamProofs`, for any number of turns, sessions, chunks, stops and partials, either detector and every set of failing parties
(`StreamAssumption`):

- `Invariance`, and from it `TypeCorrect` (`TypeOK`), `TasksEnd`
  (`NoTaskOutlivesTurn`), `VerdictsAreTrue` (`MetricMatchesWire`);
- `PathBSound` (`PathBAllOrNothing`) and `Implements` (`ImplementsProtocol`): every
  step of the five kinds of task is a step of `TurnProtocol` or a stutter.

The heart of the invariant is that only the turn `cur` has anything running
(`Sequential`), which holds because the receive loop moves on only past the awaits
in `abandon` (`HandlerKnows`). That the pump is the last of its helpers to end
(`PumpIsLast`) needs the swallowed cancellations to be tracked: a `kill` that is
still pending at one of its awaits means that the task awaited has ended. That
nothing is said of an abandoned turn needs a cancelled task that is about to speak
to have its cancellation pending (`CancelReaches`); that a metric is true needs
what can have been said at each point of pump and finalizer (`SaidSoFar`,
`Recorded`), which includes that an "error" after a reply is recorded only of an
abandoned turn.

`BridgeProofs`, for any number of requests and audio frames, every socket of at
least two parts and every audio limit (`SocketAssumption`, `ServerAssumption`):
`TypeCorrect`, `RequestsEndOnce` (`EndsOnce`), `ProtocolKept`
(`NoUnexpectedFrame`), `AudioIsWhole` (`ResultHoldsAllAudio`), `MirrorIsAudio`
(`PathsHearTheSame`). The properties speak of the two ends of the channel, so the
invariant has to say what is in between: `Connection` relates what the two
processes believe of the socket; `Framing` the order of the frames in it, as long
as the bridge reads in step; `Delivered`, while no frame was torn, gives the
content of the socket exactly (perhaps START, the audio not yet dispatched, perhaps
EOS, perhaps STOP), so that what was heard, what is queued and what is in flight
add up to what was sent; `Mirrored` relates the matcher's copy to the ASR task's
queue. A step of either thread is first reduced to its effect on these (`Talk`,
`Effect`, `BridgeEffect`), and each part is preserved by each effect.

`FusionProofs` and `OrchestratorProofs`, for any number of workers, calls, scenes,
categories, intents, confidences and weights (`OrchestratorAssumption`: a scene's
root is in its tree, weights are naturals that are not both zero, `n_best` is
positive, as the loader and the request model check): `TypeCorrect`,
`AlwaysAccounted` (`Accounted`), `NotFoundIsTrue` (`NotFoundMeansUnknown`),
`StaysInTree` (`PointerStaysInTree`), `RankingSound` (`RankingIsSound`),
`FusionExact` (`FusionIsWeightedSum`) and the action property `NothingForgotten`
(`HistoryGrows`). `HistoryGrows` needs that a copy of an unshared session is up to
date (`Current`), which needs that two calls on one session are noticed by the
history variable (`Private`); `Accounted` needs the count as an equation
(`Counted`) and, of the sessions nobody knows, that each belongs to a call that is
still served or failed (`Told`). The facts about scores rest on
`FusionProofs`: a finite set with a strict total order has a sorted enumeration,
because the number of smaller elements is a bijection to its places
(`SortedExists`), so `CHOOSE` finds the one `sorted` computes; and from it
`RankedFacts`, `FuseIsSound` and `FuseIsExact`. `RankingSound` holds of both matchers:
scores lie between 0 and 1, and none is 0 where a hypothesis was fused in or with
the stub. `NotFoundIsTrue` leaves a 404 two causes, an unknown scene or path and a
KeyError that a backend raised itself; that `scope` and the lookups of fused ids
raise none is what is proved.

`JitterProofs`, for every capacity, first sequence number, number of packets and
arrival order in which a packet is less than half the number space behind and at
most half ahead of the one that is due (`WindowAssumption`, `JitterAssumption`;
outside it 16-bit numbers cannot tell late from early): `TypeCorrect`,
`AlwaysDelivered` (`StreamDelivered`) and `Implements` (`ImplementsWindow`). The
invariant `Windowed` says that the dictionary is the set of accepted positions not
yet handed on, each under its number, none before the due one and none more than
half the space after it. Within such a window numbers and positions correspond one
to one (`SequenceInjective`) and serial order is the order of positions
(`SeqLessIs`, `DistanceIs`); so the popping loop takes the run of positions
(`RunIs`), the nearest number is that of the least position (`NearestIs`), and the
flush lists the positions by rank (`RankIs`, `FlushIs`), which is what
`ReorderWindow` does. That the loop's length exists is a least-element argument,
and that it does not exceed the buffer is an injection.

`MrcpServerProofs`, for any number of connections and of datagrams, datagrams of
any size and position, any methods and end-of-input bytes, any capacity
(`WindowAssumption`, `ServerAssumption`): `TypeCorrect` (`TypeOK`, with it that the
RTP socket is open exactly during a collection), `AnswerAlwaysWaits`
(`AnswerWaitsForClient`), `NothingIsLeftBehind` (`NothingLeftBehind`) and
`DrainNeverLosesRace` (`NothingUnread`: when the collection cancels its tasks, nothing
that reached the socket before the client sent its end byte is unread, unless the turn is haunted or a datagram was
damaged; this is the part of `HeardWhatArrived` that is about the event loop). That a turn
leaves nothing behind is a fact about the event loop's queue, so the invariant is
mostly about it: a task that can run has its callback in the queue, and a sentinel
that is parked after the collection will be woken by `connection_lost`
(`Scheduled`); which tasks exist at each point of `handle_connection` (`Tasks`, with
it that an answer is made of audio only once the sentinel is done with, so that an
ASR that raises leaves none behind);
nothing runs while a client is being accepted (`Calling`); to which drain the
selector entry belongs (`Entries`); the selector reports bytes once in an iteration
and only when there are some (`Reads`). An answer has its reason from the moment its
cause is queued (`Reasons`). A drain dies early only of a payload it cannot convert,
so the payloads in the window must be those of datagrams that arrived (`Arrivals`,
`Window`); and the popping loop has a length only while the buffered numbers lie
within half the space of the next one, which `push` keeps whatever number arrives
(`Keyed`).

That the drain wins its race needs a second invariant, `JInv`, about the order of the
queue. A client that may still send datagrams has written only its request
(`Wordless`), so nothing arrives once a byte has come; the loop reports a socket and a
byte that are ready together in one iteration, after all that was queued before
(`Ranked`); so the sentinel that the byte wakes runs an iteration later than the
callback that reads for the drain (`Later`, in `Race`), and the "done" it queues comes
behind the drain (`Ordered`). The drain does not suspend before it has read all there
is.

`SceneProofs`, for every scene file, however many categories it has, and every
recursion limit (`SceneAssumption`: every entry has an id and one of the six modes,
as the file's schema demands): `TypeCorrect` (`TypeOK`), `PoolAlwaysV3`
(`PoolIsV3`), `RaisesOnlyOnLoop` (`RaisesOnlyOnEnumLoop`) and `PathsAlwaysRoundTrip`
(`PathsRoundTrip`). Reachability as a least closed set replaces an induction over the
tree. `Walked` says that what the search has collected, together with the calls it
has still to make, is closed; so when none is left it holds all that is visible; and
every call is on something visible (`Placed`), so it holds no more. `Chained` says
that each pending call is at the end of a chain of visible categories, one for every
two frames. A search that exceeds the limit therefore has a chain longer than the
number of categories, in which one repeats (`LongChainRepeats`); a category that is
not an ENUM is fed only to its parent, and parents alone make no cycle (`NoCycle`,
from the check that every category is reachable from the root), so the loop passes an
ENUM (`LoopHasEnum`). Where every name is one segment, a path resolves because every
category has a climb to the root (`ClimbExists`, again from reachability) and because
siblings have different names (`SiblingsDiffer`); conversely, `resolve_path` compares
whole names with single parts, so a category it reaches has only such names on its
way (`TrailIsClimb`).

Only model-checked:

- all liveness (`BargeInCompletes`, `GoneIsReleased`, `StopIsAnswered`,
  `ConnectionReleased`, `StopAnswered`, `TurnEnds`): fairness and ENABLED are out of
  the prover's reach;
- of `HeardWhatArrived` what goes beyond `NothingUnread`: it compares folds over the
  datagrams that arrived with the audio handed on, an induction over data the prover
  lacks. It is also a fact of the run's bounds and not of every constant: a window that
  overflows skips the packet it waits for, and refuses it when it comes.

## Not modelled

- CBOR framing, NLSML and MRCP text, audio decoding: stateless conversions on
  which no property here depends.
- Neural inference: an arbitrary answer, or a failure where the code handles one.
  A matcher's score (n-gram overlap, cosine) is an arbitrary confidence.
- Scenes with on_complete actions: loaded, never run by the code.
- Start-up code (`api/deps.py`, `api/app.py`), the API key check, health endpoints,
  latency metrics, logs, deployment scripts: straight-line or stateless.
- Two connections of the step-0 server at a time.
- The byte counts of TCP: a request arrives whole, or the client hangs up.
- Several channels on one media thread: one channel's wait delays the others.

## Plan

Done, in this order: `StreamSession`; `Segmenter` and its proofs; `JitterBuffer`
over `ReorderWindow`; the MRCP channel; `SceneTree`; `Orchestrator`; the step-0
server; the REST endpoints; failing sends and `TurnProtocol`.

Then the theorems: `StreamSession` and its refinement, the MRCP channel, the
orchestrator with its fusion, the jitter buffer and its refinement, the step-0
server, the scene tree.

Left: what is only model-checked, above.
