----------------------------- MODULE MrcpServer -----------------------------
(***************************************************************************)
(* The step-0 MRCPv2 server (adapters/mrcp/server.py), one connection      *)
(* after the other: RECOGNIZE on TCP, RTP on a UDP socket that is bound    *)
(* for the turn, the byte Q, START-OF-INPUT and RECOGNITION-COMPLETE.  The *)
(* client is the simulator (client_sim.py), which may also send another    *)
(* method or a damaged datagram, go silent or hang up.                     *)
(*                                                                         *)
(* The event loop is asyncio's: an iteration polls the sockets and the     *)
(* timers, appends what is ready to a FIFO of callbacks and runs those     *)
(* that are then in it.  Client and network act at any moment in between.  *)
(*                                                                         *)
(* A definition X_Fault is X with a plausible slip; no definition uses it. *)
(***************************************************************************)
EXTENDS SerialWindow

CONSTANTS
    Datagrams,     \* what may arrive: [pos, size, version, csrc], sizes in bytes
    Methods,       \* first messages of a client: "RECOGNIZE", another method, "garbled"
    Signals,       \* bytes a client may end its input with; any byte does, with a warning
    SliceSamples,  \* samples in one slice of _run_asr
    EmitMs,        \* partial_emit_ms
    SamplesPerMs,  \* _SAMPLE_RATE / 1000
    MinSamples,    \* fewer samples do not fill one LFR window
    MaxTurns,      \* bound: connections of one behaviour
    MaxDatagrams   \* bound: datagrams sent in one turn

HeaderSize == 12
EOF == "EOF"

ASSUME ServerAssumption ==
    /\ \A n \in {SliceSamples, EmitMs, SamplesPerMs} : n \in Nat \ {0}
    /\ \A n \in {MinSamples, MaxTurns, MaxDatagrams} : n \in Nat
    /\ {EOF, "none"} \cap (Signals \cup Methods) = {}
    /\ \A d \in Datagrams : {d.size, d.version, d.csrc} \subseteq Nat /\ d.pos \in Int

VARIABLES
    turn,      \* the number of connections so far
    client,    \* "away", "calling", "reading" (RECOGNIZE sent) or "ended"
    sent,      \* datagrams the client has sent in this turn
    tcp,       \* bytes of the client the server's kernel holds
    conn,      \* the server's transport: "closed", "open" or "closing"
    inbox,     \* the StreamReader's buffer
    out,       \* the messages the server has written
    handler,   \* handle_connection: where it is
    drain,     \* the drain task, "leaked" when nothing will ever wake it
    sentinel,  \* the sentinel task
    signal,    \* what the sentinel task returned, EOF for IncompleteReadError
    got,       \* the datagram the selector's callback read for the drain
    bound,     \* the RTP socket is open
    queue,     \* the datagrams the kernel holds for it
    reader,    \* the loop's entry for its descriptor: "none", "live", "stale" or "deaf"
    jitter,    \* the turn's JitterBuffer: [buffered, nextSeq]
    pcm,       \* the payloads handed on by it and converted
    ready,     \* callbacks of the loop
    todo,      \* how many of them belong to this iteration
    timedOut,  \* (history) the turn ran into turn_timeout_s
    haunted,   \* (history) the entry of an earlier turn was left at its start
    arrived    \* (history) the datagrams that reached the socket in this turn

clientVars == <<turn, client, sent, haunted>>
tcpVars    == <<tcp, conn, inbox, out>>
taskVars   == <<drain, sentinel, signal, got>>
udpVars    == <<bound, queue, reader>>
audioVars  == <<jitter, pcm>>
loopVars   == <<ready, todo>>
vars == <<clientVars, tcpVars, handler, taskVars, udpVars, audioVars, loopVars, timedOut, arrived>>

-----------------------------------------------------------------------------
(* Datagrams and audio.                                                    *)

\* parse_rtp refuses what is short, of another version or cut in its CSRC
\* list; the payload is what follows.
PayloadStart(d) == HeaderSize + 4 * d.csrc
ParsesAsRtp(d) == d.size >= HeaderSize /\ d.version = 2 /\ PayloadStart(d) <= d.size
Payload(d) == [pos |-> d.pos, bytes |-> d.size - PayloadStart(d)]

\* l16_be_to_pcm16_le raises on an odd payload, else swaps its samples.
IsL16(payload) == payload.bytes % 2 = 0
Samples(payload) == [i \in 1..(payload.bytes \div 2) |-> payload.pos]

\* pcm.extend over the payloads of one push or flush, up to the first that
\* raises, and whether one does.
Convertible(payloads) == Max({n \in 0..Len(payloads) : \A i \in 1..n : IsL16(payloads[i])})
Extended(chunks, payloads) == chunks \o SubSeq(payloads, 1, Convertible(payloads))
ExtendRaises(payloads) == Convertible(payloads) < Len(payloads)

\* The samples of the payloads that were appended to pcm.
Audio(chunks) == FlattenSeq([k \in DOMAIN chunks |-> Samples(chunks[k])])
HasAudio(chunks) == \E k \in DOMAIN chunks : Samples(chunks[k]) # <<>>

\* ParaformerASR.stream over a sequence of chunks.  A text stands for the
\* audio it was decoded from; too little audio decodes to nothing.
Decode(samples) == IF Len(samples) < MinSamples THEN <<>> ELSE samples

StreamChunk(st, chunk) ==
    LET acc == st.acc \o chunk
        ms  == Len(acc) \div SamplesPerMs
    IN  IF chunk = <<>> THEN st
        ELSE IF ms - st.emittedMs < EmitMs THEN [st EXCEPT !.acc = acc]
        ELSE [acc |-> acc, emittedMs |-> ms,
              frames |-> Append(st.frames, [text |-> Decode(acc), final |-> FALSE])]

AsrStream(chunks) ==
    LET fed == FoldLeft(StreamChunk, [acc |-> <<>>, emittedMs |-> 0, frames |-> <<>>], chunks)
    IN  Append(fed.frames, [text |-> Decode(fed.acc), final |-> TRUE])

\* _run_asr: the audio in slices, the last frame marked final.
Slices(samples) ==
    [k \in 1..((Len(samples) + SliceSamples - 1) \div SliceSamples) |->
        SubSeq(samples, (k - 1) * SliceSamples + 1,
               IF k * SliceSamples < Len(samples) THEN k * SliceSamples ELSE Len(samples))]

RunAsr(samples) == Last(SelectSeq(AsrStream(Slices(samples)), LAMBDA f : f.final)).text

-----------------------------------------------------------------------------
(* The client and the network.                                             *)

Msg(name) == [event |-> name, text |-> <<>>]
Completed(text) == [event |-> "RECOGNITION-COMPLETE", text |-> text]
Written(name) == \E i \in DOMAIN out : out[i].event = name

\* A new call, once nothing of the earlier one is under way.
Connect ==
    /\ client = "away" /\ turn < MaxTurns
    /\ handler = "over" /\ ready = <<>>
    /\ turn' = turn + 1 /\ client' = "calling" /\ sent' = 0
    /\ haunted' = (reader = "stale")
    /\ tcp' = <<>> /\ conn' = "closed" /\ inbox' = <<>> /\ out' = <<>>
    /\ drain' = "none" /\ sentinel' = "none" /\ signal' = "none" /\ got' = <<>>
    /\ jitter' = [buffered |-> <<>>, nextSeq |-> -1] /\ pcm' = <<>>
    /\ timedOut' = FALSE /\ arrived' = <<>>
    /\ UNCHANGED <<handler, udpVars, loopVars>>

Request(m) ==
    /\ client = "calling" /\ handler = "request"
    /\ client' = "reading" /\ tcp' = Append(tcp, m)
    /\ UNCHANGED <<turn, sent, haunted, conn, inbox, out, handler, taskVars, udpVars, audioVars,
                   loopVars, timedOut, arrived>>

\* _send_rtp, and what the network makes of it: any datagram, in any order,
\* again or never, once the client has seen IN-PROGRESS.  One that would
\* arrive after the byte that ends the input counts as lost.
SendRtp(d) ==
    /\ client = "reading" /\ Written("IN-PROGRESS") /\ sent < MaxDatagrams
    /\ sent' = sent + 1
    /\ IF bound
       THEN queue' = Append(queue, d) /\ arrived' = Append(arrived, d)
       ELSE UNCHANGED <<queue, arrived>>
    /\ UNCHANGED <<turn, client, haunted, tcpVars, handler, taskVars, bound, reader, audioVars,
                   loopVars, timedOut>>

EndInput(b) ==
    /\ client = "reading" /\ Written("IN-PROGRESS")
    /\ client' = "ended" /\ tcp' = Append(tcp, b)
    /\ UNCHANGED <<turn, sent, haunted, conn, inbox, out, handler, taskVars, udpVars, audioVars,
                   loopVars, timedOut, arrived>>

\* The client hangs up, with its answer or without.
HangUp ==
    /\ client \in {"reading", "ended"} \/ (client = "calling" /\ handler = "request")
    /\ client' = "away" /\ tcp' = Append(tcp, EOF)
    /\ UNCHANGED <<turn, sent, haunted, conn, inbox, out, handler, taskVars, udpVars, audioVars,
                   loopVars, timedOut, arrived>>

-----------------------------------------------------------------------------
(* The event loop.                                                         *)

Collecting == {"collecting", "collected"}

Polled == (IF client = "calling" /\ handler = "over" THEN {"accept"} ELSE {})
     \cup (IF conn = "open" /\ tcp # <<>> THEN {"data"} ELSE {})
     \cup (IF reader = "live" /\ queue # <<>> THEN {"recv"} ELSE {})

Timers_Fault == {<<>>}

\* The one timer is turn_timeout_s, over the collection only.
Timers == IF handler \in Collecting THEN {<<>>, <<"expire">>} ELSE {<<>>}

\* The start of an iteration; handle_connection runs on from the reply to
\* the bind without giving up the loop.
Poll ==
    /\ todo = 0 /\ handler # "binding"
    /\ \E io \in SetToSeqs(Polled), timers \in Timers :
        LET callbacks == ready \o io \o timers
        IN  callbacks # <<>> /\ ready' = callbacks /\ todo' = Len(callbacks)
    /\ UNCHANGED <<clientVars, tcpVars, handler, taskVars, udpVars, audioVars, timedOut, arrived>>

Runs(callback) == todo > 0 /\ Head(ready) = callback

\* A callback returns, having scheduled others.
Returns(scheduled) == ready' = Tail(ready) \o scheduled /\ todo' = todo - 1
KeepsRunning == UNCHANGED loopVars

\* start_server's listener creates the handler, which waits for its request.
Accept ==
    /\ Runs("accept") /\ Returns(<<>>)
    /\ handler' = "request" /\ conn' = "open"
    /\ UNCHANGED <<clientVars, tcp, inbox, out, taskVars, udpVars, audioVars, timedOut, arrived>>

\* The transport feeds the reader and wakes whoever waits on it.
DataReceived ==
    /\ Runs("data")
    /\ Returns(IF handler = "request" THEN <<"handler">>
               ELSE IF sentinel = "parked" THEN <<"sentinel">> ELSE <<>>)
    /\ sentinel' = IF sentinel = "parked" THEN "woken" ELSE sentinel
    /\ inbox' = inbox \o tcp /\ tcp' = <<>>
    /\ UNCHANGED <<clientVars, conn, out, handler, drain, signal, got, udpVars, audioVars,
                   timedOut, arrived>>

\* connection_lost after writer.close().
ConnectionLost ==
    /\ Runs("lost")
    /\ Returns(IF sentinel = "parked" THEN <<"sentinel">> ELSE <<>>)
    /\ sentinel' = IF sentinel = "parked" THEN "woken" ELSE sentinel
    /\ conn' = "closed" /\ inbox' = Append(inbox, EOF)
    /\ UNCHANGED <<clientVars, tcp, out, handler, drain, signal, got, udpVars, audioVars,
                   timedOut, arrived>>

-----------------------------------------------------------------------------
(* handle_connection.                                                      *)

\* It is over; an exception it raises leaves the connection to the library,
\* which closes it or, before Python 3.12, keeps it open.
Closes == handler' = "over" /\ conn' = "closing" /\ Returns(<<"lost">>)
Raises == Closes \/ (handler' = "over" /\ UNCHANGED conn /\ Returns(<<>>))

ReadRequest ==
    /\ Runs("handler") /\ handler = "request"
    /\ CASE Head(inbox) = "RECOGNIZE" ->
              /\ out' = Append(out, Msg("IN-PROGRESS")) /\ handler' = "binding"
              /\ KeepsRunning /\ UNCHANGED conn
         [] Head(inbox) = EOF -> Raises /\ UNCHANGED out
         [] Head(inbox) = "garbled" -> Closes /\ UNCHANGED out
         [] OTHER -> Closes /\ out' = Append(out, Msg("405"))
    /\ inbox' = IF Head(inbox) = EOF THEN inbox ELSE Tail(inbox)
    /\ UNCHANGED <<clientVars, tcp, taskVars, udpVars, audioVars, timedOut, arrived>>

\* _bind_rtp_socket and the start of _collect_rtp_until_sentinel.
BindRtpSocket ==
    /\ Runs("handler") /\ handler = "binding" /\ Returns(<<"drain", "sentinel">>)
    /\ handler' = "collecting" /\ bound' = TRUE /\ queue' = <<>>
    /\ drain' = "running" /\ sentinel' = "woken"
    /\ UNCHANGED <<clientVars, tcpVars, signal, got, reader, audioVars, timedOut, arrived>>

-----------------------------------------------------------------------------
(* drain_rtp.                                                              *)

\* The selector's callback reads one datagram for the parked drain; on a
\* socket that was closed meanwhile it hands it the OSError.
RecvReady ==
    /\ Runs("recv")
    /\ IF drain = "parked" /\ queue # <<>>
       THEN /\ got' = <<Head(queue)>> /\ queue' = Tail(queue)
            /\ drain' = "running" /\ Returns(<<"drain">>)
       ELSE /\ drain' = IF drain = "leaked" THEN "over" ELSE drain
            /\ Returns(<<>>) /\ UNCHANGED <<got, queue>>
    /\ reader' = IF drain \in {"parked", "leaked"} THEN "none" ELSE reader
    /\ UNCHANGED <<clientVars, tcpVars, handler, sentinel, signal, bound, audioVars, timedOut, arrived>>

EndsDrain_Fault(d, raised) == d.size = 0 \/ ~ParsesAsRtp(d) \/ raised

\* An empty datagram returns and an odd payload raises; a malformed one is
\* skipped.
EndsDrain(d, raised) == d.size = 0 \/ raised

\* One round of the loop: the datagram at hand, or one that already waits,
\* is parsed, ordered and appended without giving up the event loop.
DrainDatagram ==
    /\ Runs("drain") /\ drain = "running" /\ bound /\ got \o queue # <<>>
    /\ LET d      == Head(got \o queue)
           pushed == IF ParsesAsRtp(d)
                     THEN PushResult(jitter.buffered, jitter.nextSeq, SequenceOf(d.pos), Payload(d))
                     ELSE [buffered |-> jitter.buffered, nextSeq |-> jitter.nextSeq, out |-> <<>>]
       IN  /\ jitter' = [buffered |-> pushed.buffered, nextSeq |-> pushed.nextSeq]
           /\ pcm' = Extended(pcm, pushed.out)
           /\ IF EndsDrain(d, ExtendRaises(pushed.out))
              THEN drain' = "over" /\ Returns(<<"done">>)
              ELSE KeepsRunning /\ UNCHANGED drain
    /\ got' = <<>> /\ queue' = IF got = <<>> THEN Tail(queue) ELSE queue
    /\ UNCHANGED <<clientVars, tcpVars, handler, sentinel, signal, bound, reader, timedOut, arrived>>

\* Nothing waits: sock_recv registers the descriptor and suspends.  An entry
\* left behind for a closed socket of the same number is only modified, and
\* the kernel never hears of the new socket.
DrainParks ==
    /\ Runs("drain") /\ drain = "running" /\ bound /\ got \o queue = <<>>
    /\ drain' = "parked" /\ Returns(<<>>)
    /\ reader' = IF reader = "stale" THEN "deaf" ELSE "live"
    /\ UNCHANGED <<clientVars, tcpVars, handler, sentinel, signal, got, bound, queue, audioVars,
                   timedOut, arrived>>

\* It was cancelled, or its socket is closed.
DrainStops ==
    /\ Runs("drain") /\ (drain = "cancelled" \/ ~bound)
    /\ drain' = "over" /\ got' = <<>> /\ Returns(<<>>)
    /\ reader' = IF drain = "cancelled" THEN "none" ELSE reader
    /\ UNCHANGED <<clientVars, tcpVars, handler, sentinel, signal, bound, queue, audioVars,
                   timedOut, arrived>>

-----------------------------------------------------------------------------
(* The sentinel task, and what ends _collect_rtp_until_sentinel.           *)

SentinelReads ==
    /\ Runs("sentinel") /\ sentinel = "woken"
    /\ IF inbox = <<>>
       THEN sentinel' = "parked" /\ Returns(<<>>) /\ UNCHANGED <<signal, inbox>>
       ELSE /\ sentinel' = "over" /\ signal' = Head(inbox) /\ Returns(<<"done">>)
            /\ inbox' = IF signal' = EOF THEN inbox ELSE Tail(inbox)
    /\ UNCHANGED <<clientVars, tcp, conn, out, handler, drain, got, udpVars, audioVars, timedOut, arrived>>

SentinelStops ==
    /\ Runs("sentinel") /\ sentinel = "cancelled" /\ Returns(<<>>)
    /\ sentinel' = "over"
    /\ UNCHANGED <<clientVars, tcpVars, handler, drain, signal, got, udpVars, audioVars, timedOut, arrived>>

\* The first of the two tasks to be done wakes asyncio.wait.
FirstCompleted ==
    /\ Runs("done")
    /\ IF handler = "collecting"
       THEN handler' = "collected" /\ Returns(<<"collect">>)
       ELSE Returns(<<>>) /\ UNCHANGED handler
    /\ UNCHANGED <<clientVars, tcpVars, taskVars, udpVars, audioVars, timedOut, arrived>>

\* task.cancel() of the pending tasks: those that wait are woken for it.
CancelPending_Fault ==
    /\ UNCHANGED <<drain, sentinel>>
    /\ Returns(<<"answer">>)

CancelPending ==
    /\ drain' = IF drain = "over" THEN drain ELSE "cancelled"
    /\ sentinel' = IF sentinel = "over" THEN sentinel ELSE "cancelled"
    /\ Returns((IF drain = "parked" THEN <<"drain">> ELSE <<>>)
               \o (IF sentinel = "parked" THEN <<"sentinel">> ELSE <<>>) \o <<"answer">>)

CloseSocket_Fault == UNCHANGED <<bound, queue>>

\* The finally around the collection.
CloseSocket == bound' = FALSE /\ queue' = <<>>

Flushed_Fault == <<>>

\* After a sentinel the window is flushed; if the drain ended first it is not.
Flushed == IF sentinel = "over" THEN FlushResult(jitter.buffered, jitter.nextSeq) ELSE <<>>

\* The end of the collection; IncompleteReadError and an odd payload in the
\* window leave handle_connection, through its finally.
Collect ==
    /\ Runs("collect")
    /\ IF handler = "collected"
       THEN /\ CancelPending /\ CloseSocket
            /\ pcm' = Extended(pcm, Flushed)
            /\ handler' = IF signal = EOF \/ ExtendRaises(Flushed) THEN "raising" ELSE "answering"
       ELSE Returns(<<>>) /\ UNCHANGED <<drain, sentinel, bound, queue, pcm, handler>>
    /\ UNCHANGED <<clientVars, tcpVars, signal, got, reader, jitter, timedOut, arrived>>

\* turn_timeout_s has passed: wait_for cancels the collection, and with it
\* asyncio.wait, which leaves both tasks to themselves.  The parked drain's
\* entry outlives the descriptor.
Expire ==
    /\ Runs("expire")
    /\ IF handler \in Collecting
       THEN /\ handler' = "answering" /\ timedOut' = TRUE /\ pcm' = <<>>
            /\ CloseSocket /\ Returns(<<"answer">>)
            /\ IF drain = "parked"
               THEN drain' = "leaked" /\ reader' = "stale"
               ELSE UNCHANGED <<drain, reader>>
       ELSE Returns(<<>>) /\ UNCHANGED <<handler, timedOut, pcm, bound, queue, drain, reader>>
    /\ UNCHANGED <<clientVars, tcpVars, sentinel, signal, got, jitter, arrived>>

\* The rest of handle_connection: the events, the recognition and the close,
\* or an exception: of the collection, of the ASR after START-OF-INPUT, or of
\* a write when the connection is lost.
Answer ==
    /\ Runs("answer")
    /\ \/ /\ handler = "answering" /\ Closes
          /\ out' = IF HasAudio(pcm)
                    THEN out \o <<Msg("START-OF-INPUT"), Completed(RunAsr(Audio(pcm)))>>
                    ELSE Append(out, Completed(<<>>))
       \/ /\ handler = "answering" /\ HasAudio(pcm) /\ Raises
          /\ out' = Append(out, Msg("START-OF-INPUT"))
       \/ handler = "answering" /\ client = "away" /\ Closes /\ UNCHANGED out
       \/ handler = "raising" /\ Raises /\ UNCHANGED out
    /\ UNCHANGED <<clientVars, tcp, inbox, taskVars, udpVars, audioVars, timedOut, arrived>>

-----------------------------------------------------------------------------
Init ==
    /\ turn = 0 /\ client = "away" /\ sent = 0 /\ haunted = FALSE
    /\ tcp = <<>> /\ conn = "closed" /\ inbox = <<>> /\ out = <<>>
    /\ handler = "over" /\ drain = "none" /\ sentinel = "none" /\ signal = "none" /\ got = <<>>
    /\ bound = FALSE /\ queue = <<>> /\ reader = "none"
    /\ jitter = [buffered |-> <<>>, nextSeq |-> -1] /\ pcm = <<>>
    /\ ready = <<>> /\ todo = 0 /\ timedOut = FALSE /\ arrived = <<>>

Client ==
    \/ Connect
    \/ \E m \in Methods : Request(m)
    \/ \E d \in Datagrams : SendRtp(d)
    \/ \E b \in Signals : EndInput(b)
    \/ HangUp

Server ==
    \/ Poll \/ Accept \/ DataReceived \/ ConnectionLost
    \/ ReadRequest \/ BindRtpSocket \/ RecvReady \/ DrainDatagram \/ DrainParks \/ DrainStops
    \/ SentinelReads \/ SentinelStops \/ FirstCompleted \/ Collect \/ Expire \/ Answer

Next == Client \/ Server

\* The loop keeps running and its timers fire; the client owes nothing.
Spec == Init /\ [][Next]_vars /\ WF_vars(Server)

-----------------------------------------------------------------------------
(* Properties.                                                             *)

\* The variables keep their types, and the RTP socket is open exactly while a
\* turn collects: no path out of the collection forgets to close it.
TypeOK ==
    /\ turn \in 0..MaxTurns /\ sent \in 0..MaxDatagrams
    /\ client \in {"away", "calling", "reading", "ended"}
    /\ conn \in {"closed", "open", "closing"}
    /\ handler \in {"over", "request", "binding", "answering", "raising"} \cup Collecting
    /\ drain \in {"none", "running", "parked", "cancelled", "leaked", "over"}
    /\ sentinel \in {"none", "woken", "parked", "cancelled", "over"}
    /\ reader \in {"none", "live", "stale", "deaf"}
    /\ pcm \in Seq([pos : Int, bytes : Nat]) /\ todo \in 0..Len(ready)
    /\ Range(queue) \cup Range(got) \cup Range(arrived) \subseteq Datagrams
    /\ bound = (handler \in Collecting)

\* What a listener without a jitter buffer would make of the datagrams: the
\* audio of every position from that of the first packet on, in order.
Packets == {arrived[i] : i \in {k \in DOMAIN arrived : ParsesAsRtp(arrived[k])}}
Base == SelectSeq(arrived, ParsesAsRtp)[1].pos
Heard ==
    IF Packets = {} THEN <<>>
    ELSE LET late  == {d \in Packets : d.pos < Base}
             order == SetToSortSeq(Packets \ late, LAMBDA c, d : c.pos < d.pos)
         IN  Audio([k \in DOMAIN order |-> Payload(order[k])])

Damaged(d) == d.size = 0 \/ (ParsesAsRtp(d) /\ ~IsL16(Payload(d)))
SomeDamaged == \E i \in DOMAIN arrived : Damaged(arrived[i])

TranscriptIsOfTurn ==
    signal \in Signals /\ ~timedOut /\ ~SomeDamaged =>
        \A i \in DOMAIN out : out[i].event = "RECOGNITION-COMPLETE" => out[i].text = Decode(Heard)

\* A turn that its client ends is transcribed from every packet that reached
\* the socket before, whole and in order: the drain cannot lose its race with
\* the sentinel, and neither slicing nor partials lose audio.  Turns that
\* start on the entry a timed-out turn left behind are excepted.
HeardWhatArrived == ~haunted => TranscriptIsOfTurn

\* The same for every turn, as the flow of the server's docstring has it:
\* "Client streams RTP", "Server runs the PCM through the injected ASR".
EveryTurnIsHeard == TranscriptIsOfTurn

\* The server does not answer while its client still speaks, unless the turn
\* timed out or a datagram ended the drain; a malformed header does not.
AnswerWaitsForClient ==
    Written("RECOGNITION-COMPLETE") => signal # "none" \/ timedOut \/ SomeDamaged

\* A turn that is over has closed its socket and leaves no task and no entry
\* of the event loop behind; one that timed out leaves at most its drain.
NothingLeftBehind ==
    handler = "over" /\ ready = <<>> =>
        /\ drain \in {"none", "over"} \/ timedOut
        /\ sentinel \in {"none", "over"}
        /\ reader \in {"none", "stale"}
        /\ reader = "stale" => timedOut \/ haunted

\* Once IN-PROGRESS is written the turn comes to an end, whatever the client
\* does or fails to do.
TurnEnds == handler = "binding" ~> handler = "over"
=============================================================================
