---------------------------- MODULE BridgeServer ----------------------------
(***************************************************************************)
(* BridgeServer._handle: the Python side of one bridge connection.  The    *)
(* handler reads a frame and dispatches it; the ASR task, created by       *)
(* START, drains the audio queue beside it.  While the handler waits for   *)
(* the transcript or for the matcher it reads nothing.                     *)
(*                                                                         *)
(* A definition X_Fault is X with a plausible slip; no definition uses it. *)
(***************************************************************************)
EXTENDS BridgeSocket

CONSTANT MaxAudio   \* max_audio_bytes, in frames

VARIABLES
    handler,   \* where the handler is: "none", "reading", "asr", "match" or "done"
    channel,   \* the _Channel
    synced,    \* the handler's frame boundaries are the plugin's
    asr        \* the ASR task: its state and the audio it has taken

server == <<handler, channel, synced, asr>>

Noise == 0          \* payload bytes that are not one frame's audio
Sentinel == None    \* the None that ends the audio queue

ASSUME ServerAssumption == MaxAudio \in Nat /\ Sentinel # Noise

Channel == [started |-> FALSE, eosSeen |-> FALSE, queue |-> <<>>,
            accum |-> <<>>, overflow |-> FALSE]

ServerInit ==
    /\ handler = "none" /\ channel = Channel /\ synced = TRUE
    /\ asr = [state |-> "none", heard |-> <<>>]

\* asyncio.start_unix_server runs the handler for the accepted connection.
Accept ==
    /\ handler = "none" /\ plugFd # "none" /\ servFd = "open"
    /\ handler' = "reading"
    /\ UNCHANGED <<socket, channel, synced, asr>>

-----------------------------------------------------------------------------
(* Leaving the handler: the finally clause.                                *)

ReleaseAsr_Fault == asr

ReleaseAsr == IF asr.state = "running" THEN [asr EXCEPT !.state = "cancelled"] ELSE asr

\* What is still to be read is lost with the connection.
Leave(frames) ==
    /\ handler' = "done"
    /\ asr' = ReleaseAsr
    /\ servFd' = "closed" /\ up' = <<>>
    /\ down' = IF plugFd = "open" THEN down \o frames ELSE down
    /\ UNCHANGED <<plugFd, channel, synced>>

-----------------------------------------------------------------------------
(* _dispatch: one operator per frame type, given what is left to read.     *)

HandleStart(rest) ==
    /\ channel' = [channel EXCEPT !.started = TRUE]
    /\ asr' = [state |-> "running", heard |-> <<>>]
    /\ up' = rest
    /\ UNCHANGED <<handler, synced, down, plugFd, servFd>>

\* The mirror for the audio path: dropped for good when it would grow too long.
Mirror_Fault(of) ==
    IF Len(channel.accum) + 1 > MaxAudio THEN [channel EXCEPT !.accum = <<>>]
    ELSE [channel EXCEPT !.accum = Append(channel.accum, of)]

Mirror(of) ==
    IF channel.overflow THEN channel
    ELSE IF Len(channel.accum) + 1 > MaxAudio
         THEN [channel EXCEPT !.overflow = TRUE, !.accum = <<>>]
         ELSE [channel EXCEPT !.accum = Append(channel.accum, of)]

HandleAudio(of, rest) ==
    \/ /\ channel.started
       /\ channel' = [Mirror(of) EXCEPT !.queue = Append(channel.queue, of)]
       /\ up' = rest
       /\ UNCHANGED <<handler, synced, asr, down, plugFd, servFd>>
    \/ ~channel.started /\ Leave(<<Error("UNEXPECTED_FRAME")>>)

HandleEos(rest) ==
    \/ /\ channel.started /\ ~channel.eosSeen
       /\ channel' = [channel EXCEPT !.eosSeen = TRUE, !.queue = Append(@, Sentinel)]
       /\ handler' = "asr" /\ up' = rest
       /\ UNCHANGED <<synced, asr, down, plugFd, servFd>>
    \/ (~channel.started \/ channel.eosSeen) /\ Leave(<<Error("UNEXPECTED_FRAME")>>)

-----------------------------------------------------------------------------
(* Reading.                                                                *)

HeadIs(type) == handler = "reading" /\ up # <<>> /\ Head(up) = Header(type)

PayloadFollows == Len(up) > 1 /\ up[2].type = "payload"

ReadStart == synced /\ HeadIs("START") /\ PayloadFollows /\ HandleStart(SubSeq(up, 3, Len(up)))

ReadAudio ==
    /\ synced /\ HeadIs("AUDIO") /\ PayloadFollows
    /\ HandleAudio(up[2].of, SubSeq(up, 3, Len(up)))

ReadEos == synced /\ HeadIs("EOS") /\ HandleEos(Tail(up))

ReadStop == synced /\ HeadIs("STOP") /\ Leave(<<>>)

\* A header whose payload never came: readexactly takes the following frames
\* for the payload, and what it takes for the next header is anything.
LoseSync ==
    /\ synced /\ handler = "reading" /\ Len(up) > 1
    /\ Head(up).type = "AUDIO" /\ up[2].type # "payload"
    /\ synced' = FALSE /\ up' = Tail(up)
    /\ UNCHANGED <<handler, channel, asr, down, plugFd, servFd>>

\* Out of step, some bytes are an unknown frame or a payload, some by chance
\* a known frame, and a bad length raises out of the handler.
ReadGarbled ==
    /\ ~synced /\ handler = "reading" /\ up # <<>>
    /\ \/ up' = Tail(up) /\ UNCHANGED <<server, down, plugFd, servFd>>
       \/ HandleAudio(Noise, Tail(up))
       \/ HandleEos(Tail(up))
       \/ Leave(<<Error("BAD_START")>>)
       \/ Leave(<<>>)

\* The plugin closed its end: the read raises, at the latest when nothing is
\* left to read.
PeerClosed ==
    /\ handler = "reading" /\ plugFd = "closed"
    /\ up = <<>> \/ down # <<>> \/ ~synced \/ (Len(up) = 1 /\ Head(up).type \in {"START", "AUDIO"})
    /\ Leave(<<>>)

-----------------------------------------------------------------------------
(* The rest of _handle_eos, and the ASR task.                              *)

AsrTake ==
    /\ asr.state = "running" /\ channel.queue # <<>>
    /\ asr' = IF Head(channel.queue) = Sentinel THEN [asr EXCEPT !.state = "done"]
              ELSE [asr EXCEPT !.heard = Append(@, Head(channel.queue))]
    /\ channel' = [channel EXCEPT !.queue = Tail(@)]
    /\ UNCHANGED <<socket, handler, synced>>

AsrFails ==
    /\ asr.state = "running" /\ asr' = [asr EXCEPT !.state = "failed"]
    /\ UNCHANGED <<socket, handler, channel, synced>>

Transcribed ==
    /\ handler = "asr" /\ asr.state = "done"
    /\ handler' = "match"
    /\ UNCHANGED <<socket, channel, synced, asr>>

\* The task failed, or ten seconds passed: wait_for cancels it.
NotTranscribed ==
    /\ handler = "asr" /\ asr.state \in {"failed", "running"}
    /\ Leave(<<Error("ASR_FAILED")>>)

\* Whatever the matcher does, an intent or the placeholder is sent.
Matched ==
    /\ handler = "match"
    /\ handler' = "reading"
    /\ down' = IF plugFd = "open" THEN Append(down, Result(asr.heard)) ELSE down
    /\ UNCHANGED <<up, plugFd, servFd, channel, synced, asr>>

ServerNext ==
    \/ Accept \/ ReadStart \/ ReadAudio \/ ReadEos \/ ReadStop
    \/ LoseSync \/ ReadGarbled \/ PeerClosed
    \/ AsrTake \/ AsrFails \/ Transcribed \/ NotTranscribed \/ Matched

\* The event loop runs what is ready, wait_for's clock runs, and the ASR and
\* the matcher return.
ServerFairness ==
    /\ WF_<<socket, server>>(Accept)
    /\ WF_<<socket, server>>(ReadStart \/ ReadAudio \/ ReadEos \/ ReadStop \/ LoseSync
                                \/ ReadGarbled \/ PeerClosed)
    /\ WF_<<socket, server>>(AsrTake)
    /\ WF_<<socket, server>>(Transcribed \/ NotTranscribed)
    /\ WF_<<socket, server>>(Matched)

=============================================================================
