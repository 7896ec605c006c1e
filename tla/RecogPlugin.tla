---------------------------- MODULE RecogPlugin -----------------------------
(***************************************************************************)
(* One channel of the UniMRCP recognizer plugin and its bridge client.     *)
(* Two threads run it: the engine's task handles OPEN, the MRCP requests   *)
(* and CLOSE; the media thread calls stream_write with every audio frame   *)
(* and, when the utterance has ended, waits there for the bridge's answer. *)
(*                                                                         *)
(* UniMRCP's session layer is the environment: it sends a RECOGNIZE when   *)
(* none is in progress and no STOP is unanswered, one STOP at a time, and  *)
(* closes the channel whenever the call ends.  The field use_canned is     *)
(* written and never read, and is left out.                                *)
(*                                                                         *)
(* A definition X_Fault is X with a plausible slip; no definition uses it. *)
(***************************************************************************)
EXTENDS BridgeSocket

CONSTANT MaxFrames   \* bound: audio frames the media thread forwards, whole or torn

VARIABLES
    line,      \* the MRCP channel: "new", "open" or "closed"
    plug,      \* the sandroid_recog_channel_t
    sent,      \* history: the audio frames given to the socket whole, in order
    torn,      \* history: how many frames lost their payload behind a written header
    mrcp       \* history: the MRCP messages sent to the session layer

given == <<sent, torn>>
plugin == <<line, plug, given, mrcp>>

\* active is the state of the activity detector; waiting is true of the media
\* thread inside sbr_wait_result.
Plug == [bridge |-> FALSE, started |-> FALSE, eosSent |-> FALSE, recog |-> None, stop |-> FALSE,
         timers |-> FALSE, active |-> FALSE, waiting |-> FALSE]

PluginInit == line = "new" /\ plug = Plug /\ sent = <<>> /\ torn = 0 /\ mrcp = <<>>

Message(name, of, body) == [name |-> name, of |-> of, body |-> body]
NoBody == [from |-> "nothing"]
Canned == [from |-> "result.xml"]
FromBridge(heard) == [from |-> "bridge", heard |-> heard]

\* The requests that have been answered IN-PROGRESS.
Asked == {m.of : m \in {mrcp[i] : i \in {j \in 1..Len(mrcp) : mrcp[j].name = "IN-PROGRESS"}}}

-----------------------------------------------------------------------------
(* The bridge client: what each call does to the socket and the connection. *)

\* sbr_close and bridge = NULL.
Drop(p) == [p EXCEPT !.bridge = FALSE]

WriteFails == UNCHANGED <<up, down, servFd>> /\ plugFd' = "closed"

\* write_all_timeout: all of it, or the time runs out, or the peer is gone.
WriteAll(parts) ==
    /\ Writable /\ Room >= Len(parts)
    /\ up' = up \o parts
    /\ UNCHANGED <<down, plugFd, servFd>>

CannotWriteAll(parts) == ~(Writable /\ Room >= Len(parts))

\* write_nonblock_or_drop of the header and then of the payload.  A part that
\* is cut in the middle breaks the framing as a missing one does.
AudioParts(of) == <<Header("AUDIO"), Payload(of)>>

Fits_Fault(of) == AudioParts(of)

Fits(of) == SubSeq(AudioParts(of), 1, IF Room < 2 THEN Room ELSE 2)

-----------------------------------------------------------------------------
(* The engine task.                                                        *)

OpenChannel ==
    /\ line = "new" /\ line' = "open"
    /\ \/ /\ plugFd' = "open" /\ servFd' = "open"
          /\ plug' = [plug EXCEPT !.bridge = TRUE]
       \/ UNCHANGED <<plug, plugFd, servFd>>
    /\ UNCHANGED <<up, down, given, mrcp>>

InProgress(r) == mrcp' = Append(mrcp, Message("IN-PROGRESS", r, NoBody))

NeedsStart_Fault == plug.bridge

NeedsStart == plug.bridge /\ ~plug.started

\* RECOGNIZE: START once per connection; the response; then the request is on.
Recognize(r, timers) ==
    LET p == [plug EXCEPT !.timers = timers, !.recog = r]
        start == <<Header("START"), Payload(r)>>
    IN  /\ line = "open" /\ plug.recog = None /\ ~plug.stop
        /\ r \notin Asked /\ \A q \in Request : q < r => q \in Asked
        /\ InProgress(r)
        /\ \/ ~NeedsStart /\ plug' = p /\ UNCHANGED socket
           \/ /\ NeedsStart /\ WriteAll(start)
              /\ plug' = [p EXCEPT !.started = TRUE, !.eosSent = FALSE]
           \/ NeedsStart /\ CannotWriteAll(start) /\ plug' = Drop(p) /\ WriteFails
        /\ UNCHANGED <<line, given>>

StopRequest ==
    /\ line = "open" /\ plug.recog # None /\ ~plug.stop
    /\ plug' = [plug EXCEPT !.stop = TRUE]
    /\ UNCHANGED <<socket, line, given, mrcp>>

StartInputTimers ==
    /\ line = "open" /\ plug.recog # None /\ ~plug.timers
    /\ plug' = [plug EXCEPT !.timers = TRUE]
    /\ UNCHANGED <<socket, line, given, mrcp>>

\* CLOSE: a STOP frame if it can be written, and the socket is closed, also
\* under a media thread that is waiting on it.
CloseChannel ==
    /\ line = "open" /\ line' = "closed"
    /\ plug' = Drop(plug)
    /\ IF plug.bridge
       THEN /\ up' = IF Writable /\ Room > 0 THEN Append(up, Header("STOP")) ELSE up
            /\ plugFd' = "closed"
       ELSE UNCHANGED <<up, plugFd>>
    /\ UNCHANGED <<down, servFd, given, mrcp>>

-----------------------------------------------------------------------------
(* The media thread: stream_write.                                         *)

AnswerStop_Fault ==
    /\ plug.stop /\ ~plug.waiting
    /\ plug' = [plug EXCEPT !.stop = FALSE]
    /\ mrcp' = Append(mrcp, Message("STOPPED", plug.recog, NoBody))
    /\ UNCHANGED <<socket, line, given>>

AnswerStop ==
    /\ plug.stop /\ ~plug.waiting
    /\ plug' = [plug EXCEPT !.stop = FALSE, !.recog = None]
    /\ mrcp' = Append(mrcp, Message("STOPPED", plug.recog, NoBody))
    /\ UNCHANGED <<socket, line, given>>

Writing == plug.recog # None /\ ~plug.stop /\ ~plug.waiting

\* Forward the frame of request r: whole, its header only, or not at all.
Forwards(p) == p.bridge /\ p.started /\ ~p.eosSent

Forward(r, p) ==
    \/ ~Forwards(p) /\ plug' = p /\ UNCHANGED <<socket, given>>
    \/ /\ Forwards(p) /\ Writable /\ Len(sent) + torn < MaxFrames
       /\ up' = up \o Fits(r)
       /\ sent' = IF Len(Fits(r)) = 2 THEN Append(sent, r) ELSE sent
       /\ torn' = IF Len(Fits(r)) = 1 THEN torn + 1 ELSE torn
       /\ plug' = p
       /\ UNCHANGED <<down, plugFd, servFd>>
    \/ Forwards(p) /\ ~Writable /\ plug' = Drop(p) /\ WriteFails /\ UNCHANGED given

PlainFrame == Writing /\ Forward(plug.recog, plug) /\ UNCHANGED <<line, mrcp>>

Activity ==
    /\ Writing /\ ~plug.active
    /\ mrcp' = Append(mrcp, Message("START-OF-INPUT", plug.recog, NoBody))
    /\ Forward(plug.recog, [plug EXCEPT !.active = TRUE])
    /\ UNCHANGED line

\* RECOGNITION-COMPLETE with cause NO-INPUT; the frame is still forwarded.
NoInput ==
    /\ Writing /\ ~plug.active
    /\ IF plug.timers
       THEN /\ mrcp' = Append(mrcp, Message("NO-INPUT", plug.recog, NoBody))
            /\ Forward(plug.recog, [plug EXCEPT !.recog = None])
       ELSE Forward(plug.recog, plug) /\ UNCHANGED mrcp
    /\ UNCHANGED line

Complete(p, body) ==
    /\ mrcp' = Append(mrcp, Message("SUCCESS", p.recog, body))
    /\ plug' = [p EXCEPT !.recog = None, !.waiting = FALSE]

NeedsEos_Fault(p) == p.bridge /\ p.started

NeedsEos(p) == p.bridge /\ p.started /\ ~p.eosSent

\* The utterance ended: EOS once per START, then the result.  The media
\* thread waits for the bridge if an EOS was ever sent, else the canned
\* result completes the request.
Conclude(p) ==
    \/ p.bridge /\ p.eosSent /\ plug' = [p EXCEPT !.waiting = TRUE] /\ UNCHANGED mrcp
    \/ ~(p.bridge /\ p.eosSent) /\ Complete(p, Canned)

Inactivity ==
    LET p == [plug EXCEPT !.active = FALSE]
        eos == <<Header("EOS")>>
    IN  /\ Writing /\ plug.active
        /\ \/ ~NeedsEos(p) /\ Conclude(p) /\ UNCHANGED socket
           \/ NeedsEos(p) /\ WriteAll(eos) /\ Conclude([p EXCEPT !.eosSent = TRUE])
           \/ NeedsEos(p) /\ CannotWriteAll(eos) /\ Conclude(Drop(p)) /\ WriteFails
        /\ UNCHANGED <<line, given>>

\* sbr_wait_result: a RESULT is the body; an ERROR, the end of the stream or
\* ten seconds without a frame leave the canned result.
Answered == down # <<>> /\ plugFd = "open"

TakeAnswer ==
    /\ plug.waiting /\ Answered
    /\ down' = Tail(down)
    /\ Complete(plug, IF Head(down).type = "RESULT" THEN FromBridge(Head(down).heard) ELSE Canned)
    /\ UNCHANGED <<up, plugFd, servFd, line, given>>

GiveUp_Fault ==
    /\ plug.waiting /\ ~Answered /\ servFd # "open"
    /\ Complete(plug, Canned)
    /\ UNCHANGED <<socket, line, given>>

GiveUp ==
    /\ plug.waiting /\ ~Answered
    /\ Complete(plug, Canned)
    /\ UNCHANGED <<socket, line, given>>

PluginNext ==
    \/ OpenChannel \/ StopRequest \/ StartInputTimers \/ CloseChannel
    \/ \E r \in Request, timers \in BOOLEAN : Recognize(r, timers)
    \/ AnswerStop \/ PlainFrame \/ Activity \/ NoInput \/ Inactivity \/ TakeAnswer \/ GiveUp

\* The media thread runs every 20 ms; the poll of the wait is bounded.
PluginFairness ==
    /\ WF_<<socket, plugin>>(AnswerStop)
    /\ WF_<<socket, plugin>>(TakeAnswer \/ GiveUp)

=============================================================================
