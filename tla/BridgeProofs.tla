---------------------------- MODULE BridgeProofs ----------------------------
(***************************************************************************)
(* Proofs about one MRCP channel, the plugin's two threads, the socket and *)
(* the bridge's handler, for every number of requests, every size of the   *)
(* socket's buffer and every audio limit: the safety properties of         *)
(* MrcpBridge, from one inductive invariant.                               *)
(***************************************************************************)
EXTENDS MrcpBridge, SequenceTheorems, TLAPS

\* The request in progress was answered, and has not ended.
Requests ==
    /\ EndsOnce
    /\ \A j \in 1..Len(mrcp) : mrcp[j].of # None => mrcp[j].of \in Asked
    /\ plug.recog # None =>
          /\ plug.recog \in Asked
          /\ \A j \in 1..Len(mrcp) : mrcp[j].of = plug.recog => mrcp[j].name \notin Ends

\* The connection as both ends see it.
Connection ==
    /\ plug.bridge => plugFd = "open"
    /\ handler \in {"reading", "asr", "match"} => servFd = "open"
    /\ handler = "done" => servFd # "open"
    /\ servFd # "open" => up = <<>>
    /\ plug.eosSent => plug.started
    /\ ~plug.started => /\ ~channel.started /\ synced /\ sent = <<>>
                        /\ \A i \in 1..Len(up) : up[i].type = "STOP"
                        /\ plugFd = "open" => up = <<>>
    /\ line = "new" => ~plug.started /\ handler = "none" /\ servFd # "open"
    /\ ~channel.started => channel = Channel /\ asr = [state |-> "none", heard |-> <<>>]

\* The order of the frames on their way up, as long as they are read in step.
Framing ==
    /\ plug.started /\ ~channel.started /\ servFd = "open" => up # <<>> /\ up[1].type = "START"
    /\ \A i \in 1..Len(up) : up[i].type = "START" => i = 1 /\ ~channel.started
    /\ \A i \in 1..Len(up) : up[i].type = "EOS" =>
          plug.eosSent /\ ~channel.eosSeen /\ \A j \in 1..Len(up) : up[j].type = "EOS" => j = i
    /\ channel.eosSeen => plug.eosSent
    /\ \A i \in 1..Len(down) : down[i] # Error("UNEXPECTED_FRAME")

\* The audio that the ASR task has taken or will take is what the matcher's
\* mirror holds.
Mirrored ==
    /\ handler \in {"none", "reading"} /\ ~channel.eosSeen =>
          /\ channel.queue \in Seq(Tags) /\ asr.state # "done"
          /\ ~channel.overflow => channel.accum = asr.heard \o channel.queue
    /\ handler = "asr" /\ ~channel.overflow =>
          /\ asr.state = "running" => Append(channel.accum, Sentinel) = asr.heard \o channel.queue
          /\ asr.state = "done" => channel.accum = asr.heard
    /\ handler \in {"asr", "match"} => channel.eosSeen
    /\ handler = "match" => asr.state = "done"
    /\ PathsHearTheSame

\* The audio that the handler has dispatched, and how much of it there is.
Dispatched == asr.heard \o channel.queue
Taken == Len(asr.heard) + Len(channel.queue)

\* What is in flight while no frame was torn: perhaps START, then the audio
\* not yet dispatched, then perhaps EOS, then perhaps STOP.
InFlight(b, k, e, s) ==
    /\ Len(sent) = Taken + k /\ Len(up) = b + 2 * k + e + s
    /\ b = 2 => up[1].type = "START"
    /\ \A i \in 1..k : /\ up[b + 2 * i - 1].type = "AUDIO" /\ up[b + 2 * i].type = "payload"
                       /\ up[b + 2 * i].of = sent[Taken + i]
    /\ e = 1 => up[b + 2 * k + 1].type = "EOS"
    /\ s = 1 => up[b + 2 * k + e + 1].type = "STOP" /\ plugFd # "open"
    /\ plug.eosSent <=> e = 1

Flight == \E b \in {0, 2}, k \in 0..Len(sent), e \in {0, 1}, s \in {0, 1} : InFlight(b, k, e, s)

Delivered ==
    /\ synced
    /\ servFd = "open" /\ ~channel.eosSeen => Flight /\ \A i \in 1..Taken : Dispatched[i] = sent[i]
    /\ servFd = "open" /\ channel.eosSeen => \A i \in 1..Len(up) : up[i].type = "STOP"
    /\ handler = "asr" =>
          /\ asr.state = "running" => Dispatched = Append(sent, Sentinel)
          /\ asr.state = "done" => asr.heard = sent
    /\ handler = "match" => asr.heard = sent
    /\ \A i \in 1..Len(down) : down[i].type = "RESULT" => plug.eosSent /\ down[i].heard = sent
    /\ \A i \in 1..Len(mrcp) :
          mrcp[i].body.from = "bridge" => plug.eosSent /\ mrcp[i].body.heard = sent

IInv ==
    /\ TypeOK /\ Requests /\ Connection /\ Mirrored
    /\ synced => Framing
    /\ torn = 0 => Delivered

-----------------------------------------------------------------------------
(* What a step of the plugin does, as far as the invariant is concerned.   *)

\* To the session layer: nothing, or one message about the request at hand.
Talk ==
    \/ UNCHANGED mrcp /\ plug'.recog = plug.recog
    \/ \E m \in Messages :
          /\ mrcp' = Append(mrcp, m)
          /\ \/ /\ m.name = "IN-PROGRESS" /\ m.of \in Request \ Asked
                /\ plug'.recog = m.of
             \/ m.name = "START-OF-INPUT" /\ m.of = plug.recog /\ plug'.recog = plug.recog
             \/ m.name \in Ends /\ m.of = plug.recog /\ plug'.recog = None
          /\ m.body.from = "bridge" =>
                /\ down # <<>> /\ Head(down).type = "RESULT" /\ m.body.heard = Head(down).heard

\* To the connection.
SameFlags == plug'.started = plug.started /\ plug'.eosSent = plug.eosSent
SameLink == SameFlags /\ plug'.bridge = plug.bridge /\ (line' = "new" => line = "new")

Quiet ==
    /\ UNCHANGED <<up, plugFd, servFd, given>> /\ SameLink
    /\ \/ UNCHANGED down
       \/ down # <<>> /\ down' = Tail(down)

Opens == /\ line = "new" /\ line' # "new" /\ SameFlags /\ plug'.bridge
         /\ plugFd' = "open" /\ servFd' = "open" /\ UNCHANGED <<up, down, given>>

Fails == WriteFails /\ UNCHANGED given /\ SameFlags /\ ~plug'.bridge /\ (line' = "new" => line = "new")

Writes(parts) == WriteAll(parts) /\ plug.bridge /\ plug'.bridge /\ (line' = "new" => line = "new")

WritesStart ==
    /\ \E r \in Request : Writes(<<Header("START"), Payload(r)>>)
    /\ ~plug.started /\ plug'.started /\ ~plug'.eosSent /\ line # "new" /\ UNCHANGED given

WritesAudio ==
    /\ Forwards(plug) /\ Writable /\ SameLink
    /\ \E r \in Request : /\ up' = up \o Fits(r)
                          /\ sent' = IF Len(Fits(r)) = 2 THEN Append(sent, r) ELSE sent
                          /\ torn' = IF Len(Fits(r)) = 1 THEN torn + 1 ELSE torn
    /\ UNCHANGED <<down, plugFd, servFd>>

WritesEos ==
    /\ Writes(<<Header("EOS")>>) /\ Forwards(plug)
    /\ plug'.started = plug.started /\ plug'.eosSent /\ UNCHANGED given

Closes ==
    /\ line' # "new" /\ ~plug'.bridge /\ SameFlags /\ plug.bridge
    /\ plugFd' = "closed" /\ UNCHANGED <<down, servFd, given>>
    /\ up' = up \/ (Writable /\ Room > 0 /\ up' = Append(up, Header("STOP")))

Effect ==
    /\ plug' \in Plugs /\ line' \in {"new", "open", "closed"} /\ Talk /\ UNCHANGED server
    /\ Quiet \/ Opens \/ Fails \/ WritesStart \/ WritesAudio \/ WritesEos \/ Closes

\* The messages of the plugin are well formed.
LEMMA MessageTyped ==
    ASSUME NEW name \in {"IN-PROGRESS", "START-OF-INPUT"} \cup Ends, NEW of \in Request \cup {None},
           NEW body \in Bodies
    PROVE  /\ Message(name, of, body) \in Messages /\ Message(name, of, body).name = name
           /\ Message(name, of, body).of = of /\ Message(name, of, body).body = body
BY DEF Message, Messages

\* Only an answer of the bridge carries a transcript.
LEMMA BodiesTyped ==
    /\ NoBody \in Bodies /\ NoBody.from # "bridge" /\ Canned \in Bodies /\ Canned.from # "bridge"
    /\ \A h \in Seq(Tags) : /\ FromBridge(h) \in Bodies /\ FromBridge(h).heard = h
                            /\ FromBridge(h).from = "bridge"
BY DEF NoBody, Canned, FromBridge, Bodies

\* The channel's state without its bridge.
LEMMA DropFields ==
    ASSUME NEW p \in Plugs
    PROVE  /\ Drop(p) \in Plugs /\ Drop(p).bridge = FALSE /\ Drop(p).started = p.started
           /\ Drop(p).eosSent = p.eosSent /\ Drop(p).recog = p.recog
BY Zenon DEF Drop, Plugs

\* Saying one thing about the request in progress.
LEMMA Speaks ==
    ASSUME TypeOK, NEW name \in {"IN-PROGRESS", "START-OF-INPUT"} \cup Ends,
           NEW of \in Request \cup {None}, NEW body \in Bodies,
           mrcp' = Append(mrcp, Message(name, of, body)),
           \/ name = "IN-PROGRESS" /\ of \in Request \ Asked /\ plug'.recog = of
           \/ name = "START-OF-INPUT" /\ of = plug.recog /\ plug'.recog = plug.recog
           \/ name \in Ends /\ of = plug.recog /\ plug'.recog = None,
           body.from = "bridge" =>
                down # <<>> /\ Head(down).type = "RESULT" /\ body.heard = Head(down).heard
    PROVE  Talk
<1> DEFINE m == Message(name, of, body)
<1>1. m \in Messages /\ m.name = name /\ m.of = of /\ m.body = body
  BY MessageTyped
<1>2. mrcp' = Append(mrcp, m)
  OBVIOUS
<1> HIDE DEF m
<1> QED BY <1>1, <1>2 DEF Talk

\* The plugin's calls that leave the connection alone.
LEMMA IdleEffect ==
    ASSUME TypeOK, UNCHANGED server,
           OpenChannel \/ StopRequest \/ StartInputTimers \/ AnswerStop \/ GiveUp
    PROVE  Effect
<1> USE DEF TypeOK
<1>1. CASE OpenChannel
  <2> DEFINE q == [plug EXCEPT !.bridge = TRUE]
  <2>1. /\ q \in Plugs /\ q.bridge = TRUE /\ q.started = plug.started /\ q.eosSent = plug.eosSent
        /\ q.recog = plug.recog
    BY Zenon DEF Plugs
  <2>2. \/ plug' = q /\ plugFd' = "open" /\ servFd' = "open"
        \/ UNCHANGED <<plug, plugFd, servFd>>
    BY <1>1 DEF OpenChannel
  <2>3. line = "new" /\ line' = "open" /\ UNCHANGED <<up, down, given, mrcp>>
    BY <1>1 DEF OpenChannel
  <2> HIDE DEF q
  <2> QED BY <2>1, <2>2, <2>3 DEF Effect, Talk, Opens, Quiet, SameLink, SameFlags
<1>2. CASE StopRequest
  <2> DEFINE q == [plug EXCEPT !.stop = TRUE]
  <2>1. /\ q \in Plugs /\ q.bridge = plug.bridge /\ q.started = plug.started
        /\ q.eosSent = plug.eosSent /\ q.recog = plug.recog
    BY Zenon DEF Plugs
  <2>2. plug' = q /\ UNCHANGED <<socket, line, given, mrcp>>
    BY <1>2 DEF StopRequest
  <2> HIDE DEF q
  <2> QED BY <2>1, <2>2 DEF Effect, Talk, Quiet, SameLink, SameFlags, socket
<1>3. CASE StartInputTimers
  <2> DEFINE q == [plug EXCEPT !.timers = TRUE]
  <2>1. /\ q \in Plugs /\ q.bridge = plug.bridge /\ q.started = plug.started
        /\ q.eosSent = plug.eosSent /\ q.recog = plug.recog
    BY Zenon DEF Plugs
  <2>2. plug' = q /\ UNCHANGED <<socket, line, given, mrcp>>
    BY <1>3 DEF StartInputTimers
  <2> HIDE DEF q
  <2> QED BY <2>1, <2>2 DEF Effect, Talk, Quiet, SameLink, SameFlags, socket
<1>4. CASE AnswerStop
  <2> DEFINE q == [plug EXCEPT !.stop = FALSE, !.recog = None]
  <2>1. /\ q \in Plugs /\ q.bridge = plug.bridge /\ q.started = plug.started
        /\ q.eosSent = plug.eosSent /\ q.recog = None
    BY Zenon DEF Plugs
  <2>2. /\ plug' = q /\ UNCHANGED <<socket, line, given>>
        /\ mrcp' = Append(mrcp, Message("STOPPED", plug.recog, NoBody))
    BY <1>4 DEF AnswerStop
  <2>3. plug.recog \in Request \cup {None}
    BY DEF Plugs
  <2> HIDE DEF q
  <2>4. Talk
    BY <2>1, <2>2, <2>3, BodiesTyped, Speaks DEF Ends
  <2> QED BY <2>1, <2>2, <2>4 DEF Effect, Quiet, SameLink, SameFlags, socket
<1>5. CASE GiveUp
  <2> DEFINE q == [plug EXCEPT !.recog = None, !.waiting = FALSE]
  <2>1. /\ q \in Plugs /\ q.bridge = plug.bridge /\ q.started = plug.started
        /\ q.eosSent = plug.eosSent /\ q.recog = None
    BY Zenon DEF Plugs
  <2>2. /\ plug' = q /\ UNCHANGED <<socket, line, given>>
        /\ mrcp' = Append(mrcp, Message("SUCCESS", plug.recog, Canned))
    BY <1>5 DEF GiveUp, Complete
  <2>3. plug.recog \in Request \cup {None}
    BY DEF Plugs
  <2> HIDE DEF q
  <2>4. Talk
    BY <2>1, <2>2, <2>3, BodiesTyped, Speaks DEF Ends
  <2> QED BY <2>1, <2>2, <2>4 DEF Effect, Quiet, SameLink, SameFlags, socket
<1> QED BY <1>1, <1>2, <1>3, <1>4, <1>5

\* sbr_wait_result returns a frame.
LEMMA TakeAnswerEffect == ASSUME TypeOK, UNCHANGED server, TakeAnswer PROVE Effect
<1> USE DEF TypeOK
<1> DEFINE q == [plug EXCEPT !.recog = None, !.waiting = FALSE]
           body == IF Head(down).type = "RESULT" THEN FromBridge(Head(down).heard) ELSE Canned
<1>1. /\ q \in Plugs /\ q.bridge = plug.bridge /\ q.started = plug.started
      /\ q.eosSent = plug.eosSent /\ q.recog = None
  BY Zenon DEF Plugs
<1>2. /\ plug' = q /\ down # <<>> /\ down' = Tail(down) /\ UNCHANGED <<up, plugFd, servFd, line, given>>
      /\ mrcp' = Append(mrcp, Message("SUCCESS", plug.recog, body))
  BY DEF TakeAnswer, Complete, Answered
<1>3. plug.recog \in Request \cup {None}
  BY DEF Plugs
<1>4. /\ body \in Bodies
      /\ body.from = "bridge" => Head(down).type = "RESULT" /\ body.heard = Head(down).heard
  <2>1. Head(down) \in Answers
    BY <1>2, HeadTailProperties
  <2>2. CASE Head(down).type = "RESULT"
    <3>1. Head(down).heard \in Seq(Tags)
      BY <2>1, <2>2 DEF Answers
    <3> QED BY <2>2, <3>1, BodiesTyped
  <2>3. CASE Head(down).type # "RESULT"
    BY <2>3, BodiesTyped
  <2> QED BY <2>2, <2>3
<1> HIDE DEF q, body
<1>5. Talk
  BY <1>1, <1>2, <1>3, <1>4, Speaks DEF Ends
<1> QED BY <1>1, <1>2, <1>5 DEF Effect, Quiet, SameLink, SameFlags

\* RECOGNIZE, with and without START, and with a START that cannot be written.
LEMMA RecognizeEffect ==
    ASSUME TypeOK, UNCHANGED server, NEW r \in Request, NEW timers \in BOOLEAN, Recognize(r, timers)
    PROVE  Effect
<1> USE DEF TypeOK
<1> DEFINE p == [plug EXCEPT !.timers = timers, !.recog = r]
           q == [p EXCEPT !.started = TRUE, !.eosSent = FALSE]
           start == <<Header("START"), Payload(r)>>
<1>1. /\ p \in Plugs /\ p.bridge = plug.bridge /\ p.started = plug.started
      /\ p.eosSent = plug.eosSent /\ p.recog = r
  BY Zenon DEF Plugs
<1>2. /\ r \notin Asked /\ line = "open" /\ UNCHANGED <<line, given>>
      /\ mrcp' = Append(mrcp, Message("IN-PROGRESS", r, NoBody))
      /\ \/ plug' = p /\ UNCHANGED socket
         \/ NeedsStart /\ WriteAll(start) /\ plug' = q
         \/ plug' = Drop(p) /\ WriteFails
  BY DEF Recognize, InProgress
<1> HIDE DEF p
<1>3. q \in Plugs /\ q.bridge = p.bridge /\ q.started = TRUE /\ q.eosSent = FALSE /\ q.recog = r
  BY <1>1, Zenon DEF Plugs
<1> HIDE DEF q
<1>4. plug'.recog = r /\ plug' \in Plugs
  BY <1>1, <1>2, <1>3, DropFields
<1>5. Talk
  BY <1>2, <1>4, BodiesTyped, Speaks DEF Ends
<1>6. CASE plug' = p /\ UNCHANGED socket
  BY <1>1, <1>2, <1>5, <1>6 DEF Effect, Quiet, SameLink, SameFlags, socket
<1>7. CASE NeedsStart /\ WriteAll(start) /\ plug' = q
  <2>1. WritesStart
    BY <1>1, <1>2, <1>3, <1>7 DEF WritesStart, Writes, NeedsStart
  <2> QED BY <1>2, <1>4, <1>5, <2>1 DEF Effect
<1>8. CASE plug' = Drop(p) /\ WriteFails
  <2>1. Fails
    BY <1>1, <1>2, <1>8, DropFields DEF Fails, SameFlags
  <2> QED BY <1>2, <1>4, <1>5, <2>1 DEF Effect
<1> QED BY <1>2, <1>6, <1>7, <1>8

\* CLOSE.
LEMMA CloseChannelEffect == ASSUME TypeOK, UNCHANGED server, CloseChannel PROVE Effect
<1> USE DEF TypeOK
<1>1. plug' = Drop(plug) /\ line = "open" /\ line' = "closed" /\ UNCHANGED <<down, servFd, given, mrcp>>
  BY DEF CloseChannel
<1>2. /\ plug' \in Plugs /\ plug'.bridge = FALSE /\ plug'.started = plug.started
      /\ plug'.eosSent = plug.eosSent /\ plug'.recog = plug.recog
  BY <1>1, DropFields
<1>3. CASE plug.bridge
  <2>1. Closes
    BY <1>1, <1>2, <1>3 DEF CloseChannel, Closes, SameFlags
  <2> QED BY <1>1, <1>2, <2>1 DEF Effect, Talk
<1>4. CASE ~plug.bridge
  <2>1. plug.bridge = FALSE
    BY <1>4 DEF Plugs
  <2>2. Quiet
    BY <1>1, <1>2, <1>4, <2>1 DEF CloseChannel, Quiet, SameLink, SameFlags
  <2> QED BY <1>1, <1>2, <2>2 DEF Effect, Talk
<1> QED BY <1>3, <1>4

\* stream_write forwards a frame, whatever else it does with the request.
LEMMA ForwardEffect ==
    ASSUME TypeOK, UNCHANGED <<server, line>>, NEW r \in Request, NEW p \in Plugs, Forward(r, p),
           p.bridge = plug.bridge, p.started = plug.started, p.eosSent = plug.eosSent,
           plug'.recog = p.recog => Talk
    PROVE  Effect
<1>1. CASE ~Forwards(p) /\ plug' = p /\ UNCHANGED <<socket, given>>
  BY <1>1 DEF TypeOK, Effect, Quiet, SameLink, SameFlags, socket
<1>2. CASE Forwards(p) /\ ~Writable /\ plug' = Drop(p) /\ WriteFails /\ UNCHANGED given
  <2>1. Fails
    BY <1>2, DropFields DEF Fails, SameFlags
  <2> QED BY <1>2, <2>1, DropFields DEF TypeOK, Effect
<1>3. CASE Forwards(p) /\ Writable /\ plug' = p
  <2>1. WritesAudio
    BY <1>3 DEF Forward, WritesAudio, Forwards, SameLink, SameFlags
  <2> QED BY <1>3, <2>1 DEF TypeOK, Effect
<1> QED BY <1>1, <1>2, <1>3 DEF Forward

\* A frame of audio without an event, with the first sound, or after the
\* no-input timeout.
LEMMA FrameEffect ==
    ASSUME TypeOK, UNCHANGED server, PlainFrame \/ Activity \/ NoInput
    PROVE  Effect
<1>1. /\ plug \in Plugs /\ plug.recog \in Request /\ UNCHANGED line
  BY DEF TypeOK, PlainFrame, Activity, NoInput, Writing, Plugs
<1>2. CASE Forward(plug.recog, plug) /\ UNCHANGED mrcp
  BY <1>1, <1>2, ForwardEffect DEF Talk
<1>3. CASE Activity
  <2> DEFINE p == [plug EXCEPT !.active = TRUE]
  <2>1. /\ p \in Plugs /\ p.bridge = plug.bridge /\ p.started = plug.started
        /\ p.eosSent = plug.eosSent /\ p.recog = plug.recog
    BY <1>1, Zenon DEF Plugs
  <2>2. Forward(plug.recog, p) /\ mrcp' = Append(mrcp, Message("START-OF-INPUT", plug.recog, NoBody))
    BY <1>3 DEF Activity
  <2> HIDE DEF p
  <2>3. plug'.recog = p.recog => Talk
    BY <1>1, <2>1, <2>2, BodiesTyped, Speaks
  <2> QED BY <1>1, <2>1, <2>2, <2>3, ForwardEffect
<1>4. CASE NoInput /\ plug.timers
  <2> DEFINE p == [plug EXCEPT !.recog = None]
  <2>1. /\ p \in Plugs /\ p.bridge = plug.bridge /\ p.started = plug.started
        /\ p.eosSent = plug.eosSent /\ p.recog = None
    BY <1>1, Zenon DEF Plugs
  <2>2. Forward(plug.recog, p) /\ mrcp' = Append(mrcp, Message("NO-INPUT", plug.recog, NoBody))
    BY <1>4 DEF NoInput
  <2> HIDE DEF p
  <2>3. plug'.recog = p.recog => Talk
    BY <1>1, <2>1, <2>2, BodiesTyped, Speaks DEF Ends
  <2> QED BY <1>1, <2>1, <2>2, <2>3, ForwardEffect
<1> QED BY <1>2, <1>3, <1>4 DEF PlainFrame, NoInput

\* Both ways to conclude say at most one thing, about the request in progress.
LEMMA ConcludeTalks ==
    ASSUME TypeOK, NEW p \in Plugs, p.recog = plug.recog, Conclude(p)
    PROVE  /\ Talk /\ plug' \in Plugs
           /\ plug'.bridge = p.bridge /\ plug'.started = p.started /\ plug'.eosSent = p.eosSent
<1> DEFINE w == [p EXCEPT !.waiting = TRUE]
           c == [p EXCEPT !.recog = None, !.waiting = FALSE]
<1>1. /\ w \in Plugs /\ w.bridge = p.bridge /\ w.started = p.started /\ w.eosSent = p.eosSent
      /\ w.recog = p.recog
  BY Zenon DEF Plugs
<1>2. /\ c \in Plugs /\ c.bridge = p.bridge /\ c.started = p.started /\ c.eosSent = p.eosSent
      /\ c.recog = None
  BY Zenon DEF Plugs
<1>3. \/ plug' = w /\ UNCHANGED mrcp
      \/ plug' = c /\ mrcp' = Append(mrcp, Message("SUCCESS", p.recog, Canned))
  BY DEF Conclude, Complete
<1>4. plug.recog \in Request \cup {None}
  BY DEF TypeOK, Plugs
<1> HIDE DEF w, c
<1>5. CASE plug' = w /\ UNCHANGED mrcp
  BY <1>1, <1>5 DEF Talk
<1>6. CASE plug' = c /\ mrcp' = Append(mrcp, Message("SUCCESS", p.recog, Canned))
  <2>1. Talk
    BY <1>2, <1>4, <1>6, BodiesTyped, Speaks DEF Ends
  <2> QED BY <1>2, <1>6, <2>1
<1> QED BY <1>3, <1>5, <1>6

\* The utterance ended: EOS is written, or could not be, or was written before.
LEMMA InactivityEffect == ASSUME TypeOK, UNCHANGED server, Inactivity PROVE Effect
<1> DEFINE p == [plug EXCEPT !.active = FALSE]
           q == [p EXCEPT !.eosSent = TRUE]
           eos == <<Header("EOS")>>
<1>1. /\ p \in Plugs /\ p.bridge = plug.bridge /\ p.started = plug.started
      /\ p.eosSent = plug.eosSent /\ p.recog = plug.recog
  BY Zenon DEF TypeOK, Plugs
<1>2. /\ UNCHANGED <<line, given>>
      /\ \/ Conclude(p) /\ UNCHANGED socket
         \/ NeedsEos(p) /\ WriteAll(eos) /\ Conclude(q)
         \/ Conclude(Drop(p)) /\ WriteFails
  BY DEF Inactivity
<1> HIDE DEF p
<1>3. q \in Plugs /\ q.bridge = p.bridge /\ q.started = p.started /\ q.eosSent = TRUE /\ q.recog = p.recog
  BY <1>1, Zenon DEF Plugs
<1> HIDE DEF q
<1>4. line' \in {"new", "open", "closed"}
  BY <1>2 DEF TypeOK
<1>5. CASE Conclude(p) /\ UNCHANGED socket
  <2>1. Quiet
    BY <1>1, <1>2, <1>5, ConcludeTalks DEF Quiet, SameLink, SameFlags, socket
  <2> QED BY <1>1, <1>4, <1>5, <2>1, ConcludeTalks DEF Effect
<1>6. CASE NeedsEos(p) /\ WriteAll(eos) /\ Conclude(q)
  <2>1. WritesEos
    BY <1>1, <1>2, <1>3, <1>6, ConcludeTalks DEF WritesEos, Writes, Forwards, NeedsEos
  <2> QED BY <1>1, <1>3, <1>4, <1>6, <2>1, ConcludeTalks DEF Effect
<1>7. CASE Conclude(Drop(p)) /\ WriteFails
  <2>1. Fails
    BY <1>1, <1>2, <1>7, ConcludeTalks, DropFields DEF Fails, SameFlags
  <2> QED BY <1>1, <1>4, <1>7, <2>1, ConcludeTalks, DropFields DEF Effect
<1> QED BY <1>2, <1>5, <1>6, <1>7

\* Every step of the plugin has one of the effects.
LEMMA PluginEffect == ASSUME TypeOK, PluginNext, UNCHANGED server PROVE Effect
BY IdleEffect, TakeAnswerEffect, RecognizeEffect, CloseChannelEffect, FrameEffect, InactivityEffect
   DEF PluginNext

-----------------------------------------------------------------------------
(* Types.                                                                  *)

Parts == Headers \cup Payloads

\* The parts of a frame have their type.
LEMMA PartsTyped ==
    /\ \A type \in {"START", "AUDIO", "EOS", "STOP"} : Header(type) \in Parts /\ Header(type).type = type
    /\ \A r \in Request : /\ Payload(r) \in Parts /\ Payload(r).type = "payload" /\ Payload(r).of = r
                          /\ AudioParts(r) \in Seq(Parts)
BY DEF Header, Payload, Parts, Headers, Payloads, AudioParts

\* What fits of an audio frame: nothing, its header, or all of it.
LEMMA FitsIs ==
    ASSUME TypeOK, NEW r \in Request
    PROVE  \/ Room = 0 /\ Fits(r) = <<>>
           \/ Room = 1 /\ Fits(r) = <<Header("AUDIO")>>
           \/ Room >= 2 /\ Fits(r) = AudioParts(r)
<1>1. Room \in Nat
  BY SocketAssumption DEF TypeOK, Room
<1>2. AudioParts(r) \in Seq(Parts) /\ Len(AudioParts(r)) = 2 /\ AudioParts(r)[1] = Header("AUDIO")
  BY PartsTyped DEF AudioParts
<1> HIDE DEF AudioParts
<1>3. CASE Room = 0
  BY <1>1, <1>2, <1>3 DEF Fits
<1>4. CASE Room = 1
  <2>1. Fits(r) = SubSeq(AudioParts(r), 1, 1)
    BY <1>4 DEF Fits
  <2>2. /\ Fits(r) \in Seq(Parts) /\ Len(Fits(r)) = 1 /\ Fits(r)[1] = Header("AUDIO")
    BY <1>2, <2>1
  <2> QED BY <1>4, <2>2
<1>5. CASE Room >= 2
  BY <1>1, <1>2, <1>5 DEF Fits
<1> QED BY <1>1, <1>3, <1>4, <1>5

\* Fewer parts in the buffer than there is room, after every step of the plugin.
LEMMA EffectParts ==
    ASSUME TypeOK, Effect
    PROVE  up' \in Seq(Parts) /\ Len(up') <= SocketRoom
<1>1. up \in Seq(Parts) /\ Len(up) <= SocketRoom /\ SocketRoom \in Nat
  BY SocketAssumption DEF TypeOK, Parts
<1>2. CASE UNCHANGED up
  BY <1>1, <1>2
<1>3. CASE WritesStart
  <2>1. PICK r \in Request : Writes(<<Header("START"), Payload(r)>>)
    BY <1>3 DEF WritesStart
  <2>2. Header("START") \in Parts /\ Payload(r) \in Parts
    BY PartsTyped
  <2>3. up' = up \o <<Header("START"), Payload(r)>> /\ Room >= 2
    BY <2>1 DEF Writes, WriteAll
  <2> QED BY <1>1, <2>2, <2>3 DEF Room
<1>4. CASE WritesAudio
  <2>1. PICK r \in Request : up' = up \o Fits(r)
    BY <1>4 DEF WritesAudio
  <2>2. Header("AUDIO") \in Parts /\ Payload(r) \in Parts
    BY PartsTyped
  <2>3. CASE Room = 0 /\ Fits(r) = <<>>
    BY <1>1, <2>1, <2>3
  <2>4. CASE Room = 1 /\ Fits(r) = <<Header("AUDIO")>>
    BY <1>1, <2>1, <2>2, <2>4 DEF Room
  <2>5. CASE Room >= 2 /\ Fits(r) = AudioParts(r)
    BY <1>1, <2>1, <2>2, <2>5 DEF Room, AudioParts
  <2> QED BY <2>3, <2>4, <2>5, FitsIs
<1>5. CASE WritesEos
  <2>1. Header("EOS") \in Parts
    BY PartsTyped
  <2>2. up' = up \o <<Header("EOS")>> /\ Room >= 1
    BY <1>5 DEF WritesEos, Writes, WriteAll
  <2> QED BY <1>1, <2>1, <2>2 DEF Room
<1>6. CASE Closes
  <2>1. Header("STOP") \in Parts
    BY PartsTyped
  <2> QED BY <1>1, <1>6, <2>1 DEF Closes, Room
<1> QED BY <1>2, <1>3, <1>4, <1>5, <1>6 DEF Effect, Quiet, Opens, Fails, WriteFails

\* The plugin's steps preserve the types.
LEMMA EffectTyped == ASSUME TypeOK, Effect PROVE TypeOK'
<1>1. up' \in Seq(Headers \cup Payloads) /\ Len(up') <= SocketRoom
  BY EffectParts DEF Parts
<1>2. down' \in Seq(Answers)
  <2>1. UNCHANGED down \/ (down # <<>> /\ down' = Tail(down))
    BY DEF Effect, Quiet, Opens, Fails, WriteFails, WritesStart, WritesAudio, WritesEos, Closes,
           Writes, WriteAll
  <2>2. down \in Seq(Answers)
    BY DEF TypeOK
  <2> QED BY <2>1, <2>2, HeadTailProperties
<1>3. plugFd' \in {"none", "open", "closed"} /\ servFd' \in {"none", "open", "closed"}
  BY DEF TypeOK, Effect, Quiet, Opens, Fails, WriteFails, WritesStart, WritesAudio, WritesEos, Closes,
         Writes, WriteAll
<1>4. sent' \in Seq(Request) /\ torn' \in Nat
  <2>1. CASE UNCHANGED given
    BY <2>1 DEF TypeOK, given
  <2>2. CASE WritesAudio
    <3>1. PICK r \in Request : /\ sent' = IF Len(Fits(r)) = 2 THEN Append(sent, r) ELSE sent
                               /\ torn' = IF Len(Fits(r)) = 1 THEN torn + 1 ELSE torn
      BY <2>2 DEF WritesAudio
    <3> QED BY <3>1 DEF TypeOK
  <2> QED BY <2>1, <2>2 DEF Effect, Quiet, Opens, Fails, WritesStart, WritesEos, Closes
<1>5. mrcp' \in Seq(Messages)
  <2>1. mrcp \in Seq(Messages)
    BY DEF TypeOK
  <2>2. UNCHANGED mrcp \/ \E m \in Messages : mrcp' = Append(mrcp, m)
    BY DEF Effect, Talk
  <2> QED BY <2>1, <2>2, AppendProperties
<1>6. UNCHANGED <<handler, channel, synced, asr>> /\ plug' \in Plugs /\ line' \in {"new", "open", "closed"}
  BY DEF Effect, server
<1> QED BY <1>1, <1>2, <1>3, <1>4, <1>5, <1>6 DEF TypeOK

-----------------------------------------------------------------------------
(* What a step of the bridge does.                                         *)

\* Leaving: the task is released, and the connection with all it held.
LEMMA LeaveDoes ==
    ASSUME TypeOK, NEW frames \in Seq(Answers), Leave(frames)
    PROVE  /\ handler' = "done" /\ servFd' = "closed" /\ up' = <<>> /\ UNCHANGED <<plugFd, channel, synced>>
           /\ down' = down \/ down' = down \o frames
           /\ asr' \in AsrTasks /\ (asr.state # "running" => asr' = asr)
<1>1. [asr EXCEPT !.state = "cancelled"] \in AsrTasks
  BY Zenon DEF TypeOK, AsrTasks, AsrStates
<1> QED BY <1>1 DEF Leave, ReleaseAsr, TypeOK

\* START: a task with no audio.
LEMMA StartDoes ==
    ASSUME TypeOK, NEW rest, HandleStart(rest)
    PROVE  /\ channel' \in Channels /\ channel'.started = TRUE /\ channel'.eosSeen = channel.eosSeen
           /\ channel'.queue = channel.queue /\ channel'.accum = channel.accum
           /\ channel'.overflow = channel.overflow
           /\ asr' \in AsrTasks /\ asr'.state = "running" /\ asr'.heard = <<>>
           /\ up' = rest /\ UNCHANGED <<handler, synced, down, plugFd, servFd>>
<1> DEFINE c == [channel EXCEPT !.started = TRUE]
<1>1. /\ c \in Channels /\ c.started = TRUE /\ c.eosSeen = channel.eosSeen
      /\ c.queue = channel.queue /\ c.accum = channel.accum /\ c.overflow = channel.overflow
  BY Zenon DEF TypeOK, Channels
<1>2. channel' = c /\ asr' = [state |-> "running", heard |-> <<>>] /\ up' = rest
      /\ UNCHANGED <<handler, synced, down, plugFd, servFd>>
  BY DEF HandleStart
<1> HIDE DEF c
<1>3. <<>> \in Seq(Tags)
  OBVIOUS
<1> QED BY <1>1, <1>2, <1>3 DEF AsrTasks, AsrStates

\* AUDIO after START: to the queue, and to the mirror unless it overflows.
LEMMA AudioDoes ==
    ASSUME TypeOK, NEW of \in Tags, NEW rest, HandleAudio(of, rest), channel.started
    PROVE  /\ channel' \in Channels /\ channel'.started = TRUE /\ channel'.eosSeen = channel.eosSeen
           /\ channel'.queue = Append(channel.queue, of)
           /\ ~channel'.overflow => ~channel.overflow /\ channel'.accum = Append(channel.accum, of)
           /\ up' = rest /\ UNCHANGED <<handler, synced, asr, down, plugFd, servFd>>
<1> DEFINE a == Append(channel.accum, of)
           q == Append(channel.queue, of)
<1>1. channel.accum \in Seq(Tags) /\ channel.queue \in Seq(Tags \cup {Sentinel})
  BY DEF TypeOK, Channels
<1>2. a \in Seq(Tags) /\ q \in Seq(Tags \cup {Sentinel}) /\ <<>> \in Seq(Tags)
  BY <1>1
<1>3. /\ channel' = [Mirror(of) EXCEPT !.queue = q]
      /\ up' = rest /\ UNCHANGED <<handler, synced, asr, down, plugFd, servFd>>
  BY DEF HandleAudio
<1> DEFINE m1 == [channel EXCEPT !.overflow = TRUE, !.accum = <<>>]
           m2 == [channel EXCEPT !.accum = a]
<1>4. \/ channel.overflow /\ Mirror(of) = channel
      \/ Mirror(of) = m1
      \/ ~channel.overflow /\ Mirror(of) = m2
  BY DEF Mirror
<1> HIDE DEF a, q
<1>5. /\ m1 \in Channels /\ m1.started = channel.started /\ m1.eosSeen = channel.eosSeen
      /\ m1.overflow = TRUE
  BY <1>2, Zenon DEF TypeOK, Channels
<1>6. /\ m2 \in Channels /\ m2.started = channel.started /\ m2.eosSeen = channel.eosSeen
      /\ m2.overflow = channel.overflow /\ m2.accum = a
  BY <1>2, Zenon DEF TypeOK, Channels
<1> HIDE DEF m1, m2
<1>7. /\ Mirror(of) \in Channels /\ Mirror(of).started = channel.started
      /\ Mirror(of).eosSeen = channel.eosSeen
      /\ ~Mirror(of).overflow => ~channel.overflow /\ Mirror(of).accum = a
  BY <1>4, <1>5, <1>6 DEF TypeOK
<1> DEFINE m == Mirror(of)
           c == [m EXCEPT !.queue = q]
<1> HIDE DEF m
<1>8. /\ c \in Channels /\ c.started = m.started /\ c.eosSeen = m.eosSeen /\ c.queue = q
      /\ c.overflow = m.overflow /\ c.accum = m.accum
  <2>1. m \in Channels
    BY <1>7 DEF m
  <2> QED BY <1>2, <2>1, Zenon DEF Channels
<1>9. channel' = c
  BY <1>3 DEF m
<1>10. channel.started = TRUE
  BY DEF TypeOK, Channels
<1> HIDE DEF c
<1> QED BY <1>3, <1>7, <1>8, <1>9, <1>10 DEF m, a, q

\* EOS: the sentinel, and the handler waits for the transcript.
LEMMA EosDoes ==
    ASSUME TypeOK, NEW rest, HandleEos(rest), channel.started, ~channel.eosSeen
    PROVE  /\ channel' \in Channels /\ channel'.started = TRUE /\ channel'.eosSeen = TRUE
           /\ channel'.queue = Append(channel.queue, Sentinel)
           /\ channel'.overflow = channel.overflow /\ channel'.accum = channel.accum
           /\ handler' = "asr" /\ up' = rest /\ UNCHANGED <<synced, asr, down, plugFd, servFd>>
<1> DEFINE q == Append(channel.queue, Sentinel)
           c == [channel EXCEPT !.eosSeen = TRUE, !.queue = q]
<1>1. channel.queue \in Seq(Tags \cup {Sentinel}) /\ channel.started = TRUE
  BY DEF TypeOK, Channels
<1>2. q \in Seq(Tags \cup {Sentinel})
  BY <1>1
<1>3. channel' = c /\ handler' = "asr" /\ up' = rest /\ UNCHANGED <<synced, asr, down, plugFd, servFd>>
  BY DEF HandleEos
<1> HIDE DEF q
<1>4. /\ c \in Channels /\ c.started = channel.started /\ c.eosSeen = TRUE /\ c.queue = q
      /\ c.overflow = channel.overflow /\ c.accum = channel.accum
  BY <1>2, Zenon DEF TypeOK, Channels
<1> HIDE DEF c
<1> QED BY <1>1, <1>3, <1>4 DEF q

\* The task takes one element of the queue.
LEMMA TakeDoes ==
    ASSUME TypeOK, AsrTake
    PROVE  LET x == Head(channel.queue)
           IN  /\ channel' \in Channels /\ channel'.started = channel.started
               /\ channel'.eosSeen = channel.eosSeen /\ channel'.queue = Tail(channel.queue)
               /\ channel'.overflow = channel.overflow /\ channel'.accum = channel.accum
               /\ channel.queue # <<>> /\ asr.state = "running" /\ asr' \in AsrTasks
               /\ x = Sentinel => asr'.state = "done" /\ asr'.heard = asr.heard
               /\ x # Sentinel => /\ x \in Tags /\ asr'.state = "running"
                                  /\ asr'.heard = Append(asr.heard, x)
               /\ UNCHANGED <<socket, handler, synced>>
<1> DEFINE x == Head(channel.queue)
           t == Tail(channel.queue)
           h == Append(asr.heard, x)
           c == [channel EXCEPT !.queue = t]
           a1 == [asr EXCEPT !.state = "done"]
           a2 == [asr EXCEPT !.heard = h]
<1>1. /\ asr.state = "running" /\ channel.queue # <<>> /\ UNCHANGED <<socket, handler, synced>>
      /\ channel' = c /\ asr' = IF x = Sentinel THEN a1 ELSE a2
  BY DEF AsrTake
<1>2. channel.queue \in Seq(Tags \cup {Sentinel}) /\ asr.heard \in Seq(Tags)
  BY DEF TypeOK, Channels, AsrTasks
<1>3. t \in Seq(Tags \cup {Sentinel}) /\ x \in Tags \cup {Sentinel}
  BY <1>1, <1>2, HeadTailProperties
<1> HIDE DEF x, t
<1>4. /\ c \in Channels /\ c.started = channel.started /\ c.eosSeen = channel.eosSeen /\ c.queue = t
      /\ c.overflow = channel.overflow /\ c.accum = channel.accum
  BY <1>3, Zenon DEF TypeOK, Channels
<1>5. a1 \in AsrTasks /\ a1.state = "done" /\ a1.heard = asr.heard
  BY Zenon DEF TypeOK, AsrTasks, AsrStates
<1>6. CASE x = Sentinel
  <2> HIDE DEF c, a1
  <2> QED BY <1>1, <1>4, <1>5, <1>6 DEF x, t
<1>7. CASE x # Sentinel
  <2>1. x \in Tags /\ h \in Seq(Tags)
    BY <1>2, <1>3, <1>7
  <2> HIDE DEF h
  <2>2. a2 \in AsrTasks /\ a2.state = asr.state /\ a2.heard = h
    BY <2>1, Zenon DEF TypeOK, AsrTasks, AsrStates
  <2> HIDE DEF c, a1, a2
  <2> QED BY <1>1, <1>4, <1>7, <2>1, <2>2 DEF x, t, h
<1> QED BY <1>6, <1>7

\* What the handler sends when it leaves.
LEMMA ErrorsTyped ==
    /\ <<>> \in Seq(Answers)
    /\ \A code \in {"BAD_START", "UNEXPECTED_FRAME", "ASR_FAILED"} :
          Error(code) \in Answers /\ Error(code).type # "RESULT" /\ <<Error(code)>> \in Seq(Answers)
BY DEF Error, Answers

\* The ways to leave.
Leaves == \E frames \in {<<>>, <<Error("BAD_START")>>, <<Error("UNEXPECTED_FRAME")>>, <<Error("ASR_FAILED")>>} :
              Leave(frames)

\* An audio frame or an EOS that was read, in step or not.
TakesAudio == /\ handler = "reading" /\ channel.started
              /\ \E of \in Tags, n \in 2..Len(up) + 1 :
                    /\ HandleAudio(of, SubSeq(up, n, Len(up)))
                    /\ synced => /\ n = 3 /\ Len(up) > 1 /\ up[1] = Header("AUDIO")
                                 /\ up[2].type = "payload" /\ up[2].of = of
TakesEos == /\ handler = "reading" /\ channel.started /\ ~channel.eosSeen /\ up # <<>>
            /\ HandleEos(Tail(up)) /\ (synced => up[1] = Header("EOS"))
Skips == /\ handler = "reading" /\ up # <<>> /\ up' = Tail(up) /\ synced' = FALSE
         /\ synced => Len(up) > 1 /\ up[1].type = "AUDIO" /\ up[2].type # "payload"
         /\ UNCHANGED <<handler, channel, asr, down, plugFd, servFd>>
Refuses == /\ synced /\ handler = "reading" /\ up # <<>>
           /\ \/ up[1] = Header("AUDIO") /\ ~channel.started
              \/ up[1] = Header("EOS") /\ (~channel.started \/ channel.eosSeen)

\* Every step of the bridge is one of these.
BridgeEffect ==
    /\ UNCHANGED plugin
    /\ \/ Accept \/ ReadStart \/ TakesAudio \/ TakesEos \/ Skips
       \/ AsrTake \/ AsrFails \/ Transcribed \/ Matched
       \/ Leaves /\ handler = "reading" /\ (~synced \/ Refuses)
       \/ /\ handler # "none" \/ servFd = "open"
          /\ \E frames \in {<<>>, <<Error("ASR_FAILED")>>} : Leave(frames)

\* The bridge's actions, and its death, are such steps.
LEMMA ServerEffect ==
    ASSUME TypeOK, (ServerNext /\ UNCHANGED plugin) \/ BridgeDies
    PROVE  BridgeEffect
<1>0. up \in Seq(Parts)
  BY DEF TypeOK, Parts
<1>1. CASE ReadAudio /\ UNCHANGED plugin
  <2>1. /\ synced /\ handler = "reading" /\ Len(up) > 1 /\ up[1] = Header("AUDIO")
        /\ up[2].type = "payload" /\ HandleAudio(up[2].of, SubSeq(up, 3, Len(up)))
    BY <1>0, <1>1 DEF ReadAudio, HeadIs, PayloadFollows
  <2>2. up[2].of \in Tags
    BY <1>0, <2>1 DEF Parts, Headers, Payloads, Tags
  <2>3. CASE channel.started
    <3>1. 3 \in 2..Len(up) + 1
      BY <1>0, <2>1
    <3>2. TakesAudio
      BY <2>1, <2>2, <2>3, <3>1 DEF TakesAudio
    <3> QED BY <1>1, <3>2 DEF BridgeEffect
  <2>4. CASE ~channel.started
    <3>1. Leaves
      BY <2>1, <2>4 DEF HandleAudio, Leaves
    <3>2. Refuses
      BY <1>0, <2>1, <2>4 DEF Refuses
    <3> QED BY <1>1, <2>1, <3>1, <3>2 DEF BridgeEffect
  <2> QED BY <2>3, <2>4
<1>2. CASE ReadEos /\ UNCHANGED plugin
  <2>1. synced /\ handler = "reading" /\ up # <<>> /\ up[1] = Header("EOS") /\ HandleEos(Tail(up))
    BY <1>0, <1>2 DEF ReadEos, HeadIs
  <2>2. CASE channel.started /\ ~channel.eosSeen
    <3>1. TakesEos
      BY <2>1, <2>2 DEF TakesEos
    <3> QED BY <1>2, <3>1 DEF BridgeEffect
  <2>3. CASE ~channel.started \/ channel.eosSeen
    <3>1. Leaves
      BY <2>1, <2>3 DEF HandleEos, Leaves
    <3>2. Refuses
      BY <1>0, <2>1, <2>3 DEF Refuses
    <3> QED BY <1>2, <2>1, <3>1, <3>2 DEF BridgeEffect
  <2> QED BY <2>2, <2>3
<1>3. CASE LoseSync /\ UNCHANGED plugin
  <2>1. Skips
    BY <1>0, <1>3 DEF LoseSync, Skips
  <2> QED BY <1>3, <2>1 DEF BridgeEffect
<1>4. CASE ReadGarbled /\ UNCHANGED plugin
  <2>1. ~synced /\ handler = "reading" /\ up # <<>>
    BY <1>4 DEF ReadGarbled
  <2>2. CASE up' = Tail(up) /\ UNCHANGED <<server, down, plugFd, servFd>>
    <3>1. Skips
      BY <2>1, <2>2 DEF Skips, server
    <3> QED BY <1>4, <3>1 DEF BridgeEffect
  <2>3. CASE HandleAudio(Noise, Tail(up))
    <3>1. CASE channel.started
      <4>1. Tail(up) = SubSeq(up, 2, Len(up)) /\ 2 \in 2..Len(up) + 1
        BY <1>0, <2>1, TailIsSubSeq
      <4>2. HandleAudio(Noise, SubSeq(up, 2, Len(up))) /\ Noise \in Tags
        BY <2>3, <4>1 DEF Tags
      <4>3. TakesAudio
        BY <2>1, <3>1, <4>1, <4>2 DEF TakesAudio
      <4> QED BY <1>4, <4>3 DEF BridgeEffect
    <3>2. CASE ~channel.started
      <4>1. Leaves
        BY <2>3, <3>2 DEF HandleAudio, Leaves
      <4> QED BY <1>4, <2>1, <4>1 DEF BridgeEffect
    <3> QED BY <3>1, <3>2
  <2>4. CASE HandleEos(Tail(up))
    <3>1. CASE channel.started /\ ~channel.eosSeen
      <4>1. TakesEos
        BY <2>1, <2>4, <3>1 DEF TakesEos
      <4> QED BY <1>4, <4>1 DEF BridgeEffect
    <3>2. CASE ~channel.started \/ channel.eosSeen
      <4>1. Leaves
        BY <2>4, <3>2 DEF HandleEos, Leaves
      <4> QED BY <1>4, <2>1, <4>1 DEF BridgeEffect
    <3> QED BY <3>1, <3>2
  <2>5. CASE Leave(<<Error("BAD_START")>>) \/ Leave(<<>>)
    <3>1. Leaves
      BY <2>5 DEF Leaves
    <3> QED BY <1>4, <2>1, <3>1 DEF BridgeEffect
  <2> QED BY <1>4, <2>2, <2>3, <2>4, <2>5 DEF ReadGarbled
<1>5. CASE (ReadStop \/ PeerClosed \/ NotTranscribed) /\ UNCHANGED plugin
  BY <1>5 DEF ReadStop, HeadIs, PeerClosed, NotTranscribed, BridgeEffect
<1>6. CASE BridgeDies
  BY <1>6 DEF BridgeDies, BridgeEffect
<1>7. CASE (Accept \/ ReadStart \/ AsrTake \/ AsrFails \/ Transcribed \/ Matched) /\ UNCHANGED plugin
  BY <1>7 DEF BridgeEffect
<1> QED BY <1>1, <1>2, <1>3, <1>4, <1>5, <1>6, <1>7 DEF ServerNext

\* The bridge's steps preserve the types.
LEMMA BridgeTyped == ASSUME TypeOK, BridgeEffect PROVE TypeOK'
<1>1. line' \in {"new", "open", "closed"} /\ plug' \in Plugs /\ sent' \in Seq(Request) /\ torn' \in Nat
      /\ mrcp' \in Seq(Messages)
  BY DEF TypeOK, BridgeEffect, plugin, given
<1>2. /\ up \in Seq(Parts) /\ Len(up) <= SocketRoom /\ SocketRoom \in Nat /\ down \in Seq(Answers)
      /\ asr.heard \in Seq(Tags)
  BY SocketAssumption DEF TypeOK, Parts, AsrTasks
<1>3. CASE \E frames \in Seq(Answers) : Leave(frames)
  <2>1. PICK frames \in Seq(Answers) : Leave(frames)
    BY <1>3
  <2>2. down \o frames \in Seq(Answers)
    BY <1>2
  <2>3. /\ handler' = "done" /\ servFd' = "closed" /\ up' = <<>> /\ UNCHANGED <<plugFd, channel, synced>>
        /\ (down' = down \/ down' = down \o frames) /\ asr' \in AsrTasks
    BY <2>1, LeaveDoes
  <2>4. up' \in Seq(Headers \cup Payloads) /\ Len(up') <= SocketRoom
    BY <1>2, <2>3
  <2> QED BY <1>1, <1>2, <2>2, <2>3, <2>4 DEF TypeOK
<1>4. CASE Accept \/ Transcribed
  BY <1>1, <1>4 DEF Accept, Transcribed, socket, TypeOK
<1>5. CASE ReadStart
  <2>1. HandleStart(SubSeq(up, 3, Len(up))) /\ Len(up) > 1
    BY <1>5 DEF ReadStart, PayloadFollows
  <2>2. SubSeq(up, 3, Len(up)) \in Seq(Parts) /\ Len(SubSeq(up, 3, Len(up))) <= Len(up)
    BY <1>2, <2>1
  <2>3. /\ channel' \in Channels /\ asr' \in AsrTasks /\ up' = SubSeq(up, 3, Len(up))
        /\ UNCHANGED <<handler, synced, down, plugFd, servFd>>
    BY <2>1, StartDoes
  <2>4. up' \in Seq(Parts) /\ Len(up') <= SocketRoom
    BY <1>2, <2>2, <2>3
  <2> QED BY <1>1, <2>3, <2>4 DEF TypeOK, Parts
<1>6. CASE TakesAudio
  <2>1. PICK of \in Tags, n \in 2..Len(up) + 1 : HandleAudio(of, SubSeq(up, n, Len(up)))
    BY <1>6 DEF TakesAudio
  <2>2. SubSeq(up, n, Len(up)) \in Seq(Parts) /\ Len(SubSeq(up, n, Len(up))) <= Len(up)
    BY <1>2, <2>1
  <2>3. channel.started
    BY <1>6 DEF TakesAudio
  <2>4. /\ channel' \in Channels /\ up' = SubSeq(up, n, Len(up))
        /\ UNCHANGED <<handler, synced, asr, down, plugFd, servFd>>
    BY <2>1, <2>3, AudioDoes
  <2>5. up' \in Seq(Parts) /\ Len(up') <= SocketRoom
    BY <1>2, <2>2, <2>4
  <2> QED BY <1>1, <2>4, <2>5 DEF TypeOK, Parts
<1>7. CASE TakesEos
  <2>1. up # <<>> /\ HandleEos(Tail(up)) /\ channel.started /\ ~channel.eosSeen
    BY <1>7 DEF TakesEos
  <2>2. Tail(up) \in Seq(Parts) /\ Len(Tail(up)) <= Len(up)
    BY <1>2, <2>1, HeadTailProperties
  <2>3. /\ channel' \in Channels /\ up' = Tail(up) /\ handler' = "asr"
        /\ UNCHANGED <<synced, asr, down, plugFd, servFd>>
    BY <2>1, EosDoes
  <2>4. up' \in Seq(Parts) /\ Len(up') <= SocketRoom
    BY <1>2, <2>2, <2>3
  <2> QED BY <1>1, <2>3, <2>4 DEF TypeOK, Parts
<1>8. CASE Skips
  <2>1. up # <<>> /\ up' = Tail(up) /\ synced' = FALSE /\ UNCHANGED <<handler, channel, asr, down, plugFd, servFd>>
    BY <1>8 DEF Skips
  <2>2. up' \in Seq(Parts) /\ Len(up') <= SocketRoom
    BY <1>2, <2>1, HeadTailProperties
  <2> QED BY <1>1, <2>1, <2>2 DEF TypeOK, Parts
<1>9. CASE AsrTake
  BY <1>1, <1>9, TakeDoes DEF socket, TypeOK
<1>10. CASE AsrFails
  <2>1. [asr EXCEPT !.state = "failed"] \in AsrTasks
    BY Zenon DEF TypeOK, AsrTasks, AsrStates
  <2> QED BY <1>1, <1>10, <2>1 DEF AsrFails, socket, TypeOK
<1>11. CASE Matched
  <2>1. Result(asr.heard) \in Answers
    BY <1>2 DEF Result, Answers
  <2>2. down' \in Seq(Answers)
    BY <1>2, <1>11, <2>1 DEF Matched
  <2> QED BY <1>1, <1>11, <2>2 DEF Matched, TypeOK
<1> QED BY <1>3, <1>4, <1>5, <1>6, <1>7, <1>8, <1>9, <1>10, <1>11, ErrorsTyped DEF BridgeEffect, Leaves

-----------------------------------------------------------------------------
(* The requests.                                                           *)

\* A request was asked if the session layer was told that it is in progress.
LEMMA AskedIs ==
    \A r : r \in Asked <=> \E j \in 1..Len(mrcp) : mrcp[j].name = "IN-PROGRESS" /\ mrcp[j].of = r
BY DEF Asked

\* Whatever the plugin says is about a request that has not ended.
LEMMA TalkRequests == ASSUME TypeOK, Requests, Talk PROVE Requests'
<1>1. CASE UNCHANGED mrcp /\ plug'.recog = plug.recog
  BY <1>1 DEF Requests, EndsOnce, Asked
<1>2. ASSUME NEW m \in Messages, mrcp' = Append(mrcp, m),
             \/ /\ m.name = "IN-PROGRESS" /\ m.of \in Request \ Asked
                /\ plug'.recog = m.of
             \/ m.name = "START-OF-INPUT" /\ m.of = plug.recog /\ plug'.recog = plug.recog
             \/ m.name \in Ends /\ m.of = plug.recog /\ plug'.recog = None
      PROVE  Requests'
  <2> DEFINE n == Len(mrcp) + 1
  <2>1. mrcp \in Seq(Messages) /\ Len(mrcp) \in Nat
    BY DEF TypeOK
  <2>2. /\ Len(mrcp') = n /\ mrcp'[n] = m
        /\ \A i \in 1..Len(mrcp) : mrcp'[i] = mrcp[i]
        /\ \A i \in 1..n : i \in 1..Len(mrcp) \/ i = n
    BY <1>2, <2>1
  <2>3. /\ \A r \in Asked : r \in Asked'
        /\ m.name = "IN-PROGRESS" => m.of \in Asked'
    <3>1. \A r : r \in Asked' <=> \E j \in 1..Len(mrcp') : mrcp'[j].name = "IN-PROGRESS" /\ mrcp'[j].of = r
      BY DEF Asked
    <3>2. n \in 1..Len(mrcp') /\ 1..Len(mrcp) \subseteq 1..Len(mrcp')
      BY <2>1, <2>2
    <3> QED BY <2>2, <3>1, <3>2, AskedIs
  <2>4. \A i \in 1..Len(mrcp) : mrcp[i].of # None /\ mrcp[i].name \in Ends => m.of # mrcp[i].of
    BY <1>2 DEF Requests
  <2>5. EndsOnce'
    <3> SUFFICES ASSUME NEW i \in 1..n, NEW j \in 1..n, i < j, mrcp'[i].of # None, mrcp'[i].name \in Ends
                 PROVE  mrcp'[j].of # mrcp'[i].of
      BY <2>2 DEF EndsOnce
    <3>1. i \in 1..Len(mrcp)
      BY <2>1
    <3>2. CASE j = n
      BY <2>2, <2>4, <3>1, <3>2
    <3>3. CASE j \in 1..Len(mrcp)
      BY <2>2, <3>1, <3>3 DEF Requests, EndsOnce
    <3> QED BY <2>2, <3>2, <3>3
  <2>6. \A j \in 1..n : mrcp'[j].of # None => mrcp'[j].of \in Asked'
    BY <1>2, <2>2, <2>3 DEF Requests
  <2>7. plug'.recog # None =>
           /\ plug'.recog \in Asked'
           /\ \A j \in 1..n : mrcp'[j].of = plug'.recog => mrcp'[j].name \notin Ends
    <3>1. CASE m.name = "IN-PROGRESS" /\ m.of \in Request \ Asked /\ plug'.recog = m.of
      <4>1. \A j \in 1..Len(mrcp) : mrcp[j].of = m.of => m.of = None
        BY <3>1 DEF Requests
      <4>2. m.of # None
        BY <3>1, SocketAssumption
      <4> QED BY <2>2, <2>3, <3>1, <4>1, <4>2 DEF Ends
    <3>2. CASE m.name = "START-OF-INPUT" /\ m.of = plug.recog /\ plug'.recog = plug.recog
      BY <2>2, <2>3, <3>2 DEF Requests, Ends
    <3> QED BY <1>2, <3>1, <3>2
  <2> HIDE DEF n
  <2> QED BY <2>2, <2>5, <2>6, <2>7 DEF Requests
<1> QED BY <1>1, <1>2 DEF Talk

\* The bridge says nothing to the session layer.
LEMMA BridgeRequests == ASSUME Requests, BridgeEffect PROVE Requests'
BY DEF BridgeEffect, plugin, Requests, EndsOnce, Asked

-----------------------------------------------------------------------------
(* The connection.                                                         *)

\* The plugin's steps.
LEMMA EffectConnection == ASSUME TypeOK, TypeOK', Connection, Effect PROVE Connection'
<1>0. /\ UNCHANGED <<handler, channel, synced, asr>>
      /\ up \in Seq(Parts) /\ plug.started \in BOOLEAN /\ plug.bridge \in BOOLEAN
  BY DEF Effect, server, TypeOK, Plugs, Parts
<1>1. CASE Quiet
  BY <1>0, <1>1 DEF Quiet, SameLink, SameFlags, given, Connection
<1>2. CASE Opens
  BY <1>0, <1>2 DEF Opens, SameFlags, given, Connection
<1>3. CASE Fails
  BY <1>0, <1>3 DEF Fails, WriteFails, SameFlags, given, Connection
<1>4. CASE WritesStart
  BY <1>0, <1>4 DEF WritesStart, Writes, WriteAll, Writable, given, Connection
<1>5. CASE WritesAudio
  BY <1>0, <1>5 DEF WritesAudio, Forwards, Writable, SameLink, SameFlags, Connection
<1>6. CASE WritesEos
  BY <1>0, <1>6 DEF WritesEos, Writes, WriteAll, Forwards, Writable, given, Connection
<1>7. CASE Closes
  <2>1. ~plug.started =>  up = <<>> 
    BY <1>7 DEF Closes, Connection
  <2>2. up' = up \/ (servFd = "open" /\ up' = Append(up, Header("STOP")))
    BY <1>7 DEF Closes, Writable
  <2>3. ~plug'.started => \A i \in 1..Len(up') : up'[i].type = "STOP"
    BY <1>0, <1>7, <2>1, <2>2, PartsTyped DEF Closes, SameFlags
  <2> QED BY <1>0, <1>7, <2>2, <2>3 DEF Closes, SameFlags, given, Connection
<1> QED BY <1>1, <1>2, <1>3, <1>4, <1>5, <1>6, <1>7 DEF Effect

\* The bridge's steps.  Before START it can only read a STOP.
LEMMA BridgeConnection == ASSUME TypeOK, Connection, BridgeEffect PROVE Connection'
<1>0. /\ UNCHANGED <<line, plug, sent, torn, mrcp>> /\ up \in Seq(Parts)
      /\ ~channel.started => asr.state = "none"
  BY DEF BridgeEffect, plugin, given, TypeOK, Parts, Connection
<1>1. ~plug.started /\ up # <<>> => up[1].type = "STOP"
  BY <1>0 DEF Connection
<1>2. \A type \in {"START", "AUDIO", "EOS"} : Header(type).type # "STOP"
  BY DEF Header
<1>3. CASE \E frames \in Seq(Answers) : Leave(frames) /\ (handler # "none" \/ servFd = "open")
  <2>1. PICK frames \in Seq(Answers) : Leave(frames) /\ (handler # "none" \/ servFd = "open")
    BY <1>3
  <2>2. /\ handler' = "done" /\ servFd' = "closed" /\ up' = <<>> /\ UNCHANGED <<plugFd, channel, synced>>
        /\ (asr.state # "running" => asr' = asr)
    BY <2>1, LeaveDoes
  <2> QED BY <1>0, <2>1, <2>2 DEF Connection
<1>4. CASE Accept \/ Transcribed
  BY <1>0, <1>4 DEF Accept, Transcribed, socket, Connection
<1>5. CASE ReadStart
  <2>1. HandleStart(SubSeq(up, 3, Len(up))) /\ up # <<>> /\ up[1] = Header("START") /\ handler = "reading"
    BY <1>0, <1>5 DEF ReadStart, HeadIs
  <2>2. channel'.started = TRUE /\ UNCHANGED <<handler, synced, down, plugFd, servFd>>
    BY <2>1, StartDoes
  <2>3. plug.started
    BY <1>1, <1>2, <2>1
  <2> QED BY <1>0, <2>1, <2>2, <2>3 DEF Connection
<1>6. CASE TakesAudio
  <2>1. PICK of \in Tags, n \in 2..Len(up) + 1 :
           /\ HandleAudio(of, SubSeq(up, n, Len(up)))
           /\ synced => Len(up) > 1 /\ up[1] = Header("AUDIO")
    BY <1>6 DEF TakesAudio
  <2>2. handler = "reading" /\ channel.started
    BY <1>6 DEF TakesAudio
  <2>3. channel'.started = TRUE /\ UNCHANGED <<handler, synced, asr, down, plugFd, servFd>>
    BY <2>1, <2>2, AudioDoes
  <2> QED BY <1>0, <2>2, <2>3 DEF Connection
<1>7. CASE TakesEos
  <2>1. handler = "reading" /\ HandleEos(Tail(up)) /\ channel.started /\ ~channel.eosSeen
    BY <1>7 DEF TakesEos
  <2>2. channel'.started = TRUE /\ UNCHANGED <<synced, asr, down, plugFd, servFd>> /\ handler' = "asr"
    BY <2>1, EosDoes
  <2> QED BY <1>0, <2>1, <2>2 DEF Connection
<1>8. CASE Skips
  <2>1. /\ up # <<>> /\ up' = Tail(up) /\ handler = "reading"
        /\ synced => up[1].type = "AUDIO"
        /\ UNCHANGED <<handler, channel, asr, down, plugFd, servFd>>
    BY <1>8 DEF Skips
  <2>2. plug.started
    BY <1>1, <2>1 DEF Connection
  <2> QED BY <1>0, <2>1, <2>2 DEF Connection
<1>9. CASE AsrTake
  BY <1>0, <1>9, TakeDoes DEF socket, Connection
<1>10. CASE AsrFails
  BY <1>0, <1>10 DEF AsrFails, socket, Connection
<1>11. CASE Matched
  BY <1>0, <1>11 DEF Matched, Connection
<1> QED BY <1>3, <1>4, <1>5, <1>6, <1>7, <1>8, <1>9, <1>10, <1>11, ErrorsTyped DEF BridgeEffect, Leaves

-----------------------------------------------------------------------------
(* The order of the frames.                                                *)

\* The parts of an audio frame are neither START nor EOS.
LEMMA FitsTypes ==
    ASSUME TypeOK, NEW r \in Request
    PROVE  /\ Fits(r) \in Seq(Parts)
           /\ \A i \in 1..Len(Fits(r)) : Fits(r)[i].type \notin {"START", "EOS"}
<1>1. /\ Header("AUDIO") \in Parts /\ Payload(r) \in Parts
      /\ Header("AUDIO").type = "AUDIO" /\ Payload(r).type = "payload"
  BY PartsTyped
<1>2. CASE Fits(r) = <<>>
  BY <1>2
<1>3. CASE Fits(r) = <<Header("AUDIO")>>
  BY <1>1, <1>3
<1>4. CASE Fits(r) = <<Header("AUDIO"), Payload(r)>>
  BY <1>1, <1>4
<1> QED BY <1>2, <1>3, <1>4, FitsIs DEF AudioParts

\* More of what is neither START nor EOS, at the end.
LEMMA FramingGrows ==
    ASSUME Framing, up \in Seq(Parts), NEW parts \in Seq(Parts), up' = up \o parts,
           \A i \in 1..Len(parts) : parts[i].type \notin {"START", "EOS"},
           UNCHANGED <<channel, servFd, down>>, plug'.started = plug.started, plug'.eosSent = plug.eosSent
    PROVE  Framing'
<1>1. /\ Len(up') = Len(up) + Len(parts) /\ up # <<>> => up' # <<>> /\ up'[1] = up[1]
      /\ \A i \in 1..Len(up') : \/ i \in 1..Len(up) /\ up'[i] = up[i]
                                \/ up'[i].type \notin {"START", "EOS"}
  OBVIOUS
<1>2. plug'.started /\ ~channel'.started /\ servFd' = "open" => up' # <<>> /\ up'[1].type = "START"
  BY <1>1 DEF Framing
<1>3. \A i \in 1..Len(up') : up'[i].type = "START" => i = 1 /\ ~channel'.started
  BY <1>1 DEF Framing
<1>4. \A i \in 1..Len(up') : up'[i].type = "EOS" =>
          plug'.eosSent /\ ~channel'.eosSeen /\ \A j \in 1..Len(up') : up'[j].type = "EOS" => j = i
  BY <1>1 DEF Framing
<1> QED BY <1>2, <1>3, <1>4 DEF Framing

\* The plugin's steps.
LEMMA EffectFraming == ASSUME TypeOK, Connection, Framing, Effect PROVE Framing'
<1>0. /\ UNCHANGED <<handler, channel, synced, asr>>
      /\ up \in Seq(Parts) /\ down \in Seq(Answers) /\ plug.started \in BOOLEAN /\ plug.bridge \in BOOLEAN
  BY DEF Effect, server, TypeOK, Plugs, Parts
<1>1. CASE Quiet
  <2>1. UNCHANGED <<up, servFd>> /\ plug'.started = plug.started /\ plug'.eosSent = plug.eosSent
    BY <1>1 DEF Quiet, SameLink, SameFlags
  <2>2. \A i \in 1..Len(down') : \E j \in 1..Len(down) : down'[i] = down[j]
    <3>1. CASE UNCHANGED down
      BY <3>1
    <3>2. CASE down # <<>> /\ down' = Tail(down)
      BY <1>0, <3>2
    <3> QED BY <1>1, <3>1, <3>2 DEF Quiet
  <2> QED BY <1>0, <2>1, <2>2 DEF Framing
<1>2. CASE Opens
  BY <1>0, <1>2 DEF Opens, SameFlags, given, Connection, Framing
<1>3. CASE Fails
  BY <1>0, <1>3 DEF Fails, WriteFails, SameFlags, given, Framing
<1>4. CASE WritesStart
  <2>1. PICK r \in Request : up' = up \o <<Header("START"), Payload(r)>> /\ Writable /\ UNCHANGED down
    BY <1>4 DEF WritesStart, Writes, WriteAll
  <2>2. up = <<>> /\ ~channel.started /\ ~plug.eosSent /\ channel.eosSeen = FALSE
    BY <1>4, <2>1 DEF WritesStart, Connection, Writable, Channel
  <2>3. /\ Header("START") \in Parts /\ Payload(r) \in Parts
        /\ Header("START").type = "START" /\ Payload(r).type = "payload"
    BY PartsTyped
  <2>4. /\ up' # <<>> /\ up'[1].type = "START" /\ Len(up') = 2 /\ up'[2].type = "payload"
    BY <2>1, <2>2, <2>3
  <2>5. 1..Len(up') = {1, 2}
    BY <2>4
  <2> QED BY <1>0, <2>1, <2>2, <2>4, <2>5 DEF Framing
<1>5. CASE WritesAudio
  <2>1. PICK r \in Request : up' = up \o Fits(r)
    BY <1>5 DEF WritesAudio
  <2>2. UNCHANGED <<servFd, down>> /\ plug'.started = plug.started /\ plug'.eosSent = plug.eosSent
    BY <1>5 DEF WritesAudio, SameLink, SameFlags
  <2> QED BY <1>0, <2>1, <2>2, FitsTypes, FramingGrows
<1>6. CASE WritesEos
  <2>1. /\ up' = Append(up, Header("EOS")) /\ UNCHANGED <<servFd, down>> /\ ~plug.eosSent
        /\ plug'.started = plug.started /\ plug'.eosSent
    BY <1>0, <1>6, PartsTyped, AppendIsConcat DEF WritesEos, Writes, WriteAll, Forwards
  <2>2. Header("EOS") \in Parts /\ Header("EOS").type = "EOS"
    BY PartsTyped
  <2>3. /\ up'[Len(up) + 1].type = "EOS" /\ up' # <<>> /\ \A i \in 1..Len(up) : up'[i] = up[i]
        /\ \A i \in 1..Len(up') : i \in 1..Len(up) \/ i = Len(up) + 1
        /\ up # <<>> => 1 \in 1..Len(up)
    BY <1>0, <2>1, <2>2
  <2>4. \A i \in 1..Len(up) : up[i].type # "EOS"
    BY <2>1 DEF Framing
  <2> QED BY <1>0, <2>1, <2>3, <2>4 DEF Framing
<1>7. CASE Closes
  <2>1. UNCHANGED <<servFd, down>> /\ plug'.started = plug.started /\ plug'.eosSent = plug.eosSent
    BY <1>7 DEF Closes, SameFlags
  <2>2. Header("STOP") \in Parts /\ Header("STOP").type = "STOP"
    BY PartsTyped
  <2>3. CASE UNCHANGED up
    BY <1>0, <2>1, <2>3 DEF Framing
  <2>4. CASE up' = Append(up, Header("STOP"))
    <3>1. up' = up \o <<Header("STOP")>> /\ <<Header("STOP")>> \in Seq(Parts)
      BY <1>0, <2>2, <2>4, AppendIsConcat
    <3>2. \A i \in 1..Len(<<Header("STOP")>>) : <<Header("STOP")>>[i].type \notin {"START", "EOS"}
      BY <2>2
    <3> QED BY <1>0, <2>1, <3>1, <3>2, FramingGrows
  <2> QED BY <1>7, <2>3, <2>4 DEF Closes
<1> QED BY <1>1, <1>2, <1>3, <1>4, <1>5, <1>6, <1>7 DEF Effect

\* Less at the front, once START is read.
LEMMA FramingShrinks ==
    ASSUME Framing, up \in Seq(Parts), NEW n \in 2..Len(up) + 1, up' = SubSeq(up, n, Len(up)),
           channel'.started, channel'.eosSeen = channel.eosSeen, UNCHANGED <<plug, down>>
    PROVE  Framing'
<1>1. \A i \in 1..Len(up') : i + n - 1 \in 2..Len(up) /\ up'[i] = up[i + n - 1]
  OBVIOUS
<1>2. \A i \in 1..Len(up') : up'[i].type # "START"
  BY <1>1 DEF Framing
<1>3. \A i \in 1..Len(up') : up'[i].type = "EOS" =>
          plug'.eosSent /\ ~channel'.eosSeen /\ \A j \in 1..Len(up') : up'[j].type = "EOS" => j = i
  <2> SUFFICES ASSUME NEW i \in 1..Len(up'), up'[i].type = "EOS"
               PROVE  /\ plug.eosSent /\ ~channel.eosSeen
                      /\ \A j \in 1..Len(up') : up'[j].type = "EOS" => j = i
    OBVIOUS
  <2>1. i + n - 1 \in 1..Len(up) /\ up[i + n - 1].type = "EOS"
    BY <1>1
  <2>2. \A j \in 1..Len(up') : up'[j].type = "EOS" => j + n - 1 = i + n - 1
    BY <1>1, <2>1 DEF Framing
  <2> QED BY <2>1, <2>2 DEF Framing
<1> QED BY <1>2, <1>3 DEF Framing

\* The bridge's steps: nothing is refused.
LEMMA BridgeFraming == ASSUME TypeOK, Connection, synced => Framing, BridgeEffect, synced' PROVE Framing'
<1>0. /\ UNCHANGED <<line, plug, sent, torn, mrcp>> /\ up \in Seq(Parts) /\ down \in Seq(Answers)
      /\ plug.started \in BOOLEAN
  BY DEF BridgeEffect, plugin, given, TypeOK, Parts, Plugs
<1>1. synced
  BY AudioDoes, EosDoes, StartDoes, TakeDoes
     DEF BridgeEffect, Leaves, Leave, Accept, ReadStart, TakesAudio, TakesEos, Skips, AsrFails, Transcribed,
         Matched
<1>2. Framing
  BY <1>1
<1>3. ~Refuses
  <2>1. \A type \in {"AUDIO", "EOS"} : Header(type).type = type
    BY PartsTyped
  <2>2. handler = "reading" /\ up # <<>> /\ ~channel.started => up[1].type \in {"START", "STOP"}
    BY <1>0, <1>2 DEF Connection, Framing
  <2>3. up # <<>> /\ channel.eosSeen => up[1].type # "EOS"
    BY <1>0, <1>2 DEF Framing
  <2> QED BY <2>1, <2>2, <2>3 DEF Refuses
<1>4. CASE \E frames \in {<<>>, <<Error("ASR_FAILED")>>} : Leave(frames)
  <2>1. PICK frames \in {<<>>, <<Error("ASR_FAILED")>>} : Leave(frames)
    BY <1>4
  <2>2. frames \in Seq(Answers) /\ \A i \in 1..Len(frames) : frames[i] = Error("ASR_FAILED")
    <3>1. CASE frames = <<>>
      BY <3>1, ErrorsTyped
    <3>2. CASE frames = <<Error("ASR_FAILED")>>
      BY <3>2, ErrorsTyped
    <3> QED BY <2>1, <3>1, <3>2
  <2>3. Error("ASR_FAILED") # Error("UNEXPECTED_FRAME")
    BY DEF Error
  <2>4. servFd' = "closed" /\ up' = <<>> /\ UNCHANGED channel /\ (down' = down \/ down' = down \o frames)
    BY <2>1, <2>2, LeaveDoes
  <2>5. \A i \in 1..Len(down') : down'[i] # Error("UNEXPECTED_FRAME")
    BY <1>0, <1>2, <2>2, <2>3, <2>4 DEF Framing
  <2> QED BY <1>0, <1>2, <2>4, <2>5 DEF Framing
<1>5. CASE Accept \/ Transcribed \/ AsrFails
  BY <1>0, <1>2, <1>5 DEF Accept, Transcribed, AsrFails, socket, Framing
<1>6. CASE ReadStart
  <2>1. HandleStart(SubSeq(up, 3, Len(up))) /\ Len(up) > 1
    BY <1>6 DEF ReadStart, PayloadFollows
  <2>2. /\ channel'.started = TRUE /\ channel'.eosSeen = channel.eosSeen
        /\ up' = SubSeq(up, 3, Len(up)) /\ UNCHANGED <<down, servFd>>
    BY <2>1, StartDoes
  <2>3. 3 \in 2..Len(up) + 1
    BY <1>0, <2>1
  <2> QED BY <1>0, <1>2, <2>2, <2>3, FramingShrinks
<1>7. CASE TakesAudio
  <2>1. PICK of \in Tags, n \in 2..Len(up) + 1 : HandleAudio(of, SubSeq(up, n, Len(up)))
    BY <1>7 DEF TakesAudio
  <2>2. channel.started
    BY <1>7 DEF TakesAudio
  <2>3. /\ channel'.started = TRUE /\ channel'.eosSeen = channel.eosSeen
        /\ up' = SubSeq(up, n, Len(up)) /\ UNCHANGED <<down, servFd>>
    BY <2>1, <2>2, AudioDoes
  <2> QED BY <1>0, <1>2, <2>3, FramingShrinks
<1>8. CASE TakesEos
  <2>1. /\ HandleEos(Tail(up)) /\ channel.started /\ ~channel.eosSeen /\ up # <<>>
        /\ up[1] = Header("EOS")
    BY <1>1, <1>8 DEF TakesEos
  <2>2. channel'.started = TRUE /\ channel'.eosSeen = TRUE /\ up' = Tail(up) /\ UNCHANGED <<down, servFd>>
    BY <2>1, EosDoes
  <2>3. 1 \in 1..Len(up) /\ up[1].type = "EOS" /\ \A i \in 1..Len(up') : i + 1 \in 1..Len(up) /\ up'[i] = up[i + 1] /\ i + 1 # 1
    BY <1>0, <2>1, <2>2, PartsTyped
  <2>4. plug.eosSent /\ \A i \in 1..Len(up') : up'[i].type \notin {"START", "EOS"}
    BY <1>2, <2>3 DEF Framing
  <2> QED BY <1>0, <1>2, <2>2, <2>4 DEF Framing
<1>9. CASE AsrTake
  BY <1>0, <1>2, <1>9, TakeDoes DEF socket, Framing
<1>10. CASE Matched
  <2>1. Result(asr.heard) # Error("UNEXPECTED_FRAME") /\ Result(asr.heard) \in Answers
    BY DEF Result, Error, Answers, TypeOK, AsrTasks
  <2>2. UNCHANGED <<up, servFd, channel>> /\ (down' = down \/ down' = Append(down, Result(asr.heard)))
    BY <1>10 DEF Matched
  <2>3. \A i \in 1..Len(down') : down'[i] # Error("UNEXPECTED_FRAME")
    <3>1. \A i \in 1..Len(down) : down[i] # Error("UNEXPECTED_FRAME")
      BY <1>2 DEF Framing
    <3>2. \A i \in 1..Len(down') : (i \in 1..Len(down) /\ down'[i] = down[i]) \/ down'[i] = Result(asr.heard)
      BY <1>0, <2>1, <2>2, AppendProperties
    <3> QED BY <2>1, <3>1, <3>2
  <2> QED BY <1>0, <1>2, <2>2, <2>3 DEF Framing
<1> QED BY <1>1, <1>3, <1>4, <1>5, <1>6, <1>7, <1>8, <1>9, <1>10 DEF BridgeEffect, Skips

-----------------------------------------------------------------------------
(* The two paths of the audio.                                             *)

\* Taking the first element of the queue leaves the whole as it was.
LEMMA TakeKeepsWhole ==
    ASSUME NEW S, NEW s \in Seq(S), NEW q \in Seq(S), q # <<>>
    PROVE  Append(s, Head(q)) \o Tail(q) = s \o q
<1>1. Head(q) \in S /\ Tail(q) \in Seq(S) /\ Len(Tail(q)) = Len(q) - 1 /\ Head(q) = q[1]
      /\ \A i \in 1..Len(Tail(q)) : Tail(q)[i] = q[i + 1]
  BY HeadTailProperties
<1> DEFINE l == Append(s, Head(q)) \o Tail(q)
           r == s \o q
<1>2. l \in Seq(S) /\ r \in Seq(S) /\ Len(l) = Len(s) + Len(q) /\ Len(r) = Len(s) + Len(q)
  BY <1>1
<1>3. \A i \in 1..Len(l) : l[i] = r[i]
  BY <1>1, <1>2
<1> QED BY <1>2, <1>3, SeqEqual

\* Adding at the end of the queue adds at the end of the whole.
LEMMA AddKeepsOrder ==
    ASSUME NEW S, NEW s \in Seq(S), NEW q \in Seq(S), NEW x \in S
    PROVE  s \o Append(q, x) = Append(s \o q, x)
<1> DEFINE l == s \o Append(q, x)
           r == Append(s \o q, x)
<1>1. l \in Seq(S) /\ r \in Seq(S) /\ Len(l) = Len(s) + Len(q) + 1 /\ Len(r) = Len(s) + Len(q) + 1
  OBVIOUS
<1>2. \A i \in 1..Len(l) : l[i] = r[i]
  BY <1>1
<1> QED BY <1>1, <1>2, SeqEqual

\* The sentinel is last: when it is taken, all before it was.
LEMMA SentinelIsLast ==
    ASSUME NEW S, NEW x, x \notin S, NEW a \in Seq(S), NEW h \in Seq(S), NEW q \in Seq(S \cup {x}),
           q # <<>>, Head(q) = x, h \o q = Append(a, x)
    PROVE  h = a
<1>1. h \in Seq(S \cup {x}) /\ a \in Seq(S \cup {x})
  BY SeqMonotonic
<1>2. Len(h \o q) = Len(h) + Len(q) /\ Len(Append(a, x)) = Len(a) + 1 /\ Len(q) > 0
  BY <1>1, EmptySeq
<1>3. (h \o q)[Len(h) + 1] = x
  <2>1. \A T : \A s, t \in Seq(T) : t # <<>> => (s \o t)[Len(s) + 1] = Head(t)
    OBVIOUS
  <2> QED BY <1>1, <2>1
<1>4. ~(Len(h) + 1 \in 1..Len(a))
  <2> SUFFICES ASSUME Len(h) + 1 \in 1..Len(a) PROVE FALSE
    OBVIOUS
  <2>1. Append(a, x)[Len(h) + 1] = a[Len(h) + 1]
    BY <1>1
  <2>2. a[Len(h) + 1] \in S
    BY ElementOfSeq
  <2> QED BY <1>3, <2>1, <2>2
<1>5. Len(h) = Len(a)
  BY <1>1, <1>2, <1>4
<1>6. \A i \in 1..Len(h) : h[i] = a[i]
  BY <1>1, <1>2, <1>5
<1> QED BY <1>5, <1>6, SeqEqual

\* The plugin's steps leave the bridge's state alone.
LEMMA EffectMirrored == ASSUME Mirrored, Effect PROVE Mirrored'
BY DEF Effect, server, Mirrored, PathsHearTheSame

\* Tags are not the sentinel.
LEMMA SentinelIsNoTag == Sentinel \notin Tags
BY SocketAssumption, ServerAssumption DEF Sentinel, Tags

Items == Tags \cup {Sentinel}

\* The same for what the queue may hold.
LEMMA QueueFacts ==
    /\ \A s \in Seq(Tags) : s \in Seq(Items)
    /\ \A s, q \in Seq(Items) : q # <<>> => Append(s, Head(q)) \o Tail(q) = s \o q
    /\ \A s, q \in Seq(Items), x \in Items : s \o Append(q, x) = Append(s \o q, x)
    /\ \A a, h \in Seq(Tags), q \in Seq(Items) :
          q # <<>> /\ Head(q) = Sentinel /\ h \o q = Append(a, Sentinel) => h = a
<1>1. \A s \in Seq(Tags) : s \in Seq(Items)
  BY SeqMonotonic DEF Items
<1>2. \A s, q \in Seq(Items) : q # <<>> => Append(s, Head(q)) \o Tail(q) = s \o q
  BY TakeKeepsWhole
<1>3. \A s, q \in Seq(Items), x \in Items : s \o Append(q, x) = Append(s \o q, x)
  BY AddKeepsOrder
<1>4. \A a, h \in Seq(Tags), q \in Seq(Items) :
          q # <<>> /\ Head(q) = Sentinel /\ h \o q = Append(a, Sentinel) => h = a
  BY SentinelIsLast, SentinelIsNoTag DEF Items
<1> QED BY <1>1, <1>2, <1>3, <1>4

\* The bridge's steps.
LEMMA BridgeMirrored ==
    ASSUME TypeOK, Connection, synced => Framing, Mirrored, BridgeEffect
    PROVE  Mirrored'
<1>0. /\ up \in Seq(Parts) /\ channel.queue \in Seq(Items) /\ channel.accum \in Seq(Tags)
      /\ asr.heard \in Seq(Tags) /\ asr.heard \in Seq(Items) /\ Sentinel \in Items /\ Tags \subseteq Items
  BY QueueFacts DEF TypeOK, Parts, Channels, AsrTasks, Items
<1>1. CASE \E frames \in Seq(Answers) : Leave(frames)
  <2>1. handler' = "done"
    BY <1>1 DEF Leave
  <2> QED BY <2>1 DEF Mirrored, PathsHearTheSame
<1>2. CASE Accept
  BY <1>2 DEF Accept, Mirrored, PathsHearTheSame
<1>3. CASE ReadStart
  <2>1. HandleStart(SubSeq(up, 3, Len(up))) /\ handler = "reading" /\ up # <<>> /\ up[1] = Header("START") /\ synced
    BY <1>0, <1>3 DEF ReadStart, HeadIs
  <2>2. /\ channel'.eosSeen = channel.eosSeen /\ channel'.queue = channel.queue
        /\ channel'.accum = channel.accum /\ channel'.overflow = channel.overflow
        /\ asr'.state = "running" /\ asr'.heard = <<>> /\ UNCHANGED handler
    BY <2>1, StartDoes
  <2>3. ~channel.started
    BY <1>0, <2>1, PartsTyped DEF Framing
  <2>4. channel.queue = <<>> /\ asr.heard = <<>>
    BY <2>3 DEF Connection, Channel
  <2> QED BY <2>1, <2>2, <2>4 DEF Mirrored, PathsHearTheSame
<1>4. CASE TakesAudio
  <2>1. PICK of \in Tags, n \in 2..Len(up) + 1 : HandleAudio(of, SubSeq(up, n, Len(up)))
    BY <1>4 DEF TakesAudio
  <2>2. channel.started /\ handler = "reading"
    BY <1>4 DEF TakesAudio
  <2>3. /\ channel'.eosSeen = channel.eosSeen /\ channel'.queue = Append(channel.queue, of)
        /\ ~channel'.overflow => ~channel.overflow /\ channel'.accum = Append(channel.accum, of)
        /\ UNCHANGED <<handler, asr>>
    BY <2>1, <2>2, AudioDoes
  <2>4. ~channel.eosSeen => channel'.queue \in Seq(Tags) /\ asr'.state # "done"
    <3>1. ~channel.eosSeen => channel.queue \in Seq(Tags) /\ asr.state # "done"
      BY <2>2 DEF Mirrored
    <3> QED BY <2>3, <3>1, AppendProperties
  <2>5. ~channel.eosSeen /\ ~channel'.overflow => channel'.accum = asr'.heard \o channel'.queue
    <3> SUFFICES ASSUME ~channel.eosSeen, ~channel'.overflow
                 PROVE  channel'.accum = asr.heard \o channel'.queue
      BY <2>3
    <3>1. channel.accum = asr.heard \o channel.queue
      BY <2>2, <2>3 DEF Mirrored
    <3>2. asr.heard \o Append(channel.queue, of) = Append(asr.heard \o channel.queue, of)
      BY <1>0, QueueFacts
    <3> QED BY <2>3, <3>1, <3>2
  <2> QED BY <2>2, <2>3, <2>4, <2>5 DEF Mirrored, PathsHearTheSame
<1>5. CASE TakesEos
  <2>1. handler = "reading" /\ HandleEos(Tail(up)) /\ channel.started /\ ~channel.eosSeen
    BY <1>5 DEF TakesEos
  <2>2. /\ channel'.eosSeen = TRUE /\ channel'.queue = Append(channel.queue, Sentinel)
        /\ channel'.overflow = channel.overflow /\ channel'.accum = channel.accum
        /\ handler' = "asr" /\ UNCHANGED asr
    BY <2>1, EosDoes
  <2>3. asr.state # "done" /\ (~channel.overflow => channel.accum = asr.heard \o channel.queue)
    BY <2>1 DEF Mirrored
  <2>4. asr.heard \o channel'.queue = Append(asr.heard \o channel.queue, Sentinel)
    <3>1. asr.heard \o Append(channel.queue, Sentinel) = Append(asr.heard \o channel.queue, Sentinel)
      BY <1>0, QueueFacts
    <3> QED BY <2>2, <3>1
  <2> QED BY <2>2, <2>3, <2>4 DEF Mirrored, PathsHearTheSame
<1>6. CASE Skips
  BY <1>6 DEF Skips, Mirrored, PathsHearTheSame
<1>7. CASE AsrTake
  <2> DEFINE x == Head(channel.queue)
  <2>1. /\ channel'.eosSeen = channel.eosSeen /\ channel'.queue = Tail(channel.queue)
        /\ channel'.overflow = channel.overflow /\ channel'.accum = channel.accum
        /\ channel.queue # <<>> /\ asr.state = "running" /\ UNCHANGED handler
        /\ x = Sentinel => asr'.state = "done" /\ asr'.heard = asr.heard
        /\ x # Sentinel => /\ x \in Tags /\ asr'.state = "running"
                           /\ asr'.heard = Append(asr.heard, x)
    BY <1>7, TakeDoes
  <2>2. handler # "match"
    BY <2>1 DEF Mirrored
  <2>3. x # Sentinel => asr'.heard \o channel'.queue = asr.heard \o channel.queue
    BY <1>0, <2>1, QueueFacts
  <2>4. CASE handler \in {"none", "reading"} /\ ~channel.eosSeen
    <3>1. channel.queue \in Seq(Tags)
      BY <2>4 DEF Mirrored
    <3>2. x \in Tags /\ Tail(channel.queue) \in Seq(Tags)
      BY <2>1, <3>1, HeadTailProperties
    <3>3. x # Sentinel
      BY <3>2, SentinelIsNoTag
    <3> HIDE DEF x
    <3> QED BY <2>1, <2>2, <2>3, <2>4, <3>2, <3>3 DEF Mirrored, PathsHearTheSame
  <2>5. CASE handler = "asr"
    <3>1. x = Sentinel /\ ~channel.overflow => channel.accum = asr.heard
      <4> SUFFICES ASSUME x = Sentinel, ~channel.overflow PROVE channel.accum = asr.heard
        OBVIOUS
      <4>1. Append(channel.accum, Sentinel) = asr.heard \o channel.queue
        BY <2>1, <2>5 DEF Mirrored
      <4> QED BY <1>0, <2>1, <4>1, QueueFacts
    <3> HIDE DEF x
    <3> QED BY <2>1, <2>3, <2>5, <3>1 DEF Mirrored, PathsHearTheSame
  <2> HIDE DEF x
  <2>6. CASE handler \notin {"asr"} /\ ~(handler \in {"none", "reading"} /\ ~channel.eosSeen)
    BY <2>1, <2>2, <2>6 DEF Mirrored, PathsHearTheSame
  <2> QED BY <2>4, <2>5, <2>6
<1>8. CASE AsrFails
  <2> DEFINE a == [asr EXCEPT !.state = "failed"]
  <2>1. a.state = "failed" /\ a.heard = asr.heard
    BY Zenon DEF TypeOK, AsrTasks
  <2>2. asr' = a /\ asr.state = "running" /\ UNCHANGED <<handler, channel>>
    BY <1>8 DEF AsrFails
  <2> HIDE DEF a
  <2> QED BY <2>1, <2>2 DEF Mirrored, PathsHearTheSame
<1>9. CASE Transcribed
  BY <1>9 DEF Transcribed, Mirrored, PathsHearTheSame
<1>10. CASE Matched
  BY <1>10 DEF Matched, Mirrored, PathsHearTheSame
<1> QED BY <1>1, <1>2, <1>3, <1>4, <1>5, <1>6, <1>7, <1>8, <1>9, <1>10, ErrorsTyped DEF BridgeEffect, Leaves

-----------------------------------------------------------------------------
(* What was forwarded is what is transcribed.                              *)

\* The lengths are numbers.
LEMMA CountsTyped == ASSUME TypeOK PROVE /\ Len(asr.heard) \in Nat /\ Len(channel.queue) \in Nat
                                         /\ Taken \in Nat /\ Len(sent) \in Nat /\ Len(up) \in Nat
BY DEF TypeOK, AsrTasks, Channels, Taken

\* The plugin's steps, while the bridge has not seen EOS.
LEMMA EffectFlight ==
    ASSUME TypeOK, Connection, Effect, torn = 0, torn' = 0, servFd' = "open", ~channel.eosSeen,
           servFd = "open" => Flight /\ \A i \in 1..Taken : Dispatched[i] = sent[i]
    PROVE  Flight' /\ \A i \in 1..Taken' : Dispatched'[i] = sent'[i]
<1>0. /\ UNCHANGED <<handler, channel, synced, asr>> /\ Taken' = Taken /\ Dispatched' = Dispatched
      /\ up \in Seq(Parts) /\ sent \in Seq(Request) /\ plug.started \in BOOLEAN /\ plug.bridge \in BOOLEAN
      /\ plug.eosSent \in BOOLEAN /\ plug' \in Plugs
  BY DEF Effect, server, TypeOK, Plugs, Parts, Taken, Dispatched
<1>1. Taken \in Nat /\ Len(sent) \in Nat /\ Len(up) \in Nat /\ plug'.eosSent \in BOOLEAN
  BY <1>0, CountsTyped DEF Plugs
<1>2. ~plug.started => sent = <<>> /\ Taken = 0 /\ ~plug.eosSent
  <2>1. ~plug.started => channel.queue = <<>> /\ asr.heard = <<>> /\ sent = <<>> /\ ~plug.eosSent
    BY DEF Connection, Channel
  <2>2. ~plug.started => Len(channel.queue) = 0 /\ Len(asr.heard) = 0
    BY <2>1
  <2>3. \A m, n \in Nat : m = 0 /\ n = 0 => m + n = 0
    OBVIOUS
  <2>4. ~plug.started => Taken = 0
    BY <2>2, <2>3, CountsTyped DEF Taken
  <2> QED BY <2>1, <2>4
<1>3. CASE Opens \/ WritesStart
  <2>1. ~plug.started /\ UNCHANGED given /\ ~plug'.eosSent /\ up = <<>>
    BY <1>2, <1>3 DEF Opens, SameFlags, WritesStart, Writes, WriteAll, Writable, Connection
  <2>2. sent' = <<>> /\ Taken' = 0
    BY <1>0, <1>2, <2>1 DEF given
  <2>3. CASE up' = <<>>
    <3>1. InFlight(0, 0, 0, 0)'
      BY <2>1, <2>2, <2>3 DEF InFlight
    <3> QED BY <2>2, <3>1 DEF Flight
  <2>4. CASE \E r \in Request : up' = up \o <<Header("START"), Payload(r)>>
    <3>1. PICK r \in Request : up' = up \o <<Header("START"), Payload(r)>>
      BY <2>4
    <3>2. /\ Header("START") \in Parts /\ Payload(r) \in Parts /\ Header("START").type = "START"
      BY PartsTyped
    <3>3. Len(up') = 2 /\ up'[1].type = "START"
      BY <2>1, <3>1, <3>2
    <3>4. InFlight(2, 0, 0, 0)'
      BY <2>1, <2>2, <3>3 DEF InFlight
    <3> QED BY <2>2, <3>4 DEF Flight
  <2> QED BY <1>3, <2>1, <2>3, <2>4 DEF Opens, WritesStart, Writes, WriteAll
<1>4. CASE ~(Opens \/ WritesStart)
  <2>1. servFd = "open"
    BY <1>4 DEF Effect, Quiet, Fails, WriteFails, WritesAudio, WritesEos, Writes, WriteAll, Closes
  <2>2. PICK b \in {0, 2}, k \in 0..Len(sent), e \in {0, 1}, s \in {0, 1} : InFlight(b, k, e, s)
    BY <2>1 DEF Flight
  <2>3. k \in Nat /\ \A i \in 1..Taken : Dispatched[i] = sent[i]
    BY <1>1, <2>1, <2>2
  <2>4. CASE UNCHANGED <<up, sent>> /\ (plugFd' = plugFd \/ plugFd' = "closed") /\ plug'.eosSent = plug.eosSent
    <3>1. InFlight(b, k, e, s)'
      BY <1>0, <2>2, <2>4 DEF InFlight
    <3> QED BY <1>0, <2>2, <2>3, <2>4, <3>1 DEF Flight
  <2>5. ASSUME NEW r \in Request, up' = up \o AudioParts(r), sent' = Append(sent, r), plugFd' = plugFd,
               plugFd = "open", ~plug.eosSent, plug'.eosSent = plug.eosSent
        PROVE  Flight' /\ \A i \in 1..Taken' : Dispatched'[i] = sent'[i]
    <3>1. e = 0 /\ s = 0
      BY <2>2, <2>5 DEF InFlight
    <3>2. /\ Header("AUDIO") \in Parts /\ Payload(r) \in Parts /\ Payload(r).type = "payload"
          /\ Header("AUDIO").type = "AUDIO" /\ Payload(r).of = r
      BY PartsTyped
    <3>3. /\ Len(up') = Len(up) + 2 /\ up'[Len(up) + 1].type = "AUDIO"
          /\ up'[Len(up) + 2].type = "payload" /\ up'[Len(up) + 2].of = r
          /\ \A i \in 1..Len(up) : up'[i] = up[i]
      BY <1>0, <2>5, <3>2 DEF AudioParts
    <3>4. /\ Len(sent') = Len(sent) + 1 /\ sent'[Len(sent) + 1] = r /\ \A i \in 1..Len(sent) : sent'[i] = sent[i]
      BY <1>0, <2>5
    <3>5. Len(sent) = Taken + k /\ Len(up) = b + 2 * k
      BY <2>2, <2>3, <3>1 DEF InFlight
    <3>6. ASSUME NEW i \in 1..k + 1
          PROVE  /\ up'[b + 2 * i - 1].type = "AUDIO" /\ up'[b + 2 * i].type = "payload"
                 /\ up'[b + 2 * i].of = sent'[Taken + i]
      <4>1. CASE i \in 1..k
        <5>1. b + 2 * i - 1 \in 1..Len(up) /\ b + 2 * i \in 1..Len(up) /\ Taken + i \in 1..Len(sent)
          BY <1>1, <2>3, <3>5, <4>1
        <5> QED BY <2>2, <3>3, <3>4, <4>1, <5>1 DEF InFlight
      <4>2. CASE i = k + 1
        <5>1. b + 2 * i - 1 = Len(up) + 1 /\ b + 2 * i = Len(up) + 2 /\ Taken + i = Len(sent) + 1
          BY <1>1, <2>3, <3>5, <4>2
        <5> QED BY <3>3, <3>4, <5>1
      <4> QED BY <2>3, <4>1, <4>2
    <3>7. InFlight(b, k + 1, 0, 0)'
      <4>1. b = 2 => up'[1].type = "START"
        BY <1>1, <2>2, <2>3, <3>3, <3>5 DEF InFlight
      <4>2. Len(sent') = Taken + (k + 1) /\ Len(up') = b + 2 * (k + 1) + 0 + 0
        BY <1>1, <2>3, <3>3, <3>4, <3>5
      <4>3. \A i \in 1..k + 1 : /\ up'[b + 2 * i - 1].type = "AUDIO" /\ up'[b + 2 * i].type = "payload"
                                /\ up'[b + 2 * i].of = sent'[Taken' + i]
        BY <1>0, <3>6
      <4>4. ~plug'.eosSent /\ Len(sent') = Taken' + (k + 1)
        BY <1>0, <2>5, <4>2
      <4> QED BY <4>1, <4>2, <4>3, <4>4 DEF InFlight
    <3>8. k + 1 \in 0..Len(sent')
      BY <1>1, <2>3, <3>4, <3>5
    <3>9. \A i \in 1..Taken' : Dispatched'[i] = sent'[i]
      BY <1>0, <1>1, <2>3, <3>4, <3>5
    <3> QED BY <2>2, <3>7, <3>8, <3>9 DEF Flight
  <2>6. CASE WritesEos
    <3>1. /\ up' = up \o <<Header("EOS")>> /\ plugFd' = plugFd /\ plugFd = "open" /\ UNCHANGED sent
          /\ ~plug.eosSent /\ plug'.eosSent
      BY <2>6 DEF WritesEos, Writes, WriteAll, Writable, Forwards, given
    <3>2. e = 0 /\ s = 0
      BY <2>2, <3>1 DEF InFlight
    <3>3. Header("EOS") \in Parts /\ Header("EOS").type = "EOS"
      BY PartsTyped
    <3>4. /\ Len(up') = Len(up) + 1 /\ up'[Len(up) + 1].type = "EOS" /\ \A i \in 1..Len(up) : up'[i] = up[i]
      BY <1>0, <3>1, <3>3
    <3>5. Len(sent) = Taken + k /\ Len(up) = b + 2 * k
      BY <2>2, <2>3, <3>2 DEF InFlight
    <3>6. /\ b = 2 => 1 \in 1..Len(up)
          /\ \A i \in 1..k : b + 2 * i - 1 \in 1..Len(up) /\ b + 2 * i \in 1..Len(up)
          /\ Len(up') = b + 2 * k + 1 + 0 /\ Len(up) + 1 = b + 2 * k + 1
      BY <1>1, <2>2, <2>3, <3>4, <3>5
    <3>7. InFlight(b, k, 1, 0)'
      <4>1. b = 2 => up'[1].type = "START"
        BY <2>2, <3>4, <3>6 DEF InFlight
      <4>2. \A i \in 1..k : /\ up'[b + 2 * i - 1].type = "AUDIO" /\ up'[b + 2 * i].type = "payload"
                            /\ up'[b + 2 * i].of = sent'[Taken' + i]
        BY <1>0, <2>2, <3>1, <3>4, <3>6 DEF InFlight
      <4>3. up'[b + 2 * k + 1].type = "EOS" /\ Len(sent') = Taken' + k
        BY <1>0, <3>1, <3>4, <3>5, <3>6
      <4>4. plug'.eosSent = TRUE
        BY <1>1, <3>1
      <4> QED BY <3>6, <4>1, <4>2, <4>3, <4>4 DEF InFlight
    <3> QED BY <1>0, <2>2, <2>3, <3>1, <3>7 DEF Flight
  <2>7. ASSUME Closes, up' = Append(up, Header("STOP"))
        PROVE  Flight' /\ \A i \in 1..Taken' : Dispatched'[i] = sent'[i]
    <3>1. plugFd = "open" /\ plugFd' = "closed" /\ UNCHANGED sent /\ plug'.eosSent = plug.eosSent
      BY <2>7 DEF Closes, Connection, SameFlags, given
    <3>2. s = 0
      BY <2>2, <3>1 DEF InFlight
    <3>3. Header("STOP") \in Parts /\ Header("STOP").type = "STOP"
      BY PartsTyped
    <3>4. /\ Len(up') = Len(up) + 1 /\ up'[Len(up) + 1].type = "STOP" /\ \A i \in 1..Len(up) : up'[i] = up[i]
      BY <1>0, <2>7, <3>3
    <3>5. Len(sent) = Taken + k /\ Len(up) = b + 2 * k + e
      BY <2>2, <2>3, <3>2 DEF InFlight
    <3>6. /\ b = 2 => 1 \in 1..Len(up)
          /\ \A i \in 1..k : b + 2 * i - 1 \in 1..Len(up) /\ b + 2 * i \in 1..Len(up)
          /\ e = 1 => b + 2 * k + 1 \in 1..Len(up)
          /\ Len(up') = b + 2 * k + e + 1 /\ Len(up) + 1 = b + 2 * k + e + 1
      BY <1>1, <2>3, <3>4, <3>5
    <3>7. InFlight(b, k, e, 1)'
      BY <1>0, <2>2, <3>1, <3>4, <3>5, <3>6 DEF InFlight
    <3> QED BY <1>0, <2>2, <2>3, <3>1, <3>7 DEF Flight
  <2>8. CASE WritesAudio
    <3>1. PICK r \in Request : /\ up' = up \o Fits(r)
                               /\ sent' = IF Len(Fits(r)) = 2 THEN Append(sent, r) ELSE sent
                               /\ torn' = IF Len(Fits(r)) = 1 THEN torn + 1 ELSE torn
      BY <2>8 DEF WritesAudio
    <3>2. plugFd' = plugFd /\ plugFd = "open" /\ ~plug.eosSent /\ plug'.eosSent = plug.eosSent
      BY <2>8 DEF WritesAudio, Writable, Forwards, SameLink, SameFlags
    <3>3. CASE Fits(r) = <<>>
      BY <1>0, <2>4, <3>1, <3>2, <3>3
    <3>4. CASE Fits(r) = <<Header("AUDIO")>>
      BY <3>1, <3>4
    <3>5. CASE Fits(r) = AudioParts(r)
      <4>1. Len(AudioParts(r)) = 2
        BY DEF AudioParts
      <4> QED BY <2>5, <3>1, <3>2, <3>5, <4>1
    <3> QED BY <3>3, <3>4, <3>5, FitsIs
  <2>9. CASE Quiet \/ Fails
    BY <2>4, <2>9 DEF Quiet, SameLink, SameFlags, Fails, WriteFails, given
  <2>10. CASE Closes /\ UNCHANGED up
    BY <2>4, <2>10 DEF Closes, SameFlags, given
  <2> QED BY <1>4, <2>6, <2>7, <2>8, <2>9, <2>10 DEF Effect, Closes
<1> QED BY <1>3, <1>4

\* Once EOS was sent, no audio follows on this connection.
LEMMA SentFrozen == ASSUME Connection, Effect, plug.eosSent PROVE sent' = sent /\ plug'.eosSent
BY DEF Connection, Effect, Quiet, Opens, Fails, WritesStart, WritesAudio, WritesEos, Closes, Forwards,
       SameLink, SameFlags, given

\* The plugin's steps.
LEMMA EffectDelivered ==
    ASSUME TypeOK, Connection, Framing, Mirrored, Delivered, Effect, torn = 0, torn' = 0
    PROVE  Delivered'
<1>0. /\ UNCHANGED <<handler, channel, synced, asr>> /\ Dispatched' = Dispatched
      /\ up \in Seq(Parts) /\ down \in Seq(Answers) /\ mrcp \in Seq(Messages)
  BY DEF Effect, server, TypeOK, Parts, Dispatched
<1>1. channel.eosSeen => plug.eosSent
  BY DEF Framing
<1>2. servFd' = "open" /\ ~channel'.eosSeen => Flight' /\ \A i \in 1..Taken' : Dispatched'[i] = sent'[i]
  BY <1>0, EffectFlight DEF Delivered
<1>3. servFd' = "open" /\ channel'.eosSeen => \A i \in 1..Len(up') : up'[i].type = "STOP"
  <2> SUFFICES ASSUME servFd' = "open", channel.eosSeen
               PROVE  \A i \in 1..Len(up') : up'[i].type = "STOP"
    BY <1>0
  <2>1. plug.started /\ plug.eosSent /\ line # "new"
    BY <1>1 DEF Connection
  <2>2. UNCHANGED servFd /\ (up' = up \/ up' = Append(up, Header("STOP")))
    BY <2>1 DEF Effect, Quiet, Opens, Fails, WriteFails, WritesStart, WritesAudio, WritesEos, Closes, Forwards
  <2>3. \A i \in 1..Len(up) : up[i].type = "STOP"
    BY <2>2 DEF Delivered
  <2>4. Header("STOP") \in Parts /\ Header("STOP").type = "STOP"
    BY PartsTyped
  <2>5. \A i \in 1..Len(up') : (i \in 1..Len(up) /\ up'[i] = up[i]) \/ up'[i] = Header("STOP")
    BY <1>0, <2>2, <2>4
  <2> QED BY <2>3, <2>4, <2>5
<1>4. handler \in {"asr", "match"} => sent' = sent
  BY <1>1, SentFrozen DEF Mirrored
<1>5. \A i \in 1..Len(down) : down[i].type = "RESULT" => plug'.eosSent /\ down[i].heard = sent'
  BY SentFrozen DEF Delivered
<1>6. \A i \in 1..Len(down') : down'[i].type = "RESULT" => plug'.eosSent /\ down'[i].heard = sent'
  <2>1. UNCHANGED down \/ (down # <<>> /\ down' = Tail(down))
    BY DEF Effect, Quiet, Opens, Fails, WriteFails, WritesStart, WritesAudio, WritesEos, Closes,
           Writes, WriteAll
  <2>2. \A i \in 1..Len(down') : \E j \in 1..Len(down) : down'[i] = down[j]
    <3>1. CASE UNCHANGED down
      BY <3>1
    <3>2. CASE down # <<>> /\ down' = Tail(down)
      BY <1>0, <3>2
    <3> QED BY <2>1, <3>1, <3>2
  <2> QED BY <1>5, <2>2
<1>7. \A i \in 1..Len(mrcp') :
         mrcp'[i].body.from = "bridge" => plug'.eosSent /\ mrcp'[i].body.heard = sent'
  <2>1. \A i \in 1..Len(mrcp) :
           mrcp[i].body.from = "bridge" => plug'.eosSent /\ mrcp[i].body.heard = sent'
    BY SentFrozen DEF Delivered
  <2>2. CASE UNCHANGED mrcp
    BY <2>1, <2>2
  <2>3. ASSUME NEW m \in Messages, mrcp' = Append(mrcp, m),
               m.body.from = "bridge" =>
                  down # <<>> /\ Head(down).type = "RESULT" /\ m.body.heard = Head(down).heard
        PROVE  \A i \in 1..Len(mrcp') :
                  mrcp'[i].body.from = "bridge" => plug'.eosSent /\ mrcp'[i].body.heard = sent'
    <3>1. down # <<>> => Head(down) = down[1] /\ 1 \in 1..Len(down)
      BY <1>0
    <3>2. m.body.from = "bridge" => plug'.eosSent /\ m.body.heard = sent'
      BY <1>5, <2>3, <3>1
    <3>3. \A i \in 1..Len(mrcp') : (i \in 1..Len(mrcp) /\ mrcp'[i] = mrcp[i]) \/ mrcp'[i] = m
      BY <1>0, <2>3
    <3> QED BY <2>1, <3>2, <3>3
  <2> QED BY <2>2, <2>3 DEF Effect, Talk
<1>8. /\ handler' = "asr" => /\ asr'.state = "running" => Dispatched' = Append(sent', Sentinel)
                             /\ asr'.state = "done" => asr'.heard = sent'
      /\ handler' = "match" => asr'.heard = sent'
      /\ synced'
  BY <1>0, <1>4 DEF Delivered
<1> QED BY <1>2, <1>3, <1>6, <1>7, <1>8 DEF Delivered

\* The bridge reads START.
LEMMA StartDelivered ==
    ASSUME TypeOK, Connection, Framing, Flight, UNCHANGED plugin, ReadStart
    PROVE  Flight' /\ Taken' = 0
<1>0. up \in Seq(Parts) /\ sent \in Seq(Request) /\ UNCHANGED <<sent, plug>>
  BY DEF TypeOK, Parts, plugin, given
<1>1. HandleStart(SubSeq(up, 3, Len(up))) /\ Len(up) > 1 /\ up[1] = Header("START")
  BY <1>0 DEF ReadStart, HeadIs, PayloadFollows
<1>2. up[1].type = "START"
  BY <1>1, PartsTyped
<1>3. /\ up' = SubSeq(up, 3, Len(up)) /\ channel'.queue = channel.queue /\ asr'.heard = <<>>
      /\ UNCHANGED plugFd
  BY <1>1, StartDoes
<1>4. ~channel.started
  BY <1>0, <1>1, <1>2 DEF Framing
<1>5. channel.queue = <<>> /\ asr.heard = <<>>
  BY <1>4 DEF Connection, Channel
<1>6. Taken = 0 /\ Taken' = 0
  <2>1. Len(channel.queue) = 0 /\ Len(asr.heard) = 0 /\ Len(channel'.queue) = 0 /\ Len(asr'.heard) = 0
    BY <1>3, <1>5
  <2>2. \A m, n \in Nat : m = 0 /\ n = 0 => m + n = 0
    OBVIOUS
  <2> QED BY <2>1, <2>2 DEF Taken
<1>7. PICK b \in {0, 2}, k \in 0..Len(sent), e \in {0, 1}, s \in {0, 1} : InFlight(b, k, e, s)
  BY DEF Flight
<1>8. k \in Nat /\ Len(up) = b + 2 * k + e + s
  BY <1>0, <1>7 DEF InFlight
<1>9. b = 2
  <2> SUFFICES ASSUME b = 0 PROVE FALSE
    BY <1>7
  <2>1. CASE k > 0
    <3>1. 1 \in 1..k
      BY <1>8, <2>1
    <3>2. up[b + 2 * 1 - 1].type = "AUDIO"
      BY <1>7, <3>1 DEF InFlight
    <3> QED BY <1>2, <3>2
  <2>2. CASE k = 0
    BY <1>1, <1>2, <1>7, <1>8, <2>2 DEF InFlight
  <2> QED BY <1>8, <2>1, <2>2
<1>10. /\ Len(up') = 2 * k + e + s /\ \A i \in 1..Len(up') : up'[i] = up[i + 2]
  BY <1>0, <1>1, <1>3, <1>7, <1>8, <1>9
<1>11. \A i \in 1..k : 2 * i - 1 \in 1..Len(up') /\ 2 * i \in 1..Len(up')
  BY <1>7, <1>8, <1>10
<1>12. ASSUME NEW i \in 1..k
       PROVE  /\ up'[0 + 2 * i - 1].type = "AUDIO" /\ up'[0 + 2 * i].type = "payload"
              /\ up'[0 + 2 * i].of = sent'[Taken' + i]
  <2>1. up'[2 * i - 1] = up[2 + 2 * i - 1] /\ up'[2 * i] = up[2 + 2 * i]
    BY <1>8, <1>10, <1>11
  <2>2. up[2 + 2 * i - 1].type = "AUDIO" /\ up[2 + 2 * i].type = "payload" /\ up[2 + 2 * i].of = sent[Taken + i]
    BY <1>7, <1>9 DEF InFlight
  <2> QED BY <1>0, <1>6, <1>8, <2>1, <2>2
<1>13. /\ e = 1 => up'[0 + 2 * k + 1].type = "EOS"
       /\ s = 1 => up'[0 + 2 * k + e + 1].type = "STOP" /\ plugFd' # "open"
  <2>1. /\ e = 1 => up'[2 * k + 1] = up[2 + 2 * k + 1]
        /\ s = 1 => up'[2 * k + e + 1] = up[2 + 2 * k + e + 1]
    BY <1>7, <1>8, <1>10
  <2> QED BY <1>3, <1>7, <1>8, <1>9, <2>1 DEF InFlight
<1>14. /\ Len(sent') = Taken' + k /\ Len(up') = 0 + 2 * k + e + s /\ (plug'.eosSent <=> e = 1)
  BY <1>0, <1>6, <1>7, <1>8, <1>10 DEF InFlight
<1>15. InFlight(0, k, e, s)'
  BY <1>12, <1>13, <1>14 DEF InFlight
<1> QED BY <1>0, <1>6, <1>7, <1>15 DEF Flight

\* What the first part in flight says about the rest.
LEMMA FlightHead ==
    ASSUME TypeOK, up # <<>>, NEW b \in {0, 2}, NEW k \in Nat, NEW e \in {0, 1}, NEW s \in {0, 1},
           InFlight(b, k, e, s)
    PROVE  /\ up[1].type = "AUDIO" => b = 0 /\ k > 0
           /\ up[1].type = "EOS" => b = 0 /\ k = 0 /\ e = 1
<1>1. up \in Seq(Parts) /\ Len(up) = b + 2 * k + e + s /\ Len(up) > 0
  BY DEF TypeOK, Parts, InFlight
<1>2. CASE b = 2
  BY <1>2 DEF InFlight
<1>3. CASE b = 0 /\ k > 0
  <2>1. up[b + 2 * 1 - 1].type = "AUDIO"
    BY <1>3 DEF InFlight
  <2> QED BY <1>3, <2>1
<1>4. CASE b = 0 /\ k = 0 /\ e = 1
  <2>1. up[b + 2 * k + 1].type = "EOS"
    BY <1>4 DEF InFlight
  <2> QED BY <1>4, <2>1
<1>5. CASE b = 0 /\ k = 0 /\ e = 0
  <2>1. s = 1
    BY <1>1, <1>5
  <2>2. up[b + 2 * k + e + 1].type = "STOP"
    BY <2>1 DEF InFlight
  <2> QED BY <1>5, <2>2
<1> QED BY <1>2, <1>3, <1>4, <1>5

\* The dispatched audio is a sequence, and Taken its length.
LEMMA DispatchedTyped == ASSUME TypeOK PROVE Dispatched \in Seq(Items) /\ Len(Dispatched) = Taken /\ Taken \in Nat
<1>1. channel.queue \in Seq(Items) /\ asr.heard \in Seq(Items)
  BY QueueFacts DEF TypeOK, Channels, AsrTasks, Items
<1>2. /\ asr.heard \o channel.queue \in Seq(Items)
      /\ Len(asr.heard \o channel.queue) = Len(asr.heard) + Len(channel.queue)
  BY <1>1, ConcatProperties
<1> QED BY <1>2, CountsTyped DEF Dispatched, Taken

\* The bridge takes an audio frame.
LEMMA AudioDelivered ==
    ASSUME TypeOK, Flight, synced, UNCHANGED plugin, TakesAudio, \A i \in 1..Taken : Dispatched[i] = sent[i]
    PROVE  Flight' /\ \A i \in 1..Taken' : Dispatched'[i] = sent'[i]
<1>0. up \in Seq(Parts) /\ sent \in Seq(Request) /\ UNCHANGED <<sent, plug>>
  BY DEF TypeOK, Parts, plugin, given
<1>1. PICK of \in Tags : /\ HandleAudio(of, SubSeq(up, 3, Len(up))) /\ Len(up) > 1
                         /\ up[1] = Header("AUDIO") /\ up[2].of = of
  BY DEF TakesAudio
<1>2. channel.started
  BY DEF TakesAudio
<1>3. /\ channel'.queue = Append(channel.queue, of) /\ up' = SubSeq(up, 3, Len(up)) /\ UNCHANGED <<asr, plugFd>>
  BY <1>1, <1>2, AudioDoes
<1>4. channel.queue \in Seq(Items) /\ asr.heard \in Seq(Items) /\ of \in Items
  BY QueueFacts DEF TypeOK, Channels, AsrTasks, Items
<1>5. Taken \in Nat /\ Taken' = Taken + 1 /\ Len(sent) \in Nat /\ Len(up) \in Nat
  <2>1. Len(channel'.queue) = Len(channel.queue) + 1 /\ Len(asr'.heard) = Len(asr.heard)
    BY <1>3, <1>4
  <2>2. Taken' = Len(asr.heard) + (Len(channel.queue) + 1)
    BY <2>1, Zenon DEF Taken
  <2>3. Taken = Len(asr.heard) + Len(channel.queue)
    BY Zenon DEF Taken
  <2>4. \A m, n \in Nat : m + (n + 1) = m + n + 1
    OBVIOUS
  <2>5. Len(asr.heard) \in Nat /\ Len(channel.queue) \in Nat /\ Taken \in Nat /\ Len(sent) \in Nat /\ Len(up) \in Nat
    BY CountsTyped
  <2>6. Taken' = Taken + 1
    BY <2>2, <2>3, <2>4, <2>5, Zenon
  <2> QED BY <2>5, <2>6
<1>6. PICK b \in {0, 2}, k \in 0..Len(sent), e \in {0, 1}, s \in {0, 1} : InFlight(b, k, e, s)
  BY DEF Flight
<1>7. k \in Nat /\ Len(up) = b + 2 * k + e + s /\ Len(sent) = Taken + k
  BY <1>5, <1>6 DEF InFlight
<1>8. b = 0 /\ k > 0
  BY <1>0, <1>1, <1>6, <1>7, FlightHead, PartsTyped
<1>9. of = sent[Taken + 1]
  <2>1. 1 \in 1..k
    BY <1>7, <1>8
  <2>2. up[b + 2 * 1].of = sent[Taken + 1]
    BY <1>6, <2>1 DEF InFlight
  <2> QED BY <1>1, <1>8, <2>2
<1>10. Len(up') = 2 * (k - 1) + e + s /\ \A i \in 1..Len(up') : up'[i] = up[i + 2]
  BY <1>0, <1>1, <1>3, <1>6, <1>7, <1>8
<1>11. ASSUME NEW i \in 1..(k - 1)
       PROVE  /\ up'[0 + 2 * i - 1].type = "AUDIO" /\ up'[0 + 2 * i].type = "payload"
              /\ up'[0 + 2 * i].of = sent'[Taken' + i]
  <2>1. 2 * i - 1 \in 1..Len(up') /\ 2 * i \in 1..Len(up') /\ i + 1 \in 1..k
    BY <1>6, <1>7, <1>8, <1>10
  <2>2. up'[2 * i - 1] = up[2 * (i + 1) - 1] /\ up'[2 * i] = up[2 * (i + 1)]
    <3>1. 2 * i - 1 + 2 = 2 * (i + 1) - 1 /\ 2 * i + 2 = 2 * (i + 1)
      BY <1>7
    <3> QED BY <1>10, <2>1, <3>1
  <2>3. /\ up[b + 2 * (i + 1) - 1].type = "AUDIO" /\ up[b + 2 * (i + 1)].type = "payload"
        /\ up[b + 2 * (i + 1)].of = sent[Taken + (i + 1)]
    BY <1>6, <2>1 DEF InFlight
  <2>4. /\ b + 2 * (i + 1) = 2 * (i + 1) /\ b + 2 * (i + 1) - 1 = 2 * (i + 1) - 1
        /\ Taken' + i = Taken + (i + 1) /\ 0 + 2 * i = 2 * i /\ 0 + 2 * i - 1 = 2 * i - 1
    BY <1>5, <1>7, <1>8
  <2> QED BY <1>0, <2>2, <2>3, <2>4
<1>12. /\ e = 1 => up'[0 + 2 * (k - 1) + 1].type = "EOS"
       /\ s = 1 => up'[0 + 2 * (k - 1) + e + 1].type = "STOP" /\ plugFd' # "open"
  <2>1. /\ e = 1 => up'[0 + 2 * (k - 1) + 1] = up[b + 2 * k + 1]
        /\ s = 1 => up'[0 + 2 * (k - 1) + e + 1] = up[b + 2 * k + e + 1]
    BY <1>6, <1>7, <1>8, <1>10
  <2> QED BY <1>3, <1>6, <2>1 DEF InFlight
<1>13. /\ Len(sent') = Taken' + (k - 1) /\ Len(up') = 0 + 2 * (k - 1) + e + s /\ (plug'.eosSent <=> e = 1)
  BY <1>0, <1>5, <1>6, <1>7, <1>10 DEF InFlight
<1>14. InFlight(0, k - 1, e, s)'
  BY <1>11, <1>12, <1>13 DEF InFlight
<1>15. k - 1 \in 0..Len(sent')
  BY <1>0, <1>5, <1>7, <1>8
<1>16. \A i \in 1..Taken' : Dispatched'[i] = sent'[i]
  <2>1. Dispatched \in Seq(Items) /\ Len(Dispatched) = Taken /\ Dispatched' = Append(Dispatched, of)
    <3>1. asr.heard \o Append(channel.queue, of) = Append(asr.heard \o channel.queue, of)
      BY <1>4, QueueFacts
    <3>2. Dispatched' = Append(Dispatched, of)
      BY <1>3, <3>1 DEF Dispatched
    <3> QED BY <3>2, DispatchedTyped
  <2>2. \A i \in 1..Taken' : (i \in 1..Taken /\ Dispatched'[i] = Dispatched[i]) \/ (i = Taken + 1 /\ Dispatched'[i] = of)
    BY <1>4, <1>5, <2>1
  <2> QED BY <1>0, <1>9, <2>2
<1> QED BY <1>6, <1>14, <1>15, <1>16 DEF Flight

\* The bridge takes EOS: it has dispatched all that was forwarded.
LEMMA EosDelivered ==
    ASSUME TypeOK, Flight, synced, TakesEos, \A i \in 1..Taken : Dispatched[i] = sent[i]
    PROVE  Dispatched = sent /\ \A i \in 1..Len(Tail(up)) : Tail(up)[i].type = "STOP"
<1>0. up \in Seq(Parts) /\ sent \in Seq(Request) /\ up # <<>> /\ up[1] = Header("EOS")
  BY DEF TypeOK, Parts, TakesEos
<1>1. channel.queue \in Seq(Items) /\ asr.heard \in Seq(Items) /\ sent \in Seq(Items)
  <2>1. Request \subseteq Items
    BY DEF Items, Tags
  <2> QED BY <1>0, <2>1, SeqMonotonic, QueueFacts DEF TypeOK, Channels, AsrTasks, Items
<1>2. PICK b \in {0, 2}, k \in 0..Len(sent), e \in {0, 1}, s \in {0, 1} : InFlight(b, k, e, s)
  BY DEF Flight
<1>3. k \in Nat /\ Len(up) = b + 2 * k + e + s /\ Len(sent) = Taken + k
  BY <1>0, <1>2 DEF InFlight
<1>4. b = 0 /\ k = 0 /\ e = 1
  BY <1>0, <1>2, <1>3, FlightHead, PartsTyped
<1>5. Dispatched \in Seq(Items) /\ Len(Dispatched) = Taken /\ Taken \in Nat
  BY DispatchedTyped
<1>6. Dispatched = sent
  <2>1. Len(Dispatched) = Len(sent)
    BY <1>3, <1>4, <1>5
  <2> QED BY <1>1, <1>5, <2>1, SeqEqual
<1>7. \A i \in 1..Len(Tail(up)) : i = 1 /\ s = 1 /\ Tail(up)[i] = up[2]
  BY <1>0, <1>2, <1>3, <1>4
<1>8. s = 1 => up[2].type = "STOP"
  BY <1>2, <1>4 DEF InFlight
<1> QED BY <1>6, <1>7, <1>8

\* As long as no frame is torn, the bridge stays in step.
LEMMA NeverSkips == ASSUME TypeOK, Connection, Delivered, Skips PROVE FALSE
<1>0. /\ up \in Seq(Parts) /\ Len(up) > 1 /\ up # <<>> /\ up[1].type = "AUDIO" /\ up[2].type # "payload"
      /\ servFd = "open"
  BY DEF TypeOK, Parts, Skips, Delivered, Connection
<1>1. Flight
  BY <1>0 DEF Delivered
<1>2. PICK b \in {0, 2}, k \in 0..Len(sent), e \in {0, 1}, s \in {0, 1} : InFlight(b, k, e, s)
  BY <1>1 DEF Flight
<1>3. k \in Nat
  BY <1>2, CountsTyped
<1>4. b = 0 /\ k > 0
  BY <1>0, <1>2, <1>3, FlightHead
<1>5. 1 \in 1..k
  BY <1>3, <1>4
<1>6. up[b + 2 * 1].type = "payload"
  BY <1>2, <1>5 DEF InFlight
<1> QED BY <1>0, <1>4, <1>6

\* A step that touches neither end of the stream.
LEMMA FlightSame == ASSUME UNCHANGED <<up, plugFd, sent, plug>>, Taken' = Taken PROVE Flight' <=> Flight
BY DEF Flight, InFlight

\* The task takes one element.
LEMMA TakeDelivered ==
    ASSUME TypeOK, Connection, Mirrored, Delivered, AsrTake, UNCHANGED plugin
    PROVE  Delivered'
<1> DEFINE x == Head(channel.queue)
<1>0. UNCHANGED <<sent, plug, mrcp>>
  BY DEF plugin, given
<1>1. /\ channel'.eosSeen = channel.eosSeen /\ channel'.queue = Tail(channel.queue)
      /\ channel.queue # <<>> /\ asr.state = "running" /\ UNCHANGED <<socket, handler, synced>>
      /\ x = Sentinel => asr'.state = "done" /\ asr'.heard = asr.heard
      /\ x # Sentinel => /\ x \in Tags /\ asr'.state = "running" /\ asr'.heard = Append(asr.heard, x)
  BY TakeDoes
<1>2. /\ channel.queue \in Seq(Items) /\ asr.heard \in Seq(Items) /\ asr.heard \in Seq(Tags)
      /\ sent \in Seq(Tags)
  <2>1. Request \subseteq Tags
    BY DEF Tags
  <2> QED BY <2>1, SeqMonotonic, QueueFacts DEF TypeOK, Channels, AsrTasks, Items
<1>3. handler # "match"
  BY <1>1 DEF Mirrored
<1>4. x # Sentinel => Dispatched' = Dispatched /\ Taken' = Taken
  <2> SUFFICES ASSUME x # Sentinel PROVE Dispatched' = Dispatched /\ Taken' = Taken
    OBVIOUS
  <2>1. Append(asr.heard, x) \o Tail(channel.queue) = asr.heard \o channel.queue
    BY <1>1, <1>2, QueueFacts
  <2>2. Dispatched' = Dispatched
    BY <1>1, <2>1 DEF Dispatched
  <2>3. Taken' = Len(asr.heard) + 1 + (Len(channel.queue) - 1)
    <3>1. x \in Items
      BY <1>1 DEF Items
    <3>2. Len(asr'.heard) = Len(asr.heard) + 1 /\ Len(channel'.queue) = Len(channel.queue) - 1
      BY <1>1, <1>2, <3>1, HeadTailProperties, AppendProperties
    <3> QED BY <3>2 DEF Taken
  <2>4. \A m, n \in Nat : m + 1 + (n - 1) = m + n
    OBVIOUS
  <2>5. Taken' = Taken
    BY <2>3, <2>4, CountsTyped DEF Taken
  <2> QED BY <2>2, <2>5
<1>5. servFd = "open" /\ ~channel.eosSeen => x # Sentinel
  <2> SUFFICES ASSUME servFd = "open", ~channel.eosSeen PROVE x # Sentinel
    OBVIOUS
  <2>1. handler \in {"none", "reading"}
    BY DEF TypeOK, Connection, Mirrored
  <2>2. channel.queue \in Seq(Tags)
    BY <2>1 DEF Mirrored
  <2>3. x \in Tags
    BY <1>1, <2>2, HeadTailProperties
  <2> QED BY <2>3, SentinelIsNoTag
<1>6. UNCHANGED <<up, down, plugFd, servFd>>
  BY <1>1 DEF socket
<1>7. servFd' = "open" /\ ~channel'.eosSeen => Flight' /\ \A i \in 1..Taken' : Dispatched'[i] = sent'[i]
  <2> SUFFICES ASSUME servFd = "open", ~channel.eosSeen
               PROVE  Flight' /\ \A i \in 1..Taken' : Dispatched'[i] = sent'[i]
    BY <1>1, <1>6
  <2>1. Dispatched' = Dispatched /\ Taken' = Taken /\ Flight /\ \A i \in 1..Taken : Dispatched[i] = sent[i]
    BY <1>4, <1>5 DEF Delivered
  <2>2. Flight'
    BY <1>0, <1>6, <2>1, FlightSame
  <2> QED BY <1>0, <2>1, <2>2
<1>8. handler = "asr" => /\ asr'.state = "running" => Dispatched' = Append(sent, Sentinel)
                         /\ asr'.state = "done" => asr'.heard = sent
  <2> SUFFICES ASSUME handler = "asr"
               PROVE  /\ asr'.state = "running" => Dispatched' = Append(sent, Sentinel)
                      /\ asr'.state = "done" => asr'.heard = sent
    OBVIOUS
  <2>1. asr.heard \o channel.queue = Append(sent, Sentinel)
    BY <1>1 DEF Delivered, Dispatched
  <2>2. CASE x = Sentinel
    <3>1. asr.heard = sent
      BY <1>1, <1>2, <2>1, <2>2, QueueFacts
    <3> QED BY <1>1, <2>2, <3>1
  <2>3. CASE x # Sentinel
    BY <1>1, <1>4, <2>1, <2>3 DEF Dispatched
  <2> QED BY <2>2, <2>3
<1> HIDE DEF x
<1> QED BY <1>0, <1>1, <1>3, <1>6, <1>7, <1>8 DEF Delivered

\* The bridge's steps.
LEMMA BridgeDelivered ==
    ASSUME TypeOK, Connection, Framing, Mirrored, Delivered, BridgeEffect
    PROVE  Delivered'
<1>0. /\ UNCHANGED <<sent, plug, mrcp>> /\ UNCHANGED plugin /\ up \in Seq(Parts) /\ down \in Seq(Answers)
      /\ synced
  BY DEF BridgeEffect, plugin, given, TypeOK, Parts, Delivered
<1>1. CASE \E frames \in {<<>>, <<Error("BAD_START")>>, <<Error("UNEXPECTED_FRAME")>>, <<Error("ASR_FAILED")>>} :
              Leave(frames)
  <2>1. PICK frames \in {<<>>, <<Error("BAD_START")>>, <<Error("UNEXPECTED_FRAME")>>, <<Error("ASR_FAILED")>>} :
                Leave(frames)
    BY <1>1
  <2>2. frames \in Seq(Answers) /\ \A i \in 1..Len(frames) : frames[i].type # "RESULT"
    <3>1. CASE frames = <<>>
      BY <3>1, ErrorsTyped
    <3>2. ASSUME NEW code \in {"BAD_START", "UNEXPECTED_FRAME", "ASR_FAILED"}, frames = <<Error(code)>>
          PROVE  frames \in Seq(Answers) /\ \A i \in 1..Len(frames) : frames[i].type # "RESULT"
      BY <3>2, ErrorsTyped
    <3> QED BY <2>1, <3>1, <3>2
  <2>3. /\ handler' = "done" /\ servFd' = "closed" /\ UNCHANGED synced
        /\ down' = down \/ down' = down \o frames
    BY <2>1, <2>2, LeaveDoes
  <2>4. \A i \in 1..Len(down') : (i \in 1..Len(down) /\ down'[i] = down[i]) \/ down'[i].type # "RESULT"
    BY <1>0, <2>2, <2>3
  <2>5. \A i \in 1..Len(down') : down'[i].type = "RESULT" => plug'.eosSent /\ down'[i].heard = sent'
    BY <1>0, <2>4 DEF Delivered
  <2> QED BY <1>0, <2>3, <2>5 DEF Delivered
<1>2. CASE Accept \/ Transcribed
  <2>1. /\ UNCHANGED <<up, down, plugFd, servFd, channel, asr, synced>>
        /\ handler' = "reading" \/ (handler' = "match" /\ handler = "asr" /\ asr.state = "done")
    BY <1>2 DEF Accept, Transcribed, socket
  <2>2. Dispatched' = Dispatched /\ Taken' = Taken
    BY <2>1 DEF Dispatched, Taken
  <2>3. Flight' <=> Flight
    BY <1>0, <2>1, <2>2, FlightSame
  <2> QED BY <1>0, <2>1, <2>2, <2>3 DEF Delivered
<1>3. CASE ReadStart
  <2>1. HandleStart(SubSeq(up, 3, Len(up))) /\ handler = "reading" /\ up # <<>> /\ up[1] = Header("START")
    BY <1>0, <1>3 DEF ReadStart, HeadIs
  <2>2. channel'.eosSeen = channel.eosSeen /\ UNCHANGED <<handler, synced, down, plugFd, servFd>>
    BY <2>1, StartDoes
  <2>3. ~channel.started
    BY <1>0, <2>1, PartsTyped DEF Framing
  <2>4. servFd = "open" /\ channel.eosSeen = FALSE
    BY <2>1, <2>3 DEF Connection, Channel
  <2>5. Flight' /\ Taken' = 0
    BY <1>0, <1>3, <2>4, StartDelivered DEF Delivered
  <2>6. \A i \in 1..Taken' : Dispatched'[i] = sent'[i]
    BY <2>5
  <2> QED BY <1>0, <2>1, <2>2, <2>4, <2>5, <2>6 DEF Delivered
<1>4. CASE TakesAudio
  <2>1. PICK of \in Tags : HandleAudio(of, SubSeq(up, 3, Len(up))) /\ Len(up) > 1 /\ up[1] = Header("AUDIO")
    BY <1>0, <1>4 DEF TakesAudio
  <2>2. handler = "reading" /\ channel.started
    BY <1>4 DEF TakesAudio
  <2>3. channel'.eosSeen = channel.eosSeen /\ UNCHANGED <<handler, synced, asr, down, plugFd, servFd>>
    BY <2>1, <2>2, AudioDoes
  <2>4. servFd = "open" /\ ~channel.eosSeen
    BY <1>0, <2>1, <2>2, PartsTyped DEF Connection, Delivered
  <2>5. Flight' /\ \A i \in 1..Taken' : Dispatched'[i] = sent'[i]
    BY <1>0, <1>4, <2>4, AudioDelivered DEF Delivered
  <2> QED BY <1>0, <2>2, <2>3, <2>4, <2>5 DEF Delivered
<1>5. CASE TakesEos
  <2>1. handler = "reading" /\ HandleEos(Tail(up)) /\ channel.started /\ ~channel.eosSeen
    BY <1>5 DEF TakesEos
  <2>2. /\ channel'.eosSeen = TRUE /\ channel'.queue = Append(channel.queue, Sentinel)
        /\ handler' = "asr" /\ up' = Tail(up) /\ UNCHANGED <<synced, asr, down, plugFd, servFd>>
    BY <2>1, EosDoes
  <2>3. servFd = "open" /\ asr.state # "done"
    BY <2>1 DEF Connection, Mirrored
  <2>4. Dispatched = sent /\ \A i \in 1..Len(Tail(up)) : Tail(up)[i].type = "STOP"
    BY <1>0, <1>5, <2>1, <2>3, EosDelivered DEF Delivered
  <2>5. Dispatched' = Append(sent, Sentinel)
    <3>1. channel.queue \in Seq(Items) /\ asr.heard \in Seq(Items) /\ Sentinel \in Items
      BY QueueFacts DEF TypeOK, Channels, AsrTasks, Items
    <3>2. asr.heard \o Append(channel.queue, Sentinel) = Append(asr.heard \o channel.queue, Sentinel)
      BY <3>1, QueueFacts
    <3> QED BY <2>2, <2>4, <3>2 DEF Dispatched
  <2> QED BY <1>0, <2>2, <2>3, <2>4, <2>5 DEF Delivered
<1>6. CASE Skips
  BY <1>6, NeverSkips
<1>7. CASE AsrTake
  BY <1>0, <1>7, TakeDelivered
<1>8. CASE AsrFails
  <2> DEFINE a == [asr EXCEPT !.state = "failed"]
  <2>1. a.state = "failed" /\ a.heard = asr.heard
    BY Zenon DEF TypeOK, AsrTasks
  <2>2. asr' = a /\ asr.state = "running" /\ UNCHANGED <<up, down, plugFd, servFd, handler, channel, synced>>
    BY <1>8 DEF AsrFails, socket
  <2> HIDE DEF a
  <2>3. Dispatched' = Dispatched /\ Taken' = Taken /\ asr'.heard = asr.heard /\ asr'.state = "failed"
    BY <2>1, <2>2 DEF Dispatched, Taken
  <2>4. Flight' <=> Flight
    BY <1>0, <2>2, <2>3, FlightSame
  <2> QED BY <1>0, <2>2, <2>3, <2>4 DEF Delivered
<1>9. CASE Matched
  <2>1. asr.heard = sent /\ plug.eosSent
    BY <1>9 DEF Matched, Delivered, Mirrored, Framing
  <2>2. /\ Result(asr.heard) \in Answers /\ Result(asr.heard).heard = asr.heard
    BY DEF Result, Answers, TypeOK, AsrTasks
  <2>3. /\ UNCHANGED <<up, servFd, plugFd, channel, asr, synced>> /\ handler' = "reading"
        /\ down' = down \/ down' = Append(down, Result(asr.heard))
    BY <1>9 DEF Matched
  <2>4. \A i \in 1..Len(down') : (i \in 1..Len(down) /\ down'[i] = down[i]) \/ down'[i] = Result(asr.heard)
    BY <1>0, <2>2, <2>3, AppendProperties
  <2>5. \A i \in 1..Len(down') : down'[i].type = "RESULT" => plug'.eosSent /\ down'[i].heard = sent'
    BY <1>0, <2>1, <2>2, <2>4 DEF Delivered
  <2>6. Dispatched' = Dispatched /\ Taken' = Taken
    BY <2>3 DEF Dispatched, Taken
  <2>7. Flight' <=> Flight
    BY <1>0, <2>3, <2>6, FlightSame
  <2> QED BY <1>0, <2>3, <2>5, <2>6, <2>7 DEF Delivered
<1> QED BY <1>1, <1>2, <1>3, <1>4, <1>5, <1>6, <1>7, <1>8, <1>9 DEF BridgeEffect, Leaves

-----------------------------------------------------------------------------
(* The theorems.                                                           *)

\* The invariant holds before the channel is opened.
LEMMA InitInvariant == Init => IInv
<1> SUFFICES ASSUME Init PROVE IInv
  OBVIOUS
<1>1. /\ up = <<>> /\ down = <<>> /\ plugFd = "none" /\ servFd = "none" /\ handler = "none"
      /\ channel = Channel /\ synced = TRUE /\ asr = [state |-> "none", heard |-> <<>>]
      /\ line = "new" /\ plug = Plug /\ sent = <<>> /\ torn = 0 /\ mrcp = <<>>
  BY DEF Init, SocketInit, ServerInit, PluginInit
<1>2. Plug \in Plugs /\ ~Plug.started /\ ~Plug.eosSent /\ ~Plug.bridge /\ Plug.recog = None
  BY DEF Plug, Plugs
<1>3. /\ Channel \in Channels /\ ~Channel.started /\ ~Channel.eosSeen /\ Channel.queue = <<>>
      /\ Channel.accum = <<>>
  BY DEF Channel, Channels
<1>4. asr \in AsrTasks /\ asr.heard = <<>> /\ asr.state = "none"
  BY <1>1 DEF AsrTasks, AsrStates
<1>5. TypeOK
  BY <1>1, <1>2, <1>3, <1>4, SocketAssumption DEF TypeOK
<1>6. Requests
  BY <1>1, <1>2 DEF Requests, EndsOnce
<1>7. Connection
  BY <1>1, <1>2, <1>3 DEF Connection
<1>8. Mirrored
  BY <1>1, <1>3, <1>4 DEF Mirrored, PathsHearTheSame
<1>9. Framing
  BY <1>1, <1>2, <1>3 DEF Framing
<1>10. Delivered
  BY <1>1 DEF Delivered
<1> QED BY <1>5, <1>6, <1>7, <1>8, <1>9, <1>10 DEF IInv

\* Every step of the plugin, of the bridge and of its death preserves it.
LEMMA StepInvariant == IInv /\ [Next]_vars => IInv'
<1> SUFFICES ASSUME IInv, [Next]_vars PROVE IInv'
  OBVIOUS
<1>0. TypeOK /\ Requests /\ Connection /\ Mirrored /\ (synced => Framing) /\ (torn = 0 => Delivered)
  BY DEF IInv
<1>1. CASE PluginNext /\ UNCHANGED server
  <2>1. Effect
    BY <1>0, <1>1, PluginEffect
  <2>2. TypeOK'
    BY <1>0, <2>1, EffectTyped
  <2>3. Requests'
    BY <1>0, <2>1, TalkRequests DEF Effect
  <2>4. Connection'
    BY <1>0, <2>1, <2>2, EffectConnection
  <2>5. Mirrored'
    BY <1>0, <2>1, EffectMirrored
  <2>6. synced' => Framing'
    BY <1>0, <1>1, <2>1, EffectFraming DEF server
  <2>7. torn' = 0 => Delivered'
    <3> SUFFICES ASSUME torn' = 0 PROVE Delivered'
      OBVIOUS
    <3>1. torn = 0
      <4>1. CASE UNCHANGED given
        BY <4>1 DEF given
      <4>2. CASE WritesAudio
        <5>1. torn' = torn \/ torn' = torn + 1
          BY <4>2 DEF WritesAudio
        <5> QED BY <1>0, <5>1 DEF TypeOK
      <4> QED BY <2>1, <4>1, <4>2 DEF Effect, Quiet, Opens, Fails, WritesStart, WritesEos, Closes
    <3> QED BY <1>0, <2>1, <3>1, EffectDelivered DEF Delivered
  <2> QED BY <2>2, <2>3, <2>4, <2>5, <2>6, <2>7 DEF IInv
<1>2. CASE (ServerNext /\ UNCHANGED plugin) \/ BridgeDies
  <2>1. BridgeEffect
    BY <1>0, <1>2, ServerEffect
  <2>2. TypeOK' /\ Requests' /\ Connection' /\ Mirrored' /\ (synced' => Framing')
    BY <1>0, <2>1, BridgeTyped, BridgeRequests, BridgeConnection, BridgeMirrored, BridgeFraming
  <2>3. torn' = torn
    BY <2>1 DEF BridgeEffect, plugin, given
  <2>4. torn' = 0 => Delivered'
    BY <1>0, <2>1, <2>3, BridgeDelivered DEF Delivered
  <2> QED BY <2>2, <2>4 DEF IInv
<1>3. CASE UNCHANGED vars
  <2>1. UNCHANGED <<up, down, plugFd, servFd, handler, channel, synced, asr, line, plug, sent, torn, mrcp>>
    BY <1>3 DEF vars, socket, server, plugin, given
  <2>2. TypeOK' /\ Requests' /\ Connection' /\ Mirrored'
    <3>1. TypeOK'
      BY <1>0, <2>1 DEF TypeOK
    <3>2. Requests'
      BY <1>0, <2>1 DEF Requests, EndsOnce, Asked
    <3>3. Connection'
      BY <1>0, <2>1 DEF Connection
    <3>4. Mirrored'
      BY <1>0, <2>1 DEF Mirrored, PathsHearTheSame
    <3> QED BY <3>1, <3>2, <3>3, <3>4
  <2>3. synced' => Framing'
    BY <1>0, <2>1 DEF Framing
  <2>4. Dispatched' = Dispatched /\ Taken' = Taken
    BY <2>1 DEF Dispatched, Taken
  <2>5. Flight' <=> Flight
    BY <2>1, <2>4, FlightSame
  <2>6. torn' = 0 => Delivered'
    BY <1>0, <2>1, <2>4, <2>5 DEF Delivered
  <2> QED BY <2>2, <2>3, <2>6 DEF IInv
<1> QED BY <1>1, <1>2, <1>3 DEF Next, Ended

\* The inductive invariant of one channel: for every number of requests and
\* of frames, whatever the buffer holds and whenever either end goes away.
THEOREM Invariance == Spec => []IInv
BY InitInvariant, StepInvariant, PTL DEF Spec

\* Both ends keep their shape, and the kernel's buffer its limit.
THEOREM TypeCorrect == Spec => []TypeOK
<1>1. IInv => TypeOK
  BY DEF IInv
<1> QED BY <1>1, Invariance, PTL

\* A request ends at most once and nothing is said of it afterwards, also when
\* the STOP races with the completion (recog_msg_process and stream_write).
THEOREM RequestsEndOnce == Spec => []EndsOnce
<1>1. IInv => EndsOnce
  BY DEF IInv, Requests
<1> QED BY <1>1, Invariance, PTL

\* The bridge in step with the plugin never answers UNEXPECTED_FRAME: START is
\* first and once per connection, and EOS is sent once.
THEOREM ProtocolKept == Spec => []NoUnexpectedFrame
<1>1. IInv => NoUnexpectedFrame
  BY DEF IInv, Framing, NoUnexpectedFrame
<1> QED BY <1>1, Invariance, PTL

\* As long as no frame is torn, a result of the bridge is made of all the
\* audio forwarded on the connection, in order and nothing else.
THEOREM AudioIsWhole == Spec => []ResultHoldsAllAudio
<1>1. IInv => ResultHoldsAllAudio
  BY DEF IInv, Delivered, ResultHoldsAllAudio
<1> QED BY <1>1, Invariance, PTL

\* The matcher's mirror is the audio of the transcript, unless it overflowed.
THEOREM MirrorIsAudio == Spec => []PathsHearTheSame
<1>1. IInv => PathsHearTheSame
  BY DEF IInv, Mirrored
<1> QED BY <1>1, Invariance, PTL
=============================================================================
