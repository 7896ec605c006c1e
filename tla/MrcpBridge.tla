----------------------------- MODULE MrcpBridge -----------------------------
(***************************************************************************)
(* The recognizer plugin and the Python bridge, composed over their        *)
(* socket: one MRCP channel, from its opening to the release of everything *)
(* it held on both sides.                                                  *)
(***************************************************************************)
EXTENDS RecogPlugin, BridgeServer

vars == <<socket, server, plugin>>

Init == SocketInit /\ ServerInit /\ PluginInit

\* The bridge process goes away, and the kernel closes its end.
BridgeDies == servFd = "open" /\ Leave(<<>>) /\ UNCHANGED plugin

Ended ==
    /\ line = "closed" /\ plug.recog = None /\ ~plug.stop /\ servFd # "open"
    /\ UNCHANGED vars

Next ==
    \/ PluginNext /\ UNCHANGED server
    \/ ServerNext /\ UNCHANGED plugin
    \/ BridgeDies
    \/ Ended

Spec == Init /\ [][Next]_vars
FairSpec == Spec /\ ServerFairness /\ PluginFairness

-----------------------------------------------------------------------------
(* Properties.                                                             *)

Tags == Request \cup {Noise}
Bodies == {NoBody, Canned} \cup [from : {"bridge"}, heard : Seq(Tags)]
Answers == [type : {"RESULT"}, heard : Seq(Tags)]
           \cup [type : {"ERROR"}, code : {"BAD_START", "UNEXPECTED_FRAME", "ASR_FAILED"}]
Channels == [started : BOOLEAN, eosSeen : BOOLEAN, queue : Seq(Tags \cup {Sentinel}),
             accum : Seq(Tags), overflow : BOOLEAN]
AsrStates == {"none", "running", "done", "failed", "cancelled"}
AsrTasks == [state : AsrStates, heard : Seq(Tags)]
Plugs == [bridge : BOOLEAN, started : BOOLEAN, eosSent : BOOLEAN, recog : Request \cup {None},
          stop : BOOLEAN, timers : BOOLEAN, active : BOOLEAN, waiting : BOOLEAN]
Ends == {"NO-INPUT", "SUCCESS", "STOPPED"}
Messages == [name : {"IN-PROGRESS", "START-OF-INPUT"} \cup Ends, of : Request \cup {None},
             body : Bodies]

\* Both ends keep their shape, and the kernel's buffer its limit.
TypeOK ==
    /\ up \in Seq(Headers \cup Payloads) /\ Len(up) <= SocketRoom
    /\ down \in Seq(Answers)
    /\ plugFd \in {"none", "open", "closed"} /\ servFd \in {"none", "open", "closed"}
    /\ handler \in {"none", "reading", "asr", "match", "done"} /\ synced \in BOOLEAN
    /\ channel \in Channels /\ asr \in AsrTasks
    /\ line \in {"new", "open", "closed"} /\ plug \in Plugs
    /\ sent \in Seq(Request) /\ torn \in Nat
    /\ mrcp \in Seq(Messages)

\* A request ends at most once, by a completion or by a STOP, and nothing is
\* said of it afterwards, also when the STOP raced with the completion or the
\* channel was closed under the waiting media thread.
EndsOnce ==
    \A i, j \in 1..Len(mrcp) :
        i < j /\ mrcp[i].of # None /\ mrcp[i].name \in Ends
        => mrcp[j].of # mrcp[i].of

\* As long as no frame was torn, the bridge never meets a frame the protocol
\* forbids: START precedes all audio, and EOS is sent once, across every
\* sequence of requests, stops and timeouts on the channel.
NoUnexpectedFrame ==
    synced => \A i \in 1..Len(down) : down[i] # Error("UNEXPECTED_FRAME")

\* What reached the socket whole is what the transcript is made of: unless a
\* frame was torn, a result holds all of the audio forwarded on the channel,
\* in order.
ResultHoldsAllAudio ==
    torn = 0 => \A i \in 1..Len(mrcp) : mrcp[i].body.from = "bridge" => mrcp[i].body.heard = sent

\* The matcher gets the very audio the transcript was made of, or none.
PathsHearTheSame == handler = "match" /\ ~channel.overflow => channel.accum = asr.heard

\* A connection that the plugin closed is released by the bridge, wherever
\* its handler was, and with it the ASR task that START created: the finally
\* clause of _handle leaves nothing behind that waits for audio.
ConnectionReleased == plugFd = "closed" ~> handler = "done" /\ asr.state # "running"

\* A STOP is answered, also when the media thread was waiting for a result.
StopAnswered == plug.stop ~> ~plug.stop

\* The NLSML a request is completed with was made of its own audio.
ResultIsForItsRequest ==
    \A i \in 1..Len(mrcp) :
        mrcp[i].body.from = "bridge" =>
            \A k \in 1..Len(mrcp[i].body.heard) : mrcp[i].body.heard[k] \in {mrcp[i].of, Noise}

=============================================================================
