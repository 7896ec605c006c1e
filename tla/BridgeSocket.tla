---------------------------- MODULE BridgeSocket ----------------------------
(***************************************************************************)
(* The Unix-domain stream socket between one MRCP channel of the plugin    *)
(* and one connection of the Python bridge.  The upward direction is kept  *)
(* as parts of frames, headers and payloads, because the plugin writes     *)
(* them with separate calls and the kernel's buffer may have room for one  *)
(* and not for the other; what the bridge sends down is read whole.        *)
(***************************************************************************)
EXTENDS Naturals, Sequences

CONSTANTS
    Request,      \* the RECOGNIZE requests of the channel, 1..n in order
    None,         \* no request
    SocketRoom    \* bound: frame parts the kernel buffers towards the bridge

ASSUME SocketAssumption ==
    /\ Request \subseteq Nat \ {0} /\ None \notin Request
    /\ SocketRoom \in Nat \ {0, 1}

VARIABLES
    up,        \* parts on their way to the bridge
    down,      \* frames on their way to the plugin
    plugFd,    \* the plugin's end: "none", "open" or "closed"
    servFd     \* the bridge's end

socket == <<up, down, plugFd, servFd>>

\* An audio payload is named by the request it was recorded for.
Header(type) == [type |-> type]
Payload(of) == [type |-> "payload", of |-> of]
Headers == [type : {"START", "AUDIO", "EOS", "STOP"}]
Payloads == [type : {"payload"}, of : Request]

Result(heard) == [type |-> "RESULT", heard |-> heard]
Error(code) == [type |-> "ERROR", code |-> code]

Room == SocketRoom - Len(up)
Writable == plugFd = "open" /\ servFd = "open"

SocketInit == up = <<>> /\ down = <<>> /\ plugFd = "none" /\ servFd = "none"

=============================================================================
