---------------------------- MODULE StreamProofs ----------------------------
(***************************************************************************)
(* Proofs about one stream connection, for every number of turns, every    *)
(* set of failing parties, every limit and either detector: the invariants *)
(* of StreamSession and its refinement of TurnProtocol, from one inductive *)
(* invariant.  Its heart is that a turn's tasks end before the next turn   *)
(* begins: whatever runs belongs to the turn `cur`.                        *)
(***************************************************************************)
EXTENDS StreamSession, FiniteSetTheorems, TLAPS

EventTypes == {"speech_start", "speech_end"}

\* The types of the frames sent for the active turn.
Said == {wire[i].type : i \in DOMAIN wire}

\* A turn that has not begun is untouched, one that was superseded is over.
Sequential(t) ==
    /\ t > cur => /\ ctx[t] = Context(FALSE) /\ pump[t] = PumpTask("none", "none")
                  /\ fan[t] = [pc |-> "none", kill |-> FALSE]
                  /\ ev[t] = EventsTask("none") /\ fin[t] = FinalizeTask("none")
    /\ t < cur => /\ pump[t].pc \in {"none", "done"} /\ fin[t].pc \in {"none", "done"}
                  /\ ctx[t].metric = "none"

\* The pump outlives the two tasks it starts; a cancellation is kept for the
\* pump itself only when the task it awaits has ended.
PumpIsLast(t) ==
    /\ pump[t].pc = "none" <=> fin[t].pc = "none"
    /\ pump[t].pc \in {"none", "created"} => fan[t].pc = "none" /\ ev[t].pc = "none"
    /\ pump[t].pc \in {"drainEvents", "asr", "asrFailed", "done"} => fan[t].pc # "run"
    /\ pump[t].pc \in {"asr", "asrFailed", "done"} => ev[t].pc # "run"
    /\ pump[t].pc = "drainFan" /\ pump[t].kill => fan[t].pc = "done"
    /\ pump[t].pc = "drainEvents" /\ pump[t].kill => ev[t].pc = "done"

\* What the receive loop knows of the active turn at its awaits.
HandlerKnows ==
    /\ hpc = "awaitPump" => HasTurn
    /\ hpc # "receive" /\ HasTurn => ctx[cur].cancelled
    /\ hpc # "awaitPump" /\ HasTurn /\ ctx[cur].cancelled => pump[cur].pc = "done"
    /\ hpc = "closed" /\ HasTurn => fin[cur].pc = "done"
    /\ hpc \in {"awaitPump", "awaitFinalize"} /\ after.kind = "start" => after.turn > cur

\* A cancelled turn whose task is about to speak has the cancellation pending.
CancelReaches(t) ==
    /\ pump[t].pc \in {"asr", "asrFailed"} /\ ctx[t].cancelled => pump[t].kill
    /\ fin[t].pc = "recognize" /\ ctx[t].cancelled => fin[t].kill

\* How far the active turn has come, and what it can have said by then.
SaidSoFar(t) ==
    /\ pump[t].pc \notin {"asr", "asrFailed", "done"} => Said \subseteq EventTypes
    /\ pump[t].pc = "asr" => Said \cap ReplyType = {}
    /\ "ASR_FAILED" \in Said =>
          \/ pump[t].pc = "asrFailed"
          \/ pump[t].pc = "done" /\ (ctx[t].cancelled \/ pump[t].res = "cancelled")
    /\ fin[t].pc \in {"created", "awaitPump"} => Said \cap ReplyType \subseteq {"ASR_FAILED"}
    /\ fin[t].pc \in {"recognize", "sending"} => pump[t].pc = "done"
    /\ fin[t].pc = "recognize" => Said \cap ReplyType = {} /\ "final" \in Said
    /\ pump[t].text = "text" \/ pump[t].res = "text" => "final" \in Said

Unanswered == "result" \notin Said /\ "NO_SPEECH" \notin Said

\* What the finalizer has recorded, and what it is about to record.
Recorded(t) ==
    /\ fin[t].pc # "done" => ctx[t].metric = "none"
    /\ fin[t].pc = "sending" => /\ fin[t].outcome \in {"ok", "no_speech", "error"}
                                /\ fin[t].outcome = "ok" => "result" \in Said
                                /\ fin[t].outcome = "no_speech" => "NO_SPEECH" \in Said
                                /\ fin[t].outcome = "error" => Unanswered
    /\ fin[t].kill => ctx[t].cancelled
    /\ ctx[t].metric = "ok" => "result" \in Said
    /\ ctx[t].metric = "no_speech" => "NO_SPEECH" \in Said
    /\ ctx[t].metric = "cancelled" => Unanswered
    /\ ctx[t].metric = "error" => Unanswered \/ ctx[t].cancelled

\* Until it overflows, Path B's accumulator holds every chunk of the turn.
AllAccumulated(t) == ~ctx[t].overflow => ctx[t].accum = ctx[t].pcm

Live == HasTurn /\ pump[cur].pc \in LivePump

IInv ==
    /\ TypeOK
    /\ \A t \in Turn : Sequential(t) /\ PumpIsLast(t) /\ AllAccumulated(t)
    /\ HandlerKnows
    /\ \A i \in DOMAIN wire : wire[i].turn = cur
    /\ HasTurn => CancelReaches(cur) /\ SaidSoFar(cur) /\ Recorded(cur)
    /\ gauge = IF Live THEN 1 ELSE 0

-----------------------------------------------------------------------------

(* Records and functions.                                                  *)

\* A function of turns that is changed at one turn.
LEMMA Changed ==
    ASSUME NEW S, NEW f \in [Turn -> S], NEW t \in Turn, NEW r \in S,
           NEW g, g = [f EXCEPT ![t] = r]
    PROVE  g \in [Turn -> S] /\ g[t] = r /\ \A u \in Turn : u # t => g[u] = f[u]
OBVIOUS

\* The values the fields of a task may take.
LEMMA Values ==
    /\ {"none", "created", "segment", "drainFan", "drainEvents", "asr", "asrFailed", "done"}
            \subseteq PumpState
    /\ {"none", "cancelled", "error", "empty", "text"} \subseteq Ending \cup Text
    /\ {"none", "cancelled", "error"} \subseteq Ending
    /\ {"empty", "text"} \subseteq Text
    /\ {"none", "run", "done"} \subseteq HelperState
    /\ {"none", "created", "awaitPump", "recognize", "sending", "done"} \subseteq FinalizeState
    /\ {"none", "ok", "no_speech", "error", "cancelled"} \subseteq Verdict \cup {"none"}
    /\ {"silent", "speaking"} \subseteq VadState
    /\ <<>> \in Items /\ FALSE \in BOOLEAN /\ TRUE \in BOOLEAN /\ 0 \in Nat /\ None \in Nat \cup {None}
BY DEF PumpState, LivePump, Ending, Text, HelperState, FinalizeState, Verdict, VadState, Items

\* Fresh and ended tasks and contexts are well formed.
LEMMA FreshRecords ==
    /\ \A c \in BOOLEAN : Context(c) \in Contexts
    /\ \A pc \in PumpState, res \in Ending \cup Text : PumpTask(pc, res) \in Pumps
    /\ [pc |-> "none", kill |-> FALSE] \in FanOuts
    /\ \A pc \in HelperState : EventsTask(pc) \in Forwarders
    /\ \A pc \in FinalizeState : FinalizeTask(pc) \in Finalizers
BY Values DEF Context, Contexts, PumpTask, Pumps, FanOuts, EventsTask, Forwarders,
   FinalizeTask, Finalizers

-----------------------------------------------------------------------------

\* A connection that has just been accepted satisfies the invariant.
LEMMA InitIInv == Init => IInv
<1> SUFFICES ASSUME Init PROVE IInv
  OBVIOUS
<1>1. /\ ctx \in [Turn -> Contexts] /\ pump \in [Turn -> Pumps] /\ fan \in [Turn -> FanOuts]
      /\ ev \in [Turn -> Forwarders] /\ fin \in [Turn -> Finalizers]
  BY FreshRecords, Values DEF Init
<1>2. TypeOK
  <2>1. wire \in Seq([type : TurnFrameType, turn : Turn]) /\ notices \in Seq([type : NoticeType, turn : Turn])
    BY DEF Init
  <2>2. after \in {Close} \cup Starts
    BY DEF Init
  <2>3. hpc = "receive" /\ sid \in Session \cup {None} /\ cur \in Turn \cup {-1} /\ gauge \in Nat /\ gone \in BOOLEAN
    BY DEF Init
  <2> QED BY <1>1, <2>1, <2>2, <2>3 DEF TypeOK
<1>3. ASSUME NEW t \in Turn PROVE Sequential(t) /\ PumpIsLast(t) /\ AllAccumulated(t)
  <2>1. t > cur /\ ~(t < cur)
    BY StreamAssumption DEF Init, Turn
  <2>2. /\ ctx[t] = Context(FALSE) /\ pump[t] = PumpTask("none", "none")
        /\ fan[t] = [pc |-> "none", kill |-> FALSE]
        /\ ev[t] = EventsTask("none") /\ fin[t] = FinalizeTask("none")
    BY DEF Init
  <2> QED BY <2>1, <2>2 DEF Sequential, PumpIsLast, AllAccumulated, Context, PumpTask,
             EventsTask, FinalizeTask
<1> QED BY <1>2, <1>3 DEF IInv, Init, HandlerKnows, HasTurn, Live

\* Whatever runs belongs to the active turn.
LEMMA RunningIsActive ==
    ASSUME IInv, NEW t \in Turn,
           \/ pump[t].pc \notin {"none", "done"} \/ fin[t].pc \notin {"none", "done"}
           \/ fan[t].pc = "run" \/ ev[t].pc = "run"
    PROVE  t = cur /\ HasTurn
<1>1. Sequential(t) /\ PumpIsLast(t) /\ cur \in Turn \cup {-1}
  BY DEF IInv, TypeOK
<1>2. ~(t > cur)
  <2> SUFFICES ASSUME t > cur PROVE FALSE
    OBVIOUS
  <2>1. /\ pump[t] = PumpTask("none", "none") /\ fan[t] = [pc |-> "none", kill |-> FALSE]
        /\ ev[t] = EventsTask("none") /\ fin[t] = FinalizeTask("none")
    BY <1>1 DEF Sequential
  <2>2. pump[t].pc = "none" /\ fan[t].pc = "none" /\ ev[t].pc = "none" /\ fin[t].pc = "none"
    BY <2>1 DEF PumpTask, EventsTask, FinalizeTask
  <2> QED BY <2>2
<1>3. ~(t < cur)
  BY <1>1 DEF Sequential, PumpIsLast
<1> QED BY <1>1, <1>2, <1>3, StreamAssumption DEF Turn, HasTurn

\* A step of the active turn needs to be looked at there only.
LEMMA ActiveStep ==
    ASSUME IInv, HasTurn, cur' = cur, TypeOK', gauge' = IF Live' THEN 1 ELSE 0,
           \A u \in Turn : u # cur => /\ ctx'[u] = ctx[u] /\ pump'[u] = pump[u]
                                      /\ fan'[u] = fan[u] /\ ev'[u] = ev[u] /\ fin'[u] = fin[u],
           PumpIsLast(cur)', AllAccumulated(cur)', HandlerKnows',
           \A i \in DOMAIN wire' : wire'[i].turn = cur,
           CancelReaches(cur)', SaidSoFar(cur)', Recorded(cur)'
    PROVE  IInv'
<1>1. ASSUME NEW u \in Turn PROVE (Sequential(u) /\ PumpIsLast(u) /\ AllAccumulated(u))'
  <2>1. CASE u = cur
    <3>1. Sequential(u)'
      <4>1. ~(u > cur') /\ ~(u < cur')
        BY <2>1, StreamAssumption DEF Turn
      <4> QED BY <4>1, Zenon DEF Sequential
    <3>2. PumpIsLast(u)'
      BY <2>1, Zenon DEF PumpIsLast
    <3>3. AllAccumulated(u)'
      BY <2>1, Zenon DEF AllAccumulated
    <3> QED BY <3>1, <3>2, <3>3
  <2>2. CASE u # cur
    <3>1. Sequential(u) /\ PumpIsLast(u) /\ AllAccumulated(u)
      BY DEF IInv
    <3> QED BY <2>2, <3>1 DEF Sequential, PumpIsLast, AllAccumulated
  <2> QED BY <2>1, <2>2
<1> QED BY <1>1 DEF IInv

\* A frame of the active turn is sent.
LEMMA SendSays ==
    ASSUME IInv, HasTurn, NEW type \in TurnFrameType, Send(type, cur)
    PROVE  /\ wire' \in Seq([type : TurnFrameType, turn : Turn])
           /\ \A i \in DOMAIN wire' : wire'[i].turn = cur
           /\ Said' = Said \cup {type}
<1>1. /\ cur \in Turn /\ wire \in Seq([type : TurnFrameType, turn : Turn])
      /\ \A i \in DOMAIN wire : wire[i].turn = cur
  BY DEF IInv, TypeOK, HasTurn
<1> DEFINE f == Frame(type, cur)
<1>2. f \in [type : TurnFrameType, turn : Turn] /\ f.type = type /\ f.turn = cur
  BY <1>1 DEF Frame
<1>3. wire' = Append(wire, f)
  BY DEF Send
<1> HIDE DEF f
<1>4. /\ wire' \in Seq([type : TurnFrameType, turn : Turn])
      /\ DOMAIN wire = 1..Len(wire) /\ DOMAIN wire' = 1..(Len(wire) + 1) /\ Len(wire) \in Nat
      /\ wire'[Len(wire) + 1] = f /\ \A i \in 1..Len(wire) : wire'[i] = wire[i]
  BY <1>1, <1>2, <1>3
<1>5. \A i \in DOMAIN wire' : i \in DOMAIN wire \/ i = Len(wire) + 1
  BY <1>4
<1>6. \A i \in DOMAIN wire' : wire'[i].turn = cur
  BY <1>1, <1>2, <1>4, <1>5
<1>7. Said' = Said \cup {type}
  <2>1. \A x \in Said' : x \in Said \cup {type}
    BY <1>2, <1>4, <1>5 DEF Said
  <2>2. \A x \in Said : x \in Said'
    BY <1>4 DEF Said
  <2>3. type \in Said'
    BY <1>2, <1>4 DEF Said
  <2> QED BY <2>1, <2>2, <2>3
<1> QED BY <1>4, <1>6, <1>7

\* Sent tells what was said of the active turn.
LEMMA SentIsSaid ==
    ASSUME IInv, HasTurn, NEW type PROVE Sent(type, cur) <=> type \in Said
<1>1. /\ wire \in Seq([type : TurnFrameType, turn : Turn])
      /\ \A i \in DOMAIN wire : wire[i].turn = cur
  BY DEF IInv, TypeOK, HasTurn
<1>3. ASSUME NEW i \in DOMAIN wire PROVE wire[i] = Frame(type, cur) <=> wire[i].type = type
  <2> DEFINE F == [type : TurnFrameType, turn : Turn]
  <2>1. wire \in Seq(F)
    BY <1>1
  <2> HIDE DEF F
  <2>2. wire[i] \in F
    BY <2>1
  <2>3. wire[i] = [type |-> wire[i].type, turn |-> wire[i].turn]
    BY <2>2 DEF F
  <2>4. wire[i].turn = cur
    BY <1>1
  <2>5. wire[i].type = type => wire[i] = Frame(type, cur)
    BY <2>3, <2>4, Zenon DEF Frame
  <2>6. wire[i] = Frame(type, cur) => wire[i].type = type
    BY DEF Frame
  <2> QED BY <2>5, <2>6
<1> QED BY <1>3 DEF Sent, Said

-----------------------------------------------------------------------------
(* Steps of the pump.                                                      *)

\* A step that changes, of all tasks and contexts, only the active pump.
LEMMA PumpOnly ==
    ASSUME IInv, HasTurn, NEW p \in Pumps, pump' = [pump EXCEPT ![cur] = p],
           UNCHANGED <<session, ctx, fan, ev, fin, gone>>,
           gauge' = IF p.pc \in LivePump THEN 1 ELSE 0,
           pump[cur].pc \notin {"none", "done"}, p.pc \notin {"none", "created"},
           p.pc \in {"drainEvents", "asr", "asrFailed", "done"} => fan[cur].pc # "run",
           p.pc \in {"asr", "asrFailed", "done"} => ev[cur].pc # "run",
           p.pc = "drainFan" /\ p.kill => fan[cur].pc = "done",
           p.pc = "drainEvents" /\ p.kill => ev[cur].pc = "done",
           p.pc \in {"asr", "asrFailed"} /\ ctx[cur].cancelled => p.kill,
           wire' \in Seq([type : TurnFrameType, turn : Turn]),
           \A i \in DOMAIN wire' : wire'[i].turn = cur,
           SaidSoFar(cur)', Recorded(cur)'
    PROVE  IInv'
<1>1. /\ TypeOK /\ HandlerKnows /\ PumpIsLast(cur) /\ AllAccumulated(cur) /\ CancelReaches(cur)
      /\ cur \in Turn /\ cur' = cur
  BY DEF IInv, TypeOK, HasTurn, session
<1>2. pump' \in [Turn -> Pumps] /\ pump'[cur] = p /\ \A u \in Turn : u # cur => pump'[u] = pump[u]
  BY <1>1, Changed DEF TypeOK
<1>3. TypeOK'
  <2>1. gauge' \in Nat
    OBVIOUS
  <2> QED BY <1>1, <1>2, <2>1 DEF TypeOK, session
<1>4. PumpIsLast(cur)'
  BY <1>1, <1>2 DEF PumpIsLast, session
<1>5. AllAccumulated(cur)'
  BY <1>1 DEF AllAccumulated
<1>6. HandlerKnows'
  BY <1>1, <1>2 DEF HandlerKnows, HasTurn, session
<1>7. CancelReaches(cur)'
  BY <1>1, <1>2 DEF CancelReaches
<1>8. gauge' = IF Live' THEN 1 ELSE 0
  BY <1>1, <1>2 DEF Live, HasTurn
<1> QED BY <1>1, <1>2, <1>3, <1>4, <1>5, <1>6, <1>7, <1>8, ActiveStep DEF session

\* The gauge counts the active pump while it runs.
LEMMA GaugeIsLive ==
    ASSUME IInv, HasTurn
    PROVE  gauge = IF pump[cur].pc \in LivePump THEN 1 ELSE 0
BY DEF IInv, Live

\* The invariant at the active turn.
LEMMA AtActive ==
    ASSUME IInv, HasTurn
    PROVE  /\ cur \in Turn /\ TypeOK /\ HandlerKnows
           /\ Sequential(cur) /\ PumpIsLast(cur) /\ AllAccumulated(cur)
           /\ CancelReaches(cur) /\ SaidSoFar(cur) /\ Recorded(cur)
           /\ ctx[cur] \in Contexts /\ pump[cur] \in Pumps /\ fan[cur] \in FanOuts
           /\ ev[cur] \in Forwarders /\ fin[cur] \in Finalizers
           /\ wire \in Seq([type : TurnFrameType, turn : Turn])
           /\ \A i \in DOMAIN wire : wire[i].turn = cur
<1>1. cur \in Turn
  BY DEF IInv, TypeOK, HasTurn
<1> QED BY <1>1 DEF IInv, TypeOK

\* A pump that moves on without a word: nothing that was said is touched.
LEMMA PumpSilent ==
    ASSUME IInv, HasTurn, NEW p \in Pumps, pump' = [pump EXCEPT ![cur] = p],
           UNCHANGED <<session, ctx, fan, ev, fin, wire, gone>>,
           gauge' = IF p.pc \in LivePump THEN 1 ELSE 0,
           pump[cur].pc \notin {"none", "done"}, p.pc \notin {"none", "created"},
           p.pc \in {"drainEvents", "asr", "asrFailed", "done"} => fan[cur].pc # "run",
           p.pc \in {"asr", "asrFailed", "done"} => ev[cur].pc # "run",
           p.pc = "drainFan" /\ p.kill => fan[cur].pc = "done",
           p.pc = "drainEvents" /\ p.kill => ev[cur].pc = "done",
           p.pc \in {"asr", "asrFailed"} /\ ctx[cur].cancelled => p.kill,
           p.pc \notin {"asr", "asrFailed", "done"} => pump[cur].pc \notin {"asr", "asrFailed", "done"},
           p.pc = "asr" => pump[cur].pc # "asrFailed",
           pump[cur].pc = "asrFailed" => p.pc = "done" /\ (ctx[cur].cancelled \/ p.res = "cancelled"),
           p.text = "text" \/ p.res = "text" => "final" \in Said
    PROVE  IInv'
<1> USE AtActive
<1>1. pump'[cur] = p /\ cur' = cur /\ Said' = Said
  BY Changed DEF TypeOK, session, Said
<1>2. SaidSoFar(cur)'
  <2>1. EventTypes \cap ReplyType = {}
    BY DEF EventTypes, ReplyType
  <2>2. "ASR_FAILED" \in ReplyType /\ "ASR_FAILED" \notin EventTypes
    BY DEF EventTypes, ReplyType
  <2> QED BY <1>1, <2>1, <2>2 DEF SaidSoFar
<1>3. Recorded(cur)'
  BY <1>1 DEF Recorded, Unanswered
<1> QED BY <1>1, <1>2, <1>3, PumpOnly

\* _pump_vad_asr starts its two helpers and is counted, or was cancelled before
\* it ran.
LEMMA PumpStartStep == ASSUME IInv, NEW t \in Turn, PumpStart(t) PROVE IInv'
<1>1. t = cur /\ HasTurn /\ pump[cur].pc = "created"
  BY RunningIsActive DEF PumpStart
<1> USE AtActive, <1>1
<1>2. fan[cur].pc = "none" /\ ev[cur].pc = "none" /\ gauge = 0
  BY GaugeIsLive DEF PumpIsLast, LivePump
<1>3. CASE pump[t].kill
  <2> DEFINE p == PumpTask("done", "cancelled")
  <2>1. p \in Pumps
    BY FreshRecords, Values
  <2>2. p.pc = "done" /\ p.res = "cancelled" /\ p.text = "empty"
    BY DEF PumpTask
  <2>3. pump' = [pump EXCEPT ![cur] = p] /\ UNCHANGED <<session, ctx, fan, ev, fin, wire, gone, gauge>>
    BY <1>3 DEF PumpStart, PumpNeverRan
  <2> HIDE DEF p
  <2> QED BY <1>2, <2>1, <2>2, <2>3, PumpSilent DEF LivePump
<1>4. CASE ~pump[t].kill
  <2>1. /\ pump' = [pump EXCEPT ![t].pc = "segment"] /\ fan' = [fan EXCEPT ![t].pc = "run"]
        /\ ev' = [ev EXCEPT ![t].pc = "run"] /\ gauge' = 1
        /\ UNCHANGED <<session, ctx, fin, wire, gone>>
    BY <1>2, <1>4 DEF PumpStart
  <2>2. /\ pump' \in [Turn -> Pumps] /\ fan' \in [Turn -> FanOuts] /\ ev' \in [Turn -> Forwarders]
    <3>1. pump' \in [Turn -> Pumps]
      BY <2>1, Values, Zenon DEF TypeOK, Pumps
    <3>2. fan' \in [Turn -> FanOuts]
      BY <2>1, Values, Zenon DEF TypeOK, FanOuts
    <3>3. ev' \in [Turn -> Forwarders]
      BY <2>1, Values, Zenon DEF TypeOK, Forwarders
    <3> QED BY <3>1, <3>2, <3>3
  <2>3. /\ pump'[cur].pc = "segment" /\ fan'[cur].pc = "run" /\ ev'[cur].pc = "run"
        /\ pump'[cur].kill = pump[cur].kill /\ pump'[cur].text = pump[cur].text
        /\ pump'[cur].res = pump[cur].res
        /\ \A u \in Turn : u # cur => pump'[u] = pump[u] /\ fan'[u] = fan[u] /\ ev'[u] = ev[u]
    BY <2>1, Zenon DEF TypeOK, Pumps, FanOuts, Forwarders
  <2>4. TypeOK' /\ cur' = cur /\ Said' = Said
    BY <2>1, <2>2 DEF TypeOK, session, Said
  <2>5. PumpIsLast(cur)' /\ AllAccumulated(cur)' /\ HandlerKnows'
    BY <2>1, <2>3, <2>4 DEF PumpIsLast, AllAccumulated, HandlerKnows, HasTurn, session
  <2>6. CancelReaches(cur)' /\ SaidSoFar(cur)' /\ Recorded(cur)'
    BY <2>1, <2>3, <2>4 DEF CancelReaches, SaidSoFar, Recorded, Unanswered
  <2>7. gauge' = IF Live' THEN 1 ELSE 0
    BY <2>1, <2>3, <2>4 DEF Live, LivePump, HasTurn
  <2> QED BY <2>1, <2>3, <2>4, <2>5, <2>6, <2>7, ActiveStep
<1> QED BY <1>3, <1>4

\* first_segment waits, finds a segment, reaches the end, fails or is cancelled.
LEMMA FirstSegmentStep == ASSUME IInv, NEW t \in Turn, FirstSegment(t) PROVE IInv'
<1>1. t = cur /\ HasTurn /\ pump[cur].pc = "segment"
  BY RunningIsActive DEF FirstSegment
<1> USE AtActive, <1>1
<1>2. gauge' = 1 /\ UNCHANGED <<session, ctx, fan, ev, fin, wire, gone>>
  BY GaugeIsLive DEF FirstSegment, LivePump
<1>3. ASSUME NEW p \in Pumps, pump' = [pump EXCEPT ![cur] = p], p.kill = FALSE,
             p.pc \in {"segment", "drainFan"}, p.res = pump[cur].res, p.text = pump[cur].text
      PROVE  IInv'
  BY <1>2, <1>3, PumpSilent DEF LivePump, SaidSoFar
<1>4. CASE pump[t].kill
  <2> DEFINE p == [pump[cur] EXCEPT !.pc = "drainFan", !.exc = "cancelled", !.kill = FALSE, !.q = <<>>]
  <2>1. pump' = [pump EXCEPT ![cur] = p]
    BY <1>4, Zenon DEF FirstSegment, TypeOK
  <2>2. p \in Pumps
    BY Values, Zenon DEF Pumps
  <2>3. p.kill = FALSE /\ p.pc = "drainFan" /\ p.res = pump[cur].res /\ p.text = pump[cur].text
    BY Zenon DEF Pumps
  <2> HIDE DEF p
  <2> QED BY <2>1, <2>2, <2>3, <1>3
<1>5. CASE /\ ~pump[t].kill
           /\ pump' = [pump EXCEPT ![t].pc = "drainFan", ![t].exc = "error", ![t].q = <<>>]
  <2> DEFINE p == [pump[cur] EXCEPT !.pc = "drainFan", !.exc = "error", !.q = <<>>]
  <2>1. pump' = [pump EXCEPT ![cur] = p]
    BY <1>5, Zenon DEF TypeOK
  <2>2. p \in Pumps
    BY Values, Zenon DEF Pumps
  <2>3. p.kill = pump[cur].kill /\ p.pc = "drainFan" /\ p.res = pump[cur].res /\ p.text = pump[cur].text
    BY Zenon DEF Pumps
  <2>4. pump[cur].kill = FALSE
    BY <1>5 DEF Pumps
  <2> HIDE DEF p
  <2> QED BY <2>1, <2>2, <2>3, <2>4, <1>3
<1>6. CASE /\ ~pump[t].kill
           /\ pump' # [pump EXCEPT ![t].pc = "drainFan", ![t].exc = "error", ![t].q = <<>>]
  <2> DEFINE c == Head(pump[cur].q)
             over == ClosesSegment(pump[cur].vad, c) \/ c = None
             q == IF over THEN <<>> ELSE Tail(pump[cur].q)
             vad == IF over THEN "silent" ELSE VadNext(c)
             seg == ClosesSegment(pump[cur].vad, c) /\ ~ctx[cur].cancelled
             pc == IF over THEN "drainFan" ELSE pump[cur].pc
             p == [pump[cur] EXCEPT !.q = q, !.vad = vad, !.seg = seg, !.pc = pc]
  <2>1. pump' = [pump EXCEPT ![cur] = p]
    BY <1>6, Zenon DEF FirstSegment, TypeOK
  <2>2. q \in Items /\ pump[cur].kill = FALSE
    BY <1>6, Values DEF FirstSegment, Pumps, Items
  <2>3. vad \in VadState /\ pc \in {"segment", "drainFan"}
    BY DEF VadState, VadNext
  <2>4. seg \in BOOLEAN
    OBVIOUS
  <2> HIDE DEF q, vad, seg, pc
  <2>5. p \in Pumps
    BY <2>2, <2>3, <2>4, Values, Zenon DEF Pumps
  <2>6. p.kill = pump[cur].kill /\ p.pc = pc /\ p.res = pump[cur].res /\ p.text = pump[cur].text
    BY Zenon DEF Pumps
  <2> HIDE DEF p
  <2> QED BY <2>1, <2>2, <2>3, <2>5, <2>6, <1>3
<1> QED BY <1>4, <1>5, <1>6

\* The `finally` of _pump_vad_asr_inner after the fan-out has ended.
LEMMA DrainFanStep == ASSUME IInv, NEW t \in Turn, DrainFan(t) PROVE IInv'
<1>1. t = cur /\ HasTurn /\ pump[cur].pc = "drainFan"
  BY RunningIsActive DEF DrainFan
<1> USE AtActive, <1>1
<1>2. fan[cur].pc = "done" /\ gauge' = 1 /\ UNCHANGED <<session, ctx, fan, ev, fin, wire, gone>>
  BY GaugeIsLive DEF DrainFan, PumpIsLast, LivePump
<1> DEFINE p == [pump[cur] EXCEPT !.pc = "drainEvents", !.kill = FALSE]
<1>3. pump' = [pump EXCEPT ![cur] = p]
  BY Zenon DEF DrainFan, TypeOK
<1>4. p \in Pumps /\ p.kill = FALSE /\ p.pc = "drainEvents" /\ p.res = pump[cur].res /\ p.text = pump[cur].text
  BY Values, Zenon DEF Pumps
<1> HIDE DEF p
<1> QED BY <1>2, <1>3, <1>4, PumpSilent DEF LivePump, SaidSoFar

\* The pump ends with a result.
LEMMA PumpEndsStep ==
    ASSUME IInv, HasTurn, NEW res \in {"cancelled", "error", "empty", "text"}, PumpEnds(cur, res),
           UNCHANGED <<session, ctx, fan, ev, fin, wire, gone>>,
           pump[cur].pc \in LivePump, ev[cur].pc # "run", fan[cur].pc # "run",
           pump[cur].pc = "asrFailed" => ctx[cur].cancelled \/ res = "cancelled",
           res = "text" => "final" \in Said
    PROVE  IInv'
<1> USE AtActive
<1> DEFINE p == PumpTask("done", res)
<1>1. p \in Pumps /\ p.pc = "done" /\ p.res = res /\ p.text = "empty"
  BY FreshRecords, Values DEF PumpTask
<1>2. pump' = [pump EXCEPT ![cur] = p] /\ gauge' = 0
  BY GaugeIsLive DEF PumpEnds
<1> HIDE DEF p
<1> QED BY <1>1, <1>2, PumpSilent DEF LivePump

\* The same after the event forwarder: the pump ends or turns to the ASR.
LEMMA DrainEventsStep == ASSUME IInv, NEW t \in Turn, DrainEvents(t) PROVE IInv'
<1>1. t = cur /\ HasTurn /\ pump[cur].pc = "drainEvents"
  BY RunningIsActive DEF DrainEvents
<1> USE AtActive, <1>1
<1>2. ev[cur].pc = "done" /\ fan[cur].pc # "run" /\ UNCHANGED <<session, ctx, fan, ev, fin, wire, gone>>
  BY DEF DrainEvents, EventsDrained, PumpIsLast
<1>3. CASE pump[cur].exc # "none" /\ PumpEnds(cur, pump[cur].exc)
  <2>1. pump[cur].exc \in {"cancelled", "error"}
    BY <1>3 DEF Pumps, Ending
  <2> QED BY <1>2, <1>3, <2>1, PumpEndsStep DEF LivePump
<1>4. CASE PumpEnds(cur, "empty")
  BY <1>2, <1>4, PumpEndsStep DEF LivePump
<1>5. CASE ~ctx[cur].cancelled /\ pump' = [pump EXCEPT ![t].pc = "asr", ![t].kill = FALSE] /\ UNCHANGED gauge
  <2> DEFINE p == [pump[cur] EXCEPT !.pc = "asr", !.kill = FALSE]
  <2>1. pump' = [pump EXCEPT ![cur] = p]
    BY <1>5, Zenon DEF TypeOK
  <2>2. p \in Pumps /\ p.kill = FALSE /\ p.pc = "asr" /\ p.res = pump[cur].res /\ p.text = pump[cur].text
    BY Values, Zenon DEF Pumps
  <2>3. gauge' = 1
    BY <1>5, GaugeIsLive DEF LivePump
  <2> HIDE DEF p
  <2> QED BY <1>2, <1>5, <2>1, <2>2, <2>3, PumpSilent DEF LivePump, SaidSoFar
<1> QED BY <1>3, <1>4, <1>5 DEF DrainEvents

\* A cancelled pump leaves _stream_segment_through_asr.
LEMMA TranscribeCancelledStep ==
    ASSUME IInv, NEW t \in Turn, TranscribeCancelled(t) PROVE IInv'
<1>1. t = cur /\ HasTurn /\ pump[cur].pc \in {"asr", "asrFailed"}
  BY RunningIsActive DEF TranscribeCancelled
<1> QED BY <1>1, AtActive, PumpEndsStep DEF TranscribeCancelled, PumpIsLast, LivePump

\* The pump sends a partial, the final transcript or ASR_FAILED.
LEMMA PumpSays ==
    ASSUME IInv, HasTurn, NEW p \in Pumps, pump' = [pump EXCEPT ![cur] = p],
           NEW type \in {"partial", "final", "ASR_FAILED"}, Send(type, cur),
           UNCHANGED <<session, ctx, fan, ev, fin, gone, gauge>>,
           pump[cur].pc = "asr", ~pump[cur].kill, p.kill = pump[cur].kill, p.res = pump[cur].res,
           p.pc = IF type = "ASR_FAILED" THEN "asrFailed" ELSE "asr",
           p.text = "text" => "final" \in Said \cup {type}
    PROVE  IInv'
<1> USE AtActive
<1>1. type \in TurnFrameType
  BY DEF TurnFrameType, ReplyType
<1>2. /\ wire' \in Seq([type : TurnFrameType, turn : Turn])
      /\ \A i \in DOMAIN wire' : wire'[i].turn = cur
      /\ Said' = Said \cup {type}
  BY <1>1, SendSays
<1>3. pump'[cur] = p /\ cur' = cur
  BY Changed DEF TypeOK, session
<1>4. ReplyType = {"result", "NO_SPEECH", "UNKNOWN_SCENE", "INVALID_REQUEST", "ASR_FAILED"}
  BY DEF ReplyType
<1>5. fin[cur].pc \notin {"recognize", "sending"}
  BY DEF SaidSoFar
<1>6. SaidSoFar(cur)'
  BY <1>2, <1>3, <1>4, <1>5 DEF SaidSoFar
<1>7. Recorded(cur)'
  BY <1>2, <1>3, <1>5 DEF Recorded, Unanswered
<1>8. gauge' = 1 /\ ~ctx[cur].cancelled /\ fan[cur].pc # "run" /\ ev[cur].pc # "run"
  BY GaugeIsLive DEF LivePump, CancelReaches, PumpIsLast
<1> QED BY <1>2, <1>3, <1>6, <1>7, <1>8, PumpOnly DEF LivePump

\* One item of asr.stream, its end, or its failure.
LEMMA TranscribeStep == ASSUME IInv, NEW t \in Turn, Transcribe(t) PROVE IInv'
<1>1. t = cur /\ HasTurn /\ pump[cur].pc = "asr" /\ ~pump[cur].kill
  BY RunningIsActive DEF Transcribe
<1> USE AtActive, <1>1
<1>2. /\ fan[cur].pc # "run" /\ ev[cur].pc # "run"
      /\ UNCHANGED <<session, ctx, fan, ev, fin, gone>>
  BY DEF Transcribe, PumpIsLast
<1>3. CASE Send("partial", cur) /\ pump' = [pump EXCEPT ![t].partials = @ + 1] /\ UNCHANGED gauge
  <2> DEFINE n == pump[cur].partials + 1
             p == [pump[cur] EXCEPT !.partials = n]
  <2>1. pump' = [pump EXCEPT ![cur] = p]
    BY <1>3, Zenon DEF TypeOK
  <2>2. n \in Nat
    BY DEF Pumps
  <2> HIDE DEF n
  <2>3. p \in Pumps
    BY <2>2, Zenon DEF Pumps
  <2>4. /\ p.kill = pump[cur].kill /\ p.res = pump[cur].res /\ p.pc = pump[cur].pc
        /\ p.text = pump[cur].text
    BY Zenon DEF Pumps
  <2> HIDE DEF p
  <2> QED BY <1>2, <1>3, <2>1, <2>3, <2>4, PumpSays DEF SaidSoFar
<1>4. ASSUME NEW text \in {"empty", "text"}, Send("final", cur),
             pump' = [pump EXCEPT ![t].text = text], UNCHANGED gauge
      PROVE  IInv'
  <2> DEFINE p == [pump[cur] EXCEPT !.text = text]
  <2>1. pump' = [pump EXCEPT ![cur] = p]
    BY <1>4, Zenon DEF TypeOK
  <2>2. text \in Text
    BY DEF Text
  <2>3. p \in Pumps
    BY <2>2, Zenon DEF Pumps
  <2>4. p.kill = pump[cur].kill /\ p.res = pump[cur].res /\ p.pc = pump[cur].pc
    BY Zenon DEF Pumps
  <2> HIDE DEF p
  <2> QED BY <1>2, <1>4, <2>1, <2>3, <2>4, PumpSays
<1>5. CASE Send("ASR_FAILED", cur) /\ pump' = [pump EXCEPT ![t].pc = "asrFailed"] /\ UNCHANGED gauge
  <2> DEFINE p == [pump[cur] EXCEPT !.pc = "asrFailed"]
  <2>1. pump' = [pump EXCEPT ![cur] = p]
    BY <1>5, Zenon DEF TypeOK
  <2>2. p \in Pumps
    BY Values, Zenon DEF Pumps
  <2>3. /\ p.kill = pump[cur].kill /\ p.res = pump[cur].res /\ p.pc = "asrFailed"
        /\ p.text = pump[cur].text
    BY Zenon DEF Pumps
  <2> HIDE DEF p
  <2> QED BY <1>2, <1>5, <2>1, <2>2, <2>3, PumpSays DEF SaidSoFar
<1>6. CASE PumpEnds(cur, "error") /\ UNCHANGED wire
  BY <1>2, <1>6, PumpEndsStep DEF LivePump
<1>7. CASE Sent("final", cur) /\ PumpEnds(cur, pump[cur].text) /\ UNCHANGED wire
  <2>1. pump[cur].text \in {"empty", "text"} /\ "final" \in Said
    BY <1>7, SentIsSaid DEF Pumps, Text
  <2> QED BY <1>2, <1>7, <2>1, PumpEndsStep DEF LivePump
<1> QED BY <1>3, <1>4, <1>5, <1>6, <1>7 DEF Transcribe

\* After ASR_FAILED the pump cancels its own turn and ends with no text.
LEMMA TranscribeFailedStep == ASSUME IInv, NEW t \in Turn, TranscribeFailed(t) PROVE IInv'
<1>1. t = cur /\ HasTurn /\ pump[cur].pc = "asrFailed"
  BY RunningIsActive DEF TranscribeFailed
<1> USE AtActive, <1>1
<1> DEFINE p == PumpTask("done", "empty")
           c == [ctx[cur] EXCEPT !.cancelled = TRUE]
<1>2. p \in Pumps /\ p.pc = "done" /\ p.res = "empty" /\ p.text = "empty"
  BY FreshRecords, Values DEF PumpTask
<1>3. c \in Contexts
  BY Values, Zenon DEF Contexts
<1>4. /\ c.cancelled = TRUE /\ c.metric = ctx[cur].metric /\ c.overflow = ctx[cur].overflow
      /\ c.accum = ctx[cur].accum /\ c.pcm = ctx[cur].pcm
  BY Zenon DEF Contexts
<1>5. /\ pump' = [pump EXCEPT ![cur] = p] /\ ctx' = [ctx EXCEPT ![cur] = c] /\ gauge' = 0
      /\ UNCHANGED <<session, fan, ev, fin, wire, gone>>
  BY GaugeIsLive DEF TranscribeFailed, PumpEnds, FailContext, LivePump
<1> HIDE DEF p, c
<1>6. /\ pump' \in [Turn -> Pumps] /\ pump'[cur] = p /\ ctx' \in [Turn -> Contexts] /\ ctx'[cur] = c
      /\ \A u \in Turn : u # cur => pump'[u] = pump[u] /\ ctx'[u] = ctx[u]
  BY <1>2, <1>3, <1>5, Changed DEF TypeOK
<1>7. TypeOK' /\ cur' = cur /\ Said' = Said
  BY <1>5, <1>6 DEF TypeOK, session, Said
<1>8. PumpIsLast(cur)' /\ AllAccumulated(cur)' /\ HandlerKnows'
  <2>1. PumpIsLast(cur)'
    BY <1>2, <1>5, <1>6, <1>7 DEF PumpIsLast
  <2>2. AllAccumulated(cur)'
    BY <1>4, <1>6, <1>7 DEF AllAccumulated
  <2>3. HandlerKnows'
    BY <1>2, <1>4, <1>5, <1>6, <1>7 DEF HandlerKnows, HasTurn, session
  <2> QED BY <2>1, <2>2, <2>3
<1>9. CancelReaches(cur)' /\ SaidSoFar(cur)' /\ Recorded(cur)'
  <2>1. fin[cur].pc \notin {"recognize", "sending"}
    BY DEF SaidSoFar
  <2>2. CancelReaches(cur)'
    BY <1>2, <1>5, <1>6, <1>7, <2>1 DEF CancelReaches
  <2>3. SaidSoFar(cur)'
    BY <1>2, <1>4, <1>5, <1>6, <1>7, <2>1 DEF SaidSoFar
  <2>4. Recorded(cur)'
    BY <1>2, <1>4, <1>5, <1>6, <1>7 DEF Recorded, Unanswered
  <2> QED BY <2>2, <2>3, <2>4
<1>10. gauge' = IF Live' THEN 1 ELSE 0
  BY <1>2, <1>5, <1>6, <1>7 DEF Live, LivePump
<1> QED BY <1>5, <1>6, <1>7, <1>8, <1>9, <1>10, ActiveStep DEF session

-----------------------------------------------------------------------------
(* Steps of the fan-out, of the event forwarder and of the client that do  *)
(* not concern what the invariant says of pump and context.                *)

\* Such a step keeps the invariant when it sends at most a speech event.
LEMMA QuietStep ==
    ASSUME IInv, HasTurn, TypeOK', UNCHANGED <<hpc, after, cur, fin, gauge>>,
           \A u \in Turn : u # cur => /\ ctx'[u] = ctx[u] /\ pump'[u] = pump[u]
                                      /\ fan'[u] = fan[u] /\ ev'[u] = ev[u],
           ctx'[cur].cancelled = ctx[cur].cancelled, ctx'[cur].metric = ctx[cur].metric,
           AllAccumulated(cur)',
           pump'[cur].pc = pump[cur].pc, pump'[cur].kill = pump[cur].kill,
           pump'[cur].res = pump[cur].res, pump'[cur].text = pump[cur].text,
           fan'[cur].pc = fan[cur].pc \/ (fan[cur].pc = "run" /\ fan'[cur].pc = "done"),
           ev'[cur].pc = ev[cur].pc \/ (ev[cur].pc = "run" /\ ev'[cur].pc = "done"),
           \A i \in DOMAIN wire' : wire'[i].turn = cur,
           Said' = Said \/ (ev[cur].pc = "run" /\ \E e \in EventTypes : Said' = Said \cup {e})
    PROVE  IInv'
<1> USE AtActive
<1>1. PumpIsLast(cur)'
  BY DEF PumpIsLast
<1>2. HandlerKnows'
  BY DEF HandlerKnows, HasTurn
<1>3. CancelReaches(cur)'
  BY DEF CancelReaches
<1>4. EventTypes = {"speech_start", "speech_end"}
      /\ ReplyType = {"result", "NO_SPEECH", "UNKNOWN_SCENE", "INVALID_REQUEST", "ASR_FAILED"}
  BY DEF EventTypes, ReplyType
<1>5. CASE Said' = Said
  <2>1. SaidSoFar(cur)'
    BY <1>5 DEF SaidSoFar
  <2>2. Recorded(cur)'
    BY <1>5 DEF Recorded, Unanswered
  <2> QED BY <1>1, <1>2, <1>3, <2>1, <2>2, ActiveStep, GaugeIsLive DEF Live, HasTurn
<1>6. ASSUME ev[cur].pc = "run", NEW e \in EventTypes, Said' = Said \cup {e} PROVE IInv'
  <2>1. pump[cur].pc \notin {"asr", "asrFailed", "done"}
    BY <1>6 DEF PumpIsLast
  <2>2. SaidSoFar(cur)'
    BY <1>4, <1>6, <2>1 DEF SaidSoFar
  <2>3. Recorded(cur)'
    BY <1>4, <1>6 DEF Recorded, Unanswered
  <2> QED BY <1>1, <1>2, <1>3, <2>2, <2>3, ActiveStep, GaugeIsLive DEF Live, HasTurn
<1> QED BY <1>5, <1>6

\* The fan-out moves an item to both queues, ends after None, or is cancelled.
LEMMA FanOutStep == ASSUME IInv, NEW t \in Turn, FanOut(t) PROVE IInv'
<1>1. t = cur /\ HasTurn /\ fan[cur].pc = "run"
  BY RunningIsActive DEF FanOut
<1> USE AtActive, <1>1
<1>2. UNCHANGED <<session, fin, wire, gauge, gone>> /\ Said' = Said
  BY DEF FanOut, Said
<1>3. ASSUME NEW c \in Contexts, ctx' = [ctx EXCEPT ![cur] = c],
             NEW p \in Pumps, pump' = [pump EXCEPT ![cur] = p],
             NEW f \in FanOuts, fan' = [fan EXCEPT ![cur] = f],
             NEW e \in Forwarders, ev' = [ev EXCEPT ![cur] = e],
             c.cancelled = ctx[cur].cancelled, c.metric = ctx[cur].metric,
             c.overflow = ctx[cur].overflow, c.accum = ctx[cur].accum, c.pcm = ctx[cur].pcm,
             p.pc = pump[cur].pc, p.kill = pump[cur].kill, p.res = pump[cur].res,
             p.text = pump[cur].text, e.pc = ev[cur].pc, f.pc \in {"run", "done"}
      PROVE  IInv'
  <2>1. /\ ctx' \in [Turn -> Contexts] /\ ctx'[cur] = c /\ \A u \in Turn : u # cur => ctx'[u] = ctx[u]
        /\ pump' \in [Turn -> Pumps] /\ pump'[cur] = p /\ \A u \in Turn : u # cur => pump'[u] = pump[u]
        /\ fan' \in [Turn -> FanOuts] /\ fan'[cur] = f /\ \A u \in Turn : u # cur => fan'[u] = fan[u]
        /\ ev' \in [Turn -> Forwarders] /\ ev'[cur] = e /\ \A u \in Turn : u # cur => ev'[u] = ev[u]
    BY <1>3, Changed DEF TypeOK
  <2>2. TypeOK' /\ UNCHANGED <<hpc, after, cur>>
    BY <1>2, <2>1 DEF TypeOK, session
  <2>3. AllAccumulated(cur)'
    BY <1>3, <2>1, <2>2 DEF AllAccumulated
  <2> QED BY <1>2, <1>3, <2>1, <2>2, <2>3, QuietStep
<1>4. CASE fan[cur].kill
  <2> DEFINE f == [fan[cur] EXCEPT !.pc = "done"]
  <2>1. fan' = [fan EXCEPT ![cur] = f]
    BY <1>4, Zenon DEF FanOut, TypeOK
  <2>2. f \in FanOuts /\ f.pc = "done"
    BY Values, Zenon DEF FanOuts
  <2>3. /\ ctx' = [ctx EXCEPT ![cur] = ctx[cur]] /\ pump' = [pump EXCEPT ![cur] = pump[cur]]
        /\ ev' = [ev EXCEPT ![cur] = ev[cur]]
    BY <1>4 DEF FanOut, TypeOK
  <2> HIDE DEF f
  <2> QED BY <1>3, <2>1, <2>2, <2>3
<1>5. CASE ~fan[cur].kill
  <2> DEFINE item == Head(ctx[cur].queue)
             rest == Tail(ctx[cur].queue)
             eq == Append(ev[cur].q, item)
             pq == Append(pump[cur].q, item)
             c == [ctx[cur] EXCEPT !.queue = rest]
             e == IF ev[cur].pc = "run" THEN [ev[cur] EXCEPT !.q = eq] ELSE ev[cur]
             p == IF pump[cur].pc = "segment" THEN [pump[cur] EXCEPT !.q = pq] ELSE pump[cur]
             f == IF item = None THEN [fan[cur] EXCEPT !.pc = "done"] ELSE fan[cur]
  <2>1. ctx' = [ctx EXCEPT ![cur] = c] /\ ctx[cur].queue # <<>>
    BY <1>5, Zenon DEF FanOut, TypeOK
  <2>2. ev' = [ev EXCEPT ![cur] = e]
    <3>1. CASE ev[cur].pc = "run"
      BY <1>5, <3>1, Zenon DEF FanOut, ToEvents, TypeOK
    <3>2. CASE ev[cur].pc # "run"
      BY <1>5, <3>2 DEF FanOut, TypeOK
    <3> QED BY <3>1, <3>2
  <2>3. pump' = [pump EXCEPT ![cur] = p]
    <3>1. CASE pump[cur].pc = "segment"
      BY <1>5, <3>1, Zenon DEF FanOut, TypeOK
    <3>2. CASE pump[cur].pc # "segment"
      BY <1>5, <3>2 DEF FanOut, TypeOK
    <3> QED BY <3>1, <3>2
  <2>4. fan' = [fan EXCEPT ![cur] = f]
    <3>1. CASE item = None
      BY <1>5, <3>1, Zenon DEF FanOut, TypeOK
    <3>2. CASE item # None
      BY <1>5, <3>2 DEF FanOut, TypeOK
    <3> QED BY <3>1, <3>2
  <2>5. rest \in Items /\ eq \in Items /\ pq \in Items
    <3>1. ctx[cur].queue \in Items /\ ev[cur].q \in Items /\ pump[cur].q \in Items
      BY Zenon DEF Contexts, Forwarders, Pumps
    <3> QED BY <2>1, <3>1 DEF Items
  <2> HIDE DEF item, rest, eq, pq
  <2>6. c \in Contexts
    BY <2>5, Zenon DEF Contexts
  <2>7. /\ c.cancelled = ctx[cur].cancelled /\ c.metric = ctx[cur].metric
        /\ c.overflow = ctx[cur].overflow /\ c.accum = ctx[cur].accum /\ c.pcm = ctx[cur].pcm
    BY Zenon DEF Contexts
  <2>8. e \in Forwarders /\ e.pc = ev[cur].pc
    BY <2>5, Zenon DEF Forwarders
  <2>9. p \in Pumps
    BY <2>5, Zenon DEF Pumps
  <2>10. p.pc = pump[cur].pc /\ p.kill = pump[cur].kill /\ p.res = pump[cur].res /\ p.text = pump[cur].text
    BY Zenon DEF Pumps
  <2>11. f \in FanOuts /\ f.pc \in {"run", "done"}
    BY Values, Zenon DEF FanOuts
  <2> HIDE DEF c, e, p, f
  <2> QED BY <1>3, <2>1, <2>2, <2>3, <2>4, <2>6, <2>7, <2>8, <2>9, <2>10, <2>11
<1> QED BY <1>4, <1>5

\* forward_events sends speech_start or speech_end, or ends.
LEMMA ForwardEventsStep == ASSUME IInv, NEW t \in Turn, ForwardEvents(t) PROVE IInv'
<1>1. t = cur /\ HasTurn /\ ev[cur].pc = "run"
  BY RunningIsActive DEF ForwardEvents
<1> USE AtActive, <1>1
<1>2. UNCHANGED <<session, ctx, pump, fan, fin, gauge, gone>>
  BY DEF ForwardEvents
<1>3. \/ UNCHANGED wire
      \/ \E e \in EventTypes : Send(e, cur)
  BY DEF ForwardEvents, VadEvent, EventTypes
<1>4. /\ wire' \in Seq([type : TurnFrameType, turn : Turn])
      /\ \A i \in DOMAIN wire' : wire'[i].turn = cur
      /\ Said' = Said \/ \E e \in EventTypes : Said' = Said \cup {e}
  <2>1. CASE UNCHANGED wire
    BY <2>1 DEF Said
  <2>2. ASSUME NEW e \in EventTypes, Send(e, cur) PROVE <1>4!:
    <3>1. e \in TurnFrameType
      BY DEF EventTypes, TurnFrameType
    <3> QED BY <2>2, <3>1, SendSays
  <2> QED BY <1>3, <2>1, <2>2
<1>5. ASSUME NEW r \in Forwarders, ev' = [ev EXCEPT ![cur] = r], r.pc \in {"run", "done"}
      PROVE  IInv'
  <2>1. ev' \in [Turn -> Forwarders] /\ ev'[cur] = r /\ \A u \in Turn : u # cur => ev'[u] = ev[u]
    BY <1>5, Changed DEF TypeOK
  <2>2. TypeOK' /\ UNCHANGED <<hpc, after, cur>>
    BY <1>2, <1>4, <2>1 DEF TypeOK, session
  <2>3. AllAccumulated(cur)'
    BY <1>2, <2>2 DEF AllAccumulated
  <2> QED BY <1>2, <1>4, <1>5, <2>1, <2>2, <2>3, QuietStep
<1>6. CASE ev' = [ev EXCEPT ![cur] = EventsTask("done")]
  <2>1. EventsTask("done") \in Forwarders /\ EventsTask("done").pc = "done"
    BY FreshRecords, Values DEF EventsTask
  <2> QED BY <1>5, <1>6, <2>1
<1>7. CASE ev' # [ev EXCEPT ![cur] = EventsTask("done")]
  <2> DEFINE q == Tail(ev[cur].q)
             vad == VadNext(Head(ev[cur].q))
             r == [ev[cur] EXCEPT !.q = q, !.vad = vad]
  <2>1. ev[cur].q # <<>> /\ ev' = [ev EXCEPT ![cur].q = Tail(@), ![cur].vad = VadNext(Head(ev[cur].q))]
    BY <1>7, Zenon DEF ForwardEvents
  <2>2. ev' = [ev EXCEPT ![cur] = r]
    BY <2>1, Zenon DEF TypeOK
  <2>3. q \in Items
    <3>1. ev[cur].q \in Items
      BY Zenon DEF Forwarders
    <3> QED BY <2>1, <3>1 DEF Items
  <2>4. vad \in VadState
    BY DEF VadNext, VadState
  <2> HIDE DEF q, vad
  <2>5. r \in Forwarders /\ r.pc = ev[cur].pc
    BY <2>3, <2>4, Zenon DEF Forwarders
  <2> HIDE DEF r
  <2> QED BY <1>5, <2>2, <2>5
<1> QED BY <1>6, <1>7

\* The client's audio and its `stop`: a context that keeps its fate.
LEMMA ClientFrame ==
    ASSUME IInv, HasTurn, NEW c \in Contexts, ctx' = [ctx EXCEPT ![cur] = c],
           UNCHANGED <<session, tasks, wire, gauge, gone>>,
           c.cancelled = ctx[cur].cancelled, c.metric = ctx[cur].metric,
           ~c.overflow => c.accum = c.pcm
    PROVE  IInv'
<1> USE AtActive
<1>1. ctx' \in [Turn -> Contexts] /\ ctx'[cur] = c /\ \A u \in Turn : u # cur => ctx'[u] = ctx[u]
  BY Changed DEF TypeOK
<1>2. TypeOK' /\ UNCHANGED <<hpc, after, cur, pump, fan, ev, fin>> /\ Said' = Said
  BY <1>1 DEF TypeOK, session, tasks, Said
<1>3. AllAccumulated(cur)'
  BY <1>1, <1>2 DEF AllAccumulated
<1> QED BY <1>1, <1>2, <1>3, QuietStep

\* handle_pcm's accumulator holds the whole turn or has overflowed for good.
LEMMA TakeChunkKeeps ==
    ASSUME NEW c \in Contexts, NEW chunk \in Chunk, ~c.overflow => c.accum = c.pcm
    PROVE  /\ TakeChunk(c, chunk) \in Contexts
           /\ TakeChunk(c, chunk).cancelled = c.cancelled /\ TakeChunk(c, chunk).metric = c.metric
           /\ ~TakeChunk(c, chunk).overflow => TakeChunk(c, chunk).accum = TakeChunk(c, chunk).pcm
<1> DEFINE q == Append(c.queue, chunk)
           n == c.pcm + 1
           m == c.accum + 1
           d == Accumulate(c)
           r == [d EXCEPT !.queue = q, !.pcm = n]
<1>1. q \in Items
  <2>1. c.queue \in Items
    BY Zenon DEF Contexts
  <2> QED BY <2>1 DEF Items
<1>2. n \in Nat /\ m \in Nat /\ (~c.overflow => m = n)
  BY DEF Contexts
<1>3. TakeChunk(c, chunk) = r
  BY Zenon DEF TakeChunk
<1>4. /\ d \in Contexts /\ d.cancelled = c.cancelled /\ d.metric = c.metric
      /\ ~d.overflow => ~c.overflow /\ d.accum = m
  <2>1. CASE c.overflow
    BY <2>1, Zenon DEF Accumulate
  <2>2. CASE ~c.overflow /\ c.accum + 1 > MaxAudio
    <3>1. d = [c EXCEPT !.overflow = TRUE, !.accum = 0]
      BY <2>2, Zenon DEF Accumulate, OverflowSticks
    <3> QED BY <3>1, Values, Zenon DEF Contexts
  <2>3. CASE ~c.overflow /\ ~(c.accum + 1 > MaxAudio)
    <3>1. d = [c EXCEPT !.accum = m]
      BY <2>3, Zenon DEF Accumulate
    <3> HIDE DEF m, d
    <3> QED BY <1>2, <2>3, <3>1, Zenon DEF Contexts
  <2> QED BY <2>1, <2>2, <2>3
<1> HIDE DEF q, n, m, d
<1>5. r \in Contexts
  BY <1>1, <1>2, <1>4, Zenon DEF Contexts
<1>6. /\ r.cancelled = d.cancelled /\ r.metric = d.metric /\ r.overflow = d.overflow
      /\ r.accum = d.accum /\ r.pcm = n
  BY <1>4, Zenon DEF Contexts
<1> HIDE DEF r
<1> QED BY <1>2, <1>3, <1>4, <1>5, <1>6

\* handle_pcm.
LEMMA HandlePcmStep == ASSUME IInv, NEW chunk \in Chunk, HandlePcm(chunk) PROVE IInv'
<1>1. HasTurn
  BY DEF HandlePcm
<1> DEFINE c == TakeChunk(ctx[cur], chunk)
<1>2. ctx' = [ctx EXCEPT ![cur] = c] /\ UNCHANGED <<session, tasks, wire, gauge, gone>>
  BY DEF HandlePcm
<1>3. /\ c \in Contexts /\ c.cancelled = ctx[cur].cancelled /\ c.metric = ctx[cur].metric
      /\ ~c.overflow => c.accum = c.pcm
  BY <1>1, AtActive, TakeChunkKeeps DEF AllAccumulated
<1> HIDE DEF c
<1> QED BY <1>1, <1>2, <1>3, ClientFrame

\* handle_stop.
LEMMA HandleStopStep == ASSUME IInv, HandleStop PROVE IInv'
<1>1. HasTurn
  BY DEF HandleStop
<1> USE AtActive, <1>1
<1> DEFINE q == Append(ctx[cur].queue, None)
           n == ctx[cur].stops + 1
           c == [ctx[cur] EXCEPT !.queue = q, !.stops = n]
<1>2. ctx' = [ctx EXCEPT ![cur] = c]
  BY Zenon DEF HandleStop, TypeOK
<1>3. q \in Items
  <2>1. ctx[cur].queue \in Items
    BY Zenon DEF Contexts
  <2> QED BY <2>1 DEF Items
<1>4. n \in Nat
  BY DEF Contexts
<1> HIDE DEF q, n
<1>5. c \in Contexts
  BY <1>3, <1>4, Zenon DEF Contexts
<1>6. /\ c.cancelled = ctx[cur].cancelled /\ c.metric = ctx[cur].metric
      /\ c.overflow = ctx[cur].overflow /\ c.accum = ctx[cur].accum /\ c.pcm = ctx[cur].pcm
  BY Zenon DEF Contexts
<1>7. UNCHANGED <<session, tasks, wire, gauge, gone>>
  BY DEF HandleStop
<1> HIDE DEF c
<1> QED BY <1>2, <1>5, <1>6, <1>7, ClientFrame DEF AllAccumulated

-----------------------------------------------------------------------------
(* Steps of the finalizer.                                                 *)

\* A step that changes, of all tasks, only the active finalizer.
LEMMA FinalizeOnly ==
    ASSUME IInv, HasTurn, NEW f \in Finalizers, fin' = [fin EXCEPT ![cur] = f],
           NEW c \in Contexts, ctx' = [ctx EXCEPT ![cur] = c],
           UNCHANGED <<session, pump, fan, ev, gauge, gone>>,
           c.cancelled = ctx[cur].cancelled, c.overflow = ctx[cur].overflow,
           c.accum = ctx[cur].accum, c.pcm = ctx[cur].pcm,
           fin[cur].pc \notin {"none", "done"}, f.pc # "none",
           f.pc = "recognize" /\ ctx[cur].cancelled => f.kill,
           wire' \in Seq([type : TurnFrameType, turn : Turn]),
           \A i \in DOMAIN wire' : wire'[i].turn = cur,
           SaidSoFar(cur)', Recorded(cur)'
    PROVE  IInv'
<1> USE AtActive
<1>1. /\ ctx' \in [Turn -> Contexts] /\ ctx'[cur] = c /\ \A u \in Turn : u # cur => ctx'[u] = ctx[u]
      /\ fin' \in [Turn -> Finalizers] /\ fin'[cur] = f /\ \A u \in Turn : u # cur => fin'[u] = fin[u]
  BY Changed DEF TypeOK
<1>2. TypeOK' /\ UNCHANGED <<hpc, after, cur, pump, fan, ev, gauge>>
  BY <1>1 DEF TypeOK, session
<1>3. PumpIsLast(cur)'
  BY <1>1, <1>2 DEF PumpIsLast
<1>4. AllAccumulated(cur)'
  BY <1>1, <1>2 DEF AllAccumulated
<1>5. HandlerKnows'
  BY <1>1, <1>2 DEF HandlerKnows, HasTurn
<1>6. CancelReaches(cur)'
  BY <1>1, <1>2 DEF CancelReaches
<1>7. gauge' = IF Live' THEN 1 ELSE 0
  BY <1>2, GaugeIsLive DEF Live, HasTurn
<1> QED BY <1>1, <1>2, <1>3, <1>4, <1>5, <1>6, <1>7, ActiveStep

\* The finalizer records its verdict.
LEMMA FinalizeEndsStep ==
    ASSUME IInv, HasTurn, NEW result \in Verdict, FinalizeEnds(cur, result),
           UNCHANGED <<session, pump, fan, ev, gauge, gone>>,
           fin[cur].pc \notin {"none", "done"},
           result = "ok" => "result" \in Said,
           result = "no_speech" => "NO_SPEECH" \in Said,
           result = "cancelled" => Unanswered,
           result = "error" => Unanswered \/ ctx[cur].cancelled
    PROVE  IInv'
<1> USE AtActive
<1> DEFINE f == [fin[cur] EXCEPT !.pc = "done", !.kill = FALSE]
           c == [ctx[cur] EXCEPT !.metric = result]
<1>1. fin' = [fin EXCEPT ![cur] = f] /\ ctx' = [ctx EXCEPT ![cur] = c] /\ UNCHANGED wire
  BY Zenon DEF FinalizeEnds, TypeOK
<1>2. f \in Finalizers /\ f.pc = "done" /\ f.kill = FALSE
  BY Values, Zenon DEF Finalizers
<1>3. c \in Contexts
  BY Zenon DEF Contexts
<1>4. /\ c.cancelled = ctx[cur].cancelled /\ c.overflow = ctx[cur].overflow
      /\ c.accum = ctx[cur].accum /\ c.pcm = ctx[cur].pcm /\ c.metric = result
  BY Zenon DEF Contexts
<1> HIDE DEF f, c
<1>5. fin'[cur] = f /\ ctx'[cur] = c /\ cur' = cur /\ Said' = Said
  BY <1>1, <1>2, <1>3, Changed DEF TypeOK, session, Said
<1>6. SaidSoFar(cur)'
  BY <1>2, <1>4, <1>5 DEF SaidSoFar
<1>7. Recorded(cur)'
  BY <1>2, <1>4, <1>5 DEF Recorded, Unanswered
<1> QED BY <1>1, <1>2, <1>3, <1>4, <1>6, <1>7, FinalizeOnly

\* The finalizer replies to the client, or finds it gone.
LEMMA ReplyStep ==
    ASSUME IInv, HasTurn, NEW type \in ReplyType \ {"ASR_FAILED"},
           NEW outcome \in {"ok", "no_speech", "error"}, Reply(cur, type, outcome),
           UNCHANGED <<session, pump, fan, ev, gauge, gone>>,
           fin[cur].pc \notin {"none", "done"}, pump[cur].pc = "done",
           outcome = "ok" => type = "result", outcome = "no_speech" => type = "NO_SPEECH",
           outcome = "error" => type \notin {"result", "NO_SPEECH"}, Unanswered
    PROVE  IInv'
<1> USE AtActive
<1>1. CASE gone
  BY <1>1, FinalizeEndsStep DEF Reply, Verdict
<1>2. CASE ~gone
  <2> DEFINE f == [fin[cur] EXCEPT !.pc = "sending", !.outcome = outcome]
  <2>1. fin' = [fin EXCEPT ![cur] = f] /\ Send(type, cur)
    BY <1>2, Zenon DEF Reply, TypeOK
  <2>2. f \in Finalizers
    BY Values, Zenon DEF Finalizers
  <2>3. f.pc = "sending" /\ f.outcome = outcome /\ f.kill = fin[cur].kill
    BY Zenon DEF Finalizers
  <2>4. type \in TurnFrameType
    BY DEF TurnFrameType
  <2>5. /\ wire' \in Seq([type : TurnFrameType, turn : Turn])
        /\ \A i \in DOMAIN wire' : wire'[i].turn = cur
        /\ Said' = Said \cup {type}
    BY <2>1, <2>4, SendSays
  <2>6. ctx' = [ctx EXCEPT ![cur] = ctx[cur]] /\ ctx' = ctx /\ cur' = cur
    BY <1>2 DEF Reply, TypeOK, session
  <2> HIDE DEF f
  <2>7. fin'[cur] = f
    BY <2>1, <2>2, Changed DEF TypeOK
  <2>8. SaidSoFar(cur)'
    BY <2>3, <2>5, <2>6, <2>7 DEF SaidSoFar
  <2>9. Recorded(cur)'
    BY <2>3, <2>5, <2>6, <2>7 DEF Recorded, Unanswered
  <2> QED BY <2>1, <2>2, <2>3, <2>5, <2>6, <2>8, <2>9, FinalizeOnly
<1> QED BY <1>1, <1>2

\* _finalize_turn starts, or was cancelled before it ran.
LEMMA FinalizeStartStep == ASSUME IInv, NEW t \in Turn, FinalizeStart(t) PROVE IInv'
<1>1. t = cur /\ HasTurn /\ fin[cur].pc = "created"
  BY RunningIsActive DEF FinalizeStart
<1> USE AtActive, <1>1
<1> DEFINE pc == IF fin[cur].kill THEN "done" ELSE "awaitPump"
           f == [fin[cur] EXCEPT !.pc = pc]
<1>2. fin' = [fin EXCEPT ![cur] = f]
  BY Zenon DEF FinalizeStart, TypeOK
<1>3. pc \in {"done", "awaitPump"} /\ pc \in FinalizeState
  BY Values
<1> HIDE DEF pc
<1>4. f \in Finalizers /\ f.pc = pc
  BY <1>3, Zenon DEF Finalizers
<1>9. f.kill = fin[cur].kill
  BY Zenon DEF Finalizers
<1>5. /\ ctx' = [ctx EXCEPT ![cur] = ctx[cur]] /\ ctx' = ctx
      /\ UNCHANGED <<session, pump, fan, ev, wire, gauge, gone>>
  BY DEF FinalizeStart, TypeOK
<1> HIDE DEF f
<1>6. fin'[cur] = f /\ cur' = cur /\ Said' = Said
  BY <1>2, <1>4, <1>5, Changed DEF TypeOK, session, Said
<1>7. SaidSoFar(cur)'
  BY <1>3, <1>4, <1>5, <1>6 DEF SaidSoFar
<1>8. Recorded(cur)'
  BY <1>3, <1>4, <1>5, <1>6, <1>9 DEF Recorded, Unanswered
<1> QED BY <1>2, <1>3, <1>4, <1>5, <1>7, <1>8, FinalizeOnly

\* A turn that is neither cancelled nor failed has had no reply when the
\* pump's result arrives.
LEMMA NoReplyYet ==
    ASSUME IInv, HasTurn, fin[cur].pc = "awaitPump", pump[cur].pc = "done",
           ~ctx[cur].cancelled, pump[cur].res # "cancelled"
    PROVE  Said \cap ReplyType = {}
BY AtActive DEF SaidSoFar

\* _finalize_turn after its await of the pump.
LEMMA FinalizeAwaitStep == ASSUME IInv, NEW t \in Turn, FinalizeAwait(t) PROVE IInv'
<1>1. t = cur /\ HasTurn /\ fin[cur].pc = "awaitPump"
  BY RunningIsActive DEF FinalizeAwait
<1> USE AtActive, <1>1
<1>2. UNCHANGED <<session, pump, fan, ev, gauge, gone>>
  BY DEF FinalizeAwait
<1>u. Unanswered
  BY DEF SaidSoFar, ReplyType, Unanswered
<1>3. CASE FinalizeEnds(cur, "cancelled")
  BY <1>2, <1>3, <1>u, FinalizeEndsStep DEF Verdict
<1>4. CASE FinalizeEnds(cur, "error")
  BY <1>2, <1>4, <1>u, FinalizeEndsStep DEF Verdict
<1>5. CASE ~fin[cur].kill /\ Reply(cur, "NO_SPEECH", "no_speech")
  BY <1>2, <1>5, <1>u, ReplyStep DEF FinalizeAwait, ReplyType
<1>6. CASE /\ ~fin[cur].kill /\ ~ctx[cur].cancelled /\ pump[cur].res = "text"
           /\ fin' = [fin EXCEPT ![t].pc = "recognize"]
           /\ ctx' = [ctx EXCEPT ![t].audio = AudioForPathB(ctx[t])] /\ UNCHANGED wire
  <2> DEFINE f == [fin[cur] EXCEPT !.pc = "recognize"]
             a == AudioForPathB(ctx[cur])
             c == [ctx[cur] EXCEPT !.audio = a]
  <2>1. fin' = [fin EXCEPT ![cur] = f] /\ ctx' = [ctx EXCEPT ![cur] = c]
    BY <1>6, Zenon DEF TypeOK
  <2>2. f \in Finalizers /\ f.pc = "recognize" /\ f.kill = fin[cur].kill
    BY Values, Zenon DEF Finalizers
  <2>3. a \in Nat \cup {None}
    BY DEF AudioForPathB, Contexts
  <2> HIDE DEF a
  <2>4. c \in Contexts
    BY <2>3, Zenon DEF Contexts
  <2>5. /\ c.cancelled = ctx[cur].cancelled /\ c.overflow = ctx[cur].overflow
        /\ c.accum = ctx[cur].accum /\ c.pcm = ctx[cur].pcm /\ c.metric = ctx[cur].metric
    BY Zenon DEF Contexts
  <2> HIDE DEF f, c
  <2>6. fin'[cur] = f /\ ctx'[cur] = c /\ cur' = cur /\ Said' = Said
    BY <1>2, <1>6, <2>1, <2>2, <2>4, Changed DEF TypeOK, session, Said
  <2>7. pump[cur].pc = "done" /\ Said \cap ReplyType = {} /\ "final" \in Said
    BY <1>6, NoReplyYet DEF FinalizeAwait, SaidSoFar
  <2>8. SaidSoFar(cur)'
    BY <1>2, <2>2, <2>5, <2>6, <2>7 DEF SaidSoFar
  <2>9. Recorded(cur)'
    BY <2>2, <2>5, <2>6 DEF Recorded, Unanswered
  <2> QED BY <1>2, <1>6, <2>1, <2>2, <2>4, <2>5, <2>8, <2>9, FinalizeOnly
<1> QED BY <1>3, <1>4, <1>5, <1>6 DEF FinalizeAwait

\* _finalize_turn after its await of the orchestrator.
LEMMA RecognizeStep == ASSUME IInv, NEW t \in Turn, Recognize(t) PROVE IInv'
<1>1. t = cur /\ HasTurn /\ fin[cur].pc = "recognize"
  BY RunningIsActive DEF Recognize
<1> USE AtActive, <1>1
<1>2. pump[cur].pc = "done" /\ UNCHANGED <<session, pump, fan, ev, gauge, gone>>
  BY DEF Recognize, SaidSoFar
<1>u. Unanswered
  BY DEF SaidSoFar, ReplyType, Unanswered
<1>3. CASE FinalizeEnds(cur, "error")
  BY <1>2, <1>3, <1>u, FinalizeEndsStep DEF Verdict
<1>4. CASE \/ Reply(cur, "result", "ok") \/ Reply(cur, "UNKNOWN_SCENE", "error")
           \/ Reply(cur, "INVALID_REQUEST", "error")
  BY <1>2, <1>4, <1>u, ReplyStep DEF ReplyType
<1> QED BY <1>3, <1>4 DEF Recognize

\* _finalize_turn after its reply was sent.
LEMMA FinalizeSentStep == ASSUME IInv, NEW t \in Turn, FinalizeSent(t) PROVE IInv'
<1>1. t = cur /\ HasTurn /\ fin[cur].pc = "sending"
  BY RunningIsActive DEF FinalizeSent
<1> USE AtActive, <1>1
<1>2. /\ SentVerdict(fin[cur]) \in {fin[cur].outcome, "error"}
      /\ ~fin[cur].kill => SentVerdict(fin[cur]) = fin[cur].outcome
  BY DEF SentVerdict
<1>3. /\ fin[cur].kill => ctx[cur].cancelled
      /\ fin[cur].outcome = "error" => Unanswered
  BY DEF Recorded
<1> QED BY <1>2, <1>3, FinalizeEndsStep DEF FinalizeSent, Recorded, Verdict

-----------------------------------------------------------------------------
(* _abandon_active and what follows it.                                    *)

\* Task.cancel() of the pump moves no task; it leaves the cancellation with
\* the pump or with the one task that the pump awaits.
LEMMA CancelPumpMarks ==
    ASSUME IInv, HasTurn, CancelPump(cur)
    PROVE  /\ fan' \in [Turn -> FanOuts] /\ ev' \in [Turn -> Forwarders] /\ pump' \in [Turn -> Pumps]
           /\ \A u \in Turn : u # cur => pump'[u] = pump[u] /\ fan'[u] = fan[u] /\ ev'[u] = ev[u]
           /\ fan'[cur].pc = fan[cur].pc /\ ev'[cur].pc = ev[cur].pc
           /\ pump'[cur].pc = pump[cur].pc /\ pump'[cur].res = pump[cur].res
           /\ pump'[cur].text = pump[cur].text
           /\ pump[cur].pc \notin {"drainFan", "drainEvents"} => pump'[cur].kill
           /\ pump'[cur].kill => \/ pump[cur].kill
                                 \/ /\ pump[cur].pc = "drainFan" => fan[cur].pc = "done"
                                    /\ pump[cur].pc = "drainEvents" => ev[cur].pc = "done"
<1> USE AtActive
<1> DEFINE inFan == pump[cur].pc = "drainFan" /\ fan[cur].pc # "done"
           inEvents == pump[cur].pc = "drainEvents" /\ ev[cur].pc # "done"
           f == [fan[cur] EXCEPT !.kill = TRUE]
           e == [ev[cur] EXCEPT !.kill = TRUE]
           p == [pump[cur] EXCEPT !.kill = TRUE]
<1>1. /\ inFan => fan' = [fan EXCEPT ![cur] = f]
      /\ inEvents => ev' = [ev EXCEPT ![cur] = e]
      /\ ~inFan /\ ~inEvents => pump' = [pump EXCEPT ![cur] = p]
  BY Zenon DEF CancelPump, TypeOK
<1>2. (inFan \/ fan' = fan) /\ (inEvents \/ ev' = ev) /\ (inFan \/ inEvents => pump' = pump)
  BY Zenon DEF CancelPump
<1>3. f \in FanOuts /\ f.pc = fan[cur].pc
  BY Values, Zenon DEF FanOuts
<1>4. e \in Forwarders /\ e.pc = ev[cur].pc
  BY Values, Zenon DEF Forwarders
<1>5. p \in Pumps
  BY Values, Zenon DEF Pumps
<1>6. p.pc = pump[cur].pc /\ p.res = pump[cur].res /\ p.text = pump[cur].text /\ p.kill = TRUE
  BY Zenon DEF Pumps
<1> HIDE DEF f, e, p
<1>7. /\ fan' \in [Turn -> FanOuts] /\ fan'[cur].pc = fan[cur].pc
      /\ \A u \in Turn : u # cur => fan'[u] = fan[u]
  <2>1. (fan' = [fan EXCEPT ![cur] = f] \/ fan' = fan) /\ fan \in [Turn -> FanOuts]
    BY <1>1, <1>2, Zenon DEF TypeOK
  <2> QED BY <1>3, <2>1, Changed
<1>8. /\ ev' \in [Turn -> Forwarders] /\ ev'[cur].pc = ev[cur].pc
      /\ \A u \in Turn : u # cur => ev'[u] = ev[u]
  <2>1. (ev' = [ev EXCEPT ![cur] = e] \/ ev' = ev) /\ ev \in [Turn -> Forwarders]
    BY <1>1, <1>2, Zenon DEF TypeOK
  <2> QED BY <1>4, <2>1, Changed
<1>9. CASE inFan \/ inEvents
  <2>1. pump' = pump /\ pump \in [Turn -> Pumps]
    BY <1>2, <1>9, Zenon DEF TypeOK
  <2>2. pump[cur].pc \in {"drainFan", "drainEvents"}
    BY <1>9
  <2> QED BY <1>7, <1>8, <2>1, <2>2
<1>10. CASE ~inFan /\ ~inEvents
  <2>1. pump' \in [Turn -> Pumps] /\ pump'[cur] = p /\ \A u \in Turn : u # cur => pump'[u] = pump[u]
    <3>1. pump' = [pump EXCEPT ![cur] = p] /\ pump \in [Turn -> Pumps]
      BY <1>1, <1>10, Zenon DEF TypeOK
    <3> QED BY <1>5, <3>1, Changed
  <2> QED BY <1>6, <1>7, <1>8, <1>10, <2>1
<1> QED BY <1>9, <1>10

\* The active turn is cancelled, or stays so, and its tasks are told.
LEMMA CancelStep ==
    ASSUME IInv, HasTurn, TypeOK', HandlerKnows', UNCHANGED <<cur, wire, gauge>>,
           \A u \in Turn : u # cur => /\ ctx'[u] = ctx[u] /\ pump'[u] = pump[u] /\ fan'[u] = fan[u]
                                      /\ ev'[u] = ev[u] /\ fin'[u] = fin[u],
           ctx'[cur].cancelled, ctx'[cur].metric = ctx[cur].metric,
           ctx'[cur].overflow = ctx[cur].overflow, ctx'[cur].accum = ctx[cur].accum,
           ctx'[cur].pcm = ctx[cur].pcm,
           pump'[cur].pc = pump[cur].pc, pump'[cur].res = pump[cur].res,
           pump'[cur].text = pump[cur].text,
           fan'[cur].pc = fan[cur].pc, ev'[cur].pc = ev[cur].pc,
           fin'[cur].pc = fin[cur].pc, fin'[cur].outcome = fin[cur].outcome,
           pump'[cur].kill => \/ pump[cur].kill
                              \/ /\ pump[cur].pc = "drainFan" => fan[cur].pc = "done"
                                 /\ pump[cur].pc = "drainEvents" => ev[cur].pc = "done",
           CancelReaches(cur)'
    PROVE  IInv'
<1> USE AtActive
<1>1. PumpIsLast(cur)'
  BY DEF PumpIsLast
<1>2. AllAccumulated(cur)' /\ Said' = Said
  BY DEF AllAccumulated, Said
<1>3. SaidSoFar(cur)'
  BY <1>2 DEF SaidSoFar
<1>4. Recorded(cur)'
  BY <1>2 DEF Recorded, Unanswered
<1>5. gauge' = IF Live' THEN 1 ELSE 0
  BY GaugeIsLive DEF Live, HasTurn
<1> QED BY <1>1, <1>2, <1>3, <1>4, <1>5, ActiveStep

\* _cancel_turn on the context.
LEMMA CancelContextMarks ==
    ASSUME NEW c \in Contexts
    PROVE  /\ CancelContext(c) \in Contexts /\ CancelContext(c).cancelled
           /\ CancelContext(c).metric = c.metric /\ CancelContext(c).overflow = c.overflow
           /\ CancelContext(c).accum = c.accum /\ CancelContext(c).pcm = c.pcm
<1> DEFINE q == Append(c.queue, None)
           d == [c EXCEPT !.cancelled = TRUE, !.queue = q]
<1>1. q \in Items
  <2>1. c.queue \in Items
    BY Zenon DEF Contexts
  <2> QED BY <2>1 DEF Items
<1>2. CancelContext(c) = d
  BY Zenon DEF CancelContext
<1> HIDE DEF q
<1>3. d \in Contexts
  BY <1>1, Values, Zenon DEF Contexts
<1>4. d.cancelled = TRUE /\ d.metric = c.metric /\ d.overflow = c.overflow /\ d.accum = c.accum /\ d.pcm = c.pcm
  BY Zenon DEF Contexts
<1> HIDE DEF d
<1> QED BY <1>2, <1>3, <1>4

\* Cancelling the finalizer once the pump has ended.
LEMMA CancelFinalizeMarks ==
    ASSUME IInv, HasTurn, pump[cur].pc = "done",
           IF fin[cur].pc # "done" THEN CancelFinalize(cur) ELSE UNCHANGED tasks
    PROVE  /\ UNCHANGED <<pump, fan, ev>> /\ fin' \in [Turn -> Finalizers]
           /\ \A u \in Turn : u # cur => fin'[u] = fin[u]
           /\ fin'[cur].pc = fin[cur].pc /\ fin'[cur].outcome = fin[cur].outcome
           /\ fin[cur].pc # "done" => fin'[cur].kill
<1> USE AtActive
<1>1. CASE fin[cur].pc # "done"
  <2> DEFINE f == [fin[cur] EXCEPT !.kill = TRUE]
  <2>1. fin' = [fin EXCEPT ![cur] = f] /\ UNCHANGED <<pump, fan, ev>>
    BY <1>1, Zenon DEF CancelFinalize, TypeOK
  <2>2. f \in Finalizers /\ f.pc = fin[cur].pc /\ f.outcome = fin[cur].outcome /\ f.kill = TRUE
    BY Values, Zenon DEF Finalizers
  <2> HIDE DEF f
  <2> QED BY <2>1, <2>2, Changed DEF TypeOK
<1>2. CASE fin[cur].pc = "done"
  BY <1>2 DEF tasks, TypeOK
<1> QED BY <1>1, <1>2

\* A step without an active turn that touches no task.
LEMMA IdleStep ==
    ASSUME IInv, ~HasTurn, TypeOK', HandlerKnows', UNCHANGED <<cur, ctx, tasks, wire, gauge>>
    PROVE  IInv'
<1>1. ~HasTurn' /\ ~Live /\ ~Live'
  BY DEF HasTurn, Live
<1>2. \A t \in Turn : (Sequential(t) /\ PumpIsLast(t) /\ AllAccumulated(t))'
  BY DEF IInv, Sequential, PumpIsLast, AllAccumulated, tasks
<1> QED BY <1>1, <1>2 DEF IInv

\* _abandon_active up to its first await: without a turn, with one whose pump
\* runs, and with one whose pump has ended.
LEMMA AbandonActiveStep ==
    ASSUME IInv, hpc = "receive", NEW next \in {Close} \cup Starts, AbandonActive(next),
           next.kind = "start" => next.turn > cur,
           UNCHANGED wire, gone' \in BOOLEAN, notices' \in Seq([type : NoticeType, turn : Turn])
    PROVE  IInv'
<1>1. TypeOK /\ after' = next /\ hpc' \in {"awaitPump", "awaitFinalize"} /\ UNCHANGED <<sid, cur, gauge>>
  BY DEF IInv, AbandonActive
<1>2. CASE ~HasTurn
  <2>1. ctx' = ctx /\ UNCHANGED tasks /\ hpc' = "awaitFinalize"
    BY <1>2 DEF AbandonActive, MustCancelTurn
  <2>2. TypeOK'
    BY <1>1, <2>1 DEF TypeOK, tasks
  <2>3. HandlerKnows'
    BY <1>1, <1>2, <2>1 DEF HandlerKnows, HasTurn
  <2> QED BY <1>1, <1>2, <2>1, <2>2, <2>3, IdleStep
<1>3. CASE HasTurn
  <2> USE AtActive, <1>3
  <2> DEFINE c == IF ctx[cur].cancelled THEN ctx[cur] ELSE CancelContext(ctx[cur])
  <2>1. ctx' = [ctx EXCEPT ![cur] = c]
    BY DEF AbandonActive, MustCancelTurn, TypeOK
  <2>2. /\ c \in Contexts /\ c.cancelled /\ c.metric = ctx[cur].metric
        /\ c.overflow = ctx[cur].overflow /\ c.accum = ctx[cur].accum /\ c.pcm = ctx[cur].pcm
    BY CancelContextMarks
  <2> HIDE DEF c
  <2>3. ctx' \in [Turn -> Contexts] /\ ctx'[cur] = c /\ \A u \in Turn : u # cur => ctx'[u] = ctx[u]
    BY <2>1, <2>2, Changed DEF TypeOK
  <2>4. CASE MustCancelTurn /\ pump[cur].pc # "done"
    <3>1. CancelPump(cur) /\ hpc' = "awaitPump" /\ UNCHANGED fin
      BY <2>4 DEF AbandonActive
    <3>2. TypeOK'
      BY <1>1, <2>3, <3>1, CancelPumpMarks DEF TypeOK
    <3>3. HandlerKnows'
      BY <1>1, <2>2, <2>3, <3>1 DEF HandlerKnows, HasTurn
    <3>4. CancelReaches(cur)'
      BY <1>1, <2>4, <3>1, CancelPumpMarks DEF CancelReaches, SaidSoFar
    <3> QED BY <1>1, <2>2, <2>3, <3>1, <3>2, <3>3, <3>4, CancelPumpMarks, CancelStep
  <2>5. CASE ~(MustCancelTurn /\ pump[cur].pc # "done")
    <3>1. pump[cur].pc = "done" /\ hpc' = "awaitFinalize"
      BY <2>5 DEF AbandonActive, MustCancelTurn, HandlerKnows
    <3>2. IF fin[cur].pc # "done" THEN CancelFinalize(cur) ELSE UNCHANGED tasks
      BY <2>5 DEF AbandonActive
    <3>3. TypeOK'
      BY <1>1, <2>3, <3>1, <3>2, CancelFinalizeMarks DEF TypeOK
    <3>4. HandlerKnows'
      BY <1>1, <2>2, <2>3, <3>1, <3>2, CancelFinalizeMarks DEF HandlerKnows, HasTurn
    <3>5. CancelReaches(cur)'
      BY <1>1, <3>1, <3>2, CancelFinalizeMarks DEF CancelReaches
    <3> QED BY <1>1, <2>2, <2>3, <3>1, <3>2, <3>3, <3>4, <3>5, CancelFinalizeMarks, CancelStep
  <2> QED BY <2>4, <2>5
<1> QED BY <1>2, <1>3

\* _abandon_active after the pump has ended.
LEMMA PumpAbandonedStep == ASSUME IInv, PumpAbandoned PROVE IInv'
<1>1. HasTurn /\ ctx[cur].cancelled /\ pump[cur].pc = "done" /\ hpc' = "awaitFinalize"
  BY DEF PumpAbandoned, IInv, HandlerKnows
<1> USE AtActive, <1>1
<1>2. /\ IF fin[cur].pc # "done" THEN CancelFinalize(cur) ELSE UNCHANGED tasks
      /\ UNCHANGED <<after, sid, cur, notices, ctx, wire, gauge, gone>>
  BY DEF PumpAbandoned
<1>3. TypeOK'
  BY <1>2, CancelFinalizeMarks DEF TypeOK
<1>4. HandlerKnows'
  BY <1>2, CancelFinalizeMarks DEF HandlerKnows, HasTurn, PumpAbandoned
<1>5. CancelReaches(cur)'
  BY <1>2, CancelFinalizeMarks DEF CancelReaches
<1> QED BY <1>2, <1>3, <1>4, <1>5, CancelFinalizeMarks, CancelStep

\* Neither a notice nor the client's disappearance concerns the turns.
LEMMA UntouchedStep ==
    ASSUME IInv, TypeOK', UNCHANGED <<hpc, after, cur, ctx, tasks, wire, gauge>>
    PROVE  IInv'
<1>1. UNCHANGED <<HasTurn, Live, Said>>
  BY DEF HasTurn, Live, tasks, Said
<1>2. \A t \in Turn : (Sequential(t) /\ PumpIsLast(t) /\ AllAccumulated(t))'
  BY DEF IInv, Sequential, PumpIsLast, AllAccumulated, tasks
<1>3. HandlerKnows'
  BY DEF IInv, HandlerKnows, HasTurn, tasks
<1>4. ASSUME HasTurn PROVE (CancelReaches(cur) /\ SaidSoFar(cur) /\ Recorded(cur))'
  BY <1>1, <1>4 DEF IInv, CancelReaches, SaidSoFar, Recorded, Unanswered, tasks
<1> QED BY <1>1, <1>2, <1>3, <1>4 DEF IInv

\* A refused `start` is told to the client.
LEMMA NoticeTyped ==
    ASSUME TypeOK, NEW type \in NoticeType, NEW t \in Turn, Notice(type, t)
    PROVE  notices' \in Seq([type : NoticeType, turn : Turn])
<1> DEFINE f == Frame(type, t)
<1>1. f \in [type : NoticeType, turn : Turn]
  BY DEF Frame
<1> HIDE DEF f
<1>2. notices' = Append(notices, f)
  BY DEF Notice, f
<1> QED BY <1>1, <1>2 DEF TypeOK

\* handle_start: refused for good, refused as stale, or accepted.
LEMMA HandleStartStep ==
    ASSUME IInv, NEW s \in Session, NEW t \in Turn, NEW form \in StartForm,
           HandleStart(s, t, form)
    PROVE  IInv'
<1>1. TypeOK /\ hpc = "receive" /\ UNCHANGED <<wire, gone>> /\ gone' \in BOOLEAN
  BY DEF IInv, TypeOK, HandleStart
<1>2. Close.kind = "close" /\ Close \in {Close} \cup Starts
  BY DEF Close
<1>3. Start(s, t, form) \in Starts /\ Start(s, t, form).turn = t
  BY DEF Start, Starts
<1>4. notices' \in Seq([type : NoticeType, turn : Turn])
  <2>1. CASE notices' = notices
    BY <1>1, <2>1 DEF TypeOK
  <2>2. CASE \E type \in NoticeType : Notice(type, t)
    BY <1>1, <2>2, NoticeTyped
  <2> QED BY <2>1, <2>2 DEF HandleStart, RejectFatal, RejectStale, AcceptStart, NoticeType
<1>5. CASE AbandonActive(Close)
  BY <1>1, <1>2, <1>4, <1>5, AbandonActiveStep
<1>6. CASE AcceptStart(s, t, form)
  <2>1. t > cur
    BY <1>1, <1>6, StreamAssumption DEF AcceptStart, IsStale, TypeOK, Turn
  <2>2. AbandonActive(Start(s, t, form))
    BY <1>6 DEF AcceptStart
  <2> QED BY <1>1, <1>3, <1>4, <2>1, <2>2, AbandonActiveStep
<1>7. CASE UNCHANGED <<hpc, after, sid, cur, ctx, tasks, gauge>>
  <2>1. TypeOK'
    BY <1>1, <1>4, <1>7 DEF TypeOK, tasks
  <2> QED BY <1>1, <1>7, <2>1, UntouchedStep
<1> QED BY <1>5, <1>6, <1>7 DEF HandleStart, RejectFatal, RejectStale

\* A control frame that raises, and a disconnect.
LEMMA ClosingStep ==
    ASSUME IInv, ControlRaises \/ Disconnect PROVE IInv'
<1>1. /\ hpc = "receive" /\ AbandonActive(Close) /\ UNCHANGED <<notices, wire>>
      /\ gone' = gone \/ gone' = TRUE
  BY DEF ControlRaises, Disconnect
<1>2. Close.kind = "close" /\ TypeOK
  BY DEF Close, IInv
<1>3. gone' \in BOOLEAN /\ notices' \in Seq([type : NoticeType, turn : Turn])
  BY <1>1, <1>2 DEF TypeOK
<1> QED BY <1>1, <1>2, <1>3, AbandonActiveStep

\* The client vanishes before the receive loop notices.
LEMMA ClientGoneStep == ASSUME IInv, ClientGone PROVE IInv'
<1>1. UNCHANGED <<hpc, after, sid, cur, notices, ctx, tasks, wire, gauge>> /\ gone' = TRUE
  BY DEF ClientGone, session
<1>2. TypeOK'
  BY <1>1 DEF IInv, TypeOK, tasks
<1> QED BY <1>1, <1>2, UntouchedStep

\* What BeginTurn finds: the turn before is over, the one it begins is new.
LEMMA BeforeBegin ==
    ASSUME IInv, hpc = "awaitFinalize", after.kind = "start", HasTurn => FinalizeOver(cur)
    PROVE  /\ after \in Starts /\ after.turn \in Turn /\ after.session \in Session
           /\ after.turn > cur /\ gauge = 0
           /\ pump[after.turn] = PumpTask("none", "none") /\ fin[after.turn] = FinalizeTask("none")
           /\ ctx[after.turn] = Context(FALSE)
           /\ fan[after.turn] = [pc |-> "none", kill |-> FALSE] /\ ev[after.turn] = EventsTask("none")
           /\ HasTurn => pump[cur].pc = "done" /\ fin[cur].pc = "done"
<1>1. after \in Starts /\ after.turn > cur
  BY DEF IInv, TypeOK, HandlerKnows, Close
<1>2. after.turn \in Turn /\ after.session \in Session
  BY <1>1 DEF Starts
<1>3. Sequential(after.turn)
  BY <1>2 DEF IInv
<1>4. HasTurn => pump[cur].pc = "done" /\ fin[cur].pc = "done"
  BY DEF IInv, HandlerKnows, FinalizeOver
<1>5. gauge = 0
  BY <1>4 DEF IInv, Live, LivePump
<1> QED BY <1>1, <1>2, <1>3, <1>4, <1>5 DEF Sequential

\* The end of handle_start creates the tasks of the new turn.
LEMMA BeginTurnStep ==
    ASSUME IInv, hpc = "awaitFinalize", after.kind = "start", HasTurn => FinalizeOver(cur),
           BeginTurn, UNCHANGED <<after, fan, ev, gauge, gone>>
    PROVE  IInv'
<1> DEFINE a == after.turn
           p == [pump[a] EXCEPT !.pc = "created"]
           f == [fin[a] EXCEPT !.pc = "created"]
           c == [ctx[a] EXCEPT !.valid = after.valid]
<1>1. TypeOK /\ \A u \in Turn : Sequential(u) /\ PumpIsLast(u) /\ AllAccumulated(u)
  BY DEF IInv
<1>a. /\ a \in Turn /\ a > cur /\ a # cur /\ a # -1 /\ a \in Int /\ cur \in Int /\ gauge = 0
      /\ after.session \in Session
  <2>1. a \in Turn /\ a > cur /\ gauge = 0 /\ after.session \in Session
    BY BeforeBegin
  <2> QED BY <1>1, <2>1, StreamAssumption DEF TypeOK, Turn
<1>b. pump[a] = PumpTask("none", "none") /\ fin[a] = FinalizeTask("none")
  BY BeforeBegin
<1>c. ctx[a] = Context(FALSE) /\ fan[a].pc = "none" /\ ev[a].pc = "none"
  <2>1. /\ ctx[a] = Context(FALSE) /\ fan[a] = [pc |-> "none", kill |-> FALSE]
        /\ ev[a] = EventsTask("none")
    BY BeforeBegin
  <2>2. EventsTask("none").pc = "none"
    BY DEF EventsTask
  <2> QED BY <2>1, <2>2
<1>d. HasTurn => cur \in Turn /\ pump[cur].pc = "done" /\ fin[cur].pc = "done"
  BY <1>1, BeforeBegin DEF HasTurn, TypeOK
<1>2. /\ p \in Pumps /\ p.pc = "created" /\ p.res = "none" /\ p.kill = FALSE /\ p.text = "empty"
      /\ f \in Finalizers /\ f.pc = "created" /\ f.kill = FALSE
  <2>1. pump[a] \in Pumps /\ fin[a] \in Finalizers
    BY <1>1, <1>a DEF TypeOK
  <2>2. pump[a].res = "none" /\ pump[a].kill = FALSE /\ pump[a].text = "empty"
    BY <1>b DEF PumpTask
  <2>5. fin[a].kill = FALSE
    BY <1>b DEF FinalizeTask
  <2>3. p \in Pumps /\ f \in Finalizers
    BY <2>1, Values, Zenon DEF Pumps, Finalizers
  <2>4. /\ p.pc = "created" /\ p.res = pump[a].res /\ p.kill = pump[a].kill /\ p.text = pump[a].text
        /\ f.pc = "created" /\ f.kill = fin[a].kill
    BY <2>1, Zenon DEF Pumps, Finalizers
  <2> QED BY <2>2, <2>3, <2>4, <2>5, Zenon
<1>3. /\ pump' \in [Turn -> Pumps] /\ pump'[a] = p
      /\ \A u \in Turn : u # a /\ u # cur => pump'[u] = pump[u]
      /\ HasTurn => pump'[cur] = PumpTask(pump[cur].pc, "none")
  <2>1. CASE ~HasTurn
    <3>1. pump' = [pump EXCEPT ![a] = p] /\ pump \in [Turn -> Pumps]
      BY <1>1, <2>1, Zenon DEF BeginTurn, TypeOK
    <3> HIDE DEF p
    <3> QED BY <1>2, <1>a, <2>1, <3>1, Changed
  <2>2. CASE HasTurn
    <3> DEFINE o == PumpTask(pump[cur].pc, "none")
               m == [pump EXCEPT ![cur] = o]
    <3>1. cur \in Turn /\ cur # a /\ pump \in [Turn -> Pumps]
      BY <1>1, <1>a, <1>d, <2>2 DEF TypeOK
    <3>2. o \in Pumps
      <4>1. pump[cur].pc \in PumpState
        BY <1>d, <2>2, Values
      <4> QED BY <4>1, FreshRecords, Values
    <3>3. m \in [Turn -> Pumps] /\ m[cur] = o /\ \A u \in Turn : u # cur => m[u] = pump[u]
      <4> HIDE DEF o
      <4> QED BY <3>1, <3>2, Changed
    <3>4. pump' = [m EXCEPT ![a] = [m[a] EXCEPT !.pc = "created"]]
      BY <2>2, <3>3, Zenon DEF BeginTurn, Supersede
    <3>5. [m[a] EXCEPT !.pc = "created"] = p
      BY <1>a, <3>1, <3>3, Zenon
    <3>6. pump' = [m EXCEPT ![a] = p]
      BY <3>4, <3>5, Zenon
    <3> HIDE DEF m, p, o
    <3>7. pump' \in [Turn -> Pumps] /\ pump'[a] = p /\ \A u \in Turn : u # a => pump'[u] = m[u]
      BY <1>2, <1>a, <3>3, <3>6, Changed
    <3> QED BY <3>1, <3>3, <3>7 DEF o
  <2> QED BY <2>1, <2>2
<1>4. /\ fin' \in [Turn -> Finalizers] /\ fin'[a] = f
      /\ \A u \in Turn : u # a /\ u # cur => fin'[u] = fin[u]
      /\ HasTurn => fin'[cur] = FinalizeTask(fin[cur].pc)
  <2>1. CASE ~HasTurn
    <3>1. fin' = [fin EXCEPT ![a] = f] /\ fin \in [Turn -> Finalizers]
      BY <1>1, <2>1, Zenon DEF BeginTurn, TypeOK
    <3> HIDE DEF f
    <3> QED BY <1>2, <1>a, <2>1, <3>1, Changed
  <2>2. CASE HasTurn
    <3> DEFINE o == FinalizeTask(fin[cur].pc)
               m == [fin EXCEPT ![cur] = o]
    <3>1. cur \in Turn /\ cur # a /\ fin \in [Turn -> Finalizers]
      BY <1>1, <1>a, <1>d, <2>2 DEF TypeOK
    <3>2. o \in Finalizers
      <4>1. fin[cur].pc \in FinalizeState
        BY <1>d, <2>2, Values
      <4> QED BY <4>1, FreshRecords, Values
    <3>3. m \in [Turn -> Finalizers] /\ m[cur] = o /\ \A u \in Turn : u # cur => m[u] = fin[u]
      <4> HIDE DEF o
      <4> QED BY <3>1, <3>2, Changed
    <3>4. fin' = [m EXCEPT ![a] = [m[a] EXCEPT !.pc = "created"]]
      BY <2>2, <3>3, Zenon DEF BeginTurn, Supersede
    <3>5. [m[a] EXCEPT !.pc = "created"] = f
      BY <1>a, <3>1, <3>3, Zenon
    <3>6. fin' = [m EXCEPT ![a] = f]
      BY <3>4, <3>5, Zenon
    <3> HIDE DEF m, f, o
    <3>7. fin' \in [Turn -> Finalizers] /\ fin'[a] = f /\ \A u \in Turn : u # a => fin'[u] = m[u]
      BY <1>2, <1>a, <3>3, <3>6, Changed
    <3> QED BY <3>1, <3>3, <3>7 DEF o
  <2> QED BY <2>1, <2>2
<1>e. c \in Contexts /\ ~c.cancelled /\ c.metric = "none" /\ c.accum = 0 /\ c.pcm = 0
  <2>1. ctx[a] \in Contexts /\ after.valid \in BOOLEAN
    BY <1>1, <1>a, BeforeBegin DEF TypeOK, Starts
  <2>2. ~ctx[a].cancelled /\ ctx[a].metric = "none" /\ ctx[a].accum = 0 /\ ctx[a].pcm = 0
    BY <1>c DEF Context
  <2>3. c \in Contexts
    BY <2>1, Zenon DEF Contexts
  <2>4. /\ c.cancelled = ctx[a].cancelled /\ c.metric = ctx[a].metric
        /\ c.accum = ctx[a].accum /\ c.pcm = ctx[a].pcm
    BY <2>1, Zenon DEF Contexts
  <2> QED BY <2>2, <2>3, <2>4, Zenon
<1>5. /\ ctx' \in [Turn -> Contexts] /\ ctx'[a] = c
      /\ \A u \in Turn : u # a /\ u # cur => ctx'[u] = ctx[u]
      /\ HasTurn => ctx'[cur] = Context(ctx[cur].cancelled)
  <2>1. CASE ~HasTurn
    <3>1. ctx' = [ctx EXCEPT ![a] = c] /\ ctx \in [Turn -> Contexts]
      BY <1>1, <2>1, Zenon DEF BeginTurn, TypeOK
    <3> HIDE DEF c
    <3> QED BY <1>e, <1>a, <2>1, <3>1, Changed
  <2>2. CASE HasTurn
    <3> DEFINE o == Context(ctx[cur].cancelled)
               m == [ctx EXCEPT ![cur] = o]
    <3>1. cur \in Turn /\ cur # a /\ ctx \in [Turn -> Contexts] /\ ctx[cur].cancelled \in BOOLEAN
      BY <1>1, <1>a, <2>2, AtActive DEF TypeOK, Contexts
    <3>2. o \in Contexts
      BY <3>1, FreshRecords
    <3>3. m \in [Turn -> Contexts] /\ m[cur] = o /\ \A u \in Turn : u # cur => m[u] = ctx[u]
      <4> HIDE DEF o
      <4> QED BY <3>1, <3>2, Changed
    <3>4. ctx' = [m EXCEPT ![a] = [m[a] EXCEPT !.valid = after.valid]]
      BY <2>2, <3>3, Zenon DEF BeginTurn, Supersede
    <3>5. [m[a] EXCEPT !.valid = after.valid] = c
      BY <1>a, <3>1, <3>3, Zenon
    <3>6. ctx' = [m EXCEPT ![a] = c]
      BY <3>4, <3>5, Zenon
    <3> HIDE DEF m, c, o
    <3>7. ctx' \in [Turn -> Contexts] /\ ctx'[a] = c /\ \A u \in Turn : u # a => ctx'[u] = m[u]
      BY <1>e, <1>a, <3>3, <3>6, Changed
    <3> QED BY <3>1, <3>3, <3>7 DEF o
  <2> QED BY <2>1, <2>2
<1>6. /\ hpc' = "receive" /\ sid' = after.session /\ cur' = a /\ wire' = <<>> /\ notices' = <<>>
      /\ Said' = {}
  BY DEF BeginTurn, Said
<1> HIDE DEF p, f, c, a
<1>7. TypeOK'
  <2>1. /\ wire' \in Seq([type : TurnFrameType, turn : Turn])
        /\ notices' \in Seq([type : NoticeType, turn : Turn])
    BY <1>6
  <2>2. hpc' = "receive" /\ sid' \in Session \cup {None} /\ cur' \in Turn \cup {-1}
    BY <1>6, <1>a
  <2> QED BY <1>1, <1>3, <1>4, <1>5, <2>1, <2>2, Zenon DEF TypeOK
<1>8. HasTurn' /\ Live' = FALSE
  BY <1>2, <1>3, <1>6, <1>a DEF HasTurn, Live, LivePump
<1>9. ASSUME NEW u \in Turn PROVE (Sequential(u) /\ PumpIsLast(u) /\ AllAccumulated(u))'
  <2>1. u \in Int
    BY StreamAssumption DEF Turn
  <2>2. CASE u = a
    <3>1. ~(u > cur') /\ ~(u < cur') /\ u # cur
      BY <1>6, <1>a, <2>1, <2>2
    <3>2. ctx'[u] = c /\ fan'[u].pc = "none" /\ ev'[u].pc = "none"
      BY <1>5, <1>a, <1>c, <2>2
    <3>3. Sequential(u)'
      BY <3>1, Zenon DEF Sequential
    <3>4. PumpIsLast(u)'
      BY <1>2, <1>3, <1>4, <2>2, <3>2 DEF PumpIsLast
    <3>5. AllAccumulated(u)'
      BY <1>e, <3>2 DEF AllAccumulated
    <3> QED BY <3>3, <3>4, <3>5
  <2>3. CASE u = cur /\ HasTurn
    <3>1. /\ ctx'[u].metric = "none" /\ ctx'[u].accum = 0 /\ ctx'[u].pcm = 0
          /\ pump'[u].pc = "done" /\ pump'[u].kill = FALSE /\ fin'[u].pc = "done"
      BY <1>3, <1>4, <1>5, <1>d, <2>3 DEF Context, PumpTask, FinalizeTask
    <3>2. ~(u > cur')
      BY <1>6, <1>a, <2>1, <2>3
    <3>3. Sequential(u)'
      BY <3>1, <3>2 DEF Sequential
    <3>4. PumpIsLast(u)'
      BY <1>1, <1>d, <2>3, <3>1 DEF PumpIsLast
    <3>5. AllAccumulated(u)'
      BY <3>1 DEF AllAccumulated
    <3> QED BY <3>3, <3>4, <3>5
  <2>4. CASE u # a /\ u # cur
    <3>1. /\ ctx'[u] = ctx[u] /\ pump'[u] = pump[u] /\ fin'[u] = fin[u]
          /\ fan'[u] = fan[u] /\ ev'[u] = ev[u]
      BY <1>3, <1>4, <1>5, <2>4
    <3>2. (u > cur' => u > cur) /\ (u > cur \/ u < cur)
      BY <1>6, <1>a, <2>1, <2>4
    <3>3. Sequential(u) /\ PumpIsLast(u) /\ AllAccumulated(u)
      BY <1>1
    <3>4. Sequential(u)'
      <4>1. u > cur => pump[u].pc = "none" /\ fin[u].pc = "none" /\ ctx[u].metric = "none"
        BY <3>3 DEF Sequential, PumpTask, FinalizeTask, Context
      <4> QED BY <3>1, <3>2, <3>3, <4>1 DEF Sequential
    <3>5. PumpIsLast(u)' /\ AllAccumulated(u)'
      BY <3>1, <3>3 DEF PumpIsLast, AllAccumulated
    <3> QED BY <3>4, <3>5
  <2>5. u # -1
    BY StreamAssumption DEF Turn
  <2> QED BY <2>2, <2>3, <2>4, <2>5 DEF HasTurn
<1>10. HandlerKnows'
  <2>1. ~ctx'[a].cancelled
    BY <1>5, <1>e
  <2> QED BY <1>6, <2>1 DEF HandlerKnows
<1>11. (CancelReaches(cur) /\ SaidSoFar(cur) /\ Recorded(cur))'
  <2>1. ctx'[a].metric = "none"
    BY <1>5, <1>e
  <2>2. CancelReaches(cur)'
    BY <1>2, <1>3, <1>4, <1>6 DEF CancelReaches
  <2>3. SaidSoFar(cur)'
    BY <1>2, <1>3, <1>4, <1>6 DEF SaidSoFar
  <2>4. Recorded(cur)'
    BY <1>2, <1>4, <1>6, <2>1 DEF Recorded, Unanswered
  <2> QED BY <2>2, <2>3, <2>4
<1>12. \A i \in DOMAIN wire' : wire'[i].turn = cur'
  BY <1>6
<1> QED BY <1>6, <1>a, <1>12, <1>7, <1>8, <1>9, <1>10, <1>11 DEF IInv

\* Every handler frees the session for the next frame only when the turn is
\* over, or closes it.
LEMMA TurnAbandonedStep == ASSUME IInv, TurnAbandoned PROVE IInv'
<1>1. /\ hpc = "awaitFinalize" /\ (HasTurn => FinalizeOver(cur))
      /\ UNCHANGED <<after, fan, ev, gauge, gone>>
  BY DEF TurnAbandoned
<1>2. CASE after.kind = "start" /\ BeginTurn
  BY <1>1, <1>2, BeginTurnStep
<1>3. CASE hpc' = "closed" /\ UNCHANGED <<sid, cur, notices, ctx, pump, fin, wire>>
  <2>1. TypeOK'
    BY <1>1, <1>3 DEF IInv, TypeOK
  <2>2. HandlerKnows'
    BY <1>1, <1>3 DEF IInv, HandlerKnows, HasTurn, FinalizeOver
  <2>3. CASE ~HasTurn
    BY <1>1, <1>3, <2>1, <2>2, <2>3, IdleStep DEF tasks
  <2>4. CASE HasTurn
    <3>1. ctx[cur].cancelled /\ CancelReaches(cur)
      BY <1>1, <2>4, AtActive DEF HandlerKnows
    <3>2. CancelReaches(cur)'
      BY <1>1, <1>3, <3>1 DEF CancelReaches
    <3> QED BY <1>1, <1>3, <2>1, <2>2, <2>4, <3>1, <3>2, CancelStep
  <2> QED BY <2>3, <2>4
<1> QED BY <1>2, <1>3 DEF TurnAbandoned

\* The invariant is inductive.
LEMMA NextIInv == ASSUME IInv, [Next]_vars PROVE IInv'
<1>1. CASE ClientStep
  <2>1. CASE \E c \in Chunk : HandlePcm(c)
    BY <2>1, HandlePcmStep
  <2>2. CASE HandleStop
    BY <2>2, HandleStopStep
  <2>3. CASE \E s \in Session, t \in Turn, form \in StartForm :
                HandleStart(s, t, form)
    BY <2>3, HandleStartStep
  <2>4. CASE ControlRaises \/ Disconnect
    BY <2>4, ClosingStep
  <2>5. CASE ClientGone
    BY <2>5, ClientGoneStep
  <2> QED BY <1>1, <2>1, <2>2, <2>3, <2>4, <2>5 DEF ClientStep
<1>2. CASE HandlerResumes
  BY <1>2, PumpAbandonedStep, TurnAbandonedStep DEF HandlerResumes
<1>3. ASSUME NEW t \in Turn, PumpStep(t) PROVE IInv'
  BY <1>3, PumpStartStep, FirstSegmentStep, DrainFanStep, DrainEventsStep, TranscribeStep,
     TranscribeFailedStep, TranscribeCancelledStep DEF PumpStep
<1>4. ASSUME NEW t \in Turn, FanOut(t) \/ ForwardEvents(t) PROVE IInv'
  BY <1>4, FanOutStep, ForwardEventsStep
<1>5. ASSUME NEW t \in Turn, FinalizeStep(t) PROVE IInv'
  BY <1>5, FinalizeStartStep, FinalizeAwaitStep, RecognizeStep, FinalizeSentStep DEF FinalizeStep
<1>6. CASE UNCHANGED vars
  <2>1. UNCHANGED <<hpc, after, sid, cur, notices, ctx, tasks, wire, gauge, gone>>
    BY <1>6 DEF vars, session
  <2>2. TypeOK'
    BY <2>1 DEF IInv, TypeOK, tasks
  <2> QED BY <2>1, <2>2, UntouchedStep
<1> QED BY <1>1, <1>2, <1>3, <1>4, <1>5, <1>6 DEF Next, Ended

-----------------------------------------------------------------------------
(* Theorems.                                                               *)

\* The invariant holds in every reachable state.
THEOREM Invariance == Spec => []IInv
<1>1. IInv /\ [Next]_vars => IInv'
  BY NextIInv
<1> QED BY InitIInv, <1>1, PTL DEF Spec

\* The session, the contexts and the four tasks of every turn keep their shape.
THEOREM TypeCorrect == Spec => []TypeOK
<1>1. IInv => TypeOK
  BY DEF IInv
<1> QED BY Invariance, <1>1, PTL

\* No task outlives its turn: when _abandon_active has returned, the pump, its
\* two helpers and the finalizer of the turn have ended, so that the next turn
\* or the closed connection has none of theirs, and ws_active_turns is exact.
THEOREM TasksEnd == Spec => []NoTaskOutlivesTurn
<1>1. ASSUME IInv PROVE NoTaskOutlivesTurn
  <2>1. ASSUME NEW t \in Turn, t # cur
        PROVE  /\ pump[t].pc \in {"none", "done"} /\ fin[t].pc \in {"none", "done"}
               /\ fan[t].pc \in {"none", "done"} /\ ev[t].pc \in {"none", "done"}
    <3>1. fan[t].pc \in {"none", "run", "done"} /\ ev[t].pc \in {"none", "run", "done"}
      BY <1>1 DEF IInv, TypeOK, FanOuts, Forwarders, HelperState
    <3> QED BY <1>1, <2>1, <3>1, RunningIsActive
  <2>2. ASSUME NEW t \in Turn, t = cur, hpc = "closed"
        PROVE  /\ pump[t].pc \in {"none", "done"} /\ fin[t].pc \in {"none", "done"}
               /\ fan[t].pc \in {"none", "done"} /\ ev[t].pc \in {"none", "done"}
    <3>1. HasTurn
      BY <2>2, StreamAssumption DEF HasTurn, Turn
    <3>2. pump[cur].pc = "done" /\ fin[cur].pc = "done" /\ fan[cur].pc # "run" /\ ev[cur].pc # "run"
      BY <1>1, <2>2, <3>1, AtActive DEF HandlerKnows, PumpIsLast
    <3>3. fan[t].pc \in {"none", "run", "done"} /\ ev[t].pc \in {"none", "run", "done"}
      BY <1>1 DEF IInv, TypeOK, FanOuts, Forwarders, HelperState
    <3> QED BY <2>2, <3>2, <3>3
  <2>3. gauge = Cardinality({t \in Turn : pump[t].pc \in LivePump})
    <3> DEFINE L == {t \in Turn : pump[t].pc \in LivePump}
    <3>1. \A t \in L : t = cur /\ HasTurn
      BY <1>1, RunningIsActive DEF LivePump
    <3>2. CASE Live
      <4>1. cur \in L
        BY <1>1, <3>2, AtActive DEF Live
      <4>2. L = {cur}
        BY <3>1, <4>1
      <4> QED BY <1>1, <3>2, <4>2, FS_Singleton DEF IInv
    <3>3. CASE ~Live
      <4>1. L = {}
        BY <3>1, <3>3 DEF Live
      <4> QED BY <1>1, <3>3, <4>1, FS_EmptySet DEF IInv
    <3> QED BY <3>2, <3>3
  <2> QED BY <2>1, <2>2, <2>3 DEF NoTaskOutlivesTurn
<1> QED BY Invariance, <1>1, PTL

\* The verdict _finalize_turn records in its `finally` agrees with what was
\* sent to the client of that turn; it differs only for a turn abandoned while its
\* answer was being sent.
THEOREM VerdictsAreTrue == Spec => []MetricMatchesWire
<1>1. ASSUME IInv PROVE MetricMatchesWire
  <2> SUFFICES ASSUME NEW t \in Turn
               PROVE  /\ ctx[t].metric = "ok" => Sent("result", t)
                      /\ ctx[t].metric = "no_speech" => Sent("NO_SPEECH", t)
                      /\ ctx[t].metric = "cancelled" => ~Sent("result", t) /\ ~Sent("NO_SPEECH", t)
                      /\ ctx[t].metric = "error" =>
                            ctx[t].cancelled \/ (~Sent("result", t) /\ ~Sent("NO_SPEECH", t))
    BY DEF MetricMatchesWire
  <2>1. CASE t = cur
    <3>1. HasTurn
      BY <2>1, StreamAssumption DEF HasTurn, Turn
    <3> QED BY <1>1, <2>1, <3>1, AtActive, SentIsSaid DEF Recorded, Unanswered
  <2>2. CASE t # cur
    <3>1. ctx[t].metric = "none"
      <4>1. t > cur \/ t < cur
        BY <1>1, <2>2, StreamAssumption DEF IInv, TypeOK, Turn
      <4> QED BY <1>1, <4>1 DEF IInv, Sequential, Context
    <3> QED BY <3>1
  <2> QED BY <2>1, <2>2
<1> QED BY Invariance, <1>1, PTL

-----------------------------------------------------------------------------
(* What a client of the connection can rely on: it implements TurnProtocol, *)
(* and Path B is given all of a turn's audio or none.                       *)

\* A step that leaves alone the audio handed to Path B, or the cancelled flag.
KeepsAudio == \A t \in Turn : ctx'[t].audio = ctx[t].audio
KeepsFate == \A t \in Turn : ctx'[t].cancelled = ctx[t].cancelled

-----------------------------------------------------------------------------
(* What the steps do to the two fields of a context.                       *)

\* The client's frames: handle_pcm accumulates and queues, handle_stop queues.
LEMMA ClientKeeps ==
    ASSUME IInv, HandleStop \/ \E c \in Chunk : HandlePcm(c)
    PROVE  KeepsAudio /\ KeepsFate
<1>1. HasTurn /\ cur \in Turn /\ ctx[cur] \in Contexts /\ ctx \in [Turn -> Contexts]
  BY AtActive DEF HandleStop, HandlePcm, TypeOK
<1>2. ASSUME NEW c, ctx' = [ctx EXCEPT ![cur] = c], c.audio = ctx[cur].audio,
             c.cancelled = ctx[cur].cancelled
      PROVE  KeepsAudio /\ KeepsFate
  BY <1>1, <1>2 DEF KeepsAudio, KeepsFate
<1>3. CASE HandleStop
  <2> DEFINE q == Append(ctx[cur].queue, None)
             n == ctx[cur].stops + 1
             c == [ctx[cur] EXCEPT !.queue = q, !.stops = n]
  <2>1. ctx' = [ctx EXCEPT ![cur] = c]
    BY <1>1, <1>3, Zenon DEF HandleStop
  <2> HIDE DEF q, n
  <2>2. c.audio = ctx[cur].audio /\ c.cancelled = ctx[cur].cancelled
    BY <1>1, Zenon DEF Contexts
  <2> HIDE DEF c
  <2> QED BY <1>2, <2>1, <2>2
<1>4. ASSUME NEW chunk \in Chunk, HandlePcm(chunk) PROVE KeepsAudio /\ KeepsFate
  <2> DEFINE q == Append(ctx[cur].queue, chunk)
             n == ctx[cur].pcm + 1
             m == ctx[cur].accum + 1
             d == Accumulate(ctx[cur])
             c == [d EXCEPT !.queue = q, !.pcm = n]
  <2>1. ctx' = [ctx EXCEPT ![cur] = c]
    BY <1>4, Zenon DEF HandlePcm, TakeChunk
  <2>2. d \in Contexts /\ d.audio = ctx[cur].audio /\ d.cancelled = ctx[cur].cancelled
    <3>1. \/ d = ctx[cur] \/ d = [ctx[cur] EXCEPT !.overflow = TRUE, !.accum = 0]
          \/ d = [ctx[cur] EXCEPT !.accum = m]
      BY Zenon DEF Accumulate, OverflowSticks
    <3>2. m \in Nat
      BY <1>1 DEF Contexts
    <3> HIDE DEF m, d
    <3> QED BY <1>1, <3>1, <3>2, Values, Zenon DEF Contexts
  <2> HIDE DEF q, n, d
  <2>3. c.audio = d.audio /\ c.cancelled = d.cancelled
    BY <2>2, Zenon DEF Contexts
  <2> HIDE DEF c
  <2> QED BY <1>2, <2>1, <2>2, <2>3
<1> QED BY <1>3, <1>4

\* Taking an item from the PCM queue.
LEMMA FanOutKeeps == ASSUME IInv, NEW t \in Turn, FanOut(t) PROVE KeepsAudio /\ KeepsFate
<1>1. ctx \in [Turn -> Contexts]
  BY DEF IInv, TypeOK
<1> DEFINE q == Tail(ctx[t].queue)
<1>2. ctx' = ctx \/ ctx' = [ctx EXCEPT ![t].queue = q]
  BY DEF FanOut
<1> DEFINE c == [ctx[t] EXCEPT !.queue = q]
<1>3. ctx' = ctx \/ ctx' = [ctx EXCEPT ![t] = c]
  BY <1>1, <1>2, Zenon
<1> HIDE DEF q
<1>4. c.audio = ctx[t].audio /\ c.cancelled = ctx[t].cancelled
  BY <1>1, Zenon DEF Contexts
<1> HIDE DEF c
<1> QED BY <1>1, <1>3, <1>4 DEF KeepsAudio, KeepsFate

\* Recording a verdict.
LEMMA FinalizeEndsKeeps ==
    ASSUME IInv, NEW t \in Turn, NEW result, FinalizeEnds(t, result)
    PROVE  KeepsAudio /\ KeepsFate
<1>1. ctx \in [Turn -> Contexts] /\ ctx' = [ctx EXCEPT ![t].metric = result]
  BY DEF IInv, TypeOK, FinalizeEnds
<1> QED BY <1>1, Zenon DEF KeepsAudio, KeepsFate, Contexts

\* A reply, whether the client is there or not.
LEMMA ReplyKeeps ==
    ASSUME IInv, NEW t \in Turn, NEW type, NEW outcome, Reply(t, type, outcome)
    PROVE  KeepsAudio /\ KeepsFate
BY FinalizeEndsKeeps DEF Reply, KeepsAudio, KeepsFate

\* The finalizer after its await: only here is audio handed to Path B.
LEMMA FinalizeAwaitGives ==
    ASSUME IInv, NEW t \in Turn, FinalizeAwait(t)
    PROVE  /\ KeepsFate
           /\ \A u \in Turn : \/ ctx'[u].audio = ctx[u].audio
                              \/ u = t /\ ctx'[u].audio = AudioForPathB(ctx[t])
<1> DEFINE a == AudioForPathB(ctx[t])
<1>1. CASE ctx' = [ctx EXCEPT ![t].audio = a]
  <2>1. ctx \in [Turn -> Contexts]
    BY DEF IInv, TypeOK
  <2> DEFINE c == [ctx[t] EXCEPT !.audio = a]
  <2>2. ctx' = [ctx EXCEPT ![t] = c]
    BY <1>1, <2>1, Zenon
  <2>3. c.audio = a /\ c.cancelled = ctx[t].cancelled
    BY <2>1, Zenon DEF Contexts
  <2> HIDE DEF c
  <2> QED BY <2>1, <2>2, <2>3 DEF KeepsFate
<1>2. CASE KeepsAudio /\ KeepsFate
  BY <1>2 DEF KeepsAudio
<1> QED BY <1>1, <1>2, FinalizeEndsKeeps, ReplyKeeps DEF FinalizeAwait

\* A cancelled turn, and one whose ASR failed.
LEMMA CancelKeeps ==
    ASSUME IInv, HasTurn, ctx' = [ctx EXCEPT ![cur] = CancelContext(ctx[cur])]
                          \/ ctx' = [ctx EXCEPT ![cur] = FailContext(ctx[cur])]
    PROVE  KeepsAudio /\ ctx'[cur].cancelled
<1> USE AtActive
<1> DEFINE q == Append(ctx[cur].queue, None)
           c == [ctx[cur] EXCEPT !.cancelled = TRUE, !.queue = q]
           d == [ctx[cur] EXCEPT !.cancelled = TRUE]
<1>1. /\ ctx' = [ctx EXCEPT ![cur] = c] \/ ctx' = [ctx EXCEPT ![cur] = d]
      /\ ctx \in [Turn -> Contexts]
  BY Zenon DEF CancelContext, FailContext, TypeOK
<1> HIDE DEF q
<1>2. /\ c.audio = ctx[cur].audio /\ d.audio = ctx[cur].audio
      /\ c.cancelled = TRUE /\ d.cancelled = TRUE
  BY Zenon DEF Contexts
<1> HIDE DEF c, d
<1> QED BY <1>1, <1>2 DEF KeepsAudio

\* _abandon_active: audio stays, and the active turn, if any, is cancelled.
LEMMA AbandonKeeps ==
    ASSUME IInv, NEW next, AbandonActive(next)
    PROVE  /\ KeepsAudio /\ cur' = cur
           /\ HasTurn => ctx'[cur].cancelled
<1>1. CASE MustCancelTurn
  BY <1>1, CancelKeeps DEF AbandonActive, MustCancelTurn
<1>2. CASE ~MustCancelTurn
  BY <1>2 DEF AbandonActive, MustCancelTurn, KeepsAudio
<1> QED BY <1>1, <1>2

\* handle_start, a control frame that raises and a disconnect either abandon
\* the active turn or leave every context alone.
LEMMA AbandonOrNot ==
    ASSUME IInv,
           \/ ControlRaises \/ Disconnect
           \/ \E s \in Session, t \in Turn, form \in StartForm :
                  HandleStart(s, t, form)
    PROVE  UNCHANGED wire /\ (UNCHANGED <<cur, ctx>> \/ \E next : AbandonActive(next))
<1>1. CASE ControlRaises \/ Disconnect
  BY <1>1 DEF ControlRaises, Disconnect
<1>2. ASSUME NEW s \in Session, NEW t \in Turn, NEW form \in StartForm,
             HandleStart(s, t, form)
      PROVE  UNCHANGED wire /\ (UNCHANGED <<cur, ctx>> \/ \E next : AbandonActive(next))
  <2>1. UNCHANGED wire
    BY <1>2 DEF HandleStart
  <2>2. CASE AbandonActive(Close)
    BY <2>1, <2>2
  <2>3. CASE AbandonActive(Start(s, t, form))
    BY <2>1, <2>3
  <2>4. CASE UNCHANGED <<cur, ctx>>
    BY <2>1, <2>4
  <2> QED BY <1>2, <2>2, <2>3, <2>4 DEF HandleStart, RejectFatal, RejectStale, AcceptStart
<1> QED BY <1>1, <1>2

\* A turn that begins finds a fresh context; that of the turn before it is
\* dropped with its audio.
LEMMA BeginGives ==
    ASSUME IInv, hpc = "awaitFinalize", after.kind = "start", HasTurn => FinalizeOver(cur),
           BeginTurn
    PROVE  /\ \A u \in Turn : ctx'[u].audio \in {None, ctx[u].audio}
           /\ after.turn \in Turn /\ after.turn > cur /\ after.turn # -1
           /\ ~ctx'[after.turn].cancelled
<1>1. /\ after.turn \in Turn /\ after.turn > cur /\ ctx[after.turn] = Context(FALSE)
  BY BeforeBegin
<1>2. after.turn # -1 /\ after.turn # cur
  BY <1>1, StreamAssumption DEF Turn, IInv, TypeOK
<1>3. ~ctx[after.turn].cancelled
  BY <1>1 DEF Context
<1>4. /\ ctx \in [Turn -> Contexts]
      /\ [ctx[after.turn] EXCEPT !.valid = after.valid].audio = ctx[after.turn].audio
      /\ [ctx[after.turn] EXCEPT !.valid = after.valid].cancelled = ctx[after.turn].cancelled
  <2>1. ctx \in [Turn -> Contexts]
    BY DEF IInv, TypeOK
  <2>2. ctx[after.turn] \in Contexts
    BY <1>1, <2>1
  <2> QED BY <2>1, <2>2, Zenon DEF Contexts
<1>5. CASE HasTurn
  <2> DEFINE m == [ctx EXCEPT ![cur] = Context(ctx[cur].cancelled)]
  <2>1. cur \in Turn
    BY <1>5, AtActive
  <2>2. m[cur].audio = None /\ \A u \in Turn : u # cur => m[u] = ctx[u]
    BY <1>4, <2>1 DEF Context
  <2>3. ctx' = [m EXCEPT ![after.turn] = [m[after.turn] EXCEPT !.valid = after.valid]]
    BY <1>5, Zenon DEF BeginTurn, Supersede
  <2>4. DOMAIN m = Turn
    BY <1>4
  <2> HIDE DEF m
  <2>5. m[after.turn] = ctx[after.turn]
    BY <1>1, <1>2, <2>2
  <2>6. /\ ctx'[after.turn] = [ctx[after.turn] EXCEPT !.valid = after.valid]
        /\ \A u \in Turn : u # after.turn => ctx'[u] = m[u]
    BY <1>1, <2>3, <2>4, <2>5, Zenon
  <2> QED BY <1>1, <1>2, <1>3, <1>4, <2>2, <2>6
<1>6. CASE ~HasTurn
  <2>1. ctx' = [ctx EXCEPT ![after.turn] = [ctx[after.turn] EXCEPT !.valid = after.valid]]
    BY <1>6, Zenon DEF BeginTurn
  <2>2. /\ ctx'[after.turn] = [ctx[after.turn] EXCEPT !.valid = after.valid]
        /\ \A u \in Turn : u # after.turn => ctx'[u] = ctx[u]
    BY <1>1, <1>4, <2>1, Zenon
  <2> QED BY <1>1, <1>2, <1>3, <1>4, <2>2
<1> QED BY <1>5, <1>6

-----------------------------------------------------------------------------
(* Path B.                                                                 *)

\* The audio of a turn is set once it is whole, and then to all of it.
LEMMA AudioIsWhole ==
    ASSUME IInv, [Next]_vars, NEW t \in Turn, ctx'[t].audio \notin {None, ctx[t].audio}
    PROVE  ctx'[t].audio = ctx[t].pcm
<1> SUFFICES ASSUME ctx'[t].audio # ctx[t].pcm PROVE FALSE
  OBVIOUS
<1>1. ~KeepsAudio /\ ctx' # ctx
  BY DEF KeepsAudio
<1>2. ~(HandleStop \/ \E c \in Chunk : HandlePcm(c))
  BY <1>1, ClientKeeps
<1>3. ~(\/ ControlRaises \/ Disconnect
        \/ \E s \in Session, u \in Turn, form \in StartForm :
                  HandleStart(s, u, form))
  BY <1>1, AbandonOrNot, AbandonKeeps
<1>4. ~TurnAbandoned
  <2> SUFFICES ASSUME TurnAbandoned PROVE FALSE
    OBVIOUS
  <2>1. \A u \in Turn : ctx'[u].audio \in {None, ctx[u].audio}
    BY <1>1, BeginGives DEF TurnAbandoned
  <2> QED BY <2>1
<1>5. ASSUME NEW u \in Turn, FinalizeAwait(u) PROVE FALSE
  <2>1. u = t /\ ctx'[t].audio = AudioForPathB(ctx[t])
    BY <1>5, FinalizeAwaitGives
  <2>2. AllAccumulated(t)
    BY DEF IInv
  <2> QED BY <2>1, <2>2 DEF AudioForPathB, AllAccumulated
<1>6. ASSUME NEW u \in Turn, Recognize(u) \/ FinalizeSent(u) PROVE FALSE
  BY <1>1, <1>6, ReplyKeeps, FinalizeEndsKeeps DEF Recognize, FinalizeSent
<1>7. ASSUME NEW u \in Turn, TranscribeFailed(u) PROVE FALSE
  <2>1. u = cur /\ HasTurn
    BY <1>7, RunningIsActive DEF TranscribeFailed
  <2> QED BY <1>1, <1>7, <2>1, CancelKeeps DEF TranscribeFailed
<1>8. ASSUME NEW u \in Turn, FanOut(u) PROVE FALSE
  BY <1>1, <1>8, FanOutKeeps
<1>9. ASSUME NEW u \in Turn,
             PumpStart(u) \/ FirstSegment(u) \/ DrainFan(u) \/ DrainEvents(u) \/ Transcribe(u)
             \/ TranscribeCancelled(u) \/ ForwardEvents(u) \/ FinalizeStart(u)
      PROVE  FALSE
  BY <1>1, <1>9 DEF PumpStart, FirstSegment, DrainFan, DrainEvents, Transcribe,
     TranscribeCancelled, ForwardEvents, FinalizeStart
<1>10. ~(ClientGone \/ PumpAbandoned \/ Ended \/ UNCHANGED vars)
  BY <1>1 DEF ClientGone, PumpAbandoned, Ended, vars
<1> QED BY <1>2, <1>3, <1>4, <1>5, <1>6, <1>7, <1>8, <1>9, <1>10
        DEF Next, ClientStep, HandlerResumes, PumpStep, FinalizeStep

\* Whatever a client sends while the recognizer runs, and wherever the byte
\* limit of handle_pcm falls, Path B gets all of the turn's audio or none.
THEOREM PathBSound == Spec => PathBAllOrNothing
<1>1. IInv /\ [Next]_vars =>
          [\A t \in Turn : ctx'[t].audio \notin {None, ctx[t].audio} =>
                ctx'[t].audio = ctx[t].pcm]_ctx
  BY AudioIsWhole
<1> QED BY Invariance, <1>1, PTL DEF Spec, PathBAllOrNothing

-----------------------------------------------------------------------------
(* The refinement: each step is one of TurnProtocol's, or invisible to it.  *)

Hushed == HasTurn => ctx[cur].cancelled

\* Frames of the active turn that keep the protocol's order.
LEMMA SayStep ==
    ASSUME IInv, HasTurn, ~ctx[cur].cancelled, KeepsFate, cur' = cur,
           NEW type \in TurnFrameType, Send(type, cur),
           type \in EventTypes => Said \subseteq EventTypes,
           type \in {"partial", "final"} => "final" \notin Said,
           type \notin EventTypes => Said \cap ReplyType = {},
           type = "result" => "final" \in Said
    PROVE  Protocol!Next
<1>1. cur \in Turn /\ wire \in Seq([type : TurnFrameType, turn : Turn])
  BY AtActive
<1>2. Said \subseteq TurnFrameType
  <2>1. \A i \in DOMAIN wire : wire[i].type \in TurnFrameType
    <3> DEFINE F == [type : TurnFrameType, turn : Turn]
    <3>1. wire \in Seq(F) /\ \A f \in F : f.type \in TurnFrameType
      BY <1>1
    <3> HIDE DEF F
    <3> QED BY <3>1
  <2> QED BY <2>1 DEF Said
<1>3. ~Hushed /\ Hushed' = FALSE
  BY <1>1 DEF Hushed, HasTurn, KeepsFate
<1>4. Protocol!Stage(type) \in 1..4 /\ \A b \in Said : Protocol!Stage(b) <= Protocol!Stage(type)
  BY <1>2 DEF TurnFrameType, ReplyType, EventTypes, Protocol!Stage, Protocol!Events, Protocol!Replies
<1>5. Protocol!MayFollow(type)
  <2>1. Protocol!Replies = ReplyType
    BY DEF Protocol!Replies, ReplyType
  <2>2. type \in ReplyType => type \notin EventTypes
    BY DEF EventTypes, ReplyType
  <2> QED BY <1>4, <2>1, <2>2, Zenon DEF Protocol!MayFollow, Said
<1>6. wire' = Append(wire, [type |-> type, turn |-> cur])
  BY DEF Send, Frame
<1>7. Protocol!Say(type)
  BY <1>3, <1>5, <1>6, Zenon DEF Protocol!Say, Hushed
<1>8. type \in Protocol!Spoken
  BY DEF TurnFrameType, ReplyType, Protocol!Spoken, Protocol!Events, Protocol!Replies
<1> QED BY <1>7, <1>8, Zenon DEF Protocol!Next

\* A step that sends nothing and cancels at most the active turn.
LEMMA SilentStep ==
    ASSUME IInv, UNCHANGED <<cur, wire>>, KeepsFate \/ (HasTurn => ctx'[cur].cancelled)
    PROVE  [Protocol!Next]_(Protocol!vars)
<1>1. Hushed \in BOOLEAN /\ Hushed' \in BOOLEAN /\ (Hushed => Hushed')
  <2>1. HasTurn => cur \in Turn
    BY AtActive
  <2> QED BY <2>1 DEF Hushed, HasTurn, KeepsFate
<1>2. CASE Hushed' = Hushed
  BY <1>2, Zenon DEF Hushed, Protocol!vars
<1>3. CASE Hushed' # Hushed
  <2>1. ~Hushed /\ Hushed' = TRUE
    BY <1>1, <1>3
  <2> QED BY <2>1, Zenon DEF Hushed, Protocol!Next, Protocol!Hush
<1> QED BY <1>2, <1>3

\* A turn begins after the one before it was hushed.
LEMMA BeginStep ==
    ASSUME IInv, hpc = "awaitFinalize", after.kind = "start", HasTurn => FinalizeOver(cur),
           BeginTurn
    PROVE  Protocol!Next
<1>1. after.turn \in Turn /\ after.turn > cur /\ after.turn # -1 /\ ~ctx'[after.turn].cancelled
  BY BeginGives
<1>2. cur' = after.turn /\ wire' = <<>> /\ Hushed
  BY DEF BeginTurn, Hushed, IInv, HandlerKnows
<1>3. Hushed' = FALSE
  BY <1>1, <1>2 DEF Hushed, HasTurn
<1>4. Protocol!Begin(after.turn)
  BY <1>1, <1>2, <1>3, Zenon DEF Hushed, Protocol!Begin
<1> QED BY <1>1, <1>4, Zenon DEF Protocol!Next

\* forward_events speaks before the pump reaches the ASR, and not once cancelled.
LEMMA ForwardStep ==
    ASSUME IInv, NEW t \in Turn, ForwardEvents(t) PROVE [Protocol!Next]_(Protocol!vars)
<1>1. t = cur /\ HasTurn /\ ev[cur].pc = "run" /\ cur' = cur /\ KeepsFate
  BY RunningIsActive DEF ForwardEvents, session, KeepsFate
<1>2. Said \subseteq EventTypes
  BY <1>1, AtActive DEF SaidSoFar, PumpIsLast
<1>3. CASE UNCHANGED wire
  BY <1>1, <1>3, SilentStep
<1>4. CASE wire' # wire
  <2>1. ~ctx[cur].cancelled /\ \E e \in EventTypes : Send(e, cur)
    BY <1>1, <1>4 DEF ForwardEvents, MayForward, VadEvent, EventTypes
  <2>2. PICK e \in EventTypes : Send(e, cur)
    BY <2>1
  <2>3. e \in TurnFrameType /\ e \notin {"partial", "final", "result"}
    BY DEF EventTypes, TurnFrameType
  <2> QED BY <1>1, <1>2, <2>1, <2>2, <2>3, SayStep
<1> QED BY <1>3, <1>4

\* _stream_segment_through_asr sends partials and then one final or ASR_FAILED.
LEMMA TranscribeSays ==
    ASSUME IInv, NEW t \in Turn, Transcribe(t) PROVE [Protocol!Next]_(Protocol!vars)
<1>1. /\ t = cur /\ HasTurn /\ pump[cur].pc = "asr" /\ ~pump[cur].kill /\ cur' = cur /\ KeepsFate
  BY RunningIsActive DEF Transcribe, session, KeepsFate
<1>2. Said \cap ReplyType = {} /\ ~ctx[cur].cancelled
  BY <1>1, AtActive DEF SaidSoFar, CancelReaches
<1>3. CASE UNCHANGED wire
  BY <1>1, <1>3, SilentStep
<1>4. CASE wire' # wire
  <2>1. PICK type \in {"partial", "final", "ASR_FAILED"} : Send(type, cur) /\ ~Sent("final", cur)
    BY <1>1, <1>4 DEF Transcribe
  <2>2. type \in TurnFrameType /\ type \notin EventTypes /\ type # "result" /\ "final" \notin Said
    BY <1>1, <2>1, SentIsSaid DEF EventTypes, TurnFrameType, ReplyType
  <2> QED BY <1>1, <1>2, <2>1, <2>2, SayStep
<1> QED BY <1>3, <1>4

\* A reply is the only one, and a result follows a transcript.
LEMMA ReplySays ==
    ASSUME IInv, HasTurn, cur' = cur, NEW type \in ReplyType \ {"ASR_FAILED"}, NEW outcome,
           Reply(cur, type, outcome), ~ctx[cur].cancelled, Said \cap ReplyType = {},
           type = "result" => "final" \in Said
    PROVE  [Protocol!Next]_(Protocol!vars)
<1>1. KeepsFate
  BY ReplyKeeps, AtActive
<1>2. CASE gone
  BY <1>1, <1>2, SilentStep DEF Reply, FinalizeEnds
<1>3. CASE ~gone
  <2>1. Send(type, cur)
    BY <1>3 DEF Reply
  <2>2. type \in TurnFrameType /\ type \notin EventTypes /\ type \notin {"partial", "final"}
    BY DEF EventTypes, TurnFrameType, ReplyType
  <2> QED BY <1>1, <2>1, <2>2, SayStep
<1> QED BY <1>2, <1>3

\* Every step of _finalize_turn.
LEMMA FinalizeSays ==
    ASSUME IInv, NEW t \in Turn, FinalizeStep(t) PROVE [Protocol!Next]_(Protocol!vars)
<1>1. t = cur /\ HasTurn /\ cur' = cur
  BY RunningIsActive DEF FinalizeStep, FinalizeStart, FinalizeAwait, Recognize, FinalizeSent, session
<1>2. CASE FinalizeStart(t)
  BY <1>1, <1>2, SilentStep DEF FinalizeStart, KeepsFate
<1>3. CASE FinalizeSent(t)
  BY <1>1, <1>3, FinalizeEndsKeeps, SilentStep DEF FinalizeSent, FinalizeEnds
<1>4. CASE Recognize(t)
  <2>1. fin[cur].pc = "recognize" /\ Said \cap ReplyType = {} /\ "final" \in Said
    BY <1>1, <1>4, AtActive DEF Recognize, SaidSoFar
  <2>2. CASE FinalizeEnds(t, "error")
    BY <1>1, <2>2, FinalizeEndsKeeps, SilentStep DEF FinalizeEnds
  <2>3. ASSUME NEW type \in {"result", "UNKNOWN_SCENE", "INVALID_REQUEST"}, NEW outcome,
               Reply(cur, type, outcome), ~fin[cur].kill
        PROVE  [Protocol!Next]_(Protocol!vars)
    <3>1. ~ctx[cur].cancelled
      BY <1>1, <2>1, <2>3, AtActive DEF CancelReaches
    <3>2. type \in ReplyType \ {"ASR_FAILED"}
      BY DEF ReplyType
    <3> QED BY <1>1, <2>1, <2>3, <3>1, <3>2, ReplySays
  <2> QED BY <1>1, <1>4, <2>2, <2>3 DEF Recognize
<1>5. CASE FinalizeAwait(t)
  <2>1. KeepsFate
    BY <1>5, FinalizeAwaitGives
  <2>2. CASE UNCHANGED wire
    BY <1>1, <2>1, <2>2, SilentStep
  <2>3. CASE wire' # wire
    <3>1. /\ fin[cur].pc = "awaitPump" /\ pump[cur].pc = "done" /\ ~ctx[cur].cancelled
          /\ pump[cur].res = "empty" /\ Reply(cur, "NO_SPEECH", "no_speech")
      BY <1>1, <1>5, <2>3 DEF FinalizeAwait, FinalizeEnds
    <3>2. Said \cap ReplyType = {}
      BY <1>1, <3>1, NoReplyYet
    <3> QED BY <1>1, <3>1, <3>2, ReplySays DEF ReplyType
  <2> QED BY <2>2, <2>3
<1> QED BY <1>2, <1>3, <1>4, <1>5 DEF FinalizeStep

\* Every step of the connection is a step of the protocol or none.
LEMMA NextImplements == ASSUME IInv, [Next]_vars PROVE [Protocol!Next]_(Protocol!vars)
<1>1. CASE HandleStop \/ \E c \in Chunk : HandlePcm(c)
  BY <1>1, ClientKeeps, SilentStep DEF HandleStop, HandlePcm, session
<1>2. CASE \/ ControlRaises \/ Disconnect
           \/ \E s \in Session, t \in Turn, form \in StartForm :
                  HandleStart(s, t, form)
  BY <1>2, AbandonOrNot, AbandonKeeps, SilentStep DEF KeepsFate
<1>3. CASE TurnAbandoned
  <2>1. CASE after.kind = "start" /\ BeginTurn
    BY <1>3, <2>1, BeginStep DEF TurnAbandoned
  <2>2. CASE UNCHANGED <<cur, ctx, wire>>
    BY <2>2, SilentStep DEF KeepsFate
  <2> QED BY <1>3, <2>1, <2>2 DEF TurnAbandoned
<1>4. ASSUME NEW t \in Turn, TranscribeFailed(t) PROVE [Protocol!Next]_(Protocol!vars)
  <2>1. t = cur /\ HasTurn
    BY <1>4, RunningIsActive DEF TranscribeFailed
  <2> QED BY <1>4, <2>1, CancelKeeps, SilentStep DEF TranscribeFailed, session
<1>5. ASSUME NEW t \in Turn, FanOut(t) PROVE [Protocol!Next]_(Protocol!vars)
  BY <1>5, FanOutKeeps, SilentStep DEF FanOut, session
<1>6. ASSUME NEW t \in Turn,
             PumpStart(t) \/ FirstSegment(t) \/ DrainFan(t) \/ DrainEvents(t)
             \/ TranscribeCancelled(t)
      PROVE  [Protocol!Next]_(Protocol!vars)
  BY <1>6, SilentStep DEF PumpStart, FirstSegment, DrainFan, DrainEvents, TranscribeCancelled,
     session, KeepsFate
<1>7. CASE ClientGone \/ PumpAbandoned \/ UNCHANGED vars
  BY <1>7, SilentStep DEF ClientGone, PumpAbandoned, vars, session, KeepsFate
<1> QED BY <1>1, <1>2, <1>3, <1>4, <1>5, <1>6, <1>7, ForwardStep, TranscribeSays, FinalizeSays
        DEF Next, ClientStep, HandlerResumes, PumpStep, Ended

\* Three tasks write to one socket, and each can be cancelled at any await;
\* what the client reads is still TurnProtocol: the latest turn alone, in
\* order, one final transcript and one reply, and silence once cancelled.
THEOREM Implements == Spec => ImplementsProtocol
<1>1. Init => Protocol!Init
  <2> SUFFICES ASSUME Init PROVE Protocol!Init
    OBVIOUS
  <2>1. cur = -1 /\ wire = <<>> /\ Hushed = TRUE
    BY DEF Init, Hushed, HasTurn
  <2> QED BY <2>1, Zenon DEF Protocol!Init, Hushed
<1>2. IInv /\ [Next]_vars => [Protocol!Next]_(Protocol!vars)
  BY NextImplements
<1> QED BY Invariance, <1>1, <1>2, PTL DEF Spec, ImplementsProtocol, Protocol!Spec
=============================================================================
