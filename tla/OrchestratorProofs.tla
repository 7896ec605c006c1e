------------------------- MODULE OrchestratorProofs -------------------------
(* The invariants of recognize and of the REST endpoints, for any number of    *)
(* concurrent requests, calls, scenes, categories, intents and weights.        *)
EXTENDS FusionProofs

-----------------------------------------------------------------------------
(* The inductive invariant.                                                   *)

Counter == {"ok", "error", "no_speech", "none"}

Total(o) == o["ok"] + o["error"] + o["no_speech"] + o["none"]

(* A call that waits for its scoring threads: it was resolved to a category of *)
(* its scene that has a pool, and its copy of the session stands there.        *)
CallField == {"turn", "req", "scene", "resolved", "at", "sid", "result", "session"}

IsCall(c, sids) ==
    /\ DOMAIN c = CallField
    /\ c.turn \in 1 .. MaxTurns /\ c.req \in Requests
    /\ c.scene \in Scene /\ c.at \in Tree[c.scene] \ EnumCategory
    /\ c.sid \in sids /\ c.session \in Session /\ c.session.pointer = c.at

Typed ==
    /\ store \in Seq(Session) /\ turns \in 0 .. MaxTurns
    /\ known \subseteq Sid /\ shared \subseteq Sid
    /\ DOMAIN job = Worker /\ IsFiniteSet(Serving)
    /\ observed \in [Counter -> Nat]
    /\ \A w \in Serving : IsCall(job[w], Sid)

(* Only a session that a caller knows is used by two calls at a time, and then *)
(* the history variable has it.                                                *)
Private ==
    \A v, w \in Serving :
        v # w /\ job[v].sid = job[w].sid => job[w].sid \in known /\ job[w].sid \in shared

(* A call's copy of a session that no other call used is up to date.           *)
Current ==
    \A w \in Serving :
        job[w].sid \notin shared => job[w].session.history = store[job[w].sid].history

Counted == turns = Cardinality(Serving) + Total(observed)

(* The calls whose session no caller has been told of. *)
Untold == {w \in Serving : job[w].sid \notin known}

Told == Cardinality(Sid \ known) <= Cardinality(Untold) + observed["error"] + observed["none"]

Replied == /\ NotFoundMeansUnknown /\ PointerStaysInTree
           /\ FusionIsWeightedSum /\ RankingIsSound

IInv == Typed /\ Private /\ Current /\ Counted /\ Told /\ Replied

-----------------------------------------------------------------------------
(* The operations.                                                            *)

(* What resolve finds is a scene of the registry and a category of its tree.   *)
LEMMA ResolveFinds ==
    ASSUME NEW req, Resolve(req).raises = None
    PROVE  Resolve(req).scene \in Scene /\ Resolve(req).category \in Tree[Resolve(req).scene]
<1> DEFINE matches == {s \in Scene : RootName[s] = req.path.root}
           first == CHOOSE s \in matches : TRUE
<1>1. Raised("ValueError").raises # None /\ Raised("KeyError").raises # None
  BY OrchestratorAssumption DEF Raised
<1>2. CASE req.path # None
  <2>1. Resolve(req) = IF req.path.root = None THEN Raised("ValueError")
                       ELSE IF Cardinality(matches) # 1 \/ req.path.at \notin Tree[first]
                            THEN Raised("KeyError")
                       ELSE Found(first, req.path.at)
    BY <1>2 DEF Resolve
  <2> HIDE DEF matches, first
  <2>2. /\ Cardinality(matches) = 1 /\ req.path.at \in Tree[first]
        /\ Resolve(req) = Found(first, req.path.at)
    BY <1>1, <2>1
  <2>3. matches # {}
    BY <2>2, FS_EmptySet
  <2>4. first \in Scene
    BY <2>3 DEF first, matches
  <2> QED
    BY <2>2, <2>4 DEF Found
<1>3. CASE req.path = None
  <2>1. req.scene \in Scene /\ Resolve(req) = Found(req.scene, RootOf[req.scene])
    BY <1>1, <1>3 DEF Resolve
  <2> QED
    BY <2>1, OrchestratorAssumption DEF Found
<1> QED
  BY <1>2, <1>3

(* What resolve raises is one of two exceptions. *)
LEMMA ResolveRaises ==
    ASSUME NEW req, Resolve(req).raises # None
    PROVE  Resolve(req).raises \in {"KeyError", "ValueError"}
<1>1. /\ Raised("ValueError").raises = "ValueError" /\ Raised("KeyError").raises = "KeyError"
      /\ \A s, c : Found(s, c).raises = None
  BY DEF Raised, Found
<1> HIDE DEF Raised, Found
<1>2. CASE req.path # None
  BY <1>1, <1>2 DEF Resolve
<1>3. CASE req.path = None
  BY <1>1, <1>3 DEF Resolve
<1> QED
  BY <1>2, <1>3

(* Only a KeyError is answered with 404. *)
LEMMA StatusIs ==
    ASSUME NEW outcome, Status(outcome) = 404
    PROVE  outcome = "KeyError"
BY DEF Status

(* What a request is refused for by its endpoint. *)
Refusal == {"no_scene", "too_large", "bad_wav", "no_speech", "failed"}

(* The endpoint lets a request through, or refuses it for one of its reasons;  *)
(* one it lets through names a scene or a path.                                *)
LEMMA ScreenedIs ==
    ASSUME NEW req, NEW file
    PROVE  /\ Screened(req, file) \in Refusal \cup {"fine"}
           /\ Screened(req, file) = "fine" => req.scene # None \/ req.path # None
BY DEF Screened, Refusal

(* The counter an outcome goes to. *)
Key(outcome) == CASE outcome \in {"ok", "no_speech"} -> outcome
                  [] outcome = "failed"             -> "none"
                  [] OTHER                          -> "error"

(* Every answer is counted once; one that is neither a success nor "no speech" *)
(* as an error or a crash.                                                     *)
LEMMA AnswerCounts ==
    ASSUME observed \in [Counter -> Nat], NEW outcome, NEW req, NEW call, Answer(outcome, req, call)
    PROVE  /\ observed' \in [Counter -> Nat]
           /\ Total(observed)' = Total(observed) + 1
           /\ observed'["error"] + observed'["none"] =
                 observed["error"] + observed["none"] + IF outcome \in {"ok", "no_speech"} THEN 0 ELSE 1
           /\ reply' = [outcome |-> outcome, status |-> Status(outcome), req |-> req, call |-> call]
<1> DEFINE k == Key(outcome)
<1>1. k \in Counter /\ (outcome \in {"ok", "no_speech"} => k = outcome)
      /\ (outcome \notin {"ok", "no_speech"} => k \in {"error", "none"})
  BY DEF Key, Counter
<1>2. observed' = [observed EXCEPT ![k] = observed[k] + 1]
  BY DEF Answer, Observed, Key
<1> HIDE DEF k
<1>3. \A c \in Counter : observed[c] \in Nat
  OBVIOUS
<1>4. observed' \in [Counter -> Nat]
  BY <1>1, <1>2, <1>3
<1>5. \A c \in Counter : observed'[c] = IF c = k THEN observed[c] + 1 ELSE observed[c]
  BY <1>1, <1>2
<1>6. {"ok", "error", "no_speech", "none"} = Counter
  BY DEF Counter
<1>7. Total(observed)' = Total(observed) + 1
  BY <1>1, <1>3, <1>5, <1>6 DEF Total
<1>8. observed'["error"] + observed'["none"] =
          observed["error"] + observed["none"] + IF outcome \in {"ok", "no_speech"} THEN 0 ELSE 1
  BY <1>1, <1>3, <1>5, <1>6
<1>9. reply' = [outcome |-> outcome, status |-> Status(outcome), req |-> req, call |-> call]
  BY DEF Answer
<1> QED
  BY <1>4, <1>7, <1>8, <1>9

(* The call that Begin makes of a request resolved to category c of scene s.   *)
NewCall(req, s, c, n, sess) ==
    [turn |-> turns + 1, req |-> req, scene |-> s, resolved |-> c, at |-> c, sid |-> n,
     result |-> None, session |-> [sess EXCEPT !.pointer = c]]

(* n is a known session with its stored value sess, or a new one. *)
Loads(n, sess, c) ==
    \/ n \in known /\ sess = store[n] /\ store' = store
    \/ n = Len(store) + 1 /\ sess = NewSession(c) /\ store' = Append(store, NewSession(c))

(* The call goes to the scoring threads ... *)
Starts(w, call) ==
    /\ job' = [job EXCEPT ![w] = call]
    /\ shared' = shared \cup {s \in {call.sid} : \E v \in Worker : job[v] # Idle /\ job[v].sid = s}
    /\ reply' = None
    /\ UNCHANGED observed

(* ... or scope() refuses an ENUM category. *)
Fails(req, call) == Answer("ValueError", req, call) /\ UNCHANGED <<job, shared>>

(* recognize up to its await.  The request names a scene or a path, so that    *)
(* the category is the one resolve found, in the scene's own tree: the stored  *)
(* pointer is not used and scope() raises no KeyError.  A session id that no   *)
(* caller was told of is no session of the store.                              *)
LEMMA BeginIs ==
    ASSUME Typed, NEW w, NEW req, NEW file, NEW sid \in known \cup {None, Stranger},
           Begin(w, req, file, sid)
    PROVE  /\ job[w] = Idle /\ turns < MaxTurns /\ turns' = turns + 1 /\ known' = known
           /\ \E s \in Scene : \E c \in Tree[s] : \E n, sess :
                 /\ Loads(n, sess, c)
                 /\ \/ c \notin EnumCategory /\ Starts(w, NewCall(req, s, c, n, sess))
                    \/ Fails(req, NewCall(req, s, c, n, sess))
<1> DEFINE s == Resolve(req).scene
           c == Resolve(req).category
           loaded == LoadOrCreate(sid, c)
<1>1. s \in Scene /\ c \in Tree[s]
  BY ResolveFinds DEF Begin
<1>2. Overrides(req, sid)
  BY ScreenedIs DEF Begin, Overrides
<1>3. job[w] = Idle /\ turns < MaxTurns /\ turns' = turns + 1 /\ known' = known /\ store' = loaded.store
  BY DEF Begin
<1>4. Loads(loaded.sid, loaded.session, c)
  <2>1. CASE sid \in Sid
    <3>1. sid \in known
      BY <2>1, OrchestratorAssumption DEF Typed, Sid
    <3>2. loaded = [sid |-> sid, session |-> store[sid], store |-> store]
      BY <2>1 DEF LoadOrCreate
    <3> HIDE DEF loaded
    <3> QED
      BY <1>3, <3>1, <3>2 DEF Loads
  <2>2. CASE sid \notin Sid
    <3>1. loaded = [sid |-> Len(store) + 1, session |-> NewSession(c),
                    store |-> Append(store, NewSession(c))]
      BY <2>2 DEF LoadOrCreate
    <3> HIDE DEF loaded
    <3> QED
      BY <1>3, <3>1 DEF Loads
  <2> QED
    BY <2>1, <2>2
<1> DEFINE call == NewCall(req, s, c, loaded.sid, loaded.session)
<1>5. CASE c \in EnumCategory
  <2>1. Fails(req, call)
    BY <1>1, <1>2, <1>5 DEF Begin, Fails, NewCall
  <2> HIDE DEF s, c, loaded, call
  <2> QED
    BY <1>1, <1>3, <1>4, <2>1 DEF call
<1>6. CASE c \notin EnumCategory
  <2>1. Starts(w, call)
    BY <1>1, <1>2, <1>6 DEF Begin, Starts, NewCall
  <2> HIDE DEF s, c, loaded, call
  <2> QED
    BY <1>1, <1>3, <1>4, <1>6, <2>1 DEF call
<1> QED
  BY <1>5, <1>6

(* A copy of a session that moves to a category stays a session. *)
LEMMA PointerSet ==
    ASSUME NEW sess \in Session, NEW c \in Category
    PROVE  LET p == [sess EXCEPT !.pointer = c]
           IN  p \in Session /\ p.pointer = c /\ p.history = sess.history
BY Zenon DEF Session

(* Recording a turn keeps a session one, and adds the turn to its history.     *)
LEMMA TurnRecorded ==
    ASSUME NEW sess \in Session, NEW t \in 1 .. MaxTurns
    PROVE  LET p == [sess EXCEPT !.history = Append(@, t)]
           IN  p \in Session /\ p.history = Append(sess.history, t)
<1> DEFINE h == Append(sess.history, t)
           Histories == Seq(1 .. MaxTurns)
<1>1. sess.history \in Histories
  BY Zenon DEF Session
<1>2. h \in Histories
  BY <1>1
<1>3. [sess EXCEPT !.history = h] \in Session /\ [sess EXCEPT !.history = h].history = h
  <2> HIDE DEF h
  <2> QED
    BY <1>2, Zenon DEF Session
<1> QED
  BY <1>3

(* A new session is a session that stands at its category, without a turn.     *)
LEMMA NewSessionIs ==
    ASSUME NEW c \in Category
    PROVE  NewSession(c) \in Session /\ NewSession(c).history = <<>>
<1>1. <<>> \in Seq(1 .. MaxTurns) /\ <<>> \in Seq(Category)
  OBVIOUS
<1> QED
  BY <1>1 DEF NewSession, Session

(* The pointer moves to a category of the scene, or stays.                     *)
LEMMA MovedIs ==
    ASSUME NEW sess \in Session, NEW s \in Scene, sess.pointer \in Tree[s], NEW follow
    PROVE  LET moved == MovePointer(sess, Target(follow, s))
           IN  moved \in Session /\ moved.pointer \in Tree[s] /\ moved.history = sess.history
<1> DEFINE target == Target(follow, s)
           moved == MovePointer(sess, target)
<1>1. target = None \/ target \in Tree[s]
  BY DEF Target
<1> HIDE DEF target
<1>2. CASE target = None
  BY <1>2 DEF MovePointer, target
<1>3. CASE target # None
  <2>1. target \in Tree[s] /\ target \in Category
    BY <1>1, <1>3 DEF Category
  <2> DEFINE switching == Append(sess.switching, target)
             Paths == Seq(Category)
             p == [sess EXCEPT !.pointer = target, !.switching = switching]
  <2>2. sess.switching \in Paths
    BY Zenon DEF Session
  <2>3. switching \in Paths
    BY <2>1, <2>2
  <2>4. moved = p
    BY <1>3 DEF MovePointer
  <2>5. p \in Session /\ p.pointer = target /\ p.history = sess.history
    <3> HIDE DEF switching
    <3> QED
      BY <2>1, <2>3, Zenon DEF Session
  <2> QED
    BY <2>1, <2>4, <2>5 DEF target
<1> QED
  BY <1>2, <1>3

(* What a successful call answers with, and what it stores. *)
Result(conf, slu, fused, moved) ==
    [conf |-> conf, slu |-> slu, fused |-> fused, pointer |-> moved.pointer]

Stores(call, moved) ==
    /\ moved \in Session /\ moved.pointer \in Tree[call.scene]
    /\ moved.history = call.session.history
    /\ store' = [store EXCEPT ![call.sid] = [moved EXCEPT !.history = Append(@, call.turn)]]
    /\ known' = known \cup {call.sid}

Recognised(call) ==
    \E heard, slu, moved :
        LET pool  == Pool[call.at]
            w     == Weights[call.scene]
            n     == call.req.n_best
            fused == Fuse(Ranked(pool, heard, n), slu, pool, w, n)
        IN  /\ IsRecognition(pool, heard, slu, w)
            /\ Answer("ok", call.req, [call EXCEPT !.result = Result(heard.conf, slu, fused, moved)])
            /\ Stores(call, moved)

(* A call has a pool, weights and an n_best. *)
LEMMA CallFacts ==
    ASSUME NEW call, IsCall(call, Sid)
    PROVE  /\ Pool[call.at] \in Seq(Intent) /\ IsWeights(Weights[call.scene])
           /\ call.req.n_best \in Nat \ {0}
BY OrchestratorAssumption DEF IsCall, IsWeights

(* recognize after its await: the top intent is one of the pool, so that the   *)
(* lookups raise no KeyError; a follow_up without a segment is a ValueError;   *)
(* otherwise the call answers and stores its session.                          *)
LEMMA CompleteIs ==
    ASSUME NEW w, IsCall(job[w], Sid), Complete(w)
    PROVE  /\ job[w] # Idle /\ job' = [job EXCEPT ![w] = Idle] /\ UNCHANGED <<turns, shared>>
           /\ \/ Answer("ValueError", job[w].req, job[w]) /\ UNCHANGED <<store, known>>
              \/ Recognised(job[w])
<1> DEFINE call   == job[w]
           pool   == Pool[call.at]
           weight == Weights[call.scene]
           n      == call.req.n_best
<1>1. job[w] # Idle /\ job' = [job EXCEPT ![w] = Idle] /\ UNCHANGED <<turns, shared>>
  BY DEF Complete
<1>2. PICK heard \in Scorings(pool),
           slu \in (IF call.req.audio THEN Hypotheses ELSE {None}) :
        LET ranked == Ranked(pool, heard, n)
            fused  == Fuse(ranked, slu, pool, weight, n)
            lost   == fused # <<>> /\ fused[1].id \notin Ids(pool)
            follow == IF fused = <<>> \/ lost THEN None ELSE TopIntent(fused, pool).follow_up
            empty  == follow # None /\ follow.empty
            moved  == MovePointer(call.session, Target(follow, call.scene))
            final  == [moved EXCEPT !.history = Append(@, call.turn)]
            result == [conf |-> heard.conf, slu |-> slu, fused |-> fused, pointer |-> moved.pointer]
        IN  IF lost \/ empty
            THEN /\ Answer(IF lost THEN "KeyError" ELSE "ValueError", call.req, call)
                 /\ UNCHANGED <<store, known>>
            ELSE /\ Answer("ok", call.req, [call EXCEPT !.result = result])
                 /\ store' = [store EXCEPT ![call.sid] = final]
                 /\ known' = known \cup {call.sid}
  BY DEF Complete
<1> DEFINE fused  == Fuse(Ranked(pool, heard, n), slu, pool, weight, n)
           lost   == fused # <<>> /\ fused[1].id \notin Ids(pool)
           follow == IF fused = <<>> \/ lost THEN None ELSE TopIntent(fused, pool).follow_up
           empty  == follow # None /\ follow.empty
           moved  == MovePointer(call.session, Target(follow, call.scene))
<1>3. IsRecognition(pool, heard, slu, weight) /\ n \in Nat
  BY CallFacts, OrchestratorAssumption DEF IsRecognition, IsScoring, IsHypothesis
<1>4. ~lost
  <2>1. fused \in Seq(Entry) /\ \A k \in 1 .. Len(fused) : fused[k].id \in Ids(pool)
    BY <1>3, FuseIsSound
  <2> HIDE DEF fused
  <2> QED
    BY <2>1
<1>5. CASE empty
  BY <1>1, <1>2, <1>4, <1>5
<1>6. CASE ~empty
  <2>1. /\ Answer("ok", call.req, [call EXCEPT !.result = Result(heard.conf, slu, fused, moved)])
        /\ store' = [store EXCEPT ![call.sid] = [moved EXCEPT !.history = Append(@, call.turn)]]
        /\ known' = known \cup {call.sid}
    BY <1>2, <1>4, <1>6 DEF Result
  <2>2. /\ call.session \in Session /\ call.scene \in Scene
        /\ call.session.pointer \in Tree[call.scene]
    BY DEF IsCall
  <2>3. moved \in Session /\ moved.pointer \in Tree[call.scene] /\ moved.history = call.session.history
    <3> HIDE DEF follow, call
    <3> QED
      BY <2>2, MovedIs
  <2>4. Stores(call, moved)
    <3> HIDE DEF moved, call
    <3> QED
      BY <2>1, <2>3 DEF Stores
  <2>5. Recognised(call)
    <3> HIDE DEF moved, call
    <3> QED
      BY <1>3, <2>1, <2>4 DEF Recognised
  <2> QED
    BY <1>1, <2>5
<1> QED
  BY <1>5, <1>6

-----------------------------------------------------------------------------
(* What the steps do to the set of calls and to the store.                    *)

(* A call joins the ones being served. *)
Joins(w, call) ==
    /\ DOMAIN job' = Worker /\ w \notin Serving /\ Serving' = Serving \cup {w}
    /\ job'[w] = call /\ \A v \in Serving : job'[v] = job[v]
    /\ IsFiniteSet(Serving') /\ Cardinality(Serving') = Cardinality(Serving) + 1

(* A call leaves them. *)
Leaves(w) ==
    /\ DOMAIN job' = Worker /\ w \in Serving /\ Serving' = Serving \ {w}
    /\ \A v \in Serving' : job'[v] = job[v]
    /\ IsFiniteSet(Serving') /\ Cardinality(Serving') = Cardinality(Serving) - 1

(* A worker that had no call joins those that serve one. *)
LEMMA Joining ==
    ASSUME Typed, NEW w \in Worker, job[w] = Idle, NEW call, call.turn # 0,
           job' = [job EXCEPT ![w] = call]
    PROVE  Joins(w, call)
<1>1. call # Idle
  BY DEF Idle
<1>2. DOMAIN job = Worker /\ IsFiniteSet(Serving)
  BY DEF Typed
<1>3. DOMAIN job' = Worker /\ job'[w] = call /\ \A v \in Worker \ {w} : job'[v] = job[v]
  BY <1>2
<1>4. w \notin Serving /\ Serving' = Serving \cup {w} /\ Serving \subseteq Worker
  BY <1>1, <1>3 DEF Serving
<1>5. /\ IsFiniteSet(Serving \cup {w})
      /\ Cardinality(Serving \cup {w}) = Cardinality(Serving) + 1
  BY <1>2, <1>4, FS_AddElement
<1> QED
  BY <1>3, <1>4, <1>5 DEF Joins

(* A worker whose call ends leaves the others' calls alone. *)
LEMMA Leaving ==
    ASSUME Typed, NEW w \in Worker, job[w] # Idle, job' = [job EXCEPT ![w] = Idle]
    PROVE  Leaves(w)
<1>1. DOMAIN job = Worker /\ IsFiniteSet(Serving)
  BY DEF Typed
<1>2. DOMAIN job' = Worker /\ job'[w] = Idle /\ \A v \in Worker \ {w} : job'[v] = job[v]
  BY <1>1
<1>3. w \in Serving /\ Serving' = Serving \ {w} /\ Serving \subseteq Worker
  BY <1>2 DEF Serving
<1>4. IsFiniteSet(Serving \ {w}) /\ Cardinality(Serving \ {w}) = Cardinality(Serving) - 1
  BY <1>1, <1>3, FS_RemoveElement
<1> QED
  BY <1>2, <1>3, <1>4 DEF Leaves

(* Loading a session adds at most the new one to the store. *)
LEMMA LoadingIs ==
    ASSUME Typed, NEW c \in Category, NEW n, NEW sess, Loads(n, sess, c)
    PROVE  /\ store' \in Seq(Session) /\ sess \in Session
           /\ Sid \subseteq Sid' /\ n \in Sid'
           /\ \A m \in Sid : store'[m] = store[m]
           /\ store'[n].history = sess.history
           /\ \/ n \in known /\ n \in Sid /\ Sid' = Sid
              \/ n \notin Sid /\ n \notin known /\ n \notin shared /\ Sid' = Sid \cup {n}
<1>1. store \in Seq(Session) /\ known \subseteq Sid /\ shared \subseteq Sid
  BY DEF Typed
<1>2. CASE n \in known /\ sess = store[n] /\ store' = store
  BY <1>1, <1>2 DEF Sid
<1>3. CASE n = Len(store) + 1 /\ sess = NewSession(c) /\ store' = Append(store, NewSession(c))
  <2>1. sess \in Session
    BY <1>3, NewSessionIs
  <2>2. /\ store' \in Seq(Session) /\ Len(store') = Len(store) + 1
        /\ store'[n] = sess /\ \A m \in 1 .. Len(store) : store'[m] = store[m]
    BY <1>1, <1>3, <2>1
  <2>3. Sid = 1 .. Len(store) /\ Sid' = 1 .. Len(store) + 1 /\ Len(store) \in Nat
    BY <1>1, <2>2 DEF Sid
  <2>4. n \notin Sid /\ Sid' = Sid \cup {n}
    BY <1>3, <2>3
  <2> QED
    BY <1>1, <2>1, <2>2, <2>3, <2>4
<1> QED
  BY <1>2, <1>3 DEF Loads

(* A call that is answered puts its session back and tells its caller of it.   *)
LEMMA StoringIs ==
    ASSUME Typed, NEW call, IsCall(call, Sid), NEW moved, Stores(call, moved)
    PROVE  /\ store' \in Seq(Session) /\ Sid' = Sid /\ known' = known \cup {call.sid}
           /\ \A m \in Sid \ {call.sid} : store'[m] = store[m]
           /\ store'[call.sid].history = Append(call.session.history, call.turn)
<1> DEFINE final == [moved EXCEPT !.history = Append(@, call.turn)]
<1>1. store \in Seq(Session) /\ call.sid \in Sid /\ call.turn \in 1 .. MaxTurns
  BY DEF Typed, IsCall
<1>2. moved \in Session /\ moved.history = call.session.history
  BY DEF Stores
<1>3. final \in Session /\ final.history = Append(call.session.history, call.turn)
  BY <1>1, <1>2, TurnRecorded
<1>4. store' = [store EXCEPT ![call.sid] = final] /\ known' = known \cup {call.sid}
  BY DEF Stores
<1> HIDE DEF final
<1>5. store' \in Seq(Session) /\ DOMAIN store' = DOMAIN store
  BY <1>1, <1>3, <1>4 DEF Sid
<1>6. \A m \in Sid \ {call.sid} : store'[m] = store[m]
  BY <1>4 DEF Sid
<1>7. store'[call.sid] = final
  BY <1>1, <1>4 DEF Sid
<1> QED
  BY <1>3, <1>4, <1>5, <1>6, <1>7 DEF Sid

-----------------------------------------------------------------------------
(* What the replies say.                                                      *)

(* No reply, or one that reports no success, says nothing false.               *)
LEMMA PlainReply ==
    ASSUME NEW o, NEW req, NEW call, o # "ok",
           o = "KeyError" => Resolve(req).raises = "KeyError" \/ call.result = Raised("KeyError"),
           reply' = [outcome |-> o, status |-> Status(o), req |-> req, call |-> call]
    PROVE  Replied'
<1>1. reply'.outcome = o /\ reply'.status = Status(o) /\ reply'.req = req
      /\ reply'.call = call
  OBVIOUS
<1>2. ~Answered'
  BY <1>1 DEF Answered
<1>3. NotFoundMeansUnknown'
  <2>1. Status(o) = 404 => Resolve(req).raises = "KeyError" \/ call.result = Raised("KeyError")
    BY StatusIs
  <2> QED
    BY <1>1, <2>1 DEF NotFoundMeansUnknown, BackendRaised, Resolve, Raised, Found
<1> QED
  BY <1>2, <1>3 DEF Replied, PointerStaysInTree, FusionIsWeightedSum, RankingIsSound, Fused

(* While no answer is out there is nothing to say about it. *)
LEMMA NoReply ==
    ASSUME reply' = None
    PROVE  Replied'
BY DEF Replied, NotFoundMeansUnknown, PointerStaysInTree, FusionIsWeightedSum, RankingIsSound,
       Fused, Answered

(* A successful reply is about its call and carries the call's result.         *)
LEMMA ReplyIs ==
    ASSUME NEW call, IsCall(call, Sid), NEW res, Answer("ok", call.req, [call EXCEPT !.result = res])
    PROVE  /\ reply'.outcome = "ok" /\ reply'.status = 200
           /\ reply'.call.result = res /\ reply'.call.at = call.at
           /\ reply'.call.scene = call.scene /\ reply'.call.req = call.req
<1> DEFINE r == [call EXCEPT !.result = res]
<1>1. reply' = [outcome |-> "ok", status |-> Status("ok"), req |-> call.req, call |-> r]
  BY DEF Answer
<1>2. Status("ok") = 200
  BY DEF Status
<1>3. DOMAIN call = CallField
  BY DEF IsCall
<1>4. r.result = res /\ r.at = call.at /\ r.scene = call.scene /\ r.req = call.req
  BY <1>3 DEF CallField
<1> HIDE DEF r
<1> QED
  BY <1>1, <1>2, <1>4

(* What a successful call answers is as promised: the pointer is in the tree,  *)
(* the list is sound, and with an active Path B it is the weighted sum.        *)
LEMMA GoodReply ==
    ASSUME NEW call, IsCall(call, Sid), Recognised(call)
    PROVE  Replied'
<1> DEFINE pool  == Pool[call.at]
           w     == Weights[call.scene]
           n     == call.req.n_best
<1>1. PICK heard, slu, moved :
          LET fused == Fuse(Ranked(pool, heard, n), slu, pool, w, n)
          IN  /\ IsRecognition(pool, heard, slu, w)
              /\ Answer("ok", call.req, [call EXCEPT !.result = Result(heard.conf, slu, fused, moved)])
              /\ Stores(call, moved)
  BY DEF Recognised
<1> DEFINE fused == Fuse(Ranked(pool, heard, n), slu, pool, w, n)
           res == Result(heard.conf, slu, fused, moved)
<1>2. n \in Nat \ {0}
  BY CallFacts
<1>3. /\ reply'.outcome = "ok" /\ reply'.status = 200
      /\ reply'.call.result = res /\ reply'.call.at = call.at
      /\ reply'.call.scene = call.scene /\ reply'.call.req = call.req
  BY <1>1, ReplyIs
<1>4. res.conf = heard.conf /\ res.slu = slu /\ res.fused = fused /\ res.pointer = moved.pointer
  BY DEF Result
<1>5. moved.pointer \in Tree[call.scene]
  BY <1>1 DEF Stores
<1>6. /\ fused \in Seq(Entry) /\ Len(fused) <= n
      /\ \A k \in 1 .. Len(fused) : fused[k].score \in 0 .. Scale(slu, pool, w)
      /\ BActive(slu, pool) \/ Matcher = "stub" => \A k \in 1 .. Len(fused) : fused[k].score > 0
      /\ \A k \in 1 .. Len(fused) - 1 : fused[k].score >= fused[k + 1].score
  BY <1>1, <1>2, FuseIsSound
<1>7. DOMAIN fused = 1 .. Len(fused)
  <2> HIDE DEF fused
  <2> QED
    BY <1>6
<1> DEFINE Sum(id) == w.a * ConfA(heard.conf, id) + (IF id = slu.id THEN w.b * slu.conf ELSE 0)
<1>8. ASSUME BActive(slu, pool), DistinctIds(pool),
             Cardinality({e \in DOMAIN heard.conf : heard.conf[e] > 0}) <= n
      PROVE  /\ \A k \in 1 .. Len(fused) : fused[k].score = Sum(fused[k].id)
             /\ \A id \in Ids(pool) : Sum(id) > 0 => fused # <<>> /\ Sum(id) <= fused[1].score
  BY <1>1, <1>2, <1>8, FuseIsExact
<1> HIDE DEF fused, res
<1>9. NotFoundMeansUnknown'
  BY <1>3 DEF NotFoundMeansUnknown
<1>10. PointerStaysInTree'
  BY <1>3, <1>4, <1>5 DEF PointerStaysInTree
<1>11. RankingIsSound'
  <2>1. Fused' => BActive(slu, pool)
    BY <1>3, <1>4 DEF Fused, BActive, Ids
  <2> QED
    BY <1>3, <1>4, <1>6, <1>7, <2>1 DEF RankingIsSound
<1>12. \A id : Documented(id)' = Sum(id)
  BY <1>3, <1>4 DEF Documented, ConfA
<1>13. FusionIsWeightedSum'
  <2> SUFFICES ASSUME Fused', UniqueIds', Cardinality(Hits') <= reply'.call.req.n_best
               PROVE  IsWeightedSum'
    BY DEF FusionIsWeightedSum
  <2>1. BActive(slu, pool)
    BY <1>3, <1>4 DEF Fused, BActive, Ids
  <2>2. DistinctIds(pool)
    BY <1>3 DEF UniqueIds, DistinctIds
  <2>3. Cardinality({e \in DOMAIN heard.conf : heard.conf[e] > 0}) <= n
    BY <1>3, <1>4 DEF Hits
  <2>4. /\ \A k \in 1 .. Len(fused) : fused[k].score = Sum(fused[k].id)
        /\ \A id \in Ids(pool) : Sum(id) > 0 => fused # <<>> /\ Sum(id) <= fused[1].score
    BY <1>8, <2>1, <2>2, <2>3
  <2> HIDE DEF Sum
  <2> QED
    BY <1>3, <1>4, <1>7, <1>12, <2>4 DEF IsWeightedSum, Ids
<1> QED
  BY <1>9, <1>10, <1>11, <1>13 DEF Replied

-----------------------------------------------------------------------------
(* The invariant is inductive: one lemma per kind of step.                    *)

(* The sessions and the calls that nobody was told of are finitely many. *)
LEMMA Finite ==
    ASSUME Typed
    PROVE  /\ IsFiniteSet(Sid \ known) /\ IsFiniteSet(Untold)
           /\ Cardinality(Sid \ known) \in Nat /\ Cardinality(Untold) \in Nat
           /\ Cardinality(Serving) \in Nat
           /\ \A k \in Counter : observed[k] \in Nat
<1>1. IsFiniteSet(Sid)
  <2>1. Sid = 1 .. Len(store) /\ Len(store) \in Nat
    BY DEF Typed, Sid
  <2> QED
    BY <2>1, FS_Interval
<1>2. IsFiniteSet(Sid \ known)
  BY <1>1, FS_Difference
<1>3. Untold \in SUBSET Serving /\ IsFiniteSet(Serving)
  BY DEF Typed, Untold
<1>4. IsFiniteSet(Untold)
  BY <1>3, FS_Subset
<1> QED
  BY <1>2, <1>3, <1>4, FS_CardinalityType DEF Typed

(* A request that is refused leaves sessions and calls alone. *)
LEMMA RefuseKeeps ==
    ASSUME IInv, NEW w, NEW req, NEW file, Refuse(w, req, file)
    PROVE  IInv'
<1> DEFINE o == IF Screened(req, file) # "fine" THEN Screened(req, file) ELSE Resolve(req).raises
<1>1. /\ turns < MaxTurns /\ turns' = turns + 1 /\ Answer(o, req, Idle)
      /\ UNCHANGED <<store, job, known, shared>>
      /\ Screened(req, file) # "fine" \/ Resolve(req).raises # None
  BY DEF Refuse
<1>2. o \in Refusal \cup {"KeyError", "ValueError"}
  BY <1>1, ScreenedIs, ResolveRaises
<1>3. o = "KeyError" => Resolve(req).raises = "KeyError"
  BY ScreenedIs DEF Refusal
<1> HIDE DEF o
<1>4. Typed /\ Private /\ Current /\ Counted /\ Told
  BY DEF IInv
<1>5. Replied'
  <2>1. reply' = [outcome |-> o, status |-> Status(o), req |-> req, call |-> Idle]
    BY <1>1 DEF Answer
  <2>2. o # "ok"
    BY <1>2 DEF Refusal
  <2> QED
    BY <1>3, <2>1, <2>2, PlainReply
<1>6. /\ observed' \in [Counter -> Nat] /\ Total(observed)' = Total(observed) + 1
      /\ observed'["error"] + observed'["none"] >= observed["error"] + observed["none"]
  <2>1. observed \in [Counter -> Nat] /\ \A k \in Counter : observed[k] \in Nat
    BY <1>4 DEF Typed
  <2>2. /\ observed' \in [Counter -> Nat] /\ Total(observed)' = Total(observed) + 1
        /\ observed'["error"] + observed'["none"] = observed["error"] + observed["none"]
              + IF o \in {"ok", "no_speech"} THEN 0 ELSE 1
    BY <1>1, <2>1, AnswerCounts
  <2>3. observed["error"] \in Nat /\ observed["none"] \in Nat
    BY <2>1 DEF Counter
  <2> QED
    BY <2>2, <2>3
<1>7. Serving' = Serving /\ Sid' = Sid /\ Untold' = Untold
  BY <1>1 DEF Serving, Sid, Untold
<1>8. turns' \in 0 .. MaxTurns
  BY <1>1, <1>4, OrchestratorAssumption DEF Typed
<1>9. Typed'
  BY <1>1, <1>4, <1>6, <1>7, <1>8 DEF Typed, IsCall
<1>10. Private' /\ Current'
  BY <1>1, <1>4, <1>7 DEF Private, Current
<1>11. Counted'
  <2>1. Total(observed) \in Nat /\ Cardinality(Serving) \in Nat
    BY <1>4, Finite DEF Total, Counter
  <2> QED
    BY <1>1, <1>4, <1>6, <1>7, <2>1 DEF Counted
<1>12. Told'
  <2>1. /\ Cardinality(Sid \ known) \in Nat /\ Cardinality(Untold) \in Nat
        /\ observed["error"] \in Nat /\ observed["none"] \in Nat
        /\ observed'["error"] \in Nat /\ observed'["none"] \in Nat
    BY <1>4, <1>6, Finite DEF Counter
  <2> QED
    BY <1>1, <1>4, <1>6, <1>7, <2>1 DEF Told
<1> QED
  BY <1>5, <1>9, <1>10, <1>11, <1>12 DEF IInv

(* The call that Begin makes is one. *)
LEMMA NewCallIs ==
    ASSUME Typed, NEW req \in Requests, NEW s \in Scene, NEW c \in Tree[s], NEW n, NEW sess,
           Loads(n, sess, c), turns < MaxTurns
    PROVE  LET call == NewCall(req, s, c, n, sess)
           IN  /\ call.turn = turns + 1 /\ call.sid = n /\ call.session.history = sess.history
               /\ c \notin EnumCategory => IsCall(call, Sid')
<1> DEFINE p == [sess EXCEPT !.pointer = c]
           call == NewCall(req, s, c, n, sess)
<1>1. c \in Category
  BY DEF Category
<1>2. sess \in Session /\ n \in Sid'
  BY <1>1, LoadingIs
<1>3. p \in Session /\ p.pointer = c /\ p.history = sess.history
  BY <1>1, <1>2, PointerSet
<1>4. call = [turn |-> turns + 1, req |-> req, scene |-> s, resolved |-> c, at |-> c, sid |-> n,
              result |-> None, session |-> p]
  BY DEF NewCall
<1> HIDE DEF p, call
<1>5. /\ call.turn = turns + 1 /\ call.req = req /\ call.scene = s /\ call.at = c /\ call.sid = n
      /\ call.session = p /\ DOMAIN call = CallField
  BY <1>4 DEF CallField
<1>6. turns + 1 \in 1 .. MaxTurns
  BY OrchestratorAssumption DEF Typed
<1> DEFINE last == turns + 1
<1>7. ASSUME c \notin EnumCategory
      PROVE  /\ DOMAIN call = CallField
             /\ call.turn \in 1 .. MaxTurns /\ call.req \in Requests
             /\ call.scene \in Scene /\ call.at \in Tree[call.scene] \ EnumCategory
             /\ call.sid \in Sid' /\ call.session \in Session /\ call.session.pointer = call.at
  BY <1>2, <1>3, <1>5, <1>6, <1>7
<1> QED
  BY <1>3, <1>5, <1>7 DEF IsCall, call, Session, Category

(* A call that starts: its session is a known one, which another call may hold *)
(* too, or a new one that only it holds.                                       *)
LEMMA StartKeeps ==
    ASSUME IInv, NEW w \in Worker, NEW req \in Requests, NEW s \in Scene, NEW c \in Tree[s],
           NEW n, NEW sess, Loads(n, sess, c), job[w] = Idle, turns < MaxTurns,
           turns' = turns + 1, known' = known, c \notin EnumCategory,
           Starts(w, NewCall(req, s, c, n, sess))
    PROVE  IInv'
<1> DEFINE call == NewCall(req, s, c, n, sess)
<1>1. Typed /\ Private /\ Current /\ Counted /\ Told
  BY DEF IInv
<1>2. c \in Category
  BY DEF Category
<1>3. /\ store' \in Seq(Session) /\ sess \in Session
      /\ Sid \subseteq Sid' /\ n \in Sid'
      /\ \A m \in Sid : store'[m] = store[m]
      /\ store'[n].history = sess.history
      /\ \/ n \in known /\ n \in Sid /\ Sid' = Sid
         \/ n \notin Sid /\ n \notin known /\ n \notin shared /\ Sid' = Sid \cup {n}
  BY <1>1, <1>2, LoadingIs
<1>4. /\ call.turn = turns + 1 /\ call.sid = n /\ call.session.history = sess.history
      /\ IsCall(call, Sid')
  BY <1>1, NewCallIs
<1>5. /\ job' = [job EXCEPT ![w] = call] /\ reply' = None /\ observed' = observed
      /\ shared' = shared \cup {m \in {call.sid} : \E v \in Worker : job[v] # Idle /\ job[v].sid = m}
  BY DEF Starts
<1>6. turns \in 0 .. MaxTurns /\ turns + 1 # 0 /\ turns' \in 0 .. MaxTurns
  BY <1>1, OrchestratorAssumption DEF Typed
<1> HIDE DEF call
<1>7. Joins(w, call)
  BY <1>1, <1>4, <1>5, <1>6, Joining
<1>8. /\ DOMAIN job' = Worker /\ w \notin Serving /\ Serving' = Serving \cup {w}
      /\ job'[w] = call /\ \A v \in Serving : job'[v] = job[v]
      /\ IsFiniteSet(Serving') /\ Cardinality(Serving') = Cardinality(Serving) + 1
  BY <1>7 DEF Joins
<1>9. shared \subseteq shared' /\ shared' \subseteq shared \cup {n}
  BY <1>4, <1>5
<1>10. \A v \in Serving : job[v].sid = n => n \in shared' /\ n \in known
  <2> TAKE v \in Serving
  <2>1. v \in Worker /\ job[v] # Idle /\ job[v].sid \in Sid
    BY <1>1 DEF Serving, Typed, IsCall
  <2> QED
    BY <1>3, <1>4, <1>5, <2>1
<1>11. \A v \in Serving : /\ IsCall(job'[v], Sid') /\ job[v].sid \in Sid
                          /\ store'[job[v].sid].history = store[job[v].sid].history
  <2> TAKE v \in Serving
  <2>1. IsCall(job[v], Sid) /\ job'[v] = job[v]
    BY <1>1, <1>8 DEF Typed
  <2>2. job[v].sid \in Sid
    BY <2>1 DEF IsCall
  <2> QED
    BY <1>3, <2>1, <2>2 DEF IsCall, Session, Category
<1>12. Typed'
  <2>1. \A v \in Serving' : IsCall(job'[v], Sid')
    BY <1>4, <1>8, <1>11 DEF IsCall
  <2>2. known' \subseteq Sid' /\ shared' \subseteq Sid'
    BY <1>1, <1>3, <1>9 DEF Typed
  <2>3. observed' \in [Counter -> Nat]
    BY <1>1, <1>5 DEF Typed
  <2> QED
    BY <1>3, <1>6, <1>8, <2>1, <2>2, <2>3 DEF Typed, Session, Category
<1>13. Private'
  <2> SUFFICES ASSUME NEW u \in Serving', NEW v \in Serving', u # v, job'[u].sid = job'[v].sid
               PROVE  job'[v].sid \in known' /\ job'[v].sid \in shared'
    BY DEF Private
  <2>1. CASE u \in Serving /\ v \in Serving
    <3>1. job[v].sid \in known /\ job[v].sid \in shared
      BY <1>1, <1>8, <2>1 DEF Private
    <3> QED
      BY <1>8, <1>9, <2>1, <3>1
  <2>2. CASE u = w /\ v \in Serving
    BY <1>4, <1>8, <1>10, <2>2
  <2>3. CASE v = w /\ u \in Serving
    BY <1>4, <1>8, <1>10, <2>3
  <2> QED
    BY <1>8, <2>1, <2>2, <2>3
<1>14. Current'
  <2> SUFFICES ASSUME NEW v \in Serving', job'[v].sid \notin shared'
               PROVE  job'[v].session.history = store'[job'[v].sid].history
    BY DEF Current
  <2>1. CASE v = w
    BY <1>3, <1>4, <1>8, <2>1
  <2>2. CASE v \in Serving
    <3>1. job[v].session.history = store[job[v].sid].history
      BY <1>1, <1>8, <1>9, <2>2 DEF Current
    <3> QED
      BY <1>8, <1>11, <2>2, <3>1
  <2> QED
    BY <1>8, <2>1, <2>2
<1>15. Counted'
  <2>1. Total(observed) \in Nat /\ Cardinality(Serving) \in Nat
    BY <1>1, Finite DEF Total, Counter
  <2>2. Total(observed)' = Total(observed)
    BY <1>5
  <2> QED
    BY <1>1, <1>8, <2>1, <2>2 DEF Counted
<1>16. Told'
  <2>1. /\ IsFiniteSet(Sid \ known) /\ IsFiniteSet(Untold)
        /\ Cardinality(Sid \ known) \in Nat /\ Cardinality(Untold) \in Nat
        /\ observed["error"] \in Nat /\ observed["none"] \in Nat
    BY <1>1, Finite DEF Counter
  <2>2. CASE n \in known /\ Sid' = Sid
    <3>1. Untold' = Untold
      BY <1>4, <1>8, <2>2 DEF Untold
    <3> QED
      BY <1>1, <1>5, <2>2, <3>1 DEF Told
  <2>3. CASE n \notin Sid /\ n \notin known /\ Sid' = Sid \cup {n}
    <3>1. Untold' = Untold \cup {w} /\ w \notin Untold
      BY <1>4, <1>8, <2>3 DEF Untold
    <3>2. (Sid \ known)' = (Sid \ known) \cup {n}
      BY <2>3
    <3>3. Cardinality(Untold') = Cardinality(Untold) + 1
      BY <2>1, <3>1, FS_AddElement
    <3>4. Cardinality((Sid \ known)') = Cardinality(Sid \ known) + 1
      BY <2>1, <2>3, <3>2, FS_AddElement
    <3> QED
      BY <1>1, <1>5, <2>1, <3>3, <3>4 DEF Told
  <2> QED
    BY <1>3, <2>2, <2>3
<1>17. Replied'
  BY <1>5, NoReply
<1> QED
  BY <1>12, <1>13, <1>14, <1>15, <1>16, <1>17 DEF IInv

(* An answer that is no success, as far as the counters are concerned. *)
LEMMA ErrorCounts ==
    ASSUME Typed, NEW o, NEW req, NEW call, o \notin {"ok", "no_speech"}, Answer(o, req, call)
    PROVE  /\ observed' \in [Counter -> Nat] /\ Total(observed)' = Total(observed) + 1
           /\ observed'["error"] + observed'["none"] = observed["error"] + observed["none"] + 1
           /\ observed["error"] \in Nat /\ observed["none"] \in Nat
           /\ observed'["error"] \in Nat /\ observed'["none"] \in Nat
           /\ Total(observed) \in Nat
<1>1. observed \in [Counter -> Nat]
  BY DEF Typed
<1>2. /\ observed' \in [Counter -> Nat] /\ Total(observed)' = Total(observed) + 1
      /\ observed'["error"] + observed'["none"] = observed["error"] + observed["none"]
            + IF o \in {"ok", "no_speech"} THEN 0 ELSE 1
  BY <1>1, AnswerCounts
<1>3. \A k \in Counter : observed[k] \in Nat /\ observed'[k] \in Nat
  BY <1>1, <1>2
<1>4. /\ observed["error"] \in Nat /\ observed["none"] \in Nat
      /\ observed'["error"] \in Nat /\ observed'["none"] \in Nat
      /\ observed["ok"] \in Nat /\ observed["no_speech"] \in Nat
  BY <1>3 DEF Counter
<1> QED
  BY <1>2, <1>4 DEF Total

(* A call that scope() refuses: a session may have been created that nobody    *)
(* will be told of, and the error accounts for it.                             *)
LEMMA FailKeeps ==
    ASSUME IInv, NEW req, NEW s \in Scene, NEW c \in Tree[s], NEW n, NEW sess, NEW call,
           Loads(n, sess, c), turns < MaxTurns, turns' = turns + 1, known' = known,
           Fails(req, call)
    PROVE  IInv'
<1>1. Typed /\ Private /\ Current /\ Counted /\ Told
  BY DEF IInv
<1>2. c \in Category
  BY DEF Category
<1>3. /\ store' \in Seq(Session) /\ Sid \subseteq Sid'
      /\ \A m \in Sid : store'[m] = store[m]
      /\ Sid' = Sid \/ (n \notin Sid /\ n \notin known /\ Sid' = Sid \cup {n})
  BY <1>1, <1>2, LoadingIs
<1>4. Answer("ValueError", req, call) /\ job' = job /\ shared' = shared
  BY DEF Fails
<1>5. /\ observed' \in [Counter -> Nat] /\ Total(observed)' = Total(observed) + 1
      /\ observed'["error"] + observed'["none"] = observed["error"] + observed["none"] + 1
      /\ observed["error"] \in Nat /\ observed["none"] \in Nat
      /\ observed'["error"] \in Nat /\ observed'["none"] \in Nat
      /\ Total(observed) \in Nat
  BY <1>1, <1>4, ErrorCounts
<1>6. Serving' = Serving /\ Untold' = Untold
  BY <1>4 DEF Serving, Untold
<1>7. turns' \in 0 .. MaxTurns
  BY <1>1, OrchestratorAssumption DEF Typed
<1>8. \A v \in Serving : IsCall(job[v], Sid') /\ job[v].sid \in Sid
  BY <1>1, <1>3 DEF Typed, IsCall
<1>9. Typed'
  BY <1>1, <1>3, <1>4, <1>5, <1>6, <1>7, <1>8 DEF Typed, Session, Category, IsCall
<1>10. Private'
  BY <1>1, <1>4, <1>6 DEF Private
<1>11. Current'
  BY <1>1, <1>3, <1>4, <1>6, <1>8 DEF Current
<1>12. Counted'
  <2>1. Cardinality(Serving) \in Nat
    BY <1>1, Finite
  <2> QED
    BY <1>1, <1>5, <1>6, <2>1 DEF Counted
<1>13. Told'
  <2>1. /\ IsFiniteSet(Sid \ known) /\ Cardinality(Sid \ known) \in Nat
        /\ Cardinality(Untold) \in Nat
    BY <1>1, Finite
  <2>2. CASE Sid' = Sid
    <3>1. (Sid \ known)' = Sid \ known
      BY <2>2
    <3>2. Cardinality(Sid \ known) <= Cardinality(Untold) + observed["error"] + observed["none"]
      BY <1>1 DEF Told
    <3>3. Cardinality(Sid \ known) <= Cardinality(Untold) + observed'["error"] + observed'["none"]
      BY <1>5, <2>1, <3>2
    <3> QED
      BY <1>6, <3>1, <3>3 DEF Told
  <2>3. CASE n \notin Sid /\ n \notin known /\ Sid' = Sid \cup {n}
    <3>1. (Sid \ known)' = (Sid \ known) \cup {n}
      BY <2>3
    <3>2. Cardinality((Sid \ known)') = Cardinality(Sid \ known) + 1
      BY <2>1, <2>3, <3>1, FS_AddElement
    <3>3. Cardinality(Sid \ known) <= Cardinality(Untold) + observed["error"] + observed["none"]
      BY <1>1 DEF Told
    <3>4. Cardinality((Sid \ known)') <= Cardinality(Untold) + observed'["error"] + observed'["none"]
      BY <1>5, <2>1, <3>2, <3>3
    <3> QED
      BY <1>6, <3>4 DEF Told
  <2> QED
    BY <1>3, <2>2, <2>3
<1>14. Replied'
  <2>1. reply' = [outcome |-> "ValueError", status |-> Status("ValueError"), req |-> req, call |-> call]
    BY <1>4 DEF Answer
  <2> QED
    BY <2>1, PlainReply
<1> QED
  BY <1>9, <1>10, <1>11, <1>12, <1>13, <1>14 DEF IInv

(* A call that ends without putting its session: an exception of the lookup,   *)
(* of a scoring thread, or a cancellation.                                     *)
LEMMA ErrorKeeps ==
    ASSUME IInv, NEW w \in Worker, NEW o, NEW req, NEW call, job[w] # Idle,
           o \in {"KeyError", "ValueError", "failed"}, Answer(o, req, call),
           o = "KeyError" => call.result = Raised("KeyError"),
           job' = [job EXCEPT ![w] = Idle], UNCHANGED <<store, known, turns, shared>>
    PROVE  IInv'
<1>1. Typed /\ Private /\ Current /\ Counted /\ Told
  BY DEF IInv
<1>2. Leaves(w)
  BY <1>1, Leaving
<1>3. /\ DOMAIN job' = Worker /\ w \in Serving /\ Serving' = Serving \ {w}
      /\ \A v \in Serving' : job'[v] = job[v]
      /\ IsFiniteSet(Serving') /\ Cardinality(Serving') = Cardinality(Serving) - 1
  BY <1>2 DEF Leaves
<1>4. /\ observed' \in [Counter -> Nat] /\ Total(observed)' = Total(observed) + 1
      /\ observed'["error"] + observed'["none"] = observed["error"] + observed["none"] + 1
      /\ observed["error"] \in Nat /\ observed["none"] \in Nat
      /\ observed'["error"] \in Nat /\ observed'["none"] \in Nat
      /\ Total(observed) \in Nat
  BY <1>1, ErrorCounts
<1>5. Typed'
  BY <1>1, <1>3, <1>4 DEF Typed, Sid, IsCall, Session, Category
<1>6. Private'
  BY <1>1, <1>3 DEF Private
<1>7. Current'
  BY <1>1, <1>3 DEF Current
<1>8. Counted'
  <2>1. Cardinality(Serving) \in Nat
    BY <1>1, Finite
  <2> QED
    BY <1>1, <1>3, <1>4, <2>1 DEF Counted
<1>9. Told'
  <2>1. /\ IsFiniteSet(Untold) /\ Cardinality(Untold) \in Nat /\ Cardinality(Sid \ known) \in Nat
    BY <1>1, Finite
  <2>2. Untold' = Untold \ {w}
    BY <1>3 DEF Untold
  <2>3. Cardinality(Untold') \in Nat /\ Cardinality(Untold') >= Cardinality(Untold) - 1
    <3>1. Cardinality(Untold \ {w}) = Cardinality(Untold) - 1
             \/ Cardinality(Untold \ {w}) = Cardinality(Untold)
      BY <2>1, FS_RemoveElement
    <3>2. Cardinality(Untold \ {w}) \in Nat
      BY <2>1, FS_RemoveElement, FS_CardinalityType
    <3> QED
      BY <2>1, <2>2, <3>1, <3>2
  <2>4. (Sid \ known)' = Sid \ known
    BY DEF Sid
  <2>5. Cardinality(Sid \ known) <= Cardinality(Untold) + observed["error"] + observed["none"]
    BY <1>1 DEF Told
  <2>6. Cardinality(Sid \ known) <= Cardinality(Untold') + observed'["error"] + observed'["none"]
    BY <1>4, <2>1, <2>3, <2>5
  <2> QED
    BY <2>4, <2>6 DEF Told
<1>10. Replied'
  <2>1. reply' = [outcome |-> o, status |-> Status(o), req |-> req, call |-> call]
    BY DEF Answer
  <2> QED
    BY <2>1, PlainReply
<1> QED
  BY <1>5, <1>6, <1>7, <1>8, <1>9, <1>10 DEF IInv

(* A call that succeeds: its session is no longer untold, and neither is the   *)
(* call, which was the only one that held it.                                  *)
LEMMA SuccessKeeps ==
    ASSUME IInv, NEW w \in Worker, job[w] # Idle, Recognised(job[w]),
           job' = [job EXCEPT ![w] = Idle], UNCHANGED <<turns, shared>>
    PROVE  IInv'
<1>1. Typed /\ Private /\ Current /\ Counted /\ Told
  BY DEF IInv
<1>2. Leaves(w)
  BY <1>1, Leaving
<1>3. /\ DOMAIN job' = Worker /\ w \in Serving /\ Serving' = Serving \ {w}
      /\ \A v \in Serving' : job'[v] = job[v]
      /\ IsFiniteSet(Serving') /\ Cardinality(Serving') = Cardinality(Serving) - 1
  BY <1>2 DEF Leaves
<1>4. IsCall(job[w], Sid)
  BY <1>1, <1>3 DEF Typed
<1> DEFINE n == job[w].sid
<1>5. PICK moved : Stores(job[w], moved)
  BY DEF Recognised
<1>6. /\ store' \in Seq(Session) /\ Sid' = Sid /\ known' = known \cup {n}
      /\ \A m \in Sid \ {n} : store'[m] = store[m]
  BY <1>1, <1>4, <1>5, StoringIs
<1>7. /\ observed' \in [Counter -> Nat] /\ Total(observed)' = Total(observed) + 1
      /\ observed'["error"] + observed'["none"] = observed["error"] + observed["none"]
  <2>1. PICK req, call : Answer("ok", req, call)
    BY DEF Recognised
  <2>2. observed \in [Counter -> Nat]
    BY <1>1 DEF Typed
  <2>3. /\ observed' \in [Counter -> Nat] /\ Total(observed)' = Total(observed) + 1
        /\ observed'["error"] + observed'["none"] = observed["error"] + observed["none"] + 0
    BY <2>1, <2>2, AnswerCounts
  <2>4. observed["error"] \in Nat /\ observed["none"] \in Nat
    BY <2>2 DEF Counter
  <2> QED
    BY <2>3, <2>4
<1>8. /\ observed["error"] \in Nat /\ observed["none"] \in Nat /\ Total(observed) \in Nat
      /\ observed'["error"] \in Nat /\ observed'["none"] \in Nat
  BY <1>1, <1>7, Finite DEF Counter, Total
<1>9. n \in Sid
  BY <1>4 DEF IsCall
<1>10. \A v \in Serving' : job[v].sid \notin shared => job[v].sid # n
  BY <1>1, <1>3 DEF Private
<1>11. \A v \in Serving' : IsCall(job[v], Sid') /\ job[v].sid \in Sid
  BY <1>1, <1>3, <1>6 DEF Typed, IsCall
<1>12. Replied'
  BY <1>4, GoodReply
<1> HIDE DEF n
<1>13. Typed'
  BY <1>1, <1>3, <1>6, <1>7, <1>9, <1>11 DEF Typed, IsCall, Session, Category
<1>14. Private'
  BY <1>1, <1>3, <1>6 DEF Private
<1>15. Current'
  <2> SUFFICES ASSUME NEW v \in Serving', job'[v].sid \notin shared
               PROVE  job'[v].session.history = store'[job'[v].sid].history
    BY DEF Current
  <2>1. job'[v] = job[v] /\ v \in Serving /\ job[v].sid \in Sid /\ job[v].sid # n
    BY <1>3, <1>10, <1>11
  <2>2. job[v].session.history = store[job[v].sid].history
    BY <1>1, <2>1 DEF Current
  <2> QED
    BY <1>6, <2>1, <2>2
<1>16. Counted'
  <2>1. Cardinality(Serving) \in Nat
    BY <1>1, Finite
  <2> QED
    BY <1>1, <1>3, <1>7, <1>8, <2>1 DEF Counted
<1>17. Told'
  <2>1. /\ IsFiniteSet(Sid \ known) /\ IsFiniteSet(Untold)
        /\ Cardinality(Sid \ known) \in Nat /\ Cardinality(Untold) \in Nat
    BY <1>1, Finite
  <2>2. Cardinality(Sid \ known) <= Cardinality(Untold) + observed["error"] + observed["none"]
    BY <1>1 DEF Told
  <2>3. CASE n \in known
    <3>1. (Sid \ known)' = Sid \ known /\ Untold' = Untold
      BY <1>3, <1>6, <2>3 DEF Untold, n
    <3>2. Cardinality(Sid \ known) <= Cardinality(Untold) + observed'["error"] + observed'["none"]
      BY <1>7, <1>8, <2>1, <2>2
    <3> QED
      BY <3>1, <3>2 DEF Told
  <2>4. CASE n \notin known
    <3>1. (Sid \ known)' = (Sid \ known) \ {n}
      BY <1>6
    <3>2. Untold' = Untold \ {w} /\ w \in Untold
      <4>1. \A v \in Serving' : job[v].sid # n
        BY <1>1, <1>3, <2>4 DEF Private, n
      <4> QED
        BY <1>3, <1>6, <2>4, <4>1 DEF Untold, n
    <3>3. Cardinality((Sid \ known)') = Cardinality(Sid \ known) - 1
      BY <1>9, <2>1, <2>4, <3>1, FS_RemoveElement
    <3>4. Cardinality(Untold') = Cardinality(Untold) - 1
      BY <2>1, <3>2, FS_RemoveElement
    <3>5. Cardinality((Sid \ known)') <= Cardinality(Untold') + observed'["error"] + observed'["none"]
      BY <1>7, <1>8, <2>1, <2>2, <3>3, <3>4
    <3> QED
      BY <3>5 DEF Told
  <2> QED
    BY <2>3, <2>4
<1> QED
  BY <1>12, <1>13, <1>14, <1>15, <1>16, <1>17 DEF IInv

(* Nothing has been asked yet. *)
LEMMA Initially ==
    Init => IInv
<1> SUFFICES ASSUME Init
             PROVE  IInv
  OBVIOUS
<1>1. /\ store = <<>> /\ job = [w \in Worker |-> Idle] /\ reply = None /\ known = {}
      /\ turns = 0 /\ shared = {} /\ observed = [r \in Counter |-> 0]
  BY DEF Init, Counter
<1>2. Serving = {} /\ Untold = {} /\ Sid = {}
  BY <1>1 DEF Serving, Untold, Sid
<1>3. IsFiniteSet({}) /\ Cardinality({}) = 0
  BY FS_EmptySet
<1>4. /\ observed["ok"] = 0 /\ observed["error"] = 0 /\ observed["no_speech"] = 0
      /\ observed["none"] = 0 /\ observed \in [Counter -> Nat]
  BY <1>1 DEF Counter
<1>5. Typed
  <2>1. store \in Seq(Session) /\ DOMAIN job = Worker /\ turns \in 0 .. MaxTurns
    BY <1>1, OrchestratorAssumption
  <2> QED
    BY <1>1, <1>2, <1>3, <1>4, <2>1 DEF Typed
<1>6. Private /\ Current
  BY <1>2 DEF Private, Current
<1>7. Counted /\ Told
  <2>1. Sid \ known = {}
    BY <1>2
  <2> QED
    BY <1>1, <1>2, <1>3, <1>4, <2>1 DEF Counted, Told, Total
<1>8. Replied
  BY <1>1 DEF Replied, NotFoundMeansUnknown, PointerStaysInTree, FusionIsWeightedSum, RankingIsSound,
              Fused, Answered
<1> QED
  BY <1>5, <1>6, <1>7, <1>8 DEF IInv

-----------------------------------------------------------------------------
(* The theorems.                                                              *)

(* recognize up to its await, whether it goes on to score or is refused.       *)
LEMMA BeginKeeps ==
    ASSUME IInv, NEW w \in Worker, NEW req \in Requests, NEW file,
           NEW sid \in known \cup {None, Stranger}, Begin(w, req, file, sid)
    PROVE  IInv'
<1>1. Typed
  BY DEF IInv
<1>2. job[w] = Idle /\ turns < MaxTurns /\ turns' = turns + 1 /\ known' = known
  BY <1>1, BeginIs
<1> DEFINE Goes(s, c, n, sess) ==
               /\ Loads(n, sess, c)
               /\ \/ c \notin EnumCategory /\ Starts(w, NewCall(req, s, c, n, sess))
                  \/ Fails(req, NewCall(req, s, c, n, sess))
<1>3. PICK s \in Scene : \E c \in Tree[s] : \E n, sess : Goes(s, c, n, sess)
  BY <1>1, BeginIs
<1>4. PICK c \in Tree[s] : \E n, sess : Goes(s, c, n, sess)
  BY <1>3
<1>5. PICK n, sess : Goes(s, c, n, sess)
  BY <1>4
<1>6. CASE c \notin EnumCategory /\ Starts(w, NewCall(req, s, c, n, sess))
  BY <1>2, <1>5, <1>6, StartKeeps
<1>7. CASE Fails(req, NewCall(req, s, c, n, sess))
  BY <1>2, <1>5, <1>7, FailKeeps
<1> QED
  BY <1>5, <1>6, <1>7

(* recognize after its await. *)
LEMMA CompleteKeeps ==
    ASSUME IInv, NEW w \in Worker, Complete(w)
    PROVE  IInv'
<1>1. job[w] # Idle
  BY DEF Complete
<1>2. IsCall(job[w], Sid)
  BY <1>1 DEF IInv, Typed, Serving
<1>3. /\ job' = [job EXCEPT ![w] = Idle] /\ UNCHANGED <<turns, shared>>
      /\ \/ Answer("ValueError", job[w].req, job[w]) /\ UNCHANGED <<store, known>>
         \/ Recognised(job[w])
  BY <1>2, CompleteIs
<1>4. CASE Answer("ValueError", job[w].req, job[w]) /\ UNCHANGED <<store, known>>
  BY <1>1, <1>3, <1>4, ErrorKeeps
<1>5. CASE Recognised(job[w])
  BY <1>1, <1>3, <1>5, SuccessKeeps
<1> QED
  BY <1>3, <1>4, <1>5

(* Every step of every request keeps the invariant. *)
LEMMA NextKeeps ==
    IInv /\ [Next]_vars => IInv'
<1> SUFFICES ASSUME IInv, [Next]_vars
             PROVE  IInv'
  OBVIOUS
<1>1. ASSUME NEW w \in Worker, NEW req \in Requests, NEW file \in Files(req), Refuse(w, req, file)
      PROVE  IInv'
  BY <1>1, RefuseKeeps
<1>2. ASSUME NEW w \in Worker, NEW req \in Requests, NEW file \in Files(req),
             NEW sid \in known \cup {None, Stranger}, Begin(w, req, file, sid)
      PROVE  IInv'
  BY <1>2, BeginKeeps
<1>3. ASSUME NEW w \in Worker, Complete(w)
      PROVE  IInv'
  BY <1>3, CompleteKeeps
<1>4. ASSUME NEW w \in Worker, Abort(w)
      PROVE  IInv'
  <2>1. /\ job[w] # Idle /\ job' = [job EXCEPT ![w] = Idle]
        /\ UNCHANGED <<store, known, turns, shared>>
    BY <1>4 DEF Abort
  <2>2. PICK what \in {"KeyError", "ValueError", "failed"} :
            Answer(what, job[w].req, [job[w] EXCEPT !.result = Raised(what)])
    BY <1>4 DEF Abort
  <2> DEFINE call == [job[w] EXCEPT !.result = Raised(what)]
  <2>3. call.result = Raised(what)
    <3>1. DOMAIN job[w] = CallField
      BY <2>1 DEF IInv, Typed, IsCall, Serving
    <3> QED
      BY <3>1 DEF CallField
  <2> HIDE DEF call
  <2>4. Answer(what, job[w].req, call)
    BY <2>2 DEF call
  <2> QED
    BY <2>1, <2>3, <2>4, ErrorKeeps
<1>5. CASE UNCHANGED vars
  <2>1. /\ store' = store /\ job' = job /\ reply' = reply /\ observed' = observed
        /\ known' = known /\ turns' = turns /\ shared' = shared
    BY <1>5 DEF vars
  <2>2. Serving' = Serving /\ Sid' = Sid /\ Untold' = Untold
    BY <2>1 DEF Serving, Sid, Untold
  <2>3. Typed'
    BY <2>1, <2>2 DEF IInv, Typed, IsCall, Session, Category
  <2>4. Private' /\ Current'
    BY <2>1, <2>2 DEF IInv, Private, Current
  <2>5. Counted' /\ Told'
    BY <2>1, <2>2 DEF IInv, Counted, Told, Total
  <2>6. NotFoundMeansUnknown' /\ PointerStaysInTree'
    BY <2>1 DEF IInv, Replied, NotFoundMeansUnknown, BackendRaised, PointerStaysInTree, Answered
  <2>7. FusionIsWeightedSum'
    <3>1. Fused' = Fused /\ UniqueIds' = UniqueIds /\ Hits' = Hits
      BY <2>1 DEF Fused, Answered, UniqueIds, Hits
    <3>2. \A id : Documented(id)' = Documented(id)
      BY <2>1 DEF Documented
    <3>3. IsWeightedSum' <=> IsWeightedSum
      BY <2>1, <3>2 DEF IsWeightedSum
    <3> QED
      BY <2>1, <3>1, <3>3 DEF IInv, Replied, FusionIsWeightedSum
  <2>8. RankingIsSound'
    BY <2>1 DEF IInv, Replied, RankingIsSound, Fused, Answered
  <2> QED
    BY <2>3, <2>4, <2>5, <2>6, <2>7, <2>8 DEF IInv, Replied
<1> QED
  BY <1>1, <1>2, <1>3, <1>4, <1>5 DEF Next

(* The invariant holds throughout, whatever the number of concurrent requests. *)
THEOREM Invariance == Spec => []IInv
<1> QED
  BY Initially, NextKeeps, PTL DEF Spec

(* Sessions keep their shape and calls hold only sessions of the store: a      *)
(* pointer is always a category, also when a follow_up leads nowhere.          *)
THEOREM TypeCorrect == Spec => []TypeOK
<1>1. ASSUME IInv
      PROVE  TypeOK
  <2>1. Typed /\ Counted
    BY <1>1 DEF IInv
  <2>2. \A w \in Worker : job[w] # Idle => job[w].sid \in Sid /\ job[w].session \in Session
    BY <2>1 DEF Typed, Serving, IsCall
  <2>3. \A r \in DOMAIN observed : observed[r] \in 0 .. MaxTurns
    <3>1. /\ Cardinality(Serving) \in Nat /\ observed["ok"] \in Nat /\ observed["error"] \in Nat
          /\ observed["no_speech"] \in Nat /\ observed["none"] \in Nat /\ DOMAIN observed = Counter
      BY <2>1, Finite DEF Typed, Counter
    <3>2. turns \in Nat /\ turns <= MaxTurns /\ MaxTurns \in Nat
      BY <2>1, OrchestratorAssumption DEF Typed
    <3>3. turns = Cardinality(Serving) + (observed["ok"] + observed["error"] + observed["no_speech"]
                                            + observed["none"])
      BY <2>1 DEF Counted, Total
    <3>4. \A r \in Counter : r = "ok" \/ r = "error" \/ r = "no_speech" \/ r = "none"
      BY DEF Counter
    <3>5. /\ observed["ok"] \in 0 .. MaxTurns /\ observed["error"] \in 0 .. MaxTurns
          /\ observed["no_speech"] \in 0 .. MaxTurns /\ observed["none"] \in 0 .. MaxTurns
      BY <3>1, <3>2, <3>3
    <3> QED
      BY <3>1, <3>4, <3>5
  <2> QED
    BY <2>1, <2>2, <2>3 DEF TypeOK, Typed
<1> QED
  BY <1>1, Invariance, PTL

(* Every request is being served or was counted once, except the crashed ones; *)
(* a session that nobody was told of is one of a call that is being served, or *)
(* that failed.                                                                *)
THEOREM AlwaysAccounted == Spec => []Accounted
<1>1. ASSUME IInv
      PROVE  Accounted
  <2>1. Typed /\ Counted /\ Told
    BY <1>1 DEF IInv
  <2>2. /\ Cardinality(Serving) \in Nat /\ observed["ok"] \in Nat /\ observed["error"] \in Nat
        /\ observed["no_speech"] \in Nat /\ observed["none"] \in Nat /\ IsFiniteSet(Serving)
        /\ Cardinality(Sid \ known) \in Nat /\ Cardinality(Untold) \in Nat
    BY <2>1, Finite DEF Typed, Counter
  <2>3. Untold \subseteq Serving
    BY DEF Untold
  <2>4. Cardinality(Untold) <= Cardinality(Serving)
    BY <2>2, <2>3, FS_Subset
  <2>5. Cardinality(Sid \ known) <= Cardinality(Untold) + observed["error"] + observed["none"]
    BY <2>1 DEF Told
  <2>6. Cardinality(Sid \ known) <= Cardinality(Serving) + observed["error"] + observed["none"]
    BY <2>2, <2>4, <2>5
  <2>7. turns = Cardinality(Serving) + (observed["ok"] + observed["error"] + observed["no_speech"]
                                          + observed["none"])
    BY <2>1 DEF Counted, Total
  <2>8. turns = Cardinality(Serving) + observed["ok"] + observed["error"]
                  + observed["no_speech"] + observed["none"]
    BY <2>2, <2>7
  <2> QED
    BY <2>6, <2>8 DEF Accounted
<1> QED
  BY <1>1, Invariance, PTL

(* 404 is about the request, or a backend's own KeyError: neither scope() nor  *)
(* the lookups of fused ids ever raise one, whatever pool and pointer.         *)
THEOREM NotFoundIsTrue == Spec => []NotFoundMeansUnknown
<1>1. ASSUME IInv
      PROVE  NotFoundMeansUnknown
  BY <1>1 DEF IInv, Replied
<1> QED
  BY <1>1, Invariance, PTL

(* A follow_up never leads out of the scene it was scored in.                  *)
THEOREM StaysInTree == Spec => []PointerStaysInTree
<1>1. ASSUME IInv
      PROVE  PointerStaysInTree
  BY <1>1 DEF IInv, Replied
<1> QED
  BY <1>1, Invariance, PTL

(* Scores lie in [0, 1] after fusion, best first, and no more than asked for,  *)
(* for any pool, confidences, weights and hypothesis, and for both matchers;   *)
(* none is 0 where the hypothesis was fused in.                                *)
THEOREM RankingSound == Spec => []RankingIsSound
<1>1. ASSUME IInv
      PROVE  RankingIsSound
  BY <1>1 DEF IInv, Replied
<1> QED
  BY <1>1, Invariance, PTL

(* The fused answer is the documented weighted sum where Path A's N-best held  *)
(* every candidate that it scored.                                             *)
THEOREM FusionExact == Spec => []FusionIsWeightedSum
<1>1. ASSUME IInv
      PROVE  FusionIsWeightedSum
  BY <1>1 DEF IInv, Replied
<1> QED
  BY <1>1, Invariance, PTL

(* One step's effect on the history of a session. *)
Remembered(s) == \/ store'[s].history = store[s].history
           \/ Front(store'[s].history) = store[s].history

(* A session that one call uses at a time forgets no turn: the call's copy was *)
(* up to date, so that putting it back adds one turn and loses none.           *)
THEOREM NothingForgotten == Spec => HistoryGrows
<1>1. ASSUME IInv, Next
      PROVE  \A s \in Sid \ shared : Remembered(s)
  <2>1. Typed /\ Private /\ Current
    BY <1>1 DEF IInv
  <2>2. CASE store' = store
    BY <2>2 DEF Remembered
  <2>3. ASSUME NEW w \in Worker, NEW req, NEW file, NEW sid \in known \cup {None, Stranger},
               Begin(w, req, file, sid)
        PROVE  \A s \in Sid \ shared : Remembered(s)
    <3>1. PICK c \in Category : \E n, sess : Loads(n, sess, c)
      BY <2>1, <2>3, BeginIs DEF Category
    <3>2. \A m \in Sid : store'[m] = store[m]
      BY <2>1, <3>1, LoadingIs
    <3> QED
      BY <3>2 DEF Remembered
  <2>4. ASSUME NEW w \in Worker, Complete(w)
        PROVE  \A s \in Sid \ shared : Remembered(s)
    <3>1. job[w] # Idle
      BY <2>4 DEF Complete
    <3>2. w \in Serving /\ IsCall(job[w], Sid)
      BY <2>1, <3>1 DEF Typed, Serving
    <3>3. UNCHANGED store \/ Recognised(job[w])
      BY <2>4, <3>2, CompleteIs
    <3>4. CASE Recognised(job[w])
      <4>1. PICK moved : Stores(job[w], moved)
        BY <3>4 DEF Recognised
      <4> DEFINE n == job[w].sid
                 h == job[w].session.history
                 t == job[w].turn
      <4>2. /\ \A m \in Sid \ {n} : store'[m] = store[m]
            /\ store'[n].history = Append(h, t)
        BY <2>1, <3>2, <4>1, StoringIs
      <4>3. n \notin shared => h = store[n].history
        BY <2>1, <3>2 DEF Current
      <4>4. h \in Seq(1 .. MaxTurns) /\ t \in 1 .. MaxTurns
        BY <3>2 DEF IsCall, Session
      <4> HIDE DEF n, h, t
      <4>5. Front(Append(h, t)) = h
        BY <4>4 DEF Front
      <4> QED
        BY <4>2, <4>3, <4>5 DEF Remembered
    <3> QED
      BY <2>2, <3>3, <3>4
  <2>5. ASSUME NEW w \in Worker, Abort(w)
        PROVE  store' = store
    BY <2>5 DEF Abort
  <2>6. ASSUME NEW w \in Worker, NEW req, NEW file, Refuse(w, req, file)
        PROVE  store' = store
    BY <2>6 DEF Refuse
  <2> QED
    BY <1>1, <2>2, <2>3, <2>4, <2>5, <2>6 DEF Next
<1>2. IInv /\ [Next]_vars => [\A s \in Sid \ shared : Remembered(s)]_vars
  BY <1>1
<1>3. [\A s \in Sid \ shared : Remembered(s)]_vars
        <=> [\A s \in Sid \ shared : \/ store'[s].history = store[s].history
                                     \/ Front(store'[s].history) = store[s].history]_vars
  BY DEF Remembered
<1> QED
  BY <1>2, <1>3, Invariance, PTL DEF Spec, HistoryGrows
=============================================================================
