---------------------------- MODULE Orchestrator ----------------------------
(* POST /recognize/text and /recognize/file (api/routes.py) and the call of    *)
(* Orchestrator.recognize they make, over the scene registry, the in-memory    *)
(* session store and the fusion of the two recognition paths                   *)
(* (core/orchestrator.py, core/fusion.py, core/matcher.py, storage/*.py).      *)
(*                                                                             *)
(* The session store's lock is never contended: no coroutine suspends while it *)
(* holds it.  A call therefore runs in two pieces, up to the await of the      *)
(* scoring threads and from there to its answer; other calls run in between,   *)
(* on their own deep copies of the session.                                    *)
(*                                                                             *)
(* Confidences are 0 .. MaxConf and weights are naturals; a fused score is a   *)
(* numerator over the sum of the weights, so nothing is rounded.               *)
EXTENDS Integers, Sequences, FiniteSets, SequencesExt

CONSTANTS
    Worker,        \* requests that may be served at the same time
    Scene,         \* scene ids of the registry
    RootName,      \* [Scene -> name of the root category]
    RootOf,        \* [Scene -> id of the root category]
    Tree,          \* [Scene -> its category ids]
    EnumCategory,  \* the categories of mode ENUM
    Pool,          \* [category -> scope(category), a sequence of Intents]
    Weights,       \* [Scene -> [a, b]], FusionConfig.for_scene
    Requests,      \* requests without session_id; the ones with audio are files
    Uploads,       \* files: [large, garbled, silent, fails], what is wrong with them
    Matcher,       \* Path A's backend: "embedder", the default, or "stub"
    Hypotheses,    \* what Path B may answer: [id, conf], or None
    MaxConf,       \* the confidence 1.0
    MaxTurns,      \* bound: calls of one behaviour
    None, Stranger \* Python's None; a session id this server never issued

Category == UNION {Tree[s] : s \in Scene}

(* An intent of a pool: its id (ids are ordered as the code's strings are),    *)
(* whether it is asked for by any question that is not blank, and its          *)
(* follow_up, [to, empty]: the category the path leads to, None for a KeyError *)
(* of tree.resolve_path, and whether it has no segment (ValueError).           *)
Intent == [id : Nat, asked : BOOLEAN,
           follow_up : {None} \cup [to : Category \cup {None}, empty : BOOLEAN]]

(* resolve's categories, the bounds of the request models and of FusionWeights *)
(* and MatchCandidate, and what Python's None cannot be equal to.              *)
ASSUME OrchestratorAssumption ==
    /\ MaxConf \in Nat \ {0} /\ MaxTurns \in Nat /\ Matcher \in {"embedder", "stub"}
    /\ Stranger \notin Nat /\ None \notin Nat \cup {"KeyError", "ValueError"}
    /\ \A s \in Scene : /\ RootOf[s] \in Tree[s]
                        /\ \A c \in Tree[s] \ EnumCategory : Pool[c] \in Seq(Intent)
                        /\ Weights[s].a \in Nat /\ Weights[s].b \in Nat
                        /\ Weights[s].a + Weights[s].b > 0
    /\ \A r \in Requests : r.n_best \in Nat \ {0}
    /\ \A h \in Hypotheses \ {None} : h.id \in Nat /\ h.conf \in 0 .. MaxConf

VARIABLES
    store,    \* InMemorySessionStore._by_id: a sequence, the n-th uuid at n
    job,      \* the call each worker is waiting in, Idle when it has none
    reply,    \* the request that has just been answered, None if none has
    observed, \* recognize_requests_total; under "none" those it never counts
    known,    \* session ids a caller has been told
    turns,    \* calls begun so far; a call's number stands for its text
    shared    \* (history) sessions that two calls have held at the same time

vars == <<store, job, reply, observed, known, turns, shared>>

Sid == DOMAIN store
Idle == [turn |-> 0, result |-> None]

-----------------------------------------------------------------------------
(* SceneRegistry.resolve: [scene, category], or the exception it raises.  A    *)
(* path is the name of its first segment and the category its other segments   *)
(* lead to (None if they lead nowhere).                                        *)

Raised(what) == [raises |-> what]
Found(s, c) == [raises |-> None, scene |-> s, category |-> c]

Resolve(req) ==
    IF req.path # None
    THEN LET matches == {s \in Scene : RootName[s] = req.path.root}
             s == CHOOSE s \in matches : TRUE
         IN  IF req.path.root = None THEN Raised("ValueError")
             ELSE IF Cardinality(matches) # 1 \/ req.path.at \notin Tree[s] THEN Raised("KeyError")
             ELSE Found(s, req.path.at)
    ELSE IF req.scene = None THEN Raised("ValueError")
    ELSE IF req.scene \notin Scene THEN Raised("KeyError")
    ELSE Found(req.scene, RootOf[req.scene])

-----------------------------------------------------------------------------
(* The session store.                                                         *)

NewSession(c) == [pointer |-> c, history |-> <<>>, switching |-> <<>>]

\* Fault: a known session is created anew under its old id.
LoadOrCreate_Fault(sid, c) ==
    IF sid \in Sid
    THEN [sid |-> sid, session |-> NewSession(c), store |-> store]
    ELSE [sid |-> Len(store) + 1, session |-> NewSession(c), store |-> Append(store, NewSession(c))]

(* _load_or_create_session: a copy of a known session; for no session_id or an *)
(* unknown one a new session, stored at once under a new id.                   *)
LoadOrCreate(sid, c) ==
    IF sid \in Sid
    THEN [sid |-> sid, session |-> store[sid], store |-> store]
    ELSE [sid |-> Len(store) + 1, session |-> NewSession(c), store |-> Append(store, NewSession(c))]

-----------------------------------------------------------------------------
(* Path A.  What a matcher hears in a transcript: how sure it is of each       *)
(* candidate, and whether the transcript was blank.  Nothing is heard in a     *)
(* blank one, nor of a candidate without a question.                           *)

Scorings(pool) ==
    {heard \in [conf : [Range(pool) -> 0 .. MaxConf], blank : BOOLEAN] :
        \A e \in Range(pool) : heard.blank \/ ~e.asked => heard.conf[e] = 0}

(* The stub lists the candidates it is in any way sure of, the embedder all it *)
(* could compare, a cosine of -1 and thus the confidence 0.0 included.         *)
Lists(heard, e) == IF Matcher = "stub" THEN heard.conf[e] > 0 ELSE ~heard.blank /\ e.asked

(* The elements of S, sorted; Before is a strict total order of S. *)
SortedBy(S, Before(_, _)) ==
    CHOOSE f \in [1 .. Cardinality(S) -> S] :
        \A i, j \in 1 .. Cardinality(S) : i < j => Before(f[i], f[j])

FirstN(seq, n) == SubSeq(seq, 1, IF n < Len(seq) THEN n ELSE Len(seq))

(* The matcher's N-best: best first, and by intent id on a tie. *)
Ranked(pool, heard, n) ==
    LET hits == {i \in DOMAIN pool : Lists(heard, pool[i])}
        Conf(i) == heard.conf[pool[i]]
        Before(i, j) == \/ Conf(i) > Conf(j)
                        \/ Conf(i) = Conf(j) /\ pool[i].id < pool[j].id
                        \/ Conf(i) = Conf(j) /\ pool[i].id = pool[j].id /\ i < j
        order == SortedBy(hits, Before)
    IN  FirstN([k \in DOMAIN order |-> [id |-> pool[order[k]].id, score |-> Conf(order[k])]], n)

(* Fusion with Path B's single hypothesis.                                    *)

Ids(pool) == {pool[i].id : i \in DOMAIN pool}

\* Fault: a hypothesis outside the candidate pool is not dropped.
BActive_Fault(slu, pool) == slu # None

BActive(slu, pool) == slu # None /\ slu.id \in Ids(pool)

\* Fault: Path A's confidence is not weighted.
WeightedA_Fault(ranked, id, w) ==
    LET at == {k \in DOMAIN ranked : ranked[k].id = id}
    IN  IF at = {} THEN 0 ELSE ranked[CHOOSE k \in at : \A j \in at : j <= k].score

(* scores[id] after the loop over ranked_a: the last entry of an id stays. *)
WeightedA(ranked, id, w) ==
    LET at == {k \in DOMAIN ranked : ranked[k].id = id}
    IN  IF at = {} THEN 0 ELSE w.a * ranked[CHOOSE k \in at : \A j \in at : j <= k].score

(* fuse: Path A's list as it is when B has nothing to say. *)
Fuse(ranked, slu, pool, w, n) ==
    LET Score(id) == WeightedA(ranked, id, w) + (IF id = slu.id THEN w.b * slu.conf ELSE 0)
        ids == {id \in Ids(pool) \cup {slu.id} : Score(id) > 0}
        Before(x, y) == Score(x) > Score(y) \/ (Score(x) = Score(y) /\ x < y)
        order == SortedBy(ids, Before)
    IN  IF ~BActive(slu, pool)
        THEN FirstN(ranked, n)
        ELSE FirstN([k \in DOMAIN order |-> [id |-> order[k], score |-> Score(order[k])]], n)

\* Fault: the weights are not rescaled to sum to one.
Scale_Fault(slu, pool, w) == MaxConf

(* What a score is a fraction of: normalized() divides by the weights' sum. *)
Scale(slu, pool, w) == IF BActive(slu, pool) THEN (w.a + w.b) * MaxConf ELSE MaxConf

(* _resolve_top: the intent of the best entry, the last of that id in the pool. *)
TopIntent(fused, pool) ==
    LET at == {i \in DOMAIN pool : pool[i].id = fused[1].id}
    IN  pool[CHOOSE i \in at : \A j \in at : j <= i]

-----------------------------------------------------------------------------
\* Fault: the category is not looked up in the scene's own tree.
Target_Fault(follow, s) == IF follow = None THEN None ELSE follow.to

Target(follow, s) == IF follow = None \/ follow.to \notin Tree[s] THEN None ELSE follow.to

\* Fault: a follow_up that leads nowhere is followed.
MovePointer_Fault(session, target) ==
    [session EXCEPT !.pointer = target, !.switching = Append(@, target)]

MovePointer(session, target) ==
    IF target = None THEN session
    ELSE [session EXCEPT !.pointer = target, !.switching = Append(@, target)]

-----------------------------------------------------------------------------
(* The endpoints.  An outcome is "ok", a refusal of the endpoint, or the        *)
(* exception that left recognize or the ASR.                                   *)

\* Fault: a file without speech is answered and not counted.
Observed_Fault(outcome) ==
    [observed EXCEPT ![CASE outcome = "ok" -> "ok" [] outcome = "failed" -> "none"
                         [] OTHER -> "error"] = IF outcome = "no_speech" THEN @ ELSE @ + 1]

(* _observe_recognize_result; an exception that is neither KeyError nor        *)
(* ValueError is not caught, answered with 500 and not counted.                *)
Observed(outcome) ==
    [observed EXCEPT ![CASE outcome \in {"ok", "no_speech"} -> outcome
                         [] outcome = "failed"             -> "none"
                         [] OTHER                          -> "error"] = @ + 1]

Status(outcome) == CASE outcome = "ok"       -> 200
                     [] outcome = "bad_wav"  -> 400
                     [] outcome = "KeyError" -> 404
                     [] outcome = "too_large" -> 413
                     [] outcome = "failed"   -> 500
                     [] OTHER                -> 422

Answer(outcome, req, call) ==
    /\ reply' = [outcome |-> outcome, status |-> Status(outcome), req |-> req, call |-> call]
    /\ observed' = Observed(outcome)

(* What the endpoint finds before it calls recognize: the first that applies.  *)
Screened(req, file) ==
    IF req.scene = None /\ req.path = None THEN "no_scene"
    ELSE IF ~req.audio   THEN "fine"
    ELSE IF file.large   THEN "too_large"
    ELSE IF file.garbled THEN "bad_wav"
    ELSE IF file.silent  THEN "no_speech"
    ELSE IF file.fails   THEN "failed"
    ELSE "fine"

Init == /\ store = <<>>
        /\ job = [w \in Worker |-> Idle]
        /\ reply = None
        /\ observed = [r \in {"ok", "error", "no_speech", "none"} |-> 0]
        /\ known = {}
        /\ turns = 0
        /\ shared = {}

(* A request that ends in its endpoint, or that resolve refuses: nothing is    *)
(* touched.                                                                    *)
Refuse(w, req, file) ==
    LET found == Screened(req, file)
    IN  /\ job[w] = Idle
        /\ turns < MaxTurns
        /\ found # "fine" \/ Resolve(req).raises # None
        /\ turns' = turns + 1
        /\ Answer(IF found # "fine" THEN found ELSE Resolve(req).raises, req, Idle)
        /\ UNCHANGED <<store, job, known, shared>>

Overrides(req, sid) == sid = None \/ req.path # None \/ req.scene # None

(* recognize up to the await of the scoring threads.  scope() raises on an     *)
(* ENUM and on a category of another tree, after the session was created.      *)
Begin(w, req, file, sid) ==
    LET found   == Resolve(req)
        loaded  == LoadOrCreate(sid, found.category)
        at      == IF Overrides(req, sid) THEN found.category ELSE loaded.session.pointer
        call    == [turn |-> turns + 1, req |-> req, scene |-> found.scene,
                    resolved |-> found.category, at |-> at, sid |-> loaded.sid, result |-> None,
                    session |-> [loaded.session EXCEPT !.pointer = at]]
        outcome == IF at \notin Tree[found.scene] THEN "KeyError"
                   ELSE IF at \in EnumCategory THEN "ValueError" ELSE "scoring"
    IN  /\ job[w] = Idle
        /\ turns < MaxTurns
        /\ Screened(req, file) = "fine" /\ found.raises = None
        /\ turns' = turns + 1
        /\ store' = loaded.store
        /\ IF outcome = "scoring"
           THEN /\ job' = [job EXCEPT ![w] = call]
                /\ shared' = shared \cup {s \in {loaded.sid} :
                                \E v \in Worker : job[v] # Idle /\ job[v].sid = s}
                /\ reply' = None
                /\ UNCHANGED observed
           ELSE /\ Answer(outcome, req, call)
                /\ UNCHANGED <<job, shared>>
        /\ UNCHANGED known

(* The threads return: fuse, move the pointer, record the turn, put, answer.   *)
(* A follow_up without a segment raises before the session is put.             *)
Complete(w) ==
    /\ job[w] # Idle
    /\ \E heard \in Scorings(Pool[job[w].at]),
          slu \in (IF job[w].req.audio THEN Hypotheses ELSE {None}) :
        LET call   == job[w]
            pool   == Pool[call.at]
            weight == Weights[call.scene]
            ranked == Ranked(pool, heard, call.req.n_best)
            fused  == Fuse(ranked, slu, pool, weight, call.req.n_best)
            lost   == fused # <<>> /\ fused[1].id \notin Ids(pool)
            follow == IF fused = <<>> \/ lost THEN None ELSE TopIntent(fused, pool).follow_up
            empty  == follow # None /\ follow.empty
            moved  == MovePointer(call.session, Target(follow, call.scene))
            final  == [moved EXCEPT !.history = Append(@, call.turn)]
            result == [conf |-> heard.conf, slu |-> slu, fused |-> fused, pointer |-> moved.pointer]
        IN  IF lost \/ empty
            THEN /\ Answer(IF lost THEN "KeyError" ELSE "ValueError", call.req, call)
                 /\ UNCHANGED <<store, known>>
            ELSE /\ Answer("ok", call.req, [call EXCEPT !.result = result])
                 /\ store' = [store EXCEPT ![call.sid] = final]
                 /\ known' = known \cup {call.sid}
    /\ job' = [job EXCEPT ![w] = Idle]
    /\ UNCHANGED <<turns, shared>>

(* A scoring thread raises, or the caller cancels the call: nothing is put.    *)
(* The endpoint does not tell a KeyError or ValueError of a backend from one   *)
(* of recognize itself.                                                        *)
Abort(w) ==
    /\ job[w] # Idle
    /\ \E what \in {"KeyError", "ValueError", "failed"} :
          Answer(what, job[w].req, [job[w] EXCEPT !.result = Raised(what)])
    /\ job' = [job EXCEPT ![w] = Idle]
    /\ UNCHANGED <<store, known, turns, shared>>

Files(req) == IF req.audio THEN Uploads ELSE {None}

Next == \E w \in Worker :
            \/ \E req \in Requests : \E file \in Files(req) :
                    \/ Refuse(w, req, file)
                    \/ \E sid \in known \cup {None, Stranger} : Begin(w, req, file, sid)
            \/ Complete(w)
            \/ Abort(w)

Spec == Init /\ [][Next]_vars

-----------------------------------------------------------------------------
(* What a recognize call promises.                                            *)

Session == [pointer : Category, history : Seq(1 .. MaxTurns), switching : Seq(Category)]

(* Sessions keep their shape: a pointer is a category, also when a follow_up   *)
(* leads nowhere, and calls hold and callers know only sessions of the store.  *)
TypeOK ==
    /\ store \in Seq(Session) /\ turns \in 0 .. MaxTurns
    /\ known \subseteq Sid /\ shared \subseteq Sid
    /\ \A w \in Worker : job[w] # Idle => job[w].sid \in Sid /\ job[w].session \in Session
    /\ \A r \in DOMAIN observed : observed[r] \in 0 .. MaxTurns

Answered == reply # None /\ reply.outcome = "ok"

BackendRaised(what) == reply.call.result = Raised(what)

(* 404 means that the registry knows no such scene or path, or that a backend  *)
(* itself raised KeyError.  Neither scope(), called with the pointer of any    *)
(* session, nor the lookup of a fused id, which raise KeyError too, ever does. *)
NotFoundMeansUnknown ==
    reply # None /\ reply.status = 404 =>
        Resolve(reply.req).raises = "KeyError" \/ BackendRaised("KeyError")

Serving == {w \in Worker : job[w] # Idle}

(* Every request is being served or was counted once, except the ones that     *)
(* crashed; and a session that no caller was ever told of belongs to a request *)
(* that is being served, was counted as an error or crashed.                   *)
Accounted ==
    /\ turns = Cardinality(Serving) + observed["ok"] + observed["error"]
                + observed["no_speech"] + observed["none"]
    /\ Cardinality(Sid \ known)
            <= Cardinality(Serving) + observed["error"] + observed["none"]

(* A follow_up never leads out of the scene: the pointer a call answers with   *)
(* and stores lies in the tree of the scene it was scored in, whatever pointer *)
(* the session held before.                                                    *)
PointerStaysInTree == Answered => reply.call.result.pointer \in Tree[reply.call.scene]

(* The documented score of a candidate, conf_A taken over the whole pool. *)
Documented(id) ==
    LET conf  == reply.call.result.conf
        entry == CHOOSE e \in DOMAIN conf : e.id = id
        w     == Weights[reply.call.scene]
    IN  w.a * conf[entry] + (IF id = reply.call.result.slu.id THEN w.b * reply.call.result.slu.conf ELSE 0)

Hits == {e \in DOMAIN reply.call.result.conf : reply.call.result.conf[e] > 0}
UniqueIds == LET pool == Pool[reply.call.at]
             IN  \A i, j \in DOMAIN pool : pool[i].id = pool[j].id => i = j

Fused == Answered /\ BActive(reply.call.result.slu, Pool[reply.call.at])

(* Each listed score is w_A conf_A + w_B conf_B, and no candidate scores more  *)
(* than the top.                                                               *)
IsWeightedSum ==
    /\ \A k \in DOMAIN reply.call.result.fused :
          reply.call.result.fused[k].score = Documented(reply.call.result.fused[k].id)
    /\ \A id \in Ids(Pool[reply.call.at]) :
          Documented(id) > 0 => /\ reply.call.result.fused # <<>>
                                /\ Documented(id) <= reply.call.result.fused[1].score

(* When Path B takes part and Path A's N-best held every candidate it scored,  *)
(* the answer is the documented weighted sum, best first.                      *)
FusionIsWeightedSum ==
    Fused /\ UniqueIds /\ Cardinality(Hits) <= reply.call.req.n_best => IsWeightedSum

(* Confidence stays within [0, 1] after fusion, the list is no longer than     *)
(* asked for and sorted.  Nothing that scored zero is in it if the hypothesis  *)
(* of Path B was fused in; otherwise that is left to the matcher.              *)
RankingIsSound ==
    Answered =>
        LET list == reply.call.result.fused
            top  == Scale(reply.call.result.slu, Pool[reply.call.at], Weights[reply.call.scene])
        IN  /\ Len(list) <= reply.call.req.n_best
            /\ \A k \in DOMAIN list : list[k].score \in 0 .. top
            /\ Fused \/ Matcher = "stub" => \A k \in DOMAIN list : list[k].score > 0
            /\ \A k \in 1 .. Len(list) - 1 : list[k].score >= list[k + 1].score

(* A session that is used by one call at a time forgets nothing: a step either *)
(* leaves its history alone or adds one turn at the end.                       *)
HistoryGrows ==
    [][\A s \in Sid \ shared :
        \/ store'[s].history = store[s].history
        \/ Front(store'[s].history) = store[s].history]_vars
=============================================================================
