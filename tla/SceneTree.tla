----------------------------- MODULE SceneTree -----------------------------
(* A scene file, the loader that validates it into a CategoryTree, and the     *)
(* walk that computes the candidate pool of a scene category                   *)
(* (core/scene_loader.py, core/scope.py, core/domain.py).                      *)
(*                                                                             *)
(* A scene file is [root, entries]; an entry keeps what the loader and the     *)
(* walk look at: its id, parent, name, mode, extends_enum_category, and        *)
(* whether it holds ordinary and special intents.  The intents of a category   *)
(* are therefore the pairs <<id, "ordinary">> and <<id, "special">>.  A name   *)
(* is the list of the segments that split("->") makes of it, at least one,     *)
(* some of them possibly empty: no code checks what a name holds.              *)
(*                                                                             *)
(* The recursion of _collect_via_ancestor_view emits in preorder, so it is the *)
(* list of calls still to make, the pending ones of the innermost frame first; *)
(* each call carries its budget and its depth on the Python stack.             *)
EXTENDS Integers, Sequences, FiniteSets, SequencesExt

CONSTANTS
    RawScenes,        \* the scene files the loader may be given, in families
    None,             \* Python's None
    RecursionLimit    \* frames the interpreter allows before RecursionError

VARIABLES
    raw,      \* the file being loaded
    phase,    \* "file", "rejected", "ready", "collecting", "done", "raised"
    scene,    \* the category scope() was called with
    todo,     \* the calls of _collect_via_ancestor_view still to make
    pool      \* the candidates collected so far

vars == <<raw, phase, scene, todo, pool>>

-----------------------------------------------------------------------------
(* Modes: the V3 property table.                                              *)

ModeProps ==
    LET Props(mayOrd, maySpec, reqSpec, down, depth, expOrd, expSpec, through, one, leaf) ==
            [may_hold_ordinary |-> mayOrd, may_hold_special |-> maySpec,
             requires_special |-> reqSpec, searches_down |-> down, search_depth |-> depth,
             expose_ordinary |-> expOrd, expose_special |-> expSpec,
             allow_penetration |-> through, single_child_chain |-> one,
             forbids_children |-> leaf]
        T == TRUE
        F == FALSE
    IN  [STANDARD   |-> Props(T, F, F, T, "all",       T, F, T, F, F),
         ENUM       |-> Props(T, F, F, F, "none",      T, F, T, F, F),
         SEQUENTIAL |-> Props(T, T, T, F, "none",      F, T, F, T, F),
         BRANCHING  |-> Props(F, T, T, T, "immediate", F, T, F, F, F),
         DRILLDOWN  |-> Props(T, T, T, T, "all",       T, T, T, F, F),
         MEMORY     |-> Props(T, F, F, F, "none",      F, F, F, F, T)]

Modes == DOMAIN ModeProps

ASSUME SceneAssumption ==
    /\ RecursionLimit \in Nat \ {0} /\ None \notin Nat
    /\ \A family \in RawScenes : \A file \in family :
         /\ file.entries \in Seq(Range(file.entries))
         /\ \A e \in Range(file.entries) :
               /\ e.id # None /\ e.mode \in Modes
               /\ e.name # <<>> /\ e.name \in Seq(Range(e.name))

-----------------------------------------------------------------------------
(* The tree the loader builds.                                                *)

Ids == {e.id : e \in Range(raw.entries)}

Get(c) == CHOOSE e \in Range(raw.entries) : e.id = c

PropsOf(c) == ModeProps[Get(c).mode]

(* The places of c's children in the file. *)
Kids(c) == {i \in DOMAIN raw.entries : raw.entries[i].id # raw.root /\ raw.entries[i].parent = c}

(* child_ids is filled in file order by _wire_children. *)
ChildIds(c) ==
    LET Nth(n) == CHOOSE i \in Kids(c) : Cardinality({j \in Kids(c) : j < i}) = n - 1
    IN  [n \in 1 .. Cardinality(Kids(c)) |-> raw.entries[Nth(n)].id]

Children(c) == Range(ChildIds(c))

OrdinaryIntents(c) == IF Get(c).ordinary THEN << <<c, "ordinary">> >> ELSE <<>>
SpecialIntents(c)  == IF Get(c).special  THEN << <<c, "special">> >>  ELSE <<>>

-----------------------------------------------------------------------------
(* Validation, in the loader's order.                                         *)

IdsAreUnique ==
    \A i, j \in DOMAIN raw.entries : raw.entries[i].id = raw.entries[j].id => i = j

RootKnown == raw.root \in Ids

WellParented ==
    \A e \in Range(raw.entries) :
        IF e.id = raw.root THEN e.parent = None ELSE e.parent \in Ids

(* _assert_acyclic sees the root and the children of what it sees: whatever   *)
(* holds these has to hold every category.                                     *)
Reachable ==
    \A seen \in SUBSET Ids :
        raw.root \in seen /\ (\A c \in seen : Children(c) \subseteq seen) => seen = Ids

StructuralRules ==
    \A e \in Range(raw.entries) :
        LET props == ModeProps[e.mode]
        IN  /\ e.ordinary => props.may_hold_ordinary
            /\ e.special => props.may_hold_special
            /\ props.requires_special => e.special
            /\ props.forbids_children => ChildIds(e.id) = <<>>
            /\ props.single_child_chain => Len(ChildIds(e.id)) <= 1

\* Fault: sibling names are not compared.
UniqueNamesPerParent_Fault == TRUE

UniqueNamesPerParent ==
    \A c \in Ids : \A i, j \in DOMAIN ChildIds(c) :
        Get(ChildIds(c)[i]).name = Get(ChildIds(c)[j]).name => i = j

\* Fault: the mode of the extended category is not checked.
ExtendsEnum_Fault == \A e \in Range(raw.entries) : e.extends # None => e.extends \in Ids

ExtendsEnum ==
    \A e \in Range(raw.entries) :
        e.extends # None =>
            /\ e.extends \in Ids
            /\ Get(e.extends).mode = "ENUM"
            /\ e.mode # "ENUM"

Valid == /\ IdsAreUnique
         /\ RootKnown
         /\ WellParented
         /\ Reachable
         /\ StructuralRules
         /\ UniqueNamesPerParent
         /\ ExtendsEnum

-----------------------------------------------------------------------------
(* Paths.  The text of a path is, like a name, the list of the segments that   *)
(* split("->") makes of it.  No separator arises where two names meet, so the  *)
(* segments of the joined text are those of the names, one name after another. *)

Join(names) ==
    LET places == UNION {{i} \X DOMAIN names[i] : i \in DOMAIN names}
        Before(p, q) == p[1] < q[1] \/ (p[1] = q[1] /\ p[2] < q[2])
        Nth(n) == CHOOSE p \in places : Cardinality({q \in places : Before(q, p)}) = n - 1
    IN  [n \in 1 .. Cardinality(places) |-> names[Nth(n)[1]][Nth(n)[2]]]

(* path_of visits up[1], up[2], ... until it has no parent to go to. *)
Climbs(up) ==
    /\ \A i \in 1 .. Len(up) - 1 : up[i + 1] = Get(up[i]).parent
    /\ Get(up[Len(up)]).parent = None

ClimbFrom(c) ==
    CHOOSE up \in UNION {[1 .. n -> Ids] : n \in 1 .. Cardinality(Ids)} : up[1] = c /\ Climbs(up)

PathOf(c) ==
    LET up == ClimbFrom(c)
    IN  Join([i \in 1 .. Len(up) |-> Get(up[Len(up) + 1 - i]).name])

(* resolve_path drops the empty segments ... *)
Blank == ""

Parts(path) ==
    LET full == {i \in DOMAIN path : path[i] # Blank}
        Nth(n) == CHOOSE i \in full : Cardinality({j \in full : j < i}) = n - 1
    IN  [n \in 1 .. Cardinality(full) |-> path[Nth(n)]]

(* ... and goes from the root to the one child whose whole name is next. *)
Matches(c, part) == {k \in Children(c) : Get(k).name = <<part>>}

Trails(parts) ==
    {down \in [1 .. Len(parts) -> Ids] :
        /\ down[1] = raw.root /\ Get(raw.root).name = <<parts[1]>>
        /\ \A i \in 2 .. Len(parts) : Matches(down[i - 1], parts[i]) = {down[i]}}

(* The category a path names, None for ValueError and KeyError. *)
ResolvePath(path) ==
    LET parts == Parts(path)
    IN  IF parts = <<>> \/ Trails(parts) = {} THEN None
        ELSE (CHOOSE down \in Trails(parts) : TRUE)[Len(parts)]

-----------------------------------------------------------------------------
(* The walk.                                                                  *)

Unbounded == None

Calls(cs, budget, depth) ==
    [i \in 1 .. Len(cs) |->
        [cat |-> cs[i], enum |-> FALSE, budget |-> budget, depth |-> depth]]

(* _collect_enum_subtree restarts without a bound, one frame further down. *)
EnumCall(c, depth) ==
    IF Get(c).extends = None THEN <<>>
    ELSE << [cat |-> Get(c).extends, enum |-> TRUE, budget |-> Unbounded, depth |-> depth + 1] >>

(* tree.get's KeyError, _collect_enum_subtree's ValueError, the RecursionError *)
(* of the interpreter.                                                         *)
Raises(call) == \/ call.cat \notin Ids
                \/ call.enum /\ Get(call.cat).mode # "ENUM"
                \/ call.depth > RecursionLimit

\* Fault: an "immediate" search has one level too many.
InitialDepth_Fault(depth) == CASE depth = "immediate" -> 2
                               [] depth = "all"       -> Unbounded
                               [] OTHER               -> 0

InitialDepth(depth) == CASE depth = "immediate" -> 1
                         [] depth = "all"       -> Unbounded
                         [] OTHER               -> 0

NextBudget(budget) == IF budget = Unbounded THEN Unbounded ELSE budget - 1

\* Fault: the bound is compared one off.
Spent_Fault(budget) == budget # Unbounded /\ budget < 0

Spent(budget) == budget # Unbounded /\ budget <= 0

(* What one call of _collect_via_ancestor_view contributes itself ... *)
Exposed(c) == (IF PropsOf(c).expose_ordinary THEN OrdinaryIntents(c) ELSE <<>>)
              \o (IF PropsOf(c).expose_special THEN SpecialIntents(c) ELSE <<>>)

(* ... and the calls it makes. *)
Descend(call) ==
    LET c == call.cat
        props == PropsOf(c)
    IN  (IF props.allow_penetration /\ ~Spent(NextBudget(call.budget))
         THEN Calls(ChildIds(c), NextBudget(call.budget), call.depth + 1)
         ELSE <<>>)
        \o (IF props.expose_ordinary \/ props.expose_special
            THEN EnumCall(c, call.depth + 1)
            ELSE <<>>)

-----------------------------------------------------------------------------
Init == /\ \E family \in RawScenes : raw \in family
        /\ phase = "file"
        /\ scene = None
        /\ todo = <<>>
        /\ pool = <<>>

(* load_scene: all rules, or SceneValidationError. *)
Load == /\ phase = "file"
        /\ phase' = IF Valid THEN "ready" ELSE "rejected"
        /\ UNCHANGED <<raw, scene, todo, pool>>

(* scope(tree, scene_id) up to its first call; an ENUM scene is a ValueError. *)
Scope(c) ==
    /\ phase = "ready"
    /\ scene' = c
    /\ IF Get(c).mode = "ENUM"
       THEN phase' = "raised" /\ UNCHANGED <<todo, pool>>
       ELSE /\ phase' = "collecting"
            /\ pool' = OrdinaryIntents(c)
            /\ todo' = (IF PropsOf(c).searches_down
                        THEN Calls(ChildIds(c), InitialDepth(PropsOf(c).search_depth), 1)
                        ELSE <<>>)
                       \o EnumCall(c, 1)
    /\ UNCHANGED raw

(* One frame of _collect_via_ancestor_view. *)
Collect ==
    /\ phase = "collecting"
    /\ todo # <<>>
    /\ LET call == Head(todo)
       IN  \/ Raises(call) /\ phase' = "raised" /\ UNCHANGED <<todo, pool>>
           \/ /\ ~Raises(call) /\ Spent(call.budget)
              /\ todo' = Tail(todo) /\ UNCHANGED <<phase, pool>>
           \/ /\ ~Raises(call) /\ ~Spent(call.budget)
              /\ todo' = Descend(call) \o Tail(todo)
              /\ pool' = pool \o Exposed(call.cat)
              /\ UNCHANGED phase
    /\ UNCHANGED <<raw, scene>>

(* scope() returns its candidates. *)
Return ==
    /\ phase = "collecting"
    /\ todo = <<>>
    /\ phase' = "done"
    /\ UNCHANGED <<raw, scene, todo, pool>>

Next == \/ Load
        \/ \E c \in Ids : Scope(c)
        \/ Collect
        \/ Return

Spec == Init /\ [][Next]_vars

-----------------------------------------------------------------------------
(* What the scene tree promises.                                              *)

Budget == {Unbounded, 1}

(* Types; in particular no call is ever made with a spent budget, so the       *)
(* check at the top of _collect_via_ancestor_view never fires.                 *)
TypeOK ==
    /\ phase \in {"file", "rejected", "ready", "collecting", "done", "raised"}
    /\ scene \in Ids \cup {None}
    /\ \A call \in Range(todo) : call.budget \in Budget /\ call.depth \in Nat
    /\ Range(pool) \subseteq Ids \X {"ordinary", "special"}

Exposes(c) == PropsOf(c).expose_ordinary \/ PropsOf(c).expose_special

Extended(c) == {Get(c).extends} \ {None}

(* What c's answerable surface includes: the children it lets searches        *)
(* through to, and the ENUM it extends if it is exposed.                       *)
Feeds(c) == (IF PropsOf(c).allow_penetration THEN Children(c) ELSE {})
            \cup (IF Exposes(c) THEN Extended(c) ELSE {})

Closed(S) == \A c \in S : Feeds(c) \subseteq S

(* The categories visible from those in S, S included: the least closed set. *)
VisibleFrom(S) == {c \in Ids : \A T \in SUBSET Ids : S \subseteq T /\ Closed(T) => c \in T}

(* The ENUMs that categories of S extend, exposed to an ancestor. *)
Enums(S) == {Get(k).extends : k \in {k \in S : Exposes(k)}} \ {None}

(* The categories scene c searches one by one, and those it searches from. *)
Near(c) == IF PropsOf(c).search_depth = "immediate" THEN Children(c) ELSE {}

Deep(c) == (IF PropsOf(c).search_depth = "all" THEN Children(c) ELSE {})
           \cup Enums(Near(c))
           \cup Extended(c)

(* The categories whose intents scene c may match, by its search depth. *)
Visible(c) == Near(c) \cup VisibleFrom(Deep(c))

(* What the V3 table exposes of the categories in S. *)
ExposedBy(S) ==
    (UNION {Range(OrdinaryIntents(c)) : c \in {c \in S : PropsOf(c).expose_ordinary}})
    \cup (UNION {Range(SpecialIntents(c)) : c \in {c \in S : PropsOf(c).expose_special}})

(* The pool of a scene: its own ordinary intents, not its own special ones,    *)
(* and what is exposed of the other categories it sees.                        *)
V3Pool(c) == Range(OrdinaryIntents(c)) \cup ExposedBy(Visible(c) \ {c})

(* scope() returns exactly the intents the V3 table makes visible from the     *)
(* scene, stated without the walk: reachability through penetrable children    *)
(* and extended ENUMs, cut at one level for an "immediate" scene.  The scene's *)
(* own special intents are not among them.  Where an ENUM above it makes the   *)
(* scene visible to itself, the code may add these, and nothing else.          *)
PoolIsV3 ==
    phase = "done" =>
        /\ Range(pool) \ Range(SpecialIntents(scene)) = V3Pool(scene)
        /\ scene \notin Visible(scene) => Range(pool) = V3Pool(scene)

(* On a tree the loader accepted, of at most half as many categories as the    *)
(* interpreter allows frames, scope() of a category that is not an ENUM raises *)
(* only when an ENUM on its way lies above a category that extends it: the one *)
(* cycle the loader lets through.                                              *)
RaisesOnlyOnEnumLoop ==
    phase = "raised" /\ Get(scene).mode # "ENUM" /\ 2 * Cardinality(Ids) <= RecursionLimit =>
        \E c \in Visible(scene) : Get(c).mode = "ENUM" /\ c \in VisibleFrom(Feeds(c))

(* A name that is one segment of a path. *)
Plain(name) == Len(name) = 1 /\ name[1] # Blank

(* path_of and resolve_path are inverse for exactly the categories they can be *)
(* inverse for: the path of a category resolves back to it if and only if each *)
(* name on it, from the root on, is neither empty nor holds "->".              *)
PathsRoundTrip ==
    phase = "ready" =>
        \A c \in Ids :
            ResolvePath(PathOf(c)) = c <=>
                \A i \in DOMAIN ClimbFrom(c) : Plain(Get(ClimbFrom(c)[i]).name)
=============================================================================
