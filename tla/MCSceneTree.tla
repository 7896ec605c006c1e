---------------------------- MODULE MCSceneTree ----------------------------
(* Scene files for TLC, of three categories or four; r is the root.           *)
EXTENDS SceneTree

Three == <<"r", "a", "b">>
Four  == <<"r", "a", "b", "c">>
Cats  == Range(Three)

(* What a category of each mode usually holds. *)
Usual(mode) == [c \in DOMAIN mode |-> [ordinary |-> ModeProps[mode[c]].may_hold_ordinary,
                                       special  |-> ModeProps[mode[c]].may_hold_special]]

File(order, parent, name, mode, extends, holds) ==
    [root |-> "r",
     entries |-> [i \in DOMAIN order |->
         LET c == order[i]
         IN  [id |-> c, parent |-> parent[c], name |-> name[c], mode |-> mode[c],
              extends |-> extends[c],
              ordinary |-> holds[c].ordinary, special |-> holds[c].special]]]

Names    == [r |-> <<"R">>, a |-> <<"A">>, b |-> <<"B">>, c |-> <<"C">>]
NoExtend == [c \in Range(Four) |-> None]
Parents  == {[r |-> None, a |-> p, b |-> q] : p, q \in Cats}
Shapes   == {[r |-> None, a |-> "r", b |-> q] : q \in {"r", "a"}}
Tame     == [Cats -> {"STANDARD", "ENUM"}]

(* Every wiring and every extends_enum_category, with the usual intents. *)
WiredScenes ==
    {File(Three, p, Names, m, e, Usual(m)) :
        p \in Shapes, m \in [Cats -> Modes], e \in [Cats -> Cats \cup {None}]}

(* Four categories in every shape, one of them extending something. *)
DeepScenes ==
    {File(Four, p, Names, m, [NoExtend EXCEPT ![u] = v], Usual(m)) :
        p \in {[r |-> None, a |-> "r", b |-> q, c |-> s] : q \in {"r", "a"}, s \in {"r", "a", "b"}},
        m \in {[r |-> "STANDARD", a |-> x, b |-> y, c |-> z] :
                    x, y, z \in {"STANDARD", "ENUM", "BRANCHING", "MEMORY", "DRILLDOWN"}},
        u \in Range(Four), v \in {"a", "b", None}}

(* Every choice of intents, extending nothing. *)
FilledScenes ==
    {File(Three, p, Names, m, NoExtend, h) :
        p \in Shapes, m \in [Cats -> Modes \ {"MEMORY"}],
        h \in [Cats -> [ordinary : BOOLEAN, special : BOOLEAN]]}

(* Broken files: cycles, orphans, unknown parents, roots and targets, and      *)
(* duplicate names.                                                            *)
BrokenScenes ==
    {[File(Three, p, n, m, e, Usual(m)) EXCEPT !.root = root] :
        p \in Parents \cup {[r |-> "a", a |-> "r", b |-> "a"],
                            [r |-> None, a |-> None, b |-> "r"],
                            [r |-> None, a |-> "x", b |-> "r"]},
        n \in {Names, [Names EXCEPT !.b = <<"A">>], [Names EXCEPT !.a = <<"R">>, !.b = <<"R">>]},
        e \in {NoExtend, [c \in Cats |-> "x"]},
        root \in {"r", "a", "x"},
        m \in Tame}

(* Files that give a category twice. *)
RepeatedScenes ==
    {File(<<"r", "a", u>>, p, Names, m, NoExtend, Usual(m)) :
        u \in {"r", "a"}, p \in Shapes, m \in Tame}

(* Names that are empty, or hold "->" and then segments of other names. *)
NamedScenes ==
    {File(Four, p, n, [c \in Range(Four) |-> "STANDARD"], NoExtend,
          [c \in Range(Four) |-> [ordinary |-> TRUE, special |-> FALSE]]) :
        p \in {[r |-> None, a |-> "r", b |-> q, c |-> s] : q \in {"r", "a"}, s \in {"r", "a", "b"}},
        n \in [Range(Four) -> {<<"A">>, <<"B">>, <<"">>, <<"A", "B">>, <<"", "A">>}]}

Scenes == {NamedScenes, WiredScenes, DeepScenes, FilledScenes, BrokenScenes, RepeatedScenes}
=============================================================================
