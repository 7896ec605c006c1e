--------------------------- MODULE MCOrchestrator ---------------------------
(* Two scenes for TLC.  "bank" has a root with two candidates, one of which    *)
(* leads to the leaf; the leaf repeats an intent id, the first time without a  *)
(* question, the second time with a follow_up that names no segment.  The one  *)
(* candidate of "shop" has a follow_up that leads nowhere in its tree.         *)
EXTENDS Orchestrator, TLC

Scenes == {"bank", "shop"}
Names  == [bank |-> "B", shop |-> "S"]
Roots  == [bank |-> "b0", shop |-> "s0"]
Trees  == [bank |-> {"b0", "b1", "be"}, shop |-> {"s0"}]
Enums  == {"be"}

To(c) == [to |-> c, empty |-> FALSE]
Item(i, asked, follow_up) == [id |-> i, asked |-> asked, follow_up |-> follow_up]

Pools == [b0 |-> << Item(1, TRUE, None), Item(2, TRUE, To("b1")) >>,
          b1 |-> << Item(3, FALSE, None), Item(3, TRUE, [to |-> None, empty |-> TRUE]) >>,
          s0 |-> << Item(4, TRUE, To("b1")) >>]

Weight == [bank |-> [a |-> 2, b |-> 3], shop |-> [a |-> 1, b |-> 0]]

Path(root, at) == [root |-> root, at |-> at]
Req(scene, path, audio, n) == [scene |-> scene, path |-> path, audio |-> audio, n_best |-> n]

Reqs == {Req("bank", None, TRUE, 1), Req(None, Path("B", "b0"), TRUE, 2),
         Req("shop", Path("B", "b1"), FALSE, 1), Req("shop", None, FALSE, 1),
         Req("bank", Path("B", "be"), FALSE, 1),
         Req(None, None, FALSE, 1), Req("nowhere", None, FALSE, 1),
         Req("bank", Path("B", None), FALSE, 1), Req(None, Path("X", "b0"), FALSE, 1),
         Req(None, Path(None, None), FALSE, 1)}

Answers == {None, [id |-> 2, conf |-> 1], [id |-> 2, conf |-> 0], [id |-> 9, conf |-> 1]}

File(large, garbled, silent, fails) ==
    [large |-> large, garbled |-> garbled, silent |-> silent, fails |-> fails]

MCUploads == {File(FALSE, FALSE, FALSE, FALSE), File(TRUE, TRUE, FALSE, FALSE),
              File(FALSE, TRUE, TRUE, FALSE), File(FALSE, FALSE, TRUE, TRUE),
              File(FALSE, FALSE, FALSE, TRUE)}

Symmetry == Permutations(Worker)
=============================================================================
