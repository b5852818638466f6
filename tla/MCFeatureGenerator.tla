------------------------- MODULE MCFeatureGenerator -------------------------
(* Seven tests over six branches: overlapping branch sets on which the      *)
(* greedy cover is not minimal, one within another, a test without a kquery *)
(* file, one with no branch, and one with an empty path condition.          *)
EXTENDS FeatureGenerator

MCTest == {"t1", "t2", "t3", "t4", "t5", "t6", "t7"}
MCBranch == {"b1", "b2", "b3", "b4", "b5", "b6"}
MCLine == {"", "x", "big1", "big2", "LargeValue", "z"}
MCBranchesOf ==
  [t1 |-> {"b1", "b2", "b3"}, t2 |-> {"b1", "b4"}, t3 |-> {"b2", "b5"},
   t4 |-> {"b3", "b6"}, t5 |-> {"b4", "b5"}, t6 |-> {},
   t7 |-> {"b4"}]
MCPathOf ==
  [t1 |-> {"x", "big1"}, t2 |-> {"x"}, t3 |-> {"big2", "z"}, t4 |-> {"z"},
   t5 |-> {"x", "z"}, t6 |-> {"x"}, t7 |-> {""}]
MCNoQuery == {"t5"}
MCAbstractLine ==
  [l \in MCLine |-> IF l \in {"big1", "big2"} THEN "LargeValue" ELSE l]
=============================================================================
