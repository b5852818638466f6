----------------------------- MODULE MCFeatMaker -----------------------------
(* Seconds of two ticks each; three test cases, of which one               *)
(* crashes and has no kquery file.                                          *)
EXTENDS FeatMaker

MCTest == {"t1", "t2", "t3"}
MCBranch == {"b1", "b2", "b3"}
MCLine == {"x", "big", "LargeValue"}
MCBranchesOf == [t1 |-> {"b1", "b2"}, t2 |-> {"b2", "b3"}, t3 |-> {"b3"}]
MCPathOf == [t1 |-> {"x", "big"}, t2 |-> {"x"}, t3 |-> {"big"}]
MCCrashes == {"t3"}
MCNoQuery == {"t3"}
MCAbstractLine == [l \in MCLine |-> IF l = "big" THEN "LargeValue" ELSE l]
MCUniform == {1}
MCNormalDraws == {-3, 3}
=============================================================================
