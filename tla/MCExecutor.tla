----------------------------- MODULE MCExecutor -----------------------------
(* Executor for TLC: two conditions, of which three literals are features. *)
EXTENDS Executor

CONSTANTS c1, c2

MCCond == {c1, c2}
MCFeatures == {<<c1, TRUE>>, <<c1, FALSE>>, <<c2, TRUE>>}
MCWeight == [l \in MCFeatures |-> IF l = <<c1, TRUE>> THEN 3
                                  ELSE IF l = <<c1, FALSE>> THEN -2 ELSE 1]
MCTopScoreInit == -100000000
=============================================================================
