-------------------------- MODULE MCWeightGenerator --------------------------
(* Weights -10..10 reduced to -2..2; a normal draw may leave the range.     *)
EXTENDS WeightGenerator, TLC

MCUniform == {-2, 1}
MCNormalDraws == {-3, 3}
MCRunInfos == {<<0, 1>>, <<1, 2>>}
FeatureSymmetry == Permutations(Feature)
=============================================================================
