--------------------------- MODULE WeightGenerator ---------------------------
(***************************************************************************)
(* weight_generator.py: how the weight vectors of an iteration are learned *)
(* from the runs of the previous one, and how the feature file and the     *)
(* weight files that KLEE reads are written.                               *)
(*                                                                         *)
(* The sampled reals are reduced to a few integers: what matters is which  *)
(* distribution a row is drawn from, its bounds, and which row and column  *)
(* of the old matrix it was learned from.                                  *)
(***************************************************************************)
EXTENDS Integers, Sequences, SequencesExt, FiniteSetsExt

CONSTANTS
  NScores,        \* score functions per iteration: columns of the matrix
  KValue,         \* clusters of KMeans (3 in the code)
  MaxWeight,      \* bound of the weights (10 in the code)
  Uniform,        \* what np.random.uniform can draw
  NormalDraws     \* what np.random.normal can draw when the values vary

Widx == 0 .. NScores - 1

ASSUME WeightGeneratorAssumption ==
  /\ NScores \in Nat \ {0} /\ KValue \in Nat /\ MaxWeight \in Nat
  /\ Uniform \subseteq -MaxWeight .. MaxWeight
  /\ NormalDraws \subseteq Int

VARIABLES
  mainOption,     \* --main_option, fixed by the command line
  wgIteration,    \* the iteration of the last generate_weight
  wgFailed,       \* generate_weight raised an exception
  featureIdx,     \* feature_idx: the features in the order of their indices
  weights,        \* the matrix of the learning generator: a row per feature, a
                  \* column per score function
  featureFile,    \* features/{iteration}.f, line by line
  weightFile,     \* weight/iteration-{iteration}/{widx}.w, line by line
  lesson          \* history: what the last matrix was learned from

wgVars == <<mainOption, wgIteration, wgFailed, featureIdx, weights, featureFile, weightFile, lesson>>

Abs(x) == IF x < 0 THEN -x ELSE x

\* The two assignments that bring the matrix back to -10..10.
Clip(x) == IF x > MaxWeight THEN MaxWeight ELSE IF x < -MaxWeight THEN -MaxWeight ELSE x

NoLesson == [learned |-> FALSE]

WGInit ==
  /\ mainOption \in {"featmaker", "naive"}
  /\ wgIteration = 0 /\ wgFailed = FALSE
  /\ featureIdx = <<>> /\ weights = <<>>
  /\ featureFile = <<>>
  /\ weightFile = [w \in Widx |-> <<>>]
  /\ lesson = NoLesson

-----------------------------------------------------------------------------
(* Learning.                                                               *)

\* get_scores: both columns of widx_info, each divided by its maximum plus one,
\* added up (multiplied by the two denominators).
GetScores(info) ==
  LET maxNew == Max({info[w][1] : w \in Widx})
      maxAll == Max({info[w][2] : w \in Widx})
  IN [w \in Widx |-> info[w][1] * (maxAll + 1) + info[w][2] * (maxNew + 1)]

\* External: the top and the bottom cluster KMeans can form on the scores.  In
\* one dimension clusters are intervals; equal scores make a single cluster.
KMeansLabels(score) ==
  LET values == {score[w] : w \in Widx}
      limits == {p \in values \X values : p[1] < p[2] \/ Cardinality(values) = 1}
  IN {<<{w \in Widx : score[w] >= p[2]}, {w \in Widx : score[w] <= p[1]}>> : p \in limits}

\* The row of a feature in the matrix.
RowOf(f) == weights[CHOOSE i \in DOMAIN featureIdx : featureIdx[i] = f]

\* The columns of the runs that met a feature and gave it a non-zero weight.
MetColumns(f, enc, runs) == {w \in runs : f \in enc[w] /\ RowOf(f)[w] # 0}

UniformRows == [Widx -> Uniform]

NegatedRows == {[w \in Widx |-> -Abs(r[w])] : r \in UniformRows}

Values(row, columns) == {row[w] : w \in columns}

\* np.random.normal(mean, std): with a single value the deviation is 0.
NormalRows(vals) ==
  IF Cardinality(vals) = 1 THEN {[w \in Widx |-> v] : v \in vals}
                           ELSE [Widx -> NormalDraws]

\* What |tm - bm| + |ts - bs| >= 1 can be: false for the same runs; single
\* values have no deviation, and different integers are at least 1 apart.
\* Otherwise the means and deviations are abstracted away.
Dissimilar(row, top, bot) ==
  IF top = bot THEN {FALSE}
  ELSE IF Cardinality(Values(row, top)) = 1 /\ Cardinality(Values(row, bot)) = 1
       THEN {Values(row, top) # Values(row, bot)}
       ELSE BOOLEAN

\* Mutant: a feature of bottom runs only is learned from like one of top runs.
LearnedRowsSwapped(row, top, bot) ==
  UNION {IF top = {} THEN IF bot = {} THEN UniformRows ELSE NormalRows(Values(row, bot))
         ELSE IF bot = {} THEN NegatedRows
         ELSE IF d THEN NormalRows(Values(row, top)) ELSE UniformRows :
           d \in Dissimilar(row, top, bot)}

\* The rows the learning loop can give a remaining feature, from its old row and
\* the columns of the top and of the bottom runs that met it.
LearnedRows(row, top, bot) ==
  UNION {IF top = {} THEN IF bot = {} THEN UniformRows ELSE NegatedRows
         ELSE IF bot = {} \/ d THEN NormalRows(Values(row, top)) ELSE UniformRows :
           d \in Dissimilar(row, top, bot)}

\* A matrix with a row of rows[f] for each f of the sequence idx.
Matrices(idx, rows) ==
  {m \in [DOMAIN idx -> UNION {rows[f] : f \in ToSet(idx)}] :
     \A i \in DOMAIN idx : m[i] \in rows[idx[i]]}

Clipped(m) == [i \in DOMAIN m |-> [w \in Widx |-> Clip(m[i][w])]]

-----------------------------------------------------------------------------
(* Writing the files.                                                      *)

\* write_weight_file writes column widx - 1 into file widx; numpy takes -1 for
\* the last column.
FileColumn(widx) == (widx - 1) % NScores

\* Mutants: the lines are written in the order of another dictionary; the list
\* is written as one line.
FeatureLinesReversed(idx) == Reverse(idx)
\* write_feature_file: the features in the order of their indices.
FeatureLines(idx) == idx

WeightLines(m, widx) == [i \in DOMAIN m |-> m[i][FileColumn(widx)]]

WriteFiles ==
  /\ featureFile' = FeatureLines(featureIdx')
  /\ weightFile' = [w \in Widx |-> WeightLines(weights', w)]

\* A new feature_idx over F and a uniformly random matrix.
FreshWeights(F) ==
  /\ featureIdx' \in SetToSeqs(F)
  /\ weights' \in Matrices(featureIdx', [f \in F |-> UniformRows])
  /\ lesson' = NoLesson

Learn(F, enc, top, bot) ==
  LET remaining == ToSet(featureIdx) \cap F
      rows == [f \in F |-> IF f \in remaining
                           THEN LearnedRows(RowOf(f), MetColumns(f, enc, top),
                                                         MetColumns(f, enc, bot))
                           ELSE UniformRows]
  IN /\ featureIdx' \in SetToSeqs(F)
     /\ \E m \in Matrices(featureIdx', rows) : weights' = Clipped(m)
     /\ lesson' = [learned |-> TRUE, enc |-> enc, top |-> top, bot |-> bot]

\* learning_weight_generator.generate_weight, given the features of the cover,
\* the features the runs met and the rows of widx_info.
GenerateWeight(F, enc, info) ==
  /\ mainOption = "featmaker" /\ ~wgFailed
  /\ wgIteration' = wgIteration + 1
  /\ \/ /\ wgIteration = 0 \/ ToSet(featureIdx) \cap F = {}
        /\ FreshWeights(F) /\ WriteFiles
        /\ UNCHANGED wgFailed
     \/ /\ wgIteration # 0 /\ ToSet(featureIdx) \cap F # {}
        /\ IF NScores >= KValue
           THEN /\ \E labels \in KMeansLabels(GetScores(info)) :
                     Learn(F, enc, labels[1], labels[2])
                /\ WriteFiles
                /\ UNCHANGED wgFailed
           ELSE \* KMeans.fit raises ValueError, fewer samples than clusters: the
                \* indices and weights are new already, the files are not written
                /\ FreshWeights(F)
                /\ wgFailed' = TRUE
                /\ UNCHANGED <<featureFile, weightFile>>
  /\ UNCHANGED mainOption

\* random_weight_generator.generate_weight: the features of the cover are listed,
\* and every file gets a vector drawn for it alone.  There is no matrix, and so
\* nothing to learn from: "weights" stays empty.
GenerateRandomWeight(F) ==
  /\ mainOption = "naive"
  /\ wgIteration' = wgIteration + 1
  /\ featureIdx' \in SetToSeqs(F)
  /\ featureFile' = featureIdx'
  /\ weightFile' \in [Widx -> [DOMAIN featureIdx' -> Uniform]]
  /\ UNCHANGED <<mainOption, wgFailed, weights, lesson>>

-----------------------------------------------------------------------------
CONSTANTS
  Feature,          \* features that can occur
  RunInfos,         \* rows of widx_info to try
  MaxWgIteration    \* bound on the number of calls

\* The features of an iteration are lines of files.
ASSUME FeatureAssumption == IsFiniteSet(Feature)

\* Only features that have an index can be remaining features, so only they are
\* enumerated among the ones a run met.
WGNext ==
  \/ /\ wgIteration < MaxWgIteration
     /\ \E F \in SUBSET Feature :
          \/ \E enc \in [Widx -> SUBSET ToSet(featureIdx)], info \in [Widx -> RunInfos] :
               GenerateWeight(F, enc, info)
          \/ GenerateRandomWeight(F)
  \/ /\ wgIteration = MaxWgIteration \/ wgFailed
     /\ UNCHANGED wgVars

WGSpec == WGInit /\ [][WGNext]_wgVars

-----------------------------------------------------------------------------
\* AutoFeatureSearcher indexes the weight file by the line number of a feature:
\* no feature is listed twice and every line has its weight in every file, also
\* when a failed call left the files of an earlier iteration behind; the learning
\* generator's weights come from the row of the line's feature
\* (write_feature_file and write_weight_file).
FilesAgree ==
  /\ IsInjective(featureFile)
  /\ \A w \in Widx : Len(weightFile[w]) = Len(featureFile)
  /\ mainOption = "featmaker" /\ ~wgFailed => \A w \in Widx : \A i \in DOMAIN featureFile :
       weightFile[w][i] \in {RowOf(featureFile[i])[v] : v \in Widx}

\* A feature that only runs of the bottom cluster met is never rewarded in the
\* next iteration, by any score function.
BottomFeaturesPenalised ==
  [][ lesson'.learned /\ lesson' # lesson =>
        \A f \in ToSet(featureIdx) \cap ToSet(featureIdx') :
          (/\ MetColumns(f, lesson'.enc, lesson'.top) = {}
           /\ MetColumns(f, lesson'.enc, lesson'.bot) # {})
          => \A w \in Widx : RowOf(f)'[w] <= 0
    ]_wgVars

\* The column that the learning step credits with the coverage of run widx is
\* the weight vector run widx was given (write_weight_file and the learning loop;
\* the random generator of the naive mode credits nobody).
CreditMatchesRun ==
  mainOption = "featmaker" /\ ~wgFailed =>
    \A w \in Widx : \A i \in DOMAIN weights : weightFile[w][i] = weights[i][w]
=============================================================================
