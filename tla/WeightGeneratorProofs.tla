------------------------ MODULE WeightGeneratorProofs ------------------------
(***************************************************************************)
(* Proofs about weight_generator.py: the files that KLEE reads agree line  *)
(* by line, and a feature that only bad runs met is never rewarded, for    *)
(* every set of features, number of score functions and distribution.      *)
(***************************************************************************)
EXTENDS WeightGenerator, TLAPS, FiniteSetTheorems, SequenceTheorems

\* A list of the features of feature_idx: no feature has two indices.
Listing(idx) == \E n \in Nat : DOMAIN idx = 1..n /\ idx = [i \in 1..n |-> idx[i]] /\ IsInjective(idx)

\* What the files are between two calls: of the same call, except after a failed
\* one, which renewed the indices and the matrix only.  The naive mode has no
\* matrix: its files only have the same number of lines.
WGInv ==
  /\ Listing(featureIdx) /\ Listing(featureFile)
  /\ mainOption = "featmaker" => weights = [i \in DOMAIN featureIdx |-> weights[i]]
  /\ \A w \in Widx : weightFile[w] = [i \in DOMAIN featureFile |-> weightFile[w][i]]
  /\ ~wgFailed =>
       /\ featureFile = featureIdx
       /\ mainOption = "featmaker" => \A w \in Widx : weightFile[w] = WeightLines(weights, w)

-----------------------------------------------------------------------------
\* File widx takes one of the columns of the matrix: -1 is the last one.
LEMMA FileColumnInMatrix == ASSUME NEW w \in Widx PROVE FileColumn(w) \in Widx
  BY WeightGeneratorAssumption DEF Widx, FileColumn

\* list(features) lists every feature of the set once.
LEMMA SetToSeqsListing ==
  ASSUME NEW F \in SUBSET Feature, NEW idx \in SetToSeqs(F)
  PROVE  Listing(idx) /\ \A i \in DOMAIN idx : idx[i] \in F
  <1>1. Cardinality(F) \in Nat
    BY FeatureAssumption, FS_Subset, FS_CardinalityType
  <1>2. idx \in [1..Cardinality(F) -> F] /\ \A i, j \in 1..Cardinality(F) : i # j => idx[i] # idx[j]
    BY DEF SetToSeqs
  <1>3. QED
    BY <1>1, <1>2 DEF Listing, IsInjective

\* The number of lines of a listing, and of a file with a line for each.
LEMMA ListingLength ==
  ASSUME NEW idx, Listing(idx), NEW s, s = [i \in DOMAIN idx |-> s[i]]
  PROVE  Len(s) = Len(idx)
  <1>1. PICK n \in Nat : DOMAIN idx = 1..n /\ idx = [i \in 1..n |-> idx[i]]
    BY DEF Listing
  <1>2. \A t : t = [i \in 1..n |-> t[i]] => Len(t) = n
    <2>1. SUFFICES ASSUME NEW t, t = [i \in 1..n |-> t[i]] PROVE Len(t) = n
      OBVIOUS
    <2>2. t \in [1..n -> {t[i] : i \in 1..n}]
      BY <2>1
    <2>3. t \in Seq({t[i] : i \in 1..n}) /\ DOMAIN t = 1..n
      BY <2>2, SeqDef
    <2>4. QED
      BY <2>3, LenProperties
  <1>3. QED
    BY <1>1, <1>2

\* The row found for a listed feature is the one at its index.
LEMMA RowOfListed ==
  ASSUME Listing(featureIdx), NEW i \in DOMAIN featureIdx
  PROVE  RowOf(featureIdx[i]) = weights[i]
  <1>1. (CHOOSE j \in DOMAIN featureIdx : featureIdx[j] = featureIdx[i]) = i
    BY DEF Listing, IsInjective
  <1>2. QED
    BY <1>1 DEF RowOf

\* What every call does to the indices and the matrix, learned or drawn afresh.
LEMMA Renewal ==
  ASSUME NEW F \in SUBSET Feature,
         FreshWeights(F) \/ (\E enc, top, bot : Learn(F, enc, top, bot))
  PROVE  Listing(featureIdx') /\ weights' = [i \in DOMAIN featureIdx' |-> weights'[i]]
  <1>1. featureIdx' \in SetToSeqs(F)
    BY DEF FreshWeights, Learn
  <1>2. CASE FreshWeights(F)
    BY <1>1, <1>2, SetToSeqsListing DEF FreshWeights, Matrices
  <1>3. ASSUME NEW enc, NEW top, NEW bot, Learn(F, enc, top, bot)
        PROVE  weights' = [i \in DOMAIN featureIdx' |-> weights'[i]]
    <2>1. PICK m : DOMAIN m = DOMAIN featureIdx' /\ weights' = Clipped(m)
      BY <1>3 DEF Learn, Matrices
    <2>2. QED
      BY <2>1 DEF Clipped
  <1>4. QED
    BY <1>1, <1>2, <1>3, SetToSeqsListing

\* After the files are written they are of the new indices and matrix.
LEMMA WrittenFiles ==
  ASSUME Listing(featureIdx'), weights' = [i \in DOMAIN featureIdx' |-> weights'[i]], WriteFiles
  PROVE  WGInv'
  <1>1. featureFile' = featureIdx' /\ weightFile' = [w \in Widx |-> WeightLines(weights', w)]
    BY DEF WriteFiles, FeatureLines
  <1>2. \A w \in Widx : weightFile'[w] = WeightLines(weights', w)
    BY <1>1
  <1>3. DOMAIN weights' = DOMAIN featureIdx'
    OBVIOUS
  <1>4. \A w \in Widx : weightFile'[w] = [i \in DOMAIN featureFile' |-> weightFile'[w][i]]
    BY <1>1, <1>2, <1>3 DEF WeightLines
  <1>5. QED
    BY <1>1, <1>2, <1>4 DEF WGInv, WeightLines, FileColumn, Widx

\* The naive mode writes a vector of its own into every file.
LEMMA RandomFiles ==
  ASSUME WGInv, NEW F \in SUBSET Feature, GenerateRandomWeight(F)
  PROVE  WGInv'
  <1>1. /\ mainOption' = "naive" /\ featureFile' = featureIdx' /\ featureIdx' \in SetToSeqs(F)
        /\ weightFile' \in [Widx -> [DOMAIN featureIdx' -> Uniform]]
    BY DEF GenerateRandomWeight
  <1>2. Listing(featureIdx')
    BY <1>1, SetToSeqsListing
  <1>3. \A w \in Widx : weightFile'[w] = [i \in DOMAIN featureFile' |-> weightFile'[w][i]]
    BY <1>1
  <1>4. QED
    BY <1>1, <1>2, <1>3 DEF WGInv

\* A call that learns or draws weights keeps the invariant, also when KMeans
\* raises its exception between the matrix and the files.
LEMMA GenerateKeepsFiles ==
  ASSUME WGInv, NEW F \in SUBSET Feature,
         (\E enc, info : GenerateWeight(F, enc, info)) \/ GenerateRandomWeight(F)
  PROVE  WGInv'
  <1>1. CASE GenerateRandomWeight(F)
    BY <1>1, RandomFiles
  <1>2. ASSUME NEW enc, NEW info, GenerateWeight(F, enc, info) PROVE WGInv'
    <2>1. \/ /\ FreshWeights(F) \/ (\E e, top, bot : Learn(F, e, top, bot))
             /\ WriteFiles
          \/ FreshWeights(F) /\ wgFailed' = TRUE /\ UNCHANGED <<featureFile, weightFile>>
      BY <1>2 DEF GenerateWeight
    <2>2. Listing(featureIdx') /\ weights' = [i \in DOMAIN featureIdx' |-> weights'[i]]
      BY <2>1, Renewal
    <2>3. CASE WriteFiles
      BY <2>2, <2>3, WrittenFiles
    <2>4. CASE wgFailed' = TRUE /\ UNCHANGED <<featureFile, weightFile>>
      BY <2>2, <2>4 DEF WGInv, Listing
    <2>5. QED
      BY <2>1, <2>3, <2>4
  <1>3. QED
    BY <1>1, <1>2

\* Before the first call the files are empty.
LEMMA InitWGInv == WGInit => WGInv
  <1>1. SUFFICES ASSUME WGInit PROVE WGInv
    OBVIOUS
  <1>2. Listing(<<>>)
    <2>1. DOMAIN <<>> = 1..0 /\ <<>> = [i \in 1..0 |-> <<>>[i]]
      OBVIOUS
    <2>2. QED
      BY <2>1 DEF Listing, IsInjective
  <1>3. /\ featureIdx = <<>> /\ featureFile = <<>> /\ weights = <<>>
        /\ \A w \in Widx : weightFile[w] = <<>>
    BY <1>1 DEF WGInit
  <1>4. \A w \in Widx : WeightLines(<<>>, w) = <<>>
    BY DEF WeightLines
  <1>5. QED
    BY <1>2, <1>3, <1>4 DEF WGInv

\* Between two calls the files stay as they are.
LEMMA IdleKeepsFiles == WGInv /\ UNCHANGED wgVars => WGInv'
  <1>1. SUFFICES ASSUME WGInv, UNCHANGED wgVars PROVE WGInv'
    OBVIOUS
  <1>2. /\ mainOption' = mainOption /\ wgFailed' = wgFailed /\ featureIdx' = featureIdx
        /\ weights' = weights /\ featureFile' = featureFile /\ weightFile' = weightFile
    BY <1>1 DEF wgVars
  <1>3. Listing(featureIdx') /\ Listing(featureFile')
    BY <1>1, <1>2 DEF WGInv
  <1>4. QED
    BY <1>1, <1>2, <1>3 DEF WGInv

\* Every step keeps the invariant.
LEMMA WGInvInductive == WGInv /\ [WGNext]_wgVars => WGInv'
  <1>1. ASSUME WGInv, NEW F \in SUBSET Feature, NEW enc, NEW info,
               GenerateWeight(F, enc, info) \/ GenerateRandomWeight(F)
        PROVE  WGInv'
    BY <1>1, GenerateKeepsFiles
  <1>2. QED
    BY <1>1, IdleKeepsFiles DEF WGNext

\* The invariant says that the files agree.
LEMMA InvFilesAgree == WGInv => FilesAgree
  <1>1. SUFFICES ASSUME WGInv PROVE FilesAgree
    OBVIOUS
  <1>2. IsInjective(featureFile)
    BY <1>1 DEF WGInv, Listing
  <1>3. \A w \in Widx : Len(weightFile[w]) = Len(featureFile)
    BY <1>1, ListingLength DEF WGInv
  <1>4. ASSUME mainOption = "featmaker", ~wgFailed, NEW w \in Widx, NEW i \in DOMAIN featureFile
        PROVE  weightFile[w][i] \in {RowOf(featureFile[i])[v] : v \in Widx}
    <2>1. featureFile = featureIdx /\ weightFile[w] = WeightLines(weights, w)
          /\ DOMAIN weights = DOMAIN featureIdx /\ Listing(featureIdx)
      BY <1>1, <1>4 DEF WGInv
    <2>2. weightFile[w][i] = weights[i][FileColumn(w)]
      BY <2>1 DEF WeightLines
    <2>3. RowOf(featureFile[i]) = weights[i]
      BY <2>1, RowOfListed
    <2>4. QED
      BY <2>2, <2>3, FileColumnInMatrix
  <1>5. QED
    BY <1>2, <1>3, <1>4 DEF FilesAgree

\* The feature file lists no feature twice, every weight file has a line for each
\* of its lines, and a learned weight there comes from that feature's row.
THEOREM WeightFilesAgree == WGSpec => []FilesAgree
  BY InvFilesAgree, InitWGInv, WGInvInductive, PTL DEF WGSpec

-----------------------------------------------------------------------------
\* A row of negated absolute values stays without reward when it is brought back
\* to the range of the weights.
LEMMA NegatedRowsPenalise ==
  ASSUME NEW r \in NegatedRows, NEW w \in Widx
  PROVE  Clip(r[w]) <= 0
  <1>1. PICK u \in UniformRows : r = [v \in Widx |-> -Abs(u[v])]
    BY DEF NegatedRows
  <1>2. u[w] \in Int
    <2>1. u[w] \in Uniform
      BY DEF UniformRows
    <2>2. Uniform \subseteq -MaxWeight .. MaxWeight /\ MaxWeight \in Nat
      BY WeightGeneratorAssumption
    <2>3. u[w] \in -MaxWeight .. MaxWeight
      BY <2>1, <2>2
    <2>4. QED
      BY <2>2, <2>3
  <1>3. PICK x \in Int : x = u[w]
    BY <1>2
  <1>4. r[w] = -Abs(x)
    BY <1>1, <1>3
  <1>5. MaxWeight \in Nat
    BY WeightGeneratorAssumption
  <1>6. Clip(-Abs(x)) <= 0
    BY <1>5 DEF Clip, Abs
  <1>7. QED
    BY <1>4, <1>6

\* The learning loop draws the row of a feature met by bottom runs only from the
\* negated rows, whatever the comparison of the two clusters gives.
LEMMA BottomRowsNegated ==
  ASSUME NEW row, NEW bot, bot # {}, NEW r \in LearnedRows(row, {}, bot)
  PROVE  r \in NegatedRows
  BY DEF LearnedRows

\* A call that learns leaves no reward for a feature met by bottom runs only.
LEMMA LearnPenalises ==
  ASSUME NEW F \in SUBSET Feature, NEW enc, NEW top, NEW bot, Learn(F, enc, top, bot),
         NEW f \in ToSet(featureIdx) \cap ToSet(featureIdx'),
         MetColumns(f, enc, top) = {}, MetColumns(f, enc, bot) # {}, NEW w \in Widx
  PROVE  RowOf(f)'[w] <= 0
  <1> DEFINE remaining == ToSet(featureIdx) \cap F
             rows == [g \in F |-> IF g \in remaining
                                  THEN LearnedRows(RowOf(g), MetColumns(g, enc, top),
                                                                MetColumns(g, enc, bot))
                                  ELSE UniformRows]
  <1>1. featureIdx' \in SetToSeqs(F) /\ \E m \in Matrices(featureIdx', rows) : weights' = Clipped(m)
    BY DEF Learn
  <1>2. PICK m \in Matrices(featureIdx', rows) : weights' = Clipped(m)
    BY <1>1
  <1>3. Listing(featureIdx') /\ \A i \in DOMAIN featureIdx' : featureIdx'[i] \in F
    BY <1>1, SetToSeqsListing
  <1>4. PICK i \in DOMAIN featureIdx' : featureIdx'[i] = f
    BY DEF ToSet
  <1>5. f \in remaining
    BY <1>3, <1>4
  <1>6. rows[f] = LearnedRows(RowOf(f), {}, MetColumns(f, enc, bot))
    BY <1>5
  <1> HIDE DEF rows
  <1>7. m[i] \in rows[f] /\ i \in DOMAIN m
    BY <1>2, <1>4 DEF Matrices
  <1>8. m[i] \in NegatedRows
    BY <1>6, <1>7, BottomRowsNegated
  <1>9. weights'[i][w] = Clip(m[i][w])
    BY <1>2, <1>7 DEF Clipped
  <1>10. (CHOOSE j \in DOMAIN featureIdx' : featureIdx'[j] = f) = i
    BY <1>3, <1>4 DEF Listing, IsInjective
  <1>11. RowOf(f)' = weights'[i]
    BY <1>10 DEF RowOf
  <1>12. QED
    BY <1>8, <1>9, <1>11, NegatedRowsPenalise

\* What a step may never do: reward a feature that only runs of the bottom
\* cluster met.
Penalises ==
  lesson'.learned /\ lesson' # lesson =>
    \A f \in ToSet(featureIdx) \cap ToSet(featureIdx') :
      (/\ MetColumns(f, lesson'.enc, lesson'.top) = {}
       /\ MetColumns(f, lesson'.enc, lesson'.bot) # {})
      => \A w \in Widx : RowOf(f)'[w] <= 0

\* No call of generate_weight does, whether it learns or draws afresh.
LEMMA GeneratePenalises ==
  ASSUME NEW F \in SUBSET Feature, NEW enc, NEW info,
         GenerateWeight(F, enc, info) \/ GenerateRandomWeight(F)
  PROVE  Penalises
  <1>1. ASSUME NEW top, NEW bot, Learn(F, enc, top, bot)
        PROVE  Penalises
    <2>1. lesson'.enc = enc /\ lesson'.top = top /\ lesson'.bot = bot
      BY <1>1 DEF Learn
    <2>2. QED
      BY <1>1, <2>1, LearnPenalises DEF Penalises
  <1>2. ASSUME FreshWeights(F) PROVE Penalises
    <2>1. lesson'.learned = FALSE
      BY <1>2 DEF FreshWeights, NoLesson
    <2>2. QED
      BY <2>1 DEF Penalises
  <1>3. ASSUME GenerateRandomWeight(F) PROVE Penalises
    BY <1>3 DEF GenerateRandomWeight, Penalises
  <1>4. QED
    BY <1>1, <1>2, <1>3 DEF GenerateWeight

\* No step rewards a feature that only runs of the bottom cluster met.
THEOREM BottomPenalised == WGSpec => BottomFeaturesPenalised
  <1>1. [WGNext]_wgVars => [Penalises]_wgVars
    BY GeneratePenalises DEF WGNext
  <1>2. QED
    BY <1>1, PTL DEF WGSpec, BottomFeaturesPenalised, Penalises
=============================================================================
