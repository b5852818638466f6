-------------------------- MODULE FeatureGenerator --------------------------
(***************************************************************************)
(* feature_generator.py: how the replayed test cases of an iteration are   *)
(* clustered by branch set, how the greedy set cover picks the clusters,   *)
(* and how their path conditions become the features of the next iteration.*)
(*                                                                         *)
(* The lists "unique branchset" and "unique pc" hold no duplicates, so an  *)
(* index stands for its element: a cluster is keyed by its branch set and  *)
(* holds path conditions.  A path condition is the set of its lines.       *)
(***************************************************************************)
EXTENDS Integers, Sequences, FiniteSets, FiniteSetsExt

CONSTANTS
  NScores,      \* --n_scores: score functions, and KLEE runs, per iteration
  Test,         \* test cases KLEE can produce
  Branch,       \* branches of the program under test
  Line,         \* lines of path conditions
  PathOf,       \* the lines get_pc takes from a test's kquery file: one of an
                \* empty path condition, the empty line
  NoQuery,      \* tests without a kquery file
  AbstractLine  \* abstract_condition on one line: long numbers to LargeValue

Widx == 0 .. NScores - 1

ASSUME FeatureGeneratorAssumption ==
  /\ NScores \in Nat \ {0}
  /\ IsFiniteSet(Branch) /\ IsFiniteSet(Test)
  /\ PathOf \in [Test -> (SUBSET Line) \ {{}}]
  /\ NoQuery \subseteq Test
  /\ AbstractLine \in [Line -> Line]

VARIABLES
  mainOption,   \* --main_option, fixed by the command line
  round,        \* the iteration of the last call of collect
  fgPhase,      \* "idle", "collected", "cover", "extracted" or "failed"
  clusters,     \* data["unique branchset"] and data["bsidx_clusters"]
  branches,     \* data["branches"]
  preCovered,   \* data["pre_covered"]
  plotData,     \* data["plot data"]
  widxInfo,     \* data["widx_info"]: new and all branches of every run
  widxPcs,      \* data["widx_pcidxes"]: path conditions every run met
  localBs,      \* cluster_setcover: the branches covered so far
  minset,       \* cluster_setcover: the chosen branch sets
  features      \* data["features"]

coverVars == <<localBs, minset>>
dataVars  == <<clusters, branches, preCovered, plotData, widxInfo, widxPcs>>
fgVars    == <<mainOption, round, fgPhase, dataVars, coverVars, features>>

\* get_pc: no lines if the kquery file is missing.
GetPc(t) == IF t \in NoQuery THEN {} ELSE PathOf[t]

\* What a cluster lists for a test: its path condition, or in the naive mode the
\* ktest file itself.
Member(t) == IF mainOption = "naive" THEN t ELSE GetPc(t)

Abstracted(lines) == {AbstractLine[l] : l \in lines}

FGInit ==
  /\ mainOption \in {"featmaker", "naive"}
  /\ round = 0 /\ fgPhase = "idle"
  /\ clusters = [bs \in {} |-> {}]
  /\ branches = {} /\ preCovered = {} /\ plotData = <<>>
  /\ widxInfo = [w \in Widx |-> <<0, 0>>]
  /\ widxPcs = [w \in Widx |-> {}]
  /\ localBs = {} /\ minset = {} /\ features = {}

-----------------------------------------------------------------------------
\* The tests of a run's pickle that collect looks at: the featmaker mode skips a
\* test without a path condition.
Counted(result) ==
  IF mainOption = "naive" THEN DOMAIN result ELSE {t \in DOMAIN result : GetPc(t) # {}}

\* trial_branches of collect_featmaker, tmp_covered_set of collect_naive.
TrialBranches(result) == UNION {result[t] : t \in Counted(result)}

\* The branch sets, and the path conditions with branch set bs, of the runs W.
BranchSets(pkl, W) == UNION {{pkl[w][t] : t \in Counted(pkl[w])} : w \in W}
MembersOf(bs, pkl, W) ==
  UNION {{Member(t) : t \in {u \in Counted(pkl[w]) : pkl[w][u] = bs}} : w \in W}

\* Mutant: only the first run's tests are clustered.
MergeClustersFirstRun(old, pkl) ==
  [bs \in DOMAIN old \cup BranchSets(pkl, {0}) |->
     (IF bs \in DOMAIN old THEN old[bs] ELSE {}) \cup MembersOf(bs, pkl, {0})]

\* "unique branchset" and "bsidx_clusters" after the tests of every run.
MergeClusters(old, pkl) ==
  [bs \in DOMAIN old \cup BranchSets(pkl, Widx) |->
     (IF bs \in DOMAIN old THEN old[bs] ELSE {}) \cup MembersOf(bs, pkl, Widx)]

\* Mutant: the branches of this iteration replace the accumulated ones.
AccumulatedReplaced(old, now) == now

\* data["branches"] |= tmp_covered_set.
Accumulated(old, now) == old \cup now

\* What "plot data" is extended by.
PlotPoint(total, now) == Cardinality(total)

\* A row of widx_info.
RunInfo(trial, pre) == <<Cardinality(trial \ pre), Cardinality(trial)>>

\* collect(iteration) on the pickled dictionaries, from test cases to the branches
\* they cover; the driver calls it for iterations 1, 2, ...  The first call starts from nothing.
Collect(pkl) ==
  LET iteration == round + 1
      fresh == iteration <= 1
      pre   == IF fresh THEN {} ELSE preCovered
      trial == [w \in Widx |-> TrialBranches(pkl[w])]
      now   == UNION {trial[w] : w \in Widx}
      total == Accumulated(IF fresh THEN {} ELSE branches, now)
  IN /\ fgPhase \in {"idle", "extracted"}
     /\ clusters' = MergeClusters(IF fresh THEN [bs \in {} |-> {}] ELSE clusters, pkl)
     /\ branches' = total
     /\ plotData' = Append(IF fresh THEN <<>> ELSE plotData, PlotPoint(total, now))
     /\ IF mainOption = "naive"
        THEN UNCHANGED <<preCovered, widxInfo, widxPcs>>
        ELSE /\ preCovered' = now
             /\ widxInfo' = [w \in Widx |-> IF iteration = 1 THEN <<0, 0>>
                  ELSE RunInfo(trial[w], pre)]
             /\ widxPcs' = [w \in Widx |-> {GetPc(t) : t \in Counted(pkl[w])}]
     /\ round' = iteration
     /\ fgPhase' = "collected"
     /\ UNCHANGED <<mainOption, coverVars, features>>

-----------------------------------------------------------------------------
\* cluster_setcover, up to its loop.
StartCover ==
  /\ fgPhase = "collected" /\ mainOption = "featmaker"
  /\ localBs' = {} /\ minset' = {}
  /\ fgPhase' = "cover"
  /\ UNCHANGED <<mainOption, round, dataVars, features>>

NewBranches(bs) == Cardinality(bs \ localBs)

\* Mutant: the columns already covered are not cleared.
BestClustersStatic ==
  {bs \in DOMAIN clusters : \A other \in DOMAIN clusters :
     Cardinality(other) <= Cardinality(bs)}

\* Mutant: the clusters with the fewest branches not covered yet.
BestClustersFewest ==
  LET useful == {bs \in DOMAIN clusters : NewBranches(bs) > 0}
  IN {bs \in useful : \A other \in useful : NewBranches(bs) <= NewBranches(other)}

\* The clusters with the most branches not covered yet, and of these the
\* largest; the code takes the one with the lowest index.
BestClusters ==
  LET most == {bs \in DOMAIN clusters :
                 \A other \in DOMAIN clusters : NewBranches(other) <= NewBranches(bs)}
  IN {bs \in most : \A other \in most : Cardinality(other) <= Cardinality(bs)}

\* One turn of the loop of cluster_setcover.
CoverStep ==
  /\ fgPhase = "cover"
  /\ Cardinality(localBs) < Cardinality(branches)
  /\ \E bs \in BestClusters : /\ minset' = minset \cup {bs}
                              /\ localBs' = localBs \cup bs
  /\ UNCHANGED <<mainOption, round, fgPhase, dataVars, features>>

\* Mutant: the loop stops one branch early.
CoverDoneEarly == Cardinality(localBs) + 1 >= Cardinality(branches)

CoverDone == Cardinality(localBs) >= Cardinality(branches)

\* extract_feature after the cover: the abstracted lines of all path conditions
\* of the chosen clusters.
ExtractFeature ==
  /\ fgPhase = "cover" /\ CoverDone
  /\ features' = UNION {Abstracted(pc) : pc \in UNION {clusters[bs] : bs \in minset}}
  /\ fgPhase' = "extracted"
  /\ UNCHANGED <<mainOption, round, dataVars, coverVars>>

\* get_pc_naive on files that exist.
NaiveLines(tests) == UNION {PathOf[t] : t \in tests}

\* extract_feature of the naive mode: the lines, as they are, of every test seen
\* so far.  get_pc_naive raises an exception if a kquery file is missing.
ExtractNaive ==
  LET tests == UNION {clusters[bs] : bs \in DOMAIN clusters}
  IN /\ fgPhase = "collected" /\ mainOption = "naive"
     /\ IF tests \cap NoQuery # {}
        THEN fgPhase' = "failed" /\ UNCHANGED features
        ELSE fgPhase' = "extracted" /\ features' = NaiveLines(tests)
     /\ UNCHANGED <<mainOption, round, dataVars, coverVars>>

-----------------------------------------------------------------------------
CONSTANTS
  BranchesOf,  \* the branches replaying a test covers
  MaxRound,    \* bound on the number of iterations
  MaxTests     \* bound on the test cases of one run

ASSUME BranchesOfAssumption == BranchesOf \in [Test -> SUBSET Branch]

Pickles ==
  [Widx -> {[t \in S |-> BranchesOf[t]] : S \in {T \in SUBSET Test : Cardinality(T) <= MaxTests}}]

\* The driver's final collect is not followed by an extraction.
Finished ==
  /\ \/ fgPhase = "failed"
     \/ fgPhase \in {"collected", "extracted"} /\ round = MaxRound
  /\ UNCHANGED fgVars

Extraction == StartCover \/ CoverStep \/ ExtractFeature \/ ExtractNaive

FGNext ==
  \/ /\ round < MaxRound
     /\ \E pkl \in Pickles : Collect(pkl)
  \/ Extraction
  \/ Finished

FGSpec == FGInit /\ [][FGNext]_fgVars

\* The Python process runs on: a started extraction is not abandoned.
FGFairSpec == FGSpec /\ WF_fgVars(Extraction)

-----------------------------------------------------------------------------
\* The branches to cover are the ones of the clusters: this is why the loop of
\* cluster_setcover ends, although it tests a count and not a set, and why its
\* br_dict has every key.
BranchesClustered == branches = UNION DOMAIN clusters

\* The chosen clusters reach every branch reached so far, and the features
\* include the abstracted path conditions of a cluster for each of them.
FeaturesReachBranches ==
  fgPhase = "extracted" /\ mainOption = "featmaker" =>
    \A b \in branches : \E bs \in minset :
      /\ b \in bs
      /\ clusters[bs] # {}
      /\ \A pc \in clusters[bs] : pc # {} /\ Abstracted(pc) \subseteq features

\* The size of a smallest set of clusters that covers every branch.
SmallestCover ==
  Min({Cardinality(S) : S \in {T \in SUBSET DOMAIN clusters : UNION T = branches}})

\* The greedy cover is within the harmonic bound H(d) of the smallest one, for
\* branch sets of at most d = 3 branches (H(3) = 11/6).
GreedyWithinBound ==
  fgPhase = "extracted" /\ mainOption = "featmaker" =>
    6 * Cardinality(minset) <= 11 * SmallestCover

\* Feature extraction terminates once a cover is under way.
ExtractionEnds == fgPhase = "cover" ~> fgPhase = "extracted"
=============================================================================
