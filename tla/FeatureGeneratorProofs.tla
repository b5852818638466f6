----------------------- MODULE FeatureGeneratorProofs -----------------------
(***************************************************************************)
(* Proofs about feature_generator.py: the branches to cover are the ones   *)
(* of the clusters, and once an extraction ends its features reach every   *)
(* branch reached so far, for every set of tests, branches and lines and   *)
(* every number of runs and iterations.                                    *)
(***************************************************************************)
EXTENDS FeatureGenerator, TLAPS, FiniteSetTheorems, FunctionTheorems

\* The mode is one of the two extract_feature knows, and data["branches"] only
\* holds branches of the program.
FGTypes ==
  /\ mainOption \in {"featmaker", "naive"}
  /\ branches \subseteq Branch

\* collect_featmaker skips a test without a path condition, so no cluster is
\* empty and none lists an empty path condition.
ClustersInhabited ==
  mainOption = "featmaker" =>
    \A bs \in DOMAIN clusters : clusters[bs] # {} /\ \A pc \in clusters[bs] : pc # {}

\* cluster_setcover: local_bs is what the chosen clusters cover.
CoverInv ==
  fgPhase \in {"cover", "extracted"} /\ mainOption = "featmaker" =>
    minset \subseteq DOMAIN clusters /\ localBs = UNION minset

\* When the extraction is over the cover is complete and the features hold the
\* abstracted lines of every chosen cluster.
ExtractedInv ==
  fgPhase = "extracted" /\ mainOption = "featmaker" =>
    /\ localBs = branches
    /\ \A bs \in minset : \A pc \in clusters[bs] : Abstracted(pc) \subseteq features

\* The inductive invariant of the extraction.
FGInv == FGTypes /\ BranchesClustered /\ ClustersInhabited /\ CoverInv /\ ExtractedInv

-----------------------------------------------------------------------------
\* The branches an iteration covers are the ones of the branch sets it clusters:
\* collect builds both from the tests it counts.
LEMMA TrialsAreBranchSets ==
  ASSUME NEW pkl
  PROVE  UNION BranchSets(pkl, Widx) = UNION {TrialBranches(pkl[w]) : w \in Widx}
  <1>1. ASSUME NEW b \in UNION BranchSets(pkl, Widx)
        PROVE  b \in UNION {TrialBranches(pkl[w]) : w \in Widx}
    <2>1. PICK w \in Widx : \E t \in Counted(pkl[w]) : b \in pkl[w][t]
      BY DEF BranchSets
    <2>2. b \in TrialBranches(pkl[w])
      BY <2>1 DEF TrialBranches
    <2>3. QED
      BY <2>2
  <1>2. ASSUME NEW b \in UNION {TrialBranches(pkl[w]) : w \in Widx}
        PROVE  b \in UNION BranchSets(pkl, Widx)
    <2>1. PICK w \in Widx : b \in TrialBranches(pkl[w])
      OBVIOUS
    <2>2. PICK t \in Counted(pkl[w]) : b \in pkl[w][t]
      BY <2>1 DEF TrialBranches
    <2>3. pkl[w][t] \in BranchSets(pkl, Widx)
      BY <2>2 DEF BranchSets
    <2>4. QED
      BY <2>2, <2>3
  <1>3. QED
    BY <1>1, <1>2

\* The pickles credit every test with branches of the program only.
InProgram(pkl) == \A w \in Widx : \A t \in DOMAIN pkl[w] : pkl[w][t] \subseteq Branch

\* So do the pickles of tests credited with the branches they take.
LEMMA PicklesInProgram == \A pkl \in Pickles : InProgram(pkl)
  <1>1. SUFFICES ASSUME NEW pkl \in Pickles, NEW w \in Widx, NEW t \in DOMAIN pkl[w]
                 PROVE  pkl[w][t] \subseteq Branch
    BY DEF InProgram
  <1>2. pkl[w] \in {[u \in S |-> BranchesOf[u]] : S \in {T \in SUBSET Test : Cardinality(T) <= MaxTests}}
    BY DEF Pickles
  <1>3. PICK S \in SUBSET Test : pkl[w] = [u \in S |-> BranchesOf[u]]
    BY <1>2
  <1>4. t \in Test /\ pkl[w][t] = BranchesOf[t]
    BY <1>1, <1>3
  <1>5. QED
    BY <1>4, BranchesOfAssumption

\* The branches that collect counts are branches of the program.
LEMMA TrialsInProgram ==
  ASSUME NEW pkl, InProgram(pkl), NEW w \in Widx
  PROVE  TrialBranches(pkl[w]) \subseteq Branch
  <1>1. Counted(pkl[w]) \subseteq DOMAIN pkl[w]
    BY DEF Counted
  <1>2. QED
    BY <1>1 DEF InProgram, TrialBranches

\* A branch set that the iteration adds comes with a member, and in the featmaker
\* mode every member it adds is a path condition with at least one line.
LEMMA MergedMembers ==
  ASSUME mainOption = "featmaker", NEW pkl
  PROVE  /\ \A bs \in BranchSets(pkl, Widx) : MembersOf(bs, pkl, Widx) # {}
         /\ \A bs : \A pc \in MembersOf(bs, pkl, Widx) : pc # {}
  <1>1. \A w : Counted(pkl[w]) = {t \in DOMAIN pkl[w] : GetPc(t) # {}}
    BY DEF Counted
  <1>2. \A t : Member(t) = GetPc(t)
    BY DEF Member
  <1>3. ASSUME NEW bs \in BranchSets(pkl, Widx) PROVE MembersOf(bs, pkl, Widx) # {}
    <2>1. PICK w \in Widx : \E t \in Counted(pkl[w]) : bs = pkl[w][t]
      BY <1>3 DEF BranchSets
    <2>2. PICK t \in Counted(pkl[w]) : bs = pkl[w][t]
      BY <2>1
    <2>3. Member(t) \in MembersOf(bs, pkl, Widx)
      BY <2>2 DEF MembersOf
    <2>4. QED
      BY <2>3
  <1>4. ASSUME NEW bs, NEW pc \in MembersOf(bs, pkl, Widx) PROVE pc # {}
    <2>1. PICK w \in Widx : \E t \in Counted(pkl[w]) : pc = Member(t)
      BY <1>4 DEF MembersOf
    <2>2. QED
      BY <1>1, <1>2, <2>1
  <1>5. QED
    BY <1>3, <1>4

\* collect, on whatever it has accumulated, keeps the branches and the clusters
\* together.
LEMMA CollectKeepsClusters ==
  ASSUME FGInv, NEW pkl, InProgram(pkl), Collect(pkl)
  PROVE  FGInv'
  <1> DEFINE fresh == round + 1 <= 1
             old   == IF fresh THEN [bs \in {} |-> {}] ELSE clusters
             prior == IF fresh THEN {} ELSE branches
             now   == UNION {TrialBranches(pkl[w]) : w \in Widx}
  <1>1. /\ mainOption' = mainOption /\ fgPhase' = "collected"
        /\ clusters' = MergeClusters(old, pkl)
        /\ branches' = prior \cup now
    <2>1. UNION {[v \in Widx |-> TrialBranches(pkl[v])][w] : w \in Widx} = now
      OBVIOUS
    <2>2. QED
      BY <2>1 DEF Collect, Accumulated
  <1>2. prior = UNION DOMAIN old /\ prior \subseteq Branch
    BY DEF FGInv, FGTypes, BranchesClustered
  <1>3. mainOption = "featmaker" =>
          \A bs \in DOMAIN old : old[bs] # {} /\ \A pc \in old[bs] : pc # {}
    BY DEF FGInv, ClustersInhabited
  <1> HIDE DEF fresh, old, prior, now
  <1>4. now \subseteq Branch
    BY TrialsInProgram DEF now
  <1>5. DOMAIN clusters' = DOMAIN old \cup BranchSets(pkl, Widx)
    BY <1>1 DEF MergeClusters
  <1>6. \A bs \in DOMAIN clusters' :
          clusters'[bs] = (IF bs \in DOMAIN old THEN old[bs] ELSE {}) \cup MembersOf(bs, pkl, Widx)
    BY <1>1, <1>5 DEF MergeClusters
  <1>7. BranchesClustered'
    <2>1. UNION BranchSets(pkl, Widx) = now
      BY TrialsAreBranchSets DEF now
    <2>2. QED
      BY <1>1, <1>2, <1>5, <2>1 DEF BranchesClustered
  <1>8. ClustersInhabited'
    <2>1. SUFFICES ASSUME mainOption = "featmaker", NEW bs \in DOMAIN clusters'
                   PROVE  clusters'[bs] # {} /\ \A pc \in clusters'[bs] : pc # {}
      BY <1>1 DEF ClustersInhabited
    <2>2. /\ \A b \in BranchSets(pkl, Widx) : MembersOf(b, pkl, Widx) # {}
          /\ \A b : \A pc \in MembersOf(b, pkl, Widx) : pc # {}
      BY <2>1, MergedMembers
    <2>3. CASE bs \in DOMAIN old
      BY <1>3, <1>6, <2>1, <2>2, <2>3
    <2>4. CASE bs \notin DOMAIN old
      BY <1>5, <1>6, <2>1, <2>2, <2>4
    <2>5. QED
      BY <2>3, <2>4
  <1>9. QED
    BY <1>1, <1>2, <1>4, <1>7, <1>8 DEF FGInv, FGTypes, CoverInv, ExtractedInv

\* A turn of the loop adds one of the clusters to the cover.
LEMMA CoverStepKeepsCover ==
  ASSUME FGInv, CoverStep
  PROVE  FGInv'
  <1>1. PICK bs \in DOMAIN clusters : minset' = minset \cup {bs} /\ localBs' = localBs \cup bs
    BY DEF CoverStep, BestClusters
  <1>2. UNCHANGED <<mainOption, fgPhase, clusters, branches, features>> /\ fgPhase = "cover"
    BY DEF CoverStep, dataVars
  <1>3. CoverInv'
    BY <1>1, <1>2 DEF FGInv, CoverInv
  <1>4. QED
    BY <1>2, <1>3 DEF FGInv, FGTypes, BranchesClustered, ClustersInhabited, ExtractedInv

\* The loop compares two counts; since what is covered is part of the branches,
\* equal counts mean that nothing is left.
LEMMA CoverDoneIsComplete ==
  ASSUME FGInv, fgPhase = "cover", mainOption = "featmaker", CoverDone
  PROVE  localBs = branches
  <1>1. localBs \subseteq branches
    BY DEF FGInv, CoverInv, BranchesClustered
  <1>2. IsFiniteSet(branches)
    BY FeatureGeneratorAssumption, FS_Subset DEF FGInv, FGTypes
  <1>3. IsFiniteSet(localBs) /\ Cardinality(localBs) <= Cardinality(branches)
        /\ (Cardinality(localBs) = Cardinality(branches) => localBs = branches)
    BY <1>1, <1>2, FS_Subset
  <1>4. Cardinality(localBs) \in Nat /\ Cardinality(branches) \in Nat
    BY <1>2, <1>3, FS_CardinalityType
  <1>5. QED
    BY <1>3, <1>4 DEF CoverDone

\* extract_feature takes every line of every path condition of the cover.
LEMMA ExtractFeatureReaches ==
  ASSUME FGInv, ExtractFeature
  PROVE  FGInv'
  <1>1. UNCHANGED <<mainOption, clusters, branches, localBs, minset>> /\ fgPhase = "cover"
        /\ fgPhase' = "extracted" /\ CoverDone
        /\ features' = UNION {Abstracted(pc) : pc \in UNION {clusters[bs] : bs \in minset}}
    BY DEF ExtractFeature, dataVars, coverVars
  <1>2. ExtractedInv'
    <2>1. SUFFICES ASSUME mainOption = "featmaker"
                   PROVE  /\ localBs = branches
                          /\ \A bs \in minset : \A pc \in clusters[bs] : Abstracted(pc) \subseteq features'
      BY <1>1 DEF ExtractedInv, Abstracted
    <2>2. localBs = branches
      BY <1>1, <2>1, CoverDoneIsComplete
    <2>3. ASSUME NEW bs \in minset, NEW pc \in clusters[bs]
          PROVE  Abstracted(pc) \subseteq features'
      BY <1>1
    <2>4. QED
      BY <2>2, <2>3
  <1>3. CoverInv'
    BY <1>1 DEF FGInv, CoverInv
  <1>4. QED
    BY <1>1, <1>2, <1>3 DEF FGInv, FGTypes, BranchesClustered, ClustersInhabited

\* Every step of extract_feature keeps the invariant.
LEMMA ExtractionKeepsInv ==
  ASSUME FGInv, Extraction \/ UNCHANGED fgVars
  PROVE  FGInv'
  <1>1. CASE StartCover
    BY <1>1 DEF StartCover, dataVars, FGInv, FGTypes, BranchesClustered, ClustersInhabited,
                CoverInv, ExtractedInv
  <1>2. CASE CoverStep
    BY <1>2, CoverStepKeepsCover
  <1>3. CASE ExtractFeature
    BY <1>3, ExtractFeatureReaches
  <1>4. CASE ExtractNaive
    BY <1>4 DEF ExtractNaive, dataVars, coverVars, FGInv, FGTypes, BranchesClustered,
                ClustersInhabited, CoverInv, ExtractedInv
  <1>5. CASE UNCHANGED fgVars
    BY <1>5 DEF fgVars, dataVars, coverVars, FGInv, FGTypes, BranchesClustered,
                ClustersInhabited, CoverInv, ExtractedInv, Abstracted
  <1>6. QED
    BY <1>1, <1>2, <1>3, <1>4, <1>5 DEF Extraction

\* The invariant holds at the start.
LEMMA InitFGInv == FGInit => FGInv
  BY DEF FGInit, FGInv, FGTypes, BranchesClustered, ClustersInhabited, CoverInv, ExtractedInv

\* Every step of the component, given the pickles of its tests, keeps it.
LEMMA FGInvInductive == FGInv /\ [FGNext]_fgVars => FGInv'
  <1>1. ASSUME FGInv, NEW pkl \in Pickles, Collect(pkl) PROVE FGInv'
    BY <1>1, PicklesInProgram, CollectKeepsClusters
  <1>2. ASSUME FGInv, Extraction \/ UNCHANGED fgVars PROVE FGInv'
    BY <1>2, ExtractionKeepsInv
  <1>3. QED
    BY <1>1, <1>2 DEF FGNext, Finished

\* In every reachable state data["branches"] is what the clusters hold together,
\* so that the loop of cluster_setcover can always reach its count.
THEOREM BranchesAreClustered == FGSpec => []BranchesClustered
  <1>1. FGInv => BranchesClustered
    BY DEF FGInv
  <1>2. QED
    BY <1>1, InitFGInv, FGInvInductive, PTL DEF FGSpec

\* A finished cover reaches every branch, with path conditions that are features.
LEMMA InvReachesBranches == FGInv => FeaturesReachBranches
  <1>1. SUFFICES ASSUME FGInv, fgPhase = "extracted", mainOption = "featmaker", NEW b \in branches
                 PROVE  \E bs \in minset :
                          /\ b \in bs
                          /\ clusters[bs] # {}
                          /\ \A pc \in clusters[bs] : pc # {} /\ Abstracted(pc) \subseteq features
    BY DEF FeaturesReachBranches
  <1>2. minset \subseteq DOMAIN clusters /\ localBs = UNION minset /\ localBs = branches
    BY <1>1 DEF FGInv, CoverInv, ExtractedInv
  <1>3. PICK bs \in minset : b \in bs
    BY <1>2
  <1>4. QED
    BY <1>1, <1>2, <1>3 DEF FGInv, ClustersInhabited, ExtractedInv

\* After extract_feature every branch reached so far lies in a chosen cluster,
\* that cluster lists a path condition, and all its lines are features.
THEOREM FeaturesReachEveryBranch == FGSpec => []FeaturesReachBranches
  BY InvReachesBranches, InitFGInv, FGInvInductive, PTL DEF FGSpec

-----------------------------------------------------------------------------
(* The greedy cover against the smallest one.                              *)

\* The price list of a branch set of d branches, in shares of c: the last of its
\* branches to be covered costs c, the last but one c / 2, and so on.  Its size
\* is c times the harmonic number H(d) when every number up to d divides c.
Prices(d, c) == {p \in (1..d) \X (1..c) : p[1] * p[2] <= c}

\* What the branches not in L still cost in the branch sets of T.
Debt(T, L, d, c) == {x \in T \X Prices(d, c) : x[2][1] <= Cardinality(x[1] \ L)}

\* Multiplying by a natural number keeps the order.
LEMMA TimesMonotonic ==
  ASSUME NEW t \in Nat, NEW x \in Nat, NEW y \in Nat, x <= y
  PROVE  t * x <= t * y /\ x * t <= y * t
  BY SMT

\* The number of elements of an interval that starts at 1.
LEMMA IntervalSize ==
  ASSUME NEW n \in Nat
  PROVE  IsFiniteSet(1..n) /\ Cardinality(1..n) = n
  <1>1. IsFiniteSet(1..n) /\ Cardinality(1..n) = IF 1 > n THEN 0 ELSE n - 1 + 1
    BY FS_Interval
  <1>2. QED
    BY <1>1

\* The price list is finite, and so is what is owed.
LEMMA DebtFinite ==
  ASSUME NEW d \in Nat, NEW c \in Nat, NEW T, IsFiniteSet(T), NEW L
  PROVE  /\ IsFiniteSet(Prices(d, c)) /\ Cardinality(Prices(d, c)) \in Nat
         /\ IsFiniteSet(Debt(T, L, d, c)) /\ Cardinality(Debt(T, L, d, c)) \in Nat
         /\ Cardinality(Debt(T, L, d, c)) <= Cardinality(T) * Cardinality(Prices(d, c))
  <1>1. IsFiniteSet(1..d) /\ IsFiniteSet(1..c)
    BY IntervalSize
  <1>2. IsFiniteSet((1..d) \X (1..c))
    BY <1>1, FS_Product
  <1>3. Prices(d, c) \subseteq (1..d) \X (1..c)
    BY DEF Prices
  <1>4. IsFiniteSet(Prices(d, c)) /\ Cardinality(Prices(d, c)) \in Nat
    BY <1>2, <1>3, FS_Subset, FS_CardinalityType
  <1>5. IsFiniteSet(T \X Prices(d, c))
        /\ Cardinality(T \X Prices(d, c)) = Cardinality(T) * Cardinality(Prices(d, c))
    BY <1>4, FS_Product
  <1>6. Debt(T, L, d, c) \subseteq T \X Prices(d, c)
    BY DEF Debt
  <1>7. IsFiniteSet(Debt(T, L, d, c)) /\ Cardinality(Debt(T, L, d, c)) <= Cardinality(T \X Prices(d, c))
    BY <1>5, <1>6, FS_Subset
  <1>8. QED
    BY <1>4, <1>5, <1>7, FS_CardinalityType

\* A set S of the cover loses at least the branches of it that are accounted to
\* it when bs is added to what is covered.
LEMMA AccountedBranches ==
  ASSUME NEW S, IsFiniteSet(S), NEW L, NEW bs, NEW share, share \subseteq S, share \subseteq bs \ L
  PROVE  /\ IsFiniteSet(share)
         /\ Cardinality(share) \in Nat /\ Cardinality(S \ L) \in Nat
         /\ Cardinality(S \ (L \cup bs)) \in Nat
         /\ Cardinality(S \ (L \cup bs)) + Cardinality(share) <= Cardinality(S \ L)
  <1>1. IsFiniteSet(S \ L) /\ IsFiniteSet(S \ (L \cup bs))
    BY FS_Difference
  <1>2. share \subseteq S \ L
    OBVIOUS
  <1>3. IsFiniteSet(share)
    BY <1>1, <1>2, FS_Subset
  <1>4. (S \ L) \cap share = share
    BY <1>2
  <1>5. IsFiniteSet((S \ L) \ share)
        /\ Cardinality((S \ L) \ share) = Cardinality(S \ L) - Cardinality(share)
    BY <1>1, <1>4, FS_Difference
  <1>6. S \ (L \cup bs) \subseteq (S \ L) \ share
    OBVIOUS
  <1>7. Cardinality(S \ (L \cup bs)) <= Cardinality((S \ L) \ share)
    BY <1>5, <1>6, FS_Subset
  <1>8. /\ Cardinality(share) \in Nat /\ Cardinality(S \ L) \in Nat
        /\ Cardinality(S \ (L \cup bs)) \in Nat
    BY <1>1, <1>3, FS_CardinalityType
  <1>9. QED
    BY <1>3, <1>5, <1>7, <1>8

\* A turn of the loop that adds the most new branches, k of them, pays off at
\* least c of what any cover T owes: every new branch is accounted to one set of
\* T, in which at most k branches are left, and pays c / k there.
LEMMA TurnPaysOff ==
  ASSUME NEW d \in Nat, NEW c \in Nat, NEW k \in Nat, NEW q \in Nat, c = k * q, k \in 1..d,
         NEW T, IsFiniteSet(T), NEW L, NEW bs, IsFiniteSet(bs), Cardinality(bs \ L) = k,
         bs \ L \subseteq UNION T,
         \A S \in T : IsFiniteSet(S) /\ Cardinality(S \ L) <= k
  PROVE  Cardinality(Debt(T, L \cup bs, d, c)) + c <= Cardinality(Debt(T, L, d, c))
  <1> DEFINE new == bs \ L
             home == [e \in new |-> CHOOSE S \in T : e \in S]
             share(S) == {e \in new : home[e] = S}
             rank == [S \in T |-> CHOOSE r : r \in Injection(share(S), 1..Cardinality(share(S)))]
             level == [e \in new |-> Cardinality(home[e] \ L) + 1 - rank[home[e]][e]]
             pays == [x \in new \X (1..q) |-> <<home[x[1]], <<level[x[1]], x[2]>>>>]
             before == Debt(T, L, d, c)
             after == Debt(T, L \cup bs, d, c)
  <1>1. \A e \in new : home[e] \in T /\ e \in home[e]
    OBVIOUS
  <1>2. \A S \in T : share(S) \subseteq S /\ share(S) \subseteq bs \ L
    BY <1>1
  <1> HIDE DEF home
  <1>3. \A S \in T : /\ IsFiniteSet(share(S))
                     /\ Cardinality(share(S)) \in Nat /\ Cardinality(S \ L) \in Nat
                     /\ Cardinality(S \ (L \cup bs)) \in Nat
                     /\ Cardinality(S \ (L \cup bs)) + Cardinality(share(S)) <= Cardinality(S \ L)
    <2>1. SUFFICES ASSUME NEW S \in T
                   PROVE  /\ IsFiniteSet(share(S))
                          /\ Cardinality(share(S)) \in Nat /\ Cardinality(S \ L) \in Nat
                          /\ Cardinality(S \ (L \cup bs)) \in Nat
                          /\ Cardinality(S \ (L \cup bs)) + Cardinality(share(S)) <= Cardinality(S \ L)
      OBVIOUS
    <2>2. share(S) \subseteq S /\ share(S) \subseteq bs \ L /\ IsFiniteSet(S)
      BY <1>2
    <2> HIDE DEF share
    <2>3. QED
      BY <2>2, AccountedBranches
  <1>4. ASSUME NEW S \in T PROVE rank[S] \in Injection(share(S), 1..Cardinality(share(S)))
    <2>1. PICK n \in Nat : n = Cardinality(share(S)) /\ IsFiniteSet(share(S))
      BY <1>3
    <2> HIDE DEF share
    <2>2. IsFiniteSet(1..n) /\ Cardinality(1..n) = n
      BY IntervalSize
    <2>3. ExistsBijection(share(S), 1..n)
      BY <2>1, <2>2, FS_SameCardinalityBij
    <2>4. \E r : r \in Injection(share(S), 1..Cardinality(share(S)))
      BY <2>1, <2>3 DEF ExistsBijection, Bijection
    <2>5. QED
      BY <2>4
  <1>5. ASSUME NEW S \in T, NEW e \in share(S)
        PROVE  rank[S][e] \in 1..Cardinality(share(S))
    BY <1>4 DEF Injection
  <1>6. ASSUME NEW S \in T, NEW e \in share(S), NEW f \in share(S), rank[S][e] = rank[S][f]
        PROVE  e = f
    BY <1>4, <1>6 DEF Injection, IsInjective
  <1>7. \A e \in new : home[e] \in T /\ e \in share(home[e])
    BY <1>1
  <1> HIDE DEF rank, share
  <1>8. \A e \in new : /\ level[e] \in 1..k
                       /\ level[e] <= Cardinality(home[e] \ L)
                       /\ level[e] > Cardinality(home[e] \ (L \cup bs))
    <2>1. SUFFICES ASSUME NEW e \in new
                   PROVE  /\ level[e] \in 1..k
                          /\ level[e] <= Cardinality(home[e] \ L)
                          /\ level[e] > Cardinality(home[e] \ (L \cup bs))
      OBVIOUS
    <2>2. PICK S \in T : S = home[e]
      BY <1>7
    <2>3. PICK r \in 1..Cardinality(share(S)) : r = rank[S][e]
      BY <1>5, <1>7, <2>2
    <2>4. level[e] = Cardinality(S \ L) + 1 - r
      BY <2>2, <2>3
    <2>5. /\ Cardinality(share(S)) \in Nat /\ Cardinality(S \ L) \in Nat
          /\ Cardinality(S \ (L \cup bs)) \in Nat
          /\ Cardinality(S \ (L \cup bs)) + Cardinality(share(S)) <= Cardinality(S \ L)
          /\ Cardinality(S \ L) <= k
      BY <1>3
    <2> HIDE DEF level
    <2>6. QED
      BY <2>2, <2>3, <2>4, <2>5
  <1>9. pays \in [new \X (1..q) -> before \ after]
    <2>1. SUFFICES ASSUME NEW e \in new, NEW i \in 1..q
                   PROVE  <<home[e], <<level[e], i>>>> \in before \ after
      OBVIOUS
    <2>2. PICK l \in 1..k : l = level[e] /\ l <= Cardinality(home[e] \ L)
                            /\ l > Cardinality(home[e] \ (L \cup bs))
      BY <1>8
    <2>3. home[e] \in T /\ Cardinality(home[e] \ (L \cup bs)) \in Nat
      BY <1>3, <1>7
    <2>4. l * i <= c /\ i <= c
      <3>1. l * i <= k * i /\ k * i <= k * q
        BY TimesMonotonic
      <3>2. 1 * i <= k * i
        BY TimesMonotonic
      <3>3. PICK li \in Int, ki \in Int, kq \in Int : li = l * i /\ ki = k * i /\ kq = k * q
        OBVIOUS
      <3>4. QED
        BY <3>1, <3>2, <3>3
    <2>5. <<l, i>> \in Prices(d, c)
      <3>1. l \in 1..d /\ i \in 1..c
        BY <2>4
      <3>2. QED
        BY <2>4, <3>1 DEF Prices
    <2> HIDE DEF level
    <2>6. <<home[e], <<l, i>>>> \in Debt(T, L, d, c)
      BY <2>2, <2>3, <2>5 DEF Debt
    <2>7. <<home[e], <<l, i>>>> \notin Debt(T, L \cup bs, d, c)
      <3>1. ~(l <= Cardinality(home[e] \ (L \cup bs)))
        BY <2>2, <2>3
      <3>2. QED
        BY <3>1 DEF Debt
    <2>8. QED
      BY <2>2, <2>6, <2>7
  <1>10. \A x, y \in new \X (1..q) : pays[x] = pays[y] => x = y
    <2>0. SUFFICES ASSUME NEW e \in new, NEW i \in 1..q, NEW f \in new, NEW j \in 1..q,
                          pays[<<e, i>>] = pays[<<f, j>>]
                   PROVE  <<e, i>> = <<f, j>>
      <3> HIDE DEF pays
      <3>1. QED
        OBVIOUS
    <2>1. home[e] = home[f] /\ level[e] = level[f] /\ i = j
      <3>1. <<home[e], <<level[e], i>>>> = <<home[f], <<level[f], j>>>>
        BY <2>0
      <3> HIDE DEF level, pays
      <3>2. QED
        BY <3>1
    <2>2. PICK S \in T : S = home[e] /\ S = home[f]
      BY <1>7, <2>1
    <2>3. PICK r1 \in Int, r2 \in Int, n \in Int :
            r1 = rank[S][e] /\ r2 = rank[S][f] /\ n = Cardinality(S \ L)
      <3>1. rank[S][e] \in 1..Cardinality(share(S)) /\ rank[S][f] \in 1..Cardinality(share(S))
        BY <1>5, <1>7, <2>2
      <3>2. Cardinality(S \ L) \in Nat
        BY <1>3
      <3>3. QED
        BY <3>1, <3>2
    <2>4. n + 1 - r1 = n + 1 - r2
      BY <2>1, <2>2, <2>3
    <2>5. r1 = r2
      BY <2>4
    <2>6. e = f
      BY <1>6, <1>7, <2>2, <2>3, <2>5
    <2>7. QED
      BY <2>1, <2>6
  <1> HIDE DEF pays, level
  <1>11. pays \in Injection(new \X (1..q), before \ after)
    BY <1>9, <1>10, Fun_IsInj
  <1>12. IsFiniteSet(before) /\ Cardinality(before) \in Nat /\ IsFiniteSet(after) /\ Cardinality(after) \in Nat
    BY DebtFinite
  <1>13. after \subseteq before
    <2>1. ASSUME NEW S \in T, NEW l \in 1..d, l <= Cardinality(S \ (L \cup bs))
          PROVE  l <= Cardinality(S \ L)
      <3>1. PICK a \in Nat, s \in Nat, b \in Nat :
              /\ a = Cardinality(S \ (L \cup bs)) /\ s = Cardinality(share(S)) /\ b = Cardinality(S \ L)
              /\ a + s <= b
        BY <1>3
      <3>2. QED
        BY <2>1, <3>1
    <2>2. \A S \in T : \A l \in 1..d :
            l <= Cardinality(S \ (L \cup bs)) => l <= Cardinality(S \ L)
      BY <2>1
    <2>3. QED
      BY <2>2 DEF Debt, Prices
  <1> HIDE DEF before, after
  <1>14. IsFiniteSet(before \ after) /\ Cardinality(before \ after) = Cardinality(before) - Cardinality(after)
    <2>1. before \cap after = after
      BY <1>13
    <2>2. QED
      BY <1>12, <2>1, FS_Difference
  <1>15. Cardinality(new \X (1..q)) = c
    <2>1. IsFiniteSet(1..q) /\ Cardinality(1..q) = q
      BY IntervalSize
    <2>2. IsFiniteSet(new) /\ Cardinality(new) = k
      BY FS_Difference
    <2>3. QED
      BY <2>1, <2>2, FS_Product
  <1>16. c <= Cardinality(before \ after)
    BY <1>11, <1>14, <1>15, FS_Injection
  <1>17. Cardinality(after) + c <= Cardinality(before)
    BY <1>12, <1>14, <1>16
  <1>18. QED
    BY <1>17 DEF before, after

\* A common multiple of the numbers up to d.
Divisible(d, c) == \A k \in 1..d : \E q \in Nat : c = k * q

\* No branch set has more than d branches.
Narrow(d) == \A bs \in DOMAIN clusters : bs \subseteq Branch /\ Cardinality(bs) <= d

\* The clusters chosen so far have been paid for, c each, out of what any cover T
\* owed when the loop began.
CoverPaid(d, c) ==
  fgPhase \in {"cover", "extracted"} /\ mainOption = "featmaker" =>
    \A T \in SUBSET DOMAIN clusters : UNION T = branches =>
      c * Cardinality(minset) + Cardinality(Debt(T, localBs, d, c))
        <= Cardinality(T) * Cardinality(Prices(d, c))

\* Branch sets are finite, and so is every set of clusters.
LEMMA ClustersFinite ==
  ASSUME NEW d \in Nat, Narrow(d)
  PROVE  /\ \A bs \in DOMAIN clusters : IsFiniteSet(bs)
         /\ \A T \in SUBSET DOMAIN clusters : IsFiniteSet(T) /\ Cardinality(T) \in Nat
  <1>1. IsFiniteSet(Branch) /\ IsFiniteSet(SUBSET Branch)
    BY FeatureGeneratorAssumption, FS_SUBSET
  <1>2. \A bs \in DOMAIN clusters : IsFiniteSet(bs)
    BY <1>1, FS_Subset DEF Narrow
  <1>3. ASSUME NEW T \in SUBSET DOMAIN clusters PROVE IsFiniteSet(T) /\ Cardinality(T) \in Nat
    <2>1. T \in SUBSET (SUBSET Branch)
      BY DEF Narrow
    <2>2. IsFiniteSet(T)
      BY <1>1, <2>1, FS_Subset
    <2>3. QED
      BY <2>2, FS_CardinalityType
  <1>4. QED
    BY <1>2, <1>3

\* Before its loop the cover owes nothing beyond the price lists.
LEMMA StartCoverOwes ==
  ASSUME NEW d \in Nat, NEW c \in Nat, Narrow(d), StartCover
  PROVE  CoverPaid(d, c)'
  <1>1. clusters' = clusters /\ branches' = branches /\ localBs' = {} /\ minset' = {}
    BY DEF StartCover, dataVars
  <1>2. SUFFICES ASSUME NEW T \in SUBSET DOMAIN clusters
                 PROVE  c * Cardinality({}) + Cardinality(Debt(T, {}, d, c))
                          <= Cardinality(T) * Cardinality(Prices(d, c))
    BY <1>1 DEF CoverPaid, Debt, Prices
  <1>3. IsFiniteSet(T)
    BY ClustersFinite
  <1>4. /\ Cardinality(Debt(T, {}, d, c)) \in Nat
        /\ Cardinality(Debt(T, {}, d, c)) <= Cardinality(T) * Cardinality(Prices(d, c))
    BY <1>3, DebtFinite
  <1>5. Cardinality({}) = 0 /\ c * 0 = 0
    BY FS_EmptySet
  <1>6. QED
    BY <1>4, <1>5

\* As long as the loop runs, the cluster it takes covers something new, and no
\* cluster covers more.
LEMMA BestIsNew ==
  ASSUME FGInv, NEW d \in Nat, Narrow(d), CoverStep, mainOption = "featmaker", NEW bs \in BestClusters
  PROVE  /\ bs \in DOMAIN clusters
         /\ Cardinality(bs \ localBs) \in 1..d
         /\ \A S \in DOMAIN clusters : Cardinality(S \ localBs) <= Cardinality(bs \ localBs)
  <1>1. bs \in DOMAIN clusters
        /\ \A S \in DOMAIN clusters : Cardinality(S \ localBs) <= Cardinality(bs \ localBs)
    BY DEF BestClusters, NewBranches
  <1>2. \A S \in DOMAIN clusters : IsFiniteSet(S) /\ IsFiniteSet(S \ localBs) /\ Cardinality(S \ localBs) \in Nat
    BY ClustersFinite, FS_Difference, FS_CardinalityType
  <1>3. localBs \subseteq branches /\ branches = UNION DOMAIN clusters /\ branches \subseteq Branch
    BY DEF CoverStep, FGInv, FGTypes, CoverInv, BranchesClustered
  <1>4. localBs # branches
    <2>1. IsFiniteSet(branches)
      BY <1>3, FeatureGeneratorAssumption, FS_Subset
    <2>2. Cardinality(branches) \in Nat /\ Cardinality(localBs) < Cardinality(branches)
      BY <2>1, FS_CardinalityType DEF CoverStep
    <2>3. QED
      BY <2>2
  <1>5. PICK b \in branches : b \notin localBs
    BY <1>3, <1>4
  <1>6. PICK S \in DOMAIN clusters : b \in S
    BY <1>3, <1>5
  <1>7. Cardinality(S \ localBs) # 0
    BY <1>2, <1>5, <1>6, FS_EmptySet
  <1>8. Cardinality(bs \ localBs) <= d
    <2>1. Cardinality(bs) \in Nat /\ Cardinality(bs) <= d
      BY <1>1, <1>2, FS_CardinalityType DEF Narrow
    <2>2. Cardinality(bs \ localBs) <= Cardinality(bs)
      BY <1>1, <1>2, FS_Subset
    <2>3. PICK x \in Nat, y \in Nat : x = Cardinality(bs \ localBs) /\ y = Cardinality(bs)
      BY <1>1, <1>2, <2>1
    <2>4. QED
      BY <2>1, <2>2, <2>3
  <1>9. PICK x \in Nat, y \in Nat : x = Cardinality(bs \ localBs) /\ y = Cardinality(S \ localBs)
    BY <1>1, <1>2
  <1>10. x \in 1..d
    BY <1>1, <1>7, <1>8, <1>9
  <1>11. QED
    BY <1>1, <1>9, <1>10

\* A turn of the loop pays for the cluster it takes.
LEMMA CoverStepPays ==
  ASSUME FGInv, NEW d \in Nat, NEW c \in Nat, Divisible(d, c), Narrow(d), CoverPaid(d, c), CoverStep
  PROVE  CoverPaid(d, c)'
  <1>1. PICK bs \in BestClusters : minset' = minset \cup {bs} /\ localBs' = localBs \cup bs
    BY DEF CoverStep
  <1>2. UNCHANGED <<mainOption, fgPhase, clusters, branches>> /\ fgPhase = "cover"
    BY DEF CoverStep, dataVars
  <1>3. SUFFICES ASSUME mainOption = "featmaker", NEW T \in SUBSET DOMAIN clusters, UNION T = branches
                 PROVE  c * Cardinality(minset \cup {bs}) + Cardinality(Debt(T, localBs \cup bs, d, c))
                          <= Cardinality(T) * Cardinality(Prices(d, c))
    BY <1>1, <1>2 DEF CoverPaid, Debt, Prices
  <1>4. /\ bs \in DOMAIN clusters
        /\ Cardinality(bs \ localBs) \in 1..d
        /\ \A S \in DOMAIN clusters : Cardinality(S \ localBs) <= Cardinality(bs \ localBs)
    BY <1>3, BestIsNew
  <1>5. PICK k \in 1..d : k = Cardinality(bs \ localBs)
    BY <1>4
  <1>6. PICK q \in Nat : c = k * q
    BY DEF Divisible
  <1>7. IsFiniteSet(T) /\ IsFiniteSet(bs) /\ \A S \in T : IsFiniteSet(S)
    BY <1>4, ClustersFinite
  <1>8. bs \ localBs \subseteq UNION T
    BY <1>3, <1>4 DEF FGInv, BranchesClustered
  <1>9. Cardinality(Debt(T, localBs \cup bs, d, c)) + c <= Cardinality(Debt(T, localBs, d, c))
    <2>1. \A S \in T : IsFiniteSet(S) /\ Cardinality(S \ localBs) <= Cardinality(bs \ localBs)
      BY <1>4, <1>7
    <2>2. k \in Nat
      OBVIOUS
    <2>3. \A S \in T : IsFiniteSet(S) /\ Cardinality(S \ localBs) <= k
      BY <1>5, <2>1, Zenon
    <2>4. QED
      BY <1>5, <1>6, <1>7, <1>8, <2>2, <2>3, TurnPaysOff
  <1>10. /\ Cardinality(Debt(T, localBs \cup bs, d, c)) \in Nat /\ Cardinality(Debt(T, localBs, d, c)) \in Nat
         /\ Cardinality(Prices(d, c)) \in Nat /\ Cardinality(T) \in Nat
    BY <1>7, DebtFinite, FS_CardinalityType
  <1>11. /\ Cardinality(minset) \in Nat
         /\ Cardinality(minset \cup {bs}) \in {Cardinality(minset), Cardinality(minset) + 1}
    <2>1. minset \in SUBSET DOMAIN clusters
      BY <1>2, <1>3 DEF FGInv, CoverInv
    <2>2. IsFiniteSet(minset) /\ Cardinality(minset) \in Nat
      BY <2>1, ClustersFinite
    <2>3. Cardinality(minset \cup {bs}) = IF bs \in minset THEN Cardinality(minset) ELSE Cardinality(minset) + 1
      BY <2>2, FS_AddElement
    <2>4. QED
      BY <2>2, <2>3
  <1>12. c * Cardinality(minset) + Cardinality(Debt(T, localBs, d, c))
           <= Cardinality(T) * Cardinality(Prices(d, c))
    BY <1>2, <1>3 DEF CoverPaid
  <1>13. PICK m \in Nat, n \in Nat, x \in Nat, y \in Nat, z \in Nat :
           /\ m = Cardinality(minset) /\ n = Cardinality(minset \cup {bs})
           /\ x = Cardinality(Debt(T, localBs, d, c)) /\ y = Cardinality(Debt(T, localBs \cup bs, d, c))
           /\ z = Cardinality(T) * Cardinality(Prices(d, c))
    <2>1. Cardinality(T) * Cardinality(Prices(d, c)) \in Nat
      BY <1>10
    <2>2. Cardinality(minset \cup {bs}) \in Nat
      BY <1>11
    <2>3. QED
      BY <1>10, <1>11, <2>1, <2>2
  <1>14. n <= m + 1 /\ y + c <= x /\ c * m + x <= z
    BY <1>9, <1>11, <1>12, <1>13
  <1>15. c * n <= c * (m + 1) /\ c * (m + 1) = c * m + c
    BY <1>14, TimesMonotonic
  <1>16. c * n + y <= z
    <2>1. PICK cn \in Int, cm \in Int : cn = c * n /\ cm = c * m
      OBVIOUS
    <2>2. cn <= cm + c /\ cm + x <= z
      BY <1>14, <1>15, <2>1
    <2>3. QED
      BY <1>14, <2>1, <2>2
  <1>17. QED
    BY <1>13, <1>16

\* No test is credited with more than d branches.
NarrowPickles(d, pkl) == \A w \in Widx : \A t \in DOMAIN pkl[w] : Cardinality(pkl[w][t]) <= d

\* Whatever a late replay adds to a credit, it is within the program.
LEMMA NarrowInProgram ==
  /\ Cardinality(Branch) \in Nat
  /\ \A pkl : InProgram(pkl) => NarrowPickles(Cardinality(Branch), pkl)
  <1>1. IsFiniteSet(Branch) /\ Cardinality(Branch) \in Nat
    BY FeatureGeneratorAssumption, FS_CardinalityType
  <1>2. \A S \in SUBSET Branch : Cardinality(S) <= Cardinality(Branch)
    BY <1>1, FS_Subset
  <1>3. QED
    BY <1>1, <1>2 DEF InProgram, NarrowPickles

\* The inductive invariant behind the bound.
PaidInv(d, c) == FGInv /\ Narrow(d) /\ CoverPaid(d, c)

\* collect adds branch sets of the pickles only, and ends the last cover.
LEMMA CollectKeepsPaid ==
  ASSUME NEW d \in Nat, NEW c \in Nat, PaidInv(d, c),
         NEW pkl, InProgram(pkl), NarrowPickles(d, pkl), Collect(pkl)
  PROVE  PaidInv(d, c)'
  <1> DEFINE old == IF round + 1 <= 1 THEN [bs \in {} |-> {}] ELSE clusters
  <1>1. clusters' = MergeClusters(old, pkl) /\ fgPhase' = "collected"
    BY DEF Collect
  <1>2. \A bs \in DOMAIN old : bs \subseteq Branch /\ Cardinality(bs) <= d
    BY DEF PaidInv, Narrow
  <1>3. \A bs \in BranchSets(pkl, Widx) : bs \subseteq Branch /\ Cardinality(bs) <= d
    BY DEF BranchSets, Counted, InProgram, NarrowPickles
  <1>4. DOMAIN clusters' = DOMAIN old \cup BranchSets(pkl, Widx)
    BY <1>1 DEF MergeClusters
  <1>5. Narrow(d)'
    BY <1>2, <1>3, <1>4 DEF Narrow
  <1>6. FGInv'
    BY CollectKeepsClusters DEF PaidInv
  <1>7. QED
    BY <1>1, <1>5, <1>6 DEF PaidInv, CoverPaid

\* Every turn of the loop is paid for, and no other step of extract_feature
\* touches the cover.
LEMMA ExtractionKeepsPaid ==
  ASSUME NEW d \in Nat, NEW c \in Nat, Divisible(d, c), PaidInv(d, c), Extraction \/ UNCHANGED fgVars
  PROVE  PaidInv(d, c)'
  <1>1. FGInv /\ Narrow(d) /\ CoverPaid(d, c) /\ FGInv'
    BY ExtractionKeepsInv DEF PaidInv
  <1>2. Narrow(d)'
    BY <1>1 DEF Extraction, StartCover, CoverStep, ExtractFeature, ExtractNaive, fgVars, dataVars, Narrow
  <1>3. CASE StartCover
    BY <1>1, <1>2, <1>3, StartCoverOwes DEF PaidInv
  <1>4. CASE CoverStep
    BY <1>1, <1>2, <1>4, CoverStepPays DEF PaidInv
  <1>5. CASE ExtractFeature
    BY <1>1, <1>2, <1>5 DEF ExtractFeature, dataVars, coverVars, PaidInv, CoverPaid, Debt, Prices
  <1>6. CASE ExtractNaive
    BY <1>1, <1>2, <1>6 DEF ExtractNaive, dataVars, coverVars, PaidInv, CoverPaid
  <1>7. CASE UNCHANGED fgVars
    BY <1>1, <1>2, <1>7 DEF fgVars, dataVars, coverVars, PaidInv, CoverPaid, Debt, Prices
  <1>8. QED
    BY <1>3, <1>4, <1>5, <1>6, <1>7 DEF Extraction

\* At the start nothing is clustered.
LEMMA InitPaid ==
  ASSUME NEW d \in Nat, NEW c \in Nat, FGInit
  PROVE  PaidInv(d, c)
  BY InitFGInv DEF FGInit, PaidInv, Narrow, CoverPaid

\* The invariant is inductive when no test takes more than d branches.
LEMMA PaidInductive ==
  ASSUME NEW d \in Nat, NEW c \in Nat, Divisible(d, c),
         \A t \in Test : Cardinality(BranchesOf[t]) <= d
  PROVE  PaidInv(d, c) /\ [FGNext]_fgVars => PaidInv(d, c)'
  <1>1. ASSUME PaidInv(d, c), NEW pkl \in Pickles, Collect(pkl) PROVE PaidInv(d, c)'
    <2>1. ASSUME NEW w \in Widx, NEW t \in DOMAIN pkl[w] PROVE Cardinality(pkl[w][t]) <= d
      <3>1. pkl[w] \in {[u \in S |-> BranchesOf[u]] : S \in {U \in SUBSET Test : Cardinality(U) <= MaxTests}}
        BY <1>1 DEF Pickles
      <3>2. PICK S \in SUBSET Test : pkl[w] = [u \in S |-> BranchesOf[u]]
        BY <3>1
      <3>3. t \in Test /\ pkl[w][t] = BranchesOf[t]
        BY <2>1, <3>2
      <3>4. QED
        BY <3>3
    <2>2. NarrowPickles(d, pkl)
      BY <2>1 DEF NarrowPickles
    <2>3. QED
      BY <1>1, <2>2, PicklesInProgram, CollectKeepsPaid
  <1>2. ASSUME PaidInv(d, c), Extraction \/ UNCHANGED fgVars PROVE PaidInv(d, c)'
    BY <1>2, ExtractionKeepsPaid
  <1>3. QED
    BY <1>1, <1>2 DEF FGNext, Finished

\* The greedy cover against any other: with branch sets of at most d branches
\* cluster_setcover chooses at most H(d) times as many clusters as any set of
\* clusters that covers every branch.  Both sides are multiplied by c, a common
\* multiple of 1 .. d, which makes c * H(d) the size of the price list.
CoverWithin(d, c) ==
  fgPhase = "extracted" /\ mainOption = "featmaker" =>
    \A T \in SUBSET DOMAIN clusters : UNION T = branches =>
      c * Cardinality(minset) <= Cardinality(T) * Cardinality(Prices(d, c))

\* What has been paid for bounds the number of the chosen clusters.
LEMMA PaidWithin ==
  ASSUME NEW d \in Nat, NEW c \in Nat, PaidInv(d, c)
  PROVE  CoverWithin(d, c)
  <1>1. SUFFICES ASSUME fgPhase = "extracted", mainOption = "featmaker",
                        NEW T \in SUBSET DOMAIN clusters, UNION T = branches
                 PROVE  c * Cardinality(minset) <= Cardinality(T) * Cardinality(Prices(d, c))
    BY DEF CoverWithin
  <1>2. c * Cardinality(minset) + Cardinality(Debt(T, localBs, d, c))
          <= Cardinality(T) * Cardinality(Prices(d, c))
    BY <1>1 DEF PaidInv, CoverPaid
  <1>3. IsFiniteSet(T) /\ Cardinality(T) \in Nat /\ Cardinality(minset) \in Nat
    BY <1>1, ClustersFinite DEF PaidInv, FGInv, CoverInv
  <1>4. Cardinality(Debt(T, localBs, d, c)) \in Nat /\ Cardinality(Prices(d, c)) \in Nat
    BY <1>3, DebtFinite
  <1>5. PICK cm \in Nat, z \in Nat : cm = c * Cardinality(minset) /\ z = Cardinality(T) * Cardinality(Prices(d, c))
    BY <1>3, <1>4
  <1>6. QED
    BY <1>2, <1>4, <1>5

\* The harmonic bound for every d.
THEOREM GreedyCoverHarmonic ==
  ASSUME NEW d \in Nat, NEW c \in Nat, Divisible(d, c), \A t \in Test : Cardinality(BranchesOf[t]) <= d
  PROVE  FGSpec => []CoverWithin(d, c)
  <1>1. FGInit => PaidInv(d, c)
    BY InitPaid
  <1>2. PaidInv(d, c) /\ [FGNext]_fgVars => PaidInv(d, c)'
    BY PaidInductive
  <1>3. PaidInv(d, c) => CoverWithin(d, c)
    BY PaidWithin
  <1>4. QED
    BY <1>1, <1>2, <1>3, PTL DEF FGSpec

\* The number of prices of one branch of a branch set.
LEMMA RowSize ==
  ASSUME NEW l, NEW n \in Nat
  PROVE  IsFiniteSet({l} \X (1..n)) /\ Cardinality({l} \X (1..n)) = n
  <1>1. IsFiniteSet({l}) /\ Cardinality({l}) = 1
    BY FS_Singleton
  <1>2. IsFiniteSet(1..n) /\ Cardinality(1..n) = n
    BY IntervalSize
  <1>3. IsFiniteSet({l} \X (1..n)) /\ Cardinality({l} \X (1..n)) = Cardinality({l}) * Cardinality(1..n)
    BY <1>1, <1>2, FS_Product
  <1>4. QED
    BY <1>1, <1>2, <1>3

\* The price list of three branches: 6 + 3 + 2 = 11 sixths.
LEMMA PricesOfThree == Divisible(3, 6) /\ Cardinality(Prices(3, 6)) \in Nat /\ Cardinality(Prices(3, 6)) <= 11
  <1> DEFINE A == {1} \X (1..6)
             B == {2} \X (1..3)
             C == {3} \X (1..2)
  <1>1. Divisible(3, 6)
    <2>1. 6 = 1 * 6 /\ 6 = 2 * 3 /\ 6 = 3 * 2
      OBVIOUS
    <2>2. \A k \in 1..3 : k = 1 \/ k = 2 \/ k = 3
      OBVIOUS
    <2>3. QED
      BY <2>1, <2>2 DEF Divisible
  <1>2. Prices(3, 6) \subseteq A \cup B \cup C
    <2>1. SUFFICES ASSUME NEW l \in 1..3, NEW i \in 1..6, l * i <= 6
                   PROVE  <<l, i>> \in A \cup B \cup C
      BY DEF Prices
    <2>2. CASE l = 1
      BY <2>2
    <2>3. CASE l = 2
      <3>1. i \in 1..3
        BY <2>1, <2>3
      <3>2. QED
        BY <2>3, <3>1
    <2>4. CASE l = 3
      <3>1. i \in 1..2
        BY <2>1, <2>4
      <3>2. QED
        BY <2>4, <3>1
    <2>5. QED
      BY <2>2, <2>3, <2>4
  <1>3. /\ IsFiniteSet(A) /\ Cardinality(A) = 6 /\ IsFiniteSet(B) /\ Cardinality(B) = 3
        /\ IsFiniteSet(C) /\ Cardinality(C) = 2
    BY RowSize
  <1> HIDE DEF A, B, C
  <1>4. IsFiniteSet(A \cup B) /\ Cardinality(A \cup B) \in Nat /\ Cardinality(A \cup B) <= 9
    <2>1. /\ IsFiniteSet(A \cup B) /\ Cardinality(A \cup B) = Cardinality(A) + Cardinality(B) - Cardinality(A \cap B)
      BY <1>3, FS_Union
    <2>2. Cardinality(A \cap B) \in Nat /\ Cardinality(A \cup B) \in Nat
      BY <1>3, <2>1, FS_Intersection, FS_CardinalityType
    <2>3. QED
      BY <1>3, <2>1, <2>2
  <1>5. IsFiniteSet(A \cup B \cup C) /\ Cardinality(A \cup B \cup C) \in Nat /\ Cardinality(A \cup B \cup C) <= 11
    <2>1. /\ IsFiniteSet((A \cup B) \cup C)
          /\ Cardinality((A \cup B) \cup C) = Cardinality(A \cup B) + Cardinality(C) - Cardinality((A \cup B) \cap C)
      BY <1>3, <1>4, FS_Union
    <2>2. Cardinality((A \cup B) \cap C) \in Nat /\ Cardinality((A \cup B) \cup C) \in Nat
      BY <1>4, <2>1, FS_Intersection, FS_CardinalityType
    <2>3. QED
      BY <1>3, <1>4, <2>1, <2>2
  <1>6. IsFiniteSet(Prices(3, 6)) /\ Cardinality(Prices(3, 6)) <= Cardinality(A \cup B \cup C)
    BY <1>2, <1>5, FS_Subset
  <1>7. Cardinality(Prices(3, 6)) \in Nat
    BY <1>6, FS_CardinalityType
  <1>8. QED
    BY <1>1, <1>5, <1>6, <1>7

\* A set of natural numbers that is not empty has a least element.
LEMMA LeastNatural ==
  ASSUME NEW M, M \subseteq Nat, M # {}
  PROVE  Min(M) \in M
  <1>1. PICK x \in M : \A y \in M : ~(<<y, x>> \in OpToRel(<, Nat))
    BY NatLessThanWellFounded, WFMin
  <1>2. ASSUME NEW y \in M PROVE x <= y
    <2>1. ~(y < x)
      <3>1. <<y, x>> \in Nat \X Nat
        OBVIOUS
      <3>2. y < x => <<y, x>> \in OpToRel(<, Nat)
        BY <3>1, Zenon DEF OpToRel
      <3>3. QED
        BY <1>1, <3>2
    <2>2. QED
      BY <2>1
  <1>3. QED
    BY <1>2 DEF Min

\* With branch sets of at most three branches the greedy cover is within 11/6 of
\* the smallest one, whatever the tests, runs and iterations.
THEOREM GreedyIsWithinBound ==
  ASSUME \A t \in Test : Cardinality(BranchesOf[t]) <= 3
  PROVE  FGSpec => []GreedyWithinBound
  <1>1. FGInit => PaidInv(3, 6)
    BY InitPaid
  <1>2. PaidInv(3, 6) /\ [FGNext]_fgVars => PaidInv(3, 6)'
    BY PricesOfThree, PaidInductive
  <1>3. ASSUME PaidInv(3, 6) PROVE GreedyWithinBound
    <2>1. SUFFICES ASSUME fgPhase = "extracted", mainOption = "featmaker"
                   PROVE  6 * Cardinality(minset) <= 11 * SmallestCover
      BY DEF GreedyWithinBound
    <2> DEFINE covers == {T \in SUBSET DOMAIN clusters : UNION T = branches}
               M == {Cardinality(S) : S \in covers}
    <2>2. CoverWithin(3, 6) /\ FGInv /\ Narrow(3)
      BY <1>3, PaidWithin DEF PaidInv
    <2>3. DOMAIN clusters \in covers
      BY <2>2 DEF FGInv, BranchesClustered
    <2>4. M \subseteq Nat /\ M # {}
      BY <2>2, <2>3, ClustersFinite
    <2>5. SmallestCover \in M
      BY <2>4, LeastNatural DEF SmallestCover
    <2>6. PICK T \in covers : SmallestCover = Cardinality(T)
      BY <2>5
    <2>7. 6 * Cardinality(minset) <= Cardinality(T) * Cardinality(Prices(3, 6))
      BY <2>1, <2>2, <2>6 DEF CoverWithin
    <2>8. Cardinality(T) \in Nat /\ Cardinality(minset) \in Nat
      BY <2>1, <2>2, <2>6, ClustersFinite DEF FGInv, CoverInv
    <2>9. PICK n \in Nat, p \in Nat, m \in Nat :
            n = Cardinality(T) /\ p = Cardinality(Prices(3, 6)) /\ m = Cardinality(minset)
      BY <2>8, PricesOfThree
    <2>10. n * p <= n * 11
      BY <2>9, PricesOfThree, TimesMonotonic
    <2>11. PICK x \in Nat : x = n * p
      OBVIOUS
    <2>12. QED
      BY <2>6, <2>7, <2>9, <2>10, <2>11
  <1>4. QED
    BY <1>1, <1>2, <1>3, PTL DEF FGSpec
=============================================================================
