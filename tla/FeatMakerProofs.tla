--------------------------- MODULE FeatMakerProofs ---------------------------
(***************************************************************************)
(* Proofs about run_featmaker.py, klee_executor.py and data_generator.py,  *)
(* for every budget, number of runs and set of tests: how far the driver   *)
(* overruns its budget, whose coverage a test is credited with, that no    *)
(* pickle is stale, that errors and coverage reach the final report, and   *)
(* that what is proved of features and weights alone holds in the driver.  *)
(***************************************************************************)
EXTENDS FeatMaker, TLAPS

\* The places of the driver's loop.
DPhases == {"loop", "data", "collect", "extract", "weights", "execute", "klee", "gather",
            "done", "died"}

\* The types the proofs need; what the other variables hold plays no part.
FMTypes ==
  /\ clock \in Nat /\ iteration \in Nat /\ remaining \in Int
  /\ dPhase \in DPhases
  /\ kleeWidx \in Widx /\ dgWidx \in Widx
  /\ results \in [Widx -> SUBSET Test] /\ produced \in SUBSET Test
  /\ DOMAIN pkl = Widx
  /\ errorsPkl \in Seq(SUBSET Test)
  /\ potentialErrors \in SUBSET Test

-----------------------------------------------------------------------------
\* Dividing by the ticks of a second loses less than a second.
LEMMA DivBounds ==
  ASSUME NEW x \in Nat, NEW t \in Nat \ {0}
  PROVE  x \div t \in Nat /\ t * (x \div t) <= x /\ x < t * (x \div t) + t
  BY SMT

\* Multiplying by a natural number keeps the order.
LEMMA MulMonotonic ==
  ASSUME NEW t \in Nat, NEW x \in Int, NEW y \in Int, x <= y
  PROVE  t * x <= t * y /\ x * t <= y * t
  BY SMT

\* Turning ticks into whole seconds rounds towards zero.
LEMMA SecondsBounds ==
  ASSUME NEW x \in Int
  PROVE  /\ Seconds(x) \in Int
         /\ x >= 0 => Seconds(x) \in Nat /\ Tps * Seconds(x) <= x /\ x <= Tps * Seconds(x) + (Tps - 1)
         /\ x < 0 => Seconds(x) <= 0
  <1>1. Tps \in Nat \ {0}
    BY FeatMakerAssumption
  <1>2. CASE x >= 0
    <2>1. x \in Nat /\ Seconds(x) = x \div Tps
      BY <1>2 DEF Seconds
    <2>2. x \div Tps \in Nat /\ Tps * (x \div Tps) <= x /\ x < Tps * (x \div Tps) + Tps
      BY <1>1, <2>1, DivBounds
    <2>3. PICK q \in Nat : q = x \div Tps
      BY <2>2
    <2>4. PICK m \in Nat : m = Tps * q
      BY <1>1, <2>3
    <2>5. QED
      BY <1>1, <1>2, <2>1, <2>2, <2>3, <2>4
  <1>3. CASE x < 0
    <2>1. -x \in Nat /\ Seconds(x) = -((-x) \div Tps)
      BY <1>3 DEF Seconds
    <2>2. PICK q \in Nat : q = (-x) \div Tps
      BY <1>1, <2>1, DivBounds
    <2>3. QED
      BY <1>3, <2>1, <2>2
  <1>4. QED
    BY <1>2, <1>3

\* The smaller and the larger of two numbers.
LEMMA MinOfTwo ==
  ASSUME NEW a \in Int, NEW b \in Int
  PROVE  Min({a, b}) \in {a, b} /\ Min({a, b}) <= a /\ Min({a, b}) <= b
  <1>1. \E x \in {a, b} : \A y \in {a, b} : x <= y
    OBVIOUS
  <1>2. QED
    BY <1>1 DEF Min
\* Python's max of two numbers.
LEMMA MaxOfTwo ==
  ASSUME NEW a \in Int, NEW b \in Int
  PROVE  Max({a, b}) \in {a, b} /\ Max({a, b}) >= a /\ Max({a, b}) >= b
  <1>1. \E x \in {a, b} : \A y \in {a, b} : x >= y
    OBVIOUS
  <1>2. QED
    BY <1>1 DEF Max

\* The budget in ticks.
LEMMA TotalType == Total \in Nat /\ Total > 0
  <1>1. TotalTime \in Nat \ {0} /\ Tps \in Nat \ {0}
    BY FeatMakerAssumption
  <1>2. QED
    BY <1>1 DEF Total

\* How long a KLEE run may take, by the time that remains.
LEMMA KleeTimes ==
  ASSUME FMTypes, NEW elapsed \in KleeDurations
  PROVE  /\ elapsed \in Nat \ {0}
         /\ remaining < 0 => elapsed = 1
         /\ remaining >= 0 => elapsed <= Tps * remaining + KleeSlack
  <1>1. SmallTime \in Nat \ {0} /\ Tps \in Nat \ {0} /\ KleeSlack \in Nat \ {0} /\ remaining \in Int
    BY FeatMakerAssumption DEF FMTypes
  <1>2. PICK k \in Int : k = KleeMaxTime /\ k <= remaining /\ (k = remaining \/ k = SmallTime)
    BY <1>1, MinOfTwo DEF KleeMaxTime
  <1>3. CASE k < 0
    BY <1>1, <1>2, <1>3 DEF KleeDurations
  <1>4. CASE k >= 0
    <2>1. PICK m \in Nat : m = Tps * k
      BY <1>1, <1>4
    <2>2. PICK r \in Nat : r = Tps * remaining
      BY <1>1, <1>2, <1>4
    <2>3. m <= r
      BY <1>1, <1>2, <2>1, <2>2, MulMonotonic
    <2>4. elapsed \in 1 .. m + KleeSlack
      BY <1>2, <1>4, <2>1 DEF KleeDurations
    <2>5. QED
      BY <1>1, <1>2, <1>4, <2>2, <2>3, <2>4
  <1>5. QED
    BY <1>2, <1>3, <1>4

-----------------------------------------------------------------------------
\* The variables keep their types.
LEMMA InitTypes == Init => FMTypes
  BY FeatMakerAssumption DEF Init, FMTypes, DPhases, DG!DGInit, DG!NoResult, Widx, DG!Widx

\* Every step of the driver and of its workers keeps the types.
LEMMA TypesStep == FMTypes /\ [Next]_fmVars => FMTypes'
  <1> SUFFICES ASSUME FMTypes, [Next]_fmVars PROVE FMTypes'
    OBVIOUS
  <1> USE DEF FMTypes
  <1>0. NScores \in Nat \ {0} /\ 0 \in Widx /\ Crashes \subseteq Test
    BY FeatMakerAssumption DEF Widx
  <1>1. CASE LoopTest
    <2>1. UNCHANGED <<clock, iteration, remaining, kleeWidx, results, produced, errorsPkl, pkl>>
          /\ dPhase' \in DPhases
      BY <1>1 DEF LoopTest, AfterLoopTest, DPhases, dgVars, DG!GenerateData
    <2>2. dgWidx' \in Widx /\ potentialErrors' \in SUBSET Test
      BY <1>0, <1>1 DEF LoopTest, dgVars, DG!GenerateData
    <2>3. QED
      BY <2>1, <2>2
  <1>2. CASE ReplayTests
    <2>1. UNCHANGED <<clock, iteration, dPhase, remaining, kleeWidx, results, produced, errorsPkl>>
      BY <1>2 DEF ReplayTests, driverVars
    <2>2. DOMAIN pkl' = Widx /\ dgWidx' \in Widx
      BY <1>2 DEF ReplayTests, DG!ReplayLoop, DG!ListTests, DG!Replay, DG!Communicate,
           DG!TimeoutExpired, DG!Gcov, DG!RemoveGcda, DG!DumpResult, DG!MoreRuns, DG!Widx, Widx
    <2>3. potentialErrors' \in SUBSET Test
      BY <1>0, <1>2 DEF ReplayTests, DG!ReplayLoop, DG!ListTests, DG!Replay, DG!Communicate,
           DG!TimeoutExpired, DG!Gcov, DG!RemoveGcda, DG!DumpResult, DG!NotedErrors
    <2>4. QED
      BY <2>1, <2>2, <2>3
  <1>3. CASE WriteErrors
    BY <1>3 DEF WriteErrors, dgVars, DPhases
  <1>4. CASE Collect
    BY <1>4 DEF Collect, dgVars, DPhases
  <1>5. CASE ExtractFeature
    BY <1>5 DEF ExtractFeature, dgVars, DPhases
  <1>6. CASE GenerateWeight
    BY <1>6 DEF GenerateWeight, dgVars, DPhases
  <1>7. CASE ExecuteKlee
    <2>1. clock' \in Nat
      BY <1>7, FeatMakerAssumption DEF ExecuteKlee
    <2>0. PICK c \in Nat : clock' = c
      BY <2>1
    <2>2. PICK x \in Int : Total - clock' = x
      BY <2>0, TotalType
    <2>3. remaining' \in Int
      BY <1>7, <2>2, SecondsBounds DEF ExecuteKlee
    <2>4. QED
      BY <1>0, <1>7, <2>1, <2>3 DEF ExecuteKlee, dgVars, DPhases
  <1>8. CASE RunKlee
    <2>1. PICK elapsed \in KleeDurations, T \in KleeOutputs :
            /\ clock' = clock + elapsed
            /\ remaining' = remaining - Seconds(elapsed)
            /\ results' = [results EXCEPT ![kleeWidx] = T]
            /\ produced' = produced \cup T
      BY <1>8 DEF RunKlee
    <2>2. elapsed \in Nat /\ Seconds(elapsed) \in Int
      BY KleeTimes, SecondsBounds
    <2>3. T \subseteq Test
      BY DEF KleeOutputs
    <2>4. clock' \in Nat /\ remaining' \in Int /\ results' \in [Widx -> SUBSET Test]
          /\ produced' \in SUBSET Test
      BY <2>1, <2>2, <2>3
    <2>5. UNCHANGED <<errorsPkl, dgWidx, pkl, potentialErrors>>
      BY <1>8 DEF RunKlee, dgVars
    <2>6. dPhase' \in DPhases /\ iteration' \in Nat /\ kleeWidx' \in Widx
      BY <1>8 DEF RunKlee, DPhases, LoopOver
    <2>7. QED
      BY <2>4, <2>5, <2>6
  <1>9. CASE GatherErrors
    BY <1>9 DEF GatherErrors, dgVars, DPhases
  <1>10. ASSUME NEW t \in Test, ProgramEnds(t) PROVE FMTypes'
    BY <1>10 DEF ProgramEnds, DG!ProgramEnds, driverVars
  <1>11. CASE UNCHANGED fmVars
    BY <1>11 DEF fmVars, driverVars, dgVars
  <1>12. QED
    BY <1>1, <1>2, <1>3, <1>4, <1>5, <1>6, <1>7, <1>8, <1>9, <1>10, <1>11 DEF Next, Step, Ended

-----------------------------------------------------------------------------
\* The time budget.  A turn of the loop begins within the budget.  During
\* execute_klee either its first remaining_time was not positive, and the first
\* run is the last one, or remaining_time is what is left of the budget but for
\* what truncating the earlier runs of the iteration lost.
BudgetInv ==
  /\ dPhase = "loop" /\ iteration = 0 => clock = 0
  /\ dPhase \in {"data", "collect"} => final \/ clock < Total
  /\ dPhase \in {"extract", "weights", "execute"} => clock < Total
  /\ dPhase = "klee" =>
       \/ kleeWidx = 0 /\ remaining <= 0 /\ clock <= Total + MaxPrep - 1
       \/ remaining >= 0 /\ clock + Tps * remaining <= Total + kleeWidx * (Tps - 1)
  /\ OverrunBounded

\* The bound allows for the preparation and for what truncating may lose.
LEMMA OverrunCovers ==
  ASSUME NEW w \in Widx, NEW c \in Int,
         \/ c <= Total + MaxPrep - 1 + KleeSlack
         \/ c <= Total + w * (Tps - 1) + KleeSlack
  PROVE  c <= Total + Max({MaxPrep - 1, (NScores - 1) * (Tps - 1)}) + KleeSlack
  <1>1. /\ NScores \in Nat \ {0} /\ Tps \in Nat \ {0} /\ MaxPrep \in Nat \ {0}
        /\ KleeSlack \in Nat /\ Total \in Nat
    BY FeatMakerAssumption, TotalType
  <1>2. w \in Int /\ w <= NScores - 1 /\ Tps - 1 \in Nat /\ NScores - 1 \in Int
    BY <1>1 DEF Widx
  <1>3. w * (Tps - 1) <= (NScores - 1) * (Tps - 1)
    BY <1>2, MulMonotonic
  <1>4. PICK a \in Int : a = w * (Tps - 1)
    BY <1>2
  <1>5. PICK b \in Int : b = (NScores - 1) * (Tps - 1)
    BY <1>2
  <1>6. MaxPrep - 1 \in Int
    BY <1>1
  <1>9. PICK p \in Int : p = MaxPrep - 1
    BY <1>6
  <1>7. PICK m \in Int : m = Max({p, b}) /\ m >= p /\ m >= b
    BY MaxOfTwo
  <1>8. QED
    BY <1>1, <1>3, <1>4, <1>5, <1>7, <1>9

\* At the start no time has passed.
LEMMA InitBudget == Init => BudgetInv
  <1> SUFFICES ASSUME Init PROVE BudgetInv
    OBVIOUS
  <1>1. dPhase = "loop" /\ clock = 0
    BY DEF Init
  <1>2. 0 <= Total + MaxPrep - 1 + KleeSlack /\ 0 \in Widx
    BY TotalType, FeatMakerAssumption DEF Widx
  <1>3. OverrunBounded
    BY <1>1, <1>2, OverrunCovers DEF OverrunBounded
  <1>4. QED
    BY <1>1, <1>3 DEF BudgetInv

\* A KLEE run of execute_klee keeps to the bound, and leaves the remaining time
\* in step with the clock if another one follows.
LEMMA RunKleeBudget ==
  ASSUME FMTypes, BudgetInv, RunKlee
  PROVE  BudgetInv'
  <1>0. /\ NScores \in Nat \ {0} /\ Tps \in Nat \ {0} /\ MaxPrep \in Nat \ {0}
        /\ KleeSlack \in Nat \ {0} /\ Total \in Nat
        /\ clock \in Nat /\ remaining \in Int /\ kleeWidx \in Widx /\ kleeWidx \in Nat
        /\ iteration \in Nat
    BY FeatMakerAssumption, TotalType DEF FMTypes, Widx
  <1>1. PICK elapsed \in KleeDurations : clock' = clock + elapsed /\ remaining' = remaining - Seconds(elapsed)
    BY DEF RunKlee
  <1>2. /\ elapsed \in Nat \ {0}
        /\ remaining < 0 => elapsed = 1
        /\ remaining >= 0 => elapsed <= Tps * remaining + KleeSlack
    BY KleeTimes
  <1>3. PICK q \in Nat : q = Seconds(elapsed) /\ elapsed <= Tps * q + (Tps - 1)
    BY <1>2, SecondsBounds
  <1>4. PICK tr \in Int : tr = Tps * remaining
    BY <1>0
  <1>5. PICK tq \in Nat : tq = Tps * q
    BY <1>0, <1>3
  <1>6. PICK kt \in Nat : kt = kleeWidx * (Tps - 1)
    BY <1>0
  <1>7. dPhase = "klee"
    BY DEF RunKlee
  <1>8. CASE kleeWidx = 0 /\ remaining <= 0 /\ clock <= Total + MaxPrep - 1
    <2>1. elapsed <= KleeSlack
      BY <1>0, <1>2, <1>8
    <2>2. clock' <= Total + MaxPrep - 1 + KleeSlack /\ clock' \in Int
      BY <1>0, <1>1, <1>2, <1>8, <2>1
    <2>3. OverrunBounded'
      BY <1>0, <2>2, OverrunCovers DEF OverrunBounded, Total
    <2>4. remaining' <= 0
      BY <1>0, <1>1, <1>3, <1>8
    <2>5. dPhase' = "loop" /\ iteration' = iteration + 1
      BY <2>4 DEF RunKlee, LoopOver
    <2>6. QED
      BY <1>0, <2>3, <2>5 DEF BudgetInv
  <1>9. CASE remaining >= 0 /\ clock + Tps * remaining <= Total + kleeWidx * (Tps - 1)
    <2>1. clock' <= Total + kt + KleeSlack /\ clock' \in Int
      BY <1>0, <1>1, <1>2, <1>4, <1>6, <1>9
    <2>2. OverrunBounded'
      BY <1>0, <1>6, <2>1, OverrunCovers DEF OverrunBounded, Total
    <2>3. CASE LoopOver(remaining')
      <3>1. dPhase' = "loop" /\ iteration' = iteration + 1
        BY <2>3 DEF RunKlee
      <3>2. QED
        BY <1>0, <2>2, <3>1 DEF BudgetInv
    <2>4. CASE ~LoopOver(remaining')
      <3>1. dPhase' = "klee" /\ kleeWidx' = kleeWidx + 1 /\ remaining' \in Int /\ remaining' > 0
        BY <1>0, <1>1, <1>3, <1>7, <2>4 DEF RunKlee, LoopOver
      <3>2. kleeWidx' * (Tps - 1) = kt + (Tps - 1)
        BY <1>0, <1>6, <3>1
      <3>3. Tps * remaining' = tr - tq
        BY <1>0, <1>1, <1>3, <1>4, <1>5
      <3>4. clock' + Tps * remaining' <= Total + kleeWidx' * (Tps - 1)
        BY <1>0, <1>1, <1>2, <1>3, <1>4, <1>5, <1>6, <1>9, <3>2, <3>3
      <3>5. QED
        BY <2>2, <3>1, <3>4 DEF BudgetInv, Total
    <2>5. QED
      BY <2>3, <2>4
  <1>10. QED
    BY <1>7, <1>8, <1>9 DEF BudgetInv

\* execute_klee takes what is left of the budget after the preparation.
LEMMA ExecuteKleeBudget ==
  ASSUME FMTypes, BudgetInv, ExecuteKlee
  PROVE  BudgetInv'
  <1>0. /\ NScores \in Nat \ {0} /\ Tps \in Nat \ {0} /\ MaxPrep \in Nat \ {0}
        /\ KleeSlack \in Nat \ {0} /\ Total \in Nat /\ clock \in Nat /\ 0 \in Widx
    BY FeatMakerAssumption, TotalType DEF FMTypes, Widx
  <1>1. /\ clock < Total /\ clock' \in clock .. clock + MaxPrep /\ kleeWidx' = 0 /\ dPhase' = "klee"
        /\ remaining' = Seconds(Total - clock')
    BY DEF ExecuteKlee, BudgetInv
  <1>2. clock' \in Nat /\ clock' <= Total + MaxPrep - 1
    BY <1>0, <1>1
  <1>10. PICK c \in Nat : clock' = c
    BY <1>2
  <1>3. PICK x \in Int : Total - clock' = x
    BY <1>0, <1>10
  <1>11. PICK r \in Int : remaining' = r
    BY <1>1, <1>3, SecondsBounds
  <1>4. /\ remaining' \in Int
        /\ x >= 0 => remaining' >= 0 /\ Tps * remaining' <= x
        /\ x < 0 => remaining' <= 0
    BY <1>1, <1>3, SecondsBounds
  <1>5. clock' <= Total + MaxPrep - 1 + KleeSlack
    BY <1>0, <1>2
  <1>6. OverrunBounded'
    BY <1>0, <1>2, <1>5, OverrunCovers DEF OverrunBounded, Total
  <1>7. CASE x < 0
    BY <1>1, <1>2, <1>4, <1>6, <1>7 DEF BudgetInv, Total
  <1>8. CASE x >= 0
    <2>1. PICK tr \in Int : Tps * remaining' = tr
      BY <1>0, <1>11
    <2>2. kleeWidx' * (Tps - 1) = 0
      BY <1>0, <1>1
    <2>3. clock' + Tps * remaining' <= Total + kleeWidx' * (Tps - 1)
      <3>1. tr <= x
        BY <1>4, <1>8, <2>1
      <3>2. c + x = Total
        BY <1>0, <1>3, <1>10
      <3>3. c + tr <= Total + 0
        BY <1>0, <3>1, <3>2
      <3>4. QED
        BY <1>10, <2>1, <2>2, <3>3
    <2>4. QED
      BY <1>1, <1>4, <1>6, <1>8, <2>3 DEF BudgetInv, Total
  <1>9. QED
    BY <1>3, <1>7, <1>8

\* The loop condition lets a turn begin only within the budget.
LEMMA LoopTestBudget ==
  ASSUME FMTypes, BudgetInv, LoopTest
  PROVE  BudgetInv'
  <1>1. Total \in Nat /\ clock \in Nat /\ clock' = clock /\ dPhase' \in {"execute", "data"}
    BY TotalType DEF FMTypes, LoopTest, AfterLoopTest
  <1>2. OverrunBounded'
    BY <1>1 DEF BudgetInv, OverrunBounded, Total
  <1>3. CASE clock >= Total
    <2>1. final' = TRUE /\ dPhase' = "data"
      BY <1>3 DEF LoopTest, AfterLoopTest
    <2>2. QED
      BY <1>2, <2>1 DEF BudgetInv
  <1>4. CASE clock < Total
    BY <1>1, <1>2, <1>4 DEF BudgetInv, Total
  <1>5. QED
    BY <1>1, <1>3, <1>4

\* Only LoopTest, ExecuteKlee and RunKlee read or move the clock.
LEMMA BudgetStep == FMTypes /\ BudgetInv /\ [Next]_fmVars => BudgetInv'
  <1> SUFFICES ASSUME FMTypes, BudgetInv, [Next]_fmVars PROVE BudgetInv'
    OBVIOUS
  <1>1. CASE LoopTest
    BY <1>1, LoopTestBudget
  <1>2. CASE ExecuteKlee
    BY <1>2, ExecuteKleeBudget
  <1>3. CASE RunKlee
    BY <1>3, RunKleeBudget
  <1>4. CASE WriteErrors
    BY <1>4 DEF WriteErrors, BudgetInv, OverrunBounded, Total
  <1>5. CASE Collect
    <2>1. UNCHANGED <<clock, final, iteration>> /\ dPhase = "collect"
      BY <1>5 DEF Collect
    <2>2. CASE final
      BY <1>5, <2>1, <2>2 DEF Collect, BudgetInv, OverrunBounded, Total
    <2>3. CASE ~final
      BY <1>5, <2>1, <2>3 DEF Collect, BudgetInv, OverrunBounded, Total
    <2>4. QED
      BY <2>2, <2>3
  <1>6. CASE ExtractFeature
    BY <1>6 DEF ExtractFeature, BudgetInv, OverrunBounded, Total
  <1>7. CASE GenerateWeight
    BY <1>7 DEF GenerateWeight, BudgetInv, OverrunBounded, Total
  <1>8. CASE GatherErrors
    BY <1>8 DEF GatherErrors, BudgetInv, OverrunBounded, Total
  <1>9. CASE UNCHANGED driverVars
    BY <1>9 DEF driverVars, BudgetInv, OverrunBounded, Total
  <1>10. QED
    BY <1>1, <1>2, <1>3, <1>4, <1>5, <1>6, <1>7, <1>8, <1>9
    DEF Next, Step, ReplayTests, ProgramEnds, Ended, fmVars

\* KLEE never overruns the total budget by more than the bound.
THEOREM OverrunIsBounded == Spec => []OverrunBounded
  <1>1. BudgetInv => OverrunBounded
    BY DEF BudgetInv
  <1>2. QED
    BY <1>1, InitTypes, TypesStep, InitBudget, BudgetStep, PTL DEF Spec

-----------------------------------------------------------------------------
\* A dictionary of results credits no test with a branch that neither it nor a
\* replay that timed out takes, and every test that did not time out with all
\* its branches.
Credited(r) ==
  \A t \in DOMAIN r :
    /\ r[t] \ DG!Flushed(t) \subseteq DG!TakenBy(late)
    /\ t \notin late => DG!Flushed(t) \subseteq r[t]

\* run_replay and the gcda files.  Besides the program it waits for, only timed
\* out ones still run; the counters are theirs and those of the test being
\* measured, and complete once a replay in time is over.
ReplayInv ==
  /\ \A t \in running : t \in late \/ (dgPhase = "wait" /\ t = ktest)
  /\ \A b \in gcda : \/ b \in DG!TakenBy(late)
                     \/ dgPhase \in {"wait", "gcov", "rm"} /\ b \in DG!Flushed(ktest)
  /\ dgPhase = "wait" /\ ktest \notin running => DG!Flushed(ktest) \subseteq gcda
  /\ dgPhase = "gcov" /\ ktest \notin late => DG!Flushed(ktest) \subseteq gcda
  /\ Credited(coveredBranches)
  /\ \A w \in Widx : Credited(pkl[w])

\* More replays that timed out take more branches.
LEMMA TakenGrows ==
  /\ \A S, T : S \subseteq T => DG!TakenBy(S) \subseteq DG!TakenBy(T)
  /\ \A S : \A t \in S : DG!Flushed(t) \subseteq DG!TakenBy(S)
  BY DEF DG!TakenBy

\* Credit is kept when another replay times out.
LEMMA CreditGrows ==
  ASSUME NEW r, Credited(r), late \subseteq late'
  PROVE  \A t \in DOMAIN r :
           /\ r[t] \ DG!Flushed(t) \subseteq DG!TakenBy(late')
           /\ t \notin late' => DG!Flushed(t) \subseteq r[t]
  <1>1. DG!TakenBy(late) \subseteq DG!TakenBy(late')
    BY TakenGrows
  <1>2. QED
    BY <1>1 DEF Credited

\* At the start nothing runs and nothing was measured.
LEMMA InitReplay == Init => ReplayInv
  <1> SUFFICES ASSUME Init PROVE ReplayInv
    OBVIOUS
  <1>1. /\ dgPhase = "idle" /\ coveredBranches = DG!NoResult /\ running = {} /\ gcda = {}
        /\ pkl = [w \in Widx |-> DG!NoResult]
    BY DEF Init, DG!DGInit, Widx, DG!Widx
  <1>2. DOMAIN coveredBranches = {} /\ \A w \in Widx : DOMAIN pkl[w] = {}
    BY <1>1 DEF DG!NoResult
  <1>3. QED
    BY <1>1, <1>2 DEF ReplayInv, Credited

\* A step that neither replays nor lets a program end keeps the invariant.
LEMMA ReplayIdle ==
  ASSUME ReplayInv, UNCHANGED <<running, gcda, coveredBranches, pkl, late, ktest>>,
         dgPhase' = dgPhase \/ (dgPhase \notin {"wait", "gcov", "rm"} /\ dgPhase' \notin {"wait", "gcov"})
  PROVE  ReplayInv'
  <1>1. Credited(coveredBranches)' /\ \A w \in Widx : Credited(pkl[w])'
    BY DEF ReplayInv, Credited
  <1>2. QED
    BY <1>1 DEF ReplayInv

\* A program that ends adds its own branches, and it either timed out or is the
\* one being waited for.
LEMMA ProgramEndsReplay ==
  ASSUME ReplayInv, NEW t, DG!ProgramEnds(t)
  PROVE  ReplayInv'
  <1>1. /\ t \in running /\ running' = running \ {t} /\ gcda' = gcda \cup DG!Flushed(t)
        /\ UNCHANGED <<dgPhase, ktest, coveredBranches, pkl, late>>
    BY DEF DG!ProgramEnds, DG!replayVars
  <1>2. Credited(coveredBranches)' /\ \A w \in Widx : Credited(pkl[w])'
    BY <1>1 DEF ReplayInv, Credited
  <1>3. \A b \in gcda' : \/ b \in DG!TakenBy(late)
                         \/ dgPhase \in {"wait", "gcov", "rm"} /\ b \in DG!Flushed(ktest)
    <2>1. CASE t \in late
      BY <1>1, <2>1, TakenGrows DEF ReplayInv
    <2>2. CASE dgPhase = "wait" /\ t = ktest
      BY <1>1, <2>2 DEF ReplayInv
    <2>3. QED
      BY <1>1, <2>1, <2>2 DEF ReplayInv
  <1>4. dgPhase = "wait" /\ ktest \notin running' => DG!Flushed(ktest) \subseteq gcda'
    BY <1>1 DEF ReplayInv
  <1>5. QED
    BY <1>1, <1>2, <1>3, <1>4 DEF ReplayInv

\* TimeoutExpired: from now on the test counts as late.
LEMMA TimeoutReplay ==
  ASSUME ReplayInv, DG!TimeoutExpired
  PROVE  ReplayInv'
  <1>1. /\ dgPhase = "wait" /\ late' = late \cup {ktest} /\ dgPhase' = "gcov"
        /\ UNCHANGED <<ktest, coveredBranches, running, gcda, pkl>>
    BY DEF DG!TimeoutExpired, DG!replayVars, DG!procVars
  <1>2. Credited(coveredBranches)' /\ \A w \in Widx : Credited(pkl[w])'
    BY <1>1, CreditGrows DEF ReplayInv, Credited
  <1>3. DG!TakenBy(late) \subseteq DG!TakenBy(late')
    BY <1>1, TakenGrows
  <1>4. QED
    BY <1>1, <1>2, <1>3 DEF ReplayInv

\* gcov: what the counters hold is credited to the test.
LEMMA GcovReplay ==
  ASSUME ReplayInv, DG!Gcov
  PROVE  ReplayInv'
  <1>1. /\ dgPhase = "gcov" /\ dgPhase' = "rm"
        /\ coveredBranches' = [t \in DOMAIN coveredBranches \cup {ktest} |->
                                 IF t = ktest THEN gcda ELSE coveredBranches[t]]
        /\ UNCHANGED <<ktest, running, gcda, pkl, late>>
    BY DEF DG!Gcov, DG!procVars
  <1>2. \A w \in Widx : Credited(pkl[w])'
    BY <1>1 DEF ReplayInv, Credited
  <1>3. Credited(coveredBranches)'
    <2>1. SUFFICES ASSUME NEW t \in DOMAIN coveredBranches'
                   PROVE  /\ coveredBranches'[t] \ DG!Flushed(t) \subseteq DG!TakenBy(late)
                          /\ t \notin late => DG!Flushed(t) \subseteq coveredBranches'[t]
      BY <1>1 DEF Credited
    <2>2. CASE t = ktest
      <3>1. coveredBranches'[t] = gcda
        BY <1>1, <2>2
      <3>2. QED
        BY <1>1, <2>2, <3>1 DEF ReplayInv
    <2>3. CASE t # ktest
      <3>1. t \in DOMAIN coveredBranches /\ coveredBranches'[t] = coveredBranches[t]
        BY <1>1, <2>1, <2>3
      <3>2. QED
        BY <3>1 DEF ReplayInv, Credited
    <2>4. QED
      BY <2>2, <2>3
  <1>4. QED
    BY <1>1, <1>2, <1>3 DEF ReplayInv

\* Every step of generate_data keeps the invariant.
LEMMA ReplayLoopKeeps ==
  ASSUME FMTypes, ReplayInv, DG!ReplayLoop(results)
  PROVE  ReplayInv'
  <1>1. CASE DG!ListTests(results)
    <2>1. /\ dgPhase = "list" /\ dgPhase' = "next" /\ coveredBranches' = DG!NoResult
          /\ UNCHANGED <<ktest, running, gcda, pkl, late>>
      BY <1>1 DEF DG!ListTests, DG!procVars
    <2>2. DOMAIN coveredBranches' = {}
      BY <2>1 DEF DG!NoResult
    <2>3. \A w \in Widx : Credited(pkl[w])'
      BY <2>1 DEF ReplayInv, Credited
    <2>4. QED
      BY <2>1, <2>2, <2>3 DEF ReplayInv, Credited
  <1>2. CASE DG!Replay
    <2>1. /\ dgPhase = "next" /\ dgPhase' = "wait" /\ running' = running \cup {ktest'}
          /\ UNCHANGED <<gcda, coveredBranches, pkl, late>>
      BY <1>2 DEF DG!Replay
    <2>2. Credited(coveredBranches)' /\ \A w \in Widx : Credited(pkl[w])'
      BY <2>1 DEF ReplayInv, Credited
    <2>3. QED
      BY <2>1, <2>2 DEF ReplayInv
  <1>3. CASE DG!Communicate
    <2>1. /\ dgPhase = "wait" /\ ktest \notin running /\ dgPhase' = "gcov"
          /\ UNCHANGED <<ktest, running, gcda, coveredBranches, pkl, late>>
      BY <1>3 DEF DG!Communicate, DG!procVars, DG!replayVars
    <2>2. Credited(coveredBranches)' /\ \A w \in Widx : Credited(pkl[w])'
      BY <2>1 DEF ReplayInv, Credited
    <2>3. QED
      BY <2>1, <2>2 DEF ReplayInv
  <1>4. CASE DG!TimeoutExpired
    BY <1>4, TimeoutReplay
  <1>5. CASE DG!Gcov
    BY <1>5, GcovReplay
  <1>6. CASE DG!RemoveGcda
    <2>1. /\ dgPhase = "rm" /\ dgPhase' = "next" /\ gcda' = {}
          /\ UNCHANGED <<running, coveredBranches, pkl, late>>
      BY <1>6 DEF DG!RemoveGcda, DG!RemovedGcda
    <2>2. Credited(coveredBranches)' /\ \A w \in Widx : Credited(pkl[w])'
      BY <2>1 DEF ReplayInv, Credited
    <2>3. QED
      BY <2>1, <2>2 DEF ReplayInv
  <1>7. CASE DG!DumpResult
    <2>1. /\ dgPhase = "next" /\ dgPhase' \in {"list", "done"}
          /\ pkl' = [pkl EXCEPT ![dgWidx] = coveredBranches]
          /\ UNCHANGED <<ktest, running, gcda, coveredBranches, late>>
      BY <1>7 DEF DG!DumpResult, DG!Dumped, DG!procVars, DG!replayVars
    <2>2. \A w \in Widx : pkl'[w] = coveredBranches \/ pkl'[w] = pkl[w]
      BY <2>1 DEF FMTypes
    <2>3. Credited(coveredBranches)' /\ \A w \in Widx : Credited(pkl[w])'
      BY <2>1, <2>2 DEF ReplayInv, Credited
    <2>4. QED
      BY <2>1, <2>3 DEF ReplayInv
  <1>8. QED
    BY <1>1, <1>2, <1>3, <1>4, <1>5, <1>6, <1>7 DEF DG!ReplayLoop

\* Every step keeps the invariant of the replays.
LEMMA ReplayStep == FMTypes /\ ReplayInv /\ [Next]_fmVars => ReplayInv'
  <1> SUFFICES ASSUME FMTypes, ReplayInv, [Next]_fmVars PROVE ReplayInv'
    OBVIOUS
  <1>1. CASE LoopTest
    BY <1>1, ReplayIdle DEF LoopTest, DG!GenerateData, DG!replayVars, DG!procVars, dgVars
  <1>2. CASE ReplayTests
    BY <1>2, ReplayLoopKeeps DEF ReplayTests
  <1>3. ASSUME NEW t \in Test, ProgramEnds(t) PROVE ReplayInv'
    BY <1>3, ProgramEndsReplay DEF ProgramEnds
  <1>4. CASE UNCHANGED dgVars
    BY <1>4, ReplayIdle DEF dgVars
  <1>5. QED
    BY <1>1, <1>2, <1>3, <1>4
    DEF Next, Step, WriteErrors, Collect, ExtractFeature, GenerateWeight, ExecuteKlee, RunKlee,
        GatherErrors, Ended, fmVars

\* The coverage of a test is never mixed up with that of another one, except of
\* one whose replay was cut off, however late that program ends.
THEOREM CoverageIsAttributed == Spec => []CoverageAttributed
  <1>1. ReplayInv => CoverageAttributed
    BY DEF ReplayInv, Credited, CoverageAttributed, DG!Attributed
  <1>2. QED
    BY <1>1, InitTypes, TypesStep, InitReplay, ReplayStep, PTL DEF Spec

-----------------------------------------------------------------------------
\* The test cases of an iteration.  execute_klee starts from empty directories
\* and fills them in order; generate_data has pickled the runs before dgWidx and
\* accounts for every test case of run dgWidx.
ResultsInv ==
  /\ \A w \in Widx : results[w] \subseteq produced
  /\ dPhase = "loop" /\ iteration = 0 => produced = {}
  /\ dPhase = "klee" => \A w \in Widx : w >= kleeWidx => results[w] = {}
  /\ dPhase # "data" => dgPhase \in {"idle", "done"}
  /\ dPhase = "data" =>
       /\ \A w \in Widx : w < dgWidx \/ dgPhase = "done" => DOMAIN pkl[w] = results[w]
       /\ dgPhase \in {"next", "rm"} => results[dgWidx] = DOMAIN coveredBranches \cup ktestLst
       /\ dgPhase \in {"wait", "gcov"} =>
            results[dgWidx] = DOMAIN coveredBranches \cup ktestLst \cup {ktest}
  /\ PicklesFresh

\* At the start there are no test cases.
LEMMA InitResults == Init => ResultsInv
  BY DEF Init, DG!DGInit, ResultsInv, PicklesFresh

\* Every step of generate_data accounts for the test cases it takes up.
LEMMA ReplayLoopResults ==
  ASSUME FMTypes, ResultsInv, dPhase = "data", DG!ReplayLoop(results),
         UNCHANGED <<dPhase, iteration, results, produced, kleeWidx>>
  PROVE  ResultsInv'
  <1>0. dgWidx \in Widx /\ NScores \in Nat /\ Widx = 0 .. NScores - 1 /\ DOMAIN pkl = Widx
    BY FeatMakerAssumption DEF FMTypes, Widx
  <1>1. SUFFICES dPhase = "data" =>
          /\ \A w \in Widx : w < dgWidx' \/ dgPhase' = "done" => DOMAIN pkl'[w] = results[w]
          /\ dgPhase' \in {"next", "rm"} => results[dgWidx'] = DOMAIN coveredBranches' \cup ktestLst'
          /\ dgPhase' \in {"wait", "gcov"} =>
               results[dgWidx'] = DOMAIN coveredBranches' \cup ktestLst' \cup {ktest'}
    BY DEF ResultsInv, PicklesFresh
  <1>2. CASE DG!ListTests(results)
    <2>1. DOMAIN coveredBranches' = {}
      BY <1>2 DEF DG!ListTests, DG!NoResult
    <2>2. QED
      BY <1>2, <2>1 DEF DG!ListTests, ResultsInv
  <1>3. CASE DG!Replay
    BY <1>3 DEF DG!Replay, ResultsInv
  <1>4. CASE DG!Communicate
    BY <1>4 DEF DG!Communicate, DG!replayVars, ResultsInv
  <1>5. CASE DG!TimeoutExpired
    BY <1>5 DEF DG!TimeoutExpired, DG!replayVars, ResultsInv
  <1>6. CASE DG!Gcov
    BY <1>6 DEF DG!Gcov, ResultsInv
  <1>7. CASE DG!RemoveGcda
    BY <1>7 DEF DG!RemoveGcda, ResultsInv
  <1>8. CASE DG!DumpResult
    <2>1. /\ dgPhase = "next" /\ ktestLst = {} /\ pkl' = [pkl EXCEPT ![dgWidx] = coveredBranches]
          /\ dgPhase' \in {"list", "done"}
      BY <1>8 DEF DG!DumpResult, DG!Dumped
    <2>2. DOMAIN coveredBranches = results[dgWidx]
      BY <2>1 DEF ResultsInv
    <2>3. \A w \in Widx : w <= dgWidx => DOMAIN pkl'[w] = results[w]
      <3>1. SUFFICES ASSUME NEW w \in Widx, w <= dgWidx PROVE DOMAIN pkl'[w] = results[w]
        OBVIOUS
      <3>2. CASE w = dgWidx
        BY <1>0, <2>1, <2>2, <3>2
      <3>3. CASE w # dgWidx
        <4>1. w < dgWidx /\ pkl'[w] = pkl[w]
          BY <1>0, <2>1, <3>1, <3>3
        <4>2. QED
          BY <4>1 DEF ResultsInv
      <3>4. QED
        BY <3>2, <3>3
    <2>4. \/ dgWidx' = dgWidx + 1 /\ dgPhase' = "list"
          \/ dgPhase' = "done" /\ dgWidx' = dgWidx /\ dgWidx + 1 \notin Widx
      BY <1>8 DEF DG!DumpResult, DG!MoreRuns, DG!Widx, Widx
    <2>5. \A w \in Widx : w < dgWidx' \/ dgPhase' = "done" => w <= dgWidx
      BY <1>0, <2>4
    <2>6. QED
      BY <2>1, <2>3, <2>5
  <1>9. QED
    BY <1>2, <1>3, <1>4, <1>5, <1>6, <1>7, <1>8 DEF DG!ReplayLoop

\* A KLEE run fills its own, empty, directory.
LEMMA RunKleeResults ==
  ASSUME FMTypes, ResultsInv, RunKlee
  PROVE  /\ \A w \in Widx : results[w] \subseteq results'[w] /\ results'[w] \subseteq produced'
         /\ produced' = produced \cup results'[kleeWidx]
         /\ ResultsInv'
  <1>0. kleeWidx \in Widx /\ results \in [Widx -> SUBSET Test] /\ Widx \subseteq Int /\ dPhase = "klee"
    BY FeatMakerAssumption DEF FMTypes, Widx, RunKlee
  <1>1. PICK T : results' = [results EXCEPT ![kleeWidx] = T] /\ produced' = produced \cup T
    BY DEF RunKlee
  <1>2. results[kleeWidx] = {}
    BY <1>0 DEF ResultsInv
  <1>3. results'[kleeWidx] = T /\ \A w \in Widx \ {kleeWidx} : results'[w] = results[w]
    BY <1>0, <1>1
  <1>4. \A w \in Widx : results[w] \subseteq results'[w] /\ results'[w] \subseteq produced'
    BY <1>1, <1>2, <1>3 DEF ResultsInv
  <1>5. dPhase' = "klee" => \A w \in Widx : w >= kleeWidx' => results'[w] = {}
    <2>1. SUFFICES ASSUME dPhase' = "klee", NEW w \in Widx, w >= kleeWidx' PROVE results'[w] = {}
      OBVIOUS
    <2>2. kleeWidx' = kleeWidx + 1
      BY <2>1 DEF RunKlee
    <2>3. w # kleeWidx /\ w >= kleeWidx
      BY <1>0, <2>1, <2>2
    <2>4. QED
      BY <1>0, <1>3, <2>3 DEF ResultsInv
  <1>6. UNCHANGED dgVars /\ dPhase' \in {"klee", "loop"} /\ (dPhase' = "loop" => iteration' # 0)
    BY <1>0 DEF RunKlee, FMTypes
  <1>7. ResultsInv'
    BY <1>0, <1>4, <1>5, <1>6 DEF ResultsInv, PicklesFresh, dgVars
  <1>8. QED
    BY <1>1, <1>3, <1>4, <1>7

\* Every step keeps the test cases accounted for.
LEMMA ResultsStep == FMTypes /\ ResultsInv /\ [Next]_fmVars => ResultsInv'
  <1> SUFFICES ASSUME FMTypes, ResultsInv, [Next]_fmVars PROVE ResultsInv'
    OBVIOUS
  <1>1. CASE LoopTest
    <2>1. UNCHANGED <<results, produced, kleeWidx>> /\ dPhase = "loop" /\ dPhase' \in {"execute", "data"}
      BY <1>1 DEF LoopTest, AfterLoopTest
    <2>2. CASE dPhase' = "execute"
      <3>1. UNCHANGED dgVars
        BY <1>1, <2>2 DEF LoopTest
      <3>2. QED
        BY <2>1, <2>2, <3>1 DEF ResultsInv, PicklesFresh, dgVars
    <2>3. CASE dPhase' = "data"
      <3>1. dgPhase' = "list" /\ dgWidx' = 0
        BY <1>1, <2>3 DEF LoopTest, DG!GenerateData
      <3>2. \A w \in Widx : ~(w < 0)
        BY FeatMakerAssumption DEF Widx
      <3>3. QED
        BY <2>1, <2>3, <3>1, <3>2 DEF ResultsInv, PicklesFresh
    <2>4. QED
      BY <2>1, <2>2, <2>3
  <1>2. CASE ReplayTests
    BY <1>2, ReplayLoopResults DEF ReplayTests, driverVars
  <1>3. CASE WriteErrors
    BY <1>3 DEF WriteErrors, dgVars, ResultsInv, PicklesFresh
  <1>4. CASE Collect
    <2>1. UNCHANGED <<results, produced, kleeWidx, dgVars>> /\ dPhase = "collect"
          /\ dPhase' \in {"gather", "extract"}
      BY <1>4 DEF Collect
    <2>2. QED
      BY <2>1 DEF dgVars, ResultsInv, PicklesFresh
  <1>5. CASE ExtractFeature
    BY <1>5 DEF ExtractFeature, dgVars, ResultsInv, PicklesFresh
  <1>6. CASE GenerateWeight
    BY <1>6 DEF GenerateWeight, dgVars, ResultsInv, PicklesFresh
  <1>7. CASE ExecuteKlee
    <2>1. dPhase = "execute" /\ dPhase' = "klee" /\ UNCHANGED <<dgVars, produced>>
          /\ \A w \in Widx : results'[w] = {}
      BY <1>7 DEF ExecuteKlee
    <2>2. QED
      BY <2>1 DEF dgVars, ResultsInv, PicklesFresh
  <1>8. CASE RunKlee
    BY <1>8, RunKleeResults
  <1>9. CASE GatherErrors
    BY <1>9 DEF GatherErrors, dgVars, ResultsInv, PicklesFresh
  <1>10. ASSUME NEW t \in Test, ProgramEnds(t) PROVE ResultsInv'
    BY <1>10 DEF ProgramEnds, DG!ProgramEnds, DG!replayVars, driverVars, ResultsInv, PicklesFresh
  <1>11. CASE UNCHANGED fmVars
    BY <1>11 DEF fmVars, driverVars, dgVars, ResultsInv, PicklesFresh
  <1>12. QED
    BY <1>1, <1>2, <1>3, <1>4, <1>5, <1>6, <1>7, <1>8, <1>9, <1>10, <1>11 DEF Next, Step, Ended

\* collect never reads a pickle of an earlier iteration.
THEOREM PicklesAreFresh == Spec => []PicklesFresh
  <1>1. ResultsInv => PicklesFresh
    BY DEF ResultsInv
  <1>2. QED
    BY <1>1, InitTypes, TypesStep, InitResults, ResultsStep, PTL DEF Spec

-----------------------------------------------------------------------------
\* The errors of the iterations whose data has been generated.
Noted == UNION {errorsPkl[i] : i \in DOMAIN errorsPkl}

\* generate_data has not replayed test case t yet.
Waiting(t) ==
  /\ dgPhase # "done"
  /\ \E w \in Widx :
       /\ t \in results[w]
       /\ \/ w > dgWidx
          \/ w = dgWidx /\ (dgPhase = "list" \/ t \in ktestLst \/ (dgPhase = "wait" /\ t = ktest))

\* Where the error of a crashing test case is, or will still come from.
ErrorKept(t) ==
  \/ t \in late \/ t \in Noted
  \/ dPhase \in {"klee", "loop"} /\ \E w \in Widx : t \in results[w]
  \/ dPhase = "data" /\ (t \in potentialErrors \/ Waiting(t))

\* The number of error files follows the iterations, and no crash is lost on the
\* way from KLEE's output to error_inputs.txt.
ErrorsInv ==
  /\ Noted \subseteq produced \cap Crashes
  /\ potentialErrors \subseteq produced \cap Crashes
  /\ dPhase = "loop" => Len(errorsPkl) = (IF iteration = 0 THEN 0 ELSE iteration - 1)
  /\ dPhase = "data" => Len(errorsPkl) + 1 = iteration
  /\ dPhase \notin {"loop", "data"} => Len(errorsPkl) = iteration
  /\ dPhase # "died" => \A t \in produced \cap Crashes : ErrorKept(t)
  /\ dPhase = "done" => errorInputs = Noted

\* At the start there are no errors.
LEMMA InitErrors == Init => ErrorsInv
  <1> SUFFICES ASSUME Init PROVE ErrorsInv
    OBVIOUS
  <1>1. errorsPkl = <<>> /\ iteration = 0 /\ dPhase = "loop" /\ produced = {} /\ potentialErrors = {}
    BY DEF Init, DG!DGInit
  <1>2. Noted = {}
    BY <1>1 DEF Noted
  <1>3. Len(errorsPkl) = 0
    BY <1>1
  <1>4. QED
    BY <1>1, <1>2, <1>3 DEF ErrorsInv

\* Writing the errors of an iteration adds them to the noted ones.
LEMMA AppendNoted ==
  ASSUME FMTypes, errorsPkl' = Append(errorsPkl, potentialErrors)
  PROVE  Noted' = Noted \cup potentialErrors /\ Len(errorsPkl') = Len(errorsPkl) + 1
  <1>1. errorsPkl \in Seq(SUBSET Test) /\ potentialErrors \in SUBSET Test /\ Len(errorsPkl) \in Nat
    BY DEF FMTypes
  <1>2. PICK n \in Nat : n = Len(errorsPkl)
    BY <1>1
  <1>3. DOMAIN errorsPkl = 1..n /\ DOMAIN errorsPkl' = 1..(n + 1) /\ Len(errorsPkl') = n + 1
    BY <1>1, <1>2
  <1>4. errorsPkl'[n + 1] = potentialErrors /\ \A i \in 1..n : errorsPkl'[i] = errorsPkl[i]
    BY <1>1, <1>2
  <1>5. 1..(n + 1) = (1..n) \cup {n + 1}
    OBVIOUS
  <1>6. QED
    BY <1>2, <1>3, <1>4, <1>5 DEF Noted

\* A step of generate_data loses no crash: a test case leaves the waiting ones
\* noted or late.
LEMMA ReplayLoopErrors ==
  ASSUME FMTypes, ResultsInv, ErrorsInv, dPhase = "data", DG!ReplayLoop(results), UNCHANGED driverVars
  PROVE  ErrorsInv'
  <1>0. /\ UNCHANGED <<dPhase, iteration, results, produced, errorsPkl, errorInputs>>
        /\ dgWidx \in Widx /\ NScores \in Nat /\ Widx = 0 .. NScores - 1 /\ Noted' = Noted
    BY FeatMakerAssumption DEF FMTypes, Widx, driverVars, Noted
  <1>1. ktest \in Crashes /\ dgPhase = "wait" => ktest \in produced \cap Crashes
    <2>1. results[dgWidx] \subseteq produced
      BY <1>0 DEF ResultsInv
    <2>2. QED
      BY <2>1 DEF ResultsInv
  <1>2. /\ potentialErrors \subseteq potentialErrors'
        /\ potentialErrors' \subseteq produced \cap Crashes
        /\ late \subseteq late'
    BY <1>1 DEF ErrorsInv, DG!ReplayLoop, DG!ListTests, DG!Replay, DG!Communicate, DG!TimeoutExpired,
                DG!Gcov, DG!RemoveGcda, DG!DumpResult, DG!NotedErrors
  <1>3. ASSUME NEW t \in produced \cap Crashes, Waiting(t)
        PROVE  t \in late' \/ t \in potentialErrors' \/ Waiting(t)'
    <2>1. PICK w \in Widx :
            /\ t \in results[w]
            /\ \/ w > dgWidx
               \/ w = dgWidx /\ (dgPhase = "list" \/ t \in ktestLst \/ (dgPhase = "wait" /\ t = ktest))
      BY <1>3 DEF Waiting
    <2>2. CASE DG!ListTests(results)
      BY <1>0, <2>1, <2>2 DEF DG!ListTests, Waiting
    <2>3. CASE DG!Replay
      BY <1>0, <2>1, <2>3 DEF DG!Replay, Waiting
    <2>4. CASE DG!Communicate
      BY <1>0, <2>1, <2>4 DEF DG!Communicate, DG!replayVars, DG!NotedErrors, Waiting
    <2>5. CASE DG!TimeoutExpired
      BY <1>0, <2>1, <2>5 DEF DG!TimeoutExpired, DG!replayVars, Waiting
    <2>6. CASE DG!Gcov
      BY <1>0, <2>1, <2>6 DEF DG!Gcov, Waiting
    <2>7. CASE DG!RemoveGcda
      BY <1>0, <2>1, <2>7 DEF DG!RemoveGcda, Waiting
    <2>8. CASE DG!DumpResult
      <3>1. dgPhase = "next" /\ ktestLst = {}
        BY <2>8 DEF DG!DumpResult
      <3>2. w > dgWidx
        BY <2>1, <3>1
      <3>3. dgWidx + 1 \in Widx
        BY <1>0, <3>2
      <3>4. dgWidx' = dgWidx + 1 /\ dgPhase' = "list"
        BY <2>8, <3>3 DEF DG!DumpResult, DG!MoreRuns, DG!Widx, Widx
      <3>5. w > dgWidx' \/ w = dgWidx'
        BY <1>0, <3>2, <3>4
      <3>6. QED
        BY <1>0, <2>1, <3>4, <3>5 DEF Waiting
    <2>9. QED
      BY <2>2, <2>3, <2>4, <2>5, <2>6, <2>7, <2>8 DEF DG!ReplayLoop
  <1>4. \A t \in produced \cap Crashes : ErrorKept(t)'
    BY <1>0, <1>2, <1>3 DEF ErrorsInv, ErrorKept
  <1>5. QED
    BY <1>0, <1>2, <1>4 DEF ErrorsInv

\* The end of generate_data: no test case is waiting any more.
LEMMA WriteErrorsKeeps ==
  ASSUME FMTypes, ErrorsInv, WriteErrors
  PROVE  ErrorsInv'
  <1>1. /\ dPhase = "data" /\ dgPhase = "done" /\ dPhase' = "collect"
        /\ errorsPkl' = Append(errorsPkl, potentialErrors)
        /\ UNCHANGED <<iteration, results, produced, errorInputs, late, potentialErrors>>
    BY DEF WriteErrors, dgVars
  <1>2. Noted' = Noted \cup potentialErrors /\ Len(errorsPkl') = Len(errorsPkl) + 1
    BY <1>1, AppendNoted
  <1>3. \A t \in produced' \cap Crashes : ErrorKept(t)'
    BY <1>1, <1>2 DEF ErrorsInv, ErrorKept, Waiting
  <1>4. QED
    BY <1>1, <1>2, <1>3 DEF ErrorsInv

\* What KLEE writes is pending until the data of its iteration is generated.
LEMMA RunKleeErrors ==
  ASSUME FMTypes, ResultsInv, ErrorsInv, RunKlee
  PROVE  ErrorsInv'
  <1>1. /\ dPhase = "klee" /\ dPhase' \in {"klee", "loop"}
        /\ UNCHANGED <<errorsPkl, errorInputs, late, potentialErrors>>
        /\ dPhase' = "loop" => iteration' = iteration + 1
        /\ dPhase' = "klee" => iteration' = iteration
    BY DEF RunKlee, dgVars
  <1>2. /\ \A w \in Widx : results[w] \subseteq results'[w]
        /\ produced' = produced \cup results'[kleeWidx] /\ kleeWidx \in Widx
    BY RunKleeResults DEF FMTypes
  <1>3. Noted' = Noted
    BY <1>1 DEF Noted
  <1>4. \A t \in produced' \cap Crashes : ErrorKept(t)'
    BY <1>1, <1>2, <1>3 DEF ErrorsInv, ErrorKept
  <1>5. iteration \in Nat /\ Len(errorsPkl) = iteration
    BY <1>1 DEF FMTypes, ErrorsInv
  <1>6. (dPhase = "loop" => Len(errorsPkl) = (IF iteration = 0 THEN 0 ELSE iteration - 1))'
    BY <1>1, <1>5
  <1>7. QED
    BY <1>1, <1>2, <1>3, <1>4, <1>5, <1>6 DEF ErrorsInv

\* The loop ends, or takes another turn, with the last iteration still to be
\* replayed; before the first turn there is nothing to replay.
LEMMA LoopTestErrors ==
  ASSUME FMTypes, ResultsInv, BudgetInv, ErrorsInv, LoopTest
  PROVE  ErrorsInv'
  <1>1. /\ dPhase = "loop" /\ dPhase' \in {"execute", "data"}
        /\ UNCHANGED <<iteration, results, produced, errorsPkl, errorInputs>>
    BY DEF LoopTest, AfterLoopTest
  <1>2. Noted' = Noted /\ iteration \in Nat
    BY <1>1 DEF Noted, FMTypes
  <1>3. dPhase' = "execute" => iteration = 0
    BY DEF LoopTest, AfterLoopTest
  <1>4. CASE dPhase' = "data"
    <2>1. dgPhase' = "list" /\ dgWidx' = 0 /\ potentialErrors' = {} /\ late' = late
      BY <1>1, <1>4 DEF LoopTest, DG!GenerateData
    <2>2. iteration # 0
      <3>1. SUFFICES ASSUME iteration = 0 PROVE FALSE
        OBVIOUS
      <3>2. clock = 0 /\ ~(clock >= Total)
        BY <1>1, <3>1, TotalType DEF BudgetInv
      <3>3. QED
        BY <1>4, <3>1, <3>2 DEF LoopTest, AfterLoopTest
    <2>3. \A w \in Widx : w > 0 \/ w = 0
      BY FeatMakerAssumption DEF Widx
    <2>4. \A t \in produced' \cap Crashes : ErrorKept(t)'
      BY <1>1, <1>2, <1>4, <2>1, <2>3 DEF ErrorsInv, ErrorKept, Waiting
    <2>5. Len(errorsPkl) = iteration - 1
      BY <1>1, <2>2 DEF ErrorsInv
    <2>6. QED
      BY <1>1, <1>2, <1>4, <2>1, <2>2, <2>4, <2>5 DEF ErrorsInv
  <1>5. CASE dPhase' = "execute"
    <2>1. UNCHANGED dgVars
      BY <1>5 DEF LoopTest
    <2>2. produced = {}
      BY <1>1, <1>3, <1>5 DEF ResultsInv
    <2>3. QED
      BY <1>1, <1>2, <1>3, <1>5, <2>1, <2>2 DEF ErrorsInv, dgVars
  <1>6. QED
    BY <1>1, <1>4, <1>5

\* Every step keeps the errors together.
LEMMA ErrorsStep == FMTypes /\ ResultsInv /\ BudgetInv /\ ErrorsInv /\ [Next]_fmVars => ErrorsInv'
  <1> SUFFICES ASSUME FMTypes, ResultsInv, BudgetInv, ErrorsInv, [Next]_fmVars PROVE ErrorsInv'
    OBVIOUS
  <1>1. CASE LoopTest
    BY <1>1, LoopTestErrors
  <1>2. CASE ReplayTests
    BY <1>2, ReplayLoopErrors DEF ReplayTests
  <1>3. CASE WriteErrors
    BY <1>3, WriteErrorsKeeps
  <1>4. CASE Collect
    <2>1. /\ dPhase = "collect" /\ dPhase' \in {"gather", "extract"}
          /\ UNCHANGED <<iteration, produced, errorsPkl, late, potentialErrors>>
      BY <1>4 DEF Collect, dgVars
    <2>2. Noted' = Noted
      BY <2>1 DEF Noted
    <2>3. QED
      BY <2>1, <2>2 DEF ErrorsInv, ErrorKept
  <1>5. CASE ExtractFeature
    <2>1. /\ dPhase = "extract" /\ dPhase' \in {"weights", "died", "extract"}
          /\ UNCHANGED <<iteration, produced, errorsPkl, late, potentialErrors>>
      BY <1>5 DEF ExtractFeature, dgVars
    <2>2. Noted' = Noted
      BY <2>1 DEF Noted
    <2>3. QED
      BY <2>1, <2>2 DEF ErrorsInv, ErrorKept
  <1>6. CASE GenerateWeight
    <2>1. /\ dPhase = "weights" /\ dPhase' \in {"died", "execute"}
          /\ UNCHANGED <<iteration, produced, errorsPkl, late, potentialErrors>>
      BY <1>6 DEF GenerateWeight, dgVars
    <2>2. Noted' = Noted
      BY <2>1 DEF Noted
    <2>3. QED
      BY <2>1, <2>2 DEF ErrorsInv, ErrorKept
  <1>7. CASE ExecuteKlee
    <2>1. /\ dPhase = "execute" /\ dPhase' = "klee"
          /\ UNCHANGED <<iteration, produced, errorsPkl, late, potentialErrors>>
      BY <1>7 DEF ExecuteKlee, dgVars
    <2>2. Noted' = Noted
      BY <2>1 DEF Noted
    <2>3. QED
      BY <2>1, <2>2 DEF ErrorsInv, ErrorKept
  <1>8. CASE RunKlee
    BY <1>8, RunKleeErrors
  <1>9. CASE GatherErrors
    <2>1. /\ dPhase = "gather" /\ dPhase' = "done"
          /\ UNCHANGED <<iteration, produced, errorsPkl, late, potentialErrors>>
          /\ errorInputs' = UNION {errorsPkl[i] : i \in ErrorFiles \cap DOMAIN errorsPkl}
      BY <1>9 DEF GatherErrors, dgVars
    <2>2. DOMAIN errorsPkl = 1 .. iteration
      BY <2>1 DEF ErrorsInv, FMTypes
    <2>3. Noted' = Noted /\ errorInputs' = Noted
      BY <2>1, <2>2 DEF Noted, ErrorFiles
    <2>4. QED
      BY <2>1, <2>3 DEF ErrorsInv, ErrorKept
  <1>10. ASSUME NEW p \in Test, ProgramEnds(p) PROVE ErrorsInv'
    <2>1. UNCHANGED <<driverVars, dgPhase, dgWidx, ktestLst, ktest, late, potentialErrors>>
      BY <1>10 DEF ProgramEnds, DG!ProgramEnds, DG!replayVars
    <2>2. QED
      BY <2>1 DEF driverVars, ErrorsInv, ErrorKept, Waiting, Noted
  <1>11. CASE UNCHANGED fmVars
    BY <1>11 DEF fmVars, driverVars, dgVars, ErrorsInv, ErrorKept, Waiting, Noted
  <1>12. QED
    BY <1>1, <1>2, <1>3, <1>4, <1>5, <1>6, <1>7, <1>8, <1>9, <1>10, <1>11 DEF Next, Step, Ended

\* error_inputs.txt lists crashes only, and every one whose replay was not cut
\* off, of every iteration.
THEOREM ErrorsAreReported == Spec => []ReportedErrors
  <1>1. ErrorsInv => ReportedErrors
    BY DEF ErrorsInv, ErrorKept, ReportedErrors
  <1>2. QED
    BY <1>1, InitTypes, TypesStep, InitResults, ResultsStep, InitBudget, BudgetStep,
       InitErrors, ErrorsStep, PTL DEF Spec

-----------------------------------------------------------------------------
\* Where the branches of a test case with a path condition are, or will still
\* come from.
CoverageKept(t) ==
  \/ DG!Flushed(t) \subseteq branches
  \/ dPhase \in {"klee", "loop", "data", "collect"} /\ \E w \in Widx : t \in results[w]

\* The accumulated branches are taken by test cases, and as long as no replay was
\* cut off no branch is lost on the way from KLEE's output to data["branches"].
CoverageInv ==
  /\ round \in Nat /\ (round = 0 => branches = {})
  /\ late \subseteq produced
  /\ branches \subseteq DG!TakenBy(produced)
  /\ late = {} /\ dPhase # "died" =>
       \A t \in produced : FG!GetPc(t) # {} => CoverageKept(t)

\* At the start nothing is covered.
LEMMA InitCoverage == Init => CoverageInv
  BY DEF Init, DG!DGInit, FG!FGInit, CoverageInv

\* collect adds up the pickles of the iteration.
LEMMA CollectCoverage ==
  ASSUME FMTypes, ReplayInv, ResultsInv, CoverageInv, Collect
  PROVE  CoverageInv'
  <1>1. dPhase = "collect" /\ UNCHANGED <<results, produced, late, pkl>> /\ FG!Collect(pkl)
    BY DEF Collect, dgVars
  <1> DEFINE now == UNION {FG!TrialBranches(pkl[w]) : w \in Widx}
  <1>2. branches' = branches \cup now /\ round' = round + 1
    <2>1. round \in Nat /\ UNION {[v \in Widx |-> FG!TrialBranches(pkl[v])][w] : w \in Widx} = now
      BY DEF CoverageInv
    <2>2. branches' = (IF round + 1 <= 1 THEN {} ELSE branches) \cup now /\ round' = round + 1
      BY <1>1, <2>1 DEF FG!Collect, FG!Accumulated, FG!Widx, Widx
    <2>3. QED
      BY <2>1, <2>2 DEF CoverageInv
  <1>3. \A w \in Widx : DOMAIN pkl[w] = results[w] /\ results[w] \subseteq produced
    BY <1>1 DEF ResultsInv, PicklesFresh
  <1>4. now \subseteq DG!TakenBy(produced)
    <2>1. SUFFICES ASSUME NEW w \in Widx, NEW b \in FG!TrialBranches(pkl[w])
                   PROVE  b \in DG!TakenBy(produced)
      OBVIOUS
    <2>2. PICK t \in DOMAIN pkl[w] : b \in pkl[w][t]
      BY <2>1 DEF FG!TrialBranches, FG!Counted
    <2>3. b \in DG!Flushed(t) \/ b \in DG!TakenBy(late)
      BY <2>2 DEF ReplayInv, Credited
    <2>4. QED
      BY <1>3, <2>2, <2>3, TakenGrows DEF CoverageInv
  <1>5. ASSUME late = {}, NEW t \in produced, FG!GetPc(t) # {} PROVE DG!Flushed(t) \subseteq branches'
    <2>1. CASE DG!Flushed(t) \subseteq branches
      BY <1>2, <2>1
    <2>2. CASE \E w \in Widx : t \in results[w]
      <3>1. PICK w \in Widx : t \in DOMAIN pkl[w]
        BY <1>3, <2>2
      <3>2. DG!Flushed(t) \subseteq pkl[w][t]
        BY <1>5, <3>1 DEF ReplayInv, Credited
      <3>3. t \in FG!Counted(pkl[w])
        BY <1>5, <3>1 DEF FG!Counted
      <3>4. pkl[w][t] \subseteq FG!TrialBranches(pkl[w])
        BY <3>3 DEF FG!TrialBranches
      <3>5. QED
        BY <1>2, <3>2, <3>4
    <2>3. QED
      BY <1>1, <1>5, <2>1, <2>2 DEF CoverageInv, CoverageKept
  <1> HIDE DEF now
  <1>6. QED
    BY <1>1, <1>2, <1>4, <1>5 DEF CoverageInv, CoverageKept

\* A replay that times out is one of a test case KLEE wrote.
LEMMA ReplayLoopCoverage ==
  ASSUME FMTypes, ResultsInv, CoverageInv, dPhase = "data", DG!ReplayLoop(results),
         UNCHANGED <<driverVars, branches, round>>
  PROVE  CoverageInv'
  <1>0. UNCHANGED <<dPhase, results, produced>> /\ dgWidx \in Widx
    BY DEF FMTypes, driverVars
  <1>1. dgPhase = "wait" => ktest \in produced
    <2>1. results[dgWidx] \subseteq produced
      BY <1>0 DEF ResultsInv
    <2>2. QED
      BY <2>1 DEF ResultsInv
  <1>2. late \subseteq late' /\ late' \subseteq produced
    BY <1>1 DEF CoverageInv, DG!ReplayLoop, DG!ListTests, DG!Replay, DG!Communicate, DG!TimeoutExpired,
                DG!Gcov, DG!RemoveGcda, DG!DumpResult
  <1>3. QED
    BY <1>0, <1>2 DEF CoverageInv, CoverageKept

\* What KLEE writes is pending until it is collected.
LEMMA RunKleeCoverage ==
  ASSUME FMTypes, ResultsInv, CoverageInv, RunKlee
  PROVE  CoverageInv'
  <1>1. /\ dPhase = "klee" /\ dPhase' \in {"klee", "loop"} /\ UNCHANGED <<late, branches, round>>
    BY DEF RunKlee, dgVars, fgVars
  <1>2. /\ \A w \in Widx : results[w] \subseteq results'[w]
        /\ produced' = produced \cup results'[kleeWidx] /\ kleeWidx \in Widx
    BY RunKleeResults DEF FMTypes
  <1>3. DG!TakenBy(produced) \subseteq DG!TakenBy(produced')
    BY <1>2, TakenGrows
  <1>4. QED
    BY <1>1, <1>2, <1>3 DEF CoverageInv, CoverageKept

\* Every step keeps the coverage together.
LEMMA CoverageStep ==
  FMTypes /\ ReplayInv /\ ResultsInv /\ CoverageInv /\ [Next]_fmVars => CoverageInv'
  <1> SUFFICES ASSUME FMTypes, ReplayInv, ResultsInv, CoverageInv, [Next]_fmVars PROVE CoverageInv'
    OBVIOUS
  <1>1. CASE LoopTest
    <2>1. UNCHANGED <<results, produced, branches, round, late>> /\ dPhase = "loop"
          /\ dPhase' \in {"data", "execute"} /\ (dPhase' = "execute" => iteration = 0)
      BY <1>1 DEF LoopTest, AfterLoopTest, fgVars, dgVars, DG!GenerateData
    <2>2. dPhase' = "execute" => produced = {}
      BY <2>1 DEF ResultsInv
    <2>3. QED
      BY <2>1, <2>2 DEF CoverageInv, CoverageKept
  <1>2. CASE ReplayTests
    BY <1>2, ReplayLoopCoverage DEF ReplayTests, fgVars
  <1>3. CASE WriteErrors
    BY <1>3 DEF WriteErrors, dgVars, fgVars, CoverageInv, CoverageKept
  <1>4. CASE Collect
    BY <1>4, CollectCoverage
  <1>5. CASE ExtractFeature
    <2>1. UNCHANGED <<branches, round>>
      BY <1>5 DEF ExtractFeature, FG!Extraction, FG!StartCover, FG!CoverStep, FG!ExtractFeature,
                  FG!ExtractNaive, FG!dataVars
    <2>2. dPhase = "extract" /\ UNCHANGED <<produced, late>>
      BY <1>5 DEF ExtractFeature, dgVars
    <2>3. QED
      BY <2>1, <2>2 DEF CoverageInv, CoverageKept
  <1>6. CASE GenerateWeight
    <2>1. dPhase = "weights" /\ UNCHANGED <<produced, late, branches, round>>
      BY <1>6 DEF GenerateWeight, dgVars, fgVars
    <2>2. QED
      BY <2>1 DEF CoverageInv, CoverageKept
  <1>7. CASE ExecuteKlee
    <2>1. dPhase = "execute" /\ UNCHANGED <<produced, late, branches, round>>
      BY <1>7 DEF ExecuteKlee, dgVars, fgVars
    <2>2. QED
      BY <2>1 DEF CoverageInv, CoverageKept
  <1>8. CASE RunKlee
    BY <1>8, RunKleeCoverage
  <1>9. CASE GatherErrors
    <2>1. dPhase = "gather" /\ UNCHANGED <<produced, late, branches, round>>
      BY <1>9 DEF GatherErrors, dgVars, fgVars
    <2>2. QED
      BY <2>1 DEF CoverageInv, CoverageKept
  <1>10. ASSUME NEW p \in Test, ProgramEnds(p) PROVE CoverageInv'
    BY <1>10 DEF ProgramEnds, DG!ProgramEnds, driverVars, fgVars, CoverageInv, CoverageKept
  <1>11. CASE UNCHANGED fmVars
    BY <1>11 DEF fmVars, driverVars, dgVars, fgVars, CoverageInv, CoverageKept
  <1>12. QED
    BY <1>1, <1>2, <1>3, <1>4, <1>5, <1>6, <1>7, <1>8, <1>9, <1>10, <1>11 DEF Next, Step, Ended

\* The reported coverage holds no branch that no test case takes, and if no
\* replay was cut off every branch of the test cases with a path condition.
THEOREM CoverageIsReported == Spec => []ReportedCoverage
  <1>1. CoverageInv => ReportedCoverage
    <2>1. SUFFICES ASSUME CoverageInv, dPhase = "done", late = {},
                          NEW b \in DG!TakenBy({t \in produced : FG!GetPc(t) # {}})
                   PROVE  b \in branches
      BY DEF ReportedCoverage, CoverageInv
    <2>2. PICK t \in produced : FG!GetPc(t) # {} /\ b \in DG!Flushed(t)
      BY <2>1 DEF DG!TakenBy
    <2>3. QED
      BY <2>1, <2>2 DEF CoverageInv, CoverageKept
  <1>2. QED
    BY <1>1, InitTypes, TypesStep, InitReplay, ReplayStep, InitResults, ResultsStep,
       InitCoverage, CoverageStep, PTL DEF Spec

-----------------------------------------------------------------------------
(* The components at work in the driver.  What FeatureGeneratorProofs and   *)
(* WeightGeneratorProofs show of a component in its own environment holds  *)
(* of the component that the driver calls: their lemmas are cited as       *)
(* instances, with what the driver passes for their inputs.                *)

\* Features, with the driver's constants.
FGP == INSTANCE FeatureGeneratorProofs WITH MaxRound <- TotalTime * Tps
\* Weights: the features are lines.
WGP == INSTANCE WeightGeneratorProofs
         WITH Feature <- Line, RunInfos <- {}, MaxWgIteration <- TotalTime * Tps

\* The driver's constants are as the features' assume them.
LEMMA FeatureConstants == FGP!FeatureGeneratorAssumption
  <1>1. FGP!IsFiniteSet(Branch) /\ FGP!IsFiniteSet(Test)
    BY FeatMakerAssumption, SMT DEF IsFiniteSet, FGP!IsFiniteSet
  <1>2. QED
    BY <1>1, FeatMakerAssumption, Zenon DEF FGP!FeatureGeneratorAssumption

\* So are the branches of the tests.
LEMMA BranchConstants == FGP!BranchesOfAssumption
  BY FeatMakerAssumption DEF FGP!BranchesOfAssumption

\* The driver's constants are as the weights' assume them.
LEMMA WeightConstants == WGP!WeightGeneratorAssumption
  BY FeatMakerAssumption DEF WGP!WeightGeneratorAssumption

\* The features are lines, and there are finitely many.
LEMMA LineConstants == WGP!FeatureAssumption
  BY FeatMakerAssumption, SMT DEF WGP!FeatureAssumption, IsFiniteSet, WGP!IsFiniteSet

\* fg.collect, as the driver calls it, is the step the component's proofs are about.
LEMMA SameCollect ==
  ASSUME NEW p, FG!Collect(p)
  PROVE  FGP!Collect(p)
  BY DEF FG!Collect, FGP!Collect, FG!MergeClusters, FGP!MergeClusters, FG!Accumulated,
         FGP!Accumulated, FG!PlotPoint, FGP!PlotPoint, FG!RunInfo, FGP!RunInfo, FG!TrialBranches,
         FGP!TrialBranches, FG!Counted, FGP!Counted, FG!BranchSets, FGP!BranchSets, FG!MembersOf,
         FGP!MembersOf, FG!Member, FGP!Member, FG!GetPc, FGP!GetPc, FG!Widx, FGP!Widx,
         FG!coverVars, FGP!coverVars, FG!Cardinality, FGP!Cardinality

\* So is every step of fg.extract_feature.
LEMMA SameExtraction == FG!Extraction => FGP!Extraction
  BY DEF FG!Extraction, FGP!Extraction, FG!StartCover, FGP!StartCover, FG!CoverStep, FGP!CoverStep,
         FG!ExtractFeature, FGP!ExtractFeature, FG!ExtractNaive, FGP!ExtractNaive,
         FG!BestClusters, FGP!BestClusters, FG!NewBranches, FGP!NewBranches, FG!CoverDone,
         FGP!CoverDone, FG!Abstracted, FGP!Abstracted, FG!NaiveLines, FGP!NaiveLines,
         FG!dataVars, FGP!dataVars, FG!coverVars, FGP!coverVars, FG!Cardinality, FGP!Cardinality

\* And the state it starts from.
LEMMA SameFeatureInit == FG!FGInit => FGP!FGInit
  BY DEF FG!FGInit, FGP!FGInit, FG!Widx, FGP!Widx

\* wg.generate_weight of the learning mode.
LEMMA SameWeight ==
  ASSUME NEW F, NEW enc, NEW info, WG!GenerateWeight(F, enc, info)
  PROVE  WGP!GenerateWeight(F, enc, info)
  BY DEF WG!GenerateWeight, WGP!GenerateWeight, WG!ToSet, WGP!ToSet, WG!FreshWeights, WGP!FreshWeights,
     WG!WriteFiles, WGP!WriteFiles, WG!KMeansLabels, WGP!KMeansLabels, WG!GetScores, WGP!GetScores,
     WG!Learn, WGP!Learn, WG!SetToSeqs, WGP!SetToSeqs, WG!Matrices, WGP!Matrices, WG!UniformRows, WGP!UniformRows,
     WG!NoLesson, WGP!NoLesson, WG!LearnedRows, WGP!LearnedRows, WG!RowOf, WGP!RowOf, WG!MetColumns, WGP!MetColumns,
     WG!Clipped, WGP!Clipped, WG!Clip, WGP!Clip, WG!NegatedRows, WGP!NegatedRows, WG!Abs, WGP!Abs,
     WG!NormalRows, WGP!NormalRows, WG!Values, WGP!Values, WG!Dissimilar, WGP!Dissimilar,
     WG!FeatureLines, WGP!FeatureLines, WG!WeightLines, WGP!WeightLines, WG!FileColumn, WGP!FileColumn,
     WG!Widx, WGP!Widx, WG!Cardinality, WGP!Cardinality, WG!Max, WGP!Max

\* wg.generate_weight of the naive mode.
LEMMA SameRandom ==
  ASSUME NEW F, WG!GenerateRandomWeight(F)
  PROVE  WGP!GenerateRandomWeight(F)
  BY DEF WG!GenerateRandomWeight, WGP!GenerateRandomWeight, WG!SetToSeqs, WGP!SetToSeqs,
     WG!ToSet, WGP!ToSet, WG!Widx, WGP!Widx, WG!Cardinality, WGP!Cardinality

\* The weights start as their proofs have it.
LEMMA SameWeightInit == WG!WGInit => WGP!WGInit
  BY DEF WG!WGInit, WGP!WGInit, WG!Widx, WGP!Widx, WG!NoLesson, WGP!NoLesson

\* The files agree in the driver's sense if they do in the component's.
LEMMA SameFiles == WGP!FilesAgree <=> WG!FilesAgree
  BY DEF WG!FilesAgree, WGP!FilesAgree, WG!RowOf, WGP!RowOf, WG!IsInjective, WGP!IsInjective,
         WG!Widx, WGP!Widx

-----------------------------------------------------------------------------
\* What collect reads: pickles of tests KLEE wrote, credited with branches of the
\* program, also where a late replay left its branches behind.
LEMMA PicklesReadable ==
  ASSUME FMTypes, ReplayInv, ResultsInv, CoverageInv, dPhase = "collect"
  PROVE  /\ FGP!InProgram(pkl)
         /\ \A w \in Widx : DOMAIN pkl[w] \subseteq Test
  <1>1. \A w \in Widx : DOMAIN pkl[w] = results[w] /\ results[w] \subseteq produced
    BY DEF ResultsInv, PicklesFresh
  <1>2. produced \subseteq Test /\ late \subseteq Test
    BY DEF FMTypes, CoverageInv
  <1>3. \A t \in Test : DG!Flushed(t) \subseteq Branch
    BY FeatMakerAssumption DEF DG!Flushed
  <1>4. DG!TakenBy(late) \subseteq Branch
    BY <1>2, <1>3 DEF DG!TakenBy
  <1>5. ASSUME NEW w \in Widx, NEW t \in DOMAIN pkl[w] PROVE pkl[w][t] \subseteq Branch
    <2>1. pkl[w][t] \ DG!Flushed(t) \subseteq DG!TakenBy(late)
      BY <1>5 DEF ReplayInv, Credited
    <2>2. DG!Flushed(t) \subseteq Branch
      BY <1>1, <1>2, <1>3, <1>5
    <2>3. QED
      BY <1>4, <2>1, <2>2
  <1>6. FGP!InProgram(pkl)
    BY <1>5 DEF FGP!InProgram, FGP!Widx, Widx
  <1>7. QED
    BY <1>1, <1>2, <1>6

\* The invariants of the driver that what it passes to its components rests on.
DriverInv == FMTypes /\ ReplayInv /\ ResultsInv /\ CoverageInv

\* At most one component moves in a step of the driver, and this is what the
\* clusters see of it.
LEMMA FeatureSteps ==
  ASSUME DriverInv, [Next]_fmVars
  PROVE  \/ FGP!InProgram(pkl) /\ (\A w \in Widx : DOMAIN pkl[w] \subseteq Test) /\ FGP!Collect(pkl)
         \/ FGP!Extraction
         \/ UNCHANGED fgVars
  <1>1. CASE Collect
    BY <1>1, PicklesReadable, SameCollect DEF Collect, DriverInv
  <1>2. CASE ExtractFeature
    BY <1>2, SameExtraction DEF ExtractFeature
  <1>3. CASE UNCHANGED fgVars
    BY <1>3
  <1>4. QED
    BY <1>1, <1>2, <1>3 DEF Next, Step, Ended, fmVars, LoopTest, ReplayTests, WriteErrors, GenerateWeight,
         ExecuteKlee, RunKlee, GatherErrors, ProgramEnds

\* The invariant of the features holds of the ones the driver extracts.
LEMMA DriverFeatures ==
  /\ Init => FGP!FGInv
  /\ DriverInv /\ FGP!FGInv /\ [Next]_fmVars => FGP!FGInv'
  <1>1. Init => FGP!FGInv
    BY SameFeatureInit, FeatureConstants, BranchConstants, FGP!InitFGInv DEF Init
  <1>2. ASSUME DriverInv, FGP!FGInv, [Next]_fmVars PROVE FGP!FGInv'
    <2>1. CASE FGP!InProgram(pkl) /\ FGP!Collect(pkl)
      BY <1>2, <2>1, FeatureConstants, BranchConstants, FGP!CollectKeepsClusters
    <2>2. CASE FGP!Extraction
      BY <1>2, <2>2, FeatureConstants, BranchConstants, FGP!ExtractionKeepsInv
    <2>3. CASE UNCHANGED fgVars
      <3>1. UNCHANGED FGP!fgVars
        BY <2>3 DEF fgVars, FGP!fgVars, FGP!dataVars, FGP!coverVars
      <3>2. QED
        BY <1>2, <3>1, FeatureConstants, BranchConstants, FGP!FGInvInductive
    <2>4. QED
      BY <1>2, <2>1, <2>2, <2>3, FeatureSteps
  <1>3. QED
    BY <1>1, <1>2

\* The driver's own invariants, together.
LEMMA DriverInvariant ==
  /\ Init => DriverInv
  /\ DriverInv /\ [Next]_fmVars => DriverInv'
  BY InitTypes, TypesStep, InitReplay, ReplayStep, InitResults, ResultsStep, InitCoverage, CoverageStep
     DEF DriverInv

\* Over all iterations of the driver, also with branches credited to the wrong
\* test by a late replay, the branches to cover are the ones of the clusters: the
\* loop of cluster_setcover never looks for a branch that no cluster has.
THEOREM DriverBranchesClustered == Spec => []FG!BranchesClustered
  <1>1. FGP!FGInv => FG!BranchesClustered
    BY DEF FGP!FGInv, FGP!BranchesClustered, FG!BranchesClustered
  <1>2. QED
    BY <1>1, DriverInvariant, DriverFeatures, PTL DEF Spec

\* The features of an iteration of the driver reach every branch that any test
\* case of any iteration was credited with.
THEOREM DriverFeaturesReach == Spec => []FG!FeaturesReachBranches
  <1>1. FGP!FGInv => FGP!FeaturesReachBranches
    BY FeatureConstants, BranchConstants, FGP!InvReachesBranches
  <1>2. FGP!FeaturesReachBranches => FG!FeaturesReachBranches
    BY DEF FGP!FeaturesReachBranches, FG!FeaturesReachBranches, FGP!Abstracted, FG!Abstracted
  <1>3. QED
    BY <1>1, <1>2, DriverInvariant, DriverFeatures, PTL DEF Spec

\* Every cover the driver computes is paid for, with price lists as long as the
\* program has branches.
LEMMA DriverPays ==
  ASSUME NEW c \in Nat, FGP!Divisible(FGP!Cardinality(Branch), c)
  PROVE  /\ Init => FGP!PaidInv(FGP!Cardinality(Branch), c)
         /\ DriverInv /\ FGP!PaidInv(FGP!Cardinality(Branch), c) /\ [Next]_fmVars
              => FGP!PaidInv(FGP!Cardinality(Branch), c)'
  <1>0. /\ FGP!Cardinality(Branch) \in Nat
        /\ \A p : FGP!InProgram(p) => FGP!NarrowPickles(FGP!Cardinality(Branch), p)
    BY FeatureConstants, BranchConstants, FGP!NarrowInProgram
  <1>9. PICK d \in Nat : d = FGP!Cardinality(Branch)
    BY <1>0
  <1>1. Init => FGP!PaidInv(d, c)
    BY SameFeatureInit, FeatureConstants, BranchConstants, FGP!InitPaid DEF Init
  <1>2. ASSUME DriverInv, FGP!PaidInv(d, c), [Next]_fmVars PROVE FGP!PaidInv(d, c)'
    <2>1. CASE FGP!InProgram(pkl) /\ FGP!Collect(pkl)
      BY <1>0, <1>9, <1>2, <2>1, FeatureConstants, BranchConstants, FGP!CollectKeepsPaid
    <2>2. CASE FGP!Extraction
      BY <1>9, <1>2, <2>2, FeatureConstants, BranchConstants, FGP!ExtractionKeepsPaid
    <2>3. CASE UNCHANGED fgVars
      <3>1. UNCHANGED FGP!fgVars
        BY <2>3 DEF fgVars, FGP!fgVars, FGP!dataVars, FGP!coverVars
      <3>2. QED
        BY <1>9, <1>2, <3>1, FeatureConstants, BranchConstants, FGP!ExtractionKeepsPaid
    <2>4. QED
      BY <1>2, <2>1, <2>2, <2>3, FeatureSteps
  <1>3. QED
    BY <1>9, <1>1, <1>2

\* In every iteration of the driver the greedy cover is within the harmonic bound
\* of the smallest one, for a program of any number of branches.
THEOREM DriverCoverHarmonic ==
  ASSUME NEW c \in Nat, FGP!Divisible(FGP!Cardinality(Branch), c)
  PROVE  Spec => []FGP!CoverWithin(FGP!Cardinality(Branch), c)
  <1>1. Init => FGP!PaidInv(FGP!Cardinality(Branch), c)
    BY DriverPays
  <1>2. DriverInv /\ FGP!PaidInv(FGP!Cardinality(Branch), c) /\ [Next]_fmVars
          => FGP!PaidInv(FGP!Cardinality(Branch), c)'
    BY DriverPays
  <1>3. FGP!PaidInv(FGP!Cardinality(Branch), c) => FGP!CoverWithin(FGP!Cardinality(Branch), c)
    <2>1. FGP!Cardinality(Branch) \in Nat
      BY FeatureConstants, BranchConstants, FGP!NarrowInProgram
    <2>2. QED
      BY <2>1, FeatureConstants, BranchConstants, FGP!PaidWithin
  <1>4. QED
    BY <1>1, <1>2, <1>3, DriverInvariant, PTL DEF Spec

-----------------------------------------------------------------------------
\* What the clusters list: path conditions, or in the naive mode, which computes
\* no cover, test cases; and so the features are lines of path conditions.
MembersInv ==
  /\ mainOption = "featmaker" => \A bs \in DOMAIN clusters : clusters[bs] \subseteq SUBSET Line
  /\ mainOption = "naive" =>
       fgPhase # "cover" /\ \A bs \in DOMAIN clusters : clusters[bs] \subseteq Test
  /\ mainOption \in {"featmaker", "naive"}
  /\ features \subseteq Line

\* collect adds members of the tests it counts only.
LEMMA CollectMembers ==
  ASSUME MembersInv, \A w \in Widx : DOMAIN pkl[w] \subseteq Test, FGP!Collect(pkl)
  PROVE  MembersInv'
  <1> DEFINE old == IF round + 1 <= 1 THEN [bs \in {} |-> {}] ELSE clusters
  <1>1. /\ clusters' = FGP!MergeClusters(old, pkl) /\ UNCHANGED <<mainOption, features>>
        /\ fgPhase' = "collected"
    BY DEF FGP!Collect
  <1>2. \A bs \in DOMAIN old : /\ mainOption = "featmaker" => old[bs] \subseteq SUBSET Line
                               /\ mainOption = "naive" => old[bs] \subseteq Test
    BY DEF MembersInv
  <1> HIDE DEF old
  <1>3. \A bs \in DOMAIN clusters' :
          clusters'[bs] = (IF bs \in DOMAIN old THEN old[bs] ELSE {}) \cup FGP!MembersOf(bs, pkl, FGP!Widx)
    BY <1>1 DEF FGP!MergeClusters
  <1>4. ASSUME NEW bs, NEW m \in FGP!MembersOf(bs, pkl, FGP!Widx)
        PROVE  /\ mainOption = "featmaker" => m \in SUBSET Line
               /\ mainOption = "naive" => m \in Test
    <2>1. PICK w \in Widx : \E t \in FGP!Counted(pkl[w]) : m = FGP!Member(t)
      BY <1>4 DEF FGP!MembersOf, FGP!Widx, Widx
    <2>2. PICK t \in Test : m = FGP!Member(t)
      BY <2>1 DEF FGP!Counted
    <2>3. QED
      BY <2>2, FeatMakerAssumption DEF FGP!Member, FGP!GetPc
  <1>5. \A bs \in DOMAIN clusters' : /\ mainOption = "featmaker" => clusters'[bs] \subseteq SUBSET Line
                                     /\ mainOption = "naive" => clusters'[bs] \subseteq Test
    BY <1>2, <1>3, <1>4
  <1>6. QED
    BY <1>1, <1>5 DEF MembersInv

\* The features extract_feature leaves are lines, abstracted or as they are.
LEMMA ExtractionMembers ==
  ASSUME MembersInv, FGP!FGInv, FGP!Extraction
  PROVE  MembersInv'
  <1>1. UNCHANGED <<mainOption, clusters>>
    BY DEF FGP!Extraction, FGP!StartCover, FGP!CoverStep, FGP!ExtractFeature, FGP!ExtractNaive, FGP!dataVars
  <1>2. features' \subseteq Line
    <2>1. CASE FGP!ExtractFeature /\ mainOption = "featmaker"
      <3>1. minset \subseteq DOMAIN clusters
        BY <2>1 DEF FGP!ExtractFeature, FGP!FGInv, FGP!CoverInv
      <3>2. \A bs \in minset : clusters[bs] \subseteq SUBSET Line
        BY <2>1, <3>1 DEF MembersInv
      <3>3. \A pc \in SUBSET Line : FGP!Abstracted(pc) \subseteq Line
        BY FeatMakerAssumption DEF FGP!Abstracted
      <3>4. features' = UNION {FGP!Abstracted(pc) : pc \in UNION {clusters[bs] : bs \in minset}}
        BY <2>1 DEF FGP!ExtractFeature
      <3>5. QED
        BY <3>2, <3>3, <3>4
    <2>2. CASE FGP!ExtractNaive
      <3>1. mainOption = "naive" /\ \A bs \in DOMAIN clusters : clusters[bs] \subseteq Test
        BY <2>2 DEF FGP!ExtractNaive, MembersInv
      <3>2. \A T \in SUBSET Test : FGP!NaiveLines(T) \subseteq Line
        BY FeatMakerAssumption DEF FGP!NaiveLines
      <3>3. UNION {clusters[bs] : bs \in DOMAIN clusters} \in SUBSET Test
        BY <3>1
      <3>4. features' \in {features, FGP!NaiveLines(UNION {clusters[bs] : bs \in DOMAIN clusters})}
        BY <2>2 DEF FGP!ExtractNaive
      <3>5. QED
        BY <3>2, <3>3, <3>4 DEF MembersInv
    <2>3. CASE FGP!StartCover \/ FGP!CoverStep
      BY <2>3 DEF FGP!StartCover, FGP!CoverStep, MembersInv
    <2>4. QED
      BY <2>1, <2>2, <2>3 DEF FGP!Extraction, FGP!ExtractFeature, MembersInv
  <1>3. mainOption = "naive" => fgPhase' # "cover"
    BY DEF FGP!Extraction, FGP!StartCover, FGP!CoverStep, FGP!ExtractFeature, FGP!ExtractNaive, MembersInv
  <1>4. QED
    BY <1>1, <1>2, <1>3 DEF MembersInv

\* The members keep their kind in every step of the driver.
LEMMA DriverMembers ==
  /\ Init => MembersInv
  /\ DriverInv /\ FGP!FGInv /\ MembersInv /\ [Next]_fmVars => MembersInv'
  <1>1. Init => MembersInv
    BY DEF Init, FG!FGInit, MembersInv
  <1>2. ASSUME DriverInv, FGP!FGInv, MembersInv, [Next]_fmVars PROVE MembersInv'
    <2>1. CASE (\A w \in Widx : DOMAIN pkl[w] \subseteq Test) /\ FGP!Collect(pkl)
      BY <1>2, <2>1, CollectMembers
    <2>2. CASE FGP!Extraction
      BY <1>2, <2>2, ExtractionMembers
    <2>3. CASE UNCHANGED fgVars
      BY <1>2, <2>3 DEF fgVars, MembersInv
    <2>4. QED
      BY <1>2, <2>1, <2>2, <2>3, FeatureSteps
  <1>3. QED
    BY <1>1, <1>2

\* What the weights see of a step of the driver: a call with features that are
\* lines, or nothing.
LEMMA WeightSteps ==
  ASSUME MembersInv, [Next]_fmVars
  PROVE  \/ /\ features \in SUBSET Line /\ GenerateWeight
            /\ \/ WGP!GenerateWeight(features, Encountered, widxInfo)
               \/ WGP!GenerateRandomWeight(features)
         \/ UNCHANGED <<wgVars, mainOption>>
  <1>1. CASE GenerateWeight
    BY <1>1, SameWeight, SameRandom DEF GenerateWeight, MembersInv
  <1>2. CASE ~GenerateWeight
    <2>1. UNCHANGED wgVars
      BY <1>2 DEF Next, Step, Ended, fmVars, LoopTest, ReplayTests, WriteErrors, Collect, ExtractFeature,
           ExecuteKlee, RunKlee, GatherErrors, ProgramEnds
    <2>2. CASE Collect
      BY <2>2 DEF Collect, FG!Collect
    <2>3. CASE ExtractFeature
      BY <2>3 DEF ExtractFeature, FG!Extraction, FG!StartCover, FG!CoverStep, FG!ExtractFeature, FG!ExtractNaive
    <2>4. CASE UNCHANGED fgVars
      BY <2>1, <2>4 DEF fgVars
    <2>5. QED
      BY <1>2, <2>2, <2>3, <2>4 DEF Next, Step, Ended, fmVars, LoopTest, ReplayTests, WriteErrors,
           ExecuteKlee, RunKlee, GatherErrors, ProgramEnds
  <1>3. QED
    BY <1>1, <1>2

\* The invariant of the files holds of the ones the driver has written.
LEMMA DriverFiles ==
  /\ Init => WGP!WGInv
  /\ MembersInv /\ WGP!WGInv /\ [Next]_fmVars => WGP!WGInv'
  <1>1. Init => WGP!WGInv
    BY SameWeightInit, WeightConstants, LineConstants, WGP!InitWGInv DEF Init
  <1>2. ASSUME MembersInv, WGP!WGInv, [Next]_fmVars PROVE WGP!WGInv'
    <2>1. CASE /\ features \in SUBSET Line
               /\ \/ WGP!GenerateWeight(features, Encountered, widxInfo)
                  \/ WGP!GenerateRandomWeight(features)
      <3>1. (\E enc, info : WGP!GenerateWeight(features, enc, info)) \/ WGP!GenerateRandomWeight(features)
        BY <2>1
      <3>2. QED
        BY <1>2, <2>1, <3>1, WeightConstants, LineConstants, WGP!GenerateKeepsFiles
    <2>2. CASE UNCHANGED <<wgVars, mainOption>>
      <3>1. UNCHANGED WGP!wgVars
        BY <2>2 DEF wgVars, WGP!wgVars
      <3>2. QED
        BY <1>2, <3>1, WeightConstants, LineConstants, WGP!IdleKeepsFiles
    <2>3. QED
      BY <1>2, <2>1, <2>2, WeightSteps
  <1>3. QED
    BY <1>1, <1>2

\* Whatever features the driver extracts, the feature file and the weight files
\* KLEE is started with agree line by line.
THEOREM DriverFilesAgree == Spec => []WG!FilesAgree
  <1>1. WGP!WGInv => WG!FilesAgree
    BY SameFiles, WeightConstants, LineConstants, WGP!InvFilesAgree
  <1>2. QED
    BY <1>1, DriverInvariant, DriverFeatures, DriverMembers, DriverFiles, PTL DEF Spec

\* No iteration of the driver rewards a feature that only runs of the bottom
\* cluster met in the iteration before.
THEOREM DriverBottomPenalised == Spec => WG!BottomFeaturesPenalised
  <1>1. ASSUME MembersInv, [Next]_fmVars PROVE WGP!Penalises \/ UNCHANGED WG!wgVars
    <2>1. CASE /\ features \in SUBSET Line
               /\ \/ WGP!GenerateWeight(features, Encountered, widxInfo)
                  \/ WGP!GenerateRandomWeight(features)
      BY <2>1, WeightConstants, LineConstants, WGP!GeneratePenalises
    <2>2. CASE UNCHANGED <<wgVars, mainOption>>
      BY <2>2 DEF wgVars, WG!wgVars
    <2>3. QED
      BY <1>1, <2>1, <2>2, WeightSteps
  <1>2. WGP!Penalises =>
          (lesson'.learned /\ lesson' # lesson =>
            \A f \in WG!ToSet(featureIdx) \cap WG!ToSet(featureIdx') :
              (/\ WG!MetColumns(f, lesson'.enc, lesson'.top) = {}
               /\ WG!MetColumns(f, lesson'.enc, lesson'.bot) # {})
              => \A w \in WG!Widx : WG!RowOf(f)'[w] <= 0)
    BY DEF WGP!Penalises, WG!ToSet, WGP!ToSet, WG!MetColumns, WGP!MetColumns, WG!Widx, WGP!Widx,
           WG!RowOf, WGP!RowOf
  <1>3. QED
    BY <1>1, <1>2, DriverInvariant, DriverFeatures, DriverMembers, PTL
       DEF Spec, WG!BottomFeaturesPenalised
=============================================================================
