------------------------------ MODULE FeatMaker ------------------------------
(***************************************************************************)
(* run_featmaker.py and klee_executor.py: the loop that runs KLEE under a  *)
(* time budget and has its results replayed, clustered and learned from,   *)
(* composed of DataGenerator, FeatureGenerator and WeightGenerator.        *)
(*                                                                         *)
(* Time is counted in ticks, several to a second, because the driver       *)
(* truncates to whole seconds what it measured.                            *)
(***************************************************************************)
EXTENDS Integers, Sequences, SequencesExt, FiniteSets, FiniteSetsExt

CONSTANTS
  TotalTime,    \* --total_budget, in seconds
  SmallTime,    \* --small_budget, in seconds
  Tps,          \* ticks per second
  KleeSlack,    \* bound, in ticks, on how long KLEE outlives its --max-time
  MaxPrep,      \* bound, in ticks, on the work between two KLEE phases
  MaxTests,     \* bound on the test cases of one run
  NScores,
  Test, Branch, Line, BranchesOf, Crashes, PathOf, NoQuery, AbstractLine, NULL,
  KValue, MaxWeight, Uniform, NormalDraws

Widx == 0 .. NScores - 1

ASSUME FeatMakerAssumption ==
  /\ NScores \in Nat \ {0}
  /\ TotalTime \in Nat \ {0} /\ SmallTime \in Nat \ {0} /\ Tps \in Nat \ {0}
  /\ KleeSlack \in Nat \ {0} /\ MaxPrep \in Nat \ {0} /\ MaxTests \in Nat
  /\ BranchesOf \in [Test -> SUBSET Branch] /\ Crashes \subseteq Test /\ NULL \notin Test
  /\ IsFiniteSet(Test) /\ IsFiniteSet(Branch) /\ IsFiniteSet(Line)
  /\ PathOf \in [Test -> (SUBSET Line) \ {{}}] /\ NoQuery \subseteq Test /\ AbstractLine \in [Line -> Line]
  /\ KValue \in Nat /\ MaxWeight \in Nat
  /\ Uniform \subseteq -MaxWeight .. MaxWeight /\ NormalDraws \subseteq Int

VARIABLES
  clock,        \* time.time() - start_time
  iteration,
  dPhase,       \* where the driver is
  final,        \* the loop is over: the last data is being collected
  remaining,    \* execute_klee: remaining_time
  kleeWidx,     \* execute_klee: weight_idx
  results,      \* test cases in result/iteration-{last}/{widx}
  produced,     \* history: every test case KLEE has written
  errorsPkl,    \* errors/{i}_potential_errors.pkl, by iteration
  errorInputs   \* error_inputs.txt

driverVars == <<clock, iteration, dPhase, final, remaining, kleeWidx, results,
                produced, errorsPkl, errorInputs>>

VARIABLES dgPhase, dgWidx, ktestLst, ktest, running, gcda, coveredBranches, pkl,
          potentialErrors, late
DG == INSTANCE DataGenerator
dgVars == <<dgPhase, dgWidx, ktestLst, ktest, running, gcda, coveredBranches, pkl,
            potentialErrors, late>>

VARIABLES mainOption, round, fgPhase, clusters, branches, preCovered, plotData, widxInfo,
          widxPcs, localBs, minset, features
FG == INSTANCE FeatureGenerator WITH MaxRound <- TotalTime * Tps
fgVars == <<mainOption, round, fgPhase, clusters, branches, preCovered, plotData, widxInfo,
            widxPcs, localBs, minset, features>>

VARIABLES wgIteration, wgFailed, featureIdx, weights, featureFile, weightFile, lesson
WG == INSTANCE WeightGenerator
        WITH Feature <- Line, RunInfos <- {}, MaxWgIteration <- TotalTime * Tps
wgVars == <<wgIteration, wgFailed, featureIdx, weights, featureFile, weightFile, lesson>>

fmVars == <<driverVars, dgVars, fgVars, wgVars>>

Total == TotalTime * Tps

Init ==
  /\ clock = 0 /\ iteration = 0 /\ dPhase = "loop" /\ final = FALSE
  /\ remaining = TotalTime /\ kleeWidx = 0
  /\ results = [w \in Widx |-> {}] /\ produced = {}
  /\ errorsPkl = <<>> /\ errorInputs = {}
  /\ DG!DGInit /\ FG!FGInit /\ WG!WGInit

-----------------------------------------------------------------------------
\* Data is generated in every turn but the first, and after the loop.
AfterLoopTest(over) == IF ~over /\ iteration = 0 THEN "execute" ELSE "data"

\* The loop condition, and the start of generate_data in every turn but the
\* first, or for the last time after the loop.
LoopTest ==
  LET over == clock >= Total
  IN /\ dPhase = "loop"
     /\ final' = over
     /\ dPhase' = AfterLoopTest(over)
     /\ IF AfterLoopTest(over) = "data" THEN DG!GenerateData ELSE UNCHANGED dgVars
     /\ UNCHANGED <<clock, iteration, remaining, kleeWidx, results, produced,
                    errorsPkl, errorInputs, fgVars, wgVars>>

\* run_replay for every run of the iteration before.
ReplayTests ==
  /\ dPhase = "data"
  /\ DG!ReplayLoop(results)
  /\ UNCHANGED <<driverVars, fgVars, wgVars>>

\* A replayed program ends; those that outlived their replay do so at any time.
ProgramEnds(t) ==
  /\ DG!ProgramEnds(t)
  /\ UNCHANGED <<driverVars, fgVars, wgVars>>

\* The end of generate_data: the errors of the iteration are written.
WriteErrors ==
  /\ dPhase = "data" /\ dgPhase = "done"
  /\ errorsPkl' = Append(errorsPkl, potentialErrors)
  /\ dPhase' = "collect"
  /\ UNCHANGED <<clock, iteration, final, remaining, kleeWidx, results, produced,
                 errorInputs, dgVars, fgVars, wgVars>>

\* fg.collect.
Collect ==
  /\ dPhase = "collect"
  /\ FG!Collect(pkl)
  /\ dPhase' = IF final THEN "gather" ELSE "extract"
  /\ UNCHANGED <<clock, iteration, final, remaining, kleeWidx, results, produced,
                 errorsPkl, errorInputs, dgVars, wgVars>>

\* fg.extract_feature; an exception ends the program.
ExtractFeature ==
  /\ dPhase = "extract"
  /\ FG!Extraction
  /\ dPhase' = CASE fgPhase' = "extracted" -> "weights"
                 [] fgPhase' = "failed" -> "died"
                 [] OTHER -> "extract"
  /\ UNCHANGED <<clock, iteration, final, remaining, kleeWidx, results, produced,
                 errorsPkl, errorInputs, dgVars, wgVars>>

\* gather_encountered_features for every run.
Encountered == [w \in Widx |-> UNION {FG!Abstracted(pc) : pc \in widxPcs[w]}]

\* wg.generate_weight; an exception ends the program.
GenerateWeight ==
  /\ dPhase = "weights"
  /\ \/ WG!GenerateWeight(features, Encountered, widxInfo)
     \/ WG!GenerateRandomWeight(features)
  /\ dPhase' = IF wgFailed' THEN "died" ELSE "execute"
  /\ UNCHANGED <<clock, iteration, final, remaining, kleeWidx, results, produced,
                 errorsPkl, errorInputs, dgVars, fgVars>>

-----------------------------------------------------------------------------
\* int(x / Tps): whole seconds, towards zero.
Seconds(ticks) == IF ticks >= 0 THEN ticks \div Tps ELSE -((-ticks) \div Tps)

\* execute_klee(iteration, int(remaining_time)), up to its loop; the time since
\* the loop condition was evaluated has passed.
ExecuteKlee ==
  /\ dPhase = "execute"
  /\ clock' \in clock .. clock + MaxPrep
  /\ remaining' = Seconds(Total - clock')
  /\ kleeWidx' = 0
  /\ results' = [w \in Widx |-> {}]
  /\ dPhase' = "klee"
  /\ UNCHANGED <<iteration, final, produced, errorsPkl, errorInputs, dgVars, fgVars, wgVars>>

\* Mutant: the small budget alone limits a run.
KleeMaxTimeSmall == SmallTime

\* The -max-time of a run.
KleeMaxTime == Min({remaining, SmallTime})

\* External: how long a KLEE run may take; with a negative --max-time it reports
\* an illegal number format and exits.
KleeDurations ==
  IF KleeMaxTime < 0 THEN {1} ELSE 1 .. Tps * KleeMaxTime + KleeSlack

\* External: the test cases it may have written by then.
KleeOutputs ==
  IF KleeMaxTime < 0 THEN {{}}
  ELSE {T \in SUBSET (Test \ produced) : Cardinality(T) <= MaxTests}

\* The end of the loop of execute_klee, with the remaining time rest.
LoopOver(rest) == rest <= 0 \/ kleeWidx + 1 \notin Widx

\* One turn of the loop of execute_klee, and the end of the iteration after the
\* last one.
RunKlee ==
  /\ dPhase = "klee"
  /\ \E elapsed \in KleeDurations, T \in KleeOutputs :
       /\ clock' = clock + elapsed
       /\ remaining' = remaining - Seconds(elapsed)
       /\ results' = [results EXCEPT ![kleeWidx] = T]
       /\ produced' = produced \cup T
  /\ IF LoopOver(remaining')
     THEN dPhase' = "loop" /\ iteration' = iteration + 1 /\ UNCHANGED kleeWidx
     ELSE kleeWidx' = kleeWidx + 1 /\ UNCHANGED <<dPhase, iteration>>
  /\ UNCHANGED <<final, errorsPkl, errorInputs, dgVars, fgVars, wgVars>>

\* Mutant: range(iteration - 1).
ErrorFilesButLast == 1 .. iteration - 1

\* range(iteration), the files counted from 1.
ErrorFiles == 1 .. iteration

\* error_inputs.txt is put together and the intermediate files are removed.
GatherErrors ==
  /\ dPhase = "gather"
  /\ errorInputs' = UNION {errorsPkl[i] : i \in ErrorFiles \cap DOMAIN errorsPkl}
  /\ dPhase' = "done"
  /\ UNCHANGED <<clock, iteration, final, remaining, kleeWidx, results, produced,
                 errorsPkl, dgVars, fgVars, wgVars>>

Ended == dPhase \in {"done", "died"} /\ UNCHANGED fmVars

Step ==
  \/ LoopTest \/ ReplayTests \/ WriteErrors \/ Collect \/ ExtractFeature
  \/ GenerateWeight \/ ExecuteKlee \/ RunKlee \/ GatherErrors

Next == Step \/ (\E t \in Test : ProgramEnds(t)) \/ Ended

\* The driver is one sequential process, and every program it waits for is under
\* a timeout (TimeoutExpired, KleeDurations): it never stops short of its end.
Spec == Init /\ [][Next]_fmVars /\ WF_fmVars(Step)

-----------------------------------------------------------------------------
\* KLEE overruns the total budget by at most what is lost in truncating each of
\* the earlier runs of the iteration to whole seconds, or by the preparation
\* begun within the budget, and by the slack of one run (execute_klee).
OverrunBounded ==
  clock <= Total + Max({MaxPrep - 1, (NScores - 1) * (Tps - 1)}) + KleeSlack

\* A branch credited to a test case that does not take it was taken by a replay
\* that had timed out before; and a test whose replay was not cut off is credited
\* with every branch it takes (run_replay, over all runs and iterations).
CoverageAttributed == DG!Attributed

\* collect reads in every pickle exactly the test cases of that run of the last
\* iteration: a run that produced none, or that did not take place because the
\* budget was used up, leaves no pickle of an earlier iteration behind.
PicklesFresh ==
  dPhase = "collect" => \A w \in Widx : DOMAIN pkl[w] = results[w]

\* The reported coverage: no branch that no test case takes, and with no replay
\* timed out, every branch of every test case with a path condition that KLEE
\* wrote in any iteration, the last one included.
ReportedCoverage ==
  dPhase = "done" =>
    /\ branches \subseteq DG!TakenBy(produced)
    /\ late = {} => DG!TakenBy({t \in produced : FG!GetPc(t) # {}}) \subseteq branches

\* The reported errors: every crash whose replay was not cut off, of whichever
\* iteration, and nothing but crashes.
ReportedErrors ==
  dPhase = "done" =>
    /\ errorInputs \subseteq produced \cap Crashes
    /\ (produced \cap Crashes) \ late \subseteq errorInputs

\* The driver ends: with its results, or by an exception.
DriverEnds == <>(dPhase \in {"done", "died"})
=============================================================================
