---------------------------- MODULE DataGenerator ----------------------------
(***************************************************************************)
(* data_generator.py: the test cases of an iteration are replayed one by   *)
(* one with klee-replay, the branches each covers are read with gcov, and  *)
(* the crashes are noted.                                                  *)
(*                                                                         *)
(* The timeout of a replay kills the shell only: klee-replay's monitor and *)
(* the program run on, and when that program exits it merges its counters  *)
(* into the gcda files, whichever test case is being measured by then.     *)
(***************************************************************************)
EXTENDS Integers, FiniteSets, FiniteSetsExt

CONSTANTS
  NScores,      \* --n_scores: KLEE runs per iteration
  Test,         \* test cases (ktest files)
  Branch,       \* branches of the program under test
  BranchesOf,   \* the branches a complete execution of a test takes
  Crashes,      \* tests on which the program dies of a signal
  NULL          \* no test case

Widx == 0 .. NScores - 1

VARIABLES
  dgPhase,         \* where generate_data is
  dgWidx,          \* the run being replayed
  ktestLst,        \* run_replay: test cases of this run still to replay
  ktest,           \* run_replay: the test case being replayed
  running,         \* tests whose program is still executing
  gcda,            \* branches counted in the gcda files
  coveredBranches, \* run_replay: covered_branches
  pkl,             \* {widx}_result.pkl
  potentialErrors, \* generate_data: potential_errors
  late             \* history: tests whose replay timed out

replayVars == <<ktestLst, ktest, coveredBranches>>
procVars   == <<running, gcda>>
dgVars     == <<dgPhase, dgWidx, replayVars, procVars, pkl, potentialErrors, late>>

NoResult == [t \in {} |-> {}]

DGInit ==
  /\ dgPhase = "idle" /\ dgWidx = 0
  /\ ktestLst = {} /\ ktest = NULL /\ coveredBranches = NoResult
  /\ running = {} /\ gcda = {}
  /\ pkl = [w \in Widx |-> NoResult]
  /\ potentialErrors = {} /\ late = {}

-----------------------------------------------------------------------------
\* generate_data starts on the result directories of an iteration.
GenerateData ==
  /\ dgPhase \in {"idle", "done"}
  /\ dgPhase' = "list" /\ dgWidx' = 0
  /\ potentialErrors' = {}
  /\ UNCHANGED <<replayVars, procVars, pkl, late>>

\* run_replay lists the test cases of its run; a run that did not take place has
\* none.
ListTests(results) ==
  /\ dgPhase = "list"
  /\ ktestLst' = results[dgWidx] /\ coveredBranches' = NoResult
  /\ dgPhase' = "next"
  /\ UNCHANGED <<dgWidx, ktest, procVars, pkl, potentialErrors, late>>

\* subprocess.Popen of klee-replay.
Replay ==
  /\ dgPhase = "next"
  /\ \E t \in ktestLst : /\ ktest' = t
                         /\ ktestLst' = ktestLst \ {t}
                         /\ running' = running \cup {t}
  /\ dgPhase' = "wait"
  /\ UNCHANGED <<dgWidx, gcda, coveredBranches, pkl, potentialErrors, late>>

\* External: what a program adds to the gcda files when it ends; one that dies
\* of a signal writes nothing.
Flushed(t) == IF t \in Crashes THEN {} ELSE BranchesOf[t]

\* External: the program of a replay ends, now or long after its timeout.
ProgramEnds(t) ==
  /\ t \in running
  /\ running' = running \ {t}
  /\ gcda' = gcda \cup Flushed(t)
  /\ UNCHANGED <<dgPhase, dgWidx, replayVars, pkl, potentialErrors, late>>

\* "CRASHED" in the output of klee-replay.
NotedErrors(t) == IF t \in Crashes THEN potentialErrors \cup {t} ELSE potentialErrors

\* communicate returns within its timeout.
Communicate ==
  /\ dgPhase = "wait" /\ ktest \notin running
  /\ potentialErrors' = NotedErrors(ktest)
  /\ dgPhase' = "gcov"
  /\ UNCHANGED <<dgWidx, replayVars, procVars, pkl, late>>

\* Mutant: communicate is called without a timeout.
TimeoutExpiredNever == FALSE

\* TimeoutExpired: the shell is killed, the program is not.  It may just have
\* ended, with the shell still there.
TimeoutExpired ==
  /\ dgPhase = "wait"
  /\ late' = late \cup {ktest}
  /\ dgPhase' = "gcov"
  /\ UNCHANGED <<dgWidx, replayVars, procVars, pkl, potentialErrors>>

\* gcov -b on the gcda files, and branch_handler on what it prints.
Gcov ==
  /\ dgPhase = "gcov"
  /\ coveredBranches' = [t \in DOMAIN coveredBranches \cup {ktest} |->
                           IF t = ktest THEN gcda ELSE coveredBranches[t]]
  /\ dgPhase' = "rm"
  /\ UNCHANGED <<dgWidx, ktestLst, ktest, procVars, pkl, potentialErrors, late>>

\* Mutant: the gcda files stay.
RemovedGcdaNever == gcda

RemovedGcda == {}

\* rm -f of the gcda files.
RemoveGcda ==
  /\ dgPhase = "rm"
  /\ gcda' = RemovedGcda
  /\ ktest' = NULL
  /\ dgPhase' = "next"
  /\ UNCHANGED <<dgWidx, ktestLst, coveredBranches, running, pkl, potentialErrors, late>>

\* Mutant: the result of a run without test cases is not written.
DumpedNonEmpty == IF coveredBranches = NoResult THEN pkl[dgWidx] ELSE coveredBranches

\* What is pickled into {widx}_result.pkl.
Dumped == coveredBranches

\* range(self.n_weights) is not exhausted.
MoreRuns == dgWidx + 1 \in Widx

\* The end of run_replay: its pickle is written and the next run is taken up; the
\* end of generate_data after the last one.
DumpResult ==
  /\ dgPhase = "next" /\ ktestLst = {}
  /\ pkl' = [pkl EXCEPT ![dgWidx] = Dumped]
  /\ IF MoreRuns
     THEN dgWidx' = dgWidx + 1 /\ dgPhase' = "list"
     ELSE dgPhase' = "done" /\ UNCHANGED dgWidx
  /\ UNCHANGED <<replayVars, procVars, potentialErrors, late>>

ReplayLoop(results) ==
  \/ ListTests(results) \/ Replay \/ Communicate \/ TimeoutExpired
  \/ Gcov \/ RemoveGcda \/ DumpResult

-----------------------------------------------------------------------------
TakenBy(T) == UNION {Flushed(t) : t \in T}

\* What a test case is credited with, against what it and the late replays take.
Attributed ==
  \A t \in DOMAIN coveredBranches :
    /\ coveredBranches[t] \ Flushed(t) \subseteq TakenBy(late)
    /\ t \notin late => Flushed(t) \subseteq coveredBranches[t]

=============================================================================
