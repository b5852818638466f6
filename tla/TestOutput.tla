----------------------------- MODULE TestOutput -----------------------------
(***************************************************************************)
(* Which test cases KLEE writes: the coveredNew flag that StatsTracker     *)
(* sets and ExecutionState::branch hands to one side only, the functions   *)
(* that terminate a state, and KleeHandler::processTestCase, file by file, *)
(* with SIGKILL of the watchdog at any moment.                             *)
(*                                                                         *)
(* An item is anything coverage counts: an instruction or a side of a      *)
(* branch.  A state is used once: reuse of addresses is Executor's topic.  *)
(* Left out, because FeatMaker does not use them: seeds, --write-no-tests   *)
(* and --exit-on-error.                                                    *)
(***************************************************************************)
EXTENDS Integers, FiniteSets

CONSTANTS
  State, Item, NULL,
  Early,                        \* the messages of terminateStateEarly
  Error,                        \* pairs of a location and a message
  ExitOnErrorType,              \* the errors whose type --exit-on-error-type lists
  MaxTests,                     \* --max-tests
  OnlyOutputStatesCoveringNew,  \* --only-output-states-covering-new
  EmitAllErrors,                \* --emit-all-errors
  WriteKQueries                 \* --write-kqueries

ASSUME TestOutputAssumption ==
  /\ NULL \notin State /\ NULL \notin Error \cup {Early} /\ Early \notin Error
  /\ ExitOnErrorType \subseteq Error
  /\ MaxTests \in Nat
  /\ OnlyOutputStatesCoveringNew \in BOOLEAN /\ EmitAllErrors \in BOOLEAN
  /\ WriteKQueries \in BOOLEAN

VARIABLES
  live,                \* Executor::states
  fresh,               \* states not created yet
  executed,            \* the items on the path of every state
  coveredNew,          \* ExecutionState::coveredNew
  covered,             \* the coverage counters of StatsTracker that are not 0
  emittedErrors,       \* terminateStateOnError: emittedErrors
  haltExecution,
  step,                \* where processTestCase is: "none" outside of it
  job,                 \* the state it is about
  jobError,            \* its errorMessage, or NULL
  m_numTotalTests, m_numGeneratedTests,
  ktests,              \* test*.ktest: the items each of them covers
  kqueries,            \* ids of the test*.kquery files
  limited,             \* history: processTestCase has halted the run
  lost,                \* history: items of states terminated without a test
  unopened             \* history: ids of kquery files that could not be opened

exploreVars == <<live, fresh, executed, coveredNew, covered>>
fileVars    == <<ktests, kqueries, unopened>>
countVars   == <<m_numTotalTests, m_numGeneratedTests, limited>>
vars == <<exploreVars, emittedErrors, haltExecution, step, job, jobError,
          countVars, fileVars, lost>>

Init ==
  /\ \E s \in State : live = {s} /\ fresh = State \ {s}
  /\ executed = [s \in State |-> {}]
  /\ coveredNew = [s \in State |-> FALSE]
  /\ covered = {} /\ emittedErrors = {} /\ haltExecution = FALSE
  /\ step = "none" /\ job = NULL /\ jobError = NULL
  /\ m_numTotalTests = 0 /\ m_numGeneratedTests = 0
  /\ ktests = [i \in {} |-> {}] /\ kqueries = {} /\ unopened = {}
  /\ lost = {} /\ limited = FALSE

Running == step = "none" /\ ~haltExecution

-----------------------------------------------------------------------------
(* Coverage.                                                               *)

\* StatsTracker::stepInstruction.
StepInstruction(s, x) ==
  /\ Running /\ s \in live
  /\ executed' = [executed EXCEPT ![s] = @ \cup {x}]
  /\ coveredNew' = [coveredNew EXCEPT ![s] = @ \/ x \notin covered]
  /\ covered' = covered \cup {x}
  /\ UNCHANGED <<live, fresh, emittedErrors, haltExecution, step, job, jobError,
                 countVars, fileVars, lost>>

\* Mutant: the flag of the state that was split is reset too.
BranchFlagsReset(s, f, x, y) ==
  [coveredNew EXCEPT ![s] = x \notin covered, ![f] = y \notin covered]

\* coveredNew after ExecutionState::branch and StatsTracker::markBranchVisited:
\* the new state has covered nothing new but its own side of the branch.
BranchFlags(s, f, x, y) ==
  [coveredNew EXCEPT ![s] = @ \/ x \notin covered,
                     ![f] = y \notin covered]

\* Executor::fork at a branch whose sides are the items x and y.
Fork(s, f, x, y) ==
  /\ Running /\ s \in live /\ f \in fresh /\ x # y
  /\ live' = live \cup {f} /\ fresh' = fresh \ {f}
  /\ executed' = [executed EXCEPT ![s] = @ \cup {x}, ![f] = executed[s] \cup {y}]
  /\ coveredNew' = BranchFlags(s, f, x, y)
  /\ covered' = covered \cup {x, y}
  /\ UNCHANGED <<emittedErrors, haltExecution, step, job, jobError, countVars,
                 fileVars, lost>>

-----------------------------------------------------------------------------
(* Termination.                                                            *)

\* Executor::terminateState: the state is gone, with or without a test.
TerminateState(s) ==
  /\ live' = live \ {s}
  /\ lost' = IF coveredNew[s] /\ ~(step # "none" /\ m_numTotalTests \in DOMAIN ktests)
             THEN lost \cup executed[s] ELSE lost

OutputsTest(s) == ~OnlyOutputStatesCoveringNew \/ coveredNew[s]

\* interpreterHandler->processTestCase is called.
StartTestCase(s, message) ==
  /\ step' = "solve" /\ job' = s /\ jobError' = message
  /\ UNCHANGED <<live, lost>>

NoTestCase(s) ==
  /\ TerminateState(s)
  /\ UNCHANGED <<step, job, jobError>>

\* terminateStateOnExit.
TerminateStateOnExit(s) ==
  /\ Running /\ s \in live
  /\ IF OutputsTest(s) THEN StartTestCase(s, NULL) ELSE NoTestCase(s)
  /\ UNCHANGED <<fresh, executed, coveredNew, covered, emittedErrors, haltExecution,
                 countVars, fileVars>>

\* terminateStateEarly, in the run or, once it is halted, by doDumpStates; its
\* message is the errorMessage.
TerminateStateEarly(s) ==
  /\ step = "none" /\ s \in live
  /\ IF OutputsTest(s) THEN StartTestCase(s, Early) ELSE NoTestCase(s)
  /\ UNCHANGED <<fresh, executed, coveredNew, covered, emittedErrors, haltExecution,
                 countVars, fileVars>>

\* terminateStateOnError: one test per error, whatever the state covered; at its
\* end, which is in FinishTestCase if there is a test, shouldExitOn may halt.
TerminateStateOnError(s, e) ==
  /\ Running /\ s \in live
  /\ IF EmitAllErrors \/ e \notin emittedErrors
     THEN StartTestCase(s, e) /\ UNCHANGED haltExecution
     ELSE NoTestCase(s) /\ haltExecution' = (haltExecution \/ e \in ExitOnErrorType)
  /\ emittedErrors' = IF EmitAllErrors THEN emittedErrors ELSE emittedErrors \cup {e}
  /\ UNCHANGED <<fresh, executed, coveredNew, covered, countVars, fileVars>>

\* terminateState called as such: klee_silent_exit, a false klee_assume, a merge.
TerminateSilently(s) ==
  /\ Running /\ s \in live
  /\ NoTestCase(s)
  /\ UNCHANGED <<fresh, executed, coveredNew, covered, emittedErrors, haltExecution,
                 countVars, fileVars>>

-----------------------------------------------------------------------------
(* KleeHandler::processTestCase.                                           *)

\* Mutants: the id is the number of tests written so far; it is counted up for
\* errors only.
NextIdGenerated == m_numGeneratedTests
NextIdErrors == IF jobError = NULL THEN m_numTotalTests ELSE m_numTotalTests + 1

NextId == m_numTotalTests + 1

\* getSymbolicSolution may fail; an id is used up in any case.
GetSymbolicSolution ==
  /\ step = "solve"
  /\ m_numTotalTests' = NextId
  /\ step' \in {"ktest", "kquery"}
  /\ UNCHANGED <<exploreVars, emittedErrors, haltExecution, job, jobError,
                 m_numGeneratedTests, limited, fileVars, lost>>

\* kTest_toFile succeeds.
WriteKTest ==
  /\ step = "ktest"
  /\ ktests' = [i \in DOMAIN ktests \cup {m_numTotalTests} |->
                  IF i = m_numTotalTests THEN executed[job] ELSE ktests[i]]
  /\ m_numGeneratedTests' = m_numGeneratedTests + 1
  /\ step' = "kquery"
  /\ UNCHANGED <<exploreVars, emittedErrors, haltExecution, job, jobError,
                 m_numTotalTests, limited, kqueries, unopened, lost>>

\* kTest_toFile fails; what it may leave of the file is not a test case, which
\* is what ktests holds.
LoseKTest ==
  /\ step = "ktest"
  /\ step' = "kquery"
  /\ UNCHANGED <<exploreVars, emittedErrors, haltExecution, job, jobError, countVars,
                 fileVars, lost>>

\* Mutant: the constraint log is written for errors only.
QueryWantedErrors == jobError # NULL

QueryWanted == jobError # NULL \/ WriteKQueries

\* The constraint log is written if there is an error or --write-kqueries; the
\* file may fail to open.
WriteKQuery ==
  /\ step = "kquery"
  /\ IF QueryWanted
     THEN \/ kqueries' = kqueries \cup {m_numTotalTests} /\ UNCHANGED unopened
          \/ unopened' = unopened \cup {m_numTotalTests} /\ UNCHANGED kqueries
     ELSE UNCHANGED <<kqueries, unopened>>
  /\ step' = "limit"
  /\ UNCHANGED <<exploreVars, emittedErrors, haltExecution, job, jobError, countVars,
                 ktests, lost>>

\* Mutant: the limit is compared with the tests received, not written.
TestLimitTotal == m_numTotalTests - 1 = MaxTests

TestLimit == m_numGeneratedTests = MaxTests

\* The end of processTestCase, the --max-tests limit, and of its caller:
\* terminateState, and shouldExitOn after an error.
FinishTestCase ==
  /\ step = "limit"
  /\ haltExecution' = (haltExecution \/ TestLimit \/ jobError \in ExitOnErrorType)
  /\ limited' = (limited \/ TestLimit)
  /\ TerminateState(job)
  /\ step' = "none" /\ job' = NULL /\ jobError' = NULL
  /\ UNCHANGED <<fresh, executed, coveredNew, covered, emittedErrors,
                 m_numTotalTests, m_numGeneratedTests, fileVars>>

ProcessTestCase ==
  GetSymbolicSolution \/ WriteKTest \/ LoseKTest \/ WriteKQuery \/ FinishTestCase

\* The time limit or a signal sets haltExecution.
Halt ==
  /\ step # "killed" /\ ~haltExecution
  /\ haltExecution' = TRUE
  /\ UNCHANGED <<exploreVars, emittedErrors, step, job, jobError, countVars, fileVars, lost>>

\* The watchdog kills the process.
Kill ==
  /\ step # "killed"
  /\ step' = "killed"
  /\ UNCHANGED <<exploreVars, emittedErrors, haltExecution, job, jobError, countVars,
                 fileVars, lost>>

Stopped == (step = "killed" \/ live = {}) /\ UNCHANGED vars

Next ==
  \/ \E s \in State, x \in Item : StepInstruction(s, x)
  \/ \E s, f \in State, x, y \in Item : Fork(s, f, x, y)
  \/ \E s \in State : TerminateStateOnExit(s) \/ TerminateStateEarly(s)
  \/ \E s \in State, e \in Error : TerminateStateOnError(s, e)
  \/ \E s \in State : TerminateSilently(s)
  \/ ProcessTestCase \/ Halt \/ Kill \/ Stopped

Spec == Init /\ [][Next]_vars

-----------------------------------------------------------------------------
\* Every variable has its type.
TestTypeOK ==
  /\ live \subseteq State /\ fresh \subseteq State
  /\ executed \in [State -> SUBSET Item] /\ coveredNew \in [State -> BOOLEAN]
  /\ covered \subseteq Item /\ emittedErrors \subseteq Error
  /\ haltExecution \in BOOLEAN
  /\ step \in {"none", "solve", "ktest", "kquery", "limit", "killed"}
  /\ job \in State \cup {NULL} /\ jobError \in Error \cup {NULL, Early}
  /\ m_numTotalTests \in Nat /\ m_numGeneratedTests \in Nat
  /\ DOMAIN ktests \subseteq 1 .. m_numTotalTests
  /\ \A i \in DOMAIN ktests : ktests[i] \subseteq Item
  /\ kqueries \subseteq 1 .. m_numTotalTests /\ unopened \subseteq 1 .. m_numTotalTests
  /\ lost \subseteq Item /\ limited \in BOOLEAN

\* The items the written tests cover, and those that live states will bring.
Written == UNION {ktests[i] : i \in DOMAIN ktests}
Carried == UNION {executed[s] : s \in {t \in live : coveredNew[t]}}

\* With --only-output-states-covering-new, whatever coverage the run counts is
\* in a test case or still on its way to one, unless a state that covered it was
\* terminated without a test: the flag may be handed to one side of every branch
\* and the tests of all other states dropped.
CoverageWitnessed == covered \subseteq Written \cup Carried \cup lost

\* The .ktest files are as many as were counted: no id is used twice and no file
\* overwritten, although tests may be lost on the way.
TestsNotOverwritten ==
  step # "killed" => Cardinality(DOMAIN ktests) = m_numGeneratedTests

\* FeatMaker pairs every .ktest with its .kquery: the pair is complete except
\* where the file could not be opened, and for the test being written when KLEE
\* was killed.
PairsComplete ==
  WriteKQueries =>
    \A i \in DOMAIN ktests \ (kqueries \cup unopened) :
      i = m_numTotalTests /\ step \in {"kquery", "killed"}

\* --max-tests: once the limit is reached, the run is halted and only the dump
\* of the remaining states follows.
LimitHalts ==
  MaxTests # 0 /\ step = "none" /\ m_numGeneratedTests >= MaxTests => haltExecution

=============================================================================
