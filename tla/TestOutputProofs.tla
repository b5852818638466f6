-------------------------- MODULE TestOutputProofs --------------------------
(***************************************************************************)
(* TestOutput for any number of states, items and errors: type             *)
(* correctness, and that no counted coverage goes without a test case      *)
(* unless a state that covered it was terminated without one.              *)
(***************************************************************************)
EXTENDS TestOutput, TLAPS, FiniteSetTheorems

\* The steps of processTestCase.
Processing == {"solve", "ktest", "kquery", "limit"}

\* What processTestCase relies on: the state it is about is still live, and the
\* file it has written, if any, holds that state's path.
JobInv ==
  /\ step \in Processing => job \in live
  /\ step = "ktest" => m_numTotalTests \notin DOMAIN ktests /\ m_numTotalTests > 0
  /\ step \in {"kquery", "limit"} => m_numTotalTests > 0
  /\ step \in {"kquery", "limit"} /\ m_numTotalTests \in DOMAIN ktests =>
       ktests[m_numTotalTests] = executed[job]

\* A state that was not forked yet is not alive.
FreshInv == live \cap fresh = {}

\* The inductive invariant behind the coverage theorem.
IInv == TestTypeOK /\ FreshInv /\ JobInv /\ CoverageWitnessed

\* A state that is terminated leaves its items to the history or to its test.
LEMMA TerminateKeeps ==
  ASSUME IInv, NEW s \in live, TerminateState(s),
         step = "none" \/ (step = "limit" /\ s = job),
         UNCHANGED <<executed, coveredNew, covered, ktests>>
  PROVE  /\ CoverageWitnessed'
         /\ live' \subseteq State /\ lost' \subseteq Item
<1>1. live' \subseteq State /\ lost' \subseteq Item
  BY DEF IInv, TestTypeOK, TerminateState
<1>2. ASSUME NEW x \in covered PROVE x \in Written' \cup Carried' \cup lost'
  <2>1. CASE x \in Written
    BY <2>1 DEF Written
  <2>2. CASE x \in lost
    BY <2>2 DEF TerminateState
  <2>3. CASE x \in Carried
    <3>1. PICK t \in live : coveredNew[t] /\ x \in executed[t]
      BY <2>3 DEF Carried
    <3>2. CASE t # s
      <4>1. t \in live' /\ coveredNew'[t] /\ x \in executed'[t]
        BY <3>1, <3>2 DEF TerminateState
      <4>2. QED BY <4>1 DEF Carried
    <3>3. CASE t = s
      <4>1. CASE step = "limit" /\ s = job /\ m_numTotalTests \in DOMAIN ktests
        <5>1. x \in ktests[m_numTotalTests]
          BY <3>1, <3>3, <4>1 DEF IInv, JobInv
        <5>2. QED BY <4>1, <5>1 DEF Written
      <4>2. CASE ~(step = "limit" /\ s = job /\ m_numTotalTests \in DOMAIN ktests)
        BY <3>1, <3>3, <4>2 DEF TerminateState
      <4>3. QED BY <4>1, <4>2
    <3>4. QED BY <3>2, <3>3
  <2>4. QED BY <2>1, <2>2, <2>3 DEF IInv, CoverageWitnessed
<1>3. QED BY <1>1, <1>2 DEF CoverageWitnessed

\* Covering one more item, by s or by both sides of a branch, is carried by the
\* state whose flag is set then.
LEMMA StepKeeps ==
  ASSUME IInv, NEW s \in State, NEW x \in Item, StepInstruction(s, x)
  PROVE  IInv'
<1>1. TestTypeOK'
  BY DEF IInv, TestTypeOK, StepInstruction, countVars, fileVars
<1>2. JobInv'
  BY DEF IInv, JobInv, StepInstruction, Running, Processing, countVars, fileVars
<1>3. ASSUME NEW y \in covered' PROVE y \in Written' \cup Carried' \cup lost'
  <2>0. /\ executed' = [executed EXCEPT ![s] = @ \cup {x}]
        /\ coveredNew' = [coveredNew EXCEPT ![s] = @ \/ x \notin covered]
        /\ covered' = covered \cup {x} /\ live' = live /\ s \in live
        /\ ktests' = ktests /\ lost' = lost
    BY DEF StepInstruction, fileVars
  <2>1. CASE y \notin covered
    <3>1. y = x /\ coveredNew'[s] /\ y \in executed'[s]
      BY <2>0, <2>1 DEF IInv, TestTypeOK
    <3>2. QED BY <2>0, <3>1 DEF Carried
  <2>2. CASE y \in Written \cup lost
    BY <2>0, <2>2 DEF Written
  <2>3. CASE y \in Carried
    <3>1. PICK t \in live : coveredNew[t] /\ y \in executed[t]
      BY <2>3 DEF Carried
    <3>2. coveredNew'[t] /\ y \in executed'[t]
      BY <2>0, <3>1 DEF IInv, TestTypeOK
    <3>3. QED BY <2>0, <3>1, <3>2 DEF Carried
  <2>4. QED BY <2>1, <2>2, <2>3 DEF IInv, CoverageWitnessed
<1>4. FreshInv'
  BY DEF IInv, FreshInv, StepInstruction
<1>5. QED BY <1>1, <1>2, <1>3, <1>4 DEF IInv, CoverageWitnessed

\* The flag of the state that was split stays with it; the new state answers for
\* its own side of the branch only.
LEMMA ForkKeeps ==
  ASSUME IInv, NEW s \in State, NEW f \in State, NEW x \in Item, NEW y \in Item,
         Fork(s, f, x, y)
  PROVE  IInv'
<1>0. /\ executed' = [executed EXCEPT ![s] = @ \cup {x}, ![f] = executed[s] \cup {y}]
      /\ coveredNew' = [coveredNew EXCEPT ![s] = @ \/ x \notin covered,
                                          ![f] = y \notin covered]
      /\ covered' = covered \cup {x, y} /\ live' = live \cup {f} /\ s \in live
      /\ fresh' = fresh \ {f}
      /\ f \notin live /\ s # f
      /\ UNCHANGED <<emittedErrors, haltExecution, step, job, jobError, countVars,
                     fileVars, lost>>
      /\ step = "none"
  BY DEF IInv, FreshInv, Fork, Running, BranchFlags
<1>a. /\ executed'[s] = executed[s] \cup {x} /\ executed'[f] = executed[s] \cup {y}
      /\ coveredNew'[s] = (coveredNew[s] \/ x \notin covered)
      /\ coveredNew'[f] = (y \notin covered)
      /\ \A t \in State \ {s, f} : executed'[t] = executed[t] /\ coveredNew'[t] = coveredNew[t]
  BY <1>0 DEF IInv, TestTypeOK
<1>1. TestTypeOK'
  <2>1. executed' \in [State -> SUBSET Item]
    BY <1>0, <1>a DEF IInv, TestTypeOK
  <2>2. coveredNew' \in [State -> BOOLEAN]
    BY <1>0 DEF IInv, TestTypeOK
  <2>3. QED BY <1>0, <2>1, <2>2 DEF IInv, TestTypeOK, countVars, fileVars
<1>2. JobInv'
  BY <1>0 DEF IInv, JobInv, Processing, countVars, fileVars
<1>3. ASSUME NEW z \in covered' PROVE z \in Written' \cup Carried' \cup lost'
  <2>1. CASE z = x /\ x \notin covered
    <3>1. s \in live' /\ coveredNew'[s] /\ z \in executed'[s]
      BY <1>0, <1>a, <2>1
    <3>2. QED BY <3>1 DEF Carried
  <2>2. CASE z = y /\ y \notin covered
    <3>1. f \in live' /\ coveredNew'[f] /\ z \in executed'[f]
      BY <1>0, <1>a, <2>2
    <3>2. QED BY <3>1 DEF Carried
  <2>3. CASE z \in Written \cup lost
    BY <1>0, <2>3 DEF Written, fileVars
  <2>4. CASE z \in Carried
    <3>1. PICK t \in live : coveredNew[t] /\ z \in executed[t]
      BY <2>4 DEF Carried
    <3>2. t \in State /\ t # f
      BY <1>0, <3>1 DEF IInv, TestTypeOK
    <3>3. t \in live' /\ coveredNew'[t] /\ z \in executed'[t]
      BY <1>0, <1>a, <3>1, <3>2
    <3>4. QED BY <3>3 DEF Carried
  <2>5. z \in covered \/ (z = x /\ x \notin covered) \/ (z = y /\ y \notin covered)
    BY <1>0
  <2>6. QED BY <2>1, <2>2, <2>3, <2>4, <2>5 DEF IInv, CoverageWitnessed
<1>4. FreshInv'
  BY <1>0 DEF IInv, FreshInv
<1>5. QED BY <1>1, <1>2, <1>3, <1>4 DEF IInv, CoverageWitnessed

\* A terminating call, with a test case to come or without one.
LEMMA TerminationKeeps ==
  ASSUME IInv, NEW s \in live, NEW message \in Error \cup {NULL, Early},
         step = "none",
         StartTestCase(s, message) \/ NoTestCase(s),
         emittedErrors' \subseteq Error, haltExecution' \in BOOLEAN,
         UNCHANGED <<fresh, executed, coveredNew, covered, countVars, fileVars>>
  PROVE  IInv'
<1>1. CASE StartTestCase(s, message)
  <2>1. TestTypeOK'
    BY <1>1 DEF IInv, TestTypeOK, StartTestCase, countVars, fileVars
  <2>2. FreshInv' /\ JobInv'
    BY <1>1 DEF IInv, FreshInv, JobInv, StartTestCase, Processing, countVars, fileVars
  <2>3. CoverageWitnessed'
    BY <1>1 DEF IInv, CoverageWitnessed, Written, Carried, StartTestCase, fileVars
  <2>4. QED BY <2>1, <2>2, <2>3 DEF IInv
<1>2. CASE NoTestCase(s)
  <2>1. CoverageWitnessed' /\ live' \subseteq State /\ lost' \subseteq Item
    BY <1>2, TerminateKeeps DEF NoTestCase, fileVars
  <2>2. TestTypeOK'
    BY <1>2, <2>1 DEF IInv, TestTypeOK, NoTestCase, countVars, fileVars
  <2>3. FreshInv' /\ JobInv'
    BY <1>2 DEF IInv, FreshInv, JobInv, NoTestCase, TerminateState, Processing, countVars, fileVars
  <2>4. QED BY <2>1, <2>2, <2>3 DEF IInv
<1>3. QED BY <1>1, <1>2

\* The steps of processTestCase.
LEMMA ProcessKeeps ==
  ASSUME IInv, ProcessTestCase
  PROVE  IInv'
<1>1. CASE GetSymbolicSolution
  <2>1. m_numTotalTests + 1 \notin DOMAIN ktests
    BY DEF IInv, TestTypeOK
  <2>2. TestTypeOK'
    BY <1>1 DEF IInv, TestTypeOK, GetSymbolicSolution, NextId, exploreVars, fileVars
  <2>3. FreshInv' /\ JobInv'
    BY <1>1, <2>1 DEF IInv, TestTypeOK, FreshInv, JobInv, GetSymbolicSolution, NextId, Processing,
                      exploreVars, fileVars
  <2>4. CoverageWitnessed'
    BY <1>1 DEF IInv, CoverageWitnessed, Written, Carried, GetSymbolicSolution, exploreVars, fileVars
  <2>5. QED BY <2>2, <2>3, <2>4 DEF IInv
<1>2. CASE WriteKTest
  <2>0. /\ job \in State /\ executed[job] \subseteq Item
        /\ m_numTotalTests \in 1 .. m_numTotalTests
        /\ DOMAIN ktests' = DOMAIN ktests \cup {m_numTotalTests}
        /\ ktests'[m_numTotalTests] = executed[job]
        /\ \A i \in DOMAIN ktests : ktests'[i] = ktests[i]
    BY <1>2 DEF IInv, TestTypeOK, JobInv, WriteKTest, Processing
  <2>1. TestTypeOK'
    BY <1>2, <2>0 DEF IInv, TestTypeOK, WriteKTest, exploreVars
  <2>2. FreshInv' /\ JobInv'
    BY <1>2, <2>0 DEF IInv, FreshInv, JobInv, WriteKTest, Processing, exploreVars
  <2>3. Written \subseteq Written'
    BY <2>0 DEF Written
  <2>4. CoverageWitnessed'
    BY <1>2, <2>3 DEF IInv, CoverageWitnessed, Carried, WriteKTest, exploreVars
  <2>5. QED BY <2>1, <2>2, <2>4 DEF IInv
<1>3. CASE LoseKTest
  <2>1. TestTypeOK' /\ FreshInv'
    BY <1>3 DEF IInv, TestTypeOK, FreshInv, LoseKTest, exploreVars, countVars, fileVars
  <2>2. JobInv'
    BY <1>3 DEF IInv, JobInv, LoseKTest, Processing, exploreVars, countVars, fileVars
  <2>3. CoverageWitnessed'
    BY <1>3 DEF IInv, CoverageWitnessed, Written, Carried, LoseKTest, exploreVars, fileVars
  <2>4. QED BY <2>1, <2>2, <2>3 DEF IInv
<1>4. CASE WriteKQuery
  <2>0. m_numTotalTests \in 1 .. m_numTotalTests
    BY <1>4 DEF IInv, TestTypeOK, JobInv, WriteKQuery
  <2>1. TestTypeOK' /\ FreshInv'
    BY <1>4, <2>0 DEF IInv, TestTypeOK, FreshInv, WriteKQuery, exploreVars, countVars
  <2>2. JobInv'
    BY <1>4 DEF IInv, JobInv, WriteKQuery, Processing, exploreVars, countVars
  <2>3. CoverageWitnessed'
    BY <1>4 DEF IInv, CoverageWitnessed, Written, Carried, WriteKQuery, exploreVars
  <2>4. QED BY <2>1, <2>2, <2>3 DEF IInv
<1>5. CASE FinishTestCase
  <2>0. job \in live
    BY <1>5 DEF IInv, JobInv, FinishTestCase, Processing
  <2>1. CoverageWitnessed' /\ live' \subseteq State /\ lost' \subseteq Item
    BY <1>5, <2>0, TerminateKeeps DEF FinishTestCase, fileVars
  <2>2. haltExecution' \in BOOLEAN /\ limited' \in BOOLEAN
    BY <1>5 DEF IInv, TestTypeOK, FinishTestCase, TestLimit
  <2>3. TestTypeOK'
    BY <1>5, <2>1, <2>2 DEF IInv, TestTypeOK, FinishTestCase, fileVars
  <2>4. FreshInv' /\ JobInv'
    BY <1>5 DEF IInv, FreshInv, JobInv, FinishTestCase, TerminateState, Processing
  <2>5. QED BY <2>1, <2>3, <2>4 DEF IInv
<1>6. QED BY <1>1, <1>2, <1>3, <1>4, <1>5 DEF ProcessTestCase

\* The start of the run.
LEMMA InitHolds == Init => IInv
<1> SUFFICES ASSUME Init PROVE IInv OBVIOUS
<1>1. TestTypeOK
  BY DEF Init, TestTypeOK
<1>2. FreshInv /\ JobInv /\ CoverageWitnessed
  BY DEF Init, FreshInv, JobInv, CoverageWitnessed, Processing
<1>3. QED BY <1>1, <1>2 DEF IInv

\* Every step of the interpreter and of processTestCase.
LEMMA NextHolds == IInv /\ [Next]_vars => IInv'
<1> SUFFICES ASSUME IInv, [Next]_vars PROVE IInv' OBVIOUS
<1>1. ASSUME NEW s \in State, NEW x \in Item, StepInstruction(s, x) PROVE IInv'
  BY <1>1, StepKeeps
<1>2. ASSUME NEW s \in State, NEW f \in State, NEW x \in Item, NEW y \in Item, Fork(s, f, x, y)
      PROVE IInv'
  BY <1>2, ForkKeeps
<1>3. ASSUME NEW s \in State, TerminateStateOnExit(s) PROVE IInv'
  <2>1. emittedErrors' \subseteq Error /\ haltExecution' \in BOOLEAN
    BY <1>3 DEF IInv, TestTypeOK, TerminateStateOnExit
  <2>2. QED BY <1>3, <2>1, TerminationKeeps DEF TerminateStateOnExit, Running
<1>4. ASSUME NEW s \in State, TerminateStateEarly(s) PROVE IInv'
  <2>1. emittedErrors' \subseteq Error /\ haltExecution' \in BOOLEAN
    BY <1>4 DEF IInv, TestTypeOK, TerminateStateEarly
  <2>2. QED BY <1>4, <2>1, TerminationKeeps DEF TerminateStateEarly
<1>5. ASSUME NEW s \in State, NEW e \in Error, TerminateStateOnError(s, e) PROVE IInv'
  <2>1. emittedErrors' \subseteq Error /\ haltExecution' \in BOOLEAN
    BY <1>5 DEF IInv, TestTypeOK, TerminateStateOnError
  <2>2. QED BY <1>5, <2>1, TerminationKeeps DEF TerminateStateOnError, Running
<1>6. ASSUME NEW s \in State, TerminateSilently(s) PROVE IInv'
  <2>1. emittedErrors' \subseteq Error /\ haltExecution' \in BOOLEAN
    BY <1>6 DEF IInv, TestTypeOK, TerminateSilently
  <2>2. QED BY <1>6, <2>1, TerminationKeeps DEF TerminateSilently, Running
<1>7. CASE ProcessTestCase
  BY <1>7, ProcessKeeps
<1>8. CASE Halt \/ Kill \/ UNCHANGED vars
  <2>1. UNCHANGED <<exploreVars, emittedErrors, job, jobError, countVars, fileVars, lost>>
    BY <1>8 DEF Halt, Kill, vars
  <2>2. haltExecution' \in BOOLEAN /\ (step' = step \/ step' = "killed")
    BY <1>8 DEF IInv, TestTypeOK, Halt, Kill, vars
  <2>3. TestTypeOK' /\ FreshInv'
    BY <2>1, <2>2 DEF IInv, TestTypeOK, FreshInv, exploreVars, countVars, fileVars
  <2>4. JobInv'
    BY <2>1, <2>2 DEF IInv, JobInv, Processing, exploreVars, countVars, fileVars
  <2>5. CoverageWitnessed'
    BY <2>1 DEF IInv, CoverageWitnessed, Written, Carried, exploreVars, fileVars
  <2>6. QED BY <2>3, <2>4, <2>5 DEF IInv
<1>9. QED
  BY <1>1, <1>2, <1>3, <1>4, <1>5, <1>6, <1>7, <1>8 DEF Next, Stopped

\* The variables of TestOutput keep their types.
THEOREM TestOutputTypeCorrect == Spec => []TestTypeOK
<1>1. Spec => []IInv
  BY InitHolds, NextHolds, PTL DEF Spec
<1>2. IInv => TestTypeOK
  BY DEF IInv
<1>3. QED BY <1>1, <1>2, PTL

\* Whatever coverage StatsTracker has counted is in a test case that was written
\* or on the path of a live state that will get one, unless a state that covered
\* it was terminated without: for any program, any order of forks, terminations
\* and failures, and with KLEE killed at any moment.
THEOREM CoverageGetsTest == Spec => []CoverageWitnessed
<1>1. Spec => []IInv
  BY InitHolds, NextHolds, PTL DEF Spec
<1>2. IInv => CoverageWitnessed
  BY DEF IInv
<1>3. QED BY <1>1, <1>2, PTL

-----------------------------------------------------------------------------
\* The limit is met exactly when the test that reaches it is being finished.
LimitInv ==
  MaxTests # 0 /\ ~haltExecution /\ step # "killed" =>
    \/ m_numGeneratedTests < MaxTests
    \/ m_numGeneratedTests = MaxTests /\ step \in {"kquery", "limit"}

\* A step that writes no file and counts no test leaves both invariants alone.
LEMMA QuietSteps ==
  ASSUME PairsComplete, LimitInv, TestTypeOK,
         step = "none", step' \in {"none", "solve"},
         haltExecution => haltExecution',
         UNCHANGED <<countVars, fileVars>>
  PROVE  PairsComplete' /\ LimitInv'
<1>1. PairsComplete'
  BY DEF PairsComplete, countVars, fileVars
<1>2. LimitInv'
  BY DEF LimitInv, countVars
<1>3. QED BY <1>1, <1>2

\* Every step keeps the pairs of files complete and the limit.
LEMMA FilesNext ==
  ASSUME TestTypeOK, PairsComplete, LimitInv, [Next]_vars
  PROVE  PairsComplete' /\ LimitInv'
<1>1. ASSUME NEW s \in State, NEW x \in Item, StepInstruction(s, x)
      PROVE PairsComplete' /\ LimitInv'
  BY <1>1, QuietSteps DEF StepInstruction, Running
<1>2. ASSUME NEW s \in State, NEW f \in State, NEW x \in Item, NEW y \in Item, Fork(s, f, x, y)
      PROVE PairsComplete' /\ LimitInv'
  BY <1>2, QuietSteps DEF Fork, Running
<1>3. ASSUME NEW s \in State, TerminateStateOnExit(s) PROVE PairsComplete' /\ LimitInv'
  BY <1>3, QuietSteps DEF TerminateStateOnExit, Running, StartTestCase, NoTestCase
<1>4. ASSUME NEW s \in State, TerminateStateEarly(s) PROVE PairsComplete' /\ LimitInv'
  BY <1>4, QuietSteps DEF TerminateStateEarly, StartTestCase, NoTestCase
<1>5. ASSUME NEW s \in State, NEW e \in Error, TerminateStateOnError(s, e)
      PROVE PairsComplete' /\ LimitInv'
  BY <1>5, QuietSteps DEF TerminateStateOnError, Running, StartTestCase, NoTestCase
<1>6. ASSUME NEW s \in State, TerminateSilently(s) PROVE PairsComplete' /\ LimitInv'
  BY <1>6, QuietSteps DEF TerminateSilently, Running, NoTestCase
<1>7. CASE GetSymbolicSolution
  BY <1>7 DEF PairsComplete, LimitInv, TestTypeOK, GetSymbolicSolution, NextId, fileVars
<1>8. CASE WriteKTest
  <2>1. DOMAIN ktests' = DOMAIN ktests \cup {m_numTotalTests}
    BY <1>8 DEF WriteKTest
  <2>2. PairsComplete'
    BY <1>8, <2>1 DEF PairsComplete, WriteKTest
  <2>3. LimitInv'
    BY <1>8, TestOutputAssumption DEF LimitInv, TestTypeOK, WriteKTest
  <2>4. QED BY <2>2, <2>3
<1>9. CASE LoseKTest
  BY <1>9 DEF PairsComplete, LimitInv, LoseKTest, countVars, fileVars
<1>10. CASE WriteKQuery
  <2>1. PairsComplete'
    BY <1>10 DEF PairsComplete, WriteKQuery, QueryWanted, countVars
  <2>2. LimitInv'
    BY <1>10 DEF LimitInv, WriteKQuery, countVars
  <2>3. QED BY <2>1, <2>2
<1>11. CASE FinishTestCase
  <2>1. PairsComplete'
    BY <1>11 DEF PairsComplete, FinishTestCase, fileVars
  <2>2. LimitInv'
    BY <1>11, TestOutputAssumption DEF LimitInv, TestTypeOK, FinishTestCase, TestLimit
  <2>3. QED BY <2>1, <2>2
<1>12. CASE Halt
  BY <1>12 DEF PairsComplete, LimitInv, Halt, countVars, fileVars
<1>13. CASE Kill
  BY <1>13 DEF PairsComplete, LimitInv, Kill, countVars, fileVars
<1>14. CASE UNCHANGED vars
  BY <1>14 DEF PairsComplete, LimitInv, vars, countVars, fileVars
<1>15. QED
  BY <1>1, <1>2, <1>3, <1>4, <1>5, <1>6, <1>7, <1>8, <1>9, <1>10, <1>11, <1>12,
     <1>13, <1>14 DEF Next, ProcessTestCase, Stopped

\* Hence both hold of every state of a run.
LEMMA FilesInv == Spec => [](PairsComplete /\ LimitInv)
<1>1. Init => PairsComplete /\ LimitInv
  BY TestOutputAssumption DEF Init, PairsComplete, LimitInv
<1>2. PairsComplete /\ LimitInv /\ TestTypeOK /\ [Next]_vars => (PairsComplete /\ LimitInv)'
  BY FilesNext
<1>3. QED BY <1>1, <1>2, TestOutputTypeCorrect, PTL DEF Spec

\* Every .ktest file has its .kquery, whatever fails and whenever KLEE is killed,
\* but for files that could not be opened and the one test being written.
THEOREM PairsAlwaysComplete == Spec => []PairsComplete
BY FilesInv, PTL

\* When the number of tests reaches --max-tests the run is halted, and it cannot
\* slip past the limit: the comparison in processTestCase is for equality.
THEOREM LimitAlwaysHalts == Spec => []LimitHalts
<1>1. LimitInv /\ TestTypeOK => LimitHalts
  BY TestOutputAssumption DEF LimitInv, LimitHalts, TestTypeOK
<1>2. QED BY <1>1, FilesInv, TestOutputTypeCorrect, PTL

-----------------------------------------------------------------------------
\* The counter of generated tests counts the files.
CountInv ==
  IsFiniteSet(DOMAIN ktests) /\ Cardinality(DOMAIN ktests) = m_numGeneratedTests

\* The id taken for a test is a new one, so that writing its file adds one.
LEMMA WriteCounts ==
  ASSUME IInv, CountInv, WriteKTest
  PROVE  CountInv'
<1>1. m_numTotalTests \notin DOMAIN ktests
  BY DEF IInv, JobInv, WriteKTest
<1>2. /\ DOMAIN ktests' = DOMAIN ktests \cup {m_numTotalTests}
      /\ m_numGeneratedTests' = m_numGeneratedTests + 1
  BY DEF WriteKTest
<1>3. /\ IsFiniteSet(DOMAIN ktests \cup {m_numTotalTests})
      /\ Cardinality(DOMAIN ktests \cup {m_numTotalTests}) = Cardinality(DOMAIN ktests) + 1
  BY <1>1, FS_AddElement DEF CountInv
<1>4. QED BY <1>2, <1>3 DEF CountInv

\* No other step touches the .ktest files or their number.
LEMMA CountNext ==
  ASSUME IInv, CountInv, [Next]_vars
  PROVE  CountInv'
<1>1. CASE WriteKTest
  BY <1>1, WriteCounts
<1>2. CASE ~WriteKTest
  <2>1. UNCHANGED <<ktests, m_numGeneratedTests>>
    BY <1>2 DEF Next, StepInstruction, Fork, TerminateStateOnExit, TerminateStateEarly,
                TerminateStateOnError, TerminateSilently, StartTestCase, NoTestCase, ProcessTestCase,
                GetSymbolicSolution, LoseKTest, WriteKQuery, FinishTestCase, Halt, Kill, Stopped,
                vars, countVars, fileVars
  <2>2. QED BY <2>1 DEF CountInv
<1>3. QED BY <1>1, <1>2

\* However many tests are lost on the way, no id is used twice and no .ktest
\* file overwritten.
THEOREM TestsNeverOverwritten == Spec => []TestsNotOverwritten
<1>1. Init => CountInv
  <2>1. ASSUME Init PROVE DOMAIN ktests = {} /\ m_numGeneratedTests = 0
    BY <2>1 DEF Init
  <2>2. QED BY <2>1, FS_EmptySet DEF CountInv
<1>2. IInv /\ CountInv /\ [Next]_vars => CountInv'
  BY CountNext
<1>3. CountInv => TestsNotOverwritten
  BY DEF CountInv, TestsNotOverwritten
<1>4. QED BY <1>1, <1>2, <1>3, InitHolds, NextHolds, PTL DEF Spec
=============================================================================
