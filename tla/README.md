# Verification of FeatMaker

FeatMaker makes KLEE choose execution states by features of their path
conditions, and learns features and weights from one iteration of KLEE runs to
the next.  This directory holds TLA+ models of its Python driver and of the parts
of its modified KLEE that the results depend on (exploration, test output,
memory, expressions, solver chain, POSIX runtime), TLC configurations that check
them, and TLAPS proofs.

Contents: [1 The system](#1-the-system), [2 Modules](#2-modules),
[3 Runs](#3-runs), [4 Proofs](#4-proofs), [5 Findings](#5-findings),
[6 What is not modelled](#6-what-is-not-modelled), [7 Plan](#7-plan).

To repeat a check: `tlc -config Executor.cfg MCExecutor` and so on for the
configurations of section 3; `tlapm ExecutorProofs.tla` and so on for the eight
`*Proofs` modules of section 4.

## 1 The system

```
 run_featmaker.py   while clock < total_budget:
   |                  iteration > 0: generate_data -> collect -> extract_feature -> generate_weight
   |                  execute_klee: n_scores runs of "klee --watchdog --search=auto ..."
   |                after the loop: generate_data -> collect -> coverage and error reports
   |
   +-- data_generator.py     ktest files -> klee-replay, gcov -> {widx}_result.pkl, errors
   +-- feature_generator.py  pickles + kquery files -> clusters -> greedy set cover -> features
   +-- weight_generator.py   features + widx_info -> feature file, weight files
   +-- klee_executor.py      feature file + weight file -> KLEE -> ktest and kquery files
          |
          +-- KLEE: watchdog process
                    Executor::run + searchers ---- processTestCase
                      |  instructions      |  memory operations      |  library calls
                    Expr, ExprBuilder    AddressSpace, ObjectState  runtime/POSIX
                      |  constraints, queries
                    ConstraintManager -> Independent -> Caching -> CexCaching -> (FastCex) -> STP | Z3 | metaSMT
                      |  path conditions
                    ExprPPrinter -> .kquery -> feature_generator.py (and KLEE's own parser)
```

The Python parts communicate through files whose names carry an iteration, a run
index (`widx`), or both; whoever reads one relies on whoever wrote it having done
so in this iteration, for this run, completely.  Inside KLEE, thousands of paths
share one address-space structure and one solver chain: a byte, an owner or a
cache entry that one path leaves wrong shows up on another path much later.
Features are lines of printed path conditions, so they are worth no more than the
expressions, the constraints and the printer are.

### Components

| Part | State it keeps | Operations | Hard behaviour | What makes it correct |
|---|---|---|---|---|
| Driver, `run_featmaker.py`, `klee_executor.py` | start time, iteration, remaining time, result directories, error pickles | loop test, `execute_klee`, final collection and reports | times truncated to seconds; the last iteration is collected outside of the loop | budget overrun bounded; reports lose nothing; the driver ends |
| Replay, `data_generator.py` | the test being replayed, gcda files, `covered_branches`, pickles, `potential_errors` | replay, timeout, `gcov`, `rm`, pickle | a program outlives its timeout and writes gcda files later | a test is credited with what it covers; pickles of this iteration |
| Features, `feature_generator.py` | clusters by branch set, `branches`, `pre_covered`, plot, `widx_info`, features | `collect_*`, `cluster_setcover`, `extract_feature` | loop on a count; tests without a kquery file | the cover ends, covers, is small |
| Weights, `weight_generator.py` | `feature_idx`, matrix, feature and weight files | `generate_weight` of both generators | all indices change at each call; column offset; sampling | the two files agree line by line; what is learned goes to the right feature |
| Exploration loop, `Executor.cpp` | `states`, `addedStates`, `removedStates`, `haltExecution`, constraints | `run`, `fork`, `addConstraint`, `terminateState*`, `checkMemoryUsage`, `updateStates`, `doDumpStates` | signals and timers; lists updated in several places; addresses reused | every path once, none lost; assertions hold |
| Searchers, `Searcher.cpp` | states and weight map of `AutoFeatureSearcher`, `lastState` of the two wrappers | `update`, `selectState` | cached weights, raw pointers | knows exactly the live states, with current weights |
| Test cases, `main.cpp`, `StatsTracker.cpp`, `Executor.cpp` | `coveredNew`, coverage counters, `emittedErrors`, test counters, files | `stepInstruction`, `markBranchVisited`, `terminateState*`, `processTestCase` | flag given to one side of a fork; files written one after the other under SIGKILL | counted coverage gets a test; ids unique; ktest and kquery pair up |
| Watchdog, `main.cpp` | `nextStep`, `level`; `interrupted`, `haltExecution` of the child | poll, SIGINT, gdb, SIGKILL, `interrupt_handle`, halt timer | two processes, signals, a child that hangs or died | returns in time, nothing left running, the dump is not cut short |
| Memory, `AddressSpace.cpp`, `Memory.cpp`, `ImmutableTree.h`, memory operations of `Executor.cpp` and `SpecialFunctionHandler.cpp` | persistent map from addresses to object states, owners (`copyOnWriteOwner`), concrete store, flush mask, known symbolics, update lists | `resolveOne`, `resolve`, `executeMemoryOperation`, `executeAlloc`, `executeFree`, `resolveExact`, `handleRealloc`, `executeMakeSymbolic`, `copyOutConcretes`, `copyInConcretes` | sharing between forked paths; a byte in one of three places; resolution that runs out of time | every byte is what a native run has there; every access gets the verdict it deserves |
| Expressions, `Expr.cpp`, `ExprBuilder.cpp`, `ExprEvaluator.cpp`, `STPBuilder.cpp`, `Z3Builder.cpp`, `MetaSMTBuilder.h`, `ConstantDivision.cpp` | none | constructors with folding, evaluation, construction of solver terms | dozens of rewrite rules at every width, at 0, -1 and the sign bit | none of them changes a value |
| Constraints and solver chain, `Constraints.cpp`, `lib/Solver/*` | constraints of a path; entries of `CachingSolver` and `CexCachingSolver`, shared by all paths | `addConstraint`, `evaluate`, `mustBeTrue`, `getValue`, `getInitialValues`, `getRange`, `getSymbolicSolution` | answers taken from other paths' queries; factors solved apart; failures, timeouts | the answer is the exact solver's; a test case follows its path |
| Printers and parser, `ExprPPrinter.cpp`, `Parser.cpp`, `ExprSMTLIBPrinter.cpp` | bindings of shared subexpressions | `printQuery`, `ParseQueryCommand`, `printQueryInSingleAssert` | abbreviated reads, constants whose width the context gives | what is printed parses to the same meaning |
| POSIX runtime, `runtime/POSIX/*` | descriptor table, simulated files, `umask`, failure counters | `open` ... `select`, 60 calls and stubs | two numberings of descriptors, files of fixed size, injected failures | descriptors behave as a table of open files |

Parts without a model are listed with the reason in section 6.

## 2 Modules

One module per part; `MC*` modules only give constants values.  Definitions keep
the names of the source; PROJECT.json maps each to its lines.  Operators whose
comment starts with "Mutant" are faulty variants of the definition that follows
them; no specification uses them.  They show which bug in that definition the
corresponding property would catch.

### FeatMaker and the life of a KLEE run

**Executor** (`Executor.cpp`, `Searcher.cpp`).  One action per phase of an
iteration of `run`: `SelectState`; the effects of one instruction, `Fork`,
`AddConstraint`, `Terminate`, in any number and order until `EndInstruction`;
`InvokeTimers`; `MemoryBelowCap` or `MemoryKill`; `UpdateStates` (with the update
of the whole searcher stack) or `AbortUpdate`; then `LeaveLoop` and `DumpStates`.
`Interrupt` is the signal handler and can happen anywhere.  An execution state
is its heap address, and a freed address can be allocated again: a stale pointer
may alias a new state, as it may in C++.  `removedStates` counts occurrences,
since the vector can hold a state twice.  A path constraint is a set of literals
over conditions; the solver is exact.  `Executor::branch` with N targets is a
chain of two-way forks, with the same states, constraints and list entries in
the end.  The batching budget (instructions, time) is nondeterministic.  The
feature threshold (10 states in the code) and the initial top score are
constants.

**TestOutput** (`main.cpp`, `StatsTracker.cpp`, `ExecutionState.cpp`,
`Executor.cpp`).  `StepInstruction` and `Fork` move coverage and `coveredNew`;
the four ways to terminate a state decide on a test case; `processTestCase` is
five actions (solution, `.ktest` or its loss, `.kquery`, limit and the end of the
caller), so that `Kill` (SIGKILL) and `Halt` can come between them.  An item is
whatever coverage counts: an instruction, or a side of a branch.

**Watchdog** (`main.cpp`).  The polling parent and the KLEE child as two
processes.  The child may load, run, disable interrupts, exit or abort at any
moment; nothing is assumed about it.  `InterruptHandle` is `interrupt_handle`,
`HaltTimer` the timer of `--max-time`.  LLVM calls an interrupt function once:
`interrupt_handle` installs itself again, `interrupt_handle_watchdog` does not
(`wdArmed`), so that a user's second Ctrl-C ends the watchdog, except while `system`
ignores the signal.  `system("gdb ...")` takes up to `MaxGdb`
seconds, and may fail.  The redirection `&>` in that command is not POSIX: under
`dash` gdb runs in the background and `system` returns at once, which the model
includes as a gdb time of 0 with `haltExecution` set later or not at all, through
`HaltTimer` or `GdbEnds` failing.

**DataGenerator** (`data_generator.py`).  `GenerateData`, then for each run
`ListTests`, and for each test `Replay`, `Communicate` or `TimeoutExpired`,
`Gcov`, `RemoveGcda`; `DumpResult` at the end.  `ProgramEnds` is external: the
program under test ends when it likes, and merges its counters into the gcda
files; one killed by a signal writes none.  It may have ended when the timeout
expires all the same (`Popen.communicate` also waits for the pipes).

**FeatureGenerator** (`feature_generator.py`).  `Collect` for both modes
(`mainOption`), `StartCover`, one `CoverStep` per turn of the greedy loop,
`ExtractFeature`, `ExtractNaive`.  An index into a duplicate-free list stands for
its element; a path condition is the set of its lines, one empty line where there
is no constraint; `AbstractLine` is
`abstract_condition` on a line.

**WeightGenerator** (`weight_generator.py`).  `GenerateWeight` and
`GenerateRandomWeight`.  Sampling is a choice from `Uniform` or `NormalDraws`;
what is kept is the distribution a row is drawn from, from which old row and
columns, the clipping, and the layout of both files.  The random generator of the
naive mode draws a vector for each file and keeps no matrix.  KMeans is external: any
clustering of the scores into intervals.

**FeatMaker** (`run_featmaker.py`, `klee_executor.py`) composes the three
generators by INSTANCE, with its own variables for the clock, the iteration, the
remaining time and the result directories.  A KLEE run is one step: it takes at
least a tick and at most its `--max-time` plus `KleeSlack`, and writes any few
unseen test cases.  `KleeSlack` is what Watchdog's `ReturnsInTime` bounds.

### Expressions and queries

**Expr** has the nodes of `Expr.h` as records and their constructors with every
folding rule (`create`, `*_createPartial`, `ExtractExpr::create`, `ReadExpr::create`
over update lists), **ExprEval** the evaluator and assignments, **ExprBuilder** the
three builders (default, constant folding, simplifying).  **SolverTerms** gives
the operations of the solvers' term languages by their meaning, with sorts, and
`ConstantDivision`; **STPBuilder**, **Z3Builder**, **MetaSMTBuilder** and
**ExprSMTLIBPrinter** build terms from expressions.  **KQuery** is the kquery
printer and parser, over trees of tokens.  **Instructions** is the state machine:
a register is built by a bounded sequence of LLVM integer instructions through the
constructors, while `val` says what the instructions compute for every value of
the symbolic bytes.  **Queries** adds the step `Ask`, in which the register is
evaluated, translated and printed.  `Denote`, the reference, is written from the
meaning of the instructions and never uses the constructors.

A byte has two bits (`Int8`) and an index four: the rules under test depend on
0, 1, -1, the sign bit and the width, which two bits tell apart, and every
assignment of the symbolic bytes can be enumerated.

### Constraints and the solver chain

**Constraints** is `ConstraintManager`, **FastCex** the range propagation of
`FastCexSolver`, **SolverChain** the layers from `TimingSolver` down
(`ValidatingSolver`, `IndependentSolver`, `CachingSolver`, `CexCachingSolver`,
`StagedSolver`, `AssignmentValidatingSolver`, and the three core solvers).  A
layer maps a query and the caches to the set of outcomes it may have: a value and
the caches after it, a failure, a failed assertion, or "undefined" where
`AssignmentValidatingSolver` reads a variable the failed core solver never set.
A core solver is external: it may return any model.  **Solving** is the executor's
use of the chain: paths that branch, assume, ask for values and ranges, and get
test inputs, all through one pair of caches, each path with the set of models it
ought to have.

### Memory

**ImmutableTree** is the persistent balanced tree with its iterators,
**ObjectState** the byte caches of an object (concrete store, masks, known
symbolics, updates), **AddressSpace** ownership and pointer resolution, **Memory**
the operations: load, store, branch, `alloca`, `malloc`, `calloc`, `realloc`,
`free`, `klee_make_symbolic`, `klee_mark_global`, `klee_get_obj_size`,
`klee_check_memory_access`, external calls with `errno`, and returns (`popFrame`).
A program has a few inputs; an expression is its value for each of them, a path
the set of inputs that follow it.  Beside KLEE's state the world holds for every
input the bytes of a native run and how that run ought to end.

### POSIX runtime

**Posix** has an action for every call of `fd.c` and its wrappers, `klee_init_env`
and `klee_init_fds` as the initial condition, the stubs by the error they return,
and the two places where the runtime ends the program (`getdentsOverflows`,
`writeAborts`) or follows a null pointer (`chmodAborts`).  **OpenFiles** is what a
program may rely on: a table of open files with positions, bytes that change as
results say.  `OpenFilesImplemented` says that Posix implements it.  One behaviour
is one path, for one choice of the symbolic input; the operating system is
external and may answer anything, except that it refuses to read and to write a
directory.

## 3 Runs

"States" are distinct states.  Deadlock is checked in the runs of the first table,
where a system that has reached its end stutters explicitly.

| Run | Configuration | Shows | States |
|---|---|---|---|
| `executor` | Executor.cfg: 3 addresses, 2 conditions, 3 features, both wrappers, memory cap | SearcherTracksStates, ScoresFresh, PathsPartition, SelectsBestState | 62 709 |
| `exec_memory_abort` | ExecutorMemoryAbort.cfg | NoAbort is violated (finding 1) | |
| `test_output` | TestOutput.cfg: 3 states, 3 items, 2 errors, `--max-tests` 2 | CoverageWitnessed, TestsNotOverwritten, PairsComplete, LimitHalts | 710 130 |
| `watchdog` | Watchdog.cfg: limit 10, grace 3, up to 3 interrupts of a user | NoLeftover, ReturnsInTime, HaltsGently, WatchdogEnds | 5 464 |
| `feature_generator` | FeatureGenerator.cfg: 7 tests, 6 branches, 2 runs, 2 iterations, both modes | BranchesClustered, FeaturesReachBranches, GreedyWithinBound, ExtractionEnds | 146 913 |
| `weight_generator` | WeightGenerator.cfg: 3 score functions, 2 features, 2 calls, both modes | FilesAgree, BottomFeaturesPenalised | 28 626 |
| `weight_generator_credit` | WeightGeneratorCredit.cfg | CreditMatchesRun is violated, in featmaker mode (finding 2) | |
| `featmaker` | FeatMaker.cfg: 3 seconds of 2 ticks, 2 runs, 3 tests, both modes | OverrunBounded, CoverageAttributed, PicklesFresh, ReportedCoverage, ReportedErrors, DriverEnds | 874 378 |

The programs of the next four make a bounded number of instructions, requests or
calls and then stop, so `CHECK_DEADLOCK FALSE` is set.

| Run | Configuration | Shows | States |
|---|---|---|---|
| `queries` | Queries.cfg: bytes of 2 bits, a symbolic and a constant array, 2 instructions | FoldingExact, EvaluatorExact, SolverTermsExact, KQueryRoundTrip | 30 288 |
| `solving` | Solving.cfg: 4 option sets, 4 conditions, 3 arrays, 2 or 3 requests | ConstraintsExact, AnswersExact, TestInputsFollowPath, CachesSound, NoAssertFails | 903 |
| `memory` | MCMemory.cfg: 4 inputs, 3 layouts of up to 6 objects, up to 3 operations | MemoryExact, OwnersExclusive, AccessVerdicts, MapsOrdered | 34 781 |
| `posix` | Posix.cfg: 5 descriptors, 8 programs of 1 to 5 calls | OpenFilesImplemented, ListingExact, SelectSound | 129 820 |

### Bounds

* `executor`: three addresses allow a parent and two forks in one instruction,
  the death of one and the reuse of its address by the next fork; a threshold of
  two lets scores decide and also lets the searcher fall back to random choice.
  Two conditions give paths of length two, and weights 3, -2, 1 make the order
  of scores change with each constraint.
* `test_output`: three items and states let coverage be handed down two forks
  while another state covers the same item again.  A limit of two tests and two
  errors, one of which halts, puts a lost test before, at and after the limit.
* `watchdog`: a limit of 10 makes `maxTime / 10` positive and the floor of the
  grace period (15 in the code, 3 here) the larger of the two; polls of up to two
  seconds and gdb of up to two make every order of poll, expiry and death occur.
  Three interrupts are one more than the two that end KLEE and the watchdog.
* `feature_generator`: on the seven branch sets the greedy cover is not minimal, so
  the harmonic bound is not vacuous; one test has no kquery file, one covers
  nothing and one has an empty path condition.  Two iterations are enough for every difference between a first and a
  later call.
* `weight_generator`: two features make the indices swap, shrink and grow between
  the calls; three columns are the fewest with a middle cluster.  Draws of 3 and
  -3 leave the range -2..2.  Features are interchangeable (symmetry).
* `featmaker`: two ticks to a second make truncation lose time; three seconds give
  up to three iterations, so that weights are learned from an earlier matrix and the
  last iteration is collected after one that was.  Three tests over two runs make
  a late program overlap the rest of its own run, the next run and the next iteration.
* `queries`: two instructions on a symbolic operand and one of seven others reach
  every folding rule that looks one level into its operand (the rules look no
  further), at Boolean, byte and index width; objects with constant, symbolic and
  no updates.  All values of the symbolic bytes are checked.
* `solving`: a request asks up to a dozen queries.  With two requests of every kind
  the second meets what the first one left, on its own path or before the fork
  (with the validating layers the second is about the first condition or term).
  Two programs, one for each way to search the counterexample cache, fork first and
  make two more requests of either side, so that the last one also meets
  what its sibling asked; these choose among fewer requests.  The
  conditions share bytes, are independent, imply and contradict one another.  The
  option sets cover both ways to search the counterexample cache, the three core
  solvers, a solver process that dies, and the validating layers.  Core solvers may
  return every model.
* `memory`: three operations suffice for write, fork and write; for write at a
  constant, read at a symbolic, write at a constant offset; for free and reuse.
  One layout has a solver time limit, so that every resolution may be cut
  short at any object; one inserts six objects in every order, which takes the tree
  through every rotation, and removes each.
* `posix`: each program concentrates on one part of the runtime: contents, a full
  table, failures, `--save-all-writes`, directories, `select`, every kind of file,
  and a command line that is refused.  Files have one or two bytes, a directory
  two simulated and two real entries, `Gap` (4096 in the code) is 8.

### Fairness

* Watchdog: weak fairness of a poll that takes time, and of the end of gdb.  The
  parent sleeps a second at a time.  Nothing is assumed of KLEE.
* FeatureGenerator: weak fairness of `Extraction`, a sequential program.
* FeatMaker: weak fairness of `Step`.  The driver is sequential, each replay it
  waits for is under a timeout, each KLEE run under a watchdog.  The programs
  under test (`ProgramEnds`) get no fairness: they may hang.

The other runs check safety only.

## 4 Proofs

TLAPS proves the 24 invariants and action properties of the runs on modules
without recursive data, for every value of the constants: any number of states,
conditions, features, items, tests, branches, runs and descriptors, any times, and
all options; two of them, GreedyWithinBound and ListingExact, under a hypothesis the
run's instance satisfies and without which they are false.  Each proof has the same
shape: an inductive invariant that says what the property leaves implicit (where it can
be evaluated, TLC checked it on the instance of the run first), one lemma per action or group of actions, and a last step that
combines them.

**ExecutorProofs.**  `ExecutorTypeCorrect` (TypeOK), `SearcherTracks`
(SearcherTracksStates) and `SearcherCorrect` (with ScoresFresh and LastStateLive), from
the invariant `IInv`.  ScoresFresh is not inductive: inside an iteration the cached
weight of the current state is stale.  `IInv` says which weights may be stale and who
repairs them: in every phase, a tracked state whose weight is not current is `current`
and has its `updated` flag set, which is exactly what `AutoFeatureSearcher::update`
looks at; that `addedStates` is disjoint from `states`; that only states in one of
the two are held by an instruction or queued for removal; and that both
`lastState` pointers are tracked.  The lemmas follow the actions:
`ForkIInv`, `TerminateIInv` and `UpdateStatesIInv` carry the argument.  The proof
covers the memory cap too: the double removals of finding 1 lead to `aborted` and
never to a selection.  `BestStateSelected` (SelectsBestState) is about a step: the loop of
`selectState` compares cached weights, and `IInv` makes them the weights of the
constraints.  `PathsArePartitioned` (PathsPartition) needs `PathsInv`: a state in
`removedStates` has its path among the finished ones already, so deleting it loses
nothing, and terminating it again adds nothing.  `NoAbortWithoutCap`: without
`--max-memory` no state is queued for removal twice, so finding 1 needs
`checkMemoryUsage`.  Assumption: `ExecutorAssumption` (types of the constants).
`ScoreFloor` (no score reaches the initial top score) is only needed for TLC's
deadlock check.

**TestOutputProofs.**  `TestOutputTypeCorrect`, `CoverageGetsTest`
(CoverageWitnessed), `PairsAlwaysComplete`, `LimitAlwaysHalts`, `TestsNeverOverwritten`.
For coverage the strengthening says that the job of `processTestCase` is a live state
and that its test, once written, holds the state's items: otherwise the step that ends
the job could drop coverage that no file holds.  For the limit it says that the count of
written tests never passes the limit unnoticed: it exceeds it only once the run is
halted, which makes the test for equality in the code sufficient.  For the files
`CountInv` equates counter and number of files, and the id of the test being written is
new.  Assumption: `TestOutputAssumption`.

**WatchdogProofs.**  `WatchdogLeavesNothing`, `WatchdogReturnsInTime`,
`WatchdogHaltsGently`, from `WDInv`.  The two bounds need to know how late `nextStep` can
be at each level, and how early: `Schedule` gives both, level by level, in terms of
the poll, the grace period and gdb.  `Blame` says that before the watchdog's first step every
interrupt is a user's; `Handlers`, that the first interrupt a watching watchdog survives
has reached KLEE too, so the one that ends it finds KLEE halting already.  Assumption: `WatchdogAssumption`.

**FeatureGeneratorProofs.**  `BranchesAreClustered`, `FeaturesReachEveryBranch` from `FGInv`;
`GreedyCoverHarmonic` and `GreedyIsWithinBound` (GreedyWithinBound) from `PaidInv`.
`cluster_setcover` stops on a count, so the proof needs that `local_bs` is the union of the
chosen clusters, that this is a subset of `branches`, and that sets of equal size in
that relation are equal; `ClustersInhabited` says that no cluster is empty, because
tests without path condition are skipped.  The bound is Chvatal's: the greedy cover has
at most H(d) = 1 + 1/2 + ... + 1/d times as many clusters as any other cover when no test
takes more than d branches.  Without fractions: let c be a common multiple of 1..d.  A
chosen cluster pays c tokens, split over the branches it adds; the price list of a
cluster (`Prices(d, c)`) holds c/k tokens for each k up to d, which together are c * H(d).
`CoverPaid` is the inductive part: whatever cover T is compared, what has been paid
so far and the prices T still owes for the branches left (`Debt`) are at most one price
list for each cluster of T.  A step of the greedy loop keeps it because the chosen
cluster adds at least as many new branches as any cluster of T would.  `GreedyWithinBound` is
the case d = 3, c = 6 (11/6), proved under the hypothesis that no test takes more
than three branches, which the run's instance satisfies.
Assumptions: `FeatureGeneratorAssumption`, `BranchesOfAssumption`.

**WeightGeneratorProofs.**  `WeightFilesAgree` (FilesAgree) and, about a step, `BottomPenalised`
(BottomFeaturesPenalised).  `WGInv`: both lists of features are injective, the files
have their length, and, in the featmaker mode, unless the last call failed both are of
the same call (a random call leaves indices and matrix alone: `RandomFiles`); a failed call renews indices and matrix and leaves the files.  The penalty follows
the three clusters through learning: the row of a feature met only in the bottom one is
one of negated absolute values, and clipping to the largest weight keeps the sign.  Assumptions:
`WeightGeneratorAssumption`, `FeatureAssumption` (finitely many features).

**FeatMakerProofs.**  Five properties of the composition, each with an invariant of its own
on top of the types.  `OverrunIsBounded` (`BudgetInv`): during `execute_klee` either the
first `remaining_time` was not positive and the first run is the last, or
`remaining_time` is what is left of the budget but for less than a second lost in each
earlier run.  `CoverageIsAttributed` (`ReplayInv`): besides the awaited program only late ones run,
and the gcda counters are theirs or those of the test being measured.  `PicklesAreFresh`
(`ResultsInv`): runs before `dgWidx` are pickled, and every test of run `dgWidx` is
counted, still listed, or being replayed.  `ErrorsAreReported` (`ErrorsInv`): a crash is at
every moment late, noted in an error file, among the potential errors, or still to be
replayed, and the error files follow the iterations.  `CoverageIsReported` (`CoverageInv`, with
ReplayInv and ResultsInv): the same for branches, up to `data["branches"]`.

The second half composes: the driver runs the two generators on what KLEE and the
replays really produced, so what is proved of each of them alone has to be shown of the
whole.  `DriverBranchesClustered`, `DriverFeaturesReach`, `DriverCoverHarmonic`,
`DriverFilesAgree` and `DriverBottomPenalised` do that, from instances `FGP` and `WGP` of the
generators' proof modules on the driver's variables: `FeatureSteps` and `WeightSteps` say
that every step of the driver is, for a generator, one of its own steps, a new collection
of data, or nothing, and the state-level lemmas of the proof modules (`FGInvInductive`,
`ExtractionKeepsPaid`, `GeneratePenalises`...) are cited through the instances.  What the generators assume of their
inputs is proved of the driver: the pickles hold test cases with the branches that the
replay credited, which need not be those the test takes (`PicklesReadable`), and the
members of clusters are test cases (`MembersInv`).  Since credited branches are not bounded by a test's own,
`DriverCoverHarmonic` is stated for d = the number of branches of the program.
Assumption: `FeatMakerAssumption` (types and finiteness of the constants).

**PosixProofs.**  `OpenFilesRefined`: the runtime of Posix implements OpenFiles (the
refinement that the run `posix` checks), and `EntriesValid`.  OpenFiles describes a
file of the operating system by its name, `os[fds[fd].fd]`, so a step maps to a step
only while that number is open; and a read of a simulated file returns its bytes only
from a position that is not negative.  Neither is checked in the code.  `PosixInv`
carries both: every open entry has the number of an open descriptor of the system
(`SystemGrows`: the system's descriptors are only added to), or an existing simulated
file and a nonnegative offset (lseek refuses other targets); the files have as many
bytes as their size; and the named files of the command line are never removed, only
their `st_ino` cleared.  There is one lemma per call, on top of three: `OneEntry`
(writing an entry of `fds` changes one entry of the table), `OffsetChanges`, and
`QuietStep` for calls that leave both alone.  `SelectIsSound` (SelectSound) is about the last
answer: every other call replaces it (`AnswerKept`).  Assumptions: `PosixAssumption`, and
`ProgramsAssumption`, that offsets, counts and bytes are integers and that the options
parse to natural numbers, which TLC evaluates on the programs of the run.

`ListingIsExact` (ListingExact) is for command lines with `FewFiles`: the entries of the simulated files lie below `Gap`, as those of the run do; beyond that
the property is false (section 5).  `ListingInv` ties the position of a descriptor
to the names listed through it, and the offset in every entry to the names up to
that entry, by the set `Resume(n)` of the offsets at which a listing of n names goes on;
`ResumeIsUnique` is the one place that needs `FewFiles`.

**ObjectStateProofs.**  `ObjectReadsExactly`: the byte caches of `lib/Core/Memory.cpp` are
right for objects of every size and any set of inputs.  A byte may be in the concrete
store, among the known symbolic bytes, or in the update list and the array below it;
three sets of flags say which is valid, and reads move bytes between them (a flush
appends to the list, getUpdates folds its constant part into an array).  The theorem is
about one object at any address under the operations ObjectState defines: `Loads` and
`Stores` are `readBytes` and `writeBytes` with any width and any offset in bounds, `Copies`
is the copy of `getWriteable`, `MovesOn` a fork, a constraint or a write to another object.
`ObjectExact` is what `MemoryExact` says of each object (CacheInvariant, ReadsExactly), and in
addition that every byte of every load is exact.  The invariant is `Mirrors`: *every* valid
cache, not only the one the next read would use, holds the byte of a native run.  The argument
goes through `Listed`, the byte an update list holds for an input: a flush lists each
unflushed byte and hides none that was listed (`FlushLists`), folding constant writes into the
array changes nothing that is listed (`UpdatesKeep`: they are the oldest writes, so nothing
that stays is older), and each of `ReadExpr::create`'s simplifications reads what is listed
(`ReadListed`: the writes it skips have a constant index different from its own).
`readBytes` and `writeBytes` are recursive functions over the bytes; that they are
defined, and the invariant along them, is proved by a least counterexample
(`LeastNatural`) in place of the induction theorems.  Assumption: `InputsAssumption`, that
there is an input.  Composing the objects of all paths, which is what MemoryExact adds,
goes through the tree of an address space and stays with TLC.

Only model-checked: everything under fairness (WatchdogEnds, ExtractionEnds,
DriverEnds), which this prover does not handle.  Expressions, the solver chain and the
trees of address spaces are recursive data, and the modules of those families declare RECURSIVE operators: what they
compute for every input needs induction over that data, which is out of the prover's
reach, and so the properties of the runs `queries`, `solving` and `memory` are TLC's, but
for the contents of single objects.

## 5 Findings

1. **A state is removed twice under the memory cap** (`exec_memory_abort`).
   `checkMemoryUsage` chooses among `executor.states`, which holds the states that
   the instruction just executed has terminated until `updateStates` runs.  A
   second `terminateState` queues such a state again and the assertions of
   `updateStates` and of the searcher fail (they are on in the default build).
   FeatMaker runs KLEE with the default cap of 2000 MB.
2. **Run `widx` runs with column `widx - 1`** (`weight_generator_credit`), while its
   coverage is credited to column `widx`.  In the featmaker mode; the random generator
   learns nothing.

PROJECT.json quotes the code and the documents that disagree.

### Observations

Met while translating the code; the models do what the code does, and the
properties above say where they exempt it.

* `--max-tests=0` halts if the first test is lost (`main.cpp:586`: 0 = 0), and
  `--max-time=0` halts at once under the watchdog (`main.cpp:1163`); FeatMaker passes 0
  when the remaining time truncates to 0.  `LimitHalts` and `ReturnsInTime` are
  about positive limits.
* A program that outlives its replay's timeout writes its gcda files later and
  another run gets the credit (`data_generator.py:54`: the timeout kills the shell, not
  the program).  `CoverageAttributed` exempts the branches of late programs.
* After an external call `copyInConcretes` updates the concrete store only
  (`AddressSpace.cpp:330`); a byte that is symbolic or flushed keeps its old value for
  later reads.  `MemoryExact` exempts such paths.
* `handleMakeSymbolic` returns at a read-only object, and the paths resolved after
  it go on without being made symbolic; `klee_mark_global` marks an object for all
  paths; `realloc` does not test for stack and global objects as `free` does.
* `toConstant` and `klee_assume` assert that the solver answered, but the limit set
  for a resolution may still hold, and under `--ignore-solver-failures` a dead
  solver process is a failed query.  `NoAssertFails` exempts those runs, and
  `--use-fast-cex-solver`, whose exact propagation asserts on contradictory queries.
* `AssignmentValidatingSolver.cpp:59` reads `hasSolution` after a failed query, which
  never set it.
* The kquery printer abbreviates a Concat of reads to one wide read by looking at
  the indices only, not at the arrays and updates, and prints the first kid
  of a Concat without the width a constant needs; `Printable` leaves those out.
* `ExprSMTLIBPrinter::scan` does not visit update lists of later reads of an array it
  has seen.
* POSIX runtime: `has_permission` refuses O_RDWR on files that are readable
  (`fd.c:115`); open without O_CREAT clears the file's permission bits; dup2 of a
  descriptor onto itself closes it; with `--save-all-writes` a write beyond the end
  fails an assertion (`fd.c:442`); `chmod_fail` and `fchmod_fail` are never allocated
  and are read under `--max-fail`; a listing with buffers below 4096 bytes is not
  resumed correctly, and neither is one of more than 14 simulated files, whose entries
  of 280 bytes report offsets beyond the 4096 at which the system's begin (`fd.c:791`,
  `fd.c:772`); `select` reports duplicates that were not asked for; descriptors
  of the operating system are never closed.  OpenFiles and the other properties
  state the contract with these as they are.

## 6 What is not modelled

* Floating point; the array optimizer (`--optimize-array`); hash caches of
  expressions; logging solvers; layout and error recovery of kquery text.
* External-call policy All (`flushToConcreteStore`), alignment,
  `--max-sym-array-size`, `klee_define_fixed_object`, deterministic allocation.
* POSIX: the contents of `struct stat`, the helpers that make arguments concrete,
  pure functions among the stubs.  The buffer of getdents is checked as a whole
  and not entry by entry, and neither is the room for its last, padding
  entry.  The count of bytes written to stdout, which nothing reads.
* Seeding, replay modes, merging and the searchers FeatMaker does not select, and the
  interleaved random-path and `nurs:covnew` searchers of the first iteration with
  their process tree.
* A ktest file that was written in part: it counts as lost, since klee-replay
  refuses it.  A kquery file cut short, on which `get_pc` raises an exception:
  FeatureGenerator has files that exist or do not.
* `WeightGenerator` reduces weights to a few integers, so `Dissimilar` does not compute means and
  deviations: where values vary, either outcome may happen.  `Score` adds up a path's distinct constraints;
  a fork adds a condition only when the path leaves it open, so none comes twice.
* `NScores < KValue` (KMeans raises an exception) is in WeightGenerator's action,
  but no run takes it: the program ends there.
* Reuse of a process id by an unrelated process after the watchdog reaped the child.
* klee-replay's monitor, statistics files, KTest encoding, module passes,
  klee-libc, the baseline driver and the stand-alone tools; see PROJECT.json.

## 7 Plan

Done: the exploration loop, test output, watchdog, generators and driver; then
memory, expressions, printers, constraints, solver chain and POSIX runtime;
and the proofs of section 4.  Next, in this order:

1. **ProcessTree** and the searchers of the first iteration: the tree under attach
   and remove, `RandomPathSearcher`'s walk, `InterleavedSearcher`; an abstract
   specification of a searcher that both stacks implement.
2. **KleeReplay**: the monitor and its two timeouts, to replace `ProgramEnds`.
3. Truncated kquery files: TestOutput composed with `get_pc`.
4. Proofs: the properties of the composed driver from its own output side, KLEE's test
   cases given by TestOutput instead of `PathOf`; and the objects of all paths of an
   address space, from ObjectReadsExactly and the ordering of its tree.
