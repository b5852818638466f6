------------------------------ MODULE Executor ------------------------------
(***************************************************************************)
(* The exploration loop of the modified KLEE: Executor::run, the calls of  *)
(* one instruction that create, constrain and terminate states, the memory *)
(* cap, Executor::updateStates, and the searcher stack FeatMaker runs:     *)
(* AutoFeatureSearcher under BranchingSearcher and/or BatchingSearcher.    *)
(*                                                                         *)
(* An ExecutionState is identified with its heap address: a deleted state's*)
(* address is free and may be handed out again by the next fork, so stale  *)
(* pointers can alias new states, as they can in the program.              *)
(*                                                                         *)
(* A path constraint is a set of literals <<condition, outcome>>.  The     *)
(* solver is exact on them: a literal is implied, refuted or undecided.    *)
(***************************************************************************)
EXTENDS Integers, FiniteSets, FiniteSetsExt

CONSTANTS
  State,               \* heap addresses of ExecutionState objects
  NULL,                \* the null pointer
  Cond,                \* branch conditions of the program under test
  Features,            \* literals the feature file lists
  Weight,              \* the weight file: a weight for every feature
  FeatureThreshold,    \* states needed before scores guide the search (10 in the code)
  TopScoreInit,        \* the score every candidate has to beat (-1e8 in the code)
  UseBatchingSearch,   \* --use-batching-search
  UseBranchingSearch,  \* --use-branching-search
  MaxMemory,           \* TRUE iff the memory cap is on (--max-memory is not 0)
  DumpStatesOnHalt     \* --dump-states-on-halt

Lit == Cond \X BOOLEAN

\* The literal of the other branch (Expr::createIsZero of the condition).
Negated(l) == <<l[1], ~l[2]>>

\* AutoFeatureSearcher::getWeight: the sum of the weights of the constraint's
\* lines that are features.  The printed constraint lists a condition once.
Score(constraint) == MapThenSumSet(LAMBDA l : Weight[l], constraint \cap Features)

Scores == {Score(S) : S \in SUBSET Lit}

ASSUME ExecutorAssumption ==
  /\ NULL \notin State
  /\ Features \subseteq Lit
  /\ UseBatchingSearch \in BOOLEAN /\ UseBranchingSearch \in BOOLEAN
  /\ MaxMemory \in BOOLEAN /\ DumpStatesOnHalt \in BOOLEAN

\* Weights are clipped to -10..10 by the weight generator, so that no sum over
\* the lines of a constraint gets down to the initial top score.
ASSUME ScoreFloor == \A x \in Scores : x > TopScoreInit

VARIABLES
  phase,            \* where Executor::run is
  haltExecution,    \* Executor::haltExecution
  states,           \* Executor::states
  addedStates,      \* Executor::addedStates
  removedStates,    \* Executor::removedStates: occurrences of every state
  current,          \* the state run() selected, NULL between iterations
  hand,             \* states the running instruction still holds
  constraints,      \* ExecutionState::constraints
  updated,          \* ExecutionState::updated
  searcherStates,   \* AutoFeatureSearcher::states
  EsWeightMap,      \* AutoFeatureSearcher::EsWeightMap
  updateFeatureMap, \* AutoFeatureSearcher::updateFeatureMap
  batchLast,        \* BatchingSearcher::lastState
  branchLast,       \* BranchingSearcher::lastState
  finished,         \* history: the constraints of the terminated paths
  pruned            \* history: a side of a branch was dropped without exploring it

execVars   == <<states, addedStates, removedStates>>
stateVars  == <<constraints, updated>>
searchVars == <<searcherStates, EsWeightMap, updateFeatureMap, batchLast, branchLast>>
historyVars == <<finished, pruned>>
vars == <<phase, haltExecution, current, hand, execVars, stateVars, searchVars, historyVars>>

Live    == states \cup addedStates      \* the allocated ExecutionState objects
Removed == {s \in State : removedStates[s] > 0}

Phases == {"start", "select", "execute", "timers", "memory", "update",
           "halting", "done", "aborted"}

NoneRemoved == [s \in State |-> 0]

-----------------------------------------------------------------------------
(* Executor::run up to the searcher's construction: one initial state.     *)
Init ==
  /\ phase = "start"
  /\ haltExecution = FALSE
  /\ \E s \in State : states = {s}
  /\ addedStates = {} /\ removedStates = NoneRemoved
  /\ current = NULL /\ hand = {}
  /\ constraints = [s \in State |-> {}]
  /\ updated = [s \in State |-> FALSE]
  /\ searcherStates = {}
  /\ EsWeightMap = [s \in {} |-> 0]
  /\ updateFeatureMap = FALSE
  /\ batchLast = NULL /\ branchLast = NULL
  /\ finished = {} /\ pruned = FALSE

\* Mutant: the flag "updated" of the current state is not looked at.
RecomputedAddedOnly(cur, added) == added

\* The states whose weight AutoFeatureSearcher::update computes again.
Recomputed(cur, added) == added \cup {s \in {cur} \ {NULL} : updated[s]}

\* Mutant: states.erase is missing.
TrackedNoErase(added, removed) == searcherStates \cup added

\* AutoFeatureSearcher::states after update.
Tracked(added, removed) == (searcherStates \cup added) \ removed

\* The keys of EsWeightMap after update.
Weighed(cur, added, removed) == (DOMAIN EsWeightMap \cup Recomputed(cur, added)) \ removed

\* AutoFeatureSearcher::update(cur, added, removed) for a removal list in
\* which every state is known and occurs once.
AutoFeatureUpdate(cur, added, removed) ==
  /\ EsWeightMap' = [s \in Weighed(cur, added, removed) |->
                       IF s \in Recomputed(cur, added) THEN Score(constraints[s])
                                                       ELSE EsWeightMap[s]]
  /\ searcherStates' = Tracked(added, removed)
  /\ updateFeatureMap' = (Cardinality(Tracked(added, removed)) >= FeatureThreshold)
  /\ updated' = [s \in State |-> updated[s] /\ s \notin Recomputed(cur, added) \cup removed]

\* BatchingSearcher::update and BranchingSearcher::update.
ForgetBatched(removed) ==
  batchLast' = IF batchLast \in removed THEN NULL ELSE batchLast
ForgetBranched(cur, added, removed) ==
  branchLast' = IF \/ branchLast \in removed
                   \/ cur # NULL /\ added # {}
                THEN NULL ELSE branchLast

SearcherUpdate(cur, added, removed) ==
  /\ ForgetBatched(removed)
  /\ ForgetBranched(cur, added, removed)
  /\ AutoFeatureUpdate(cur, added, removed)

\* constructUserSearcher and the update that hands it the initial states.
ConstructSearcher ==
  /\ phase = "start"
  /\ SearcherUpdate(NULL, states, {})
  /\ phase' = "select"
  /\ UNCHANGED <<haltExecution, current, hand, execVars, constraints, historyVars>>

-----------------------------------------------------------------------------
(* Selection.                                                              *)

\* Mutant: topScore is not raised, so the last state that beats its initial
\* value is selected.
AutoFeatureSelectLast(s) ==
  IF DOMAIN EsWeightMap = {} \/ ~updateFeatureMap
  THEN s \in searcherStates
  ELSE s \in DOMAIN EsWeightMap /\ EsWeightMap[s] > TopScoreInit

\* AutoFeatureSearcher::selectState: a random state, or one whose score beats
\* the initial top score and is beaten by no other.
AutoFeatureSelect(s) ==
  IF DOMAIN EsWeightMap = {} \/ ~updateFeatureMap
  THEN s \in searcherStates
  ELSE /\ s \in DOMAIN EsWeightMap
       /\ EsWeightMap[s] > TopScoreInit
       /\ \A t \in DOMAIN EsWeightMap : EsWeightMap[t] <= EsWeightMap[s]

\* BranchingSearcher::selectState: the last state, if there is one.
BranchingSelect(s) ==
  IF ~UseBranchingSearch
  THEN AutoFeatureSelect(s) /\ UNCHANGED branchLast
  ELSE /\ IF branchLast = NULL THEN AutoFeatureSelect(s) ELSE s = branchLast
       /\ branchLast' = s

\* BatchingSearcher::selectState: the last state while its time and instruction
\* budgets last.
BatchingSelect(s) ==
  IF ~UseBatchingSearch
  THEN BranchingSelect(s) /\ UNCHANGED batchLast
  ELSE \/ batchLast # NULL /\ s = batchLast /\ UNCHANGED <<batchLast, branchLast>>
       \/ BranchingSelect(s) /\ batchLast' = s

\* The loop condition of run(), negated.
LoopEnds == states = {} \/ haltExecution

\* One iteration of run() starts; stepInstruction may hit --max-instructions.
SelectState ==
  /\ phase = "select" /\ ~LoopEnds
  /\ \E s \in State : /\ BatchingSelect(s)
                      /\ current' = s
                      /\ hand' = {s}
  /\ haltExecution' \in {haltExecution, TRUE}
  /\ phase' = "execute"
  /\ UNCHANGED <<execVars, stateVars, searcherStates, EsWeightMap,
                 updateFeatureMap, historyVars>>

-----------------------------------------------------------------------------
(* What one instruction does to the states it holds.                       *)

\* ExecutionState::addConstraint.
Constrain(cs, s, l) == [cs EXCEPT ![s] = @ \cup {l}]

Undecided(s, c) == <<c, TRUE>> \notin constraints[s] /\ <<c, FALSE>> \notin constraints[s]

\* The states the instruction goes on with: fork and its callers drop the ones
\* they terminated.
HeldAfter(T, added) == (hand \cup added) \ T

\* Executor::terminateState for the states of T, which the instruction holds:
\* a state the searcher never saw is deleted at once, any other is queued.
TerminateStates(T, added, cs) ==
  /\ addedStates' = added \ T
  /\ removedStates' = [s \in State |->
       removedStates[s] + (IF s \in T \ added THEN 1 ELSE 0)]
  /\ hand' = HeldAfter(T, added)
  /\ constraints' = [s \in State |-> IF s \in T \cap added THEN {} ELSE cs[s]]
  /\ finished' = finished \cup {cs[s] : s \in T}

\* Mutant: the false side gets the condition itself.
ForkConstraintsSameSide(s, f, c) ==
  Constrain(Constrain([constraints EXCEPT ![f] = constraints[s]],
                      s, <<c, TRUE>>), f, <<c, TRUE>>)

\* ExecutionState::branch copies the constraints, then fork adds the condition
\* to one side and its negation to the other.
ForkConstraints(s, f, c) ==
  Constrain(Constrain([constraints EXCEPT ![f] = constraints[s]],
                      s, <<c, TRUE>>), f, <<c, FALSE>>)

\* Executor::fork on an undecided condition: the branched state gets the
\* negated condition.  With --max-depth both sides may be terminated early.
Fork(s, c) ==
  /\ phase = "execute" /\ s \in hand
  /\ Undecided(s, c)
  /\ \E f \in State \ Live :
       \E T \in {{}, {s, f}} :
         /\ TerminateStates(T, addedStates \cup {f}, ForkConstraints(s, f, c))
         /\ updated' = [updated EXCEPT ![s] = s \notin T \/ s \in states,
                                       ![f] = f \notin T]
         /\ haltExecution' \in {haltExecution, haltExecution \/ T # {}}
  /\ UNCHANGED <<phase, current, states, searchVars, pruned>>

\* Executor::addConstraint on one undecided side only: an inhibited fork
\* (--max-forks, forkDisabled, memory inhibit) or a value made concrete
\* (toConstant, executeGetValue).
AddConstraint(s, l) ==
  /\ phase = "execute" /\ s \in hand
  /\ Undecided(s, l[1])
  /\ constraints' = Constrain(constraints, s, l)
  /\ updated' = [updated EXCEPT ![s] = TRUE]
  /\ pruned' = TRUE
  /\ UNCHANGED <<phase, haltExecution, current, hand, execVars, searchVars, finished>>

\* terminateState, terminateStateEarly, terminateStateOnExit and
\* terminateStateOnError; the last may set haltExecution (--exit-on-error-type),
\* and so may the test case the termination writes (--max-tests).
Terminate(s) ==
  /\ phase = "execute" /\ s \in hand
  /\ TerminateStates({s}, addedStates, constraints)
  /\ updated' = [updated EXCEPT ![s] = @ /\ s \in states]
  /\ haltExecution' \in {haltExecution, TRUE}
  /\ UNCHANGED <<phase, current, states, searchVars, pruned>>

\* executeInstruction returns: the states it held keep running.
EndInstruction ==
  /\ phase = "execute"
  /\ hand' = {}
  /\ phase' = "timers"
  /\ UNCHANGED <<haltExecution, current, execVars, stateVars, searchVars, historyVars>>

-----------------------------------------------------------------------------
(* The rest of one iteration.                                              *)

\* TimerGroup::invoke: the --max-time timer may halt the execution.
InvokeTimers ==
  /\ phase = "timers"
  /\ haltExecution' \in {haltExecution, TRUE}
  /\ phase' = "memory"
  /\ UNCHANGED <<current, hand, execVars, stateVars, searchVars, historyVars>>

\* checkMemoryUsage under the cap, or between two of its samples.
MemoryBelowCap ==
  /\ phase = "memory"
  /\ phase' = "update"
  /\ UNCHANGED <<haltExecution, current, hand, execVars, stateVars, searchVars, historyVars>>

\* checkMemoryUsage over the cap: terminateStateEarly for a random choice of
\* executor.states, which still holds the states this instruction terminated.
MemoryKill ==
  /\ phase = "memory" /\ MaxMemory
  /\ \E K \in SUBSET states \ {{}} :
       /\ removedStates' = [s \in State |->
                              removedStates[s] + (IF s \in K THEN 1 ELSE 0)]
       /\ finished' = finished \cup {constraints[s] : s \in K}
  /\ haltExecution' \in {haltExecution, TRUE}
  /\ phase' = "update"
  /\ UNCHANGED <<current, hand, states, addedStates, stateVars,
                 searchVars, pruned>>

\* The assertions "invalid state removed" of the searcher and it2!=states.end()
\* of updateStates: every removed state is known, and is removed once.
RemovalsValid ==
  \A s \in State : removedStates[s] <= IF s \in Live THEN 1 ELSE 0

\* Executor::updateStates(&state), and the loop goes round.
UpdateStates ==
  /\ phase = "update" /\ RemovalsValid
  /\ SearcherUpdate(current, addedStates, Removed)
  /\ states' = Live \ Removed
  /\ addedStates' = {} /\ removedStates' = NoneRemoved
  /\ constraints' = [s \in State |-> IF s \in Removed THEN {} ELSE constraints[s]]
  /\ current' = NULL
  /\ phase' = "select"
  /\ UNCHANGED <<haltExecution, hand, historyVars>>

\* updateStates with a failing assertion: the process aborts.
AbortUpdate ==
  /\ phase = "update" /\ ~RemovalsValid
  /\ phase' = "aborted"
  /\ UNCHANGED <<haltExecution, current, hand, execVars, stateVars, searchVars, historyVars>>

\* The loop of run() ends and the searcher is deleted.
LeaveLoop ==
  /\ phase = "select" /\ LoopEnds
  /\ searcherStates' = {} /\ EsWeightMap' = [s \in {} |-> 0]
  /\ batchLast' = NULL /\ branchLast' = NULL
  /\ updateFeatureMap' = FALSE
  /\ phase' = "halting"
  /\ UNCHANGED <<haltExecution, current, hand, execVars, stateVars, historyVars>>

\* doDumpStates: every state that is left is terminated early; updateStates(0)
\* without a searcher.
DumpStates ==
  /\ phase = "halting"
  /\ IF DumpStatesOnHalt
     THEN /\ finished' = finished \cup {constraints[s] : s \in states}
          /\ states' = {}
          /\ constraints' = [s \in State |-> {}]
          /\ updated' = [s \in State |-> FALSE]
     ELSE UNCHANGED <<finished, states, stateVars>>
  /\ phase' = "done"
  /\ UNCHANGED <<haltExecution, current, hand, addedStates, removedStates, searchVars, pruned>>

\* interrupt_handle: SIGINT at any point of the run sets the flag.
Interrupt ==
  /\ phase \notin {"done", "aborted"} /\ ~haltExecution
  /\ haltExecution' = TRUE
  /\ UNCHANGED <<phase, current, hand, execVars, stateVars, searchVars, historyVars>>

Stopped == phase \in {"done", "aborted"} /\ UNCHANGED vars

\* executeInstruction, reduced to what it does to states: it forks, constrains and
\* terminates the states it holds, as often as its opcode and operands require.
Instruction ==
  \/ \E s \in State, c \in Cond : Fork(s, c)
  \/ \E s \in State, l \in Lit : AddConstraint(s, l)
  \/ \E s \in State : Terminate(s)
  \/ EndInstruction

\* Executor::run, from the construction of the searcher to the dump.
Loop ==
  \/ ConstructSearcher \/ SelectState \/ Instruction
  \/ InvokeTimers \/ MemoryBelowCap \/ MemoryKill
  \/ UpdateStates \/ AbortUpdate \/ LeaveLoop \/ DumpStates

Next == Loop \/ Interrupt \/ Stopped

Spec == Init /\ [][Next]_vars

-----------------------------------------------------------------------------
\* Every variable has its type.  The weight map has an entry for exactly the
\* states the searcher holds, each the weight of some constraint.
TypeOK ==
  /\ phase \in Phases /\ haltExecution \in BOOLEAN
  /\ states \subseteq State /\ addedStates \subseteq State
  /\ removedStates \in [State -> Nat]
  /\ current \in State \cup {NULL} /\ hand \subseteq State
  /\ constraints \in [State -> SUBSET Lit] /\ updated \in [State -> BOOLEAN]
  /\ searcherStates \subseteq State
  /\ EsWeightMap \in [searcherStates -> Scores]
  /\ updateFeatureMap \in BOOLEAN
  /\ batchLast \in State \cup {NULL} /\ branchLast \in State \cup {NULL}
  /\ finished \subseteq SUBSET Lit /\ pruned \in BOOLEAN

\* When run() selects, the searcher holds exactly the executor's states: no
\* live state is starved by being unknown to it, no deleted one can be selected
\* (Searcher::update against Executor::updateStates).
SearcherTracksStates == phase = "select" => searcherStates = states

\* When run() selects, every cached weight is the weight of the constraint the
\* state has now, although only the states flagged "updated" are recomputed.
ScoresFresh ==
  phase = "select" => \A s \in states : EsWeightMap[s] = Score(constraints[s])

\* A state BatchingSearcher or BranchingSearcher would hand out again has not
\* been deleted in the meantime.
LastStateLive ==
  phase = "select" => {batchLast, branchLast} \subseteq states \cup {NULL}

\* Two paths contradict each other on some condition.
Contradict(p, q) == \E l \in p : Negated(l) \in q

Satisfies(assignment, path) == \A l \in path : assignment[l[1]] = l[2]

\* The live and the finished paths partition the program's behaviours.  No path
\* is explored twice: a live state disagrees on some condition with every other
\* and with every finished path.  And unless a branch was pruned no fork and no
\* termination loses a behaviour (Executor::fork, terminateState).
PathsPartition ==
  /\ phase \in {"select", "execute", "halting", "done"} =>
       /\ \A s, t \in Live \ Removed :
            s # t => Contradict(constraints[s], constraints[t])
       /\ \A s \in Live \ Removed, p \in finished : Contradict(constraints[s], p)
  /\ ~pruned => \A a \in [Cond -> BOOLEAN] :
       \E p \in finished \cup {constraints[s] : s \in Live} : Satisfies(a, p)

\* The assertions in updateStates and in the searcher's update never fail.
NoAbort == phase # "aborted"

\* With enough states and no state to stick to, run() selects a state whose
\* constraint as it is now has the highest weight of all.
SelectsBestState ==
  [][ /\ phase = "select" /\ phase' = "execute"
      /\ updateFeatureMap /\ batchLast = NULL /\ branchLast = NULL
      => \A t \in states : Score(constraints[t]) <= Score(constraints[current'])
    ]_vars

=============================================================================
