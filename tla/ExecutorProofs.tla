--------------------------- MODULE ExecutorProofs ---------------------------
(***************************************************************************)
(* Theorems about Executor, for every set of addresses and conditions,     *)
(* every feature and weight file and every choice of the options.          *)
(***************************************************************************)
EXTENDS Executor, TLAPS

\* The phases in which run() is in its loop with a searcher.
Looping == {"select", "execute", "timers", "memory", "update"}

\* The bookkeeping of the three state lists between two calls of updateStates.
ListsInv ==
  /\ states \cap addedStates = {}
  /\ Removed \subseteq states
  /\ hand \subseteq addedStates \cup {current}
  /\ hand \cap Removed = {}
  /\ phase \in {"execute", "timers", "memory", "update"} => current \in states
  /\ phase # "execute" => hand = {}
  /\ phase \in {"start", "select", "halting", "done"} =>
       addedStates = {} /\ removedStates = NoneRemoved /\ current = NULL

\* The searcher between two calls of its update: only the current state's
\* weight may be out of date, and then the state is flagged.
SearcherInv ==
  /\ phase = "start" => searcherStates = {} /\ batchLast = NULL /\ branchLast = NULL
  /\ phase \in Looping =>
       /\ searcherStates = states
       /\ {batchLast, branchLast} \subseteq states \cup {NULL}
       /\ \A s \in states : \/ EsWeightMap[s] = Score(constraints[s])
                            \/ s = current /\ updated[s]

\* The inductive invariant of the exploration loop.
IInv == TypeOK /\ ListsInv /\ SearcherInv

\* A state's score is one of the scores the searcher may compare.
LEMMA ScoreInScores == \A S \in SUBSET Lit : Score(S) \in Scores
  BY DEF Scores

\* Before the searcher is constructed there is only the initial state.
LEMMA InitIInv == Init => IInv
  <1> SUFFICES ASSUME Init PROVE IInv
    OBVIOUS
  <1> USE DEF Init
  <1>1. TypeOK
    BY ExecutorAssumption DEF TypeOK, Phases, NoneRemoved
  <1>2. ListsInv
    BY DEF ListsInv, Removed, NoneRemoved
  <1>3. SearcherInv
    BY DEF SearcherInv, Looping
  <1>4. QED
    BY <1>1, <1>2, <1>3 DEF IInv

\* constructUserSearcher and the first update(0, states, {}).
LEMMA ConstructSearcherIInv == IInv /\ ConstructSearcher => IInv'
  <1> SUFFICES ASSUME IInv, ConstructSearcher PROVE IInv'
    OBVIOUS
  <1> USE DEF IInv, ConstructSearcher, SearcherUpdate, AutoFeatureUpdate, Weighed,
              Tracked, Recomputed, ForgetBatched, ForgetBranched, execVars, historyVars
  <1>1. EsWeightMap' = [s \in states |-> Score(constraints[s])] /\ searcherStates' = states
    BY ExecutorAssumption DEF TypeOK, ListsInv, SearcherInv
  <1>2. TypeOK'
    BY <1>1, ScoreInScores, ExecutorAssumption DEF TypeOK, Phases
  <1>3. ListsInv'
    BY DEF ListsInv, Removed, NoneRemoved
  <1>4. SearcherInv'
    BY <1>1 DEF SearcherInv, Looping, TypeOK
  <1>5. QED
    BY <1>2, <1>3, <1>4

\* selectState, whose choice is a state of the searcher.
LEMMA SelectStateIInv == IInv /\ SelectState => IInv'
  <1> SUFFICES ASSUME IInv, SelectState PROVE IInv'
    OBVIOUS
  <1> USE DEF IInv
  <1>1. PICK s \in State : BatchingSelect(s) /\ current' = s /\ hand' = {s}
    BY DEF SelectState
  <1>2. /\ phase = "select" /\ phase' = "execute"
        /\ haltExecution' \in BOOLEAN
        /\ UNCHANGED <<states, addedStates, removedStates, constraints, updated,
                      searcherStates, EsWeightMap, updateFeatureMap, finished, pruned>>
    BY DEF SelectState, execVars, stateVars, historyVars, TypeOK
  <1>3. /\ s \in states
        /\ batchLast' \in {batchLast, s} /\ branchLast' \in {branchLast, s}
    BY <1>1, <1>2 DEF BatchingSelect, BranchingSelect, AutoFeatureSelect, SearcherInv,
       Looping, TypeOK
  <1>4. TypeOK'
    BY <1>1, <1>2, <1>3 DEF TypeOK, Phases
  <1>5. ListsInv'
    BY <1>1, <1>2, <1>3 DEF ListsInv, Removed, NoneRemoved
  <1>6. SearcherInv'
    BY <1>1, <1>2, <1>3, ExecutorAssumption DEF SearcherInv, Looping, TypeOK, ListsInv
  <1>7. QED
    BY <1>4, <1>5, <1>6

\* Terminating held states keeps the lists in order.
LEMMA TerminateStatesLists ==
  ASSUME TypeOK, ListsInv, phase = "execute", UNCHANGED <<phase, current, states>>,
         NEW added \in SUBSET State, added \cap states = {}, addedStates \subseteq added,
         NEW T \in SUBSET (hand \cup added),
         NEW cs \in [State -> SUBSET Lit],
         TerminateStates(T, added, cs)
  PROVE  /\ ListsInv'
         /\ addedStates' \subseteq State /\ removedStates' \in [State -> Nat]
         /\ hand' \subseteq State /\ constraints' \in [State -> SUBSET Lit]
         /\ finished' \subseteq SUBSET Lit
         /\ \A s \in states : constraints'[s] = cs[s]
  <1> USE DEF TerminateStates, HeldAfter
  <1>1. /\ addedStates' \subseteq State /\ removedStates' \in [State -> Nat]
        /\ hand' \subseteq State /\ constraints' \in [State -> SUBSET Lit]
        /\ finished' \subseteq SUBSET Lit
    BY DEF TypeOK
  <1>2. Removed' = Removed \cup (T \ added)
    BY DEF Removed, TypeOK
  <1>3. current \in states /\ T \ added \subseteq {current}
    BY DEF ListsInv
  <1>4. /\ (states \cap addedStates = {})' /\ (Removed \subseteq states)'
        /\ (hand \cap Removed = {})' /\ (hand \subseteq addedStates \cup {current})'
    BY <1>2, <1>3 DEF ListsInv
  <1>5. ListsInv'
    BY <1>3, <1>4 DEF ListsInv
  <1>6. \A s \in states : constraints'[s] = cs[s]
    BY DEF TypeOK
  <1>7. QED
    BY <1>1, <1>5, <1>6

\* fork: the true and the false state stay in or enter the lists once.
LEMMA ForkIInv ==
  ASSUME IInv, NEW s \in State, NEW c \in Cond, Fork(s, c) PROVE IInv'
  <1> USE DEF IInv
  <1>0. PICK f \in State \ Live : \E T \in {{}, {s, f}} :
          /\ TerminateStates(T, addedStates \cup {f}, ForkConstraints(s, f, c))
          /\ updated' = [updated EXCEPT ![s] = s \notin T \/ s \in states,
                                        ![f] = f \notin T]
          /\ haltExecution' \in {haltExecution, haltExecution \/ T # {}}
    BY DEF Fork
  <1> DEFINE added == addedStates \cup {f}
             cs    == ForkConstraints(s, f, c)
  <1>1. PICK T \in {{}, {s, f}} :
          /\ TerminateStates(T, added, cs)
          /\ updated' = [updated EXCEPT ![s] = s \notin T \/ s \in states,
                                        ![f] = f \notin T]
          /\ haltExecution' \in {haltExecution, haltExecution \/ T # {}}
    BY <1>0
  <1>2. /\ phase = "execute" /\ s \in hand
        /\ UNCHANGED <<phase, current, states, searcherStates, EsWeightMap,
                      updateFeatureMap, batchLast, branchLast, pruned>>
    BY DEF Fork, searchVars
  <1>3. /\ cs \in [State -> SUBSET Lit]
        /\ \A t \in State \ {s, f} : cs[t] = constraints[t]
    <2>1. <<c, TRUE>> \in Lit /\ <<c, FALSE>> \in Lit
      BY DEF Lit
    <2>2. [constraints EXCEPT ![f] = constraints[s]] \in [State -> SUBSET Lit]
      BY DEF TypeOK
    <2>3. \A g \in [State -> SUBSET Lit], t \in State, l \in Lit :
            /\ Constrain(g, t, l) \in [State -> SUBSET Lit]
            /\ \A u \in State \ {t} : Constrain(g, t, l)[u] = g[u]
      BY DEF Constrain
    <2> DEFINE g0 == [constraints EXCEPT ![f] = constraints[s]]
               g1 == Constrain(g0, s, <<c, TRUE>>)
    <2>4. cs = Constrain(g1, f, <<c, FALSE>>)
      BY DEF ForkConstraints
    <2>5. \A u \in State \ {s, f} : g0[u] = constraints[u]
      BY DEF TypeOK
    <2> HIDE DEF g0
    <2>6. g1 \in [State -> SUBSET Lit] /\ \A u \in State \ {s} : g1[u] = g0[u]
      BY <2>1, <2>2, <2>3 DEF g0
    <2> HIDE DEF g1, cs
    <2>7. /\ Constrain(g1, f, <<c, FALSE>>) \in [State -> SUBSET Lit]
          /\ \A u \in State \ {f} : Constrain(g1, f, <<c, FALSE>>)[u] = g1[u]
      BY <2>1, <2>3, <2>6
    <2>8. QED
      BY <2>4, <2>5, <2>6, <2>7
  <1>4. /\ added \in SUBSET State /\ added \cap states = {}
        /\ addedStates \subseteq added /\ T \in SUBSET (hand \cup added)
    BY <1>2 DEF Live, TypeOK, ListsInv
  <1>5. /\ ListsInv'
        /\ addedStates' \subseteq State /\ removedStates' \in [State -> Nat]
        /\ hand' \subseteq State /\ constraints' \in [State -> SUBSET Lit]
        /\ finished' \subseteq SUBSET Lit
        /\ \A t \in states : constraints'[t] = cs[t]
    <2> HIDE DEF added, cs
    <2>1. QED
      BY <1>1, <1>2, <1>3, <1>4, TerminateStatesLists
  <1>6. TypeOK'
    BY <1>1, <1>2, <1>5 DEF TypeOK
  <1>7. SearcherInv'
    <2>1. s \in states => s = current /\ updated'[s]
      BY <1>1, <1>2 DEF ListsInv, TypeOK, Live
    <2>2. \A t \in states \ {s} : constraints'[t] = constraints[t] /\ updated'[t] = updated[t]
      BY <1>1, <1>3, <1>5 DEF TypeOK, Live
    <2>3. QED
      BY <1>2, <2>1, <2>2 DEF SearcherInv, Looping
  <1>8. QED
    BY <1>5, <1>6, <1>7

\* addConstraint: the state keeps its place and is flagged for a new weight.
LEMMA AddConstraintIInv ==
  ASSUME IInv, NEW s \in State, NEW l \in Lit, AddConstraint(s, l) PROVE IInv'
  <1> USE DEF IInv, AddConstraint, Constrain, execVars, searchVars
  <1>1. TypeOK'
    BY DEF TypeOK
  <1>2. ListsInv'
    BY DEF ListsInv, Removed
  <1>3. SearcherInv'
    BY DEF SearcherInv, Looping, TypeOK, ListsInv
  <1>4. QED
    BY <1>1, <1>2, <1>3

\* terminateState: out of addedStates, or into removedStates.
LEMMA TerminateIInv ==
  ASSUME IInv, NEW s \in State, Terminate(s) PROVE IInv'
  <1> USE DEF IInv
  <1>1. /\ phase = "execute" /\ s \in hand
        /\ TerminateStates({s}, addedStates, constraints)
        /\ updated' = [updated EXCEPT ![s] = @ /\ s \in states]
        /\ haltExecution' \in BOOLEAN
        /\ UNCHANGED <<phase, current, states, searcherStates, EsWeightMap,
                      updateFeatureMap, batchLast, branchLast, pruned>>
    BY DEF Terminate, searchVars, TypeOK
  <1>2. /\ addedStates \in SUBSET State /\ addedStates \cap states = {}
        /\ {s} \in SUBSET (hand \cup addedStates)
        /\ constraints \in [State -> SUBSET Lit]
    BY <1>1 DEF TypeOK, ListsInv
  <1>3. /\ ListsInv'
        /\ addedStates' \subseteq State /\ removedStates' \in [State -> Nat]
        /\ hand' \subseteq State /\ constraints' \in [State -> SUBSET Lit]
        /\ finished' \subseteq SUBSET Lit
        /\ \A t \in states : constraints'[t] = constraints[t]
    BY <1>1, <1>2, TerminateStatesLists
  <1>4. TypeOK'
    BY <1>1, <1>3 DEF TypeOK
  <1>5. SearcherInv'
    BY <1>1, <1>3 DEF SearcherInv, Looping, TypeOK
  <1>6. QED
    BY <1>3, <1>4, <1>5

\* updateStates hands both lists to the searcher and empties them.
LEMMA UpdateStatesIInv == IInv /\ UpdateStates => IInv'
  <1> SUFFICES ASSUME IInv, UpdateStates PROVE IInv'
    OBVIOUS
  <1> USE DEF IInv
  <1>1. /\ phase = "update" /\ phase' = "select"
        /\ states' = Live \ Removed /\ addedStates' = {} /\ removedStates' = NoneRemoved
        /\ constraints' = [s \in State |-> IF s \in Removed THEN {} ELSE constraints[s]]
        /\ current' = NULL
        /\ UNCHANGED <<haltExecution, hand, finished, pruned>>
    BY DEF UpdateStates, historyVars
  <1>2. current \in states /\ current # NULL
    BY <1>1, ExecutorAssumption DEF ListsInv, TypeOK
  <1>3. /\ searcherStates' = Live \ Removed
        /\ DOMAIN EsWeightMap' = Live \ Removed
        /\ EsWeightMap' = [s \in Live \ Removed |-> EsWeightMap'[s]]
        /\ \A s \in Live \ Removed : EsWeightMap'[s] = Score(constraints[s])
    BY <1>1, <1>2 DEF UpdateStates, SearcherUpdate, AutoFeatureUpdate, Weighed, Tracked,
       Recomputed, Live, SearcherInv, Looping, TypeOK
  <1>4. /\ updated' \in [State -> BOOLEAN] /\ updateFeatureMap' \in BOOLEAN
        /\ batchLast' \in {NULL, batchLast} /\ branchLast' \in {NULL, branchLast}
        /\ batchLast' \notin Removed /\ branchLast' \notin Removed
    BY ExecutorAssumption DEF UpdateStates, SearcherUpdate, AutoFeatureUpdate, ForgetBatched,
       ForgetBranched, TypeOK, Removed
  <1>5. TypeOK'
    <2>1. constraints' \in [State -> SUBSET Lit] /\ removedStates' \in [State -> Nat]
      BY <1>1 DEF TypeOK, NoneRemoved
    <2>2. EsWeightMap' \in [searcherStates' -> Scores]
      BY <1>3, ScoreInScores DEF TypeOK, Live
    <2>3. QED
      BY <1>1, <1>3, <1>4, <2>1, <2>2 DEF TypeOK, Live, Phases
  <1>6. ListsInv'
    BY <1>1 DEF ListsInv, Removed, NoneRemoved
  <1>7. SearcherInv'
    <2>1. \A s \in states' : EsWeightMap'[s] = Score(constraints'[s])
      BY <1>1, <1>3 DEF Live, TypeOK
    <2>2. QED
      BY <1>1, <1>3, <1>4, <2>1 DEF SearcherInv, Looping, Live
  <1>8. QED
    BY <1>5, <1>6, <1>7

\* The steps that leave the states, their constraints and the searcher alone.
LEMMA QuietStepIInv ==
  IInv /\ (EndInstruction \/ InvokeTimers \/ MemoryBelowCap \/ AbortUpdate
           \/ Interrupt \/ Stopped \/ UNCHANGED vars) => IInv'
  <1> USE DEF IInv, EndInstruction, InvokeTimers, MemoryBelowCap, AbortUpdate, Interrupt,
              Stopped, vars, execVars, stateVars, searchVars, historyVars
  <1>1. IInv /\ (EndInstruction \/ InvokeTimers \/ MemoryBelowCap \/ AbortUpdate
                 \/ Interrupt \/ Stopped \/ UNCHANGED vars) => TypeOK'
    BY DEF TypeOK, Phases
  <1>2. IInv /\ (EndInstruction \/ InvokeTimers \/ MemoryBelowCap \/ AbortUpdate
                 \/ Interrupt \/ Stopped \/ UNCHANGED vars) => ListsInv'
    BY DEF ListsInv, Removed
  <1>3. IInv /\ (EndInstruction \/ InvokeTimers \/ MemoryBelowCap \/ AbortUpdate
                 \/ Interrupt \/ Stopped \/ UNCHANGED vars) => SearcherInv'
    BY DEF SearcherInv, Looping
  <1>4. QED
    BY <1>1, <1>2, <1>3

\* checkMemoryUsage terminates states that are still in states.
LEMMA MemoryKillIInv == IInv /\ MemoryKill => IInv'
  <1> SUFFICES ASSUME IInv, MemoryKill PROVE IInv'
    OBVIOUS
  <1> USE DEF IInv
  <1>1. PICK K \in SUBSET states \ {{}} :
          /\ removedStates' = [s \in State |->
                                 removedStates[s] + (IF s \in K THEN 1 ELSE 0)]
          /\ finished' = finished \cup {constraints[s] : s \in K}
    BY DEF MemoryKill
  <1>2. /\ phase = "memory" /\ phase' = "update" /\ haltExecution' \in BOOLEAN
        /\ UNCHANGED <<current, hand, states, addedStates, constraints, updated,
                      searcherStates, EsWeightMap, updateFeatureMap, batchLast,
                      branchLast, pruned>>
    BY DEF MemoryKill, stateVars, searchVars, TypeOK
  <1>3. removedStates' \in [State -> Nat] /\ finished' \subseteq SUBSET Lit
    BY <1>1 DEF TypeOK
  <1>4. Removed' = Removed \cup K
    BY <1>1 DEF Removed, TypeOK
  <1>5. TypeOK'
    BY <1>2, <1>3 DEF TypeOK, Phases
  <1>6. ListsInv'
    BY <1>2, <1>4 DEF ListsInv
  <1>7. SearcherInv'
    BY <1>2 DEF SearcherInv, Looping
  <1>8. QED
    BY <1>5, <1>6, <1>7

\* Leaving the loop, and doDumpStates after it.
LEMMA LeaveLoopIInv == IInv /\ (LeaveLoop \/ DumpStates) => IInv'
  <1> USE DEF IInv, LeaveLoop, DumpStates, execVars, stateVars, searchVars, historyVars
  <1>1. IInv /\ (LeaveLoop \/ DumpStates) => TypeOK'
    <2>1. IInv /\ LeaveLoop => TypeOK'
      BY DEF TypeOK, Phases
    <2>2. IInv /\ DumpStates => TypeOK'
      <3>1. [s \in State |-> {}] \in [State -> SUBSET Lit]
        OBVIOUS
      <3>2. IInv => {constraints[s] : s \in states} \subseteq SUBSET Lit
        BY DEF TypeOK
      <3>3. QED
        BY <3>1, <3>2 DEF TypeOK, Phases
    <2>3. QED
      BY <2>1, <2>2
  <1>2. IInv /\ (LeaveLoop \/ DumpStates) => ListsInv'
    BY DEF ListsInv, Removed, NoneRemoved
  <1>3. IInv /\ (LeaveLoop \/ DumpStates) => SearcherInv'
    BY DEF SearcherInv, Looping
  <1>4. QED
    BY <1>1, <1>2, <1>3

\* The inductive invariant holds in every state of every run of the executor.
THEOREM ExecutorInvariant == Spec => []IInv
  <1>1. IInv /\ [Next]_vars => IInv'
    <2> SUFFICES ASSUME IInv, [Next]_vars PROVE IInv'
      OBVIOUS
    <2>1. CASE ConstructSearcher
      BY <2>1, ConstructSearcherIInv
    <2>2. CASE SelectState
      BY <2>2, SelectStateIInv
    <2>3. CASE Instruction
      BY <2>3, ForkIInv, AddConstraintIInv, TerminateIInv, QuietStepIInv DEF Instruction
    <2>4. CASE MemoryKill
      BY <2>4, MemoryKillIInv
    <2>5. CASE UpdateStates
      BY <2>5, UpdateStatesIInv
    <2>6. CASE LeaveLoop \/ DumpStates
      BY <2>6, LeaveLoopIInv
    <2>7. CASE InvokeTimers \/ MemoryBelowCap \/ AbortUpdate \/ Interrupt \/ Stopped
               \/ UNCHANGED vars
      BY <2>7, QuietStepIInv
    <2>8. QED
      BY <2>1, <2>2, <2>3, <2>4, <2>5, <2>6, <2>7 DEF Next, Loop
  <1>2. QED
    BY InitIInv, <1>1, PTL DEF Spec

\* Type correctness of the executor's and the searcher's state.
THEOREM ExecutorTypeCorrect == Spec => []TypeOK
  <1>1. IInv => TypeOK
    BY DEF IInv
  <1>2. QED
    BY <1>1, ExecutorInvariant, PTL

\* The searcher holds exactly the executor's states at every selection: no live
\* state is starved, and no deleted one can be selected.
THEOREM SearcherTracks == Spec => []SearcherTracksStates
  <1>1. IInv => SearcherTracksStates
    BY DEF IInv, SearcherInv, Looping, SearcherTracksStates
  <1>2. QED
    BY <1>1, ExecutorInvariant, PTL

\* The searcher agrees with the executor at every selection: it holds the same
\* states, with up-to-date weights, and sticks to live states only.
THEOREM SearcherCorrect ==
  Spec => []SearcherTracksStates /\ []ScoresFresh /\ []LastStateLive
  <1>1. IInv => SearcherTracksStates /\ ScoresFresh /\ LastStateLive
    BY ExecutorAssumption DEF IInv, TypeOK, ListsInv, SearcherInv, Looping,
       SearcherTracksStates, ScoresFresh, LastStateLive
  <1>2. QED
    BY <1>1, ExecutorInvariant, PTL

\* With enough states and no state to stick to, selectState returns a state whose
\* constraint as it is now has the highest weight: the cached weights, which the
\* loop compares, are the weights of the constraints.
THEOREM BestStateSelected == Spec => SelectsBestState
  <1> DEFINE Best == /\ phase = "select" /\ phase' = "execute"
                     /\ updateFeatureMap /\ batchLast = NULL /\ branchLast = NULL
                     => \A t \in states : Score(constraints[t]) <= Score(constraints[current'])
  <1>1. IInv /\ [Next]_vars => [Best]_vars
    <2> SUFFICES ASSUME IInv, Next, phase = "select", phase' = "execute",
                        updateFeatureMap, batchLast = NULL, branchLast = NULL
                 PROVE  \A t \in states : Score(constraints[t]) <= Score(constraints[current'])
      OBVIOUS
    <2>1. SelectState
      BY DEF Next, Loop, Instruction, ConstructSearcher, Fork, AddConstraint, Terminate, EndInstruction,
         InvokeTimers, MemoryBelowCap, MemoryKill, UpdateStates, AbortUpdate, LeaveLoop, DumpStates,
         Interrupt, Stopped
    <2>2. PICK s \in State : BatchingSelect(s) /\ current' = s
      BY <2>1 DEF SelectState
    <2>3. states # {} /\ DOMAIN EsWeightMap = states
      BY <2>1 DEF SelectState, LoopEnds, IInv, SearcherInv, Looping, TypeOK
    <2>4. AutoFeatureSelect(s)
      BY <2>2 DEF BatchingSelect, BranchingSelect
    <2>5. s \in states /\ \A t \in states : EsWeightMap[t] <= EsWeightMap[s]
      BY <2>3, <2>4 DEF AutoFeatureSelect
    <2>6. \A t \in states : EsWeightMap[t] = Score(constraints[t])
      BY ExecutorAssumption DEF IInv, SearcherInv, Looping, ListsInv, TypeOK
    <2>7. QED
      BY <2>2, <2>5, <2>6
  <1>2. QED
    BY <1>1, ExecutorInvariant, PTL DEF Spec, SelectsBestState

-----------------------------------------------------------------------------
(* No path is lost and none is explored twice.                             *)

\* The paths of L contradict each other and the finished ones.
Disjoint(cs, L, fin) ==
  /\ \A s, t \in L : s # t => Contradict(cs[s], cs[t])
  /\ \A s \in L, p \in fin : Contradict(cs[s], p)

\* Every input follows a path of L or a finished one.
Complete(cs, L, fin) ==
  \A a \in [Cond -> BOOLEAN] : \E p \in fin \cup {cs[s] : s \in L} : Satisfies(a, p)

\* A state waiting to be deleted has its path among the finished ones already:
\* deleting it loses nothing, and terminating it again (the memory cap) adds
\* nothing.
PathsInv ==
  /\ Disjoint(constraints, Live \ Removed, finished)
  /\ \A s \in Removed : constraints[s] \in finished
  /\ ~pruned => Complete(constraints, Live, finished)

\* Two paths that disagree still do when they get longer.
LEMMA ContradictGrows ==
  ASSUME NEW p, NEW q, NEW p1, NEW q1, Contradict(p, q), p \subseteq p1, q \subseteq q1
  PROVE  Contradict(p1, q1)
  BY DEF Contradict

\* At the start there is one path, which every input follows.
LEMMA InitPaths == Init => PathsInv
  <1> SUFFICES ASSUME Init PROVE PathsInv
    OBVIOUS
  <1>1. PICK s \in State : states = {s}
    BY DEF Init
  <1>2. /\ Live = {s} /\ finished = {} /\ addedStates = {}
        /\ removedStates = [t \in State |-> 0] /\ constraints = [t \in State |-> {}]
    BY <1>1 DEF Init, Live, NoneRemoved
  <1>0. Removed = {} /\ constraints[s] = {}
    BY <1>2 DEF Removed
  <1>3. Disjoint(constraints, Live \ Removed, finished)
    BY <1>0, <1>2 DEF Disjoint
  <1>4. \A a \in [Cond -> BOOLEAN] : Satisfies(a, {})
    BY DEF Satisfies
  <1>5. Complete(constraints, Live, finished)
    BY <1>0, <1>2, <1>4 DEF Complete
  <1>6. QED
    BY <1>0, <1>2, <1>3, <1>5 DEF PathsInv

\* terminateState moves paths from the live ones to the finished ones, whether it
\* deletes the state at once or queues it.
LEMMA TerminatePaths ==
  ASSUME IInv, PathsInv, UNCHANGED <<states, pruned>>,
         NEW added \in SUBSET State, added \cap states = {}, addedStates \subseteq added,
         NEW T \in SUBSET (states \cup added), T \cap Removed = {},
         NEW cs \in [State -> SUBSET Lit],
         Disjoint(cs, (states \cup added) \ Removed, finished),
         \A s \in Removed : cs[s] \in finished,
         ~pruned => Complete(cs, states \cup added, finished),
         TerminateStates(T, added, cs)
  PROVE  PathsInv'
  <1>1. Removed' = Removed \cup (T \ added) /\ Removed \subseteq states
    BY DEF TerminateStates, Removed, IInv, TypeOK, ListsInv
  <1>2. addedStates' = added \ T /\ finished' = finished \cup {cs[s] : s \in T}
    BY DEF TerminateStates
  <1>3. \A s \in State \ (T \cap added) : constraints'[s] = cs[s]
    BY DEF TerminateStates
  <1>4. Live' = (states \cup added) \ (T \cap added) /\ states \subseteq State
    BY <1>2 DEF Live, IInv, TypeOK
  <1>5. (Live \ Removed)' = ((states \cup added) \ Removed) \ T
    BY <1>1, <1>4
  <1>6. Disjoint(constraints, Live \ Removed, finished)'
    <2>1. ASSUME NEW s \in (Live \ Removed)', NEW t \in (Live \ Removed)', s # t
          PROVE  Contradict(constraints'[s], constraints'[t])
      <3>1. constraints'[s] = cs[s] /\ constraints'[t] = cs[t]
        BY <1>3, <1>4, <1>5
      <3>2. Contradict(cs[s], cs[t])
        BY <1>5, <2>1 DEF Disjoint
      <3>3. QED
        BY <3>1, <3>2
    <2>2. ASSUME NEW s \in (Live \ Removed)', NEW p \in finished' PROVE Contradict(constraints'[s], p)
      <3>1. constraints'[s] = cs[s] /\ s \in (states \cup added) \ Removed /\ s \notin T
        BY <1>3, <1>4, <1>5
      <3>2. CASE p \in finished
        BY <3>1, <3>2 DEF Disjoint
      <3>3. CASE p \notin finished
        <4>1. PICK t \in T : p = cs[t]
          BY <1>2, <2>2, <3>3
        <4>2. QED
          BY <3>1, <4>1 DEF Disjoint
      <3>4. QED
        BY <3>2, <3>3
    <2>3. QED
      BY <2>1, <2>2 DEF Disjoint
  <1>7. \A s \in Removed' : constraints'[s] \in finished'
    BY <1>1, <1>2, <1>3, <1>4
  <1>8. ASSUME ~pruned PROVE Complete(constraints, Live, finished)'
    <2>1. SUFFICES ASSUME NEW a \in [Cond -> BOOLEAN]
                   PROVE  \E p \in finished' \cup {constraints'[s] : s \in Live'} : Satisfies(a, p)
      BY DEF Complete, Satisfies
    <2>2. PICK p \in finished \cup {cs[s] : s \in states \cup added} : Satisfies(a, p)
      BY <1>8 DEF Complete
    <2>3. CASE p \in finished
      BY <1>2, <2>2, <2>3
    <2>4. CASE p \notin finished
      <3>1. PICK s \in states \cup added : p = cs[s]
        BY <2>2, <2>4
      <3>2. CASE s \in T
        BY <1>2, <2>2, <3>1, <3>2
      <3>3. CASE s \notin T
        BY <1>3, <1>4, <2>2, <3>1, <3>3
      <3>4. QED
        BY <3>2, <3>3
    <2>5. QED
      BY <2>3, <2>4
  <1>9. QED
    BY <1>6, <1>7, <1>8 DEF PathsInv

\* fork splits one path into two that contradict each other and that between
\* them cover it.
LEMMA ForkPaths ==
  ASSUME IInv, PathsInv, NEW s \in State, NEW c \in Cond, Fork(s, c)
  PROVE  PathsInv'
  <1>1. PICK f \in State \ Live : \E T \in {{}, {s, f}} :
          TerminateStates(T, addedStates \cup {f}, ForkConstraints(s, f, c))
    BY DEF Fork
  <1>2. PICK T \in {{}, {s, f}} : TerminateStates(T, addedStates \cup {f}, ForkConstraints(s, f, c))
    BY <1>1
  <1> DEFINE cs == ForkConstraints(s, f, c)
             added == addedStates \cup {f}
             L == states \cup added
  <1>3. s \in Live /\ s \notin Removed /\ s # f /\ UNCHANGED <<states, pruned>>
    BY DEF Fork, IInv, ListsInv, Live
  <1>4. /\ cs \in [State -> SUBSET Lit]
        /\ cs[s] = constraints[s] \cup {<<c, TRUE>>}
        /\ cs[f] = constraints[s] \cup {<<c, FALSE>>}
        /\ \A t \in State \ {s, f} : cs[t] = constraints[t]
    <2> DEFINE g0 == [constraints EXCEPT ![f] = constraints[s]]
               g1 == [g0 EXCEPT ![s] = g0[s] \cup {<<c, TRUE>>}]
    <2>1. <<c, TRUE>> \in Lit /\ <<c, FALSE>> \in Lit
      BY DEF Lit
    <2>2. g0 \in [State -> SUBSET Lit] /\ g0[f] = constraints[s] /\ \A t \in State \ {f} : g0[t] = constraints[t]
      BY DEF IInv, TypeOK
    <2>3. cs = [g1 EXCEPT ![f] = g1[f] \cup {<<c, FALSE>>}]
      BY DEF ForkConstraints, Constrain
    <2> HIDE DEF g0, cs
    <2>4. /\ g1 \in [State -> SUBSET Lit] /\ g1[s] = constraints[s] \cup {<<c, TRUE>>}
          /\ g1[f] = constraints[s] /\ \A t \in State \ {s, f} : g1[t] = constraints[t]
      BY <1>3, <2>1, <2>2
    <2> HIDE DEF g1
    <2>5. QED
      BY <1>3, <2>1, <2>3, <2>4
  <1>5. L = Live \cup {f} /\ L \subseteq State /\ added \cap states = {} /\ f \notin Removed
    BY DEF Live, IInv, TypeOK, ListsInv
  <1> HIDE DEF cs, added, L
  <1>6. \A t \in Live : constraints[t] \subseteq cs[t]
    BY <1>1, <1>4, <1>5
  <1>7. Disjoint(cs, L \ Removed, finished)
    <2>1. \A t \in (Live \ Removed) \ {s} : Contradict(constraints[s], constraints[t])
                                        /\ Contradict(constraints[t], constraints[s])
      BY <1>3 DEF PathsInv, Disjoint
    <2>2. Contradict(cs[s], cs[f]) /\ Contradict(cs[f], cs[s])
      <3>1. Negated(<<c, TRUE>>) = <<c, FALSE>> /\ Negated(<<c, FALSE>>) = <<c, TRUE>>
        BY DEF Negated
      <3>2. QED
        BY <1>4, <3>1 DEF Contradict
    <2>3. ASSUME NEW t \in L \ Removed, NEW u \in L \ Removed, t # u PROVE Contradict(cs[t], cs[u])
      <3>1. CASE (t = f /\ u = s) \/ (t = s /\ u = f)
        BY <2>2, <3>1
      <3>2. CASE t = f /\ u # s
        <4>1. u \in (Live \ Removed) \ {s}
          BY <1>5, <2>3, <3>2
        <4>2. Contradict(constraints[s], constraints[u]) /\ constraints[s] \subseteq cs[t] /\ constraints[u] \subseteq cs[u]
          BY <1>4, <1>6, <2>1, <3>2, <4>1
        <4>3. QED
          BY <4>2, ContradictGrows
      <3>3. CASE u = f /\ t # s
        <4>1. t \in (Live \ Removed) \ {s}
          BY <1>5, <2>3, <3>3
        <4>2. Contradict(constraints[t], constraints[s]) /\ constraints[s] \subseteq cs[u] /\ constraints[t] \subseteq cs[t]
          BY <1>4, <1>6, <2>1, <3>3, <4>1
        <4>3. QED
          BY <4>2, ContradictGrows
      <3>4. CASE t # f /\ u # f
        <4>1. t \in Live \ Removed /\ u \in Live \ Removed
          BY <1>5, <3>4
        <4>2. Contradict(constraints[t], constraints[u]) /\ constraints[t] \subseteq cs[t] /\ constraints[u] \subseteq cs[u]
          BY <1>6, <2>3, <4>1 DEF PathsInv, Disjoint
        <4>3. QED
          BY <4>2, ContradictGrows
      <3>5. QED
        BY <3>1, <3>2, <3>3, <3>4
    <2>4. ASSUME NEW t \in L \ Removed, NEW p \in finished PROVE Contradict(cs[t], p)
      <3>1. \A u \in Live \ Removed : Contradict(constraints[u], p)
        BY <2>4 DEF PathsInv, Disjoint
      <3>2. PICK u \in Live \ Removed : constraints[u] \subseteq cs[t]
        BY <1>3, <1>4, <1>5, <1>6
      <3>3. QED
        BY <3>1, <3>2, ContradictGrows
    <2>5. QED
      BY <2>3, <2>4 DEF Disjoint
  <1>8. \A t \in Removed : cs[t] \in finished
    BY <1>3, <1>4, <1>5 DEF PathsInv, Removed
  <1>9. ASSUME ~pruned PROVE Complete(cs, L, finished)
    <2>1. SUFFICES ASSUME NEW a \in [Cond -> BOOLEAN]
                   PROVE  \E p \in finished \cup {cs[t] : t \in L} : Satisfies(a, p)
      BY DEF Complete
    <2>2. PICK p \in finished \cup {constraints[t] : t \in Live} : Satisfies(a, p)
      BY <1>9 DEF PathsInv, Complete
    <2>3. CASE p \in finished
      BY <2>2, <2>3
    <2>4. CASE p \notin finished
      <3>1. PICK t \in Live : p = constraints[t]
        BY <2>2, <2>4
      <3>2. CASE t # s
        BY <1>1, <1>4, <1>5, <2>2, <3>1, <3>2
      <3>3. CASE t = s /\ a[c]
        <4>1. Satisfies(a, cs[s])
          <5>1. a[c] = TRUE
            BY <3>3
          <5>2. \A l \in constraints[s] : a[l[1]] = l[2]
            BY <2>2, <3>1, <3>3 DEF Satisfies
          <5>3. \A l \in cs[s] : l \in constraints[s] \/ l = <<c, TRUE>>
            BY <1>4
          <5>4. a[<<c, TRUE>>[1]] = <<c, TRUE>>[2]
            BY <5>1
          <5>5. QED
            BY <5>2, <5>3, <5>4 DEF Satisfies
        <4>2. QED
          BY <1>3, <1>5, <4>1
      <3>4. CASE t = s /\ ~a[c]
        <4>1. Satisfies(a, cs[f])
          <5>1. a[c] = FALSE
            BY <3>4
          <5>2. \A l \in constraints[s] : a[l[1]] = l[2]
            BY <2>2, <3>1, <3>4 DEF Satisfies
          <5>3. \A l \in cs[f] : l \in constraints[s] \/ l = <<c, FALSE>>
            BY <1>4
          <5>4. a[<<c, FALSE>>[1]] = <<c, FALSE>>[2]
            BY <5>1
          <5>5. QED
            BY <5>2, <5>3, <5>4 DEF Satisfies
        <4>2. QED
          BY <1>5, <4>1
      <3>5. QED
        BY <3>2, <3>3, <3>4
    <2>5. QED
      BY <2>3, <2>4
  <1>10. /\ added \in SUBSET State /\ addedStates \subseteq added
         /\ T \in SUBSET (states \cup added) /\ T \cap Removed = {}
    BY <1>2, <1>3, <1>5 DEF added, L, Live
  <1>11. QED
    BY <1>2, <1>3, <1>4, <1>5, <1>7, <1>8, <1>9, <1>10, TerminatePaths DEF cs, added, L

\* A constraint added to one side only keeps the paths disjoint.
LEMMA AddConstraintPaths ==
  ASSUME IInv, PathsInv, NEW s \in State, NEW l \in Lit, AddConstraint(s, l)
  PROVE  PathsInv'
  <1>1. /\ s \in hand /\ pruned' = TRUE /\ constraints' = [constraints EXCEPT ![s] = @ \cup {l}]
        /\ UNCHANGED <<states, addedStates, removedStates, finished>>
    BY DEF AddConstraint, Constrain, execVars
  <1>2. s \notin Removed /\ Live' = Live /\ Removed' = Removed /\ Live \subseteq State /\ Removed \subseteq State
    BY <1>1 DEF IInv, ListsInv, TypeOK, Live, Removed
  <1>3. \A t \in State : constraints[t] \subseteq constraints'[t] /\ (t # s => constraints'[t] = constraints[t])
    BY <1>1 DEF IInv, TypeOK
  <1>4. ASSUME NEW t \in Live \ Removed, NEW u \in Live \ Removed, t # u PROVE Contradict(constraints'[t], constraints'[u])
    <2>1. Contradict(constraints[t], constraints[u])
      BY <1>4 DEF PathsInv, Disjoint
    <2>2. QED
      BY <1>2, <1>3, <2>1, ContradictGrows
  <1>5. ASSUME NEW t \in Live \ Removed, NEW p \in finished PROVE Contradict(constraints'[t], p)
    <2>1. Contradict(constraints[t], p)
      BY DEF PathsInv, Disjoint
    <2>2. QED
      BY <1>2, <1>3, <2>1, ContradictGrows
  <1>6. Disjoint(constraints, Live \ Removed, finished)'
    BY <1>1, <1>2, <1>4, <1>5 DEF Disjoint
  <1>7. \A t \in Removed' : constraints'[t] \in finished'
    BY <1>1, <1>2, <1>3 DEF PathsInv
  <1>8. QED
    BY <1>1, <1>6, <1>7 DEF PathsInv

\* Steps that leave live states, their constraints and the finished paths alone.
LEMMA QuietPaths ==
  ASSUME PathsInv, UNCHANGED <<states, addedStates, removedStates, constraints, finished, pruned>>
  PROVE  PathsInv'
  BY DEF PathsInv, Disjoint, Complete, Live, Removed, Contradict, Satisfies

\* checkMemoryUsage over the cap finishes paths of states, also of states that
\* were terminated in the same iteration.
LEMMA MemoryKillPaths ==
  ASSUME IInv, PathsInv, MemoryKill
  PROVE  PathsInv'
  <1>1. PICK K \in SUBSET states :
          /\ removedStates' = [s \in State |-> removedStates[s] + (IF s \in K THEN 1 ELSE 0)]
          /\ finished' = finished \cup {constraints[s] : s \in K}
    BY DEF MemoryKill
  <1>2. UNCHANGED <<states, addedStates, constraints, pruned>>
    BY DEF MemoryKill, stateVars
  <1>3. Removed' = Removed \cup K /\ Live' = Live
    BY <1>1, <1>2 DEF Removed, Live, IInv, TypeOK
  <1>4. \A s, t \in (Live \ Removed)' : s # t => Contradict(constraints[s], constraints[t])
    BY <1>3 DEF PathsInv, Disjoint
  <1>5. ASSUME NEW s \in (Live \ Removed)', NEW p \in finished' PROVE Contradict(constraints[s], p)
    <2>1. CASE p \in finished
      BY <1>3, <2>1 DEF PathsInv, Disjoint
    <2>2. CASE p \notin finished
      <3>1. PICK t \in K : p = constraints[t]
        BY <1>1, <1>5, <2>2
      <3>2. t \notin Removed /\ t \in Live /\ s # t
        BY <1>3, <2>2, <3>1 DEF PathsInv, Live
      <3>3. QED
        BY <1>3, <3>1, <3>2 DEF PathsInv, Disjoint
    <2>3. QED
      BY <2>1, <2>2
  <1>6. Disjoint(constraints, Live \ Removed, finished)'
    BY <1>2, <1>4, <1>5 DEF Disjoint
  <1>7. \A s \in Removed' : constraints'[s] \in finished'
    BY <1>1, <1>2, <1>3 DEF PathsInv
  <1>8. ASSUME ~pruned PROVE Complete(constraints, Live, finished)'
    <2>1. \A a \in [Cond -> BOOLEAN] : \E p \in finished \cup {constraints[s] : s \in Live} : Satisfies(a, p)
      BY <1>8 DEF PathsInv, Complete
    <2>2. finished \cup {constraints[s] : s \in Live} \subseteq finished' \cup {constraints'[s] : s \in Live'}
      BY <1>1, <1>2, <1>3
    <2>3. QED
      BY <2>1, <2>2 DEF Complete, Satisfies
  <1>9. QED
    BY <1>2, <1>6, <1>7, <1>8 DEF PathsInv

\* updateStates deletes states whose paths are finished.
LEMMA UpdateStatesPaths ==
  ASSUME IInv, PathsInv, UpdateStates
  PROVE  PathsInv'
  <1>1. /\ states' = Live \ Removed /\ addedStates' = {} /\ removedStates' = NoneRemoved
        /\ constraints' = [s \in State |-> IF s \in Removed THEN {} ELSE constraints[s]]
        /\ UNCHANGED <<finished, pruned>>
    BY DEF UpdateStates, historyVars
  <1>2. Live' = Live \ Removed /\ Removed' = {} /\ Live \subseteq State
    BY <1>1 DEF Live, Removed, NoneRemoved, IInv, TypeOK
  <1>3. \A s \in Live' : constraints'[s] = constraints[s]
    BY <1>1, <1>2
  <1>4. Disjoint(constraints, Live \ Removed, finished)'
    BY <1>1, <1>2, <1>3 DEF PathsInv, Disjoint
  <1>5. ASSUME ~pruned PROVE Complete(constraints, Live, finished)'
    <2>1. \A a \in [Cond -> BOOLEAN] : \E p \in finished \cup {constraints[s] : s \in Live} : Satisfies(a, p)
      BY <1>5 DEF PathsInv, Complete
    <2>2. finished \cup {constraints[s] : s \in Live} \subseteq finished' \cup {constraints'[s] : s \in Live'}
      BY <1>1, <1>2, <1>3 DEF PathsInv
    <2>3. QED
      BY <2>1, <2>2 DEF Complete, Satisfies
  <1>6. QED
    BY <1>1, <1>2, <1>4, <1>5 DEF PathsInv

\* doDumpStates finishes what is left.
LEMMA DumpStatesPaths ==
  ASSUME IInv, PathsInv, DumpStates
  PROVE  PathsInv'
  <1>1. CASE ~DumpStatesOnHalt
    BY <1>1, QuietPaths DEF DumpStates, stateVars
  <1>2. CASE DumpStatesOnHalt
    <2>1. addedStates = {} /\ Removed = {} /\ phase = "halting"
      BY DEF DumpStates, IInv, ListsInv, Removed, NoneRemoved
    <2>2. /\ finished' = finished \cup {constraints[s] : s \in states} /\ states' = {}
          /\ UNCHANGED <<addedStates, removedStates, pruned>>
      BY <1>2 DEF DumpStates
    <2>3. Live' = {} /\ Removed' = {} /\ Live = states
      BY <2>1, <2>2 DEF Live, Removed
    <2>4. ASSUME ~pruned PROVE Complete(constraints, Live, finished)'
      <3>1. \A a \in [Cond -> BOOLEAN] : \E p \in finished \cup {constraints[s] : s \in Live} : Satisfies(a, p)
        BY <2>4 DEF PathsInv, Complete
      <3>2. finished \cup {constraints[s] : s \in Live} = finished'
        BY <2>2, <2>3
      <3>3. QED
        BY <3>1, <3>2 DEF Complete, Satisfies
    <2>5. QED
      BY <2>2, <2>3, <2>4 DEF PathsInv, Disjoint
  <1>3. QED
    BY <1>1, <1>2

\* The live and the finished paths partition the behaviours of the program, for
\* any number of states and conditions and any options, the memory cap included:
\* no path is explored twice, and unless a branch was pruned none is lost.
THEOREM PathsArePartitioned == Spec => []PathsPartition
  <1>1. IInv /\ PathsInv /\ [Next]_vars => PathsInv'
    <2> SUFFICES ASSUME IInv, PathsInv, [Next]_vars PROVE PathsInv'
      OBVIOUS
    <2>1. ASSUME NEW s \in State, NEW c \in Cond, Fork(s, c) PROVE PathsInv'
      BY <2>1, ForkPaths
    <2>2. ASSUME NEW s \in State, NEW l \in Lit, AddConstraint(s, l) PROVE PathsInv'
      BY <2>2, AddConstraintPaths
    <2>3. ASSUME NEW s \in State, Terminate(s) PROVE PathsInv'
      <3>1. /\ TerminateStates({s}, addedStates, constraints) /\ s \in hand
            /\ UNCHANGED <<states, pruned>>
        BY <2>3 DEF Terminate
      <3>2. /\ addedStates \in SUBSET State /\ addedStates \cap states = {}
            /\ {s} \in SUBSET (states \cup addedStates) /\ {s} \cap Removed = {}
            /\ constraints \in [State -> SUBSET Lit] /\ Live = states \cup addedStates
        BY <2>3, <3>1 DEF IInv, TypeOK, ListsInv, Terminate, Live
      <3>3. QED
        BY <3>1, <3>2, TerminatePaths DEF PathsInv
    <2>4. CASE MemoryKill
      BY <2>4, MemoryKillPaths
    <2>5. CASE UpdateStates
      BY <2>5, UpdateStatesPaths
    <2>6. CASE DumpStates
      BY <2>6, DumpStatesPaths
    <2>7. CASE ConstructSearcher \/ SelectState \/ EndInstruction \/ InvokeTimers \/ MemoryBelowCap
               \/ AbortUpdate \/ LeaveLoop \/ Interrupt \/ Stopped \/ UNCHANGED vars
      BY <2>7, QuietPaths DEF ConstructSearcher, SelectState, EndInstruction, InvokeTimers, MemoryBelowCap,
         AbortUpdate, LeaveLoop, Interrupt, Stopped, vars, execVars, stateVars, historyVars
    <2>8. QED
      BY <2>1, <2>2, <2>3, <2>4, <2>5, <2>6, <2>7 DEF Next, Loop, Instruction
  <1>2. PathsInv => PathsPartition
    BY DEF PathsInv, PathsPartition, Disjoint, Complete
  <1>3. QED
    BY InitPaths, ExecutorInvariant, <1>1, <1>2, PTL DEF Spec

-----------------------------------------------------------------------------
(* The assertions of updateStates.                                         *)

\* Without the memory cap no state is queued for removal twice.
OnceRemoved == (\A s \in State : removedStates[s] <= 1) /\ phase # "aborted"

\* Without the memory cap no assertion of updateStates and of the searcher's
\* update fails: finding 1 needs checkMemoryUsage.
THEOREM NoAbortWithoutCap == ~MaxMemory => (Spec => []NoAbort)
  <1> SUFFICES ASSUME ~MaxMemory PROVE Spec => []NoAbort
    OBVIOUS
  <1>1. Init => OnceRemoved
    BY DEF Init, OnceRemoved, NoneRemoved
  <1>2. IInv /\ OnceRemoved /\ [Next]_vars => OnceRemoved'
    <2> SUFFICES ASSUME IInv, OnceRemoved, [Next]_vars PROVE OnceRemoved'
      OBVIOUS
    <2>1. ASSUME NEW T, NEW added, NEW cs, T \ added \subseteq hand, phase' = phase, phase = "execute",
                 TerminateStates(T, added, cs)
          PROVE  OnceRemoved'
      <3>1. \A s \in hand : removedStates[s] = 0
        BY DEF IInv, TypeOK, ListsInv, Removed
      <3>2. \A s \in State : removedStates'[s] = removedStates[s] + (IF s \in T \ added THEN 1 ELSE 0)
        BY <2>1 DEF TerminateStates
      <3>3. QED
        BY <2>1, <3>1, <3>2 DEF OnceRemoved, IInv, TypeOK
    <2>2. ASSUME NEW s \in State, NEW c \in Cond, Fork(s, c) PROVE OnceRemoved'
      <3>1. PICK f \in State \ Live : \E T \in {{}, {s, f}} :
              TerminateStates(T, addedStates \cup {f}, ForkConstraints(s, f, c))
        BY <2>2 DEF Fork
      <3>2. QED
        BY <2>1, <2>2, <3>1 DEF Fork
    <2>3. ASSUME NEW s \in State, Terminate(s) PROVE OnceRemoved'
      BY <2>1, <2>3 DEF Terminate
    <2>4. CASE AbortUpdate
      <3>1. PICK s \in State : ~(removedStates[s] <= IF s \in Live THEN 1 ELSE 0)
        BY <2>4 DEF AbortUpdate, RemovalsValid
      <3>2. removedStates[s] \in Nat /\ removedStates[s] <= 1
        BY DEF OnceRemoved, IInv, TypeOK
      <3>3. s \notin Live /\ removedStates[s] > 0
        BY <3>1, <3>2
      <3>4. QED
        BY <3>3 DEF IInv, ListsInv, Removed, Live
    <2>5. CASE UpdateStates
      BY <2>5 DEF UpdateStates, OnceRemoved, NoneRemoved
    <2>6. ASSUME NEW s \in State, NEW l \in Lit, AddConstraint(s, l) PROVE OnceRemoved'
      BY <2>6 DEF AddConstraint, execVars, OnceRemoved
    <2>7. CASE ConstructSearcher \/ SelectState \/ EndInstruction \/ InvokeTimers \/ MemoryBelowCap
               \/ LeaveLoop \/ DumpStates \/ Interrupt \/ Stopped \/ UNCHANGED vars
      BY <2>7 DEF ConstructSearcher, SelectState, EndInstruction, InvokeTimers, MemoryBelowCap,
         LeaveLoop, DumpStates, Interrupt, Stopped, vars, execVars, OnceRemoved
    <2>8. CASE MemoryKill
      BY <2>8 DEF MemoryKill
    <2>9. QED
      BY <2>2, <2>3, <2>4, <2>5, <2>6, <2>7, <2>8 DEF Next, Loop, Instruction
  <1>3. OnceRemoved => NoAbort
    BY DEF OnceRemoved, NoAbort
  <1>4. QED
    BY <1>1, <1>2, <1>3, ExecutorInvariant, PTL DEF Spec
=============================================================================
