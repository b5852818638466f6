--------------------------- MODULE WatchdogProofs ---------------------------
(***************************************************************************)
(* Theorems about Watchdog, for every time limit, every grace period and   *)
(* every bound on how long a poll, gdb and the KLEE process take.          *)
(***************************************************************************)
EXTENDS Watchdog, TLAPS

\* Where the KLEE process can be.
Children == Alive \cup {"exited", "signaled", "killed", "reaped"}

\* The types of what the schedule is computed from.
WDTypes ==
  /\ time \in Nat /\ nextStep \in Nat /\ level \in 0 .. 3
  /\ wdPhase \in {"watch", "gdb"} \cup Gone /\ child \in Children
  /\ userInts \in Nat

\* The schedule: when the next step is due at each level, how late it can get,
\* and that no step comes before the grace period of the one before is over.
Schedule ==
  /\ wdPhase = "watch" => level < 3 /\ time <= nextStep
  /\ wdPhase = "watch" /\ level = 0 => nextStep = FirstStep
  /\ wdPhase = "watch" /\ level = 1 =>
       /\ nextStep > FirstStep + Grace
       /\ nextStep <= FirstStep + MaxPoll + Grace
  /\ wdPhase = "gdb" =>
       /\ level = 2 /\ time > FirstStep + Grace
       /\ time <= FirstStep + MaxPoll + Grace + MaxPoll
  /\ wdPhase = "watch" /\ level = 2 =>
       /\ nextStep > FirstStep + 2 * Grace
       /\ nextStep <= FirstStep + MaxPoll + Grace + MaxPoll + MaxGdb + Grace

\* Who is to blame: before the watchdog's first step every interrupt is a user's,
\* and SIGKILL is the last thing the watchdog does.
Blame ==
  /\ interrupted /\ level = 0 => userInts > 0
  /\ child = "killed" => wdPhase = "returned"

\* The interrupt that used up the watchdog's handler reached KLEE as well, unless
\* its interrupts are disabled: KLEE is gone, or has been asked to halt and will
\* exit at the next one.
Handlers ==
  ~wdArmed /\ ~deaf => child \notin Alive \/ (child = "running" /\ interrupted)

\* The inductive invariant of the watchdog and its child.
WDInv == WDTypes /\ Schedule /\ Blame /\ Handlers /\ NoLeftover /\ ReturnsInTime /\ HaltsGently

\* The larger of two natural numbers is one of them and at least both.
LEMMA MaxOfTwo ==
  ASSUME NEW a \in Nat, NEW b \in Nat
  PROVE  Max({a, b}) \in Nat /\ Max({a, b}) >= a /\ Max({a, b}) >= b
  <1>1. \E x \in {a, b} : \A y \in {a, b} : x >= y
    OBVIOUS
  <1>2. Max({a, b}) \in {a, b} /\ \A y \in {a, b} : Max({a, b}) >= y
    BY <1>1 DEF Max
  <1> QED
    BY <1>2

\* The first step and the grace period are natural numbers.
LEMMA Durations == FirstStep \in Nat /\ Grace \in Nat
  <1>1. MaxTime \div 10 \in Nat
    BY WatchdogAssumption
  <1> QED
    BY <1>1, WatchdogAssumption, MaxOfTwo DEF FirstStep, Grace

\* The watchdog starts in the invariant.
LEMMA WDInitInv == Init => WDInv
  BY WatchdogAssumption, Durations
  DEF Init, WDInv, WDTypes, Schedule, Blame, Handlers, NoLeftover, ReturnsInTime, HaltsGently, Children, Alive, Gone

\* interrupt_handle keeps the types, ends a running KLEE only if it was
\* interrupted before, and never brings a dead one back.
LEMMA DeliverIntEffect ==
  ASSUME WDTypes, DeliverInt
  PROVE  /\ child' \in Children
         /\ child \notin Alive => child' = child
         /\ child \in Alive => child' \in Alive \cup {"exited"}
         /\ cut' => cut \/ interrupted
         /\ ~deaf => child' \notin Alive \/ (child' = "running" /\ interrupted')
         /\ ~deaf /\ interrupted => child' \notin Alive
  <1>1. CASE deaf
    BY <1>1 DEF DeliverInt, childVars, WDTypes, Children, Alive, Gone
  <1>2. CASE ~deaf
    BY <1>2 DEF DeliverInt, InterruptHandle, WDTypes, Children, Alive, Gone
  <1> QED
    BY <1>1, <1>2

\* A poll takes place within MaxPoll of the last one.
LEMMA WokenTime ==
  ASSUME WDTypes, Woken
  PROVE  time' \in Nat /\ time <= time' /\ time' <= time + MaxPoll
  BY WatchdogAssumption DEF WDTypes, Woken

\* Every step of the KLEE process, and of its user, keeps the invariant.
LEMMA ChildStepInv ==
  ASSUME WDInv, ChildLoaded \/ HaltTimer \/ ChildExits \/ ChildAborts \/ InterruptsDisabled \/ UserInterrupt
  PROVE  WDInv'
  <1> USE DEF WDInv, wdVars, childVars
  <1>1. CASE ChildLoaded \/ HaltTimer \/ ChildExits \/ ChildAborts \/ InterruptsDisabled
    BY <1>1 DEF ChildLoaded, HaltTimer, ChildExits, ChildAborts, InterruptsDisabled,
      WDTypes, Schedule, Blame, Handlers, NoLeftover, ReturnsInTime, HaltsGently, Children, Alive, Gone
  <1>2. CASE UserInterrupt
    <2>1. /\ DeliverInt /\ WatchdogInterrupted /\ wdPhase \notin Gone /\ userInts' = userInts + 1
          /\ UNCHANGED <<time, level, nextStep, deaf>>
      BY <1>2 DEF UserInterrupt
    <2>2. /\ wdPhase' = wdPhase \/ (wdPhase' = "interrupted" /\ ~wdArmed)
          /\ wdPhase' \in {"watch", "gdb", "interrupted"}
      BY <2>1 DEF WatchdogInterrupted, WDTypes, Gone
    <2>3. Handlers'
      BY <2>1, DeliverIntEffect DEF Handlers
    <2>4. wdPhase' = "interrupted" => child' \notin Alive \/ deaf'
      BY <2>1, <2>2, DeliverIntEffect DEF Handlers, WDTypes, Gone
    <2>5. WDTypes' /\ Schedule' /\ Blame' /\ ReturnsInTime' /\ HaltsGently'
      BY <2>1, <2>2, DeliverIntEffect
      DEF WDTypes, Schedule, Blame, ReturnsInTime, HaltsGently, Children, Alive, Gone
    <2> QED
      BY <2>2, <2>3, <2>4, <2>5 DEF NoLeftover
  <1> QED
    BY <1>1, <1>2

\* A poll that finds the child gone, or nothing to do yet, keeps the invariant.
LEMMA PollInv ==
  ASSUME WDInv, PollExited \/ PollNoChild \/ PollEarly
  PROVE  WDInv'
  <1> USE DEF WDInv
  <1>1. Woken /\ wdPhase = "watch"
    BY DEF PollExited, PollNoChild, PollEarly
  <1>2. time' \in Nat /\ time <= time' /\ time' <= time + MaxPoll
    BY <1>1, WokenTime
  <1>3. time' <= FirstStep + MaxPoll + Grace + MaxPoll + MaxGdb + Grace + MaxPoll
    BY <1>1, <1>2, Durations, WatchdogAssumption DEF WDTypes, Schedule
  <1>4. CASE PollExited \/ PollNoChild
    BY <1>1, <1>2, <1>3, <1>4
    DEF PollExited, PollNoChild, WDTypes, Schedule, Blame, Handlers, NoLeftover, ReturnsInTime, HaltsGently,
        Children, Alive, Gone, childVars
  <1>5. CASE PollEarly
    BY <1>1, <1>2, <1>3, <1>5
    DEF PollEarly, Waited, WDTypes, Schedule, Blame, Handlers, NoLeftover, ReturnsInTime, HaltsGently,
        Children, Alive, Gone, wdVars
  <1> QED
    BY <1>4, <1>5

\* A step of the escalation is taken on time, and not before it is due.
LEMMA EscalationInv ==
  ASSUME WDInv, StepInt \/ StepGdb \/ StepKill
  PROVE  WDInv'
  <1> USE DEF WDInv
  <1>1. Woken /\ wdPhase = "watch" /\ child \in Alive \cup {"signaled"} /\ time' > nextStep /\ level' = level + 1
    BY DEF StepInt, StepGdb, StepKill, Expired
  <1>2. time' \in Nat /\ time <= time' /\ time' <= time + MaxPoll
    BY <1>1, WokenTime
  <1>3. time' <= nextStep + MaxPoll /\ time' > nextStep
    BY <1>1, <1>2, WatchdogAssumption DEF WDTypes, Schedule
  <1>4. CASE StepInt
    <2>1. level = 0 /\ level' = 1 /\ nextStep' = time' + Grace /\ UNCHANGED <<wdPhase, deaf, userInts, wdArmed>>
      BY <1>1, <1>4 DEF StepInt, AfterStep, WDTypes
    <2>2. nextStep = FirstStep
      BY <1>1, <2>1 DEF Schedule
    <2>8. PICK t \in Nat : time' = t
      BY <1>2
    <2>9. nextStep' = t + Grace /\ nextStep' \in Nat
      BY <2>1, <2>8, Durations
    <2>3. WDTypes' /\ child' # "killed" /\ (cut' => cut \/ interrupted) /\ Handlers'
      <3>1. CASE Waited = "reaped"
        BY <1>1, <1>2, <1>4, <2>1, <2>9, <3>1 DEF StepInt, WDTypes, Handlers, Children, Alive, Gone
      <3>2. CASE Waited # "reaped"
        <4>1. DeliverInt
          BY <1>4, <3>2 DEF StepInt
        <4> QED
          BY <1>1, <1>2, <2>1, <2>9, <4>1, DeliverIntEffect DEF WDTypes, Handlers, Children, Alive, Gone
      <3> QED
        BY <3>1, <3>2
    <2>4. /\ nextStep' > FirstStep + Grace /\ nextStep' <= FirstStep + MaxPoll + Grace
          /\ time' <= nextStep' /\ time' <= FirstStep + MaxPoll
      BY <1>3, <2>2, <2>8, <2>9, Durations, WatchdogAssumption
    <2>5. Schedule'
      BY <1>1, <2>1, <2>4 DEF Schedule
    <2>6. ReturnsInTime'
      BY <1>2, <2>4, Durations, WatchdogAssumption DEF ReturnsInTime
    <2>7. Blame' /\ NoLeftover' /\ HaltsGently'
      BY <1>1, <2>1, <2>3 DEF Blame, NoLeftover, HaltsGently
    <2> QED
      BY <2>3, <2>5, <2>6, <2>7
  <1>5. CASE StepGdb
    <2>1. level = 1 /\ level' = 2 /\ wdPhase' = "gdb" /\ child' = Waited
          /\ UNCHANGED <<nextStep, haltExecution, interrupted, cut, deaf, userInts, wdArmed>>
      BY <1>1, <1>5 DEF StepGdb, WDTypes
    <2>2. nextStep > FirstStep + Grace /\ nextStep <= FirstStep + MaxPoll + Grace
      BY <1>1, <2>1 DEF Schedule
    <2>3. WDTypes' /\ child' # "killed"
      BY <1>1, <1>2, <2>1 DEF WDTypes, Waited, Children, Alive, Gone
    <2>4. Schedule' /\ ReturnsInTime'
      BY <1>2, <1>3, <2>1, <2>2, Durations, WatchdogAssumption DEF Schedule, ReturnsInTime, WDTypes
    <2> QED
      BY <2>1, <2>3, <2>4 DEF Blame, Handlers, NoLeftover, HaltsGently, Waited, Alive
  <1>6. CASE StepKill
    <2>1. level = 2 /\ level' = 3 /\ wdPhase' = "returned" /\ child' \in {"reaped", "killed"}
          /\ UNCHANGED <<nextStep, haltExecution, interrupted, cut, deaf, userInts, wdArmed>>
      BY <1>1, <1>6 DEF StepKill, WDTypes
    <2>2. /\ nextStep > FirstStep + 2 * Grace
          /\ nextStep <= FirstStep + MaxPoll + Grace + MaxPoll + MaxGdb + Grace
      BY <1>1, <2>1 DEF Schedule
    <2>3. time' > FirstStep + 2 * Grace
          /\ time' <= FirstStep + MaxPoll + Grace + MaxPoll + MaxGdb + Grace + MaxPoll
      BY <1>2, <1>3, <2>2, Durations, WatchdogAssumption DEF WDTypes
    <2> QED
      BY <1>2, <2>1, <2>3
      DEF WDTypes, Schedule, Blame, Handlers, NoLeftover, ReturnsInTime, HaltsGently, Children, Alive, Gone
  <1> QED
    BY <1>4, <1>5, <1>6

\* The end of gdb starts the last grace period.
LEMMA GdbInv ==
  ASSUME WDInv, GdbEnds
  PROVE  WDInv'
  <1> USE DEF WDInv
  <1>1. wdPhase = "gdb" /\ wdPhase' = "watch" /\ level = 2 /\ nextStep' = time' + Grace
        /\ UNCHANGED <<level, child, interrupted, cut, deaf, userInts, wdArmed>>
    BY DEF GdbEnds, AfterStep, Schedule
  <1>2. time' \in Nat /\ time <= time' /\ time' <= time + MaxGdb
    BY WatchdogAssumption DEF GdbEnds, WDTypes
  <1>3. time > FirstStep + Grace /\ time <= FirstStep + MaxPoll + Grace + MaxPoll
    BY <1>1 DEF Schedule
  <1>8. PICK t \in Nat : time' = t
    BY <1>2
  <1>9. nextStep' = t + Grace /\ nextStep' \in Nat
    BY <1>1, <1>8, Durations
  <1>4. WDTypes'
    BY <1>1, <1>2, <1>9 DEF WDTypes, Children, Alive, Gone
  <1>5. /\ nextStep' > FirstStep + 2 * Grace /\ time' <= nextStep'
        /\ nextStep' <= FirstStep + MaxPoll + Grace + MaxPoll + MaxGdb + Grace
        /\ time' <= FirstStep + MaxPoll + Grace + MaxPoll + MaxGdb
    BY <1>2, <1>3, <1>8, <1>9, Durations, WatchdogAssumption DEF WDTypes
  <1>6. Schedule'
    BY <1>1, <1>5 DEF Schedule
  <1>7. ReturnsInTime'
    BY <1>2, <1>5, Durations, WatchdogAssumption DEF ReturnsInTime
  <1> QED
    BY <1>1, <1>4, <1>6, <1>7 DEF Blame, Handlers, NoLeftover, HaltsGently

\* Every step keeps the invariant.
LEMMA WDNextInv == WDInv /\ [Next]_vars => WDInv'
  <1> SUFFICES ASSUME WDInv, [Next]_vars PROVE WDInv'
    OBVIOUS
  <1>1. CASE UNCHANGED vars
    BY <1>1 DEF vars, wdVars, childVars, WDInv, WDTypes, Schedule, Blame, Handlers, NoLeftover, ReturnsInTime, HaltsGently
  <1>2. CASE Next
    BY <1>1, <1>2, ChildStepInv, PollInv, EscalationInv, GdbInv DEF Next, Poll, Ended
  <1> QED
    BY <1>1, <1>2

\* The invariant holds throughout.
LEMMA WDInvariant == Spec => []WDInv
  BY WDInitInv, WDNextInv, PTL DEF Spec

\* The watchdog returns only when the KLEE process is gone, whatever KLEE, its
\* signal handler, gdb and the user do: the next run never competes with it.  The
\* interrupts that end the watchdog end KLEE too, unless it has disabled them.
THEOREM WatchdogLeavesNothing == Spec => []NoLeftover
  <1>1. WDInv => NoLeftover
    BY DEF WDInv
  <1> QED
    BY <1>1, WDInvariant, PTL

\* The watchdog is bounded: it is still there at most three polls, two grace
\* periods and one gdb after the time limit and its tenth.
THEOREM WatchdogReturnsInTime == Spec => []ReturnsInTime
  <1>1. WDInv => ReturnsInTime
    BY DEF WDInv
  <1> QED
    BY <1>1, WDInvariant, PTL

\* KLEE is killed only after two full grace periods in which it was asked to
\* halt, and is cut short in run() only if a user interrupted too.
THEOREM WatchdogHaltsGently == Spec => []HaltsGently
  <1>1. WDInv => HaltsGently
    BY DEF WDInv
  <1> QED
    BY <1>1, WDInvariant, PTL
=============================================================================
