------------------------------ MODULE Watchdog ------------------------------
(***************************************************************************)
(* The --watchdog process of tools/klee/main.cpp, which FeatMaker always   *)
(* uses: it polls the KLEE process once a second and, when the time is up, *)
(* escalates from SIGINT to gdb to SIGKILL.  The KLEE process may be stuck,*)
(* may have interrupts disabled, may end or abort at any moment, and may   *)
(* take any time over its final dump.  Time is in seconds.                 *)
(***************************************************************************)
EXTENDS Integers, FiniteSets, FiniteSetsExt

CONSTANTS
  MaxTime,        \* --max-time
  GraceFloor,     \* the least time between two steps (15 in the code)
  MaxPoll,        \* bound on the time from one poll to the next
  MaxGdb,         \* bound on the time system("gdb ...") takes
  MaxInterrupts   \* bound on the interrupts of a user

ASSUME WatchdogAssumption ==
  /\ MaxTime \in Nat /\ GraceFloor \in Nat
  /\ MaxPoll \in Nat \ {0} /\ MaxGdb \in Nat /\ MaxInterrupts \in Nat

VARIABLES
  time,          \* wall time since the watchdog started
  wdPhase,       \* "watch", "gdb" (system is running), "returned", or
                 \* "interrupted": the watchdog died of a SIGINT
  level,
  nextStep,
  child,         \* the KLEE process: where it is, how it ended, or "reaped"
  deaf,          \* the program under test has disabled KLEE's interrupts
  haltExecution, \* Executor::haltExecution of the KLEE process
  interrupted,   \* "interrupted" of the KLEE process
  wdArmed,       \* interrupt_handle_watchdog is still installed
  userInts,      \* history: interrupts by a user
  cut            \* history: interrupt_handle ended KLEE during run()

wdVars == <<wdPhase, level, nextStep>>
childVars == <<child, haltExecution, interrupted, cut>>
vars == <<time, wdVars, childVars, deaf, userInts, wdArmed>>

Alive == {"loading", "running"}
Gone == {"returned", "interrupted"}

\* maxTime + maxTime / 10.
FirstStep == MaxTime + MaxTime \div 10

\* The extra time to clean up after each step.
Grace == Max({GraceFloor, MaxTime \div 10})

\* Mutant: the extra time after a step is counted twice.
AfterStepTwice(now) == now + 2 * Grace

\* nextStep after a step.
AfterStep(now) == now + Grace

Init ==
  /\ time = 0 /\ wdPhase = "watch" /\ level = 0 /\ nextStep = FirstStep
  /\ child = "loading" /\ haltExecution = FALSE /\ interrupted = FALSE
  /\ deaf = FALSE /\ userInts = 0 /\ cut = FALSE
  /\ wdArmed = TRUE

-----------------------------------------------------------------------------
(* The KLEE process.                                                       *)

\* theInterpreter is created.
ChildLoaded ==
  /\ child = "loading"
  /\ child' = "running"
  /\ UNCHANGED <<time, wdVars, haltExecution, interrupted, cut, deaf, userInts, wdArmed>>

\* The HaltTimer of the Executor; a --max-time of 0 creates none.
HaltTimer ==
  /\ child = "running" /\ MaxTime # 0 /\ time >= MaxTime /\ ~haltExecution
  /\ haltExecution' = TRUE
  /\ UNCHANGED <<time, wdVars, child, interrupted, cut, deaf, userInts, wdArmed>>

\* KLEE ends: done exploring, halted and dumped, or an error while loading.
ChildExits ==
  /\ child \in Alive
  /\ child' = "exited"
  /\ UNCHANGED <<time, wdVars, haltExecution, interrupted, cut, deaf, userInts, wdArmed>>

\* KLEE dies of a signal, as with a failed assertion.
ChildAborts ==
  /\ child \in Alive
  /\ child' = "signaled"
  /\ UNCHANGED <<time, wdVars, haltExecution, interrupted, cut, deaf, userInts, wdArmed>>

\* An external call of the program under test disables KLEE's interrupts.
InterruptsDisabled ==
  /\ child = "running" /\ ~deaf
  /\ deaf' = TRUE
  /\ UNCHANGED <<time, wdVars, childVars, userInts, wdArmed>>

\* Mutant: the flag is set before it is tested, so every interrupt exits.
InterruptHandleExits ==
  /\ child' = IF child \in Alive THEN "exited" ELSE child
  /\ interrupted' = TRUE /\ UNCHANGED haltExecution
  /\ cut' = (cut \/ child = "running")

\* interrupt_handle: the first interrupt of a running interpreter requests the
\* halt, any other exits at once.
InterruptHandle ==
  IF child = "running" /\ ~interrupted
  THEN /\ haltExecution' = TRUE /\ interrupted' = TRUE
       /\ UNCHANGED <<child, cut>>
  ELSE /\ child' = IF child \in Alive THEN "exited" ELSE child
       /\ cut' = (cut \/ child = "running")
       /\ UNCHANGED <<haltExecution, interrupted>>

\* SIGINT reaches the KLEE process unless it has disabled interrupts.
DeliverInt == IF deaf THEN UNCHANGED childVars ELSE InterruptHandle

\* External: LLVM calls an interrupt function once; interrupt_handle installs
\* itself again, interrupt_handle_watchdog, which does nothing, does not, and the
\* next SIGINT ends the watchdog.  system() ignores SIGINT while gdb runs.
WatchdogInterrupted ==
  \/ wdPhase = "gdb" /\ UNCHANGED <<wdPhase, wdArmed>>
  \/ wdPhase = "watch" /\ wdArmed /\ wdArmed' = FALSE /\ UNCHANGED wdPhase
  \/ wdPhase = "watch" /\ ~wdArmed /\ wdPhase' = "interrupted" /\ UNCHANGED wdArmed

\* Ctrl-C reaches both processes.
UserInterrupt ==
  /\ wdPhase \notin Gone /\ userInts < MaxInterrupts
  /\ userInts' = userInts + 1
  /\ DeliverInt
  /\ WatchdogInterrupted
  /\ UNCHANGED <<time, level, nextStep, deaf>>

-----------------------------------------------------------------------------
(* The watchdog.                                                           *)

\* sleep(1), which may take longer or be cut short by a signal, is over.
Woken == time' \in time .. time + MaxPoll /\ (time' = time => userInts > 0)

\* waitpid: the child has exited; its status is returned.
PollExited ==
  /\ wdPhase = "watch" /\ Woken
  /\ child = "exited"
  /\ child' = "reaped" /\ wdPhase' = "returned"
  /\ UNCHANGED <<level, nextStep, haltExecution, interrupted, cut, deaf, userInts, wdArmed>>

\* Mutant: ECHILD is treated like EINTR and retried without sleeping.
PollNoChildRetries == wdPhase = "watch" /\ child = "reaped" /\ UNCHANGED vars

\* waitpid fails with ECHILD: a child killed by a signal was reaped before.
PollNoChild ==
  /\ wdPhase = "watch" /\ Woken
  /\ child = "reaped"
  /\ wdPhase' = "returned"
  /\ UNCHANGED <<level, nextStep, childVars, deaf, userInts, wdArmed>>

\* The child as waitpid leaves it: one that died of a signal is reaped, but the
\* watchdog goes on as if it were alive.
Waited == IF child = "signaled" THEN "reaped" ELSE child

\* Nothing to do yet.
PollEarly ==
  /\ wdPhase = "watch" /\ Woken
  /\ child \in Alive \cup {"signaled"}
  /\ time' <= nextStep
  /\ child' = Waited
  /\ UNCHANGED <<wdVars, haltExecution, interrupted, cut, deaf, userInts, wdArmed>>

Expired ==
  /\ wdPhase = "watch" /\ Woken
  /\ child \in Alive \cup {"signaled"}
  /\ time' > nextStep
  /\ level' = level + 1

\* Level 1: SIGINT.
StepInt ==
  /\ Expired /\ level' = 1
  /\ nextStep' = AfterStep(time')
  /\ IF Waited = "reaped"
     THEN child' = "reaped" /\ UNCHANGED <<haltExecution, interrupted, cut>>
     ELSE DeliverInt
  /\ UNCHANGED <<wdPhase, deaf, userInts, wdArmed>>

\* Level 2: halt_via_gdb; the watchdog waits for gdb to end.
StepGdb ==
  /\ Expired /\ level' = 2
  /\ wdPhase' = "gdb" /\ child' = Waited
  /\ UNCHANGED <<nextStep, haltExecution, interrupted, cut, deaf, userInts, wdArmed>>

\* gdb called halt_execution(), or there was no gdb or no process to attach to;
\* theInterpreter is a null pointer while the child is loading.
GdbEnds ==
  /\ wdPhase = "gdb"
  /\ time' \in time .. time + MaxGdb
  /\ haltExecution' \in {haltExecution, haltExecution \/ child = "running"}
  /\ nextStep' = AfterStep(time')
  /\ wdPhase' = "watch"
  /\ UNCHANGED <<level, child, interrupted, cut, deaf, userInts, wdArmed>>

\* Mutant: the watchdog gives up without killing.
StepKillGivesUp ==
  /\ Expired /\ level' = 3
  /\ child' = Waited /\ wdPhase' = "returned"
  /\ UNCHANGED <<nextStep, haltExecution, interrupted, cut, deaf, userInts, wdArmed>>

\* Level 3: SIGKILL, and the watchdog returns without waiting for the child.
StepKill ==
  /\ Expired /\ level' = 3
  /\ child' = IF Waited = "reaped" THEN "reaped" ELSE "killed"
  /\ wdPhase' = "returned"
  /\ UNCHANGED <<nextStep, haltExecution, interrupted, cut, deaf, userInts, wdArmed>>

Poll == PollExited \/ PollNoChild \/ PollEarly \/ StepInt \/ StepGdb \/ StepKill

Ended == wdPhase \in Gone /\ UNCHANGED vars

Next ==
  \/ Poll \/ GdbEnds \/ ChildLoaded \/ HaltTimer \/ ChildExits \/ ChildAborts
  \/ InterruptsDisabled \/ UserInterrupt \/ Ended

Spec == Init /\ [][Next]_vars

\* The watchdog keeps polling and its sleep is not always cut short; nothing is
\* assumed about the KLEE process.
FairSpec ==
  Spec /\ WF_vars(Poll /\ time' > time) /\ WF_vars(GdbEnds)

-----------------------------------------------------------------------------
\* The watchdog returns only when the KLEE process is gone: the next KLEE run of
\* FeatMaker never competes with a leftover of this one.  A user's interrupts that
\* end the watchdog end KLEE too, unless its interrupts are disabled (the handlers
\* of main.cpp).
NoLeftover ==
  /\ wdPhase = "returned" => child \in {"reaped", "killed"}
  /\ wdPhase = "interrupted" => child \notin Alive \/ deaf

\* The watchdog returns in time, whatever the KLEE process does: this bounds the
\* overrun of one KLEE run.
ReturnsInTime ==
  time <= FirstStep + MaxPoll + Grace + MaxPoll + MaxGdb + Grace + MaxPoll

\* Every run with a watchdog ends, even if KLEE hangs with interrupts disabled.
WatchdogEnds == <>(wdPhase \in Gone)

\* KLEE is given every chance to dump its states: it is killed only after the
\* whole time limit and two grace periods in which it was asked to halt, and the
\* watchdog's own SIGINT never ends it in the middle of run() or of the dump,
\* unless a user's interrupt came before or after (interrupt_handle).
HaltsGently ==
  /\ child = "killed" => level = 3 /\ time > FirstStep + 2 * Grace
  /\ cut => userInts > 0
=============================================================================
