------------------------------- MODULE Solving -------------------------------
(***************************************************************************)
(* How the executor uses the solver chain: the paths of a program, each with *)
(* its constraints, asking one chain whose caches they share.                *)
(*                                                                           *)
(* A world is what the executor and the chain hold between two requests.  An *)
(* operation maps a world and one of its paths to the worlds it may leave:   *)
(* several, because the core solver may return any model, fail or time out.  *)
(* A path carries models, the assignments under which it is taken, beside    *)
(* the constraints to say what they ought to mean.                           *)
(***************************************************************************)
EXTENDS SolverChain

CONSTANTS Programs,      \* sequence of records: the options of the chain, and for each
                         \* request of the run the calls it may be
          Conditions,    \* the Boolean expressions a program branches on or assumes
          Terms,         \* the other expressions it needs values of
          Preferences,   \* klee_prefer_cex expressions, in order
          MaxQueries,    \* bound: requests of any program
          MaxPaths       \* bound: paths at a time

Path(cs, models) == [cs |-> cs, models |-> models]
NoAnswer         == [kind |-> "none", models |-> {}, e |-> False, val |-> "none"]
Holding(e, S)    == {a \in S : Denote(e, a) = 1}

World0 == [paths |-> {Path(<<>>, Assignments)}, caches |-> NoCaches,
           answer |-> NoAnswer, aborted |-> FALSE]

\* An operation on path p is over: the outcome r of its query, the answer it
\* gives about e, the paths that replace p, and whether assertions held.
After(w, p, kind, e, r, new, ok) ==
    [paths   |-> (w.paths \ {p}) \cup new,
     caches  |-> r.sv,
     answer  |-> IF r.st = "ok" THEN [kind |-> kind, models |-> p.models, e |-> e, val |-> r.val]
                 ELSE NoAnswer,
     aborted |-> r.st = "abort" \/ (~ok /\ r.st # "undefined")]

Timed(o) == [o EXCEPT !.timed = TRUE]

\* Executor::addConstraint on the path p.
Constrained(p, e) ==
    LET r == IF isConstant(e) THEN [cs |-> p.cs, ok |-> e = True] ELSE addConstraint(p.cs, e)
    IN  [path |-> Path(r.cs, Holding(e, p.models)), ok |-> r.ok]

\* Executor::fork: a timeout ends the path, an open condition splits it.
Fork(o, w, p, c) ==
    LET t == Constrained(p, c)
        f == Constrained(p, createIsZero(c))
        Sides(r) == CASE r.st # "ok" -> {After(w, p, "validity", c, r, {}, TRUE)}
                      [] r.st = "ok" /\ r.val # "Unknown" -> {After(w, p, "validity", c, r, {p}, TRUE)}
                      [] OTHER -> IF Cardinality(w.paths) = MaxPaths THEN {}
                                  ELSE {After(w, p, "validity", c, r, {t.path, f.path}, t.ok /\ f.ok)}
    IN  UNION {Sides(r) : r \in evaluateQuery(Timed(o), w.caches, p.cs, c)}

\* SpecialFunctionHandler::handleAssume: mustBeFalse ends the path.
Assume(o, w, p, c) ==
    LET t == Constrained(p, c)
        not == createIsZero(c)
    IN  {IF r.st = "ok" /\ r.val = "invalid" THEN After(w, p, "truth", not, r, {t.path}, t.ok)
         ELSE After(w, p, "truth", not, r, {}, r.st = "ok") : r \in mustBeTrue(o, w.caches, p.cs, not)}

\* Executor::toConstant.
ToConstant(o, w, p, x) ==
    LET e == simplifyExpr(p.cs, x)
        Chosen(r) == LET t == Constrained(p, create("Eq", e, r.val))
                     IN  IF r.st = "ok" THEN After(w, p, "value", e, r, {t.path}, t.ok)
                         ELSE After(w, p, "value", e, r, {}, FALSE)
    IN  IF isConstant(e) THEN {} ELSE {Chosen(r) : r \in getValue(o, w.caches, p.cs, e)}

\* Executor::toUnique: the constant the expression must be, or itself.
ToUnique(o, w, p, e) ==
    LET Unique(r) ==
            LET cond == create("Eq", e, r.val)
                Must(s) == {Ok(IF s.val = "valid" THEN r.val ELSE e, s.sv)}
            IN  Then(IF isConstant(cond) THEN {Ok("valid", r.sv)}
                     ELSE mustBeTrue(Timed(o), r.sv, p.cs, cond), Must, e)
    IN  {After(w, p, "unique", e, r, {p}, TRUE) :
            r \in Then(getValue(Timed(o), w.caches, p.cs, e), Unique, e)}

\* getAddressInfo: Solver::getRange.
GetRange(o, w, p, e) ==
    {After(w, p, "range", e, r, {p}, TRUE) : r \in getRange(o, w.caches, p.cs, e)}

\* The preferences that can hold are added to a copy of the constraints, until
\* a query fails.
RECURSIVE Preferred(_, _, _, _)
Preferred(o, sv, cs, prefs) ==
    LET out     == IF prefs = <<>> THEN {} ELSE mustBeTrue(Timed(o), sv, cs, createIsZero(prefs[1]))
        With(r) == addConstraint(cs, prefs[1])
    IN  IF prefs = <<>> THEN {Ok(cs, sv)}
        ELSE UNION {CASE r.st = "failed" -> {Ok(cs, r.sv)}
                      [] r.st \in {"abort", "undefined"} -> {[r EXCEPT !.val = cs]}
                      [] r.st = "ok" /\ r.val = "valid" -> Preferred(o, r.sv, cs, Tail(prefs))
                      [] OTHER -> IF With(r).ok THEN Preferred(o, r.sv, With(r).cs, Tail(prefs))
                                  ELSE {Abort(cs, r.sv)} : r \in out}

\* Executor::getSymbolicSolution.
GetSymbolicSolution(o, w, p) ==
    LET Values(r) == Validating_computeInitialValues(Timed(o), r.sv, r.val, SymbolicArrays)
    IN  {After(w, p, "solution", False, r, {p}, TRUE) :
            r \in Then(Preferred(o, w.caches, p.cs, Preferences), Values, NoSolution)}

-----------------------------------------------------------------------------
(* The executor makes requests, of any of its paths.                         *)
VARIABLES program, \* which of the programs runs
          calls    \* the requests so far, by the index of their expression

solvingVars == <<program, calls>>

Calls == [op : {"fork", "assume"}, i : DOMAIN Conditions]
         \cup [op : {"toConstant", "toUnique", "getRange"}, i : DOMAIN Terms]
         \cup {[op |-> "getSymbolicSolution", i |-> 0]}

\* The calls that request n of the program g may be.
Choices(g, n) == IF n <= Len(Programs[g].requests) THEN Programs[g].requests[n] ELSE {}

Request(op, i) ==
    /\ Len(calls) < MaxQueries /\ [op |-> op, i |-> i] \in Choices(program, Len(calls) + 1)
    /\ calls' = Append(calls, [op |-> op, i |-> i]) /\ UNCHANGED program

SolvingInit == program \in DOMAIN Programs /\ calls = <<>>

SolvingNext ==
    \/ \E i \in DOMAIN Conditions : Request("fork", i) \/ Request("assume", i)
    \/ \E i \in DOMAIN Terms : Request("toConstant", i) \/ Request("toUnique", i) \/ Request("getRange", i)
    \/ Request("getSymbolicSolution", 0)

SolvingSpec == SolvingInit /\ [][SolvingNext]_solvingVars

Outcomes(o, w, call) ==
    UNION {CASE call.op = "fork"       -> Fork(o, w, p, Conditions[call.i])
             [] call.op = "assume"     -> Assume(o, w, p, Conditions[call.i])
             [] call.op = "toConstant" -> ToConstant(o, w, p, Terms[call.i])
             [] call.op = "toUnique"   -> ToUnique(o, w, p, Terms[call.i])
             [] call.op = "getRange"   -> GetRange(o, w, p, Terms[call.i])
             [] OTHER                  -> GetSymbolicSolution(o, w, p) : p \in w.paths}

\* The worlds that one more request may make of the history h.
Longer(h) ==
    UNION {{[h EXCEPT !.calls = Append(@, c), !.world = w] :
               w \in Outcomes(Programs[h.program].opts, h.world, c)} :
               c \in Choices(h.program, Len(h.calls) + 1)}

\* The worlds that up to n requests can lead to, each with the requests that do.
RECURSIVE Histories(_)
Histories(n) ==
    IF n = 0 THEN {[program |-> g, calls |-> <<>>, world |-> World0] : g \in DOMAIN Programs}
    ELSE LET shorter == Histories(n - 1)
         IN  shorter \cup UNION {Longer(h) : h \in {g \in shorter : Len(g.calls) = n - 1 /\ ~g.world.aborted}}

Reachable == Histories(MaxQueries)

\* What the requests, the last one included, may have made of the world.
Worlds == {h.world : h \in {g \in Reachable : g.program = program /\ g.calls = calls'}}

-----------------------------------------------------------------------------
\* The constraints of every path, however rewritten, mean what was added.
ConstraintsExact ==
    [][\A w \in Worlds : \A p \in w.paths : Counterexamples(p.cs, False) = p.models]_solvingVars

Right(answer) ==
    LET vals == {Denote(answer.e, a) : a \in answer.models}
        Says(all, v) == answer.val = v <=> vals = all
    IN  CASE answer.kind = "validity" -> Says({1}, "True") /\ Says({0}, "False")
          [] answer.kind = "truth"    -> Says({1}, "valid")
          [] answer.kind = "value"    -> isConstant(answer.val) /\ answer.val.v \in vals
          [] answer.kind = "unique"   -> IF isConstant(answer.val) THEN vals = {answer.val.v}
                                         ELSE Cardinality(vals) > 1
          [] answer.kind = "range"    -> /\ answer.val[1] \in vals /\ answer.val[2] \in vals
                                         /\ \A v \in vals : answer.val[1] <= v /\ v <= answer.val[2]
          [] OTHER -> TRUE

\* Every answer of the chain is the right one for the path that asked, whatever
\* the other paths left in the caches.
AnswersExact == [][\A w \in Worlds : Right(w.answer)]_solvingVars

\* The bytes of a test case drive the program down the path they were made for.
TestInputsFollowPath ==
    [][\A w \in Worlds : w.answer.kind = "solution" =>
          w.answer.val.sat /\ w.answer.val.bindings \in w.answer.models]_solvingVars

Sound(caches) ==
    /\ \A key \in DOMAIN caches.cex :
          LET s == caches.cex[key]
              sats == {a \in Assignments : \A e \in key : Denote(e, a) = 1}
          IN  IF s.sat THEN SatisfiesKey(s, key) ELSE sats = {}
    /\ \A q \in DOMAIN caches.branch :
          LET vals == {Denote(q[2], a) : a \in Counterexamples(q[1], False)}
              pv   == caches.branch[q]
          IN  CASE pv = "MustBeTrue"  -> vals = {1}
                [] pv = "MustBeFalse" -> vals = {0}
                [] pv = "MayBeTrue"   -> 1 \in vals
                [] pv = "MayBeFalse"  -> 0 \in vals
                [] pv = "TrueOrFalse" -> vals = {0, 1}

\* Every entry of the caches is true, for whoever finds it later.
CachesSound == [][\A w \in Worlds : Sound(w.caches)]_solvingVars

\* No assertion of the constraint manager, of the chain or of its callers fails,
\* and the validating solvers never find a wrong answer; but FastCexSolver may
\* assert, and so may toConstant and handleAssume when the solver's process
\* has died.
NoAssertFails == [][\A w \in Worlds : w.aborted =>
          Programs[program].opts.fastCex \/ Programs[program].opts.dies]_solvingVars

=============================================================================
