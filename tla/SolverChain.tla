---------------------------- MODULE SolverChain ----------------------------
(***************************************************************************)
(* The chain of solvers KLEE puts before the core solver (lib/Solver):       *)
(* TimingSolver, IndependentSolver, CachingSolver, CexCachingSolver and,     *)
(* optionally, FastCexSolver and the two validating solvers.  The core       *)
(* solver answers with some satisfying assignment or runs out of time, so    *)
(* every operation is the set of its outcomes.  An outcome has a status st   *)
(* ("ok", "failed" for a query that failed, "abort" for an assertion that    *)
(* failed, "undefined" after a read of an uninitialized flag), a value and    *)
(* the caches sv afterwards.  A query is its constraints cs and its          *)
(* expression q; it is valid when cs implies q.                              *)
(***************************************************************************)
EXTENDS Constraints, FastCex

LOCAL SX == INSTANCE SequencesExt

\* The options o: tryAll, superSet (-cex-cache-try-all, -cex-cache-superset),
\* fastCex, cexCache (-use-fast-cex-solver, -use-cex-cache), assigned, validate
\* (-debug-assignment-validating-solver, -debug-validate-solver), core and
\* ignoreFailures (-solver-backend, -ignore-solver-failures), dies (the core
\* solver's process may die), and timed: a timeout is set for the queries of
\* the operation (TimingSolver::setTimeout).

\* What getAssignment finds: values of arrays, or that there are none.
Solution(bindings) == [sat |-> TRUE, bindings |-> bindings]
NoSolution         == [sat |-> FALSE, bindings |-> <<>>]

\* sv.cex: the counterexample cache, a set of expressions to a solution.
\* sv.branch: CachingSolver's cache, a query to a partial validity.
NoCaches == [cex |-> <<>>, branch |-> <<>>]

Ok(val, sv)     == [st |-> "ok", val |-> val, sv |-> sv]
Fail(val, sv)   == [st |-> "failed", val |-> val, sv |-> sv]
Abort(val, sv)  == [st |-> "abort", val |-> val, sv |-> sv]
Undefined(val, sv) == [st |-> "undefined", val |-> val, sv |-> sv]

\* The outcomes of doing F after an outcome of S; none is F's dummy value.
Then(S, F(_), none) == UNION {IF r.st = "ok" THEN F(r) ELSE {[r EXCEPT !.val = none]} : r \in S}

negateExpr(q) == createIsZero(q)
SetOf(cs)     == {cs[i] : i \in DOMAIN cs}

\* The assignments under which all of cs hold and q does not.
Counterexamples(cs, q) ==
    {a \in Assignments : (\A i \in DOMAIN cs : Denote(cs[i], a) = 1) /\ Denote(q, a) = 0}

-----------------------------------------------------------------------------
(* The core solver.  Two of the solutions stand for all.                     *)

CoreSolutions(S) ==
    LET first == CHOOSE a \in S : TRUE
    IN  {first} \cup (IF S = {first} THEN {} ELSE {CHOOSE a \in S \ {first} : TRUE})

\* A model's value for every byte of the objects, or no solution.
CoreAnswers(sv, cs, q, objects) ==
    LET sats == Counterexamples(cs, q)
    IN  IF sats = {} THEN {Ok(NoSolution, sv)}
        ELSE {Ok(Solution([r \in objects |-> a[r]]), sv) : a \in CoreSolutions(sats)}

FailsIf(cond, sv) == IF cond THEN {Fail(NoSolution, sv)} ELSE {}

\* STP in a child process: exit code 0 with the values in shared memory, 1
\* without a solution, 52 after its alarm.  If the child cannot be started, or
\* dies, KLEE exits, or the query fails with -ignore-solver-failures.
STP_computeInitialValues(o, sv, cs, q, objects) ==
    CoreAnswers(sv, cs, q, objects) \cup FailsIf(o.timed \/ (o.dies /\ o.ignoreFailures), sv)

\* metaSMT in a child process: the same, and a child that dies is always a
\* failed query.
MetaSMT_computeInitialValues(o, sv, cs, q, objects) ==
    CoreAnswers(sv, cs, q, objects) \cup FailsIf(o.timed \/ o.dies, sv)

\* Z3 within the process: Z3_L_TRUE, Z3_L_FALSE or, after a timeout, Z3_L_UNDEF.
Z3_internalRunSolver(o, sv, cs, q, objects) ==
    CoreAnswers(sv, cs, q, objects) \cup FailsIf(o.timed, sv)

Core_computeInitialValues(o, sv, cs, q, objects) ==
    CASE o.core = "stp"     -> STP_computeInitialValues(o, sv, cs, q, objects)
      [] o.core = "metaSMT" -> MetaSMT_computeInitialValues(o, sv, cs, q, objects)
      [] o.core = "z3"      -> Z3_internalRunSolver(o, sv, cs, q, objects)

\* AssignmentValidatingSolver: a solution must make every constraint true and
\* the query false.  hasSolution is read although a query that failed has left
\* it uninitialized; taken for true, it makes the solver use values that are
\* not there.
AssignmentValidating_computeInitialValues(o, sv, cs, q, objects) ==
    LET Holds(a)   == (\A i \in DOMAIN cs : evaluate(cs[i], a) = True) /\ evaluate(q, a) = False
        Checked(r) == CASE r.st # "ok" -> {r, Undefined(r.val, r.sv)}
                        [] r.st = "ok" /\ r.val.sat /\ ~Holds(Assignment(r.val.bindings, TRUE)) -> {Abort(NoSolution, r.sv)}
                        [] OTHER -> {r}
        out        == Core_computeInitialValues(o, sv, cs, q, objects)
    IN  IF o.assigned THEN UNION {Checked(r) : r \in out} ELSE out

\* StagedSolverImpl::computeInitialValues over FastCexSolver, if it is used.
Staged_computeInitialValues(o, sv, cs, q, objects) ==
    LET p == propogateValues(cs, q, TRUE).result
        f == FastCex_computeInitialValues(cs, q)
    IN  IF ~o.fastCex \/ p = "none" THEN AssignmentValidating_computeInitialValues(o, sv, cs, q, objects)
        ELSE IF p = "assert" THEN {Abort(NoSolution, sv)}
        ELSE {Ok(IF f.hasSolution THEN Solution([r \in objects |-> f.values[r]]) ELSE NoSolution, sv)}

\* Truth and value by way of an assignment.
Core_computeTruth(o, sv, cs, q) ==
    LET Answer(r) == {Ok(IF r.val.sat THEN "invalid" ELSE "valid", r.sv)}
    IN  Then(Core_computeInitialValues(o, sv, cs, q, {}), Answer, "none")

Core_computeValue(o, sv, cs, e) ==
    LET Evaluated(r) == IF ~r.val.sat THEN {Abort(False, r.sv)}
                        ELSE {Ok(evaluate(e, Assignment(r.val.bindings, FALSE)), r.sv)}
    IN  Then(Core_computeInitialValues(o, sv, cs, False, findSymbolicObjects(e)), Evaluated, False)

\* StagedSolverImpl: the core solver is asked what FastCexSolver leaves open.
Staged_computeTruth(o, sv, cs, q) ==
    LET p == IF o.fastCex THEN FastCex_computeTruth(cs, q) ELSE "None"
    IN  CASE p = "None"   -> Core_computeTruth(o, sv, cs, q)
          [] p = "Assert" -> {Abort("none", sv)}
          [] OTHER        -> {Ok(IF p = "MustBeTrue" THEN "valid" ELSE "invalid", sv)}

\* IncompleteSolver::computeValidity, and SolverImpl's for the core solver.
Staged_computeValidity(o, sv, cs, q) ==
    LET t == IF o.fastCex THEN FastCex_computeTruth(cs, q) ELSE "None"
        f == IF o.fastCex THEN FastCex_computeTruth(cs, negateExpr(q)) ELSE "None"
        IfTrue(r)  == {Ok(IF r.val = "valid" THEN "True" ELSE "Unknown", r.sv)}
        IfFalse(r) == {Ok(IF r.val = "valid" THEN "False" ELSE "Unknown", r.sv)}
        Both(r)    == IF r.val = "valid" THEN {Ok("True", r.sv)}
                      ELSE Then(Core_computeTruth(o, r.sv, cs, negateExpr(q)), IfFalse, "none")
    IN  IF t = "MustBeTrue" THEN {Ok("True", sv)}
        ELSE IF "Assert" \in {t, f} THEN {Abort("none", sv)}
        ELSE IF f = "MustBeTrue" THEN {Ok("False", sv)}
        ELSE IF t # "None" /\ f # "None" THEN {Ok("Unknown", sv)}
        ELSE IF t # "None" THEN Then(Core_computeTruth(o, sv, cs, negateExpr(q)), IfFalse, "none")
        ELSE IF f # "None" THEN Then(Core_computeTruth(o, sv, cs, q), IfTrue, "none")
        ELSE Then(Core_computeTruth(o, sv, cs, q), Both, "none")

Staged_computeValue(o, sv, cs, e) ==
    LET f == FastCex_computeValue(cs, e)
    IN  IF ~o.fastCex THEN Core_computeValue(o, sv, cs, e)
        ELSE IF propogateValues(cs, e, FALSE).result = "assert" THEN {Abort(False, sv)}
        ELSE IF f.ok THEN {Ok(f.value, sv)} ELSE Core_computeValue(o, sv, cs, e)

-----------------------------------------------------------------------------
(* CexCachingSolver.                                                        *)

CexKey(cs, q) == SetOf(cs) \cup (IF isConstant(q) THEN {} ELSE {negateExpr(q)})

SatisfiesKey(s, key) == \A e \in key : evaluate(e, Assignment(s.bindings, FALSE)) = True

\* MapOfSets: a map whose keys are sets.  A search returns one of the values
\* under a superset or a subset of the key that passes the test, a set of values.
lookup(m, key)             == IF key \in DOMAIN m THEN {m[key]} ELSE {}
findSuperset(m, key, test) == {m[k] : k \in {x \in DOMAIN m : key \subseteq x}} \cap test
findSubset(m, key, test)   == {m[k] : k \in {x \in DOMAIN m : x \subseteq key}} \cap test
insert(m, key, s)          == [k \in DOMAIN m \cup {key} |-> IF k = key THEN s ELSE m[k]]

NonNullAssignment(m) == {s \in {m[k] : k \in DOMAIN m} : s.sat}
NullAssignment(m)    == {s \in {m[k] : k \in DOMAIN m} : ~s.sat}
assignmentsTable(m)  == NonNullAssignment(m)

\* The solutions a lookup may return.
searchForAssignment(o, sv, key) ==
    LET NullOrSatisfyingAssignment == {s \in {sv.cex[k] : k \in DOMAIN sv.cex} : ~s.sat \/ SatisfiesKey(s, key)}
        supers == IF o.superSet THEN findSuperset(sv.cex, key, NonNullAssignment(sv.cex)) ELSE {}
        unsat  == findSubset(sv.cex, key, NullAssignment(sv.cex))
    IN  IF lookup(sv.cex, key) # {} THEN lookup(sv.cex, key)
        ELSE IF supers # {} THEN supers
        ELSE IF ~o.tryAll THEN findSubset(sv.cex, key, NullOrSatisfyingAssignment)
        ELSE IF unsat # {} THEN unsat
        ELSE {s \in assignmentsTable(sv.cex) : SatisfiesKey(s, key)}

getAssignment(o, sv, cs, q) ==
    LET key     == CexKey(cs, q)
        hits    == searchForAssignment(o, sv, key)
        objects == UNION {findSymbolicObjects(e) : e \in key}
        Remember(r) == {Ok(r.val, [r.sv EXCEPT !.cex = insert(@, key, r.val)])}
    IN  IF q = True THEN {Ok(NoSolution, sv)}
        ELSE IF hits # {} THEN {Ok(s, sv) : s \in hits}
        ELSE Then(Staged_computeInitialValues(o, sv, cs, q, objects), Remember, NoSolution)

Cex_computeTruth(o, sv, cs, q) ==
    LET Answer(r) == {Ok(IF r.val.sat THEN "invalid" ELSE "valid", r.sv)}
    IN  Then(getAssignment(o, sv, cs, q), Answer, "none")

Cex_computeValidity(o, sv, cs, q) ==
    LET Evaluated(r) ==
            LET v == evaluate(q, Assignment(r.val.bindings, FALSE))
                isTrue(s)  == {Ok(IF s.val.sat THEN "Unknown" ELSE "True", s.sv)}
                isFalse(s) == {Ok(IF s.val.sat THEN "Unknown" ELSE "False", s.sv)}
            IN  IF ~r.val.sat \/ ~isConstant(v) THEN {Abort("none", r.sv)}
                ELSE IF v = True THEN Then(getAssignment(o, r.sv, cs, q), isTrue, "none")
                ELSE Then(getAssignment(o, r.sv, cs, negateExpr(q)), isFalse, "none")
    IN  Then(getAssignment(o, sv, cs, False), Evaluated, "none")

Cex_computeValue(o, sv, cs, e) ==
    LET Evaluated(r) ==
            LET v == evaluate(e, Assignment(r.val.bindings, FALSE))
            IN  IF ~r.val.sat \/ ~isConstant(v) THEN {Abort(False, r.sv)} ELSE {Ok(v, r.sv)}
    IN  Then(getAssignment(o, sv, cs, False), Evaluated, False)

\* An array the cached assignment does not bind gets zeros.
Cex_computeInitialValues(o, sv, cs, q, objects) ==
    LET Values(r) == {Ok(IF ~r.val.sat THEN NoSolution
                         ELSE Solution([x \in objects |-> IF x \in DOMAIN r.val.bindings THEN r.val.bindings[x]
                                                          ELSE [i \in 1..Arrays[x].size |-> 0]]), r.sv)}
    IN  Then(getAssignment(o, sv, cs, q), Values, NoSolution)

\* constructSolverChain leaves the counterexample cache out on -use-cex-cache=false.
Lower_computeTruth(o, sv, cs, q) ==
    IF o.cexCache THEN Cex_computeTruth(o, sv, cs, q) ELSE Staged_computeTruth(o, sv, cs, q)
Lower_computeValidity(o, sv, cs, q) ==
    IF o.cexCache THEN Cex_computeValidity(o, sv, cs, q) ELSE Staged_computeValidity(o, sv, cs, q)
Lower_computeValue(o, sv, cs, e) ==
    IF o.cexCache THEN Cex_computeValue(o, sv, cs, e) ELSE Staged_computeValue(o, sv, cs, e)
Lower_computeInitialValues(o, sv, cs, q, objects) ==
    IF o.cexCache THEN Cex_computeInitialValues(o, sv, cs, q, objects)
    ELSE Staged_computeInitialValues(o, sv, cs, q, objects)

-----------------------------------------------------------------------------
(* CachingSolver: a query and its negation share one entry.                  *)

KindOrder == <<"Constant", "NotOptimized", "Read", "Select", "Concat", "Extract", "ZExt", "SExt",
               "Not", "Add", "Sub", "Mul", "UDiv", "SDiv", "URem", "SRem", "And", "Or", "Xor",
               "Shl", "LShr", "AShr", "Eq", "Ne", "Ult", "Ule", "Ugt", "Uge", "Slt", "Sle", "Sgt", "Sge">>
KindRank(e) == CHOOSE i \in DOMAIN KindOrder : KindOrder[i] = e.k

\* The smaller of the query and its negation, by kind and then by hash.
canonicalizeQuery(q) ==
    LET neg == negateExpr(q)
    IN  IF KindRank(q) # KindRank(neg) THEN IF KindRank(q) < KindRank(neg) THEN q ELSE neg
        ELSE CHOOSE e \in {q, neg} : TRUE

negatePartialValidity(pv) ==
    CASE pv = "MustBeTrue"  -> "MustBeFalse" [] pv = "MustBeFalse" -> "MustBeTrue"
      [] pv = "MayBeTrue"   -> "MayBeFalse"  [] pv = "MayBeFalse"  -> "MayBeTrue"
      [] OTHER -> pv

\* Mutant: the validity of the negation is not negated.
CanonicalValidityPlain(q, pv) == pv

CanonicalValidity(q, pv) == IF canonicalizeQuery(q) = q THEN pv ELSE negatePartialValidity(pv)

cacheLookup(sv, cs, q) ==
    LET entry == <<cs, canonicalizeQuery(q)>>
    IN  IF entry \in DOMAIN sv.branch THEN CanonicalValidity(q, sv.branch[entry]) ELSE "None"

\* An entry that exists is not replaced.
cacheInsert(sv, cs, q, pv) ==
    LET entry == <<cs, canonicalizeQuery(q)>>
    IN  IF entry \in DOMAIN sv.branch THEN sv
        ELSE [sv EXCEPT !.branch = [x \in DOMAIN @ \cup {entry} |->
                                       IF x = entry THEN CanonicalValidity(q, pv) ELSE @[x]]]

Caching_computeValidity(o, sv, cs, q) ==
    LET cached == cacheLookup(sv, cs, q)
        Store(val, r) == {Ok(val, cacheInsert(r.sv, cs, q, CASE val = "True"  -> "MustBeTrue"
                                                             [] val = "False" -> "MustBeFalse"
                                                             [] OTHER         -> "TrueOrFalse"))}
        IfTrue(r)  == Store(IF r.val = "valid" THEN "True" ELSE "Unknown", r)
        IfFalse(r) == Store(IF r.val = "valid" THEN "False" ELSE "Unknown", r)
        Answer(r)  == Store(r.val, r)
    IN  CASE cached = "MustBeTrue"  -> {Ok("True", sv)}
          [] cached = "MustBeFalse" -> {Ok("False", sv)}
          [] cached = "TrueOrFalse" -> {Ok("Unknown", sv)}
          [] cached = "MayBeTrue"   -> Then(Lower_computeTruth(o, sv, cs, q), IfTrue, "none")
          [] cached = "MayBeFalse"  -> Then(Lower_computeTruth(o, sv, cs, negateExpr(q)), IfFalse, "none")
          [] OTHER                  -> Then(Lower_computeValidity(o, sv, cs, q), Answer, "none")

Caching_computeTruth(o, sv, cs, q) ==
    LET cached    == cacheLookup(sv, cs, q)
        Answer(r) == {Ok(r.val, cacheInsert(r.sv, cs, q, IF r.val = "valid" THEN "MustBeTrue"
                                                         ELSE IF cached = "MayBeTrue" THEN "TrueOrFalse"
                                                         ELSE "MayBeFalse"))}
    IN  IF cached \notin {"None", "MayBeTrue"}
        THEN {Ok(IF cached = "MustBeTrue" THEN "valid" ELSE "invalid", sv)}
        ELSE Then(Lower_computeTruth(o, sv, cs, q), Answer, "none")

-----------------------------------------------------------------------------
(* IndependentSolver: only the constraints that share bytes with the query.  *)

\* IndependentElementSet: bytes read at known offsets, and arrays read at others.
IndependentElementSet(e) ==
    LET reads == {r \in findReads(e, TRUE) : ~(isConstantArray(r.v) /\ r.u = <<>>)}
        whole == {r.v : r \in {x \in reads : ~isConstant(x.kids[1])}}
    IN  [wholeObjects |-> whole,
         elements     |-> {<<r.v, r.kids[1].v>> : r \in {x \in reads : isConstant(x.kids[1]) /\ x.v \notin whole}}]

arraysOf(s)      == s.wholeObjects \cup {p[1] : p \in s.elements}
intersects(s, t) == \/ s.wholeObjects \cap arraysOf(t) # {}
                    \/ t.wholeObjects \cap arraysOf(s) # {}
                    \/ s.elements \cap t.elements # {}
join(s, t) ==
    LET whole == s.wholeObjects \cup t.wholeObjects
    IN  [wholeObjects |-> whole, elements |-> {p \in s.elements \cup t.elements : p[1] \notin whole}]

\* Rounds over the constraints not yet taken, until a round adds no byte.
RECURSIVE closeElements(_, _, _, _, _)
closeElements(elts, todo, rest, taken, done) ==
    IF todo = <<>>
    THEN IF done THEN [elts |-> elts, rest |-> rest, taken |-> taken]
         ELSE closeElements(elts, rest, <<>>, taken, TRUE)
    ELSE LET s == IndependentElementSet(todo[1])
         IN  IF ~intersects(s, elts) THEN closeElements(elts, Tail(todo), Append(rest, todo[1]), taken, done)
             ELSE closeElements(join(elts, s), Tail(todo), rest, Append(taken, todo[1]),
                                done /\ join(elts, s) = elts)

\* Mutant: a single round.
getIndependentConstraintsOnce(cs, q) ==
    LET Meets(c) == intersects(IndependentElementSet(c), IndependentElementSet(q)) IN SelectSeq(cs, Meets)

getIndependentConstraints(cs, q) == closeElements(IndependentElementSet(q), cs, <<>>, <<>>, TRUE).taken

\* The factors of the constraints, in the order of their first constraint.
RECURSIVE getAllIndependentConstraintsSets(_)
getAllIndependentConstraintsSets(cs) ==
    IF cs = <<>> THEN <<>>
    ELSE LET f == closeElements(IndependentElementSet(cs[1]), Tail(cs), <<>>, <<cs[1]>>, TRUE)
         IN  <<f>> \o getAllIndependentConstraintsSets(f.rest)

Independent_computeValidity(o, sv, cs, q) ==
    Caching_computeValidity(o, sv, getIndependentConstraints(cs, q), q)
Independent_computeTruth(o, sv, cs, q) ==
    Caching_computeTruth(o, sv, getIndependentConstraints(cs, q), q)
Independent_computeValue(o, sv, cs, e) ==
    Lower_computeValue(o, sv, getIndependentConstraints(cs, e), e)

\* Mutant: an array of two factors keeps the values of the last one.
MergeValuesWhole(known, f, values) ==
    [r \in DOMAIN known \cup DOMAIN values |-> IF r \in DOMAIN values THEN values[r] ELSE known[r]]

\* A factor's answer goes whole into an array not answered before, and byte
\* by byte into one that was.
MergeValues(known, f, values) ==
    [r \in DOMAIN known \cup DOMAIN values |->
        IF r \notin DOMAIN known THEN values[r]
        ELSE IF r \notin DOMAIN values THEN known[r]
        ELSE [i \in DOMAIN known[r] |-> IF <<r, i - 1>> \in f.elts.elements THEN values[r][i] ELSE known[r][i]]]

RECURSIVE SolveFactors(_, _, _, _)
SolveFactors(o, sv, factors, known) ==
    LET f       == factors[1]
        arrays  == arraysOf(f.elts)
        Next(r) == IF ~r.val.sat THEN {Ok(NoSolution, r.sv)}
                   ELSE SolveFactors(o, r.sv, Tail(factors), MergeValues(known, f, r.val.bindings))
    IN  IF factors = <<>> THEN {Ok(Solution(known), sv)}
        ELSE IF arrays = {} THEN SolveFactors(o, sv, Tail(factors), known)
        ELSE Then(Lower_computeInitialValues(o, sv, f.taken, False, arrays), Next, NoSolution)

\* assertCreatedPointEvaluatesToTrue checks the merged point.
Independent_computeInitialValues(o, sv, cs, objects) ==
    LET Point(r) ==
            LET values == [x \in objects |-> IF x \in DOMAIN r.val.bindings THEN r.val.bindings[x]
                                             ELSE [i \in 1..Arrays[x].size |-> 0]]
            IN  IF ~r.val.sat THEN {r}
                ELSE IF \A i \in DOMAIN cs : evaluate(cs[i], Assignment(values, TRUE)) = True
                     THEN {Ok(Solution(values), r.sv)} ELSE {Abort(NoSolution, r.sv)}
    IN  Then(SolveFactors(o, sv, getAllIndependentConstraintsSets(cs), <<>>), Point, NoSolution)

-----------------------------------------------------------------------------
(* ValidatingSolver: the chain's answer is compared with the core solver's.   *)

Oracle(o) == [o EXCEPT !.fastCex = FALSE]

\* Ask the chain, then check its outcome with Agrees.
Validated(o, S, Agrees(_), none) == IF o.validate THEN Then(S, Agrees, none) ELSE S

Validating_computeValidity(o, sv, cs, q) ==
    LET Agrees(r) == LET Same(s) == IF s.val = r.val THEN {Ok(r.val, s.sv)} ELSE {Abort("none", s.sv)}
                     IN  Then(Staged_computeValidity(Oracle(o), r.sv, cs, q), Same, "none")
    IN  Validated(o, Independent_computeValidity(o, sv, cs, q), Agrees, "none")

Validating_computeTruth(o, sv, cs, q) ==
    LET Agrees(r) == LET Same(s) == IF s.val = r.val THEN {Ok(r.val, s.sv)} ELSE {Abort("none", s.sv)}
                     IN  Then(Core_computeTruth(o, r.sv, cs, q), Same, "none")
    IN  Validated(o, Independent_computeTruth(o, sv, cs, q), Agrees, "none")

\* The value is a legal one unless the expression must differ from it.
Validating_computeValue(o, sv, cs, e) ==
    LET Agrees(r) == LET Legal(s) == IF s.val = "invalid" THEN {Ok(r.val, s.sv)} ELSE {Abort(False, s.sv)}
                     IN  Then(Core_computeTruth(o, r.sv, cs, create("Ne", e, r.val)), Legal, False)
    IN  Validated(o, Independent_computeValue(o, sv, cs, e), Agrees, False)

BindingConstraints(values) ==
    SX!SetToSeq(UNION {{create("Eq", ReadExpr_create(x, <<>>, Constant(i - 1, Int32)), Constant(values[x][i], Int8)) :
                        i \in DOMAIN values[x]} : x \in DOMAIN values})
ConjunctionOf(cs, q) == SX!FoldLeft(LAMBDA e, c : create("And", e, c), createIsZero(q), cs)

\* The bindings must imply the constraints, and no solution that cs are unsatisfiable.
Validating_computeInitialValues(o, sv, cs, objects) ==
    LET Agrees(r) ==
            LET Legal(s) == IF s.val = "valid" THEN {Ok(r.val, s.sv)} ELSE {Abort(NoSolution, s.sv)}
            IN  Then(IF r.val.sat
                     THEN Core_computeTruth(o, r.sv, BindingConstraints(r.val.bindings), ConjunctionOf(cs, False))
                     ELSE Core_computeTruth(o, r.sv, cs, False), Legal, NoSolution)
    IN  Validated(o, Independent_computeInitialValues(o, sv, cs, objects), Agrees, NoSolution)

-----------------------------------------------------------------------------
(* TimingSolver over Solver: constants need no query, expressions are first   *)
(* simplified by the constraints.                                            *)

evaluateQuery(o, sv, cs, e) ==
    LET q == simplifyExpr(cs, e)
    IN  IF isConstant(q) THEN {Ok(IF q = True THEN "True" ELSE "False", sv)}
        ELSE Validating_computeValidity(o, sv, cs, q)

mustBeTrue(o, sv, cs, e) ==
    LET q == simplifyExpr(cs, e)
    IN  IF isConstant(q) THEN {Ok(IF q = True THEN "valid" ELSE "invalid", sv)}
        ELSE Validating_computeTruth(o, sv, cs, q)

getValue(o, sv, cs, e) ==
    LET q == simplifyExpr(cs, e)
    IN  IF isConstant(q) THEN {Ok(q, sv)} ELSE Validating_computeValue(o, sv, cs, q)

\* Solver::getRange asks the chain without simplification and takes every
\* failure for an assertion: the number of useful bits, then the least and the
\* greatest value, by binary search.
Asked(S) == {IF r.st = "failed" THEN [r EXCEPT !.st = "abort"] ELSE r : r \in S}
SolverMustBeTrue(o, sv, cs, q) ==
    IF isConstant(q) THEN {Ok(IF q = True THEN "valid" ELSE "invalid", sv)}
    ELSE Asked(Validating_computeTruth(o, sv, cs, q))

\* The first n of lo .. hi that passes the test: no bit of e from n on is
\* set, e can be at most n, or e must be at most n.
RECURSIVE BinarySearch(_, _, _, _, _, _, _)
BinarySearch(o, sv, cs, e, test, lo, hi) ==
    LET mid     == lo + (hi - lo) \div 2
        n       == Constant(mid, e.w)
        atMost  == create("Ule", e, n)
        q       == CASE test = "bits" -> create("Eq", create("LShr", e, n), Constant(0, e.w))
                     [] test = "min"  -> negateExpr(atMost)
                     [] test = "max"  -> atMost
        Half(r) == IF (r.val = "valid") = (test # "min") THEN BinarySearch(o, r.sv, cs, e, test, lo, mid)
                   ELSE BinarySearch(o, r.sv, cs, e, test, mid + 1, hi)
    IN  IF lo >= hi THEN {Ok(lo, sv)} ELSE Then(SolverMustBeTrue(o, sv, cs, q), Half, 0)

getRange(o, sv, cs, e) ==
    LET Max(bits, r) == LET Pair(s) == {Ok(<<r.val, s.val>>, s.sv)}
                        IN  Then(BinarySearch(o, r.sv, cs, e, "max", r.val, 2^bits - 1), Pair, <<0, 0>>)
        Ends(b) ==
            LET FromMin(r) == Max(b.val, r)
                Zero(r) == IF r.val = "invalid" THEN FromMin(Ok(0, r.sv))
                           ELSE Then(BinarySearch(o, r.sv, cs, e, "min", 0, 2^b.val - 1), FromMin, <<0, 0>>)
            IN  Then(SolverMustBeTrue(o, b.sv, cs, negateExpr(create("Eq", e, Constant(0, e.w)))), Zero, <<0, 0>>)
        OfBool(r) == {Ok(CASE r.val = "True" -> <<1, 1>> [] r.val = "False" -> <<0, 0>> [] OTHER -> <<0, 1>>, r.sv)}
    IN  IF isConstant(e) THEN {Ok(<<e.v, e.v>>, sv)}
        ELSE IF e.w = Bool THEN Then(Asked(Validating_computeValidity(o, sv, cs, e)), OfBool, <<0, 0>>)
        ELSE Then(BinarySearch(o, sv, cs, e, "bits", 0, e.w), Ends, <<0, 0>>)

=============================================================================
