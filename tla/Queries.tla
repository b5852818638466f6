------------------------------ MODULE Queries ------------------------------
(***************************************************************************)
(* What happens to the expression of a register when it leaves the          *)
(* executor: it is evaluated under an assignment, built as a term of a       *)
(* solver, printed as SMT-LIB, or printed in a .kquery file and parsed back  *)
(* with one of the builders.                                                 *)
(***************************************************************************)
EXTENDS Instructions, KQuery

STP     == INSTANCE STPBuilder
Z3      == INSTANCE Z3Builder
metaSMT == INSTANCE MetaSMTBuilder
SMTLIB  == INSTANCE ExprSMTLIBPrinter

\* The executor asks its solver about the register, or logs the query; the
\* bounded sequence of instructions ends there.
Ask ==
    /\ steps <= MaxSteps
    /\ steps' = MaxSteps + 1
    /\ UNCHANGED <<reg, val>>

QueriesNext == InstrNext \/ Ask

QueriesSpec == InstrInit /\ [][QueriesNext]_instrVars

-----------------------------------------------------------------------------
\* The assignments on which the instructions compute anything.
Defined == {a \in Assignments : val[a] # Undef}

\* Folding never changes a value: the expression the constructors build denotes
\* what the instructions compute, on every input on which they compute anything.
FoldingExact ==
    [][Ask => (\A a \in Defined : Denote(reg, a) = val[a])]_instrVars

\* Evaluating the expression under an assignment (as the counterexample caches
\* and the solvers' checks do) yields the constant it denotes.
EvaluatorExact ==
    [][Ask => (\A a \in Defined :
          evaluate(reg, Assignment(a, FALSE)) = Constant(val[a], reg.w))]_instrVars

\* The query KLEE logs for the register: (Query [] e) for a Boolean, and a
\* comparison with a constant otherwise.
QueryOf(e) == IF e.w = Bool THEN e ELSE create("Eq", Constant(1, e.w), e)

TermsExact(a) ==
    LET expected == [s |-> IF reg.w = Bool THEN "bool" ELSE "bv", w |-> reg.w, v |-> val[a]]
        q        == allocBinary("Eq", Constant(val[a], reg.w), reg)
    IN  /\ \A opt \in BOOLEAN : /\ STP!construct(reg, a, opt) = expected
                                /\ metaSMT!construct(reg, a, opt) = expected
        /\ Z3!construct(reg, a) = expected
        /\ SMTLIB!printQueryInSingleAssert(<<>>, q, a) = SMTLIB!BoolTerm(FALSE)

\* The term every solver is given has the sort of the expression and its value
\* (STPBuilder and MetaSMTBuilder with and without optimised divisions, and
\* Z3Builder), and the SMT-LIB query of ExprSMTLIBPrinter is asserted exactly
\* where the query is false.
SolverTermsExact == [][Ask => (\A a \in Defined : TermsExact(a))]_instrVars

RoundTrip(bld) == ParseQueryCommand(printQuery(<<>>, QueryOf(reg)), bld)

RECURSIVE Subexpressions(_)
Subexpressions(e) ==
    {e} \cup UNION {Subexpressions(e.kids[i]) : i \in DOMAIN e.kids}
        \cup UNION {Subexpressions(e.u[i][1]) \cup Subexpressions(e.u[i][2]) : i \in DOMAIN e.u}

\* Expressions the printer writes unambiguously: no Concat whose first kid is
\* a constant, and none of reads that differ in more than their index.
Printable(e) ==
    \A s \in Subexpressions(e) : s.k = "Concat" =>
        LET c == ConcatChain(s)
        IN  /\ ~isConstant(c[1])
            /\ (hasOrderedReads(s, -1) \/ hasOrderedReads(s, 1)) =>
                  \A i \in DOMAIN c : c[i].v = c[1].v /\ c[i].u = c[1].u

\* The query parses to one of the same meaning, with every builder.
ParsesBack ==
    \A bld \in Builders :
        LET r == RoundTrip(bld)
        IN  r.ok /\ \A a \in Defined : Denote(r.e.query, a) = Denote(QueryOf(reg), a)

\* A .kquery file of printable expressions parses, with every builder, to a
\* query of the same meaning (ExprPPrinter::printQuery, Parser, ExprBuilder).
KQueryRoundTrip == [][Ask => (Printable(reg) => ParsesBack)]_instrVars
=============================================================================
