------------------------- MODULE ExprSMTLIBPrinter -------------------------
(***************************************************************************)
(* ExprSMTLIBPrinter.cpp: the SMT-LIB text of a query, as the term it means  *)
(* under the assignment a.  Every subexpression is printed at the sort its   *)
(* parent expects, with a cast where its own sort differs; expressions met   *)
(* twice are bound by nested lets, level by level (-smtlib-abbreviation-mode  *)
(* =let, the default).  env maps the expressions bound so far to their terms. *)
(***************************************************************************)
EXTENDS SolverTerms

\* What scan has met: expressions, arrays, and those met twice.
NothingScanned == [seenExprs |-> {}, usedArrays |-> {}, bindings |-> {}]

Updates(e) == [i \in 1..(2 * Len(e.u)) |-> e.u[(i + 1) \div 2][2 - (i % 2)]]

\* The updates of a read are scanned the first time its array is met.
RECURSIVE scan(_, _), scanAll(_, _)
scan(s, e) ==
    LET seen    == [s EXCEPT !.seenExprs = @ \cup {e}]
        updates == IF e.k # "Read" \/ e.v \in s.usedArrays THEN seen
                   ELSE scanAll([seen EXCEPT !.usedArrays = @ \cup {e.v}], Updates(e))
    IN  IF isConstant(e) THEN s
        ELSE IF e \in s.seenExprs THEN [s EXCEPT !.bindings = @ \cup {e}]
        ELSE scanAll(updates, e.kids)
scanAll(s, es) == IF es = <<>> THEN s ELSE scanAll(scan(s, es[1]), Tail(es))

\* usesSubExprMap: the bindings below e that no other binding hides.
RECURSIVE usesSubExpr(_, _)
usesSubExpr(e, bindings) ==
    LET Below(k) == IF k \in bindings THEN {k} ELSE usesSubExpr(k, bindings)
    IN  UNION {Below(e.kids[i]) : i \in {j \in DOMAIN e.kids : ~isConstant(e.kids[j])}}

\* orderedBindings: a level holds the bindings whose uses are on earlier levels.
RECURSIVE scanBindingExprDeps(_, _)
scanBindingExprDeps(bindings, placed) ==
    LET level == {e \in bindings \ placed : usesSubExpr(e, bindings) \subseteq placed}
    IN  IF level = {} THEN <<>> ELSE <<level>> \o scanBindingExprDeps(bindings, placed \cup level)

RECURSIVE getSort(_)
getSort(e) ==
    IF e.k = "NotOptimized" THEN getSort(e.kids[1])
    ELSE IF e.k \in Comparisons THEN "bool"
    ELSE IF e.k \in {"Constant", "And", "Or", "Xor", "Not"} /\ e.w = Bool THEN "bool" ELSE "bv"

-----------------------------------------------------------------------------
RECURSIVE printExpression(_, _, _, _)

printConstant(e) == IF e.w = Bool THEN BoolTerm(e = True) ELSE Bv(e.v, e.w)

printReadExpr(e, a, env) ==
    LET build(x) == printExpression(x, "bv", a, env)   \* printUpdatesAndArray
    IN  selectByte(e, build(e.kids[1]), a, [i \in DOMAIN e.u |-> [at |-> build(e.u[i][1]), val |-> build(e.u[i][2])]])

printExtractExpr(e, kid) == extractBits(kid, e.v + e.w - 1, e.v)

printCastExpr(e, kid) ==
    LET numExtraBits == e.w - e.kids[1].w
    IN  IF e.k = "ZExt" THEN concatBits(bvZero(numExtraBits), kid) ELSE signExtend(kid, kid.w + numExtraBits)

\* bvashr differs from AShr beyond the width.
printAShrExpr(value, amount) ==
    ite(bvOp("Uge", amount, Bv(value.w, value.w)), bvZero(value.w), bvOp("AShr", value, amount))

printSelectExpr(e, s, a, env) ==
    ite(printExpression(e.kids[1], "bool", a, env), printExpression(e.kids[2], s, a, env),
        printExpression(e.kids[3], s, a, env))

\* The operator getSMTLIBKeyword names, on arguments of sort s.
printSortArgsExpr(e, s, a, env) ==
    LET kid(i) == printExpression(e.kids[i], s, a, env)
    IN  CASE e.k = "Concat" -> concatBits(kid(1), kid(2))
          [] e.k \in {"Eq", "Ne"} /\ s = "bool" -> boolOp(e.k, kid(1), kid(2))
          [] OTHER -> bvOp(e.k, kid(1), kid(2))

printLogicalOrBitVectorExpr(e, s, a, env) ==
    LET kid(i) == printExpression(e.kids[i], s, a, env)
    IN  CASE e.k = "Not" -> notTerm(kid(1))
          [] e.k # "Not" /\ s = "bv" -> bvOp(e.k, kid(1), kid(2))
          [] e.k # "Not" /\ s = "bool" -> boolOp(e.k, kid(1), kid(2))

printFullExpression(e, s, a, env) ==
    LET bv(i) == printExpression(e.kids[i], "bv", a, env)
    IN  CASE e.k = "Constant"     -> printConstant(e)
          [] e.k = "NotOptimized" -> printExpression(e.kids[1], s, a, env)
          [] e.k = "Read"         -> printReadExpr(e, a, env)
          [] e.k = "Extract"      -> printExtractExpr(e, bv(1))
          [] e.k \in {"ZExt", "SExt"} -> printCastExpr(e, bv(1))
          [] e.k = "Select"       -> printSelectExpr(e, s, a, env)
          [] e.k \in {"Eq", "Ne"} -> printSortArgsExpr(e, getSort(e.kids[1]), a, env)
          [] e.k \in {"And", "Or", "Xor", "Not"} -> printLogicalOrBitVectorExpr(e, s, a, env)
          [] e.k = "AShr"         -> printAShrExpr(bv(1), bv(2))
          [] OTHER                -> printSortArgsExpr(e, "bv", a, env)

printCastToSort(e, s, a, env) ==
    IF s = "bv" THEN ite(printExpression(e, "bool", a, env), bvOne(1), bvZero(1))
    ELSE bvOp("Ugt", printExpression(e, "bv", a, env), bvZero(e.w))

printExpression(e, s, a, env) ==
    IF getSort(e) # s THEN printCastToSort(e, s, a, env)
    ELSE IF e \in DOMAIN env THEN env[e]
    ELSE printFullExpression(e, s, a, env)

\* The lets of the levels around the asserted expression.
printAssert(e, levels, a) ==
    LET Bound[i \in 0..Len(levels)] ==
            IF i = 0 THEN <<>>
            ELSE [x \in DOMAIN Bound[i - 1] \cup levels[i] |->
                     IF x \in levels[i] THEN printExpression(x, getSort(x), a, Bound[i - 1])
                     ELSE Bound[i - 1][x]]
    IN  printExpression(e, "bool", a, Bound[Len(levels)])

\* generateOutput: the constraints and the negated query in one assertion.
printQueryInSingleAssert(cs, q, a) ==
    LET levels == scanBindingExprDeps(scanAll(NothingScanned, Append(cs, q)).bindings, {})
        Conj[i \in 0..Len(cs)] == IF i = 0 THEN createIsZero(q) ELSE create("And", Conj[i - 1], cs[i])
    IN  printAssert(Conj[Len(cs)], levels, a)

=============================================================================
