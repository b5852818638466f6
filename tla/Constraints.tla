---------------------------- MODULE Constraints ----------------------------
(***************************************************************************)
(* ConstraintManager (lib/Expr/Constraints.cpp): the path condition as a     *)
(* sequence of expressions, rewritten when an equality with a constant is    *)
(* added, and the simplification of expressions by what the constraints say. *)
(***************************************************************************)
EXTENDS ExprEval

\* ExprVisitor::visitActual of ExprReplaceVisitor: src becomes dst, tested
\* before and after the kids are visited.  Update lists are not entered.
RECURSIVE replaceExpr(_, _, _)
replaceExpr(e, src, dst) ==
    LET kids == [i \in DOMAIN e.kids |-> replaceExpr(e.kids[i], src, dst)]
        new  == IF kids = e.kids THEN e ELSE rebuild(e, kids)
    IN  IF isConstant(e) THEN e
        ELSE IF e = src THEN dst
        ELSE IF new = src THEN dst ELSE new

\* ExprReplaceVisitor2, which visits again what it rebuilds; eqs is a set of
\* pairs of an expression and the constant it is known to equal.
RECURSIVE replaceAll(_, _)
replaceAll(e, eqs) ==
    LET kids == [i \in DOMAIN e.kids |-> replaceAll(e.kids[i], eqs)]
        new  == IF kids = e.kids THEN e ELSE replaceAll(rebuild(e, kids), eqs)
        hits == {p \in eqs : p[1] = new}
    IN  IF isConstant(e) THEN e
        ELSE IF isConstant(new) \/ hits = {} THEN new
        ELSE (CHOOSE p \in hits : TRUE)[2]

\* Mutant: an expression known to be false is replaced by true.
EqualitiesTrue(cs) ==
    LET Fact(i) == IF cs[i].k = "Eq" /\ isConstant(cs[i].kids[1])
                   THEN <<cs[i].kids[2], IF cs[i].kids[1] = False THEN True ELSE cs[i].kids[1]>> ELSE <<cs[i], True>>
    IN  {Fact(i) : i \in DOMAIN cs}

\* The first constraint about an expression gives its value.
Equalities(cs) ==
    LET Fact(i) == IF cs[i].k = "Eq" /\ isConstant(cs[i].kids[1])
                   THEN <<cs[i].kids[2], cs[i].kids[1]>> ELSE <<cs[i], True>>
    IN  {Fact(i) : i \in {j \in DOMAIN cs : \A h \in 1..(j - 1) : Fact(h)[1] # Fact(j)[1]}}

simplifyExpr(cs, e) == IF isConstant(e) THEN e ELSE replaceAll(e, Equalities(cs))

\* A result is the new constraints and whether no assertion failed.
RECURSIVE addConstraintInternal(_, _), rewriteConstraints(_, _, _, _)
addConstraintInternal(cs, e) ==
    CASE isConstant(e) -> [cs |-> cs, ok |-> e = True]
      [] e.k = "And"   -> LET l == addConstraintInternal(cs, e.kids[1])
                          IN  IF l.ok THEN addConstraintInternal(l.cs, e.kids[2]) ELSE l
      [] e.k = "Eq" /\ isConstant(e.kids[1]) ->
            LET r == rewriteConstraints(cs, <<>>, e.kids[2], e.kids[1])
            IN  [r EXCEPT !.cs = Append(r.cs, e)]
      [] OTHER -> [cs |-> Append(cs, e), ok |-> TRUE]

\* Mutant: a constraint that the equality rewrites is not added again.
rewriteConstraintsDropping(old, new, src, dst) ==
    LET Same(e) == replaceExpr(e, src, dst) = e
    IN  [cs |-> new \o SelectSeq(old, Same), ok |-> TRUE]

\* The constraints still to visit are old, those already visited new.
rewriteConstraints(old, new, src, dst) ==
    IF old = <<>> THEN [cs |-> new, ok |-> TRUE]
    ELSE LET e == replaceExpr(old[1], src, dst)
             r == IF e # old[1] THEN addConstraintInternal(new, e)
                  ELSE [cs |-> Append(new, e), ok |-> TRUE]
         IN  IF r.ok THEN rewriteConstraints(Tail(old), r.cs, src, dst) ELSE r

addConstraint(cs, e) == addConstraintInternal(cs, simplifyExpr(cs, e))

=============================================================================
