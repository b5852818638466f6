---------------------------- MODULE ExprBuilder ----------------------------
(***************************************************************************)
(* The expression builders of lib/Expr/ExprBuilder.cpp that kleaver hands   *)
(* to the kquery parser.  A builder is 0 (default: allocate), 1 (constant    *)
(* folding over default) or 2 (simplifying over constant folding): a call    *)
(* on "Builder" stays on the level, a call on "Base" goes one level down.    *)
(***************************************************************************)
EXTENDS ExprEval

Builders == 0..2

ConstantNeg(c) == Constant(-c.v, c.w)

\* DefaultExprBuilder: every operation allocates its node.
DefaultBinary(k, l, r) == allocBinary(k, l, r)

RECURSIVE BuilderBinary(_, _, _, _), BuilderNot(_, _), BuilderRead(_, _, _, _)

-----------------------------------------------------------------------------
(* ConstantFoldingBuilder; c, c0, c1 are constants, x, y, z are not.         *)

\* The constant kid of a binary node, and the other kid.
HasConstantKid(e) == \E i \in 1..2 : isConstant(e.kids[i])
ConstantKid(e)    == IF isConstant(e.kids[1]) THEN e.kids[1] ELSE e.kids[2]
OtherKid(e)       == IF isConstant(e.kids[1]) THEN e.kids[2] ELSE e.kids[1]

FoldingAddConstant(c, x) ==
    CASE isZero(c) -> x
      [] ~isZero(c) /\ x.k = "Add" /\ HasConstantKid(x) ->
            BuilderBinary(1, "Add", ConstantFold("Add", c, ConstantKid(x)), OtherKid(x))
      [] ~isZero(c) /\ ConstantMinus(x) ->
            BuilderBinary(1, "Sub", ConstantFold("Add", c, x.kids[1]), x.kids[2])
      [] ~isZero(c) /\ x.k = "Sub" /\ isConstant(x.kids[2]) ->
            BuilderBinary(1, "Add", ConstantFold("Sub", c, x.kids[2]), x.kids[1])
      [] OTHER -> allocBinary("Add", c, x)

FoldingAdd(x, y) ==
    CASE x.k = "Add" -> BuilderBinary(1, "Add", x.kids[1], BuilderBinary(1, "Add", x.kids[2], y))
      [] x.k = "Sub" -> BuilderBinary(1, "Add", x.kids[1], BuilderBinary(1, "Sub", y, x.kids[2]))
      [] x.k \notin {"Add", "Sub"} /\ y.k = "Add" /\ HasConstantKid(y) ->
            BuilderBinary(1, "Add", ConstantKid(y), BuilderBinary(1, "Add", x, OtherKid(y)))
      [] x.k \notin {"Add", "Sub"} /\ ConstantMinus(y) ->
            BuilderBinary(1, "Add", y.kids[1], BuilderBinary(1, "Sub", x, y.kids[2]))
      [] x.k \notin {"Add", "Sub"} /\ y.k = "Sub" /\ isConstant(y.kids[2]) ->
            BuilderBinary(1, "Add", ConstantNeg(y.kids[2]), BuilderBinary(1, "Add", x, y.kids[1]))
      [] OTHER -> allocBinary("Add", x, y)

FoldingSubFromConstant(c, x) ==
    CASE x.k = "Add" /\ HasConstantKid(x) ->
            BuilderBinary(1, "Sub", ConstantFold("Sub", c, ConstantKid(x)), OtherKid(x))
      [] ConstantMinus(x) -> BuilderBinary(1, "Add", ConstantFold("Sub", c, x.kids[1]), x.kids[2])
      [] x.k = "Sub" /\ isConstant(x.kids[2]) ->
            BuilderBinary(1, "Sub", ConstantFold("Add", c, x.kids[2]), x.kids[1])
      [] OTHER -> allocBinary("Sub", c, x)

FoldingSub(x, y) ==
    CASE x.k = "Add" -> BuilderBinary(1, "Add", x.kids[1], BuilderBinary(1, "Sub", x.kids[2], y))
      [] x.k = "Sub" -> BuilderBinary(1, "Sub", x.kids[1], BuilderBinary(1, "Add", x.kids[2], y))
      [] x.k \notin {"Add", "Sub"} /\ y.k = "Add" /\ HasConstantKid(y) ->
            BuilderBinary(1, "Add", ConstantNeg(ConstantKid(y)), BuilderBinary(1, "Sub", x, OtherKid(y)))
      [] x.k \notin {"Add", "Sub"} /\ ConstantMinus(y) ->
            BuilderBinary(1, "Add", ConstantNeg(y.kids[1]), BuilderBinary(1, "Add", x, y.kids[2]))
      [] x.k \notin {"Add", "Sub"} /\ y.k = "Sub" /\ isConstant(y.kids[2]) ->
            BuilderBinary(1, "Add", y.kids[2], BuilderBinary(1, "Sub", x, y.kids[1]))
      [] OTHER -> allocBinary("Sub", x, y)

\* Mutant: a comparison with false taken for its operand.
FoldingWithConstantNoNot(k, c, x) ==
    IF k = "Eq" /\ c.w = Bool THEN x ELSE allocBinary(k, c, x)

\* Mul, And, Or, Xor and Eq with a constant on either side.
FoldingWithConstant(k, c, x) ==
    CASE k = "Mul" /\ isZero(c)    -> c
      [] k = "Mul" /\ c.v = 1      -> x
      [] k = "And" /\ isZero(c)    -> c
      [] k = "And" /\ isAllOnes(c) -> x
      [] k = "Or"  /\ isZero(c)    -> x
      [] k = "Or"  /\ isAllOnes(c) -> c
      [] k = "Xor" /\ isZero(c)    -> x
      [] k = "Eq"  /\ c = True     -> x
      [] k = "Eq"  /\ c = False    -> alloc("Not", Bool, <<x>>)
      [] OTHER -> allocBinary(k, c, x)

FoldingBinary(k, l, r) ==
    CASE k = "Add" -> IF isConstant(l) THEN FoldingAddConstant(l, r)
                      ELSE IF isConstant(r) THEN FoldingAddConstant(r, l) ELSE FoldingAdd(l, r)
      [] k = "Sub" -> IF isConstant(l) THEN FoldingSubFromConstant(l, r)
                      ELSE IF isConstant(r) THEN FoldingAddConstant(ConstantNeg(r), l) ELSE FoldingSub(l, r)
      [] k \in {"Mul", "And", "Or", "Xor", "Eq"} ->
                      IF isConstant(l) THEN FoldingWithConstant(k, l, r)
                      ELSE IF isConstant(r) THEN FoldingWithConstant(k, r, l) ELSE allocBinary(k, l, r)
      [] OTHER -> allocBinary(k, l, r)

-----------------------------------------------------------------------------
(* SimplifyingBuilder.                                                      *)

SimplifyingEq(l, r) ==
    LET c == IF isConstant(l) THEN l ELSE r
        x == IF isConstant(l) THEN r ELSE l
    IN  CASE ~isConstant(c) /\ l = r -> True
          [] c = True  -> x
          [] c = False -> BuilderNot(1, x)
          [] OTHER     -> BuilderBinary(1, "Eq", c, x)

\* ChainedBuilder: a call that a level does not treat goes to its base.
ChainedBinary(b, k, l, r) == BuilderBinary(b - 1, k, l, r)

SimplifyingBinary(k, l, r) ==
    CASE k = "Eq"  -> SimplifyingEq(l, r)
      [] k = "Ne"  -> BuilderNot(2, BuilderBinary(2, "Eq", l, r))
      [] k = "Ugt" -> BuilderBinary(2, "Ult", r, l)
      [] k = "Uge" -> BuilderBinary(2, "Ule", r, l)
      [] k = "Sgt" -> BuilderBinary(2, "Slt", r, l)
      [] k = "Sge" -> BuilderBinary(2, "Sle", r, l)
      [] OTHER     -> ChainedBinary(2, k, l, r)

-----------------------------------------------------------------------------
(* ConstantSpecializedExprBuilder: constants are folded before a level sees  *)
(* the call.                                                                *)

BuilderBinary(b, k, l, r) ==
    IF b = 0 THEN DefaultBinary(k, l, r)
    ELSE IF isConstant(l) /\ isConstant(r) THEN ConstantFold(k, l, r)
    ELSE IF b = 1 THEN FoldingBinary(k, l, r) ELSE SimplifyingBinary(k, l, r)

BuilderNot(b, e) ==
    IF b = 0 THEN alloc("Not", e.w, <<e>>)
    ELSE IF e.k = "Not" THEN e.kids[1]
    ELSE IF isConstant(e) THEN ConstantNot(e)
    ELSE IF b = 2 /\ e.k = "Or"
         THEN BuilderBinary(2, "And", BuilderNot(2, e.kids[1]), BuilderNot(2, e.kids[2]))
    ELSE BuilderNot(b - 1, e)

\* Roll back through the writes that miss the index.
BuilderRead(b, root, ul, index) ==
    IF b = 0 THEN allocRead(root, ul, index)
    ELSE IF ul # <<>> /\ BuilderBinary(b, "Eq", index, ul[1][1]) = False
         THEN BuilderRead(b, root, Tail(ul), index)
    ELSE BuilderRead(b - 1, root, ul, index)

BuilderSelect(b, c, t, f) ==
    IF b > 0 /\ isConstant(c) THEN IF c = True THEN t ELSE f
    ELSE alloc("Select", t.w, <<c, t, f>>)

BuilderExtract(b, e, off, w) ==
    IF b > 0 /\ isConstant(e) THEN ConstantExtract(e, off, w) ELSE allocExtract(e, off, w)

BuilderCast(b, k, e, w) ==
    IF b > 0 /\ isConstant(e) THEN IF k = "ZExt" THEN ConstantZExt(e, w) ELSE ConstantSExt(e, w)
    ELSE alloc(k, w, <<e>>)

=============================================================================
