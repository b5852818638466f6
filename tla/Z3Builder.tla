----------------------------- MODULE Z3Builder -----------------------------
(***************************************************************************)
(* Z3Builder.cpp: the Z3 term of an expression under the assignment a.       *)
(* Division by a constant is left to Z3, but for powers of two.              *)
(***************************************************************************)
EXTENDS SolverTerms

bvExtract(t, top, bottom) == extractBits(t, top, bottom)
bvBoolExtract(t, bit)     == bvOp("Eq", bvExtract(t, bit, bit), bvOne(1))

bvRightShift(t, shift) ==
    CASE shift = 0    -> t
      [] shift >= t.w -> bvZero(t.w)
      [] OTHER        -> concatBits(bvZero(shift), bvExtract(t, t.w - 1, shift))

bvLeftShift(t, shift) ==
    CASE shift = 0    -> t
      [] shift >= t.w -> bvZero(t.w)
      [] OTHER        -> concatBits(bvExtract(t, t.w - shift - 1, 0), bvZero(shift))

constructAShrByConstant(t, shift, isSigned) ==
    CASE shift = 0    -> t
      [] shift >= t.w -> bvZero(t.w)
      [] OTHER        -> ite(isSigned, concatBits(bvMinusOne(shift), bvExtract(t, t.w - 1, shift)),
                             bvRightShift(t, shift))

\* One case per shift amount, compared at the width of the shifted term.
ShiftCases(t, shift, last, by) ==
    LET Cases[i \in 0..t.w] == IF i = t.w THEN last
                               ELSE ite(bvOp("Eq", shift, Bv(i, t.w)), by[i], Cases[i + 1])
    IN  ite(bvOp("Ult", shift, Bv(t.w, shift.w)), Cases[0], bvZero(t.w))

bvVarLeftShift(t, shift) ==
    ShiftCases(t, shift, bvZero(t.w), [i \in 0..(t.w - 1) |-> bvLeftShift(t, i)])
bvVarRightShift(t, shift) ==
    ShiftCases(t, shift, bvZero(t.w), [i \in 0..(t.w - 1) |-> bvRightShift(t, i)])
bvVarArithRightShift(t, shift) ==
    LET by == [i \in 0..(t.w - 1) |-> constructAShrByConstant(t, i, bvBoolExtract(t, t.w - 1))]
    IN  ShiftCases(t, shift, by[t.w - 1], by)

-----------------------------------------------------------------------------
RECURSIVE construct(_, _)

\* Constant ... SExt.
constructLeaf(e, a) ==
    LET c(i)     == construct(e.kids[i], a)
        build(x) == construct(x, a)
    IN  CASE e.k = "Constant"     -> IF e.w = Bool THEN BoolTerm(e = True) ELSE Bv(e.v, e.w)
          [] e.k = "NotOptimized" -> c(1)
          [] e.k = "Read"         -> selectByte(e, c(1), a, [i \in DOMAIN e.u |-> [at |-> build(e.u[i][1]), val |-> build(e.u[i][2])]])
          [] e.k = "Select"       -> ite(c(1), c(2), c(3))
          [] e.k = "Concat"       -> concatBits(c(1), c(2))
          [] e.k = "Extract"      -> IF e.w = Bool THEN bvBoolExtract(c(1), e.v)
                                     ELSE bvExtract(c(1), e.v + e.w - 1, e.v)
          [] e.k = "ZExt" -> IF e.kids[1].w = Bool THEN ite(c(1), bvOne(e.w), bvZero(e.w))
                             ELSE concatBits(bvZero(e.w - e.kids[1].w), c(1))
          [] e.k = "SExt" -> IF e.kids[1].w = Bool THEN ite(c(1), bvMinusOne(e.w), bvZero(e.w))
                             ELSE signExtend(c(1), e.w)

constructArithmetic(e, left, right) ==
    LET r     == e.kids[2]
        bits  == indexOfSingleBit(r.v)
        power == isConstant(r) /\ isPowerOfTwo(r.v)
    IN  CASE e.k = "UDiv" /\ power -> bvRightShift(left, bits)
          [] e.k = "URem" /\ power -> IF bits = 0 THEN bvZero(e.w)
                                      ELSE concatBits(bvZero(e.w - bits), bvExtract(left, bits - 1, 0))
          [] OTHER -> bvOp(e.k, left, right)

constructLogic(e, left, right) ==
    CASE e.k = "Not" -> notTerm(left)
      [] e.k \in {"And", "Or"} -> IF e.w = Bool THEN boolOp(e.k, left, right) ELSE bvOp(e.k, left, right)
      [] e.k = "Xor" -> IF e.w = Bool THEN ite(left, notTerm(right), right) ELSE bvOp("Xor", left, right)

constructShift(e, left, right) ==
    LET shift == e.kids[2].v
    IN  IF isConstant(e.kids[2])
        THEN CASE e.k = "Shl"  -> bvLeftShift(left, shift)
               [] e.k = "LShr" -> bvRightShift(left, shift)
               [] e.k = "AShr" -> constructAShrByConstant(left, shift, bvBoolExtract(left, left.w - 1))
        ELSE CASE e.k = "Shl"  -> bvVarLeftShift(left, right)
               [] e.k = "LShr" -> bvVarRightShift(left, right)
               [] e.k = "AShr" -> bvVarArithRightShift(left, right)

\* Eq of one bit is an equivalence (iffExpr).
constructCompare(e, left, right) ==
    CASE e.k # "Eq" \/ e.kids[1].w # Bool -> bvOp(e.k, left, right)
      [] e.k = "Eq" /\ e.kids[1] = True   -> right
      [] e.k = "Eq" /\ e.kids[1] = False  -> notTerm(right)
      [] OTHER -> boolOp("Eq", left, right)

construct(e, a) ==
    LET left  == construct(e.kids[1], a)
        right == construct(e.kids[2], a)
    IN  CASE e.k \in {"Add", "Sub", "Mul"} \cup Divisions -> constructArithmetic(e, left, right)
          [] e.k \in {"Not", "And", "Or", "Xor"} -> constructLogic(e, left, right)
          [] e.k \in Shifts      -> constructShift(e, left, right)
          [] e.k \in Comparisons -> constructCompare(e, left, right)
          [] OTHER               -> constructLeaf(e, a)

=============================================================================
