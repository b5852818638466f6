--------------------------- MODULE MetaSMTBuilder ---------------------------
(***************************************************************************)
(* MetaSMTBuilder.h: the metaSMT term of an expression under the assignment  *)
(* a.  opt is the option -solver-optimize-divides.                          *)
(***************************************************************************)
EXTENDS SolverTerms

LOCAL INSTANCE Bitwise

bvExtract(t, top, bottom) == extractBits(t, top, bottom)
bvBoolExtract(t, bit)     == bvOp("Eq", bvExtract(t, bit, bit), bvOne(1))

bvLeftShift(t, width, shift) ==
    CASE shift = 0      -> t
      [] shift >= width -> bvZero(width)
      [] OTHER          -> concatBits(extractBits(t, width - shift - 1, 0), bvZero(shift))

bvRightShift(t, width, shift) ==
    CASE shift = 0      -> t
      [] shift >= width -> bvZero(width)
      [] OTHER          -> concatBits(bvZero(shift), extractBits(t, width - 1, shift))

\* The shift operators of metaSMT, and zero beyond the width.
VarShift(k, t, shift, width) ==
    IF t.w # width \/ shift.w # width THEN IllSorted
    ELSE ite(bvOp("Ult", shift, Bv(width, width)), bvOp(k, t, shift), bvZero(width))
bvVarLeftShift(t, shift, width)       == VarShift("Shl", t, shift, width)
bvVarRightShift(t, shift, width)      == VarShift("LShr", t, shift, width)
bvVarArithRightShift(t, shift, width) == VarShift("AShr", t, shift, width)

constructAShrByConstant(t, width, shift, isSigned) ==
    CASE shift = 0      -> t
      [] shift >= width -> bvZero(width)
      [] OTHER          -> ite(isSigned, concatBits(bvMinusOne(shift), bvExtract(t, width - 1, shift)),
                               bvRightShift(t, width, shift))

constructMulByConstant(t, width, x) ==
    LET c   == ComputeMultConstants64(x, 0, 0)
        add == c.add % 2^width
        sub == c.sub % 2^width
        Sum[j \in 0..width] ==   \* the bits j .. width - 1
            IF j = width THEN bvZero(width)
            ELSE IF (add & 2^j) # 0 THEN bvOp("Add", Sum[j + 1], bvLeftShift(t, width, j))
            ELSE IF (sub & 2^j) # 0 THEN bvOp("Sub", Sum[j + 1], bvLeftShift(t, width, j))
            ELSE Sum[j + 1]
    IN  IF (add & sub) # 0 THEN IllSorted ELSE Sum[0]

constructUDivByConstant(n, d) ==
    LET c  == ComputeUDivConstants32(d)
        t1 == bvExtract(constructMulByConstant(concatBits(bvZero(Int32), n), Int64, c.mprime), Int64 - 1, Int32)
        s1 == bvVarRightShift(bvOp("Sub", n, t1), Bv(c.sh1, Int32), Int32)
    IN  bvVarRightShift(bvOp("Add", s1, t1), Bv(c.sh2, Int32), Int32)

constructSDivByConstant(n, d) ==
    LET c      == ComputeSDivConstants32(d)
        mulsh  == bvExtract(constructMulByConstant(signExtend(n, Int64), Int64,
                                                   Signed(c.mprime, Int32) % 2^Int64), Int64 - 1, Int32)
        wide   == signExtend(bvOp("Add", n, mulsh), Int64)
        shpost == bvExtract(bvVarRightShift(wide, Bv(c.shpost, Int64), Int64), Int32 - 1, 0)
        xsign  == ite(bvBoolExtract(n, Int32 - 1), bvMinusOne(Int32), bvZero(Int32))
        dsign  == Bv(c.dsign, Int32)
    IN  bvOp("Sub", bvOp("Xor", bvOp("Sub", shpost, xsign), dsign), dsign)

-----------------------------------------------------------------------------
RECURSIVE construct(_, _, _)

\* Constant ... SExt.
constructLeaf(e, a, opt) ==
    LET c(i)     == construct(e.kids[i], a, opt)
        build(x) == construct(x, a, opt)
    IN  CASE e.k = "Constant"     -> IF e.w = Bool THEN BoolTerm(e = True) ELSE Bv(e.v, e.w)
          [] e.k = "NotOptimized" -> c(1)
          [] e.k = "Select"       -> ite(c(1), c(2), c(3))
          [] e.k = "Read"         -> selectByte(e, c(1), a, [i \in DOMAIN e.u |-> [at |-> build(e.u[i][1]), val |-> build(e.u[i][2])]])
          [] e.k = "Concat"       -> concatBits(c(1), c(2))
          [] e.k = "Extract"      -> IF e.w = Bool THEN bvBoolExtract(c(1), e.v)
                                     ELSE bvExtract(c(1), e.v + e.w - 1, e.v)
          [] e.k = "ZExt" -> IF e.kids[1].w = Bool THEN ite(c(1), bvOne(e.w), bvZero(e.w))
                             ELSE concatBits(bvZero(e.w - e.kids[1].w), c(1))
          [] e.k = "SExt" -> IF e.kids[1].w = Bool THEN ite(c(1), bvMinusOne(e.w), bvZero(e.w))
                             ELSE signExtend(c(1), e.w)

\* The remainder by a power of two is computed, then overwritten by the one
\* from the fast division.
constructArithmetic(e, left, right, opt) ==
    LET r     == e.kids[2]
        bits  == indexOfSingleBit(r.v)
        power == isConstant(r) /\ isPowerOfTwo(r.v)
        fast  == isConstant(r) /\ opt /\ e.w = Int32
        quot  == constructUDivByConstant(left, r.v)
    IN  CASE e.k = "Mul" /\ isConstant(e.kids[1]) -> constructMulByConstant(right, e.w, e.kids[1].v)
          [] e.k = "UDiv" /\ power -> bvRightShift(left, e.w, bits)
          [] e.k = "UDiv" /\ ~power /\ fast -> quot
          [] e.k = "SDiv" /\ fast /\ r.v \notin {1, 2^r.w - 1} -> constructSDivByConstant(left, r.v)
          [] e.k = "URem" /\ fast -> bvOp("Sub", left, constructMulByConstant(quot, e.w, r.v))
          [] e.k = "URem" /\ power /\ ~fast -> IF bits = 0 THEN bvZero(e.w)
                                      ELSE concatBits(bvZero(e.w - bits), bvExtract(left, bits - 1, 0))
          [] OTHER -> bvOp(e.k, left, right)

constructLogic(e, left, right) ==
    CASE e.k = "Not" -> notTerm(left)
      [] OTHER -> IF e.w = Bool THEN boolOp(e.k, left, right) ELSE bvOp(e.k, left, right)

constructShift(e, left, right) ==
    LET shift == e.kids[2].v
    IN  IF isConstant(e.kids[2])
        THEN CASE e.k = "Shl"  -> bvLeftShift(left, e.w, shift)
               [] e.k = "LShr" -> bvRightShift(left, e.w, shift)
               [] e.k = "AShr" -> constructAShrByConstant(left, e.w, shift, bvBoolExtract(left, e.w - 1))
        ELSE CASE e.k = "Shl"  -> bvVarLeftShift(left, right, e.w)
               [] e.k = "LShr" -> bvVarRightShift(left, right, e.w)
               [] e.k = "AShr" -> bvVarArithRightShift(left, right, e.w)

constructCompare(e, left, right) ==
    CASE e.k # "Eq" \/ e.kids[1].w # Bool -> bvOp(e.k, left, right)
      [] e.k = "Eq" /\ e.kids[1] = True   -> right
      [] e.k = "Eq" /\ e.kids[1] = False  -> notTerm(right)
      [] OTHER -> boolOp("Eq", left, right)

construct(e, a, opt) ==
    LET left  == construct(e.kids[1], a, opt)
        right == construct(e.kids[2], a, opt)
    IN  CASE e.k \in {"Add", "Sub", "Mul"} \cup Divisions -> constructArithmetic(e, left, right, opt)
          [] e.k \in {"Not", "And", "Or", "Xor"} -> constructLogic(e, left, right)
          [] e.k \in Shifts      -> constructShift(e, left, right)
          [] e.k \in Comparisons -> constructCompare(e, left, right)
          [] OTHER               -> constructLeaf(e, a, opt)

=============================================================================
