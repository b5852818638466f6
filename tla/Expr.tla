-------------------------------- MODULE Expr --------------------------------
(***************************************************************************)
(* KLEE's expressions: the nodes of include/klee/Expr/Expr.h, the folding   *)
(* constructors of lib/Expr/Expr.cpp and the visitors that rebuild through   *)
(* them.  Widths are scaled down: a byte has Int8 bits.  A node is a record  *)
(* of its kind k, width w, value v (the value of a Constant, the offset of   *)
(* an Extract, the root array of a Read), updates u (of a Read, newest       *)
(* first, pairs of an index and a value) and kids.  Hashes are left out:     *)
(* two refs compare equal exactly when their structures are equal.           *)
(***************************************************************************)
EXTENDS Integers, Sequences, FiniteSets

LOCAL INSTANCE Bitwise

CONSTANTS Int8,          \* bits of a byte (8 in the code)
          Arrays,        \* sequence of [size, constantValues]; <<>> for a symbolic one
          ConstArrayOpt  \* the option -const-array-opt (off unless given)

ASSUME ExprAssumption ==
    /\ Int8 \in Nat \ {0}
    /\ ConstArrayOpt \in BOOLEAN
    /\ \A i \in DOMAIN Arrays :
          \/ Arrays[i].constantValues = <<>>
          \/ Len(Arrays[i].constantValues) = Arrays[i].size

Bool  == 1
Int32 == 2 * Int8

BinaryArith == {"Add", "Sub", "Mul", "UDiv", "SDiv", "URem", "SRem",
                "And", "Or", "Xor", "Shl", "LShr", "AShr"}
Comparisons == {"Eq", "Ne", "Ult", "Ule", "Ugt", "Uge", "Slt", "Sle", "Sgt", "Sge"}
Divisions   == {"UDiv", "SDiv", "URem", "SRem"}
Shifts      == {"Shl", "LShr", "AShr"}

\* What alloc returns: a node as it is, without folding.
alloc(k, w, kids) == [k |-> k, w |-> w, v |-> 0, u |-> <<>>, kids |-> kids]

Constant(v, w) == [alloc("Constant", w, <<>>) EXCEPT !.v = v % 2^w]
True  == Constant(1, Bool)
False == Constant(0, Bool)

isConstant(e) == e.k = "Constant"
isZero(e)     == isConstant(e) /\ e.v = 0
isAllOnes(e)  == isConstant(e) /\ e.v = 2^e.w - 1

allocExtract(e, off, w)    == [alloc("Extract", w, <<e>>) EXCEPT !.v = off]
allocRead(root, ul, index) == [alloc("Read", Int8, <<index>>) EXCEPT !.v = root, !.u = ul]
WidthOf(k, l) == IF k \in Comparisons THEN Bool ELSE l.w
allocBinary(k, l, r)       == alloc(k, WidthOf(k, l), <<l, r>>)

isConstantArray(root) == Arrays[root].constantValues # <<>>

-----------------------------------------------------------------------------
(* The operations of ConstantExpr, on values of width w (llvm::APInt).      *)

Signed(v, w) == IF v >= 2^(w - 1) THEN v - 2^w ELSE v
AbsOf(i)     == IF i < 0 THEN -i ELSE i
SignOf(i)    == IF i < 0 THEN -1 ELSE 1
AsBit(b)     == IF b THEN 1 ELSE 0

ConstantOp(k, w, a, b) ==
    LET sa == Signed(a, w)
        sb == Signed(b, w)
    IN  CASE k = "Add"  -> (a + b) % 2^w
          [] k = "Sub"  -> (a - b) % 2^w
          [] k = "Mul"  -> (a * b) % 2^w
          [] k = "UDiv" -> a \div b
          [] k = "URem" -> a % b
          [] k = "SDiv" -> (SignOf(sa) * SignOf(sb) * (AbsOf(sa) \div AbsOf(sb))) % 2^w
          [] k = "SRem" -> (SignOf(sa) * (AbsOf(sa) % AbsOf(sb))) % 2^w
          [] k = "And"  -> a & b
          [] k = "Or"   -> a | b
          [] k = "Xor"  -> a ^^ b
          [] k = "Shl"  -> IF b >= w THEN 0 ELSE (a * 2^b) % 2^w
          [] k = "LShr" -> IF b >= w THEN 0 ELSE a \div 2^b
          [] k = "AShr" -> (sa \div 2^(IF b >= w THEN w ELSE b)) % 2^w
          [] k = "Eq"   -> AsBit(a = b)
          [] k = "Ne"   -> AsBit(a # b)
          [] k = "Ult"  -> AsBit(a < b)
          [] k = "Ule"  -> AsBit(a <= b)
          [] k = "Ugt"  -> AsBit(a > b)
          [] k = "Uge"  -> AsBit(a >= b)
          [] k = "Slt"  -> AsBit(sa < sb)
          [] k = "Sle"  -> AsBit(sa <= sb)
          [] k = "Sgt"  -> AsBit(sa > sb)
          [] k = "Sge"  -> AsBit(sa >= sb)

ConstantFold(k, l, r)     == Constant(ConstantOp(k, l.w, l.v, r.v), WidthOf(k, l))
ConstantConcat(l, r)      == Constant(l.v * 2^r.w + r.v, l.w + r.w)
ConstantExtract(e, off, w) == Constant(Signed(e.v, e.w) \div 2^off, w)
ConstantZExt(e, w)        == Constant(e.v, w)
ConstantSExt(e, w)        == Constant(Signed(e.v, e.w), w)
ConstantNot(e)            == Constant(2^e.w - 1 - e.v, e.w)

-----------------------------------------------------------------------------
(* The folding constructors.  They call one another, so all are declared     *)
(* first.  The order of the cases is the order of the code's tests.          *)

RECURSIVE create(_, _, _), EqExpr_createPartialR(_, _), AddExpr_createPartialR(_, _),
          AddExpr_create(_, _), SubExpr_createPartialR(_, _), SubExpr_create(_, _),
          ExtractExpr_create(_, _, _), ConcatExpr_create(_, _)

createIsZero(e)         == create("Eq", e, Constant(0, e.w))
createImplies(hyp, conc) == create("Or", createIsZero(hyp), conc)

\* A sum or difference whose left kid is a constant.
ConstantPlus(e)  == e.k = "Add" /\ isConstant(e.kids[1])
ConstantMinus(e) == e.k = "Sub" /\ isConstant(e.kids[1])

XorExpr_createPartialR(cl, r) ==
    CASE isZero(cl)   -> r
      [] ~isZero(cl) /\ cl.w = Bool -> EqExpr_createPartialR(False, r)
      [] OTHER        -> allocBinary("Xor", cl, r)

AddExpr_createPartialR(cl, r) ==
    IF cl.w = Bool THEN XorExpr_createPartialR(cl, r)
    ELSE IF isZero(cl) THEN r
    ELSE IF ConstantPlus(r)  THEN create("Add", create("Add", cl, r.kids[1]), r.kids[2])
    ELSE IF ConstantMinus(r) THEN create("Sub", create("Add", cl, r.kids[1]), r.kids[2])
    ELSE allocBinary("Add", cl, r)

AddExpr_create(l, r) ==
    IF l.w = Bool THEN allocBinary("Xor", l, r)
    ELSE IF ConstantPlus(l)  THEN create("Add", l.kids[1], create("Add", l.kids[2], r))
    ELSE IF ConstantMinus(l) THEN create("Add", l.kids[1], create("Sub", r, l.kids[2]))
    ELSE IF ConstantPlus(r)  THEN create("Add", r.kids[1], create("Add", l, r.kids[2]))
    ELSE IF ConstantMinus(r) THEN create("Add", r.kids[1], create("Sub", l, r.kids[2]))
    ELSE allocBinary("Add", l, r)

SubExpr_createPartialR(cl, r) ==
    IF cl.w = Bool THEN XorExpr_createPartialR(cl, r)
    ELSE IF ConstantPlus(r)  THEN create("Sub", create("Sub", cl, r.kids[1]), r.kids[2])
    ELSE IF ConstantMinus(r) THEN create("Add", create("Sub", cl, r.kids[1]), r.kids[2])
    ELSE allocBinary("Sub", cl, r)

\* Mutant: l - cr made cr - l.
SubExpr_createPartialSwapped(l, cr) == SubExpr_createPartialR(cr, l)

SubExpr_createPartial(l, cr) ==
    AddExpr_createPartialR(ConstantFold("Sub", Constant(0, cr.w), cr), l)

SubExpr_create(l, r) ==
    IF l.w = Bool THEN allocBinary("Xor", l, r)
    ELSE IF l = r THEN Constant(0, l.w)
    ELSE IF ConstantPlus(l)  THEN create("Add", l.kids[1], create("Sub", l.kids[2], r))
    ELSE IF ConstantMinus(l) THEN create("Sub", l.kids[1], create("Add", l.kids[2], r))
    ELSE IF ConstantPlus(r)  THEN create("Sub", create("Sub", l, r.kids[2]), r.kids[1])
    ELSE IF ConstantMinus(r) THEN create("Sub", create("Add", l, r.kids[2]), r.kids[1])
    ELSE allocBinary("Sub", l, r)

AndExpr_createPartial(l, cr) ==
    CASE isAllOnes(cr) -> l
      [] isZero(cr)    -> cr
      [] OTHER         -> allocBinary("And", l, cr)

OrExpr_createPartial(l, cr) ==
    CASE isAllOnes(cr) -> cr
      [] isZero(cr)    -> l
      [] OTHER         -> allocBinary("Or", l, cr)

MulExpr_createPartialR(cl, r) ==
    CASE cl.w = Bool              -> AndExpr_createPartial(r, cl)
      [] cl.w # Bool /\ cl.v = 1  -> r
      [] cl.w # Bool /\ cl.v = 0  -> cl
      [] OTHER                    -> allocBinary("Mul", cl, r)

\* Shifts and divisions of one bit: the divisor must be 1.
BoolShiftOrDivision(k, l, r) ==
    CASE k \in {"UDiv", "SDiv", "AShr"} -> l
      [] k \in {"URem", "SRem"}         -> False
      [] k \in {"Shl", "LShr"}          -> create("And", l, createIsZero(r))

EqExpr_create(l, r) == IF l = r THEN True ELSE allocBinary("Eq", l, r)

\* cl = a read of a constant array: a disjunction over the matching indices
\* (the cap of 100 matches is above every array here).
TryConstArrayOpt(cl, rd) ==
    LET values  == Arrays[rd.v].constantValues
        index   == rd.kids[1]
        Disjunction[i \in 0..Len(values)] ==
            IF i = 0 THEN False
            ELSE IF values[i] = cl.v
                 THEN create("Or", Disjunction[i - 1],
                             create("Eq", index, Constant(i - 1, index.w)))
                 ELSE Disjunction[i - 1]
    IN  IF ~isConstantArray(rd.v) \/ rd.u # <<>> THEN EqExpr_create(cl, rd)
        ELSE Disjunction[Len(values)]

\* A constant equated with a cast: equate the operand with the truncation,
\* when extending the truncation gives the constant back.
EqOfCast(cl, r) ==
    LET src   == r.kids[1]
        trunc == ConstantZExt(cl, src.w)
        back  == IF r.k = "SExt" THEN ConstantSExt(trunc, cl.w) ELSE ConstantZExt(trunc, cl.w)
    IN  IF cl = back THEN create("Eq", src, trunc) ELSE False

EqExpr_createPartialR(cl, r) ==
    IF cl.w = Bool
    THEN CASE cl = True -> r
           [] cl = False /\ r.k = "Eq" /\ r.kids[1] = False -> r.kids[2]
           [] cl = False /\ r.k = "Or" ->
                create("And", createIsZero(r.kids[1]), createIsZero(r.kids[2]))
           [] OTHER -> EqExpr_create(cl, r)
    ELSE CASE r.k \in {"SExt", "ZExt"} -> EqOfCast(cl, r)
           [] ConstantPlus(r)  -> EqExpr_createPartialR(ConstantFold("Sub", cl, r.kids[1]), r.kids[2])
           [] ConstantMinus(r) -> EqExpr_createPartialR(ConstantFold("Sub", r.kids[1], cl), r.kids[2])
           [] r.k = "Read" /\ ConstArrayOpt -> TryConstArrayOpt(cl, r)
           [] OTHER            -> EqExpr_create(cl, r)

\* The partialL, partialR and symbolic cases of the BCREATE and CMPCREATE macros.
CreateWithConstantLeft(k, cl, r) ==
    CASE k = "Add" -> AddExpr_createPartialR(cl, r)
      [] k = "Sub" -> SubExpr_createPartialR(cl, r)
      [] k = "Mul" -> MulExpr_createPartialR(cl, r)
      [] k = "And" -> AndExpr_createPartial(r, cl)
      [] k = "Or"  -> OrExpr_createPartial(r, cl)
      [] k = "Xor" -> XorExpr_createPartialR(cl, r)
      [] k = "Eq"  -> EqExpr_createPartialR(cl, r)

CreateWithConstantRight(k, l, cr) ==
    IF k = "Sub" THEN SubExpr_createPartial(l, cr) ELSE CreateWithConstantLeft(k, cr, l)

CreateSymbolic(k, l, r) ==
    CASE k = "Add" -> AddExpr_create(l, r)
      [] k = "Sub" -> SubExpr_create(l, r)
      [] k = "Mul" -> allocBinary(IF l.w = Bool THEN "And" ELSE "Mul", l, r)
      [] k = "Eq"  -> EqExpr_create(l, r)
      [] OTHER     -> allocBinary(k, l, r)

\* Order comparisons of one bit.
BoolCompare(k, l, r) ==
    CASE k = "Ult" -> create("And", createIsZero(l), r)
      [] k = "Ule" -> create("Or", createIsZero(l), r)
      [] k = "Slt" -> create("And", l, createIsZero(r))
      [] k = "Sle" -> create("Or", l, createIsZero(r))

create(k, l, r) ==
    CASE k = "Ne"  -> create("Eq", False, create("Eq", l, r))
      [] k = "Ugt" -> create("Ult", r, l)
      [] k = "Uge" -> create("Ule", r, l)
      [] k = "Sgt" -> create("Slt", r, l)
      [] k = "Sge" -> create("Sle", r, l)
      [] k \notin {"Ne", "Ugt", "Uge", "Sgt", "Sge"} ->
            IF isConstant(l) /\ isConstant(r) THEN ConstantFold(k, l, r)
            ELSE IF k \in {"Ult", "Ule", "Slt", "Sle"}
                 THEN IF l.w = Bool THEN BoolCompare(k, l, r) ELSE allocBinary(k, l, r)
            ELSE IF k \in Divisions \cup Shifts
                 THEN IF l.w = Bool THEN BoolShiftOrDivision(k, l, r) ELSE allocBinary(k, l, r)
            ELSE IF isConstant(l) THEN CreateWithConstantLeft(k, l, r)
            ELSE IF isConstant(r) THEN CreateWithConstantRight(k, l, r)
            ELSE CreateSymbolic(k, l, r)

ConcatExpr_create(l, r) ==
    CASE isConstant(l) /\ isConstant(r) -> ConstantConcat(l, r)
      [] l.k = "Extract" /\ r.k = "Extract" /\ l.kids = r.kids /\ r.v + r.w = l.v ->
            ExtractExpr_create(l.kids[1], r.v, l.w + r.w)
      [] OTHER -> alloc("Concat", l.w + r.w, <<l, r>>)

\* createN, create4 and create8 chain to the right.
ConcatExpr_createN(kids) ==
    LET Chain[i \in 1..Len(kids)] ==
            IF i = Len(kids) THEN kids[i] ELSE ConcatExpr_create(kids[i], Chain[i + 1])
    IN  Chain[1]

ExtractExpr_create(e, off, w) ==
    IF w = e.w THEN e
    ELSE IF isConstant(e) THEN ConstantExtract(e, off, w)
    ELSE IF e.k = "Concat"
         THEN LET l == e.kids[1]
                  r == e.kids[2]
              IN  IF off >= r.w THEN ExtractExpr_create(l, off - r.w, w)
                  ELSE IF off + w <= r.w THEN ExtractExpr_create(r, off, w)
                  ELSE ConcatExpr_create(ExtractExpr_create(l, 0, w - r.w + off),
                                         ExtractExpr_create(r, off, r.w - off))
    ELSE allocExtract(e, off, w)

CastExpr_create(k, e, w) ==
    IF w = e.w THEN e
    ELSE IF w < e.w THEN ExtractExpr_create(e, 0, w)
    ELSE IF isConstant(e) THEN IF k = "ZExt" THEN ConstantZExt(e, w) ELSE ConstantSExt(e, w)
    ELSE alloc(k, w, <<e>>)

NotExpr_create(e) == IF isConstant(e) THEN ConstantNot(e) ELSE alloc("Not", e.w, <<e>>)

NotOptimizedExpr_create(e) == alloc("NotOptimized", e.w, <<e>>)

SelectExpr_create(c, t, f) ==
    IF isConstant(c) THEN IF c = True THEN t ELSE f
    ELSE IF t = f THEN t
    ELSE IF t = True  THEN create("Or", c, f)
    ELSE IF t = False THEN create("And", createIsZero(c), f)
    ELSE IF f = True  THEN create("Or", createIsZero(c), t)
    ELSE IF f = False THEN create("And", c, t)
    ELSE alloc("Select", t.w, <<c, t, f>>)

\* Read through the update list ul: skip the updates known to miss the index,
\* return the value of one known to hit it, stop at the first that may.
ReadExpr_create(root, ul, index) ==
    LET Cond(i)  == create("Eq", index, ul[i][1])
        stops    == {i \in 1..Len(ul) : Cond(i) # False}
        head     == IF stops = {} THEN Len(ul) + 1 ELSE CHOOSE i \in stops : \A j \in stops : i <= j
        inBounds == isConstant(index) /\ index.v < Arrays[root].size
    IN  IF head <= Len(ul) /\ Cond(head) = True THEN ul[head][2]
        ELSE IF head > Len(ul) /\ isConstantArray(root) /\ inBounds
             THEN Constant(Arrays[root].constantValues[index.v + 1], Int8)
        ELSE IF inBounds THEN allocRead(root, SubSeq(ul, head, Len(ul)), index)
        ELSE allocRead(root, ul, index)

\* UpdateList::extend.
extend(ul, index, value) == <<<<index, value>>>> \o ul

\* A variable of width w, the bytes of an array in little-endian order.
createTempRead(root, w) ==
    LET Byte(i) == ReadExpr_create(root, <<>>, Constant(i, Int32))
    IN  IF w = Bool THEN CastExpr_create("ZExt", Byte(0), Bool)
        ELSE ConcatExpr_createN([i \in 1..(w \div Int8) |-> Byte((w \div Int8) - i)])

\* Rebuild a node over new kids: Expr::rebuild of each class.
rebuild(e, kids) ==
    CASE e.k = "Read"         -> ReadExpr_create(e.v, e.u, kids[1])
      [] e.k = "Select"       -> SelectExpr_create(kids[1], kids[2], kids[3])
      [] e.k = "Concat"       -> ConcatExpr_create(kids[1], kids[2])
      [] e.k = "Extract"      -> ExtractExpr_create(kids[1], e.v, e.w)
      [] e.k \in {"ZExt", "SExt"} -> CastExpr_create(e.k, kids[1], e.w)
      [] e.k = "Not"          -> NotExpr_create(kids[1])
      [] e.k = "NotOptimized" -> NotOptimizedExpr_create(kids[1])
      [] e.k \in BinaryArith \cup Comparisons -> create(e.k, kids[1], kids[2])

=============================================================================
