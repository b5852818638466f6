------------------------------ MODULE FastCex ------------------------------
(***************************************************************************)
(* FastCexSolver.cpp and ExprRangeEvaluator.h: an incomplete solver that     *)
(* pushes ranges of values from the constraints down to the bytes.  A range  *)
(* is a pair <<min, max>> of 64-bit numbers, empty when min > max.  The       *)
(* result of a propagation is cd: what each array is known by, and whether    *)
(* no assertion of the code failed.                                          *)
(***************************************************************************)
EXTENDS ExprEval

LOCAL INSTANCE Bitwise

maxValueOfNBits(n) == 2^n - 1
Word64             == 4 * Int8    \* 64 bits: twice a pointer
Wrap64(n)          == n % 2^Word64

-----------------------------------------------------------------------------
(* ValueRange.  The bounds of And and Or follow Hacker's Delight: the highest *)
(* bit m at which an end may be moved is.                                    *)

Bits64      == {2^i : i \in 0..(Word64 - 1)}
HasBit(n, m) == (n \div m) % 2 = 1
RaiseTo(n, m) == (n \div m + 1) * m   \* (n | m) & -m, for n without bit m
LowerTo(n, m) == (n \div m) * m - 1   \* (n - m) | (m - 1), for n with bit m
Highest(S)    == CHOOSE m \in S : \A n \in S : n <= m

minOR(a, b, c, d) ==
    LET ms == {m \in Bits64 : \/ ~HasBit(a, m) /\ HasBit(c, m) /\ RaiseTo(a, m) <= b
                              \/ HasBit(a, m) /\ ~HasBit(c, m) /\ RaiseTo(c, m) <= d}
        m  == Highest(ms)
    IN  IF ms = {} THEN a | c ELSE IF HasBit(c, m) THEN RaiseTo(a, m) | c ELSE a | RaiseTo(c, m)

maxOR(a, b, c, d) ==
    LET ms == {m \in Bits64 : HasBit(b, m) /\ HasBit(d, m) /\ (LowerTo(b, m) >= a \/ LowerTo(d, m) >= c)}
        m  == Highest(ms)
    IN  IF ms = {} THEN b | d ELSE IF LowerTo(b, m) >= a THEN LowerTo(b, m) | d ELSE b | LowerTo(d, m)

minAND(a, b, c, d) ==
    LET ms == {m \in Bits64 : ~HasBit(a, m) /\ ~HasBit(c, m) /\ (RaiseTo(a, m) <= b \/ RaiseTo(c, m) <= d)}
        m  == Highest(ms)
    IN  IF ms = {} THEN a & c ELSE IF RaiseTo(a, m) <= b THEN RaiseTo(a, m) & c ELSE a & RaiseTo(c, m)

maxAND(a, b, c, d) ==
    LET ms == {m \in Bits64 : \/ HasBit(b, m) /\ ~HasBit(d, m) /\ LowerTo(b, m) >= a
                              \/ ~HasBit(b, m) /\ HasBit(d, m) /\ LowerTo(d, m) >= c}
        m  == Highest(ms)
    IN  IF ms = {} THEN b & d ELSE IF HasBit(b, m) THEN LowerTo(b, m) & d ELSE b & LowerTo(d, m)

Fixed(v)         == <<v, v>>
FullRange(w)     == <<0, maxValueOfNBits(w)>>
EmptyRange       == <<1, 0>>
isEmpty(r)       == r[1] > r[2]
isFixed(r)       == r[1] = r[2]
mustEqual(r, s)  == isFixed(r) /\ isFixed(s) /\ r = s
LeastOf(a, b)    == IF a < b THEN a ELSE b
GreatestOf(a, b) == IF a > b THEN a ELSE b

set_intersection(r, s) == <<GreatestOf(r[1], s[1]), LeastOf(r[2], s[2])>>
set_union(r, s)        == <<LeastOf(r[1], s[1]), GreatestOf(r[2], s[2])>>
mayEqual(r, s)         == ~isEmpty(set_intersection(r, s))

set_difference(r, b) ==
    CASE isEmpty(b) \/ b[1] > r[2] \/ b[2] < r[1] -> r
      [] ~(isEmpty(b) \/ b[1] > r[2] \/ b[2] < r[1]) ->
            IF b[1] <= r[1] /\ b[2] >= r[2] THEN EmptyRange
            ELSE IF b[1] <= r[1] THEN <<b[2] + 1, r[2]>> ELSE <<r[1], b[1] - 1>>

\* Both assert that neither range is empty.
binaryAnd(r, s) ==
    IF isFixed(r) /\ isFixed(s) THEN Fixed(r[1] & s[1])
    ELSE <<minAND(r[1], r[2], s[1], s[2]), maxAND(r[1], r[2], s[1], s[2])>>
binaryOr(r, s) ==
    IF isFixed(r) /\ isFixed(s) THEN Fixed(r[1] | s[1])
    ELSE <<minOR(r[1], r[2], s[1], s[2]), maxOR(r[1], r[2], s[1], s[2])>>
binaryXor(r, s) ==
    IF isFixed(r) /\ isFixed(s) THEN Fixed(r[1] ^^ s[1])
    ELSE <<0, 2 * Highest({m \in Bits64 : HasBit(r[2] | s[2], m)}) - 1>>

ShiftRight(r, bits) == <<r[1] \div 2^bits, r[2] \div 2^bits>>
concat(r, s, bits)  == binaryOr(<<Wrap64(r[1] * 2^bits), Wrap64(r[2] * 2^bits)>>, s)
extract(r, lo, hi)  == binaryAnd(ShiftRight(r, lo), Fixed(maxValueOfNBits(hi - lo)))

minSigned(r, w) == IF r[2] >= 2^(w - 1) THEN -(2^(w - 1)) ELSE r[1]
maxSigned(r, w) == IF r[1] < 2^(w - 1) /\ r[2] >= 2^(w - 1) THEN 2^(w - 1) - 1 ELSE Signed(r[2], w)

-----------------------------------------------------------------------------
(* ExprRangeEvaluator with CexRangeEvaluator's initial ranges.               *)

getInitialReadRange(root, index) ==
    IF isConstantArray(root) /\ isFixed(index) /\ index[1] < Arrays[root].size
    THEN Fixed(Arrays[root].constantValues[index[1] + 1]) ELSE FullRange(Int8)

RECURSIVE evalRange(_)
evalRange(e) ==
    LET r(i)  == evalRange(e.kids[i])
        w     == e.kids[1].w
        \* evalRead: the updates that may hit, up to the first that must
        musts == {i \in DOMAIN e.u : mustEqual(evalRange(e.u[i][1]), r(1))}
        last  == IF musts = {} THEN Len(e.u) ELSE CHOOSE i \in musts : \A j \in musts : i <= j
        joined == {EmptyRange}
                  \cup {evalRange(e.u[i][2]) : i \in {j \in 1..last : mayEqual(evalRange(e.u[j][1]), r(1))}}
                  \cup (IF musts = {} THEN {getInitialReadRange(e.v, r(1))} ELSE {})
        ordered(less, greater) == IF less THEN Fixed(1) ELSE IF greater THEN Fixed(0) ELSE FullRange(Bool)
    IN  CASE e.k = "Constant" -> Fixed(e.v)
          [] e.k = "Read"     -> <<CHOOSE n \in {x[1] : x \in joined} : \A x \in joined : n <= x[1],
                                   CHOOSE n \in {x[2] : x \in joined} : \A x \in joined : n >= x[2]>>
          [] e.k = "Select"   -> IF r(1) = Fixed(1) THEN r(2) ELSE IF r(1) = Fixed(0) THEN r(3)
                                 ELSE set_union(r(2), r(3))
          [] e.k = "Concat"   -> concat(concat(Fixed(0), r(1), Int8), r(2), Int8)
          [] e.k = "And"      -> binaryAnd(r(1), r(2))
          [] e.k = "Or"       -> binaryOr(r(1), r(2))
          [] e.k = "Xor"      -> binaryXor(r(1), r(2))
          [] e.k = "Eq"  -> ordered(mustEqual(r(1), r(2)), ~mayEqual(r(1), r(2)))
          [] e.k = "Ult" -> ordered(r(1)[2] < r(2)[1], r(1)[1] >= r(2)[2])
          [] e.k = "Ule" -> ordered(r(1)[2] <= r(2)[1], r(1)[1] > r(2)[2])
          [] e.k = "Slt" -> ordered(maxSigned(r(1), w) < minSigned(r(2), w), minSigned(r(1), w) >= maxSigned(r(2), w))
          [] e.k = "Sle" -> ordered(maxSigned(r(1), w) <= minSigned(r(2), w), minSigned(r(1), w) > maxSigned(r(2), w))
          [] OTHER -> FullRange(e.w)

-----------------------------------------------------------------------------
(* CexData: the arrays met, with the possible and the exact ranges of their   *)
(* bytes, and ok until an assertion fails.                                   *)

NoCexData == [objects |-> {}, ok |-> TRUE,
              possible |-> [r \in DOMAIN Arrays |-> [i \in 1..Arrays[r].size |-> FullRange(Int8)]],
              exact    |-> [r \in DOMAIN Arrays |-> [i \in 1..Arrays[r].size |-> FullRange(Int8)]]]

getObjectData(cd, root) == [cd EXCEPT !.objects = @ \cup {root}]
AssertFails(cd)         == [cd EXCEPT !.ok = FALSE]

RECURSIVE propogatePossibleValues(_, _, _)
propogatePossibleValue(cd, e, v) == propogatePossibleValues(cd, e, Fixed(v))

PossibleRead(cd, e, r) ==
    LET index == e.kids[1].v + 1
        both  == set_intersection(cd.possible[e.v][index], r)
        new   == IF isFixed(r) THEN Fixed(r[1] % 2^Int8) ELSE both
    IN  IF isConstant(e.kids[1]) /\ index <= Arrays[e.v].size /\ ~isEmpty(new)
        THEN [getObjectData(cd, e.v) EXCEPT !.possible[e.v][index] = new]
        ELSE getObjectData(cd, e.v)

\* And made false, or Or made true: force the left side, then the right one
\* unless the left must be 1.  The other way both sides are forced.
PossibleLogical(cd, e, v) ==
    LET weak    == IF e.k = "And" THEN 0 ELSE 1   \* the value one side can give alone
        l       == evalRange(e.kids[1])
        r       == evalRange(e.kids[2])
        forced  == propogatePossibleValue(cd, e.kids[1], v)
        left    == IF l = Fixed(v) THEN cd ELSE forced
    IN  IF v = weak
        THEN IF l = Fixed(v) \/ r = Fixed(v) THEN cd
             ELSE IF l = Fixed(1) THEN forced ELSE propogatePossibleValue(forced, e.kids[2], v)
        ELSE IF r = Fixed(v) THEN left ELSE propogatePossibleValue(left, e.kids[2], v)

\* Ult and Ule made v, when one side is known.
PossibleOrder(cd, e, v) ==
    LET l   == evalRange(e.kids[1])
        r   == evalRange(e.kids[2])
        top == maxValueOfNBits(e.kids[2].w)
        strict == IF (e.k = "Ult") = (v = 1) THEN 1 ELSE 0
    IN  IF isFixed(l)
        THEN propogatePossibleValues(cd, e.kids[2],
                IF v = 1 THEN <<l[1] + strict, top>> ELSE <<0, Wrap64(l[1] - strict)>>)
        ELSE IF isFixed(r)
        THEN propogatePossibleValues(cd, e.kids[1],
                IF v = 1 THEN <<0, Wrap64(r[1] - strict)>> ELSE <<r[1] + strict, top>>)
        ELSE cd

propogatePossibleValues(cd, e, r) ==
    LET src == e.kids[1]
        minus(n) == ConstantOp("Sub", e.w, n % 2^e.w, src.v)
    IN  CASE ~cd.ok -> cd
          [] cd.ok /\ e.k = "Read" -> PossibleRead(cd, e, r)
          [] cd.ok /\ e.k = "Select" ->
                LET c == evalRange(src)
                    t == propogatePossibleValues(cd, e.kids[2], r)
                IN  IF c = Fixed(1) THEN t
                    ELSE propogatePossibleValues(IF c = Fixed(0) THEN cd ELSE t, e.kids[3], r)
          [] cd.ok /\ e.k = "Concat" ->
                LET low == e.kids[2].w   \* the code takes it for the width of both kids
                IN  IF isEmpty(r) THEN AssertFails(cd)
                    ELSE propogatePossibleValues(propogatePossibleValues(cd, src, extract(r, low, 2 * low)),
                                                 e.kids[2], extract(r, 0, low))
          [] cd.ok /\ e.k = "ZExt" -> propogatePossibleValues(cd, src, set_intersection(r, FullRange(src.w)))
          [] cd.ok /\ e.k = "SExt" ->
                LET output == set_difference(r, <<2^(src.w - 1), maxValueOfNBits(e.w) - maxValueOfNBits(src.w - 1) - 1>>)
                IN  IF isEmpty(output) THEN AssertFails(cd)
                    ELSE propogatePossibleValues(cd, src, binaryAnd(output, Fixed(maxValueOfNBits(src.w))))
          [] cd.ok /\ ConstantPlus(e) ->
                IF isEmpty(r) \/ minus(r[1]) > minus(r[2]) THEN cd
                ELSE propogatePossibleValues(cd, e.kids[2], <<minus(r[1]), minus(r[2])>>)
          [] cd.ok /\ isFixed(r) /\ e.k \in {"And", "Or"} /\ e.w = Bool -> PossibleLogical(cd, e, r[1])
          [] cd.ok /\ isFixed(r) /\ e.k = "Eq" /\ isConstant(src) ->
                propogatePossibleValues(cd, e.kids[2],
                    IF r[1] # 0 THEN Fixed(src.v)
                    ELSE IF src.v = 0 THEN <<1, maxValueOfNBits(src.w)>> ELSE <<0, src.v - 1>>)
          [] cd.ok /\ isFixed(r) /\ e.k = "Not" /\ e.w = Bool -> propogatePossibleValue(cd, src, 1 - r[1])
          [] cd.ok /\ isFixed(r) /\ e.k \in {"Ult", "Ule"} -> PossibleOrder(cd, e, r[1])
          [] OTHER -> cd

\* The exact ranges shrink only by what a constraint implies.  Reads of the
\* initial array assert that the new range meets the old one.
RECURSIVE propogateExactValues(_, _, _)
ExactRead(cd, e, r) ==
    LET index  == evalRange(e.kids[1])
        hits   == {i \in DOMAIN e.u : mayEqual(evalRange(e.u[i][1]), index)}
        first  == CHOOSE i \in hits : \A j \in hits : i <= j
        known  == mustEqual(evalRange(e.u[first][1]), index) \/ e.kids[1] = e.u[first][1]
        old    == cd.exact[e.v][index[1] + 1]
        met    == getObjectData(cd, e.v)
    IN  IF hits # {} THEN IF known THEN propogateExactValues(met, e.u[first][2], r) ELSE met
        ELSE IF ~isFixed(index) \/ isConstantArray(e.v) THEN met
        ELSE IF isEmpty(set_intersection(r, old)) THEN AssertFails(met)
        ELSE [met EXCEPT !.exact[e.v][index[1] + 1] = set_intersection(r, old)]

propogateExactValues(cd, e, r) ==
    CASE ~cd.ok -> cd
      [] cd.ok /\ e.k = "Read" -> ExactRead(cd, e, r)
      [] cd.ok /\ e.k = "Eq" /\ isFixed(r) /\ isConstant(e.kids[1]) ->
            IF r[1] # 0 THEN propogateExactValues(cd, e.kids[2], Fixed(e.kids[1].v))
            ELSE IF e.kids[2].w = Bool THEN propogateExactValues(cd, e.kids[2], Fixed(1 - e.kids[1].v))
            ELSE cd
      [] cd.ok /\ e.k = "Not" /\ e.w = Bool /\ isFixed(r) -> propogateExactValues(cd, e.kids[1], Fixed(1 - r[1]))
      [] OTHER -> cd

\* CexPossibleEvaluator and CexExactEvaluator: the middle of the possible
\* range (of all bytes for an array not met), and a byte only when it is known.
getPossibleValue(cd, root, i) ==
    LET r == IF root \in cd.objects THEN cd.possible[root][i] ELSE FullRange(Int8)
    IN  r[1] + (r[2] - r[1]) \div 2

PossibleBindings(cd) == [r \in SymbolicArrays |-> [i \in 1..Arrays[r].size |-> getPossibleValue(cd, r, i)]]

evaluatePossible(cd, e) == evaluate(e, Assignment(PossibleBindings(cd), TRUE))
evaluateExact(cd, e) ==
    evaluate(e, Assignment([r \in SymbolicArrays \cap cd.objects |->
        [i \in 1..Arrays[r].size |-> IF isFixed(cd.exact[r][i]) THEN cd.exact[r][i][1] ELSE Undef]], TRUE))

-----------------------------------------------------------------------------
(* propogateValues of the constraints cs and, if checkExpr, of the query q    *)
(* made false: "valid", "invalid" (an assignment was found) or "none".        *)

propogateValues(cs, q, checkExpr) ==
    LET Push(cd, e, v) == LET p == propogatePossibleValue(cd, e, v)
                          IN  IF p.ok THEN propogateExactValues(p, e, Fixed(v)) ELSE p
        Pushed[i \in 0..Len(cs)] == IF i = 0 THEN NoCexData ELSE Push(Pushed[i - 1], cs[i], 1)
        cd    == IF checkExpr THEN Push(Pushed[Len(cs)], q, 0) ELSE Pushed[Len(cs)]
        proved == \/ checkExpr /\ evaluateExact(cd, q) = True
                  \/ \E i \in DOMAIN cs : evaluateExact(cd, cs[i]) = False
        found == /\ checkExpr => evaluatePossible(cd, q) = False
                 /\ \A i \in DOMAIN cs : evaluatePossible(cd, cs[i]) = True
    IN  [cd |-> cd, result |-> IF ~cd.ok THEN "assert" ELSE IF proved THEN "valid"
                               ELSE IF found THEN "invalid" ELSE "none"]

FastCex_computeTruth(cs, q) ==
    LET p == propogateValues(cs, q, TRUE).result
    IN  CASE p = "valid" -> "MustBeTrue" [] p = "invalid" -> "MayBeFalse"
          [] p = "assert" -> "Assert" [] OTHER -> "None"

\* The value of the expression under the assignment found; False when none.
FastCex_computeValue(cs, q) ==
    LET p == propogateValues(cs, q, FALSE)
        v == evaluatePossible(p.cd, q)
    IN  [ok |-> p.result = "invalid" /\ isConstant(v), value |-> v]

\* computeInitialValues: whether it answers, has a solution, and the values.
FastCex_computeInitialValues(cs, q) ==
    LET p == propogateValues(cs, q, TRUE)
    IN  [ok |-> p.result \in {"valid", "invalid"}, hasSolution |-> p.result = "invalid",
         values |-> PossibleBindings(p.cd)]

=============================================================================
