------------------------------ MODULE ExprEval ------------------------------
(***************************************************************************)
(* What an expression denotes under an assignment of bytes to the symbolic  *)
(* arrays, and the visitors of KLEE that compute with expressions: the      *)
(* evaluator (ExprEvaluator, Assignment) and the traversals of ExprUtil.     *)
(***************************************************************************)
EXTENDS Expr

Byte           == 0..(2^Int8 - 1)
SymbolicArrays == {r \in DOMAIN Arrays : ~isConstantArray(r)}
Undef          == -1   \* no value: division by zero, overshift, read out of bounds

\* Assignments of one symbolic array each to bytes: [SymbolicArrays -> bytes].
Assignments ==
    LET longest == CHOOSE n \in {Arrays[r].size : r \in SymbolicArrays} :
                      \A r \in SymbolicArrays : Arrays[r].size <= n
        any     == [SymbolicArrays -> [1..longest -> Byte]]
    IN  {[r \in SymbolicArrays |-> SubSeq(f[r], 1, Arrays[r].size)] : f \in any}

-----------------------------------------------------------------------------
(* The reference meaning of each kind, on values.                           *)

\* An operation where the program's checks for division by zero and overshift
\* let it be executed.
ValueOp(k, w, a, b) ==
    IF \/ a = Undef \/ b = Undef
       \/ k \in Divisions /\ b = 0
       \/ k \in Shifts /\ b >= w
    THEN Undef ELSE ConstantOp(k, w, a, b)

ZExtValue(v, w)          == IF v = Undef THEN Undef ELSE v % 2^w
SExtValue(v, from, w)    == IF v = Undef THEN Undef ELSE Signed(v, from) % 2^w
ExtractValueOf(v, off, w) == IF v = Undef THEN Undef ELSE (v \div 2^off) % 2^w
ConcatValue(hi, lo, wlo) == IF hi = Undef \/ lo = Undef THEN Undef ELSE hi * 2^wlo + lo

InitialByte(root, index, a) ==
    IF index = Undef \/ index >= Arrays[root].size THEN Undef
    ELSE IF isConstantArray(root) THEN Arrays[root].constantValues[index + 1]
    ELSE a[root][index + 1]

RECURSIVE Denote(_, _)
Denote(e, a) ==
    LET d(i) == Denote(e.kids[i], a)
        Overwritten[i \in 1..(Len(e.u) + 1)] ==
            IF i > Len(e.u) THEN InitialByte(e.v, d(1), a)
            ELSE IF Denote(e.u[i][1], a) = d(1) THEN Denote(e.u[i][2], a)
            ELSE Overwritten[i + 1]
    IN  CASE e.k = "Constant"     -> e.v
          [] e.k = "Read"         -> IF d(1) = Undef THEN Undef ELSE Overwritten[1]
          [] e.k = "Select"       -> IF d(1) = Undef THEN Undef ELSE IF d(1) = 1 THEN d(2) ELSE d(3)
          [] e.k = "Concat"       -> ConcatValue(d(1), d(2), e.kids[2].w)
          [] e.k = "Extract"      -> ExtractValueOf(d(1), e.v, e.w)
          [] e.k = "ZExt"         -> ZExtValue(d(1), e.w)
          [] e.k = "SExt"         -> SExtValue(d(1), e.kids[1].w, e.w)
          [] e.k = "Not"          -> IF d(1) = Undef THEN Undef ELSE 2^e.w - 1 - d(1)
          [] e.k = "NotOptimized" -> d(1)
          [] OTHER                -> ValueOp(e.k, e.kids[1].w, d(1), d(2))

-----------------------------------------------------------------------------
(* ExprEvaluator over an Assignment: a read beyond the bound bytes stays a    *)
(* read when free values are allowed and is 0 otherwise; a division whose    *)
(* divisor becomes 0 keeps its divisor.                                      *)

Assignment(bindings, allowFreeValues) ==
    [bindings |-> bindings, allowFreeValues |-> allowFreeValues]

\* Mutant: the last byte of an array is taken for one that is not bound.
getInitialValueShort(root, index, a) ==
    IF root \in DOMAIN a.bindings /\ index + 1 < Len(a.bindings[root])
    THEN Constant(a.bindings[root][index + 1], Int8) ELSE Constant(0, Int8)

\* A byte bound to Undef is one the evaluators of FastCexSolver leave open.
getInitialValue(root, index, a) ==
    LET bound == root \in DOMAIN a.bindings /\ index < Len(a.bindings[root])
        value == IF bound THEN a.bindings[root][index + 1] ELSE Undef
    IN  IF value # Undef THEN Constant(value, Int8)
        ELSE IF a.allowFreeValues THEN ReadExpr_create(root, <<>>, Constant(index, Int32))
        ELSE Constant(0, Int8)

RECURSIVE evaluate(_, _), evalRead(_, _, _, _)
evalRead(root, ul, index, a) ==
    IF ul = <<>>
    THEN IF isConstantArray(root) /\ index < Arrays[root].size
         THEN Constant(Arrays[root].constantValues[index + 1], Int8)
         ELSE getInitialValue(root, index, a)
    ELSE LET ui == evaluate(ul[1][1], a)
         IN  CASE isConstant(ui) /\ ui.v = index -> evaluate(ul[1][2], a)
               [] isConstant(ui) /\ ui.v # index -> evalRead(root, Tail(ul), index, a)
               [] OTHER -> ReadExpr_create(root, ul, Constant(index, Int32))

protectedDivOperation(e, kids) ==
    LET divisor == IF isZero(kids[2]) THEN e.kids[2] ELSE kids[2]
    IN  IF <<kids[1], divisor>> = e.kids THEN e ELSE rebuild(e, <<kids[1], divisor>>)

evaluate(e, a) ==
    IF isConstant(e) THEN e
    ELSE IF e.k # "Read" /\ \A i \in DOMAIN e.kids : isConstant(e.kids[i]) THEN rebuild(e, e.kids)
    ELSE LET kids    == [i \in DOMAIN e.kids |-> evaluate(e.kids[i], a)]
             rebuilt == IF kids = e.kids THEN e ELSE rebuild(e, kids)
         IN  CASE e.k = "Read" /\ isConstant(kids[1]) -> evalRead(e.v, e.u, kids[1].v, a)
               [] e.k \in Divisions -> protectedDivOperation(e, kids)
               [] OTHER -> IF rebuilt.k = "NotOptimized" THEN rebuilt.kids[1] ELSE rebuilt

\* Assignment::satisfies.
satisfies(a, constraints) == \A i \in DOMAIN constraints : evaluate(constraints[i], a) = True

-----------------------------------------------------------------------------
(* ExprUtil: the reads and the symbolic arrays an expression depends on.     *)

RECURSIVE findReads(_, _)
findReads(e, visitUpdates) ==
    LET inUpdates == IF ~visitUpdates THEN {}
                     ELSE UNION {findReads(e.u[i][1], TRUE) \cup findReads(e.u[i][2], TRUE) : i \in DOMAIN e.u}
    IN  UNION {findReads(e.kids[i], visitUpdates) : i \in DOMAIN e.kids}
        \cup (IF e.k = "Read" THEN {e} \cup inUpdates ELSE {})

findSymbolicObjects(e)  == {r.v : r \in findReads(e, TRUE)} \cap SymbolicArrays
ConstantArrayFinder(e)  == {r.v : r \in findReads(e, TRUE)} \ SymbolicArrays

=============================================================================
