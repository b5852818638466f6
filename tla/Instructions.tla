---------------------------- MODULE Instructions ----------------------------
(***************************************************************************)
(* The integer instructions of Executor::executeInstruction: each computes  *)
(* the expression of a register from other registers with the folding        *)
(* constructors.  reg is the last register written, val what the LLVM         *)
(* instructions say it holds under every assignment of the symbolic bytes.   *)
(* A path that divides by zero, shifts too far or reads out of bounds on      *)
(* every input has been terminated by a check before the instruction.        *)
(***************************************************************************)
EXTENDS ExprEval

CONSTANTS Inputs,     \* expressions the first register may hold
          Operands,   \* the expressions of the other operands, a sequence
          Objects,    \* a sequence of pairs of a root array and an update list
          MaxSteps    \* bound: instructions executed

VARIABLES reg, val, steps

instrVars == <<reg, val, steps>>

Meaning(e) == [a \in Assignments |-> Denote(e, a)]

InstrInit ==
    /\ reg \in Inputs
    /\ val = Meaning(reg)
    /\ steps = 0

\* Executor::bindLocal of the result e, whose values are v.
bindLocal(e, v) ==
    /\ reg' = e
    /\ val' = v
    /\ steps' = steps + 1

Executable(v) == steps < MaxSteps /\ \E a \in Assignments : v[a] # Undef

\* A binary instruction of one of the kinds K, with the register on either side.
BinaryInst(K) ==
    \E k \in K, i \in DOMAIN Operands :
        LET o == Operands[i]
            v == [a \in Assignments |-> ValueOp(k, reg.w, val[a], Denote(o, a))]
            u == [a \in Assignments |-> ValueOp(k, reg.w, Denote(o, a), val[a])]
        IN  /\ o.w = reg.w
            /\ \/ Executable(v) /\ bindLocal(create(k, reg, o), v)
               \/ Executable(u) /\ bindLocal(create(k, o, reg), u)

\* Add ... AShr.
ArithmeticInst == BinaryInst(BinaryArith)

ICmpInst == BinaryInst(Comparisons)

SelectInst ==
    \E i, j \in DOMAIN Operands :
        LET o == Operands[i]
            p == Operands[j]
            v == [a \in Assignments |-> IF val[a] = Undef THEN Undef
                     ELSE IF val[a] = 1 THEN Denote(o, a) ELSE Denote(p, a)]
            u == [a \in Assignments |-> IF Denote(o, a) = 1 THEN val[a] ELSE Denote(p, a)]
        IN  \/ /\ reg.w = Bool /\ o.w = p.w
               /\ Executable(v) /\ bindLocal(SelectExpr_create(reg, o, p), v)
            \/ /\ o.w = Bool /\ p.w = reg.w
               /\ Executable(u) /\ bindLocal(SelectExpr_create(o, reg, p), u)

TruncInst ==
    \E w \in {Bool, Int8} :
        /\ steps < MaxSteps /\ w < reg.w
        /\ bindLocal(ExtractExpr_create(reg, 0, w), [a \in Assignments |-> ZExtValue(val[a], w)])

\* ZExt and SExt; IntToPtr and PtrToInt are ZExt to any width.
ExtendInst ==
    \E k \in {"ZExt", "SExt"}, w \in {Bool, Int8, Int32} :
        /\ steps < MaxSteps
        /\ k = "SExt" => w > reg.w
        /\ bindLocal(CastExpr_create(k, reg, w),
                     [a \in Assignments |-> IF k = "ZExt" THEN ZExtValue(val[a], w)
                                            ELSE SExtValue(val[a], reg.w, w)])

\* base + sext(reg) * elementSize + offset, at pointer width (Int32 here).
GetElementPtrInst ==
    \E elementSize \in {1, 2}, offset \in {0, 1}, i \in DOMAIN Operands :
        LET base  == Operands[i]
            index == CastExpr_create("SExt", reg, Int32)
            sum   == create("Add", base, create("Mul", index, Constant(elementSize, Int32)))
        IN  /\ steps < MaxSteps /\ reg.w <= Int32 /\ base.w = Int32
            /\ bindLocal(IF offset = 0 THEN sum ELSE create("Add", sum, Constant(offset, Int32)),
                         [a \in Assignments |-> IF val[a] = Undef \/ Denote(base, a) = Undef THEN Undef
                             ELSE (Denote(base, a) + Signed(val[a], reg.w) * elementSize + offset) % 2^Int32])

\* InsertValue of o at byte offset off of the aggregate reg; InsertElement
\* builds the same value from the elements.
InsertValueInst ==
    \E i \in DOMAIN Operands, off \in 0..1 :
        LET o == Operands[i]
            lOffset == off * Int8
            rOffset == lOffset + o.w
            l == ExtractExpr_create(reg, 0, lOffset)
            r == ExtractExpr_create(reg, rOffset, reg.w - rOffset)
            e == IF lOffset > 0 /\ rOffset < reg.w THEN ConcatExpr_create(r, ConcatExpr_create(o, l))
                 ELSE IF lOffset > 0 THEN ConcatExpr_create(o, l)
                 ELSE IF rOffset < reg.w THEN ConcatExpr_create(r, o)
                 ELSE o
        IN  /\ steps < MaxSteps /\ o.w % Int8 = 0 /\ rOffset <= reg.w
            /\ bindLocal(e, [a \in Assignments |->
                   IF val[a] = Undef \/ Denote(o, a) = Undef THEN Undef
                   ELSE (val[a] % 2^lOffset) + Denote(o, a) * 2^lOffset + (val[a] \div 2^rOffset) * 2^rOffset])

InsertElementInst ==
    \E i \in DOMAIN Operands, idx \in 0..1 :
        LET o == Operands[i]
            n == reg.w \div Int8
            elems == [j \in 1..n |-> IF n - j = idx THEN o ELSE ExtractExpr_create(reg, Int8 * (n - j), Int8)]
        IN  /\ steps < MaxSteps /\ o.w = Int8 /\ reg.w % Int8 = 0 /\ idx < n
            /\ bindLocal(ConcatExpr_createN(elems), [a \in Assignments |->
                   IF val[a] = Undef \/ Denote(o, a) = Undef THEN Undef
                   ELSE LET lo == Int8 * idx
                        IN  (val[a] % 2^lo) + Denote(o, a) * 2^lo
                            + (val[a] \div 2^(lo + Int8)) * 2^(lo + Int8)])

\* ExtractValue and ExtractElement: the byte at a constant offset.
ExtractValueInst ==
    \E off \in 0..1 :
        /\ steps < MaxSteps /\ (off + 1) * Int8 <= reg.w
        /\ bindLocal(ExtractExpr_create(reg, off * Int8, Int8),
                     [a \in Assignments |-> ExtractValueOf(val[a], off * Int8, Int8)])

\* A load of one byte at the register's offset: ObjectState::read8 of a
\* symbolic or constant offset through the object's update list.
LoadInst ==
    \E i \in DOMAIN Objects :
        LET o     == Objects[i]
            index == CastExpr_create("ZExt", reg, Int32)
            v     == [a \in Assignments |-> Denote(allocRead(o[1], o[2], index), a)]
        IN  /\ reg.w = Int8 /\ Executable(v)
            /\ bindLocal(ReadExpr_create(o[1], o[2], index), v)

InstrNext ==
    \/ ArithmeticInst \/ ICmpInst \/ SelectInst \/ TruncInst \/ ExtendInst \/ GetElementPtrInst
    \/ InsertValueInst \/ InsertElementInst \/ ExtractValueInst \/ LoadInst

=============================================================================
