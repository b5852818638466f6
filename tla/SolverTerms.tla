---------------------------- MODULE SolverTerms ----------------------------
(***************************************************************************)
(* What the builders of solver terms share: the terms, as the solvers'       *)
(* interfaces make them, and ConstantDivision.cpp.  A term is its value under *)
(* an assignment with its sort, so what is kept of a builder is the choice   *)
(* of operators and the sorts, which a solver rejects when they do not match. *)
(* Caches of terms already built, and the chunking of constants wider than   *)
(* 64 bits, are left out.                                                    *)
(***************************************************************************)
EXTENDS ExprEval

LOCAL INSTANCE Bitwise

Int64 == 2 * Int32

-----------------------------------------------------------------------------
(* Terms of the solvers: booleans, bit vectors, and the error of a term      *)
(* whose arguments have the wrong sort.                                     *)

Bv(v, w)     == [s |-> "bv", w |-> w, v |-> v % 2^w]
BoolTerm(b)  == [s |-> "bool", w |-> 1, v |-> AsBit(b)]
IllSorted    == [s |-> "error", w |-> 0, v |-> 0]

bvZero(w)     == Bv(0, w)
bvOne(w)      == Bv(1, w)
bvMinusOne(w) == Bv(-1, w)

\* Division by zero is left to the solver: 0 here.
bvOp(k, l, r) ==
    IF l.s # "bv" \/ r.s # "bv" \/ l.w # r.w THEN IllSorted
    ELSE LET v == IF k \in Divisions /\ r.v = 0 THEN 0 ELSE ConstantOp(k, l.w, l.v, r.v)
         IN  IF k \in Comparisons THEN BoolTerm(v = 1) ELSE Bv(v, l.w)

boolOp(k, l, r) ==
    IF l.s # "bool" \/ r.s # "bool" THEN IllSorted ELSE BoolTerm(ConstantOp(k, 1, l.v, r.v) = 1)

notTerm(t)        == IF t.s = "bool" THEN BoolTerm(t.v = 0) ELSE IF t.s = "bv" THEN Bv(-1 - t.v, t.w) ELSE t
extractBits(t, top, bottom) ==
    IF t.s # "bv" \/ top >= t.w \/ bottom > top THEN IllSorted ELSE Bv(t.v \div 2^bottom, top - bottom + 1)
concatBits(l, r)  == IF l.s # "bv" \/ r.s # "bv" THEN IllSorted ELSE Bv(l.v * 2^r.w + r.v, l.w + r.w)
signExtend(t, w) == IF t.s # "bv" THEN IllSorted ELSE Bv(Signed(t.v, t.w), w)
ite(c, t, f)      == IF c.s # "bool" \/ t.s # f.s \/ t.w # f.w THEN IllSorted ELSE IF c.v = 1 THEN t ELSE f

-----------------------------------------------------------------------------
(* An array term at an index: the stores of its update list, newest first,   *)
(* over the initial bytes.                                                   *)

selectByte(e, index, a, stores) ==
    LET Stored[i \in 1..(Len(e.u) + 1)] ==
            IF i > Len(e.u)
            THEN LET byte == InitialByte(e.v, index.v, a) IN IF byte = Undef THEN Bv(0, Int8) ELSE Bv(byte, Int8)
            ELSE IF stores[i].at = index THEN stores[i].val
            ELSE Stored[i + 1]
    IN  IF index.s # "bv" \/ index.w # Int32 THEN IllSorted ELSE Stored[1]

-----------------------------------------------------------------------------
(* ConstantDivision: multiplication and division by a constant.  The word     *)
(* of 32 bits has Int32 bits here, and the one of 64 has Int64.               *)

LowestBit(x)    == IF x = 0 THEN 0 ELSE CHOOSE p \in {2^i : i \in 0..Int64} : x % (2 * p) = p
isPowerOfTwo(x) == x # 0 /\ LowestBit(x) = x
indexOfSingleBit(x) == CHOOSE i \in 0..Int64 : 2^i = x
ActiveBits(n) == CHOOSE b \in 0..n : 2^b > n /\ \A c \in 0..(b - 1) : 2^c <= n
LOG2_CEIL(x)    == ActiveBits((x - 1) % 2^Int32)

\* Runs of ones from the lowest up: a single bit is added, a longer run adds
\* the bit above it and subtracts its lowest bit, or, when the bit below the
\* run is one that was to be added, subtracts that instead.
RECURSIVE ComputeMultConstants64(_, _, _)
ComputeMultConstants64(x, add, sub) ==
    LET lowbit == LowestBit(x)
        below  == lowbit \div 2
        p      == (x + lowbit) % 2^Int64
        q      == LowestBit(p)
        merge  == (add & below) # 0
        add1   == (IF merge THEN add ^^ below ELSE add) + q
        sub1   == IF merge THEN sub ^^ below ELSE sub | lowbit
    IN  IF x = 0 THEN [add |-> add, sub |-> sub]
        ELSE IF q = (2 * lowbit) % 2^Int64 THEN ComputeMultConstants64(p - q, add | lowbit, sub)
        ELSE ComputeMultConstants64(p - q, add1, sub1)

\* Mutant: the second shift one too far.
ComputeUDivConstants32Far(d) ==
    LET l == LOG2_CEIL(d)
    IN  [mprime |-> ((2^Int32 * ((2^l - d) % 2^Int32)) \div d + 1) % 2^Int32,
         sh1    |-> IF l < 1 THEN l ELSE 1, sh2 |-> l]

ComputeUDivConstants32(d) ==
    LET l   == LOG2_CEIL(d)
        mid == (2^l - d) % 2^Int32
    IN  [mprime |-> ((2^Int32 * mid) \div d + 1) % 2^Int32,
         sh1    |-> IF l < 1 THEN l ELSE 1,
         sh2    |-> IF l < 1 THEN 0 ELSE l - 1]

ComputeSDivConstants32(d) ==
    LET absd == AbsOf(Signed(d, Int32))
        l    == IF absd = 2^(Int32 - 1) THEN Int32 - 1
                ELSE IF LOG2_CEIL(absd) > 1 THEN LOG2_CEIL(absd) ELSE 1
    IN  [mprime |-> ((2^Int32 * 2^(l - 1)) \div absd + 1 - 2^Int32) % 2^Int32,
         dsign  |-> IF Signed(d, Int32) < 0 THEN 2^Int32 - 1 ELSE 0,
         shpost |-> l - 1]

=============================================================================
