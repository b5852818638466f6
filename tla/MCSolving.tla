----------------------------- MODULE MCSolving -----------------------------
EXTENDS Solving

\* Array 1 holds two symbolic bytes, array 2 one; array 3 is constant.
MCArrays == << [size |-> 2, constantValues |-> <<>>],
               [size |-> 1, constantValues |-> <<>>],
               [size |-> 2, constantValues |-> <<3, 1>>] >>

\* The expressions are written as the constructors would return them.
mx == allocRead(1, <<>>, Constant(0, Int32))
my == allocRead(1, <<>>, Constant(1, Int32))
mz == allocRead(2, <<>>, Constant(0, Int32))
mbit == alloc("ZExt", Int32, <<allocExtract(mz, 0, Bool)>>)

MCConditions ==
    <<allocBinary("Eq", Constant(1, Int8), mx),
      allocBinary("Ult", mx, my),
      allocBinary("And", allocBinary("Ule", my, Constant(2, Int8)),
                         allocBinary("Eq", False, allocBinary("Eq", Constant(3, Int8), mz))),
      allocBinary("Eq", Constant(2, Int8), allocRead(1, <<>>, mbit))>>

MCTerms == <<my, allocBinary("Add", mx, mz)>>

MCPreferences == <<allocBinary("Ule", mx, Constant(0, Int8)), allocBinary("Ule", mz, Constant(1, Int8))>>

Opt(t, s, f, c, core) == [tryAll |-> t, superSet |-> s, fastCex |-> f, cexCache |-> c, core |-> core,
                          dies |-> core = "metaSMT", ignoreFailures |-> TRUE,
                          assigned |-> FALSE, validate |-> FALSE, timed |-> FALSE]
ValidatingChain(o) == [o EXCEPT !.assigned = TRUE, !.validate = TRUE]
STPChain == Opt(FALSE, FALSE, FALSE, TRUE, "stp")
Z3Chain  == Opt(TRUE, TRUE, FALSE, TRUE, "z3")

\* Two requests of every kind.
AnyTwo(o) == [opts |-> o, requests |-> <<Calls, Calls>>]

\* Two requests of every kind, the second about the first expression only.
AnyAndFirst(o) == [opts |-> o, requests |-> <<Calls, {c \in Calls : c.i <= 1}>>]

\* A fork, and two more requests, of the same side or one of each.
Siblings(o) ==
    LET Asks == [op : {"fork", "assume"}, i : {1, 3}] \cup [op : {"toUnique"}, i : {1}]
    IN  [opts |-> o, requests |-> <<{[op |-> "fork", i |-> 2]}, Asks,
                                    Asks \cup {[op |-> "getSymbolicSolution", i |-> 0]}>>]

MCPrograms == <<AnyTwo(STPChain), AnyTwo(Z3Chain), AnyAndFirst(ValidatingChain(STPChain)),
                AnyTwo(Opt(FALSE, FALSE, TRUE, FALSE, "metaSMT")),
                Siblings(STPChain), Siblings(Z3Chain)>>
=============================================================================
