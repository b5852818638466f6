------------------------------- MODULE MCMemory -------------------------------
(* A program with four inputs x: a byte of it is x % 2 or x \div 2.           *)
EXTENDS Memory

MCInputs == 0 .. 3
Sym(f(_)) == [const |-> FALSE, at |-> [x \in MCInputs |-> f(x)]]
Num(v)    == [const |-> TRUE, at |-> [x \in MCInputs |-> v]]
Low       == Sym(LAMBDA x : x % 2)
High      == Sym(LAMBDA x : x \div 2)

Object(base, size, readOnly, isGlobal) ==
    [base |-> base, size |-> size, readOnly |-> readOnly, isGlobal |-> isGlobal]

\* errno, a global, a read-only global; then six heap objects in any order.
MCLayouts ==
    <<[objects |-> <<Object(4, 2, FALSE, TRUE), Object(1, 1, FALSE, TRUE), Object(8, 1, TRUE, TRUE)>>,
       anyOrder |-> FALSE, limited |-> FALSE, maxOps |-> 3],
      [objects |-> <<Object(4, 2, FALSE, TRUE), Object(1, 1, FALSE, TRUE), Object(8, 1, TRUE, TRUE)>>,
       anyOrder |-> FALSE, limited |-> TRUE, maxOps |-> 2],
      [objects |-> <<Object(4, 1, FALSE, FALSE), Object(6, 1, FALSE, FALSE), Object(8, 1, FALSE, FALSE),
                     Object(10, 1, FALSE, FALSE), Object(12, 1, FALSE, FALSE), Object(14, 1, FALSE, FALSE)>>,
       anyOrder |-> TRUE, limited |-> FALSE, maxOps |-> 1]>>

Inside    == Sym(LAMBDA x : 4 + (x % 2))                      \* in the global
Spread    == Sym(LAMBDA x : IF x < 2 THEN 4 + x ELSE IF x = 2 THEN 8 ELSE 12)
NullOr12  == Sym(LAMBDA x : IF x % 2 = 0 THEN 0 ELSE 12)

Load1(a, n)  == [addr |-> a, bytes |-> n]
Store1(a, v) == [addr |-> a, value |-> v]

MCLoads  == <<Load1(Num(4), 2), Load1(Inside, 1), Load1(Spread, 1), Load1(Inside, 2)>>
MCStores == <<Store1(Num(4), <<Low, Num(2)>>), Store1(Inside, <<High>>), Store1(Spread, <<Num(1)>>),
              Store1(Num(1), <<High>>), Store1(Num(5), <<Num(1)>>), Store1(NullOr12, <<High>>)>>
MCAllocs == <<[kind |-> "alloca", size |-> Num(1)], [kind |-> "calloc", size |-> Sym(LAMBDA x : 1 + (x % 2))],
              [kind |-> "malloc", size |-> Sym(LAMBDA x : x)]>>
MCReallocs == <<[addr |-> NullOr12, size |-> Num(2)], [addr |-> Num(4), size |-> Low]>>
MCFrees  == <<Num(4), Num(6), Num(8), Num(10), Num(12), Num(14), Spread>>
MCObjects == <<Spread>>
MCSymbolics == <<[addr |-> Num(4), size |-> 2], [addr |-> Num(12), size |-> 1],
                 [addr |-> Sym(LAMBDA x : IF x < 3 THEN 4 ELSE 12), size |-> 2]>>
MCArrays == <<[o \in 0 .. 1 |-> IF o = 0 THEN Low ELSE High], [o \in 0 .. 1 |-> IF o = 0 THEN High ELSE Low]>>
MCBranches == <<{0, 1}, {0, 2}>>
MCExternalWrites == <<[addr |-> 5, byte |-> 2, errno |-> 1, crash |-> FALSE],
                      [addr |-> 8, byte |-> 1, errno |-> 1, crash |-> FALSE],
                      [addr |-> 4, byte |-> 0, errno |-> 3, crash |-> TRUE]>>
=============================================================================
