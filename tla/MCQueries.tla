----------------------------- MODULE MCQueries -----------------------------
EXTENDS Queries

\* Array 1 holds two symbolic bytes; array 2 is constant with a repeated value.
MCArrays == << [size |-> 2, constantValues |-> <<>>],
               [size |-> 3, constantValues |-> <<1, 0, 1>>] >>

\* The expressions are written as the constructors would return them.
mx     == allocRead(1, <<>>, Constant(0, Int32))
my     == allocRead(1, <<>>, Constant(1, Int32))
myZExt == alloc("ZExt", Int32, <<my>>)

MCInputs   == {mx, alloc("Concat", Int32, <<my, mx>>)}
MCOperands == <<my, Constant(2, Int8), Constant(3, Int8),
               allocBinary("Eq", Constant(1, Int8), my), False,
               alloc("SExt", Int32, <<my>>), Constant(13, Int32)>>
MCObjects  == << <<2, <<>>>>,
                <<1, extend(<<>>, myZExt, Constant(2, Int8))>>,
                <<2, extend(extend(<<>>, Constant(0, Int32), mx), myZExt, Constant(3, Int8))>> >>
=============================================================================
