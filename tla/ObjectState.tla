----------------------------- MODULE ObjectState -----------------------------
(***************************************************************************)
(* The contents of one memory object as KLEE caches them (lib/Core/Memory).  *)
(*                                                                           *)
(* A byte is held in up to three places: the concrete store, the symbolic    *)
(* value known for it, and the update list that reads and writes at symbolic *)
(* offsets use.  symbolic, flushed and known say which of them is valid.     *)
(*                                                                           *)
(* An expression is whether it is a ConstantExpr and its value for every     *)
(* input; a value of several bytes is the sequence of its bytes, the lowest  *)
(* address first.                                                            *)
(***************************************************************************)
EXTENDS Integers, Sequences, SequencesExt, FiniteSetsExt

CONSTANTS Inputs        \* what the symbolic bytes of a run can be

ASSUME InputsAssumption == Inputs # {}

Const(v)    == [const |-> TRUE, at |-> [x \in Inputs |-> v]]
isConst(e)  == e.const
valueOf(e)  == e.at[CHOOSE x \in Inputs : TRUE]

NoArray == [kind |-> "none", at |-> <<>>]
Nothing == [o \in {} |-> Const(0)]
Offsets(os) == 0 .. (os.size - 1)

\* ObjectState::ObjectState(mo): concrete and zero, the array still to be made.
NewObject(size) ==
    [size |-> size, readOnly |-> FALSE, owner |-> 0,
     store |-> [o \in 0 .. (size - 1) |-> 0],
     symbolic |-> {}, flushed |-> {}, known |-> Nothing,
     root |-> NoArray, writes |-> <<>>]

\* ObjectState::ObjectState(mo, array) and makeSymbolic: every byte is in array.
NewSymbolic(size, array) ==
    [NewObject(size) EXCEPT !.symbolic = 0 .. (size - 1), !.flushed = 0 .. (size - 1),
                            !.root = [kind |-> "array", at |-> array]]

\* ObjectState::ObjectState(os): a copy, owned by nobody yet.
CopyOf(os) == [os EXCEPT !.owner = 0]

\* initializeToZero and initializeToRandom.
Initialize(os, byte) ==
    [os EXCEPT !.store = [o \in Offsets(os) |-> byte], !.symbolic = {}, !.flushed = {}, !.known = Nothing]

isByteConcrete(os, o)      == o \notin os.symbolic
isByteFlushed(os, o)       == o \in os.flushed
isByteKnownSymbolic(os, o) == o \in DOMAIN os.known

Without(f, o) == [x \in DOMAIN f \ {o} |-> f[x]]
With(f, o, e) == [x \in DOMAIN f \cup {o} |-> IF x = o THEN e ELSE f[x]]

----------------------------------------------------------------------------
(* The update list, newest write first.                                      *)

UpdateNode(i, e) == [index |-> i, value |-> e]

\* Two expressions with the same value for every input are the same term here.
EqIsConstant(a, b) == (isConst(a) /\ isConst(b)) \/ a = b

\* ReadExpr::create over the list of os.
ReadExpr(os, index) ==
    LET w    == os.writes
        stop == {i \in DOMAIN w : ~EqIsConstant(index, w[i].index) \/ index = w[i].index}
        At(x) == LET hits == {i \in DOMAIN w : w[i].index.at[x] = index.at[x]}
                 IN  IF hits # {} THEN w[Min(hits)].value.at[x]
                     ELSE IF index.at[x] \in DOMAIN os.root.at THEN os.root.at[index.at[x]].at[x] ELSE 0
    IN  CASE stop # {} /\ index = w[Min(stop)].index -> w[Min(stop)].value
          [] stop = {} /\ isConst(index) /\ os.root.kind = "constant" -> os.root.at[valueOf(index)]
          [] OTHER -> [const |-> FALSE, at |-> [x \in Inputs |-> At(x)]]

\* getUpdates: the constant array is made when it is first needed, from the
\* oldest writes as long as they are constant.
getUpdates(os) ==
    LET w == os.writes
        concrete == {i \in DOMAIN w : isConst(w[i].index) /\ isConst(w[i].value)}
        begin    == {i \in DOMAIN w : i .. Len(w) \subseteq concrete}   \* the oldest ones
        Content(o) == LET hits == {i \in begin : valueOf(w[i].index) = o}
                      IN  IF hits = {} THEN Const(0) ELSE w[Min(hits)].value
    IN  IF os.root.kind # "none" THEN os
        ELSE [os EXCEPT !.root   = [kind |-> "constant", at |-> [o \in Offsets(os) |-> Content(o)]],
                        !.writes = SubSeq(w, 1, Len(w) - Cardinality(begin))]

\* The elements of a set of offsets, the largest first.
Descending(S) ==
    [i \in 1 .. Cardinality(S) |-> CHOOSE o \in S : Cardinality({u \in S : u >= o}) = i]

\* The writes flushing adds: the unflushed bytes, in the order of their offsets.
Unflushed(os) ==
    LET offs == Descending(Offsets(os) \ os.flushed)
        Value(o) == IF isByteConcrete(os, o) THEN Const(os.store[o]) ELSE os.known[o]
    IN  [i \in DOMAIN offs |-> UpdateNode(Const(offs[i]), Value(offs[i]))]

flushRangeForRead(os) ==
    [os EXCEPT !.writes = Unflushed(os) \o @, !.flushed = Offsets(os)]

flushRangeForWrite(os) ==
    [flushRangeForRead(os) EXCEPT !.symbolic = Offsets(os), !.known = Nothing]

----------------------------------------------------------------------------
(* Bytes.                                                                    *)

\* The object after a read of a byte at a constant offset, and the byte.
read8(os, o) ==
    CASE isByteConcrete(os, o) -> [os |-> os, e |-> Const(os.store[o])]
      [] ~isByteConcrete(os, o) /\ isByteKnownSymbolic(os, o) -> [os |-> os, e |-> os.known[o]]
      [] OTHER -> LET u == getUpdates(os) IN [os |-> u, e |-> ReadExpr(u, Const(o))]

read8Symbolic(os, index) ==
    LET u == getUpdates(flushRangeForRead(os)) IN [os |-> u, e |-> ReadExpr(u, index)]

\* Mutant: the byte is not taken out of the flushed ones again.
write8KeepsFlushed(os, o, e) ==
    IF isConst(e) THEN [os EXCEPT !.store[o] = valueOf(e), !.known = Without(@, o), !.symbolic = @ \ {o}]
    ELSE [os EXCEPT !.known = With(@, o, e), !.symbolic = @ \cup {o}]

write8(os, o, e) ==
    IF isConst(e)
    THEN [os EXCEPT !.store[o] = valueOf(e), !.known = Without(@, o),
                    !.symbolic = @ \ {o}, !.flushed = @ \ {o}]
    ELSE [os EXCEPT !.known = With(@, o, e), !.symbolic = @ \cup {o}, !.flushed = @ \ {o}]

write8Symbolic(os, index, e) ==
    LET f == flushRangeForWrite(os) IN [f EXCEPT !.writes = <<UpdateNode(index, e)>> \o @]

----------------------------------------------------------------------------
(* Values.                                                                   *)

Plus(e, i) == [e EXCEPT !.at = [x \in Inputs |-> e.at[x] + i]]

\* ObjectState::read: the object afterwards and the bytes, one read8 each, at
\* the offset and those behind it.
readByte(os, offset, i) ==
    IF isConst(offset) THEN read8(os, valueOf(offset) + i) ELSE read8Symbolic(os, Plus(offset, i))

readBytes(os, offset, n) ==
    LET left[i \in 0 .. n] == IF i = 0 THEN os ELSE readByte(left[i - 1], offset, i - 1).os
    IN  [os |-> left[n], value |-> [i \in 1 .. n |-> readByte(left[i - 1], offset, i - 1).e]]

\* ObjectState::write, with write16, write32 and write64: one write8 per byte.
writeByte(os, offset, i, e) ==
    IF isConst(offset) THEN write8(os, valueOf(offset) + i, e) ELSE write8Symbolic(os, Plus(offset, i), e)

writeBytes(os, offset, value) ==
    LET left[i \in 0 .. Len(value)] ==
            IF i = 0 THEN os ELSE writeByte(left[i - 1], offset, i - 1, value[i])
    IN  left[Len(value)]

----------------------------------------------------------------------------
(* What the contents amount to, for the properties.                          *)

\* The "Cache Invariants" of Memory.cpp: a byte is never both concrete and
\* known symbolic, and one that is not flushed is one of the two, so that the
\* assertions of read8 and of the flushes hold.
CacheInvariant(os) ==
    \A o \in Offsets(os) : /\ isByteKnownSymbolic(os, o) => ~isByteConcrete(os, o)
                           /\ ~isByteFlushed(os, o) => (isByteConcrete(os, o) \/ isByteKnownSymbolic(os, o))

\* Read at a constant as at a symbolic offset, the byte at o of an object at
\* base is for every input x of mem the byte mem[x][base + o].
ReadsExactly(os, base, mem) ==
    LET u == getUpdates(flushRangeForRead(os))
        Symbolic(o) == [const |-> FALSE, at |-> [y \in Inputs |-> o]]
    IN  \A o \in Offsets(os), x \in DOMAIN mem :
            /\ read8(os, o).e.at[x] = mem[x][base + o]
            /\ ReadExpr(u, Symbolic(o)).at[x] = mem[x][base + o]
=============================================================================
