-------------------------- MODULE ObjectStateProofs --------------------------
(***************************************************************************)
(* Proofs about lib/Core/Memory.cpp: whichever of its three caches holds a  *)
(* byte of an object, every read returns the byte a native run would have   *)
(* there, after any sequence of reads and writes at constant and symbolic   *)
(* offsets, for objects of every size and any set of inputs.                *)
(***************************************************************************)
EXTENDS ObjectState, TLAPS, FiniteSetTheorems, SequenceTheorems

\* Expressions: a ConstantExpr has one value for all inputs.
Exprs == {e \in [const : BOOLEAN, at : [Inputs -> Nat]] :
            e.const => \A x, y \in Inputs : e.at[x] = e.at[y]}

\* An entry of the update list.
Updates == [index : Exprs, value : Exprs]

\* The types of the fields of an object state, and of object states.
Bytes   == UNION {[S -> Nat] : S \in SUBSET Nat}
Maps    == UNION {[S -> Exprs] : S \in SUBSET Nat}
Flags   == BOOLEAN
Sets    == SUBSET Nat
Lists   == Seq(Updates)
Roots   == [kind : {"none", "constant", "array"}, at : Maps]
Objects == [size : Nat, readOnly : Flags, owner : Nat, store : Bytes, symbolic : Sets,
            flushed : Sets, known : Maps, root : Roots, writes : Lists]

\* The fields fit the size.  The array below the update list is none yet, or one
\* with a byte for every offset.
Shape(os) ==
    /\ os \in Objects
    /\ os.store \in [Offsets(os) -> Nat]
    /\ os.symbolic \subseteq Offsets(os) /\ os.flushed \subseteq Offsets(os)
    /\ DOMAIN os.known \subseteq Offsets(os)
    /\ os.root.kind = "none" => DOMAIN os.root.at = {}
    /\ os.root.kind # "none" => os.root.at \in [Offsets(os) -> Exprs]

\* Where the update list was last written at offset o, for input x.
Hits(w, o, x) == {i \in DOMAIN w : w[i].index.at[x] = o}

\* The byte that the update list holds at offset o for input x.
Listed(os, o, x) ==
    IF Hits(os.writes, o, x) # {} THEN os.writes[Min(Hits(os.writes, o, x))].value.at[x]
    ELSE IF o \in DOMAIN os.root.at THEN os.root.at[o].at[x] ELSE 0

\* Every valid cache of the object at base holds the byte of mem, for every input
\* that mem has.
Mirrors(os, base, mem) ==
    /\ Shape(os) /\ CacheInvariant(os)
    /\ DOMAIN mem \subseteq Inputs /\ DOMAIN mem # {}
    /\ \A x \in DOMAIN mem, o \in Offsets(os) : base + o \in DOMAIN mem[x]
    /\ \A x \in DOMAIN mem, o \in Offsets(os) :
          /\ o \notin os.symbolic => os.store[o] = mem[x][base + o]
          /\ o \in DOMAIN os.known => os.known[o].at[x] = mem[x][base + o]
          /\ o \in os.flushed => Listed(os, o, x) = mem[x][base + o]

-----------------------------------------------------------------------------
\* A constant expression.
LEMMA ConstExpr ==
  ASSUME NEW v \in Nat
  PROVE  /\ Const(v) \in Exprs /\ isConst(Const(v)) /\ valueOf(Const(v)) = v
         /\ \A x \in Inputs : Const(v).at[x] = v
  BY InputsAssumption DEF Const, Exprs, isConst, valueOf

\* The value of a constant expression is its value for every input.
LEMMA ConstValue ==
  ASSUME NEW e \in Exprs, isConst(e)
  PROVE  valueOf(e) \in Nat /\ \A x \in Inputs : e.at[x] = valueOf(e)
  BY InputsAssumption DEF Exprs, isConst, valueOf

\* Two constant expressions with a value in common are the same.
LEMMA ConstEqual ==
  ASSUME NEW e \in Exprs, NEW f \in Exprs, isConst(e), isConst(f), NEW x \in Inputs, e.at[x] = f.at[x]
  PROVE  e = f
  <1>1. \A y \in Inputs : e.at[y] = f.at[y]
    BY DEF Exprs, isConst
  <1>2. e.at \in [Inputs -> Nat] /\ f.at \in [Inputs -> Nat] /\ e.const = f.const
    BY DEF Exprs, isConst
  <1>3. e.at = f.at
    BY <1>1, <1>2
  <1>4. QED
    BY <1>2, <1>3 DEF Exprs

\* A set of natural numbers that is not empty has a least element.
LEMMA LeastNatural ==
  ASSUME NEW M, M \subseteq Nat, M # {}
  PROVE  Min(M) \in M /\ \A y \in M : Min(M) <= y
  <1>1. PICK x \in M : \A y \in M : ~(<<y, x>> \in OpToRel(<, Nat))
    BY NatLessThanWellFounded, WFMin
  <1>2. ASSUME NEW y \in M PROVE x <= y
    <2>1. ~(y < x)
      <3>1. <<y, x>> \in Nat \X Nat
        OBVIOUS
      <3>2. y < x => <<y, x>> \in OpToRel(<, Nat)
        BY <3>1, Zenon DEF OpToRel
      <3>3. QED
        BY <1>1, <3>2
    <2>2. QED
      BY <2>1
  <1>3. QED
    BY <1>2 DEF Min

\* The offsets that a flush goes through: each of them, and no others.
LEMMA DescendingLists ==
  ASSUME NEW n \in Nat, NEW S \in SUBSET (0 .. (n - 1))
  PROVE  /\ Cardinality(S) \in Nat
         /\ Descending(S) \in [1 .. Cardinality(S) -> S]
         /\ \A o \in S : \E i \in 1 .. Cardinality(S) : Descending(S)[i] = o
  <1> DEFINE above(o) == {u \in S : u >= o}
             rank == [o \in S |-> Cardinality(above(o))]
             N == Cardinality(S)
  <1>1. IsFiniteSet(S) /\ N \in Nat /\ S \subseteq Int
    <2>1. IsFiniteSet(0 .. (n - 1))
      BY FS_Interval
    <2>2. IsFiniteSet(S)
      BY <2>1, FS_Subset
    <2>3. QED
      BY <2>2, FS_CardinalityType
  <1>2. \A o \in S : IsFiniteSet(above(o)) /\ Cardinality(above(o)) \in Nat
                     /\ Cardinality(above(o)) <= N /\ o \in above(o)
    <2>1. ASSUME NEW o \in S PROVE IsFiniteSet(above(o)) /\ Cardinality(above(o)) <= N /\ o \in above(o)
      <3>1. above(o) \in SUBSET S
        OBVIOUS
      <3>2. o >= o
        BY <1>1
      <3>3. QED
        BY <1>1, <3>1, <3>2, FS_Subset
    <2>2. QED
      BY <2>1, FS_CardinalityType
  <1>3. rank \in [S -> 1 .. N]
    <2>1. ASSUME NEW o \in S PROVE Cardinality(above(o)) # 0
      BY <1>2, FS_EmptySet
    <2>2. QED
      BY <1>1, <1>2, <2>1
  <1>4. ASSUME NEW o \in S, NEW q \in S, o < q PROVE rank[o] # rank[q]
    <2>1. above(q) \in SUBSET above(o) /\ o \in above(o) /\ o \notin above(q)
      <3>1. \A u \in S : u >= q => u >= o
        BY <1>1, <1>4
      <3>2. ~(o >= q)
        BY <1>1, <1>4
      <3>3. QED
        BY <1>2, <3>1, <3>2
    <2>2. above(o) # above(q)
      BY <2>1
    <2>3. IsFiniteSet(above(o))
      BY <1>2
    <2> HIDE DEF above
    <2>4. Cardinality(above(o)) # Cardinality(above(q))
      BY <2>1, <2>2, <2>3, FS_Subset
    <2>5. QED
      BY <2>4
  <1>5. \A o, q \in S : rank[o] = rank[q] => o = q
    <2>1. \A o, q \in S : o < q \/ q < o \/ o = q
      BY <1>1
    <2>2. QED
      BY <1>4, <2>1
  <1> HIDE DEF rank
  <1>6. rank \in Surjection(S, 1 .. N)
    <2>1. rank \in Injection(S, 1 .. N)
      BY <1>3, <1>5 DEF Injection, IsInjective
    <2>2. IsFiniteSet(1 .. N) /\ Cardinality(1 .. N) = N
      <3>1. IsFiniteSet(1 .. N) /\ Cardinality(1 .. N) = IF 1 > N THEN 0 ELSE N - 1 + 1
        BY <1>1, FS_Interval
      <3>2. QED
        BY <1>1, <3>1
    <2>3. QED
      BY <2>1, <2>2, FS_Injection
  <1>7. \A i \in 1 .. N : \E o \in S : rank[o] = i
    BY <1>6 DEF Surjection
  <1>8. ASSUME NEW i \in 1 .. N PROVE Descending(S)[i] \in S /\ rank[Descending(S)[i]] = i
    <2>1. \E o \in S : Cardinality({u \in S : u >= o}) = i
      BY <1>7 DEF rank
    <2>2. Descending(S)[i] = CHOOSE o \in S : Cardinality({u \in S : u >= o}) = i
      BY DEF Descending
    <2>3. Descending(S)[i] \in S /\ Cardinality({u \in S : u >= Descending(S)[i]}) = i
      BY <2>1, <2>2
    <2>4. QED
      BY <2>3 DEF rank
  <1>9. Descending(S) \in [1 .. N -> S]
    BY <1>8 DEF Descending
  <1>10. ASSUME NEW o \in S PROVE \E i \in 1 .. N : Descending(S)[i] = o
    <2>1. rank[o] \in 1 .. N
      BY <1>3
    <2>2. Descending(S)[rank[o]] = o
      BY <1>5, <1>8, <2>1
    <2>3. QED
      BY <2>1, <2>2
  <1>11. QED
    BY <1>1, <1>9, <1>10

-----------------------------------------------------------------------------
\* The first n entries of the list have no write at o for input x, and entry k is
\* the first of them that has.
NoneAt(w, n, o, x)     == \A j \in 1 .. n : w[j].index.at[x] # o
FirstAt(w, n, o, x, k) == /\ k \in 1 .. n /\ w[k].index.at[x] = o
                          /\ \A j \in 1 .. n : j < k => w[j].index.at[x] # o

\* What the list holds at an offset is what was written there last.
LEMMA ListedFirst ==
  ASSUME NEW os, os.writes \in Lists, NEW o, NEW x, NEW n \in Nat, n = Len(os.writes), NEW k,
         FirstAt(os.writes, n, o, x, k)
  PROVE  Listed(os, o, x) = os.writes[k].value.at[x]
  <1> DEFINE H == Hits(os.writes, o, x)
  <1>1. H \subseteq Nat /\ k \in Nat /\ k \in H /\ \A j \in H : j \in 1 .. n /\ ~(j < k)
    BY DEF Hits, Lists, FirstAt
  <1>2. Min(H) \in H /\ Min(H) <= k
    BY <1>1, LeastNatural
  <1>3. Min(H) = k
    BY <1>1, <1>2
  <1>4. QED
    BY <1>1, <1>3 DEF Listed

\* With no write at the offset it is what the array below has there.
LEMMA ListedRoot ==
  ASSUME NEW os, os.writes \in Lists, NEW o, NEW x, NEW n \in Nat, n = Len(os.writes),
         NoneAt(os.writes, n, o, x)
  PROVE  Listed(os, o, x) = IF o \in DOMAIN os.root.at THEN os.root.at[o].at[x] ELSE 0
  <1>1. Hits(os.writes, o, x) = {}
    BY DEF Hits, Lists, NoneAt
  <1>2. QED
    BY <1>1 DEF Listed

\* One or the other is the case.
LEMMA ListedCases ==
  ASSUME NEW w \in Lists, NEW o, NEW x, NEW n \in Nat, n = Len(w)
  PROVE  NoneAt(w, n, o, x) \/ \E k \in 1 .. n : FirstAt(w, n, o, x, k)
  <1> DEFINE H == Hits(w, o, x)
  <1>1. H = {} => NoneAt(w, n, o, x)
    BY DEF Hits, Lists, NoneAt
  <1>2. ASSUME H # {} PROVE \E k \in 1 .. n : FirstAt(w, n, o, x, k)
    <2>1. H \subseteq Nat
      BY DEF Hits, Lists
    <2>2. Min(H) \in H /\ \A j \in H : Min(H) <= j
      BY <1>2, <2>1, LeastNatural
    <2>3. PICK k \in H : \A j \in H : k <= j
      BY <2>2
    <2>4. k \in 1 .. n /\ w[k].index.at[x] = o /\ \A j \in 1 .. n : w[j].index.at[x] = o => k <= j
      BY <2>3 DEF Hits, Lists
    <2>5. QED
      BY <2>4 DEF FirstAt
  <1>3. QED
    BY <1>1, <1>2

-----------------------------------------------------------------------------
\* The symbolic byte known at an offset is an expression.
LEMMA KnownBytes ==
  ASSUME NEW m \in Maps
  PROVE  m \in [DOMAIN m -> Exprs]
  <1>1. PICK S \in SUBSET Nat : m \in [S -> Exprs]
    BY DEF Maps
  <1>2. QED
    BY <1>1

\* The byte a flush writes at an unflushed offset.
Cached(os, o) == IF isByteConcrete(os, o) THEN Const(os.store[o]) ELSE os.known[o]

\* The writes of a flush: one for every unflushed offset, of the byte cached there.
LEMMA UnflushedList ==
  ASSUME NEW os, Shape(os), CacheInvariant(os)
  PROVE  /\ Unflushed(os) \in Lists
         /\ \A i \in 1 .. Len(Unflushed(os)) :
              \E o \in Offsets(os) \ os.flushed :
                 /\ Unflushed(os)[i].value = Cached(os, o) /\ Cached(os, o) \in Exprs
                 /\ \A x \in Inputs : Unflushed(os)[i].index.at[x] = o
         /\ \A o \in Offsets(os) \ os.flushed :
              \E i \in 1 .. Len(Unflushed(os)) : \A x \in Inputs : Unflushed(os)[i].index.at[x] = o
  <1> DEFINE S == Offsets(os) \ os.flushed
             N == Cardinality(S)
             offs == Descending(S)
             U == Unflushed(os)
  <1>1. os.size \in Nat /\ S \in SUBSET (0 .. (os.size - 1)) /\ S \subseteq Nat
    BY DEF Shape, Offsets, Objects
  <1>2. N \in Nat /\ offs \in [1 .. N -> S] /\ \A o \in S : \E i \in 1 .. N : offs[i] = o
    BY <1>1, DescendingLists
  <1>3. \A o \in S : Cached(os, o) \in Exprs
    <2>1. SUFFICES ASSUME NEW o \in S PROVE Cached(os, o) \in Exprs
      OBVIOUS
    <2>2. CASE isByteConcrete(os, o)
      <3>1. os.store[o] \in Nat
        BY DEF Shape
      <3>2. QED
        BY <2>2, <3>1, ConstExpr DEF Cached
    <2>3. CASE ~isByteConcrete(os, o)
      <3>1. o \in DOMAIN os.known
        BY <2>3 DEF CacheInvariant, isByteFlushed, isByteKnownSymbolic
      <3>2. QED
        BY <2>3, <3>1, KnownBytes DEF Cached, Shape, Objects
    <2>4. QED
      BY <2>2, <2>3
  <1> HIDE DEF S, N, offs
  <1>4. U = [i \in 1 .. N |-> [index |-> Const(offs[i]), value |-> Cached(os, offs[i])]]
    BY <1>2 DEF Unflushed, UpdateNode, Cached, S, N, offs
  <1>5. \A i \in 1 .. N : offs[i] \in S /\ Const(offs[i]) \in Exprs /\ \A x \in Inputs : Const(offs[i]).at[x] = offs[i]
    BY <1>1, <1>2, ConstExpr
  <1>6. U \in [1 .. N -> Updates]
    BY <1>3, <1>4, <1>5 DEF Updates
  <1>7. U \in Lists /\ Len(U) = N
    BY <1>2, <1>6, SeqDef DEF Lists
  <1>8. \A i \in 1 .. N : U[i].value = Cached(os, offs[i]) /\ \A x \in Inputs : U[i].index.at[x] = offs[i]
    BY <1>4, <1>5
  <1>9. QED
    BY <1>2, <1>3, <1>5, <1>7, <1>8 DEF S

\* The fields flushRangeForRead assigns, and no others.
LEMMA FlushFields ==
  ASSUME NEW os, Shape(os), CacheInvariant(os), NEW f, f = flushRangeForRead(os)
  PROVE  /\ f \in Objects /\ f.size = os.size /\ f.store = os.store /\ f.symbolic = os.symbolic
         /\ f.flushed = Offsets(os) /\ f.known = os.known /\ f.root = os.root
         /\ f.writes = Unflushed(os) \o os.writes
  <1> DEFINE W == Unflushed(os) \o os.writes
             O == Offsets(os)
  <1>1. f = [os EXCEPT !.writes = W, !.flushed = O]
    BY DEF flushRangeForRead
  <1>2. os \in Objects /\ O \in Sets
    BY DEF Shape, Objects, Offsets, Sets
  <1>3. W \in Lists
    <2>1. Unflushed(os) \in Lists /\ os.writes \in Lists
      BY UnflushedList DEF Shape, Objects
    <2>2. QED
      BY <2>1, ConcatProperties DEF Lists
  <1> HIDE DEF W, O
  <1>4. QED
    BY <1>1, <1>2, <1>3 DEF Objects, W, O

\* flushRangeForRead: the list then holds every byte, the unflushed ones as they
\* were cached and the others as before.
LEMMA FlushLists ==
  ASSUME NEW os, Shape(os), CacheInvariant(os)
  PROVE  /\ Shape(flushRangeForRead(os)) /\ CacheInvariant(flushRangeForRead(os))
         /\ \A x \in Inputs, o \in Offsets(os) :
              Listed(flushRangeForRead(os), o, x) =
                IF o \in os.flushed THEN Listed(os, o, x) ELSE Cached(os, o).at[x]
  <1> DEFINE f == flushRangeForRead(os)
             U == Unflushed(os)
             w == os.writes
  <1>1. /\ f \in Objects /\ f.size = os.size /\ f.store = os.store /\ f.symbolic = os.symbolic
        /\ f.flushed = Offsets(os) /\ f.known = os.known /\ f.root = os.root /\ f.writes = U \o w
    BY FlushFields
  <1>2. U \in Lists /\ w \in Lists
    BY UnflushedList DEF Shape, Objects
  <1>3. /\ U \o w \in Lists /\ Len(U \o w) = Len(U) + Len(w)
        /\ \A i \in 1 .. Len(U) + Len(w) : (U \o w)[i] = IF i <= Len(U) THEN U[i] ELSE w[i - Len(U)]
    BY <1>2, ConcatProperties DEF Lists
  <1> HIDE DEF f
  <1>4. Offsets(f) = Offsets(os) /\ Shape(f)
    BY <1>1 DEF Shape, Offsets
  <1>5. CacheInvariant(f)
    BY <1>1, <1>4 DEF CacheInvariant, isByteConcrete, isByteFlushed, isByteKnownSymbolic
  <1>6. PICK n \in Nat, m \in Nat : n = Len(U) /\ m = Len(w)
    BY <1>2 DEF Lists
  <1>7. f.writes \in Lists /\ Len(f.writes) = (n + m) /\ f.root = os.root
        /\ (\A i \in 1 .. n : f.writes[i] = U[i]) /\ (\A i \in 1 .. m : f.writes[n + i] = w[i])
    BY <1>1, <1>3, <1>6
  <1>8. ASSUME NEW x \in Inputs, NEW o \in Offsets(os), o \notin os.flushed
        PROVE  Listed(f, o, x) = Cached(os, o).at[x]
    <2>1. PICK i \in 1 .. n : U[i].index.at[x] = o
      BY <1>6, <1>8, UnflushedList
    <2>2. PICK k \in 1 .. (n + m) : FirstAt(f.writes, n + m, o, x, k)
      <3>1. (n + m) \in Nat /\ ~NoneAt(f.writes, n + m, o, x)
        BY <1>7, <2>1 DEF NoneAt
      <3>2. QED
        BY <1>7, <3>1, ListedCases
    <2>3. k \in 1 .. n /\ f.writes[k].index.at[x] = o
      BY <1>7, <2>1, <2>2 DEF FirstAt
    <2>4. f.writes[k].value = Cached(os, o)
      <3>1. PICK p \in Offsets(os) : U[k].value = Cached(os, p) /\ \A y \in Inputs : U[k].index.at[y] = p
        BY <1>6, <2>3, UnflushedList
      <3>2. QED
        BY <1>7, <1>8, <2>2, <2>3, <3>1
    <2>5. QED
      BY <1>7, <2>2, <2>4, ListedFirst
  <1>9. ASSUME NEW x \in Inputs, NEW o \in Offsets(os), o \in os.flushed
        PROVE  Listed(f, o, x) = Listed(os, o, x)
    <2>1. \A i \in 1 .. n : f.writes[i].index.at[x] # o
      <3>1. SUFFICES ASSUME NEW i \in 1 .. n PROVE f.writes[i].index.at[x] # o
        OBVIOUS
      <3>2. PICK p \in Offsets(os) \ os.flushed : \A y \in Inputs : U[i].index.at[y] = p
        BY <1>6, UnflushedList
      <3>3. QED
        BY <1>7, <1>9, <3>2
    <2>2. CASE NoneAt(w, m, o, x)
      <3>1. NoneAt(f.writes, n + m, o, x)
        <4>1. SUFFICES ASSUME NEW j \in 1 .. (n + m) PROVE f.writes[j].index.at[x] # o
          BY DEF NoneAt
        <4>2. CASE j > n
          <5>1. j - n \in 1 .. m /\ j = n + (j - n)
            BY <4>2
          <5>2. f.writes[j] = w[j - n]
            BY <1>7, <5>1
          <5>3. QED
            BY <2>2, <5>1, <5>2 DEF NoneAt
        <4>3. CASE j <= n
          BY <2>1, <4>3
        <4>4. QED
          BY <4>2, <4>3
      <3>2. Listed(os, o, x) = IF o \in DOMAIN os.root.at THEN os.root.at[o].at[x] ELSE 0
        BY <1>2, <1>6, <2>2, ListedRoot
      <3>3. Listed(f, o, x) = IF o \in DOMAIN f.root.at THEN f.root.at[o].at[x] ELSE 0
        BY <1>7, <3>1, ListedRoot
      <3>4. QED
        BY <1>7, <3>2, <3>3
    <2>3. CASE \E k \in 1 .. m : FirstAt(w, m, o, x, k)
      <3>1. PICK k \in 1 .. m : FirstAt(w, m, o, x, k)
        BY <2>3
      <3>2. Listed(os, o, x) = w[k].value.at[x]
        BY <1>2, <1>6, <3>1, ListedFirst
      <3>3. FirstAt(f.writes, n + m, o, x, n + k)
        <4>1. n + k \in 1 .. (n + m) /\ f.writes[n + k].index.at[x] = o
          BY <1>7, <3>1 DEF FirstAt
        <4>2. SUFFICES ASSUME NEW j \in 1 .. (n + m), j < n + k PROVE f.writes[j].index.at[x] # o
          BY <4>1 DEF FirstAt
        <4>3. CASE j > n
          <5>1. j - n \in 1 .. m /\ j = n + (j - n) /\ j - n < k
            BY <4>2, <4>3
          <5>2. f.writes[j] = w[j - n]
            BY <1>7, <5>1
          <5>3. QED
            BY <3>1, <5>1, <5>2 DEF FirstAt
        <4>4. CASE j <= n
          BY <2>1, <4>4
        <4>5. QED
          BY <4>3, <4>4
      <3>4. Listed(f, o, x) = f.writes[n + k].value.at[x]
        <4>1. PICK q \in Nat, l \in Nat : q = n + k /\ l = n + m
          OBVIOUS
        <4>2. QED
          BY <1>7, <3>3, <4>1, ListedFirst
      <3>5. QED
        BY <1>7, <3>1, <3>2, <3>4
    <2>4. QED
      BY <1>2, <1>6, <2>2, <2>3, ListedCases
  <1>10. QED
    BY <1>4, <1>5, <1>8, <1>9 DEF f

-----------------------------------------------------------------------------
\* The writes that getUpdates moves into the constant array: the oldest ones, as
\* far as index and value are constant.
Concrete(w) == {i \in DOMAIN w : isConst(w[i].index) /\ isConst(w[i].value)}
Begin(w)    == {i \in DOMAIN w : i .. Len(w) \subseteq Concrete(w)}

\* They are the end of the list.
LEMMA BeginIsEnd ==
  ASSUME NEW w \in Lists
  PROVE  \E m \in 0 .. Len(w) : /\ Begin(w) = (m + 1) .. Len(w)
                                /\ Len(w) - Cardinality(Begin(w)) = m
                                /\ Begin(w) \subseteq Concrete(w)
  <1> DEFINE L == Len(w)
             B == Begin(w)
  <1>1. L \in Nat /\ DOMAIN w = 1 .. L
    BY DEF Lists
  <1>2. B \subseteq 1 .. L /\ B \subseteq Concrete(w) /\ B \subseteq Nat
    <2>1. ASSUME NEW i \in B PROVE i \in 1 .. L /\ i \in Concrete(w)
      BY <1>1 DEF Begin
    <2>2. QED
      BY <1>1, <2>1
  <1>3. \A i \in B, j \in 1 .. L : i <= j => j \in B
    BY <1>1 DEF Begin
  <1> HIDE DEF L, B
  <1>4. CASE B = {}
    <2>1. B = (L + 1) .. L /\ Cardinality(B) = 0
      BY <1>1, <1>4, FS_EmptySet
    <2>2. QED
      BY <1>1, <1>2, <2>1 DEF L, B
  <1>5. CASE B # {}
    <2>1. PICK k \in B : \A j \in B : k <= j
      BY <1>2, <1>5, LeastNatural
    <2>2. B = k .. L
      <3>1. ASSUME NEW j \in B PROVE j \in k .. L
        BY <1>1, <1>2, <2>1
      <3>2. ASSUME NEW j \in k .. L PROVE j \in B
        BY <1>1, <1>2, <1>3
      <3>3. QED
        BY <3>1, <3>2
    <2>3. k \in 1 .. L
      BY <1>2
    <2>4. Cardinality(B) = L - k + 1
      <3>1. Cardinality(k .. L) = IF k > L THEN 0 ELSE L - k + 1
        BY <1>1, <2>3, FS_Interval
      <3>2. QED
        BY <1>1, <2>2, <2>3, <3>1
    <2>5. PICK m \in 0 .. L : k = m + 1
      <3>1. k - 1 \in 0 .. L /\ k = (k - 1) + 1
        BY <1>1, <2>3
      <3>2. QED
        BY <3>1
    <2>6. L - (L - k + 1) = m
      BY <1>1, <2>5
    <2>7. QED
      BY <1>2, <2>2, <2>4, <2>5, <2>6 DEF L, B
  <1>6. QED
    BY <1>4, <1>5

\* The byte that the constant array gets at an offset.
Content(w, o) ==
    LET hits == {i \in Begin(w) : valueOf(w[i].index) = o}
    IN  IF hits = {} THEN Const(0) ELSE w[Min(hits)].value

\* The fields getUpdates assigns when there is no array yet, and no others.
LEMMA UpdatesFields ==
  ASSUME NEW os, Shape(os), os.root.kind = "none", NEW g, g = getUpdates(os), NEW m \in 0 .. Len(os.writes),
         Len(os.writes) - Cardinality(Begin(os.writes)) = m,
         \A o \in Offsets(os) : Content(os.writes, o) \in Exprs
  PROVE  /\ g \in Objects /\ g.size = os.size /\ g.store = os.store /\ g.symbolic = os.symbolic
         /\ g.flushed = os.flushed /\ g.known = os.known /\ g.writes = SubSeq(os.writes, 1, m)
         /\ g.root.kind = "constant" /\ g.root.at = [o \in Offsets(os) |-> Content(os.writes, o)]
  <1> DEFINE W == SubSeq(os.writes, 1, m)
             A == [o \in Offsets(os) |-> Content(os.writes, o)]
             R == [kind |-> "constant", at |-> A]
  <1>1. g = [os EXCEPT !.root = R, !.writes = W]
    BY DEF getUpdates, Content, Begin, Concrete
  <1>2. os \in Objects /\ os.writes \in Lists
    BY DEF Shape, Objects
  <1>3. W \in Lists
    <2>1. \A i \in 1 .. m : os.writes[i] \in Updates
      BY <1>2 DEF Lists
    <2>2. QED
      BY <1>2, <2>1, SubSeqProperties DEF Lists
  <1>4. R \in Roots
    <2>1. Offsets(os) \in SUBSET Nat
      BY <1>2 DEF Offsets, Objects
    <2>2. A \in Maps
      BY <2>1 DEF Maps
    <2> HIDE DEF A
    <2>3. QED
      BY <2>2 DEF Roots
  <1>5. R.kind = "constant" /\ R.at = A
    OBVIOUS
  <1> HIDE DEF W, R, A
  <1>6. /\ g \in Objects /\ g.size = os.size /\ g.store = os.store /\ g.symbolic = os.symbolic
        /\ g.flushed = os.flushed /\ g.known = os.known /\ g.writes = W /\ g.root = R
    BY <1>1, <1>2, <1>3, <1>4 DEF Objects
  <1>7. QED
    BY <1>5, <1>6 DEF W, A

\* Entries of the list are pairs of expressions.
LEMMA EntryExprs ==
  ASSUME NEW w \in Lists, NEW i \in 1 .. Len(w)
  PROVE  w[i].index \in Exprs /\ w[i].value \in Exprs
  <1>1. w[i] \in Updates
    BY DEF Lists
  <1>2. QED
    BY <1>1 DEF Updates

\* The array holds what the moved writes held, for every input.
LEMMA ContentListed ==
  ASSUME NEW w \in Lists, NEW n \in Nat, n = Len(w), NEW m \in 0 .. n, Begin(w) = (m + 1) .. n,
         Begin(w) \subseteq Concrete(w), NEW o \in Nat
  PROVE  /\ Content(w, o) \in Exprs
         /\ \A x \in Inputs, k \in (m + 1) .. n : FirstAt(w, n, o, x, k) => Content(w, o) = w[k].value
         /\ \A x \in Inputs : NoneAt(w, n, o, x) => Content(w, o).at[x] = 0
  <1> DEFINE B == Begin(w)
             H == {i \in B : valueOf(w[i].index) = o}
  <1>1. \A i \in 1 .. n : w[i].index \in Exprs /\ w[i].value \in Exprs
    BY EntryExprs
  <1>2. \A i \in B : i \in 1 .. n /\ isConst(w[i].index)
    BY DEF Concrete
  <1>3. \A i \in B, x \in Inputs : valueOf(w[i].index) = w[i].index.at[x]
    BY <1>1, <1>2, ConstValue
  <1>4. Content(w, o) = IF H = {} THEN Const(0) ELSE w[Min(H)].value
    BY DEF Content
  <1>5. H \subseteq B /\ B \subseteq Nat
    BY <1>2
  <1>6. H # {} => Min(H) \in H /\ \A y \in H : Min(H) <= y
    BY <1>5, LeastNatural
  <1>7. Const(0) \in Exprs /\ \A x \in Inputs : Const(0).at[x] = 0
    BY ConstExpr
  <1>8. Content(w, o) \in Exprs
    BY <1>1, <1>2, <1>4, <1>5, <1>6, <1>7
  <1>9. ASSUME NEW x \in Inputs, NEW k \in (m + 1) .. n, FirstAt(w, n, o, x, k)
        PROVE  Content(w, o) = w[k].value
    <2>1. k \in H
      BY <1>3, <1>9 DEF FirstAt
    <2>2. PICK h \in Nat : h = Min(H) /\ h \in H /\ h <= k
      BY <1>5, <1>6, <2>1
    <2>3. h \in 1 .. n /\ w[h].index.at[x] = o
      BY <1>2, <1>3, <2>2
    <2>4. ~(h < k)
      BY <1>9, <2>3 DEF FirstAt
    <2>5. h = k
      BY <2>2, <2>4
    <2>6. QED
      BY <1>4, <2>1, <2>2, <2>5
  <1>10. ASSUME NEW x \in Inputs, NoneAt(w, n, o, x) PROVE Content(w, o).at[x] = 0
    <2>1. H = {}
      BY <1>2, <1>3, <1>10 DEF NoneAt
    <2>2. QED
      BY <1>4, <1>7, <2>1
  <1>11. QED
    BY <1>8, <1>9, <1>10

\* getUpdates moves bytes from the list to the array below it and changes none.
LEMMA UpdatesKeep ==
  ASSUME NEW os, Shape(os), NEW g, g = getUpdates(os)
  PROVE  /\ Shape(g) /\ g.root.kind # "none"
         /\ g.size = os.size /\ g.store = os.store /\ g.symbolic = os.symbolic
         /\ g.flushed = os.flushed /\ g.known = os.known
         /\ \A x \in Inputs, o \in Offsets(os) : Listed(g, o, x) = Listed(os, o, x)
  <1>1. CASE os.root.kind # "none"
    <2>1. g = os
      BY <1>1 DEF getUpdates
    <2>2. QED
      BY <1>1, <2>1
  <1>2. CASE os.root.kind = "none"
    <2> DEFINE w == os.writes
    <2>1. w \in Lists /\ os.size \in Nat /\ Offsets(os) \subseteq Nat /\ DOMAIN os.root.at = {}
      BY <1>2 DEF Shape, Objects, Offsets
    <2>2. PICK n \in Nat : n = Len(w)
      BY <2>1 DEF Lists
    <2>3. PICK m \in 0 .. n : /\ Begin(w) = (m + 1) .. n /\ n - Cardinality(Begin(w)) = m
                             /\ Begin(w) \subseteq Concrete(w)
      BY <2>1, <2>2, BeginIsEnd
    <2>4. \A o \in Offsets(os) : Content(w, o) \in Exprs
      BY <2>1, <2>2, <2>3, ContentListed
    <2>5. /\ g \in Objects /\ g.size = os.size /\ g.store = os.store /\ g.symbolic = os.symbolic
          /\ g.flushed = os.flushed /\ g.known = os.known /\ g.writes = SubSeq(w, 1, m)
          /\ g.root.kind = "constant" /\ g.root.at = [o \in Offsets(os) |-> Content(w, o)]
      BY <1>2, <2>2, <2>3, <2>4, UpdatesFields
    <2>6. /\ g.writes \in Lists /\ Len(g.writes) = m
          /\ \A i \in 1 .. m : g.writes[i] = w[i]
      <3>1. \A i \in 1 .. m : w[i] \in Updates
        BY <2>1, <2>2 DEF Lists
      <3>2. QED
        BY <2>5, <3>1, SubSeqProperties DEF Lists
    <2>7. Shape(g)
      BY <2>4, <2>5 DEF Shape, Offsets
    <2>8. ASSUME NEW x \in Inputs, NEW o \in Offsets(os) PROVE Listed(g, o, x) = Listed(os, o, x)
      <3>1. ASSUME NoneAt(g.writes, m, o, x) PROVE Listed(g, o, x) = Content(w, o).at[x]
        <4>1. Listed(g, o, x) = IF o \in DOMAIN g.root.at THEN g.root.at[o].at[x] ELSE 0
          BY <2>6, <3>1, ListedRoot
        <4>2. o \in DOMAIN g.root.at /\ g.root.at[o] = Content(w, o)
          BY <2>5
        <4>3. QED
          BY <4>1, <4>2
      <3>2. CASE NoneAt(w, n, o, x)
        <4>1. NoneAt(g.writes, m, o, x)
          BY <2>6, <3>2 DEF NoneAt
        <4>2. Content(w, o).at[x] = 0
          BY <2>1, <2>2, <2>3, <3>2, ContentListed
        <4>3. Listed(os, o, x) = 0
          BY <2>1, <2>2, <3>2, ListedRoot
        <4>4. QED
          BY <3>1, <4>1, <4>2, <4>3
      <3>3. ASSUME NEW k \in 1 .. n, FirstAt(w, n, o, x, k) PROVE Listed(g, o, x) = Listed(os, o, x)
        <4>1. Listed(os, o, x) = w[k].value.at[x]
          BY <2>1, <2>2, <3>3, ListedFirst
        <4>2. CASE k <= m
          <5>1. FirstAt(g.writes, m, o, x, k)
            BY <2>6, <3>3, <4>2 DEF FirstAt
          <5>2. Listed(g, o, x) = g.writes[k].value.at[x]
            BY <2>6, <5>1, ListedFirst
          <5>3. QED
            BY <2>6, <4>1, <4>2, <5>2
        <4>3. CASE k > m
          <5>1. NoneAt(g.writes, m, o, x)
            BY <2>6, <3>3, <4>3 DEF FirstAt, NoneAt
          <5>2. k \in (m + 1) .. n
            BY <4>3
          <5>3. Content(w, o) = w[k].value
            BY <2>1, <2>2, <2>3, <3>3, <5>2, ContentListed
          <5>4. QED
            BY <3>1, <4>1, <5>1, <5>3
        <4>4. QED
          BY <4>2, <4>3
      <3>4. QED
        BY <2>1, <2>2, <3>2, <3>3, ListedCases
    <2>9. QED
      BY <2>5, <2>7, <2>8
  <1>3. QED
    BY <1>1, <1>2

-----------------------------------------------------------------------------
\* ReadExpr::create, however it simplifies, reads what the list and the array
\* below it hold at the index, for every input for which the index is in bounds.
LEMMA ReadListed ==
  ASSUME NEW os, Shape(os), os.root.kind # "none", NEW index \in Exprs,
         NEW x \in Inputs, index.at[x] \in Offsets(os)
  PROVE  ReadExpr(os, index).at[x] = Listed(os, index.at[x], x)
  <1> DEFINE w == os.writes
             stop == {i \in DOMAIN w : ~EqIsConstant(index, w[i].index) \/ index = w[i].index}
             At(y) == Listed(os, index.at[y], y)
             o == index.at[x]
  <1>1. w \in Lists
    BY DEF Shape, Objects
  <1>2. PICK n \in Nat : n = Len(w) /\ DOMAIN w = 1 .. n
    BY <1>1 DEF Lists
  <1>3. \A i \in 1 .. n : w[i].index \in Exprs /\ w[i].value \in Exprs
    BY <1>1, <1>2, EntryExprs
  <1>4. ASSUME NEW i \in 1 .. n, i \notin stop PROVE w[i].index.at[x] # o
    <2>1. isConst(index) /\ isConst(w[i].index) /\ index # w[i].index
      BY <1>2, <1>4 DEF EqIsConstant
    <2>2. QED
      BY <1>3, <2>1, ConstEqual
  <1>5. ReadExpr(os, index) =
          CASE stop # {} /\ index = w[Min(stop)].index -> w[Min(stop)].value
            [] stop = {} /\ isConst(index) /\ os.root.kind = "constant" -> os.root.at[valueOf(index)]
            [] OTHER -> [const |-> FALSE, at |-> [y \in Inputs |-> At(y)]]
    BY DEF ReadExpr, Listed, Hits
  <1> HIDE DEF At, stop
  <1>6. CASE stop # {} /\ index = w[Min(stop)].index
    <2>1. ReadExpr(os, index) = w[Min(stop)].value
      BY <1>5, <1>6
    <2>2. stop \subseteq 1 .. n /\ stop \subseteq Nat
      BY <1>2 DEF stop
    <2>3. PICK k \in 1 .. n : k = Min(stop) /\ k \in stop /\ \A j \in stop : k <= j
      BY <1>6, <2>2, LeastNatural
    <2>4. \A j \in 1 .. n : j < k => j \notin stop
      BY <2>3
    <2>5. FirstAt(w, n, o, x, k)
      BY <1>4, <1>6, <2>3, <2>4 DEF FirstAt
    <2>6. Listed(os, o, x) = w[k].value.at[x]
      BY <1>1, <1>2, <2>5, ListedFirst
    <2>7. QED
      BY <2>1, <2>3, <2>6
  <1>7. CASE stop = {} /\ isConst(index) /\ os.root.kind = "constant"
    <2>1. ReadExpr(os, index) = os.root.at[valueOf(index)]
      BY <1>5, <1>7
    <2>2. valueOf(index) = o
      BY <1>7, ConstValue
    <2>3. NoneAt(w, n, o, x)
      BY <1>4, <1>7 DEF NoneAt
    <2>4. Listed(os, o, x) = IF o \in DOMAIN os.root.at THEN os.root.at[o].at[x] ELSE 0
      BY <1>1, <1>2, <2>3, ListedRoot
    <2>5. o \in DOMAIN os.root.at
      BY DEF Shape
    <2>6. QED
      BY <2>1, <2>2, <2>4, <2>5
  <1>8. CASE /\ ~(stop # {} /\ index = w[Min(stop)].index)
             /\ ~(stop = {} /\ isConst(index) /\ os.root.kind = "constant")
    <2>1. ReadExpr(os, index) = [const |-> FALSE, at |-> [y \in Inputs |-> At(y)]]
      BY <1>5, <1>8
    <2>2. ReadExpr(os, index).at[x] = At(x)
      BY <2>1
    <2>3. QED
      BY <2>2 DEF At
  <1>9. QED
    BY <1>6, <1>7, <1>8

-----------------------------------------------------------------------------
(* Reads.                                                                    *)

\* What a read leaves of the object: the list or the array below may change, but
\* not what they hold.
Refreshed(os, u) ==
    /\ Shape(u) /\ u.size = os.size /\ u.store = os.store /\ u.symbolic = os.symbolic
    /\ u.known = os.known /\ os.flushed \subseteq u.flushed

\* The object mirrors memory as before if the list does where it is in use.
LEMMA RefreshedMirrors ==
  ASSUME NEW os, NEW u, NEW base, NEW mem, Mirrors(os, base, mem), Refreshed(os, u),
         \A x \in DOMAIN mem, o \in u.flushed : Listed(u, o, x) = mem[x][base + o]
  PROVE  Mirrors(u, base, mem)
  <1>1. Offsets(u) = Offsets(os)
    BY DEF Refreshed, Offsets
  <1>2. CacheInvariant(u)
    BY <1>1 DEF Mirrors, Refreshed, CacheInvariant, isByteConcrete, isByteFlushed, isByteKnownSymbolic
  <1>3. QED
    BY <1>1, <1>2 DEF Mirrors, Refreshed

\* getUpdates alone, for a byte that is only in the list.
LEMMA UpdatesMirror ==
  ASSUME NEW os, NEW base, NEW mem, Mirrors(os, base, mem)
  PROVE  Mirrors(getUpdates(os), base, mem)
  <1> DEFINE g == getUpdates(os)
  <1>1. Shape(os) /\ DOMAIN mem \subseteq Inputs
    BY DEF Mirrors
  <1>2. Refreshed(os, g) /\ g.flushed = os.flushed
        /\ \A x \in Inputs, o \in Offsets(os) : Listed(g, o, x) = Listed(os, o, x)
    BY <1>1, UpdatesKeep DEF Refreshed
  <1> HIDE DEF g
  <1>3. os.flushed \subseteq Offsets(os)
    BY <1>1 DEF Shape
  <1>4. \A x \in DOMAIN mem, o \in g.flushed : Listed(g, o, x) = mem[x][base + o]
    BY <1>1, <1>2, <1>3 DEF Mirrors
  <1>5. QED
    BY <1>2, <1>4, RefreshedMirrors DEF g

\* A flush leaves every byte in the list, as it is in memory.
LEMMA FlushMirrors ==
  ASSUME NEW os, NEW base, NEW mem, Mirrors(os, base, mem), NEW f, f = flushRangeForRead(os)
  PROVE  /\ Mirrors(f, base, mem) /\ f.flushed = Offsets(os) /\ f.size = os.size
         /\ \A x \in DOMAIN mem, o \in Offsets(os) : Listed(f, o, x) = mem[x][base + o]
  <1>1. Shape(os) /\ CacheInvariant(os) /\ DOMAIN mem \subseteq Inputs
    BY DEF Mirrors
  <1>2. Refreshed(os, f) /\ f.flushed = Offsets(os)
    BY <1>1, FlushLists, FlushFields DEF Refreshed, Shape
  <1>3. ASSUME NEW x \in DOMAIN mem, NEW o \in Offsets(os) PROVE Listed(f, o, x) = mem[x][base + o]
    <2>1. Listed(f, o, x) = IF o \in os.flushed THEN Listed(os, o, x) ELSE Cached(os, o).at[x]
      BY <1>1, FlushLists
    <2>2. CASE o \in os.flushed
      BY <2>1, <2>2 DEF Mirrors
    <2>3. CASE o \notin os.flushed /\ o \notin os.symbolic
      <3>1. os.store[o] \in Nat /\ os.store[o] = mem[x][base + o]
        BY <1>1, <2>3 DEF Mirrors, Shape
      <3>2. Cached(os, o) = Const(os.store[o])
        BY <2>3 DEF Cached, isByteConcrete
      <3>3. QED
        BY <1>1, <2>1, <2>3, <3>1, <3>2, ConstExpr
    <2>4. CASE o \notin os.flushed /\ o \in os.symbolic
      <3>1. o \in DOMAIN os.known
        BY <1>1, <2>4 DEF CacheInvariant, isByteFlushed, isByteConcrete, isByteKnownSymbolic
      <3>2. Cached(os, o) = os.known[o]
        BY <2>4 DEF Cached, isByteConcrete
      <3>3. QED
        BY <2>1, <2>4, <3>1, <3>2 DEF Mirrors
    <2>5. QED
      BY <2>2, <2>3, <2>4
  <1>4. QED
    BY <1>2, <1>3, RefreshedMirrors DEF Refreshed

\* ObjectState::read8 at a constant offset returns the byte of memory and leaves an
\* object that mirrors it.
LEMMA Read8Exact ==
  ASSUME NEW os, NEW base, NEW mem, Mirrors(os, base, mem), NEW o \in Offsets(os)
  PROVE  /\ Mirrors(read8(os, o).os, base, mem) /\ read8(os, o).os.size = os.size
         /\ \A x \in DOMAIN mem : read8(os, o).e.at[x] = mem[x][base + o]
  <1>1. Shape(os) /\ CacheInvariant(os) /\ DOMAIN mem \subseteq Inputs /\ o \in Nat
    BY DEF Mirrors, Shape, Offsets, Objects
  <1>2. CASE o \notin os.symbolic
    <2>1. read8(os, o) = [os |-> os, e |-> Const(os.store[o])]
      BY <1>2 DEF read8, isByteConcrete
    <2>2. os.store[o] \in Nat /\ \A x \in DOMAIN mem : os.store[o] = mem[x][base + o]
      BY <1>1, <1>2 DEF Mirrors, Shape
    <2>3. \A x \in Inputs : Const(os.store[o]).at[x] = os.store[o]
      BY <2>2, ConstExpr
    <2>4. QED
      BY <1>1, <2>1, <2>2, <2>3
  <1>3. CASE o \in os.symbolic /\ o \in DOMAIN os.known
    <2>1. read8(os, o) = [os |-> os, e |-> os.known[o]]
      BY <1>3 DEF read8, isByteConcrete, isByteKnownSymbolic
    <2>2. QED
      BY <1>3, <2>1 DEF Mirrors
  <1>4. CASE o \in os.symbolic /\ o \notin DOMAIN os.known
    <2> DEFINE u == getUpdates(os)
    <2>1. read8(os, o) = [os |-> u, e |-> ReadExpr(u, Const(o))]
      BY <1>4 DEF read8, isByteConcrete, isByteKnownSymbolic
    <2>2. Mirrors(u, base, mem)
      BY UpdatesMirror
    <2>3. Shape(u) /\ u.root.kind # "none" /\ u.size = os.size /\ u.flushed = os.flushed
      BY <1>1, UpdatesKeep
    <2> HIDE DEF u
    <2>4. o \in os.flushed
      BY <1>1, <1>4 DEF CacheInvariant, isByteFlushed, isByteConcrete, isByteKnownSymbolic
    <2>5. ASSUME NEW x \in DOMAIN mem PROVE ReadExpr(u, Const(o)).at[x] = mem[x][base + o]
      <3>1. Offsets(u) = Offsets(os)
        BY <2>3 DEF Offsets
      <3>2. x \in Inputs /\ Const(o) \in Exprs /\ Const(o).at[x] = o
        BY <1>1, ConstExpr
      <3>3. ReadExpr(u, Const(o)).at[x] = Listed(u, o, x)
        BY <2>3, <3>1, <3>2, ReadListed
      <3>4. Listed(u, o, x) = mem[x][base + o]
        BY <2>2, <2>3, <2>4, <3>1 DEF Mirrors
      <3>5. QED
        BY <3>3, <3>4
    <2>6. QED
      BY <2>1, <2>2, <2>3, <2>5
  <1>5. QED
    BY <1>2, <1>3, <1>4

\* A read at a symbolic offset returns, for every input for which it is in bounds,
\* the byte that input has there.
LEMMA Read8SymbolicExact ==
  ASSUME NEW os, NEW base, NEW mem, Mirrors(os, base, mem), NEW index \in Exprs
  PROVE  /\ Mirrors(read8Symbolic(os, index).os, base, mem) /\ read8Symbolic(os, index).os.size = os.size
         /\ \A x \in DOMAIN mem : index.at[x] \in Offsets(os) =>
              /\ ReadExpr(getUpdates(flushRangeForRead(os)), index).at[x] = mem[x][base + index.at[x]]
              /\ read8Symbolic(os, index).e.at[x] = mem[x][base + index.at[x]]
  <1> DEFINE f == flushRangeForRead(os)
             u == getUpdates(f)
  <1>1. /\ Mirrors(f, base, mem) /\ f.flushed = Offsets(os) /\ f.size = os.size
        /\ \A x \in DOMAIN mem, o \in Offsets(os) : Listed(f, o, x) = mem[x][base + o]
    BY FlushMirrors
  <1>2. Shape(f) /\ DOMAIN mem \subseteq Inputs /\ Offsets(f) = Offsets(os)
    BY <1>1 DEF Mirrors, Offsets
  <1> HIDE DEF f
  <1>3. Mirrors(u, base, mem)
    BY <1>1, UpdatesMirror
  <1>4. /\ Shape(u) /\ u.root.kind # "none" /\ u.size = f.size
        /\ \A x \in Inputs, o \in Offsets(f) : Listed(u, o, x) = Listed(f, o, x)
    BY <1>2, UpdatesKeep
  <1> HIDE DEF u
  <1>5. read8Symbolic(os, index) = [os |-> u, e |-> ReadExpr(u, index)]
    BY DEF read8Symbolic, u, f
  <1>6. ASSUME NEW x \in DOMAIN mem, index.at[x] \in Offsets(os)
        PROVE  ReadExpr(u, index).at[x] = mem[x][base + index.at[x]]
    <2>1. Offsets(u) = Offsets(os)
      BY <1>2, <1>4 DEF Offsets
    <2>2. ReadExpr(u, index).at[x] = Listed(u, index.at[x], x)
      BY <1>2, <1>4, <1>6, <2>1, ReadListed
    <2>3. QED
      BY <1>1, <1>2, <1>4, <1>6, <2>2
  <1>7. QED
    BY <1>1, <1>3, <1>4, <1>5, <1>6 DEF u, f

-----------------------------------------------------------------------------
(* Writes.                                                                   *)

\* Memory after a native run of every input stored the byte e at its offset.
Stored8(mem, base, index, e) ==
    [x \in DOMAIN mem |-> [a \in DOMAIN mem[x] |-> IF a = base + index.at[x] THEN e.at[x] ELSE mem[x][a]]]

\* The byte stored, and the bytes of the object beside it.
LEMMA StoredBytes ==
  ASSUME NEW os, NEW base \in Nat, NEW mem, Mirrors(os, base, mem), NEW index, NEW e,
         \A x \in DOMAIN mem : index.at[x] \in Offsets(os)
  PROVE  /\ DOMAIN Stored8(mem, base, index, e) = DOMAIN mem
         /\ \A x \in DOMAIN mem, o \in Offsets(os) :
              /\ base + o \in DOMAIN Stored8(mem, base, index, e)[x]
              /\ Stored8(mem, base, index, e)[x][base + o] =
                   IF o = index.at[x] THEN e.at[x] ELSE mem[x][base + o]
  <1>1. Offsets(os) \subseteq Int
    BY DEF Offsets
  <1>2. ASSUME NEW x \in DOMAIN mem, NEW o \in Offsets(os)
        PROVE  base + o \in DOMAIN mem[x] /\ (base + o = base + index.at[x] <=> o = index.at[x])
    BY <1>1 DEF Mirrors
  <1>3. QED
    BY <1>2 DEF Stored8

\* The list holds the same in two objects with the same list and array.
LEMMA SameListed ==
  ASSUME NEW os, NEW f, f.writes = os.writes, f.root = os.root, NEW o, NEW x
  PROVE  Listed(f, o, x) = Listed(os, o, x)
  BY DEF Listed

\* The fields write8 assigns, and no others.
LEMMA Write8Fields ==
  ASSUME NEW os, Shape(os), NEW o \in Offsets(os), NEW e \in Exprs, NEW f, f = write8(os, o, e)
  PROVE  /\ f \in Objects /\ f.size = os.size /\ f.root = os.root /\ f.writes = os.writes
         /\ f.flushed = os.flushed \ {o}
         /\ isConst(e) => /\ f.store = [os.store EXCEPT ![o] = valueOf(e)] /\ f.known = Without(os.known, o)
                          /\ f.symbolic = os.symbolic \ {o}
         /\ ~isConst(e) => /\ f.store = os.store /\ f.known = With(os.known, o, e)
                           /\ f.symbolic = os.symbolic \cup {o}
  <1> DEFINE st == [os.store EXCEPT ![o] = valueOf(e)]
             fewer == Without(os.known, o)
             more == With(os.known, o, e)
             sym == os.symbolic \cup {o}
             conc == os.symbolic \ {o}
             fl == os.flushed \ {o}
  <1>1. os \in Objects /\ o \in Nat /\ Offsets(os) \subseteq Nat /\ os.store \in [Offsets(os) -> Nat]
    BY DEF Shape, Objects, Offsets
  <1>2. sym \in Sets /\ conc \in Sets /\ fl \in Sets
    BY <1>1 DEF Objects, Sets
  <1>3. os.known \in [DOMAIN os.known -> Exprs] /\ DOMAIN os.known \subseteq Nat
    BY <1>1, KnownBytes DEF Objects, Shape
  <1>4. fewer \in Maps
    <2>1. fewer \in [DOMAIN os.known \ {o} -> Exprs] /\ DOMAIN os.known \ {o} \in SUBSET Nat
      BY <1>3 DEF Without
    <2> HIDE DEF fewer
    <2>2. QED
      BY <2>1 DEF Maps
  <1>5. more \in Maps
    <2>1. more \in [DOMAIN os.known \cup {o} -> Exprs] /\ DOMAIN os.known \cup {o} \in SUBSET Nat
      BY <1>1, <1>3 DEF With
    <2> HIDE DEF more
    <2>2. QED
      BY <2>1 DEF Maps
  <1>6. isConst(e) => st \in Bytes
    <2>1. SUFFICES ASSUME isConst(e) PROVE st \in Bytes
      OBVIOUS
    <2>2. st \in [Offsets(os) -> Nat]
      BY <1>1, <2>1, ConstValue
    <2> HIDE DEF st
    <2>3. QED
      BY <1>1, <2>2 DEF Bytes
  <1>7. CASE isConst(e)
    <2>1. f = [os EXCEPT !.store[o] = valueOf(e), !.known = fewer, !.symbolic = conc, !.flushed = fl]
      BY <1>7 DEF write8
    <2> HIDE DEF fewer, conc, fl
    <2>2. f = [os EXCEPT !.store = st, !.known = fewer, !.symbolic = conc, !.flushed = fl]
      BY <1>1, <2>1 DEF Objects
    <2> HIDE DEF st
    <2>3. /\ f \in Objects /\ f.size = os.size /\ f.root = os.root /\ f.writes = os.writes
          /\ f.flushed = fl /\ f.store = st /\ f.known = fewer /\ f.symbolic = conc
      BY <1>1, <1>2, <1>4, <1>6, <1>7, <2>2 DEF Objects
    <2>4. QED
      BY <1>7, <2>3 DEF fewer, conc, fl, st
  <1>8. CASE ~isConst(e)
    <2>1. f = [os EXCEPT !.known = more, !.symbolic = sym, !.flushed = fl]
      BY <1>8 DEF write8
    <2> HIDE DEF more, sym, fl
    <2>2. /\ f \in Objects /\ f.size = os.size /\ f.root = os.root /\ f.writes = os.writes
          /\ f.flushed = fl /\ f.store = os.store /\ f.known = more /\ f.symbolic = sym
      BY <1>1, <1>2, <1>5, <2>1 DEF Objects
    <2>3. QED
      BY <1>8, <2>2 DEF more, sym, fl
  <1>9. QED
    BY <1>7, <1>8

\* ObjectState::write8 at a constant offset, of a constant or a symbolic byte.
LEMMA Write8Mirrors ==
  ASSUME NEW os, NEW base \in Nat, NEW mem, Mirrors(os, base, mem), NEW o \in Offsets(os), NEW e \in Exprs
  PROVE  /\ Mirrors(write8(os, o, e), base, Stored8(mem, base, Const(o), e))
         /\ write8(os, o, e).size = os.size
  <1> DEFINE f == write8(os, o, e)
             mm == Stored8(mem, base, Const(o), e)
  <1>1. Shape(os) /\ CacheInvariant(os) /\ DOMAIN mem \subseteq Inputs /\ o \in Nat
    BY DEF Mirrors, Shape, Offsets, Objects
  <1>2. /\ f \in Objects /\ f.size = os.size /\ f.root = os.root /\ f.writes = os.writes
        /\ f.flushed = os.flushed \ {o}
        /\ isConst(e) => /\ f.store = [os.store EXCEPT ![o] = valueOf(e)] /\ f.known = Without(os.known, o)
                         /\ f.symbolic = os.symbolic \ {o}
        /\ ~isConst(e) => /\ f.store = os.store /\ f.known = With(os.known, o, e)
                          /\ f.symbolic = os.symbolic \cup {o}
    BY <1>1, Write8Fields
  <1>3. \A x \in DOMAIN mem : Const(o).at[x] = o
    BY <1>1, ConstExpr
  <1>4. /\ DOMAIN mm = DOMAIN mem
        /\ \A x \in DOMAIN mem, p \in Offsets(os) :
             /\ base + p \in DOMAIN mm[x]
             /\ mm[x][base + p] = IF p = o THEN e.at[x] ELSE mem[x][base + p]
    BY <1>3, StoredBytes
  <1> HIDE DEF f, mm
  <1>5. Offsets(f) = Offsets(os) /\ f.flushed \subseteq Offsets(os)
    BY <1>1, <1>2 DEF Offsets, Shape
  <1>6. \A x, p : Listed(f, p, x) = Listed(os, p, x)
    BY <1>2, SameListed
  <1>7. CASE isConst(e)
    <2>1. valueOf(e) \in Nat /\ \A x \in Inputs : e.at[x] = valueOf(e)
      BY <1>7, ConstValue
    <2>2. DOMAIN f.known = DOMAIN os.known \ {o} /\ \A p \in DOMAIN f.known : f.known[p] = os.known[p]
      BY <1>2, <1>7 DEF Without
    <2>3. /\ f.store \in [Offsets(os) -> Nat] /\ f.store[o] = valueOf(e)
          /\ \A p \in Offsets(os) : p # o => f.store[p] = os.store[p]
      BY <1>1, <1>2, <1>7, <2>1 DEF Shape
    <2>4. f.symbolic = os.symbolic \ {o}
      BY <1>2, <1>7
    <2>5. Shape(f)
      BY <1>1, <1>2, <1>5, <2>2, <2>3, <2>4 DEF Shape
    <2>6. CacheInvariant(f)
      BY <1>1, <1>2, <1>5, <2>2, <2>4 DEF CacheInvariant, isByteConcrete, isByteFlushed, isByteKnownSymbolic
    <2>7. ASSUME NEW x \in DOMAIN mem, NEW p \in Offsets(os)
          PROVE  /\ p \notin f.symbolic => f.store[p] = mm[x][base + p]
                 /\ p \in DOMAIN f.known => f.known[p].at[x] = mm[x][base + p]
                 /\ p \in f.flushed => Listed(f, p, x) = mm[x][base + p]
      <3>1. CASE p = o
        BY <1>1, <1>2, <1>4, <2>1, <2>2, <2>3, <2>4, <3>1
      <3>2. CASE p # o
        <4>1. mm[x][base + p] = mem[x][base + p] /\ Listed(f, p, x) = Listed(os, p, x)
          BY <1>4, <1>6, <3>2
        <4>2. QED
          BY <1>2, <2>2, <2>3, <2>4, <3>2, <4>1 DEF Mirrors
      <3>3. QED
        BY <3>1, <3>2
    <2>8. QED
      BY <1>1, <1>2, <1>4, <1>5, <2>5, <2>6, <2>7 DEF Mirrors, f, mm
  <1>8. CASE ~isConst(e)
    <2>1. /\ DOMAIN f.known = DOMAIN os.known \cup {o} /\ f.known[o] = e
          /\ \A p \in DOMAIN os.known : p # o => f.known[p] = os.known[p]
      BY <1>2, <1>8 DEF With
    <2>2. f.store = os.store /\ f.symbolic = os.symbolic \cup {o}
      BY <1>2, <1>8
    <2>3. Shape(f)
      BY <1>1, <1>2, <1>5, <2>1, <2>2 DEF Shape
    <2>4. CacheInvariant(f)
      BY <1>1, <1>2, <1>5, <2>1, <2>2 DEF CacheInvariant, isByteConcrete, isByteFlushed, isByteKnownSymbolic
    <2>5. ASSUME NEW x \in DOMAIN mem, NEW p \in Offsets(os)
          PROVE  /\ p \notin f.symbolic => f.store[p] = mm[x][base + p]
                 /\ p \in DOMAIN f.known => f.known[p].at[x] = mm[x][base + p]
                 /\ p \in f.flushed => Listed(f, p, x) = mm[x][base + p]
      <3>1. CASE p = o
        BY <1>2, <1>4, <2>1, <2>2, <3>1
      <3>2. CASE p # o
        <4>1. mm[x][base + p] = mem[x][base + p] /\ Listed(f, p, x) = Listed(os, p, x)
          BY <1>4, <1>6, <3>2
        <4>2. QED
          BY <1>2, <2>1, <2>2, <3>2, <4>1 DEF Mirrors
      <3>3. QED
        BY <3>1, <3>2
    <2>6. QED
      BY <1>1, <1>2, <1>4, <1>5, <2>3, <2>4, <2>5 DEF Mirrors, f, mm
  <1>9. QED
    BY <1>7, <1>8

\* The map of known bytes when none is.
LEMMA NothingKnown == Nothing \in Maps /\ DOMAIN Nothing = {}
  <1>1. Nothing \in [{} -> Exprs] /\ DOMAIN Nothing = {}
    BY DEF Nothing
  <1>2. {} \in SUBSET Nat
    OBVIOUS
  <1>3. QED
    BY <1>1, <1>2 DEF Maps

\* The fields write8 at a symbolic offset assigns, and no others.
LEMMA Write8SymbolicFields ==
  ASSUME NEW os, Shape(os), NEW r, r = flushRangeForRead(os), Shape(r), r.size = os.size,
         NEW index \in Exprs, NEW e \in Exprs, NEW g, g = write8Symbolic(os, index, e)
  PROVE  /\ g \in Objects /\ g.size = r.size /\ g.store = r.store /\ g.root = r.root /\ g.known = Nothing
         /\ g.symbolic = Offsets(os) /\ g.flushed = r.flushed
         /\ g.writes = <<UpdateNode(index, e)>> \o r.writes
  <1> DEFINE node == UpdateNode(index, e)
             W == <<node>> \o r.writes
             O == Offsets(os)
             none == Nothing
             f == [r EXCEPT !.symbolic = O, !.known = none]
  <1>1. r \in Objects /\ os \in Objects /\ r.writes \in Lists /\ none \in Maps
    BY NothingKnown DEF Shape, Objects
  <1>2. O \in Sets
    BY <1>1 DEF Offsets, Objects, Sets
  <1>3. W \in Lists
    <2>1. node \in Updates
      BY DEF UpdateNode, Updates
    <2> HIDE DEF node
    <2>2. <<node>> \in Seq(Updates) /\ r.writes \in Seq(Updates)
      BY <1>1, <2>1 DEF Lists
    <2>3. QED
      BY <2>2, ConcatProperties DEF Lists
  <1>4. f = flushRangeForWrite(os)
    BY DEF flushRangeForWrite
  <1> HIDE DEF O, none
  <1>5. /\ f \in Objects /\ f.size = r.size /\ f.store = r.store /\ f.root = r.root /\ f.known = none
        /\ f.symbolic = O /\ f.flushed = r.flushed /\ f.writes = r.writes
    BY <1>1, <1>2 DEF Objects
  <1> HIDE DEF f
  <1>6. g = [f EXCEPT !.writes = W]
    BY <1>4, <1>5 DEF write8Symbolic
  <1> HIDE DEF W
  <1>7. /\ g \in Objects /\ g.size = f.size /\ g.store = f.store /\ g.root = f.root /\ g.known = f.known
        /\ g.symbolic = f.symbolic /\ g.flushed = f.flushed /\ g.writes = W
    BY <1>3, <1>5, <1>6 DEF Objects
  <1>8. QED
    BY <1>5, <1>7 DEF O, none, W, node

\* The list with a write in front.
LEMMA PrependList ==
  ASSUME NEW w \in Lists, NEW index \in Exprs, NEW e \in Exprs
  PROVE  LET v == <<UpdateNode(index, e)>> \o w
         IN  /\ v \in Lists /\ Len(v) = Len(w) + 1 /\ v[1].index = index /\ v[1].value = e
             /\ \A i \in 1 .. Len(w) : v[i + 1] = w[i]
  <1> DEFINE node == UpdateNode(index, e)
  <1>1. node \in Updates /\ node.index = index /\ node.value = e
    BY DEF UpdateNode, Updates
  <1> HIDE DEF node
  <1>2. PICK n \in Nat : n = Len(w)
    BY DEF Lists
  <1>3. <<node>> \in Seq(Updates) /\ w \in Seq(Updates) /\ Len(<<node>>) = 1 /\ <<node>>[1] = node
    BY <1>1 DEF Lists
  <1>4. /\ <<node>> \o w \in Lists /\ Len(<<node>> \o w) = n + 1 /\ (<<node>> \o w)[1] = node
        /\ \A i \in 1 .. n : (<<node>> \o w)[i + 1] = w[i]
    BY <1>2, <1>3, ConcatProperties DEF Lists
  <1>5. QED
    BY <1>1, <1>2, <1>4 DEF node

\* A write put in front of the list changes what it holds at its index, for each
\* input at the offset the index has for it.
LEMMA ListedPrepend ==
  ASSUME NEW r, r.writes \in Lists, NEW g, g.writes \in Lists, g.root = r.root,
         Len(g.writes) = Len(r.writes) + 1,
         \A i \in 1 .. Len(r.writes) : g.writes[i + 1] = r.writes[i], NEW o, NEW x
  PROVE  Listed(g, o, x) = IF o = g.writes[1].index.at[x] THEN g.writes[1].value.at[x] ELSE Listed(r, o, x)
  <1> DEFINE w == r.writes
             index == g.writes[1].index
             e == g.writes[1].value
  <1>1. PICK n \in Nat, l \in Nat : n = Len(w) /\ l = n + 1 /\ l = Len(g.writes)
    BY DEF Lists
  <1>6. CASE o = index.at[x]
    <2>1. FirstAt(g.writes, l, o, x, 1)
      BY <1>1, <1>6 DEF FirstAt
    <2>2. QED
      <3>1. Listed(g, o, x) = g.writes[1].value.at[x]
        BY <1>1, <2>1, ListedFirst
      <3>2. QED
        BY <1>1, <1>6, <3>1
  <1>7. CASE o # index.at[x]
    <2>1. \A j \in 1 .. l : j = 1 \/ \E i \in 1 .. n : j = i + 1
      <3>1. SUFFICES ASSUME NEW j \in 1 .. l, j # 1 PROVE \E i \in 1 .. n : j = i + 1
        BY <1>1
      <3>2. j - 1 \in 1 .. n /\ j = (j - 1) + 1
        BY <1>1, <3>1
      <3>3. QED
        BY <1>1, <3>2
    <2>2. CASE NoneAt(w, n, o, x)
      <3>1. NoneAt(g.writes, l, o, x)
        BY <1>1, <1>7, <2>1, <2>2 DEF NoneAt
      <3>2. Listed(g, o, x) = IF o \in DOMAIN g.root.at THEN g.root.at[o].at[x] ELSE 0
        BY <1>1, <3>1, ListedRoot
      <3>3. Listed(r, o, x) = IF o \in DOMAIN r.root.at THEN r.root.at[o].at[x] ELSE 0
        BY <1>1, <2>2, ListedRoot
      <3>4. QED
        BY <1>1, <1>7, <3>2, <3>3
    <2>3. ASSUME NEW k \in 1 .. n, FirstAt(w, n, o, x, k) PROVE Listed(g, o, x) = Listed(r, o, x)
      <3>1. Listed(r, o, x) = w[k].value.at[x]
        BY <1>1, <2>3, ListedFirst
      <3>2. PICK q \in 1 .. l : q = k + 1 /\ g.writes[q] = w[k]
        BY <1>1
      <3>3. FirstAt(g.writes, l, o, x, q)
        <4>1. g.writes[q].index.at[x] = o
          BY <1>1, <2>3, <3>2 DEF FirstAt
        <4>2. ASSUME NEW j \in 1 .. l, j < q PROVE g.writes[j].index.at[x] # o
          <5>1. CASE j = 1
            BY <1>1, <1>7, <5>1
          <5>2. ASSUME NEW i \in 1 .. n, j = i + 1 PROVE g.writes[j].index.at[x] # o
            <6>1. i < k
              BY <1>1, <3>2, <4>2, <5>2
            <6>2. QED
              BY <1>1, <2>3, <5>2, <6>1 DEF FirstAt
          <5>3. QED
            BY <1>1, <2>1, <5>1, <5>2
        <4>3. QED
          BY <1>1, <4>1, <4>2 DEF FirstAt
      <3>4. Listed(g, o, x) = g.writes[q].value.at[x]
        BY <1>1, <3>3, ListedFirst
      <3>5. QED
        BY <1>1, <3>1, <3>2, <3>4
    <2>4. QED
      BY <1>1, <1>7, <2>2, <2>3, ListedCases
  <1>8. QED
    BY <1>1, <1>6, <1>7

\* ObjectState::write8 at a symbolic offset that is in bounds for every input.
LEMMA Write8SymbolicMirrors ==
  ASSUME NEW os, NEW base \in Nat, NEW mem, Mirrors(os, base, mem), NEW index \in Exprs, NEW e \in Exprs,
         \A x \in DOMAIN mem : index.at[x] \in Offsets(os)
  PROVE  /\ Mirrors(write8Symbolic(os, index, e), base, Stored8(mem, base, index, e))
         /\ write8Symbolic(os, index, e).size = os.size
  <1> DEFINE g == write8Symbolic(os, index, e)
             mm == Stored8(mem, base, index, e)
  <1>0. PICK r : r = flushRangeForRead(os)
    OBVIOUS
  <1>1. Shape(os) /\ CacheInvariant(os) /\ DOMAIN mem \subseteq Inputs
    BY DEF Mirrors
  <1>2. /\ Mirrors(r, base, mem) /\ r.flushed = Offsets(os) /\ r.size = os.size
        /\ \A x \in DOMAIN mem, o \in Offsets(os) : Listed(r, o, x) = mem[x][base + o]
    BY <1>0, FlushMirrors
  <1>3. Shape(r) /\ r.writes \in Lists
    BY <1>2 DEF Mirrors, Shape, Objects
  <1>4. /\ g \in Objects /\ g.size = r.size /\ g.store = r.store /\ g.root = r.root /\ g.known = Nothing
        /\ g.symbolic = Offsets(os) /\ g.flushed = r.flushed
        /\ g.writes = <<UpdateNode(index, e)>> \o r.writes
    BY <1>1, <1>2, <1>3, <1>0, Write8SymbolicFields
  <1>5. /\ DOMAIN mm = DOMAIN mem
        /\ \A x \in DOMAIN mem, o \in Offsets(os) :
             /\ base + o \in DOMAIN mm[x]
             /\ mm[x][base + o] = IF o = index.at[x] THEN e.at[x] ELSE mem[x][base + o]
    BY StoredBytes
  <1> HIDE DEF g, mm
  <1>6. \A o, x : Listed(g, o, x) = IF o = index.at[x] THEN e.at[x] ELSE Listed(r, o, x)
    <2>1. PICK n \in Nat, l \in Nat : n = Len(r.writes) /\ l = n + 1
      BY <1>3 DEF Lists
    <2>2. /\ g.writes \in Lists /\ l = Len(g.writes) /\ g.writes[1].index = index /\ g.writes[1].value = e
          /\ \A i \in 1 .. n : g.writes[i + 1] = r.writes[i]
      BY <1>3, <1>4, <2>1, PrependList
    <2>3. r.writes \in Lists /\ g.root = r.root
      BY <1>3, <1>4
    <2>4. QED
      <3>1. Len(g.writes) = Len(r.writes) + 1 /\ \A i \in 1 .. Len(r.writes) : g.writes[i + 1] = r.writes[i]
        BY <2>1, <2>2
      <3>2. \A o, x : Listed(g, o, x) = IF o = g.writes[1].index.at[x] THEN g.writes[1].value.at[x] ELSE Listed(r, o, x)
        BY <2>2, <2>3, <3>1, ListedPrepend
      <3>3. QED
        BY <2>2, <3>2
  <1>7. Offsets(g) = Offsets(os) /\ Offsets(r) = Offsets(os)
    BY <1>2, <1>4 DEF Offsets
  <1>8. DOMAIN g.known = {}
    BY <1>4, NothingKnown
  <1>9. Shape(g)
    BY <1>2, <1>3, <1>4, <1>7, <1>8 DEF Shape
  <1>10. CacheInvariant(g)
    BY <1>2, <1>4, <1>7, <1>8 DEF CacheInvariant, isByteConcrete, isByteFlushed, isByteKnownSymbolic
  <1>11. ASSUME NEW x \in DOMAIN mem, NEW o \in Offsets(os)
         PROVE  o \in g.symbolic /\ o \notin DOMAIN g.known /\ Listed(g, o, x) = mm[x][base + o]
    BY <1>2, <1>4, <1>5, <1>6, <1>8
  <1>12. QED
    BY <1>1, <1>2, <1>4, <1>5, <1>7, <1>9, <1>10, <1>11 DEF Mirrors, g, mm

-----------------------------------------------------------------------------
(* Values of several bytes.                                                  *)

\* The object after each byte of a write, and of a read.
Written(os, offset, value, n, left) ==
    left = [i \in 0 .. n |-> IF i = 0 THEN os ELSE writeByte(left[i - 1], offset, i - 1, value[i])]
ReadOff(os, offset, n, left) ==
    left = [i \in 0 .. n |-> IF i = 0 THEN os ELSE readByte(left[i - 1], offset, i - 1).os]

\* There are such objects, for any number of bytes: a least number for which
\* there are not would be 0 or follow one for which there are.
LEMMA WrittenExists ==
  ASSUME NEW os, NEW offset, NEW value, NEW n \in Nat
  PROVE  \E left : Written(os, offset, value, n, left)
  <1> DEFINE S == {k \in Nat : ~\E left : Written(os, offset, value, k, left)}
  <1>1. SUFFICES ASSUME S # {} PROVE FALSE
    OBVIOUS
  <1>2. PICK k \in S : \A j \in S : k <= j
    <2>1. S \subseteq Nat
      OBVIOUS
    <2> HIDE DEF S
    <2>2. QED
      BY <1>1, <2>1, LeastNatural
  <1>3. k \in Nat /\ ~\E left : Written(os, offset, value, k, left)
    OBVIOUS
  <1>4. CASE k = 0
    <2>1. Written(os, offset, value, 0, [i \in 0 .. 0 |-> os])
      BY DEF Written
    <2>2. QED
      BY <1>3, <1>4, <2>1
  <1>5. CASE k # 0
    <2>1. PICK p \in Nat : k = p + 1
      BY <1>3, <1>5
    <2>2. PICK c : Written(os, offset, value, p, c)
      BY <1>2, <2>1
    <2> DEFINE last == writeByte(c[p], offset, p, value[k])
               d == [i \in 0 .. k |-> IF i = k THEN last ELSE c[i]]
    <2>3. Written(os, offset, value, k, d)
      <3>1. \A i \in 0 .. p : c[i] = IF i = 0 THEN os ELSE writeByte(c[i - 1], offset, i - 1, value[i])
        BY <2>2 DEF Written
      <3>2. \A i \in 0 .. k : i = k \/ i \in 0 .. p
        BY <2>1
      <3>3. ASSUME NEW i \in 0 .. p PROVE d[i] = IF i = 0 THEN os ELSE writeByte(d[i - 1], offset, i - 1, value[i])
        <4>1. i # k /\ i \in 0 .. k /\ d[i] = c[i]
          BY <2>1
        <4>2. i # 0 => i - 1 \in 0 .. k /\ i - 1 # k /\ d[i - 1] = c[i - 1]
          BY <2>1
        <4>3. QED
          BY <3>1, <4>1, <4>2
      <3>4. d[k] = writeByte(d[k - 1], offset, k - 1, value[k])
        BY <2>1
      <3>5. ASSUME NEW i \in 0 .. k PROVE d[i] = IF i = 0 THEN os ELSE writeByte(d[i - 1], offset, i - 1, value[i])
        BY <1>5, <3>2, <3>3, <3>4
      <3>6. d = [i \in 0 .. k |-> d[i]]
        OBVIOUS
      <3> HIDE DEF d
      <3>7. QED
        BY <3>5, <3>6 DEF Written
    <2>4. QED
      BY <1>3, <2>3
  <1>6. QED
    BY <1>4, <1>5

\* The same of reads.
LEMMA ReadOffExists ==
  ASSUME NEW os, NEW offset, NEW n \in Nat
  PROVE  \E left : ReadOff(os, offset, n, left)
  <1> DEFINE S == {k \in Nat : ~\E left : ReadOff(os, offset, k, left)}
  <1>1. SUFFICES ASSUME S # {} PROVE FALSE
    OBVIOUS
  <1>2. PICK k \in S : \A j \in S : k <= j
    <2>1. S \subseteq Nat
      OBVIOUS
    <2> HIDE DEF S
    <2>2. QED
      BY <1>1, <2>1, LeastNatural
  <1>3. k \in Nat /\ ~\E left : ReadOff(os, offset, k, left)
    OBVIOUS
  <1>4. CASE k = 0
    <2>1. ReadOff(os, offset, 0, [i \in 0 .. 0 |-> os])
      BY DEF ReadOff
    <2>2. QED
      BY <1>3, <1>4, <2>1
  <1>5. CASE k # 0
    <2>1. PICK p \in Nat : k = p + 1
      BY <1>3, <1>5
    <2>2. PICK c : ReadOff(os, offset, p, c)
      BY <1>2, <2>1
    <2> DEFINE last == readByte(c[p], offset, p).os
               d == [i \in 0 .. k |-> IF i = k THEN last ELSE c[i]]
    <2>3. ReadOff(os, offset, k, d)
      <3>1. \A i \in 0 .. p : c[i] = IF i = 0 THEN os ELSE readByte(c[i - 1], offset, i - 1).os
        BY <2>2 DEF ReadOff
      <3>2. \A i \in 0 .. k : i = k \/ i \in 0 .. p
        BY <2>1
      <3>3. ASSUME NEW i \in 0 .. p PROVE d[i] = IF i = 0 THEN os ELSE readByte(d[i - 1], offset, i - 1).os
        <4>1. i # k /\ i \in 0 .. k /\ d[i] = c[i]
          BY <2>1
        <4>2. i # 0 => i - 1 \in 0 .. k /\ i - 1 # k /\ d[i - 1] = c[i - 1]
          BY <2>1
        <4>3. QED
          BY <3>1, <4>1, <4>2
      <3>4. d[k] = readByte(d[k - 1], offset, k - 1).os
        BY <2>1
      <3>5. ASSUME NEW i \in 0 .. k PROVE d[i] = IF i = 0 THEN os ELSE readByte(d[i - 1], offset, i - 1).os
        BY <1>5, <3>2, <3>3, <3>4
      <3>6. d = [i \in 0 .. k |-> d[i]]
        OBVIOUS
      <3> HIDE DEF d
      <3>7. QED
        BY <3>5, <3>6 DEF ReadOff
    <2>4. QED
      BY <1>3, <2>3
  <1>6. QED
    BY <1>4, <1>5

\* writeBytes is the last of them.
LEMMA WriteBytesChain ==
  ASSUME NEW os, NEW offset, NEW value, Len(value) \in Nat
  PROVE  \E left : Written(os, offset, value, Len(value), left) /\ writeBytes(os, offset, value) = left[Len(value)]
  <1> DEFINE n == Len(value)
             c == CHOOSE left : Written(os, offset, value, n, left)
  <1>1. Written(os, offset, value, n, c)
    BY WrittenExists
  <1>2. writeBytes(os, offset, value) = c[n]
    BY DEF writeBytes, Written
  <1> HIDE DEF c
  <1>3. QED
    BY <1>1, <1>2

\* readBytes returns the last, and each byte as read from the one before.
ReadFrom(os, offset, n, left) ==
    /\ ReadOff(os, offset, n, left)
    /\ readBytes(os, offset, n) =
         [os |-> left[n], value |-> [i \in 1 .. n |-> readByte(left[i - 1], offset, i - 1).e]]

\* There are such objects.
LEMMA ReadBytesChain ==
  ASSUME NEW os, NEW offset, NEW n \in Nat
  PROVE  \E left : ReadFrom(os, offset, n, left)
  <1> DEFINE c == CHOOSE left : ReadOff(os, offset, n, left)
  <1>1. ReadOff(os, offset, n, c)
    BY ReadOffExists
  <1>2. readBytes(os, offset, n) =
          [os |-> c[n], value |-> [i \in 1 .. n |-> readByte(c[i - 1], offset, i - 1).e]]
    BY DEF readBytes, ReadOff
  <1> HIDE DEF c
  <1>3. QED
    BY <1>1, <1>2 DEF ReadFrom

\* Fewer inputs, and the same bytes in the extent of the object.
LEMMA MovesOnMirrors ==
  ASSUME NEW os, NEW base, NEW mem, Mirrors(os, base, mem), NEW mm, DOMAIN mm \subseteq DOMAIN mem, DOMAIN mm # {},
         \A x \in DOMAIN mm, o \in Offsets(os) : base + o \in DOMAIN mm[x] /\ mm[x][base + o] = mem[x][base + o]
  PROVE  Mirrors(os, base, mm)
  BY DEF Mirrors

\* The offset of a byte of a value.
LEMMA PlusExpr ==
  ASSUME NEW offset \in Exprs, NEW k \in Nat
  PROVE  /\ Plus(offset, k) \in Exprs
         /\ \A x \in Inputs : Plus(offset, k).at[x] = offset.at[x] + k
  BY DEF Plus, Exprs

\* One byte of a read, at an offset that is in bounds if it is constant.
LEMMA ReadByteExact ==
  ASSUME NEW os, NEW base, NEW mem, Mirrors(os, base, mem), NEW offset \in Exprs, NEW k \in Nat,
         isConst(offset) => valueOf(offset) + k \in Offsets(os)
  PROVE  /\ Mirrors(readByte(os, offset, k).os, base, mem) /\ readByte(os, offset, k).os.size = os.size
         /\ \A x \in DOMAIN mem : offset.at[x] + k \in Offsets(os) =>
              readByte(os, offset, k).e.at[x] = mem[x][base + (offset.at[x] + k)]
  <1>1. DOMAIN mem \subseteq Inputs
    BY DEF Mirrors
  <1>2. CASE isConst(offset)
    <2>1. PICK o \in Offsets(os) : o = valueOf(offset) + k
      BY <1>2
    <2>2. readByte(os, offset, k) = read8(os, o)
      BY <1>2, <2>1 DEF readByte
    <2>3. \A x \in DOMAIN mem : offset.at[x] + k = o
      BY <1>1, <1>2, <2>1, ConstValue
    <2>4. /\ Mirrors(read8(os, o).os, base, mem) /\ read8(os, o).os.size = os.size
          /\ \A x \in DOMAIN mem : read8(os, o).e.at[x] = mem[x][base + o]
      BY Read8Exact
    <2>5. QED
      BY <2>2, <2>3, <2>4
  <1>3. CASE ~isConst(offset)
    <2>1. PICK index \in Exprs : index = Plus(offset, k) /\ \A x \in Inputs : index.at[x] = offset.at[x] + k
      BY PlusExpr
    <2>2. readByte(os, offset, k) = read8Symbolic(os, index)
      BY <1>3, <2>1 DEF readByte
    <2>3. /\ Mirrors(read8Symbolic(os, index).os, base, mem) /\ read8Symbolic(os, index).os.size = os.size
          /\ \A x \in DOMAIN mem : index.at[x] \in Offsets(os) =>
               read8Symbolic(os, index).e.at[x] = mem[x][base + index.at[x]]
      BY Read8SymbolicExact
    <2>4. QED
      BY <1>1, <2>1, <2>2, <2>3
  <1>4. QED
    BY <1>2, <1>3

\* One byte of a write, in bounds for every input of the path.
LEMMA WriteByteMirrors ==
  ASSUME NEW os, NEW base \in Nat, NEW mem, Mirrors(os, base, mem), NEW offset \in Exprs, NEW k \in Nat,
         NEW e \in Exprs, \A x \in DOMAIN mem : offset.at[x] + k \in Offsets(os)
  PROVE  /\ Mirrors(writeByte(os, offset, k, e), base, Stored8(mem, base, Plus(offset, k), e))
         /\ writeByte(os, offset, k, e).size = os.size
  <1>1. DOMAIN mem \subseteq Inputs /\ DOMAIN mem # {}
    BY DEF Mirrors
  <1>2. PICK index \in Exprs : index = Plus(offset, k) /\ \A x \in Inputs : index.at[x] = offset.at[x] + k
    BY PlusExpr
  <1>3. CASE isConst(offset)
    <2>1. PICK o \in Offsets(os) : o = valueOf(offset) + k
      <3>1. PICK x \in DOMAIN mem : TRUE
        BY <1>1
      <3>2. offset.at[x] = valueOf(offset)
        BY <1>1, <1>3, ConstValue
      <3>3. QED
        BY <3>2
    <2>2. \A x \in DOMAIN mem : index.at[x] = o /\ Const(o).at[x] = o
      <3>1. o \in Nat
        BY DEF Mirrors, Shape, Objects, Offsets
      <3>2. \A x \in Inputs : offset.at[x] = valueOf(offset)
        BY <1>3, ConstValue
      <3>3. QED
        BY <1>1, <1>2, <2>1, <3>1, <3>2, ConstExpr
    <2>3. Stored8(mem, base, Const(o), e) = Stored8(mem, base, index, e)
      BY <2>2 DEF Stored8
    <2>4. writeByte(os, offset, k, e) = write8(os, o, e)
      BY <1>3, <2>1 DEF writeByte
    <2>5. Mirrors(write8(os, o, e), base, Stored8(mem, base, Const(o), e)) /\ write8(os, o, e).size = os.size
      BY Write8Mirrors
    <2>6. QED
      BY <1>2, <2>3, <2>4, <2>5
  <1>4. CASE ~isConst(offset)
    <2>1. writeByte(os, offset, k, e) = write8Symbolic(os, index, e)
      BY <1>2, <1>4 DEF writeByte
    <2>2. \A x \in DOMAIN mem : index.at[x] \in Offsets(os)
      BY <1>1, <1>2
    <2>3. /\ Mirrors(write8Symbolic(os, index, e), base, Stored8(mem, base, index, e))
          /\ write8Symbolic(os, index, e).size = os.size
      BY <2>2, Write8SymbolicMirrors
    <2>4. QED
      BY <1>2, <2>1, <2>3
  <1>5. QED
    BY <1>3, <1>4

\* Memory after the first k bytes of value were stored at the offset.
Stored(mem, base, offset, value, k) ==
    [x \in DOMAIN mem |->
        [a \in DOMAIN mem[x] |->
            IF a - (base + offset.at[x]) \in 0 .. (k - 1) THEN value[a - (base + offset.at[x]) + 1].at[x]
            ELSE mem[x][a]]]

\* The bytes of the object in it.
LEMMA StoredFirst ==
  ASSUME NEW os, NEW base \in Nat, NEW mem, Mirrors(os, base, mem), NEW offset \in Exprs, NEW value, NEW k \in Nat
  PROVE  /\ DOMAIN Stored(mem, base, offset, value, k) = DOMAIN mem
         /\ \A x \in DOMAIN mem, o \in Offsets(os) :
              /\ base + o \in DOMAIN Stored(mem, base, offset, value, k)[x]
              /\ Stored(mem, base, offset, value, k)[x][base + o] =
                   IF o - offset.at[x] \in 0 .. (k - 1) THEN value[o - offset.at[x] + 1].at[x] ELSE mem[x][base + o]
  <1> DEFINE mm == Stored(mem, base, offset, value, k)
  <1>1. ASSUME NEW x \in DOMAIN mem, NEW o \in Offsets(os)
        PROVE  /\ base + o \in DOMAIN mm[x]
               /\ mm[x][base + o] =
                    IF o - offset.at[x] \in 0 .. (k - 1) THEN value[o - offset.at[x] + 1].at[x] ELSE mem[x][base + o]
    <2>1. offset.at[x] \in Nat /\ o \in Int
      BY DEF Mirrors, Exprs, Offsets
    <2>2. PICK a \in DOMAIN mem[x] : a = base + o
      BY DEF Mirrors
    <2>3. PICK d : d = o - offset.at[x] /\ d = a - (base + offset.at[x])
      BY <2>1, <2>2
    <2>4. a \in DOMAIN mm[x]
          /\ mm[x][a] = IF a - (base + offset.at[x]) \in 0 .. (k - 1)
                        THEN value[a - (base + offset.at[x]) + 1].at[x] ELSE mem[x][a]
      BY DEF Stored
    <2> HIDE DEF mm
    <2>5. a \in DOMAIN mm[x] /\ mm[x][a] = IF d \in 0 .. (k - 1) THEN value[d + 1].at[x] ELSE mem[x][a]
      BY <2>3, <2>4, Zenon
    <2>6. QED
      BY <2>2, <2>3, <2>5, Zenon
  <1>2. DOMAIN mm = DOMAIN mem
    BY DEF Stored
  <1>3. QED
    BY <1>1, <1>2

\* Nothing stored yet.
LEMMA StoredNone ==
  ASSUME NEW os, NEW base, NEW mem, Mirrors(os, base, mem), NEW offset, NEW value
  PROVE  Mirrors(os, base, Stored(mem, base, offset, value, 0))
  <1>1. 0 .. (0 - 1) = {}
    OBVIOUS
  <1>2. PICK no : no = 0 .. (0 - 1) /\ no = {}
    BY <1>1
  <1>3. PICK m0 : m0 = Stored(mem, base, offset, value, 0)
    OBVIOUS
  <1>4. m0 = [x \in DOMAIN mem |->
                [a \in DOMAIN mem[x] |->
                    IF a - (base + offset.at[x]) \in no THEN value[a - (base + offset.at[x]) + 1].at[x]
                    ELSE mem[x][a]]]
    BY <1>2, <1>3 DEF Stored
  <1>5. DOMAIN m0 = DOMAIN mem
        /\ \A x \in DOMAIN mem : DOMAIN m0[x] = DOMAIN mem[x] /\ \A a \in DOMAIN mem[x] : m0[x][a] = mem[x][a]
    BY <1>2, <1>4
  <1>6. Mirrors(os, base, m0)
    BY <1>5 DEF Mirrors
  <1>7. QED
    BY <1>3, <1>6

\* A byte more.
LEMMA StoredNext ==
  ASSUME NEW os, NEW base \in Nat, NEW mem, Mirrors(os, base, mem), NEW offset \in Exprs, NEW value, NEW k \in Nat,
         NEW c, NEW x \in DOMAIN mem, NEW o \in Offsets(os),
         Mirrors(c, base, Stored(mem, base, offset, value, k)), c.size = os.size,
         \A y \in DOMAIN mem : offset.at[y] + k \in Offsets(os)
  PROVE  Stored(mem, base, offset, value, k + 1)[x][base + o] =
           Stored8(Stored(mem, base, offset, value, k), base, Plus(offset, k), value[k + 1])[x][base + o]
  <1>1. PICK m0 : m0 = Stored(mem, base, offset, value, k)
    OBVIOUS
  <1>2. PICK m1 : m1 = Stored(mem, base, offset, value, k + 1)
    OBVIOUS
  <1>3. Mirrors(c, base, m0) /\ Offsets(c) = Offsets(os)
    BY <1>1 DEF Offsets
  <1>4. DOMAIN m0 = DOMAIN mem
        /\ m0[x][base + o] = IF o - offset.at[x] \in 0 .. (k - 1) THEN value[o - offset.at[x] + 1].at[x] ELSE mem[x][base + o]
    BY <1>1, StoredFirst
  <1>5. m1[x][base + o] = IF o - offset.at[x] \in 0 .. (k + 1 - 1) THEN value[o - offset.at[x] + 1].at[x] ELSE mem[x][base + o]
    <2>1. k + 1 \in Nat
      OBVIOUS
    <2>2. QED
      BY <1>2, <2>1, StoredFirst
  <1>6. DOMAIN mem \subseteq Inputs
    BY DEF Mirrors
  <1>7. PICK index : index = Plus(offset, k) /\ \A y \in Inputs : index.at[y] = offset.at[y] + k
    BY PlusExpr
  <1>8. PICK e : e = value[k + 1]
    OBVIOUS
  <1>9. Stored8(m0, base, index, e)[x][base + o] = IF o = index.at[x] THEN e.at[x] ELSE m0[x][base + o]
    <2>1. \A y \in DOMAIN m0 : index.at[y] \in Offsets(c)
      BY <1>3, <1>4, <1>6, <1>7
    <2>2. QED
      BY <1>3, <1>4, <2>1, StoredBytes
  <1>10. PICK u \in Nat, v \in Int : u = offset.at[x] /\ v = o
    BY <1>6 DEF Exprs, Offsets
  <1>11. m1[x][base + o] = Stored8(m0, base, index, e)[x][base + o]
    <2>1. CASE o = index.at[x]
      <3>1. o - offset.at[x] = k /\ k \in 0 .. (k + 1 - 1)
        BY <1>6, <1>7, <1>10, <2>1
      <3>2. QED
        BY <1>5, <1>8, <1>9, <2>1, <3>1
    <2>2. CASE o # index.at[x]
      <3>1. v # u + k
        BY <1>6, <1>7, <1>10, <2>2
      <3>2. v - u \in 0 .. (k + 1 - 1) <=> v - u \in 0 .. (k - 1)
        BY <3>1
      <3>3. QED
        BY <1>4, <1>5, <1>9, <1>10, <2>2, <3>2
    <2>3. QED
      BY <2>1, <2>2
  <1>12. QED
    BY <1>1, <1>2, <1>7, <1>8, <1>11

\* ObjectState::write of any number of bytes, in bounds for every input.
LEMMA WriteMirrors ==
  ASSUME NEW os, NEW base \in Nat, NEW mem, Mirrors(os, base, mem), NEW offset \in Exprs, NEW value \in Seq(Exprs),
         \A x \in DOMAIN mem : offset.at[x] + Len(value) <= os.size
  PROVE  Mirrors(writeBytes(os, offset, value), base, Stored(mem, base, offset, value, Len(value)))
  <1>1. PICK n \in Nat : n = Len(value) /\ \A i \in 1 .. n : value[i] \in Exprs
    OBVIOUS
  <1>2. PICK left : Written(os, offset, value, n, left) /\ writeBytes(os, offset, value) = left[n]
    BY <1>1, WriteBytesChain
  <1>3. left[0] = os /\ \A i \in 0 .. n : i # 0 => left[i] = writeByte(left[i - 1], offset, i - 1, value[i])
    BY <1>2 DEF Written
  <1>4. DOMAIN mem \subseteq Inputs /\ DOMAIN mem # {} /\ os.size \in Nat
    BY DEF Mirrors, Shape, Objects
  <1> DEFINE S == {k \in 0 .. n : ~(Mirrors(left[k], base, Stored(mem, base, offset, value, k)) /\ left[k].size = os.size)}
  <1>5. SUFFICES ASSUME S # {} PROVE FALSE
    <2>1. n \in 0 .. n
      OBVIOUS
    <2>2. S = {} => Mirrors(left[n], base, Stored(mem, base, offset, value, n))
      BY <2>1
    <2>3. QED
      BY <1>1, <1>2, <2>2
  <1>6. PICK k \in S : \A j \in S : k <= j
    <2>1. S \subseteq Nat
      OBVIOUS
    <2> HIDE DEF S
    <2>2. QED
      BY <1>5, <2>1, LeastNatural
  <1>7. k \in 0 .. n /\ ~(Mirrors(left[k], base, Stored(mem, base, offset, value, k)) /\ left[k].size = os.size)
    OBVIOUS
  <1>8. CASE k = 0
    <2>1. Mirrors(os, base, Stored(mem, base, offset, value, 0))
      BY StoredNone
    <2>2. QED
      BY <1>3, <1>7, <1>8, <2>1
  <1>9. CASE k # 0
    <2>1. PICK p \in 0 .. n : k = p + 1 /\ p \in Nat /\ k \in 1 .. n
      <3>1. k - 1 \in 0 .. n /\ k = (k - 1) + 1 /\ k - 1 \in Nat /\ k \in 1 .. n
        BY <1>7, <1>9
      <3>2. QED
        BY <3>1
    <2>2. PICK c, m0 : c = left[p] /\ m0 = Stored(mem, base, offset, value, p)
      OBVIOUS
    <2>3. Mirrors(c, base, m0) /\ c.size = os.size
      BY <1>6, <2>1, <2>2
    <2>4. left[k] = writeByte(c, offset, p, value[k])
      BY <1>3, <1>7, <1>9, <2>1, <2>2
    <2>5. DOMAIN m0 = DOMAIN mem
      BY <2>2 DEF Stored
    <2>6. \A x \in DOMAIN mem : offset.at[x] + p \in Offsets(os)
      <3>1. \A x \in DOMAIN mem : offset.at[x] \in Nat
        BY <1>4 DEF Exprs
      <3>2. QED
        BY <1>1, <1>4, <2>1, <3>1 DEF Offsets
    <2>7. Offsets(c) = Offsets(os) /\ value[k] \in Exprs
      BY <1>1, <2>1, <2>3 DEF Offsets
    <2>8. PICK m8 : m8 = Stored8(m0, base, Plus(offset, p), value[k])
      OBVIOUS
    <2>9. Mirrors(left[k], base, m8) /\ left[k].size = os.size
      <3>1. \A x \in DOMAIN m0 : offset.at[x] + p \in Offsets(c)
        BY <2>5, <2>6, <2>7
      <3>2. QED
        BY <2>1, <2>3, <2>4, <2>7, <2>8, <3>1, WriteByteMirrors
    <2>10. PICK m1 : m1 = Stored(mem, base, offset, value, k)
      OBVIOUS
    <2>11. \A x \in DOMAIN mem, o \in Offsets(os) : base + o \in DOMAIN m1[x] /\ m1[x][base + o] = m8[x][base + o]
      <3>1. ASSUME NEW x \in DOMAIN mem, NEW o \in Offsets(os)
            PROVE  base + o \in DOMAIN m1[x] /\ m1[x][base + o] = m8[x][base + o]
        <4>1. base + o \in DOMAIN m1[x]
          BY <1>7, <2>10, StoredFirst
        <4>2. Stored(mem, base, offset, value, p + 1)[x][base + o] =
                Stored8(Stored(mem, base, offset, value, p), base, Plus(offset, p), value[p + 1])[x][base + o]
          BY <2>1, <2>2, <2>3, <2>6, StoredNext
        <4>3. QED
          BY <2>1, <2>2, <2>8, <2>10, <4>1, <4>2
      <3>2. QED
        BY <3>1
    <2>12. DOMAIN m1 = DOMAIN mem /\ DOMAIN m8 = DOMAIN mem /\ Offsets(left[k]) = Offsets(os)
      BY <2>5, <2>8, <2>9, <2>10 DEF Stored, Stored8, Offsets
    <2>13. Mirrors(left[k], base, m1)
      BY <1>4, <2>9, <2>11, <2>12, MovesOnMirrors
    <2>14. QED
      BY <1>7, <2>9, <2>10, <2>13
  <1>10. QED
    BY <1>8, <1>9

\* ObjectState::read of any number of bytes: each byte is, for every input for which
\* it is in bounds, the one that input has there.
LEMMA ReadExact ==
  ASSUME NEW os, NEW base, NEW mem, Mirrors(os, base, mem), NEW offset \in Exprs, NEW n \in Nat,
         isConst(offset) => valueOf(offset) + n <= os.size
  PROVE  /\ Mirrors(readBytes(os, offset, n).os, base, mem)
         /\ \A x \in DOMAIN mem, i \in 1 .. n : offset.at[x] + (i - 1) \in Offsets(os) =>
              readBytes(os, offset, n).value[i].at[x] = mem[x][base + (offset.at[x] + (i - 1))]
  <1>0. PICK left : ReadFrom(os, offset, n, left)
    BY ReadBytesChain
  <1>1. /\ ReadOff(os, offset, n, left)
        /\ readBytes(os, offset, n) =
             [os |-> left[n], value |-> [i \in 1 .. n |-> readByte(left[i - 1], offset, i - 1).e]]
    BY <1>0 DEF ReadFrom
  <1>2. left[0] = os /\ \A i \in 0 .. n : i # 0 => left[i] = readByte(left[i - 1], offset, i - 1).os
    BY <1>1 DEF ReadOff
  <1>3. os.size \in Nat
    BY DEF Mirrors, Shape, Objects
  <1>4. ASSUME NEW p \in 0 .. (n - 1), isConst(offset) PROVE valueOf(offset) + p \in Offsets(os)
    <2>1. valueOf(offset) \in Nat
      BY <1>4, ConstValue
    <2>2. QED
      BY <1>3, <1>4, <2>1 DEF Offsets
  <1> DEFINE S == {k \in 0 .. n : ~(Mirrors(left[k], base, mem) /\ left[k].size = os.size)}
  <1>5. S = {}
    <2>1. SUFFICES ASSUME S # {} PROVE FALSE
      OBVIOUS
    <2>2. PICK k \in S : \A j \in S : k <= j
      <3>1. S \subseteq Nat
        OBVIOUS
      <3> HIDE DEF S
      <3>2. QED
        BY <2>1, <3>1, LeastNatural
    <2>3. k \in 0 .. n /\ ~(Mirrors(left[k], base, mem) /\ left[k].size = os.size)
      OBVIOUS
    <2>4. k # 0
      BY <1>2, <2>3
    <2>5. PICK p \in 0 .. n : k = p + 1 /\ p \in Nat /\ p \in 0 .. (n - 1)
      <3>1. k - 1 \in 0 .. n /\ k = (k - 1) + 1 /\ k - 1 \in Nat /\ k - 1 \in 0 .. (n - 1)
        BY <2>3, <2>4
      <3>2. QED
        BY <3>1
    <2>6. PICK c : c = left[p] /\ Mirrors(c, base, mem) /\ c.size = os.size
      BY <2>2, <2>5
    <2>7. left[k] = readByte(c, offset, p).os
      BY <1>2, <2>3, <2>4, <2>5, <2>6
    <2>8. isConst(offset) => valueOf(offset) + p \in Offsets(c)
      BY <1>4, <2>5, <2>6 DEF Offsets
    <2>9. Mirrors(left[k], base, mem) /\ left[k].size = c.size
      BY <2>5, <2>6, <2>7, <2>8, ReadByteExact
    <2>10. QED
      BY <2>3, <2>6, <2>9
  <1>6. \A k \in 0 .. n : Mirrors(left[k], base, mem) /\ left[k].size = os.size
    BY <1>5
  <1> HIDE DEF S
  <1>7. Mirrors(readBytes(os, offset, n).os, base, mem)
    BY <1>1, <1>6
  <1>8. ASSUME NEW x \in DOMAIN mem, NEW i \in 1 .. n, offset.at[x] + (i - 1) \in Offsets(os)
        PROVE  readBytes(os, offset, n).value[i].at[x] = mem[x][base + (offset.at[x] + (i - 1))]
    <2>1. PICK p \in 0 .. (n - 1) : p = i - 1 /\ p \in Nat /\ p \in 0 .. n
      OBVIOUS
    <2>2. PICK c : c = left[p] /\ Mirrors(c, base, mem) /\ c.size = os.size
      BY <1>6, <2>1
    <2>3. isConst(offset) => valueOf(offset) + p \in Offsets(c)
      BY <1>4, <2>1, <2>2 DEF Offsets
    <2>4. offset.at[x] + p \in Offsets(c)
      BY <1>8, <2>1, <2>2 DEF Offsets
    <2>5. readByte(c, offset, p).e.at[x] = mem[x][base + (offset.at[x] + p)]
      BY <2>1, <2>2, <2>3, <2>4, ReadByteExact
    <2>6. readBytes(os, offset, n).value[i] = readByte(c, offset, p).e
      BY <1>1, <2>1, <2>2
    <2>7. QED
      BY <2>1, <2>5, <2>6
  <1>9. QED
    BY <1>7, <1>8

-----------------------------------------------------------------------------
(* One object in use.                                                        *)

VARIABLES object,       \* the object state, as the caches hold it
          memory        \* the bytes each input of the path has in a native run

objVars == <<object, memory>>

\* What the object at base holds when it is made: a byte that executeAlloc or the
\* constructor fills it with, or an array of klee_make_symbolic.
ObjectInit(base) ==
    /\ DOMAIN memory \subseteq Inputs /\ DOMAIN memory # {}
    /\ \E size \in Nat :
         /\ \A x \in DOMAIN memory, o \in 0 .. (size - 1) : base + o \in DOMAIN memory[x]
         /\ \/ \E byte \in Nat : /\ object = Initialize(NewObject(size), byte)
                                 /\ \A x \in DOMAIN memory, o \in 0 .. (size - 1) : memory[x][base + o] = byte
            \/ \E array \in [0 .. (size - 1) -> Exprs] :
                 /\ object = NewSymbolic(size, array)
                 /\ \A x \in DOMAIN memory, o \in 0 .. (size - 1) : memory[x][base + o] = array[o].at[x]

\* ObjectState::read by this path, or by another one that shares the object: in
\* bounds, which for a constant offset does not depend on the inputs.
Loads ==
    /\ \E offset \in Exprs, n \in Nat : /\ isConst(offset) => valueOf(offset) + n <= object.size
                                       /\ object' = readBytes(object, offset, n).os
    /\ memory' = memory

\* ObjectState::write, in bounds for all inputs of the path.
Stores(base) ==
    \E offset \in Exprs, value \in Seq(Exprs) :
        /\ \A x \in DOMAIN memory : offset.at[x] + Len(value) <= object.size
        /\ object' = writeBytes(object, offset, value)
        /\ memory' = Stored(memory, base, offset, value, Len(value))

\* AddressSpace::getWriteable: the path goes on with a copy of its own.
Copies ==
    /\ \E key \in Nat : object' = [CopyOf(object) EXCEPT !.owner = key]
    /\ memory' = memory

\* A fork or a constraint leaves the path fewer inputs, and the path writes
\* elsewhere in its memory.
MovesOn(base) ==
    /\ object' = object
    /\ DOMAIN memory' \subseteq DOMAIN memory /\ DOMAIN memory' # {}
    /\ \A x \in DOMAIN memory', o \in Offsets(object) : /\ base + o \in DOMAIN memory'[x]
                                                       /\ memory'[x][base + o] = memory[x][base + o]

ObjectNext(base) == Loads \/ Stores(base) \/ Copies \/ MovesOn(base)
ObjectSpec(base) == ObjectInit(base) /\ [][ObjectNext(base)]_objVars

\* The cache invariants, and every read: each byte of a load of any width, at a
\* constant or a symbolic offset, is the one of a native run for each input for
\* which it is in bounds.
ObjectExact(base) ==
    /\ CacheInvariant(object)
    /\ ReadsExactly(object, base, memory)
    /\ \A offset \in Exprs, n \in Nat :
          (isConst(offset) => valueOf(offset) + n <= object.size) =>
             \A x \in DOMAIN memory, i \in 1 .. n :
                offset.at[x] + (i - 1) \in Offsets(object) =>
                   readBytes(object, offset, n).value[i].at[x] = memory[x][base + (offset.at[x] + (i - 1))]

\* No array yet.
LEMMA NoArrayYet == NoArray \in Roots /\ NoArray.kind = "none" /\ DOMAIN NoArray.at = {}
  <1>1. <<>> \in Seq(Exprs) /\ Len(<<>>) = 0
    OBVIOUS
  <1>2. <<>> \in [1 .. 0 -> Exprs] /\ 1 .. 0 = {} /\ DOMAIN <<>> = {}
    BY <1>1
  <1>3. <<>> \in Maps
    <2>1. <<>> \in [{} -> Exprs] /\ {} \in SUBSET Nat
      BY <1>2
    <2>2. QED
      BY <2>1 DEF Maps
  <1>4. NoArray.at = <<>> /\ NoArray.kind = "none"
    BY DEF NoArray
  <1>5. NoArray \in Roots
    BY <1>3 DEF NoArray, Roots
  <1>6. QED
    BY <1>2, <1>4, <1>5

\* A new object.
LEMMA NewFields ==
  ASSUME NEW size \in Nat, NEW f, f = NewObject(size)
  PROVE  /\ f \in Objects /\ f.size = size /\ f.store = [o \in 0 .. (size - 1) |-> 0]
         /\ f.symbolic = {} /\ f.flushed = {} /\ f.known = Nothing /\ f.root = NoArray /\ f.writes = <<>>
  <1> DEFINE st == [o \in 0 .. (size - 1) |-> 0]
             none == Nothing
             empty == <<>>
             array == NoArray
             off == FALSE
             no == {}
  <1>1. st \in Bytes
    <2>1. st \in [0 .. (size - 1) -> Nat] /\ 0 .. (size - 1) \in SUBSET Nat
      OBVIOUS
    <2> HIDE DEF st
    <2>2. QED
      BY <2>1 DEF Bytes
  <1>2. none \in Maps /\ array \in Roots
    BY NothingKnown, NoArrayYet
  <1>3. empty \in Lists /\ no \in Sets /\ off \in Flags
    BY DEF Lists, Sets, Flags
  <1>4. f = [size |-> size, readOnly |-> off, owner |-> 0, store |-> st, symbolic |-> no, flushed |-> no,
             known |-> none, root |-> array, writes |-> empty]
    BY DEF NewObject
  <1> HIDE DEF st, none, empty, array, off, no
  <1>5. /\ f \in Objects /\ f.size = size /\ f.store = st /\ f.symbolic = no /\ f.flushed = no
        /\ f.known = none /\ f.root = array /\ f.writes = empty
    BY <1>1, <1>2, <1>3, <1>4 DEF Objects
  <1>6. QED
    BY <1>5 DEF st, none, empty, array, no

\* An object filled with a byte mirrors memory filled with it.
LEMMA FilledMirrors ==
  ASSUME NEW base, NEW mem, DOMAIN mem \subseteq Inputs, DOMAIN mem # {}, NEW size \in Nat, NEW byte \in Nat,
         \A x \in DOMAIN mem, o \in 0 .. (size - 1) : base + o \in DOMAIN mem[x],
         \A x \in DOMAIN mem, o \in 0 .. (size - 1) : mem[x][base + o] = byte
  PROVE  Mirrors(Initialize(NewObject(size), byte), base, mem)
  <1>1. PICK n : n = NewObject(size)
    OBVIOUS
  <1>2. /\ n \in Objects /\ n.size = size /\ n.root = NoArray /\ n.writes = <<>>
    BY <1>1, NewFields
  <1> DEFINE st == [o \in 0 .. (size - 1) |-> byte]
             none == Nothing
             no == {}
  <1>3. st \in [0 .. (size - 1) -> Nat] /\ no \in Sets
    BY DEF Sets
  <1>4. none \in Maps /\ DOMAIN none = {}
    BY NothingKnown
  <1>5. PICK f : f = [n EXCEPT !.store = st, !.symbolic = no, !.flushed = no, !.known = none]
    OBVIOUS
  <1>6. f = Initialize(NewObject(size), byte)
    BY <1>1, <1>2, <1>5 DEF Initialize, Offsets
  <1>7. st \in Bytes
    <2>1. 0 .. (size - 1) \in SUBSET Nat
      OBVIOUS
    <2> HIDE DEF st
    <2>2. QED
      BY <1>3, <2>1 DEF Bytes
  <1>8. /\ f \in Objects /\ f.size = size /\ f.store = st /\ f.symbolic = no /\ f.flushed = no
        /\ f.known = none /\ f.root = NoArray /\ f.writes = <<>>
    <2> HIDE DEF st, none, no
    <2>1. QED
      BY <1>2, <1>3, <1>4, <1>5, <1>7 DEF Objects
  <1>9. Offsets(f) = 0 .. (size - 1)
    BY <1>8 DEF Offsets
  <1>10. Shape(f)
    BY <1>3, <1>4, <1>8, <1>9, NoArrayYet DEF Shape
  <1>11. CacheInvariant(f)
    BY <1>4, <1>8 DEF CacheInvariant, isByteConcrete, isByteFlushed, isByteKnownSymbolic
  <1>12. Mirrors(f, base, mem)
    BY <1>4, <1>8, <1>9, <1>10, <1>11 DEF Mirrors
  <1>13. QED
    BY <1>6, <1>12

\* A symbolic object mirrors the bytes of its array.
LEMMA SymbolicMirrors ==
  ASSUME NEW base, NEW mem, DOMAIN mem \subseteq Inputs, DOMAIN mem # {}, NEW size \in Nat,
         NEW array \in [0 .. (size - 1) -> Exprs],
         \A x \in DOMAIN mem, o \in 0 .. (size - 1) : base + o \in DOMAIN mem[x],
         \A x \in DOMAIN mem, o \in 0 .. (size - 1) : mem[x][base + o] = array[o].at[x]
  PROVE  Mirrors(NewSymbolic(size, array), base, mem)
  <1>1. PICK n : n = NewObject(size)
    OBVIOUS
  <1>2. /\ n \in Objects /\ n.size = size /\ n.store = [o \in 0 .. (size - 1) |-> 0]
        /\ n.known = Nothing /\ n.writes = <<>>
    BY <1>1, NewFields
  <1> DEFINE all == 0 .. (size - 1)
             root == [kind |-> "array", at |-> array]
  <1>3. all \in Sets
    BY DEF Sets
  <1>4. root \in Roots /\ root.kind = "array" /\ root.at = array
    <2>1. array \in Maps
      BY <1>3 DEF Maps, Sets
    <2>2. QED
      BY <2>1 DEF Roots
  <1>5. PICK f : f = [n EXCEPT !.symbolic = all, !.flushed = all, !.root = root]
    OBVIOUS
  <1>6. f = NewSymbolic(size, array)
    BY <1>1, <1>5 DEF NewSymbolic
  <1>7. /\ f \in Objects /\ f.size = size /\ f.store = n.store /\ f.symbolic = all /\ f.flushed = all
        /\ f.known = n.known /\ f.root = root /\ f.writes = n.writes
    <2> HIDE DEF all, root
    <2>1. QED
      BY <1>2, <1>3, <1>4, <1>5 DEF Objects
  <1>8. Offsets(f) = all /\ DOMAIN f.known = {}
    BY <1>2, <1>7, NothingKnown DEF Offsets
  <1>9. Shape(f)
    BY <1>2, <1>4, <1>7, <1>8 DEF Shape
  <1>10. CacheInvariant(f)
    BY <1>7, <1>8 DEF CacheInvariant, isByteConcrete, isByteFlushed, isByteKnownSymbolic
  <1>11. ASSUME NEW x \in DOMAIN mem, NEW o \in all PROVE Listed(f, o, x) = mem[x][base + o]
    <2>1. PICK z \in Nat : f.writes \in Lists /\ z = Len(f.writes) /\ NoneAt(f.writes, z, o, x)
      BY <1>2, <1>7 DEF Lists, NoneAt
    <2>2. Listed(f, o, x) = IF o \in DOMAIN f.root.at THEN f.root.at[o].at[x] ELSE 0
      BY <2>1, ListedRoot
    <2>3. QED
      BY <1>4, <1>7, <2>2
  <1>12. Mirrors(f, base, mem)
    BY <1>7, <1>8, <1>9, <1>10, <1>11 DEF Mirrors
  <1>13. QED
    BY <1>6, <1>12

\* A copy has the contents of the original, whoever owns it.
LEMMA CopyMirrors ==
  ASSUME NEW os, NEW base, NEW mem, Mirrors(os, base, mem), NEW key \in Nat
  PROVE  Mirrors([CopyOf(os) EXCEPT !.owner = key], base, mem)
  <1>1. os \in Objects
    BY DEF Mirrors, Shape
  <1>2. PICK c : c = CopyOf(os)
    OBVIOUS
  <1>3. /\ c \in Objects /\ c.size = os.size /\ c.store = os.store /\ c.symbolic = os.symbolic
        /\ c.flushed = os.flushed /\ c.known = os.known /\ c.root = os.root /\ c.writes = os.writes
    BY <1>1, <1>2 DEF CopyOf, Objects
  <1>4. PICK f : f = [c EXCEPT !.owner = key]
    OBVIOUS
  <1>5. /\ f \in Objects /\ f.size = c.size /\ f.store = c.store /\ f.symbolic = c.symbolic
        /\ f.flushed = c.flushed /\ f.known = c.known /\ f.root = c.root /\ f.writes = c.writes
    BY <1>3, <1>4 DEF Objects
  <1>6. Offsets(f) = Offsets(os)
    BY <1>3, <1>5 DEF Offsets
  <1>7. Refreshed(os, f)
    BY <1>3, <1>5, <1>6 DEF Refreshed, Shape, Mirrors
  <1>8. \A x, o : Listed(f, o, x) = Listed(os, o, x)
    BY <1>3, <1>5, SameListed
  <1>9. \A x \in DOMAIN mem, o \in f.flushed : Listed(f, o, x) = mem[x][base + o]
    BY <1>3, <1>5, <1>8 DEF Mirrors, Shape
  <1>10. Mirrors(f, base, mem)
    BY <1>7, <1>9, RefreshedMirrors
  <1>11. QED
    BY <1>2, <1>4, <1>10

\* A new object mirrors memory, and every step leaves it so.
LEMMA ObjectMirrors ==
  ASSUME NEW base \in Nat
  PROVE  /\ ObjectInit(base) => Mirrors(object, base, memory)
         /\ Mirrors(object, base, memory) /\ [ObjectNext(base)]_objVars => Mirrors(object, base, memory)'
  <1>1. ASSUME ObjectInit(base) PROVE Mirrors(object, base, memory)
    <2>1. PICK size \in Nat :
            /\ \A x \in DOMAIN memory, o \in 0 .. (size - 1) : base + o \in DOMAIN memory[x]
            /\ \/ \E byte \in Nat :
                     /\ object = Initialize(NewObject(size), byte)
                     /\ \A x \in DOMAIN memory, o \in 0 .. (size - 1) : memory[x][base + o] = byte
               \/ \E array \in [0 .. (size - 1) -> Exprs] :
                     /\ object = NewSymbolic(size, array)
                     /\ \A x \in DOMAIN memory, o \in 0 .. (size - 1) : memory[x][base + o] = array[o].at[x]
      BY <1>1 DEF ObjectInit
    <2>2. DOMAIN memory \subseteq Inputs /\ DOMAIN memory # {}
      BY <1>1 DEF ObjectInit
    <2>3. ASSUME NEW byte \in Nat, object = Initialize(NewObject(size), byte),
                 \A x \in DOMAIN memory, o \in 0 .. (size - 1) : memory[x][base + o] = byte
          PROVE  Mirrors(object, base, memory)
      <3>1. Mirrors(Initialize(NewObject(size), byte), base, memory)
        BY <2>1, <2>2, <2>3, FilledMirrors
      <3>2. QED
        BY <2>3, <3>1
    <2>4. ASSUME NEW array \in [0 .. (size - 1) -> Exprs], object = NewSymbolic(size, array),
                 \A x \in DOMAIN memory, o \in 0 .. (size - 1) : memory[x][base + o] = array[o].at[x]
          PROVE  Mirrors(object, base, memory)
      <3>1. Mirrors(NewSymbolic(size, array), base, memory)
        BY <2>1, <2>2, <2>4, SymbolicMirrors
      <3>2. QED
        BY <2>4, <3>1
    <2>5. QED
      BY <2>1, <2>3, <2>4
  <1>2. ASSUME Mirrors(object, base, memory), [ObjectNext(base)]_objVars
        PROVE  Mirrors(object', base, memory')
    <2>1. CASE Loads
      <3>1. PICK offset \in Exprs, n \in Nat : /\ isConst(offset) => valueOf(offset) + n <= object.size
                                            /\ object' = readBytes(object, offset, n).os
        BY <2>1 DEF Loads
      <3>2. Mirrors(readBytes(object, offset, n).os, base, memory)
        BY <1>2, <3>1, ReadExact
      <3>3. QED
        BY <2>1, <3>1, <3>2 DEF Loads
    <2>2. CASE Stores(base)
      <3>1. PICK offset \in Exprs, value \in Seq(Exprs) :
              /\ \A x \in DOMAIN memory : offset.at[x] + Len(value) <= object.size
              /\ object' = writeBytes(object, offset, value)
              /\ memory' = Stored(memory, base, offset, value, Len(value))
        BY <2>2 DEF Stores
      <3>2. Mirrors(writeBytes(object, offset, value), base, Stored(memory, base, offset, value, Len(value)))
        BY <1>2, <3>1, WriteMirrors
      <3>3. QED
        BY <3>1, <3>2
    <2>4. CASE Copies
      <3>1. PICK key \in Nat : object' = [CopyOf(object) EXCEPT !.owner = key]
        BY <2>4 DEF Copies
      <3>2. Mirrors([CopyOf(object) EXCEPT !.owner = key], base, memory)
        BY <1>2, CopyMirrors
      <3>3. QED
        BY <2>4, <3>1, <3>2 DEF Copies
    <2>5. CASE MovesOn(base)
      <3>1. Mirrors(object, base, memory')
        BY <1>2, <2>5, MovesOnMirrors DEF MovesOn
      <3>2. QED
        BY <2>5, <3>1 DEF MovesOn
    <2>6. CASE UNCHANGED objVars
      BY <1>2, <2>6 DEF objVars
    <2>7. QED
      BY <1>2, <2>1, <2>2, <2>4, <2>5, <2>6 DEF ObjectNext
  <1>3. QED
    BY <1>1, <1>2

\* Reads of an object that mirrors memory are exact, as MemoryExact states them.
LEMMA MirrorsExact ==
  ASSUME NEW os, NEW base, NEW mem, Mirrors(os, base, mem)
  PROVE  CacheInvariant(os) /\ ReadsExactly(os, base, mem)
  <1> DEFINE Symbolic(o) == [const |-> FALSE, at |-> [y \in Inputs |-> o]]
             u == getUpdates(flushRangeForRead(os))
  <1>1. CacheInvariant(os) /\ DOMAIN mem \subseteq Inputs /\ Offsets(os) \subseteq Nat
    BY DEF Mirrors, Shape, Objects, Offsets
  <1>2. \A o \in Offsets(os), x \in DOMAIN mem : read8(os, o).e.at[x] = mem[x][base + o]
    BY Read8Exact
  <1>3. ASSUME NEW o \in Offsets(os), NEW x \in DOMAIN mem
        PROVE  ReadExpr(u, Symbolic(o)).at[x] = mem[x][base + o]
    <2>1. Symbolic(o) \in Exprs /\ Symbolic(o).at[x] = o
      BY <1>1 DEF Exprs
    <2> HIDE DEF Symbolic
    <2>2. QED
      BY <2>1, Read8SymbolicExact
  <1>4. QED
    BY <1>1, <1>2, <1>3 DEF ReadsExactly

\* Whatever a program reads and writes in an object, at constant and symbolic
\* offsets and on whichever path, the three caches of its bytes keep the Cache
\* Invariants of Memory.cpp and every read returns the byte of a native run.
THEOREM ObjectReadsExactly ==
  ASSUME NEW base \in Nat
  PROVE  ObjectSpec(base) => []ObjectExact(base)
  <1>1. ASSUME Mirrors(object, base, memory) PROVE ObjectExact(base)
    <2>1. CacheInvariant(object) /\ ReadsExactly(object, base, memory)
      BY <1>1, MirrorsExact
    <2>2. ASSUME NEW offset \in Exprs, NEW n \in Nat, isConst(offset) => valueOf(offset) + n <= object.size
          PROVE  \A x \in DOMAIN memory, i \in 1 .. n :
                   offset.at[x] + (i - 1) \in Offsets(object) =>
                      readBytes(object, offset, n).value[i].at[x] = memory[x][base + (offset.at[x] + (i - 1))]
      BY <1>1, <2>2, ReadExact
    <2>3. QED
      BY <2>1, <2>2 DEF ObjectExact
  <1>2. ObjectInit(base) => Mirrors(object, base, memory)
    BY ObjectMirrors
  <1>3. Mirrors(object, base, memory) /\ [ObjectNext(base)]_objVars => Mirrors(object, base, memory)'
    BY ObjectMirrors
  <1>4. QED
    BY <1>1, <1>2, <1>3, PTL DEF ObjectSpec
=============================================================================
