-------------------------------- MODULE Memory --------------------------------
(***************************************************************************)
(* The memory operations of the paths of one KLEE run: loads and stores,     *)
(* allocation and release, klee_make_symbolic and calls of external          *)
(* functions (Executor.cpp, SpecialFunctionHandler.cpp, MemoryManager.cpp).  *)
(*                                                                           *)
(* A world is what the run holds between two instructions.  An operation     *)
(* maps a world and a path of it to the worlds it may leave.  Beside KLEE's  *)
(* own state a path carries mem, the bytes every one of its inputs would     *)
(* have in a native run, and the world records how each input ended (ended), *)
(* how it ought to (fate) and the inputs that ever loaded a wrong byte.      *)
(***************************************************************************)
EXTENDS AddressSpace

CONSTANTS Layouts,      \* objects bound at the start, solver time limit or none, bound on operations
          Slots,        \* addresses malloc may return
          Arrays,       \* the bytes of the n-th symbolic array, by offset
          Junk,         \* the byte malloc fills memory with, 0xAB in the code
          SmallSize,    \* executeAlloc looks for an example up to this size (128)
          HugeSize,     \* above this size malloc is assumed to fail (2^31)
          Loads, Stores, Branches,             \* operands of instructions, by index
          Allocs, Reallocs, Frees, Objects,    \* and of calls
          Symbolics,        \* arguments of klee_make_symbolic, by index
          ErrnoAddress,     \* where errno is
          ExternalWrites    \* the bytes external functions write, by index

VARIABLES world,
          ops           \* operations left

vars == <<world, ops>>

----------------------------------------------------------------------------
(* Worlds.                                                                   *)

Extent(base, size) == base .. (base + size - 1)
Bytes(h, p, f(_, _)) ==
    [a \in UNION {Extent(n.key, sizeOf(h, n)) : n \in nodesOf(p.objects)} |->
        LET n == CHOOSE n \in nodesOf(p.objects) : a \in Extent(n.key, sizeOf(h, n)) IN f(n, a - n.key)]

\* Object states and memory objects go with their last reference (ref<>,
\* MemoryManager::markFreed).
Collected(w) ==
    LET ids   == UNION {{n.value : n \in nodesOf(p.objects)} : p \in w.paths}
        bases == UNION {keysOf(p.objects) \cup p.symbolics : p \in w.paths}
    IN  [w EXCEPT !.heap = [i \in ids |-> @[i]], !.mos = [b \in bases |-> @[b]]]

Taken(w, p)     == [w EXCEPT !.paths = @ \ {p}]
Back(w, P)         == [w EXCEPT !.paths = @ \cup P]
Ended(w, S, why)   == [w EXCEPT !.ended = [x \in Inputs |-> IF x \in S THEN why ELSE @[x]]]
Fate(w, p, f(_))   == [w EXCEPT !.fate = [x \in Inputs |-> IF x \in p.inputs THEN f(x) ELSE @[x]]]

\* Executor::fork on the inputs in S: the paths on either side, or a timeout.
fork(p, S, const) ==
    LET yes == p.inputs \cap S
        no  == p.inputs \ S
        Side(s) == IF s = {} THEN {} ELSE IF s = p.inputs THEN {p} ELSE {Branched(p, s)}
    IN  {[yes |-> Side(yes), no |-> Side(no), late |-> {}]}
        \cup IF p.limited /\ ~const THEN {[yes |-> {}, no |-> {}, late |-> p.inputs]} ELSE {}

\* Executor::addConstraint: the other inputs are given up.
Constrained(w, p, S) ==
    [w |-> Ended(w, p.inputs \ S, "concretized"),
     p |-> [p EXCEPT !.inputs = S, !.mem = [x \in S |-> @[x]]]]

\* Executor::toUnique; a timeout leaves the expression as it is.
toUnique(p, e) ==
    LET unique == IF ~isConst(e) /\ Cardinality(valuesOf(p, e)) = 1
                  THEN Const(CHOOSE v \in valuesOf(p, e) : TRUE) ELSE e
    IN  {unique} \cup IF p.limited THEN {e} ELSE {}

TheOnly(S) == CHOOSE q \in S : TRUE

InputsWith(p, e, v) == {x \in p.inputs : e.at[x] = v}

----------------------------------------------------------------------------
(* Loads and stores: Executor::executeMemoryOperation.                       *)

\* What a native run does: the access must lie in one object.
Holds(h, p, base, a, bytes) ==
    \E n \in nodesOf(p.objects) : base = n.key /\ base <= a /\ a + bytes <= base + sizeOf(h, n)
AccessFate(w, p, a, write, bytes) ==
    LET Verdict(x) ==
            LET in == {n \in nodesOf(p.objects) : Holds(w.heap, p, n.key, a.at[x], bytes)}
            IN  CASE in = {} -> "Ptr"
                  [] in # {} /\ write /\ \E n \in in : w.heap[n.value].readOnly -> "ReadOnly"
                  [] OTHER -> "run"
    IN  Fate(w, p, Verdict)

Stored(p, a, value) ==
    LET Byte(x, b) == IF b - a.at[x] \in 0 .. (Len(value) - 1) /\ b >= a.at[x]
                      THEN value[b - a.at[x] + 1].at[x] ELSE p.mem[x][b]
    IN  [p EXCEPT !.mem = [x \in p.inputs |-> [b \in DOMAIN p.mem[x] |-> Byte(x, b)]]]

Misread(p, a, value) ==
    {x \in p.inputs : ~p.stale /\ \E i \in DOMAIN value :
        LET b == a.at[x] + i - 1 IN b \notin DOMAIN p.mem[x] \/ value[i].at[x] # p.mem[x][b]}

\* The access itself, on a path that is in bounds of the object at n.
storeObject(w, p, n, a, value) ==
    {Back([w EXCEPT !.heap = [g.h EXCEPT ![g.id] = writeBytes(@, getOffsetExpr(n.key, a), value)]],
          {Stored(g.p, a, value)}) : g \in {getWriteable(w.heap, p, n)}}

loadObject(w, p, n, a, bytes) ==
    {Back([w EXCEPT !.heap[n.value] = r.os, !.misread = @ \cup Misread(p, a, r.value)], {p})
     : r \in {readBytes(w.heap[n.value], getOffsetExpr(n.key, a), bytes)}}

accessObject(w, p, n, a, write, value) ==
    CASE ~write -> loadObject(w, p, n, a, Len(value))
      [] write /\ w.heap[n.value].readOnly -> {Ended(w, p.inputs, "ReadOnly")}
      [] OTHER -> storeObject(w, p, n, a, value)

Check(w, n, a, bytes, x) == inBounds(sizeOf(w.heap, n), getOffsetExpr(n.key, a).at[x], bytes)

\* The objects of a resolution one after the other, each taking the inputs
\* that are in bounds of it from the unbound path.
RECURSIVE accessResolved(_, _, _, _, _, _)
accessResolved(w, unbound, r, a, write, value) ==
    LET S == {x \in unbound.inputs : Check(w, Head(r.rl), a, Len(value), x)}
        Bound(f) == IF f.yes = {} THEN {Ended(w, f.late, "early")}
                    ELSE UNION {accessObject(w, q, Head(r.rl), a, write, value) : q \in f.yes}
        Rest(f, w1) == IF f.no = {} THEN {w1}
                       ELSE accessResolved(w1, TheOnly(f.no), [r EXCEPT !.rl = Tail(@)], a, write, value)
    IN  IF r.rl = <<>> THEN {Ended(w, unbound.inputs, IF r.incomplete THEN "early" ELSE "Ptr")}
        ELSE UNION {UNION {Rest(f, w1) : w1 \in Bound(f)} : f \in fork(unbound, S, isConst(a))}

\* With the address resolved to the object at n, or to none.
accessAt(w, p, n, a, write, value) ==
    (IF ~isTerminator(n) /\ must(p, LAMBDA x : Check(w, n, a, Len(value), x))
     THEN accessObject(w, p, n, a, write, value)
     ELSE UNION {accessResolved(w, p, r, a, write, value) : r \in resolve(w.heap, p, a, p.limited)})
    \cup IF ~isTerminator(n) /\ p.limited /\ ~isConst(a) /\ Len(value) <= sizeOf(w.heap, n)
         THEN {Ended(w, p.inputs, "early")} ELSE {}

\* Where resolveOne may send the access; when it fails, toConstant picks a
\* value of the address, or fails as well.
starts(w, p, a) ==
    {[w |-> w, p |-> p, a |-> a, n |-> n] : n \in resolveOne(w.heap, p, a)}
    \cup IF p.limited /\ ~isConst(a)
         THEN {LET c == Constrained(w, p, InputsWith(p, a, v))
               IN  [w |-> c.w, p |-> c.p, a |-> Const(v), n |-> resolveOneConstant(w.heap, p, v)] : v \in valuesOf(p, a)}
         ELSE {}

executeMemoryOperation(w0, p, a, write, value) ==
    LET w == AccessFate(Taken(w0, p), p, a, write, Len(value))
    IN  UNION {accessAt(s.w, s.p, s.n, s.a, write, value) : s \in starts(w, p, a)}
        \cup IF p.limited /\ ~isConst(a) THEN {[w EXCEPT !.aborted = TRUE]} ELSE {}

----------------------------------------------------------------------------
(* Allocation: MemoryManager::allocate and Executor::executeAlloc.           *)

Overlap(b1, s1, b2, s2) == (b1 < b2 + s2 /\ b2 < b1 + s1) \/ b1 = b2
Free(w, base, size) ==
    \A b \in DOMAIN w.mos : ~Overlap(base, size, b, w.mos[b].size)

Ghost(h, p, q, f(_, _)) ==
    [q EXCEPT !.mem = [x \in p.inputs |-> Bytes(h, q, LAMBDA n, o : f(n, o).at[x])]]
Kept(p, n, o) == [const |-> FALSE, at |-> [x \in Inputs |-> IF x \in p.inputs THEN p.mem[x][n.key + o] ELSE 0]]

\* kind is "alloca", "malloc", "calloc" or "realloc"; from is the object a
\* realloc copies.
Filler(kind) == IF kind = "calloc" THEN 0 ELSE Junk
Count(h, from, size) == IF isTerminator(from) THEN 0 ELSE Min({size, sizeOf(h, from)})

\* The heap and the new object with the bytes of from copied to it.
copied(h, from, os) ==
    LET Copy(acc, i) == LET r == read8(acc.h[from.value], i - 1)
                        IN  [h |-> [acc.h EXCEPT ![from.value] = r.os], os |-> write8(acc.os, i - 1, r.e)]
    IN  FoldLeft(Copy, [h |-> h, os |-> os], [i \in 1 .. Count(h, from, os.size) |-> i])

\* The path and the heap of b, in which the new object is bound.
allocated(w, p, b, size, kind, from, base) ==
    LET q == [b.p EXCEPT !.allocas = IF kind = "alloca" THEN @ \cup {base} ELSE @,
                         !.objects = IF isTerminator(from) THEN @ ELSE remove(@, from.key)]
        Content(n, o) == CASE n.key # base -> Kept(p, n, o)
                           [] n.key = base /\ o < Count(w.heap, from, size) -> Kept(p, from, o)
                           [] OTHER -> Const(Filler(kind))
    IN  Back([w EXCEPT !.heap = b.h,
                       !.mos  = With(@, base, [size |-> size, isLocal |-> kind = "alloca", isGlobal |-> FALSE,
                                               isUserSpecified |-> FALSE])],
             {Ghost(b.h, p, q, Content)})

\* malloc returns any free slot, or null: then nothing is bound.
allocate(w, p, size, kind, from) ==
    {Back(w, {p})} \cup
    UNION {{allocated(w, p, b, size, kind, from, base)
            : b \in {bindObject(c.h, p, base, c.os)
                     : c \in {copied(w.heap, from, Initialize(NewObject(size), Filler(kind)))}}}
           : base \in {s \in Slots : Free(w, s, size)}}

\* A symbolic size: an example is tried, halved while that is possible; the
\* other sizes get their only value, null when huge, or an error.
RECURSIVE smaller(_, _, _)
smaller(p, size, example) ==
    IF example > SmallSize /\ example \div 2 \in valuesOf(p, size)
    THEN smaller(p, size, example \div 2) ELSE example

\* What is left to do for a symbolic size: the paths to allocate a value for.
sizedPaths(w, p, size, example) ==
    LET Huge(q) == {x \in q.inputs : size.at[x] > HugeSize}
        Example(f) == {[p |-> q, size |-> example] : q \in f.yes}
        Other(f, q) ==
            IF Cardinality(valuesOf(q, size)) = 1
            THEN {[w |-> w, todo |-> Example(f) \cup {[p |-> q, size |-> v] : v \in valuesOf(q, size)}]}
            ELSE {[w |-> Back(Ended(Ended(w, g.late, "early"), UNION {r.inputs : r \in g.no}, "Model"), g.yes),
                   todo |-> Example(f)] : g \in fork(q, Huge(q), FALSE)}
    IN  UNION {IF f.no = {} THEN {[w |-> Ended(w, f.late, "early"), todo |-> Example(f)]} ELSE Other(f, TheOnly(f.no))
               : f \in fork(p, InputsWith(p, size, example), FALSE)}

sizings(w, p, size) ==
    UNION {IF isConst(s) THEN {[w |-> w, todo |-> {[p |-> p, size |-> valueOf(s)]}]}
           ELSE UNION {sizedPaths(w, p, s, smaller(p, s, v)) : v \in valuesOf(p, s)} : s \in toUnique(p, size)}

executeAlloc(w, p, size, kind, from) ==
    UNION {FoldSet(LAMBDA t, W : UNION {allocate(w1, t.p, t.size, kind, from) : w1 \in W}, {s.w}, s.todo)
           : s \in sizings(w, p, size)}

----------------------------------------------------------------------------
(* Exact pointers: Executor::resolveExact and the handlers built on it.      *)

\* The world once the inputs without an object have ended, and the path and
\* the object of each of the others.
RECURSIVE resolvedExactly(_, _, _, _, _)
resolvedExactly(w, left, rl, a, found) ==
    LET Found(f) == found \o SetToSeq({[p |-> q, n |-> Head(rl)] : q \in f.yes})
    IN  IF rl = <<>> THEN {[w |-> Ended(w, left.inputs, "Ptr"), found |-> found]}
        ELSE UNION {IF f.no = {} THEN {[w |-> Ended(w, f.late, "early"), found |-> Found(f)]}
                    ELSE resolvedExactly(w, TheOnly(f.no), Tail(rl), a, Found(f))
                    : f \in fork(left, InputsWith(left, a, Head(rl).key), isConst(a))}

\* Then is what a handler does with one path and its object.
resolveExact(w, p, a, Then(_, _, _)) ==
    LET Each(r) == FoldLeft(LAMBDA W, m : UNION {Then(w1, m.p, m.n) : w1 \in W}, {r.w}, r.found)
    IN  UNION {UNION {Each(r) : r \in resolvedExactly(w, p, l.rl, a, <<>>)}
               : l \in resolve(w.heap, p, a, FALSE)}

Exact(p, a, x, C(_)) == \E n \in nodesOf(p.objects) : n.key = a.at[x] /\ C(n)

released(w, p, n) ==
    LET q == unbindObject(p, n.key)
    IN  Back(w, {Ghost(w.heap, p, q, LAMBDA m, o : Kept(p, m, o))})

freed(w, p, n) ==
    {IF w.mos[n.key].isLocal \/ w.mos[n.key].isGlobal THEN Ended(w, p.inputs, "Free") ELSE released(w, p, n)}

FreeFate(w, p, a) ==
    Fate(w, p, LAMBDA x :
        CASE a.at[x] = 0 -> "run"
          [] a.at[x] # 0 /\ ~Exact(p, a, x, LAMBDA n : TRUE) -> "Ptr"
          [] OTHER -> IF Exact(p, a, x, LAMBDA n : ~w.mos[n.key].isLocal /\ ~w.mos[n.key].isGlobal)
                      THEN "run" ELSE "Free")

\* Executor::executeFree: a null pointer is left alone.
executeFree(w, p, a) ==
    UNION {LET w1 == Back(Ended(w, f.late, "early"), f.yes)
           IN  IF f.no = {} THEN {w1} ELSE resolveExact(w1, TheOnly(f.no), a, freed)
           : f \in fork(p, InputsWith(p, a, 0), isConst(a))}

\* SpecialFunctionHandler::handleRealloc.
ReallocFate(w, p, a, size) ==
    LET F == FreeFate(w, p, a).fate
    IN  Fate(w, p, LAMBDA x : CASE size.at[x] = 0 -> F[x]
                                [] size.at[x] # 0 /\ a.at[x] = 0 -> "run"
                                [] OTHER -> IF Exact(p, a, x, LAMBDA n : TRUE) THEN "run" ELSE "Ptr")

reallocNonzero(w, p, a, size) ==
    LET Then(w1, q, n) == executeAlloc(w1, q, size, "realloc", n)
        Alloc(f, w1) == IF f.yes = {} THEN {w1}
                        ELSE executeAlloc(w1, TheOnly(f.yes), size, "malloc", Terminator)
        Move(f, w2)  == IF f.no = {} THEN {w2} ELSE resolveExact(w2, TheOnly(f.no), a, Then)
    IN  UNION {UNION {Move(f, w2) : w2 \in Alloc(f, Ended(w, f.late, "early"))}
               : f \in fork(p, InputsWith(p, a, 0), isConst(a))}

handleRealloc(w, p, a, size) ==
    LET Zero(f, w1) == IF f.yes = {} THEN {w1} ELSE executeFree(w1, TheOnly(f.yes), a)
        Other(f, w2) == IF f.no = {} THEN {w2} ELSE reallocNonzero(w2, TheOnly(f.no), a, size)
    IN  UNION {UNION {Other(f, w2) : w2 \in Zero(f, Ended(w, f.late, "early"))}
               : f \in fork(p, InputsWith(p, size, 0), isConst(size))}

\* Executor::executeMakeSymbolic: a new object state over a new array.
executeMakeSymbolic(w, p, n) ==
    LET array == Arrays[p.arrays + 1]
        size  == sizeOf(w.heap, n)
        b == bindObject(w.heap, p, n.key, NewSymbolic(size, [o \in 0 .. (size - 1) |-> array[o]]))
        q == [b.p EXCEPT !.arrays = @ + 1, !.symbolics = @ \cup {n.key}]
    IN  Back([w EXCEPT !.heap = b.h],
             {Ghost(b.h, p, q, LAMBDA m, o : IF m.key = n.key THEN array[o] ELSE Kept(p, m, o))})

\* SpecialFunctionHandler::handleMakeSymbolic; a read-only object ends the
\* handler, so that the paths after it go on as they are.
handleMakeSymbolic(w, p, a, size) ==
    LET RO(m) == w.heap[m.n.value].readOnly
        Then(W, m) ==
            CASE W.over -> [W EXCEPT !.w = Back(@, {m.p})]
              [] ~W.over /\ RO(m) -> [over |-> TRUE, w |-> Ended(W.w, m.p.inputs, "User")]
              [] ~W.over /\ ~RO(m) /\ sizeOf(w.heap, m.n) # size -> [W EXCEPT !.w = Ended(@, m.p.inputs, "User")]
              [] OTHER -> [W EXCEPT !.w = executeMakeSymbolic(@, m.p, m.n)]
        Each(r) == FoldLeft(Then, [over |-> FALSE, w |-> r.w], r.found).w
        Fits(n) == ~w.heap[n.value].readOnly /\ sizeOf(w.heap, n) = size
        F == Fate(w, p, LAMBDA x : CASE Exact(p, a, x, Fits) -> "run"
                                     [] Exact(p, a, x, LAMBDA n : ~Fits(n)) -> "User"
                                     [] OTHER -> "Ptr")
    IN  UNION {{Each(r) : r \in resolvedExactly(F, p, l.rl, a, <<>>)} : l \in resolve(w.heap, p, a, FALSE)}

ExactFate(w, p, a) == Fate(w, p, LAMBDA x : IF Exact(p, a, x, LAMBDA n : TRUE) THEN "run" ELSE "Ptr")

\* handleMarkGlobal: the flag is the memory object's, whatever path sees it.
handleMarkGlobal(w, p, a) ==
    LET Then(w1, q, n) == {IF w1.mos[n.key].isLocal THEN [w1 EXCEPT !.aborted = TRUE]
                           ELSE Back([w1 EXCEPT !.mos[n.key].isGlobal = TRUE], {q})}
    IN  resolveExact(ExactFate(w, p, a), p, a, Then)

handleGetObjSize(w, p, a) == resolveExact(ExactFate(w, p, a), p, a, LAMBDA w1, q, n : {Back(w1, {q})})

\* handleCheckMemoryAccess: needs a constant address.
handleCheckMemoryAccess(w, p, a, size) ==
    LET Checked(c) ==
            LET n == resolveOneConstant(w.heap, p, valueOf(c))
                ok == ~isTerminator(n) /\ inBounds(sizeOf(w.heap, n), valueOf(c) - n.key, size)
            IN  CASE ~isConst(c) -> Ended(w, p.inputs, "symbolic argument")
                  [] isConst(c) /\ ok -> Back(w, {p})
                  [] OTHER -> Ended(w, p.inputs, "Ptr")
        V(c) == [Checked(c) EXCEPT !.fate = IF isConst(c) THEN AccessFate(w, p, c, FALSE, size).fate ELSE @]
    IN  {V(c) : c \in toUnique(p, a)}

\* ExecutionState::popFrame.
popFrame(w, p) ==
    LET q == [p EXCEPT !.objects = FoldLeft(LAMBDA t, b : remove(t, b), @, SetToSortSeq(p.allocas, <)),
                       !.allocas = {}]
    IN  Back(w, {Ghost(w.heap, p, q, LAMBDA n, o : Kept(p, n, o))})

----------------------------------------------------------------------------
(* External functions: Executor::callExternalFunction.                       *)

\* copyInConcrete: the bytes of the object at n as the function left them.
copyInConcrete(h, p, n, store) ==
    IF h[n.value].store = store THEN [h |-> h, p |-> p]
    ELSE LET g == getWriteable(h, p, n) IN [h |-> [g.h EXCEPT ![g.id].store = store], p |-> g.p]

\* A byte whose concrete value is not the one reads use, or not the only one:
\* it is symbolic, or a read at a symbolic offset has flushed it.
Shadowed(os, o) == ~isByteConcrete(os, o) \/ isByteFlushed(os, o)

\* The function writes byte e.byte at e.addr, in the object at n, and sets
\* errno; then copyInConcretes and the copy of errno.  A shadowed byte keeps its
\* old value where reads find it: the path is stale.
callExternalFunction(w, p, n, e) ==
    LET errno == lookup(p.objects, ErrnoAddress)
        r     == read8(w.heap[errno.value], 0)
        off   == e.addr - n.key
        now   == [w.heap[n.value].store EXCEPT ![off] = e.byte]
        c     == copyInConcrete([w.heap EXCEPT ![errno.value] = r.os], p, n, now)
        d     == copyInConcrete(c.h, c.p, errno, [w.heap[errno.value].store EXCEPT ![0] = e.errno])
        Native(q) == [q EXCEPT
            !.stale = @ \/ Shadowed(w.heap[n.value], off) \/ Shadowed(w.heap[errno.value], 0),
            !.mem = [x \in q.inputs |-> [@[x] EXCEPT ![e.addr] = e.byte, ![ErrnoAddress] = e.errno]]]
        RO    == w.heap[n.value].readOnly /\ now # w.heap[n.value].store
    IN  CASE ~isConst(r.e) -> Ended(w, p.inputs, "Exec")
          [] isConst(r.e) /\ (e.crash \/ RO) ->
               Ended(Fate(w, p, LAMBDA x : "External"), p.inputs, "External")
          [] OTHER -> Back([w EXCEPT !.heap = d.h], {Native(d.p)})

----------------------------------------------------------------------------
(* The run.                                                                  *)

\* Executor::initializeGlobals and what the program allocated before: the
\* objects of a layout, allocated in the given order.
World(layout, order) ==
    LET objs == layout.objects
        h == [i \in DOMAIN objs |->
                [Initialize(NewObject(objs[i].size), Junk) EXCEPT !.owner = 1, !.readOnly = objs[i].readOnly]]
        p == [inputs |-> Inputs, cowKey |-> 1, allocas |-> {}, arrays |-> 0, symbolics |-> {}, limited |-> layout.limited, stale |-> FALSE,
              objects |-> FoldLeft(LAMBDA t, i : replace(t, objs[i].base, i), Terminator, order),
              mem |-> [x \in Inputs |-> <<>>]]
        q == Ghost(h, p, p, LAMBDA n, o : Const(Junk))
    IN  [paths |-> {q}, heap |-> h,
         mos |-> [b \in {objs[i].base : i \in DOMAIN objs} |->
                    LET o == CHOOSE i \in DOMAIN objs : objs[i].base = b
                    IN  [size |-> objs[o].size, isLocal |-> FALSE, isGlobal |-> objs[o].isGlobal,
                         isUserSpecified |-> b = ErrnoAddress]],
         ended |-> [x \in Inputs |-> "run"], fate |-> [x \in Inputs |-> "run"],
         misread |-> {}, limited |-> layout.limited, aborted |-> FALSE]

Orders(layout) ==
    LET ids == DOMAIN layout.objects
    IN  IF layout.anyOrder THEN {s \in [ids -> ids] : \A i, j \in ids : i # j => s[i] # s[j]}
        ELSE {[i \in ids |-> i]}

Init == \E l \in DOMAIN Layouts :
            /\ world \in {World(Layouts[l], o) : o \in Orders(Layouts[l])}
            /\ ops = Layouts[l].maxOps

\* An operation of path p leaves one of the worlds in W.
Step(W) == /\ ops > 0
           /\ ~world.aborted
           /\ world' \in {Collected(w) : w \in W}
           /\ ops' = ops - 1

Load == \E p \in world.paths, i \in DOMAIN Loads :
            Step(executeMemoryOperation(world, p, Loads[i].addr, FALSE, [b \in 1 .. Loads[i].bytes |-> Const(0)]))

Store == \E p \in world.paths, i \in DOMAIN Stores :
            Step(executeMemoryOperation(world, p, Stores[i].addr, TRUE, Stores[i].value))

Alloc == \E p \in world.paths, i \in DOMAIN Allocs :
            Step(executeAlloc(Taken(world, p), p, Allocs[i].size, Allocs[i].kind, Terminator))

FreePointer == \E p \in world.paths, i \in DOMAIN Frees :
            Step(executeFree(FreeFate(Taken(world, p), p, Frees[i]), p, Frees[i]))

\* realloc of a stack object is left to the program: KLEE does not see it.
Realloc == \E p \in world.paths, i \in DOMAIN Reallocs :
            LET a == Reallocs[i].addr
                size == Reallocs[i].size
            IN  /\ \A x \in p.inputs : a.at[x] \notin p.allocas
                /\ Step(handleRealloc(ReallocFate(Taken(world, p), p, a, size), p, a, size))

MakeSymbolic == \E p \in world.paths, i \in DOMAIN Symbolics :
            /\ p.arrays < Len(Arrays)
            /\ Step(handleMakeSymbolic(Taken(world, p), p, Symbolics[i].addr, Symbolics[i].size))

MarkGlobal == \E p \in world.paths, i \in DOMAIN Objects :
            Step(handleMarkGlobal(Taken(world, p), p, Objects[i]))

GetObjSize == \E p \in world.paths, i \in DOMAIN Objects :
            Step(handleGetObjSize(Taken(world, p), p, Objects[i]))

CheckMemoryAccess == \E p \in world.paths, i \in DOMAIN Loads :
            Step(handleCheckMemoryAccess(Taken(world, p), p, Loads[i].addr, Loads[i].bytes))

Return == \E p \in world.paths : p.allocas # {} /\ Step({popFrame(Taken(world, p), p)})

Branch == \E p \in world.paths, i \in DOMAIN Branches :
            Step({Back(Ended(Taken(world, p), f.late, "early"), f.yes \cup f.no) : f \in fork(p, Branches[i], FALSE)})

External == \E p \in world.paths, i \in DOMAIN ExternalWrites :
            LET e == ExternalWrites[i]
                n == resolveOneConstant(world.heap, p, e.addr)
                errno == lookup(p.objects, ErrnoAddress)
            IN  /\ ~isTerminator(n) /\ ~isTerminator(errno) /\ n.key # ErrnoAddress
                /\ Step({callExternalFunction(Taken(world, p), p, n, e)})

Next == \/ Load \/ Store \/ Alloc \/ FreePointer \/ Realloc \/ MakeSymbolic \/ MarkGlobal
        \/ GetObjSize \/ CheckMemoryAccess \/ Return \/ Branch \/ External

Spec == Init /\ [][Next]_vars

----------------------------------------------------------------------------
(* Properties.                                                               *)

\* Whatever the paths share and whichever cache holds a byte, every byte of
\* every path is, for each input that follows the path, the byte a native run
\* on that input has there, read at a constant as at a symbolic offset, and no
\* load ever returned another (getWriteable, flushRangeForRead and -Write) --
\* unless an external call wrote a byte behind its symbolic or flushed value.
\* The assertions that read8 and the flushes rest on hold throughout.
MemoryExact ==
    /\ world.misread = {} /\ \A i \in DOMAIN world.heap : CacheInvariant(world.heap[i])
    /\ \A p \in {q \in world.paths : ~q.stale} : \A n \in nodesOf(p.objects) :
          ReadsExactly(world.heap[n.value], n.key, p.mem)

\* No path may write an object state in place that another path can see: the
\* owner of an object is at most the key of its space (AddressSpace.h), and
\* below the key of every space that shares it.
OwnersExclusive ==
    \A p, q \in world.paths : \A n \in nodesOf(p.objects) :
        LET owner == world.heap[n.value].owner
        IN  /\ owner <= p.cowKey
            /\ (p # q /\ \E m \in nodesOf(q.objects) : m.value = n.value) => owner < p.cowKey /\ owner < q.cowKey

GivenUp == {"Model", "Exec", "symbolic argument"} \cup IF world.limited THEN {"early", "concretized"} ELSE {}

\* Every input is on exactly one path or has ended.  One that is still on a
\* path has made no illegal access, one that ended with a memory error made
\* exactly that error, and the others were given up for a timeout, a
\* concretisation or a restriction KLEE reports (executeMemoryOperation,
\* executeFree, resolveExact).
AccessVerdicts ==
    world.aborted \/ \A x \in Inputs :
        LET on == {p \in world.paths : x \in p.inputs}
        IN  /\ Cardinality(on) = IF world.ended[x] = "run" THEN 1 ELSE 0
            /\ world.ended[x] = world.fate[x] \/ world.ended[x] \in GivenUp

\* The memory map of every path is a search tree balanced to a difference of
\* two, and lookup_previous, upper_bound, find and the iterators agree with
\* the sorted set of its addresses, as resolve relies on.
MapsOrdered ==
    \A p \in world.paths :
        LET t  == p.objects
            K  == keysOf(t)
            up == SetToSortSeq(K, <)
            Stack(k) == find(t, k)
        IN  /\ treeSize(t) = Cardinality(K)
            /\ \A n \in nodesOf(t) :
                  /\ \A k \in keysOf(n.left) : k < n.key
                  /\ \A k \in keysOf(n.right) : k > n.key
                  /\ n.left.height <= n.right.height + 2 /\ n.right.height <= n.left.height + 2
                  /\ n = Node(n.left, n.right, n.key, n.value)
            /\ K # {} => treeMin(t).key = Min(K) /\ treeMax(t).key = Max(K)
            /\ \A i \in DOMAIN up :
                  LET after == increment(Stack(up[i]))
                  IN  /\ after = (IF i = Len(up) THEN end ELSE Stack(up[i + 1]))
                      /\ decrement(t, after) = Stack(up[i])
            /\ \A a \in 0 .. PointerSpan :
                  LET below == {k \in K : k <= a}
                      above == K \ below
                      q == lookup_previous(t, a, Terminator)
                  IN  /\ IF below = {} THEN isTerminator(q) ELSE q.key = Max(below)
                      /\ IF above = {} THEN upper_bound(t, a) = end
                         ELSE upper_bound(t, a) = Stack(Min(above))
=============================================================================
