----------------------------- MODULE AddressSpace -----------------------------
(***************************************************************************)
(* The address space of a state (lib/Core/AddressSpace): which objects it    *)
(* holds, which of them it may write in place, and the search for the        *)
(* objects a pointer may be in.                                              *)
(*                                                                           *)
(* p is a path: inputs is the set of inputs that follow it, objects its map  *)
(* from base addresses to object states, which live in a heap h shared by    *)
(* all paths.  The solver knows p.inputs; timed says whether it may run out  *)
(* of time.  A search has a set of outcomes, since getValue may give any     *)
(* value and every query may fail.                                           *)
(***************************************************************************)
EXTENDS ImmutableTree, ObjectState

CONSTANTS PointerSpan     \* the number of pointer values, 2^64 in the code

must(p, C(_)) == \A x \in p.inputs : C(x)
may(p, C(_))  == \E x \in p.inputs : C(x)
valuesOf(p, e) == {e.at[x] : x \in p.inputs}

\* MemoryObject::getOffsetExpr and the two getBoundsCheckOffset.
getOffsetExpr(base, a) == [a EXCEPT !.at = [x \in Inputs |-> (a.at[x] + PointerSpan - base) % PointerSpan]]
inObject(size, off)        == IF size = 0 THEN off = 0 ELSE off < size
inBounds(size, off, bytes) == bytes <= size /\ off < size - bytes + 1

sizeOf(h, n) == h[n.value].size
pointsInto(h, n, a, x) == inObject(sizeOf(h, n), getOffsetExpr(n.key, a).at[x])

----------------------------------------------------------------------------
(* Ownership.                                                                *)

Fresh(h) == CHOOSE i \in 1 .. (Cardinality(DOMAIN h) + 1) : i \notin DOMAIN h

\* bindObject: the heap and the path with os bound at addr.
bindObject(h, p, addr, os) ==
    LET id == Fresh(h)
    IN  [h |-> With(h, id, [os EXCEPT !.owner = p.cowKey]),
         p |-> [p EXCEPT !.objects = replace(@, addr, id)], id |-> id]

unbindObject(p, addr) == [p EXCEPT !.objects = remove(@, addr)]

\* getWriteable: the object itself if p owns it, else a copy that p owns.
getWriteable(h, p, n) ==
    IF h[n.value].owner = p.cowKey THEN [h |-> h, p |-> p, id |-> n.value]
    ELSE bindObject(h, p, n.key, CopyOf(h[n.value]))

\* Mutant: only the copy gets a new key.
BranchedOneKey(p, S) ==
    [p EXCEPT !.inputs = S, !.mem = [x \in S |-> @[x]],
              !.cowKey = IF \A x \in p.inputs : \E y \in S : y <= x THEN @ ELSE @ + 1]

\* The copy constructor: the two spaces share all objects and own none.
Branched(p, S) == [p EXCEPT !.inputs = S, !.cowKey = @ + 1, !.mem = [x \in S |-> @[x]]]

----------------------------------------------------------------------------
(* resolveOne: some object the address may be in, or the terminator.         *)

resolveOneConstant(h, p, addr) ==
    LET n == lookup_previous(p.objects, addr, Terminator)
    IN  IF ~isTerminator(n) /\ inObject(sizeOf(h, n), addr - n.key) THEN n ELSE Terminator

RECURSIVE searchForwards(_, _, _, _), searchBackwards(_, _, _, _, _)
searchForwards(h, p, a, it) ==
    LET n == Last(it)
    IN  CASE it = end -> Terminator
          [] it # end /\ must(p, LAMBDA x : a.at[x] < n.key) -> Terminator
          [] it # end /\ may(p, LAMBDA x : pointsInto(h, n, a, x)) -> n
          [] OTHER -> searchForwards(h, p, a, increment(it))

searchBackwards(h, p, a, it, start) ==
    LET back == decrement(p.objects, it)
        n    == Last(back)
    IN  CASE it = begin(p.objects) -> searchForwards(h, p, a, start)
          [] it # begin(p.objects) /\ may(p, LAMBDA x : pointsInto(h, n, a, x)) -> n
          [] it # begin(p.objects) /\ must(p, LAMBDA x : a.at[x] >= n.key) -> searchForwards(h, p, a, start)
          [] OTHER -> searchBackwards(h, p, a, back, start)

resolveOne(h, p, a) ==
    LET From(example) ==
            LET n  == lookup_previous(p.objects, example, Terminator)
                it == upper_bound(p.objects, example)
            IN  IF ~isTerminator(n) /\ example - n.key < sizeOf(h, n) THEN n
                ELSE searchBackwards(h, p, a, it, it)
    IN  IF isConst(a) THEN {resolveOneConstant(h, p, valueOf(a))}
        ELSE {From(example) : example \in valuesOf(p, a)}

----------------------------------------------------------------------------
(* resolve: the objects the address may be in, and whether some are missing. *)

Resolution(rl, incomplete) == [rl |-> rl, incomplete |-> incomplete]
TimedOut(timed, rl)        == IF timed THEN {Resolution(rl, TRUE)} ELSE {}

\* checkPointerInObject: code 0 ends the search, 1 ends it incomplete.
checkPointerInObject(h, p, a, n, rl, timed) ==
    LET hit  == Append(rl, n)
        only == Len(hit) = 1 /\ must(p, LAMBDA x : pointsInto(h, n, a, x))
        late(l) == IF timed THEN {[rl |-> l, code |-> 1]} ELSE {}
    IN  late(rl) \cup
        IF ~may(p, LAMBDA x : pointsInto(h, n, a, x)) THEN {[rl |-> rl, code |-> 2]}
        ELSE {[rl |-> hit, code |-> IF only THEN 0 ELSE 2]} \cup (IF Len(hit) = 1 THEN late(hit) ELSE {})

RECURSIVE resolveForwards(_, _, _, _, _, _), resolveBackwards(_, _, _, _, _, _, _)
resolveForwards(h, p, a, it, rl, timed) ==
    LET n == Last(it)
        Next(c) == IF c.code # 2 THEN {Resolution(c.rl, c.code = 1)}
                   ELSE resolveForwards(h, p, a, increment(it), c.rl, timed)
    IN  CASE it = end -> {Resolution(rl, FALSE)}
          [] it # end /\ must(p, LAMBDA x : a.at[x] < n.key) ->
                TimedOut(timed, rl) \cup {Resolution(rl, FALSE)}
          [] OTHER -> TimedOut(timed, rl)
                      \cup UNION {Next(c) : c \in checkPointerInObject(h, p, a, n, rl, timed)}

\* Mutant: the loop ends at the first object below the example.
resolveBackwardsOnce(h, p, a, it, rl, start, timed) ==
    IF it = begin(p.objects) THEN resolveForwards(h, p, a, start, rl, timed)
    ELSE UNION {IF c.code # 2 THEN {Resolution(c.rl, c.code = 1)}
                ELSE resolveForwards(h, p, a, start, c.rl, timed)
                : c \in checkPointerInObject(h, p, a, Last(decrement(p.objects, it)), rl, timed)}

resolveBackwards(h, p, a, it, rl, start, timed) ==
    LET back == decrement(p.objects, it)
        n    == Last(back)
        Next(c) == CASE c.code # 2 -> {Resolution(c.rl, c.code = 1)}
                     [] c.code = 2 /\ must(p, LAMBDA x : a.at[x] >= n.key) ->
                          TimedOut(timed, c.rl) \cup resolveForwards(h, p, a, start, c.rl, timed)
                     [] OTHER -> TimedOut(timed, c.rl) \cup
                                 resolveBackwards(h, p, a, back, c.rl, start, timed)
    IN  IF it = begin(p.objects) THEN resolveForwards(h, p, a, start, rl, timed)
        ELSE UNION {Next(c) : c \in checkPointerInObject(h, p, a, n, rl, timed)}

resolve(h, p, a, timed) ==
    LET From(example) == LET it == upper_bound(p.objects, example)
                         IN  resolveBackwards(h, p, a, it, <<>>, it, timed)
        n == resolveOneConstant(h, p, valueOf(a))
    IN  IF isConst(a) THEN {Resolution(IF isTerminator(n) THEN <<>> ELSE <<n>>, FALSE)}
        ELSE TimedOut(timed, <<>>) \cup UNION {From(example) : example \in valuesOf(p, a)}
=============================================================================
