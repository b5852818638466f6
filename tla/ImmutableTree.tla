---------------------------- MODULE ImmutableTree ----------------------------
(***************************************************************************)
(* The persistent search tree behind a state's memory map                   *)
(* (klee/Internal/ADT/ImmutableTree.h and ImmutableMap.h).  A tree is a      *)
(* value, so the sharing of subtrees between versions and the reference      *)
(* counts that reclaim them do not appear.  An iterator is its stack, the    *)
(* nodes from the root to the current one; the end has the empty stack.      *)
(***************************************************************************)
EXTENDS Naturals, Sequences
LOCAL INSTANCE SequencesExt

Terminator == [height |-> 0]
isTerminator(n) == n.height = 0

Node(l, r, k, v) ==
    [height |-> 1 + (IF l.height > r.height THEN l.height ELSE r.height),
     left |-> l, right |-> r, key |-> k, value |-> v]

\* Mutant: a rotation swaps the subtrees.
balanceSwapped(l, k, v, r) ==
    IF r.height > l.height + 2
    THEN Node(Node(l, r.right, k, v), r.left, r.key, r.value)
    ELSE Node(l, r, k, v)

\* What Node::balance does with a tree three levels higher on one side.
balance(l, k, v, r) ==
    CASE l.height > r.height + 2 ->
           LET lr == l.right
           IN  IF l.left.height >= lr.height
               THEN Node(l.left, Node(lr, r, k, v), l.key, l.value)
               ELSE Node(Node(l.left, lr.left, l.key, l.value), Node(lr.right, r, k, v), lr.key, lr.value)
      [] r.height > l.height + 2 ->
           LET rl == r.left
           IN  IF r.right.height >= rl.height
               THEN Node(Node(l, rl, k, v), r.right, r.key, r.value)
               ELSE Node(Node(l, rl.left, k, v), Node(rl.right, r.right, r.key, r.value), rl.key, rl.value)
      [] OTHER -> Node(l, r, k, v)

RECURSIVE popMin(_), popMax(_), insert(_, _, _), replace(_, _, _), remove(_, _), treeSize(_)

popMin(n) ==
    IF isTerminator(n.left) THEN [tree |-> n.right, key |-> n.key, value |-> n.value]
    ELSE LET m == popMin(n.left) IN [m EXCEPT !.tree = balance(m.tree, n.key, n.value, n.right)]

popMax(n) ==
    IF isTerminator(n.right) THEN [tree |-> n.left, key |-> n.key, value |-> n.value]
    ELSE LET m == popMax(n.right) IN [m EXCEPT !.tree = balance(n.left, n.key, n.value, m.tree)]

insert(n, k, v) ==
    CASE isTerminator(n) -> Node(Terminator, Terminator, k, v)
      [] ~isTerminator(n) /\ k < n.key -> balance(insert(n.left, k, v), n.key, n.value, n.right)
      [] ~isTerminator(n) /\ k > n.key -> balance(n.left, n.key, n.value, insert(n.right, k, v))
      [] OTHER -> n

replace(n, k, v) ==
    CASE isTerminator(n) -> Node(Terminator, Terminator, k, v)
      [] ~isTerminator(n) /\ k < n.key -> balance(replace(n.left, k, v), n.key, n.value, n.right)
      [] ~isTerminator(n) /\ k > n.key -> balance(n.left, n.key, n.value, replace(n.right, k, v))
      [] OTHER -> Node(n.left, n.right, k, v)

remove(n, k) ==
    CASE isTerminator(n) -> n
      [] ~isTerminator(n) /\ k < n.key -> balance(remove(n.left, k), n.key, n.value, n.right)
      [] ~isTerminator(n) /\ k > n.key -> balance(n.left, n.key, n.value, remove(n.right, k))
      [] OTHER -> CASE isTerminator(n.left)  -> n.right
                    [] isTerminator(n.right) -> n.left
                    [] OTHER -> LET m == popMin(n.right)
                                IN  balance(n.left, m.key, m.value, m.tree)

treeSize(n) == IF isTerminator(n) THEN 0 ELSE treeSize(n.left) + 1 + treeSize(n.right)

----------------------------------------------------------------------------
(* Lookups.                                                                  *)

RECURSIVE lookup(_, _), lookup_previous(_, _, _), leftSpine(_), rightSpine(_), descent(_, _)

\* The node of key k, or the terminator (a null result in the code).
lookup(n, k) ==
    IF isTerminator(n) \/ n.key = k THEN n
    ELSE lookup(IF k < n.key THEN n.left ELSE n.right, k)

\* The node with the last key up to k; best is the one found so far.
lookup_previous(n, k, best) ==
    CASE isTerminator(n) -> best
      [] ~isTerminator(n) /\ k < n.key -> lookup_previous(n.left, k, best)
      [] ~isTerminator(n) /\ k > n.key -> lookup_previous(n.right, k, n)
      [] OTHER -> n

leftSpine(n)  == IF isTerminator(n) THEN <<>> ELSE <<n>> \o leftSpine(n.left)
rightSpine(n) == IF isTerminator(n) THEN <<>> ELSE <<n>> \o rightSpine(n.right)

treeMin(n) == Last(leftSpine(n))
treeMax(n) == Last(rightSpine(n))

----------------------------------------------------------------------------
(* Iterators.                                                                *)

begin(root) == leftSpine(root)
end         == <<>>

\* Up to the first ancestor reached from its child on the given side.
RECURSIVE climb(_, _)
climb(stack, side) ==
    LET up == Front(stack)
    IN  IF up = <<>> \/ Last(up)[side] = Last(stack) THEN up ELSE climb(up, side)

decrement(root, stack) ==
    CASE stack = end -> rightSpine(root)
      [] stack # end /\ isTerminator(Last(stack).left) -> climb(stack, "right")
      [] OTHER -> stack \o rightSpine(Last(stack).left)

increment(stack) ==
    IF isTerminator(Last(stack).right) THEN climb(stack, "left")
    ELSE stack \o leftSpine(Last(stack).right)

descent(n, k) ==
    CASE isTerminator(n) -> <<>>
      [] ~isTerminator(n) /\ k < n.key -> <<n>> \o descent(n.left, k)
      [] ~isTerminator(n) /\ k > n.key -> <<n>> \o descent(n.right, k)
      [] OTHER -> <<n>>

lower_bound(root, k) ==
    LET it == descent(root, k)
    IN  IF it # <<>> /\ Last(it).key < k THEN increment(it) ELSE it

upper_bound(root, k) ==
    LET it == lower_bound(root, k)
    IN  IF it # end /\ k >= Last(it).key THEN increment(it) ELSE it

find(root, k) ==
    LET it == lower_bound(root, k)
    IN  IF it = end \/ k < Last(it).key THEN end ELSE it

----------------------------------------------------------------------------
(* What a tree holds, for the properties.                                    *)

RECURSIVE nodesOf(_)
nodesOf(n) == IF isTerminator(n) THEN {} ELSE {n} \cup nodesOf(n.left) \cup nodesOf(n.right)
keysOf(n) == {m.key : m \in nodesOf(n)}
=============================================================================
