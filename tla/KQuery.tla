------------------------------- MODULE KQuery -------------------------------
(***************************************************************************)
(* The kquery language: the printer of lib/Expr/ExprPPrinter.cpp, which     *)
(* writes the .kquery files FeatMaker learns from, and the parser of         *)
(* lib/Expr/Parser.cpp that reads them back.  A text is a sequence of        *)
(* tokens; spaces, line breaks, radix and the spelling of names are left     *)
(* out.  A parse stops at the first error: the recovery that goes on to      *)
(* report further errors is left out.                                        *)
(***************************************************************************)
EXTENDS ExprBuilder, SequencesExt

\* A token: its kind, a number (value, width, array or label) and a name.
Token(t, n, s) == [t |-> t, n |-> n, s |-> s]
Punct(t)       == Token(t, 0, "")
Number(n)      == Token("Number", n, "")
KWWidth(w)     == Token("KWWidth", w, "")
Identifier(s)  == Token("Identifier", 0, s)
ArrayName(r)   == Token("Identifier", r, "array")
UpdateLabel(n) == Token("Identifier", n, "U")

-----------------------------------------------------------------------------
(* Printing.  An update node is a root and the list from the node on; b is   *)
(* the sequence of nodes that already have a label, shared the nodes that    *)
(* the scan met twice.                                                       *)

UpdateNode(root, ul, i) == <<root, SubSeq(ul, i, Len(ul))>>

\* scan, scan1 and scanUpdate over the expressions es.
scan(es) ==
    LET reads == UNION {findReads(e, TRUE) : e \in es}
        nodes == UNION {{UpdateNode(r.v, r.u, i) : i \in DOMAIN r.u} : r \in reads}
        met(n) == Cardinality({r \in reads : <<r.v, r.u>> = n})
                  + Cardinality({m \in nodes : m[1] = n[1] /\ Tail(m[2]) = n[2]})
    IN  {n \in nodes : met(n) > 1}

RECURSIVE ConcatChain(_)
ConcatChain(e) == IF e.k = "Concat" THEN <<e.kids[1]>> \o ConcatChain(e.kids[2]) ELSE <<e>>

\* Only the distance of the indices is tested, not the array or its updates.
isReadExprAtOffset(e, base, offset) ==
    e.k = "Read" /\ create("Sub", e.kids[1], base.kids[1]) = offset

hasOrderedReads(e, stride) ==
    LET c == ConcatChain(e)
    IN  /\ c[1].k = "Read"
        /\ \A i \in 2..Len(c) :
              isReadExprAtOffset(c[i], c[1], Constant(stride * (i - 1), c[1].kids[1].w))

printConst(e, printWidth) ==
    IF e.w = Bool THEN <<Punct(IF e = True THEN "KWTrue" ELSE "KWFalse")>>
    ELSE IF printWidth THEN <<Punct("("), KWWidth(e.w), Number(e.v), Punct(")")>>
    ELSE <<Number(e.v)>>

\* Each print operator returns the tokens and the labels bound afterwards.
RECURSIVE print(_, _, _, _), printKids(_, _, _, _, _), printUpdates(_, _, _, _, _, _)

printUpdates(root, ul, i, opened, b, shared) ==
    LET node == UpdateNode(root, ul, i)
        at   == IF opened THEN <<Punct("]"), Punct("@")>> ELSE <<>>
    IN  IF i > Len(ul)
        THEN [ts |-> at \o <<ArrayName(root)>>, b |-> b]
        ELSE IF Contains(b, node)
        THEN [ts |-> at \o <<UpdateLabel((CHOOSE j \in DOMAIN b : b[j] = node))>>, b |-> b]
        ELSE LET label == IF node \in shared THEN at \o <<UpdateLabel(Len(b) + 1), Punct(":")>> ELSE <<>>
                 b0    == IF node \in shared THEN Append(b, node) ELSE b
                 sep   == IF opened /\ node \notin shared THEN Punct(",") ELSE Punct("[")
                 idx   == print(ul[i][1], FALSE, b0, shared)
                 value == print(ul[i][2], FALSE, idx.b, shared)
                 rest  == printUpdates(root, ul, i + 1, TRUE, value.b, shared)
             IN  [ts |-> label \o <<sep>> \o idx.ts \o <<Punct("=")>> \o value.ts \o rest.ts,
                  b  |-> rest.b]

printRead(re, b, shared) ==
    LET idx == print(re.kids[1], FALSE, b, shared)
        ups == printUpdates(re.v, re.u, 1, FALSE, idx.b, shared)
    IN  [ts |-> idx.ts \o ups.ts, b |-> ups.b]

\* printExpr: the first kid never carries the width of a constant.
printKids(e, i, printConstWidth, b, shared) ==
    IF i > Len(e.kids) THEN [ts |-> <<>>, b |-> b]
    ELSE LET kid  == print(e.kids[i], printConstWidth /\ i > 1, b, shared)
             rest == printKids(e, i + 1, printConstWidth, kid.b, shared)
         IN  [ts |-> kid.ts \o rest.ts, b |-> rest.b]

printArgs(e, b, shared) ==
    CASE e.k = "Read"    -> printRead(e, b, shared)
      [] e.k = "Extract" -> LET kid == print(e.kids[1], FALSE, b, shared)
                            IN  [ts |-> <<Number(e.v)>> \o kid.ts, b |-> kid.b]
      [] OTHER           -> printKids(e, 1, e.k \in {"Concat", "SExt"}, b, shared)

print(e, printConstWidth, b, shared) ==
    LET width     == IF e.w = Bool THEN <<>> ELSE <<KWWidth(e.w)>>
        chain     == ConcatChain(e)
        isLSB     == hasOrderedReads(e, -1)
        multibyte == e.k = "Concat" /\ (isLSB \/ hasOrderedReads(e, 1))
        name      == IF ~multibyte THEN e.k ELSE IF isLSB THEN "ReadLSB" ELSE "ReadMSB"
        args      == IF ~multibyte THEN printArgs(e, b, shared)
                     ELSE printRead(IF isLSB THEN chain[Len(chain)] ELSE chain[1], b, shared)
    IN  IF isConstant(e) THEN [ts |-> printConst(e, printConstWidth), b |-> b]
        ELSE [ts |-> <<Punct("("), Identifier(name)>> \o width \o args.ts \o <<Punct(")")>>,
              b  |-> args.b]

\* The body of a query: the constraints, then the queried expression.
RECURSIVE printAll(_, _, _)
printAll(es, b, shared) ==
    IF es = <<>> THEN [ts |-> <<>>, b |-> b]
    ELSE LET first == print(es[1], FALSE, b, shared)
             rest  == printAll(Tail(es), first.b, shared)
         IN  [ts |-> first.ts \o rest.ts, b |-> rest.b]

printQuery(constraints, q) ==
    LET shared == scan({constraints[i] : i \in DOMAIN constraints} \cup {q})
        cs     == printAll(constraints, <<>>, shared)
    IN  <<Punct("("), Punct("KWQuery"), Punct("[")>> \o cs.ts \o <<Punct("]")>>
        \o print(q, FALSE, cs.b, shared).ts \o <<Punct(")")>>

-----------------------------------------------------------------------------
(* Parsing the text ts with builder bld.  A result holds the expression (or   *)
(* number token, or version), the position after it, the versions known so    *)
(* far (label n at n) and whether no error was met.  Type 0 is unknown.       *)

Result(e, p, vs) == [e |-> e, p |-> p, vs |-> vs, ok |-> TRUE]
Error(p)         == [e |-> False, p |-> p, vs |-> <<>>, ok |-> FALSE]
KindAt(ts, p)    == IF p > Len(ts) THEN "EndOfFile" ELSE ts[p].t

\* The result of expecting a token of kind t after the result r.
Expect(ts, r, t) ==
    IF r.ok /\ KindAt(ts, r.p) = t THEN [r EXCEPT !.p = r.p + 1] ELSE Error(r.p)

RECURSIVE ParseExpr(_, _, _, _, _), ParseVersionSpecifier(_, _, _, _),
          ParseConcatKids(_, _, _, _, _), ParseWrites(_, _, _, _, _)

ParseNumberToken(ty, tok) == Constant(tok.n, ty)

\* ParseNumberOrExpr, the number coerced to the type ty once that is known.
ParseNumberOrExpr(ts, p, ty, vs, bld) ==
    IF KindAt(ts, p) = "Number" THEN Result(ParseNumberToken(ty, ts[p]), p + 1, vs)
    ELSE ParseExpr(ts, p, 0, vs, bld)

\* ParseMatchedBinaryArgs: a number takes its type from the other argument.
ParseMatchedBinaryArgs(ts, p, ty, vs, bld) ==
    LET lhsIsNumber == ty = 0 /\ KindAt(ts, p) = "Number"
        \* parsed for its width, to type a number on the left
        r1  == IF lhsIsNumber THEN Result(False, p + 1, vs) ELSE ParseExpr(ts, p, ty, vs, bld)
        r2  == ParseExpr(ts, r1.p, IF ty # 0 THEN ty ELSE IF lhsIsNumber THEN 0 ELSE r1.e.w, r1.vs, bld)
        lhs == IF lhsIsNumber THEN ParseNumberToken(r2.e.w, ts[p]) ELSE r1.e
    IN  IF ~r1.ok THEN r1
        ELSE IF ~r2.ok \/ lhs.w # r2.e.w THEN Error(r1.p)
        ELSE Expect(ts, Result(<<lhs, r2.e>>, r2.p, r2.vs), ")")

ParseBinaryParenExpr(ts, p, k, ty, vs, bld) ==
    LET r == ParseMatchedBinaryArgs(ts, p, IF k \in Comparisons THEN 0 ELSE ty, vs, bld)
    IN  IF ~r.ok THEN r ELSE [r EXCEPT !.e = BuilderBinary(bld, k, r.e[1], r.e[2])]

ParseUnaryParenExpr(ts, p, k, ty, vs, bld) ==
    LET r == ParseExpr(ts, p, IF k = "Not" THEN ty ELSE 0, vs, bld)
    IN  IF ~r.ok THEN r
        ELSE Expect(ts, [r EXCEPT !.e = IF k = "Not" THEN BuilderNot(bld, r.e)
                                         ELSE BuilderCast(bld, k, r.e, ty)], ")")

ParseSelectParenExpr(ts, p, ty, vs, bld) ==
    LET c == ParseExpr(ts, p, Bool, vs, bld)
        r == ParseMatchedBinaryArgs(ts, c.p, ty, c.vs, bld)
    IN  IF ~c.ok THEN c
        ELSE IF ~r.ok THEN r ELSE [r EXCEPT !.e = BuilderSelect(bld, c.e, r.e[1], r.e[2])]

ParseConcatKids(ts, p, kids, vs, bld) ==
    IF KindAt(ts, p) = ")" THEN Result(kids, p + 1, vs)
    ELSE LET r == ParseExpr(ts, p, 0, vs, bld)
         IN  IF ~r.ok THEN r ELSE ParseConcatKids(ts, r.p, Append(kids, r.e), r.vs, bld)

ParseConcatParenExpr(ts, p, ty, vs, bld) ==
    LET r == ParseConcatKids(ts, p, <<>>, vs, bld)
        e == ConcatExpr_createN(r.e)
    IN  IF ~r.ok THEN r ELSE IF e.w # ty THEN Error(r.p) ELSE [r EXCEPT !.e = e]

ParseExtractParenExpr(ts, p, ty, vs, bld) ==
    LET r == ParseExpr(ts, p + 1, 0, vs, bld)
    IN  IF KindAt(ts, p) # "Number" THEN Error(p)
        ELSE IF ~r.ok THEN r
        ELSE IF ts[p].n + ty > r.e.w THEN Error(p)
        ELSE Expect(ts, [r EXCEPT !.e = BuilderExtract(bld, r.e, ts[p].n, ty)], ")")

ParseAnyReadParenExpr(ts, p, k, ty, vs, bld) ==
    LET idx  == ParseNumberOrExpr(ts, p, Int32, vs, bld)
        ver  == ParseVersionSpecifier(ts, idx.p, idx.vs, bld)
        Read(i) == BuilderRead(bld, ver.e[1], ver.e[2],
                               IF i = 0 THEN idx.e ELSE create("Add", idx.e, Constant(i, Int32)))
        n    == ty \div Int8
        kids == [i \in 1..n |-> IF k = "ReadLSB" THEN Read(n - i) ELSE Read(i - 1)]
    IN  IF ~idx.ok THEN idx
        ELSE IF ~ver.ok THEN ver
        ELSE IF idx.e.w # Int32 \/ (k # "Read" /\ ty # n * Int8) THEN Error(p)
        ELSE Expect(ts, Result(IF k = "Read" THEN Read(0) ELSE ConcatExpr_createN(kids), ver.p, ver.vs), ")")

\* The writes of an update list, oldest last, up to the closing bracket.
ParseWrites(ts, p, writes, vs, bld) ==
    LET idx   == ParseNumberOrExpr(ts, p, Int32, vs, bld)
        value == ParseNumberOrExpr(ts, idx.p + 1, Int8, idx.vs, bld)
        all   == Append(writes, <<idx.e, value.e>>)
    IN  IF ~idx.ok THEN idx
        ELSE IF KindAt(ts, idx.p) # "=" THEN Error(idx.p)
        ELSE IF ~value.ok THEN value
        ELSE IF idx.e.w # Int32 \/ value.e.w # Int8 THEN Error(p)
        ELSE IF KindAt(ts, value.p) = "," THEN ParseWrites(ts, value.p + 1, all, value.vs, bld)
        ELSE Expect(ts, Result(all, value.p, value.vs), "]")

\* ParseVersionSpecifier and ParseVersion: an array, a label, or writes over
\* a version, which may define a label.
ParseVersionSpecifier(ts, p, vs, bld) ==
    LET named    == KindAt(ts, p) = "Identifier"
        defining == named /\ KindAt(ts, p + 1) = ":"
        start    == IF defining THEN p + 2 ELSE p
        writes   == ParseWrites(ts, start + 1, <<>>, vs, bld)
        at       == Expect(ts, writes, "@")
        base     == ParseVersionSpecifier(ts, at.p, at.vs, bld)
        version  == <<base.e[1], at.e \o base.e[2]>>
    IN  IF named /\ ~defining
        THEN IF ts[p].s = "array" THEN Result(<<ts[p].n, <<>>>>, p + 1, vs)
             ELSE IF ts[p].n \notin DOMAIN vs THEN Error(p)
             ELSE Result(vs[ts[p].n], p + 1, vs)
        ELSE IF KindAt(ts, start) # "[" \/ ~at.ok THEN Error(p)
        ELSE IF ~base.ok THEN base
        ELSE [base EXCEPT !.e = version,
                          !.vs = IF defining THEN (ts[p].n :> version) @@ base.vs ELSE base.vs]

\* The form of the arguments of a name.  NotOptimized and any other name is no
\* expression kind of the language.
LookupExprInfo(name) ==
    CASE name \in BinaryArith \cup Comparisons -> "binary"
      [] name \in {"Not", "ZExt", "SExt"} -> "unary"
      [] name \in {"Read", "ReadLSB", "ReadMSB"} -> "read"
      [] name \in {"Select", "Concat", "Extract"} -> name
      [] OTHER -> "none"

ParseParenExpr(ts, p, vs, bld) ==
    LET name  == ts[p + 1].s
        form  == LookupExprInfo(name)
        typed == KindAt(ts, p + 2) = "KWWidth"
        ty    == IF typed THEN ts[p + 2].n ELSE Bool
        q     == IF typed THEN p + 3 ELSE p + 2
    IN  CASE KindAt(ts, p) # "(" -> Error(p)
          [] KindAt(ts, p) = "(" /\ KindAt(ts, p + 1) = "KWWidth" ->
                IF KindAt(ts, p + 2) # "Number" THEN Error(p)
                ELSE Expect(ts, Result(ParseNumberToken(ts[p + 1].n, ts[p + 2]), p + 3, vs), ")")
          [] KindAt(ts, p) = "(" /\ KindAt(ts, p + 1) = "Identifier" ->
                CASE form = "binary"  -> ParseBinaryParenExpr(ts, q, name, ty, vs, bld)
                  [] form = "unary"   -> ParseUnaryParenExpr(ts, q, name, ty, vs, bld)
                  [] form = "Select"  -> ParseSelectParenExpr(ts, q, ty, vs, bld)
                  [] form = "Concat"  -> ParseConcatParenExpr(ts, q, ty, vs, bld)
                  [] form = "Extract" -> ParseExtractParenExpr(ts, q, ty, vs, bld)
                  [] form = "read"    -> ParseAnyReadParenExpr(ts, q, name, ty, vs, bld)
                  [] OTHER -> Error(p)
          [] OTHER -> Error(p)

ParseExpr(ts, p, ty, vs, bld) ==
    CASE KindAt(ts, p) = "KWTrue"  -> Result(True, p + 1, vs)
      [] KindAt(ts, p) = "KWFalse" -> Result(False, p + 1, vs)
      [] KindAt(ts, p) = "Number"  -> IF ty = 0 THEN Error(p) ELSE Result(ParseNumberToken(ty, ts[p]), p + 1, vs)
      [] OTHER -> LET r == ParseParenExpr(ts, p, vs, bld)
                  IN  IF r.ok /\ ty # 0 /\ r.e.w # ty THEN Error(p) ELSE r

\* ParseQueryCommand: the constraints up to the bracket, then the query.
RECURSIVE ParseConstraints(_, _, _, _, _)
ParseConstraints(ts, p, cs, vs, bld) ==
    IF KindAt(ts, p) = "]" THEN Result(cs, p + 1, vs)
    ELSE IF KindAt(ts, p) = "EndOfFile" THEN Error(p)
    ELSE LET r == ParseExpr(ts, p, Bool, vs, bld)
         IN  IF ~r.ok THEN r ELSE ParseConstraints(ts, r.p, Append(cs, r.e), r.vs, bld)

ParseQueryCommand(ts, bld) ==
    LET cs == ParseConstraints(ts, 4, <<>>, <<>>, bld)
        q  == ParseExpr(ts, cs.p, Bool, cs.vs, bld)
    IN  IF [i \in 1..3 |-> KindAt(ts, i)] # <<"(", "KWQuery", "[">> THEN Error(1)
        ELSE IF ~cs.ok THEN cs
        ELSE IF ~q.ok THEN q
        ELSE Expect(ts, Result([constraints |-> cs.e, query |-> q.e], q.p, q.vs), ")")

=============================================================================
