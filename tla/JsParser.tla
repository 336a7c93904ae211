------------------------------- MODULE JsParser -------------------------------
(***************************************************************************)
(* The recursive-descent parser of MalibuJS (js/parser/parser.cpp, class   *)
(* TokenParser) as functions on parsers.                                   *)
(*                                                                         *)
(* A parser is a record                                                    *)
(*   toks  the tokens, the last one "eof"                                  *)
(*   i     the current token (idx_)                                        *)
(*   ok    no error so far (failed_ is FALSE)                              *)
(*   out   the nodes parsed and not yet taken by a parent                  *)
(*   noin  the operator in is disabled (no_in_)                            *)
(* A function of the code that returns a node puts it on out; one that     *)
(* returns nullptr puts nothing. After an error nothing changes any more.  *)
(*                                                                         *)
(* A token is [t, v, nl, parts]: type, text, whether a line ends before    *)
(* it, and for a template its interpolations, each a sequence of tokens    *)
(* (the lexer's part of the work). A node is [k, s, f, c]: kind, text,     *)
(* flags ("async" included) and children. The texts of literals are        *)
(* kept as they are, positions and messages are left out.                  *)
(***************************************************************************)
EXTENDS Naturals, Sequences, FiniteSets

Node(k, s, f, c) == [k |-> k, s |-> s, f |-> f, c |-> c]
Leaf(k, s) == Node(k, s, {}, <<>>)

Parser(toks) == [toks |-> toks, i |-> 1, ok |-> TRUE, out |-> <<>>, noin |-> FALSE]

Peek(p, off) == p.toks[IF p.i + off < Len(p.toks) THEN p.i + off ELSE Len(p.toks)]
Cur(p)       == Peek(p, 0)
AtEnd(p)     == Cur(p).t = "eof"

Advance(p) == IF p.ok /\ p.i < Len(p.toks) THEN [p EXCEPT !.i = @ + 1] ELSE p

IsPunct(p, v)     == Cur(p).t = "punct" /\ Cur(p).v = v
IsAnyPunct(p, vs) == Cur(p).t = "punct" /\ Cur(p).v \in vs
IsKw(p, v)        == Cur(p).t = "kw" /\ Cur(p).v = v
IsAnyKw(p, vs)    == Cur(p).t = "kw" /\ Cur(p).v \in vs
NextIs(p, t, vs)  == Peek(p, 1).t = t /\ Peek(p, 1).v \in vs
IsName(p)         == Cur(p).t \in {"id", "kw"}
IsKey(tok)        == tok.t \in {"id", "kw", "string", "number", "bigint"}

Fail(p)          == [p EXCEPT !.ok = FALSE]
AcceptPunct(p, v) == IF IsPunct(p, v) THEN Advance(p) ELSE p
AcceptKw(p, v)    == IF IsKw(p, v) THEN Advance(p) ELSE p
ExpectPunct(p, v) == IF IsPunct(p, v) THEN Advance(p) ELSE Fail(p)

Push(p, n) == IF p.ok THEN [p EXCEPT !.out = Append(@, n)] ELSE p

\* What has been put on out since before, a number of nodes.
Since(before, p) == SubSeq(p.out, Len(before.out) + 1, Len(p.out))

\* A node whose children are those put on out since before.
Build(k, s, f, before, p) ==
  IF p.ok THEN [p EXCEPT !.out = Append(before.out, Node(k, s, f, Since(before, p)))] ELSE p

\* The last node gets more flags.
Flag(p, f) ==
  IF p.ok /\ p.out # <<>> THEN [p EXCEPT !.out[Len(p.out)].f = @ \cup f] ELSE p

\* Where the code puts the node it has just parsed in front of those since before.
LastFirst(before, p) ==
  IF p.ok /\ Len(p.out) > Len(before.out)
  THEN [p EXCEPT !.out = before.out \o <<p.out[Len(p.out)]>>
                           \o SubSeq(p.out, Len(before.out) + 1, Len(p.out) - 1)]
  ELSE p

\* An optional node: where none was put, a placeholder.
Default(before, p, n) == IF Since(before, p) = <<>> THEN Push(p, n) ELSE p

When(condition, flag) == IF condition THEN {flag} ELSE {}

Undefined == Leaf("UndefinedLiteral", "")
EmptyBlock == Leaf("Block", "")

RECURSIVE Statement(_), Statements(_, _), Expression(_), Assignment(_), Binary(_, _),
          BinaryRest(_, _, _), Unary(_), Chain(_, _, _, _), Primary(_), BindingElement(_),
          ArrayElements(_), ObjectProperties(_), Parameters(_), Members(_), Clauses(_),
          Declarators(_), ForDeclarators(_), SequenceRest(_), Arguments(_), ArrayItems(_),
          ObjectItems(_), SkipTo(_), SkipBraces(_, _), Interpolations(_, _, _, _)

\* parse_expression on a text of its own, of which only an expression is used.
Interpolation(toks) ==
  LET p == Statement(Parser(toks))
  IN  IF p.ok /\ p.out # <<>> /\ p.out[1].k = "ExpressionStatement" /\ p.out[1].c # <<>>
      THEN p.out[1].c[1] ELSE Leaf("StringLiteral", "")

Plus(a, b) == Node("Binary", "+", {}, <<a, b>>)

Interpolations(parts, i, sofar, tagged) ==
  IF i > Len(parts) THEN sofar
  ELSE LET e == Interpolation(parts[i])
       IN  Interpolations(parts, i + 1,
             IF tagged THEN Append(sofar, e)
             ELSE <<Plus(Plus(sofar[1], e), Leaf("StringLiteral", "text"))>>, tagged)

\* The literal text between interpolations is "text" here.
TemplateExpr(parts) == Interpolations(parts, 1, <<Leaf("StringLiteral", "text")>>, FALSE)[1]

TaggedTemplate(tag, parts) ==
  Node("TaggedTemplate", "", {}, Interpolations(parts, 1, <<tag>>, TRUE))

(***************************************************************************)
(* Statements.                                                             *)
(***************************************************************************)
Statements(p, stops) ==
  IF ~p.ok \/ AtEnd(p) \/ (Cur(p).t \in {"punct", "kw"} /\ Cur(p).v \in stops) THEN p
  ELSE Statements(Statement(p), stops)

Block(p) ==
  Build("Block", "", {}, p, ExpectPunct(Statements(ExpectPunct(p, "{"), {"}"}), "}"))

Pattern(p) ==
  IF IsPunct(p, "[")
  THEN Build("ArrayLiteral", "", {}, p, ExpectPunct(ArrayElements(Advance(p)), "]"))
  ELSE Build("ObjectLiteral", "", {}, p, ExpectPunct(ObjectProperties(Advance(p)), "}"))

\* `target = default`, where the target is the node put since before.
WithDefault(before, p) ==
  IF p.ok /\ IsPunct(p, "=")
  THEN Build("Assignment", "=", {}, before, Assignment(Advance(p))) ELSE p

BindingElement(p) ==
  WithDefault(p, IF IsAnyPunct(p, {"[", "{"}) THEN Pattern(p)
                 ELSE IF IsName(p) THEN Push(Advance(p), Leaf("Identifier", Cur(p).v))
                 ELSE Fail(p))

ArrayElements(p) ==
  IF ~p.ok \/ IsPunct(p, "]") \/ AtEnd(p) THEN p
  ELSE IF IsPunct(p, ",") THEN ArrayElements(Push(Advance(p), Undefined))
  ELSE IF IsPunct(p, "...") THEN Build("Spread", "", {}, p, BindingElement(Advance(p)))
  ELSE LET q == BindingElement(p)
       IN  IF q.ok /\ IsPunct(q, ",") THEN ArrayElements(Advance(q)) ELSE q

ComputedKey(p) == ExpectPunct(Assignment(Advance(p)), "]")

\* The property of an object pattern. Its target comes before a computed key.
PatternProperty(p) ==
  LET computed == IsPunct(p, "[")
      key      == IF computed THEN "" ELSE Cur(p).v
      q        == IF computed THEN ComputedKey(p)
                  ELSE IF IsKey(Cur(p)) THEN Advance(p) ELSE Fail(p)
      r        == IF ~q.ok THEN q
                  ELSE IF IsPunct(q, ":") THEN BindingElement(Advance(q))
                  ELSE WithDefault(q, Push(q, Leaf("Identifier", key)))
  IN  Build("Member", key, When(computed, "Computed"), p, LastFirst(p, r))

ObjectProperties(p) ==
  IF ~p.ok \/ IsPunct(p, "}") \/ AtEnd(p) THEN p
  ELSE IF IsPunct(p, "...")
  THEN LET q == Advance(p)
       IN  IF IsName(q)
           THEN Push(Advance(q), Node("Spread", "", {}, <<Leaf("Identifier", Cur(q).v)>>))
           ELSE Fail(q)
  ELSE LET q == PatternProperty(p)
       IN  IF q.ok /\ IsPunct(q, ",") THEN ObjectProperties(Advance(q)) ELSE q

\* A name with its initializer as a child.
NamedDeclarator(p) ==
  LET q == Advance(p)
  IN  Build("Identifier", Cur(p).v, {}, p, IF IsPunct(q, "=") THEN Assignment(Advance(q)) ELSE q)

Declarators(p) ==
  LET q == IF IsAnyPunct(p, {"[", "{"})
           THEN LET pat == Pattern(p)
                    set == IF pat.ok /\ IsPunct(pat, "=") THEN Assignment(Advance(pat)) ELSE pat
                IN  Build("Assignment", "=", {}, p, Default(pat, set, Undefined))
           ELSE IF IsName(p) THEN NamedDeclarator(p) ELSE Fail(p)
  IN  IF q.ok /\ IsPunct(q, ",") THEN Declarators(Advance(q)) ELSE q

VarDecl(p) ==
  Build("VariableDeclaration", Cur(p).v, {}, p, AcceptPunct(Declarators(Advance(p)), ";"))

IsBindingName(p) ==
  \/ Cur(p).t = "id"
  \/ IsAnyKw(p, {"let", "of", "async", "await", "yield", "undefined"})

Parameters(p) ==
  IF ~p.ok \/ IsPunct(p, ")") \/ AtEnd(p) THEN p
  ELSE IF IsPunct(p, "...") THEN Build("Spread", "", {}, p, BindingElement(Advance(p)))
  ELSE LET q == BindingElement(p)
       IN  IF q.ok /\ IsPunct(q, ",") THEN Parameters(Advance(q)) ELSE q

ParamList(p) == ExpectPunct(Parameters(ExpectPunct(p, "(")), ")")

Function(p) ==
  LET star == IsPunct(Advance(p), "*")
      q    == IF star THEN Advance(Advance(p)) ELSE Advance(p)
      name == IF IsBindingName(q) THEN Cur(q).v ELSE ""
      r    == IF IsBindingName(q) THEN Advance(q) ELSE q
  IN  Build("FunctionDeclaration", name, When(star, "Generator"), p,
            Block(ParamList(r)))

\* Modifiers of a class member are names too: what follows decides.
IsModifier(p, word) ==
  Cur(p).v = word /\ IsName(p) /\ ~NextIs(p, "punct", {"(", "=", ";", "}"})

MemberKey(p) ==
  IF IsPunct(p, "[") THEN ComputedKey(p)
  ELSE IF IsKey(Cur(p)) THEN Advance(p) ELSE Fail(p)

ClassMember(p) ==
  LET static == IsModifier(p, "static")
      p1     == IF static THEN Advance(p) ELSE p
      async  == IsModifier(p1, "async")
      p2     == IF async THEN Advance(p1) ELSE p1
      star   == IsPunct(p2, "*")
      p3     == AcceptPunct(p2, "*")
      get    == IsModifier(p3, "get")
      set    == ~get /\ IsModifier(p3, "set")
      p4     == IF get \/ set THEN Advance(p3) ELSE p3
      computed == IsPunct(p4, "[")
      key    == IF computed THEN "" ELSE Cur(p4).v
      p5     == MemberKey(p4)
      method == IsPunct(p5, "(")
      value  == IF method
                THEN Build("FunctionDeclaration", key,
                           When(async, "async") \cup When(star, "Generator"), p5, Block(ParamList(p5)))
                ELSE AcceptPunct(
                       Default(p5, IF p5.ok /\ IsPunct(p5, "=") THEN Assignment(Advance(p5)) ELSE p5,
                               Undefined), ";")
      flags  == When(static, "ClassStatic") \cup When(async, "async") \cup When(get, "ClassGetter")
                  \cup When(set, "ClassSetter") \cup When(computed, "Computed")
                  \cup When(~method, "ClassField")
  IN  IF ~p5.ok THEN p5 ELSE Build("Member", key, flags, p, LastFirst(p, value))

Members(p) ==
  IF ~p.ok \/ IsPunct(p, "}") \/ AtEnd(p) THEN p
  ELSE Members(IF IsPunct(p, ";") THEN Advance(p) ELSE ClassMember(p))

Class(p) ==
  LET q    == Advance(p)
      name == IF Cur(q).t = "id" THEN Cur(q).v ELSE ""
      r    == IF Cur(q).t = "id" THEN Advance(q) ELSE q
      h    == Default(r, IF IsKw(r, "extends") THEN Unary(Advance(r)) ELSE r, Undefined)
  IN  Build("ClassDeclaration", name, {}, p, ExpectPunct(Members(ExpectPunct(h, "{")), "}"))

\* return is restricted: a line end after it ends the statement.
Return(p) ==
  LET q == Advance(p)
  IN  Build("Return", "", {}, p,
            AcceptPunct(IF Cur(q).nl \/ IsAnyPunct(q, {";", "}"}) \/ AtEnd(q) THEN q
                        ELSE Expression(q), ";"))

Throw(p) == Build("Throw", "", {}, p, AcceptPunct(Expression(Advance(p)), ";"))

InParens(p) == ExpectPunct(Expression(ExpectPunct(p, "(")), ")")

If(p) ==
  LET q == Statement(InParens(Advance(p)))
  IN  Build("If", "", {}, p, IF q.ok /\ IsKw(q, "else") THEN Statement(Advance(q)) ELSE q)

With(p)  == Build("With", "", {}, p, Statement(InParens(Advance(p))))
While(p) == Build("While", "", {}, p, Statement(InParens(Advance(p))))

DoWhile(p) ==
  LET q    == Advance(p)
      body == Default(q, Statement(q), EmptyBlock)
  IN  IF body.ok /\ IsKw(body, "while")
      THEN Build("DoWhile", "", {}, p, AcceptPunct(InParens(Advance(body)), ";"))
      ELSE Fail(body)

Clauses(p) ==
  IF ~p.ok \/ IsPunct(p, "}") \/ AtEnd(p) THEN p
  ELSE IF ~IsAnyKw(p, {"case", "default"}) THEN Fail(p)
  ELSE LET q == ExpectPunct(IF IsKw(p, "case") THEN Expression(Advance(p)) ELSE Advance(p), ":")
       IN  Clauses(Build("Block", Cur(p).v, {}, p, Statements(q, {"case", "default", "}"})))

Switch(p) ==
  Build("Switch", "", {}, p,
        ExpectPunct(Clauses(ExpectPunct(InParens(Advance(p)), "{")), "}"))

ForDeclarators(p) ==
  LET q == IF IsAnyPunct(p, {"[", "{"})
           THEN LET pat == Pattern(p)
                IN  IF pat.ok /\ IsPunct(pat, "=")
                    THEN Build("Assignment", "=", {}, p, Assignment(Advance(pat))) ELSE pat
           ELSE IF IsBindingName(p) THEN NamedDeclarator(p) ELSE Fail(p)
      bare == q.ok /\ q.out[Len(q.out)].k \in {"ArrayLiteral", "ObjectLiteral"}
  IN  IF q.ok /\ ~bare /\ IsPunct(q, ",") THEN ForDeclarators(Advance(q)) ELSE q

\* The header of a for statement up to `of`, `in` or the first semicolon, without
\* the operator in.
ForInit(p) ==
  IF ~p.ok THEN p
  ELSE LET q == [p EXCEPT !.noin = TRUE]
           r == IF IsPunct(q, ";") THEN Push(q, Undefined)
                ELSE IF IsAnyKw(q, {"var", "let", "const"})
                THEN Build("VariableDeclaration", Cur(q).v, {}, q, ForDeclarators(Advance(q)))
                ELSE Expression(q)
       IN  [r EXCEPT !.noin = p.noin]

For(p) ==
  LET head == ForInit(ExpectPunct(AcceptKw(Advance(p), "await"), "("))
      each == head.ok /\ IsAnyKw(head, {"of", "in"})
      rhs  == IF IsKw(head, "in") THEN Expression(Advance(head)) ELSE Assignment(Advance(head))
      semi == ExpectPunct(head, ";")
      cond == ExpectPunct(IF IsPunct(semi, ";") THEN Push(semi, Undefined) ELSE Expression(semi), ";")
      upd  == IF IsPunct(cond, ")") THEN Push(cond, Undefined) ELSE Expression(cond)
      rest == ExpectPunct(IF each THEN rhs ELSE upd, ")")
  IN  Build("For", IF each THEN Cur(head).v ELSE "", {}, p,
            Default(rest, Statement(rest), EmptyBlock))

\* The name of a catch clause is the text of its block.
Catch(p) ==
  LET q     == Advance(p)
      paren == IsPunct(q, "(")
      r     == IF paren THEN Advance(q) ELSE q
      named == paren /\ Cur(r).t = "id"
      body  == Block(IF paren THEN ExpectPunct(IF named THEN Advance(r) ELSE r, ")") ELSE q)
  IN  IF body.ok /\ named THEN [body EXCEPT !.out[Len(body.out)].s = Cur(r).v] ELSE body

Try(p) ==
  LET b == Block(Advance(p))
      c == IF b.ok /\ IsKw(b, "catch") THEN Catch(b) ELSE b
      f == IF c.ok /\ IsKw(c, "finally") THEN Block(Advance(c)) ELSE c
      has == Len(f.out) - Len(p.out)
  IN  Build("Try", CASE has = 3 -> "cf" [] has = 2 /\ IsKw(b, "catch") -> "c"
                     [] has = 2 -> "f" [] OTHER -> "", {}, p, f)

BreakOrContinue(p) ==
  LET q     == Advance(p)
      label == Cur(q).t = "id" /\ ~Cur(q).nl
  IN  Push(AcceptPunct(IF label THEN Advance(q) ELSE q, ";"),
           Leaf(IF IsKw(p, "break") THEN "Break" ELSE "Continue", IF label THEN Cur(q).v ELSE ""))

SkipTo(p) == IF AtEnd(p) \/ IsPunct(p, ";") THEN AcceptPunct(p, ";") ELSE SkipTo(Advance(p))

SkipBraces(p, depth) ==
  LET d == depth + (IF IsPunct(p, "{") THEN 1 ELSE 0)
      e == IF IsPunct(p, "}") THEN d - 1 ELSE d
      q == Advance(p)
  IN  IF AtEnd(q) \/ e = 0 THEN q ELSE SkipBraces(q, e)

Export(p) ==
  LET q == Advance(p)
      r == AcceptKw(q, "default")
  IN  Build("ExportDeclaration", "", {}, p,
        IF IsPunct(q, "{") THEN SkipTo(SkipBraces(q, 0))
        ELSE IF IsPunct(q, "*") THEN SkipTo(q)
        ELSE IF IsPunct(r, ";") \/ AtEnd(r) THEN AcceptPunct(r, ";")
        ELSE Statement(r))

ExpressionStatement(p) ==
  Build("ExpressionStatement", "", {}, p, AcceptPunct(Expression(p), ";"))

Statement(p) ==
  CASE ~p.ok -> p
    [] IsPunct(p, ";") -> Advance(p)
    [] IsPunct(p, "{") -> Block(p)
    [] IsAnyKw(p, {"var", "let", "const"}) -> VarDecl(p)
    [] IsKw(p, "async") /\ NextIs(p, "kw", {"function"}) -> Flag(Function(Advance(p)), {"async"})
    [] IsKw(p, "function") -> Function(p)
    [] IsKw(p, "class") -> Class(p)
    [] IsKw(p, "return") -> Return(p)
    [] IsKw(p, "if") -> If(p)
    [] IsKw(p, "while") -> While(p)
    [] IsKw(p, "with") -> With(p)
    [] IsKw(p, "do") -> DoWhile(p)
    [] IsKw(p, "for") -> For(p)
    [] IsKw(p, "switch") -> Switch(p)
    [] IsKw(p, "throw") -> Throw(p)
    [] IsKw(p, "try") -> Try(p)
    [] IsAnyKw(p, {"break", "continue"}) -> BreakOrContinue(p)
    [] IsKw(p, "import") /\ ~NextIs(p, "punct", {"("}) ->
         Push(SkipTo(Advance(p)), Leaf("ImportDeclaration", ""))
    [] IsKw(p, "export") -> Export(p)
    [] Cur(p).t = "id" /\ NextIs(p, "punct", {":"}) ->
         Build("Labeled", Cur(p).v, {}, p, Statement(Advance(Advance(p))))
    [] OTHER -> ExpressionStatement(p)

(***************************************************************************)
(* Expressions.                                                            *)
(***************************************************************************)
SequenceRest(p) ==
  IF p.ok /\ IsPunct(p, ",") THEN SequenceRest(Assignment(Advance(p))) ELSE p

Expression(p) ==
  LET first == Assignment(p)
  IN  IF first.ok /\ IsPunct(first, ",")
      THEN Build("Sequence", "", {}, p, SequenceRest(first)) ELSE first

AssignOps == {"=", "+=", "-=", "*=", "/=", "%=", "**=", "<<=", ">>=", ">>>=", "&=", "|=", "^=",
              "&&=", "||=", "??="}

\* The parenthesis that closes the one at p.i, if there is one.
MatchingParen(p) ==
  LET Depth[i \in p.i..Len(p.toks)] ==
        (IF i = p.i THEN 0 ELSE Depth[i - 1])
          + (CASE p.toks[i].t # "punct" -> 0
               [] p.toks[i].v = "(" -> 1 [] p.toks[i].v = ")" -> 0 - 1 [] OTHER -> 0)
      closing == {i \in p.i..Len(p.toks) : Depth[i] = 0}
  IN  IF closing = {} THEN 0 ELSE CHOOSE i \in closing : \A j \in closing : i <= j

ArrowBody(p) == IF p.ok /\ IsPunct(p, "{") THEN Block(p) ELSE Assignment(p)

\* An arrow function at p, or p with ok FALSE if there is none. A parameter list
\* that does not parse means there is none.
TryArrow(p) ==
  LET async == IsKw(p, "async") /\ ~NextIs(p, "kw", {"function"})
      flags == When(async, "async")
      q     == IF async THEN Advance(p) ELSE p
      close == IF IsPunct(q, "(") THEN MatchingParen(q) ELSE 0
      list  == ParamList(q)
  IN  IF Cur(q).t = "id" /\ NextIs(q, "punct", {"=>"})
      THEN [is |-> TRUE, p |-> Build("ArrowFunction", "", flags, p,
              ArrowBody(Advance(Advance(Push(q, Leaf("Identifier", Cur(q).v))))))]
      ELSE IF /\ close # 0 /\ close < Len(q.toks)
              /\ q.toks[close + 1].t = "punct" /\ q.toks[close + 1].v = "=>"
              /\ list.ok
      THEN [is |-> TRUE, p |-> Build("ArrowFunction", "", flags, p, ArrowBody(ExpectPunct(list, "=>")))]
      ELSE [is |-> FALSE, p |-> p]

Conditional(p) ==
  LET cond == Binary(p, 0)
  IN  IF cond.ok /\ IsPunct(cond, "?")
      THEN Build("Conditional", "", {}, p,
                 Assignment(ExpectPunct(Assignment(Advance(cond)), ":")))
      ELSE cond

Assignment(p) ==
  IF ~p.ok THEN p
  ELSE LET arrow == TryArrow(p)
           lhs   == Conditional(p)
       IN  IF arrow.is THEN arrow.p
           ELSE IF lhs.ok /\ IsAnyPunct(lhs, AssignOps)
           THEN Build("Assignment", Cur(lhs).v, {}, p, Assignment(Advance(lhs)))
           ELSE lhs

\* && binds as tight as ||.
BinaryPrecEqual(op) ==                                             \* mutant
  CASE op \in {"||", "??", "&&"} -> 1
    [] op = "|" -> 3 [] op = "^" -> 4 [] op = "&" -> 5
    [] op \in {"==", "!=", "===", "!=="} -> 6
    [] op \in {"<", ">", "<=", ">=", "instanceof", "in"} -> 7
    [] op \in {"<<", ">>", ">>>"} -> 8
    [] op \in {"+", "-"} -> 9 [] op \in {"*", "/", "%"} -> 10 [] op = "**" -> 11
    [] OTHER -> 0

\* 0 is the code's -1, and parse_binary(0) is the same as parse_binary(1).
BinaryPrec(op) ==
  CASE op \in {"||", "??"} -> 1 [] op = "&&" -> 2
    [] op = "|" -> 3 [] op = "^" -> 4 [] op = "&" -> 5
    [] op \in {"==", "!=", "===", "!=="} -> 6
    [] op \in {"<", ">", "<=", ">=", "instanceof", "in"} -> 7
    [] op \in {"<<", ">>", ">>>"} -> 8
    [] op \in {"+", "-"} -> 9 [] op \in {"*", "/", "%"} -> 10 [] op = "**" -> 11
    [] OTHER -> 0

BinaryOperator(p) ==
  IF Cur(p).t = "punct" \/ IsKw(p, "instanceof") \/ (IsKw(p, "in") /\ ~p.noin)
  THEN Cur(p).v ELSE ""

BinaryRest(before, p, min) ==
  LET op   == BinaryOperator(p)
      prec == IF op = "" THEN 0 ELSE BinaryPrec(op)
  IN  IF ~p.ok \/ prec = 0 \/ prec < min THEN p
      ELSE BinaryRest(before,
             Build(IF op \in {"&&", "||", "??"} THEN "Logical" ELSE "Binary", op, {}, before,
                   Binary(Advance(p), prec + 1)), min)

Binary(p, min) == BinaryRest(p, Unary(p), min)

PrefixOps == {"!", "-", "+", "~", "++", "--"}
PrefixWords == {"typeof", "void", "delete"}

Yield(p) ==
  LET q == Advance(p)
      r == AcceptPunct(q, "*")
  IN  Build("Yield", IF IsPunct(q, "*") THEN "*" ELSE "", {}, p,
            IF IsAnyPunct(r, {")", ";", "}", ",", "]"}) THEN r ELSE Assignment(r))

\* The callee of new takes members but no calls; its arguments make a call node.
New(p) ==
  LET q    == Advance(p)
      ctor == Chain(q, Primary(q), FALSE, FALSE)
      made == IF ctor.ok /\ IsPunct(ctor, "(")
              THEN Build("Call", "", {}, q, ExpectPunct(Arguments(Advance(ctor)), ")")) ELSE ctor
  IN  Chain(p, Build("New", "", {}, p, made), TRUE, FALSE)

Postfix(p) ==
  LET e == Chain(p, Primary(p), TRUE, FALSE)
  IN  IF e.ok /\ IsAnyPunct(e, {"++", "--"})
      THEN Build("Unary", IF IsPunct(e, "++") THEN "post++" ELSE "post--", {}, p, Advance(e)) ELSE e

Unary(p) ==
  CASE ~p.ok -> p
    [] IsAnyPunct(p, PrefixOps) \/ IsAnyKw(p, PrefixWords) ->
         Build("Unary", Cur(p).v, {}, p, Unary(Advance(p)))
    [] IsKw(p, "await") -> Build("Await", "", {}, p, Unary(Advance(p)))
    [] IsKw(p, "yield") -> Yield(p)
    [] IsKw(p, "new") -> New(p)
    [] OTHER -> Postfix(p)

(***************************************************************************)
(* parse_member_chain: p has the base on out; before is the parser before  *)
(* it. A chain with an optional link is wrapped when it ends.              *)
(***************************************************************************)
Link(before, p, optional) ==
  LET flags == When(optional, "Optional")
  IN  CASE IsPunct(p, "(") ->
             Build("Call", "", flags, before, ExpectPunct(Arguments(Advance(p)), ")"))
        [] IsPunct(p, "[") ->
             Build("Member", "[]", flags, before, ExpectPunct(Expression(Advance(p)), "]"))
        [] OTHER -> IF IsName(p) THEN Build("Member", Cur(p).v, flags, before, Advance(p)) ELSE Fail(p)

Chain(before, p, calls, optional) ==
  CASE ~p.ok -> p
    [] IsPunct(p, "?.") -> Chain(before, Link(before, Advance(p), TRUE), calls, TRUE)
    [] IsPunct(p, ".") ->
         Chain(before, LET q == Advance(p)
                       IN  IF IsName(q) THEN Link(before, q, FALSE) ELSE Fail(q), calls, optional)
    [] IsPunct(p, "[") \/ (calls /\ IsPunct(p, "(")) ->
         Chain(before, Link(before, p, FALSE), calls, optional)
    [] Cur(p).t = "template" ->
         Chain(before, [Advance(p) EXCEPT !.out =
                 Append(before.out, TaggedTemplate(p.out[Len(p.out)], Cur(p).parts))], calls, optional)
    [] OTHER -> IF optional THEN Build("OptionalChain", "", {}, before, p) ELSE p

\* A list of expressions, of which some are spread.
Item(p) ==
  IF IsPunct(p, "...") THEN Build("Spread", "", {}, p, Assignment(Advance(p))) ELSE Assignment(p)

Arguments(p) ==
  IF ~p.ok \/ IsPunct(p, ")") \/ AtEnd(p) THEN p
  ELSE LET q == Item(p) IN IF q.ok /\ IsPunct(q, ",") THEN Arguments(Advance(q)) ELSE q

ArrayItems(p) ==
  IF ~p.ok \/ IsPunct(p, "]") \/ AtEnd(p) THEN p
  ELSE IF IsPunct(p, ",") THEN ArrayItems(Push(Advance(p), Leaf("ArrayHole", "")))
  ELSE LET q == Item(p) IN IF q.ok /\ IsPunct(q, ",") THEN ArrayItems(Advance(q)) ELSE q

\* `async` before a key on the same line; get and set before a key.
IsAsyncMethod(p) ==
  /\ Cur(p).v = "async" /\ IsName(p) /\ ~Peek(p, 1).nl
  /\ IsKey(Peek(p, 1)) \/ NextIs(p, "punct", {"[", "*"})

IsAccessor(p) ==
  /\ Cur(p).v \in {"get", "set"} /\ IsName(p)
  /\ IsKey(Peek(p, 1)) \/ NextIs(p, "punct", {"["})

Method(p, flags) == Build("FunctionDeclaration", "", flags, p, Block(ParamList(p)))

Property(p) ==
  LET async    == IsAsyncMethod(p)
      p1       == IF async THEN Advance(p) ELSE p
      accessor == IsAccessor(p1)
      p2       == IF accessor THEN Advance(p1) ELSE p1
      star     == IsPunct(p2, "*")
      p3       == AcceptPunct(p2, "*")
      computed == IsPunct(p3, "[")
      key      == IF computed THEN "" ELSE Cur(p3).v
      p4       == MemberKey(p3)
      value    == CASE ~p4.ok -> p4
                    [] accessor -> Method(p4, {})
                    [] IsPunct(p4, ":") -> Assignment(Advance(p4))
                    [] IsPunct(p4, "(") -> Method(p4, When(async, "async") \cup When(star, "Generator"))
                    [] async -> Fail(p4)
                    [] OTHER -> Push(p4, Leaf("Identifier", key))
  IN  Build("Member", key,
            When(computed, "Computed") \cup When(accessor /\ Cur(p1).v = "get", "ClassGetter")
              \cup When(accessor /\ Cur(p1).v = "set", "ClassSetter"),
            p, LastFirst(p, value))

ObjectItems(p) ==
  IF ~p.ok \/ IsPunct(p, "}") \/ AtEnd(p) THEN p
  ELSE LET q == IF IsPunct(p, "...") THEN Build("Spread", "", {}, p, Assignment(Advance(p)))
                ELSE Property(p)
       IN  IF q.ok /\ IsPunct(q, ",") THEN ObjectItems(Advance(q)) ELSE q

KeywordPrimary(p) ==
  LET v == Cur(p).v
      q == Advance(p)
  IN  CASE v \in {"true", "false"} -> Push(q, Leaf("BoolLiteral", v))
        [] v = "null" -> Push(q, Leaf("NullLiteral", ""))
        [] v = "undefined" -> Push(q, Undefined)
        [] v = "import" /\ IsPunct(q, "(") -> Push(q, Leaf("Identifier", "__dynamicImport"))
        [] v = "import" /\ IsPunct(q, ".") ->
             IF Peek(q, 1).t \in {"id", "kw"} /\ Peek(q, 1).v = "meta"
             THEN Push(Advance(Advance(q)), Leaf("Identifier", "__importMeta")) ELSE Fail(q)
        [] v = "function" -> Function(p)
        [] v = "async" -> IF IsKw(q, "function") THEN Flag(Function(q), {"async"}) ELSE Primary(q)
        [] v = "class" -> Class(p)
        [] OTHER -> Push(q, Leaf("Identifier", v))

LiteralKind ==
  [number |-> "NumberLiteral", bigint |-> "BigIntLiteral", string |-> "StringLiteral",
   id |-> "Identifier"]

Primary(p) ==
  CASE ~p.ok -> p
    [] Cur(p).t \in DOMAIN LiteralKind -> Push(Advance(p), Leaf(LiteralKind[Cur(p).t], Cur(p).v))
    [] Cur(p).t = "template" -> Push(Advance(p), TemplateExpr(Cur(p).parts))
    [] Cur(p).t = "regex" ->
         Push(Advance(p), Node("Call", "", {}, <<Leaf("Identifier", "RegExp"),
                Leaf("StringLiteral", Cur(p).v), Leaf("StringLiteral", "flags")>>))
    [] Cur(p).t = "kw" -> KeywordPrimary(p)
    [] IsPunct(p, "(") -> Flag(InParens(p), {"Grouped"})
    [] IsPunct(p, "[") ->
         Build("ArrayLiteral", "", {}, p, ExpectPunct(ArrayItems(Advance(p)), "]"))
    [] IsPunct(p, "{") ->
         Build("ObjectLiteral", "", {}, p, ExpectPunct(ObjectItems(Advance(p)), "}"))
    [] OTHER -> Fail(p)

\* TokenParser::run: the statements of the program, or an error.
Run(toks) ==
  LET p == Statements(Parser(toks), {})
  IN  IF p.ok THEN Node("Program", "", {}, p.out) ELSE Leaf("SyntaxError", "")
=============================================================================
