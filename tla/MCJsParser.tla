----------------------------- MODULE MCJsParser -----------------------------
(***************************************************************************)
(* Bounded programs for JsParser: a leaf expression in two contexts, in a  *)
(* statement; and a statement in a context, before another one. The        *)
(* subject of the state is built up one context at a time.                 *)
(***************************************************************************)
EXTENDS JsParser, SequencesExt

G == INSTANCE JsGrammar

VARIABLE subject   \* the trees of a program, and how it is written

A == Leaf("Identifier", "a")
X == Leaf("Identifier", "x")
NumberOne == Leaf("NumberLiteral", "1")
Run1 == Node("ExpressionStatement", "", {}, <<Node("Call", "", {}, <<A>>)>>)
Fn(name, f, params) == Node("FunctionDeclaration", name, f, Append(params, Node("Block", "", {}, <<Run1>>)))
Mem(s, f, c) == Node("Member", s, f, c)
Arrow(f, c) == Node("ArrowFunction", "", f, c)
Pair(l, r) == Plus(Plus(Leaf("StringLiteral", "text"), l), Leaf("StringLiteral", "text"))
Destructuring ==
  Node("ObjectLiteral", "", {}, <<Mem("x", {}, <<Node("Assignment", "=", {}, <<A, NumberOne>>)>>),
     Mem("", {"Computed"}, <<Node("ArrayLiteral", "", {}, <<Undefined, A, Node("Spread", "", {}, <<X>>)>>), X>>),
     Node("Spread", "", {}, <<X>>)>>)

Leaves == <<
  A, NumberOne, Leaf("StringLiteral", "s"), Leaf("BigIntLiteral", "1"), Leaf("NullLiteral", ""), Undefined,
  Leaf("BoolLiteral", "true"), Leaf("Identifier", "this"), Leaf("Identifier", "__importMeta"),
  Node("Call", "", {}, <<Leaf("Identifier", "__dynamicImport"), A>>),
  Node("Call", "", {}, <<Leaf("Identifier", "RegExp"), Leaf("StringLiteral", "r"), Leaf("StringLiteral", "flags")>>),
  Node("New", "", {}, <<X>>), Node("Yield", "", {}, <<>>), Node("ArrayLiteral", "", {}, <<A, Leaf("ArrayHole", ""), Leaf("ArrayHole", "")>>),
  Node("ArrayLiteral", "", {}, <<Leaf("ArrayHole", ""), A, Node("Spread", "", {}, <<X>>)>>),
  Fn("", {}, <<>>), Fn("f", {"async", "Generator"}, <<A, Node("Spread", "", {}, <<X>>)>>),
  Arrow({}, <<X, A>>), Arrow({"async"}, <<X, A>>), Arrow({"async"}, <<Node("Block", "", {}, <<Run1>>)>>),
  Arrow({}, <<Destructuring, Node("Assignment", "=", {}, <<X, A>>), A>>),
  Arrow({}, <<X, Node("ObjectLiteral", "", {}, <<Mem("get", {}, <<A>>)>>)>>),
  Node("ObjectLiteral", "", {}, <<Mem("a", {}, <<A>>), Mem("get", {}, <<NumberOne>>), Mem("async", {}, <<Fn("", {}, <<>>)>>),
     Mem("set", {"ClassGetter"}, <<Fn("", {}, <<>>)>>), Mem("delete", {"ClassSetter"}, <<Fn("", {}, <<X>>)>>),
     Mem("get", {}, <<Fn("", {"async", "Generator"}, <<X>>)>>), Mem("", {"Computed"}, <<A, X>>),
     Mem("", {"Computed"}, <<Fn("", {"Generator"}, <<>>), X>>), Node("Spread", "", {}, <<X>>)>>),
  Node("ClassDeclaration", "C", {}, <<A, Mem("get", {}, <<Fn("get", {}, <<>>)>>),
     Mem("static", {"ClassStatic", "ClassField"}, <<A>>), Mem("async", {"ClassField"}, <<Undefined>>),
     Mem("x", {"ClassStatic", "async"}, <<Fn("x", {"async", "Generator"}, <<X>>)>>),
     Mem("set", {"ClassGetter"}, <<Fn("set", {}, <<>>)>>), Mem("", {"ClassSetter", "Computed"}, <<Fn("", {}, <<X>>), A>>)>>),
  Node("ClassDeclaration", "", {}, <<Undefined>>)>>

BinaryOps == <<"+", "*", "**", "<", "in", "instanceof", "<<", "==", "&", "^", "|">>

\* An expression with the tree e in it.
Context(i, e) == <<
  Node("Sequence", "", {}, <<e, A>>), Node("Sequence", "", {}, <<A, e>>),
  Node("Assignment", "+=", {}, <<A, e>>), Node("Assignment", "=", {}, <<Mem("[]", {}, <<A, e>>), X>>),
  Node("Conditional", "", {}, <<e, A, X>>), Node("Conditional", "", {}, <<A, e, X>>), Node("Conditional", "", {}, <<A, X, e>>),
  Node("Logical", "??", {}, <<e, A>>), Node("Logical", "??", {}, <<A, e>>),
  Node("Logical", "&&", {}, <<e, A>>), Node("Logical", "&&", {}, <<A, e>>), Node("Logical", "||", {}, <<A, e>>),
  Node("Unary", "!", {}, <<e>>), Node("Unary", "typeof", {}, <<e>>), Node("Await", "", {}, <<e>>),
  Node("Unary", "post++", {}, <<Mem("x", {}, <<e>>)>>), Node("Unary", "--", {}, <<Mem("x", {}, <<e>>)>>),
  Node("Yield", "", {}, <<e>>), Node("Yield", "*", {}, <<e>>), Arrow({}, <<e>>), Arrow({}, <<Node("Assignment", "=", {}, <<X, e>>), X>>),
  Mem("delete", {}, <<e>>), Node("Call", "", {}, <<e>>), Node("Call", "", {}, <<A, Node("Spread", "", {}, <<e>>), X>>),
  Node("New", "", {}, <<e>>), Node("New", "", {}, <<Node("Call", "", {}, <<e, A>>)>>),
  Mem("x", {}, <<Node("New", "", {}, <<Node("Call", "", {}, <<Mem("x", {}, <<e>>)>>)>>)>>),
  Node("OptionalChain", "", {}, <<Mem("x", {"Optional"}, <<e>>)>>),
  Node("OptionalChain", "", {}, <<Mem("[]", {}, <<Node("Call", "", {"Optional"}, <<Mem("x", {}, <<e>>), X>>), A>>)>>),
  Node("OptionalChain", "", {}, <<Mem("[]", {"Optional"}, <<A, e>>)>>),
  Pair(e, A), Node("TaggedTemplate", "", {}, <<e, A>>), Node("TaggedTemplate", "", {}, <<A, e, X>>),
  Node("ObjectLiteral", "", {}, <<Mem("x", {}, <<e>>), Mem("", {"Computed"}, <<A, e>>), Node("Spread", "", {}, <<e>>)>>),
  Node("ArrayLiteral", "", {}, <<e, Leaf("ArrayHole", ""), A>>), Fn("", {}, <<Node("Assignment", "=", {}, <<Destructuring, e>>)>>),
  Node("ClassDeclaration", "", {}, <<e, Mem("x", {"ClassField"}, <<e>>)>>)>>[i]

Contexts == 1..37
OperatorContext(op, side, e) == Node("Binary", op, {}, IF side = 1 THEN <<e, A>> ELSE <<A, e>>)

Block1(list) == Node("Block", "", {}, list)
Var(k, c) == Node("VariableDeclaration", k, {}, c)
Named(s, c) == Node("Identifier", s, {}, c)

\* A statement with the expression e and the statement s in it.
StatementContext(i, e, s) == <<
  Node("ExpressionStatement", "", {}, <<e>>), Var("let", <<Named("x", <<e>>), Named("a", <<>>)>>),
  Var("const", <<Node("Assignment", "=", {}, <<Destructuring, e>>), Named("x", <<e>>)>>),
  Fn("f", {"async"}, <<Node("Assignment", "=", {}, <<X, e>>)>>), Node("ClassDeclaration", "C", {}, <<e>>),
  Node("If", "", {}, <<e, s, Run1>>), Node("If", "", {}, <<e, s>>), Node("While", "", {}, <<e, s>>), Node("With", "", {}, <<e, s>>),
  Node("DoWhile", "", {}, <<s, e>>), Node("For", "", {}, <<Var("let", <<Named("x", <<e>>), Named("a", <<A>>)>>), e, Undefined, s>>),
  Node("For", "", {}, <<Undefined, Undefined, e, s>>), Node("For", "of", {}, <<Var("const", <<Destructuring>>), e, s>>),
  Node("For", "in", {}, <<Var("var", <<Named("x", <<>>)>>), e, s>>), Node("For", "of", {}, <<X, e, s>>),
  Node("Switch", "", {}, <<e, Node("Block", "case", {}, <<e, s, s>>), Node("Block", "default", {}, <<s>>), Node("Block", "case", {}, <<X>>)>>),
  Node("Return", "", {}, <<e>>), Node("Return", "", {}, <<>>), Node("Throw", "", {}, <<e>>),
  Node("Try", "cf", {}, <<Block1(<<s>>), Node("Block", "x", {}, <<s, s>>), Block1(<<>>)>>),
  Node("Try", "f", {}, <<Block1(<<>>), Block1(<<s>>)>>), Node("Try", "c", {}, <<Block1(<<s>>), Block1(<<s>>)>>),
  Leaf("Break", ""), Leaf("Continue", "x"), Node("Labeled", "x", {}, <<s>>), Block1(<<s, s>>),
  Leaf("ImportDeclaration", ""), Node("ExportDeclaration", "", {}, <<s>>)>>[i]

Statements28 == 1..28

\* A program is grown from its subject: a leaf, an expression around it, one around
\* that, a statement around it; or statements around statements, and after each other
\* where only line ends part them.
DeepLeaves == {Leaves[l] : l \in {1, 16, 18, 23}}

ParserBegin == subject.of = "nothing" /\ subject' = [of |-> "parser", phase |-> "start", e |-> A, list |-> <<>>, style |-> "semi", deep |-> FALSE]

Deepen(from, to) ==
  /\ subject.phase = from
  /\ from = "leaf" \/ subject.deep
  /\ \/ \E i \in Contexts : subject' = [subject EXCEPT !.phase = to, !.e = Context(i, @)]
     \/ \E o \in DOMAIN BinaryOps, side \in {1, 2} :
          subject' = [subject EXCEPT !.phase = to, !.e = OperatorContext(BinaryOps[o], side, @)]

ParserGrow == subject.of = "parser" /\
  \/ /\ subject.phase = "start"
     /\ \E l \in DOMAIN Leaves : subject' = [subject EXCEPT !.phase = "leaf", !.e = Leaves[l],
                                                         !.deep = Leaves[l] \in DeepLeaves]
  \/ Deepen("leaf", "context")
  \/ Deepen("context", "expression")
  \/ /\ subject.phase = "leaf" \/ (subject.phase = "context" /\ subject.deep)
     /\ \E i \in Statements28 :
          subject' = [subject EXCEPT !.phase = "program", !.list = <<StatementContext(i, subject.e, Run1)>>]
  \/ /\ subject.phase = "start"
     /\ \E i, j \in Statements28, style \in {"semi", "line"} :
          subject' = [subject EXCEPT !.phase = "statements", !.style = style,
                                     !.list = <<StatementContext(i, A, StatementContext(j, X, Run1))>>]
  \/ /\ subject.phase = "statements"
     /\ Len(subject.list) = 1 /\ subject.style = "line"
     /\ \E j \in Statements28 :
          subject' = [subject EXCEPT !.list = Append(@, StatementContext(j, A, Run1))]

ParserNext == ParserBegin \/ ParserGrow

Program(grown) ==
  IF grown.list = <<>> THEN <<Node("ExpressionStatement", "", {}, <<grown.e>>)>> ELSE grown.list

(***************************************************************************)
(* Programs the language accepts and the parser reads otherwise.           *)
(***************************************************************************)
RECURSIVE Spine(_), Uses(_, _)
\* The expressions that begin where n does.
Spine(n) == {n} \cup (IF n.k \in {"Member", "Call", "TaggedTemplate"} THEN Spine(n.c[1]) ELSE {})

Uses(n, op) == (n.k = "Binary" /\ n.s = op) \/ \E i \in DOMAIN n.c : Uses(n.c[i], op)

FirstOf(n) == G!In(n, 0)[1].v
LastOf(n)  == Last(G!In(n, 0)).v

Interpolated(n) ==
  IF n.k = "TaggedTemplate" THEN ToSet(Tail(n.c))
  ELSE IF G!IsTemplate(n) THEN ToSet(G!Interps(n)) ELSE {}

IsMisread(n) ==
  \* a ** b ** c groups to the left
  \/ n.k = "Binary" /\ n.s = "**" /\ n.c[2].k = "Binary" /\ n.c[2].s = "**"
  \* new new a, and new a().x++
  \/ n.k = "New" /\ \E m \in Spine(IF n.c[1].k = "Call" THEN n.c[1].c[1] ELSE n.c[1]) : m.k = "New"
  \/ n.k = "Unary" /\ n.s \in {"post++", "post--"} /\ \E m \in Spine(n.c[1]) : m.k = "New"
  \* import.meta at the start of a statement
  \/ n.k = "ExpressionStatement" /\ \E m \in Spine(n.c[1]) : m.s = "__importMeta"
  \/ n.k = "ExpressionStatement" /\ G!Stmt(n, "semi")[1].v = "import" /\ G!Stmt(n, "semi")[2].v = "."
  \* yield without an operand before a colon or at the end of an interpolation
  \/ n.k = "Conditional" /\ LastOf(n.c[2]) = "yield"
  \/ n.k = "Block" /\ n.s = "case" /\ LastOf(n.c[1]) = "yield"
  \/ \E e \in Interpolated(n) : LastOf(e) = "yield"
  \* interpolations that would not be expressions at the start of a statement
  \/ \E e \in Interpolated(n) : FirstOf(e) \in {"{", "function", "class", "async", "import"}
  \* the operator in between the parentheses of a for statement's head
  \/ n.k = "For" /\ Uses(n.c[1], "in")

RECURSIVE Somewhere(_)
Somewhere(n) == IsMisread(n) \/ \E i \in DOMAIN n.c : Somewhere(n.c[i])

\* Not a program: a declaration where a statement has to be, an else that would
\* belong to another if.
IsIll(n) ==
  \/ n.k = "If" /\ Len(n.c) = 3 /\ n.c[2].k = "If" /\ Len(n.c[2].c) = 2
  \/ n.k = "ExportDeclaration" /\ n.c[1].k \notin {"VariableDeclaration", "FunctionDeclaration", "ClassDeclaration"}

RECURSIVE Ill(_)
Ill(n) == IsIll(n) \/ \E i \in DOMAIN n.c : Ill(n.c[i])

Supported(list) == \A i \in DOMAIN list : ~Somewhere(list[i]) /\ ~Ill(list[i])

RECURSIVE Plain(_)
Plain(n) == [n EXCEPT !.f = @ \ {"Grouped"}, !.c = [i \in DOMAIN n.c |-> Plain(n.c[i])]]

\* A program is read as the tree it was written from, however it is written: with
\* semicolons or line ends, whatever operators, patterns, arrows, templates and classes
\* stand in each other. Programs the parser is known to read otherwise are left out.
\* Parser::parse (the levels from parse_expression to parse_primary).
ParsesAsWritten(grown) ==
  grown.of = "parser" /\ Supported(Program(grown)) =>
  LET n == Run(G!Text(Program(grown), grown.style)) IN Plain(n) = Node("Program", "", {}, Program(grown))
=============================================================================
