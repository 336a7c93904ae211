------------------------------ MODULE JsGrammar ------------------------------
(***************************************************************************)
(* The reference for JsParser: how a syntax tree is written, from the      *)
(* grammar of ECMAScript and not from the parser. An expression is put in  *)
(* parentheses exactly where the grammar asks for something that binds     *)
(* tighter, and a statement ends with a semicolon or, where the language   *)
(* inserts one, with the line.                                             *)
(***************************************************************************)
EXTENDS Naturals, Sequences, SequencesExt

Tok(t, v) == [t |-> t, v |-> v, nl |-> FALSE, parts |-> <<>>]
P(v) == Tok("punct", v)
K(v) == Tok("kw", v)
N(v) == Tok("id", v)
Eof  == Tok("eof", "")

Reserved == {"this", "super", "import", "delete", "typeof", "in", "of", "async", "undefined",
             "default", "yield", "await", "let"}
Word(v) == IF v \in Reserved THEN K(v) ELSE N(v)

(***************************************************************************)
(* Levels: 0 expression, 1 assignment, 2 conditional, 3 to 13 the binary   *)
(* operators, 14 unary, 15 update and left-hand side, 16 call, 17 member,  *)
(* 18 primary.                                                             *)
(***************************************************************************)
OpLevel(op) ==
  CASE op \in {"??", "||"} -> 3 [] op = "&&" -> 4 [] op = "|" -> 5 [] op = "^" -> 6
    [] op = "&" -> 7 [] op \in {"==", "!=", "===", "!=="} -> 8
    [] op \in {"<", ">", "<=", ">=", "instanceof", "in"} -> 9
    [] op \in {"<<", ">>", ">>>"} -> 10 [] op \in {"+", "-"} -> 11
    [] op \in {"*", "/", "%"} -> 12 [] OTHER -> 13

\* A template is the tree of its concatenations: text + interpolation + text.
IsTemplate(n) ==
  \/ n.k = "StringLiteral" /\ n.s = "text"
  \/ n.k = "Binary" /\ n.s = "+" /\ n.c[2].k = "StringLiteral" /\ n.c[2].s = "text"

RECURSIVE Level(_)
Level(n) ==
  CASE IsTemplate(n) -> 18
    [] n.k = "Sequence" -> 0
    [] n.k \in {"Assignment", "ArrowFunction", "Yield"} -> 1
    [] n.k = "Conditional" -> 2
    [] n.k \in {"Binary", "Logical"} -> OpLevel(n.s)
    [] n.k = "Await" -> 14
    [] n.k = "Unary" -> IF n.s \in {"post++", "post--"} THEN 15 ELSE 14
    [] n.k = "OptionalChain" -> 15
    [] n.k = "New" -> IF n.c[1].k = "Call" THEN 17 ELSE 15
    [] n.k = "Call" -> 16
    [] n.k \in {"Member", "TaggedTemplate"} -> IF Level(n.c[1]) = 16 THEN 16 ELSE 17
    [] OTHER -> 18

RECURSIVE Written(_), Stmt(_, _), Body(_, _), Listed(_, _)

Paren(toks) == <<P("(")>> \o toks \o <<P(")")>>
In(n, level) == IF Level(n) >= level THEN Written(n) ELSE Paren(Written(n))

\* An expression where the grammar forbids that it begins like a declaration or a block.
AtStart(n, level) ==
  LET t == In(n, level)
  IN  IF t[1].v \in {"{", "function", "class"} \/ (t[1].v = "async" /\ t[2].v = "function")
      THEN Paren(t) ELSE t

\* Operators that bind equally tight group to the left, ** to the right. ?? does
\* not mix with && and ||.
Operands(n) ==
  LET l == OpLevel(n.s)
      mixes(c) == c.k = "Logical" /\ (c.s = "??") # (n.s = "??") /\ n.k = "Logical"
      side(c, level) == IF mixes(c) THEN Paren(Written(c)) ELSE In(c, level)
  IN  IF n.s = "**" THEN <<In(n.c[1], 15), In(n.c[2], 13)>>
      ELSE <<side(n.c[1], l), side(n.c[2], l + 1)>>

Listed(list, separator) ==
  IF list = <<>> THEN <<>>
  ELSE IF Len(list) = 1 THEN list[1]
  ELSE list[1] \o <<separator>> \o Listed(Tail(list), separator)

Items(c) == Listed([i \in DOMAIN c |-> IF c[i].k = "ArrayHole" THEN <<>> ELSE In(c[i], 1)], P(","))

\* Nothing is written for the hole of an array, but it needs its comma.
ArrayText(c) ==
  <<P("[")>> \o Items(c) \o (IF c # <<>> /\ Last(c).k = "ArrayHole" THEN <<P(",")>> ELSE <<>>)
    \o <<P("]")>>

\* Parameters and targets of destructuring.
RECURSIVE Target(_)
Target(n) ==
  CASE n.k = "Assignment" -> Target(n.c[1]) \o <<P("=")>> \o In(n.c[2], 1)
    [] n.k = "Spread" -> <<P("...")>> \o Target(n.c[1])
    [] n.k = "ArrayLiteral" ->
         <<P("[")>> \o Listed([i \in DOMAIN n.c |->
             IF n.c[i].k = "UndefinedLiteral" THEN <<>> ELSE Target(n.c[i])], P(",")) \o <<P("]")>>
    [] n.k = "ObjectLiteral" ->
         <<P("{")>> \o Listed([i \in DOMAIN n.c |->
             LET m == n.c[i] IN
             IF m.k = "Spread" THEN Target(m)
             ELSE (IF "Computed" \in m.f THEN <<P("[")>> \o In(m.c[2], 1) \o <<P("]")>>
                   ELSE <<Word(m.s)>>) \o <<P(":")>> \o Target(m.c[1])], P(",")) \o <<P("}")>>
    [] OTHER -> <<Word(n.s)>>

Params(n) == Paren(Listed([i \in 1..(Len(n.c) - 1) |-> Target(n.c[i])], P(",")))

Key(m) == IF "Computed" \in m.f THEN <<P("[")>> \o In(m.c[2], 1) \o <<P("]")>>
          ELSE <<Word(m.s)>>

\* A method's function has no name of its own in an object, and the key in a class.
MethodText(m, fn) ==
  (IF "async" \in fn.f THEN <<K("async")>> ELSE <<>>)
    \o (IF "Generator" \in fn.f THEN <<P("*")>> ELSE <<>>)
    \o (CASE "ClassGetter" \in m.f -> <<N("get")>> [] "ClassSetter" \in m.f -> <<N("set")>>
          [] OTHER -> <<>>)
    \o Key(m) \o Params(fn) \o Body(Last(fn.c).c, "semi")

ObjectEntry(m) ==
  CASE m.k = "Spread" -> <<P("...")>> \o In(m.c[1], 1)
    [] m.s # "" /\ m.c[1] = [k |-> "Identifier", s |-> m.s, f |-> {}, c |-> <<>>] -> <<Word(m.s)>>
    [] m.c[1].k = "FunctionDeclaration" /\ m.c[1].s = "" -> MethodText(m, m.c[1])
    [] OTHER -> Key(m) \o <<P(":")>> \o In(m.c[1], 1)

ClassEntry(m) ==
  (IF "ClassStatic" \in m.f THEN <<N("static")>> ELSE <<>>)
    \o (IF "ClassField" \in m.f
        THEN Key(m) \o (IF m.c[1].k = "UndefinedLiteral" THEN <<>>
                        ELSE <<P("=")>> \o In(m.c[1], 1)) \o <<P(";")>>
        ELSE MethodText(m, m.c[1]))

ClassText(n) ==
  <<K("class")>> \o (IF n.s = "" THEN <<>> ELSE <<N(n.s)>>)
    \o (IF n.c[1].k = "UndefinedLiteral" THEN <<>> ELSE <<K("extends")>> \o In(n.c[1], 15))
    \o <<P("{")>> \o FlattenSeq([i \in 1..(Len(n.c) - 1) |-> ClassEntry(n.c[i + 1])]) \o <<P("}")>>

FunctionText(n) ==
  (IF "async" \in n.f THEN <<K("async")>> ELSE <<>>) \o <<K("function")>>
    \o (IF "Generator" \in n.f THEN <<P("*")>> ELSE <<>>)
    \o (IF n.s = "" THEN <<>> ELSE <<N(n.s)>>) \o Params(n) \o Body(Last(n.c).c, "semi")

ArrowText(n) ==
  (IF "async" \in n.f THEN <<K("async")>> ELSE <<>>)
    \o (IF Len(n.c) = 2 /\ n.c[1].k = "Identifier" THEN <<N(n.c[1].s)>> ELSE Params(n))
    \o <<P("=>")>>
    \o (LET b == Last(n.c) IN
        IF b.k = "Block" THEN Body(b.c, "semi")
        ELSE LET t == In(b, 1) IN IF t[1].v = "{" THEN Paren(t) ELSE t)

\* One link of a member or call chain, after its base.
LinkText(n) ==
  LET q == IF "Optional" \in n.f THEN <<P("?.")>> ELSE <<>>
  IN  CASE n.k = "Call" -> q \o Paren(Items(Tail(n.c)))
        [] n.s = "[]" -> q \o <<P("[")>> \o In(n.c[2], 0) \o <<P("]")>>
        [] OTHER -> (IF q = <<>> THEN <<P(".")>> ELSE q) \o <<Word(n.s)>>

Quasi(interps) ==
  [Tok("template", "") EXCEPT !.parts = [i \in DOMAIN interps |-> Append(In(interps[i], 0), Eof)]]

\* The interpolations of a template.
RECURSIVE Interps(_)
Interps(n) == IF n.k = "StringLiteral" THEN <<>> ELSE Append(Interps(n.c[1].c[1]), n.c[1].c[2])

Written(n) ==
  CASE IsTemplate(n) -> <<Quasi(Interps(n))>>
    [] n.k = "Identifier" ->
         CASE n.s = "__importMeta" -> <<K("import"), P("."), N("meta")>>
           [] n.s = "__dynamicImport" -> <<K("import")>> [] OTHER -> <<Word(n.s)>>
    [] n.k = "NumberLiteral" -> <<Tok("number", n.s)>>
    [] n.k = "BigIntLiteral" -> <<Tok("bigint", n.s)>>
    [] n.k = "StringLiteral" -> <<Tok("string", n.s)>>
    [] n.k = "BoolLiteral" -> <<K(n.s)>>
    [] n.k = "NullLiteral" -> <<K("null")>>
    [] n.k = "UndefinedLiteral" -> <<K("undefined")>>
    [] n.k = "Call" /\ n.c[1].s = "RegExp" -> <<Tok("regex", n.c[2].s)>>
    [] n.k = "Sequence" -> Items(n.c)
    [] n.k = "Assignment" -> In(n.c[1], 15) \o <<P(n.s)>> \o In(n.c[2], 1)
    [] n.k = "Conditional" ->
         In(n.c[1], 3) \o <<P("?")>> \o In(n.c[2], 1) \o <<P(":")>> \o In(n.c[3], 1)
    [] n.k \in {"Binary", "Logical"} ->
         LET o == Operands(n)
         IN  o[1] \o <<IF n.s \in {"in", "instanceof"} THEN K(n.s) ELSE P(n.s)>> \o o[2]
    [] n.k = "Unary" /\ n.s \in {"post++", "post--"} ->
         In(n.c[1], 15) \o <<P(IF n.s = "post++" THEN "++" ELSE "--")>>
    [] n.k = "Unary" ->
         <<IF n.s \in {"typeof", "void", "delete"} THEN K(n.s) ELSE P(n.s)>> \o In(n.c[1], 14)
    [] n.k = "Await" -> <<K("await")>> \o In(n.c[1], 14)
    [] n.k = "Yield" ->
         <<K("yield")>> \o (IF n.s = "*" THEN <<P("*")>> ELSE <<>>)
           \o (IF n.c = <<>> THEN <<>> ELSE In(n.c[1], 1))
    [] n.k = "Spread" -> <<P("...")>> \o In(n.c[1], 1)
    [] n.k = "New" ->
         <<K("new")>> \o (IF n.c[1].k = "Call"
                          THEN In(n.c[1].c[1], 17) \o Paren(Items(Tail(n.c[1].c)))
                          ELSE In(n.c[1], 17))
    [] n.k = "OptionalChain" -> Written(n.c[1])
    [] n.k \in {"Member", "Call"} -> In(n.c[1], 16) \o LinkText(n)
    [] n.k = "TaggedTemplate" -> In(n.c[1], 16) \o <<Quasi(Tail(n.c))>>
    [] n.k = "ArrayLiteral" -> ArrayText(n.c)
    [] n.k = "ObjectLiteral" ->
         <<P("{")>> \o Listed([i \in DOMAIN n.c |-> ObjectEntry(n.c[i])], P(",")) \o <<P("}")>>
    [] n.k = "FunctionDeclaration" -> FunctionText(n)
    [] n.k = "ArrowFunction" -> ArrowText(n)
    [] n.k = "ClassDeclaration" -> ClassText(n)

(***************************************************************************)
(* Statements. The end of one is a semicolon, or nothing in style "line",  *)
(* where the next token begins a line.                                     *)
(***************************************************************************)
End(style) == IF style = "semi" THEN <<P(";")>> ELSE <<>>

Declared(n) ==
  <<K(n.s)>> \o Listed([i \in DOMAIN n.c |->
      LET d == n.c[i] IN
      IF d.k = "Identifier"
      THEN <<Word(d.s)>> \o (IF d.c = <<>> THEN <<>> ELSE <<P("=")>> \o In(d.c[1], 1))
      ELSE Target(d)], P(","))

Header(n, level) == Paren(In(n, level))

\* An absent part of a for statement is a placeholder in the tree.
Part(n) == CASE n.k = "UndefinedLiteral" -> <<>>
             [] n.k = "VariableDeclaration" -> Declared(n)
             [] OTHER -> In(n, 0)

ClauseText(c, style) ==
  IF c.s = "case" THEN <<K("case")>> \o In(c.c[1], 0) \o <<P(":")>>
                         \o FlattenSeq([i \in 1..(Len(c.c) - 1) |-> Stmt(c.c[i + 1], "semi")])
  ELSE <<K("default"), P(":")>> \o FlattenSeq([i \in DOMAIN c.c |-> Stmt(c.c[i], "semi")])

Body(list, style) ==
  <<P("{")>> \o FlattenSeq([i \in DOMAIN list |->
      LET t == Stmt(list[i], style)
      IN  IF style = "line" /\ i > 1 THEN [t EXCEPT ![1].nl = TRUE] ELSE t]) \o <<P("}")>>

TryText(n, style) ==
  LET catch == n.s \in {"c", "cf"}
  IN  <<K("try")>> \o Body(n.c[1].c, style)
        \o (IF catch THEN <<K("catch")>> \o (IF n.c[2].s = "" THEN <<>> ELSE Paren(<<N(n.c[2].s)>>))
                            \o Body(n.c[2].c, style) ELSE <<>>)
        \o (IF n.s \in {"f", "cf"} THEN <<K("finally")>> \o Body(Last(n.c).c, style) ELSE <<>>)

Stmt(n, style) ==
  CASE n.k = "ExpressionStatement" -> AtStart(n.c[1], 0) \o End(style)
    [] n.k = "VariableDeclaration" -> Declared(n) \o End(style)
    [] n.k = "FunctionDeclaration" -> FunctionText(n)
    [] n.k = "ClassDeclaration" -> ClassText(n)
    [] n.k = "Block" -> Body(n.c, style)
    [] n.k = "If" -> <<K("if")>> \o Header(n.c[1], 0)
                       \o Stmt(n.c[2], IF Len(n.c) = 3 THEN "semi" ELSE style)
                       \o (IF Len(n.c) = 3 THEN <<K("else")>> \o Stmt(n.c[3], style) ELSE <<>>)
    [] n.k \in {"While", "With"} ->
         <<K(IF n.k = "While" THEN "while" ELSE "with")>> \o Header(n.c[1], 0) \o Stmt(n.c[2], style)
    [] n.k = "DoWhile" -> <<K("do")>> \o Stmt(n.c[1], "semi") \o <<K("while")>> \o Header(n.c[2], 0)
                            \o End(style)
    [] n.k = "For" /\ n.s = "" ->
         <<K("for")>> \o Paren(Part(n.c[1]) \o <<P(";")>> \o Part(n.c[2]) \o <<P(";")>> \o Part(n.c[3]))
           \o Stmt(n.c[4], style)
    [] n.k = "For" ->
         <<K("for")>> \o Paren(Part(n.c[1]) \o <<K(n.s)>> \o In(n.c[2], IF n.s = "in" THEN 0 ELSE 1))
           \o Stmt(n.c[3], style)
    [] n.k = "Switch" ->
         <<K("switch")>> \o Header(n.c[1], 0) \o <<P("{")>>
           \o FlattenSeq([i \in 1..(Len(n.c) - 1) |-> ClauseText(n.c[i + 1], style)]) \o <<P("}")>>
    [] n.k \in {"Return", "Throw"} ->
         <<K(IF n.k = "Return" THEN "return" ELSE "throw")>>
           \o (IF n.c = <<>> THEN <<>> ELSE In(n.c[1], 0)) \o End(style)
    [] n.k = "Try" -> TryText(n, style)
    [] n.k \in {"Break", "Continue"} ->
         <<K(IF n.k = "Break" THEN "break" ELSE "continue")>>
           \o (IF n.s = "" THEN <<>> ELSE <<N(n.s)>>) \o End(style)
    [] n.k = "Labeled" -> <<N(n.s), P(":")>> \o Stmt(n.c[1], style)
    [] n.k = "ImportDeclaration" -> <<K("import"), Tok("string", "m"), P(";")>>
    [] n.k = "ExportDeclaration" -> <<K("export")>> \o Stmt(n.c[1], "semi")

\* The second statement starts a line in style "line", so that a first one that
\* needs a semicolon gets one inserted; not before a token that goes on with it.
GoesOn == {"(", "[", "+", "-", "*", "/", ",", ".", "?", "=", "in", "instanceof"}

Text(list, style) ==
  FlattenSeq([i \in DOMAIN list |->
    LET t    == Stmt(list[i], style)
        next == IF i < Len(list) THEN Stmt(list[i + 1], style)[1] ELSE Eof
        at   == IF style = "line" /\ i > 1 THEN [t EXCEPT ![1].nl = TRUE] ELSE t
    IN  IF style = "line" /\ (next.t \in {"template", "regex"} \/ next.v \in GoesOn)
        THEN Append(at, P(";")) ELSE at]) \o <<Eof>>
=============================================================================
