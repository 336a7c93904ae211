-------------------------- MODULE MCJsExpressions --------------------------
(***************************************************************************)
(* Expressions, functions and constructors for JsExpressions: a leaf in    *)
(* two contexts, and the value of them by the evaluation semantics of      *)
(* ECMAScript in the same world. Reference(n) is a reference record.       *)
(***************************************************************************)
EXTENDS JsExpressions

VARIABLE subject   \* of, phase; e: an expression, a function or a class

(***************************************************************************)
(* The reference. odd: a case the compiler is known to treat otherwise.    *)
(***************************************************************************)
Ready == World @@ [odd |-> FALSE]
Odd(w, is) == [w EXCEPT !.odd = @ \/ is]

RECURSIVE Ev(_, _, _), BindTo(_, _, _, _, _), EvChain(_, _, _)

\* The values of expressions, in order, as [w, vs].
Values(w, list, x) ==
  LET Item(n, u) == CASE n.k = "ArrayHole" -> Pure(u, Value("hole", 0, ""))
                      [] n.k = "Spread" -> LET i == Ev(n.c[1], u, x)
                                               it == Odd(IterateOf(i, i.v), i.v.k \in {"undefined", "null", "bool", "number"})
                                           IN  Pure(it, Of("spread", 0, it.v))
             [] OTHER -> Ev(n, u, x)
  IN  FoldLeft(LAMBDA a, n : LET i == Item(n, a.w) IN [w |-> i, vs |-> Append(a.vs, i.v)], [w |-> w, vs |-> <<>>], list)
Through(w, list, Step(_, _)) == FoldLeft(LAMBDA u, m : Step(u, m), w, list)

\* The value of a member that is an anonymous function gets its name.
NamedEv(n, w, name, x) == LET i == Ev(n, w, x) IN IF name # "" /\ IsAnonymous(n) THEN Pure(i, Rename(i.v, name)) ELSE i

Ref(kind, o, key, name) == [kind |-> kind, o |-> o, k |-> key, s |-> name]
\* A reference and the world after its evaluation.
Reference(n, w, x) ==
  IF n.k = "Identifier" THEN [w |-> w, r |-> Ref("name", Undefined, Undefined, n.s)]
  ELSE LET o == IF IsSuper(n.c[1]) THEN Pure(w, Captured("%superproto%", 0)) ELSE Ev(n.c[1], w, x)
           k == IF Computed(n) THEN Ev(n.c[2], o, x) ELSE Pure(o, Text(n.s))
       IN  [w |-> k, r |-> Ref(IF IsSuper(n.c[1]) THEN "super" ELSE "property", o.v, k.v, n.s)]
GetValue(w, r) ==
  CASE r.kind = "name"  -> ReadVar(w, r.s, 0)
    [] r.kind = "super" -> Do(w, "GetSuper", TextOf(r.k), <<r.o, r.k, This>>)
    [] OTHER            -> GetOf(w, r.o, r.k)
PutValue(w, r, v) ==
  CASE r.kind = "name"  -> Do(w, "StoreVar", r.s, <<v>>)
    [] r.kind = "super" -> Do(w, "PutSuper", "", <<r.o, r.k, This, v>>)
    [] OTHER            -> PutOf(w, r.o, r.k, v)

\* Binding patterns and assignment patterns.
Undef(w, v, def, name, x) == IF v = Undefined /\ ~w.halt THEN NamedEv(def, w, name, x) ELSE Pure(w, v)
BindList(p, w, v, how, x) ==
  LET it == Odd(IterateOf(w, v), v.k \in {"undefined", "null", "bool", "number"})
      One(u, k) == CASE p.c[k].k \in {"ArrayHole", "UndefinedLiteral"} -> u
                     [] p.c[k].k = "Spread" -> BindTo(p.c[k].c[1], u, Of("rest", k - 1, it.v), how, x)
                     [] OTHER -> BindTo(p.c[k], u, IF k < 3 THEN Of("item", k - 1, it.v) ELSE Undefined, how, x)
  IN  Through(it, [k \in DOMAIN p.c |-> k], LAMBDA u, k : One(u, k))
BindProperties(p, w, v, how, x) ==
  LET Names(k) == SelectSeq(SubSeq(p.c, 1, k - 1), LAMBDA m : m.k # "Spread" /\ "Computed" \notin m.f)
      One(u, k) ==
        LET m == p.c[k]
        IN  CASE m.k = "Spread" -> LET r == Do(u, "Call", "", <<Captured("%CopyRest%", 0), Undefined, v>> \o [j \in DOMAIN Names(k) |-> Text(Names(k)[j].s)])
                                   IN  BindTo(m.c[1], r, r.v, how, x)
              [] "Computed" \in m.f -> LET key == Ev(Last(m.c), u, x)  g == GetOf(key, v, key.v) IN BindTo(m.c[1], g, g.v, how, x)
              [] OTHER -> LET g == GetOf(u, v, Text(m.s)) IN BindTo(m.c[1], g, g.v, how, x)
  IN  IF IsNullish(v) THEN Fail(w) ELSE Through(w, [k \in DOMAIN p.c |-> k], LAMBDA u, k : One(u, k))
BindTo(t, w, v, how, x) ==
  CASE t.k = "Assignment" -> LET d == Undef(w, v, t.c[2], IF t.c[1].k = "Identifier" THEN t.c[1].s ELSE "", x)
                             IN  BindTo(t.c[1], d, d.v, how, x)
    [] t.k = "ArrayLiteral"  -> BindList(t, w, v, how, x)
    [] t.k = "ObjectLiteral" -> BindProperties(t, w, v, how, x)
    [] how = "let" -> Do(w, "DefineVar", t.s, <<v>>)
    [] OTHER -> LET r == Reference(t, w, x) IN PutValue(r.w, r.r, v)

\* The fields of an instance, which a call of super makes in a derived class.
Fields(w, x) ==
  LET Field(u, m) == LET v == NamedEv(m.c[1], u, MethodName(m), x)
                     IN  PutOf(v, This, IF "Computed" \in m.f THEN Const(Last(m.c)) ELSE Text(m.s), v.v)
  IN  Through(w, x.fields, Field)

\* A callee, its this value and the arguments.
EvCall(n, w, x) ==
  LET callee == n.c[1]
      c == IF callee.k = "Member" THEN LET r == Reference(callee, w, x)
                                       IN  [w |-> GetValue(r.w, r.r), this |-> IF r.r.kind = "super" THEN This ELSE r.r.o]
           ELSE IF IsSuper(callee) THEN [w |-> Pure(w, Captured("%super%", 0)), this |-> This]
           ELSE [w |-> Ev(callee, w, x), this |-> Undefined]
      args == Values(c.w, Tail(n.c), x)
      done == CallOf(args.w, c.w.v, c.this, args.vs)
  IN  IF IsSuper(callee) THEN Pure(Fields(done, x), done.v) ELSE done

\* Links of a chain: [w, this, short], the value in w.
EvChain(n, w, x) ==
  LET Stop(l, opt) == opt /\ ~l.short /\ IsNullish(l.w.v)
      inner == EvChain(n.c[1], w, x)
      stop  == Stop(inner, "Optional" \in n.f)
      key   == IF Computed(n) THEN Ev(n.c[2], inner.w, x) ELSE Pure(inner.w, Text(n.s))
      args  == Values(inner.w, Tail(n.c), x)
  IN  CASE n.k \notin {"Member", "Call"} \/ (n.k = "Member" /\ IsSuper(n.c[1])) ->
             [w |-> Ev(n, w, x), this |-> IF n.k = "Member" THEN This ELSE Undefined, short |-> FALSE]
        [] inner.short \/ stop -> [w |-> Pure(inner.w, Undefined), this |-> Undefined, short |-> TRUE]
        [] n.k = "Member" -> [w |-> GetOf(key, inner.w.v, key.v), this |-> inner.w.v, short |-> FALSE]
        [] OTHER -> [w |-> CallOf(args.w, inner.w.v, inner.this, args.vs), this |-> Undefined, short |-> FALSE]

EvNew(n, w, x) ==
  LET call == n.c[1].k = "Call" /\ "Grouped" \notin n.c[1].f
      f    == Ev(IF call THEN n.c[1].c[1] ELSE n.c[1], w, x)
      args == Values(f, IF call THEN Tail(n.c[1].c) ELSE <<>>, x)
  IN  ConstructOf(args.w, f.v, args.vs)

EvTagged(n, w, x) ==
  LET t == IF n.c[1].k = "Member" THEN LET r == Reference(n.c[1], w, x) IN [w |-> GetValue(r.w, r.r), this |-> IF r.r.kind = "super" THEN This ELSE r.r.o]
           ELSE [w |-> Ev(n.c[1], w, x), this |-> Undefined]
      texts(k) == Array([j \in DOMAIN n.c |-> Text(k)])
      args == Values(Make(t.w, texts("cooked"), Text("raw"), texts("raw")), Tail(n.c), x)
  IN  CallOf(args.w, t.w.v, t.this, <<texts("cooked")>> \o args.vs)

EvObject(n, w, x) ==
  LET new == Do(w, "NewObject", "", <<>>)
      Property(u, m) ==
        CASE m.k = "Spread" -> LET s == Ev(m.c[1], u, x) IN Do(s, "CopyProps", "", <<new.v, s.v>>)
          [] IsAccessor(m) -> DefineOf(u, new.v, Text(m.s), IF "ClassSetter" \in m.f THEN 1 ELSE 0, Closure(m.c[1], m.s))
          [] "Computed" \in m.f -> LET k == Ev(Last(m.c), u, x)  v == Ev(m.c[1], k, x) IN PutOf(v, new.v, k.v, v.v)
          [] OTHER -> LET v == NamedEv(m.c[1], u, m.s, x) IN PutOf(v, new.v, Text(m.s), v.v)
  IN  Pure(Through(new, n.c, Property), new.v)

\* ClassDefinitionEvaluation: the elements in their order, then the static fields.
EvClass(n, w, x) ==
  LET h == IF HasSuper(n) THEN Ev(n.c[1], w, x) ELSE w
      p == IF HasSuper(n) THEN Odd(GetOf(h, h.v, Text("prototype")), IsNullish(h.v)) ELSE h
      C == Closure(n, n.s)
      P == Of("prototype", 0, Owner(C))
      linked == IF HasSuper(n) THEN Make(Make(Make(Make(p, Scope, Text("%super%"), h.v), Scope, Text("%superproto%"), p.v),
                                              P, Text("[[Prototype]]"), h.v), C, Text("[[Prototype]]"), h.v)
                ELSE p
      named == IF n.s = "" THEN linked ELSE Make(linked, Scope, Text(n.s), C)
      home(m) == IF "ClassStatic" \in m.f THEN C ELSE P
      Key(u, m) == IF "Computed" \in m.f THEN Ev(Last(m.c), u, x) ELSE Pure(u, Text(m.s))
      Element(u, m) ==
        IF "ClassField" \in m.f \/ (m.s = "constructor" /\ "ClassStatic" \notin m.f) THEN u
        ELSE LET k == Key(u, m)  f == Closure(m.c[1], MethodName(m))
             IN  IF IsAccessor(m) THEN DefineOf(k, home(m), k.v, IF "ClassSetter" \in m.f THEN 1 ELSE 0, f) ELSE PutOf(k, home(m), k.v, f)
      Static(u, m) ==
        IF {"ClassField", "ClassStatic"} \subseteq m.f THEN LET v == NamedEv(m.c[1], u, MethodName(m), x)  k == Key(v, m) IN PutOf(k, C, k.v, v.v) ELSE u
  IN  Pure(Through(Through(named, Tail(n.c), Element), Tail(n.c), Static), C)

EvUnary(n, w, x) ==
  LET arg == n.c[1]
      r   == Reference(arg, w, x)
      old == GetValue(r.w, r.r)
      new == Apply(old, IF n.s \in {"++", "post++"} THEN "Inc" ELSE "Dec", <<old.v>>)
      v   == Ev(arg, w, x)
  IN  CASE n.s \in IncDec -> Pure(PutValue(new, r.r, new.v), IF n.s \in {"++", "--"} THEN new.v ELSE old.v)
        [] n.s = "delete" /\ arg.k = "Member" -> Do(r.w, "Delete", "", <<r.r.o, r.r.k>>)
        [] n.s = "delete" -> Pure(v, Bool(TRUE))
        [] n.s = "typeof" /\ arg.k = "Identifier" -> LET u == Do(w, "LoadVarOrUndef", arg.s, <<>>) IN Apply(u, "typeof", <<u.v>>)
        [] n.s = "void" -> Pure(v, Undefined)
        [] n.s = "+" -> Apply(v, "*", <<v.v, Number(1)>>)
        [] OTHER -> Apply(v, IF n.s = "-" THEN "Neg" ELSE n.s, <<v.v>>)

EvAssign(n, w, x) ==
  LET target == n.c[1]
      r   == Reference(target, w, x)
      cur == GetValue(r.w, r.r)
      stop == CASE n.s = "&&=" -> ~Truthy(cur.v) [] n.s = "||=" -> Truthy(cur.v) [] OTHER -> ~IsNullish(cur.v)
      b   == Ev(n.c[2], IF n.s = "=" /\ ~IsPattern(target) THEN r.w ELSE IF n.s = "=" THEN w ELSE cur, x)
      v   == IF target.k = "Identifier" /\ IsAnonymous(n.c[2]) THEN Rename(b.v, target.s) ELSE b.v
      res == Apply(b, OperatorOf(n.s), <<cur.v, b.v>>)
  IN  CASE IsPattern(target) -> Pure(BindTo(target, b, b.v, "assign", x), b.v)
        [] n.s = "=" -> Pure(PutValue(b, r.r, v), v)
        [] n.s \in LogicalAssigns -> IF stop THEN cur ELSE Pure(PutValue(b, r.r, v), v)
        [] OTHER -> Pure(PutValue(res, r.r, res.v), res.v)

EvLogical(n, w, x) ==
  LET a == Ev(n.c[1], w, x)
  IN  IF (CASE n.s = "&&" -> Truthy(a.v) [] n.s = "||" -> ~Truthy(a.v) [] OTHER -> IsNullish(a.v)) THEN Ev(n.c[2], a, x) ELSE a

\* yield* over an iterable of two items.
EvYield(n, w, x) ==
  LET a  == IF n.c = <<>> THEN Pure(w, Undefined) ELSE Ev(n.c[1], w, x)
      it == Odd(IterateOf(a, a.v), a.v.k \in {"undefined", "null", "bool", "number"})
  IN  IF n.s # "*" THEN Do(a, "Yield", "", <<a.v>>)
      ELSE Pure(Do(Do(it, "Yield", "", <<Of("item", 0, it.v)>>), "Yield", "", <<Of("item", 1, it.v)>>), Undefined)

Ev(n, w, x) ==
  CASE n.k = "Identifier" /\ n.s = "this" -> Pure(w, IF x.arrow THEN Captured("%this%", 0) ELSE This)
    [] n.k = "Identifier" -> ReadVar(w, n.s, 0)
    [] n.k = "ArrayLiteral" -> LET i == Values(w, n.c, x) IN Pure(i.w, Array(i.vs))
    [] n.k = "ObjectLiteral" -> EvObject(n, w, x)
    [] n.k = "Member" -> LET r == Reference(n, w, x) IN GetValue(r.w, r.r)
    [] n.k = "Call" -> EvCall(n, w, x)
    [] n.k = "OptionalChain" -> EvChain(n.c[1], w, x).w
    [] n.k = "TaggedTemplate" -> EvTagged(n, w, x)
    [] n.k = "New" -> EvNew(n, w, x)
    [] n.k \in {"FunctionDeclaration", "ArrowFunction"} -> Pure(w, Closure(n, n.s))
    [] n.k = "ClassDeclaration" -> EvClass(n, w, x)
    [] n.k = "Unary" -> EvUnary(n, w, x)
    [] n.k = "Binary" -> LET a == Ev(n.c[1], w, x)  b == Ev(n.c[2], a, x) IN Apply(b, n.s, <<a.v, b.v>>)
    [] n.k = "Logical" -> EvLogical(n, w, x)
    [] n.k = "Assignment" -> EvAssign(n, w, x)
    [] n.k = "Conditional" -> LET a == Ev(n.c[1], w, x) IN Ev(n.c[IF Truthy(a.v) THEN 2 ELSE 3], a, x)
    [] n.k = "Sequence" -> Through(w, n.c, LAMBDA u, m : Ev(m, u, x))
    [] n.k = "Await" -> LET a == Ev(n.c[1], w, x) IN IF x.async THEN Do(a, "Await", "", <<a.v>>) ELSE a
    [] n.k = "Yield" -> EvYield(n, w, x)
    [] OTHER -> Pure(w, Const(n))

(***************************************************************************)
(* Functions: parameters, var names, functions of the body, statements.    *)
(***************************************************************************)
RECURSIVE Declared(_), Bound(_)
Bound(b) == CASE b.k = "Identifier" -> {b.s}
              [] b.k \in {"Assignment", "Spread", "Member"} -> Bound(b.c[1])
              [] OTHER -> UNION {Bound(b.c[k]) : k \in DOMAIN b.c}
Declared(n) == IF n.k \in {"FunctionDeclaration", "ArrowFunction", "ClassDeclaration"} THEN {}
               ELSE UNION {Declared(n.c[k]) \cup (IF n.k = "VariableDeclaration" /\ n.s = "var" THEN Bound(n.c[k]) ELSE {}) : k \in DOMAIN n.c}
EvParameters(params, w, x) ==
  LET One(u, k) == CASE params[k].k = "Identifier" -> u
                     [] params[k].k = "Spread" -> BindTo(params[k].c[1], u, Of("rest", k - 1, Captured("arguments", 0)), "let", x)
                     [] OTHER -> BindTo(params[k], u, Captured("%arg%", k), "let", x)
  IN  Through(w, [k \in DOMAIN params |-> k], One)
Instantiate(list, w) ==
  LET vars == UNION {Declared(list[k]) : k \in DOMAIN list}
      u    == [w EXCEPT !.made = @ \cup IF w.halt THEN {} ELSE {[o |-> Scope, k |-> Text(name), v |-> Undefined] : name \in vars}]
  IN  Through(u, list, LAMBDA t, s : IF IsFunction(s) THEN Do(t, "DefineVar", s.s, <<Closure(s, s.s)>>) ELSE t)
EvDeclare(b, kind, w, x) ==
  LET v == NamedEv(b.c[1], w, b.s, x)
      p == Ev(b.c[2], w, x)
  IN  CASE b.k = "Assignment" -> BindTo(b.c[1], p, p.v, IF kind = "var" THEN "assign" ELSE "let", x)
        [] b.c = <<>> -> IF kind = "var" THEN w ELSE Do(w, "DefineVar", b.s, <<Undefined>>)
        [] OTHER -> Do(v, IF kind = "var" THEN "StoreVar" ELSE "DefineVar", b.s, <<v.v>>)
EvStatement(s, w, x) ==
  LET v == Ev(s.c[1], w, x)
  IN  CASE s.k = "VariableDeclaration" -> Through(w, s.c, LAMBDA u, b : EvDeclare(b, s.s, u, x))
        [] s.k = "ExpressionStatement" -> v
        [] s.k = "ClassDeclaration" -> LET c == Ev(s, w, x) IN Do(c, "DefineVar", s.s, <<c.v>>)
        [] s.k = "Return" -> v
        [] OTHER -> w
EvBody(list, w, x) ==
  LET done == Through(Instantiate(list, w), list, LAMBDA u, s : EvStatement(s, u, x))
  IN  IF list # <<>> /\ Last(list).k = "Return" THEN done ELSE Pure(done, Undefined)
EvFunction(n, w) ==
  LET x == [arrow |-> n.k = "ArrowFunction", async |-> "async" \in n.f, fields |-> <<>>]
      p == EvParameters(Front(n.c), w, x)
  IN  IF Last(n.c).k = "Block" THEN EvBody(Last(n.c).c, p, x) ELSE Ev(Last(n.c), p, x)
EvConstructor(n, w) ==
  LET x   == [arrow |-> FALSE, async |-> FALSE, fields |-> SelectSeq(Tail(n.c), LAMBDA m : "ClassField" \in m.f /\ "ClassStatic" \notin m.f)]
      own == SelectSeq(Tail(n.c), LAMBDA m : m.s = "constructor")
      f   == own[1].c[1]
      sup == CallOf(w, Captured("%super%", 0), This, <<Of("spread", 0, Captured("arguments", 0))>>)
      u   == IF HasSuper(n) THEN w ELSE Fields(w, x)
  IN  IF own = <<>> THEN Pure(IF HasSuper(n) THEN Fields(sup, x) ELSE u, Undefined)
      ELSE EvBody(Last(f.c).c, EvParameters(Front(f.c), u, x), x)

(***************************************************************************)
(* Programs, from a leaf outwards.                                         *)
(***************************************************************************)
Node(k, s, f, c) == [k |-> k, s |-> s, f |-> f, c |-> c]
Name(s) == Node("Identifier", s, {}, <<>>)
One == Node("NumberLiteral", "1", {}, <<>>)
Key1 == Node("StringLiteral", "k", {}, <<>>)
A == Name("a")
X == Name("x")
Member(f, e, name) == Node("Member", name, f, <<e>>)
At(f, e, key) == Node("Member", "[]", f, <<e, key>>)
CallOn(f, e, args) == Node("Call", "", f, <<e>> \o args)
SpreadOf(e) == Node("Spread", "", {}, <<e>>)
Chain(e) == Node("OptionalChain", "", {}, <<e>>)
Assign(op, t, e) == Node("Assignment", op, {}, <<t, e>>)
BlockOf(list) == Node("Block", "", {}, list)
Expr(e) == Node("ExpressionStatement", "", {}, <<e>>)
ReturnOf(e) == Node("Return", "", {}, <<e>>)
Fn(params, list) == Node("FunctionDeclaration", "", {}, Append(params, BlockOf(list)))
Prop(name, f, c) == Node("Member", name, f, c)
Objects(list) == Node("ObjectLiteral", "", {}, list)
Arrays(list) == Node("ArrayLiteral", "", {}, list)
Skip == Node("UndefinedLiteral", "", {}, <<>>)
Hole == Node("ArrayHole", "", {}, <<>>)
ClassOf(name, h, list) == Node("ClassDeclaration", name, {}, <<h>> \o list)
Super == Name("super")
Def(t, e) == Assign("=", t, e)

Leaves1 == <<A, Name("n"), Name("u"), Name("f"), Name("this"), One, Fn(<<>>, <<>>), Node("NullLiteral", "", {}, <<>>),
             Node("ArrowFunction", "", {"async"}, <<A>>), ClassOf("", Skip, <<>>), Assign("=", Arrays(<<X>>), A)>>

Contexts(e) == <<
  Arrays(<<e, Hole, SpreadOf(A)>>), Arrays(<<A, SpreadOf(e), One>>),
  Objects(<<Prop("x", {}, <<e>>), Prop("", {"Computed"}, <<A, Key1>>), SpreadOf(A)>>),
  Objects(<<Prop("g", {"ClassGetter"}, <<Fn(<<>>, <<>>)>>), Prop("", {"Computed"}, <<One, e>>), SpreadOf(e)>>),
  Member({}, e, "x"), At({}, e, A), At({}, A, e), Member({}, Super, "x"), At({}, Super, e),
  CallOn({}, e, <<A>>), CallOn({}, A, <<e, One>>), CallOn({}, Member({}, e, "m"), <<A>>), CallOn({}, At({}, A, e), <<>>),
  CallOn({}, A, <<SpreadOf(e), A>>), CallOn({}, Member({}, A, "m"), <<A, e, One>>), CallOn({}, At({}, e, A), <<SpreadOf(A)>>),
  CallOn({}, Super, <<e, A>>), CallOn({}, Member({}, Super, "m"), <<e>>), CallOn({}, At({}, Super, e), <<A>>),
  Chain(Member({"Optional"}, e, "x")), Chain(At({"Optional"}, A, e)), Chain(Member({}, Member({"Optional"}, e, "n"), "x")),
  Chain(CallOn({}, Member({"Optional"}, e, "m"), <<A>>)), Chain(CallOn({"Optional"}, Member({}, e, "u"), <<A>>)),
  Chain(CallOn({"Optional"}, At({}, A, e), <<SpreadOf(A)>>)), Chain(Member({}, CallOn({"Optional"}, A, <<e>>), "x")),
  Chain(CallOn({"Optional"}, Member({}, Super, "m"), <<e>>)), Chain(At({}, CallOn({"Optional"}, e, <<A>>), A)),
  Node("TaggedTemplate", "", {}, <<e, A>>), Node("TaggedTemplate", "", {}, <<Member({}, A, "m"), e, A>>), Node("TaggedTemplate", "", {}, <<At({}, A, e)>>),
  Node("New", "", {}, <<e>>), Node("New", "", {}, <<CallOn({}, A, <<e, A>>)>>), Node("New", "", {}, <<CallOn({}, e, <<SpreadOf(A)>>)>>),
  Node("New", "", {}, <<CallOn({"Grouped"}, A, <<e>>)>>),
  Node("Unary", "delete", {}, <<Member({}, e, "x")>>), Node("Unary", "delete", {}, <<At({}, A, e)>>), Node("Unary", "delete", {}, <<e>>),
  Node("Unary", "typeof", {}, <<e>>), Node("Unary", "!", {}, <<e>>), Node("Unary", "-", {}, <<e>>), Node("Unary", "+", {}, <<e>>),
  Node("Unary", "void", {}, <<e>>), Node("Unary", "++", {}, <<X>>), Node("Unary", "post--", {}, <<Member({}, Name("this"), "x")>>),
  Node("Binary", "-", {}, <<e, A>>), Node("Binary", "<", {}, <<A, e>>), Node("Binary", "===", {}, <<e, Name("u")>>),
  Node("Logical", "&&", {}, <<e, A>>), Node("Logical", "||", {}, <<e, A>>), Node("Logical", "??", {}, <<e, A>>), Node("Logical", "??", {}, <<Name("n"), e>>),
  Assign("=", X, e), Assign("=", Member({}, e, "x"), A), Assign("=", Member({}, A, "x"), e), Assign("=", At({}, A, e), A), Assign("=", At({}, e, Key1), A),
  Assign("=", Member({}, Super, "x"), e), Assign("=", At({}, Super, A), e),
  Assign("&&=", X, e), Assign("||=", Member({}, e, "f"), A), Assign("??=", At({}, A, e), A), Assign("??=", Member({}, A, "n"), e), Assign("||=", At({}, Super, e), A),
  Assign("+=", X, e), Assign("-=", Member({}, A, "x"), e), Assign("*=", At({}, A, e), e), Assign("+=", Member({}, Super, "x"), e),
  Assign("=", Arrays(<<X, Skip, Def(A, e), SpreadOf(Name("y"))>>), A), Assign("=", Arrays(<<Def(Arrays(<<X>>), A)>>), e),
  Assign("=", Objects(<<Prop("u", {}, <<Def(X, e)>>), Prop("", {"Computed"}, <<A, e>>), SpreadOf(Member({}, Name("this"), "y"))>>), A),
  Assign("=", Objects(<<Prop("x", {}, <<Objects(<<Prop("u", {}, <<Def(X, Fn(<<>>, <<>>))>>)>>)>>)>>), e),
  Node("Conditional", "", {}, <<e, A, X>>), Node("Conditional", "", {}, <<A, e, X>>), Node("Conditional", "", {}, <<Name("f"), X, e>>),
  Node("Sequence", "", {}, <<e, A>>), Node("Sequence", "", {}, <<A, e>>), Node("Await", "", {}, <<e>>), Node("Yield", "", {}, <<e>>), Node("Yield", "*", {}, <<e>>),
  ClassOf("", e, <<Prop("m", {}, <<Fn(<<>>, <<>>)>>), Prop("s", {"ClassStatic", "ClassField"}, <<A>>)>>),
  ClassOf("C", Skip, <<Prop("constructor", {}, <<Fn(<<>>, <<>>)>>), Prop("", {"Computed"}, <<Fn(<<>>, <<>>), e>>), Prop("s", {"ClassStatic"}, <<Fn(<<>>, <<>>)>>),
     Prop("g", {"ClassGetter"}, <<Fn(<<>>, <<>>)>>), Prop("", {"ClassSetter", "ClassStatic", "Computed"}, <<Fn(<<A>>, <<>>), Key1>>),
     Prop("x", {"ClassField"}, <<One>>), Prop("s", {"ClassStatic", "ClassField"}, <<e>>), Prop("", {"ClassStatic", "ClassField", "Computed"}, <<e, Key1>>)>>),
  ClassOf("C", A, <<Prop("s", {"ClassStatic", "ClassField"}, <<e>>)>>)>>

VarOf(kind, list) == Node("VariableDeclaration", kind, {}, list)
Init1(name, e) == Node("Identifier", name, {}, <<e>>)
Functions(e) == <<
  Fn(<<A, Def(X, e), SpreadOf(Name("y"))>>, <<ReturnOf(A)>>), Fn(<<Arrays(<<X, Def(A, e)>>), SpreadOf(Arrays(<<Name("y")>>))>>, <<>>),
  Fn(<<Objects(<<Prop("x", {}, <<Def(X, e)>>)>>), A>>, <<VarOf("var", <<Name("v"), Init1("w", e)>>), ReturnOf(e)>>),
  Node("ArrowFunction", "", {"async"}, <<Def(X, A), e>>), Node("FunctionDeclaration", "", {"async"}, <<BlockOf(<<Expr(e), Expr(Node("Await", "", {}, <<e>>))>>)>>),
  Fn(<<>>, <<Expr(e), VarOf("let", <<Name("v"), Init1("w", e), Def(Arrays(<<X, SpreadOf(Name("y"))>>), A)>>),
             Node("FunctionDeclaration", "g", {}, <<BlockOf(<<>>)>>), VarOf("var", <<Def(Objects(<<Prop("x", {}, <<Def(Name("z"), e)>>)>>), A)>>)>>),
  Fn(<<>>, <<ClassOf("C", Skip, <<Prop("s", {"ClassStatic", "ClassField"}, <<e>>)>>), Node("If", "", {}, <<A, BlockOf(<<VarOf("var", <<Name("q")>>)>>)>>)>>)>>
Field(e) == Prop("x", {"ClassField"}, <<e>>)
Ctor(params, list) == Prop("constructor", {}, <<Fn(params, list)>>)
Classes(e) == <<
  ClassOf("", Skip, <<Field(e), Prop("m", {}, <<Fn(<<>>, <<>>)>>)>>), ClassOf("", A, <<Field(e), Prop("", {"ClassField", "Computed"}, <<A, Key1>>)>>),
  ClassOf("C", Skip, <<Field(A), Ctor(<<>>, <<Expr(e)>>)>>), ClassOf("C", Skip, <<Ctor(<<Def(X, e)>>, <<VarOf("var", <<Init1("v", e)>>)>>)>>),
  ClassOf("C", A, <<Ctor(<<Def(X, e)>>, <<Expr(A), Expr(CallOn({}, Super, <<e>>)), Expr(X)>>), Field(e)>>)>>

RECURSIVE CallsSuper(_)
CallsSuper(n) == (n.k = "Call" /\ IsSuper(n.c[1])) \/ \E k \in DOMAIN n.c : CallsSuper(n.c[k])
E0 == Node("NumberLiteral", "0", {}, <<>>)
ExpressionsBegin == subject.of = "nothing" /\ subject' = [of |-> "javascript", phase |-> "start", e |-> E0]
ExpressionsGrow ==
  /\ subject.of = "javascript"
  /\ \/ /\ subject.phase = "start"
        /\ \E k \in DOMAIN Leaves1 : subject' = [subject EXCEPT !.phase = "leaf", !.e = Leaves1[k]]
     \/ /\ subject.phase \in {"leaf", "context"}
        /\ \E k \in DOMAIN Contexts(A) :
             subject' = [subject EXCEPT !.phase = IF @ = "leaf" THEN "context" ELSE "expression", !.e = Contexts(@)[k]]
     \/ /\ subject.phase \in {"leaf", "context"}
        /\ \/ \E k \in DOMAIN Functions(A) : subject' = [subject EXCEPT !.phase = "function", !.e = Functions(@)[k]]
           \/ /\ ~CallsSuper(subject.e)
              /\ \E k \in DOMAIN Classes(A) : subject' = [subject EXCEPT !.phase = "constructor", !.e = Classes(@)[k]]
ExpressionsNext == ExpressionsBegin \/ ExpressionsGrow

(***************************************************************************)
(* Programs that mean something else to the compiler; see the README.      *)
(***************************************************************************)
IsLiteral(n) == n.k \in {"NumberLiteral", "StringLiteral", "NullLiteral"}
Quiet(n) == (n.c[1].k = "Identifier" /\ n.c[1].s \in {"this", "super"}) /\ (~Computed(n) \/ IsLiteral(n.c[2]))
IsMisread(n) ==
  \* the operand of ++ and -- is evaluated for the read and for the write
  \/ n.k = "Unary" /\ n.s \in IncDec /\ n.c[1].k = "Member" /\ ~Quiet(n.c[1])
  \/ n.k = "Unary" /\ n.s = "delete" /\ n.c[1].k # "Member" /\ ~IsLiteral(n.c[1])
  \/ n.k = "Unary" /\ n.s = "typeof" /\ n.c[1].k = "Identifier" /\ n.c[1].s = "this"
  \* a computed key is evaluated after its value
  \/ n.k = "ObjectLiteral" /\ \E m \in ToSet(n.c) : "Computed" \in m.f /\ ~IsLiteral(m.c[1]) /\ ~IsLiteral(Last(m.c))
  \* arguments that are spread to super stay one array
  \/ n.k = "Call" /\ HasSpread(n.c) /\ (IsSuper(n.c[1]) \/ (n.c[1].k = "Member" /\ IsSuper(n.c[1].c[1])))
  \* functions that get no name, or one they should not have
  \/ n.k = "Assignment" /\ IsAnonymous(n.c[2]) /\ IF n.s = "=" THEN StaticName(n.c[1]) # "" ELSE n.c[1].k = "Identifier"
  \/ n.k = "Member" /\ "ClassField" \in n.f /\ IsAnonymous(n.c[1])
  \* (a?.b)() calls without this
  \/ n.k \in {"Call", "TaggedTemplate"} /\ n.c[1].k = "OptionalChain" /\ n.c[1].c[1].k = "Member"
RECURSIVE Somewhere(_)
Somewhere(n) == IsMisread(n) \/ \E k \in DOMAIN n.c : Somewhere(n.c[k])

Body(grown) ==
  CASE grown.phase = "function" -> FunctionCode(grown.e)
    [] grown.phase = "constructor" -> ConstructorCode(grown.e)
    [] OTHER -> Code(grown.e, 0, 1, [arrow |-> FALSE, async |-> FALSE]) \o <<I("Return", 0, 0, 0)>>
Meaning(grown) ==
  CASE grown.phase = "function" -> EvFunction(grown.e, Ready)
    [] grown.phase = "constructor" -> EvConstructor(grown.e, Ready)
    [] OTHER -> Ev(grown.e, Ready, [arrow |-> FALSE, async |-> FALSE, fields |-> <<>>])

\* Compiled code does what ECMAScript says the program does: the same reads, writes,
\* calls and other effects in the same order with the same values, the same things put
\* on the functions and classes it makes, the same result, and an error at the same
\* point (compiler.cpp, compile_expr; the comments at 1850, 1897 and 1571 promise parts of it).
EvaluatesAsWritten(grown) ==
  (grown.of = "javascript" /\ Compiles(Body(grown)) /\ ~Somewhere(grown.e)) =>
  LET run == Run(Body(grown))
      ref == Meaning(grown)
  IN  \/ ref.odd
      \/ /\ run.log = ref.log /\ run.halt = ref.halt
         /\ run.halt \/ (run.made = ref.made /\ run.v = ref.v)
=============================================================================
