--------------------------- MODULE JsExpressions ---------------------------
(***************************************************************************)
(* The expression part of the MalibuJS compiler (js/compiler/compiler.cpp, *)
(* compile_expr and what it calls): registers, patterns, optional chains,  *)
(* calls, classes, parameters.                                             *)
(*                                                                         *)
(* A node is [k, s, f, c], as in JsParser. Code(n, d, t, x) is the code    *)
(* that puts the value of n into register d; registers from t on are free, *)
(* and x is what the code looks up in its function (arrow, async). Jumps   *)
(* count from the next instruction. A register is taken for as long as the *)
(* caller keeps it, so After says which one is free after an expression.   *)
(*                                                                         *)
(* What operations do is left to the world: a value is a constant, a       *)
(* closure, an array as it was made, or the result of the n-th effect.     *)
(***************************************************************************)
EXTENDS Integers, Sequences, SequencesExt, FiniteSetsExt, TLC

CONSTANTS Registers,         \* of a function
          DirectArguments    \* what a call passes in registers

(***************************************************************************)
(* Values. c holds the items of an array, of the node of a closure.        *)
(***************************************************************************)
Nothing == [k |-> "", s |-> "", f |-> {}, c |-> <<>>]
Value(k, n, s) == [k |-> k, n |-> n, s |-> s, c |-> <<>>, of |-> Nothing]
Undefined == Value("undefined", 0, "")
Null == Value("null", 0, "")
Bool(b) == Value("bool", IF b THEN 1 ELSE 0, "")
Number(n) == Value("number", n, "")
Text(s) == Value("text", 0, s)
Result(n) == Value("result", n, "")
Array(items) == [Value("array", 0, "") EXCEPT !.c = items]
Closure(n, name) == [Value("closure", 0, name) EXCEPT !.of = n]
This == Value("this", 0, "")
\* A name that no program can write: what the interpreter defines or a class captures.
Captured(name, n) == Value("captured", n, name)

Const(n) ==
  CASE n.k = "NumberLiteral" -> Number(IF n.s = "0" THEN 0 ELSE 1)
    [] n.k = "StringLiteral" -> Text(n.s)
    [] n.k = "BoolLiteral" -> Bool(n.s = "true")
    [] n.k = "NullLiteral" -> Null
    [] n.k = "BigIntLiteral" -> Value("bigint", 0, n.s)
    [] OTHER -> Undefined

(***************************************************************************)
(* Instructions.                                                           *)
(***************************************************************************)
I(op, d, a, b) == [op |-> op, d |-> d, a |-> a, b |-> b, i |-> 0, s |-> "", v |-> Undefined]
Load(d, v) == [I("Load", d, 0, 0) EXCEPT !.v = v]
Named(op, d, a, b, s) == [I(op, d, a, b) EXCEPT !.s = s]
Counted(op, d, a, b, i) == [I(op, d, a, b) EXCEPT !.i = i]
Jump(op, a, i) == Counted(op, 0, a, 0, i)
NoKey == -1

IsSuper(n) == n.k = "Identifier" /\ n.s = "super"
Computed(n) == n.k = "Member" /\ n.s = "[]"
HasSpread(args) == \E k \in DOMAIN args : args[k].k = "Spread"
IsPattern(n) == n.k \in {"ArrayLiteral", "ObjectLiteral"}
IsAnonymous(n) == n.k \in {"FunctionDeclaration", "ArrowFunction", "ClassDeclaration"} /\ n.s = ""
\* What gives its name to an anonymous function that is assigned to it.
StaticName(n) ==
  IF n.k # "Member" THEN "" ELSE IF n.s # "[]" THEN n.s
  ELSE IF n.c[2].k \in {"StringLiteral", "NumberLiteral", "BigIntLiteral"} THEN n.c[2].s ELSE ""

(***************************************************************************)
(* Registers an expression does not give back. An array pattern keeps one. *)
(***************************************************************************)
RECURSIVE BindLeaves(_)
BindLeaves(target) == CASE target.k = "Assignment" -> BindLeaves(target.c[1]) [] target.k = "ArrayLiteral" -> 1 [] OTHER -> 0
RECURSIVE Leaves(_)
LeavesOf(list) == FoldLeft(LAMBDA a, n : a + Leaves(n), 0, list)
Leaves(n) ==
  CASE n.k = "Assignment" /\ n.s = "=" /\ IsPattern(n.c[1]) -> Leaves(n.c[2]) + BindLeaves(n.c[1])
    [] n.k = "Assignment" /\ n.s = "=" /\ n.c[1].k = "Identifier" -> Leaves(n.c[2])
    [] n.k \in {"Sequence", "Logical", "Spread"} -> IF n.s = "??" THEN Leaves(n.c[1]) ELSE LeavesOf(n.c)
    [] n.k = "Conditional" -> LeavesOf(Tail(n.c))
    [] OTHER -> 0
After(n, t) == t + Leaves(n)

RECURSIVE Code(_, _, _, _)
RECURSIVE Bind(_, _, _, _, _)

\* Each expression into the next register, from d on.
Each(list, d, t, x) ==
  FlattenSeq([k \in DOMAIN list |-> Code(list[k], d + k - 1, t + LeavesOf(SubSeq(list, 1, k - 1)), x)])

\* compile_init_named
CodeNamed(n, d, t, name, x) ==
  Code(n, d, t, x) \o IF name # "" /\ IsAnonymous(n) THEN <<Named("SetFnName", d, 0, 0, name)>> ELSE <<>>

(***************************************************************************)
(* Places: the base and the key of a member in registers, evaluated once.  *)
(* super.x is read off the prototype with this as its receiver.            *)
(***************************************************************************)
Place(n, t) ==
  IF IsSuper(n.c[1]) THEN [o |-> t, r |-> t + 1, k |-> IF Computed(n) THEN t + 2 ELSE NoKey, top |-> IF Computed(n) THEN After(n.c[2], t + 3) ELSE t + 2]
  ELSE LET k == After(n.c[1], t + 1)
       IN  [o |-> t, r |-> t, k |-> IF Computed(n) THEN k ELSE NoKey, top |-> IF Computed(n) THEN After(n.c[2], k + 1) ELSE k]
KeyCode(n, k, x) == IF k = NoKey THEN <<>> ELSE Code(n.c[2], k, k + 1, x)
NameOf(n) == IF Computed(n) THEN "" ELSE n.s
SuperCode(o, r) == <<Named("LoadVar", o, 0, 0, "%superproto%"), I("LoadThis", r, 0, 0)>>
PlaceCode(n, t, x) ==
  LET p == Place(n, t)
  IN  (IF IsSuper(n.c[1]) THEN SuperCode(p.o, p.r) ELSE Code(n.c[1], p.o, t + 1, x)) \o KeyCode(n, p.k, x)
Read(n, p, d) == [Named(IF IsSuper(n.c[1]) THEN "GetSuper" ELSE "Get", d, p.o, p.k, NameOf(n)) EXCEPT !.i = p.r]
Write(n, p, v) == [Named(IF IsSuper(n.c[1]) THEN "PutSuper" ELSE "Put", p.o, v, p.k, NameOf(n)) EXCEPT !.i = p.r]
\* store_to_target
Store(n, v, t, x) ==
  IF n.k = "Identifier" THEN <<Named("StoreVar", 0, v, 0, n.s)>> ELSE PlaceCode(n, t, x) \o <<Write(n, Place(n, t), v)>>

(***************************************************************************)
(* Patterns: bind_pattern_or_target, with how = "let" when it declares.    *)
(***************************************************************************)
Slice(d, src, from, t) ==
  <<Named("Get", t, src, NoKey, "slice"), I("Move", t + 1, src, 0), Load(t + 2, Number(from)), Counted("Call", d, t, 0, 1)>>
Default(v, def, name, t, x) ==
  LET given == CodeNamed(def, v, t + 2, name, x)
  IN  <<Load(t, Undefined), I("===", t + 1, v, t), Jump("JumpIfFalse", t + 1, Len(given))>> \o given
BindArray(p, v, t, how, x) ==
  LET rest(k) == p.c[k].k = "Spread"
      Item(k) == IF p.c[k].k \in {"UndefinedLiteral", "ArrayHole"} \/ (\E j \in 1..(k - 1) : rest(j)) THEN <<>>
                 ELSE IF rest(k) THEN Slice(t + 1, t, k - 1, t + 2) \o Bind(p.c[k].c[1], t + 1, t + 2, how, x)
                 ELSE <<Load(t + 2, Number(k - 1)), I("Get", t + 1, t, t + 2)>> \o Bind(p.c[k], t + 1, t + 3, how, x)
  IN  <<I("ToIterable", t, v, 0)>> \o FlattenSeq([k \in DOMAIN p.c |-> Item(k)])
BindObject(p, v, t, how, x) ==
  LET taken(k) == SelectSeq(SubSeq(p.c, 1, k - 1), LAMBDA q : q.k # "Spread" /\ "Computed" \notin q.f)
      Rest(k) ==
        LET n == Len(taken(k))
        IN  <<Named("LoadVar", t, 0, 0, "%CopyRest%"), Load(t + 1, Undefined), I("Move", t + 2, v, 0)>>
            \o [j \in 1..n |-> Load(t + 2 + j, Text(taken(k)[j].s))] \o <<Counted("Call", t + 2 + n, t, 0, 1 + n)>>
            \o Bind(p.c[k].c[1], t + 2 + n, t + 3 + n, how, x)
      Item(k) ==
        IF p.c[k].k = "Spread" THEN Rest(k)
        ELSE IF "Computed" \in p.c[k].f
        THEN Code(Last(p.c[k].c), t + 1, t + 2, x) \o <<I("Get", t, v, t + 1)>> \o Bind(p.c[k].c[1], t, After(Last(p.c[k].c), t + 2), how, x)
        ELSE <<Named("Get", t, v, NoKey, p.c[k].s)>> \o Bind(p.c[k].c[1], t, t + 1, how, x)
  IN  FlattenSeq([k \in DOMAIN p.c |-> Item(k)])
Bind(target, v, t, how, x) ==
  CASE target.k = "Assignment" ->
         Default(v, target.c[2], IF target.c[1].k = "Identifier" THEN target.c[1].s ELSE "", t, x) \o Bind(target.c[1], v, t, how, x)
    [] target.k = "ArrayLiteral"  -> BindArray(target, v, t, how, x)
    [] target.k = "ObjectLiteral" -> BindObject(target, v, t, how, x)
    [] OTHER -> IF how = "assign" THEN Store(target, v, t, x) ELSE <<Named("DefineVar", 0, v, 0, target.s)>>

(***************************************************************************)
(* Arrays, objects, calls.                                                 *)
(***************************************************************************)
Append1(d, item, t, x) ==
  IF item.k = "ArrayHole" THEN <<Counted("ArrayAppend", d, 0, 0, 2)>>
  ELSE Code(IF item.k = "Spread" THEN item.c[1] ELSE item, t, t + 1, x) \o <<Counted("ArrayAppend", d, t, 0, IF item.k = "Spread" THEN 1 ELSE 0)>>
ArrayCode(items, d, t, x) == <<I("NewArray", d, 0, 0)>> \o FlattenSeq([k \in DOMAIN items |-> Append1(d, items[k], t, x)])

IsAccessor(m) == m.f \cap {"ClassGetter", "ClassSetter"} # {}
Accessor(d, m, t, key) == [Named("DefineAccessor", d, t, key, m.s) EXCEPT !.i = IF "ClassSetter" \in m.f THEN 1 ELSE 0]
PropertyCode(d, m, t, x) ==
  LET k == After(m.c[1], t + 1)
  IN  CASE m.k = "Spread" -> Code(m.c[1], t, t + 1, x) \o <<I("CopyProps", d, t, 0)>>
        [] IsAccessor(m) -> <<Load(t, Closure(m.c[1], m.s)), Accessor(d, m, t, NoKey)>>
        [] "Computed" \in m.f -> Code(m.c[1], t, t + 1, x) \o Code(Last(m.c), k, k + 1, x) \o <<I("Put", d, t, k)>>
        [] OTHER -> CodeNamed(m.c[1], t, t + 1, m.s, x) \o <<Named("Put", d, t, NoKey, m.s)>>
ObjectCode(n, d, t, x) == <<I("NewObject", d, 0, 0)>> \o FlattenSeq([k \in DOMAIN n.c |-> PropertyCode(d, n.c[k], t, x)])

\* The function into f and its receiver into r; the registers from t on are free.
CalleeCode(n, f, r, t, x) ==
  IF n.k = "Member" /\ IsSuper(n.c[1])
  THEN LET k == IF Computed(n) THEN t + 1 ELSE NoKey
       IN  SuperCode(t, r) \o KeyCode(n, k, x) \o <<[Named("GetSuper", f, t, k, NameOf(n)) EXCEPT !.i = r]>>
  ELSE IF n.k = "Member"
  THEN LET k == IF Computed(n) THEN After(n.c[1], t) ELSE NoKey
       IN  Code(n.c[1], r, t, x) \o KeyCode(n, k, x) \o <<Named("Get", f, r, k, NameOf(n))>>
  ELSE Code(n, f, t, x) \o <<Load(r, Undefined)>>
AfterCallee(n, t) == IF n.k # "Member" THEN After(n, t) ELSE IF IsSuper(n.c[1]) THEN t ELSE After(n.c[1], t)
\* Spread and many arguments go through an array.
Wide(args, t) == HasSpread(args) \/ Len(args) > DirectArguments \/ t + 2 + Len(args) > Registers
CallCode(n, d, t, x) ==
  LET callee == n.c[1]
      args   == Tail(n.c)
      own    == IsSuper(callee) \/ (callee.k = "Member" /\ IsSuper(callee.c[1]))
      top    == t + 2 + Len(args)
      array  == AfterCallee(callee, t + 2)
  IN  IF IsSuper(callee)
      THEN <<Named("LoadVar", t, 0, 0, "%super%"), I("LoadThis", t + 1, 0, 0)>> \o Each(args, t + 2, top, x) \o <<Counted("Call", d, t, 0, Len(args))>>
      ELSE IF Wide(args, t) /\ ~own
      THEN CalleeCode(callee, t, t + 1, t + 2, x) \o ArrayCode(args, array, array + 1, x) \o <<Counted("CallV", d, t, t + 1, array)>>
      ELSE CalleeCode(callee, t, t + 1, top, x) \o Each(args, t + 2, AfterCallee(callee, top), x) \o <<Counted("Call", d, t, 0, Len(args))>>

\* The call inside new gives it its arguments.
NewCode(n, d, t, x) ==
  LET call   == n.c[1].k = "Call" /\ "Grouped" \notin n.c[1].f
      callee == IF call THEN n.c[1].c[1] ELSE n.c[1]
      args   == IF call THEN Tail(n.c[1].c) ELSE <<>>
      array  == After(callee, t + 1)
      top    == t + 1 + Len(args)
  IN  IF HasSpread(args) \/ Len(args) > DirectArguments \/ t + 1 + Len(args) > Registers
      THEN Code(callee, t, t + 1, x) \o ArrayCode(args, array, array + 1, x) \o <<Counted("ConstructV", d, t, 0, array)>>
      ELSE Code(callee, t, top, x) \o Each(args, t + 1, After(callee, top), x) \o <<Counted("Construct", d, t, 0, Len(args))>>

\* A tag gets the texts, cooked and raw, before the values between them.
TaggedCode(n, d, t, x) ==
  LET tag    == n.c[1]
      values == Tail(n.c)
      top    == t + 3 + Len(values)
      texts  == AfterCallee(tag, top)
      Texts(k, from) == [j \in 1..(Len(values) + 1) |-> Load(from + j - 1, Text(k))]
  IN  CalleeCode(tag, t, t + 1, top, x)
      \o Texts("cooked", texts) \o <<Counted("NewArray", t + 2, texts, 0, Len(values) + 1)>>
      \o Texts("raw", texts + 1) \o <<Counted("NewArray", texts, texts + 1, 0, Len(values) + 1), Named("Put", t + 2, texts, NoKey, "raw")>>
      \o Each(values, t + 3, texts + 1, x) \o <<Counted("Call", d, t, 0, Len(values) + 1)>>

(***************************************************************************)
(* Optional chains: a link that is null or undefined ends the chain. The   *)
(* jump is filled in when the length of the chain is known.                *)
(***************************************************************************)
Guard(n, v, t) == IF "Optional" \notin n.f THEN <<>> ELSE <<Load(t, Null), I("==", t + 1, v, t), I("Short", 0, t + 1, 0)>>
RECURSIVE Link(_, _, _, _)
AfterLink(n, t) == IF n.k \in {"Member", "Call"} THEN t ELSE After(n, t)
LinkCallee(n, f, r, t, x) ==
  IF n.k = "Member" /\ ~IsSuper(n.c[1])
  THEN LET o == AfterLink(n.c[1], t)
           k == IF Computed(n) THEN o ELSE NoKey
       IN  Link(n.c[1], r, t, x) \o Guard(n, r, o) \o KeyCode(n, k, x) \o <<Named("Get", f, r, k, NameOf(n))>>
  ELSE IF n.k = "Member" THEN CalleeCode(n, f, r, t, x) ELSE Link(n, f, t, x) \o <<Load(r, Undefined)>>
AfterLinkCallee(n, t) == IF n.k # "Member" THEN AfterLink(n, t) ELSE IF IsSuper(n.c[1]) THEN t ELSE AfterLink(n.c[1], t)
Link(n, d, t, x) ==
  CASE n.k = "Member" /\ ~IsSuper(n.c[1]) ->
         LET o == AfterLink(n.c[1], t + 1)
             k == IF Computed(n) THEN o ELSE NoKey
         IN  Link(n.c[1], t, t + 1, x) \o Guard(n, t, o) \o KeyCode(n, k, x) \o <<Named("Get", d, t, k, NameOf(n))>>
    [] n.k = "Call" ->
         LET args == Tail(n.c)
             top  == AfterLinkCallee(n.c[1], t + 2)
         IN  LinkCallee(n.c[1], t, t + 1, t + 2, x) \o Guard(n, t, top)
             \o IF Wide(args, top) THEN ArrayCode(args, top, top + 1, x) \o <<Counted("CallV", d, t, t + 1, top)>>
                ELSE <<I("Move", top, t, 0), I("Move", top + 1, t + 1, 0)>> \o Each(args, top + 2, top + 2 + Len(args), x)
                     \o <<Counted("Call", d, top, 0, Len(args))>>
    [] OTHER -> Code(n, d, t, x)
\* A short jump past what is left of the chain and past the jump after it.
ShortInto(chain, k) == Len(chain) - k         \* mutant
ShortTo(chain, k) == Len(chain) - k + 1
ChainCode(n, d, t, x) ==
  LET chain == Link(n.c[1], d, t, x)
  IN  IF \A k \in DOMAIN chain : chain[k].op # "Short" THEN chain
      ELSE [k \in DOMAIN chain |-> IF chain[k].op = "Short" THEN Jump("JumpIfTrue", chain[k].a, ShortTo(chain, k)) ELSE chain[k]]
           \o <<Jump("Jump", 0, 1), Load(d, Undefined)>>

(***************************************************************************)
(* Operators.                                                              *)
(***************************************************************************)
UnaryCode(n, d, t, x) ==
  LET arg == n.c[1]
      p   == Place(arg, t)
  IN  CASE n.s = "delete" /\ arg.k # "Member" -> <<Load(d, Bool(TRUE))>>
        [] n.s = "delete" -> PlaceCode(arg, t, x) \o <<Named("Delete", d, p.o, p.k, NameOf(arg))>>
        [] n.s = "typeof" /\ arg.k = "Identifier" -> <<Named("LoadVarOrUndef", t, 0, 0, arg.s), I("typeof", d, t, 0)>>
        [] n.s = "void" -> Code(arg, t, t + 1, x) \o <<Load(d, Undefined)>>
        [] n.s = "+" -> Code(arg, t, t + 1, x) \o <<Load(After(arg, t + 1), Number(1)), I("*", d, t, After(arg, t + 1))>>
        [] OTHER -> Code(arg, t, t + 1, x) \o <<I(IF n.s = "-" THEN "Neg" ELSE n.s, d, t, 0)>>
IncDec == {"++", "--", "post++", "post--"}
IncDecCode(n, d, t, x) ==
  LET new == After(n.c[1], t + 1)
  IN  Code(n.c[1], t, t + 1, x) \o <<I(IF n.s \in {"++", "post++"} THEN "Inc" ELSE "Dec", new, t, 0)>>
      \o Store(n.c[1], new, new + 1, x) \o <<I("Move", d, IF n.s \in {"++", "--"} THEN new ELSE t, 0)>>
BinaryCode(n, d, t, x) ==
  LET b == After(n.c[1], t + 1) IN Code(n.c[1], t, t + 1, x) \o Code(n.c[2], b, b + 1, x) \o <<I(n.s, d, t, b)>>
LogicalCode(n, d, t, x) ==
  LET first == Code(n.c[1], d, t, x)
      top   == After(n.c[1], t)
      rest  == Code(n.c[2], d, IF n.s = "??" THEN top + 2 ELSE top, x)
  IN  first \o CASE n.s = "&&" -> <<Jump("JumpIfFalse", d, Len(rest))>> \o rest
                  [] n.s = "||" -> <<Jump("JumpIfTrue", d, Len(rest))>> \o rest
                  [] OTHER -> <<Load(top, Null), I("===", top + 1, d, top), Jump("JumpIfTrue", top + 1, 4),
                                Load(top, Undefined), I("===", top + 1, d, top), Jump("JumpIfTrue", top + 1, 1),
                                Jump("Jump", 0, Len(rest))>> \o rest
ConditionalCode(n, d, t, x) ==
  LET then == Code(n.c[2], d, t, x)
      else == Code(n.c[3], d, After(n.c[2], t), x)
  IN  Code(n.c[1], t, t + 1, x) \o <<Jump("JumpIfFalse", t, Len(then) + 1)>> \o then \o <<Jump("Jump", 0, Len(else))>> \o else

\* yield* takes the whole iterable and yields its items.
YieldCode(n, d, t, x) ==
  LET src  == IF n.c = <<>> THEN <<Load(t, Undefined)>> ELSE Code(n.c[1], t, t + 1, x)
      arr  == IF n.c = <<>> THEN t + 1 ELSE After(n.c[1], t + 1)
      idx  == arr + 1
      len  == arr + 2
      cond == arr + 3
  IN  IF n.s # "*" THEN src \o <<I("Yield", d, t, 0)>>
      ELSE src \o <<I("ToIterable", arr, t, 0), Load(idx, Number(0)), I("GetLength", len, arr, 0),
                     I("<", cond, idx, len), Jump("JumpIfFalse", cond, 5), I("Get", arr + 4, arr, idx), I("Yield", arr + 5, arr + 4, 0),
                     Load(arr + 6, Number(1)), I("+", idx, idx, arr + 6), Jump("Jump", 0, -7), Load(d, Undefined)>>

AssignCode(n, d, t, x) ==
  LET target == n.c[1]
      p      == Place(target, t)
      value  == CodeNamed(n.c[2], d, p.top, StaticName(target), x)
  IN  CASE IsPattern(target) -> Code(n.c[2], d, t, x) \o Bind(target, d, After(n.c[2], t), "assign", x)
        [] target.k = "Member" -> PlaceCode(target, t, x) \o value \o <<Write(target, p, d)>>
        [] OTHER -> CodeNamed(n.c[2], d, t, target.s, x) \o Store(target, d, After(n.c[2], t), x)
Current(target, d, t, x) ==
  IF target.k = "Member" THEN PlaceCode(target, t, x) \o <<Read(target, Place(target, t), d)>> ELSE Code(target, d, t, x)
SaveCode(target, d, t, top, x) == IF target.k = "Member" THEN <<Write(target, Place(target, t), d)>> ELSE Store(target, d, top, x)
TopOf(target, t) == IF target.k = "Member" THEN Place(target, t).top ELSE t
LogicalAssigns == {"&&=", "||=", "??="}
LogicalAssignCode(n, d, t, x) ==
  LET top  == TopOf(n.c[1], t)
      save == Code(n.c[2], d, top, x) \o SaveCode(n.c[1], d, t, After(n.c[2], top), x)
  IN  Current(n.c[1], d, t, x)
      \o (CASE n.s = "&&=" -> <<Jump("JumpIfFalse", d, Len(save))>>
            [] n.s = "||=" -> <<Jump("JumpIfTrue", d, Len(save))>>
            [] OTHER -> <<Load(top, Null), I("==", top + 1, d, top), Jump("JumpIfFalse", top + 1, Len(save))>>)
      \o save
\* The operator of an assignment, as its binary one.
OperatorOf(s) ==
  CASE s = "+=" -> "+" [] s = "-=" -> "-" [] s = "*=" -> "*" [] s = "/=" -> "/" [] s = "%=" -> "%" [] s = "**=" -> "**"
    [] s = "&=" -> "&" [] s = "|=" -> "|" [] s = "^=" -> "^" [] s = "<<=" -> "<<" [] s = ">>=" -> ">>" [] OTHER -> ">>>"
CompoundCode(n, d, t, x) ==
  LET top == TopOf(n.c[1], t)
  IN  Current(n.c[1], top, IF n.c[1].k = "Member" THEN t ELSE top + 1, x) \o Code(n.c[2], top + 1, top + 2, x)
      \o <<I(OperatorOf(n.s), d, top, top + 1)>> \o SaveCode(n.c[1], d, t, After(n.c[2], top + 2), x)

(***************************************************************************)
(* Classes. Methods are installed first, then static methods, accessors,   *)
(* static accessors and static fields. A constructor is made of the class. *)
(***************************************************************************)
HasSuper(n) == n.c[1].k # "UndefinedLiteral"
Members(n, static, what) ==
  LET Kind(m) == IF IsAccessor(m) THEN "accessor" ELSE IF "ClassField" \in m.f THEN "field" ELSE "method"
      Is(m)   == Kind(m) = what /\ ("ClassStatic" \in m.f) = static
  IN  SelectSeq(Tail(n.c), LAMBDA m : Is(m) /\ (what # "method" \/ static \/ m.s # "constructor"))
Constructors(n) ==
  SelectSeq(Tail(n.c), LAMBDA m : ~IsAccessor(m) /\ {"ClassField", "ClassStatic"} \cap m.f = {} /\ m.s = "constructor")
MethodName(m) == IF "Computed" \in m.f THEN "" ELSE m.s
\* The value of a member is in v, its key, evaluated after it, in k.
MemberCode(m, target, v, k, op, x) ==
  LET key == IF "Computed" \in m.f THEN k ELSE NoKey
  IN  (IF key = NoKey THEN <<>> ELSE Code(Last(m.c), k, k + 1, x))
      \o <<IF op = "DefineAccessor" THEN Accessor(target, m, v, key) ELSE Named("Put", target, v, key, MethodName(m))>>
ClassCode(n, d, t, x) ==
  LET derived  == HasSuper(n)
      top      == IF derived THEN After(n.c[1], t + 1) + 1 ELSE t
      ctor     == top
      proto    == top + 1
      body     == top + 2
      scope    == derived \/ n.s # ""
      All(static, what, Piece(_)) == LET list == Members(n, static, what) IN FlattenSeq([k \in DOMAIN list |-> Piece(list[k])])
      Install(m, target, op) == <<Load(body, Closure(m.c[1], MethodName(m)))>> \o MemberCode(m, target, body, body + 1, op, x)
      Field(m) == Code(m.c[1], body, body + 1, x) \o MemberCode(m, ctor, body, After(m.c[1], body + 1), "Put", x)
  IN  (IF derived THEN Code(n.c[1], t, t + 1, x) ELSE <<>>)
      \o (IF scope THEN <<I("PushScope", 0, 0, 0)>> ELSE <<>>)
      \o (IF derived THEN <<Named("DefineVar", 0, t, 0, "%super%"), Named("Get", top - 1, t, NoKey, "prototype"),
                            Named("DefineVar", 0, top - 1, 0, "%superproto%")>> ELSE <<>>)
      \o <<Load(ctor, Closure(n, n.s))>>
      \o (IF n.s # "" THEN <<Named("DefineVar", 0, ctor, 0, n.s)>> ELSE <<>>)
      \o <<Named("Get", proto, ctor, NoKey, "prototype")>>
      \o All(FALSE, "method", LAMBDA m : Install(m, proto, "Put")) \o All(TRUE, "method", LAMBDA m : Install(m, ctor, "Put"))
      \o All(FALSE, "accessor", LAMBDA m : Install(m, proto, "DefineAccessor"))
      \o All(TRUE, "accessor", LAMBDA m : Install(m, ctor, "DefineAccessor"))
      \o All(TRUE, "field", Field)
      \o (IF derived THEN <<I("SetProto", proto, t, 0), I("SetProto", ctor, t, 0)>> ELSE <<>>)
      \o <<I("Move", d, ctor, 0)>> \o (IF scope THEN <<I("PopScope", 0, 0, 0)>> ELSE <<>>)

(***************************************************************************)
(* Functions. Simple parameters are bound by the interpreter; patterns and *)
(* defaults are unpacked from a slot, the rest from arguments.             *)
(***************************************************************************)
PrologueCode(params, x) ==
  LET Unpack(p, k) ==
        IF p.k = "Spread"
        THEN <<Named("LoadVar", 1, 0, 0, "arguments")>> \o Slice(0, 1, Cardinality({j \in 1..(k - 1) : params[j].k # "Spread"}), 2)
             \o Bind(p.c[1], 0, 2, "let", x)
        ELSE IF p.k = "Identifier" /\ p.c = <<>> THEN <<>>
        ELSE <<[Named("LoadVar", 0, 0, 0, "%arg%") EXCEPT !.i = k]>> \o Bind(p, 0, 1, "let", x)
  IN  FlattenSeq([k \in DOMAIN params |-> Unpack(params[k], k)])

\* collect_var_binding, collect_vars
RECURSIVE BoundNames(_), VarNames(_)
BoundNames(b) ==
  CASE b.k = "Identifier" -> <<b.s>>
    [] b.k \in {"Assignment", "Spread"} -> BoundNames(b.c[1])
    [] b.k = "ArrayLiteral" -> FlattenSeq([k \in DOMAIN b.c |-> BoundNames(b.c[k])])
    [] b.k = "ObjectLiteral" -> FlattenSeq([k \in DOMAIN b.c |-> BoundNames(b.c[k].c[1])])
    [] OTHER -> <<>>
VarNames(n) ==
  LET Of(c) == IF c.k \in {"FunctionDeclaration", "ArrowFunction", "ClassDeclaration"} THEN <<>>
               ELSE (IF c.k = "VariableDeclaration" /\ c.s = "var" THEN FlattenSeq([k \in DOMAIN c.c |-> BoundNames(c.c[k])]) ELSE <<>>)
                    \o VarNames(c)
  IN  FlattenSeq([k \in DOMAIN n.c |-> Of(n.c[k])])
IsFunction(s) == s.k = "FunctionDeclaration" /\ s.s # ""
DefineFunction(f, kind, t) == <<Load(t, Closure(f, f.s)), Named("DefineVar", kind, t, 0, f.s)>>
HoistCode(body, t) ==
  LET vars == VarNames(body)
  IN  FlattenSeq([k \in DOMAIN vars |-> <<Load(t, Undefined), Named("DefineVar", 2, t, 0, vars[k])>>])
      \o FlattenSeq([k \in DOMAIN body.c |-> IF IsFunction(body.c[k]) THEN DefineFunction(body.c[k], 1, t) ELSE <<>>])

DeclarationCode(n, t, x) ==
  LET var == n.s = "var"
      Declare(b) ==
        CASE b.k = "Assignment" -> Code(b.c[2], t, t + 1, x) \o Bind(b.c[1], t, After(b.c[2], t + 1), IF var THEN "assign" ELSE "let", x)
          [] var /\ b.c = <<>> -> <<>>
          [] OTHER -> (IF b.c = <<>> THEN <<Load(t, Undefined)>> ELSE CodeNamed(b.c[1], t, t + 1, b.s, x))
                      \o <<Named(IF var THEN "StoreVar" ELSE "DefineVar", 0, t, 0, b.s)>>
  IN  FlattenSeq([k \in DOMAIN n.c |-> Declare(n.c[k])])
\* What JsCompiler leaves out of a statement. Functions at the top of a body are hoisted.
StatementCode(s, t, x) ==
  CASE s.k = "VariableDeclaration" -> DeclarationCode(s, t, x)
    [] IsFunction(s) -> <<>>
    [] s.k = "ClassDeclaration" -> Code(s, t, t + 1, x) \o IF s.s = "" THEN <<>> ELSE <<Named("DefineVar", 0, t, 0, s.s)>>
    [] s.k = "Return" -> IF s.c = <<>> THEN <<I("ReturnUndefined", 0, 0, 0)>> ELSE Code(s.c[1], t, t + 1, x) \o <<I("Return", 0, t, 0)>>
    [] s.k = "ExpressionStatement" -> Code(s.c[1], t, t + 1, x)
    [] OTHER -> <<>>
BodyCode(list, t, x) == FlattenSeq([k \in DOMAIN list |-> StatementCode(list[k], t, x)])

FunctionCode(n) ==
  LET x    == [arrow |-> n.k = "ArrowFunction", async |-> "async" \in n.f]
      body == Last(n.c)
  IN  PrologueCode(Front(n.c), x)
      \o (IF body.k = "Block" THEN HoistCode(body, 0) \o BodyCode(body.c, 0, x) ELSE Code(body, 0, 1, x) \o <<I("Return", 0, 0, 0)>>)
      \o <<I("ReturnUndefined", 0, 0, 0)>>

\* Fields come first, or after the statement that is a call of super.
IsSuperCall(s) == s.k = "ExpressionStatement" /\ s.c[1].k = "Call" /\ IsSuper(s.c[1].c[1])
ConstructorCode(n) ==
  LET x      == [arrow |-> FALSE, async |-> FALSE]
      own    == Constructors(n)
      fn     == Last(own).c[1]
      list   == Last(fn.c).c
      supers == {k \in DOMAIN list : IsSuperCall(list[k])}
      Field(f) ==
        LET v == After(f.c[1], 1)
        IN  Code(f.c[1], 0, 1, x) \o <<I("LoadThis", v, 0, 0)>> \o MemberCode(f, v, 0, v + 1, "Put", x)
      fields == LET all == Members(n, FALSE, "field") IN FlattenSeq([k \in DOMAIN all |-> Field(all[k])])
  IN  (IF own = <<>> THEN <<>> ELSE PrologueCode(Front(fn.c), x))
      \o (CASE own = <<>> /\ HasSuper(n) ->
                  <<Named("LoadVar", 0, 0, 0, "%super%"), I("LoadThis", 1, 0, 0), Named("LoadVar", 2, 0, 0, "arguments"),
                    Counted("CallV", 3, 0, 1, 2)>> \o fields
             [] own = <<>> -> fields
             [] HasSuper(n) /\ supers # {} ->
                  HoistCode(Last(fn.c), 0) \o BodyCode(SubSeq(list, 1, Min(supers)), 0, x) \o fields
                  \o BodyCode(SubSeq(list, Min(supers) + 1, Len(list)), 0, x)
             [] HasSuper(n) -> HoistCode(Last(fn.c), 0) \o fields \o BodyCode(list, 0, x)
             [] OTHER -> fields \o HoistCode(Last(fn.c), 0) \o BodyCode(list, 0, x))
      \o <<I("ReturnUndefined", 0, 0, 0)>>

(***************************************************************************)
(* compile_expr                                                            *)
(***************************************************************************)
IdentifierCode(n, d, x) ==
  CASE n.s = "this" -> IF x.arrow THEN <<Named("LoadVar", d, 0, 0, "%this%")>> ELSE <<I("LoadThis", d, 0, 0)>>
    [] n.s = "undefined" -> <<Load(d, Undefined)>>
    [] OTHER -> <<Named("LoadVar", d, 0, 0, n.s)>>
Code(n, d, t, x) ==
  CASE n.k = "Identifier"     -> IdentifierCode(n, d, x)
    [] n.k = "ArrayLiteral"   -> ArrayCode(n.c, d, t, x)
    [] n.k = "ObjectLiteral"  -> ObjectCode(n, d, t, x)
    [] n.k = "Member"         -> PlaceCode(n, t, x) \o <<Read(n, Place(n, t), d)>>
    [] n.k = "Call"           -> CallCode(n, d, t, x)
    [] n.k = "OptionalChain"  -> ChainCode(n, d, t, x)
    [] n.k = "TaggedTemplate" -> TaggedCode(n, d, t, x)
    [] n.k = "New"            -> NewCode(n, d, t, x)
    [] n.k \in {"FunctionDeclaration", "ArrowFunction"} -> <<Load(d, Closure(n, n.s))>>
    [] n.k = "ClassDeclaration" -> ClassCode(n, d, t, x)
    [] n.k = "Unary" /\ n.s \in IncDec -> IncDecCode(n, d, t, x)
    [] n.k = "Unary"          -> UnaryCode(n, d, t, x)
    [] n.k = "Binary"         -> BinaryCode(n, d, t, x)
    [] n.k = "Logical"        -> LogicalCode(n, d, t, x)
    [] n.k = "Assignment"     -> CASE n.s = "=" -> AssignCode(n, d, t, x)
                                   [] n.s \in LogicalAssigns -> LogicalAssignCode(n, d, t, x)
                                   [] OTHER -> CompoundCode(n, d, t, x)
    [] n.k = "Conditional"    -> ConditionalCode(n, d, t, x)
    [] n.k = "Sequence"       -> FlattenSeq([k \in DOMAIN n.c |-> Code(n.c[k], d, t + LeavesOf(SubSeq(n.c, 1, k - 1)), x)])
    [] n.k = "Await" /\ x.async -> Code(n.c[1], t, t + 1, x) \o <<I("Await", d, t, 0)>>
    [] n.k \in {"Await", "Spread"} -> Code(n.c[1], d, t, x)
    [] n.k = "Yield"          -> YieldCode(n, d, t, x)
    [] OTHER                  -> <<Load(d, Const(n))>>

\* Otherwise the program is refused.
Compiles(code) == \A k \in DOMAIN code : \A r \in {code[k].d, code[k].a, code[k].b} : r < Registers

(***************************************************************************)
(* The interpreter's side. What a program does to its world is the log of  *)
(* its effects; made is what it put on closures, prototypes and arrays it  *)
(* made itself, in whatever order; v is the last value. Iterables have two *)
(* items. The names n, u and f hold null, undefined and false.             *)
(***************************************************************************)
IsNullish(v) == v.k \in {"undefined", "null"}
Truthy(v) == ~IsNullish(v) /\ ~(v.k \in {"bool", "number"} /\ v.n = 0)
Held(name, n) == CASE name = "n" -> Null [] name = "u" -> Undefined [] name = "f" -> Bool(FALSE) [] OTHER -> Result(n)
World == [log |-> <<>>, made |-> {}, v |-> Undefined, halt |-> FALSE]
Pure(w, v) == [w EXCEPT !.v = v]
Do(w, op, s, args) ==
  IF w.halt THEN w ELSE [w EXCEPT !.log = Append(@, [op |-> op, s |-> s, c |-> args]), !.v = Held(s, Len(w.log) + 1)]
Fail(w) == [Do(w, "throw", "", <<>>) EXCEPT !.halt = TRUE]
Owner(o) == IF o.k = "closure" THEN [o EXCEPT !.s = ""] ELSE o
Make(w, o, key, v) == IF w.halt THEN w ELSE [w EXCEPT !.made = @ \cup {[o |-> Owner(o), k |-> key, v |-> v]}]
Of(k, n, v) == [Value(k, n, "") EXCEPT !.c = <<v>>]
Scope == Value("scope", 0, "")
IsHidden(name) == name \in {"%this%", "%super%", "%superproto%", "%arg%", "%CopyRest%", "arguments"}

TextOf(key) == IF key.k = "text" THEN key.s ELSE ""
ReadVar(w, name, n) == IF IsHidden(name) THEN Pure(w, Captured(name, n)) ELSE Do(w, "LoadVar", name, <<>>)
GetOf(w, o, key) ==
  CASE IsNullish(o) -> Fail(w)
    [] o.k = "iterable" /\ key.k = "number" -> Pure(w, IF key.n < 2 THEN Of("item", key.n, o) ELSE Undefined)
    [] key = Text("slice") -> Pure(w, Of("slice", 0, o))
    [] o.k = "closure" /\ key = Text("prototype") -> Pure(w, Of("prototype", 0, Owner(o)))
    [] OTHER -> Do(w, "Get", TextOf(key), <<o, key>>)
PutOf(w, o, key, v) ==
  IF IsNullish(o) THEN Fail(w)
  ELSE IF o.k \in {"closure", "prototype", "array"} THEN Make(w, o, key, v) ELSE Do(w, "Put", "", <<o, key, v>>)
DefineOf(w, o, key, setter, v) ==
  IF o.k \in {"closure", "prototype"} THEN Make(w, o, Of("accessor", setter, key), v) ELSE Do(w, "Define", "", <<o, Of("accessor", setter, key), v>>)
CallOf(w, f, this, args) ==
  IF f.k = "slice" THEN Pure(w, Of("rest", args[1].n, this))
  ELSE IF f.k \in {"undefined", "null", "bool", "number", "text"} THEN Fail(w) ELSE Do(w, "Call", "", <<f, this>> \o args)
ConstructOf(w, f, args) ==
  IF f.k \in {"undefined", "null", "bool", "number", "text"} THEN Fail(w) ELSE Do(w, "Construct", "", <<f>> \o args)
IterateOf(w, v) == LET done == Do(w, "Iterate", "", <<v>>) IN Pure(done, Of("iterable", 0, v))
\* Operators call valueOf and toString; a comparison with null or undefined does not.
Unaries == {"Neg", "~", "Inc", "Dec"}
Apply(w, op, args) ==
  LET a == args[1]  b == Last(args)
  IN  CASE op \in {"===", "=="} /\ (IsNullish(a) \/ IsNullish(b)) ->
             Pure(w, Bool(IF op = "===" THEN a = b ELSE IsNullish(a) /\ IsNullish(b)))
        [] op = "<" /\ a.k = "number" /\ b.k = "number" -> Pure(w, Bool(a.n < b.n))
        [] op = "+" /\ a.k = "number" /\ b.k = "number" -> Pure(w, Number(a.n + b.n))
        [] op = "typeof" -> Pure(w, Of("typeof", 0, a))
        [] op = "!" -> Pure(w, Bool(~Truthy(a)))
        [] OTHER -> Do(w, op, "", args)

Reg(w, r) == w.regs[r]
Set(w, r, v) == [w EXCEPT !.regs[r] = v]
Into(w, r) == Set(w, r, w.v)
KeyIn(w, c) == IF c.b = NoKey THEN Text(c.s) ELSE Reg(w, c.b)
Block(w, from, n) == [j \in 1..n |-> Reg(w, from + j - 1)]
\* spread_args
Arguments(v) == IF v.k = "array" THEN v.c ELSE <<Of("spread", 0, v)>>
Rename(v, name) == IF v.k = "closure" /\ v.s = "" THEN [v EXCEPT !.s = name] ELSE v

Variables(w, c) ==
  CASE c.op = "LoadVar"        -> Into(ReadVar(w, c.s, c.i), c.d)
    [] c.op = "LoadVarOrUndef" -> Into(Do(w, "LoadVarOrUndef", c.s, <<>>), c.d)
    [] c.op = "StoreVar"       -> Do(w, "StoreVar", c.s, <<Reg(w, c.a)>>)
    [] c.d = 2 \/ w.depth > 0  -> Make(w, Scope, Text(c.s), Reg(w, c.a))
    [] OTHER                   -> Do(w, "DefineVar", c.s, <<Reg(w, c.a)>>)
Properties(w, c) ==
  CASE c.op = "Get"      -> Into(GetOf(w, Reg(w, c.a), KeyIn(w, c)), c.d)
    [] c.op = "GetSuper" -> Into(Do(w, "GetSuper", TextOf(KeyIn(w, c)), <<Reg(w, c.a), KeyIn(w, c), Reg(w, c.i)>>), c.d)
    [] c.op = "Put"      -> PutOf(w, Reg(w, c.d), KeyIn(w, c), Reg(w, c.a))
    [] c.op = "PutSuper" -> Do(w, "PutSuper", "", <<Reg(w, c.d), KeyIn(w, c), Reg(w, c.i), Reg(w, c.a)>>)
    [] c.op = "Delete"   -> Into(Do(w, "Delete", "", <<Reg(w, c.a), KeyIn(w, c)>>), c.d)
    [] c.op = "SetProto" -> Make(w, Reg(w, c.d), Text("[[Prototype]]"), Reg(w, c.a))
    [] OTHER             -> DefineOf(w, Reg(w, c.d), KeyIn(w, c), c.i, Reg(w, c.a))
Calls(w, c) ==
  CASE c.op = "Call"       -> Into(CallOf(w, Reg(w, c.a), Reg(w, c.a + 1), Block(w, c.a + 2, c.i)), c.d)
    [] c.op = "CallV"      -> Into(CallOf(w, Reg(w, c.a), Reg(w, c.b), Arguments(Reg(w, c.i))), c.d)
    [] c.op = "Construct"  -> Into(ConstructOf(w, Reg(w, c.a), Block(w, c.a + 1, c.i)), c.d)
    [] OTHER               -> Into(ConstructOf(w, Reg(w, c.a), Arguments(Reg(w, c.i))), c.d)
Appended(w, c) ==
  LET done == CASE c.i = 0 -> Pure(w, Reg(w, c.a)) [] c.i = 1 -> IterateOf(w, Reg(w, c.a)) [] OTHER -> Pure(w, Value("hole", 0, ""))
      item == IF c.i = 1 THEN Of("spread", 0, done.v) ELSE done.v
  IN  Set(done, c.d, Array(Append(Reg(w, c.d).c, item)))
Builds(w, c) ==
  CASE c.op = "NewObject"   -> Into(Do(w, "NewObject", "", <<>>), c.d)
    [] c.op = "NewArray"    -> Set(w, c.d, Array(Block(w, c.a, c.i)))
    [] c.op = "ArrayAppend" -> Appended(w, c)
    [] c.op = "CopyProps"   -> Do(w, "CopyProps", "", <<Reg(w, c.d), Reg(w, c.a)>>)
    [] c.op = "ToIterable"  -> Into(IterateOf(w, Reg(w, c.a)), c.d)
    [] c.op = "GetLength"   -> Set(w, c.d, Number(2))
    [] OTHER                -> Set(w, c.d, Rename(Reg(w, c.d), c.s))
Steps(w, c) ==
  CASE c.op = "Load"        -> Set(w, c.d, c.v)
    [] c.op = "Move"        -> Set(w, c.d, Reg(w, c.a))
    [] c.op = "LoadThis"    -> Set(w, c.d, This)
    [] c.op \in {"LoadVar", "LoadVarOrUndef", "StoreVar", "DefineVar"} -> Variables(w, c)
    [] c.op \in {"Get", "GetSuper", "Put", "PutSuper", "Delete", "SetProto", "DefineAccessor"} -> Properties(w, c)
    [] c.op \in {"Call", "CallV", "Construct", "ConstructV"} -> Calls(w, c)
    [] c.op \in {"NewObject", "NewArray", "ArrayAppend", "CopyProps", "ToIterable", "GetLength", "SetFnName"} -> Builds(w, c)
    [] c.op \in {"Await", "Yield"} -> Into(Do(w, c.op, "", <<Reg(w, c.a)>>), c.d)
    [] c.op = "PushScope"   -> [w EXCEPT !.depth = @ + 1]
    [] c.op = "PopScope"    -> [w EXCEPT !.depth = @ - 1]
    [] c.op = "Return"      -> [w EXCEPT !.v = Reg(w, c.a), !.done = TRUE]
    [] c.op = "ReturnUndefined" -> [w EXCEPT !.v = Undefined, !.done = TRUE]
    [] c.op = "Jump"        -> [w EXCEPT !.pc = @ + c.i]
    [] c.op = "JumpIfTrue"  -> IF Truthy(Reg(w, c.a)) THEN [w EXCEPT !.pc = @ + c.i] ELSE w
    [] c.op = "JumpIfFalse" -> IF Truthy(Reg(w, c.a)) THEN w ELSE [w EXCEPT !.pc = @ + c.i]
    [] c.op \in Unaries \cup {"typeof", "!"} -> Into(Apply(w, c.op, <<Reg(w, c.a)>>), c.d)
    [] OTHER                -> Into(Apply(w, c.op, <<Reg(w, c.a), Reg(w, c.b)>>), c.d)
RECURSIVE RunFrom(_, _)
RunFrom(code, w) ==
  IF w.halt \/ w.done \/ w.pc > Len(code) THEN w ELSE RunFrom(code, Steps([w EXCEPT !.pc = @ + 1], code[w.pc]))
Run(code) ==
  RunFrom(code, World @@ [regs |-> [r \in 0..(Registers - 1) |-> Value("none", 0, "")], pc |-> 1, depth |-> 0, done |-> FALSE])
=============================================================================
