------------------------------- MODULE MCWasm -------------------------------
(***************************************************************************)
(* WasmMachine on every small module, program and instruction. A module    *)
(* grows by an item at a time, a program by a word at a time.              *)
(***************************************************************************)
EXTENDS WasmMachine

CONSTANTS MaxEntries,    \* items of a module
          MaxWords       \* words of a program

VARIABLE subject

(***************************************************************************)
(* Modules: items, each of a section and with the bytes it is written as.  *)
(***************************************************************************)
WriteOffset(o) == <<o.op, o.n, "end">>
WriteList(s) == <<Len(s)>> \o s
WriteLimits(min, max) == IF max = <<>> THEN <<0, min>> ELSE <<1, min, max[1]>>
At(op, n) == [op |-> op, n |-> n]

TypeItem(p, r) == [sec |-> 1, octets |-> <<"func">> \o WriteList(p) \o WriteList(r), meant |-> [params |-> p, results |-> r]]
MemoryItem(min, max) == [sec |-> 5, octets |-> WriteLimits(min, max), meant |-> [min |-> min, max |-> max]]
GlobalItem(n) == [sec |-> 6, octets |-> <<"i32", 0, "const", n, "end">>, meant |-> I32(n)]
ExportItem(name, f) == [sec |-> 7, octets |-> <<name, "func", f>>, meant |-> [name |-> name, kind |-> "func", index |-> f]]
StartItem(f) == [sec |-> 8, octets |-> <<f>>, meant |-> f]
CodeBody == <<"const", "i32", 1, "drop", "end">>
CodeItem(count) ==
  LET body == (IF count = 0 THEN <<0>> ELSE <<1, count, "i64">>) \o CodeBody
  IN  [sec |-> 10, octets |-> <<Len(body)>> \o body, meant |-> [k \in 1..count |-> "i64"]]
ElementItem(flags, o, funcs) ==
  LET ref(f) == IF f = 0 THEN <<"ref.null", "funcref", "end">> ELSE <<"ref.func", f - 1, "end">>
      where  == CASE flags \in {0, 4} -> WriteOffset(o) [] flags \in {2, 6} -> <<0>> \o WriteOffset(o) [] OTHER -> <<>>
      kind   == CASE flags \in {1, 2, 3} -> <<0>> [] flags \in {5, 6, 7} -> <<"funcref">> [] OTHER -> <<>>
      list   == IF flags < 4 THEN WriteList([k \in DOMAIN funcs |-> funcs[k] - 1])
                ELSE <<Len(funcs)>> \o FlattenSeq([k \in DOMAIN funcs |-> ref(funcs[k])])
  IN  [sec |-> 9, octets |-> <<flags>> \o where \o kind \o list,
       meant |-> [mode |-> IF flags % 2 = 0 THEN "active" ELSE IF flags \in {1, 5} THEN "passive" ELSE "declarative", table |-> 0,
              funcs |-> funcs, offset |-> IF flags % 2 = 0 THEN o ELSE At("const", 0)]]
DataItem(flags, o, bytes) ==
  [sec |-> 11, octets |-> (CASE flags = 0 -> <<0>> \o WriteOffset(o) [] flags = 1 -> <<1>> [] flags = 2 -> <<2, 0>> \o WriteOffset(o)) \o WriteList(bytes),
   meant |-> [passive |-> flags = 1, memory |-> 0, offset |-> IF flags = 1 THEN At("const", 0) ELSE o, bytes |-> bytes]]
ImportItem(kind) ==
  [sec |-> 2, octets |-> <<"env", kind>> \o (CASE kind = 0 -> <<0, 0>> [] kind = 1 -> <<1, "funcref">> \o WriteLimits(2, <<>>) [] kind = 2 -> <<2>> \o WriteLimits(1, <<3>>)),
   meant |-> kind]
TableItem == [sec |-> 4, octets |-> <<"funcref">> \o WriteLimits(3, <<3>>), meant |-> [min |-> 3, max |-> <<3>>, type |-> "funcref"]]
FunctionItem == [sec |-> 3, octets |-> <<0>>, meant |-> 0]

Offsets == {At("const", 0), At("const", 2), At("global.get", 0)}
Items ==
  {TypeItem(<<>>, <<>>), TypeItem(<<"i32", "i64">>, <<"i32">>), MemoryItem(1, <<>>), MemoryItem(1, <<2>>), GlobalItem(1), ExportItem("a", 0),
   StartItem(0), CodeItem(0), CodeItem(2), ImportItem(0), ImportItem(1), ImportItem(2), TableItem, FunctionItem}
  \cup {ElementItem(f, o, <<1>>) : f \in {0, 2, 4, 6}, o \in Offsets} \cup {ElementItem(f, At("const", 0), <<1>>) : f \in {1, 3}}
  \cup {ElementItem(f, At("const", 2), <<0, 1>>) : f \in {4, 5, 7}}
  \cup {DataItem(f, o, <<1, 0, 1>>) : f \in {0, 2}, o \in Offsets} \cup {DataItem(1, At("const", 0), <<1>>)}

\* The items of a section keep their order; a module has one memory and one start.
ItemsOf(items, id) == SelectSeq(items, LAMBDA it : it.sec = id)
Counts(items, id) == Len(ItemsOf(items, id))
Imported(items, kind) == Len(SelectSeq(items, LAMBDA it : it.sec = 2 /\ it.meant = kind))
CompleteModule(items) ==
  /\ Counts(items, 10) = Counts(items, 3)
  /\ Counts(items, 5) + Imported(items, 2) <= 1
  /\ Counts(items, 8) <= 1
  /\ Counts(items, 8) + Counts(items, 3) + Imported(items, 0) > 0 => Counts(items, 1) > 0
  /\ Counts(items, 8) > 0 => Counts(items, 3) + Imported(items, 0) > 0
SectionBytes(items, id) ==
  LET s == ItemsOf(items, id)
      body == (IF id = 8 THEN <<>> ELSE <<Len(s)>>) \o FlattenSeq([k \in DOMAIN s |-> s[k].octets])
  IN  IF s = <<>> THEN <<>> ELSE <<id, Len(body)>> \o body
WrittenModule(items) == FlattenSeq([id \in 1..11 |-> SectionBytes(items, id)])

Meant(items, id) == LET s == ItemsOf(items, id) IN [k \in DOMAIN s |-> s[k].meant]
MeantModule(items) ==
  [types |-> Meant(items, 1), exports |-> Meant(items, 7), globals |-> Meant(items, 6), elements |-> Meant(items, 9),
   data |-> Meant(items, 11), start |-> Meant(items, 8),
   funcs |-> [k \in 1..Imported(items, 0) |-> [type |-> 0, import |-> TRUE, locals |-> <<>>, code |-> <<>>]]
             \o [k \in 1..Counts(items, 3) |-> [type |-> 0, import |-> FALSE, locals |-> Meant(items, 10)[k], code |-> CodeBody]],
   memory |-> Meant(items, 5) \o [k \in 1..Imported(items, 2) |-> [min |-> 1, max |-> <<3>>]],
   tables |-> [k \in 1..Imported(items, 1) |-> [min |-> 2, max |-> <<>>, type |-> "funcref"]] \o Meant(items, 4)]

\* An instance has each byte of the last active segment over it, and comes up only if all of them fit.
StartOf(m, o) == IF o.op = "const" THEN o.n ELSE IF o.n + 1 \in DOMAIN m.globals THEN m.globals[o.n + 1].v ELSE 1000
Active(m) == {k \in DOMAIN m.data : ~m.data[k].passive}
Over(m, byte) == {k \in Active(m) : byte >= StartOf(m, m.data[k].offset) /\ byte < StartOf(m, m.data[k].offset) + Len(m.data[k].bytes)}
ActiveElements(m) == {k \in DOMAIN m.elements : m.elements[k].mode = "active"}
Room(m) == IF m.memory = <<>> THEN -1 ELSE m.memory[1].min * PageSize
ComesUp(m) ==
  /\ \A k \in Active(m) : StartOf(m, m.data[k].offset) + Len(m.data[k].bytes) <= Room(m)
  /\ \A k \in ActiveElements(m) :
       /\ m.tables # <<>>
       /\ StartOf(m, m.elements[k].offset) + Len(m.elements[k].funcs) <= m.tables[1].min
       /\ \A j \in DOMAIN m.elements[k].funcs : m.elements[k].funcs[j] <= Len(m.funcs)
Placed(m) ==
  LET r == Instantiate(m, 1)
  IN  /\ r.ok <=> ComesUp(m)
      /\ r.ok => \A b \in 0..(Room(m) - 1) :
                   r.i.memory[b + 1] = IF Over(m, b) = {} THEN 0
                                       ELSE LET k == Max(Over(m, b)) IN m.data[k].bytes[b - StartOf(m, m.data[k].offset) + 1]

(***************************************************************************)
(* LEB128: a number in groups, lowest first.                               *)
(***************************************************************************)
RECURSIVE UlebBytes(_)
UlebBytes(n) == IF n < 2^Group THEN <<n>> ELSE <<2^Group + (n % 2^Group)>> \o UlebBytes(n \div 2^Group)
RECURSIVE SlebBytes(_)
SlebBytes(n) ==
  LET half == 2^(Group - 1)
  IN  IF n \in (-half)..(half - 1) THEN <<n % 2^Group>> ELSE <<2^Group + (n % 2^Group)>> \o SlebBytes(n \div 2^Group)
LebsRead ==
  /\ \A n \in 0..(2^Wide - 1) : Uleb(UlebBytes(n)) = NumberAt(n, Len(UlebBytes(n)) + 1)
  /\ \A n \in (-(2^(Wide - 1)))..(2^(Wide - 1) - 1) : Sleb(SlebBytes(n)) = NumberAt(Unsigned(n, Wide), Len(SlebBytes(n)) + 1)

(***************************************************************************)
(* Programs. Statements leave the operand stack as it was; local 0 is the  *)
(* argument. A loop first halves local 0 and leaves when it is 0.          *)
(***************************************************************************)
Leaf(k, n) == [k |-> k, n |-> n]
Nested(k, body, other) == [k |-> k, body |-> body, other |-> other]
Opening == {"block", "loop", "if"}
Leaves(depth) ==
  {Leaf(k, n) : k \in {"br", "br_if"}, n \in 0..depth} \cup {Leaf(k, 0) : k \in {"mark", "br_table", "return", "unreachable", "again", "indirect"}}
Ending(word) == word \in [k : {"br"}, n : 0..9] \cup {Leaf(k, 0) : k \in {"br_table", "return", "unreachable"}}

\* Words are leaves, openings, "else" and "end"; what is open at the end is closed.
RECURSIVE ListFrom(_)
StatementFrom(words) ==
  IF Head(words) \notin [k : Opening] THEN [s |-> Head(words), rest |-> Tail(words)]
  ELSE LET body  == ListFrom(Tail(words))
           twice == body.rest # <<>> /\ Head(body.rest).k = "else"
           other == IF twice THEN ListFrom(Tail(body.rest)) ELSE [list |-> <<>>, rest |-> body.rest]
       IN  [s |-> Nested(Head(words).k, body.list, IF twice THEN <<other.list>> ELSE <<>>), rest |-> IF other.rest = <<>> THEN <<>> ELSE Tail(other.rest)]
ListFrom(words) ==
  IF words = <<>> THEN [list |-> <<>>, rest |-> <<>>]
  ELSE IF Head(words).k \in {"else", "end"} THEN [list |-> <<>>, rest |-> words]
  ELSE LET s == StatementFrom(words)
           r == ListFrom(s.rest)
       IN  [list |-> <<s.s>> \o r.list, rest |-> r.rest]
Program(words) == ListFrom(words).list

\* Host function 0, the program as function 1, function 2 of another type.
Argument == <<"local.get", 0>>
Constant(n) == <<"const", "i32", n>>
Halve == Argument \o Constant(1) \o <<"shr_u", "i32">>
RECURSIVE CodeOfList(_, _)
\* depth: the labels around, of which the outermost is the function and takes a value.
CodeOf(s, depth) ==
  CASE s.k = "mark" -> Argument \o <<"call", 0, "drop">>
    [] s.k = "br" -> (IF s.n = depth THEN Constant(5) ELSE <<>>) \o <<"br", s.n>>
    [] s.k = "br_if" -> IF s.n = depth THEN Constant(5) \o Argument \o <<"br_if", s.n, "drop">> ELSE Argument \o <<"br_if", s.n>>
    [] s.k = "br_table" -> IF depth = 0 THEN Constant(6) \o Argument \o <<"br_table", 1, 0, 0>>
                           ELSE Argument \o <<"br_table", 2, 0, depth - 1, 0>>
    [] s.k = "return" -> Constant(7) \o <<"return">>
    [] s.k = "unreachable" -> <<"unreachable">>
    [] s.k = "again" -> Argument \o <<"if", "void">> \o Halve \o <<"call", 1, "drop", "end">>
    [] s.k = "indirect" -> Halve \o Argument \o <<"call_indirect", 0, 0, "drop">>
    [] s.k = "block" -> <<"block", "void">> \o CodeOfList(s.body, depth + 1) \o <<"end">>
    [] s.k = "loop" -> <<"loop", "void">> \o Halve \o <<"local.tee", 0, "eqz", "i32", "if", "void">> \o Constant(8) \o <<"return", "end">>
                       \o CodeOfList(s.body, depth + 1) \o <<"end">>
    [] s.k = "if" -> Argument \o <<"if", "void">> \o CodeOfList(s.body, depth + 1)
                     \o (IF s.other = <<>> THEN <<>> ELSE <<"else">> \o CodeOfList(s.other[1], depth + 1)) \o <<"end">>
CodeOfList(list, depth) == FlattenSeq([k \in DOMAIN list |-> CodeOf(list[k], depth)])

ModuleOf(code) ==
  [NoModule EXCEPT !.types = <<[params |-> <<"i32">>, results |-> <<"i32">>], [params |-> <<>>, results |-> <<>>]>>,
                   !.funcs = <<Func(0, TRUE), [Func(0, FALSE) EXCEPT !.code = code], [Func(1, FALSE) EXCEPT !.code = <<"end">>]>>,
                   !.tables = <<[min |-> 4, max |-> <<>>, type |-> "funcref"]>>,
                   !.elements = <<[mode |-> "active", table |-> 0, funcs |-> <<1, 3, 2>>, offset |-> At("const", 0)]>>]
ProgramCode(program) == CodeOfList(program, 0) \o Argument \o <<"end">>
\* The table: the host, function 2, the program, nothing.
Done(program, arg) == Invoke(Instantiate(ModuleOf(ProgramCode(program)), 1).i, 1, <<I32(arg)>>)

(***************************************************************************)
(* What a program should do: local 0, the calls of the host and how it     *)
(* went on; a branch counts the labels of blocks, loops, ifs and the       *)
(* function. "beyond" marks a branch to an if, which the code gets wrong.  *)
(***************************************************************************)
Going(e) == e.out = "next"
RECURSIVE DoList(_, _, _)
RECURSIVE DoAll(_, _, _)
\* labels: the statements around, the innermost first.
Branch(e, n, value, labels) ==
  IF n = Len(labels) THEN [e EXCEPT !.out = "return", !.v = value]
  ELSE IF labels[n + 1] = "if" THEN [e EXCEPT !.out = "beyond"] ELSE [e EXCEPT !.out = "br", !.v = n]
\* The program called again with the argument n: its calls and its failure are the caller's.
Called2(e, n, all) ==
  LET f == DoAll([e EXCEPT !.x = n], all, <<>>)
  IN  [e EXCEPT !.log = f.log, !.out = IF f.out \in {"trap", "beyond"} THEN f.out ELSE "next"]
AfterBody(e, k, body, labels, all) ==
  IF e.out # "br" THEN e
  ELSE IF e.v > 0 THEN [e EXCEPT !.v = @ - 1]
  ELSE [e EXCEPT !.out = IF k = "loop" THEN "repeat" ELSE "next"]
RECURSIVE Loop(_, _, _, _)
Loop(e, body, labels, all) ==
  LET x == e.x \div 2
      r == AfterBody(DoList([e EXCEPT !.x = x, !.out = "next"], body, [labels |-> <<"loop">> \o labels, all |-> all]), "loop", body, labels, all)
  IN  IF x = 0 THEN [e EXCEPT !.x = 0, !.out = "return", !.v = 8]
      ELSE IF r.out = "repeat" THEN Loop(r, body, labels, all) ELSE r
DoOne(e, s, c) ==
  LET labels == c.labels
      all == c.all
      Within(k, list) == AfterBody(DoList(e, list, [c EXCEPT !.labels = <<k>> \o labels]), k, list, labels, all)
  IN  CASE s.k = "mark" -> [e EXCEPT !.log = Append(@, e.x)]
        [] s.k = "br" -> Branch(e, s.n, 5, labels)
        [] s.k = "br_if" -> IF e.x # 0 THEN Branch(e, s.n, 5, labels) ELSE e
        [] s.k = "br_table" -> Branch(e, IF labels # <<>> /\ e.x = 1 THEN Len(labels) - 1 ELSE 0, 6, labels)
        [] s.k = "return" -> [e EXCEPT !.out = "return", !.v = 7]
        [] s.k = "unreachable" -> [e EXCEPT !.out = "trap"]
        [] s.k = "again" -> IF e.x = 0 THEN e ELSE Called2(e, e.x \div 2, all)
        [] s.k = "indirect" -> IF e.x = 0 THEN [e EXCEPT !.log = Append(@, 0)]
                               ELSE IF e.x = 2 THEN Called2(e, 1, all) ELSE [e EXCEPT !.out = "trap"]
        [] s.k = "block" -> Within("block", s.body)
        [] s.k = "if" -> IF e.x # 0 THEN Within("if", s.body) ELSE IF s.other = <<>> THEN e ELSE Within("if", s.other[1])
        [] s.k = "loop" -> Loop(e, s.body, labels, all)
DoList(e, list, c) == IF list = <<>> \/ ~Going(e) THEN e ELSE DoList(DoOne(e, Head(list), c), Tail(list), c)
DoAll(e, all, labels) == DoList(e, all, [labels |-> labels, all |-> all])
Should(program, arg) == DoAll([x |-> arg, log |-> <<>>, out |-> "next", v |-> 0], program, <<>>)

RunsAsDefined(program, arg) ==
  LET e == Should(program, arg)
      r == Done(program, arg)
  IN  e.out # "beyond" =>
        /\ r.failed <=> e.out = "trap"
        /\ [k \in DOMAIN r.i.called |-> r.i.called[k][2][1].v] = e.log
        /\ ~r.failed => r.results = <<I32(IF e.out = "return" THEN e.v ELSE e.x)>>

(***************************************************************************)
(* Instructions: what their results should be, by bits and by orders.      *)
(***************************************************************************)
Bit(n, i) == (n \div 2^i) % 2
ByBits(r, w, B(_)) == r \in 0..(2^w - 1) /\ \A i \in 0..(w - 1) : Bit(r, i) = B(i)
Low(i, n) == IF i < n THEN i ELSE n
Absolute(n) == IF n < 0 THEN -n ELSE n
\* r is what is left of a after q times b: nearer to zero than b, on a's side.
Left(a, b, r) == Absolute(r) < Absolute(b) /\ (r = 0 \/ (r < 0) = (a < 0)) /\ (a - r) % Absolute(b) = 0
InRange(n, w) == n >= -(2^(w - 1)) /\ n < 2^(w - 1)
UnaryIs(op, a, w, r) ==
  CASE op = "eqz" -> r = (IF \E i \in 0..(w - 1) : Bit(a, i) = 1 THEN 0 ELSE 1)
    [] op = "clz" -> a < 2^(w - r) /\ (a # 0 => a >= 2^(w - r - 1))
    [] op = "ctz" -> a % 2^r = 0 /\ (IF a = 0 THEN r = w ELSE Bit(a, r) = 1)
    [] op = "popcnt" -> r = FoldLeftDomain(LAMBDA n, i : n + Bit(a, i - 1), 0, [i \in 1..w |-> i])
    [] op = "extend8" -> ByBits(r, w, LAMBDA i : Bit(a, Low(i, ByteBits - 1)))
    [] op = "extend16" -> ByBits(r, w, LAMBDA i : Bit(a, Low(i, 2 * ByteBits - 1)))
    [] op = "extend32" -> ByBits(r, w, LAMBDA i : Bit(a, Low(i, 4 * ByteBits - 1)))
BinaryIs(op, a, b, w, r) ==
  LET s == Signed(a, w)
      t == Signed(b, w)
      k == b % w
  IN  CASE op = "add" -> r = (s + t) % 2^w [] op = "sub" -> r = (s - t) % 2^w [] op = "mul" -> r = (s * t) % 2^w
        [] op = "div_s" -> IF b = 0 \/ (s = -(2^(w - 1)) /\ t = -1) THEN r = Trap ELSE r # Trap /\ Left(s, t, s - t * Signed(r, w))
        [] op = "div_u" -> IF b = 0 THEN r = Trap ELSE r # Trap /\ Left(a, b, a - b * r)
        [] op = "rem_s" -> IF b = 0 THEN r = Trap ELSE r # Trap /\ Left(s, t, Signed(r, w))
        [] op = "rem_u" -> IF b = 0 THEN r = Trap ELSE r # Trap /\ Left(a, b, r)
        [] op = "and" -> ByBits(r, w, LAMBDA i : Bit(a, i) * Bit(b, i))
        [] op = "or"  -> ByBits(r, w, LAMBDA i : Low(1, Bit(a, i) + Bit(b, i)))
        [] op = "xor" -> ByBits(r, w, LAMBDA i : (Bit(a, i) + Bit(b, i)) % 2)
        [] op = "shl" -> ByBits(r, w, LAMBDA i : IF i < k THEN 0 ELSE Bit(a, i - k))
        [] op = "shr_s" -> ByBits(r, w, LAMBDA i : Bit(a, Low(i + k, w - 1)))
        [] op = "shr_u" -> ByBits(r, w, LAMBDA i : IF i + k < w THEN Bit(a, i + k) ELSE 0)
        [] op = "rotl" -> ByBits(r, w, LAMBDA i : Bit(a, (i - k) % w))
        [] op = "rotr" -> ByBits(r, w, LAMBDA i : Bit(a, (i + k) % w))
        [] op \in {"eq", "ne"} -> r = Flag((a = b) = (op = "eq"))
        [] op \in {"lt_s", "lt_u", "gt_s", "gt_u"} ->
             r = Flag(LET lo == IF op \in {"lt_s", "lt_u"} THEN a ELSE b
                          hi == IF op \in {"lt_s", "lt_u"} THEN b ELSE a
                      IN  IF op \in {"lt_s", "gt_s"} /\ Bit(lo, w - 1) # Bit(hi, w - 1) THEN Bit(lo, w - 1) = 1 ELSE lo < hi)
        [] op \in {"le_s", "le_u", "ge_s", "ge_u"} ->
             r = Flag(LET lo == IF op \in {"le_s", "le_u"} THEN a ELSE b
                          hi == IF op \in {"le_s", "le_u"} THEN b ELSE a
                      IN  IF op \in {"le_s", "ge_s"} /\ Bit(lo, w - 1) # Bit(hi, w - 1) THEN Bit(lo, w - 1) = 1 ELSE lo <= hi)

\* Floats in the order they have with -0 below 0.
Before(a, b) == IF Number(a) = Number(b) THEN a.neg /\ ~b.neg ELSE Number(a) < Number(b)
FloatIs(op, a, b, r) ==
  LET nan == IsNan(a) \/ IsNan(b)
      v   == r.v
      twice == Number(v) - Number(a)
  IN  CASE op = "min" -> IF nan THEN IsNan(v) ELSE v \in {a, b} /\ ~Before(a, v) /\ ~Before(b, v)
        [] op = "max" -> IF nan THEN IsNan(v) ELSE v \in {a, b} /\ ~Before(v, a) /\ ~Before(v, b)
        [] op = "copysign" -> v.size = a.size /\ v.neg = b.neg
        [] op = "ne" -> v = Flag(nan \/ (a.size + b.size > 0 /\ (Before(a, b) \/ Before(b, a))))
        [] op \in {"eq", "lt", "le", "gt", "ge"} ->
             v = Flag(~nan /\ (CASE op = "eq" -> Number(a) = Number(b) [] op = "lt" -> Number(a) < Number(b) [] op = "le" -> Number(a) <= Number(b)
                                 [] op = "gt" -> Number(a) > Number(b) [] op = "ge" -> Number(a) >= Number(b)))
        [] op = "abs" -> v = Float(FALSE, a.size)
        [] op = "neg" -> v = Float(~a.neg, a.size)
        [] OTHER -> IF a.size >= Inf THEN v = a
                    ELSE /\ v.neg = a.neg /\ v.size % 2 = 0
                         /\ CASE op = "ceil" -> twice \in {0, 1} [] op = "floor" -> twice \in {0, -1}
                              [] op = "trunc" -> v.size \in {a.size, a.size - 1}
                              [] op = "nearest" -> twice \in {-1, 0, 1} /\ (twice # 0 => v.size % 4 = 0)
Sizes == {0, 1, 2, 3, 4, 5, 14, 15, 16, 30, 31, 32, Inf, NaN}
Floats == {Float(neg, size) : neg \in BOOLEAN, size \in Sizes}
Integers64 == {0, 1, 2, 3, 7, 127, 128, 129, 254, 255}
IntsOf(t) == IF t = "i32" THEN 0..15 ELSE Integers64

\* The function that does op on its arguments; the memory holds 1 0 1 1 0 0 0 1 0 1 1 1.
Cells == <<1, 0, 1, 1, 0, 0, 0, 1, 0, 1, 1, 1>>
Single(code, params, result) ==
  LET m == [NoModule EXCEPT !.types = <<[params |-> params, results |-> <<result>>]>>, !.funcs = <<[Func(0, FALSE) EXCEPT !.code = code]>>,
                            !.memory = <<[min |-> 3, max |-> <<>>]>>, !.tables = <<[min |-> 3, max |-> <<4>>, type |-> "funcref"]>>,
                            !.data = <<[passive |-> TRUE, memory |-> 0, offset |-> At("const", 0), bytes |-> <<1, 0, 1>>]>>,
                            !.elements = <<[mode |-> "passive", table |-> 0, funcs |-> <<1, 0, 1>>, offset |-> At("const", 0)]>>]
  IN  [Instantiate(m, 0).i EXCEPT !.memory = Cells, !.tables[1].elements = <<Null, FuncRef(0), Null>>]
Get(n) == FlattenSeq([k \in 1..n |-> <<"local.get", k - 1>>])
Apply(op, t, args) ==
  LET r == Invoke(Single(Get(Len(args)) \o <<op, t, "end">>, [k \in DOMAIN args |-> args[k].t], "i32"), 0, args)
  IN  IF r.failed THEN Val("i32", Trap) ELSE r.results[1]
NumbersBehave(op, t) ==
  LET w == Bits(t)
  IN  CASE t # "f64" /\ op \in IntUnary -> \A a \in IntsOf(t) : UnaryIs(op, a, w, Apply(op, t, <<Val(t, a)>>).v)
        [] t # "f64" /\ op \in Compares \cup IntBinary -> \A a, b \in IntsOf(t) : BinaryIs(op, a, b, w, Apply(op, t, <<Val(t, a), Val(t, b)>>).v)
        [] op = "wrap" -> \A a \in Integers64 : Apply(op, "i32", <<Val("i64", a)>>) = I32(a % 16)
        [] op = "extend_s" -> \A a \in IntsOf("i32") : ByBits(Apply(op, "i64", <<I32(a)>>).v, 8, LAMBDA i : Bit(a, Low(i, 3)))
        [] op = "extend_u" -> \A a \in IntsOf("i32") : Apply(op, "i64", <<I32(a)>>).v = a
        [] op \in {"trunc_s", "trunc_u"} ->
             \A a \in Floats :
               LET r == Apply(op, t, <<Val("f64", a)>>).v
                   n == IF op = "trunc_s" THEN Signed(r, w) ELSE r
                   possible == {k \in (IF op = "trunc_s" THEN -(2^(w - 1)) ELSE 0)..(IF op = "trunc_s" THEN 2^(w - 1) - 1 ELSE 2^w - 1) :
                                  /\ Absolute(2 * k - Number(a)) < 2 /\ Absolute(2 * k) <= a.size}
               IN  IF a.size >= Inf \/ possible = {} THEN r = Trap ELSE r # Trap /\ n \in possible
        [] op \in {"convert_s", "convert_u"} ->
             \A a \in IntsOf(t) : Number(Apply(op, "f64", <<Val(t, a)>>).v) = 2 * (IF op = "convert_s" /\ a >= 2^(w - 1) THEN a - 2^w ELSE a)
        [] op \in {"abs", "neg", "trunc", "ceil", "floor", "nearest"} ->
             \A a \in Floats : FloatIs(op, a, a, Apply(op, "f64", <<Val("f64", a)>>))
        [] OTHER -> \A a, b \in Floats : FloatIs(op, a, b, Apply(op, "f64", <<Val("f64", a), Val("f64", b)>>))
Numerics ==
  {<<op, t>> : op \in IntUnary \ {"extend32"}, t \in {"i32", "i64"}} \cup {<<"extend32", "i64">>}
  \cup {<<op, t>> : op \in Compares \cup IntBinary \cup {"trunc_s", "trunc_u", "convert_s", "convert_u"}, t \in {"i32", "i64"}}
  \cup {<<op, "i64">> : op \in IntConversions}
  \cup {<<op, "f64">> : op \in {"abs", "neg", "trunc", "ceil", "floor", "nearest", "min", "max", "copysign", "eq", "ne", "lt", "gt", "le", "ge"}}

(***************************************************************************)
(* The memory and the tables: an instruction with its three operands or    *)
(* fewer, on the cells above.                                              *)
(***************************************************************************)
Ranged == {"memory.init", "memory.copy", "memory.fill", "table.init", "table.copy", "table.fill"}
Elements == <<Null, FuncRef(0), Null>>
RangeCode(op) ==
  CASE op \in {"memory.init", "table.init", "memory.copy", "table.copy"} -> <<op, 0, 0>> [] op \in {"memory.fill", "table.fill"} -> <<op, 0>>
RangeBehaves(op, d, s, n, dropped) ==
  LET value == IF op = "table.fill" THEN FuncRef(s) ELSE I32(s)
      code  == (IF dropped THEN <<"data.drop", 0, "elem.drop", 0>> ELSE <<>>) \o Get(3) \o RangeCode(op) \o Constant(0) \o <<"end">>
      r     == Invoke(Single(code, <<"i32", value.t, "i32">>, "i32"), 0, <<I32(d), value, I32(n)>>)
      inMemory == op \in {"memory.init", "memory.copy", "memory.fill"}
      before == IF inMemory THEN Cells ELSE Elements
      after  == IF inMemory THEN r.i.memory ELSE r.i.tables[1].elements
      source == CASE op = "memory.init" -> IF dropped THEN <<>> ELSE <<1, 0, 1>>
                  [] op = "table.init" -> IF dropped THEN <<>> ELSE <<FuncRef(0), Null, FuncRef(0)>>
                  [] op = "memory.copy" -> Cells [] op = "table.copy" -> Elements
                  [] op = "memory.fill" -> [k \in 1..40 |-> s % 2] [] op = "table.fill" -> [k \in 1..40 |-> FuncRef(s)]
  IN  /\ r.failed <=> (d + n > Len(before) \/ s + n > Len(source))
      /\ after = IF r.failed THEN before
                 ELSE SubSeq(before, 1, d) \o SubSeq(source, s + 1, s + n) \o SubSeq(before, d + n + 1, Len(before))
\* A store at a and then a load at b, of size bytes, with an offset.
StoreLoadBehaves(a, b, size, offset, v, signed) ==
  LET code == Get(2) \o <<"store", "i64", size, offset>> \o <<"local.get", 2>> \o <<"load", "i64", size, signed, offset, "end">>
      r    == Invoke(Single(code, <<"i32", "i64", "i32">>, "i64"), 0, <<I32(a), Val("i64", v), I32(b)>>)
      Cell(k) == IF k >= a + offset /\ k < a + offset + size THEN Bit(v, k - a - offset) ELSE Cells[k + 1]
  IN  /\ r.failed <=> (a + offset + size > 12 \/ b + offset + size > 12)
      /\ ~r.failed => ByBits(r.results[1].v, 8, LAMBDA i : IF i < size THEN Cell(b + offset + i) ELSE IF signed THEN Cell(b + offset + size - 1) ELSE 0)
GrowBehaves(n) ==
  LET code(op) == Get(1) \o <<op, 0>> \o <<"end">>
      small == [Single(code("memory.grow"), <<"i32">>, "i32") EXCEPT !.memory = <<1, 1, 1, 1>>]
      r  == Invoke(small, 0, <<I32(n)>>)
      t  == Invoke(Single(<<"ref.null", "funcref">> \o code("table.grow"), <<"i32">>, "i32"), 0, <<I32(n)>>)
  IN  /\ IF n <= 2 THEN r.results = <<I32(1)>> /\ r.i.memory = <<1, 1, 1, 1>> \o [k \in 1..(4 * n) |-> 0]
         ELSE r.results = <<I32(15)>> /\ r.i.memory = <<1, 1, 1, 1>>
      /\ IF n <= 1 THEN t.results = <<I32(3)>> /\ t.i.tables[1].elements = Elements \o [k \in 1..n |-> Null]
         ELSE t.results = <<I32(15)>> /\ t.i.tables[1].elements = Elements

(***************************************************************************)
(* The run.                                                                *)
(***************************************************************************)
WasmStarts ==
  {[of |-> "module", items |-> <<>>], [of |-> "program", words |-> <<>>, open |-> <<>>]}
      \cup {[of |-> "number", op |-> p[1], t |-> p[2]] : p \in Numerics}
      \cup {[of |-> "range", op |-> op, n |-> n, dropped |-> dropped] : op \in Ranged, n \in 0..4, dropped \in BOOLEAN}
      \cup {[of |-> "memory", size |-> size, offset |-> offset] : size \in {1, 2, 4, 8}, offset \in {0, 1, 15}}
WasmBegin == subject.of = "nothing" /\ \E start \in WasmStarts : subject' = start
AddItem == /\ subject.of = "module"
           /\ Len(subject.items) < MaxEntries
           /\ \E it \in Items : subject' = [subject EXCEPT !.items = Append(@, it)]
\* A word: open holds the statements that are open, and for an if whether its else has come.
\* A program with all the words is one statement around the others.
AddWord ==
  /\ subject.of = "program"
  /\ Len(subject.words) < MaxWords
  /\ Len(subject.words) = MaxWords - 1 => subject.words[1] \in [k : Opening]
  /\ LET depth == Len(subject.open)
         over  == subject.words # <<>> /\ Ending(Last(subject.words))
         With(word, open) == subject' = [subject EXCEPT !.words = Append(@, word), !.open = open]
     IN  \/ \E w \in Leaves(depth) : ~over /\ With(w, subject.open)
         \/ \E k \in Opening : ~over /\ depth < 3 /\ With([k |-> k], <<k>> \o subject.open)
         \/ depth > 0 /\ With([k |-> "end"], Tail(subject.open))
         \/ depth > 0 /\ Head(subject.open) = "if" /\ With([k |-> "else"], <<"else">> \o Tail(subject.open))
WasmNext == WasmBegin \/ AddItem \/ AddWord

(***************************************************************************)
(* A binary is read as the module it was written from, numbers in LEB128   *)
(* are read as they were written, and an instance comes up exactly when    *)
(* its active segments fit, with the last segment over a byte in place;    *)
(* a binary that was cut short is refused (decode and instantiate).        *)
(***************************************************************************)
ModulesDecodeAsWritten(grown) ==
  grown.of = "module" =>
    LET bytes == WrittenModule(grown.items)
    IN  CompleteModule(grown.items) =>
          /\ Decode(bytes) = [ok |-> TRUE, m |-> MeantModule(grown.items)]
          /\ Len(grown.items) = 1 => \A n \in 1..(Len(bytes) - 1) : ~Decode(SubSeq(bytes, 1, n)).ok
          /\ Placed(MeantModule(grown.items))
          /\ grown.items = <<>> => LebsRead

(***************************************************************************)
(* A program with blocks, loops, ifs, branches through them, calls, calls  *)
(* through the table and traps does what its structure says, whatever its  *)
(* argument: the same calls of the host in the same order, the same        *)
(* result, the same failure (run, call_into and invoke). Branches to an if *)
(* are left out, and programs that were seen without their last end; only  *)
(* a call through the table tells 3 from 2.                                *)
(***************************************************************************)
ProgramsRunAsDefined(grown) ==
  grown.of = "program" /\ (grown.words # <<>> => Last(grown.words).k # "end") =>
    \A arg \in 0..(IF Leaf("indirect", 0) \in ToSet(grown.words) THEN 3 ELSE 2) : RunsAsDefined(Program(grown.words), arg)

(***************************************************************************)
(* Integer and float instructions give what their definition by bits and   *)
(* by order says, at the borders of their types too, and the instructions  *)
(* on memory and tables change exactly their range, whole or not at all    *)
(* (the numeric, memory and table instructions of run).                    *)
(***************************************************************************)
InstructionsBehave(grown) ==
  CASE grown.of = "number" -> NumbersBehave(grown.op, grown.t)
    [] grown.of = "range" -> \A d, s \in 0..12 : RangeBehaves(grown.op, d, s, grown.n, grown.dropped)
    [] grown.of = "memory" ->
         \A a, b \in {0, 1, 4, 5, 10, 11, 12, 15}, v \in {0, 1, 165}, signed \in BOOLEAN : StoreLoadBehaves(a, b, grown.size, grown.offset, v, signed)
    [] OTHER -> grown.of = "program" /\ grown.words = <<>> => \A n \in 0..7 : GrowBehaves(n)
=============================================================================
