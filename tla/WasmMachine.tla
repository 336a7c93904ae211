---------------------------- MODULE WasmMachine ----------------------------
(***************************************************************************)
(* The WebAssembly engine (wasm/wasm.cpp): decode, instantiate and the     *)
(* interpreter of a function's code.                                       *)
(*                                                                         *)
(* A binary is a sequence of sections: an identifier, a length and its     *)
(* elements, each a byte, a LEB128 number or a name (WasmNumbers has the   *)
(* bytes). Code is a sequence of opcodes, some followed by the type, the   *)
(* sizes and the immediates they are for. What is aligned how is left out. *)
(* A value is [t, v]; a reference to function f is f + 1, and 0 is null.   *)
(* Code is taken to be valid: there is no validator, and operands that are *)
(* missing are not modelled.                                               *)
(***************************************************************************)
EXTENDS WasmNumbers, SequencesExt, FiniteSetsExt

PageSize == 4      \* bytes
MaxPages == 3      \* of a memory without a maximum
Val(t, v) == [t |-> t, v |-> v]
I32(n) == Val("i32", Unsigned(n, Bits("i32")))
Null == Val("funcref", 0)
FuncRef(f) == Val("funcref", f + 1)

(***************************************************************************)
(* decode, on [m, at, e]: the module, the rest of the section and whether  *)
(* an error was met.                                                       *)
(***************************************************************************)
NoModule == [types |-> <<>>, funcs |-> <<>>, exports |-> <<>>, globals |-> <<>>, memory |-> <<>>, tables |-> <<>>,
             data |-> <<>>, elements |-> <<>>, start |-> <<>>]
Bad(d) == [d EXCEPT !.e = TRUE]
Next1(d) == d.at[1]
Drop(d, n) == [d EXCEPT !.at = SubSeq(@, n + 1, Len(@))]
Has(d, n) == Len(d.at) >= n

\* A list whose length comes first, n elements.
Listed(d) == SubSeq(d.at, 2, d.at[1] + 1)
AfterList(d) == Drop(d, d.at[1] + 1)

\* Limits: flags, a minimum and, when the flags are odd, a maximum; and what they take up.
LimitsSize(d, i) == IF d.at[i] % 2 = 1 THEN 3 ELSE 2
MaxOf(d, i) == IF d.at[i] % 2 = 1 THEN <<d.at[i + 2]>> ELSE <<>>

TypeEntry(d) ==
  IF Next1(d) # "func" THEN Bad(d)
  ELSE LET p == Drop(d, 1) r == AfterList(p)
       IN  [AfterList(r) EXCEPT !.m.types = Append(@, [params |-> Listed(p), results |-> Listed(r)])]
Func(type, import) == [type |-> type, import |-> import, locals |-> <<>>, code |-> <<>>]
TableEntry(d, at) == [min |-> d.at[at + 2], max |-> MaxOf(d, at + 1), type |-> d.at[at]]
\* A maximum that is not given leaves an earlier one.
MemoryAt(d) ==
  [Drop(d, LimitsSize(d, 1)) EXCEPT !.m.memory = <<[min |-> d.at[2], max |-> IF MaxOf(d, 1) # <<>> \/ @ = <<>> THEN MaxOf(d, 1) ELSE @[1].max]>>]
\* The kinds func, table, memory and global; a global is skipped.
ImportEntry(d) ==
  CASE d.at[3] = 0 -> [Drop(d, 4) EXCEPT !.m.funcs = Append(@, Func(d.at[4], TRUE))]
    [] d.at[3] = 1 -> [Drop(d, 4 + LimitsSize(d, 5)) EXCEPT !.m.tables = Append(@, TableEntry(d, 4))]
    [] d.at[3] = 2 -> MemoryAt(Drop(d, 3))
    [] d.at[3] = 3 -> Drop(d, 5)
    [] OTHER -> Drop(d, 3)
FunctionEntry(d) == [Drop(d, 1) EXCEPT !.m.funcs = Append(@, Func(Next1(d), FALSE))]
TableSection(d) == [Drop(d, 1 + LimitsSize(d, 2)) EXCEPT !.m.tables = Append(@, TableEntry(d, 1))]
GlobalEntry(d) == [Drop(d, 5) EXCEPT !.m.globals = Append(@, Val(d.at[1], d.at[4]))]
ExportEntry(d) == [Drop(d, 3) EXCEPT !.m.exports = Append(@, [name |-> d.at[1], kind |-> d.at[2], index |-> d.at[3]])]

\* A constant or a global, and "end".
Offset(d, i) == [op |-> d.at[i], n |-> d.at[i + 1]]
OffsetFits(d, i) == d.at[i] \in {"const", "global.get"} /\ d.at[i + 2] = "end"

Mode(flags) == CASE flags \in {1, 5} -> "passive" [] flags \in {3, 7} -> "declarative" [] OTHER -> "active"
\* An initializer, ref.func f end or ref.null type end, for each function.
RECURSIVE Initializers(_, _, _)
Initializers(d, n, sofar) ==
  IF n = 0 THEN [d |-> d, funcs |-> sofar]
  ELSE IF d.at[1] \notin {"ref.func", "ref.null"} \/ d.at[3] # "end" THEN [d |-> Bad(d), funcs |-> sofar]
  ELSE Initializers(Drop(d, 3), n - 1, Append(sofar, IF d.at[1] = "ref.func" THEN FuncRef(d.at[2]).v ELSE 0))
ElementEntry(d) ==
  LET flags == Next1(d)
      mode  == Mode(flags)
      table == IF flags \in {2, 6} THEN d.at[2] ELSE 0
      o     == IF flags \in {2, 6} THEN 3 ELSE 2
      kind  == IF mode = "active" THEN o + 3 ELSE o
      list  == Drop(d, IF flags \in {0, 4} THEN kind - 1 ELSE kind)
      r     == IF flags >= 4 THEN Initializers(Drop(list, 1), Next1(list), <<>>)
               ELSE [d |-> AfterList(list), funcs |-> [k \in DOMAIN Listed(list) |-> FuncRef(Listed(list)[k]).v]]
      segment == [mode |-> mode, table |-> table, funcs |-> r.funcs,
                  offset |-> IF mode = "active" THEN Offset(d, o) ELSE [op |-> "const", n |-> 0]]
  IN  IF flags > 7 THEN Bad(d)
      ELSE IF mode = "active" /\ ~OffsetFits(d, o) THEN Bad(d)
      ELSE IF flags \in {1, 2, 3} /\ d.at[kind] # 0 THEN Bad(d)
      ELSE [r.d EXCEPT !.m.elements = Append(@, segment)]

\* Locals are counts and types; i says which function of the section it is.
RECURSIVE Locals(_, _, _)
Locals(d, n, sofar) ==
  IF n = 0 THEN [d |-> d, locals |-> sofar]
  ELSE Locals(Drop(d, 2), n - 1, sofar \o [k \in 1..d.at[1] |-> d.at[2]])
CodeEntry(d, i) ==
  LET size == Next1(d)
      imported == Len(SelectSeq(d.m.funcs, LAMBDA g : g.import))
      body == Locals(Drop(d, 2), d.at[2], <<>>)
      taken == Len(d.at) - 1 - Len(body.d.at)
      f == imported + i
  IN  [Drop(body.d, size - taken) EXCEPT !.m.funcs[f].locals = body.locals, !.m.funcs[f].code = SubSeq(body.d.at, 1, size - taken)]

DataEntry(d) ==
  LET flags == Next1(d)
      o     == IF flags = 2 THEN 3 ELSE 2
      bytes == Drop(d, IF flags = 1 THEN 1 ELSE o + 2)
      segment == [passive |-> flags = 1, memory |-> IF flags = 2 THEN d.at[2] ELSE 0,
                  offset |-> IF flags = 1 THEN [op |-> "const", n |-> 0] ELSE Offset(d, o), bytes |-> Listed(bytes)]
  IN  IF flags \notin {0, 1, 2} \/ (flags # 1 /\ ~OffsetFits(d, o)) THEN Bad(d)
      ELSE IF Next1(bytes) > Len(bytes.at) - 1 THEN Bad(d)
      ELSE [AfterList(bytes) EXCEPT !.m.data = Append(@, segment)]

Entry(id, d, i) ==
  CASE id = 1 -> TypeEntry(d) [] id = 2 -> ImportEntry(d) [] id = 3 -> FunctionEntry(d) [] id = 4 -> TableSection(d)
    [] id = 5 -> MemoryAt(d) [] id = 6 -> GlobalEntry(d) [] id = 7 -> ExportEntry(d) [] id = 9 -> ElementEntry(d)
    [] id = 10 -> CodeEntry(d, i) [] id = 11 -> DataEntry(d)
RECURSIVE Entries(_, _, _, _)
Entries(id, d, i, n) == IF d.e \/ i > n THEN d ELSE Entries(id, Entry(id, d, i), i + 1, n)
Section(id, d) ==
  CASE id = 8 -> [d EXCEPT !.m.start = <<Next1(d)>>]
    [] id \in {1, 2, 3, 4, 5, 6, 7, 9, 10, 11} -> Entries(id, Drop(d, 1), 1, Next1(d))
    [] OTHER -> d

\* Sections in any order; what is left over of one is skipped.
RECURSIVE Sections(_, _)
Sections(bytes, m) ==
  IF bytes = <<>> THEN [ok |-> TRUE, m |-> m]
  ELSE IF Len(bytes) < 2 \/ bytes[2] > Len(bytes) - 2 THEN [ok |-> FALSE]
  ELSE LET d == Section(bytes[1], [m |-> m, at |-> SubSeq(bytes, 3, bytes[2] + 2), e |-> FALSE])
       IN  IF d.e THEN [ok |-> FALSE] ELSE Sections(SubSeq(bytes, bytes[2] + 3, Len(bytes)), d.m)
Decode(bytes) == Sections(bytes, NoModule)

(***************************************************************************)
(* An instance is [m, memory, max, globals, tables, dataDropped,           *)
(* elementDropped, hosts, called]: how many host functions are bound, and  *)
(* the calls of them. A frame adds the operand stack, the code that runs   *)
(* with its locals and the place in it, the signal and whether it failed.  *)
(***************************************************************************)
Frame(inst, stack) == [i |-> inst, stack |-> stack, locals |-> <<>>, code |-> <<>>, pc |-> 1, sig |-> "Normal", depth |-> 0, failed |-> FALSE]
Fail(x) == [x EXCEPT !.failed = TRUE]
Top(x, k) == x.stack[Len(x.stack) - k]
Pop(x, n) == [x EXCEPT !.stack = SubSeq(@, 1, Len(@) - n)]
Push(x, v) == [x EXCEPT !.stack = Append(@, v)]
Replace(x, n, v) == Push(Pop(x, n), v)
Imm(x, k) == x.code[x.pc + k - 1]

ZeroOf(t) == Val(t, IF t \in {"f32", "f64"} THEN Float(FALSE, 0) ELSE 0)
Signal(x, kind, depth) == [x EXCEPT !.sig = kind, !.depth = depth]
Normal(x) == Signal(x, "Normal", 0)

\* How many immediates an opcode has (skip_immediates).
MemoryOps == {"load", "store"}
Immediates(code, i) ==
  LET op == code[i]
  IN  CASE op = "br_table" -> code[i + 1] + 2
        [] op \in {"br", "br_if", "call", "local.get", "local.set", "local.tee", "global.get", "global.set", "table.get", "table.set",
                   "ref.func", "ref.null", "memory.size", "memory.grow", "memory.fill", "data.drop", "elem.drop",
                   "table.grow", "table.size", "table.fill", "block", "loop", "if"} -> 1
        [] op \in {"const", "call_indirect", "memory.init", "memory.copy", "table.init", "table.copy"} -> 2
        [] op = "store" -> 3 [] op = "load" -> 4
        [] op \in {"end", "else", "unreachable", "nop", "return", "drop", "select", "ref.is_null"} -> 0
        [] OTHER -> 1      \* a numeric instruction, with the type that is in its opcode

\* The place of the end or the else that closes what starts at i.
RECURSIVE FindElseOrEnd(_, _, _)
FindElseOrEnd(code, i, depth) ==
  IF i > Len(code) THEN i
  ELSE IF code[i] \in {"end", "else"} /\ depth = 0 THEN i
  ELSE FindElseOrEnd(code, i + 1 + Immediates(code, i),
                     IF code[i] \in {"block", "loop", "if"} THEN depth + 1 ELSE IF code[i] = "end" THEN depth - 1 ELSE depth)
ToEndOnly(code, from) == FindElseOrEnd(code, from, 0) + 1     \* mutant
SkipToEnd(code, from) ==
  LET i == FindElseOrEnd(code, from, 0)
  IN  IF i <= Len(code) /\ code[i] = "else" THEN FindElseOrEnd(code, i + 1, 0) + 1 ELSE i + 1

(***************************************************************************)
(* Ranges of the memory, of tables and of segments.                        *)
(***************************************************************************)
Fits(list, at, n) == at + n <= Len(list)
\* src[s + 1] on, n of them, over dst[d + 1] on: all are read before one is written.
Copied(dst, d, src, s, n) == [k \in DOMAIN dst |-> IF k > d /\ k <= d + n THEN src[s + k - d] ELSE dst[k]]
Filled(dst, d, v, n) == [k \in DOMAIN dst |-> IF k > d /\ k <= d + n THEN v ELSE dst[k]]
Grown(list, n, v) == list \o [k \in 1..n |-> v]

\* Bytes come lowest first.
BytesOf(n, size) == [k \in 1..size |-> (n \div 2^(ByteBits * (k - 1))) % 2^ByteBits]
FromBytes(bytes) == FoldLeftDomain(LAMBDA n, k : n + bytes[k] * 2^(ByteBits * (k - 1)), 0, bytes)
AddressWraps(n, offset) == Unsigned(n + offset, Bits("i32"))     \* mutant
Address(n, offset) == n + offset
\* load t size signed offset; store t size offset.
Load(x) ==
  LET t == Imm(x, 1)
      size == Imm(x, 2)
      a == Address(Top(x, 0).v, Imm(x, 4))
      n == FromBytes(SubSeq(x.i.memory, a + 1, a + size))
  IN  IF ~Fits(x.i.memory, a, size) THEN Fail(Pop(x, 1))
      ELSE Replace(x, 1, Val(t, IF Imm(x, 3) THEN Unsigned(Signed(n, size * ByteBits), Bits(t)) ELSE n))
Store(x) ==
  LET size == Imm(x, 2)
      a == Address(Top(x, 1).v, Imm(x, 3))
  IN  IF ~Fits(x.i.memory, a, size) THEN Fail(Pop(x, 2))
      ELSE [Pop(x, 2) EXCEPT !.i.memory = Copied(@, a, BytesOf(Top(x, 0).v, size), 0, size)]

\* A maximum of zero counts as none; a memory already past its maximum grows freely.
Grow(x) ==
  LET delta == Signed(Top(x, 0).v, Bits("i32"))
      old   == Len(x.i.memory) \div PageSize
      max   == IF x.i.max \in {<<>>, <<0>>} THEN MaxPages ELSE x.i.max[1]
  IN  IF delta < 0 \/ (old <= max /\ delta > max - old) THEN Replace(x, 1, I32(-1))
      ELSE [Replace(x, 1, I32(old)) EXCEPT !.i.memory = Grown(@, delta * PageSize, 0)]

InitData(seg, x) == IF seg \in x.i.dataDropped THEN <<>> ELSE x.i.m.data[seg + 1].bytes
InitElements(seg, x) == IF seg \in x.i.elementDropped THEN <<>> ELSE x.i.m.elements[seg + 1].funcs
Bulk(x, op) ==
  LET n  == Top(x, 0).v       \* length, or what is filled in or a table grows by
      s  == Top(x, 1)
      d  == Top(x, 2).v
      k  == Imm(x, 1)
      y  == Pop(x, 3)
      to == x.i.tables
  IN  CASE op = "memory.init" ->
             IF Fits(InitData(k, x), s.v, n) /\ Fits(x.i.memory, d, n)
             THEN [y EXCEPT !.i.memory = Copied(@, d, InitData(k, x), s.v, n)] ELSE Fail(y)
        [] op = "memory.copy" ->
             IF Fits(x.i.memory, s.v, n) /\ Fits(x.i.memory, d, n)
             THEN [y EXCEPT !.i.memory = Copied(@, d, @, s.v, n)] ELSE Fail(y)
        [] op = "memory.fill" ->
             IF Fits(x.i.memory, d, n) THEN [y EXCEPT !.i.memory = Filled(@, d, Unsigned(s.v, ByteBits), n)] ELSE Fail(y)
        [] op = "table.init" ->
             IF Fits(InitElements(k, x), s.v, n) /\ Fits(to[Imm(x, 2) + 1].elements, d, n)
             THEN [y EXCEPT !.i.tables[Imm(x, 2) + 1].elements =
                     Copied(@, d, [j \in DOMAIN InitElements(k, x) |-> Val("funcref", InitElements(k, x)[j])], s.v, n)]
             ELSE Fail(y)
        [] op = "table.copy" ->
             IF Fits(to[Imm(x, 2) + 1].elements, s.v, n) /\ Fits(to[k + 1].elements, d, n)
             THEN [y EXCEPT !.i.tables[k + 1].elements = Copied(@, d, to[Imm(x, 2) + 1].elements, s.v, n)] ELSE Fail(y)
        [] op = "table.fill" ->
             IF Fits(to[k + 1].elements, d, n) THEN [y EXCEPT !.i.tables[k + 1].elements = Filled(@, d, s, n)] ELSE Fail(y)
TableGrow(x) ==
  LET t == x.i.tables[Imm(x, 1) + 1]
      n == Top(x, 0).v
  IN  IF t.max # <<>> /\ Len(t.elements) + n > t.max[1] THEN Replace(x, 2, I32(-1))
      ELSE [Replace(x, 2, I32(Len(t.elements))) EXCEPT !.i.tables[Imm(x, 1) + 1].elements = Grown(@, n, Top(x, 1))]
TableAt(x, n) == n < Len(x.i.tables[Imm(x, 1) + 1].elements)

(***************************************************************************)
(* The instructions that only go on to the next.                           *)
(***************************************************************************)
Numeric(x, op) ==
  LET t == Imm(x, 1)
      w == Bits(t)
      a == Top(x, 0).v
      Result(y, n, to, v) == IF v = Trap THEN Fail(y) ELSE Replace(y, n, Val(to, v))
  IN  IF t \in {"f32", "f64"}
      THEN CASE op \in {"eq", "ne", "lt", "gt", "le", "ge"} -> Replace(x, 2, I32(FloatCompare(op, Top(x, 1).v, a)))
             [] op \in {"min", "max", "copysign"} -> Replace(x, 2, Val(t, FloatBinary(op, Top(x, 1).v, a)))
             [] op \in {"convert_s", "convert_u"} -> Replace(x, 1, Val(t, FromInt(a, Bits(Top(x, 0).t), op = "convert_s")))
             [] op \in {"abs", "neg", "trunc", "ceil", "floor", "nearest"} -> Replace(x, 1, Val(t, FloatUnary(op, a)))
      ELSE CASE op \in IntUnary -> Replace(x, 1, Val(IF op = "eqz" THEN "i32" ELSE t, Unary(op, a, w)))
             [] op \in Compares -> Replace(x, 2, I32(Compare(op, Top(x, 1).v, a, w)))
             [] op \in IntBinary -> Result(x, 2, t, Binary(op, Top(x, 1).v, a, w))
             [] op \in IntConversions -> Replace(x, 1, Val(t, ConvertInt(op, a)))
             [] op = "trunc_s" -> Result(x, 1, t, TruncSigned(a, w))
             [] op = "trunc_u" -> Result(x, 1, t, TruncUnsigned(a, w))

Simple(x, op) ==
  CASE op = "nop" -> x
    [] op = "drop" -> Pop(x, 1)
    [] op = "select" -> Replace(x, 3, IF Top(x, 0).v # 0 THEN Top(x, 2) ELSE Top(x, 1))
    [] op = "local.get" -> Push(x, x.locals[Imm(x, 1) + 1])
    [] op = "local.set" -> [Pop(x, 1) EXCEPT !.locals[Imm(x, 1) + 1] = Top(x, 0)]
    [] op = "local.tee" -> [x EXCEPT !.locals[Imm(x, 1) + 1] = Top(x, 0)]
    [] op = "global.get" -> Push(x, x.i.globals[Imm(x, 1) + 1])
    [] op = "global.set" -> [Pop(x, 1) EXCEPT !.i.globals[Imm(x, 1) + 1] = Top(x, 0)]
    [] op = "const" -> Push(x, Val(Imm(x, 1), Imm(x, 2)))
    [] op = "ref.null" -> Push(x, Val(Imm(x, 1), 0))
    [] op = "ref.is_null" -> Replace(x, 1, I32(Flag(Top(x, 0).v = 0)))
    [] op = "ref.func" -> Push(x, FuncRef(Imm(x, 1)))
    [] op = "table.get" -> IF ~TableAt(x, Top(x, 0).v) THEN Fail(x)
                           ELSE Replace(x, 1, x.i.tables[Imm(x, 1) + 1].elements[Top(x, 0).v + 1])
    [] op = "table.set" -> IF ~TableAt(x, Top(x, 1).v) THEN Fail(x)
                           ELSE [Pop(x, 2) EXCEPT !.i.tables[Imm(x, 1) + 1].elements[Top(x, 1).v + 1] = Top(x, 0)]
    [] op = "load" -> Load(x)
    [] op = "store" -> Store(x)
    [] op = "memory.size" -> Push(x, I32(Len(x.i.memory) \div PageSize))
    [] op = "memory.grow" -> Grow(x)
    [] op \in {"memory.init", "memory.copy", "memory.fill", "table.init", "table.copy", "table.fill"} -> Bulk(x, op)
    [] op = "data.drop" -> [x EXCEPT !.i.dataDropped = @ \cup {Imm(x, 1)}]
    [] op = "elem.drop" -> [x EXCEPT !.i.elementDropped = @ \cup {Imm(x, 1)}]
    [] op = "table.size" -> Push(x, I32(Len(x.i.tables[Imm(x, 1) + 1].elements)))
    [] op = "table.grow" -> TableGrow(x)
    [] OTHER -> Numeric(x, op)

(***************************************************************************)
(* run and call_into. The operand stack is not cut back at a branch.       *)
(***************************************************************************)
SameType(m, a, b) == m.types[a + 1] = m.types[b + 1]
\* What call_indirect calls, or Trap.
Callee(x) ==
  LET elements == x.i.tables[Imm(x, 2) + 1].elements
      n == Top(x, 0).v
  IN  IF n >= Len(elements) THEN Trap
      ELSE IF elements[n + 1].v = 0 THEN Trap
      ELSE IF ~SameType(x.i.m, Imm(x, 1), x.i.m.funcs[elements[n + 1].v].type) THEN Trap ELSE elements[n + 1].v - 1
Label(x, n) == IF n < Imm(x, 1) THEN Imm(x, n + 2) ELSE Imm(x, Imm(x, 1) + 2)

\* A host function returns its first argument, or one.
Host(type, args) == [k \in DOMAIN type.results |-> IF args = <<>> THEN I32(1) ELSE args[1]]

RECURSIVE Run(_, _)
RECURSIVE Body(_, _, _)
RECURSIVE CallInto(_, _)

\* The code of a block or a loop, from start; a branch to a loop starts it again.
Body(x, start, isLoop) ==
  LET s == Run([x EXCEPT !.pc = start], FALSE)
  IN  IF s.failed \/ s.sig # "Branch" THEN s
      ELSE IF s.depth > 0 THEN [s EXCEPT !.depth = @ - 1]
      ELSE IF isLoop THEN Body(Normal(s), start, TRUE)
      ELSE [Normal(s) EXCEPT !.pc = SkipToEnd(s.code, start)]

\* x is at the code of the first branch, the condition taken off. A branch to the if itself
\* goes on outward as one to what encloses it.
If(x, cond) ==
  LET elseAt == FindElseOrEnd(x.code, x.pc, 0)
      s == IF cond THEN Run(x, TRUE) ELSE Run([x EXCEPT !.pc = elseAt + 1], FALSE)
  IN  IF ~cond /\ x.code[elseAt] # "else" THEN [x EXCEPT !.pc = SkipToEnd(x.code, x.pc)]
      ELSE IF s.failed \/ s.sig # "Normal" THEN [s EXCEPT !.depth = IF s.sig = "Branch" /\ @ > 0 THEN @ - 1 ELSE @]
      ELSE IF cond THEN [s EXCEPT !.pc = SkipToEnd(x.code, x.pc)] ELSE s

CallInto(x, f) ==
  LET g    == x.i.m.funcs[f + 1]
      type == x.i.m.types[g.type + 1]
      kept == SubSeq(x.stack, 1, Len(x.stack) - Len(type.params))
      args == SubSeq(x.stack, Len(kept) + 1, Len(x.stack))
      imports == Cardinality({k \in 1..(f + 1) : x.i.m.funcs[k].import})
      s == Run([x EXCEPT !.stack = kept, !.locals = args \o [k \in DOMAIN g.locals |-> ZeroOf(g.locals[k])], !.code = g.code, !.pc = 1], FALSE)
      padded == Grown(s.stack, Len(kept) + Len(type.results) - Len(s.stack), I32(0))
      results == SubSeq(padded, Len(padded) - Len(type.results) + 1, Len(padded))
  IN  IF g.import THEN [x EXCEPT !.stack = kept \o (IF imports <= x.i.hosts THEN Host(type, args) ELSE <<>>), !.i.called = Append(@, <<f, args>>)]
      ELSE [x EXCEPT !.i = s.i, !.failed = s.failed, !.stack = SubSeq(s.stack, 1, Len(kept)) \o results]

Run(x, stopAtElse) ==
  IF x.failed \/ x.pc > Len(x.code) THEN x
  ELSE LET op   == x.code[x.pc]
           at   == [x EXCEPT !.pc = @ + 1]       \* at the immediates
           past == [x EXCEPT !.pc = @ + 1 + Immediates(x.code, x.pc)]
           Go(y) == IF y.failed \/ y.sig # "Normal" THEN y ELSE Run(y, stopAtElse)
           To(y) == Go([y EXCEPT !.pc = past.pc])
           taken == Top(at, 0).v
       IN  CASE op = "end" -> at
             [] op = "else" -> IF stopAtElse THEN at ELSE Run(at, stopAtElse)
             [] op = "unreachable" -> Fail(at)
             [] op \in {"block", "loop"} -> Go(Body(past, past.pc, op = "loop"))
             [] op = "if" -> Go(If(Pop(past, 1), taken # 0))
             [] op = "br" -> Signal(past, "Branch", Imm(at, 1))
             [] op = "br_if" -> IF taken # 0 THEN Signal(Pop(past, 1), "Branch", Imm(at, 1)) ELSE Run(Pop(past, 1), stopAtElse)
             [] op = "br_table" -> Signal(Pop(past, 1), "Branch", Label(at, taken))
             [] op = "return" -> Signal(at, "Return", 0)
             [] op = "call" -> To(CallInto(at, Imm(at, 1)))
             [] op = "call_indirect" -> IF Callee(at) = Trap THEN Fail(Pop(at, 1)) ELSE To(CallInto(Pop(at, 1), Callee(at)))
             [] OTHER -> To(Simple(at, op))

(***************************************************************************)
(* instantiate and invoke.                                                 *)
(***************************************************************************)
\* The results, or that it failed; what it did to the instance stays either way.
Invoke(inst, f, args) ==
  LET x == CallInto(Frame(inst, args), f)
      n == Len(inst.m.types[inst.m.funcs[f + 1].type + 1].results)
  IN  [i |-> x.i, failed |-> x.failed, results |-> IF x.failed THEN <<>> ELSE SubSeq(x.stack, Len(x.stack) - n + 1, Len(x.stack))]

Exported(m, name) == SelectSeq(m.exports, LAMBDA e : e.kind = "func" /\ e.name = name)
ExportFunc(m, name) == IF Exported(m, name) = <<>> THEN -1 ELSE Head(Exported(m, name)).index

OffsetConstant(inst, o) == o.n     \* mutant
\* Where a segment starts, or Trap.
OffsetOf(inst, o) ==
  IF o.op = "const" THEN o.n
  ELSE IF o.n >= Len(inst.globals) THEN Trap
  ELSE IF inst.globals[o.n + 1].t # "i32" THEN Trap ELSE inst.globals[o.n + 1].v

\* The active segments in order, elements and then data, up to the first that fails.
PlaceElements(r, s) ==
  LET o == OffsetOf(r.i, s.offset)
  IN  IF ~r.ok \/ s.mode # "active" THEN r
      ELSE IF s.table >= Len(r.i.tables) \/ o = Trap THEN [r EXCEPT !.ok = FALSE]
      ELSE IF ~Fits(r.i.tables[s.table + 1].elements, o, Len(s.funcs)) THEN [r EXCEPT !.ok = FALSE]
      ELSE IF \E k \in DOMAIN s.funcs : s.funcs[k] > Len(r.i.m.funcs) THEN [r EXCEPT !.ok = FALSE]
      ELSE [r EXCEPT !.i.tables[s.table + 1].elements = Copied(@, o, [k \in DOMAIN s.funcs |-> Val("funcref", s.funcs[k])], 0, Len(s.funcs))]
PlaceData(r, s) ==
  LET o == OffsetOf(r.i, s.offset)
  IN  IF ~r.ok \/ s.passive THEN r
      ELSE IF r.i.m.memory = <<>> \/ s.memory # 0 \/ o = Trap THEN [r EXCEPT !.ok = FALSE]
      ELSE IF ~Fits(r.i.memory, o, Len(s.bytes)) THEN [r EXCEPT !.ok = FALSE]
      ELSE [r EXCEPT !.i.memory = Copied(@, o, s.bytes, 0, Len(s.bytes))]

Instantiate(m, hosts) ==
  LET inst == [m |-> m, memory |-> IF m.memory = <<>> THEN <<>> ELSE [k \in 1..(m.memory[1].min * PageSize) |-> 0],
               max |-> IF m.memory = <<>> THEN <<>> ELSE m.memory[1].max, globals |-> m.globals,
               tables |-> [k \in DOMAIN m.tables |-> [elements |-> [j \in 1..m.tables[k].min |-> Val(m.tables[k].type, 0)], max |-> m.tables[k].max]],
               dataDropped |-> {}, elementDropped |-> {}, hosts |-> hosts, called |-> <<>>]
      placed  == FoldLeft(PlaceData, FoldLeft(PlaceElements, [ok |-> TRUE, i |-> inst], m.elements), m.data)
      started == Invoke(placed.i, m.start[1], <<>>)
  IN  IF ~placed.ok \/ m.start = <<>> THEN placed ELSE [ok |-> ~started.failed, i |-> started.i]
=============================================================================
