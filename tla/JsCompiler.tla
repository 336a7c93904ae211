----------------------------- MODULE JsCompiler -----------------------------
(***************************************************************************)
(* The statement part of the MalibuJS compiler: js/compiler/compiler.cpp   *)
(* turns the statements of a function into one array of instructions,      *)
(* with absolute jump targets, PushScope/PopScope around lexical scopes    *)
(* and PushHandler/PopHandler around try blocks.                           *)
(*                                                                         *)
(* A statement is a record                                                 *)
(*   k     its kind                                                        *)
(*   l     its label, the label a jump names, or the flags of a try        *)
(*         statement ("c", "f", "cf", as the parser writes them)           *)
(*   id    a number that names it in the log of an execution               *)
(*   kids  its bodies, each a sequence of statements                       *)
(* Expressions are "ev" statements: evaluating one may throw.              *)
(*                                                                         *)
(* Beside what the code has, an instruction carries the static context it  *)
(* was compiled in: the scopes (s), handlers (h) and finally blocks (f)    *)
(* that enclose it, each named by the address of the instruction that      *)
(* opens it. The machine never reads them; the properties do.              *)
(***************************************************************************)
EXTENDS Naturals, Sequences, SequencesExt

Top == [s |-> <<>>, h |-> <<>>, f |-> <<>>]

Ins(op, x) ==
  [op |-> op, l |-> "", id |-> 0, to |-> 0, fin |-> 0, by |-> "",
   s |-> x.s, h |-> x.h, f |-> x.f]

To(op, to, x) == [Ins(op, x) EXCEPT !.to = to]

Simple(n, x) == [Ins(n.k, x) EXCEPT !.id = n.id, !.l = n.l]

InScope(x, at)   == [x EXCEPT !.s = Append(@, at)]
InHandler(x, at) == [x EXCEPT !.h = Append(@, at)]
InFinally(x, at) == [x EXCEPT !.f = Append(@, at)]

IsLoop(k) == k \in {"while", "do", "for", "foreach"}

(***************************************************************************)
(* A statement that jumps may leave: the breaks and continues its bodies   *)
(* left open become jumps. An unlabelled break belongs to the innermost    *)
(* such statement, a continue passes through switches and labelled blocks. *)
(***************************************************************************)
Bind(code, n, brk, cont) ==
  [i \in DOMAIN code |->
    LET c == code[i] IN
    CASE c.op = "break" /\ c.l \in {"", n.l}
           -> [c EXCEPT !.op = "jump", !.to = brk, !.by = n.k]
      [] c.op = "continue" /\ IsLoop(n.k) /\ c.l \in {"", n.l}
           -> [c EXCEPT !.op = "jump", !.to = cont, !.by = n.k]
      [] OTHER -> c]

RECURSIVE Code(_, _, _), All(_, _, _)

\* Statements one after the other, from address at on.
All(list, at, x) ==
  IF list = <<>> THEN <<>>
  ELSE LET first == Code(Head(list), at, x)
       IN  first \o All(Tail(list), at + Len(first), x)

Scoped(list, at, x) ==
  LET in == InScope(x, at)
  IN  <<Ins("push", x)>> \o All(list, at + 1, in) \o <<Ins("pop", in)>>

If(n, at, x) ==
  LET then == All(n.kids[1], at + 1, x)
      else == All(n.kids[2], at + 2 + Len(then), x)
      jend == To("jump", at + 2 + Len(then) + Len(else), x)
  IN  <<To("iffalse", at + 2 + Len(then), x)>> \o then \o <<jend>> \o else

While(n, at, x) ==
  LET body == All(n.kids[1], at + 1, x)
      exit == at + 2 + Len(body)
  IN  Bind(<<To("iffalse", exit, x)>> \o body \o <<To("jump", at, x)>>, n, exit, at)

DoWhile(n, at, x) ==
  LET body == All(n.kids[1], at, x)
      cont == at + Len(body)
  IN  Bind(body \o <<To("iftrue", at, x)>>, n, cont + 1, cont)

\* The head of a for statement has a scope; its update is logged.
For(n, at, x) ==
  LET in   == InScope(x, at)
      body == All(n.kids[1], at + 2, in)
      cont == at + 2 + Len(body)
      exit == cont + 2
  IN  Bind(<<Ins("push", x), To("iffalse", exit, in)>> \o body
             \o <<[Ins("update", in) EXCEPT !.id = n.id], To("jump", at + 1, in),
                  Ins("pop", in)>>, n, exit, cont)

\* for-of and for-in have a scope for the loop and one for each iteration.
ForEach(n, at, x) ==
  LET in   == InScope(x, at)
      each == InScope(in, at + 2)
      body == All(n.kids[1], at + 3, each)
      cont == at + 4 + Len(body)
      exit == cont + 1
  IN  Bind(<<Ins("push", x), To("iffalse", exit, in), Ins("push", in)>> \o body
             \o <<Ins("pop", each), To("jump", at + 1, in), Ins("pop", in)>>,
           n, exit, cont)

\* switch (..) { case ..: kids[1] default: kids[2] }
Switch(n, at, x) ==
  LET in   == InScope(x, at)
      case == All(n.kids[1], at + 3, in)
      dflt == All(n.kids[2], at + 3 + Len(case), in)
      end  == at + 3 + Len(case) + Len(dflt)
  IN  Bind(<<Ins("push", x), To("iftrue", at + 3, in), To("jump", at + 3 + Len(case), in)>>
             \o case \o dflt \o <<Ins("pop", in)>>, n, end, 0)

\* A label on anything but a loop or a switch.
Labeled(n, at, x) ==
  LET body == All(n.kids[1], at, x) IN Bind(body, n, at + Len(body), 0)

Handler(flags, catch, fin, x) ==
  [Ins("handler", x) EXCEPT !.l = flags, !.to = catch, !.fin = fin]

HasCatch(flags)   == flags \in {"c", "cf"}
HasFinally(flags) == flags \in {"f", "cf"}

\* A catch clause; with a finally block it has a handler of its own.
Catch(n, at, fin, x) ==
  LET own  == HasFinally(n.l)
      at1  == IF own THEN at + 1 ELSE at
      x1   == IF own THEN InHandler(x, at) ELSE x
      in   == InScope(x1, at1)
      body == <<Ins("push", x1)>> \o Scoped(n.kids[2], at1 + 1, in) \o <<Ins("pop", in)>>
  IN  IF own THEN <<Handler("f", fin, fin, x)>> \o body \o <<Ins("unhandler", x1)>>
      ELSE body

Try(n, at, x) ==
  LET body    == Scoped(n.kids[1], at + 1, InHandler(x, at))
      catchPc == at + 3 + Len(body)
      catch0  == IF HasCatch(n.l) THEN Catch(n, catchPc, 0, x) ELSE <<>>
      finPc   == catchPc + Len(catch0)
      catch   == IF HasCatch(n.l) THEN Catch(n, catchPc, finPc, x) ELSE <<>>
      finally == IF HasFinally(n.l)
                 THEN Scoped(n.kids[3], finPc, InFinally(x, at))
                        \o <<Ins("endfinally", InFinally(x, at))>>
                 ELSE <<>>
  IN  <<Handler(n.l, IF HasCatch(n.l) THEN catchPc ELSE finPc, finPc, x)>> \o body
        \o <<Ins("unhandler", InHandler(x, at)), To("jump", finPc, x)>> \o catch \o finally

Code(n, at, x) ==
  CASE n.k \in {"block", "with"} -> Scoped(n.kids[1], at, x)
    [] n.k = "if"      -> If(n, at, x)
    [] n.k = "while"   -> While(n, at, x)
    [] n.k = "do"      -> DoWhile(n, at, x)
    [] n.k = "for"     -> For(n, at, x)
    [] n.k = "foreach" -> ForEach(n, at, x)
    [] n.k = "switch"  -> Switch(n, at, x)
    [] n.k = "label"   -> Labeled(n, at, x)
    [] n.k = "try"     -> Try(n, at, x)
    [] OTHER           -> <<Simple(n, x)>>

\* The body of a function; it ends by returning undefined.
FunctionCode(body) ==
  LET code == All(body, 1, Top) IN Append(code, Ins("return", Top))

\* A jump without a statement to leave is a compile error.
Compiles(code) == \A i \in DOMAIN code : code[i].op \notin {"break", "continue"}
=============================================================================
