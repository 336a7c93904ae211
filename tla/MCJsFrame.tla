------------------------------ MODULE MCJsFrame ------------------------------
(***************************************************************************)
(* Bounded programs for JsFrame: a leaf statement inside up to three       *)
(* nested contexts, with evaluations that may throw around it, compiled by *)
(* JsCompiler; and what their source means, by completions, as the         *)
(* language defines it: a statement completes normally, or with a break, a *)
(* continue, a return or a throw that the statements around it handle or   *)
(* pass on. This is the reference the compiled code is compared with;      *)
(* nothing of it is taken from the implementation.                         *)
(***************************************************************************)
EXTENDS JsFrame

Compiler == INSTANCE JsCompiler

MCCompile(p) == Compiler!FunctionCode(p)

N(k, l, id, kids) == [k |-> k, l |-> l, id |-> id, kids |-> kids]
Ev(id) == N("ev", "", id, <<>>)

\* The first of a program's labels is "a", others are not jumped to.
LabelOf(id) == IF id = 20 THEN "a" ELSE "b"

\* The statement s in a context of kind c, with numbers from id on.
Within(c, s, id) ==
  LET in == <<s, Ev(id + 1)>> IN
  CASE c \in {"block", "if", "while", "do", "for", "foreach"}
         -> N(c, IF c \in {"block", "if"} THEN "" ELSE LabelOf(id), id,
              <<in, <<Ev(id + 2)>>>>)
    [] c = "whileblock" -> N("while", "", id, <<<<N("block", "", id, <<in>>)>>>>)
    [] c = "label"   -> N("label", LabelOf(id), id, <<in>>)
    [] c = "case"    -> N("switch", "", id, <<in, <<Ev(id + 2)>>>>)
    [] c = "try c"   -> N("try", "c", id, <<in, <<Ev(id + 2)>>, <<>>>>)
    [] c = "catch"   -> N("try", "c", id, <<<<Ev(id + 2)>>, in, <<>>>>)
    [] c = "try f"   -> N("try", "f", id, <<in, <<>>, <<Ev(id + 3)>>>>)
    [] c = "finally" -> N("try", "f", id, <<<<Ev(id + 2)>>, <<>>, in>>)
    [] c = "try cf"  -> N("try", "cf", id, <<in, <<Ev(id + 2)>>, <<Ev(id + 3)>>>>)
    [] c = "catch f" -> N("try", "cf", id, <<<<Ev(id + 2)>>, in, <<Ev(id + 3)>>>>)

Contexts == <<"block", "if", "while", "do", "for", "foreach", "whileblock", "label", "case",
              "try c", "catch", "try f", "finally", "try cf", "catch f">>

\* The context of a third level.
Outer == <<"try cf">>

Leaves ==
  [i \in 1..7 |-> N(<<"ev", "throw", "return", "await", "yield", "break", "continue">>[i], "", 40, <<>>)]
    \o <<N("break", "a", 40, <<>>), N("continue", "a", 40, <<>>)>>

\* The statement s in the context numbered c of contexts, or as it is.
Wrap(contexts, c, s, id) == IF c = 0 THEN s ELSE Within(contexts[c], s, id)

MCPrograms ==
  LET bodies ==
        {<<Wrap(Outer, o, Wrap(Contexts, c, Wrap(Contexts, d, Leaves[l], 30), 20), 10), Ev(50)>> :
           o \in 0..Len(Outer), c \in 1..Len(Contexts), d \in 0..Len(Contexts), l \in 1..Len(Leaves)}
  IN  {p \in bodies : Compiler!Compiles(MCCompile(p))}

-----------------------------------------------------------------------------
(* The meaning of a program.  Run(list, cs) executes a list of statements,  *)
(* where cs are the choices of the environment still to come: how an        *)
(* evaluation or a suspension ends and whether a condition holds. The       *)
(* result is the completion (how), its label (l) and value (v), what was    *)
(* seen (log), and the choices left (cs).                                   *)

FirstOf(cs) == IF cs = <<>> THEN 0 ELSE Head(cs)
RestOf(cs)  == IF cs = <<>> THEN cs ELSE Tail(cs)

Result(how, l, v, seen, cs) == [how |-> how, l |-> l, v |-> v, log |-> seen, cs |-> cs]
Normal(seen, cs) == Result("normal", "", 0, seen, cs)

\* r after the events of before.
After(before, r) == [r EXCEPT !.log = before \o @]

\* The completion r of a body leaves, or goes round, the loop or switch n.
Breaks(n, r)    == r.how = "break" /\ r.l \in {"", n.l}
Continues(n, r) == r.how = "normal" \/ (r.how = "continue" /\ r.l \in {"", n.l})

Leaf(n, cs) ==
  CASE n.k = "ev" -> IF FirstOf(cs) = 1
                     THEN Result("throw", "", n.id, <<<<"ev", n.id>>>>, RestOf(cs))
                     ELSE Normal(<<<<"ev", n.id>>>>, RestOf(cs))
    [] n.k \in {"await", "yield"} ->
         CASE FirstOf(cs) = 1 -> Result("throw", "", n.id, <<>>, RestOf(cs))
           [] FirstOf(cs) = 2 -> Result("return", "", 0, <<>>, RestOf(cs))
           [] OTHER         -> Normal(<<>>, RestOf(cs))
    [] OTHER -> Result(n.k, n.l, n.id, <<>>, cs)

RECURSIVE Run(_, _), Do(_, _), Loop(_, _), Finish(_, _)

Run(list, cs) ==
  IF list = <<>> THEN Normal(<<>>, cs)
  ELSE LET r == Do(Head(list), cs) IN
       IF r.how = "normal" THEN After(r.log, Run(Tail(list), r.cs)) ELSE r

\* The loop n from the test of its condition on.
Loop(n, cs) ==
  IF FirstOf(cs) = 0 THEN Normal(<<>>, RestOf(cs)) ELSE Finish(n, RestOf(cs))

\* The loop n from its body on.
Finish(n, cs) ==
  LET r == Run(n.kids[1], cs)
      update == IF n.k = "for" THEN <<<<"update", n.id>>>> ELSE <<>>
  IN  IF Breaks(n, r) THEN Normal(r.log, r.cs)
      ELSE IF Continues(n, r) THEN After(r.log \o update, Loop(n, r.cs))
      ELSE r

Do(n, cs) ==
  CASE n.k \in {"block", "with"} -> Run(n.kids[1], cs)
    [] n.k = "if" -> Run(n.kids[IF FirstOf(cs) = 1 THEN 1 ELSE 2], RestOf(cs))
    [] n.k \in {"while", "for", "foreach"} -> Loop(n, cs)
    [] n.k = "do" -> Finish(n, cs)
    [] n.k = "switch" ->
         LET r == Run(IF FirstOf(cs) = 1 THEN n.kids[1] \o n.kids[2] ELSE n.kids[2], RestOf(cs))
         IN  IF Breaks(n, r) THEN Normal(r.log, r.cs) ELSE r
    [] n.k = "label" ->
         LET r == Run(n.kids[1], cs)
         IN  IF r.how = "break" /\ r.l = n.l THEN Normal(r.log, r.cs) ELSE r
    [] n.k = "try" ->
         LET b == Run(n.kids[1], cs)
             c == IF b.how = "throw" /\ n.l \in {"c", "cf"}
                  THEN After(Append(b.log, <<"catch", b.v>>), Run(n.kids[2], b.cs))
                  ELSE b
             f == Run(n.kids[3], c.cs)
         IN  IF n.l = "c" THEN c
             ELSE IF f.how = "normal" THEN [c EXCEPT !.log = @ \o f.log, !.cs = f.cs]
             ELSE After(c.log, f)
    [] OTHER -> Leaf(n, cs)

\* A call of a function: a body that completes normally returns undefined.
\* A generator is resumed once before its body starts.
Call(body, isGenerator, cs) ==
  CASE isGenerator /\ FirstOf(cs) = 1 -> Result("throw", "", 0, <<>>, RestOf(cs))
    [] isGenerator /\ FirstOf(cs) = 2 -> Result("return", "", 0, <<>>, RestOf(cs))
    [] OTHER ->
         LET r == Run(body, IF isGenerator THEN RestOf(cs) ELSE cs)
         IN  IF r.how = "normal" THEN [r EXCEPT !.how = "return"] ELSE r

-----------------------------------------------------------------------------
\* A call that ends has done what the source says: it evaluated the same
\* expressions, caught the same exceptions, ran the same finally blocks and
\* came back with the same value or exception, for every program without a
\* construct that the compiler is known to get wrong.
FollowsTheSource ==
  (status = "done" /\ Supported(code)) =>
    LET r == Call(prog, IsGenerator, choices)
    IN  /\ outcome = [how |-> r.how, v |-> r.v]
        /\ log = r.log
        /\ r.cs = <<>>
=============================================================================
