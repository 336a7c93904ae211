------------------------------- MODULE JsFrame -------------------------------
(***************************************************************************)
(* One activation of a compiled function in the MalibuJS interpreter:      *)
(* Interpreter::run_frame (js/runtime/interpreter.cpp) with its program    *)
(* counter, lexical environment, handler stack and the two flags that a    *)
(* finally block leaves pending work in; the suspension of async functions *)
(* and generators, whose frames are run again later; and the functions     *)
(* that unwind.                                                            *)
(*                                                                         *)
(* What an expression does, whether a condition holds, how an awaited      *)
(* promise settles and what the owner of a generator calls is chosen by    *)
(* the environment and recorded in choices: 0 for a plain outcome, 1 for   *)
(* a throw or a condition that holds, 2 for return() of a generator.       *)
(*                                                                         *)
(* The compiler is a parameter. Its instructions have an operation (op),   *)
(* operands (l, id, to, fin), the statement that a jump leaves (by), and   *)
(* the static context that they were compiled in: the scopes (s), handlers *)
(* (h) and finally blocks (f) around them, each named by the address of    *)
(* the instruction that opens it.                                          *)
(***************************************************************************)
EXTENDS Naturals, Sequences, SequencesExt, FiniteSets, FiniteSetsExt

CONSTANTS
  Programs,     \* the function bodies considered
  Compile(_),   \* the code of a function body
  MaxChoices    \* after so many choices every outcome is plain (bounds loops)

Ops == {"ev", "update", "push", "pop", "jump", "iffalse", "iftrue", "handler", "unhandler",
        "throw", "return", "endfinally", "await", "yield"}

Context(c, i) == [s |-> c[i].s, h |-> c[i].h]

\* The context that instruction i leaves behind for the next one.
LeftBy(c, i) ==
  [s |-> CASE c[i].op = "push" -> Append(c[i].s, i)
           [] c[i].op = "pop"  -> Front(c[i].s)
           [] OTHER            -> c[i].s,
   h |-> CASE c[i].op = "handler"   -> Append(c[i].h, i)
           [] c[i].op = "unhandler" -> Front(c[i].h)
           [] OTHER                 -> c[i].h]

\* Instruction i leads to instructions of the code, in the context that they were
\* compiled in, unless it is a jump that leaves a statement.
LinkedAt(c, i) ==
  /\ c[i].op \in Ops /\ c[i].id \in Nat /\ c[i].s \in Seq(Nat) /\ c[i].h \in Seq(Nat)
  /\ c[i].op = "pop" => c[i].s # <<>>
  /\ c[i].op = "unhandler" => c[i].h # <<>>
  /\ c[i].op \notin {"jump", "throw", "return"} =>
       i + 1 \in DOMAIN c /\ Context(c, i + 1) = LeftBy(c, i)
  /\ c[i].op \in {"jump", "iffalse", "iftrue"} =>
       /\ c[i].to \in DOMAIN c
       /\ (c[i].op = "jump" /\ c[i].by # "") \/ Context(c, c[i].to) = Context(c, i)
  /\ c[i].op = "handler" =>
       /\ c[i].l \in {"c", "f", "cf"}
       /\ \A a \in {c[i].to, c[i].fin} : a \in DOMAIN c /\ Context(c, a) = Context(c, i)

\* The code of a function.
Linked(c) ==
  /\ 1 \in DOMAIN c /\ Context(c, 1) = [s |-> <<>>, h |-> <<>>]
  /\ \A i \in DOMAIN c : i \in Nat /\ LinkedAt(c, i)

ASSUME JsFrameAssumption ==
  /\ MaxChoices \in Nat
  /\ \A p \in Programs : Linked(Compile(p))

VARIABLES
  prog,       \* the body of the function that runs
  code,       \* Function::code, what it was compiled to
  frame,      \* Interpreter::Frame
  status,     \* "new" generator, "running", "waiting", "done"
  outcome,    \* how a frame that is done ended
  log,        \* what the program was seen to do
  choices     \* what the environment chose

frameVars == <<prog, code, frame, status, outcome, log, choices>>

here == code[frame.pc]

IsGenerator == \E i \in DOMAIN code : code[i].op = "yield"

\* Environment::parent of a function's own scope is the closure.
Closure == <<0, 0>>

NewFrame ==
  [pc |-> 1, env |-> Closure, handlers |-> <<>>, pending_exc |-> FALSE, exc_value |-> 0,
   pending_return |-> FALSE, return_value |-> 0, resume |-> "none"]

FrameInit ==
  /\ prog \in Programs
  /\ code = Compile(prog)
  /\ frame = NewFrame
  /\ status = IF IsGenerator THEN "new" ELSE "running"
  /\ outcome = [how |-> "none", v |-> 0]
  /\ log = <<>>
  /\ choices = <<>>

-----------------------------------------------------------------------------
Ends(f, how, v) ==
  /\ status' = "done"
  /\ outcome' = [how |-> how, v |-> v]
  /\ frame' = [f EXCEPT !.handlers = <<>>]

\* The next choice of the environment, from S while there are any left.
Choose(S) == IF Len(choices) < MaxChoices THEN S ELSE {0}

Jumps(f, pc) == [f EXCEPT !.pc = pc]

HasCatch(flags)   == flags \in {"c", "cf"}
HasFinally(flags) == flags \in {"f", "cf"}

\* Unwinding that leaves the environment of the throw in force.
UnwindInPlace(f, v, seen) ==                                       \* mutant
  IF f.handlers = <<>> THEN Ends(f, "throw", v) /\ log' = seen
  ELSE LET h == Last(f.handlers)
           g == [f EXCEPT !.handlers = Front(@), !.pending_return = FALSE]
       IN  /\ frame' = IF HasCatch(h.flags) THEN [g EXCEPT !.pc = h.catch, !.pending_exc = FALSE]
                       ELSE [g EXCEPT !.pc = h.fin, !.pending_exc = TRUE, !.exc_value = v]
           /\ log' = IF HasCatch(h.flags) THEN Append(seen, <<"catch", v>>) ELSE seen
           /\ UNCHANGED <<status, outcome>>

\* unwind_to_handler: the exception v is thrown in frame f.
Unwind(f, v, seen) ==
  IF f.handlers = <<>> THEN Ends(f, "throw", v) /\ log' = seen
  ELSE LET h == Last(f.handlers)
           g == [f EXCEPT !.handlers = Front(@), !.env = h.env, !.pending_return = FALSE]
       IN  /\ frame' = IF HasCatch(h.flags) THEN [g EXCEPT !.pc = h.catch, !.pending_exc = FALSE]
                       ELSE [g EXCEPT !.pc = h.fin, !.pending_exc = TRUE, !.exc_value = v]
           /\ log' = IF HasCatch(h.flags) THEN Append(seen, <<"catch", v>>) ELSE seen
           /\ UNCHANGED <<status, outcome>>

\* A return that runs only the innermost handler, whatever it is.
ReturnFirst(f) ==                                                  \* mutant
  IF f.handlers = <<>> \/ ~HasFinally(Last(f.handlers).flags) THEN Ends(f, "return", f.return_value)
  ELSE LET h == Last(f.handlers) IN
       /\ frame' = [f EXCEPT !.handlers = Front(@), !.env = h.env,
                             !.pending_exc = FALSE, !.pending_return = TRUE, !.pc = h.fin]
       /\ UNCHANGED <<status, outcome>>

\* unwind_return_to_finally: f returns its return_value.
Return(f) ==
  LET fins == {j \in DOMAIN f.handlers : HasFinally(f.handlers[j].flags)} IN
  IF fins = {} THEN Ends(f, "return", f.return_value)
  ELSE LET h == f.handlers[Max(fins)] IN
       /\ frame' = [f EXCEPT !.handlers = SubSeq(@, 1, Max(fins) - 1), !.env = h.env,
                             !.pending_exc = FALSE, !.pending_return = TRUE, !.pc = h.fin]
       /\ UNCHANGED <<status, outcome>>

Next1(f) == Jumps(f, f.pc + 1)

Quiet == UNCHANGED <<status, outcome, log, choices>>

-----------------------------------------------------------------------------
(* The instructions.                                                       *)

At(ops) == status = "running" /\ here.op \in ops /\ UNCHANGED <<prog, code>>

\* An expression: it is seen, and may throw.
Evaluate ==
  /\ At({"ev"})
  /\ \E c \in Choose({0, 1}) :
       /\ choices' = Append(choices, c)
       /\ LET seen == Append(log, <<"ev", here.id>>) IN
          IF c = 1 THEN Unwind(frame, here.id, seen)
          ELSE frame' = Next1(frame) /\ log' = seen /\ UNCHANGED <<status, outcome>>

\* The update of a for statement.
Update ==
  /\ At({"update"})
  /\ frame' = Next1(frame)
  /\ log' = Append(log, <<"update", here.id>>)
  /\ UNCHANGED <<status, outcome, choices>>

Scope ==
  /\ At({"push", "pop"})
  /\ frame' = [Next1(frame) EXCEPT
       !.env = IF here.op = "push" THEN Append(@, frame.pc)
               ELSE IF Len(@) > 1 THEN Front(@) ELSE @]
  /\ Quiet

Jump ==
  /\ At({"jump"})
  /\ frame' = Jumps(frame, here.to)
  /\ Quiet

Branch ==
  /\ At({"iffalse", "iftrue"})
  /\ \E c \in Choose({0, 1}) :
       /\ choices' = Append(choices, c)
       /\ frame' = IF (c = 1) = (here.op = "iftrue") THEN Jumps(frame, here.to) ELSE Next1(frame)
  /\ UNCHANGED <<status, outcome, log>>

SetHandler ==
  /\ At({"handler", "unhandler"})
  /\ frame' = [Next1(frame) EXCEPT
       !.handlers = IF here.op = "handler"
                    THEN Append(@, [flags |-> here.l, catch |-> here.to, fin |-> here.fin,
                                    env |-> frame.env, at |-> frame.pc])
                    ELSE IF @ = <<>> THEN @ ELSE Front(@)]
  /\ Quiet

Throw ==
  /\ At({"throw"})
  /\ Unwind([frame EXCEPT !.pending_return = FALSE], here.id, log)
  /\ UNCHANGED choices

ReturnValue ==
  /\ At({"return"})
  /\ Return([frame EXCEPT !.return_value = here.id, !.pending_exc = FALSE])
  /\ UNCHANGED <<log, choices>>

EndFinally ==
  /\ At({"endfinally"})
  /\ \/ /\ frame.pending_exc
        /\ Unwind([frame EXCEPT !.pending_exc = FALSE], frame.exc_value, log)
     \/ /\ ~frame.pending_exc /\ frame.pending_return
        /\ Return([frame EXCEPT !.pending_return = FALSE]) /\ UNCHANGED log
     \/ /\ ~frame.pending_exc /\ ~frame.pending_return
        /\ frame' = Next1(frame) /\ UNCHANGED <<status, outcome, log>>
  /\ UNCHANGED choices

\* await and yield suspend the frame before the instruction, which runs
\* again when the frame is resumed.
Suspend ==
  /\ At({"await", "yield"})
  /\ UNCHANGED choices
  /\ \/ /\ frame.resume = "none"
        /\ status' = "waiting" /\ UNCHANGED <<frame, outcome, log>>
     \/ /\ frame.resume = "value"
        /\ frame' = [Next1(frame) EXCEPT !.resume = "none"] /\ UNCHANGED <<status, outcome, log>>
     \/ /\ frame.resume = "throw"
        /\ Unwind([frame EXCEPT !.resume = "none"], here.id, log)

-----------------------------------------------------------------------------
(* Those who hold a suspended frame.                                       *)

RunsOn(c) ==
  /\ status' = "running"
  /\ frame' = [frame EXCEPT !.resume = IF status = "new" THEN "none"
                                       ELSE IF c = 1 THEN "throw" ELSE "value"]
  /\ UNCHANGED outcome

\* resume_async: the awaited promise is fulfilled or rejected.
ResumeAsync ==
  /\ status = "waiting" /\ here.op = "await"
  /\ \E c \in Choose({0, 1}) : choices' = Append(choices, c) /\ RunsOn(c)
  /\ UNCHANGED <<prog, code, log>>

\* gen_resume: next(), throw() or return() of the generator.
ResumeGenerator ==
  /\ status = "new" \/ (status = "waiting" /\ here.op = "yield")
  /\ \E c \in Choose({0, 1, 2}) :
       /\ choices' = Append(choices, c)
       /\ IF c = 2 THEN Ends(frame, "return", 0)
          ELSE IF c = 1 /\ status = "new" THEN Ends(frame, "throw", 0)
          ELSE RunsOn(c)
  /\ UNCHANGED <<prog, code, log>>

Step ==
  \/ Evaluate \/ Update \/ Scope \/ Jump \/ Branch
  \/ SetHandler \/ Throw \/ ReturnValue \/ EndFinally \/ Suspend

FrameNext == Step \/ ResumeAsync \/ ResumeGenerator

FrameSpec == FrameInit /\ [][FrameNext]_frameVars
-----------------------------------------------------------------------------
(* Which programs the machine is expected to run as the source says.       *)

JumpsIn(c) == {i \in DOMAIN c : c[i].op = "jump" /\ c[i].by # ""}

\* No break or continue leaves a try statement or a finally block.
LeavesNoTry(c) ==
  \A i \in JumpsIn(c) : c[c[i].to].h = c[i].h /\ c[c[i].to].f = c[i].f

\* No break or continue leaves a block or a loop with a scope.
LeavesNoScope(c) == \A i \in JumpsIn(c) : c[c[i].to].s = c[i].s

\* No try statement stands in a finally block.
PlainFinally(c) == \A i \in DOMAIN c : c[i].op = "handler" => c[i].f = <<>>

\* No unlabelled break stands in a labelled block inside its loop.
BreaksFindTheirLoop(c) == \A i \in JumpsIn(c) : ~(c[i].by = "label" /\ c[i].l = "")

\* No generator is left by return() where a finally block waits.
ReturnsPassNoFinally(c) ==
  \A i \in DOMAIN c : c[i].op = "yield" =>
    \A j \in DOMAIN c[i].h : ~HasFinally(c[c[i].h[j]].l)

Supported(c) ==
  LeavesNoTry(c) /\ PlainFinally(c) /\ BreaksFindTheirLoop(c) /\ ReturnsPassNoFinally(c)

-----------------------------------------------------------------------------
\* The frame has the shape the instructions expect.
FrameOK ==
  /\ frame.pc \in DOMAIN code
  /\ Len(frame.env) > 0
  /\ \A j \in DOMAIN frame.handlers :
       LET h == frame.handlers[j] IN
       h.flags \in {"c", "f", "cf"} /\ h.catch \in DOMAIN code /\ h.fin \in DOMAIN code
  /\ status \in {"new", "running", "waiting", "done"}
  /\ frame.resume = "none" \/ (status = "running" /\ here.op \in {"await", "yield"})
  /\ ~(frame.pending_exc /\ frame.pending_return)

\* Between any two instructions the handlers in force are those of the try
\* statements around the instruction, and the environment is that of the
\* blocks around it, unless a jump of the program leaves a try or a block; the next
\* instruction and those of the handlers are instructions of the function.
StacksAreStatic ==
  /\ FrameOK
  /\ status \in {"running", "waiting"} =>
       /\ LeavesNoTry(code) => [j \in DOMAIN frame.handlers |-> frame.handlers[j].at] = here.h
       /\ LeavesNoTry(code) /\ LeavesNoScope(code) => frame.env = Closure \o here.s

\* compiler.h:5: "named variables live in lexical Environments": between two
\* instructions the environment in force is that of the blocks around them.
EnvironmentsAreLexical ==
  status \in {"running", "waiting"} => frame.env = Closure \o here.s
=============================================================================
