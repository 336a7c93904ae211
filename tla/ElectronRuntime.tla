-------------------------- MODULE ElectronRuntime --------------------------
(***************************************************************************)
(* The Electron runtime (malibu-electron/electron_runtime.cpp): a main     *)
(* script and the page of each window in realms of their own, which call   *)
(* each other at once, in the middle of the caller's script.               *)
(*                                                                         *)
(* A script, a handler and a job are sequences of operations, of which one *)
(* may throw; what they compute is left out. The channels of messages, and *)
(* JSON, are too: a realm has one channel of each kind. A realm is "main"  *)
(* or a window.                                                            *)
(***************************************************************************)
EXTENDS Naturals, Sequences, SequencesExt

None == <<>>

\* ipc_on_, ipc_handle_ (each the last handler given), on_handlers of the windows,
\* the reactions of whenReady, the promises of the handlers that were invoked, the
\* jobs, the main realm's timers and the checkpoints under way; thrown while a
\* ThrowSignal is on its way; log is a history for the properties.
NewRuntime(windows) ==
  [on |-> None, handle |-> None, windows |-> <<>>, listeners |-> [w \in windows |-> <<>>],
   ready |-> <<>>, resolved |-> FALSE, promises |-> <<>>,
   jobs |-> [r \in windows \cup {"main"} |-> <<>>], timers |-> <<>>, draining |-> {},
   quit |-> FALSE, thrown |-> FALSE, log |-> <<>>]

Logged(s, e) == [s EXCEPT !.log = Append(@, e)]
Caught(s) == [s EXCEPT !.thrown = FALSE]
WithJob(s, r, ops) == [s EXCEPT !.jobs[r] = Append(@, ops)]

RECURSIVE Exec(_, _, _), Jobs(_, _), DeliverLive(_, _, _)

\* run_microtasks: nothing inside a checkpoint of the same realm. A reaction, and
\* a callback of queueMicrotask, catches what it throws.
Drain(s, r) == IF r \in s.draining THEN s ELSE [Jobs([s EXCEPT !.draining = @ \cup {r}], r) EXCEPT !.draining = @ \ {r}]
Jobs(s, r) ==
  IF s.jobs[r] = <<>> THEN s
  ELSE LET begun == Logged([s EXCEPT !.jobs[r] = Tail(@)], <<"job", r>>)
       IN  Jobs(Logged(Caught(Exec(begun, r, Head(s.jobs[r]))), <<"done", r>>), r)

\* renderer_send: the checkpoint runs also after a handler that throws.
ToMain(s, op) ==
  IF s.on = None THEN s
  ELSE Drain(Caught(Exec(Logged(s, <<"main got", op.id>>), "main", s.on[1])), "main")

(***************************************************************************)
(* A handler of invoke is [ops, by, with]: it returns a value, or it is    *)
(* asynchronous and its promise is settled as it returns ("async"), by a   *)
(* job or by a timer; one that throws has rejected its promise. promises   *)
(* says what became of each call.                                          *)
(***************************************************************************)
Settle(n, how) == [do |-> "settle", n |-> n, how |-> how]
Settled(s, n, how) == [s EXCEPT !.promises[n] = how]
Promised(s, n, h) ==
  CASE s.thrown                    -> Settled(Caught(s), n, "rejected")
    [] h.by \in {"value", "async"} -> Settled(s, n, h.with)
    [] h.by = "job"                -> WithJob(s, "main", <<Settle(n, h.with)>>)
    [] h.by = "timer"              -> [s EXCEPT !.timers = Append(@, <<Settle(n, h.with)>>)]

\* renderer_invoke, with await_settled: a promise is waited for no longer than one
\* checkpoint, which does nothing inside another. The page's own promise is resolved
\* with the answer, so that its reaction is a job of the page.
Invoke(s, w, op) ==
  LET n     == Len(s.promises) + 1
      asked == Logged([s EXCEPT !.promises = Append(@, "pending")], <<"asked", n, s.handle>>)
      h     == s.handle[1]
      ran   == Promised(Exec(asked, "main", h.ops), n, h)
      after == CASE s.handle = None -> Settled(asked, n, "rejected")
                 [] h.by = "value"  -> ran
                 [] OTHER           -> Drain(ran, "main")
      value == CASE after.promises[n] = "result"   -> "result"
                 [] after.promises[n] = "rejected" -> "null"
                 [] after.promises[n] = "pending"  -> "undefined"
  IN  WithJob(Logged(after, <<"answer", n, value>>), w, op.then)

\* main_send: to a copy of the handlers, whatever one of them throws; a page without
\* handlers gets no checkpoint.
Told(s, w, h) == Caught(Exec(Logged(s, <<"got", w, h.id>>), w, h.ops))
DeliverToThrow(s, w, handlers) ==                                  \* mutant
  LET throw == SelectInSeq(handlers, LAMBDA h : \E i \in DOMAIN h.ops : h.ops[i].do = "throw")
  IN  FoldLeft(LAMBDA x, h : Told(x, w, h), s, IF throw = 0 THEN handlers ELSE SubSeq(handlers, 1, throw))
Deliver(s, w, handlers) == FoldLeft(LAMBDA x, h : Told(x, w, h), s, handlers)

\* To the handlers there are when the turn of each comes.
DeliverLive(s, w, n) ==
  IF n > Len(s.listeners[w]) THEN s ELSE DeliverLive(Told(s, w, s.listeners[w][n]), w, n + 1)
PushedLive(s, w) == IF s.listeners[w] = <<>> THEN s ELSE Drain(DeliverLive(s, w, 1), w)   \* mutant

Pushed(s, w) == IF s.listeners[w] = <<>> THEN s ELSE Drain(Deliver(s, w, s.listeners[w]), w)

\* load_file: the page's script, then the checkpoints of load_html, which come also
\* when the script throws. The handlers of the page before stay.
Load(s, w, ops) == Drain(Caught(Exec(Logged(s, <<"load", w>>), w, ops)), w)

\* app.whenReady().then: the promise is made by the first call, and resolved by
\* run_main if it was made by then.
WhenReady(s, ops) == IF s.resolved THEN WithJob(s, "main", ops) ELSE [s EXCEPT !.ready = Append(@, ops)]

\* What the main script and its handlers may do.
MainStep(s, op) ==
  CASE op.do = "on"       -> [s EXCEPT !.on = <<op.ops>>]
    [] op.do = "handle"   -> [s EXCEPT !.handle = <<op.handler>>]
    [] op.do = "ready"    -> WhenReady(s, op.ops)
    [] op.do = "quit"     -> [s EXCEPT !.quit = TRUE]
    [] op.do = "window"   -> [s EXCEPT !.windows = Append(@, op.w)]
    [] op.do = "load"     -> IF Contains(s.windows, op.w) THEN Load(s, op.w, op.ops) ELSE s
    [] op.do = "push"     -> IF Contains(s.windows, op.w)
                             THEN Logged(Pushed(Logged(s, <<"push", op.w, s.listeners[op.w]>>), op.w), <<"pushed", op.w>>) ELSE s
    [] op.do = "settle"   -> Settled(s, op.n, op.how)
    [] OTHER -> s
\* What a page may do.
RendererStep(s, w, op) ==
  CASE op.do = "listen"   -> [s EXCEPT !.listeners[w] = Append(@, [id |-> op.id, ops |-> op.ops])]
    [] op.do = "send"     -> ToMain(s, op)
    [] op.do = "invoke"   -> Invoke(s, w, op)
    [] OTHER -> s

Step(s, r, op) ==
  CASE op.do = "job"      -> WithJob(s, r, op.ops)
    [] op.do = "throw"    -> [s EXCEPT !.thrown = TRUE]
    [] OTHER -> IF r = "main" THEN MainStep(s, op) ELSE RendererStep(s, r, op)

\* A throw ends what runs.
Exec(s, r, ops) == FoldLeft(LAMBDA x, op : IF x.thrown THEN x ELSE Step(x, r, op), s, ops)

\* run_event_loop: the timers, and a checkpoint before the first and after each.
RECURSIVE RunLoop(_)
RunLoop(s) ==
  LET drained == Drain(s, "main")
  IN  IF drained.timers = <<>> THEN drained
      ELSE RunLoop(Caught(Exec([drained EXCEPT !.timers = Tail(@)], "main", Head(drained.timers))))

\* run_main: the script and its checkpoint, the reactions of whenReady, the loop; only
\* a script that ends is followed.
RunMain(windows, script) ==
  LET ran     == Exec(NewRuntime(windows), "main", script)
      drained == Drain(ran, "main")
      readied == [drained EXCEPT !.resolved = drained.ready # <<>>, !.ready = <<>>,
                                 !.jobs["main"] = @ \o drained.ready]
  IN  IF ran.thrown THEN ran ELSE RunLoop(readied)
=============================================================================
