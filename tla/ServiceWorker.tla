--------------------------- MODULE ServiceWorker ---------------------------
(***************************************************************************)
(* A service worker (malibu-app-runtime/service_worker.cpp): its lifecycle *)
(* and the answering of fetches by the listeners of its script.            *)
(*                                                                         *)
(* What a listener does is a sequence of operations on the event of the    *)
(* moment or on one it has kept. A promise is named; it is settled by a    *)
(* job, rejected by one, or waits for more than jobs.                      *)
(***************************************************************************)
EXTENDS Naturals, Sequences, FiniteSets, SequencesExt

NewWorker == [state |-> "parsed", listeners |-> [t \in {"install", "activate", "fetch"} |-> <<>>], waits |-> <<>>,
              roots |-> <<>>, responded |-> FALSE, respond |-> "none", settled |-> {}, jobs |-> <<>>]

\* register_script: what it has registered when it throws stays.
Register(s, listeners, ok) ==
  LET with == FoldLeft(LAMBDA x, l : [x EXCEPT !.listeners[l.type] = Append(@, l.ops), !.roots = Append(@, l)], s, listeners)
  IN  IF ok THEN with ELSE [with EXCEPT !.state = "failed"]

RECURSIVE Run(_, _, _), RunJobs(_)

WithJob(s, p) == [s EXCEPT !.jobs = IF p.when = "job" THEN Append(@, p) ELSE @]

\* One listener for an event; a throw ends it, and so does what the event has not.
Run(s, type, ops) ==
  IF ops = <<>> THEN s
  ELSE LET op == Head(ops)
       IN  CASE op.do = "wait" /\ type # "fetch" ->
                  Run(WithJob([s EXCEPT !.waits = Append(@, op.p), !.roots = Append(@, op.p)], op.p), type, Tail(ops))
             [] op.do = "respond" /\ type = "fetch" ->
                  Run(WithJob([s EXCEPT !.responded = TRUE, !.respond = op.p], op.p), type, Tail(ops))
             [] op.do = "nothing" -> Run(s, type, Tail(ops))
             [] OTHER -> s

RunJobs(s) == IF s.jobs = <<>> THEN s ELSE RunJobs([s EXCEPT !.settled = @ \cup {Head(s.jobs)}, !.jobs = Tail(@)])

\* A listener that throws ends the event.
CalledToThrow(s, type) ==                                          \* mutant
  LET ops   == s.listeners[type]
      throw == SelectInSeq(ops, LAMBDA l : \E i \in 1..Len(l) : l[i].do = "throw")
  IN  FoldLeft(LAMBDA x, l : Run(x, type, l), s, IF throw = 0 THEN ops ELSE SubSeq(ops, 1, throw))
Called(s, type) == FoldLeft(LAMBDA x, l : Run(x, type, l), s, s.listeners[type])

Dispatch(s, type) == RunJobs(Called(s, type))

\* install and activate: the promises the event was told to wait for, as far as
\* jobs settle them; one that is rejected counts as settled.
Lifecycle(s, type, during, after) ==
  LET ran == Dispatch([s EXCEPT !.state = during, !.waits = <<>>], type)
  IN  [ran EXCEPT !.waits = <<>>, !.state = after, !.roots = SelectSeq(@, LAMBDA r : ~Contains(ran.waits, r))]

Install(s)  == Lifecycle(s, "install", "installing", "installed")
Activate(s) == Lifecycle(s, "activate", "activating", "activated")

\* handle_fetch: the worker and the answer, "none" to leave it to the network.
HandleFetch(s) ==
  IF s.state # "activated" THEN [s |-> s, answer |-> "none"]
  ELSE LET ran  == Called([s EXCEPT !.responded = FALSE, !.respond = "undefined"], "fetch")
           done == RunJobs(ran)
           p    == ran.respond
       IN  [s |-> done,
            answer |-> IF ~ran.responded THEN "none"
                       ELSE IF p.when = "now" THEN p.value
                       ELSE IF p \notin done.settled THEN "undefined"
                       ELSE IF p.value = "rejected" THEN "none" ELSE p.value]
=============================================================================
