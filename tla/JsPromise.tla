------------------------------ MODULE JsPromise ------------------------------
(***************************************************************************)
(* Promises, the microtask queue and async functions of one interpreter    *)
(* (js/runtime/interpreter.cpp).  Script runs in turns the host starts and *)
(* in the callbacks of microtasks; it creates, settles and chains promises *)
(* and calls async functions.  A value is Plain, a thenable object whose   *)
(* then is a script function, or a promise.  The result promises of the    *)
(* reactions that the interpreter itself registers, which nothing can      *)
(* reach, are left out (result 0).                                         *)
(***************************************************************************)
EXTENDS Integers, Sequences, FiniteSets, SequencesExt

CONSTANTS
  MaxPromises,   (* bound: promises created                                *)
  MaxFrames,     (* bound: calls of async functions                        *)
  MaxReactions   (* bound: reactions registered                            *)

ASSUME JsPromiseAssumption ==
  /\ MaxPromises \in Nat
  /\ MaxFrames \in Nat
  /\ MaxReactions \in Nat

VARIABLES
  promises,   (* sequence of [state, value, reactions]                     *)
  jobs,       (* microtasks_: the queue of jobs                            *)
  frames,     (* the calls of async functions: [status, result]            *)
  open,       (* the promises whose resolve functions script holds         *)
  mode,       (* who runs: the host ("uncaught" after a script that threw), *)
              (* script, the checkpoint, a job's script                    *)
  back,       (* where run_microtasks returns to: "host" or "script"       *)
  current,    (* the job whose script code runs, or NoJob                  *)
  reactions   (* reactions registered so far: a reaction's id              *)

heap == <<promises, jobs, frames, open, reactions>>
vars == <<heap, mode, back, current>>

Plain == 0
Thenable == -1

Values == {Plain, Thenable} \cup DOMAIN promises

\* What a reaction calls: nothing (the value passes through), a script function,
\* the resolve or reject function of promise `of`, or the resumption of frame
\* `of`.
Handler(kind, of) == [kind |-> kind, of |-> of]
Handlers == [kind : {"none", "script", "settle", "resume"}, of : 0 .. MaxPromises + MaxFrames]

NoJob == [kind |-> "none", handler |-> Handler("none", 0), result |-> 0,
          fulfilled |-> TRUE, value |-> Plain, source |-> 0, id |-> 0]

-----------------------------------------------------------------------------
(* The promise operations, on a heap s = [promises, jobs, frames, open,    *)
(* reactions].                                                             *)

Heap == [promises |-> promises, jobs |-> jobs, frames |-> frames, open |-> open,
         reactions |-> reactions]

NewPromise == [state |-> "pending", value |-> Plain, reactions |-> <<>>]

WithPromise(s) == [s EXCEPT !.promises = Append(@, NewPromise)]

ReactionJob(r, source, fulfilled, value) ==
  [kind |-> "reaction", handler |-> IF fulfilled THEN r.onFulfilled ELSE r.onRejected,
   result |-> r.result, fulfilled |-> fulfilled, value |-> value, source |-> source, id |-> r.id]

ThenableJob(value, p) ==
  [NoJob EXCEPT !.kind = "thenable", !.value = value, !.result = p]

SettledBackwards(s, p, state, value) ==                         \* mutant
  LET fulfilled == state = "fulfilled"
      due == [k \in DOMAIN s.promises[p].reactions |->
                ReactionJob(s.promises[p].reactions[k], p, fulfilled, value)]
  IN  IF s.promises[p].state # "pending" THEN s
      ELSE [s EXCEPT !.promises[p] = [state |-> state, value |-> value, reactions |-> <<>>],
                     !.jobs = @ \o Reverse(due)]
Settled(s, p, state, value) ==
  LET fulfilled == state = "fulfilled"
      due == [k \in DOMAIN s.promises[p].reactions |->
                ReactionJob(s.promises[p].reactions[k], p, fulfilled, value)]
  IN  IF s.promises[p].state # "pending" THEN s
      ELSE [s EXCEPT !.promises[p] = [state |-> state, value |-> value, reactions |-> <<>>],
                     !.jobs = @ \o due]

Rejected(s, p, reason) == Settled(s, p, "rejected", reason)

Resolved(s, p, value) ==
  IF s.promises[p].state # "pending" THEN s
  ELSE CASE value = p -> Rejected(s, p, Plain)
         [] value # Plain /\ value # p -> [s EXCEPT !.jobs = Append(@, ThenableJob(value, p))]
         [] OTHER -> Settled(s, p, "fulfilled", value)

\* promise_then with a result promise that exists already, or 0.
Chained(s, p, onFulfilled, onRejected, result) ==
  LET r == [onFulfilled |-> onFulfilled, onRejected |-> onRejected, result |-> result,
            id |-> s.reactions + 1]
      promise == s.promises[p]
      counted == [s EXCEPT !.reactions = @ + 1]
  IN  IF promise.state = "pending"
      THEN [counted EXCEPT !.promises[p].reactions = Append(@, r)]
      ELSE [counted EXCEPT !.jobs =
              Append(@, ReactionJob(r, p, promise.state = "fulfilled", promise.value))]

\* promise_resolve_value: the heap, and the promise that stands for the value.
ResolveValue(s, value) ==
  IF value > 0 THEN [heap |-> s, promise |-> value]
  ELSE LET p == Len(s.promises) + 1
       IN  [heap |-> Resolved(WithPromise(s), p, value), promise |-> p]

-----------------------------------------------------------------------------
(* Async functions.  A body runs to its next await, its return or a throw;   *)
(* nothing looks into the reason of a rejection, which is Plain.           *)

Outcomes == [kind : {"await", "return"}, value : Values] \cup [kind : {"throw"}, value : {Plain}]

\* drive_async, after run_frame came back with the outcome.
Suspended(s, f, value) ==
  LET awaited == ResolveValue(s, value)
      resume == Handler("resume", f)
  IN  Chained([awaited.heap EXCEPT !.frames[f].status = "suspended"],
              awaited.promise, resume, resume, 0)

DrivenTwice(s, f, outcome) ==                                   \* mutant
  CASE outcome.kind = "await" -> Suspended(Suspended(s, f, outcome.value), f, outcome.value)
    [] outcome.kind = "return" ->
         [Resolved(s, s.frames[f].result, outcome.value) EXCEPT !.frames[f].status = "done"]
    [] OTHER ->
         [Rejected(s, s.frames[f].result, outcome.value) EXCEPT !.frames[f].status = "done"]
Driven(s, f, outcome) ==
  CASE outcome.kind = "await" -> Suspended(s, f, outcome.value)
    [] outcome.kind = "return" ->
         [Resolved(s, s.frames[f].result, outcome.value) EXCEPT !.frames[f].status = "done"]
    [] OTHER ->
         [Rejected(s, s.frames[f].result, outcome.value) EXCEPT !.frames[f].status = "done"]

\* call_async: the result promise, the frame, and its first run.
Called(s, outcome) ==
  LET p == Len(s.promises) + 1
      f == Len(s.frames) + 1
      started == [WithPromise(s) EXCEPT
                    !.frames = Append(@, [status |-> "running", result |-> p])]
  IN  Driven(started, f, outcome)

-----------------------------------------------------------------------------
(* The checkpoint.                                                         *)

Becomes(s) ==
  /\ promises' = s.promises
  /\ jobs' = s.jobs
  /\ frames' = s.frames
  /\ open' = s.open
  /\ reactions' = s.reactions

Thenables(s) == {k \in DOMAIN s.jobs : s.jobs[k].kind = "thenable"}

\* A bound on what script may do.  A thenable job has its reaction reserved, so
\* that the engine itself is never held up by a bound.
Fits(s) ==
  /\ Len(s.promises) <= MaxPromises
  /\ Len(s.frames) <= MaxFrames
  /\ s.reactions + Cardinality(Thenables(s)) <= MaxReactions

\* What a job does without calling script: the value passes through, settles
\* another promise, or is a promise whose outcome another one takes over.
DoneNatively(s, job) ==
  LET h == job.handler
  IN  CASE job.kind = "thenable" ->
             Chained(s, job.value, Handler("settle", job.result),
                     Handler("settle", job.result), 0)
        [] h.kind = "settle" ->
             IF job.fulfilled THEN Resolved(s, h.of, job.value) ELSE Rejected(s, h.of, job.value)
        [] h.kind = "none" /\ job.result = 0 -> s
        [] OTHER ->
             IF job.fulfilled THEN Resolved(s, job.result, job.value)
             ELSE Rejected(s, job.result, job.value)

CallsScript(job) ==
  (job.handler.kind \in {"script", "resume"}) \/ (job.kind = "thenable" /\ job.value = Thenable)

\* A thenable's then is handed the resolve functions of the promise that takes
\* it over; a resumed frame runs.
Entered(s, job) ==
  CASE job.kind = "thenable" -> [s EXCEPT !.open = @ \cup {job.result}]
    [] job.handler.kind = "resume" -> [s EXCEPT !.frames[job.handler.of].status = "running"]
    [] OTHER -> s

\* What script's return or throw means for the job.
Left(s, job, outcome) ==
  CASE job.kind = "thenable" -> s
    [] job.handler.kind = "resume" -> Driven(s, job.handler.of, outcome)
    [] OTHER ->
         IF outcome.kind = "throw" THEN Rejected(s, job.result, outcome.value)
         ELSE Resolved(s, job.result, outcome.value)

RunMicrotask ==
  /\ mode = "drain"
  /\ jobs # <<>>
  /\ LET job == Head(jobs)
         popped == [Heap EXCEPT !.jobs = Tail(jobs)]
     IN  IF CallsScript(job)
         THEN Becomes(Entered(popped, job)) /\ mode' = "job" /\ current' = job
         ELSE LET s == DoneNatively(popped, job)
              IN  Becomes(s) /\ UNCHANGED <<mode, current>>
  /\ UNCHANGED <<back>>

\* The job is popped together with the roots that kept its values alive.
Unrooted == current' = NoJob

JobReturns ==
  /\ mode = "job"
  /\ \E outcome \in Outcomes :
       /\ outcome.kind = "await" => current.handler.kind = "resume"
       /\ LET s == Left(Heap, current, outcome) IN Fits(s) /\ Becomes(s)
  /\ mode' = "drain"
  /\ Unrooted
  /\ UNCHANGED back

DrainedEarly == TRUE                                            \* mutant
Drained == jobs = <<>>

CheckpointEnds ==
  /\ mode = "drain"
  /\ Drained
  /\ mode' = back
  /\ UNCHANGED <<heap, back, current>>

-----------------------------------------------------------------------------
(* Script, in the host's turns and in jobs.                                *)

InScript == mode \in {"script", "job"}

Does(s) == InScript /\ Fits(s) /\ Becomes(s) /\ UNCHANGED <<mode, back, current>>

\* new Promise: the executor hands out its resolve functions.
Construct ==
  Does([WithPromise(Heap) EXCEPT !.open = @ \cup {Len(promises) + 1}])

Resolve(p, value) == Does(Resolved(Heap, p, value))

Reject(p, reason) == Does(Rejected(Heap, p, reason))

\* promise.then(f) and promise.catch(g).
Then(p, onFulfilled, onRejected) ==
  Does(Chained(WithPromise(Heap), p, onFulfilled, onRejected, Len(promises) + 1))

CallAsync(outcome) == Does(Called(Heap, outcome))

\* Native code that script calls waits for a promise: it runs a checkpoint, which
\* does nothing when one is under way, and then makes do with what it finds.
AwaitSettled ==
  /\ promises # <<>>
  /\ mode = "script"
  /\ mode' = "drain"
  /\ back' = "script"
  /\ UNCHANGED <<heap, current>>

Script == Handler("script", 0)
Absent == Handler("none", 0)

ScriptStep ==
  \/ Construct
  \/ \E p \in open, value \in Values : Resolve(p, value)
  \/ \E p \in open : Reject(p, Plain)
  \/ \E p \in DOMAIN promises : Then(p, Script, Absent) \/ Then(p, Absent, Script)
  \/ \E outcome \in Outcomes : CallAsync(outcome)
  \/ AwaitSettled

\* The host evaluates a script.  A checkpoint follows, unless the script throws;
\* then the jobs it queued wait for the next one.
TurnBegins ==
  /\ mode \in {"host", "uncaught"}
  /\ mode' = "script"
  /\ UNCHANGED <<heap, back, current>>

TurnEnds ==
  /\ mode = "script"
  /\ mode' = "drain"
  /\ back' = "host"
  /\ UNCHANGED <<heap, current>>

TurnThrows ==
  /\ mode = "script"
  /\ mode' = "uncaught"
  /\ UNCHANGED <<heap, back, current>>

\* The event loop's own checkpoints, in a run of the loop.
Pump ==
  /\ mode \in {"host", "uncaught"}
  /\ mode' = "drain"
  /\ back' = "host"
  /\ UNCHANGED <<heap, current>>

Init ==
  /\ promises = <<>> /\ jobs = <<>> /\ frames = <<>>
  /\ open = {} /\ reactions = 0
  /\ mode = "host" /\ back = "host" /\ current = NoJob

Engine == TurnEnds \/ RunMicrotask \/ JobReturns \/ CheckpointEnds

Next == TurnBegins \/ TurnThrows \/ Pump \/ ScriptStep \/ Engine

\* Script that runs comes to an end, the engine's own code runs on, and the host
\* keeps running the event loop.
Spec == Init /\ [][Next]_vars /\ WF_vars(Engine) /\ SF_vars(Pump)

-----------------------------------------------------------------------------
(* Properties.                                                             *)

Promise == [state : {"pending", "fulfilled", "rejected"}, value : {Plain, Thenable} \cup 1 .. MaxPromises,
            reactions : Seq([onFulfilled : Handlers, onRejected : Handlers,
                             result : 0 .. MaxPromises, id : 1 .. MaxReactions])]

Job == [kind : {"none", "reaction", "thenable"}, handler : Handlers, result : 0 .. MaxPromises,
        fulfilled : BOOLEAN, value : {Plain, Thenable} \cup 1 .. MaxPromises,
        source : 0 .. MaxPromises, id : 0 .. MaxReactions]

TypeOK ==
  /\ promises \in Seq(Promise) /\ Len(promises) <= MaxPromises
  /\ jobs \in Seq(Job) /\ current \in Job
  /\ frames \in Seq([status : {"running", "suspended", "done"}, result : 1 .. MaxPromises])
  /\ open \subseteq DOMAIN promises
  /\ reactions \in 0 .. MaxReactions
  /\ mode \in {"host", "uncaught", "script", "drain", "job"} /\ back \in {"host", "script"}
  /\ mode = "job" <=> current # NoJob

\* The jobs in the queue and the one under way that react to p.
JobIds(p) == {jobs[k].id : k \in {j \in DOMAIN jobs : jobs[j].kind = "reaction" /\ jobs[j].source = p}}
ListIds(p) == {promises[p].reactions[k].id : k \in DOMAIN promises[p].reactions}

\* A reaction is in one place: in the list of its promise while that is pending,
\* then in the queue of jobs, once; and the jobs of one promise run in the order
\* in which then was called (settle_promise, line 2121, and promise_then,
\* line 2199, put them in the queue).
ReactionsRunOnceInOrder ==
  /\ \A p \in DOMAIN promises : promises[p].state # "pending" => promises[p].reactions = <<>>
  /\ \A p \in DOMAIN promises : JobIds(p) \cap ListIds(p) = {}
  /\ \A j, k \in DOMAIN jobs :
       j < k /\ jobs[j].kind = "reaction" /\ jobs[k].kind = "reaction" /\ jobs[j].source = jobs[k].source
         => jobs[j].id < jobs[k].id

\* Everything that will resume a frame: reactions of pending promises and jobs.
Wakers(f) ==
  {r.id : r \in {q \in UNION {ToSet(promises[p].reactions) : p \in DOMAIN promises} :
                   q.onFulfilled = Handler("resume", f)}}
  \cup {j.id : j \in {i \in ToSet(jobs) : i.handler = Handler("resume", f)}}

\* A suspended call waits for exactly one thing, a running or finished one for
\* none, so no frame is resumed twice or lost; and its result promise is not
\* settled before the body is done (drive_async, line 2278). The queue, the frames and
\* the promises refer only to what exists.
OneWakerPerSuspendedFrame ==
  /\ TypeOK
  /\ \A f \in DOMAIN frames :
       /\ Cardinality(Wakers(f)) = IF frames[f].status = "suspended" THEN 1 ELSE 0
       /\ frames[f].status # "done" => promises[frames[f].result].state = "pending"

\* Every job that is queued runs, whatever the others queue behind it.
JobsRun ==
  \A n \in 1 .. MaxReactions :
    (\E k \in DOMAIN jobs : jobs[k].id = n) ~> ~ (\E k \in DOMAIN jobs : jobs[k].id = n)
=============================================================================
