------------------------------- MODULE JsHeap -------------------------------
(***************************************************************************)
(* The heap of MalibuJS and its collector (js/heap/heap.cpp), with all     *)
(* that holds objects while scripts run: frames, suspended and of          *)
(* generators, calls, jobs, timers, and the locals of native functions     *)
(* that call back (js/runtime/interpreter.cpp, js/runtime/builtins.cpp).   *)
(*                                                                         *)
(* A value is the number of an object, or 0 for a primitive. An object     *)
(* that is deleted leaves the domain of objs; its number may be used       *)
(* again. Of a reaction, the handler that will be called is kept; an       *)
(* iterator's result object is left out. A collection may take place       *)
(* before any instruction of a script: when it is worth while is left out. *)
(***************************************************************************)
EXTENDS Naturals, Sequences, FiniteSets, SequencesExt

CONSTANTS MaxObjects, MaxFrames, MaxOps,   \* bounds: at a time, and of instructions
          CollectsInNext,                  \* a collection may hit a script's iterator
          RefillsWalked                    \* callbacks may add to the array that is walked

VARIABLE subject

(***************************************************************************)
(* Objects. refs are what an object refers to: the elements of an array,   *)
(* the parent and the variable of an environment, the closure of a script  *)
(* function, the promise of a resolving function, the result of a promise. *)
(* frame is the frame of a generator, or the one that a function resumes.  *)
(***************************************************************************)
Object(kind, refs) == [kind |-> kind, refs |-> refs, settled |-> FALSE, reactions |-> <<>>, frame |-> 0]

\* Heap::alloc, which never collects.
Fresh(s) == CHOOSE i \in 1..MaxObjects : i \notin DOMAIN s.objs /\ \A j \in 1..(i - 1) : j \in DOMAIN s.objs
Alloc(s, o) == [s EXCEPT !.objs = [i \in DOMAIN @ \cup {Fresh(s)} |-> IF i \in DOMAIN @ THEN @[i] ELSE o]]
Room(s, n) == Cardinality(DOMAIN s.objs) + n <= MaxObjects
Kind(s, v) == IF v = 0 THEN "primitive" ELSE s.objs[v].kind

\* What is marked from an object: not the frame of a generator.
TraceResults(o) == ToSet(o.refs) \cup {o.reactions[i].result : i \in DOMAIN o.reactions}   \* mutant
Trace(o) == ToSet(o.refs) \cup UNION {{o.reactions[i].on, o.reactions[i].result} : i \in DOMAIN o.reactions}

(***************************************************************************)
(* The roots. stack is the C++ stack: frames that run, native functions    *)
(* that have called back, a job or a timer below them.                     *)
(***************************************************************************)
\* Handlers save environments that are no roots of their own; the scripts here have no try.
FrameRootsResultless(f) == ToSet(f.regs) \cup {f.env, f.value}                             \* mutant
FrameRoots(f) == ToSet(f.regs) \cup {f.env, f.value, f.result}
Running(s) == {e.frame : e \in ToSet(s.stack)} \ {0}
\* A generator owns its frame; gen_frames_ refers to it weakly.
GeneratorFrames(s) == {s.objs[i].frame : i \in {j \in DOMAIN s.objs : s.objs[j].kind = "generator"}} \ {0}
NoGeneratorFrames(s) == Running(s) \cup s.suspended                                        \* mutant
MarkedFrames(s) == Running(s) \cup s.suspended \cup GeneratorFrames(s)

Roots(s) ==
  {1} \cup ToSet(s.temp) \cup ToSet(s.host)
      \cup UNION {e.called : e \in ToSet(s.stack)}
      \cup UNION {FrameRoots(s.frames[f]) : f \in MarkedFrames(s)}
      \cup UNION {ToSet(s.jobs[k].roots) : k \in DOMAIN s.jobs}

Marked(s) ==
  LET reach[n \in 0..MaxObjects] ==
        IF n = 0 THEN Roots(s)
        ELSE LET nearer == reach[n - 1]
             IN  nearer \cup UNION {Trace(s.objs[i]) : i \in nearer \cap DOMAIN s.objs}
  IN  reach[MaxObjects]

\* A frame goes with the last that owns it.
Owned(s) ==
  LET frames == Running(s) \cup s.suspended \cup GeneratorFrames(s)
  IN  [s EXCEPT !.frames = [f \in frames |-> @[f]]]
Collected(s) == Owned([s EXCEPT !.objs = [i \in DOMAIN @ \cap Marked(s) |-> @[i]]])

(***************************************************************************)
(* Temporary roots of natives and roots of the host.                       *)
(***************************************************************************)
PushRoot(s, v) == [s EXCEPT !.temp = Append(@, v)]
PopRoots(s, n) == [s EXCEPT !.temp = SubSeq(@, 1, Len(@) - n)]
RemoveEqualRoots(host, v) == SelectSeq(host, LAMBDA w : w # v)                             \* mutant
RemoveHostRoot(host, v) ==
  LET at == {i \in DOMAIN host : host[i] = v}
  IN  IF at = {} THEN host ELSE RemoveAt(host, CHOOSE i \in at : \A j \in at : i <= j)

(***************************************************************************)
(* Promises.                                                               *)
(***************************************************************************)
Job(then, on, value, result) ==
  [then |-> then, on |-> on, value |-> value, result |-> result, roots |-> <<value, on, result>>]
Enqueued(s, job) == [s EXCEPT !.jobs = Append(@, job)]

Settled(s, p, v) ==
  IF s.objs[p].settled THEN s
  ELSE LET jobs == [k \in DOMAIN s.objs[p].reactions |->
                      Job(FALSE, s.objs[p].reactions[k].on, v, s.objs[p].reactions[k].result)]
       IN  [s EXCEPT !.objs[p].settled = TRUE, !.objs[p].refs = <<v>>, !.objs[p].reactions = <<>>, !.jobs = @ \o jobs]

\* A promise is asked to tell its outcome to a new resolving function.
Resolved(s, p, v) ==
  IF s.objs[p].settled THEN s
  ELSE IF v # p /\ Kind(s, v) = "promise"
  THEN Enqueued(Alloc(s, Object("resolve", <<p>>)), Job(TRUE, Fresh(s), v, p))
  ELSE Settled(s, p, IF v = p THEN 0 ELSE v)

\* promise_then; the promise it returns is the one allocated.
Chained(s, p, on) ==
  LET t == Alloc(s, Object("promise", <<0>>))
  IN  IF s.objs[p].settled THEN Enqueued(t, Job(FALSE, on, s.objs[p].refs[1], Fresh(s)))
      ELSE [t EXCEPT !.objs[p].reactions = Append(@, [on |-> on, result |-> Fresh(s)])]

(***************************************************************************)
(* Calls. An entry of the stack: what it is, its frame, what interpreter   *)
(* fields of the call hold, what its C++ locals hold and use later, and    *)
(* the register of the frame below that is waiting.                        *)
(***************************************************************************)
Entry(what, frame, called, held, dst) == [what |-> what, frame |-> frame, called |-> called, held |-> held, dst |-> dst]
Pushed(s, e) == [s EXCEPT !.stack = Append(@, e)]
Popped(s) == [s EXCEPT !.stack = Front(@)]
Top(s) == Last(s.stack)
Below(s) == s.stack[Len(s.stack) - 1]

FreshFrame(s) == CHOOSE f \in 1..MaxFrames : f \notin DOMAIN s.frames /\ \A g \in 1..(f - 1) : g \in DOMAIN s.frames
\* value is what a resumed frame has been sent and not taken yet, for the register waiting.
Frame(env, result) == [regs |-> <<0, 0>>, env |-> env, value |-> 0, waiting |-> 0, result |-> result]
FrameRoom(s) == Cardinality(DOMAIN s.frames) < MaxFrames
WithFrame(s, f) == [s EXCEPT !.frames = [i \in DOMAIN @ \cup {FreshFrame(s)} |-> IF i \in DOMAIN @ THEN @[i] ELSE f]]

\* A script function is called: its environment holds its argument.
Called(s, fn, arg, held, dst) ==
  LET t == Alloc(s, Object("env", <<s.objs[fn].refs[1], arg>>))
  IN  Pushed(WithFrame(t, Frame(Fresh(s), 0)), Entry("frame", FreshFrame(s), {fn, arg}, held, dst))
CalledAsync(s, fn, arg, dst) ==
  LET t == Alloc(s, Object("env", <<s.objs[fn].refs[1], arg>>))
      u == Alloc(t, Object("promise", <<0>>))
      f == FreshFrame(s)
  IN  [Pushed(WithFrame(u, Frame(Fresh(s), Fresh(t))), Entry("async", f, {fn, arg}, <<Fresh(t)>>, dst))
         EXCEPT !.suspended = @ \cup {f}]
\* The generator owns the frame, which has not begun.
Generated(s, fn, arg) ==
  LET t == Alloc(s, Object("env", <<s.objs[fn].refs[1], arg>>))
  IN  WithFrame(Alloc(t, [Object("generator", <<>>) EXCEPT !.frame = FreshFrame(s)]), Frame(Fresh(s), 0))

Given(s, dst, v) == [s EXCEPT !.frames[Top(s).frame].regs[dst] = v]

\* map holds its result, the callback, the array and copies of the elements that are left:
\* a copy is passed on if the array still has an element there.
Present(s, e, k) == k <= Len(e.held) /\ Len(s.objs[e.held[1]].refs) + k - 2 <= Len(s.objs[e.held[3]].refs)

\* What is below gets a value: s is without the entry that returned it.
Delivered(s, dst, v, more) ==
  IF s.stack = <<>> THEN s
  ELSE LET e == Top(s)
       IN  CASE e.what \in {"frame", "async", "generator"} -> Given(s, dst, v)
             [] e.what = "map" ->
                  LET t == [s EXCEPT !.objs[e.held[1]].refs = Append(@, v)]
                  IN  IF Present(s, e, 4)
                      THEN Called([t EXCEPT !.stack[Len(t.stack)].held = RemoveAt(@, 4)], e.held[2], e.held[4], <<>>, 0)
                      ELSE Given(PopRoots(Popped(t), 1), e.dst, e.held[1])
             [] e.what = "iterate" ->   \* held: the result, the function next
                  IF more THEN Called([s EXCEPT !.objs[e.held[1]].refs = Append(@, v)], e.held[2], 0, <<>>, 0)
                  ELSE Given(Popped(s), e.dst, e.held[1])
             [] e.what = "executor" -> Given(PopRoots(Popped(s), 1), e.dst, e.held[1])
             [] e.what = "job" -> PopRoots(Popped(Resolved(s, e.held[1], v)), 3)
             [] e.what = "timer" -> Popped(s)

\* A frame on top of the stack ends with a value.
Finished(s, v, more) ==
  LET e == Top(s)
      f == s.frames[e.frame]
      popped == Popped(s)
  IN  CASE e.what = "frame" -> Owned(Delivered(popped, e.dst, v, more))
        [] e.what = "generator" -> Owned(Delivered([popped EXCEPT !.objs[e.held[1]].frame = 0], e.dst, v, more))
        [] e.what = "async" ->
             LET t == [Resolved(popped, f.result, v) EXCEPT !.suspended = @ \ {e.frame}]
             IN  Owned(Delivered(t, e.dst, IF e.held = <<>> THEN 0 ELSE e.held[1], more))

RECURSIVE Thrown(_, _)
\* An exception leaves the entry on top.
Thrown(s, v) ==
  IF s.stack = <<>> THEN s
  ELSE LET e == Top(s)
           popped == Popped(s)
       IN  CASE e.what = "async" ->
                  LET t == [Settled(popped, s.frames[e.frame].result, v) EXCEPT !.suspended = @ \ {e.frame}]
                  IN  Delivered(t, e.dst, IF e.held = <<>> THEN 0 ELSE e.held[1], FALSE)
             [] e.what = "generator" -> Thrown([popped EXCEPT !.objs[e.held[1]].frame = 0], v)
             [] e.what = "map" -> Thrown(PopRoots(popped, 1), v)
             [] e.what = "executor" -> Delivered(Settled(s, e.held[1], v), 0, 0, FALSE)
             [] e.what = "job" -> PopRoots(Popped(Settled(s, e.held[1], v)), 3)
             [] e.what = "timer" -> popped
             [] OTHER -> Thrown(popped, v)

(***************************************************************************)
(* Instructions of the frame on top, on its registers r and q.             *)
(***************************************************************************)
Reg(s, r) == s.frames[Top(s).frame].regs[r]
KindIn(s, r) == Kind(s, Reg(s, r))
EnvOf(s) == s.frames[Top(s).frame].env

NewArray(s, r) == Given(Alloc(s, Object("array", <<>>)), r, Fresh(s))
NewFunction(s, r, kind) == Given(Alloc(s, Object(kind, <<EnvOf(s)>>)), r, Fresh(s))
\* The arrays that natives walk below.
Walked(s) == UNION {e.called : e \in {x \in ToSet(s.stack) : x.what = "map"}}

\* new Promise(executor): the function it gets keeps the promise.
NewPromise(s, r, fn) ==
  LET t == Alloc(s, Object("promise", <<0>>))
      u == Alloc(t, Object("resolve", <<Fresh(s)>>))
      v == Pushed(PushRoot(u, Fresh(s)), Entry("executor", 0, {fn}, <<Fresh(s)>>, r))
  IN  Called(v, fn, Fresh(t), <<>>, 0)

\* Array.prototype.map: the elements are copied first.
Mapped(s, r, fn) ==
  LET a == Reg(s, r)
      t == PushRoot(Alloc(s, Object("array", <<>>)), Fresh(s))
      e == s.objs[a].refs
  IN  IF e = <<>> THEN Given(Alloc(s, Object("array", <<>>)), r, Fresh(s))
      ELSE Called(Pushed(t, Entry("map", 0, {a, fn}, <<Fresh(s), fn, a>> \o Tail(e), r)), fn, e[1], <<>>, 0)

\* make_iterable of an object with a function next: drive_iterator collects its values.
Iterated(s, r, fn) ==
  Called(Pushed(Alloc(s, Object("array", <<>>)), Entry("iterate", 0, {}, <<Fresh(s), fn>>, r)), fn, 0, <<>>, 0)

\* The generator is the receiver of next(), its frame runs on.
Resumed(s, r) ==
  LET g == Reg(s, r)
      f == s.objs[g].frame
  IN  Pushed([s EXCEPT !.frames[f].value = 0], Entry("generator", f, {g}, <<g>>, r))
Yielded(s, r, more) ==
  LET e == Top(s) IN
  Delivered(Popped([s EXCEPT !.frames[e.frame].value = Reg(s, r), !.frames[e.frame].waiting = r]), e.dst, Reg(s, r), more)

\* The frame stays in suspended_frames_; the function that resumes it refers to it weakly.
Awaited(s, r, more) ==
  LET e == Top(s)
      v == Reg(s, r)
      t == IF Kind(s, v) = "promise" THEN s ELSE Settled(Alloc(s, Object("promise", <<0>>)), Fresh(s), v)
      p == IF Kind(s, v) = "promise" THEN v ELSE Fresh(s)
      u == Alloc(t, [Object("resume", <<>>) EXCEPT !.frame = e.frame])
      w == Popped([Chained(u, p, Fresh(t)) EXCEPT !.frames[e.frame].waiting = r])
  IN  Delivered(w, e.dst, IF e.held = <<>> THEN 0 ELSE e.held[1], more)

\* setTimeout, setInterval: the callback is a root of the host until a timeout is due.
Scheduled(s, r, repeats) ==
  [s EXCEPT !.host = Append(@, Reg(s, r)), !.timers = Append(@, [fn |-> Reg(s, r), repeats |-> repeats])]

\* clear_timer leaves the root.
Cleared(s, k) == [s EXCEPT !.timers = RemoveAt(@, k)]

(***************************************************************************)
(* What the host runs when no script does.                                 *)
(***************************************************************************)
\* run_microtasks: the roots of the job become temporary.
RunsJobUnrooted(s) == LET job == Head(s.jobs) IN                                          \* mutant
  Pushed([s EXCEPT !.jobs = Tail(@), !.temp = @ \o <<job.value, 0, 0>>], Entry("job", 0, {}, <<job.result>>, 0))
BeginsJob(s) == LET job == Head(s.jobs) IN
  Pushed([s EXCEPT !.jobs = Tail(@), !.temp = @ \o job.roots], Entry("job", 0, {}, <<job.result>>, 0))
RunsJob(s) ==
  LET job == Head(s.jobs)
      t   == BeginsJob(s)
      f   == s.objs[job.on].frame
  IN  IF job.then THEN PopRoots(Popped(Chained(t, job.value, job.on)), 3)
      ELSE CASE Kind(s, job.on) = "plain" -> Called(t, job.on, job.value, <<>>, 0)
             [] Kind(s, job.on) = "resolve" -> Delivered(Resolved(t, s.objs[job.on].refs[1], job.value), 0, 0, FALSE)
             [] Kind(s, job.on) = "resume" ->
                  Pushed([t EXCEPT !.frames[f].value = job.value], Entry("async", f, {job.on, job.value}, <<>>, 0))

RunsTimer(s, k) ==
  LET timer == s.timers[k]
      t == IF timer.repeats THEN s ELSE [s EXCEPT !.host = RemoveHostRoot(@, timer.fn), !.timers = RemoveAt(@, k)]
  IN  Called(Pushed(t, Entry("timer", 0, {}, <<>>, 0)), timer.fn, 0, <<>>, 0)

(***************************************************************************)
(* A script on an array of two objects and a function of some kind.        *)
(***************************************************************************)
HeapInit ==
  \E kind \in {"plain", "async", "generator function"}, pending \in BOOLEAN :
    subject = [of |-> "heap", ops |-> 0,
      objs |-> IF pending   \* a promise that its resolving function, the variable, will settle
               THEN <<Object("env", <<0, 3>>), Object("promise", <<0>>), Object("resolve", <<2>>), Object(kind, <<1>>)>>
               ELSE <<Object("env", <<0, 2>>), Object("array", <<3, 5>>), Object("array", <<>>), Object(kind, <<1>>),
                      Object("array", <<>>)>>,
      frames |-> <<[Frame(1, 0) EXCEPT !.regs = <<2, 4>>]>>, stack |-> <<Entry("frame", 1, {}, <<>>, 0)>>,
      suspended |-> {}, temp |-> <<>>, host |-> <<>>, jobs |-> <<>>, timers |-> <<>>]

Script(s) == s.stack # <<>> /\ Top(s).what \in {"frame", "async", "generator"}
\* The function next of an iterator goes on or is done.
Mores(s) == IF Len(s.stack) > 1 /\ Below(s).what = "iterate" THEN BOOLEAN ELSE {FALSE}

\* A collection strikes before every instruction: one that strikes less often frees less.
Struck(s) ==
  IF Script(s) /\ (CollectsInNext \/ \A e \in ToSet(s.stack) : e.what # "iterate") THEN Collected(s) ELSE s
Does(t) == subject' = Struck([t EXCEPT !.ops = @ + 1])

\* A resumed frame takes what it was sent.
Take ==
  /\ Script(subject)
  /\ LET f == Top(subject).frame
         r == subject.frames[f].waiting
     IN  r # 0 /\ subject' = Struck([Given(subject, r, subject.frames[f].value)
                                       EXCEPT !.frames[f].value = 0, !.frames[f].waiting = 0])

\* Data are in the first register, functions in the second.
Local(s) ==
  \/ Does(NewArray(s, 1))
  \/ \E kind \in {"plain", "async", "generator function"} : Does(NewFunction(s, 2, kind))
  \/ \E r \in {1, 2}, e \in {EnvOf(s), s.objs[EnvOf(s)].refs[1]} \ {0} : Does(Given(s, r, s.objs[e].refs[2]))
  \/ Does([s EXCEPT !.objs[EnvOf(s)].refs[2] = Reg(s, 1)])
  \/ /\ KindIn(s, 1) = "array"
     /\ \/ /\ Len(s.objs[Reg(s, 1)].refs) < 2 /\ (RefillsWalked \/ Reg(s, 1) \notin Walked(s))
           /\ Does([s EXCEPT !.objs[Reg(s, 1)].refs = Append(@, Reg(s, 2))])
        \/ s.objs[Reg(s, 1)].refs # <<>> /\ Does(Given(s, 1, s.objs[Reg(s, 1)].refs[1]))
        \/ Does([s EXCEPT !.objs[Reg(s, 1)].refs = <<>>])

Call(s) ==
  \/ KindIn(s, 2) = "plain" /\ Does(Called(s, Reg(s, 2), Reg(s, 1), <<>>, 1))
  \/ KindIn(s, 2) = "async" /\ Does(CalledAsync(s, Reg(s, 2), Reg(s, 1), 1))
  \/ /\ KindIn(s, 2) = "generator function"
     /\ Does(Given(Generated(s, Reg(s, 2), Reg(s, 1)), 1, Fresh(Alloc(s, Object("env", <<>>)))))
  \/ KindIn(s, 1) = "generator" /\ s.objs[Reg(s, 1)].frame \notin Running(s) \cup {0} /\ Does(Resumed(s, 1))
  \/ KindIn(s, 2) = "resolve" /\ Does(Resolved(s, s.objs[Reg(s, 2)].refs[1], Reg(s, 1)))
  \/ /\ KindIn(s, 2) = "plain"
     /\ \/ Does(NewPromise(s, 1, Reg(s, 2)))
        \/ KindIn(s, 1) = "array" /\ Does(Mapped(s, 1, Reg(s, 2)))
        \/ Does(Iterated(s, 1, Reg(s, 2)))
        \/ KindIn(s, 1) = "promise" /\ Does(Given(Chained(s, Reg(s, 1), Reg(s, 2)), 1, Fresh(s)))
        \/ \E repeats \in BOOLEAN : Does(Scheduled(s, 2, repeats))
  \/ \E k \in DOMAIN s.timers : Does(Cleared(s, k))

Leave(s) ==
  \E more \in Mores(s) :
    \/ Does(Finished(s, Reg(s, 1), more))
    \/ ~more /\ Does(Owned(Thrown(s, Reg(s, 1))))
    \/ Top(s).what = "async" /\ Does(Awaited(s, 1, more))
    \/ Top(s).what = "generator" /\ Does(Yielded(s, 1, more))

HeapNext ==
  /\ subject.of = "heap"
  /\ \/ Take
     \/ /\ subject.ops < MaxOps /\ Room(subject, 3) /\ FrameRoom(subject)
        /\ \/ /\ Script(subject) /\ subject.frames[Top(subject).frame].waiting = 0
              /\ Local(subject) \/ Call(subject) \/ Leave(subject)
           \/ subject.stack = <<>> /\ subject.jobs # <<>> /\ Does(Owned(RunsJob(subject)))
           \/ subject.stack = <<>> /\ subject.jobs = <<>> /\ \E k \in DOMAIN subject.timers : Does(RunsTimer(subject, k))

(***************************************************************************)
(* Properties.                                                             *)
(***************************************************************************)
\* All that the program can still come to: what objects refer to, what frames hold that
\* may run on, what jobs and timers will call, what natives use when a callback returns.
Used(s) ==
  UNION {Trace(s.objs[i]) : i \in DOMAIN s.objs}
    \cup UNION {FrameRoots(s.frames[f]) : f \in DOMAIN s.frames}
    \cup UNION {e.called \cup {e.held[k] : k \in {i \in DOMAIN e.held : e.what = "map" => i < 4 \/ Present(s, e, i)}}
                  : e \in ToSet(s.stack)}
    \cup UNION {{s.jobs[k].on, s.jobs[k].value, s.jobs[k].result} : k \in DOMAIN s.jobs}
    \cup {s.timers[k].fn : k \in DOMAIN s.timers}

\* Nothing that is still used is ever freed, wherever a collection strikes (Heap::collect,
\* Interpreter::mark_roots): unless it strikes in the function next of a script's iterator,
\* or a callback replaces elements of the array that is walked.
NothingUsedIsFreed == subject.of = "heap" => Used(subject) \subseteq DOMAIN subject.objs \cup {0}

\* Temporary roots are those of the calls under way, in their order (a throw takes its own
\* with it), and every pending timer has a root of its own, also when two have one callback
\* (push_root, pop_roots, remove_host_root).
RootsOf(e) == IF e.what \in {"map", "executor"} THEN <<e.held[1]>> ELSE IF e.what = "job" THEN <<0, 0, e.held[1]>> ELSE <<>>
RootsAreBalanced ==
  subject.of = "heap" =>
    LET wanted == FlattenSeq([k \in DOMAIN subject.stack |-> RootsOf(subject.stack[k])])
    IN  /\ Len(wanted) = Len(subject.temp)
        /\ \A k \in DOMAIN wanted : wanted[k] \in {0, subject.temp[k]}
        /\ \A fn \in {subject.timers[k].fn : k \in DOMAIN subject.timers} :
             Cardinality({k \in DOMAIN subject.timers : subject.timers[k].fn = fn})
               <= Cardinality({k \in DOMAIN subject.host : subject.host[k] = fn})
HeapSpec == HeapInit /\ [][HeapNext]_subject
=============================================================================
