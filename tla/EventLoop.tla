------------------------------ MODULE EventLoop ------------------------------
(***************************************************************************)
(* The HTML event loop with a virtual clock                                *)
(* (core/event_loop/event_loop.cpp).  The host calls run_one_iteration,    *)
(* run_until_idle or run_ready_tasks; they call script callbacks, which    *)
(* call the scheduling functions in any order before they return.  One     *)
(* step is one scheduling call, one callback's start or return, or one     *)
(* decision of a run.  Tasks, microtasks and the engine's jobs are         *)
(* interchangeable, so their queues are counted.  Timers and frame         *)
(* callbacks share one increasing id; both vectors are in id order, so     *)
(* they are sets of ids here.                                              *)
(***************************************************************************)
EXTENDS Integers, FiniteSets, FiniteSetsExt

CONSTANTS
  ClockMod,    (* the clock is an unsigned integer modulo ClockMod         *)
  Delays,      (* the numbers scripts pass to setTimeout and setInterval   *)
  MaxIterations, (* the cap of a run                                       *)
  MaxId,       (* bound: ids handed out                                    *)
  MaxQueued,   (* bound: entries of each queue of tasks and microtasks     *)
  MaxNow       (* bound: the host pumps the loop while now is below        *)

ASSUME EventLoopAssumption ==
  /\ ClockMod \in Nat \ {0, 1}
  /\ Delays \subseteq Int
  /\ MaxIterations \in Nat \ {0}
  /\ MaxId \in Nat
  /\ MaxQueued \in Nat
  /\ MaxNow \in Nat

VARIABLES
  tasks,       (* posted tasks not started                                 *)
  timers,      (* id -> fire time, interval (0: one-shot) and active       *)
  microtasks,  (* the loop's own microtasks                                *)
  jobs,        (* the engine's microtasks: promise reactions               *)
  frames,      (* ids of the animation frame callbacks requested           *)
  batch,       (* ids of the frame callbacks of the render step under way  *)
  now, nextId, quitting,
  mode,        (* the run under way, or "host"                             *)
  pc,          (* where in the run                                         *)
  then,        (* where the microtask checkpoint under way goes on         *)
  iterations, rendered,
  \* history:
  cleared,     (* ids given to clear_timer                                 *)
  fired,       (* id -> the time its timer last fired                      *)
  frameMark    (* the first id a callback of this render step can get      *)

queues == <<tasks, timers, microtasks, jobs, frames, nextId, quitting, cleared>>
control == <<mode, pc, then, iterations, rendered>>
history == <<fired, frameMark>>
vars == <<queues, control, history, batch, now>>

Ids == 1 .. MaxId

Timer == [fireAt : 0 .. ClockMod - 1, interval : 0 .. ClockMod - 1, active : BOOLEAN]

-----------------------------------------------------------------------------
(* The scheduling functions, called by the host and by callbacks.          *)

\* static_cast<uint64_t> of a script's number: undefined outside its range. Below
\* zero x86-64 wraps, above it gives 0; AArch64 saturates.
ToDelay(d) ==
  CASE d < 0         -> {d % ClockMod, 0}
    [] d >= ClockMod -> {0, ClockMod - 1}
    [] OTHER         -> {d}

After(ms) == (now + ms) % ClockMod

With(f, id, value) == [i \in DOMAIN f \cup {id} |-> IF i = id THEN value ELSE f[i]]

Insert(fireAt, interval) ==
  With(timers, nextId, [fireAt |-> fireAt, interval |-> interval, active |-> TRUE])

PostTask ==
  /\ tasks < MaxQueued
  /\ tasks' = tasks + 1
  /\ UNCHANGED <<timers, microtasks, jobs, frames, nextId, quitting, cleared>>

SetTimer(fireAt, interval) ==
  /\ nextId <= MaxId
  /\ timers' = Insert(fireAt, interval)
  /\ nextId' = nextId + 1
  /\ UNCHANGED <<tasks, microtasks, jobs, frames, quitting, cleared>>

SetTimeout(ms) == SetTimer(After(ms), 0)

IntervalOf(ms) == IF ms = 0 THEN 1 ELSE ms

SetInterval(ms) == SetTimer(After(IntervalOf(ms)), IntervalOf(ms))

StoppedAfterNext(timer) == [timer EXCEPT !.interval = 0]        \* mutant
Stopped(timer) == [timer EXCEPT !.active = FALSE]

ClearTimer(id) ==
  /\ timers' = [i \in DOMAIN timers |-> IF i = id THEN Stopped(timers[i]) ELSE timers[i]]
  /\ cleared' = cleared \cup {id}
  /\ UNCHANGED <<tasks, microtasks, jobs, frames, nextId, quitting>>

QueueMicrotask ==
  /\ microtasks < MaxQueued
  /\ microtasks' = microtasks + 1
  /\ UNCHANGED <<tasks, timers, jobs, frames, nextId, quitting, cleared>>

\* Settling a promise or queueMicrotask: Interpreter::enqueue_microtask.
EnqueueJob ==
  /\ jobs < MaxQueued
  /\ jobs' = jobs + 1
  /\ UNCHANGED <<tasks, timers, microtasks, frames, nextId, quitting, cleared>>

RequestAnimationFrame ==
  /\ nextId <= MaxId
  /\ frames' = frames \cup {nextId}
  /\ nextId' = nextId + 1
  /\ UNCHANGED <<tasks, timers, microtasks, jobs, quitting, cleared>>

CancelAnimationFrame(id) ==
  /\ frames' = frames \ {id}
  /\ UNCHANGED <<tasks, timers, microtasks, jobs, nextId, quitting, cleared>>

Quit ==
  /\ quitting' = TRUE
  /\ UNCHANGED <<tasks, timers, microtasks, jobs, frames, nextId, cleared>>

Call ==
  \/ PostTask
  \/ \E d \in Delays : \E ms \in ToDelay(d) : SetTimeout(ms) \/ SetInterval(ms)
  \/ \E id \in 1 .. nextId - 1 : ClearTimer(id) \/ CancelAnimationFrame(id)
  \/ QueueMicrotask
  \/ EnqueueJob
  \/ RequestAnimationFrame
  \/ Quit

-----------------------------------------------------------------------------
(* The host between two runs.                                              *)

InRun == mode # "host"

HostCall == ~InRun /\ Call /\ UNCHANGED <<control, history, batch, now>>

Begin(m, at) ==
  /\ ~InRun
  /\ now < MaxNow
  /\ mode' = m
  /\ pc' = at
  /\ UNCHANGED <<then, iterations, rendered, queues, history, batch>>

RunOneIteration == ~quitting /\ Begin("one", "select") /\ UNCHANGED now

RunUntilIdle == Begin("idle", "microtasks") /\ UNCHANGED now

\* Engine::run_ready_tasks: advance_clock, then run_ready_tasks.
RunReadyTasks == Begin("ready", "microtasks") /\ \E ms \in {0, 1} : now' = After(ms)

-----------------------------------------------------------------------------
(* Callbacks.                                                              *)

Callbacks == {"task", "microtask", "job", "frame"}

CallbackCall == pc \in Callbacks /\ Call /\ UNCHANGED <<control, history, batch, now>>

\* Where the run goes on when a callback of a kind returns.
Resume(callback) ==
  CASE callback = "job" -> "jobs"
    [] callback = "frame" -> "frames"
    [] OTHER -> "microtasks"

CallbackReturns ==
  /\ pc \in Callbacks
  /\ pc' = Resume(pc)
  /\ UNCHANGED <<mode, then, iterations, rendered, queues, history, batch, now>>

-----------------------------------------------------------------------------
(* drain_microtasks: the loop's microtasks, then the engine's, until both  *)
(* are empty.                                                              *)

DrainMicrotasks ==
  /\ pc = "microtasks"
  /\ IF microtasks > 0
     THEN microtasks' = microtasks - 1 /\ pc' = "microtask"
     ELSE pc' = "jobs" /\ UNCHANGED microtasks
  /\ UNCHANGED <<mode, then, iterations, rendered, tasks, timers, jobs, frames, nextId,
                 quitting, cleared, history, batch, now>>

AfterJobsOnce == then                                           \* mutant
AfterJobs == IF microtasks > 0 THEN "microtasks" ELSE then

DrainJobs ==
  /\ pc = "jobs"
  /\ IF jobs > 0
     THEN jobs' = jobs - 1 /\ pc' = "job"
     ELSE pc' = AfterJobs /\ UNCHANGED jobs
  /\ UNCHANGED <<mode, then, iterations, rendered, tasks, timers, microtasks, frames, nextId,
                 quitting, cleared, history, batch, now>>

-----------------------------------------------------------------------------
(* One turn of a run.                                                      *)

Active == {id \in DOMAIN timers : timers[id].active}

\* The earliest active timer; of several, the one registered first.
IsNextDue(id) ==
  /\ id \in Active
  /\ \A other \in Active :
       \/ timers[id].fireAt < timers[other].fireAt
       \/ timers[id].fireAt = timers[other].fireAt /\ id <= other

Due(id) == timers[id].fireAt <= now

\* run_one_iteration takes the next timer even when it is not due yet.
Runnable(id) == IsNextDue(id) /\ (mode = "ready" => Due(id))

AnyTurn == TRUE                                                 \* mutant
TurnsLeft == iterations < IF mode = "one" THEN 1 ELSE MaxIterations

CanTurn == pc = "select" /\ ~quitting /\ TurnsLeft

StartTask ==
  /\ CanTurn
  /\ tasks > 0
  /\ tasks' = tasks - 1
  /\ pc' = "task"
  /\ then' = "select"
  /\ iterations' = Min({iterations + 1, MaxIterations})
  /\ UNCHANGED <<mode, rendered, timers, microtasks, jobs, frames, nextId, quitting,
                 cleared, history, batch, now>>

Later(a, b) == IF a > b THEN a ELSE b

Rescheduled(timer, at) ==
  IF timer.interval > 0
  THEN [timer EXCEPT !.fireAt = (at + timer.interval) % ClockMod]
  ELSE [timer EXCEPT !.active = FALSE]

StartTimer(id) ==
  /\ CanTurn
  /\ tasks = 0
  /\ Runnable(id)
  /\ now' = Later(now, timers[id].fireAt)
  /\ timers' = [timers EXCEPT ![id] = Rescheduled(timers[id], now')]
  /\ fired' = With(fired, id, now')
  /\ pc' = "task"
  /\ then' = "reap"
  /\ iterations' = Min({iterations + 1, MaxIterations})
  /\ UNCHANGED <<mode, rendered, tasks, microtasks, jobs, frames, nextId, quitting,
                 cleared, frameMark, batch>>

ReapTimers ==
  /\ pc = "reap"
  /\ timers' = [id \in Active |-> timers[id]]
  /\ pc' = "select"
  /\ UNCHANGED <<mode, then, iterations, rendered, tasks, microtasks, jobs, frames, nextId,
                 quitting, cleared, history, batch, now>>

FrameMs == 16

FramesAfterSwap == {}

CanRender == frames # {} /\ (mode = "ready" => ~rendered)

StartRenderStep ==
  /\ CanTurn
  /\ tasks = 0
  /\ \A id \in DOMAIN timers : ~Runnable(id)
  /\ CanRender
  /\ rendered' = TRUE
  /\ now' = IF mode = "ready" THEN now ELSE After(FrameMs)
  /\ batch' = frames
  /\ frames' = FramesAfterSwap
  /\ frameMark' = nextId
  /\ pc' = "frames"
  /\ then' = "select"
  /\ iterations' = Min({iterations + 1, MaxIterations})
  /\ UNCHANGED <<mode, tasks, timers, microtasks, jobs, nextId, quitting, cleared, fired>>

TakesAnyFrame ==                                                \* mutant
  IF batch \cup frames # {}
  THEN \E id \in {Min(batch \cup frames)} :
         batch' = batch \ {id} /\ frames' = frames \ {id} /\ pc' = "frame"
  ELSE pc' = "microtasks" /\ UNCHANGED <<batch, frames>>
TakesFrame ==
  IF batch # {}
  THEN batch' = batch \ {Min(batch)} /\ pc' = "frame" /\ UNCHANGED frames
  ELSE pc' = "microtasks" /\ UNCHANGED <<batch, frames>>

RenderFrames ==
  /\ pc = "frames"
  /\ TakesFrame
  /\ UNCHANGED <<mode, then, iterations, rendered, tasks, timers, microtasks, jobs, nextId,
                 quitting, cleared, history, now>>

\* Nothing a run of this mode may start.
NothingReady ==
  /\ tasks = 0
  /\ \A id \in DOMAIN timers : ~Runnable(id)
  /\ ~CanRender

EndRun ==
  /\ pc = "select"
  /\ ~CanTurn \/ NothingReady
  /\ mode' = "host"
  /\ pc' = "host"
  /\ then' = "select"
  /\ iterations' = 0
  /\ rendered' = FALSE
  /\ UNCHANGED <<queues, history, batch, now>>

-----------------------------------------------------------------------------
Init ==
  /\ tasks = 0 /\ microtasks = 0 /\ jobs = 0
  /\ timers = [id \in {} |-> FALSE]
  /\ frames = {} /\ batch = {}
  /\ now = 0 /\ nextId = 1 /\ quitting = FALSE
  /\ mode = "host" /\ pc = "host" /\ then = "select"
  /\ iterations = 0 /\ rendered = FALSE
  /\ cleared = {} /\ fired = [id \in {} |-> 0] /\ frameMark = 1

\* The steps of the loop and the return of a callback.
RunStep ==
  \/ CallbackReturns
  \/ DrainMicrotasks
  \/ DrainJobs
  \/ StartTask
  \/ \E id \in DOMAIN timers : StartTimer(id)
  \/ ReapTimers
  \/ StartRenderStep
  \/ RenderFrames
  \/ EndRun

Next ==
  \/ HostCall
  \/ RunOneIteration
  \/ RunUntilIdle
  \/ RunReadyTasks
  \/ CallbackCall
  \/ RunStep

\* A callback that has been entered returns, and the loop's own code runs on.
Spec == Init /\ [][Next]_vars /\ WF_vars(RunStep)

-----------------------------------------------------------------------------
(* Properties.                                                             *)

TypeOK ==
  /\ tasks \in 0 .. MaxQueued /\ microtasks \in 0 .. MaxQueued /\ jobs \in 0 .. MaxQueued
  /\ DOMAIN timers \subseteq Ids /\ \A id \in DOMAIN timers : timers[id] \in Timer
  /\ frames \subseteq Ids /\ batch \subseteq Ids /\ cleared \subseteq Ids
  /\ frames \cap batch = {} /\ (frames \cup batch) \cap DOMAIN timers = {}
  /\ now \in 0 .. ClockMod - 1
  /\ nextId \in 1 .. MaxId + 1 /\ frameMark \in 1 .. MaxId + 1
  /\ quitting \in BOOLEAN /\ rendered \in BOOLEAN
  /\ mode \in {"host", "one", "idle", "ready"}
  /\ pc \in Callbacks \cup {"host", "microtasks", "jobs", "select", "reap", "frames"}
  /\ pc = "host" <=> ~InRun
  /\ then \in {"select", "reap"}
  /\ iterations \in 0 .. MaxIterations
  /\ DOMAIN fired \subseteq Ids /\ \A id \in DOMAIN fired : fired[id] \in 0 .. ClockMod - 1

\* "a microtask queue drained after every task" (event_loop.h:4): when a run
\* chooses its next task, neither a microtask of the loop nor a job of the engine
\* is left, whichever of the two queued the last one.  run_one_iteration starts
\* without a checkpoint, so its first choice is excepted.  The queues keep to their ids.
CheckpointBeforeTask ==
  /\ TypeOK
  /\ pc = "select" /\ (mode = "one" => iterations > 0) => microtasks = 0 /\ jobs = 0

\* A timer that was cleared does not fire again, also when the call came from its
\* own callback, after the interval had been rescheduled (clear_timer, line 26;
\* run_ready_tasks, line 144), and neither does a one-shot timer that has fired
\* (run_one_iteration, line 100).
FinishedTimersStayDead ==
  \A id \in Active : id \notin cleared /\ (id \in DOMAIN fired => timers[id].interval # 0)

\* Nothing runs before its time. A callback requested while a frame is rendered waits
\* for the next frame, since the render step runs the batch it took (render_step, line
\* 76), and "intervals fire no sooner than 1ms apart to guarantee progress"
\* (event_loop.cpp:20).
NothingIsEarly ==
  [][/\ pc = "frames" => \A id \in (batch \cup frames) \ (batch' \cup frames') : id < frameMark
     /\ \A id \in DOMAIN fired : StartTimer(id) => fired[id] < now']_vars

\* run_ready_tasks "therefore returns when a page owns a persistent interval"
\* (event_loop.h:43), or tasks and frames that ask for the next one; only
\* microtasks that never stop keep it.
ReadyRunReturns == (mode = "ready" ~> mode = "host") \/ []<>(microtasks + jobs > 0)
=============================================================================
