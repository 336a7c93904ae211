--------------------------- MODULE EventLoopProofs ---------------------------
(***************************************************************************)
(* What holds of the event loop for every clock width, every set of        *)
(* delays, every bound and every order of calls.                           *)
(***************************************************************************)
EXTENDS EventLoop, TLAPS

\* Every id in use was handed out, and the ids of the frame batch before the
\* render step under way began.
IdsAreHandedOut ==
  /\ \A id \in frames \cup batch : id < nextId
  /\ \A id \in cleared : id < nextId
  /\ \A id \in DOMAIN timers : id < nextId
  /\ \A id \in DOMAIN fired : id < nextId
  /\ \A id \in batch : id < frameMark
  /\ frameMark <= nextId

TypeInv == TypeOK /\ IdsAreHandedOut

(* The clock stays in its width.                                           *)
LEMMA AfterInRange ==
  ASSUME NEW ms \in Int, now \in 0 .. ClockMod - 1
  PROVE  After(ms) \in 0 .. ClockMod - 1
BY EventLoopAssumption DEF After

(* Converting a script's number gives a number of the clock's width.       *)
LEMMA DelayInRange ==
  ASSUME NEW d \in Int, NEW ms \in ToDelay(d)
  PROVE  ms \in 0 .. ClockMod - 1 /\ IntervalOf(ms) \in 1 .. ClockMod - 1
<1>1. ms \in 0 .. ClockMod - 1
  BY EventLoopAssumption DEF ToDelay
<1>2. QED
  BY <1>1, EventLoopAssumption DEF IntervalOf

(* A function extended at one argument.                                    *)
LEMMA WithValue ==
  ASSUME NEW f, NEW id, NEW value
  PROVE  /\ DOMAIN With(f, id, value) = DOMAIN f \cup {id}
         /\ With(f, id, value)[id] = value
         /\ \A i \in DOMAIN f : i # id => With(f, id, value)[i] = f[i]
BY DEF With

(* A new timer of the clock's width keeps the types.                       *)
LEMMA SetTimerKeeps ==
  ASSUME TypeInv,
         NEW fireAt \in 0 .. ClockMod - 1, NEW interval \in 0 .. ClockMod - 1,
         SetTimer(fireAt, interval), UNCHANGED <<control, history, batch, now>>
  PROVE  TypeInv'
<1> DEFINE t == [fireAt |-> fireAt, interval |-> interval, active |-> TRUE]
<1>1. t \in Timer
  BY DEF Timer
<1>2. timers' = With(timers, nextId, t) /\ nextId' = nextId + 1
  BY DEF SetTimer, Insert
<1>3. nextId \in 1 .. MaxId
  BY DEF SetTimer, TypeInv, TypeOK
<1> HIDE DEF t
<1>4. /\ DOMAIN timers' = DOMAIN timers \cup {nextId}
      /\ \A id \in DOMAIN timers' : timers'[id] \in Timer
  BY <1>1, <1>2 DEF TypeInv, TypeOK, With
<1>5. UNCHANGED <<tasks, microtasks, jobs, frames, quitting, cleared, control, history, batch, now>>
  BY DEF SetTimer
<1>6. TypeOK'
  BY <1>2, <1>3, <1>4, <1>5, EventLoopAssumption
  DEF TypeInv, TypeOK, IdsAreHandedOut, Ids, InRun, control, history, Callbacks
<1>7. IdsAreHandedOut'
  BY EventLoopAssumption, <1>2, <1>3, <1>4, <1>5 DEF TypeInv, TypeOK, Ids, IdsAreHandedOut, history
<1>8. QED
  BY <1>6, <1>7 DEF TypeInv

\* The scheduling functions leave the run and its clock alone.
Elsewhere == <<control, history, batch, now>>

(* A scheduling call keeps the types.                                      *)
LEMMA CallKeeps ==
  ASSUME TypeInv, Call, UNCHANGED Elsewhere
  PROVE  TypeInv'
<1> USE EventLoopAssumption
<1>1. UNCHANGED <<control, history, batch, now>>
  BY DEF Elsewhere
<1>2. ASSUME NEW d \in Delays, NEW ms \in ToDelay(d), SetTimeout(ms) \/ SetInterval(ms)
      PROVE  TypeInv'
  <2>1. ms \in 0 .. ClockMod - 1 /\ IntervalOf(ms) \in 1 .. ClockMod - 1
    BY <1>2, DelayInRange
  <2>2. /\ After(ms) \in 0 .. ClockMod - 1
        /\ After(IntervalOf(ms)) \in 0 .. ClockMod - 1
    BY <2>1, AfterInRange DEF TypeInv, TypeOK
  <2>3. QED
    BY <1>1, <1>2, <2>1, <2>2, SetTimerKeeps DEF SetTimeout, SetInterval
<1>3. ASSUME NEW id \in 1 .. nextId - 1, ClearTimer(id)
      PROVE  TypeInv'
  <2>1. \A i \in DOMAIN timers : Stopped(timers[i]) \in Timer
    BY DEF TypeInv, TypeOK, Stopped, Timer
  <2>2. /\ DOMAIN timers' = DOMAIN timers
        /\ \A i \in DOMAIN timers' : timers'[i] \in Timer
    BY <1>3, <2>1 DEF ClearTimer, TypeInv, TypeOK
  <2>3. QED
    BY <1>1, <1>3, <2>2
    DEF ClearTimer, TypeInv, TypeOK, IdsAreHandedOut, Ids, InRun, control, history
<1>4. CASE RequestAnimationFrame
  <2>1. nextId \in 1 .. MaxId /\ nextId \notin DOMAIN timers /\ nextId \notin batch
    BY <1>4 DEF RequestAnimationFrame, TypeInv, TypeOK, IdsAreHandedOut
  <2>2. QED
    BY <1>1, <1>4, <2>1
    DEF RequestAnimationFrame, TypeInv, TypeOK, IdsAreHandedOut, Ids, InRun, control, history
<1>5. ASSUME NEW id \in 1 .. nextId - 1, CancelAnimationFrame(id)
      PROVE  TypeInv'
  BY <1>1, <1>5
  DEF CancelAnimationFrame, TypeInv, TypeOK, IdsAreHandedOut, Ids, InRun, control, history
<1>6. CASE PostTask
  BY <1>1, <1>6
  DEF PostTask, TypeInv, TypeOK, IdsAreHandedOut, InRun, control, history
<1>7. CASE QueueMicrotask
  BY <1>1, <1>7
  DEF QueueMicrotask, TypeInv, TypeOK, IdsAreHandedOut, InRun, control, history
<1>8. CASE EnqueueJob
  BY <1>1, <1>8
  DEF EnqueueJob, TypeInv, TypeOK, IdsAreHandedOut, InRun, control, history
<1>9. CASE Quit
  BY <1>1, <1>9
  DEF Quit, TypeInv, TypeOK, IdsAreHandedOut, InRun, control, history
<1>10. QED
  BY <1>2, <1>3, <1>4, <1>5, <1>6, <1>7, <1>8, <1>9 DEF Call

(* The loop's counter of tasks run is capped.                              *)
LEMMA IterationsCapped ==
  ASSUME NEW i \in 0 .. MaxIterations
  PROVE  Min({i + 1, MaxIterations}) \in 0 .. MaxIterations
         /\ (i < MaxIterations => Min({i + 1, MaxIterations}) = i + 1)
<1> DEFINE S == {i + 1, MaxIterations}
         IsLeast(x) == x \in S /\ \A y \in S : x <= y
<1>1. MaxIterations \in Nat /\ i + 1 \in Nat
  BY EventLoopAssumption
<1>2. IsLeast(IF i < MaxIterations THEN i + 1 ELSE MaxIterations)
  BY <1>1
<1>3. IsLeast(Min(S))
  BY <1>2, Zenon DEF Min
<1>4. Min(S) = IF i < MaxIterations THEN i + 1 ELSE MaxIterations
  BY <1>1, <1>3
<1>5. QED
  BY <1>1, <1>4

(* What a timer becomes when it fires is a timer.                          *)
LEMMA RescheduledIsTimer ==
  ASSUME NEW timer \in Timer, NEW at \in 0 .. ClockMod - 1
  PROVE  Rescheduled(timer, at) \in Timer
<1>1. (at + timer.interval) % ClockMod \in 0 .. ClockMod - 1
  BY EventLoopAssumption DEF Timer
<1>2. QED
  BY <1>1 DEF Rescheduled, Timer

(* Firing a timer keeps the types.                                         *)
LEMMA StartTimerKeeps ==
  ASSUME TypeInv, NEW id \in DOMAIN timers, StartTimer(id)
  PROVE  /\ TypeInv'
         /\ now' = Later(now, timers[id].fireAt) /\ now' \in 0 .. ClockMod - 1
         /\ timers' = [timers EXCEPT ![id] = Rescheduled(timers[id], now')]
         /\ fired' = With(fired, id, now')
<1> USE EventLoopAssumption
<1>1. /\ now' = Later(now, timers[id].fireAt)
      /\ timers' = [timers EXCEPT ![id] = Rescheduled(timers[id], now')]
      /\ fired' = With(fired, id, now')
  BY DEF StartTimer
<1>2. now' \in 0 .. ClockMod - 1
  BY <1>1 DEF Later, TypeInv, TypeOK, Timer
<1>3. /\ DOMAIN timers' = DOMAIN timers
      /\ \A i \in DOMAIN timers' : timers'[i] \in Timer
  BY <1>1, <1>2, RescheduledIsTimer DEF TypeInv, TypeOK
<1>4. /\ DOMAIN fired' = DOMAIN fired \cup {id}
      /\ \A i \in DOMAIN fired' : fired'[i] \in 0 .. ClockMod - 1
  BY <1>1, <1>2 DEF With, TypeInv, TypeOK
<1>5. iterations' \in 0 .. MaxIterations
  BY IterationsCapped DEF StartTimer, TypeInv, TypeOK
<1>6. TypeOK'
  BY <1>2, <1>3, <1>4, <1>5 DEF StartTimer, CanTurn, TypeInv, TypeOK, InRun, Callbacks, Ids
<1>7. IdsAreHandedOut'
  BY <1>3, <1>4 DEF StartTimer, TypeInv, TypeOK, IdsAreHandedOut
<1>8. QED
  BY <1>1, <1>2, <1>6, <1>7 DEF TypeInv

(* Every step keeps the types.                                             *)
LEMMA TypeStep == TypeInv /\ [Next]_vars => TypeInv'
<1> SUFFICES ASSUME TypeInv, [Next]_vars
             PROVE  TypeInv'
  OBVIOUS
<1> USE EventLoopAssumption
<1>1. CASE HostCall
  BY <1>1, CallKeeps DEF HostCall, Elsewhere
<1>2. CASE CallbackCall
  BY <1>2, CallKeeps DEF CallbackCall, Elsewhere
<1>3. CASE RunOneIteration
  BY <1>3
  DEF RunOneIteration, Begin, TypeInv, TypeOK, IdsAreHandedOut, InRun, Callbacks, queues, history
<1>4. CASE RunUntilIdle
  BY <1>4
  DEF RunUntilIdle, Begin, TypeInv, TypeOK, IdsAreHandedOut, InRun, Callbacks, queues, history
<1>5. CASE RunReadyTasks
  <2>1. now' \in 0 .. ClockMod - 1
    BY <1>5, AfterInRange DEF RunReadyTasks, TypeInv, TypeOK
  <2>2. QED
    BY <1>5, <2>1
    DEF RunReadyTasks, Begin, TypeInv, TypeOK, IdsAreHandedOut, InRun, Callbacks, queues, history
<1>6. CASE CallbackReturns
  BY <1>6
  DEF CallbackReturns, Resume, TypeInv, TypeOK, IdsAreHandedOut, InRun, Callbacks, queues, history
<1>7. CASE DrainMicrotasks
  BY <1>7 DEF DrainMicrotasks, TypeInv, TypeOK, IdsAreHandedOut, InRun, Callbacks, history
<1>8. CASE DrainJobs
  BY <1>8 DEF DrainJobs, AfterJobs, TypeInv, TypeOK, IdsAreHandedOut, InRun, Callbacks, history
<1>9. CASE StartTask
  <2>1. iterations' \in 0 .. MaxIterations
    BY <1>9, IterationsCapped DEF StartTask, TypeInv, TypeOK
  <2>2. QED
    BY <1>9, <2>1
    DEF StartTask, CanTurn, TypeInv, TypeOK, IdsAreHandedOut, InRun, Callbacks, history
<1>10. ASSUME NEW id \in DOMAIN timers, StartTimer(id)
       PROVE  TypeInv'
  BY <1>10, StartTimerKeeps
<1>11. CASE ReapTimers
  BY <1>11 DEF ReapTimers, Active, TypeInv, TypeOK, IdsAreHandedOut, InRun, Callbacks, history
<1>12. CASE StartRenderStep
  <2>1. iterations' \in 0 .. MaxIterations /\ now' \in 0 .. ClockMod - 1
    BY <1>12, IterationsCapped, AfterInRange DEF StartRenderStep, FrameMs, TypeInv, TypeOK
  <2>2. TypeOK'
    BY <1>12, <2>1 DEF StartRenderStep, FramesAfterSwap, CanTurn, TypeInv, TypeOK, InRun, Callbacks
  <2>3. IdsAreHandedOut'
    BY <1>12 DEF StartRenderStep, FramesAfterSwap, TypeInv, TypeOK, IdsAreHandedOut
  <2>4. QED
    BY <2>2, <2>3 DEF TypeInv
<1>13. CASE RenderFrames
  BY <1>13
  DEF RenderFrames, TakesFrame, TypeInv, TypeOK, IdsAreHandedOut, InRun, Callbacks, history
<1>14. CASE EndRun
  <2>1. UNCHANGED <<queues, history, batch, now>>
    BY <1>14 DEF EndRun
  <2>2. mode' = "host" /\ pc' = "host" /\ then' = "select" /\ iterations' = 0 /\ rendered' = FALSE
    BY <1>14 DEF EndRun
  <2>3. iterations' \in 0 .. MaxIterations /\ (pc' = "host" <=> mode' = "host")
    BY <2>2
  <2>4. then' \in {"select", "reap"} /\ mode' \in {"host", "one", "idle", "ready"}
    BY <2>2
  <2>5. pc' \in Callbacks \cup {"host", "microtasks", "jobs", "select", "reap", "frames"}
    BY <2>2
  <2>6. QED
    BY <2>1, <2>2, <2>3, <2>4, <2>5 DEF TypeInv, TypeOK, IdsAreHandedOut, InRun, queues, history
<1>15. CASE UNCHANGED vars
  BY <1>15
  DEF vars, queues, control, history, TypeInv, TypeOK, IdsAreHandedOut, InRun
<1>16. QED
  BY <1>1, <1>2, <1>3, <1>4, <1>5, <1>6, <1>7, <1>8, <1>9, <1>10, <1>11, <1>12, <1>13, <1>14,
     <1>15
  DEF Next, RunStep

(* The initial state has the types.                                        *)
LEMMA TypeInit == Init => TypeInv
<1> SUFFICES ASSUME Init
             PROVE  TypeInv
  OBVIOUS
<1>1. DOMAIN timers = {} /\ DOMAIN fired = {}
  BY DEF Init
<1>2. pc = "host" /\ mode = "host" /\ then = "select" /\ nextId = 1 /\ frameMark = 1 /\ iterations = 0
  BY DEF Init
<1>3. /\ iterations \in 0 .. MaxIterations
      /\ nextId \in 1 .. MaxId + 1 /\ frameMark \in 1 .. MaxId + 1 /\ frameMark <= nextId
  BY <1>2, EventLoopAssumption
<1>4. mode \in {"host", "one", "idle", "ready"} /\ then \in {"select", "reap"} /\ (pc = "host" <=> ~InRun)
  BY <1>2 DEF InRun
<1>5. TypeOK
  <2>1. /\ frames \cap batch = {} /\ (frames \cup batch) \cap DOMAIN timers = {}
        /\ DOMAIN timers \subseteq Ids /\ DOMAIN fired \subseteq Ids
    BY <1>1 DEF Init
  <2>2. now \in 0 .. ClockMod - 1
    BY EventLoopAssumption DEF Init
  <2>3. tasks \in 0 .. MaxQueued /\ microtasks \in 0 .. MaxQueued /\ jobs \in 0 .. MaxQueued
    BY EventLoopAssumption DEF Init
  <2>4. QED
    BY <1>1, <1>2, <1>3, <1>4, <2>1, <2>2, <2>3 DEF Init, TypeOK
<1>6. IdsAreHandedOut
  BY <1>1, <1>3 DEF Init, IdsAreHandedOut
<1>7. QED
  BY <1>5, <1>6 DEF TypeInv

(* The loop's variables keep their types, its queues their bounds, and no  *)
(* id is in use before it was handed out.                                  *)
THEOREM TypeCorrect == Spec => []TypeInv
BY TypeInit, TypeStep, PTL DEF Spec

-----------------------------------------------------------------------------
(* Checkpoints.                                                            *)

\* What the checkpoint of a run leaves: nothing, also where the run goes on to
\* reap its timers; and a run begins with no turn taken.
Checkpoint ==
  /\ CheckpointBeforeTask
  /\ pc = "reap" => microtasks = 0 /\ jobs = 0
  /\ pc = "host" => iterations = 0

(* Every step keeps it.                                                    *)
LEMMA CheckpointStep == TypeInv /\ Checkpoint /\ [Next]_vars => Checkpoint'
<1> SUFFICES ASSUME TypeInv, Checkpoint, [Next]_vars
             PROVE  Checkpoint'
  OBVIOUS
<1>1. TypeOK /\ TypeOK'
  BY TypeStep DEF TypeInv
<1> USE DEF Checkpoint, CheckpointBeforeTask
<1>2. CASE HostCall
  BY <1>1, <1>2 DEF HostCall, TypeOK, control
<1>3. CASE RunOneIteration \/ RunUntilIdle \/ RunReadyTasks
  BY <1>1, <1>3 DEF RunOneIteration, RunUntilIdle, RunReadyTasks, Begin, TypeOK
<1>4. CASE CallbackCall
  BY <1>1, <1>4 DEF CallbackCall, Callbacks, control
<1>5. CASE CallbackReturns
  BY <1>1, <1>5 DEF CallbackReturns, Callbacks, Resume
<1>6. CASE DrainMicrotasks
  BY <1>1, <1>6 DEF DrainMicrotasks
<1>7. CASE DrainJobs
  <2>1. jobs > 0 \/ jobs = 0
    BY <1>1, EventLoopAssumption DEF TypeOK
  <2>2. microtasks > 0 \/ microtasks = 0
    BY <1>1, EventLoopAssumption DEF TypeOK
  <2>3. QED
    BY <1>1, <1>7, <2>1, <2>2 DEF DrainJobs, AfterJobs, TypeOK
<1>8. CASE StartTask \/ (\E id \in DOMAIN timers : StartTimer(id)) \/ StartRenderStep
  BY <1>1, <1>8 DEF StartTask, StartTimer, StartRenderStep
<1>9. CASE ReapTimers
  BY <1>1, <1>9 DEF ReapTimers
<1>10. CASE RenderFrames
  BY <1>1, <1>10 DEF RenderFrames, TakesFrame
<1>11. CASE EndRun
  BY <1>1, <1>11 DEF EndRun
<1>12. CASE UNCHANGED vars
  BY <1>1, <1>12 DEF vars, queues, control
<1>13. QED
  BY <1>2, <1>3, <1>4, <1>5, <1>6, <1>7, <1>8, <1>9, <1>10, <1>11, <1>12 DEF Next, RunStep

(* A run that chooses its next task has drained the microtasks of the loop *)
(* and the jobs of the engine, whichever queued the last one               *)
(* (drain_microtasks, event_loop.h:4).                                     *)
THEOREM CheckpointsAreComplete == Spec => []CheckpointBeforeTask
<1>1. Init => Checkpoint
  BY TypeInit DEF Init, TypeInv, Checkpoint, CheckpointBeforeTask
<1>2. Checkpoint => CheckpointBeforeTask
  BY DEF Checkpoint
<1>3. QED
  BY <1>1, <1>2, TypeInit, TypeStep, CheckpointStep, PTL DEF Spec

-----------------------------------------------------------------------------
(* Timers.                                                                 *)

(* A finished timer stays finished in every step.                          *)
LEMMA TimersStep == TypeInv /\ FinishedTimersStayDead /\ [Next]_vars => FinishedTimersStayDead'
<1> SUFFICES ASSUME TypeInv, FinishedTimersStayDead, [Next]_vars
             PROVE  FinishedTimersStayDead'
  OBVIOUS
<1> USE DEF FinishedTimersStayDead, Active
<1>1. ASSUME Call, UNCHANGED history
      PROVE  FinishedTimersStayDead'
  <2>1. ASSUME NEW fireAt, NEW interval, SetTimer(fireAt, interval)
        PROVE  FinishedTimersStayDead'
    <3>1. nextId \notin cleared /\ nextId \notin DOMAIN fired
      BY DEF TypeInv, TypeOK, IdsAreHandedOut
    <3>2. QED
      BY <1>1, <2>1, <3>1 DEF SetTimer, Insert, With, history
  <2>2. ASSUME NEW id \in 1 .. nextId - 1, ClearTimer(id)
        PROVE  FinishedTimersStayDead'
    BY <1>1, <2>2 DEF ClearTimer, Stopped, history, TypeInv, TypeOK, Timer
  <2>3. ASSUME UNCHANGED <<timers, cleared>>
        PROVE  FinishedTimersStayDead'
    BY <1>1, <2>3 DEF history
  <2>4. QED
    BY <1>1, <2>1, <2>2, <2>3
    DEF Call, PostTask, SetTimeout, SetInterval, CancelAnimationFrame, QueueMicrotask, EnqueueJob,
        RequestAnimationFrame, Quit
<1>2. ASSUME NEW id \in DOMAIN timers, StartTimer(id)
      PROVE  FinishedTimersStayDead'
  <2>1. id \in Active
    BY <1>2 DEF StartTimer, Runnable, IsNextDue
  <2>2. LET r == Rescheduled(timers[id], now')
        IN  r.active => r.interval # 0
    BY <2>1 DEF Rescheduled, TypeInv, TypeOK, Timer
  <2>3. QED
    BY <1>2, <2>1, <2>2 DEF StartTimer, With
<1>3. CASE ReapTimers
  BY <1>3 DEF ReapTimers, history
<1>4. ASSUME UNCHANGED <<timers, cleared, fired>>
      PROVE  FinishedTimersStayDead'
  BY <1>4
<1>5. QED
  BY <1>1, <1>2, <1>3, <1>4
  DEF Next, RunStep, HostCall, CallbackCall, RunOneIteration, RunUntilIdle, RunReadyTasks, Begin,
      CallbackReturns, DrainMicrotasks, DrainJobs, StartTask, StartRenderStep, RenderFrames, EndRun,
      vars, queues, history

(* A cleared timer, and a one-shot timer that has fired, are never active  *)
(* again (clear_timer, run_one_iteration, run_ready_tasks).                *)
THEOREM FinishedTimers == Spec => []FinishedTimersStayDead
<1>1. Init => FinishedTimersStayDead
  BY DEF Init, FinishedTimersStayDead, Active
<1>2. QED
  BY <1>1, TypeInit, TypeStep, TimersStep, PTL DEF Spec

-----------------------------------------------------------------------------
(* Nothing is early.                                                       *)

\* The latest time a run can have reached in its n-th turn, when no delay and no
\* frame is longer than most.
Limit(n, most) == MaxNow + n * most

\* The delays are not negative, and the clock, of 64 bits in the code, does not
\* reach its end.
ClockIsWideEnough(most) ==
  /\ \A d \in Delays : d \in 0 .. most
  /\ FrameMs <= most
  /\ Limit(MaxIterations + 1, most) < ClockMod

\* Timers are due within the longest delay, and one that has fired is due later
\* than it fired.
ClockInv(most) ==
  /\ now <= Limit(IF InRun THEN iterations ELSE MaxIterations, most)
  /\ \A id \in DOMAIN timers : timers[id].fireAt <= now + most /\ timers[id].interval <= most
  /\ \A id \in DOMAIN fired : fired[id] <= now
  /\ \A id \in DOMAIN fired \cap DOMAIN timers :
       timers[id].active => fired[id] < timers[id].fireAt

(* Turns that are left raise the limit by the longest delay, and no limit  *)
(* is higher than the last.                                                *)
LEMMA Limits ==
  ASSUME NEW most \in Nat, NEW n \in 0 .. MaxIterations
  PROVE  /\ Limit(n, most) \in Nat
         /\ Limit(n + 1, most) = Limit(n, most) + most
         /\ Limit(n, most) <= Limit(MaxIterations, most)
         /\ Limit(0, most) = MaxNow
<1>1. n \in Nat /\ MaxIterations \in Nat /\ MaxNow \in Nat /\ MaxIterations - n \in Nat
  BY EventLoopAssumption
<1>2. n * most \in Nat /\ (MaxIterations - n) * most \in Nat
  BY <1>1
<1>3. (n + 1) * most = n * most + most
  BY <1>1
<1>4. MaxIterations * most = n * most + (MaxIterations - n) * most
  BY <1>1
<1>5. MaxIterations * most \in Nat /\ 0 * most = 0
  BY <1>1
<1>6. QED
  BY <1>1, <1>2, <1>3, <1>4, <1>5 DEF Limit

(* Every step keeps the clock from wrapping.                               *)
LEMMA ClockStep ==
  ASSUME NEW most \in Nat, ClockIsWideEnough(most)
  PROVE  TypeInv /\ Checkpoint /\ ClockInv(most) /\ [Next]_vars => ClockInv(most)'
<1> SUFFICES ASSUME TypeInv, Checkpoint, ClockInv(most), [Next]_vars
             PROVE  ClockInv(most)'
  OBVIOUS
<1> DEFINE limit == Limit(IF InRun THEN iterations ELSE MaxIterations, most)
<1>1. TypeOK /\ TypeOK'
  BY TypeStep DEF TypeInv
<1>2. /\ now \in Nat /\ now + most < ClockMod /\ ClockMod \in Nat
      /\ \A id \in DOMAIN timers :
           timers[id].fireAt \in Nat /\ timers[id].interval \in Nat /\ timers[id].active \in BOOLEAN
      /\ \A id \in DOMAIN fired : fired[id] \in Nat
  <2>1. now <= limit /\ limit <= Limit(MaxIterations, most) /\ limit \in Nat
    <3>1. iterations \in 0 .. MaxIterations /\ MaxIterations \in 0 .. MaxIterations
      BY <1>1, EventLoopAssumption DEF TypeOK
    <3>2. \A n \in 0 .. MaxIterations : Limit(n, most) \in Nat /\ Limit(n, most) <= Limit(MaxIterations, most)
      BY Limits
    <3>3. QED
      BY <3>1, <3>2 DEF ClockInv
  <2>2. Limit(MaxIterations, most) + most < ClockMod /\ Limit(MaxIterations, most) \in Nat
    BY Limits, EventLoopAssumption DEF ClockIsWideEnough
  <2>3. QED
    BY <1>1, <2>1, <2>2, EventLoopAssumption DEF TypeOK, Timer
<1>3. \A ms \in 0 .. most : After(ms) = now + ms
  BY <1>2 DEF After
<1>4. ASSUME Call, UNCHANGED Elsewhere
      PROVE  ClockInv(most)'
  <2>1. now' = now /\ iterations' = iterations /\ mode' = mode /\ fired' = fired
    BY <1>4 DEF Elsewhere, control, history
  <2>2. ASSUME NEW interval \in 0 .. most, NEW ms \in 0 .. most, SetTimer(After(ms), interval)
        PROVE  ClockInv(most)'
    <3>1. nextId \notin DOMAIN timers /\ nextId \notin DOMAIN fired
      BY DEF TypeInv, TypeOK, IdsAreHandedOut
    <3>2. After(ms) = now + ms
      BY <1>3
    <3>3. /\ DOMAIN timers' = DOMAIN timers \cup {nextId}
          /\ timers'[nextId] = [fireAt |-> now + ms, interval |-> interval, active |-> TRUE]
          /\ \A id \in DOMAIN timers : timers'[id] = timers[id]
      BY <2>2, <3>1, <3>2 DEF SetTimer, Insert, With
    <3>4. QED
      BY <1>2, <2>1, <3>1, <3>3 DEF ClockInv, InRun
  <2>3. ASSUME NEW d \in Delays, NEW ms \in ToDelay(d), SetTimeout(ms) \/ SetInterval(ms)
        PROVE  ClockInv(most)'
    <3>1. ms \in 0 .. most /\ IntervalOf(ms) \in 0 .. most
      BY <1>2 DEF ToDelay, IntervalOf, ClockIsWideEnough, FrameMs
    <3>2. QED
      BY <2>2, <2>3, <3>1 DEF SetTimeout, SetInterval
  <2>4. ASSUME NEW id \in 1 .. nextId - 1, ClearTimer(id)
        PROVE  ClockInv(most)'
    <3>1. /\ DOMAIN timers' = DOMAIN timers
          /\ \A i \in DOMAIN timers : /\ timers'[i].fireAt = timers[i].fireAt
                                      /\ timers'[i].interval = timers[i].interval
                                      /\ timers'[i].active => timers[i].active
      BY <1>1, <2>4 DEF ClearTimer, Stopped, TypeOK, Timer
    <3>2. QED
      BY <1>2, <2>1, <3>1 DEF ClockInv, InRun
  <2>5. ASSUME UNCHANGED timers
        PROVE  ClockInv(most)'
    BY <2>1, <2>5 DEF ClockInv, InRun
  <2>6. QED
    BY <1>4, <2>3, <2>4, <2>5
    DEF Call, PostTask, CancelAnimationFrame, QueueMicrotask, EnqueueJob, RequestAnimationFrame, Quit
<1>5. CASE RunOneIteration \/ RunUntilIdle \/ RunReadyTasks
  <2>1. iterations' = 0 /\ timers' = timers /\ fired' = fired /\ now < MaxNow
    BY <1>1, <1>5
    DEF RunOneIteration, RunUntilIdle, RunReadyTasks, Begin, queues, history, Checkpoint, TypeOK
  <2>2. now' = now \/ now' = now + 1
    BY <1>2, <1>3, <1>5 DEF RunOneIteration, RunUntilIdle, RunReadyTasks, ClockIsWideEnough, FrameMs
  <2>3. Limit(0, most) = MaxNow /\ MaxNow <= Limit(MaxIterations, most)
    BY Limits, EventLoopAssumption
  <2>4. mode' # "host"
    BY <1>5 DEF RunOneIteration, RunUntilIdle, RunReadyTasks, Begin
  <2>5. \A t \in {now, now + 1} :
          /\ t <= MaxNow
          /\ \A id \in DOMAIN timers : timers[id].fireAt <= t + most
          /\ \A id \in DOMAIN fired : fired[id] <= t
    BY <1>2, <2>1, EventLoopAssumption DEF ClockInv
  <2>6. /\ now' <= Limit(0, most)
        /\ \A id \in DOMAIN timers : timers[id].fireAt <= now' + most
        /\ \A id \in DOMAIN fired : fired[id] <= now'
    BY <2>2, <2>3, <2>5
  <2>7. QED
    BY <2>1, <2>4, <2>6 DEF ClockInv, InRun
<1>6. ASSUME NEW id \in DOMAIN timers, StartTimer(id)
      PROVE  ClockInv(most)'
  <2>1. /\ now' = Later(now, timers[id].fireAt)
        /\ timers' = [timers EXCEPT ![id] = Rescheduled(timers[id], now')]
        /\ fired' = With(fired, id, now')
        /\ mode' = mode
    BY <1>6 DEF StartTimer
  <2>2. now' \in now .. now + most /\ now' \in Nat /\ timers[id].fireAt <= now'
    BY <1>2, <2>1 DEF Later, ClockInv
  <2>3. mode # "host" /\ iterations < MaxIterations /\ iterations' = iterations + 1
    BY <1>1, <1>6, IterationsCapped, EventLoopAssumption
    DEF StartTimer, CanTurn, TurnsLeft, TypeOK, InRun
  <2>4. now' <= Limit(iterations', most) /\ now' + most < ClockMod
    <3>1. /\ Limit(iterations + 1, most) = Limit(iterations, most) + most
          /\ Limit(iterations, most) \in Nat
      BY <1>1, Limits DEF TypeOK
    <3>2. now' <= Limit(iterations', most)
      BY <1>2, <2>2, <2>3, <3>1 DEF ClockInv, InRun
    <3>3. Limit(iterations', most) <= Limit(MaxIterations, most) /\ Limit(iterations', most) \in Nat
      BY <1>1, Limits DEF TypeOK
    <3>4. Limit(MaxIterations, most) + most < ClockMod /\ Limit(MaxIterations, most) \in Nat
      BY Limits, EventLoopAssumption DEF ClockIsWideEnough
    <3>5. \A t \in Nat : t <= Limit(iterations', most) => t + most < ClockMod
      BY <3>3, <3>4, EventLoopAssumption
    <3>6. QED
      BY <2>2, <3>2, <3>5
  <2>5. LET r == Rescheduled(timers[id], now')
        IN  /\ r.fireAt <= now' + most
            /\ r.interval = timers[id].interval
            /\ r.active => now' < r.fireAt
    <3>1. CASE timers[id].interval > 0
      <4>1. timers[id].interval <= most
        BY DEF ClockInv
      <4>2. \A t \in Nat :
              t + most < ClockMod => (t + timers[id].interval) % ClockMod = t + timers[id].interval
        BY <1>2, <4>1
      <4>3. Rescheduled(timers[id], now').fireAt = now' + timers[id].interval
        BY <1>1, <2>2, <2>4, <3>1, <4>2 DEF Rescheduled, TypeOK, Timer
      <4>4. Rescheduled(timers[id], now').interval = timers[id].interval
        BY <1>1, <3>1 DEF Rescheduled, TypeOK, Timer
      <4>5. QED
        BY <1>2, <2>2, <3>1, <4>1, <4>3, <4>4
    <3>2. CASE ~(timers[id].interval > 0)
      <4>1. /\ Rescheduled(timers[id], now').fireAt = timers[id].fireAt
            /\ Rescheduled(timers[id], now').interval = timers[id].interval
            /\ Rescheduled(timers[id], now').active = FALSE
        BY <1>1, <3>2 DEF Rescheduled, TypeOK, Timer
      <4>2. QED
        BY <1>2, <2>2, <4>1
    <3>3. QED
      BY <3>1, <3>2
  <2>6. /\ DOMAIN fired' = DOMAIN fired \cup {id}
        /\ \A i \in DOMAIN fired' : fired'[i] = IF i = id THEN now' ELSE fired[i]
    BY <2>1 DEF With
  <2>7. /\ DOMAIN timers' = DOMAIN timers
        /\ \A i \in DOMAIN timers :
             timers'[i] = IF i = id THEN Rescheduled(timers[id], now') ELSE timers[i]
    BY <2>1
  <2>8. \A i \in DOMAIN timers' : timers'[i].fireAt <= now' + most /\ timers'[i].interval <= most
    BY <1>2, <2>2, <2>5, <2>7 DEF ClockInv
  <2>9. \A i \in DOMAIN fired' : fired'[i] <= now'
    BY <1>2, <2>2, <2>6 DEF ClockInv
  <2>10. \A i \in DOMAIN fired' \cap DOMAIN timers' :
           timers'[i].active => fired'[i] < timers'[i].fireAt
    BY <2>5, <2>6, <2>7 DEF ClockInv
  <2>11. QED
    BY <2>1, <2>3, <2>4, <2>8, <2>9, <2>10 DEF ClockInv, InRun
<1>7. CASE StartTask \/ StartRenderStep
  <2>1. timers' = timers /\ fired' = fired /\ mode' = mode
    BY <1>7 DEF StartTask, StartRenderStep, history
  <2>2. mode # "host" /\ iterations < MaxIterations /\ iterations' = iterations + 1
    BY <1>1, <1>7, IterationsCapped, EventLoopAssumption
    DEF StartTask, StartRenderStep, CanTurn, TurnsLeft, TypeOK, InRun
  <2>3. now' \in now .. now + most
    BY <1>2, <1>3, <1>7 DEF StartTask, StartRenderStep, ClockIsWideEnough, FrameMs
  <2>4. Limit(iterations + 1, most) = Limit(iterations, most) + most /\ Limit(iterations, most) \in Nat
    BY <1>1, Limits DEF TypeOK
  <2>5. now' <= Limit(iterations', most)
    BY <1>2, <2>2, <2>3, <2>4 DEF ClockInv, InRun
  <2>6. QED
    BY <1>2, <2>1, <2>2, <2>3, <2>5 DEF ClockInv, InRun
<1>8. CASE ReapTimers
  BY <1>8 DEF ReapTimers, Active, ClockInv, InRun, history
<1>9. CASE EndRun
  <2>1. Limit(iterations, most) <= Limit(MaxIterations, most) /\ Limit(iterations, most) \in Nat
    BY <1>1, Limits DEF TypeOK
  <2>2. Limit(MaxIterations, most) \in Nat
    BY Limits, EventLoopAssumption
  <2>3. UNCHANGED <<now, timers, fired>> /\ mode' = "host"
    BY <1>9 DEF EndRun, queues, history
  <2>4. now' <= Limit(MaxIterations, most)
    BY <1>2, <2>1, <2>2, <2>3 DEF ClockInv
  <2>5. QED
    BY <2>3, <2>4 DEF ClockInv, InRun
<1>10. ASSUME UNCHANGED <<now, timers, fired, iterations, mode>>
       PROVE  ClockInv(most)'
  BY <1>10 DEF ClockInv, InRun
<1>11. QED
  BY <1>4, <1>5, <1>6, <1>7, <1>8, <1>9, <1>10
  DEF Next, RunStep, HostCall, CallbackCall, Elsewhere, CallbackReturns, DrainMicrotasks, DrainJobs,
      RenderFrames, vars, queues, control, history

(* No step runs a timer before it is due.                                  *)
LEMMA NothingEarlyStep ==
  ASSUME NEW most \in Nat, ClockIsWideEnough(most), TypeInv, ClockInv(most), [Next]_vars
  PROVE  /\ pc = "frames" => \A id \in (batch \cup frames) \ (batch' \cup frames') : id < frameMark
         /\ \A id \in DOMAIN fired : StartTimer(id) => fired[id] < now'
<1>1. ASSUME pc = "frames"
      PROVE  frames \subseteq batch' \cup frames'
  BY <1>1
  DEF Next, RunStep, HostCall, CallbackCall, RunOneIteration, RunUntilIdle, RunReadyTasks, Begin,
      CallbackReturns, DrainMicrotasks, DrainJobs, StartTask, StartTimer, ReapTimers, StartRenderStep,
      RenderFrames, TakesFrame, EndRun, CanTurn, Callbacks, InRun, TypeInv, TypeOK, vars, queues
<1>2. ASSUME NEW id \in DOMAIN fired, StartTimer(id)
      PROVE  fired[id] < now'
  <2>1. id \in DOMAIN timers /\ timers[id].active
    BY <1>2 DEF StartTimer, Runnable, IsNextDue, Active
  <2>2. now' = Later(now, timers[id].fireAt)
    BY <1>2 DEF StartTimer
  <2>3. now \in Nat /\ timers[id].fireAt \in Nat /\ fired[id] \in Nat
    BY <2>1, EventLoopAssumption DEF TypeInv, TypeOK, Timer
  <2>4. QED
    BY <2>1, <2>2, <2>3 DEF Later, ClockInv
<1>3. QED
  BY <1>1, <1>2 DEF TypeInv, IdsAreHandedOut

(* While the clock does not wrap, a callback requested during a render     *)
(* step waits for the next one (render_step), and an interval fires later  *)
(* than it fired before (set_interval, run_one_iteration).                 *)
THEOREM NothingRunsEarly ==
  ASSUME NEW most \in Nat, ClockIsWideEnough(most)
  PROVE  Spec => NothingIsEarly
<1>1. Init => ClockInv(most)
  <2> SUFFICES ASSUME Init
               PROVE  ClockInv(most)
    OBVIOUS
  <2>1. now = 0 /\ DOMAIN timers = {} /\ DOMAIN fired = {}
    BY DEF Init
  <2>2. Limit(MaxIterations, most) \in Nat
    BY Limits, EventLoopAssumption
  <2>3. ~InRun
    BY DEF Init, InRun
  <2>4. QED
    BY <2>1, <2>2, <2>3 DEF ClockInv
<1>2. Init => Checkpoint
  BY TypeInit DEF Init, TypeInv, Checkpoint, CheckpointBeforeTask
<1>3. TypeInv /\ Checkpoint /\ ClockInv(most) /\ [Next]_vars => ClockInv(most)'
  BY ClockStep
<1>4. TypeInv /\ ClockInv(most) /\ [Next]_vars =>
        [/\ pc = "frames" => \A id \in (batch \cup frames) \ (batch' \cup frames') : id < frameMark
         /\ \A id \in DOMAIN fired : StartTimer(id) => fired[id] < now']_vars
  BY NothingEarlyStep
<1>5. QED
  BY <1>1, <1>2, <1>3, <1>4, TypeInit, TypeStep, CheckpointStep, PTL DEF Spec, NothingIsEarly
=============================================================================
