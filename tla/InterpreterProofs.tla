--------------------------- MODULE InterpreterProofs ---------------------------
(***************************************************************************)
(* What holds of promises, their reactions and async calls in any script,  *)
(* and of the frame of any function whose code is linked.                  *)
(***************************************************************************)
EXTENDS JsPromise, JsFrame, SequenceLemmas, FiniteSetTheorems

-----------------------------------------------------------------------------
(* The shape of a heap                                                     *)

\* What n promises and f frames let a reaction call.
Functions(n, f) ==
  {Script, Absent} \cup {Handler("settle", p) : p \in 1 .. n} \cup {Handler("resume", g) : g \in 1 .. f}

\* The reactions that wait; one with a script function has a result promise, and
\* one that resumes a frame does so whatever the outcome.
Waiting(n, f, r) ==
  {x \in [onFulfilled : Functions(n, f), onRejected : Functions(n, f), result : 0 .. n, id : 1 .. r] :
     /\ Script \in {x.onFulfilled, x.onRejected} => x.result # 0
     /\ "resume" \in {x.onFulfilled.kind, x.onRejected.kind} => x.onFulfilled = x.onRejected}

Made(n, f, r) ==
  [state : {"pending", "fulfilled", "rejected"}, value : {Plain}, reactions : Seq(Waiting(n, f, r))]

ReactionJobs(n, f, r) ==
  {j \in [kind : {"reaction"}, handler : Functions(n, f), result : 0 .. n, fulfilled : BOOLEAN,
          value : {Plain}, source : 1 .. n, id : 1 .. r] :
     j.handler = Script => j.result # 0}

ThenableJobs(n) ==
  [kind : {"thenable"}, handler : {Absent}, result : 1 .. n, fulfilled : {TRUE},
   value : {Thenable} \cup 1 .. n, source : {0}, id : {0}]

Jobs(n, f, r) == ReactionJobs(n, f, r) \cup ThenableJobs(n)

Calls(n) == [status : {"running", "suspended", "done"}, result : 1 .. n]

\* The heaps of n promises, f frames and r reactions.
Heaps(n, f, r) ==
  [promises : Seq(Made(n, f, r)), jobs : Seq(Jobs(n, f, r)), frames : Seq(Calls(n)),
   open : SUBSET (1 .. n), reactions : {r}]

Shape(s) ==
  /\ Len(s.promises) \in Nat /\ Len(s.frames) \in Nat /\ s.reactions \in Nat
  /\ s \in Heaps(Len(s.promises), Len(s.frames), s.reactions)

-----------------------------------------------------------------------------
(* The invariant of a heap                                                 *)

Settles(p) == Handler("settle", p)
Resumes(f) == Handler("resume", f)

\* Reactions leave the list of their promise when it is settled, and stay in order.
InOrder(s) ==
  /\ \A p \in DOMAIN s.promises : s.promises[p].state # "pending" => s.promises[p].reactions = <<>>
  /\ \A p \in DOMAIN s.promises : \A j, k \in DOMAIN s.promises[p].reactions :
       j < k => s.promises[p].reactions[j].id < s.promises[p].reactions[k].id
  /\ \A j \in DOMAIN s.jobs :
       s.jobs[j].kind = "reaction" => s.promises[s.jobs[j].source].state # "pending"
  /\ \A j, k \in DOMAIN s.jobs :
       j < k /\ s.jobs[j].kind = "reaction" /\ s.jobs[k].kind = "reaction"
         /\ s.jobs[j].source = s.jobs[k].source => s.jobs[j].id < s.jobs[k].id

\* Nothing but a frame that is not done can settle its result promise.
Untouched(s, p) ==
  /\ p \in 1 .. Len(s.promises) /\ s.promises[p].state = "pending" /\ p \notin s.open
  /\ \A j \in DOMAIN s.jobs : s.jobs[j].result # p /\ s.jobs[j].handler # Settles(p)
  /\ \A q \in DOMAIN s.promises : \A k \in DOMAIN s.promises[q].reactions :
       /\ s.promises[q].reactions[k].result # p
       /\ Settles(p) \notin {s.promises[q].reactions[k].onFulfilled, s.promises[q].reactions[k].onRejected}

\* The place <<p, k>> in the list of promise p, or <<0, k>> among the jobs, of what
\* resumes frame f.
Resumed(s, f, p, k) ==
  IF p = 0 THEN k \in DOMAIN s.jobs /\ s.jobs[k].handler = Resumes(f)
  ELSE /\ p \in DOMAIN s.promises /\ k \in DOMAIN s.promises[p].reactions
       /\ s.promises[p].reactions[k].onFulfilled = Resumes(f)

Woken(s, f) == \E p, k \in Nat : Resumed(s, f, p, k)

WokenOnce(s) ==
  \A f, p, k, q, l \in Nat : Resumed(s, f, p, k) /\ Resumed(s, f, q, l) => p = q /\ k = l

\* A heap in which the promises of own are only settled by frames.
Sound(s, own) ==
  Shape(s) /\ InOrder(s) /\ WokenOnce(s) /\ \A p \in own : Untouched(s, p)

-----------------------------------------------------------------------------
(* The invariant of the interpreter                                        *)

Undone(s) == {f \in DOMAIN s.frames : s.frames[f].status # "done"}
Own(s) == {s.frames[f].result : f \in Undone(s)}

\* The frames of a heap: those of run are at work, those suspended have a waker.
FramesKept(s, run) ==
  /\ \A f \in DOMAIN s.frames : (s.frames[f].status = "suspended") <=> Woken(s, f)
  /\ \A f \in DOMAIN s.frames : (s.frames[f].status = "running") <=> f \in run
  /\ \A f, g \in Undone(s) : s.frames[f].result = s.frames[g].result => f = g

\* The frame that a job resumes, and a job that runs.
Resumption(job) == IF job.handler.kind = "resume" THEN {job.handler.of} ELSE {}

Runs(s, job) ==
  /\ job \in Jobs(Len(s.promises), Len(s.frames), s.reactions) /\ CallsScript(job)
  /\ job.result \notin Own(s)

\* A heap between two steps of script or of the interpreter, while run is at work.
Kept(s, run) == Sound(s, Own(s)) /\ FramesKept(s, run)

AtWork == IF mode = "job" THEN Resumption(current) ELSE {}

UnderWay == IF mode = "job" THEN Runs(Heap, current) ELSE current = NoJob

Inv ==
  /\ Kept(Heap, AtWork) /\ UnderWay /\ Fits(Heap)
  /\ mode \in {"host", "uncaught", "script", "drain", "job"} /\ back \in {"host", "script"}

-----------------------------------------------------------------------------
(* Heaps by their parts                                                    *)

(* The handlers are told apart by what they do and to what.                *)
LEMMA HandlersDiffer ==
  ASSUME NEW p, NEW q
  PROVE  /\ Settles(p) = Settles(q) => p = q
         /\ Resumes(p) = Resumes(q) => p = q
         /\ Settles(p) # Resumes(q)
         /\ Script # Absent /\ Script # Settles(p) /\ Script # Resumes(p)
         /\ Absent # Settles(p) /\ Absent # Resumes(p)
         /\ Script.kind = "script" /\ Absent.kind = "none"
         /\ Settles(p).kind = "settle" /\ Resumes(p).kind = "resume"
         /\ Settles(p).of = p /\ Resumes(p).of = p
BY DEF Settles, Resumes, Script, Absent, Handler

(* What a handler may be, by its kind.                                     *)
LEMMA HandlerKinds ==
  ASSUME NEW n \in Nat, NEW f \in Nat, NEW h \in Functions(n, f)
  PROVE  /\ h.kind \in {"script", "none", "settle", "resume"}
         /\ h.kind = "script" => h = Script
         /\ h.kind = "none" => h = Absent
         /\ h.kind = "settle" => h.of \in 1 .. n /\ h = Settles(h.of)
         /\ h.kind = "resume" => h.of \in 1 .. f /\ h = Resumes(h.of)
BY DEF Functions, Settles, Resumes, Script, Absent, Handler

(* More promises, frames and reactions leave the parts of a heap as they were. *)
LEMMA MoreFunctions ==
  ASSUME NEW n \in Nat, NEW f \in Nat, NEW m \in Nat, NEW g \in Nat, n <= m, f <= g
  PROVE  Functions(n, f) \subseteq Functions(m, g)
BY DEF Functions

LEMMA MoreWaiting ==
  ASSUME NEW n \in Nat, NEW f \in Nat, NEW r \in Nat,
         NEW m \in Nat, NEW g \in Nat, NEW q \in Nat, n <= m, f <= g, r <= q
  PROVE  Waiting(n, f, r) \subseteq Waiting(m, g, q)
<1>1. Functions(n, f) \subseteq Functions(m, g)
  BY MoreFunctions
<1>2. 0 .. n \subseteq 0 .. m /\ 1 .. r \subseteq 1 .. q
  OBVIOUS
<1>3. QED
  BY <1>1, <1>2 DEF Waiting

LEMMA MoreMade ==
  ASSUME NEW n \in Nat, NEW f \in Nat, NEW r \in Nat,
         NEW m \in Nat, NEW g \in Nat, NEW q \in Nat, n <= m, f <= g, r <= q
  PROVE  Made(n, f, r) \subseteq Made(m, g, q)
<1>1. Waiting(n, f, r) \subseteq Waiting(m, g, q)
  BY MoreWaiting
<1>2. Seq(Waiting(n, f, r)) \subseteq Seq(Waiting(m, g, q))
  BY <1>1, SeqWider
<1>3. QED
  BY <1>2 DEF Made

LEMMA MoreJobs ==
  ASSUME NEW n \in Nat, NEW f \in Nat, NEW r \in Nat,
         NEW m \in Nat, NEW g \in Nat, NEW q \in Nat, n <= m, f <= g, r <= q
  PROVE  Jobs(n, f, r) \subseteq Jobs(m, g, q)
<1>1. Functions(n, f) \subseteq Functions(m, g)
  BY MoreFunctions
<1>2. 0 .. n \subseteq 0 .. m /\ 1 .. n \subseteq 1 .. m /\ 1 .. r \subseteq 1 .. q
  OBVIOUS
<1>3. ReactionJobs(n, f, r) \subseteq ReactionJobs(m, g, q)
  BY <1>1, <1>2 DEF ReactionJobs
<1>4. ThenableJobs(n) \subseteq ThenableJobs(m)
  BY <1>2 DEF ThenableJobs
<1>5. QED
  BY <1>3, <1>4 DEF Jobs

LEMMA MoreCalls ==
  ASSUME NEW n \in Nat, NEW m \in Nat, n <= m
  PROVE  Calls(n) \subseteq Calls(m)
BY DEF Calls

(* The parts of a reaction and of a job.                                   *)
LEMMA ReactionParts ==
  ASSUME NEW n \in Nat, NEW f \in Nat, NEW r \in Nat, NEW x \in Waiting(n, f, r)
  PROVE  /\ x.onFulfilled \in Functions(n, f) /\ x.onRejected \in Functions(n, f)
         /\ x.result \in 0 .. n /\ x.id \in 1 .. r
         /\ Script \in {x.onFulfilled, x.onRejected} => x.result # 0
         /\ "resume" \in {x.onFulfilled.kind, x.onRejected.kind} => x.onFulfilled = x.onRejected
BY DEF Waiting

LEMMA JobParts ==
  ASSUME NEW n \in Nat, NEW f \in Nat, NEW r \in Nat, NEW x \in Jobs(n, f, r)
  PROVE  /\ x.handler \in Functions(n, f) /\ x.result \in 0 .. n
         /\ \/ /\ x.kind = "reaction" /\ x.fulfilled \in BOOLEAN /\ x.value = Plain
               /\ x.source \in 1 .. n /\ x.id \in 1 .. r
               /\ x.handler = Script => x.result # 0
            \/ /\ x.kind = "thenable" /\ x.handler = Absent /\ x.result \in 1 .. n
               /\ x.value \in {Thenable} \cup 1 .. n
               /\ x.fulfilled = TRUE /\ x.source = 0 /\ x.id = 0
<1>1. CASE x \in ReactionJobs(n, f, r)
  BY <1>1 DEF ReactionJobs
<1>2. CASE x \in ThenableJobs(n)
  <2>1. Absent \in Functions(n, f)
    BY DEF Functions
  <2>2. /\ x.kind = "thenable" /\ x.handler = Absent /\ x.result \in 1 .. n
        /\ x.value \in {Thenable} \cup 1 .. n /\ x.fulfilled = TRUE /\ x.source = 0 /\ x.id = 0
    BY <1>2 DEF ThenableJobs
  <2>3. x.result \in 0 .. n
    BY <2>2
  <2>4. QED
    BY <2>1, <2>2, <2>3
<1>3. QED
  BY <1>1, <1>2 DEF Jobs

(* The parts of a heap.                                                    *)
LEMMA ShapeParts ==
  ASSUME NEW s, Shape(s), NEW n, n = Len(s.promises), NEW f, f = Len(s.frames),
         NEW r, r = s.reactions
  PROVE  /\ n \in Nat /\ f \in Nat /\ r \in Nat
         /\ s = [promises |-> s.promises, jobs |-> s.jobs, frames |-> s.frames, open |-> s.open,
                 reactions |-> s.reactions]
         /\ s.promises \in Seq(Made(n, f, r)) /\ DOMAIN s.promises = 1 .. n
         /\ s.jobs \in Seq(Jobs(n, f, r)) /\ Len(s.jobs) \in Nat /\ DOMAIN s.jobs = 1 .. Len(s.jobs)
         /\ s.frames \in Seq(Calls(n)) /\ DOMAIN s.frames = 1 .. f
         /\ s.open \subseteq 1 .. n
<1>1. n \in Nat /\ f \in Nat /\ r \in Nat /\ s \in Heaps(n, f, r)
  BY DEF Shape
<1>2. /\ s = [promises |-> s.promises, jobs |-> s.jobs, frames |-> s.frames, open |-> s.open,
              reactions |-> s.reactions]
      /\ s.promises \in Seq(Made(n, f, r)) /\ s.jobs \in Seq(Jobs(n, f, r))
      /\ s.frames \in Seq(Calls(n)) /\ s.open \subseteq 1 .. n
  BY <1>1 DEF Heaps
<1>3. Len(s.jobs) \in Nat /\ DOMAIN s.jobs = 1 .. Len(s.jobs)
  BY <1>2, SeqEntries
<1>4. DOMAIN s.promises = 1 .. n
  BY <1>2, SeqEntries
<1>5. DOMAIN s.frames = 1 .. f
  BY <1>2, SeqEntries
<1>6. QED
  BY <1>1, <1>2, <1>3, <1>4, <1>5

(* The entries of the parts of a heap.                                     *)
LEMMA ShapeEntries ==
  ASSUME NEW s, Shape(s), NEW n, n = Len(s.promises), NEW f, f = Len(s.frames),
         NEW r, r = s.reactions
  PROVE  /\ \A p \in DOMAIN s.promises : s.promises[p] \in Made(n, f, r)
         /\ \A j \in DOMAIN s.jobs : s.jobs[j] \in Jobs(n, f, r)
         /\ \A g \in DOMAIN s.frames : s.frames[g] \in Calls(n)
         /\ \A p \in DOMAIN s.promises :
              /\ s.promises[p].reactions \in Seq(Waiting(n, f, r))
              /\ \A k \in DOMAIN s.promises[p].reactions :
                   s.promises[p].reactions[k] \in Waiting(n, f, r) /\ k \in Nat /\ k >= 1
<1>1. /\ s.promises \in Seq(Made(n, f, r)) /\ s.jobs \in Seq(Jobs(n, f, r)) /\ s.frames \in Seq(Calls(n))
  BY ShapeParts
<1>2. \A p \in DOMAIN s.promises : s.promises[p] \in Made(n, f, r)
  BY <1>1, SeqEntries
<1>3. \A j \in DOMAIN s.jobs : s.jobs[j] \in Jobs(n, f, r)
  BY <1>1, SeqEntries
<1>4. \A g \in DOMAIN s.frames : s.frames[g] \in Calls(n)
  BY <1>1, SeqEntries
<1>5. ASSUME NEW p \in DOMAIN s.promises
      PROVE  /\ s.promises[p].reactions \in Seq(Waiting(n, f, r))
             /\ \A k \in DOMAIN s.promises[p].reactions :
                  s.promises[p].reactions[k] \in Waiting(n, f, r) /\ k \in Nat /\ k >= 1
  <2>1. s.promises[p].reactions \in Seq(Waiting(n, f, r))
    BY <1>2, <1>5 DEF Made
  <2>2. QED
    BY <2>1, SeqEntries
<1>6. QED
  BY <1>2, <1>3, <1>4, <1>5

(* A heap put together from its parts.                                     *)
LEMMA ShapeBuilt ==
  ASSUME NEW n \in Nat, NEW f \in Nat, NEW r \in Nat, NEW t,
         t = [promises |-> t.promises, jobs |-> t.jobs, frames |-> t.frames, open |-> t.open,
              reactions |-> t.reactions],
         t.promises \in Seq(Made(n, f, r)), Len(t.promises) = n,
         t.jobs \in Seq(Jobs(n, f, r)),
         t.frames \in Seq(Calls(n)), Len(t.frames) = f,
         t.open \subseteq 1 .. n, t.reactions = r
  PROVE  Shape(t)
<1>1. t \in Heaps(n, f, r)
  BY DEF Heaps
<1>2. QED
  BY <1>1 DEF Shape

(* Parts of a heap of fewer promises, frames and reactions.                *)
LEMMA PartsGrow ==
  ASSUME NEW s, Shape(s), NEW n \in Nat, NEW f \in Nat, NEW r \in Nat,
         Len(s.promises) <= n, Len(s.frames) <= f, s.reactions <= r
  PROVE  /\ s.promises \in Seq(Made(n, f, r)) /\ s.jobs \in Seq(Jobs(n, f, r))
         /\ s.frames \in Seq(Calls(n)) /\ s.open \subseteq 1 .. n
<1>1. PICK N, F, R : N = Len(s.promises) /\ F = Len(s.frames) /\ R = s.reactions
  OBVIOUS
<1>2. /\ N \in Nat /\ F \in Nat /\ R \in Nat
       /\ s.promises \in Seq(Made(N, F, R)) /\ s.jobs \in Seq(Jobs(N, F, R))
       /\ s.frames \in Seq(Calls(N)) /\ s.open \subseteq 1 .. N
  BY <1>1, ShapeParts
<1>3. /\ N \in Nat /\ F \in Nat /\ R \in Nat
      /\ N <= n /\ F <= f /\ R <= r
  BY <1>1, <1>2
<1>4. Made(N, F, R) \subseteq Made(n, f, r)
  BY <1>3, MoreMade
<1>5. Jobs(N, F, R) \subseteq Jobs(n, f, r)
  BY <1>3, MoreJobs
<1>6. Calls(N) \subseteq Calls(n)
  BY <1>3, MoreCalls
<1>7. Made(N, F, R) \subseteq Made(n, f, r) /\ Jobs(N, F, R) \subseteq Jobs(n, f, r) /\ Calls(N) \subseteq Calls(n)
  BY <1>4, <1>5, <1>6
<1>8. s.promises \in Seq(Made(n, f, r)) 
  BY <1>2, <1>7, SeqWider
<1>9. s.jobs \in Seq(Jobs(n, f, r))
  BY <1>2, <1>7, SeqWider
<1>10. s.frames \in Seq(Calls(n))
  BY <1>2, <1>7, SeqWider
<1>11. 1 .. N \subseteq 1 .. n
  BY <1>2, <1>3
<1>12. QED
  BY <1>2, <1>8, <1>9, <1>10, <1>11

-----------------------------------------------------------------------------
(* Operations on a heap                                                    *)

(* Wakers that stay in their places.                                       *)
LEMMA PlacesKept ==
  ASSUME NEW s, NEW t, \A g, p, k \in Nat : Resumed(t, g, p, k) <=> Resumed(s, g, p, k)
  PROVE  /\ WokenOnce(s) => WokenOnce(t)
         /\ \A g \in Nat : Woken(t, g) <=> Woken(s, g)
BY DEF WokenOnce, Woken

(* A new promise is pending, and nothing refers to it.                     *)
LEMMA PromiseAdded ==
  ASSUME NEW s, Shape(s), NEW t, t = WithPromise(s), NEW n, n = Len(s.promises)
  PROVE  /\ Shape(t) /\ Len(t.promises) = n + 1 /\ DOMAIN t.promises = 1 .. n + 1
         /\ t.jobs = s.jobs /\ t.frames = s.frames /\ t.open = s.open /\ t.reactions = s.reactions
         /\ \A p \in DOMAIN s.promises : p \in DOMAIN t.promises /\ p # n + 1 /\ t.promises[p] = s.promises[p]
         /\ t.promises[n + 1] = NewPromise
<1>1. PICK f, r : f = Len(s.frames) /\ r = s.reactions
  OBVIOUS
<1>2. /\ n \in Nat /\ f \in Nat /\ r \in Nat /\ DOMAIN s.promises = 1 .. n
      /\ s = [promises |-> s.promises, jobs |-> s.jobs, frames |-> s.frames, open |-> s.open,
              reactions |-> s.reactions]
  BY <1>1, ShapeParts
<1>3. t = [promises |-> Append(s.promises, NewPromise), jobs |-> s.jobs, frames |-> s.frames,
           open |-> s.open, reactions |-> s.reactions]
  BY <1>2 DEF WithPromise
<1>4. PICK m : m = n + 1
  OBVIOUS
<1>5. m \in Nat /\ n <= m /\ f <= f /\ r <= r
  BY <1>2, <1>4
<1>6. /\ s.promises \in Seq(Made(m, f, r)) /\ s.jobs \in Seq(Jobs(m, f, r))
      /\ s.frames \in Seq(Calls(m)) /\ s.open \subseteq 1 .. m
  BY <1>1, <1>2, <1>5, PartsGrow
<1>7. NewPromise \in Made(m, f, r)
  BY ShortSeqs DEF NewPromise, Made
<1>8. /\ t.promises \in Seq(Made(m, f, r)) /\ Len(t.promises) = m
      /\ \A p \in DOMAIN s.promises : t.promises[p] = s.promises[p]
      /\ t.promises[m] = NewPromise
  BY <1>3, <1>4, <1>6, <1>7, SeqAdd
<1>9. Shape(t)
  BY <1>1, <1>2, <1>3, <1>5, <1>6, <1>8, ShapeBuilt
<1>10. DOMAIN t.promises = 1 .. n + 1
  BY <1>4, <1>8, SeqEntries
<1>11. QED
  BY <1>2, <1>3, <1>4, <1>8, <1>9, <1>10

LEMMA PromiseAddedOnce ==
  ASSUME NEW s, NEW own, Sound(s, own), NEW t, t = WithPromise(s), NEW n, n = Len(s.promises)
  PROVE  /\ Sound(t, own \cup {n + 1}) /\ n + 1 \notin own
         /\ \A g \in Nat : Woken(t, g) <=> Woken(s, g)
<1>1. /\ Shape(t) /\ Len(t.promises) = n + 1 /\ DOMAIN t.promises = 1 .. n + 1
      /\ t.jobs = s.jobs /\ t.frames = s.frames /\ t.open = s.open /\ t.reactions = s.reactions
      /\ \A p \in DOMAIN s.promises : p \in DOMAIN t.promises /\ p # n + 1 /\ t.promises[p] = s.promises[p]
      /\ t.promises[n + 1] = NewPromise
  BY PromiseAdded DEF Sound
<1>2. Shape(s) /\ InOrder(s) /\ WokenOnce(s) /\ \A p \in own : Untouched(s, p)
  BY DEF Sound
<1>3. PICK f, r : f = Len(s.frames) /\ r = s.reactions
  OBVIOUS
<1>4. /\ n \in Nat /\ f \in Nat /\ r \in Nat /\ DOMAIN s.promises = 1 .. n
      /\ s.open \subseteq 1 .. n
  BY <1>2, <1>3, ShapeParts
<1>5. /\ \A p \in DOMAIN s.promises : s.promises[p] \in Made(n, f, r)
      /\ \A j \in DOMAIN s.jobs : s.jobs[j] \in Jobs(n, f, r)
      /\ \A p \in DOMAIN s.promises :
              /\ \A k \in DOMAIN s.promises[p].reactions :
                   s.promises[p].reactions[k] \in Waiting(n, f, r) /\ k \in Nat /\ k >= 1
  BY <1>2, <1>3, ShapeEntries
<1>6. \A p \in DOMAIN t.promises : p \in DOMAIN s.promises \/ p = n + 1
  BY <1>1, <1>4
<1>7. t.promises[n + 1].state = "pending" /\ DOMAIN t.promises[n + 1].reactions = {}
  BY <1>1 DEF NewPromise
<1>8. \A g, p, k \in Nat : Resumed(t, g, p, k) <=> Resumed(s, g, p, k)
  BY <1>1, <1>6, <1>7 DEF Resumed
<1>9. WokenOnce(t) /\ \A g \in Nat : Woken(t, g) <=> Woken(s, g)
  BY <1>2, <1>8, PlacesKept
<1>10. \A j \in DOMAIN s.jobs : s.jobs[j].kind = "reaction" => s.jobs[j].source \in DOMAIN s.promises
  <2>1. SUFFICES ASSUME NEW j \in DOMAIN s.jobs, s.jobs[j].kind = "reaction"
                 PROVE  s.jobs[j].source \in DOMAIN s.promises
    OBVIOUS
  <2>2. PICK x \in Jobs(n, f, r) : x = s.jobs[j]
    BY <1>5, <2>1
  <2>3. x.kind = "reaction" => x.source \in 1 .. n
    BY <1>4, JobParts
  <2>4. QED
    BY <1>4, <2>1, <2>2, <2>3
<1>11. InOrder(t)
  BY <1>1, <1>2, <1>6, <1>7, <1>10, SMTT(30) DEF InOrder
<1>12. ASSUME NEW p \in own
       PROVE  Untouched(t, p)
  <2>1. Untouched(s, p)
    BY <1>2
  <2>2. p \in 1 .. Len(t.promises) /\ t.promises[p].state = "pending" /\ p \notin t.open
    BY <1>1, <1>4, <2>1 DEF Untouched
  <2>3. ASSUME NEW q \in DOMAIN t.promises, NEW k \in DOMAIN t.promises[q].reactions
        PROVE  /\ t.promises[q].reactions[k].result # p
               /\ Settles(p) # t.promises[q].reactions[k].onFulfilled
               /\ Settles(p) # t.promises[q].reactions[k].onRejected
    BY <1>1, <1>6, <1>7, <2>1 DEF Untouched
  <2>4. QED
    BY <1>1, <2>1, <2>2, <2>3 DEF Untouched
<1>13. \A j \in DOMAIN s.jobs : s.jobs[j].result # n + 1 /\ s.jobs[j].handler # Settles(n + 1)
  <2>1. ASSUME NEW j \in DOMAIN s.jobs
        PROVE  s.jobs[j].result # n + 1 /\ s.jobs[j].handler # Settles(n + 1)
    <3>1. s.jobs[j].result \in 0 .. n /\ s.jobs[j].handler \in Functions(n, f)
      BY <1>4, <1>5, JobParts
    <3>2. QED
      BY <1>4, <3>1, HandlerKinds, HandlersDiffer
  <2>2. QED
    BY <2>1
<1>14. ASSUME NEW q \in DOMAIN s.promises, NEW k \in DOMAIN s.promises[q].reactions
       PROVE  /\ s.promises[q].reactions[k].result # n + 1
              /\ Settles(n + 1) # s.promises[q].reactions[k].onFulfilled
              /\ Settles(n + 1) # s.promises[q].reactions[k].onRejected
  <2>1. PICK x : x = s.promises[q].reactions[k]
    OBVIOUS
  <2>2. x.result \in 0 .. n /\ x.onFulfilled \in Functions(n, f) /\ x.onRejected \in Functions(n, f)
    BY <1>5, <2>1 DEF Waiting
  <2>3. n + 1 \notin 1 .. n /\ n + 1 \notin 0 .. n
    BY <1>4
  <2>4. x.onFulfilled # Settles(n + 1)
    BY <1>4, <2>2, <2>3, HandlerKinds, HandlersDiffer, SMTT(30)
  <2>5. x.onRejected # Settles(n + 1)
    BY <1>4, <2>2, <2>3, HandlerKinds, HandlersDiffer
  <2>6. QED
    BY <2>1, <2>2, <2>3, <2>4, <2>5
<1>15. Untouched(t, n + 1)
  <2>1. n + 1 \in 1 .. Len(t.promises) /\ n + 1 \notin t.open
    BY <1>1, <1>4
  <2>2. ASSUME NEW q \in DOMAIN t.promises, NEW k \in DOMAIN t.promises[q].reactions
        PROVE  /\ t.promises[q].reactions[k].result # n + 1
               /\ Settles(n + 1) # t.promises[q].reactions[k].onFulfilled
               /\ Settles(n + 1) # t.promises[q].reactions[k].onRejected
    BY <1>1, <1>6, <1>7, <1>14
  <2>3. QED
    BY <1>1, <1>7, <1>13, <2>1, <2>2 DEF Untouched
<1>16. n + 1 \notin own
  BY <1>2, <1>4 DEF Untouched
<1>17. QED
  BY <1>1, <1>9, <1>11, <1>12, <1>15, <1>16 DEF Sound

(* What a reaction's job takes from the reaction.                          *)
LEMMA ReactionRuns ==
  ASSUME NEW n \in Nat, NEW f \in Nat, NEW r \in Nat, NEW x \in Waiting(n, f, r),
         NEW p \in 1 .. n, NEW b \in BOOLEAN, NEW j, j = ReactionJob(x, p, b, Plain)
  PROVE  /\ j \in Jobs(n, f, r)
         /\ j.kind = "reaction" /\ j.source = p /\ j.id = x.id /\ j.result = x.result
         /\ j.handler \in {x.onFulfilled, x.onRejected}
         /\ \A g : j.handler = Resumes(g) <=> x.onFulfilled = Resumes(g)
<1>1. /\ x.onFulfilled \in Functions(n, f) /\ x.onRejected \in Functions(n, f)
      /\ x.result \in 0 .. n /\ x.id \in 1 .. r
      /\ Script \in {x.onFulfilled, x.onRejected} => x.result # 0
      /\ "resume" \in {x.onFulfilled.kind, x.onRejected.kind} => x.onFulfilled = x.onRejected
  BY ReactionParts
<1>2. PICK h : h = IF b THEN x.onFulfilled ELSE x.onRejected
  OBVIOUS
<1>3. h \in {x.onFulfilled, x.onRejected} /\ h \in Functions(n, f)
  BY <1>1, <1>2
<1>4. j = [kind |-> "reaction", handler |-> h, result |-> x.result, fulfilled |-> b, value |-> Plain,
           source |-> p, id |-> x.id]
  BY <1>2 DEF ReactionJob
<1>5. h = Script => x.result # 0
  BY <1>1, <1>3
<1>6. j \in ReactionJobs(n, f, r)
  BY <1>1, <1>3, <1>4, <1>5 DEF ReactionJobs
<1>7. ASSUME NEW g
      PROVE  h = Resumes(g) <=> x.onFulfilled = Resumes(g)
  <2>1. Resumes(g).kind = "resume"
    BY HandlersDiffer
  <2>2. QED
    BY <1>1, <1>2, <2>1
<1>8. /\ j.kind = "reaction" /\ j.source = p /\ j.id = x.id /\ j.result = x.result /\ j.handler = h
  BY <1>4
<1>9. QED
  BY <1>3, <1>6, <1>7, <1>8 DEF Jobs

(* Settling a promise moves its reactions, in order, to the end of the queue. *)
LEMMA SettledParts ==
  ASSUME NEW s, Shape(s), NEW p \in DOMAIN s.promises, s.promises[p].state = "pending",
         NEW state \in {"fulfilled", "rejected"}, NEW t, t = Settled(s, p, state, Plain),
         NEW l, l = Len(s.jobs), NEW list, list = s.promises[p].reactions
  PROVE  /\ Shape(t) /\ DOMAIN t.promises = DOMAIN s.promises /\ Len(t.promises) = Len(s.promises)
         /\ t.frames = s.frames /\ t.open = s.open /\ t.reactions = s.reactions
         /\ \A q \in DOMAIN s.promises : q # p => t.promises[q] = s.promises[q]
         /\ t.promises[p] = [state |-> state, value |-> Plain, reactions |-> <<>>]
         /\ \A j \in DOMAIN s.jobs : j \in DOMAIN t.jobs /\ t.jobs[j] = s.jobs[j]
         /\ \A k \in DOMAIN list :
              /\ l + k \in DOMAIN t.jobs
              /\ t.jobs[l + k] = ReactionJob(list[k], p, state = "fulfilled", Plain)
         /\ \A j \in DOMAIN t.jobs : j \in DOMAIN s.jobs \/ j - l \in DOMAIN list
<1>1. PICK n, f, r : n = Len(s.promises) /\ f = Len(s.frames) /\ r = s.reactions
  OBVIOUS
<1>2. /\ n \in Nat /\ f \in Nat /\ r \in Nat
      /\ s = [promises |-> s.promises, jobs |-> s.jobs, frames |-> s.frames, open |-> s.open,
              reactions |-> s.reactions]
      /\ s.promises \in Seq(Made(n, f, r)) /\ DOMAIN s.promises = 1 .. n
      /\ s.jobs \in Seq(Jobs(n, f, r)) /\ l \in Nat /\ DOMAIN s.jobs = 1 .. l
      /\ s.frames \in Seq(Calls(n)) /\ s.open \subseteq 1 .. n
  BY <1>1, ShapeParts
<1>3. list \in Seq(Waiting(n, f, r)) /\ \A k \in DOMAIN list : list[k] \in Waiting(n, f, r)
  BY <1>1, ShapeEntries
<1>4. PICK m : m = Len(list)
  OBVIOUS
<1>5. m \in Nat /\ DOMAIN list = 1 .. m
  BY <1>3, <1>4, SeqEntries
<1>6. PICK due : due = [k \in DOMAIN list |-> ReactionJob(list[k], p, state = "fulfilled", Plain)]
  OBVIOUS
<1>7. \A k \in 1 .. m : due[k] \in Jobs(n, f, r) /\ due[k] = ReactionJob(list[k], p, state = "fulfilled", Plain)
  BY <1>2, <1>3, <1>5, <1>6, ReactionRuns
<1>8. due = [k \in 1 .. m |-> due[k]]
  BY <1>5, <1>6
<1>9. due \in Seq(Jobs(n, f, r)) /\ Len(due) = m /\ DOMAIN due = 1 .. m
  BY <1>5, <1>7, <1>8, SeqBuilt
<1>10. PICK e : e = [state |-> state, value |-> Plain, reactions |-> <<>>]
  OBVIOUS
<1>11. e \in Made(n, f, r)
  <2>1. <<>> \in Seq(Waiting(n, f, r))
    OBVIOUS
  <2>2. QED
    BY <1>10, <2>1 DEF Made
<1>12. t = [promises |-> [s.promises EXCEPT ![p] = e], jobs |-> s.jobs \o due, frames |-> s.frames,
            open |-> s.open, reactions |-> s.reactions]
  <2>1. t = [s EXCEPT !.promises[p] = e, !.jobs = @ \o due]
    BY <1>6, <1>10 DEF Settled
  <2>2. QED
    BY <1>2, <2>1
<1>13. PICK ps : ps = [s.promises EXCEPT ![p] = e]
  OBVIOUS
<1>14. /\ ps \in Seq(Made(n, f, r)) /\ DOMAIN ps = DOMAIN s.promises /\ Len(ps) = n
       /\ \A q \in DOMAIN s.promises : ps[q] = IF q = p THEN e ELSE s.promises[q]
  BY <1>1, <1>2, <1>11, <1>13, SeqPut
<1>15. PICK js : js = s.jobs \o due
  OBVIOUS
<1>16. /\ js \in Seq(Jobs(n, f, r)) /\ Len(js) = l + m /\ DOMAIN js = 1 .. l + m
       /\ \A i \in DOMAIN s.jobs : js[i] = s.jobs[i]
       /\ \A i \in DOMAIN due : l + i \in DOMAIN js /\ js[l + i] = due[i]
  <2>1. js \in Seq(Jobs(n, f, r)) /\ Len(js) = l + m /\ DOMAIN js = 1 .. l + m
    <3>1. s.jobs \o due \in Seq(Jobs(n, f, r))
      BY <1>2, <1>9, SeqJoin
    <3>2. Len(s.jobs \o due) = Len(s.jobs) + Len(due)
      BY <1>2, <1>9, SeqJoin, ZenonT(30)
    <3>3. DOMAIN js = 1 .. Len(js)
      BY <1>15, <3>1, SeqEntries
    <3>4. QED
      BY <1>9, <1>15, <3>1, <3>2, <3>3
  <2>2. \A i \in DOMAIN s.jobs : js[i] = s.jobs[i]
    BY <1>2, <1>9, <1>15, SeqJoin
  <2>3. \A i \in DOMAIN due : l + i \in DOMAIN js /\ js[l + i] = due[i]
    BY <1>2, <1>9, <1>15, SeqJoin, SMTT(30)
  <2>4. QED
    BY <2>1, <2>2, <2>3
<1>17. t.promises = ps /\ t.jobs = js /\ t.frames = s.frames /\ t.open = s.open /\ t.reactions = r
  BY <1>1, <1>12, <1>13, <1>15
<1>18. Shape(t)
  <2>1. t = [promises |-> t.promises, jobs |-> t.jobs, frames |-> t.frames, open |-> t.open,
             reactions |-> t.reactions]
    BY <1>12
  <2>2. QED
    BY <1>1, <1>2, <1>14, <1>16, <1>17, <2>1, ShapeBuilt
<1>19. \A j \in DOMAIN t.jobs : j \in DOMAIN s.jobs \/ j - l \in DOMAIN list
  BY <1>2, <1>5, <1>16, <1>17, SMTT(30)
<1>20. \A j \in DOMAIN s.jobs : j \in DOMAIN t.jobs /\ t.jobs[j] = s.jobs[j]
  BY <1>2, <1>5, <1>16, <1>17
<1>21. \A k \in DOMAIN list : l + k \in DOMAIN t.jobs
                              /\ t.jobs[l + k] = ReactionJob(list[k], p, state = "fulfilled", Plain)
  BY <1>5, <1>7, <1>9, <1>16, <1>17
<1>22. QED
  BY <1>1, <1>10, <1>14, <1>17, <1>18, <1>19, <1>20, <1>21

LEMMA SettledOnce ==
  ASSUME NEW s, NEW own, Sound(s, own), NEW p \in DOMAIN s.promises, p \notin own,
         s.promises[p].state = "pending",
         NEW state \in {"fulfilled", "rejected"}, NEW t, t = Settled(s, p, state, Plain)
  PROVE  /\ Sound(t, own) /\ Thenables(t) = Thenables(s)
         /\ Len(t.promises) = Len(s.promises) /\ t.frames = s.frames /\ t.open = s.open
         /\ t.reactions = s.reactions
         /\ \A g \in Nat : Woken(t, g) <=> Woken(s, g)
<1>1. PICK l, list : l = Len(s.jobs) /\ list = s.promises[p].reactions
  OBVIOUS
<1>2. Shape(s) /\ InOrder(s) /\ WokenOnce(s) /\ \A q \in own : Untouched(s, q)
  BY DEF Sound
<1>3. /\ Shape(t) /\ DOMAIN t.promises = DOMAIN s.promises /\ Len(t.promises) = Len(s.promises)
      /\ t.frames = s.frames /\ t.open = s.open /\ t.reactions = s.reactions
      /\ \A q \in DOMAIN s.promises : q # p => t.promises[q] = s.promises[q]
      /\ t.promises[p] = [state |-> state, value |-> Plain, reactions |-> <<>>]
      /\ \A j \in DOMAIN s.jobs : j \in DOMAIN t.jobs /\ t.jobs[j] = s.jobs[j]
      /\ \A k \in DOMAIN list :
           /\ l + k \in DOMAIN t.jobs
           /\ t.jobs[l + k] = ReactionJob(list[k], p, state = "fulfilled", Plain)
      /\ \A j \in DOMAIN t.jobs : j \in DOMAIN s.jobs \/ j - l \in DOMAIN list
  BY <1>1, <1>2, SettledParts
<1>4. PICK n, f, r : n = Len(s.promises) /\ f = Len(s.frames) /\ r = s.reactions
  OBVIOUS
<1>5. /\ n \in Nat /\ f \in Nat /\ r \in Nat /\ DOMAIN s.promises = 1 .. n
      /\ l \in Nat /\ DOMAIN s.jobs = 1 .. l
  BY <1>1, <1>2, <1>4, ShapeParts
<1>6. \A k \in DOMAIN list : list[k] \in Waiting(n, f, r) /\ k \in Nat /\ k >= 1
  BY <1>1, <1>2, <1>4, ShapeEntries
<1>7. \A j \in DOMAIN s.jobs : s.jobs[j] \in Jobs(n, f, r)
  BY <1>2, <1>4, ShapeEntries
<1>8. \A k \in DOMAIN list :
        /\ t.jobs[l + k].kind = "reaction" /\ t.jobs[l + k].source = p /\ t.jobs[l + k].id = list[k].id
        /\ t.jobs[l + k].result = list[k].result
        /\ t.jobs[l + k].handler \in {list[k].onFulfilled, list[k].onRejected}
        /\ \A g : t.jobs[l + k].handler = Resumes(g) <=> list[k].onFulfilled = Resumes(g)
  <2>1. ASSUME NEW k \in DOMAIN list, NEW j, j = t.jobs[l + k]
        PROVE  /\ j.kind = "reaction" /\ j.source = p /\ j.id = list[k].id
               /\ j.result = list[k].result
               /\ j.handler \in {list[k].onFulfilled, list[k].onRejected}
               /\ \A g : j.handler = Resumes(g) <=> list[k].onFulfilled = Resumes(g)
    <3>1. PICK b \in BOOLEAN : b = (state = "fulfilled")
      OBVIOUS
    <3>2. PICK x : x = list[k]
      OBVIOUS
    <3>3. j = ReactionJob(x, p, b, Plain)
      BY <1>3, <2>1, <3>1, <3>2
    <3>4. x \in Waiting(n, f, r) /\ p \in 1 .. n
      BY <1>5, <1>6, <3>2
    <3>5. /\ j.kind = "reaction" /\ j.source = p /\ j.id = x.id /\ j.result = x.result
          /\ j.handler \in {x.onFulfilled, x.onRejected}
          /\ \A g : j.handler = Resumes(g) <=> x.onFulfilled = Resumes(g)
      <4>1. n \in Nat /\ f \in Nat /\ r \in Nat
        BY <1>5
      <4>2. QED
        BY <3>3, <3>4, <4>1, ReactionRuns
    <3>6. QED
      BY <3>2, <3>5
  <2>2. QED
    BY <2>1
<1>9. t.promises[p].state # "pending" /\ t.promises[p].reactions = <<>> /\ DOMAIN t.promises[p].reactions = {}
  BY <1>3
<1>10. \A j \in DOMAIN t.jobs : j \in Nat /\ (j \in DOMAIN s.jobs => j <= l) /\ (j - l \in DOMAIN list => j > l)
  <2>1. ASSUME NEW j \in DOMAIN t.jobs
        PROVE  j \in Nat /\ (j \in DOMAIN s.jobs => j <= l) /\ (j - l \in DOMAIN list => j > l)
    <3>1. t.jobs \in Seq(Jobs(Len(t.promises), Len(t.frames), t.reactions))
      BY <1>3, ShapeParts
    <3>2. j \in Nat
      BY <3>1, SeqEntries
    <3>3. QED
      BY <1>5, <1>6, <3>2
  <2>2. QED
    BY <2>1
\* Where the wakers are, and were.
<1>11. ASSUME NEW g \in Nat, NEW q \in Nat, NEW k \in Nat, Resumed(t, g, q, k)
       PROVE  \/ Resumed(s, g, q, k) /\ q # p /\ (q = 0 => k <= l)
              \/ q = 0 /\ k - l \in Nat /\ Resumed(s, g, p, k - l)
  <2>1. CASE q = 0
    <3>1. k \in DOMAIN t.jobs /\ t.jobs[k].handler = Resumes(g)
      BY <1>11, <2>1 DEF Resumed
    <3>2. CASE k \in DOMAIN s.jobs
      BY <1>3, <1>5, <1>10, <2>1, <3>1, <3>2 DEF Resumed
    <3>3. CASE k - l \in DOMAIN list
      <4>1. PICK i \in DOMAIN list : i = k - l
        BY <3>3
      <4>2. k = l + i /\ i \in Nat
        BY <1>5, <1>6, <4>1
      <4>3. list[i].onFulfilled = Resumes(g)
        BY <1>8, <3>1, <4>2
      <4>4. p # 0
        BY <1>5
      <4>5. Resumed(s, g, p, i)
        BY <1>1, <4>3, <4>4 DEF Resumed
      <4>6. QED
        BY <2>1, <4>1, <4>2, <4>5
    <3>4. QED
      BY <1>3, <3>1, <3>2, <3>3
  <2>2. CASE q # 0
    <3>1. /\ q \in DOMAIN t.promises /\ k \in DOMAIN t.promises[q].reactions
          /\ t.promises[q].reactions[k].onFulfilled = Resumes(g)
      BY <1>11, <2>2 DEF Resumed
    <3>2. q # p
      BY <1>9, <3>1
    <3>3. Resumed(s, g, q, k)
      BY <1>3, <2>2, <3>1, <3>2 DEF Resumed
    <3>4. QED
      BY <2>2, <3>2, <3>3
  <2>3. QED
    BY <2>1, <2>2
<1>12. WokenOnce(t)
  <2>1. ASSUME NEW g \in Nat, NEW q \in Nat, NEW k \in Nat, NEW u \in Nat, NEW i \in Nat,
               Resumed(t, g, q, k), Resumed(t, g, u, i)
        PROVE  q = u /\ k = i
    <3>1. p \in Nat /\ p # 0
      BY <1>5
    <3>2. CASE Resumed(s, g, q, k) /\ q # p /\ (q = 0 => k <= l)
      <4>1. CASE Resumed(s, g, u, i)
        BY <1>2, <3>2, <4>1 DEF WokenOnce
      <4>2. CASE u = 0 /\ i - l \in Nat /\ Resumed(s, g, p, i - l)
        BY <1>2, <3>1, <3>2, <4>2 DEF WokenOnce
      <4>3. QED
        BY <1>11, <2>1, <4>1, <4>2
    <3>3. CASE q = 0 /\ k - l \in Nat /\ Resumed(s, g, p, k - l)
      <4>1. CASE Resumed(s, g, u, i) /\ u # p
        BY <1>2, <3>1, <3>3, <4>1 DEF WokenOnce
      <4>2. CASE u = 0 /\ i - l \in Nat /\ Resumed(s, g, p, i - l)
        <5>1. k - l = i - l
          BY <1>2, <3>1, <3>3, <4>2 DEF WokenOnce
        <5>2. QED
          BY <1>5, <3>3, <4>2, <5>1
      <4>3. QED
        BY <1>11, <2>1, <4>1, <4>2
    <3>4. QED
      BY <1>11, <2>1, <3>2, <3>3
  <2>2. QED
    BY <2>1 DEF WokenOnce
<1>13. ASSUME NEW g \in Nat
       PROVE  Woken(t, g) <=> Woken(s, g)
  <2>1. ASSUME Woken(t, g)
        PROVE  Woken(s, g)
    <3>1. PICK q \in Nat : \E k \in Nat : Resumed(t, g, q, k)
      BY <2>1 DEF Woken
    <3>2. PICK k \in Nat : Resumed(t, g, q, k)
      BY <3>1
    <3>3. p \in Nat
      BY <1>5
    <3>4. QED
      BY <1>11, <3>2, <3>3 DEF Woken
  <2>2. ASSUME Woken(s, g)
        PROVE  Woken(t, g)
    <3>1. PICK q \in Nat : \E k \in Nat : Resumed(s, g, q, k)
      BY <2>2 DEF Woken
    <3>2. PICK k \in Nat : Resumed(s, g, q, k)
      BY <3>1
    <3>3. CASE q = p
      <4>1. k \in DOMAIN list /\ list[k].onFulfilled = Resumes(g)
        BY <1>1, <1>5, <3>2, <3>3 DEF Resumed
      <4>2. l + k \in DOMAIN t.jobs /\ t.jobs[l + k].handler = Resumes(g)
        BY <1>3, <1>8, <4>1
      <4>3. Resumed(t, g, 0, l + k) /\ l + k \in Nat
        BY <1>10, <4>2 DEF Resumed
      <4>4. QED
        BY <4>3 DEF Woken
    <3>4. CASE q # p
      <4>1. Resumed(t, g, q, k)
        BY <1>3, <3>2, <3>4 DEF Resumed
      <4>2. QED
        BY <4>1 DEF Woken
    <3>5. QED
      BY <3>3, <3>4
  <2>3. QED
    BY <2>1, <2>2
<1>14. InOrder(t)
  <2>1. \A q \in DOMAIN t.promises : t.promises[q].state # "pending" => t.promises[q].reactions = <<>>
    BY <1>2, <1>3, <1>9 DEF InOrder
  <2>2. ASSUME NEW q \in DOMAIN t.promises, NEW j \in DOMAIN t.promises[q].reactions,
               NEW k \in DOMAIN t.promises[q].reactions, j < k
        PROVE  t.promises[q].reactions[j].id < t.promises[q].reactions[k].id
    BY <1>2, <1>3, <1>9, <2>2 DEF InOrder
  <2>3. ASSUME NEW j \in DOMAIN t.jobs, t.jobs[j].kind = "reaction"
        PROVE  t.promises[t.jobs[j].source].state # "pending"
    <3>1. CASE j \in DOMAIN s.jobs
      <4>1. PICK x : x = s.jobs[j]
        OBVIOUS
      <4>2. x \in Jobs(n, f, r) /\ t.jobs[j] = x /\ x.kind = "reaction"
        BY <1>3, <1>7, <2>3, <3>1, <4>1
      <4>3. x.source \in DOMAIN s.promises
        <5>1. x.kind = "reaction" => x.source \in 1 .. n
          BY <1>5, <4>2, JobParts
        <5>2. QED
          BY <1>5, <4>2, <5>1
      <4>4. s.promises[x.source].state # "pending"
        BY <1>2, <3>1, <4>1, <4>2, <1>5 DEF InOrder
      <4>5. QED
        BY <1>3, <4>2, <4>3, <4>4
    <3>2. CASE j - l \in DOMAIN list
      <4>1. PICK i \in DOMAIN list : i = j - l
        BY <3>2
      <4>2. j = l + i
        BY <1>5, <1>6, <1>10, <4>1
      <4>3. QED
        BY <1>8, <1>9, <4>2
    <3>3. QED
      BY <1>3, <3>1, <3>2
  <2>4. ASSUME NEW j \in DOMAIN t.jobs, NEW k \in DOMAIN t.jobs, j < k,
               t.jobs[j].kind = "reaction", t.jobs[k].kind = "reaction",
               t.jobs[j].source = t.jobs[k].source
        PROVE  t.jobs[j].id < t.jobs[k].id
    <3>1. CASE j \in DOMAIN s.jobs /\ k \in DOMAIN s.jobs
      BY <1>2, <1>3, <2>4, <3>1 DEF InOrder
    <3>2. CASE j - l \in DOMAIN list
      <4>1. PICK i \in DOMAIN list : i = j - l
        BY <3>2
      <4>2. j \in Nat /\ k \in Nat /\ i \in Nat /\ i >= 1 /\ j < k
        BY <1>6, <1>10, <2>4
      <4>3. j = l + i /\ i \in Nat /\ j > l /\ k > l
        BY <1>5, <4>1, <4>2
      <4>4. k - l \in DOMAIN list
        BY <1>3, <1>5, <4>3
      <4>5. PICK h \in DOMAIN list : h = k - l
        BY <4>4
      <4>6. k = l + h /\ h \in Nat /\ i < h
        BY <1>5, <1>6, <1>10, <2>4, <4>3, <4>5
      <4>7. list[i].id < list[h].id
        BY <1>1, <1>2, <4>6 DEF InOrder
      <4>8. QED
        BY <1>8, <4>3, <4>6, <4>7
    <3>3. CASE j \in DOMAIN s.jobs /\ k - l \in DOMAIN list
      <4>1. PICK h \in DOMAIN list : h = k - l
        BY <3>3
      <4>2. k = l + h
        BY <1>5, <1>6, <1>10, <4>1
      <4>3. t.jobs[k].source = p
        BY <1>8, <4>2
      <4>4. s.jobs[j].source = p /\ s.jobs[j].kind = "reaction"
        BY <1>3, <2>4, <3>3, <4>3
      <4>5. QED
        BY <1>2, <3>3, <4>4 DEF InOrder
    <3>4. QED
      BY <1>3, <3>1, <3>2, <3>3
  <2>5. QED
    BY <2>1, <2>2, <2>3, <2>4 DEF InOrder
<1>15. ASSUME NEW q \in own
       PROVE  Untouched(t, q)
  <2>1. Untouched(s, q) /\ q # p
    BY <1>2
  <2>2. q \in 1 .. Len(t.promises) /\ t.promises[q].state = "pending" /\ q \notin t.open
    BY <1>3, <1>4, <1>5, <2>1 DEF Untouched
  <2>3. ASSUME NEW u \in DOMAIN t.promises, NEW k \in DOMAIN t.promises[u].reactions
        PROVE  /\ t.promises[u].reactions[k].result # q
               /\ Settles(q) # t.promises[u].reactions[k].onFulfilled
               /\ Settles(q) # t.promises[u].reactions[k].onRejected
    BY <1>3, <1>9, <2>1 DEF Untouched
  <2>4. ASSUME NEW j \in DOMAIN t.jobs
        PROVE  t.jobs[j].result # q /\ t.jobs[j].handler # Settles(q)
    <3>1. CASE j \in DOMAIN s.jobs
      BY <1>3, <2>1, <3>1 DEF Untouched
    <3>2. CASE j - l \in DOMAIN list
      <4>1. PICK i \in DOMAIN list : i = j - l
        BY <3>2
      <4>2. j = l + i
        BY <1>5, <1>6, <1>10, <4>1
      <4>3. /\ list[i].result # q /\ Settles(q) # list[i].onFulfilled
            /\ Settles(q) # list[i].onRejected
        BY <1>1, <2>1 DEF Untouched
      <4>4. QED
        BY <1>8, <4>2, <4>3
    <3>3. QED
      BY <1>3, <3>1, <3>2
  <2>5. QED
    BY <2>2, <2>3, <2>4 DEF Untouched
<1>16. Thenables(t) = Thenables(s)
  <2>1. ASSUME NEW j \in DOMAIN t.jobs, t.jobs[j].kind = "thenable"
        PROVE  j \in DOMAIN s.jobs /\ s.jobs[j].kind = "thenable"
    <3>1. CASE j \in DOMAIN s.jobs
      BY <1>3, <2>1, <3>1
    <3>2. CASE j - l \in DOMAIN list
      <4>1. PICK i \in DOMAIN list : i = j - l
        BY <3>2
      <4>2. j = l + i
        BY <1>5, <1>6, <1>10, <4>1
      <4>3. QED
        BY <1>8, <2>1, <4>2
    <3>3. QED
      BY <1>3, <3>1, <3>2
  <2>2. QED
    BY <1>3, <2>1 DEF Thenables
<1>17. QED
  BY <1>3, <1>12, <1>13, <1>14, <1>15, <1>16 DEF Sound

Queued(s, j, r) ==
  [promises |-> s.promises, jobs |-> Append(s.jobs, j), frames |-> s.frames, open |-> s.open,
   reactions |-> r]

Listed(s, p, x, r) ==
  [promises |-> [s.promises EXCEPT ![p].reactions = Append(@, x)], jobs |-> s.jobs,
   frames |-> s.frames, open |-> s.open, reactions |-> r]

(* One more job in the queue, of a reaction that was not registered before.  *)
LEMMA QueuedOnce ==
  ASSUME NEW s, NEW own, Sound(s, own), NEW r \in Nat, s.reactions <= r,
         NEW j \in Jobs(Len(s.promises), Len(s.frames), r),
         j.result \notin own, \A p \in own : j.handler # Settles(p),
         j.kind = "reaction" => s.promises[j.source].state # "pending" /\ j.id > s.reactions,
         \A g \in Nat : j.handler = Resumes(g) => ~Woken(s, g),
         NEW t, t = Queued(s, j, r)
  PROVE  /\ Sound(t, own)
         /\ \A g \in Nat : Woken(t, g) <=> Woken(s, g) \/ j.handler = Resumes(g)
         /\ j.kind = "reaction" => Thenables(t) = Thenables(s)
<1>1. PICK n, f : n = Len(s.promises) /\ f = Len(s.frames)
  OBVIOUS
<1>2. Shape(s) /\ InOrder(s) /\ WokenOnce(s) /\ \A q \in own : Untouched(s, q)
  BY DEF Sound
<1>3. PICK q : q = s.reactions
  OBVIOUS
<1>4. /\ n \in Nat /\ f \in Nat /\ q \in Nat /\ DOMAIN s.promises = 1 .. n
      /\ s.jobs \in Seq(Jobs(n, f, q))
  BY <1>1, <1>2, <1>3, ShapeParts
<1>5. n <= n /\ f <= f /\ q <= r
  BY <1>3, <1>4
<1>6. /\ s.promises \in Seq(Made(n, f, r)) /\ s.jobs \in Seq(Jobs(n, f, r))
      /\ s.frames \in Seq(Calls(n)) /\ s.open \subseteq 1 .. n
  BY <1>1, <1>2, <1>3, <1>4, <1>5, PartsGrow
<1>7. \A i \in DOMAIN s.jobs : s.jobs[i] \in Jobs(n, f, q)
  BY <1>1, <1>2, <1>3, ShapeEntries
<1>8. PICK l : l = Len(s.jobs)
  OBVIOUS
<1>9. PICK m : m = l + 1
  OBVIOUS
<1>10. l \in Nat /\ m \in Nat /\ m # 0 /\ DOMAIN s.jobs = 1 .. l /\ m \notin DOMAIN s.jobs
       /\ \A i \in DOMAIN s.jobs : i \in Nat /\ i < m
  BY <1>6, <1>8, <1>9, SeqEntries
<1>11. /\ t.jobs \in Seq(Jobs(n, f, r)) /\ DOMAIN t.jobs = DOMAIN s.jobs \cup {m}
       /\ \A i \in DOMAIN s.jobs : t.jobs[i] = s.jobs[i]
       /\ t.jobs[m] = j
  BY <1>1, <1>6, <1>8, <1>9, SeqAdd DEF Queued
<1>12. /\ t = [promises |-> t.promises, jobs |-> t.jobs, frames |-> t.frames, open |-> t.open,
               reactions |-> t.reactions]
       /\ t.promises = s.promises /\ t.frames = s.frames /\ t.open = s.open /\ t.reactions = r
  BY DEF Queued
<1>13. Shape(t)
  BY <1>1, <1>4, <1>6, <1>11, <1>12, ShapeBuilt
<1>14. ASSUME NEW g \in Nat, NEW p \in Nat, NEW k \in Nat
       PROVE  Resumed(t, g, p, k) <=> Resumed(s, g, p, k) \/ (p = 0 /\ k = m /\ j.handler = Resumes(g))
  BY <1>10, <1>11, <1>12 DEF Resumed
<1>15. ASSUME NEW g \in Nat
       PROVE  Woken(t, g) <=> Woken(s, g) \/ j.handler = Resumes(g)
  <2>1. Woken(t, g) => Woken(s, g) \/ j.handler = Resumes(g)
    BY <1>14 DEF Woken
  <2>2. Woken(s, g) => Woken(t, g)
    BY <1>14 DEF Woken
  <2>3. ASSUME j.handler = Resumes(g)
        PROVE  Woken(t, g)
    <3>1. Resumed(t, g, 0, m)
      BY <1>10, <1>14, <2>3
    <3>2. QED
      BY <1>10, <3>1 DEF Woken
  <2>4. QED
    BY <2>1, <2>2, <2>3
<1>16. WokenOnce(t)
  <2>1. ASSUME NEW g \in Nat, NEW p \in Nat, NEW k \in Nat, NEW u \in Nat, NEW i \in Nat,
               Resumed(t, g, p, k), Resumed(t, g, u, i)
        PROVE  p = u /\ k = i
    <3>1. CASE j.handler = Resumes(g)
      <4>1. ~Resumed(s, g, p, k) /\ ~Resumed(s, g, u, i)
        BY <3>1 DEF Woken
      <4>2. QED
        BY <1>14, <2>1, <4>1
    <3>2. CASE j.handler # Resumes(g)
      <4>1. Resumed(s, g, p, k) /\ Resumed(s, g, u, i)
        BY <1>14, <2>1, <3>2
      <4>2. QED
        BY <1>2, <4>1 DEF WokenOnce
    <3>3. QED
      BY <3>1, <3>2
  <2>2. QED
    BY <2>1 DEF WokenOnce
<1>17. InOrder(t)
  <2>1. ASSUME NEW i \in DOMAIN t.jobs, t.jobs[i].kind = "reaction"
        PROVE  t.promises[t.jobs[i].source].state # "pending"
    BY <1>2, <1>11, <1>12, <2>1 DEF InOrder
  <2>2. ASSUME NEW i \in DOMAIN t.jobs, NEW k \in DOMAIN t.jobs, i < k,
               t.jobs[i].kind = "reaction", t.jobs[k].kind = "reaction",
               t.jobs[i].source = t.jobs[k].source
        PROVE  t.jobs[i].id < t.jobs[k].id
    <3>1. CASE k \in DOMAIN s.jobs
      <4>1. i \in DOMAIN s.jobs
        BY <1>10, <1>11, <2>2, <3>1
      <4>2. QED
        BY <1>2, <1>11, <2>2, <3>1, <4>1 DEF InOrder
    <3>2. CASE k = m
      <4>1. i \in DOMAIN s.jobs /\ s.jobs[i].kind = "reaction"
        BY <1>10, <1>11, <2>2, <3>2
      <4>2. PICK x : x = s.jobs[i]
        OBVIOUS
      <4>3. x \in Jobs(n, f, q) /\ x.kind = "reaction"
        BY <1>7, <4>1, <4>2
      <4>4. x.id \in 1 .. q
        BY <1>4, <4>3, JobParts
      <4>5. j.kind = "reaction" /\ j \in Jobs(n, f, r)
        BY <1>1, <1>11, <2>2, <3>2
      <4>6. j.id > q /\ j.id \in 1 .. r
        BY <1>3, <1>4, <4>5, JobParts
      <4>7. x.id < j.id
        BY <1>4, <4>4, <4>6
      <4>8. QED
        BY <1>11, <3>2, <4>1, <4>2, <4>7
    <3>3. QED
      BY <1>11, <3>1, <3>2
  <2>3. \A p \in DOMAIN t.promises : t.promises[p].state # "pending" => t.promises[p].reactions = <<>>
    BY <1>2, <1>12 DEF InOrder
  <2>4. \A p \in DOMAIN t.promises : \A i, k \in DOMAIN t.promises[p].reactions :
          i < k => t.promises[p].reactions[i].id < t.promises[p].reactions[k].id
    BY <1>2, <1>12 DEF InOrder
  <2>5. QED
    BY <2>1, <2>2, <2>3, <2>4 DEF InOrder
<1>18. ASSUME NEW p \in own
       PROVE  Untouched(t, p)
  BY <1>2, <1>11, <1>12 DEF Untouched
<1>19. ASSUME j.kind = "reaction"
       PROVE  Thenables(t) = Thenables(s)
  BY <1>10, <1>11, <1>19 DEF Thenables
<1>20. QED
  BY <1>13, <1>15, <1>16, <1>17, <1>18, <1>19 DEF Sound

(* One more reaction that waits for a pending promise.                     *)
LEMMA ListedOnce ==
  ASSUME NEW s, NEW own, Sound(s, own), NEW r \in Nat, s.reactions <= r,
         NEW p \in DOMAIN s.promises, s.promises[p].state = "pending",
         NEW x \in Waiting(Len(s.promises), Len(s.frames), r), x.id > s.reactions,
         x.result \notin own,
         \A q \in own : x.onFulfilled # Settles(q) /\ x.onRejected # Settles(q),
         \A g \in Nat : x.onFulfilled = Resumes(g) => ~Woken(s, g),
         NEW t, t = Listed(s, p, x, r)
  PROVE  /\ Sound(t, own) /\ Thenables(t) = Thenables(s) /\ Len(t.promises) = Len(s.promises)
         /\ \A g \in Nat : Woken(t, g) <=> Woken(s, g) \/ x.onFulfilled = Resumes(g)
<1>1. PICK n, f : n = Len(s.promises) /\ f = Len(s.frames)
  OBVIOUS
<1>2. Shape(s) /\ InOrder(s) /\ WokenOnce(s) /\ \A q \in own : Untouched(s, q)
  BY DEF Sound
<1>3. PICK b : b = s.reactions
  OBVIOUS
<1>4. /\ n \in Nat /\ f \in Nat /\ b \in Nat /\ DOMAIN s.promises = 1 .. n
  BY <1>1, <1>2, <1>3, ShapeParts
<1>5. n <= n /\ f <= f /\ b <= r
  BY <1>3, <1>4
<1>6. /\ s.promises \in Seq(Made(n, f, r)) /\ s.jobs \in Seq(Jobs(n, f, r))
      /\ s.frames \in Seq(Calls(n)) /\ s.open \subseteq 1 .. n
  BY <1>1, <1>2, <1>3, <1>4, <1>5, PartsGrow
<1>7. PICK list : list = s.promises[p].reactions
  OBVIOUS
<1>8. list \in Seq(Waiting(n, f, b)) /\ \A k \in DOMAIN list : list[k] \in Waiting(n, f, b)
  BY <1>1, <1>2, <1>3, <1>7, ShapeEntries
<1>9. Waiting(n, f, b) \subseteq Waiting(n, f, r)
  BY <1>4, <1>5, MoreWaiting
<1>10. list \in Seq(Waiting(n, f, r))
  BY <1>8, <1>9, SeqWider
<1>11. PICK m : m = Len(list) + 1
  OBVIOUS
<1>12. m \in Nat /\ m # 0 /\ m \notin DOMAIN list /\ \A i \in DOMAIN list : i \in Nat /\ i < m
  BY <1>10, <1>11, SeqEntries
<1>13. PICK more : more = Append(list, x)
  OBVIOUS
<1>14. /\ more \in Seq(Waiting(n, f, r)) /\ DOMAIN more = DOMAIN list \cup {m}
       /\ \A i \in DOMAIN list : more[i] = list[i]
       /\ more[m] = x
  BY <1>1, <1>10, <1>11, <1>13, SeqAdd
<1>15. s.promises[p] \in Made(n, f, r)
  BY <1>6, SeqEntries
<1>16. PICK e : e = [s.promises[p] EXCEPT !.reactions = more]
  OBVIOUS
<1>17. e \in Made(n, f, r) /\ e.reactions = more /\ e.state = "pending"
  BY <1>14, <1>15, <1>16 DEF Made
<1>18. PICK ps : ps = [s.promises EXCEPT ![p] = e]
  OBVIOUS
<1>19. t = [promises |-> ps, jobs |-> s.jobs, frames |-> s.frames, open |-> s.open, reactions |-> r]
  BY <1>7, <1>13, <1>16, <1>18 DEF Listed
<1>20. /\ ps \in Seq(Made(n, f, r)) /\ DOMAIN ps = DOMAIN s.promises /\ Len(ps) = n
       /\ \A q \in DOMAIN s.promises : ps[q] = IF q = p THEN e ELSE s.promises[q]
  BY <1>1, <1>6, <1>17, <1>18, SeqPut
<1>21. /\ t = [promises |-> t.promises, jobs |-> t.jobs, frames |-> t.frames, open |-> t.open,
               reactions |-> t.reactions]
       /\ t.promises = ps /\ t.jobs = s.jobs /\ t.frames = s.frames /\ t.open = s.open /\ t.reactions = r
  BY <1>19
<1>22. Shape(t)
  BY <1>1, <1>4, <1>6, <1>20, <1>21, ShapeBuilt
<1>23. /\ DOMAIN t.promises = DOMAIN s.promises
       /\ \A q \in DOMAIN s.promises : q # p => t.promises[q] = s.promises[q]
       /\ t.promises[p].reactions = more /\ t.promises[p].state = "pending"
  BY <1>17, <1>20, <1>21
<1>24. p \in Nat /\ p # 0
  BY <1>4
<1>25. ASSUME NEW g \in Nat, NEW q \in Nat, NEW k \in Nat
       PROVE  Resumed(t, g, q, k) <=> Resumed(s, g, q, k) \/ (q = p /\ k = m /\ x.onFulfilled = Resumes(g))
  <2>1. CASE q = 0
    BY <1>21, <1>24, <2>1 DEF Resumed
  <2>2. CASE q = p
    BY <1>7, <1>12, <1>14, <1>23, <1>24, <2>2, SMTT(30) DEF Resumed
  <2>3. CASE q # 0 /\ q # p
    BY <1>23, <2>3 DEF Resumed
  <2>4. QED
    BY <2>1, <2>2, <2>3
<1>26. ASSUME NEW g \in Nat
       PROVE  Woken(t, g) <=> Woken(s, g) \/ x.onFulfilled = Resumes(g)
  <2>1. Woken(t, g) => Woken(s, g) \/ x.onFulfilled = Resumes(g)
    BY <1>25 DEF Woken
  <2>2. Woken(s, g) => Woken(t, g)
    BY <1>25 DEF Woken
  <2>3. ASSUME x.onFulfilled = Resumes(g)
        PROVE  Woken(t, g)
    <3>1. Resumed(t, g, p, m)
      BY <1>12, <1>24, <1>25, <2>3
    <3>2. QED
      BY <1>12, <1>24, <3>1 DEF Woken
  <2>4. QED
    BY <2>1, <2>2, <2>3
<1>27. WokenOnce(t)
  <2>1. ASSUME NEW g \in Nat, NEW q \in Nat, NEW k \in Nat, NEW u \in Nat, NEW i \in Nat,
               Resumed(t, g, q, k), Resumed(t, g, u, i)
        PROVE  q = u /\ k = i
    <3>1. CASE x.onFulfilled = Resumes(g)
      <4>1. ~Resumed(s, g, q, k) /\ ~Resumed(s, g, u, i)
        BY <3>1 DEF Woken
      <4>2. QED
        BY <1>25, <2>1, <4>1
    <3>2. CASE x.onFulfilled # Resumes(g)
      <4>1. Resumed(s, g, q, k) /\ Resumed(s, g, u, i)
        BY <1>25, <2>1, <3>2
      <4>2. QED
        BY <1>2, <4>1 DEF WokenOnce
    <3>3. QED
      BY <3>1, <3>2
  <2>2. QED
    BY <2>1 DEF WokenOnce
<1>28. InOrder(t)
  <2>1. ASSUME NEW q \in DOMAIN t.promises, t.promises[q].state # "pending"
        PROVE  t.promises[q].reactions = <<>>
    BY <1>2, <1>23, <2>1 DEF InOrder
  <2>2. ASSUME NEW q \in DOMAIN t.promises, NEW i \in DOMAIN t.promises[q].reactions,
               NEW k \in DOMAIN t.promises[q].reactions, i < k
        PROVE  t.promises[q].reactions[i].id < t.promises[q].reactions[k].id
    <3>1. CASE q # p
      BY <1>2, <1>23, <2>2, <3>1 DEF InOrder
    <3>2. CASE q = p /\ k \in DOMAIN list
      <4>1. i \in DOMAIN list
        BY <1>12, <1>14, <1>23, <2>2, <3>2
      <4>2. QED
        BY <1>2, <1>7, <1>14, <1>23, <2>2, <3>2, <4>1 DEF InOrder
    <3>3. CASE q = p /\ k = m
      <4>1. i \in DOMAIN list
        BY <1>12, <1>14, <1>23, <2>2, <3>3
      <4>2. list[i].id \in 1 .. b
        BY <1>4, <1>8, <4>1, ReactionParts
      <4>3. x.id \in 1 .. r /\ x.id > b
        BY <1>1, <1>3, <1>4, ReactionParts
      <4>4. list[i].id < x.id
        BY <1>4, <4>2, <4>3
      <4>5. QED
        BY <1>14, <1>23, <3>3, <4>1, <4>4
    <3>4. QED
      BY <1>14, <1>23, <2>2, <3>1, <3>2, <3>3
  <2>3. ASSUME NEW j \in DOMAIN t.jobs, t.jobs[j].kind = "reaction"
        PROVE  t.promises[t.jobs[j].source].state # "pending"
    <3>1. t.jobs[j] \in Jobs(n, f, r)
      BY <1>6, <1>21, SeqEntries
    <3>2. t.jobs[j].source \in DOMAIN s.promises
      BY <1>4, <2>3, <3>1, JobParts
    <3>3. s.promises[t.jobs[j].source].state # "pending"
      BY <1>2, <1>21, <2>3 DEF InOrder
    <3>4. QED
      BY <1>23, <3>2, <3>3
  <2>4. \A j, k \in DOMAIN t.jobs :
          j < k /\ t.jobs[j].kind = "reaction" /\ t.jobs[k].kind = "reaction"
            /\ t.jobs[j].source = t.jobs[k].source => t.jobs[j].id < t.jobs[k].id
    BY <1>2, <1>21 DEF InOrder
  <2>5. QED
    BY <2>1, <2>2, <2>3, <2>4 DEF InOrder
<1>29. ASSUME NEW q \in own
       PROVE  Untouched(t, q)
  <2>1. Untouched(s, q)
    BY <1>2
  <2>2. q \in 1 .. Len(t.promises) /\ t.promises[q].state = "pending" /\ q \notin t.open
    BY <1>1, <1>4, <1>20, <1>21, <1>23, <2>1 DEF Untouched
  <2>3. ASSUME NEW u \in DOMAIN t.promises, NEW k \in DOMAIN t.promises[u].reactions
        PROVE  /\ t.promises[u].reactions[k].result # q
               /\ Settles(q) # t.promises[u].reactions[k].onFulfilled
               /\ Settles(q) # t.promises[u].reactions[k].onRejected
    <3>1. CASE u # p
      BY <1>23, <2>1, <3>1 DEF Untouched
    <3>2. CASE u = p
      <4>1. \A i \in DOMAIN list : /\ list[i].result # q
                                   /\ Settles(q) \notin {list[i].onFulfilled, list[i].onRejected}
        BY <1>7, <2>1 DEF Untouched
      <4>2. x.result # q /\ x.onFulfilled # Settles(q) /\ x.onRejected # Settles(q)
        BY <1>29
      <4>3. QED
        BY <1>14, <1>23, <3>2, <4>1, <4>2
    <3>3. QED
      BY <3>1, <3>2
  <2>4. QED
    BY <1>21, <2>1, <2>2, <2>3 DEF Untouched
<1>30. Thenables(t) = Thenables(s)
  BY <1>21 DEF Thenables
<1>31. QED
  BY <1>1, <1>20, <1>21, <1>22, <1>26, <1>27, <1>28, <1>29, <1>30 DEF Sound

(* then registers one reaction, or queues its job at once.                 *)
LEMMA ChainedOnce ==
  ASSUME NEW s, NEW own, Sound(s, own), NEW n, n = Len(s.promises), NEW f, f = Len(s.frames),
         NEW p \in DOMAIN s.promises,
         NEW onFulfilled \in Functions(n, f), NEW onRejected \in Functions(n, f), NEW result \in 0 .. n,
         Script \in {onFulfilled, onRejected} => result # 0,
         "resume" \in {onFulfilled.kind, onRejected.kind} => onFulfilled = onRejected,
         result \notin own,
         \A q \in own : onFulfilled # Settles(q) /\ onRejected # Settles(q),
         \A g \in Nat : onFulfilled = Resumes(g) => ~Woken(s, g),
         NEW t, t = Chained(s, p, onFulfilled, onRejected, result)
  PROVE  /\ Sound(t, own) /\ Thenables(t) = Thenables(s)
         /\ Len(t.promises) = Len(s.promises) /\ t.frames = s.frames /\ t.open = s.open
         /\ t.reactions = s.reactions + 1
         /\ \A g \in Nat : Woken(t, g) <=> Woken(s, g) \/ onFulfilled = Resumes(g)
<1>1. PICK b, r : b = s.reactions /\ r = b + 1
  OBVIOUS
<1>2. Shape(s)
  BY DEF Sound
<1>3. /\ n \in Nat /\ f \in Nat /\ b \in Nat /\ DOMAIN s.promises = 1 .. n
      /\ s = [promises |-> s.promises, jobs |-> s.jobs, frames |-> s.frames, open |-> s.open,
              reactions |-> s.reactions]
  BY <1>1, <1>2, ShapeParts
<1>4. r \in Nat /\ s.reactions <= r /\ r > s.reactions /\ r \in 1 .. r
  BY <1>1, <1>3
<1>5. PICK x : x = [onFulfilled |-> onFulfilled, onRejected |-> onRejected, result |-> result, id |-> r]
  OBVIOUS
<1>6. x \in Waiting(n, f, r)
  BY <1>4, <1>5 DEF Waiting
<1>7. /\ x.id > s.reactions /\ x.result = result /\ x.onFulfilled = onFulfilled /\ x.onRejected = onRejected
  BY <1>4, <1>5
<1>8. CASE s.promises[p].state = "pending"
  <2>1. t = [promises |-> [s.promises EXCEPT ![p].reactions = Append(@, x)],
             jobs |-> s.jobs, frames |-> s.frames, open |-> s.open, reactions |-> r]
    BY <1>1, <1>3, <1>5, <1>8 DEF Chained
  <2>2. t = Listed(s, p, x, r)
    BY <2>1 DEF Listed
  <2>3. x \in Waiting(Len(s.promises), Len(s.frames), r)
    BY <1>6
  <2>4. /\ x.result \notin own /\ \A q \in own : x.onFulfilled # Settles(q) /\ x.onRejected # Settles(q)
         /\ \A g \in Nat : x.onFulfilled = Resumes(g) => ~Woken(s, g)
    BY <1>7
  <2>5. /\ Sound(t, own) /\ Thenables(t) = Thenables(s) /\ Len(t.promises) = Len(s.promises)
        /\ \A g \in Nat : Woken(t, g) <=> Woken(s, g) \/ x.onFulfilled = Resumes(g)
    BY <1>4, <1>7, <1>8, <2>2, <2>3, <2>4, ListedOnce
  <2>6. t.frames = s.frames /\ t.open = s.open /\ t.reactions = s.reactions + 1
    BY <1>1, <2>1
  <2>7. QED
    BY <1>7, <2>5, <2>6
<1>9. CASE s.promises[p].state # "pending"
  <2>1. PICK e : e = s.promises[p]
    OBVIOUS
  <2>2. e \in Made(n, f, b)
    BY <1>1, <1>2, <2>1, ShapeEntries
  <2>3. e.value = Plain
    BY <2>2 DEF Made
  <2>4. PICK fulfilled \in BOOLEAN : fulfilled = (e.state = "fulfilled")
    OBVIOUS
  <2>5. PICK j : j = ReactionJob(x, p, fulfilled, Plain)
    OBVIOUS
  <2>6. t = [promises |-> s.promises, jobs |-> Append(s.jobs, j), frames |-> s.frames,
             open |-> s.open, reactions |-> r]
    BY <1>1, <1>3, <1>5, <1>9, <2>1, <2>3, <2>4, <2>5 DEF Chained
  <2>7. p \in 1 .. n
    BY <1>3
  <2>8. /\ j \in Jobs(n, f, r)
        /\ j.kind = "reaction" /\ j.source = p /\ j.id = x.id /\ j.result = x.result
        /\ j.handler \in {x.onFulfilled, x.onRejected}
        /\ \A g : j.handler = Resumes(g) <=> x.onFulfilled = Resumes(g)
    BY <1>3, <1>4, <1>6, <2>5, <2>7, ReactionRuns
  <2>9. /\ j.result \notin own /\ \A q \in own : j.handler # Settles(q)
        /\ j.kind = "reaction" => s.promises[j.source].state # "pending" /\ j.id > s.reactions
        /\ \A g \in Nat : j.handler = Resumes(g) => ~Woken(s, g)
    BY <1>7, <1>9, <2>8
  <2>10. /\ Sound(t, own)
         /\ \A g \in Nat : Woken(t, g) <=> Woken(s, g) \/ j.handler = Resumes(g)
         /\ j.kind = "reaction" => Thenables(t) = Thenables(s)
    <3>1. t = Queued(s, j, r)
      BY <2>6 DEF Queued
    <3>2. j \in Jobs(Len(s.promises), Len(s.frames), r)
      BY <2>8
    <3>3. QED
      BY <1>4, <2>9, <3>1, <3>2, QueuedOnce
  <2>11. t.promises = s.promises /\ t.frames = s.frames /\ t.open = s.open /\ t.reactions = s.reactions + 1
    BY <1>1, <2>6
  <2>12. QED
    BY <1>7, <2>8, <2>10, <2>11
<1>10. QED
  BY <1>8, <1>9

(* A promise that no frame owns is resolved with any value.                *)
LEMMA ResolvedOnce ==
  ASSUME NEW s, NEW own, Sound(s, own), NEW p \in DOMAIN s.promises, p \notin own,
         NEW value \in {Plain, Thenable} \cup DOMAIN s.promises, NEW t, t = Resolved(s, p, value)
  PROVE  /\ Sound(t, own) /\ (value = Plain => Thenables(t) = Thenables(s))
         /\ Len(t.promises) = Len(s.promises) /\ t.frames = s.frames /\ t.open = s.open
         /\ t.reactions = s.reactions
         /\ \A g \in Nat : Woken(t, g) <=> Woken(s, g)
<1>1. CASE s.promises[p].state # "pending"
  BY <1>1 DEF Resolved
<1>2. ASSUME s.promises[p].state = "pending",
             NEW state \in {"fulfilled", "rejected"}, t = Settled(s, p, state, Plain)
      PROVE  /\ Sound(t, own) /\ (value = Plain => Thenables(t) = Thenables(s))
             /\ Len(t.promises) = Len(s.promises) /\ t.frames = s.frames /\ t.open = s.open
             /\ t.reactions = s.reactions
             /\ \A g \in Nat : Woken(t, g) <=> Woken(s, g)
  BY <1>2, SettledOnce
<1>3. CASE s.promises[p].state = "pending" /\ value = p
  <2>1. t = Settled(s, p, "rejected", Plain)
    BY <1>3 DEF Resolved, Rejected
  <2>2. QED
    BY <1>2, <1>3, <2>1
<1>4. PICK n, f, r : n = Len(s.promises) /\ f = Len(s.frames) /\ r = s.reactions
  OBVIOUS
<1>5. Shape(s)
  BY DEF Sound
<1>6. /\ n \in Nat /\ f \in Nat /\ r \in Nat /\ DOMAIN s.promises = 1 .. n
      /\ s = [promises |-> s.promises, jobs |-> s.jobs, frames |-> s.frames, open |-> s.open,
              reactions |-> s.reactions]
  BY <1>4, <1>5, ShapeParts
<1>7. CASE s.promises[p].state = "pending" /\ value # p /\ value = Plain
  <2>1. t = Settled(s, p, "fulfilled", Plain)
    BY <1>7 DEF Resolved
  <2>2. QED
    BY <1>2, <1>7, <2>1
<1>8. CASE s.promises[p].state = "pending" /\ value # p /\ value # Plain
  <2>1. PICK j : j = ThenableJob(value, p)
    OBVIOUS
  <2>2. t = [promises |-> s.promises, jobs |-> Append(s.jobs, j), frames |-> s.frames, open |-> s.open,
             reactions |-> r]
    BY <1>4, <1>6, <1>8, <2>1 DEF Resolved
  <2>3. j = [kind |-> "thenable", handler |-> Absent, result |-> p, fulfilled |-> TRUE, value |-> value,
             source |-> 0, id |-> 0]
    BY <2>1 DEF ThenableJob, NoJob, Absent
  <2>4. j \in ThenableJobs(n)
    BY <1>6, <1>8, <2>3 DEF ThenableJobs
  <2>5. j \in Jobs(n, f, r)
    BY <2>4 DEF Jobs
  <2>6. r <= r
    BY <1>6
  <2>7. /\ j.result \notin own /\ \A q \in own : j.handler # Settles(q)
        /\ j.kind # "reaction" /\ \A g \in Nat : j.handler # Resumes(g)
    BY <2>3, HandlersDiffer
  <2>8. /\ j.kind = "reaction" => s.promises[j.source].state # "pending" /\ j.id > s.reactions
         /\ \A g \in Nat : j.handler = Resumes(g) => ~Woken(s, g)
    BY <2>7
  <2>9. r \in Nat /\ s.reactions <= r
    BY <1>4, <1>6
  <2>10. /\ Sound(t, own)
        /\ \A g \in Nat : Woken(t, g) <=> Woken(s, g) \/ j.handler = Resumes(g)
    <3>1. t = Queued(s, j, r)
      BY <2>2 DEF Queued
    <3>2. j \in Jobs(Len(s.promises), Len(s.frames), r)
      BY <1>4, <2>5
    <3>3. QED
      BY <2>7, <2>8, <2>9, <3>1, <3>2, QueuedOnce
  <2>11. t.promises = s.promises /\ t.frames = s.frames /\ t.open = s.open /\ t.reactions = s.reactions
    BY <1>4, <2>2
  <2>12. QED
    BY <1>8, <2>7, <2>10, <2>11
<1>9. QED
  BY <1>1, <1>3, <1>7, <1>8

(* A promise that no frame owns is rejected.                               *)
LEMMA RejectedOnce ==
  ASSUME NEW s, NEW own, Sound(s, own), NEW p \in DOMAIN s.promises, p \notin own,
         NEW t, t = Rejected(s, p, Plain)
  PROVE  /\ Sound(t, own) /\ Thenables(t) = Thenables(s)
         /\ Len(t.promises) = Len(s.promises) /\ t.frames = s.frames /\ t.open = s.open
         /\ t.reactions = s.reactions
         /\ \A g \in Nat : Woken(t, g) <=> Woken(s, g)
<1>1. t = Settled(s, p, "rejected", Plain)
  BY DEF Rejected
<1>2. CASE s.promises[p].state # "pending"
  BY <1>1, <1>2 DEF Settled
<1>3. CASE s.promises[p].state = "pending"
  BY <1>1, <1>3, SettledOnce
<1>4. QED
  BY <1>2, <1>3

(* The number of thenable jobs when the first job is taken from the queue. *)
LEMMA ThenablesCounted ==
  ASSUME NEW s, Shape(s)
  PROVE  IsFiniteSet(Thenables(s)) /\ Cardinality(Thenables(s)) \in Nat
<1>1. DOMAIN s.jobs = 1 .. Len(s.jobs) /\ Len(s.jobs) \in Nat
  BY ShapeParts
<1>2. 1 \in Int /\ Len(s.jobs) \in Int
  BY <1>1
<1>3. IsFiniteSet(DOMAIN s.jobs)
  BY <1>1, <1>2, FS_Interval
<1>4. Thenables(s) \subseteq DOMAIN s.jobs
  BY DEF Thenables
<1>5. QED
  BY <1>3, <1>4, FS_Subset, FS_CardinalityType

Popped(s) == [s EXCEPT !.jobs = Tail(s.jobs)]

LEMMA PoppedParts ==
  ASSUME NEW s, Shape(s), s.jobs # <<>>, NEW t, t = Popped(s)
  PROVE  /\ Shape(t) /\ t.promises = s.promises /\ t.frames = s.frames /\ t.open = s.open
         /\ t.reactions = s.reactions
         /\ 1 \in DOMAIN s.jobs /\ Head(s.jobs) = s.jobs[1]
         /\ \A j \in DOMAIN t.jobs : j \in Nat /\ j + 1 \in DOMAIN s.jobs /\ t.jobs[j] = s.jobs[j + 1]
         /\ \A j \in DOMAIN s.jobs : j = 1 \/ (j - 1 \in DOMAIN t.jobs /\ j - 1 \in Nat)
<1>1. PICK n, f, r : n = Len(s.promises) /\ f = Len(s.frames) /\ r = s.reactions
  OBVIOUS
<1>2. /\ n \in Nat /\ f \in Nat /\ r \in Nat
      /\ s = [promises |-> s.promises, jobs |-> s.jobs, frames |-> s.frames, open |-> s.open,
              reactions |-> s.reactions]
      /\ s.promises \in Seq(Made(n, f, r)) /\ s.jobs \in Seq(Jobs(n, f, r))
      /\ s.frames \in Seq(Calls(n)) /\ s.open \subseteq 1 .. n
  BY <1>1, ShapeParts
<1>3. PICK js : js = Tail(s.jobs)
  OBVIOUS
<1>4. /\ Head(s.jobs) = s.jobs[1] /\ 1 \in DOMAIN s.jobs
      /\ js \in Seq(Jobs(n, f, r)) /\ Len(js) = Len(s.jobs) - 1
      /\ \A j \in DOMAIN js : j + 1 \in DOMAIN s.jobs /\ js[j] = s.jobs[j + 1]
  BY <1>2, <1>3, SeqTake
<1>5. t = [promises |-> s.promises, jobs |-> js, frames |-> s.frames, open |-> s.open, reactions |-> r]
  BY <1>1, <1>2, <1>3 DEF Popped
<1>6. /\ t = [promises |-> t.promises, jobs |-> t.jobs, frames |-> t.frames, open |-> t.open,
              reactions |-> t.reactions]
      /\ t.promises = s.promises /\ t.jobs = js /\ t.frames = s.frames /\ t.open = s.open
      /\ t.reactions = r
  BY <1>5
<1>7. Shape(t)
  BY <1>1, <1>2, <1>4, <1>6, ShapeBuilt
<1>8. DOMAIN js = 1 .. Len(js) /\ Len(js) \in Nat /\ DOMAIN s.jobs = 1 .. Len(s.jobs) /\ Len(s.jobs) \in Nat
  BY <1>2, <1>4, SeqEntries
<1>9. \A j \in DOMAIN js : j \in Nat
  BY <1>8
<1>10. \A j \in DOMAIN s.jobs : j = 1 \/ (j - 1 \in DOMAIN js /\ j - 1 \in Nat)
  BY <1>4, <1>8
<1>11. QED
  BY <1>1, <1>4, <1>6, <1>7, <1>9, <1>10

LEMMA ThenableTaken ==
  ASSUME NEW s, Shape(s), s.jobs # <<>>, NEW t, t = Popped(s)
  PROVE  Cardinality(Thenables(t)) + (IF Head(s.jobs).kind = "thenable" THEN 1 ELSE 0)
           = Cardinality(Thenables(s))
<1>1. /\ Shape(t) /\ 1 \in DOMAIN s.jobs /\ Head(s.jobs) = s.jobs[1]
      /\ \A j \in DOMAIN t.jobs : j \in Nat /\ j + 1 \in DOMAIN s.jobs /\ t.jobs[j] = s.jobs[j + 1]
      /\ \A j \in DOMAIN s.jobs : j = 1 \/ (j - 1 \in DOMAIN t.jobs /\ j - 1 \in Nat)
  BY PoppedParts
<1>2. DOMAIN s.jobs = 1 .. Len(s.jobs) /\ DOMAIN t.jobs = 1 .. Len(t.jobs)
  BY <1>1, ShapeParts
<1>3. PICK A, B, C : A = Thenables(t) /\ B = Thenables(s) \ {1} /\ C = Thenables(s)
  OBVIOUS
<1>4. \A k \in A : k \in Nat /\ k + 1 \in B
  <2>1. ASSUME NEW k \in A
        PROVE  k \in Nat /\ k + 1 \in B
    <3>1. k \in DOMAIN t.jobs /\ t.jobs[k].kind = "thenable"
      BY <1>3 DEF Thenables
    <3>2. k + 1 \in Thenables(s)
      BY <1>1, <3>1 DEF Thenables
    <3>3. k \in Nat /\ k >= 1
      BY <1>2, <3>1
    <3>4. k + 1 # 1
      BY <3>3
    <3>5. QED
      BY <1>3, <3>2, <3>3, <3>4
  <2>2. QED
    BY <2>1
<1>5. \A k \in B : k \in Nat /\ k - 1 \in A /\ k = (k - 1) + 1
  <2>1. ASSUME NEW k \in B
        PROVE  k \in Nat /\ k - 1 \in A /\ k = (k - 1) + 1
    <3>1. k \in DOMAIN s.jobs /\ k # 1 /\ s.jobs[k].kind = "thenable"
      BY <1>3 DEF Thenables
    <3>2. k \in Nat
      BY <1>2, <3>1
    <3>3. k = (k - 1) + 1
      BY <3>2
    <3>4. k - 1 \in DOMAIN t.jobs
      BY <1>1, <3>1
    <3>5. t.jobs[k - 1] = s.jobs[k]
      BY <1>1, <3>3, <3>4
    <3>6. k - 1 \in A
      BY <1>3, <3>1, <3>4, <3>5 DEF Thenables
    <3>7. QED
      BY <3>2, <3>3, <3>6
  <2>2. QED
    BY <2>1
<1>6. PICK next : next = [k \in A |-> k + 1]
  OBVIOUS
<1>7. next \in Bijection(A, B)
  <2>1. next \in [A -> B]
    BY <1>4, <1>6
  <2>2. \A j, k \in A : next[j] = next[k] => j = k
    BY <1>4, <1>6
  <2>3. \A k \in B : \E j \in A : next[j] = k
    BY <1>5, <1>6
  <2>4. QED
    BY <2>1, <2>2, <2>3 DEF Bijection, Injection, Surjection, IsInjective
<1>8. IsFiniteSet(A) /\ IsFiniteSet(C)
  BY <1>1, <1>3, ThenablesCounted
<1>9. Cardinality(A) = Cardinality(B)
  BY <1>7, <1>8, FS_Bijection DEF ExistsBijection
<1>10. Cardinality(C) \in Nat
  BY <1>8, FS_CardinalityType
<1>11. 1 \in C <=> Head(s.jobs).kind = "thenable"
  BY <1>1, <1>3 DEF Thenables
<1>12. Cardinality(B) = IF 1 \in C THEN Cardinality(C) - 1 ELSE Cardinality(C)
  BY <1>3, <1>8, FS_RemoveElement
<1>13. QED
  BY <1>3, <1>9, <1>10, <1>11, <1>12

(* What resumes a frame after the head of the queue was taken, and before. *)
LEMMA PoppedPlaces ==
  ASSUME NEW s, Shape(s), s.jobs # <<>>, NEW t, t = Popped(s), NEW job, job = Head(s.jobs),
         NEW g \in Nat, NEW p \in Nat, NEW k \in Nat
  PROVE  /\ Resumed(t, g, p, k) => \/ p # 0 /\ Resumed(s, g, p, k)
                                   \/ p = 0 /\ k >= 1 /\ Resumed(s, g, 0, k + 1)
         /\ Resumed(s, g, p, k) => \/ p # 0 /\ Resumed(t, g, p, k)
                                   \/ p = 0 /\ k = 1 /\ job.handler = Resumes(g)
                                   \/ p = 0 /\ k - 1 \in Nat /\ Resumed(t, g, 0, k - 1)
<1>1. /\ t.promises = s.promises /\ t.frames = s.frames /\ t.open = s.open
      /\ t.reactions = s.reactions
      /\ 1 \in DOMAIN s.jobs /\ job = s.jobs[1]
      /\ \A j \in DOMAIN t.jobs : j \in Nat /\ j + 1 \in DOMAIN s.jobs /\ t.jobs[j] = s.jobs[j + 1]
      /\ \A j \in DOMAIN s.jobs : j = 1 \/ (j - 1 \in DOMAIN t.jobs /\ j - 1 \in Nat)
  BY PoppedParts
<1>2. DOMAIN s.jobs = 1 .. Len(s.jobs) /\ DOMAIN t.jobs = 1 .. Len(t.jobs)
  BY PoppedParts, ShapeParts
<1>3. \A j \in DOMAIN t.jobs : j # 0 /\ j >= 1
  BY <1>1, <1>2
<1>4. ASSUME Resumed(t, g, p, k)
      PROVE  \/ p # 0 /\ Resumed(s, g, p, k)
             \/ p = 0 /\ k >= 1 /\ Resumed(s, g, 0, k + 1)
  BY <1>1, <1>3, <1>4 DEF Resumed
<1>5. ASSUME Resumed(s, g, p, k)
      PROVE  \/ p # 0 /\ Resumed(t, g, p, k)
             \/ p = 0 /\ k = 1 /\ job.handler = Resumes(g)
             \/ p = 0 /\ k - 1 \in Nat /\ Resumed(t, g, 0, k - 1)
  <2>1. CASE p = 0
    <3>1. k \in DOMAIN s.jobs /\ s.jobs[k].handler = Resumes(g)
      BY <1>5, <2>1 DEF Resumed
    <3>2. CASE k = 1
      BY <1>1, <2>1, <3>1, <3>2
    <3>3. CASE k - 1 \in DOMAIN t.jobs /\ k - 1 \in Nat
      <4>1. t.jobs[k - 1] = s.jobs[(k - 1) + 1] /\ (k - 1) + 1 = k
        BY <1>1, <3>3
      <4>2. Resumed(t, g, 0, k - 1)
        BY <3>1, <3>3, <4>1 DEF Resumed
      <4>3. QED
        BY <2>1, <3>3, <4>2
    <3>4. QED
      BY <1>1, <3>1, <3>2, <3>3
  <2>2. CASE p # 0
    BY <1>1, <1>5, <2>2 DEF Resumed
  <2>3. QED
    BY <2>1, <2>2
<1>6. QED
  BY <1>4, <1>5

(* What wakes a frame is the head of the queue or what is left, not both.  *)
LEMMA PoppedWoken ==
  ASSUME NEW s, Shape(s), WokenOnce(s), s.jobs # <<>>, NEW t, t = Popped(s),
         NEW job, job = Head(s.jobs), NEW g \in Nat
  PROVE  /\ Woken(s, g) <=> Woken(t, g) \/ job.handler = Resumes(g)
         /\ job.handler = Resumes(g) => ~Woken(t, g)
<1>1. 1 \in DOMAIN s.jobs /\ job = s.jobs[1]
  BY PoppedParts
<1>2. ASSUME NEW p \in Nat, NEW k \in Nat, Resumed(t, g, p, k)
      PROVE  \/ p # 0 /\ Resumed(s, g, p, k)
             \/ p = 0 /\ k >= 1 /\ Resumed(s, g, 0, k + 1)
  BY <1>2, PoppedPlaces
<1>3. ASSUME NEW p \in Nat, NEW k \in Nat, Resumed(s, g, p, k)
      PROVE  \/ p # 0 /\ Resumed(t, g, p, k)
             \/ p = 0 /\ k = 1 /\ job.handler = Resumes(g)
             \/ p = 0 /\ k - 1 \in Nat /\ Resumed(t, g, 0, k - 1)
  BY <1>3, PoppedPlaces
<1>4. ASSUME Woken(t, g)
      PROVE  Woken(s, g)
  <2>1. PICK p \in Nat : \E k \in Nat : Resumed(t, g, p, k)
    BY <1>4 DEF Woken
  <2>2. PICK k \in Nat : Resumed(t, g, p, k)
    BY <2>1
  <2>3. k + 1 \in Nat
    OBVIOUS
  <2>4. QED
    BY <1>2, <2>2, <2>3 DEF Woken
<1>5. ASSUME job.handler = Resumes(g)
      PROVE  Resumed(s, g, 0, 1)
  BY <1>1, <1>5 DEF Resumed
<1>6. ASSUME Woken(s, g), job.handler # Resumes(g)
      PROVE  Woken(t, g)
  <2>1. PICK p \in Nat : \E k \in Nat : Resumed(s, g, p, k)
    BY <1>6 DEF Woken
  <2>2. PICK k \in Nat : Resumed(s, g, p, k)
    BY <2>1
  <2>3. QED
    BY <1>3, <1>6, <2>2 DEF Woken
<1>7. ASSUME job.handler = Resumes(g), Woken(t, g)
      PROVE  FALSE
  <2>1. PICK p \in Nat : \E k \in Nat : Resumed(t, g, p, k)
    BY <1>7 DEF Woken
  <2>2. PICK k \in Nat : Resumed(t, g, p, k)
    BY <2>1
  <2>3. CASE p # 0 /\ Resumed(s, g, p, k)
    BY <1>5, <1>7, <2>3 DEF WokenOnce
  <2>4. CASE p = 0 /\ k >= 1 /\ Resumed(s, g, 0, k + 1)
    <3>1. k + 1 \in Nat
      OBVIOUS
    <3>2. k + 1 = 1
      BY <1>5, <1>7, <2>4, <3>1 DEF WokenOnce
    <3>3. QED
      BY <2>4, <3>2
  <2>5. QED
    BY <1>2, <2>2, <2>3, <2>4
<1>8. Resumed(s, g, 0, 1) => Woken(s, g)
  BY DEF Woken
<1>9. QED
  BY <1>4, <1>5, <1>6, <1>7, <1>8

(* The first job, out of the queue, and the heap without it.               *)
LEMMA PoppedOnce ==
  ASSUME NEW s, NEW own, Sound(s, own), s.jobs # <<>>, NEW t, t = Popped(s)
  PROVE  /\ Sound(t, own) /\ Len(t.promises) = Len(s.promises) /\ t.frames = s.frames
         /\ t.open = s.open /\ t.reactions = s.reactions
         /\ Head(s.jobs) \in Jobs(Len(s.promises), Len(s.frames), s.reactions)
<1>1. Shape(s) /\ InOrder(s) /\ WokenOnce(s) /\ \A q \in own : Untouched(s, q)
  BY DEF Sound
<1>2. PICK job : job = Head(s.jobs)
  OBVIOUS
<1>3. /\ Shape(t) /\ t.promises = s.promises /\ t.frames = s.frames /\ t.open = s.open
      /\ t.reactions = s.reactions
      /\ 1 \in DOMAIN s.jobs /\ job = s.jobs[1]
      /\ \A j \in DOMAIN t.jobs : j \in Nat /\ j + 1 \in DOMAIN s.jobs /\ t.jobs[j] = s.jobs[j + 1]
      /\ \A j \in DOMAIN s.jobs : j = 1 \/ (j - 1 \in DOMAIN t.jobs /\ j - 1 \in Nat)
  BY <1>1, <1>2, PoppedParts
<1>4. job \in Jobs(Len(s.promises), Len(s.frames), s.reactions)
  BY <1>1, <1>3, ShapeEntries
<1>5. ASSUME NEW g \in Nat, NEW p \in Nat, NEW k \in Nat, Resumed(t, g, p, k)
      PROVE  \/ p # 0 /\ Resumed(s, g, p, k)
             \/ p = 0 /\ k >= 1 /\ Resumed(s, g, 0, k + 1)
  BY <1>1, <1>2, <1>5, PoppedPlaces
<1>6. WokenOnce(t)
  <2>1. ASSUME NEW g \in Nat, NEW p \in Nat, NEW k \in Nat, NEW u \in Nat, NEW i \in Nat,
               Resumed(t, g, p, k), Resumed(t, g, u, i)
        PROVE  p = u /\ k = i
    <3>1. CASE p # 0 /\ Resumed(s, g, p, k)
      <4>1. CASE u # 0 /\ Resumed(s, g, u, i)
        BY <1>1, <3>1, <4>1 DEF WokenOnce
      <4>2. CASE u = 0 /\ i >= 1 /\ Resumed(s, g, 0, i + 1)
        BY <1>1, <3>1, <4>2 DEF WokenOnce
      <4>3. QED
        BY <1>5, <2>1, <4>1, <4>2
    <3>2. CASE p = 0 /\ k >= 1 /\ Resumed(s, g, 0, k + 1)
      <4>1. CASE u # 0 /\ Resumed(s, g, u, i)
        BY <1>1, <3>2, <4>1 DEF WokenOnce
      <4>2. CASE u = 0 /\ i >= 1 /\ Resumed(s, g, 0, i + 1)
        <5>1. k + 1 = i + 1
          BY <1>1, <3>2, <4>2 DEF WokenOnce
        <5>2. QED
          BY <3>2, <4>2, <5>1
      <4>3. QED
        BY <1>5, <2>1, <4>1, <4>2
    <3>3. QED
      BY <1>5, <2>1, <3>1, <3>2
  <2>2. QED
    BY <2>1 DEF WokenOnce
<1>7. InOrder(t)
  <2>1. /\ \A p \in DOMAIN t.promises : t.promises[p].state # "pending" => t.promises[p].reactions = <<>>
        /\ \A p \in DOMAIN t.promises : \A i, k \in DOMAIN t.promises[p].reactions :
             i < k => t.promises[p].reactions[i].id < t.promises[p].reactions[k].id
    BY <1>1, <1>3 DEF InOrder
  <2>2. ASSUME NEW j \in DOMAIN t.jobs, t.jobs[j].kind = "reaction"
        PROVE  t.promises[t.jobs[j].source].state # "pending"
    BY <1>1, <1>3, <2>2 DEF InOrder
  <2>3. ASSUME NEW j \in DOMAIN t.jobs, NEW k \in DOMAIN t.jobs, j < k,
               t.jobs[j].kind = "reaction", t.jobs[k].kind = "reaction",
               t.jobs[j].source = t.jobs[k].source
        PROVE  t.jobs[j].id < t.jobs[k].id
    <3>1. j + 1 < k + 1
      BY <1>3, <2>3
    <3>2. QED
      BY <1>1, <1>3, <2>3, <3>1 DEF InOrder
  <2>4. QED
    BY <2>1, <2>2, <2>3 DEF InOrder
<1>8. ASSUME NEW q \in own
       PROVE  Untouched(t, q)
  <2>1. Untouched(s, q)
    BY <1>1
  <2>2. \A j \in DOMAIN t.jobs : t.jobs[j].result # q /\ t.jobs[j].handler # Settles(q)
    BY <1>3, <2>1 DEF Untouched
  <2>3. QED
    BY <1>3, <2>1, <2>2 DEF Untouched
<1>9. QED
  BY <1>2, <1>3, <1>4, <1>6, <1>7, <1>8 DEF Sound

(* The head of the queue does not settle the promises of frames.           *)
LEMMA PoppedClear ==
  ASSUME NEW s, NEW own, Sound(s, own), s.jobs # <<>>, NEW t, t = Popped(s),
         NEW job, job = Head(s.jobs), NEW q \in own
  PROVE  job.result # q /\ job.handler # Settles(q)
<1>1. Shape(s) /\ Untouched(s, q)
  BY DEF Sound
<1>2. 1 \in DOMAIN s.jobs /\ job = s.jobs[1]
  BY <1>1, PoppedParts
<1>3. QED
  BY <1>1, <1>2 DEF Untouched

(* Heaps that differ in their frames, or in what script holds.             *)
LEMMA SoundAlike ==
  ASSUME NEW s, NEW own, Sound(s, own), NEW t, Shape(t), t.promises = s.promises, t.jobs = s.jobs,
         \A q \in own : q \notin t.open
  PROVE  /\ Sound(t, own) /\ Thenables(t) = Thenables(s)
         /\ \A g \in Nat : Woken(t, g) <=> Woken(s, g)
<1>1. Shape(s) /\ InOrder(s) /\ WokenOnce(s) /\ \A q \in own : Untouched(s, q)
  BY DEF Sound
<1>2. \A g, p, k \in Nat : Resumed(t, g, p, k) <=> Resumed(s, g, p, k)
  BY DEF Resumed
<1>3. WokenOnce(t) /\ \A g \in Nat : Woken(t, g) <=> Woken(s, g)
  BY <1>1, <1>2, PlacesKept
<1>4. InOrder(t)
  BY <1>1 DEF InOrder
<1>5. \A q \in own : Untouched(t, q)
  BY <1>1 DEF Untouched
<1>6. Thenables(t) = Thenables(s)
  BY DEF Thenables
<1>7. QED
  BY <1>3, <1>4, <1>5, <1>6 DEF Sound

(* The status of a frame.                                                  *)
Marked(s, f, new) == [s EXCEPT !.frames[f].status = new]

LEMMA MarkedOnce ==
  ASSUME NEW s, NEW own, Sound(s, own), NEW f \in DOMAIN s.frames,
         NEW new \in {"running", "suspended", "done"}, NEW t, t = Marked(s, f, new)
  PROVE  /\ Sound(t, own) /\ Thenables(t) = Thenables(s)
         /\ t.promises = s.promises /\ t.open = s.open /\ t.reactions = s.reactions
         /\ Len(t.frames) = Len(s.frames) /\ DOMAIN t.frames = DOMAIN s.frames
         /\ t.frames[f].status = new /\ t.frames[f].result = s.frames[f].result
         /\ \A g \in DOMAIN s.frames : g # f => t.frames[g] = s.frames[g]
         /\ \A g \in Nat : Woken(t, g) <=> Woken(s, g)
<1>1. Shape(s)
  BY DEF Sound
<1>2. PICK n, m, r : n = Len(s.promises) /\ m = Len(s.frames) /\ r = s.reactions
  OBVIOUS
<1>3. /\ n \in Nat /\ m \in Nat /\ r \in Nat
      /\ s = [promises |-> s.promises, jobs |-> s.jobs, frames |-> s.frames, open |-> s.open,
              reactions |-> s.reactions]
      /\ s.promises \in Seq(Made(n, m, r)) /\ s.jobs \in Seq(Jobs(n, m, r))
      /\ s.frames \in Seq(Calls(n)) /\ s.open \subseteq 1 .. n
  BY <1>1, <1>2, ShapeParts
<1>4. s.frames[f] \in Calls(n)
  BY <1>3, SeqEntries
<1>5. PICK e : e = [s.frames[f] EXCEPT !.status = new]
  OBVIOUS
<1>6. e \in Calls(n) /\ e.status = new /\ e.result = s.frames[f].result
  BY <1>4, <1>5 DEF Calls
<1>7. PICK fs : fs = [s.frames EXCEPT ![f] = e]
  OBVIOUS
<1>8. /\ fs \in Seq(Calls(n)) /\ DOMAIN fs = DOMAIN s.frames /\ Len(fs) = m
      /\ \A g \in DOMAIN s.frames : fs[g] = IF g = f THEN e ELSE s.frames[g]
  BY <1>2, <1>3, <1>6, <1>7, SeqPut
<1>9. t = [promises |-> s.promises, jobs |-> s.jobs, frames |-> fs, open |-> s.open, reactions |-> r]
  BY <1>2, <1>3, <1>5, <1>7 DEF Marked
<1>10. /\ t = [promises |-> t.promises, jobs |-> t.jobs, frames |-> t.frames, open |-> t.open,
               reactions |-> t.reactions]
       /\ t.promises = s.promises /\ t.jobs = s.jobs /\ t.frames = fs /\ t.open = s.open
       /\ t.reactions = r
  BY <1>9
<1>11. Shape(t)
  BY <1>2, <1>3, <1>8, <1>10, ShapeBuilt
<1>12. \A q \in own : q \notin t.open
  BY <1>10 DEF Sound, Untouched
<1>13. /\ Sound(t, own) /\ Thenables(t) = Thenables(s)
       /\ \A g \in Nat : Woken(t, g) <=> Woken(s, g)
  BY <1>10, <1>11, <1>12, SoundAlike
<1>14. QED
  BY <1>2, <1>6, <1>8, <1>10, <1>13

(* One more call of an async function.                                     *)
Begun(s, p) == [s EXCEPT !.frames = Append(@, [status |-> "running", result |-> p])]

LEMMA BegunOnce ==
  ASSUME NEW s, NEW own, Sound(s, own), NEW p \in DOMAIN s.promises, NEW t, t = Begun(s, p),
         NEW f, f = Len(s.frames) + 1
  PROVE  /\ Sound(t, own)
         /\ t.promises = s.promises /\ t.open = s.open /\ t.reactions = s.reactions
         /\ Len(t.frames) = f /\ DOMAIN t.frames = DOMAIN s.frames \cup {f} /\ f \notin DOMAIN s.frames
         /\ t.frames[f].status = "running" /\ t.frames[f].result = p
         /\ \A g \in DOMAIN s.frames : t.frames[g] = s.frames[g]
         /\ \A g \in Nat : Woken(t, g) <=> Woken(s, g)
<1>1. Shape(s)
  BY DEF Sound
<1>2. PICK n, m, r : n = Len(s.promises) /\ m = Len(s.frames) /\ r = s.reactions
  OBVIOUS
<1>3. /\ n \in Nat /\ m \in Nat /\ r \in Nat /\ DOMAIN s.promises = 1 .. n /\ DOMAIN s.frames = 1 .. m
      /\ s = [promises |-> s.promises, jobs |-> s.jobs, frames |-> s.frames, open |-> s.open,
              reactions |-> s.reactions]
      /\ s.frames \in Seq(Calls(n))
  BY <1>1, <1>2, ShapeParts
<1>4. f \in Nat /\ n <= n /\ m <= f /\ r <= r /\ f \notin DOMAIN s.frames
  BY <1>2, <1>3
<1>5. /\ s.promises \in Seq(Made(n, f, r)) /\ s.jobs \in Seq(Jobs(n, f, r)) /\ s.open \subseteq 1 .. n
  BY <1>1, <1>2, <1>3, <1>4, PartsGrow
<1>6. PICK e : e = [status |-> "running", result |-> p]
  OBVIOUS
<1>7. e \in Calls(n) /\ e.status = "running" /\ e.result = p
  BY <1>3, <1>6 DEF Calls
<1>8. PICK fs : fs = Append(s.frames, e)
  OBVIOUS
<1>9. /\ fs \in Seq(Calls(n)) /\ DOMAIN fs = DOMAIN s.frames \cup {f} /\ Len(fs) = f
      /\ \A g \in DOMAIN s.frames : fs[g] = s.frames[g]
      /\ fs[f] = e
  BY <1>3, <1>7, <1>8, SeqAdd
<1>10. t = [promises |-> s.promises, jobs |-> s.jobs, frames |-> fs, open |-> s.open, reactions |-> r]
  BY <1>2, <1>3, <1>6, <1>8 DEF Begun
<1>11. /\ t = [promises |-> t.promises, jobs |-> t.jobs, frames |-> t.frames, open |-> t.open,
               reactions |-> t.reactions]
       /\ t.promises = s.promises /\ t.jobs = s.jobs /\ t.frames = fs /\ t.open = s.open
       /\ t.reactions = r
  BY <1>10
<1>12. Shape(t)
  BY <1>2, <1>3, <1>4, <1>5, <1>9, <1>11, ShapeBuilt
<1>13. \A q \in own : q \notin t.open
  BY <1>11 DEF Sound, Untouched
<1>14. /\ Sound(t, own)
       /\ \A g \in Nat : Woken(t, g) <=> Woken(s, g)
  BY <1>11, <1>12, <1>13, SoundAlike
<1>15. QED
  BY <1>2, <1>4, <1>7, <1>9, <1>11, <1>14

(* Script holds the resolve functions of one more promise.                 *)
Handed(s, p) == [s EXCEPT !.open = @ \cup {p}]

LEMMA HandedOnce ==
  ASSUME NEW s, NEW own, Sound(s, own), NEW p \in DOMAIN s.promises, p \notin own,
         NEW t, t = Handed(s, p)
  PROVE  /\ Sound(t, own) /\ Thenables(t) = Thenables(s)
         /\ t.promises = s.promises /\ t.frames = s.frames /\ t.reactions = s.reactions
         /\ \A g \in Nat : Woken(t, g) <=> Woken(s, g)
<1>1. Shape(s)
  BY DEF Sound
<1>2. PICK n, m, r : n = Len(s.promises) /\ m = Len(s.frames) /\ r = s.reactions
  OBVIOUS
<1>3. /\ n \in Nat /\ m \in Nat /\ r \in Nat /\ DOMAIN s.promises = 1 .. n
      /\ s = [promises |-> s.promises, jobs |-> s.jobs, frames |-> s.frames, open |-> s.open,
              reactions |-> s.reactions]
      /\ s.promises \in Seq(Made(n, m, r)) /\ s.jobs \in Seq(Jobs(n, m, r))
      /\ s.frames \in Seq(Calls(n)) /\ s.open \subseteq 1 .. n
  BY <1>1, <1>2, ShapeParts
<1>4. PICK o : o = s.open \cup {p}
  OBVIOUS
<1>5. t = [promises |-> s.promises, jobs |-> s.jobs, frames |-> s.frames, open |-> o, reactions |-> r]
  BY <1>2, <1>3, <1>4 DEF Handed
<1>6. /\ t = [promises |-> t.promises, jobs |-> t.jobs, frames |-> t.frames, open |-> t.open,
              reactions |-> t.reactions]
      /\ t.promises = s.promises /\ t.jobs = s.jobs /\ t.frames = s.frames /\ t.open = o
      /\ t.reactions = r
  BY <1>5
<1>7. o \subseteq 1 .. n
  BY <1>3, <1>4
<1>8. Shape(t)
  BY <1>2, <1>3, <1>6, <1>7, ShapeBuilt
<1>9. \A q \in own : q \notin t.open
  BY <1>4, <1>6 DEF Sound, Untouched
<1>10. /\ Sound(t, own) /\ Thenables(t) = Thenables(s)
       /\ \A g \in Nat : Woken(t, g) <=> Woken(s, g)
  BY <1>6, <1>8, <1>9, SoundAlike
<1>11. QED
  BY <1>2, <1>6, <1>10

-----------------------------------------------------------------------------
(* Frames                                                                  *)

\* What script, calls and resumptions leave of an earlier heap.
Grows(s, t) ==
  /\ Len(s.promises) <= Len(t.promises) /\ Len(s.frames) <= Len(t.frames)
  /\ s.reactions <= t.reactions
  /\ \A p \in Own(t) : p \in Own(s) \/ p > Len(s.promises)

(* What a kept heap says of its frames and their promises.                 *)
LEMMA KeptParts ==
  ASSUME NEW s, NEW run, Kept(s, run)
  PROVE  /\ Shape(s) /\ Len(s.promises) \in Nat /\ Len(s.frames) \in Nat /\ s.reactions \in Nat
         /\ DOMAIN s.promises = 1 .. Len(s.promises) /\ DOMAIN s.frames = 1 .. Len(s.frames)
         /\ Own(s) \subseteq DOMAIN s.promises
         /\ \A p \in Own(s) : p \in Nat /\ p # 0 /\ p <= Len(s.promises) /\ p \notin s.open
         /\ \A f \in DOMAIN s.frames : f \in Nat /\ f # 0
<1>1. Shape(s) /\ \A p \in Own(s) : Untouched(s, p)
  BY DEF Kept, Sound
<1>2. /\ Len(s.promises) \in Nat /\ Len(s.frames) \in Nat /\ s.reactions \in Nat
      /\ DOMAIN s.promises = 1 .. Len(s.promises) /\ DOMAIN s.frames = 1 .. Len(s.frames)
  BY <1>1, ShapeParts
<1>3. \A p \in Own(s) : p \in 1 .. Len(s.promises) /\ p \notin s.open
  BY <1>1 DEF Untouched
<1>4. QED
  BY <1>1, <1>2, <1>3

(* A heap with the frames and the wakers of another one.                   *)
LEMMA KeptAlike ==
  ASSUME NEW s, NEW run, Kept(s, run), NEW t, Sound(t, Own(s)), t.frames = s.frames,
         \A g \in Nat : Woken(t, g) <=> Woken(s, g)
  PROVE  Kept(t, run) /\ Own(t) = Own(s)
<1>1. Own(t) = Own(s) /\ Undone(t) = Undone(s)
  BY DEF Own, Undone
<1>2. \A f \in DOMAIN s.frames : f \in Nat
  BY KeptParts
<1>3. FramesKept(s, run)
  BY DEF Kept
<1>4. FramesKept(t, run)
  BY <1>1, <1>2, <1>3 DEF FramesKept
<1>5. QED
  BY <1>1, <1>4 DEF Kept

LEMMA GrowsAlike ==
  ASSUME NEW s, NEW run, Kept(s, run), NEW t, Own(t) = Own(s), Len(s.promises) <= Len(t.promises),
         t.frames = s.frames, s.reactions <= t.reactions
  PROVE  Grows(s, t)
<1>1. Len(s.frames) <= Len(t.frames)
  BY KeptParts
<1>2. QED
  BY <1>1 DEF Grows

(* The promise that stands for a value.                                    *)
LEMMA ValueResolvedOnce ==
  ASSUME NEW s, NEW own, Sound(s, own), NEW value \in {Plain, Thenable} \cup DOMAIN s.promises,
         NEW a, a = ResolveValue(s, value)
  PROVE  /\ Sound(a.heap, own) /\ a.promise \in DOMAIN a.heap.promises
         /\ Len(s.promises) <= Len(a.heap.promises) /\ a.heap.frames = s.frames
         /\ a.heap.reactions = s.reactions
         /\ \A g \in Nat : Woken(a.heap, g) <=> Woken(s, g)
<1>1. Shape(s)
  BY DEF Sound
<1>2. PICK n : n = Len(s.promises)
  OBVIOUS
<1>3. n \in Nat /\ DOMAIN s.promises = 1 .. n
  BY <1>1, <1>2, ShapeParts
<1>4. CASE value \in DOMAIN s.promises
  <2>1. value > 0
    BY <1>3, <1>4
  <2>2. a.heap = s /\ a.promise = value
    BY <2>1 DEF ResolveValue
  <2>3. QED
    BY <1>2, <1>3, <1>4, <2>2
<1>5. CASE value \in {Plain, Thenable}
  <2>1. ~(value > 0)
    BY <1>5 DEF Plain, Thenable
  <2>2. PICK p, w : p = n + 1 /\ w = WithPromise(s)
    OBVIOUS
  <2>3. a.heap = Resolved(w, p, value) /\ a.promise = p
    BY <1>2, <2>1, <2>2 DEF ResolveValue
  <2>4. /\ Len(w.promises) = n + 1 /\ DOMAIN w.promises = 1 .. n + 1
        /\ w.frames = s.frames /\ w.reactions = s.reactions
    BY <1>1, <1>2, <2>2, PromiseAdded
  <2>5. /\ Sound(w, own \cup {p}) /\ p \notin own
        /\ \A g \in Nat : Woken(w, g) <=> Woken(s, g)
    BY <1>2, <2>2, PromiseAddedOnce
  <2>6. Sound(w, own)
    BY <2>5 DEF Sound
  <2>7. p \in DOMAIN w.promises
    BY <1>3, <2>2, <2>4
  <2>8. PICK h : h = a.heap
    OBVIOUS
  <2>9. h = Resolved(w, p, value) /\ value \in {Plain, Thenable} \cup DOMAIN w.promises
    BY <1>5, <2>3, <2>8
  <2>10. /\ Sound(h, own)
         /\ Len(h.promises) = Len(w.promises) /\ h.frames = w.frames
         /\ h.reactions = w.reactions
         /\ \A g \in Nat : Woken(h, g) <=> Woken(w, g)
    BY <2>5, <2>6, <2>7, <2>9, ResolvedOnce
  <2>11. Shape(h)
    BY <2>10 DEF Sound
  <2>12. DOMAIN h.promises = DOMAIN w.promises
    BY <2>4, <2>10, <2>11, ShapeParts
  <2>13. n <= Len(h.promises)
    BY <1>3, <2>4, <2>10
  <2>14. QED
    BY <1>2, <2>3, <2>4, <2>5, <2>7, <2>8, <2>10, <2>12, <2>13
<1>6. QED
  BY <1>4, <1>5

(* A frame that awaits a value waits for one promise.                      *)
LEMMA SuspendedKept ==
  ASSUME NEW s, NEW run, Kept(s, run), NEW f \in DOMAIN s.frames, f \in run,
         NEW value \in {Plain, Thenable} \cup DOMAIN s.promises, NEW t, t = Suspended(s, f, value)
  PROVE  Kept(t, run \ {f}) /\ Grows(s, t)
<1>1. Sound(s, Own(s)) /\ FramesKept(s, run)
  BY DEF Kept
<1>2. PICK own : own = Own(s)
  OBVIOUS
<1>3. PICK a : a = ResolveValue(s, value)
  OBVIOUS
<1>4. PICK h : h = a.heap
  OBVIOUS
<1>5. /\ Sound(h, own) /\ a.promise \in DOMAIN h.promises
      /\ Len(s.promises) <= Len(h.promises) /\ h.frames = s.frames
      /\ h.reactions = s.reactions
      /\ \A g \in Nat : Woken(h, g) <=> Woken(s, g)
  BY <1>1, <1>2, <1>3, <1>4, ValueResolvedOnce
<1>6. PICK w : w = Marked(h, f, "suspended")
  OBVIOUS
<1>7. f \in DOMAIN h.frames /\ "suspended" \in {"running", "suspended", "done"}
  BY <1>5
<1>8. /\ Sound(w, own)
      /\ w.promises = h.promises /\ w.reactions = h.reactions
      /\ Len(w.frames) = Len(h.frames) /\ DOMAIN w.frames = DOMAIN h.frames
      /\ w.frames[f].status = "suspended" /\ w.frames[f].result = h.frames[f].result
      /\ \A g \in DOMAIN h.frames : g # f => w.frames[g] = h.frames[g]
      /\ \A g \in Nat : Woken(w, g) <=> Woken(h, g)
  BY <1>5, <1>6, <1>7, MarkedOnce
<1>9. t = Chained(w, a.promise, Resumes(f), Resumes(f), 0)
  BY <1>3, <1>4, <1>6 DEF Suspended, Marked, Resumes
<1>10. PICK n, m : n = Len(w.promises) /\ m = Len(w.frames)
  OBVIOUS
<1>11. Shape(w)
  BY <1>8 DEF Sound
<1>12. n \in Nat /\ m \in Nat /\ DOMAIN w.frames = 1 .. m /\ 0 \in 0 .. n /\ w.reactions \in Nat
  BY <1>10, <1>11, ShapeParts
<1>13. Resumes(f) \in Functions(n, m) /\ f \in Nat
  BY <1>5, <1>8, <1>12 DEF Functions, Resumes
<1>14. ~Woken(s, f) /\ s.frames[f].status = "running"
  BY <1>1 DEF FramesKept
<1>15. 0 \notin own /\ \A q \in own : Resumes(f) # Settles(q)
  BY <1>2, KeptParts, HandlersDiffer
<1>16. \A g \in Nat : Resumes(f) = Resumes(g) => ~Woken(w, g)
  BY <1>5, <1>8, <1>13, <1>14, HandlersDiffer
<1>17. Script \notin {Resumes(f), Resumes(f)}
  BY HandlersDiffer
<1>18. PICK x, p : x = Resumes(f) /\ p = a.promise
  OBVIOUS
<1>19. /\ Sound(t, own)
       /\ Len(t.promises) = Len(w.promises) /\ t.frames = w.frames
       /\ t.reactions = w.reactions + 1
       /\ \A g \in Nat : Woken(t, g) <=> Woken(w, g) \/ x = Resumes(g)
  <2>1. x \in Functions(n, m) /\ p \in DOMAIN w.promises /\ t = Chained(w, p, x, x, 0)
    BY <1>5, <1>8, <1>9, <1>13, <1>18
  <2>2. /\ Script \in {x, x} => 0 # 0
        /\ "resume" \in {x.kind, x.kind} => x = x
        /\ \A q \in own : x # Settles(q) /\ x # Settles(q)
        /\ \A g \in Nat : x = Resumes(g) => ~Woken(w, g)
    BY <1>15, <1>16, <1>17, <1>18
  <2>3. QED
    BY <1>8, <1>10, <1>12, <1>15, <2>1, <2>2, ChainedOnce, SMTT(30)
<1>20. \A g \in Nat : Woken(t, g) <=> Woken(s, g) \/ g = f
  BY <1>5, <1>8, <1>18, <1>19, HandlersDiffer
<1>21. /\ DOMAIN t.frames = DOMAIN s.frames /\ t.frames[f].status = "suspended"
       /\ \A g \in DOMAIN s.frames : t.frames[g].result = s.frames[g].result
       /\ \A g \in DOMAIN s.frames : g # f => t.frames[g] = s.frames[g]
  BY <1>5, <1>8, <1>19
<1>22. Undone(t) = Undone(s)
  BY <1>14, <1>21 DEF Undone
<1>23. Own(t) = own
  BY <1>2, <1>21, <1>22 DEF Own, Undone
<1>24. FramesKept(t, run \ {f})
  <2>1. \A g \in DOMAIN s.frames : g \in Nat
    BY KeptParts
  <2>2. ASSUME NEW g \in DOMAIN t.frames
        PROVE  /\ (t.frames[g].status = "suspended") <=> Woken(t, g)
               /\ (t.frames[g].status = "running") <=> g \in run \ {f}
    <3>1. CASE g = f
      BY <1>13, <1>20, <1>21, <3>1
    <3>2. CASE g # f
      BY <1>1, <1>20, <1>21, <2>1, <2>2, <3>2 DEF FramesKept
    <3>3. QED
      BY <3>1, <3>2
  <2>3. \A g, i \in Undone(t) : t.frames[g].result = t.frames[i].result => g = i
    BY <1>1, <1>21, <1>22 DEF FramesKept, Undone
  <2>4. QED
    BY <2>2, <2>3 DEF FramesKept
<1>25. Grows(s, t)
  <2>1. Len(t.frames) = Len(s.frames) /\ Len(s.frames) \in Nat
    BY <1>5, <1>8, <1>19, KeptParts
  <2>2. t.reactions = s.reactions + 1 /\ s.reactions \in Nat
    BY <1>5, <1>8, <1>19, KeptParts
  <2>3. Len(s.promises) <= Len(t.promises)
    BY <1>5, <1>8, <1>19
  <2>4. Len(s.frames) <= Len(t.frames) /\ s.reactions <= t.reactions
    BY <2>1, <2>2
  <2>5. QED
    BY <1>2, <1>23, <2>3, <2>4 DEF Grows
<1>26. QED
  BY <1>19, <1>23, <1>24, <1>25 DEF Kept

(* A frame that is done: its result promise is settled, or follows another one. *)
LEMMA FinishedKept ==
  ASSUME NEW s, NEW run, Kept(s, run), NEW f \in DOMAIN s.frames, f \in run,
         NEW own, own = Own(s) \ {s.frames[f].result}, NEW h, NEW t, t = Marked(h, f, "done"),
         Sound(h, own), h.frames = s.frames, Len(h.promises) = Len(s.promises),
         h.reactions = s.reactions, \A g \in Nat : Woken(h, g) <=> Woken(s, g)
  PROVE  Kept(t, run \ {f}) /\ Grows(s, t)
<1>1. FramesKept(s, run)
  BY DEF Kept
<1>2. f \in DOMAIN h.frames /\ "done" \in {"running", "suspended", "done"}
  OBVIOUS
<1>3. /\ Sound(t, own)
      /\ t.promises = h.promises /\ t.reactions = h.reactions
      /\ Len(t.frames) = Len(h.frames) /\ DOMAIN t.frames = DOMAIN h.frames
      /\ t.frames[f].status = "done"
      /\ \A g \in DOMAIN h.frames : g # f => t.frames[g] = h.frames[g]
      /\ \A g \in Nat : Woken(t, g) <=> Woken(h, g)
  BY <1>2, MarkedOnce
<1>4. s.frames[f].status = "running" /\ ~Woken(s, f)
  BY <1>1 DEF FramesKept
<1>5. Undone(t) = Undone(s) \ {f} /\ f \in Undone(s)
  BY <1>3, <1>4 DEF Undone
<1>6. \A g \in Undone(s) : g # f => s.frames[g].result # s.frames[f].result
  BY <1>1, <1>5 DEF FramesKept
<1>7. Own(t) = own
  BY <1>3, <1>5, <1>6 DEF Own, Undone
<1>8. \A g \in DOMAIN s.frames : g \in Nat
  BY KeptParts
<1>9. FramesKept(t, run \ {f})
  <2>1. ASSUME NEW g \in DOMAIN t.frames
        PROVE  /\ (t.frames[g].status = "suspended") <=> Woken(t, g)
               /\ (t.frames[g].status = "running") <=> g \in run \ {f}
    <3>1. CASE g = f
      BY <1>3, <1>4, <1>8, <3>1
    <3>2. CASE g # f
      BY <1>1, <1>3, <1>8, <2>1, <3>2 DEF FramesKept
    <3>3. QED
      BY <3>1, <3>2
  <2>2. \A g, i \in Undone(t) : t.frames[g].result = t.frames[i].result => g = i
    BY <1>1, <1>3, <1>5 DEF FramesKept, Undone
  <2>3. QED
    BY <2>1, <2>2 DEF FramesKept
<1>10. Grows(s, t)
  <2>1. Len(s.promises) <= Len(t.promises) /\ Len(s.frames) <= Len(t.frames) /\ s.reactions <= t.reactions
    BY <1>3, KeptParts
  <2>2. QED
    BY <1>7, <2>1 DEF Grows
<1>11. QED
  BY <1>3, <1>7, <1>9, <1>10 DEF Kept

(* A frame runs to its next await, its return or a throw.                  *)
LEMMA DrivenKept ==
  ASSUME NEW s, NEW run, Kept(s, run), NEW f \in DOMAIN s.frames, f \in run,
         NEW o, o.kind \in {"await", "return", "throw"},
         o.value \in {Plain, Thenable} \cup DOMAIN s.promises, o.kind = "throw" => o.value = Plain,
         NEW t, t = Driven(s, f, o)
  PROVE  Kept(t, run \ {f}) /\ Grows(s, t)
<1>1. CASE o.kind = "await"
  <2>1. t = Suspended(s, f, o.value)
    BY <1>1 DEF Driven
  <2>2. QED
    BY <2>1, SuspendedKept
<1>2. PICK p : p = s.frames[f].result
  OBVIOUS
<1>3. PICK own : own = Own(s) \ {p}
  OBVIOUS
<1>4. Sound(s, Own(s)) /\ FramesKept(s, run)
  BY DEF Kept
<1>5. s.frames[f].status = "running"
  BY <1>4 DEF FramesKept
<1>6. p \in Own(s)
  BY <1>2, <1>5 DEF Own, Undone
<1>7. p \in DOMAIN s.promises
  BY <1>6, KeptParts
<1>8. Sound(s, own) /\ p \notin own
  BY <1>3, <1>4 DEF Sound
<1>9. CASE o.kind = "return"
  <2>1. PICK h : h = Resolved(s, p, o.value)
    OBVIOUS
  <2>2. /\ Sound(h, own)
        /\ Len(h.promises) = Len(s.promises) /\ h.frames = s.frames
        /\ h.reactions = s.reactions
        /\ \A g \in Nat : Woken(h, g) <=> Woken(s, g)
    <3>1. PICK v : v = o.value
      OBVIOUS
    <3>2. h = Resolved(s, p, v) /\ v \in {Plain, Thenable} \cup DOMAIN s.promises
      BY <2>1, <3>1
    <3>3. QED
      BY <1>7, <1>8, <3>2, ResolvedOnce
  <2>3. t = Marked(h, f, "done")
    BY <1>2, <1>9, <2>1 DEF Driven, Marked
  <2>4. QED
    BY <1>2, <1>3, <2>2, <2>3, FinishedKept
<1>10. CASE o.kind = "throw"
  <2>1. PICK h : h = Rejected(s, p, Plain)
    OBVIOUS
  <2>2. /\ Sound(h, own)
        /\ Len(h.promises) = Len(s.promises) /\ h.frames = s.frames
        /\ h.reactions = s.reactions
        /\ \A g \in Nat : Woken(h, g) <=> Woken(s, g)
    BY <1>7, <1>8, <2>1, RejectedOnce
  <2>3. t = Marked(h, f, "done")
    BY <1>2, <1>10, <2>1 DEF Driven, Marked
  <2>4. QED
    BY <1>2, <1>3, <2>2, <2>3, FinishedKept
<1>11. QED
  BY <1>1, <1>9, <1>10

(* Only calls that were made are resumed.                                  *)
LEMMA WokenWasCalled ==
  ASSUME NEW s, Shape(s), NEW g \in Nat, Woken(s, g)
  PROVE  g \in DOMAIN s.frames
<1>1. PICK n, f, r : n = Len(s.promises) /\ f = Len(s.frames) /\ r = s.reactions
  OBVIOUS
<1>2. n \in Nat /\ f \in Nat /\ r \in Nat /\ DOMAIN s.frames = 1 .. f
  BY <1>1, ShapeParts
<1>3. /\ \A j \in DOMAIN s.jobs : s.jobs[j] \in Jobs(n, f, r)
      /\ \A p \in DOMAIN s.promises : \A k \in DOMAIN s.promises[p].reactions :
           s.promises[p].reactions[k] \in Waiting(n, f, r)
  BY <1>1, ShapeEntries
<1>4. PICK p \in Nat : \E k \in Nat : Resumed(s, g, p, k)
  BY DEF Woken
<1>5. PICK k \in Nat : Resumed(s, g, p, k)
  BY <1>4
<1>6. Resumes(g) \in Functions(n, f)
  <2>1. CASE p = 0
    <3>1. PICK x : x = s.jobs[k]
      OBVIOUS
    <3>2. x \in Jobs(n, f, r) /\ x.handler = Resumes(g)
      BY <1>3, <1>5, <2>1, <3>1 DEF Resumed
    <3>3. x.handler \in Functions(n, f)
      BY <1>2, <3>2, JobParts
    <3>4. QED
      BY <3>2, <3>3
  <2>2. CASE p # 0
    <3>1. PICK x : x = s.promises[p].reactions[k]
      OBVIOUS
    <3>2. x \in Waiting(n, f, r) /\ x.onFulfilled = Resumes(g)
      BY <1>3, <1>5, <2>2, <3>1 DEF Resumed
    <3>3. QED
      BY <1>2, <3>2, ReactionParts
  <2>3. QED
    BY <2>1, <2>2
<1>7. PICK h : h = Resumes(g)
  OBVIOUS
<1>8. h \in Functions(n, f) /\ h.kind = "resume" /\ h.of = g
  BY <1>6, <1>7, HandlersDiffer
<1>9. h.of \in 1 .. f
  BY <1>2, <1>8, HandlerKinds
<1>10. QED
  BY <1>2, <1>8, <1>9

(* A call of an async function.                                            *)
LEMMA CalledKept ==
  ASSUME NEW s, NEW run, Kept(s, run), run \subseteq DOMAIN s.frames,
         NEW o, o.kind \in {"await", "return", "throw"},
         o.value \in {Plain, Thenable} \cup DOMAIN s.promises, o.kind = "throw" => o.value = Plain,
         NEW t, t = Called(s, o)
  PROVE  Kept(t, run) /\ Grows(s, t)
<1>1. PICK n, p, f : n = Len(s.promises) /\ p = n + 1 /\ f = Len(s.frames) + 1
  OBVIOUS
<1>2. PICK w : w = WithPromise(s)
  OBVIOUS
<1>3. PICK h : h = Begun(w, p)
  OBVIOUS
<1>4. Shape(s) /\ Sound(s, Own(s)) /\ FramesKept(s, run)
  BY DEF Kept, Sound
<1>5. /\ Len(w.promises) = p /\ DOMAIN w.promises = 1 .. p
      /\ w.frames = s.frames /\ w.open = s.open /\ w.reactions = s.reactions
  BY <1>1, <1>2, <1>4, PromiseAdded
<1>6. /\ Sound(w, Own(s) \cup {p}) /\ p \notin Own(s)
      /\ \A g \in Nat : Woken(w, g) <=> Woken(s, g)
  BY <1>1, <1>2, <1>4, PromiseAddedOnce
<1>7. n \in Nat /\ DOMAIN s.promises = 1 .. n /\ s.reactions \in Nat /\ Len(s.frames) \in Nat
  BY <1>1, KeptParts
<1>8. p \in DOMAIN w.promises /\ DOMAIN s.promises \subseteq DOMAIN w.promises
  BY <1>1, <1>5, <1>7
<1>9. /\ Sound(h, Own(s) \cup {p})
      /\ h.promises = w.promises /\ h.open = w.open /\ h.reactions = w.reactions
      /\ Len(h.frames) = f /\ DOMAIN h.frames = DOMAIN s.frames \cup {f} /\ f \notin DOMAIN s.frames
      /\ h.frames[f].status = "running" /\ h.frames[f].result = p
      /\ \A g \in DOMAIN s.frames : h.frames[g] = s.frames[g]
      /\ \A g \in Nat : Woken(h, g) <=> Woken(w, g)
  BY <1>1, <1>3, <1>5, <1>6, <1>8, BegunOnce
<1>10. Undone(h) = Undone(s) \cup {f} /\ f \notin Undone(s)
  BY <1>9 DEF Undone
<1>11. Own(h) = Own(s) \cup {p}
  BY <1>9, <1>10 DEF Own, Undone
<1>12. f \in Nat /\ ~Woken(s, f)
  BY <1>1, <1>4, <1>7, <1>9, WokenWasCalled
<1>13. FramesKept(h, run \cup {f})
  <2>1. \A g \in DOMAIN s.frames : g \in Nat
    BY KeptParts
  <2>2. ASSUME NEW g \in DOMAIN h.frames
        PROVE  /\ (h.frames[g].status = "suspended") <=> Woken(h, g)
               /\ (h.frames[g].status = "running") <=> g \in run \cup {f}
    <3>1. CASE g = f
      BY <1>6, <1>9, <1>12, <3>1
    <3>2. CASE g # f
      BY <1>4, <1>6, <1>9, <2>1, <2>2, <3>2 DEF FramesKept
    <3>3. QED
      BY <3>1, <3>2
  <2>3. ASSUME NEW g \in Undone(h), NEW i \in Undone(h), h.frames[g].result = h.frames[i].result
        PROVE  g = i
    <3>1. \A k \in Undone(s) : h.frames[k].result \in Own(s) /\ h.frames[k] = s.frames[k]
      BY <1>9 DEF Own, Undone
    <3>2. CASE g = f \/ i = f
      BY <1>6, <1>9, <1>10, <2>3, <3>1, <3>2
    <3>3. CASE g \in Undone(s) /\ i \in Undone(s)
      BY <1>4, <2>3, <3>1, <3>3 DEF FramesKept
    <3>4. QED
      BY <1>10, <3>2, <3>3
  <2>4. QED
    BY <2>2, <2>3 DEF FramesKept
<1>14. Kept(h, run \cup {f})
  BY <1>9, <1>11, <1>13 DEF Kept
<1>15. t = Driven(h, f, o)
  BY <1>1, <1>2, <1>3 DEF Called, Begun
<1>16. o.value \in {Plain, Thenable} \cup DOMAIN h.promises
  BY <1>8, <1>9
<1>17. f \in DOMAIN h.frames /\ f \in run \cup {f}
  BY <1>9
<1>18. Kept(t, (run \cup {f}) \ {f}) /\ Grows(h, t)
  BY <1>14, <1>15, <1>16, <1>17, DrivenKept
<1>19. (run \cup {f}) \ {f} = run
  BY <1>9
<1>20. Grows(s, t)
  <2>1. Len(h.promises) = n + 1 /\ Len(h.frames) = Len(s.frames) + 1 /\ h.reactions = s.reactions
    BY <1>1, <1>5, <1>9
  <2>2. /\ Len(h.promises) <= Len(t.promises) /\ Len(h.frames) <= Len(t.frames) /\ h.reactions <= t.reactions
        /\ \A q \in Own(t) : q \in Own(h) \/ q > Len(h.promises)
    BY <1>18 DEF Grows
  <2>3. /\ Len(t.promises) \in Nat /\ Len(t.frames) \in Nat /\ t.reactions \in Nat
        /\ \A q \in Own(t) : q \in Nat
    BY <1>18, <1>19, KeptParts
  <2>4. Len(s.promises) <= Len(t.promises) /\ Len(s.frames) <= Len(t.frames) /\ s.reactions <= t.reactions
    BY <1>1, <1>7, <2>1, <2>2, <2>3
  <2>5. \A q \in Own(t) : q \in Own(s) \/ q > n
    BY <1>1, <1>7, <1>11, <2>1, <2>2, <2>3
  <2>6. QED
    BY <1>1, <2>4, <2>5 DEF Grows
<1>21. QED
  BY <1>18, <1>19, <1>20

-----------------------------------------------------------------------------
(* Script                                                                  *)

(* An operation on a promise that no frame owns.                           *)
LEMMA ResolvedKept ==
  ASSUME NEW s, NEW run, Kept(s, run), NEW p \in DOMAIN s.promises, p \notin Own(s),
         NEW value \in {Plain, Thenable} \cup DOMAIN s.promises, NEW t, t = Resolved(s, p, value)
  PROVE  /\ Kept(t, run) /\ Grows(s, t)
         /\ value = Plain => Thenables(t) = Thenables(s)
         /\ Len(t.promises) = Len(s.promises) /\ t.frames = s.frames /\ t.reactions = s.reactions
<1>1. PICK own : own = Own(s)
  OBVIOUS
<1>2. Sound(s, own)
  BY <1>1 DEF Kept
<1>3. /\ Sound(t, own) /\ (value = Plain => Thenables(t) = Thenables(s))
      /\ Len(t.promises) = Len(s.promises) /\ t.frames = s.frames
      /\ t.reactions = s.reactions
      /\ \A g \in Nat : Woken(t, g) <=> Woken(s, g)
  BY <1>1, <1>2, ResolvedOnce
<1>4. Kept(t, run) /\ Own(t) = Own(s)
  BY <1>1, <1>3, KeptAlike
<1>5. Len(s.promises) <= Len(t.promises) /\ s.reactions <= t.reactions
  BY <1>3, KeptParts
<1>6. QED
  BY <1>3, <1>4, <1>5, GrowsAlike

LEMMA RejectedKept ==
  ASSUME NEW s, NEW run, Kept(s, run), NEW p \in DOMAIN s.promises, p \notin Own(s),
         NEW t, t = Rejected(s, p, Plain)
  PROVE  /\ Kept(t, run) /\ Grows(s, t) /\ Thenables(t) = Thenables(s)
         /\ Len(t.promises) = Len(s.promises) /\ t.frames = s.frames /\ t.reactions = s.reactions
<1>1. PICK own : own = Own(s)
  OBVIOUS
<1>2. Sound(s, own)
  BY <1>1 DEF Kept
<1>3. /\ Sound(t, own) /\ Thenables(t) = Thenables(s)
      /\ Len(t.promises) = Len(s.promises) /\ t.frames = s.frames
      /\ t.reactions = s.reactions
      /\ \A g \in Nat : Woken(t, g) <=> Woken(s, g)
  BY <1>1, <1>2, RejectedOnce
<1>4. Kept(t, run) /\ Own(t) = Own(s)
  BY <1>1, <1>3, KeptAlike
<1>5. Len(s.promises) <= Len(t.promises) /\ s.reactions <= t.reactions
  BY <1>3, KeptParts
<1>6. QED
  BY <1>3, <1>4, <1>5, GrowsAlike

(* A new promise, which only its maker can settle.                         *)
LEMMA WithPromiseKept ==
  ASSUME NEW s, NEW run, Kept(s, run), NEW p, p = Len(s.promises) + 1, NEW t, t = WithPromise(s)
  PROVE  /\ Kept(t, run) /\ Grows(s, t) /\ Own(t) = Own(s)
         /\ p \in DOMAIN t.promises /\ p \notin Own(t) /\ Len(t.promises) = p /\ p \in Nat /\ p # 0
         /\ DOMAIN s.promises \subseteq DOMAIN t.promises
         /\ t.frames = s.frames /\ t.reactions = s.reactions
<1>1. PICK own : own = Own(s)
  OBVIOUS
<1>2. Sound(s, own) /\ Shape(s)
  BY <1>1 DEF Kept, Sound
<1>3. PICK n : n = Len(s.promises)
  OBVIOUS
<1>4. /\ Len(t.promises) = n + 1 /\ DOMAIN t.promises = 1 .. n + 1
      /\ t.frames = s.frames /\ t.reactions = s.reactions
  BY <1>2, <1>3, PromiseAdded
<1>5. /\ Sound(t, own \cup {n + 1}) /\ n + 1 \notin own
      /\ \A g \in Nat : Woken(t, g) <=> Woken(s, g)
  BY <1>2, <1>3, PromiseAddedOnce
<1>6. Sound(t, own)
  BY <1>5 DEF Sound
<1>7. Kept(t, run) /\ Own(t) = Own(s)
  BY <1>1, <1>4, <1>5, <1>6, KeptAlike
<1>8. n \in Nat /\ s.reactions \in Nat /\ DOMAIN s.promises = 1 .. n
  BY <1>3, KeptParts
<1>9. /\ Len(s.promises) <= Len(t.promises) /\ s.reactions <= t.reactions
      /\ p \in DOMAIN t.promises /\ p \in Nat /\ p # 0 /\ DOMAIN s.promises \subseteq DOMAIN t.promises
  BY <1>3, <1>4, <1>8
<1>10. Grows(s, t)
  BY <1>4, <1>7, <1>9, GrowsAlike
<1>11. QED
  BY <1>1, <1>3, <1>4, <1>5, <1>7, <1>9, <1>10

LEMMA HandedKept ==
  ASSUME NEW s, NEW run, Kept(s, run), NEW p \in DOMAIN s.promises, p \notin Own(s),
         NEW t, t = Handed(s, p)
  PROVE  /\ Kept(t, run) /\ Grows(s, t) /\ Own(t) = Own(s) /\ Thenables(t) = Thenables(s)
         /\ Len(t.promises) = Len(s.promises) /\ t.frames = s.frames /\ t.reactions = s.reactions
<1>1. PICK own : own = Own(s)
  OBVIOUS
<1>2. Sound(s, own)
  BY <1>1 DEF Kept
<1>3. /\ Sound(t, own) /\ Thenables(t) = Thenables(s)
      /\ t.promises = s.promises /\ t.frames = s.frames /\ t.reactions = s.reactions
      /\ \A g \in Nat : Woken(t, g) <=> Woken(s, g)
  BY <1>1, <1>2, HandedOnce
<1>4. Kept(t, run) /\ Own(t) = Own(s)
  BY <1>1, <1>3, KeptAlike
<1>5. Len(s.promises) <= Len(t.promises) /\ s.reactions <= t.reactions
  BY <1>3, KeptParts
<1>6. QED
  BY <1>3, <1>4, <1>5, GrowsAlike

(* then on a heap in which nothing owns what the reaction settles.         *)
LEMMA ChainedKept ==
  ASSUME NEW s, NEW run, Kept(s, run), NEW p \in DOMAIN s.promises,
         NEW onFulfilled \in {Script, Absent} \cup {Settles(q) : q \in DOMAIN s.promises \ Own(s)},
         NEW onRejected \in {Script, Absent} \cup {Settles(q) : q \in DOMAIN s.promises \ Own(s)},
         NEW result \in {0} \cup DOMAIN s.promises, result \notin Own(s),
         Script \in {onFulfilled, onRejected} => result # 0,
         NEW t, t = Chained(s, p, onFulfilled, onRejected, result)
  PROVE  /\ Kept(t, run) /\ Grows(s, t) /\ Thenables(t) = Thenables(s)
         /\ Len(t.promises) = Len(s.promises) /\ t.frames = s.frames /\ t.reactions = s.reactions + 1
<1>1. PICK own : own = Own(s)
  OBVIOUS
<1>2. Sound(s, own)
  BY <1>1 DEF Kept
<1>3. PICK n, f : n = Len(s.promises) /\ f = Len(s.frames)
  OBVIOUS
<1>4. /\ n \in Nat /\ f \in Nat /\ DOMAIN s.promises = 1 .. n /\ s.reactions \in Nat
      /\ own \subseteq DOMAIN s.promises
  BY <1>1, <1>3, KeptParts
<1>5. result \in 0 .. n /\ result \notin own
  BY <1>1, <1>4
<1>6. ASSUME NEW h \in {Script, Absent} \cup {Settles(q) : q \in DOMAIN s.promises \ Own(s)}
      PROVE  /\ h \in Functions(n, f) /\ h.kind # "resume"
             /\ (\A q \in own : h # Settles(q)) /\ \A g \in Nat : h # Resumes(g)
  <2>1. CASE h \in {Script, Absent}
    <3>1. h \in Functions(n, f)
      BY <2>1 DEF Functions
    <3>2. QED
      BY <2>1, <3>1, HandlersDiffer
  <2>2. CASE h \in {Settles(q) : q \in DOMAIN s.promises \ Own(s)}
    <3>1. PICK q \in DOMAIN s.promises \ Own(s) : h = Settles(q)
      BY <2>2
    <3>2. h \in Functions(n, f)
      BY <1>4, <3>1 DEF Functions, Settles
    <3>3. QED
      BY <1>1, <3>1, <3>2, HandlersDiffer
  <2>3. QED
    BY <1>6, <2>1, <2>2
<1>7. /\ onFulfilled \in Functions(n, f) /\ onFulfilled.kind # "resume"
      /\ (\A q \in own : onFulfilled # Settles(q)) /\ \A g \in Nat : onFulfilled # Resumes(g)
  BY <1>6
<1>8. /\ onRejected \in Functions(n, f) /\ onRejected.kind # "resume"
      /\ \A q \in own : onRejected # Settles(q)
  BY <1>6
<1>9. /\ Sound(t, own) /\ Thenables(t) = Thenables(s)
      /\ Len(t.promises) = Len(s.promises) /\ t.frames = s.frames
      /\ t.reactions = s.reactions + 1
      /\ \A g \in Nat : Woken(t, g) <=> Woken(s, g) \/ onFulfilled = Resumes(g)
  <2>1. /\ "resume" \in {onFulfilled.kind, onRejected.kind} => onFulfilled = onRejected
        /\ \A q \in own : onFulfilled # Settles(q) /\ onRejected # Settles(q)
        /\ \A g \in Nat : onFulfilled = Resumes(g) => ~Woken(s, g)
    BY <1>7, <1>8
  <2>2. QED
    BY <1>2, <1>3, <1>5, <1>7, <1>8, <2>1, ChainedOnce, SMTT(30)
<1>10. \A g \in Nat : Woken(t, g) <=> Woken(s, g)
  BY <1>7, <1>9
<1>11. Kept(t, run) /\ Own(t) = Own(s)
  BY <1>1, <1>9, <1>10, KeptAlike
<1>12. Len(s.promises) <= Len(t.promises) /\ s.reactions <= t.reactions
  BY <1>3, <1>4, <1>9
<1>13. QED
  BY <1>9, <1>11, <1>12, GrowsAlike

-----------------------------------------------------------------------------
(* Jobs                                                                    *)

(* What a job is, by what it calls.                                        *)
LEMMA JobKinds ==
  ASSUME NEW n \in Nat, NEW f \in Nat, NEW r \in Nat, NEW job \in Jobs(n, f, r)
  PROVE  \/ /\ job.kind = "thenable" /\ job.handler = Absent /\ job.handler.kind = "none"
            /\ job.result \in 1 .. n /\ job.value \in {Thenable} \cup 1 .. n
            /\ CallsScript(job) <=> job.value = Thenable
         \/ /\ job.kind = "reaction" /\ job.value = Plain /\ job.handler = Script
            /\ job.handler.kind = "script" /\ job.result \in 1 .. n /\ CallsScript(job)
         \/ /\ job.kind = "reaction" /\ job.value = Plain /\ job.handler.kind = "resume"
            /\ job.handler.of \in 1 .. f /\ job.handler = Resumes(job.handler.of) /\ CallsScript(job)
         \/ /\ job.kind = "reaction" /\ job.value = Plain /\ job.handler.kind = "settle"
            /\ job.handler.of \in 1 .. n /\ job.handler = Settles(job.handler.of) /\ ~CallsScript(job)
         \/ /\ job.kind = "reaction" /\ job.value = Plain /\ job.handler = Absent
            /\ job.handler.kind = "none" /\ job.result \in 0 .. n /\ ~CallsScript(job)
<1>1. PICK h : h = job.handler
  OBVIOUS
<1>2. /\ h \in Functions(n, f) /\ job.result \in 0 .. n
      /\ \/ /\ job.kind = "reaction" /\ job.value = Plain
            /\ h = Script => job.result # 0
         \/ /\ job.kind = "thenable" /\ h = Absent /\ job.result \in 1 .. n
            /\ job.value \in {Thenable} \cup 1 .. n
  <2>1. /\ job.handler \in Functions(n, f) /\ job.result \in 0 .. n
    BY JobParts
  <2>2. \/ /\ job.kind = "reaction" /\ job.value = Plain
           /\ job.handler = Script => job.result # 0
        \/ /\ job.kind = "thenable" /\ job.handler = Absent /\ job.result \in 1 .. n
           /\ job.value \in {Thenable} \cup 1 .. n
    <3>1. CASE job \in ReactionJobs(n, f, r)
      BY <3>1 DEF ReactionJobs
    <3>2. CASE job \in ThenableJobs(n)
      BY <3>2 DEF ThenableJobs
    <3>3. QED
      BY <3>1, <3>2 DEF Jobs
  <2>3. QED
    BY <1>1, <2>1, <2>2
<1>3. Absent.kind = "none"
  BY HandlersDiffer
<1>4. CASE job.kind = "thenable"
  BY <1>1, <1>2, <1>3, <1>4 DEF CallsScript
<1>5. CASE job.kind = "reaction"
  <2>1. /\ h.kind \in {"script", "none", "settle", "resume"}
        /\ h.kind = "script" => h = Script
        /\ h.kind = "none" => h = Absent
        /\ h.kind = "settle" => h.of \in 1 .. n /\ h = Settles(h.of)
        /\ h.kind = "resume" => h.of \in 1 .. f /\ h = Resumes(h.of)
    BY <1>2, HandlerKinds
  <2>2. CASE h.kind = "script"
    <3>1. job.result \in 1 .. n
      BY <1>2, <1>5, <2>1, <2>2
    <3>2. QED
      BY <1>1, <1>2, <1>5, <2>1, <2>2, <3>1 DEF CallsScript
  <2>3. CASE h.kind # "script"
    BY <1>1, <1>2, <1>5, <2>1, <2>3 DEF CallsScript
  <2>4. QED
    BY <2>2, <2>3
<1>6. QED
  BY <1>2, <1>4, <1>5

(* A job that calls no script.                                             *)
LEMMA DoneKept ==
  ASSUME NEW s, Kept(s, {}), Fits(s), s.jobs # <<>>, NEW job, job = Head(s.jobs), ~CallsScript(job),
         NEW w, w = Popped(s), NEW t, t = DoneNatively(w, job)
  PROVE  Kept(t, {}) /\ Fits(t)
<1>1. PICK own, n, f, r : own = Own(s) /\ n = Len(s.promises) /\ f = Len(s.frames) /\ r = s.reactions
  OBVIOUS
<1>2. Shape(s) /\ Sound(s, own)
  BY <1>1 DEF Kept, Sound
<1>3. WokenOnce(s)
  BY <1>2 DEF Sound
<1>4. /\ Sound(w, own) /\ Len(w.promises) = n /\ w.frames = s.frames /\ w.reactions = r
      /\ job \in Jobs(n, f, r)
      /\ job.result \notin own /\ \A q \in own : job.handler # Settles(q)
      /\ \A g \in Nat : Woken(s, g) <=> Woken(w, g) \/ job.handler = Resumes(g)
  <2>1. /\ Sound(w, own) /\ Len(w.promises) = Len(s.promises) /\ w.frames = s.frames
        /\ w.reactions = s.reactions
    BY <1>2, PoppedOnce
  <2>2. job \in Jobs(Len(s.promises), Len(s.frames), s.reactions)
    BY <1>2, PoppedOnce
  <2>3. job.result \notin own
    BY <1>2, PoppedClear
  <2>4. \A q \in own : job.handler # Settles(q)
    BY <1>2, PoppedClear
  <2>5. \A g \in Nat : Woken(s, g) <=> Woken(w, g) \/ job.handler = Resumes(g)
    BY <1>2, <1>3, PoppedWoken
  <2>6. QED
    BY <1>1, <2>1, <2>2, <2>3, <2>4, <2>5
<1>5. n \in Nat /\ f \in Nat /\ r \in Nat /\ own \subseteq DOMAIN s.promises
  BY <1>1, KeptParts
<1>6. job.handler.kind \notin {"script", "resume"}
  BY DEF CallsScript
<1>7. \A g \in Nat : Woken(w, g) <=> Woken(s, g)
  BY <1>4, <1>6, HandlersDiffer
<1>8. Kept(w, {}) /\ Own(w) = own
  BY <1>1, <1>4, <1>7, KeptAlike
<1>9. DOMAIN w.promises = 1 .. n
  BY <1>4, <1>8, KeptParts
<1>10. PICK c, d : c = Cardinality(Thenables(s)) /\ d = Cardinality(Thenables(w))
  OBVIOUS
<1>11. Shape(w)
  BY <1>8, KeptParts
<1>12. c \in Nat /\ d \in Nat
  BY <1>2, <1>10, <1>11, ThenablesCounted
<1>13. d + (IF job.kind = "thenable" THEN 1 ELSE 0) = c
  BY <1>2, <1>10, ThenableTaken
<1>14. n <= MaxPromises /\ f <= MaxFrames /\ r + c <= MaxReactions
  BY <1>1, <1>10 DEF Fits
<1>15. ASSUME Kept(t, {}), Thenables(t) = Thenables(w), Len(t.promises) = Len(w.promises),
              t.frames = w.frames,
              t.reactions = r \/ (t.reactions = r + 1 /\ job.kind = "thenable")
       PROVE  Fits(t)
  <2>1. t.reactions + d <= MaxReactions
    BY <1>5, <1>12, <1>13, <1>14, <1>15, JsPromiseAssumption
  <2>2. QED
    BY <1>1, <1>4, <1>10, <1>14, <1>15, <2>1 DEF Fits
<1>16. CASE job.kind = "thenable"
  <2>1. /\ job.handler = Absent /\ job.result \in 1 .. n /\ job.value \in 1 .. n
        /\ job.handler.kind = "none" /\ job.result # 0
    <3>1. \/ /\ job.handler = Absent /\ job.handler.kind = "none"
             /\ job.result \in 1 .. n /\ job.value \in {Thenable} \cup 1 .. n
             /\ CallsScript(job) <=> job.value = Thenable
          \/ job.kind = "reaction"
      BY <1>4, <1>5, JobKinds
    <3>2. QED
      BY <1>16, <3>1
  <2>2. PICK x, v : x = Settles(job.result) /\ v = job.value
    OBVIOUS
  <2>3. t = Chained(w, v, x, x, 0)
    BY <1>16, <2>1, <2>2 DEF DoneNatively, Settles
  <2>4. x \in {Script, Absent} \cup {Settles(q) : q \in DOMAIN w.promises \ Own(w)}
    BY <1>4, <1>8, <1>9, <2>1, <2>2
  <2>5. 0 \notin Own(w)
    BY <1>8, KeptParts
  <2>6. Script \notin {x, x} /\ v \in DOMAIN w.promises /\ 0 \in {0} \cup DOMAIN w.promises
    BY <1>9, <2>1, <2>2, HandlersDiffer
  <2>7. /\ Kept(t, {}) /\ Thenables(t) = Thenables(w)
        /\ Len(t.promises) = Len(w.promises) /\ t.frames = w.frames /\ t.reactions = w.reactions + 1
    BY <1>8, <2>3, <2>4, <2>5, <2>6, ChainedKept
  <2>8. QED
    BY <1>4, <1>15, <1>16, <2>7
<1>17. ASSUME job.kind = "reaction", job.value = Plain, NEW p \in DOMAIN w.promises, p \notin own,
              t = IF job.fulfilled THEN Resolved(w, p, job.value) ELSE Rejected(w, p, job.value)
       PROVE  Kept(t, {}) /\ Fits(t)
  <2>1. t = Resolved(w, p, Plain) \/ t = Rejected(w, p, Plain)
    BY <1>17
  <2>2. ASSUME t = Resolved(w, p, Plain)
        PROVE  /\ Kept(t, {}) /\ Thenables(t) = Thenables(w)
               /\ Len(t.promises) = Len(w.promises) /\ t.frames = w.frames /\ t.reactions = w.reactions
    <3>1. PICK v : v = Plain
      OBVIOUS
    <3>2. t = Resolved(w, p, v) /\ v \in {Plain, Thenable} \cup DOMAIN w.promises
      BY <2>2, <3>1
    <3>3. QED
      BY <1>8, <1>17, <3>1, <3>2, ResolvedKept
  <2>3. ASSUME t = Rejected(w, p, Plain)
        PROVE  /\ Kept(t, {}) /\ Thenables(t) = Thenables(w)
               /\ Len(t.promises) = Len(w.promises) /\ t.frames = w.frames /\ t.reactions = w.reactions
    BY <1>8, <1>17, <2>3, RejectedKept
  <2>4. QED
    BY <1>4, <1>15, <2>1, <2>2, <2>3
<1>18. CASE job.kind = "reaction" /\ job.handler.kind = "settle"
  <2>1. /\ job.handler.of \in 1 .. n /\ job.handler = Settles(job.handler.of) /\ job.value = Plain
    BY <1>4, <1>5, <1>18, JobKinds
  <2>2. PICK p : p = job.handler.of
    OBVIOUS
  <2>3. p \in DOMAIN w.promises /\ p \notin own
    BY <1>4, <1>9, <2>1, <2>2
  <2>4. t = IF job.fulfilled THEN Resolved(w, p, job.value) ELSE Rejected(w, p, job.value)
    BY <1>18, <2>2 DEF DoneNatively
  <2>5. QED
    BY <1>17, <1>18, <2>1, <2>3, <2>4
<1>19. CASE job.kind = "reaction" /\ job.handler.kind = "none"
  <2>1. job.value = Plain /\ job.result \in 0 .. n
    <3>1. job.result \in 0 .. n
      BY <1>4, <1>5, JobParts
    <3>2. job.value = Plain
      BY <1>4, <1>5, <1>19, JobKinds
    <3>3. QED
      BY <3>1, <3>2
  <2>2. CASE job.result = 0
    <3>1. t = w
      BY <1>19, <2>2 DEF DoneNatively
    <3>2. QED
      BY <1>4, <1>8, <1>15, <3>1
  <2>3. CASE job.result # 0
    <3>1. PICK p : p = job.result
      OBVIOUS
    <3>2. p \in DOMAIN w.promises /\ p \notin own
      BY <1>4, <1>5, <1>9, <2>1, <2>3, <3>1
    <3>3. t = IF job.fulfilled THEN Resolved(w, p, job.value) ELSE Rejected(w, p, job.value)
      BY <1>19, <2>3, <3>1 DEF DoneNatively
    <3>4. QED
      BY <1>17, <1>19, <2>1, <3>2, <3>3
  <2>4. QED
    BY <2>2, <2>3
<1>20. QED
  BY <1>4, <1>5, <1>6, <1>16, <1>18, <1>19, JobKinds

(* A job that calls script.                                                *)
LEMMA EnteredKept ==
  ASSUME NEW s, Kept(s, {}), Fits(s), s.jobs # <<>>, NEW job, job = Head(s.jobs), CallsScript(job),
         NEW w, w = Popped(s), NEW t, t = Entered(w, job)
  PROVE  Kept(t, Resumption(job)) /\ Runs(t, job) /\ Fits(t)
<1>1. PICK own, n, f, r : own = Own(s) /\ n = Len(s.promises) /\ f = Len(s.frames) /\ r = s.reactions
  OBVIOUS
<1>2. Shape(s) /\ Sound(s, own) /\ FramesKept(s, {})
  BY <1>1 DEF Kept, Sound
<1>3. WokenOnce(s)
  BY <1>2 DEF Sound
<1>4. /\ Sound(w, own) /\ Len(w.promises) = n /\ w.frames = s.frames /\ w.reactions = r
      /\ job \in Jobs(n, f, r)
      /\ job.result \notin own
      /\ \A g \in Nat : Woken(s, g) <=> Woken(w, g) \/ job.handler = Resumes(g)
      /\ \A g \in Nat : job.handler = Resumes(g) => ~Woken(w, g)
  <2>1. /\ Sound(w, own) /\ Len(w.promises) = Len(s.promises) /\ w.frames = s.frames
        /\ w.reactions = s.reactions
    BY <1>2, PoppedOnce
  <2>2. job \in Jobs(Len(s.promises), Len(s.frames), s.reactions)
    BY <1>2, PoppedOnce
  <2>3. job.result \notin own
    BY <1>2, PoppedClear
  <2>4. \A g \in Nat : Woken(s, g) <=> Woken(w, g) \/ job.handler = Resumes(g)
    BY <1>2, <1>3, PoppedWoken
  <2>5. \A g \in Nat : job.handler = Resumes(g) => ~Woken(w, g)
    BY <1>2, <1>3, PoppedWoken
  <2>6. QED
    BY <1>1, <2>1, <2>2, <2>3, <2>4, <2>5
<1>5. n \in Nat /\ f \in Nat /\ r \in Nat /\ own \subseteq DOMAIN s.promises /\ DOMAIN s.frames = 1 .. f
  BY <1>1, KeptParts
<1>6. PICK c, d : c = Cardinality(Thenables(s)) /\ d = Cardinality(Thenables(w))
  OBVIOUS
<1>7. Shape(w)
  BY <1>4 DEF Sound
<1>8. c \in Nat /\ d \in Nat
  BY <1>2, <1>6, <1>7, ThenablesCounted
<1>9. d + (IF job.kind = "thenable" THEN 1 ELSE 0) = c
  BY <1>2, <1>6, ThenableTaken
<1>10. n <= MaxPromises /\ f <= MaxFrames /\ r + c <= MaxReactions
  BY <1>1, <1>6 DEF Fits
<1>11. r + d <= MaxReactions
  BY <1>5, <1>8, <1>9, <1>10, JsPromiseAssumption
<1>12. ASSUME Kept(t, Resumption(job)), Thenables(t) = Thenables(w), Own(t) = own,
              Len(t.promises) = n, Len(t.frames) = f, t.reactions = r
       PROVE  Kept(t, Resumption(job)) /\ Runs(t, job) /\ Fits(t)
  <2>1. Fits(t)
    BY <1>6, <1>10, <1>11, <1>12 DEF Fits
  <2>2. Runs(t, job)
    BY <1>4, <1>12 DEF Runs
  <2>3. QED
    BY <1>12, <2>1, <2>2
<1>13. CASE job.handler.kind = "resume"
  <2>1. /\ job.handler.of \in 1 .. f /\ job.handler = Resumes(job.handler.of) /\ job.kind = "reaction"
    BY <1>4, <1>5, <1>13, JobKinds
  <2>2. PICK g : g = job.handler.of
    OBVIOUS
  <2>3. g \in Nat /\ g \in DOMAIN w.frames /\ job.handler = Resumes(g)
    BY <1>4, <1>5, <2>1, <2>2
  <2>4. t = Marked(w, g, "running")
    BY <1>13, <2>1, <2>2 DEF Entered, Marked
  <2>5. "running" \in {"running", "suspended", "done"}
    OBVIOUS
  <2>6. /\ Sound(t, own) /\ Thenables(t) = Thenables(w)
        /\ t.promises = w.promises /\ t.reactions = w.reactions
        /\ Len(t.frames) = Len(w.frames) /\ DOMAIN t.frames = DOMAIN w.frames
        /\ t.frames[g].status = "running" /\ t.frames[g].result = w.frames[g].result
        /\ \A i \in DOMAIN w.frames : i # g => t.frames[i] = w.frames[i]
        /\ \A i \in Nat : Woken(t, i) <=> Woken(w, i)
    BY <1>4, <2>3, <2>4, <2>5, MarkedOnce
  <2>7. Woken(s, g) /\ ~Woken(w, g)
    BY <1>4, <2>3
  <2>8. s.frames[g].status = "suspended"
    BY <1>2, <1>4, <2>3, <2>7 DEF FramesKept
  <2>9. Undone(t) = Undone(s)
    BY <1>4, <2>6, <2>8 DEF Undone
  <2>10. \A i \in DOMAIN s.frames : t.frames[i].result = s.frames[i].result
    BY <1>4, <2>6
  <2>11. Own(t) = own
    BY <1>1, <2>9, <2>10 DEF Own, Undone
  <2>12. FramesKept(t, {g})
    <3>1. \A i \in DOMAIN s.frames : i \in Nat
      BY KeptParts
    <3>2. ASSUME NEW i \in DOMAIN t.frames
          PROVE  /\ (t.frames[i].status = "suspended") <=> Woken(t, i)
                 /\ (t.frames[i].status = "running") <=> i \in {g}
      <4>1. CASE i = g
        BY <2>3, <2>6, <2>7, <4>1
      <4>2. CASE i # g
        <5>1. Woken(t, i) <=> Woken(s, i)
          <6>1. job.handler # Resumes(i)
            BY <2>3, <4>2, HandlersDiffer
          <6>2. i \in Nat
            BY <1>4, <2>6, <3>1, <3>2
          <6>3. QED
            BY <1>4, <2>6, <6>1, <6>2
        <5>2. t.frames[i] = s.frames[i] /\ i \in DOMAIN s.frames
          BY <1>4, <2>6, <3>2, <4>2
        <5>3. QED
          BY <1>2, <4>2, <5>1, <5>2 DEF FramesKept
      <4>3. QED
        BY <4>1, <4>2
    <3>3. \A i, k \in Undone(t) : t.frames[i].result = t.frames[k].result => i = k
      BY <1>2, <2>9, <2>10 DEF FramesKept, Undone
    <3>4. QED
      BY <3>2, <3>3 DEF FramesKept
  <2>13. Resumption(job) = {g}
    BY <1>13, <2>2 DEF Resumption
  <2>14. Kept(t, Resumption(job))
    BY <2>6, <2>11, <2>12, <2>13 DEF Kept
  <2>15. QED
    BY <1>1, <1>4, <1>12, <2>6, <2>11, <2>14
<1>14. CASE job.handler.kind # "resume"
  <2>1. \A g \in Nat : Woken(w, g) <=> Woken(s, g)
    BY <1>4, <1>14, HandlersDiffer
  <2>2. Kept(w, {}) /\ Own(w) = own
    BY <1>1, <1>4, <2>1, KeptAlike
  <2>3. Resumption(job) = {}
    BY <1>14 DEF Resumption
  <2>4. CASE job.kind = "thenable"
    <3>1. job.result \in 1 .. n
      BY <1>4, <1>5, <2>4, JobKinds
    <3>2. t = Handed(w, job.result)
      BY <1>14, <2>4 DEF Entered, Handed
    <3>3. DOMAIN w.promises = 1 .. n
      BY <1>4, <2>2, KeptParts
    <3>4. PICK p : p = job.result
      OBVIOUS
    <3>5. p \in DOMAIN w.promises /\ p \notin Own(w) /\ t = Handed(w, p)
      BY <1>4, <2>2, <3>1, <3>2, <3>3, <3>4
    <3>6. /\ Kept(t, {}) /\ Own(t) = Own(w) /\ Thenables(t) = Thenables(w)
          /\ Len(t.promises) = Len(w.promises) /\ t.frames = w.frames /\ t.reactions = w.reactions
      BY <2>2, <3>5, HandedKept
    <3>7. QED
      BY <1>1, <1>4, <1>12, <2>2, <2>3, <3>6
  <2>5. CASE job.kind # "thenable"
    <3>1. t = w
      BY <1>14, <2>5 DEF Entered
    <3>2. QED
      BY <1>1, <1>4, <1>12, <2>2, <2>3, <3>1
  <2>6. QED
    BY <2>4, <2>5
<1>15. QED
  BY <1>13, <1>14

(* What the return or the throw of a job's script means.                   *)
LEMMA LeftKept ==
  ASSUME NEW s, NEW job, Kept(s, Resumption(job)), Runs(s, job),
         NEW o, o.kind \in {"await", "return", "throw"}, o.kind = "await" => job.handler.kind = "resume",
         o.value \in {Plain, Thenable} \cup DOMAIN s.promises, o.kind = "throw" => o.value = Plain,
         NEW t, t = Left(s, job, o)
  PROVE  Kept(t, {})
<1>1. PICK n, f, r : n = Len(s.promises) /\ f = Len(s.frames) /\ r = s.reactions
  OBVIOUS
<1>2. /\ n \in Nat /\ f \in Nat /\ r \in Nat /\ DOMAIN s.promises = 1 .. n /\ DOMAIN s.frames = 1 .. f
  BY <1>1, KeptParts
<1>3. job \in Jobs(n, f, r) /\ CallsScript(job) /\ job.result \notin Own(s)
  BY <1>1 DEF Runs
<1>4. CASE job.kind = "thenable"
  <2>1. job.handler.kind = "none"
    BY <1>2, <1>3, <1>4, JobKinds
  <2>2. Resumption(job) = {} /\ t = s
    BY <1>4, <2>1 DEF Resumption, Left
  <2>3. QED
    BY <2>2
<1>5. CASE job.kind = "reaction" /\ job.handler.kind = "resume"
  <2>1. job.handler.of \in 1 .. f
    BY <1>2, <1>3, <1>5, JobKinds
  <2>2. PICK g : g = job.handler.of
    OBVIOUS
  <2>3. Resumption(job) = {g} /\ t = Driven(s, g, o) /\ g \in DOMAIN s.frames /\ g \in {g}
    BY <1>2, <1>5, <2>1, <2>2 DEF Resumption, Left
  <2>4. Kept(s, {g})
    BY <2>3
  <2>5. Kept(t, {g} \ {g})
    BY <2>3, <2>4, DrivenKept
  <2>6. {g} \ {g} = {}
    OBVIOUS
  <2>7. QED
    BY <2>5, <2>6
<1>6. CASE job.kind = "reaction" /\ job.handler.kind # "resume"
  <2>1. job.result \in DOMAIN s.promises
    BY <1>2, <1>3, <1>6, JobKinds
  <2>2. Kept(s, {})
    BY <1>6 DEF Resumption
  <2>3. PICK p, v : p = job.result /\ v = o.value
    OBVIOUS
  <2>4. p \in DOMAIN s.promises /\ p \notin Own(s) /\ v \in {Plain, Thenable} \cup DOMAIN s.promises
    BY <1>3, <2>1, <2>3
  <2>5. CASE o.kind = "throw"
    <3>1. t = Rejected(s, p, Plain)
      BY <1>6, <2>3, <2>5 DEF Left
    <3>2. QED
      BY <2>2, <2>4, <3>1, RejectedKept
  <2>6. CASE o.kind # "throw"
    <3>1. t = Resolved(s, p, v)
      BY <1>6, <2>3, <2>6 DEF Left
    <3>2. QED
      BY <2>2, <2>4, <3>1, ResolvedKept
  <2>7. QED
    BY <2>5, <2>6
<1>7. QED
  BY <1>2, <1>3, <1>4, <1>5, <1>6, JobKinds

-----------------------------------------------------------------------------
(* Steps                                                                   *)

(* A heap that grows keeps a job that runs what it was.                    *)
LEMMA RunsGrows ==
  ASSUME NEW s, NEW run, Kept(s, run), NEW job, Runs(s, job), NEW t, NEW more, Kept(t, more), Grows(s, t)
  PROVE  Runs(t, job)
<1>1. PICK n, f, r, m, g, q : /\ n = Len(s.promises) /\ f = Len(s.frames) /\ r = s.reactions
                              /\ m = Len(t.promises) /\ g = Len(t.frames) /\ q = t.reactions
  OBVIOUS
<1>2. n \in Nat /\ f \in Nat /\ r \in Nat
  BY <1>1, KeptParts
<1>3. m \in Nat /\ g \in Nat /\ q \in Nat
  BY <1>1, KeptParts
<1>4. n <= m /\ f <= g /\ r <= q /\ \A p \in Own(t) : p \in Own(s) \/ p > n
  BY <1>1 DEF Grows
<1>5. job \in Jobs(n, f, r) /\ CallsScript(job) /\ job.result \notin Own(s)
  BY <1>1 DEF Runs
<1>6. Jobs(n, f, r) \subseteq Jobs(m, g, q)
  BY <1>2, <1>3, <1>4, MoreJobs
<1>7. job.result \in 0 .. n
  BY <1>2, <1>5, JobParts
<1>8. job.result \notin Own(t)
  BY <1>2, <1>4, <1>5, <1>7
<1>9. QED
  BY <1>1, <1>5, <1>6, <1>8 DEF Runs

(* Two steps that each let a heap grow.                                    *)
LEMMA GrowsTwice ==
  ASSUME NEW s, NEW run, Kept(s, run), NEW w, Kept(w, run), NEW t, Kept(t, run), Grows(s, w), Grows(w, t)
  PROVE  Grows(s, t)
<1>1. /\ Len(s.promises) \in Nat /\ Len(s.frames) \in Nat /\ s.reactions \in Nat
      /\ Len(w.promises) \in Nat /\ Len(w.frames) \in Nat /\ w.reactions \in Nat
  BY KeptParts
<1>2. /\ Len(t.promises) \in Nat /\ Len(t.frames) \in Nat /\ t.reactions \in Nat
      /\ \A p \in Own(t) : p \in Nat
  BY KeptParts
<1>3. QED
  <2>1. /\ Len(s.promises) <= Len(t.promises) /\ Len(s.frames) <= Len(t.frames)
        /\ s.reactions <= t.reactions
    BY <1>1, <1>2, SMTT(30) DEF Grows
  <2>2. ASSUME NEW p \in Own(t) PROVE p \in Own(s) \/ p > Len(s.promises)
    BY <1>1, <1>2 DEF Grows
  <2>3. QED
    BY <2>1, <2>2 DEF Grows

(* The state after a step whose heap is t.                                 *)
LEMMA BecomesHeap ==
  ASSUME NEW t, Shape(t), Becomes(t)
  PROVE  Heap' = t
<1>1. t = [promises |-> t.promises, jobs |-> t.jobs, frames |-> t.frames, open |-> t.open,
           reactions |-> t.reactions]
  BY ShapeParts
<1>2. QED
  BY <1>1 DEF Becomes, Heap

LEMMA HeapStays ==
  ASSUME UNCHANGED heap
  PROVE  Heap' = Heap
BY DEF heap, Heap

(* The invariant after a step, part by part.                               *)
LEMMA InvBuilt ==
  ASSUME NEW t, Heap' = t, NEW run, AtWork' = run, Kept(t, run), Fits(t),
         mode' \in {"host", "uncaught", "script", "drain", "job"}, back' \in {"host", "script"},
         NEW job, current' = job,
         IF mode' = "job" THEN Runs(t, job) ELSE job = NoJob
  PROVE  Inv'
<1>1. UnderWay'
  BY DEF UnderWay
<1>2. Kept(Heap, AtWork)'
  OBVIOUS
<1>3. Fits(Heap)'
  OBVIOUS
<1>4. QED
  BY <1>1, <1>2, <1>3 DEF Inv

(* What the invariant says of the state, with the heap, the frames at work and *)
(* the job that runs by name.                                              *)
LEMMA InvParts ==
  ASSUME Inv, NEW s, s = Heap, NEW run, run = AtWork, NEW job, job = current
  PROVE  /\ Kept(s, run) /\ Fits(s) /\ run \subseteq DOMAIN s.frames
         /\ IF mode = "job" THEN Runs(s, job) /\ run = Resumption(job) ELSE job = NoJob /\ run = {}
         /\ mode \in {"host", "uncaught", "script", "drain", "job"} /\ back \in {"host", "script"}
         /\ s.promises = promises /\ s.jobs = jobs /\ s.frames = frames /\ s.open = open
         /\ s.reactions = reactions
<1>1. Kept(s, run) /\ Fits(s)
  BY DEF Inv
<1>2. IF mode = "job" THEN Runs(s, job) /\ run = Resumption(job) ELSE job = NoJob /\ run = {}
  BY DEF Inv, UnderWay, AtWork
<1>3. \A f \in run : f \in DOMAIN s.frames
  <2>1. CASE mode = "job"
    <3>1. PICK n, f, r : n = Len(s.promises) /\ f = Len(s.frames) /\ r = s.reactions
      OBVIOUS
    <3>2. n \in Nat /\ f \in Nat /\ r \in Nat /\ DOMAIN s.frames = 1 .. f
      BY <1>1, <3>1, KeptParts
    <3>3. job \in Jobs(n, f, r)
      BY <1>2, <2>1, <3>1 DEF Runs
    <3>4. job.handler \in Functions(n, f)
      BY <3>2, <3>3, JobParts
    <3>5. PICK h : h = job.handler
      OBVIOUS
    <3>6. h.kind = "resume" => h.of \in 1 .. f
      BY <3>2, <3>4, <3>5, HandlerKinds
    <3>7. QED
      BY <1>2, <2>1, <3>2, <3>5, <3>6 DEF Resumption
  <2>2. CASE mode # "job"
    BY <1>2, <2>2
  <2>3. QED
    BY <2>1, <2>2
<1>4. /\ s.promises = promises /\ s.jobs = jobs /\ s.frames = frames /\ s.open = open
      /\ s.reactions = reactions
  BY DEF Heap
<1>5. QED
  BY <1>1, <1>2, <1>3, <1>4 DEF Inv

(* A step of script.                                                       *)
LEMMA DoesKept ==
  ASSUME Inv, NEW s, s = Heap, NEW run, run = AtWork, NEW t, Kept(t, run), Grows(s, t), Does(t)
  PROVE  Inv'
<1>1. PICK job : job = current
  OBVIOUS
<1>2. /\ Kept(s, run)
      /\ IF mode = "job" THEN Runs(s, job) ELSE job = NoJob
      /\ back \in {"host", "script"}
  BY <1>1, InvParts
<1>3. /\ InScript /\ Fits(t) /\ Becomes(t) /\ mode' = mode /\ back' = back /\ current' = job
  BY <1>1 DEF Does
<1>4. Shape(t)
  BY KeptParts
<1>5. Heap' = t
  BY <1>3, <1>4, BecomesHeap
<1>6. AtWork' = run
  BY <1>1, <1>3 DEF AtWork
<1>7. mode = "job" => Runs(t, job)
  BY <1>2, RunsGrows
<1>8. mode' \in {"host", "uncaught", "script", "drain", "job"} /\ back' \in {"host", "script"}
  BY <1>2, <1>3 DEF InScript
<1>9. IF mode' = "job" THEN Runs(t, job) ELSE job = NoJob
  BY <1>2, <1>3, <1>7
<1>10. QED
  BY <1>3, <1>5, <1>6, <1>8, <1>9, InvBuilt

(* What a body may come back with.                                         *)
LEMMA OutcomeParts ==
  ASSUME NEW o \in Outcomes
  PROVE  /\ o.kind \in {"await", "return", "throw"} /\ (o.kind = "throw" => o.value = Plain)
         /\ o.value \in {Plain, Thenable} \cup DOMAIN promises
BY DEF Outcomes, Values

(* A step outside the jobs that leaves the heap alone.                     *)
LEMMA HostStepKept ==
  ASSUME Inv, mode # "job", mode' \in {"host", "uncaught", "script", "drain"},
         back' \in {"host", "script"}, UNCHANGED heap, current' = current
  PROVE  Inv'
<1>1. PICK s, run, job : s = Heap /\ run = AtWork /\ job = current
  OBVIOUS
<1>2. Kept(s, run) /\ Fits(s) /\ job = NoJob /\ run = {}
  BY <1>1, InvParts
<1>3. Heap' = s
  BY <1>1, HeapStays
<1>4. AtWork' = run
  BY <1>2 DEF AtWork
<1>5. QED
  BY <1>1, <1>2, <1>3, <1>4, InvBuilt

LEMMA ScriptStepKept ==
  ASSUME Inv, ScriptStep
  PROVE  Inv'
<1>1. PICK s, run, job : s = Heap /\ run = AtWork /\ job = current
  OBVIOUS
<1>2. /\ Kept(s, run) /\ run \subseteq DOMAIN s.frames
      /\ s.promises = promises /\ s.open = open
  BY <1>1, InvParts
<1>3. /\ Shape(s) /\ DOMAIN s.promises = 1 .. Len(s.promises) /\ Len(s.promises) \in Nat
      /\ \A p \in Own(s) : p \notin s.open
  BY <1>2, KeptParts
<1>4. \A p \in open : p \in DOMAIN s.promises /\ p \notin Own(s)
  BY <1>2, <1>3, ShapeParts
<1>5. CASE Construct
  <2>1. PICK p, w, t : p = Len(s.promises) + 1 /\ w = WithPromise(s) /\ t = Handed(w, p)
    OBVIOUS
  <2>2. Kept(w, run) /\ Grows(s, w) /\ p \in DOMAIN w.promises /\ p \notin Own(w)
    BY <1>2, <2>1, WithPromiseKept
  <2>3. Kept(t, run) /\ Grows(w, t)
    BY <2>1, <2>2, HandedKept
  <2>4. Grows(s, t)
    BY <1>2, <2>2, <2>3, GrowsTwice
  <2>5. Does(t)
    BY <1>1, <1>2, <1>5, <2>1 DEF Construct, Handed
  <2>6. QED
    BY <1>1, <2>3, <2>4, <2>5, DoesKept
<1>6. CASE \E p \in open, value \in Values : Resolve(p, value)
  <2>1. PICK p \in open : \E value \in Values : Resolve(p, value)
    BY <1>6
  <2>2. PICK value \in Values : Resolve(p, value)
    BY <2>1
  <2>3. PICK t : t = Resolved(s, p, value)
    OBVIOUS
  <2>4. value \in {Plain, Thenable} \cup DOMAIN s.promises
    BY <1>2 DEF Values
  <2>5. Kept(t, run) /\ Grows(s, t)
    BY <1>2, <1>4, <2>3, <2>4, ResolvedKept
  <2>6. Does(t)
    BY <1>1, <2>2, <2>3 DEF Resolve
  <2>7. QED
    BY <1>1, <2>5, <2>6, DoesKept
<1>7. CASE \E p \in open : Reject(p, Plain)
  <2>1. PICK p \in open : Reject(p, Plain)
    BY <1>7
  <2>2. PICK t : t = Rejected(s, p, Plain)
    OBVIOUS
  <2>3. Kept(t, run) /\ Grows(s, t)
    BY <1>2, <1>4, <2>2, RejectedKept
  <2>4. Does(t)
    BY <1>1, <2>1, <2>2 DEF Reject
  <2>5. QED
    BY <1>1, <2>3, <2>4, DoesKept
<1>8. CASE \E p \in DOMAIN promises : Then(p, Script, Absent) \/ Then(p, Absent, Script)
  <2>1. PICK p \in DOMAIN promises : Then(p, Script, Absent) \/ Then(p, Absent, Script)
    BY <1>8
  <2>2. PICK h, i : Then(p, h, i) /\ h \in {Script, Absent} /\ i \in {Script, Absent}
    BY <2>1
  <2>3. PICK q, w, t : q = Len(s.promises) + 1 /\ w = WithPromise(s) /\ t = Chained(w, p, h, i, q)
    OBVIOUS
  <2>4. /\ Kept(w, run) /\ Grows(s, w) /\ q \in DOMAIN w.promises /\ q \notin Own(w) /\ q # 0
        /\ DOMAIN s.promises \subseteq DOMAIN w.promises
    BY <1>2, <2>3, WithPromiseKept
  <2>5. /\ p \in DOMAIN w.promises /\ q \in {0} \cup DOMAIN w.promises
        /\ h \in {Script, Absent} \cup {Settles(u) : u \in DOMAIN w.promises \ Own(w)}
        /\ i \in {Script, Absent} \cup {Settles(u) : u \in DOMAIN w.promises \ Own(w)}
    BY <1>2, <2>2, <2>4
  <2>6. Kept(t, run) /\ Grows(w, t)
    BY <2>3, <2>4, <2>5, ChainedKept
  <2>7. Grows(s, t)
    BY <1>2, <2>4, <2>6, GrowsTwice
  <2>8. Does(t)
    BY <1>1, <1>2, <2>2, <2>3 DEF Then
  <2>9. QED
    BY <1>1, <2>6, <2>7, <2>8, DoesKept
<1>9. CASE \E o \in Outcomes : CallAsync(o)
  <2>1. PICK o \in Outcomes : CallAsync(o)
    BY <1>9
  <2>2. PICK t : t = Called(s, o)
    OBVIOUS
  <2>3. /\ o.kind \in {"await", "return", "throw"} /\ (o.kind = "throw" => o.value = Plain)
        /\ o.value \in {Plain, Thenable} \cup DOMAIN s.promises
    BY <1>2, <2>1, OutcomeParts
  <2>4. Kept(t, run) /\ Grows(s, t)
    BY <1>2, <2>2, <2>3, CalledKept
  <2>5. Does(t)
    BY <1>1, <2>1, <2>2 DEF CallAsync
  <2>6. QED
    BY <1>1, <2>4, <2>5, DoesKept
<1>10. CASE AwaitSettled
  <2>1. mode = "script" /\ mode' = "drain" /\ back' = "script" /\ UNCHANGED heap /\ current' = current
    BY <1>10 DEF AwaitSettled
  <2>2. QED
    BY <2>1, HostStepKept
<1>11. QED
  BY <1>5, <1>6, <1>7, <1>8, <1>9, <1>10 DEF ScriptStep

(* A microtask runs, or the script it calls begins.                        *)
LEMMA RunMicrotaskKept ==
  ASSUME Inv, RunMicrotask
  PROVE  Inv'
<1>1. PICK s, run, old : s = Heap /\ run = AtWork /\ old = current
  OBVIOUS
<1>2. mode = "drain" /\ jobs # <<>> /\ back' = back
  BY DEF RunMicrotask
<1>3. /\ Kept(s, {}) /\ Fits(s) /\ old = NoJob /\ back \in {"host", "script"} /\ s.jobs = jobs
  BY <1>1, <1>2, InvParts
<1>4. PICK job, w : job = Head(s.jobs) /\ w = Popped(s)
  OBVIOUS
<1>5. w = [Heap EXCEPT !.jobs = Tail(jobs)] /\ job = Head(jobs)
  BY <1>1, <1>3, <1>4 DEF Popped
<1>6. CASE CallsScript(job)
  <2>1. PICK t : t = Entered(w, job)
    OBVIOUS
  <2>2. Becomes(t) /\ mode' = "job" /\ current' = job
    BY <1>5, <1>6, <2>1 DEF RunMicrotask
  <2>3. Kept(t, Resumption(job)) /\ Runs(t, job) /\ Fits(t)
    BY <1>2, <1>3, <1>4, <1>6, <2>1, EnteredKept
  <2>4. Shape(t)
    BY <2>3, KeptParts
  <2>5. Heap' = t
    BY <2>2, <2>4, BecomesHeap
  <2>6. PICK more : more = Resumption(job)
    OBVIOUS
  <2>7. AtWork' = more
    BY <2>2, <2>6 DEF AtWork
  <2>8. Kept(t, more)
    BY <2>3, <2>6
  <2>9. QED
    BY <1>2, <1>3, <2>2, <2>3, <2>5, <2>7, <2>8, InvBuilt
<1>7. CASE ~CallsScript(job)
  <2>1. PICK t : t = DoneNatively(w, job)
    OBVIOUS
  <2>2. Becomes(t) /\ mode' = mode /\ current' = old
    BY <1>1, <1>5, <1>7, <2>1 DEF RunMicrotask
  <2>3. Kept(t, {}) /\ Fits(t)
    BY <1>2, <1>3, <1>4, <1>7, <2>1, DoneKept
  <2>4. Shape(t)
    BY <2>3, KeptParts
  <2>5. Heap' = t
    BY <2>2, <2>4, BecomesHeap
  <2>6. PICK none : none = {}
    OBVIOUS
  <2>7. AtWork' = none
    BY <1>2, <2>2, <2>6 DEF AtWork
  <2>8. Kept(t, none)
    BY <2>3, <2>6
  <2>9. QED
    BY <1>2, <1>3, <2>2, <2>3, <2>5, <2>7, <2>8, InvBuilt
<1>8. QED
  BY <1>6, <1>7

(* The script of a job comes to its end.                                   *)
LEMMA JobReturnsKept ==
  ASSUME Inv, JobReturns
  PROVE  Inv'
<1>1. PICK s, run, job : s = Heap /\ run = AtWork /\ job = current
  OBVIOUS
<1>2. mode = "job" /\ mode' = "drain" /\ current' = NoJob /\ back' = back
  BY DEF JobReturns, Unrooted
<1>3. /\ Kept(s, Resumption(job)) /\ Runs(s, job) /\ back \in {"host", "script"}
      /\ s.promises = promises
  BY <1>1, <1>2, InvParts
<1>4. PICK o \in Outcomes : /\ o.kind = "await" => job.handler.kind = "resume"
                            /\ Fits(Left(s, job, o)) /\ Becomes(Left(s, job, o))
  BY <1>1 DEF JobReturns
<1>5. PICK t : t = Left(s, job, o)
  OBVIOUS
<1>6. /\ o.kind \in {"await", "return", "throw"} /\ (o.kind = "throw" => o.value = Plain)
      /\ o.value \in {Plain, Thenable} \cup DOMAIN s.promises
  BY <1>3, OutcomeParts
<1>7. Kept(t, {})
  BY <1>3, <1>4, <1>5, <1>6, LeftKept
<1>8. Shape(t)
  BY <1>7, KeptParts
<1>9. Heap' = t
  BY <1>4, <1>5, <1>8, BecomesHeap
<1>10. PICK none, old : none = {} /\ old = NoJob
  OBVIOUS
<1>11. AtWork' = none /\ current' = old
  BY <1>2, <1>10 DEF AtWork
<1>12. Kept(t, none) /\ Fits(t)
  BY <1>4, <1>5, <1>7, <1>10
<1>13. QED
  BY <1>2, <1>3, <1>9, <1>10, <1>11, <1>12, InvBuilt

-----------------------------------------------------------------------------
(* The invariant                                                           *)

LEMMA Initially == Init => Inv
<1>1. SUFFICES ASSUME Init PROVE Inv
  OBVIOUS
<1>2. PICK s : s = Heap
  OBVIOUS
<1>3. /\ s = [promises |-> <<>>, jobs |-> <<>>, frames |-> <<>>, open |-> {}, reactions |-> 0]
  BY <1>1, <1>2 DEF Init, Heap
<1>4. /\ <<>> \in Seq(Made(0, 0, 0)) /\ <<>> \in Seq(Jobs(0, 0, 0)) /\ <<>> \in Seq(Calls(0))
      /\ DOMAIN <<>> = {} /\ Len(<<>>) = 0
  OBVIOUS
<1>5. Shape(s)
  <2>1. s \in Heaps(0, 0, 0)
    BY <1>3, <1>4 DEF Heaps
  <2>2. QED
    BY <1>3, <1>4, <2>1 DEF Shape
<1>6. Thenables(s) = {} /\ Undone(s) = {} /\ Own(s) = {}
  BY <1>3, <1>4 DEF Thenables, Undone, Own
<1>7. \A f, p, k \in Nat : ~Resumed(s, f, p, k)
  BY <1>3, <1>4 DEF Resumed
<1>8. InOrder(s)
  BY <1>3, <1>4 DEF InOrder
<1>9. Sound(s, Own(s))
  BY <1>5, <1>6, <1>7, <1>8 DEF Sound, WokenOnce
<1>10. FramesKept(s, {})
  BY <1>3, <1>4, <1>6 DEF FramesKept
<1>11. Kept(s, {})
  BY <1>9, <1>10 DEF Kept
<1>12. Fits(s)
  <2>1. Cardinality(Thenables(s)) = 0
    BY <1>6, FS_EmptySet
  <2>2. QED
    BY <1>3, <1>4, <2>1, JsPromiseAssumption DEF Fits
<1>13. mode = "host" /\ back = "host" /\ current = NoJob
  BY <1>1 DEF Init
<1>14. AtWork = {} /\ UnderWay
  BY <1>13 DEF AtWork, UnderWay
<1>15. QED
  BY <1>2, <1>11, <1>12, <1>13, <1>14 DEF Inv

LEMMA Inductive == Inv /\ [Next]_vars => Inv'
<1>1. SUFFICES ASSUME Inv, [Next]_vars PROVE Inv'
  OBVIOUS
<1>2. back \in {"host", "script"}
  BY <1>1 DEF Inv
<1>3. CASE TurnBegins \/ TurnThrows \/ Pump \/ TurnEnds
  <2>1. /\ mode # "job" /\ mode' \in {"host", "uncaught", "script", "drain"}
        /\ back' \in {"host", "script"} /\ UNCHANGED heap /\ current' = current
    BY <1>2, <1>3 DEF TurnBegins, TurnThrows, Pump, TurnEnds
  <2>2. QED
    BY <1>1, <2>1, HostStepKept
<1>4. CASE CheckpointEnds
  <2>1. /\ mode # "job" /\ mode' \in {"host", "uncaught", "script", "drain"}
        /\ back' \in {"host", "script"} /\ UNCHANGED heap /\ current' = current
    BY <1>2, <1>4 DEF CheckpointEnds
  <2>2. QED
    BY <1>1, <2>1, HostStepKept
<1>5. CASE ScriptStep
  BY <1>1, <1>5, ScriptStepKept
<1>6. CASE RunMicrotask
  BY <1>1, <1>6, RunMicrotaskKept
<1>7. CASE JobReturns
  BY <1>1, <1>7, JobReturnsKept
<1>8. CASE UNCHANGED vars
  <2>1. UNCHANGED heap /\ mode' = mode /\ back' = back /\ current' = current
    BY <1>8 DEF vars
  <2>2. PICK s, run, job : s = Heap /\ run = AtWork /\ job = current
    OBVIOUS
  <2>3. /\ Kept(s, run) /\ Fits(s) /\ mode \in {"host", "uncaught", "script", "drain", "job"}
        /\ IF mode = "job" THEN Runs(s, job) ELSE job = NoJob
    BY <1>1, <2>2, InvParts
  <2>4. Heap' = s
    BY <2>1, <2>2, HeapStays
  <2>5. AtWork' = run
    BY <2>1, <2>2 DEF AtWork
  <2>6. QED
    BY <1>2, <2>1, <2>2, <2>3, <2>4, <2>5, InvBuilt
<1>9. QED
  BY <1>1, <1>3, <1>4, <1>5, <1>6, <1>7, <1>8 DEF Next, Engine

(* The invariant holds of every behaviour.                                 *)
THEOREM Invariant == Spec => []Inv
<1>1. Init => Inv
  BY Initially
<1>2. Inv /\ [Next]_vars => Inv'
  BY Inductive
<1>3. QED
  BY <1>1, <1>2, PTL DEF Spec

-----------------------------------------------------------------------------
(* The properties                                                          *)

LEMMA InvType == Inv => TypeOK
<1>1. SUFFICES ASSUME Inv PROVE TypeOK
  OBVIOUS
<1>2. PICK s, run, job : s = Heap /\ run = AtWork /\ job = current
  OBVIOUS
<1>3. /\ Kept(s, run) /\ Fits(s)
      /\ IF mode = "job" THEN Runs(s, job) ELSE job = NoJob
      /\ mode \in {"host", "uncaught", "script", "drain", "job"} /\ back \in {"host", "script"}
  BY <1>1, <1>2, InvParts
<1>4. /\ s.promises = promises /\ s.jobs = jobs /\ s.frames = frames /\ s.open = open
      /\ s.reactions = reactions
  BY <1>2 DEF Heap
<1>5. PICK n, f, r : n = Len(s.promises) /\ f = Len(s.frames) /\ r = s.reactions
  OBVIOUS
<1>6. Shape(s)
  BY <1>3, KeptParts
<1>7. /\ n \in Nat /\ f \in Nat /\ r \in Nat
      /\ s.promises \in Seq(Made(n, f, r)) /\ DOMAIN s.promises = 1 .. n
      /\ s.jobs \in Seq(Jobs(n, f, r)) /\ s.frames \in Seq(Calls(n)) /\ s.open \subseteq 1 .. n
  BY <1>5, <1>6, ShapeParts
<1>8. n <= MaxPromises /\ f <= MaxFrames /\ r <= MaxReactions
  <2>1. PICK c : c = Cardinality(Thenables(s))
    OBVIOUS
  <2>2. c \in Nat
    BY <1>6, <2>1, ThenablesCounted
  <2>3. n <= MaxPromises /\ f <= MaxFrames /\ r + c <= MaxReactions
    BY <1>3, <1>5, <2>1 DEF Fits
  <2>4. QED
    BY <1>7, <2>2, <2>3, JsPromiseAssumption
<1>9. /\ 0 .. n \subseteq 0 .. MaxPromises /\ 1 .. n \subseteq 1 .. MaxPromises
      /\ 1 .. n \subseteq 0 .. MaxPromises
      /\ 1 .. r \subseteq 1 .. MaxReactions /\ 1 .. r \subseteq 0 .. MaxReactions
      /\ r \in 0 .. MaxReactions /\ 0 \in 0 .. MaxReactions /\ 0 \in 0 .. MaxPromises
  BY <1>7, <1>8, JsPromiseAssumption
<1>10. Functions(n, f) \subseteq Handlers
  BY <1>7, <1>8, JsPromiseAssumption DEF Functions, Handlers, Handler, Script, Absent
<1>11. promises \in Seq(Promise)
  <2>1. Waiting(n, f, r) \subseteq [onFulfilled : Handlers, onRejected : Handlers,
                                    result : 0 .. MaxPromises, id : 1 .. MaxReactions]
    BY <1>9, <1>10 DEF Waiting
  <2>2. PICK W : W = [onFulfilled : Handlers, onRejected : Handlers,
                      result : 0 .. MaxPromises, id : 1 .. MaxReactions]
    OBVIOUS
  <2>3. Seq(Waiting(n, f, r)) \subseteq Seq(W)
    BY <2>1, <2>2, SeqWider
  <2>4. Made(n, f, r) \subseteq Promise
    BY <2>2, <2>3 DEF Made, Promise
  <2>5. QED
    BY <1>4, <1>7, <2>4, SeqWider
<1>12. Jobs(n, f, r) \subseteq Job
  <2>1. ReactionJobs(n, f, r) \subseteq Job
    BY <1>9, <1>10 DEF ReactionJobs, Job
  <2>2. Absent \in Handlers
    BY <1>10 DEF Functions
  <2>3. ThenableJobs(n) \subseteq Job
    BY <1>9, <2>2 DEF ThenableJobs, Job
  <2>4. QED
    BY <2>1, <2>3 DEF Jobs
<1>13. jobs \in Seq(Job)
  BY <1>4, <1>7, <1>12, SeqWider
<1>14. NoJob \in Job /\ NoJob.kind = "none"
  BY <1>9, JsPromiseAssumption DEF NoJob, Job, Handlers, Handler
<1>15. current \in Job /\ (mode = "job" <=> current # NoJob)
  <2>1. CASE mode = "job"
    <3>1. job \in Jobs(n, f, r)
      BY <1>3, <1>5, <2>1 DEF Runs
    <3>2. job.kind # "none"
      BY <1>7, <3>1, JobKinds
    <3>3. QED
      BY <1>2, <1>12, <1>14, <2>1, <3>1, <3>2
  <2>2. CASE mode # "job"
    BY <1>2, <1>3, <1>14, <2>2
  <2>3. QED
    BY <2>1, <2>2
<1>16. frames \in Seq([status : {"running", "suspended", "done"}, result : 1 .. MaxPromises])
  <2>1. PICK C : C = [status : {"running", "suspended", "done"}, result : 1 .. MaxPromises]
    OBVIOUS
  <2>2. Calls(n) \subseteq C
    BY <1>9, <2>1 DEF Calls
  <2>3. QED
    BY <1>4, <1>7, <2>1, <2>2, SeqWider
<1>17. Len(promises) <= MaxPromises /\ open \subseteq DOMAIN promises /\ reactions \in 0 .. MaxReactions
  BY <1>4, <1>5, <1>7, <1>8, <1>9
<1>18. QED
  BY <1>3, <1>11, <1>13, <1>15, <1>16, <1>17 DEF TypeOK

(* In every script the promises, the queue and the frames refer only to what *)
(* exists.                                                                 *)
THEOREM TypeCorrect == Spec => []TypeOK
BY Invariant, InvType, PTL

LEMMA InvOrder == Inv => ReactionsRunOnceInOrder
<1>1. SUFFICES ASSUME Inv PROVE ReactionsRunOnceInOrder
  OBVIOUS
<1>2. PICK s, run : s = Heap /\ run = AtWork
  OBVIOUS
<1>3. Kept(s, run) /\ s.promises = promises /\ s.jobs = jobs
  BY <1>1, <1>2, InvParts
<1>4. InOrder(s)
  BY <1>3 DEF Kept, Sound
<1>5. /\ \A p \in DOMAIN promises : promises[p].state # "pending" => promises[p].reactions = <<>>
      /\ \A j \in DOMAIN jobs : jobs[j].kind = "reaction" => promises[jobs[j].source].state # "pending"
      /\ \A j, k \in DOMAIN jobs :
           j < k /\ jobs[j].kind = "reaction" /\ jobs[k].kind = "reaction"
             /\ jobs[j].source = jobs[k].source => jobs[j].id < jobs[k].id
  BY <1>3, <1>4 DEF InOrder
<1>6. ASSUME NEW p \in DOMAIN promises, NEW i \in JobIds(p), i \in ListIds(p)
      PROVE  FALSE
  <2>1. PICK j \in DOMAIN jobs : jobs[j].kind = "reaction" /\ jobs[j].source = p
    BY <1>6 DEF JobIds
  <2>2. promises[p].reactions = <<>>
    BY <1>5, <2>1
  <2>3. DOMAIN promises[p].reactions = {}
    BY <2>2
  <2>4. QED
    BY <1>6, <2>3 DEF ListIds
<1>7. QED
  BY <1>5, <1>6 DEF ReactionsRunOnceInOrder

(* In every script a reaction is in one place, and those of a promise run in *)
(* the order in which they were registered.                                *)
THEOREM ReactionsInOrder == Spec => []ReactionsRunOnceInOrder
BY Invariant, InvOrder, PTL

(* What will resume a frame is what waits at some place of the heap.       *)
LEMMA WakersOf ==
  ASSUME NEW s, s = Heap, Shape(s), NEW f \in Nat
  PROVE  /\ \A i \in Wakers(f) : \E p, k \in Nat :
              /\ Resumed(s, f, p, k)
              /\ i = IF p = 0 THEN jobs[k].id ELSE promises[p].reactions[k].id
         /\ Woken(s, f) => Wakers(f) # {}
<1>1. s.promises = promises /\ s.jobs = jobs
  BY DEF Heap
<1>2. /\ \A p \in DOMAIN promises : p \in Nat /\ p # 0
      /\ \A p \in DOMAIN promises : \A k \in DOMAIN promises[p].reactions : k \in Nat
      /\ \A k \in DOMAIN jobs : k \in Nat
  <2>1. /\ DOMAIN promises = 1 .. Len(promises) /\ DOMAIN jobs = 1 .. Len(jobs)
        /\ Len(promises) \in Nat /\ Len(jobs) \in Nat
    BY <1>1, ShapeParts
  <2>2. \A p \in DOMAIN promises : \A k \in DOMAIN promises[p].reactions : k \in Nat
    BY <1>1, ShapeEntries
  <2>3. QED
    BY <2>1, <2>2
<1>3. \A i : i \in Wakers(f) <=>
        \/ \E p \in DOMAIN promises : \E k \in DOMAIN promises[p].reactions :
             promises[p].reactions[k].onFulfilled = Resumes(f) /\ i = promises[p].reactions[k].id
        \/ \E k \in DOMAIN jobs : jobs[k].handler = Resumes(f) /\ i = jobs[k].id
  BY DEF Wakers, ToSet, Resumes
<1>4. ASSUME NEW i \in Wakers(f)
      PROVE  \E p, k \in Nat :
               /\ Resumed(s, f, p, k)
               /\ i = IF p = 0 THEN jobs[k].id ELSE promises[p].reactions[k].id
  <2>1. CASE \E p \in DOMAIN promises : \E k \in DOMAIN promises[p].reactions :
               promises[p].reactions[k].onFulfilled = Resumes(f) /\ i = promises[p].reactions[k].id
    <3>1. PICK p \in DOMAIN promises : \E k \in DOMAIN promises[p].reactions :
                 promises[p].reactions[k].onFulfilled = Resumes(f) /\ i = promises[p].reactions[k].id
      BY <2>1
    <3>2. PICK k \in DOMAIN promises[p].reactions :
                 promises[p].reactions[k].onFulfilled = Resumes(f) /\ i = promises[p].reactions[k].id
      BY <3>1
    <3>3. Resumed(s, f, p, k) /\ p \in Nat /\ k \in Nat /\ p # 0
      BY <1>1, <1>2, <3>2 DEF Resumed
    <3>4. QED
      BY <3>2, <3>3
  <2>2. CASE \E k \in DOMAIN jobs : jobs[k].handler = Resumes(f) /\ i = jobs[k].id
    <3>1. PICK k \in DOMAIN jobs : jobs[k].handler = Resumes(f) /\ i = jobs[k].id
      BY <2>2
    <3>2. Resumed(s, f, 0, k) /\ k \in Nat
      BY <1>1, <1>2, <3>1 DEF Resumed
    <3>3. QED
      BY <3>1, <3>2
  <2>3. QED
    BY <1>3, <1>4, <2>1, <2>2
<1>5. ASSUME Woken(s, f)
      PROVE  Wakers(f) # {}
  <2>1. PICK p \in Nat : \E k \in Nat : Resumed(s, f, p, k)
    BY <1>5 DEF Woken
  <2>2. PICK k \in Nat : Resumed(s, f, p, k)
    BY <2>1
  <2>3. CASE p = 0
    <3>1. k \in DOMAIN jobs /\ jobs[k].handler = Resumes(f)
      BY <1>1, <2>2, <2>3 DEF Resumed
    <3>2. jobs[k].id \in Wakers(f)
      BY <1>3, <3>1
    <3>3. QED
      BY <3>2
  <2>4. CASE p # 0
    <3>1. /\ p \in DOMAIN promises /\ k \in DOMAIN promises[p].reactions
          /\ promises[p].reactions[k].onFulfilled = Resumes(f)
      BY <1>1, <2>2, <2>4 DEF Resumed
    <3>2. promises[p].reactions[k].id \in Wakers(f)
      BY <1>3, <3>1
    <3>3. QED
      BY <3>2
  <2>5. QED
    BY <2>3, <2>4
<1>6. QED
  BY <1>4, <1>5

LEMMA InvWakers == Inv => OneWakerPerSuspendedFrame
<1>1. SUFFICES ASSUME Inv PROVE OneWakerPerSuspendedFrame
  OBVIOUS
<1>2. PICK s, run : s = Heap /\ run = AtWork
  OBVIOUS
<1>3. Kept(s, run) /\ s.promises = promises /\ s.frames = frames
  BY <1>1, <1>2, InvParts
<1>4. Shape(s) /\ WokenOnce(s) /\ FramesKept(s, run) /\ \A p \in Own(s) : Untouched(s, p)
  BY <1>3 DEF Kept, Sound
<1>5. ASSUME NEW f \in DOMAIN frames
      PROVE  /\ Cardinality(Wakers(f)) = IF frames[f].status = "suspended" THEN 1 ELSE 0
             /\ frames[f].status # "done" => promises[frames[f].result].state = "pending"
  <2>1. f \in Nat
    BY <1>3, KeptParts
  <2>2. (frames[f].status = "suspended") <=> Woken(s, f)
    BY <1>3, <1>4 DEF FramesKept
  <2>3. \A i \in Wakers(f) : \E p, k \in Nat :
          /\ Resumed(s, f, p, k)
          /\ i = IF p = 0 THEN jobs[k].id ELSE promises[p].reactions[k].id
    BY <1>2, <1>4, <2>1, WakersOf
  <2>4. Woken(s, f) => Wakers(f) # {}
    BY <1>2, <1>4, <2>1, WakersOf
  <2>5. CASE Woken(s, f)
    <3>1. \A i, j \in Wakers(f) : i = j
      BY <1>4, <2>1, <2>3 DEF WokenOnce
    <3>2. PICK i : i \in Wakers(f)
      BY <2>4, <2>5
    <3>3. Wakers(f) = {i}
      BY <3>1, <3>2
    <3>4. Cardinality(Wakers(f)) = 1
      BY <3>3, FS_Singleton
    <3>5. QED
      BY <1>3, <1>4, <2>2, <2>5, <3>4 DEF Own, Undone, Untouched
  <2>6. CASE ~Woken(s, f)
    <3>1. Wakers(f) = {}
      BY <2>3, <2>6 DEF Woken
    <3>2. Cardinality(Wakers(f)) = 0
      BY <3>1, FS_EmptySet
    <3>3. QED
      BY <1>3, <1>4, <2>2, <2>6, <3>2 DEF Own, Undone, Untouched
  <2>7. QED
    BY <2>5, <2>6
<1>6. QED
  BY <1>1, <1>5, InvType DEF OneWakerPerSuspendedFrame

(* In every script a suspended call waits for exactly one thing, a running or *)
(* finished one for none, and its result promise stays pending until its body *)
(* is done.                                                                *)
THEOREM OneWaker == Spec => []OneWakerPerSuspendedFrame
BY Invariant, InvWakers, PTL


-----------------------------------------------------------------------------
(* Frames (JsFrame)                                                        *)

HandlerRecord ==
  [flags : {"c", "f", "cf"}, catch : Nat, fin : Nat, env : Seq(Nat), at : Nat]

FrameRecord ==
  [pc : Nat, env : Seq(Nat), handlers : Seq(HandlerRecord), pending_exc : BOOLEAN, exc_value : Nat,
   pending_return : BOOLEAN, return_value : Nat, resume : {"none", "value", "throw"}]

\* The first n of the handlers are those that h names.
Named(handlers, n, h) == Len(h) = n /\ \A k \in 1 .. n : handlers[k].at = h[k]

\* No jump of the program leaves a try statement or a block.
LeavesNothing(c) == LeavesNoTry(c) /\ LeavesNoScope(c)

\* The handler at place j is that of a try statement of the code: it catches at its
\* addresses, and the handlers below and the environment are those of the context of
\* this statement.
HandlerKept(c, handlers, j) ==
  LET h == handlers[j] IN
  /\ h.at \in DOMAIN c /\ c[h.at].op = "handler"
  /\ h.flags = c[h.at].l /\ h.catch = c[h.at].to /\ h.fin = c[h.at].fin
  /\ Len(h.env) > 0
  /\ LeavesNoTry(c) => Named(handlers, j - 1, c[h.at].h)
  /\ LeavesNothing(c) => h.env = Closure \o c[h.at].s

FrameKept(c, f) ==
  /\ f \in FrameRecord /\ f.pc \in DOMAIN c /\ Len(f.env) > 0
  /\ \A j \in DOMAIN f.handlers : HandlerKept(c, f.handlers, j)
  /\ ~(f.pending_exc /\ f.pending_return)

\* The handlers and the environment are those of the context of the instruction i.
InContext(c, f, i) ==
  /\ LeavesNoTry(c) => Named(f.handlers, Len(f.handlers), c[i].h)
  /\ LeavesNothing(c) => f.env = Closure \o c[i].s

FrameInv ==
  /\ Linked(code)
  /\ FrameKept(code, frame)
  /\ status \in {"new", "running", "waiting", "done"}
  /\ frame.resume = "none" \/ (status = "running" /\ here.op \in {"await", "yield"})
  /\ status # "done" => InContext(code, frame, frame.pc)

(* The first entries of a sequence.                                        *)
LEMMA SeqFirst ==
  ASSUME NEW S, NEW s \in Seq(S), NEW j \in DOMAIN s
  PROVE  /\ SubSeq(s, 1, j - 1) \in Seq(S) /\ j - 1 \in Nat
         /\ Len(SubSeq(s, 1, j - 1)) = j - 1 /\ DOMAIN SubSeq(s, 1, j - 1) = 1 .. j - 1
         /\ \A k \in 1 .. j - 1 : SubSeq(s, 1, j - 1)[k] = s[k]
<1>1. Len(s) \in Nat /\ \A k \in 1 .. Len(s) : s[k] \in S
  BY LenProperties
<1>2. j \in 1 .. Len(s)
  BY SeqEntries
<1>3. SubSeq(s, 1, j - 1) \in Seq(S) /\ Len(SubSeq(s, 1, j - 1)) = j - 1
      /\ \A k \in 1 .. j - 1 : SubSeq(s, 1, j - 1)[k] = s[k]
  BY <1>1, <1>2
<1>4. QED
  BY <1>2, <1>3, SeqEntries

(* What the code promises of an instruction.                               *)
LEMMA LinkedIs ==
  ASSUME NEW c, Linked(c), NEW i \in DOMAIN c
  PROVE  i \in Nat /\ c[i].s \in Seq(Nat) /\ c[i].h \in Seq(Nat) /\ c[i].id \in Nat /\ c[i].op \in Ops
BY DEF Linked, LinkedAt

(* The next instruction, when the one at i opens and closes nothing.       *)
LEMMA NextIs ==
  ASSUME NEW c, Linked(c), NEW i \in DOMAIN c,
         c[i].op \in Ops \ {"jump", "throw", "return", "push", "pop", "handler", "unhandler"}
  PROVE  i + 1 \in DOMAIN c /\ c[i + 1].s = c[i].s /\ c[i + 1].h = c[i].h
<1>1. i + 1 \in DOMAIN c /\ Context(c, i + 1) = LeftBy(c, i)
  BY DEF Linked, LinkedAt, Ops
<1>2. c[i].op \notin {"push", "pop", "handler", "unhandler"}
  OBVIOUS
<1>3. LeftBy(c, i) = [s |-> c[i].s, h |-> c[i].h]
  BY <1>2 DEF LeftBy
<1>4. QED
  BY <1>1, <1>3 DEF Context

(* The frame moves to an instruction whose context it fits.                *)
LEMMA Moved ==
  ASSUME NEW c, NEW f, FrameKept(c, f), NEW i \in DOMAIN c, i \in Nat, InContext(c, f, i),
         NEW r \in {"none", "value", "throw"}
  PROVE  /\ FrameKept(c, [f EXCEPT !.pc = i, !.resume = r])
         /\ InContext(c, [f EXCEPT !.pc = i, !.resume = r], i)
<1>1. PICK g : g = [f EXCEPT !.pc = i, !.resume = r]
  OBVIOUS
<1>2. f \in FrameRecord
  BY DEF FrameKept
<1>3. g \in FrameRecord
  BY <1>1, <1>2 DEF FrameRecord
<1>4. /\ g.pc = i /\ g.env = f.env /\ g.handlers = f.handlers
      /\ g.pending_exc = f.pending_exc /\ g.pending_return = f.pending_return
  BY <1>1, <1>2 DEF FrameRecord
<1>5. FrameKept(c, g)
  BY <1>3, <1>4 DEF FrameKept
<1>6. InContext(c, g, i)
  BY <1>4 DEF InContext
<1>7. QED
  BY <1>1, <1>5, <1>6

(* The lower handlers, when the one at place j takes over.                 *)
LEMMA Taken ==
  ASSUME NEW c, Linked(c), NEW f, FrameKept(c, f), NEW j \in DOMAIN f.handlers,
         NEW i \in {f.handlers[j].catch, f.handlers[j].fin},
         NEW g \in FrameRecord, g.pc = i, g.env = f.handlers[j].env,
         g.handlers = SubSeq(f.handlers, 1, j - 1), ~(g.pending_exc /\ g.pending_return)
  PROVE  FrameKept(c, g) /\ InContext(c, g, i)
<1>1. f \in FrameRecord /\ f.handlers \in Seq(HandlerRecord) /\ HandlerKept(c, f.handlers, j)
  BY DEF FrameKept, FrameRecord
<1>2. PICK hs \in Seq(HandlerRecord), h \in HandlerRecord, n \in Nat :
        hs = f.handlers /\ h = hs[j] /\ n = Len(hs) /\ DOMAIN hs = 1 .. n
  BY <1>1, SeqEntries
<1>3. j \in 1 .. n /\ j - 1 \in Nat
  BY <1>2
<1>4. PICK low \in Seq(HandlerRecord) : low = SubSeq(hs, 1, j - 1)
  BY <1>2, <1>3, SeqFirst
<1>5. Len(low) = j - 1 /\ DOMAIN low = 1 .. j - 1 /\ \A k \in 1 .. j - 1 : low[k] = hs[k]
  BY <1>2, <1>3, <1>4, SeqFirst
<1>6. /\ h.at \in DOMAIN c /\ c[h.at].op = "handler" /\ i \in {c[h.at].to, c[h.at].fin}
      /\ Len(h.env) > 0
      /\ LeavesNoTry(c) => Named(hs, j - 1, c[h.at].h)
      /\ LeavesNothing(c) => h.env = Closure \o c[h.at].s
  BY <1>1, <1>2 DEF HandlerKept
<1>7. i \in DOMAIN c /\ c[i].h = c[h.at].h /\ c[i].s = c[h.at].s
  <2>1. LinkedAt(c, h.at)
    BY <1>6 DEF Linked
  <2>2. i \in DOMAIN c /\ Context(c, i) = Context(c, h.at)
    BY <1>6, <2>1 DEF LinkedAt
  <2>3. QED
    BY <2>2 DEF Context
<1>8. g.handlers = low /\ g.env = h.env
  BY <1>2, <1>4
<1>9. ASSUME NEW k \in DOMAIN low
      PROVE  HandlerKept(c, low, k)
  <2>1. k \in 1 .. n /\ k \in 1 .. j - 1 /\ HandlerKept(c, hs, k) /\ low[k] = hs[k]
    BY <1>2, <1>3, <1>5 DEF FrameKept
  <2>2. ASSUME LeavesNoTry(c)
        PROVE  Named(low, k - 1, c[low[k].at].h)
    <3>1. Named(hs, k - 1, c[low[k].at].h)
      BY <2>1, <2>2 DEF HandlerKept
    <3>2. \A m \in 1 .. k - 1 : low[m] = hs[m]
      BY <1>3, <1>5, <2>1
    <3>3. QED
      BY <3>1, <3>2 DEF Named
  <2>3. QED
    BY <2>1, <2>2 DEF HandlerKept
<1>10. FrameKept(c, g)
  BY <1>6, <1>7, <1>8, <1>9 DEF FrameKept
<1>11. ASSUME LeavesNoTry(c)
       PROVE  Named(low, Len(low), c[i].h)
  BY <1>5, <1>6, <1>7, <1>11 DEF Named
<1>12. InContext(c, g, i)
  BY <1>6, <1>7, <1>8, <1>11 DEF InContext
<1>13. QED
  BY <1>10, <1>12

(* A frame that ends.                                                      *)
LEMMA EndKeeps ==
  ASSUME Linked(code), code' = code, NEW f, FrameKept(code, f), f.resume = "none", NEW how, NEW v,
         Ends(f, how, v)
  PROVE  FrameInv'
<1>1. PICK g : g = [f EXCEPT !.handlers = <<>>]
  OBVIOUS
<1>2. f \in FrameRecord
  BY DEF FrameKept
<1>3. <<>> \in Seq(HandlerRecord)
  BY EmptySeq
<1>4. g \in FrameRecord
  BY <1>1, <1>2, <1>3 DEF FrameRecord
<1>5. /\ g.pc = f.pc /\ g.env = f.env /\ g.handlers = <<>> /\ g.resume = f.resume
      /\ g.pending_exc = f.pending_exc /\ g.pending_return = f.pending_return
  BY <1>1, <1>2 DEF FrameRecord
<1>6. FrameKept(code, g)
  BY <1>4, <1>5 DEF FrameKept
<1>7. frame' = g /\ status' = "done"
  BY <1>1 DEF Ends
<1>8. QED
  BY <1>5, <1>6, <1>7 DEF FrameInv

(* A frame that goes on, when it fits the instruction it comes to.         *)
LEMMA RunKeeps ==
  ASSUME Linked(code), code' = code, status' \in {"new", "running", "waiting"},
         FrameKept(code, frame'), InContext(code, frame', frame'.pc), frame'.resume = "none"
  PROVE  FrameInv'
BY DEF FrameInv

(* unwind_to_handler.                                                      *)
LEMMA UnwindKeeps ==
  ASSUME Linked(code), code' = code, status = "running", NEW f, FrameKept(code, f), f.resume = "none",
         NEW v \in Nat, NEW seen, Unwind(f, v, seen)
  PROVE  FrameInv'
<1>1. CASE f.handlers = <<>>
  <2>1. Ends(f, "throw", v)
    BY <1>1 DEF Unwind
  <2>2. QED
    BY <2>1, EndKeeps
<1>2. CASE f.handlers # <<>>
  <2>1. f \in FrameRecord /\ f.handlers \in Seq(HandlerRecord)
    BY DEF FrameKept, FrameRecord
  <2>2. PICK n \in Nat : n = Len(f.handlers) /\ n \in DOMAIN f.handlers
    BY <1>2, <2>1
  <2>3. PICK h \in HandlerRecord : h = f.handlers[n] /\ h = Last(f.handlers)
    BY <2>1, <2>2 DEF Last
  <2>4. PICK low \in Seq(HandlerRecord) : low = SubSeq(f.handlers, 1, n - 1) /\ low = Front(f.handlers)
    BY <2>1, <2>2, SeqFirst DEF Front
  <2>5. PICK g : g = IF HasCatch(h.flags)
                     THEN [f EXCEPT !.handlers = low, !.env = h.env, !.pending_return = FALSE,
                                    !.pc = h.catch, !.pending_exc = FALSE]
                     ELSE [f EXCEPT !.handlers = low, !.env = h.env, !.pending_return = FALSE,
                                    !.pc = h.fin, !.pending_exc = TRUE, !.exc_value = v]
    OBVIOUS
  <2>6. frame' = g /\ status' = "running"
    BY <1>2, <2>1, <2>3, <2>4, <2>5 DEF Unwind, FrameRecord
  <2>7. g \in FrameRecord
    BY <2>1, <2>3, <2>4, <2>5 DEF FrameRecord, HandlerRecord
  <2>8. /\ g.handlers = low /\ g.env = h.env /\ g.pc \in {h.catch, h.fin} /\ g.pending_return = FALSE
        /\ g.resume = "none"
    BY <2>1, <2>5 DEF FrameRecord
  <2>9. FrameKept(code, g) /\ InContext(code, g, g.pc)
    BY <2>2, <2>3, <2>4, <2>7, <2>8, Taken
  <2>10. QED
    BY <2>6, <2>8, <2>9, RunKeeps
<1>3. QED
  BY <1>1, <1>2

(* The handlers with a finally block have a last one.                      *)
LEMMA LargestFin ==
  ASSUME NEW S, NEW s \in Seq(S), NEW fins, fins \subseteq DOMAIN s, fins # {}
  PROVE  Max(fins) \in fins
<1>1. PICK n \in Nat : DOMAIN s = 1 .. n
  BY SeqEntries
<1>2. PICK least : least \in {n - k : k \in fins} /\ \A m \in {n - k : k \in fins} : least <= m
  <2>1. {n - k : k \in fins} \subseteq Nat /\ {n - k : k \in fins} # {}
    BY <1>1
  <2>2. QED
    BY <2>1, Least
<1>3. PICK top \in fins : least = n - top
  BY <1>2
<1>4. \A k \in fins : top >= k
  <2>1. SUFFICES ASSUME NEW k \in fins
                 PROVE  top >= k
    OBVIOUS
  <2>2. k \in 1 .. n /\ top \in 1 .. n /\ n - top <= n - k
    BY <1>1, <1>2, <1>3
  <2>3. QED
    BY <2>2
<1>5. QED
  BY <1>4 DEF Max

(* unwind_return_to_finally.                                               *)
LEMMA ReturnKeepsFrame ==
  ASSUME Linked(code), code' = code, status = "running", NEW f, FrameKept(code, f), f.resume = "none",
         Return(f)
  PROVE  FrameInv'
<1>1. PICK fins : fins = {j \in DOMAIN f.handlers : HasFinally(f.handlers[j].flags)}
  OBVIOUS
<1>2. CASE fins = {}
  <2>1. Ends(f, "return", f.return_value)
    BY <1>1, <1>2 DEF Return
  <2>2. QED
    BY <2>1, EndKeeps
<1>3. CASE fins # {}
  <2>1. f \in FrameRecord /\ f.handlers \in Seq(HandlerRecord)
    BY DEF FrameKept, FrameRecord
  <2>2. PICK n : n = Max(fins)
    OBVIOUS
  <2>3. n \in DOMAIN f.handlers
    BY <1>1, <1>3, <2>1, <2>2, LargestFin
  <2>4. PICK h \in HandlerRecord : h = f.handlers[n]
    BY <2>1, <2>3
  <2>5. PICK low \in Seq(HandlerRecord) : low = SubSeq(f.handlers, 1, n - 1)
    BY <2>1, <2>3, SeqFirst
  <2>6. PICK g : g = [f EXCEPT !.handlers = low, !.env = h.env, !.pending_exc = FALSE,
                               !.pending_return = TRUE, !.pc = h.fin]
    OBVIOUS
  <2>7. frame' = g /\ status' = "running"
    BY <1>1, <1>3, <2>1, <2>2, <2>4, <2>5, <2>6 DEF Return, FrameRecord
  <2>8. g \in FrameRecord
    BY <2>1, <2>4, <2>5, <2>6 DEF FrameRecord, HandlerRecord
  <2>9. /\ g.handlers = low /\ g.env = h.env /\ g.pc \in {h.catch, h.fin} /\ g.pending_exc = FALSE
        /\ g.resume = "none"
    BY <2>1, <2>6 DEF FrameRecord
  <2>10. FrameKept(code, g) /\ InContext(code, g, g.pc)
    BY <2>3, <2>4, <2>5, <2>8, <2>9, Taken
  <2>11. QED
    BY <2>7, <2>9, <2>10, RunKeeps
<1>4. QED
  BY <1>2, <1>3

(* The frame with other flags and values, at the same instruction.         *)
LEMMA Flagged ==
  ASSUME NEW c, NEW f, FrameKept(c, f), NEW g \in FrameRecord, g.pc = f.pc, g.env = f.env,
         g.handlers = f.handlers, ~(g.pending_exc /\ g.pending_return)
  PROVE  FrameKept(c, g) /\ \A i : InContext(c, f, i) => InContext(c, g, i)
BY DEF FrameKept, InContext

(* What holds before an instruction.                                       *)
LEMMA HereIs ==
  ASSUME FrameInv, NEW ops, At(ops)
  PROVE  /\ Linked(code) /\ FrameKept(code, frame) /\ frame \in FrameRecord /\ code' = code
         /\ frame.pc \in DOMAIN code /\ frame.pc \in Nat /\ code[frame.pc].op \in ops
         /\ here = code[frame.pc] /\ status = "running" /\ InContext(code, frame, frame.pc)
         /\ frame.resume = "none" \/ code[frame.pc].op \in {"await", "yield"}
BY LinkedIs DEF FrameInv, At, FrameKept, here

(* The frame goes on to an instruction whose context it fits.              *)
LEMMA GoesOn ==
  ASSUME FrameInv, NEW ops, At(ops), ops \cap {"await", "yield"} = {}, NEW i \in DOMAIN code,
         InContext(code, frame, i), frame' = Jumps(frame, i), UNCHANGED status
  PROVE  FrameInv'
<1>1. /\ Linked(code) /\ FrameKept(code, frame) /\ frame \in FrameRecord /\ code' = code
      /\ status = "running" /\ frame.resume = "none"
  BY HereIs
<1>2. i \in Nat
  BY <1>1, LinkedIs
<1>3. PICK g : g = [frame EXCEPT !.pc = i, !.resume = "none"]
  OBVIOUS
<1>4. FrameKept(code, g) /\ InContext(code, g, i)
  BY <1>1, <1>2, <1>3, Moved
<1>5. frame' = g /\ g.pc = i /\ g.resume = "none"
  BY <1>1, <1>3 DEF Jumps, FrameRecord
<1>6. QED
  BY <1>1, <1>4, <1>5, RunKeeps

LEMMA FitsNext ==
  ASSUME NEW c, Linked(c), NEW f, NEW i \in DOMAIN c, InContext(c, f, i),
         c[i].op \in Ops \ {"jump", "throw", "return", "push", "pop", "handler", "unhandler"}
  PROVE  i + 1 \in DOMAIN c /\ InContext(c, f, i + 1)
BY NextIs DEF InContext

LEMMA EvaluateStep ==
  ASSUME FrameInv, Evaluate
  PROVE  FrameInv'
<1>1. /\ At({"ev"}) /\ Linked(code) /\ FrameKept(code, frame) /\ frame.pc \in DOMAIN code
      /\ code' = code /\ status = "running" /\ frame.resume = "none"
      /\ here = code[frame.pc] /\ here.op = "ev" /\ InContext(code, frame, frame.pc)
  BY HereIs DEF Evaluate
<1>2. PICK seen : Unwind(frame, here.id, seen) \/ (frame' = Next1(frame) /\ UNCHANGED status)
  BY DEF Evaluate
<1>3. CASE Unwind(frame, here.id, seen)
  <2>1. here.id \in Nat
    BY <1>1, LinkedIs
  <2>2. QED
    BY <1>1, <1>3, <2>1, UnwindKeeps
<1>4. CASE frame' = Next1(frame) /\ UNCHANGED status
  <2>1. frame.pc + 1 \in DOMAIN code /\ InContext(code, frame, frame.pc + 1)
    BY <1>1, FitsNext DEF Ops
  <2>2. QED
    BY <1>1, <1>4, <2>1, GoesOn DEF Next1
<1>5. QED
  BY <1>2, <1>3, <1>4

LEMMA UpdateStep ==
  ASSUME FrameInv, Update
  PROVE  FrameInv'
<1>1. /\ At({"update"}) /\ Linked(code) /\ frame.pc \in DOMAIN code /\ code[frame.pc].op = "update"
      /\ InContext(code, frame, frame.pc)
  BY HereIs DEF Update
<1>2. frame.pc + 1 \in DOMAIN code /\ InContext(code, frame, frame.pc + 1)
  BY <1>1, FitsNext DEF Ops
<1>3. QED
  BY <1>1, <1>2, GoesOn DEF Next1, Update

LEMMA JumpStep ==
  ASSUME FrameInv, Jump
  PROVE  FrameInv'
<1>1. /\ At({"jump"}) /\ Linked(code) /\ frame.pc \in DOMAIN code /\ code[frame.pc].op = "jump"
      /\ InContext(code, frame, frame.pc) /\ here = code[frame.pc]
  BY HereIs DEF Jump
<1>2. PICK i : i = frame.pc
  OBVIOUS
<1>3. LinkedAt(code, i)
  BY <1>1, <1>2 DEF Linked
<1>4. /\ code[i].to \in DOMAIN code
      /\ code[i].by # "" \/ Context(code, code[i].to) = Context(code, i)
  BY <1>1, <1>2, <1>3 DEF LinkedAt
<1>5. InContext(code, frame, code[i].to)
  <2>1. CASE Context(code, code[i].to) = Context(code, i)
    BY <1>1, <1>2, <2>1 DEF Context, InContext
  <2>2. CASE code[i].by # ""
    <3>1. i \in JumpsIn(code)
      BY <1>1, <1>2, <2>2 DEF JumpsIn
    <3>2. LeavesNoTry(code) => code[code[i].to].h = code[i].h
      BY <3>1 DEF LeavesNoTry
    <3>3. LeavesNothing(code) => code[code[i].to].s = code[i].s
      BY <3>1 DEF LeavesNothing, LeavesNoScope
    <3>4. QED
      BY <1>1, <1>2, <3>2, <3>3 DEF InContext
  <2>3. QED
    BY <1>4, <2>1, <2>2
<1>6. frame' = Jumps(frame, code[i].to) /\ UNCHANGED status
  BY <1>1, <1>2 DEF Jump, Quiet
<1>7. QED
  BY <1>1, <1>4, <1>5, <1>6, GoesOn

LEMMA BranchStep ==
  ASSUME FrameInv, Branch
  PROVE  FrameInv'
<1>1. /\ At({"iffalse", "iftrue"}) /\ Linked(code) /\ frame.pc \in DOMAIN code
      /\ code[frame.pc].op \in {"iffalse", "iftrue"}
      /\ InContext(code, frame, frame.pc) /\ here = code[frame.pc]
  BY HereIs DEF Branch
<1>2. PICK i : i = frame.pc
  OBVIOUS
<1>3. LinkedAt(code, i)
  BY <1>1, <1>2 DEF Linked
<1>4. code[i].to \in DOMAIN code /\ Context(code, code[i].to) = Context(code, i)
  BY <1>1, <1>2, <1>3 DEF LinkedAt
<1>5. InContext(code, frame, code[i].to)
  BY <1>1, <1>2, <1>4 DEF Context, InContext
<1>6. i + 1 \in DOMAIN code /\ InContext(code, frame, i + 1)
  BY <1>1, <1>2, FitsNext DEF Ops
<1>7. /\ frame' = Jumps(frame, code[i].to) \/ frame' = Jumps(frame, i + 1)
      /\ UNCHANGED status
  BY <1>1, <1>2 DEF Branch, Next1
<1>8. QED
  BY <1>1, <1>4, <1>5, <1>6, <1>7, GoesOn

LEMMA ClosureIs == Closure \in Seq(Nat) /\ Len(Closure) = 2
BY DEF Closure

(* The scopes of the environment and those of the context, one opened or   *)
(* closed in both.                                                         *)
LEMMA EnvPushed ==
  ASSUME NEW s \in Seq(Nat), NEW i \in Nat
  PROVE  Append(Closure \o s, i) = Closure \o Append(s, i)
<1>1. PICK a : a = Closure /\ a \in Seq(Nat)
  BY ClosureIs
<1>2. a \o s \in Seq(Nat) /\ <<i>> \in Seq(Nat)
  BY <1>1
<1>3. PICK t : t = a \o s /\ t \in Seq(Nat)
  BY <1>2
<1>4. Append(s, i) = s \o <<i>> /\ Append(t, i) = t \o <<i>>
  BY <1>3, AppendIsConcat
<1>5. (a \o s) \o <<i>> = a \o (s \o <<i>>)
  BY <1>1, <1>2, ConcatAssociative, SMTT(40)
<1>6. QED
  BY <1>1, <1>3, <1>4, <1>5

LEMMA EnvPopped ==
  ASSUME NEW s \in Seq(Nat), s # <<>>
  PROVE  Len(Closure \o s) > 1 /\ Front(Closure \o s) = Closure \o Front(s)
<1>1. PICK low \in Seq(Nat), i \in Nat : low = Front(s) /\ s = low \o <<i>>
  <2>1. PICK n \in Nat : n = Len(s) /\ n \in DOMAIN s /\ n \in 1 .. Len(s)
    BY SeqEntries
  <2>2. Front(s) = SubSeq(s, 1, n - 1) /\ Front(s) \in Seq(Nat)
    BY <2>1, SeqFirst DEF Front
  <2>3. SubSeq(s, 1, n) = SubSeq(s, 1, n - 1) \o <<s[n]>> /\ SubSeq(s, 1, n) = s
    BY <2>1, SubSeqRecursiveSecond, SubSeqFull
  <2>4. s[n] \in Nat
    BY <2>1
  <2>5. QED
    BY <2>2, <2>3, <2>4
<1>2. PICK a : a = Closure /\ a \in Seq(Nat) /\ Len(a) = 2
  BY ClosureIs
<1>3. PICK t, u : t = a \o low /\ u = <<i>> /\ t \in Seq(Nat) /\ u \in Seq(Nat)
  <2>1. low \in Seq(Nat) /\ i \in Nat
    BY <1>1
  <2>2. a \o low \in Seq(Nat)
    BY <1>2, <2>1, ConcatProperties
  <2>3. <<i>> \in Seq(Nat)
    BY <2>1
  <2>4. QED
    BY <2>2, <2>3
<1>4. a \o s = t \o u
  <2>1. low \in Seq(Nat) /\ a \in Seq(Nat) /\ u \in Seq(Nat)
    BY <1>1, <1>2, <1>3
  <2>2. (a \o low) \o u = a \o (low \o u)
    BY ONLY <2>1, ConcatAssociative, SMTT(40)
  <2>3. QED
    BY <1>1, <1>3, <2>2
<1>5. PICK n \in Nat : n = Len(t) /\ n >= 2 /\ Len(u) = 1 /\ Len(t \o u) = n + 1
  <2>1. Len(t) = Len(a) + Len(low) /\ Len(low) \in Nat /\ Len(t) \in Nat
    BY <1>1, <1>2, <1>3, ConcatProperties, LenProperties
  <2>2. Len(u) = 1 /\ Len(t \o u) = Len(t) + Len(u)
    BY <1>3, ConcatProperties
  <2>3. Len(t) >= 2
    BY <1>2, <2>1
  <2>4. QED
    BY <2>1, <2>2, <2>3
<1>6. Front(t \o u) = t
  <2>1. 1 \in 1 .. Len(t) /\ n \in 1 .. Len(t)
    BY <1>5
  <2>2. SubSeq(t \o u, 1, n) = SubSeq(t, 1, n)
    BY <2>1, SubSeqOfConcat1
  <2>3. SubSeq(t, 1, n) = t
    BY <1>3, <1>5, SubSeqFull
  <2>4. Front(t \o u) = SubSeq(t \o u, 1, n)
    BY <1>5 DEF Front
  <2>5. QED
    BY <2>2, <2>3, <2>4
<1>7. Len(a \o s) > 1
  BY <1>4, <1>5
<1>8. Front(a \o s) = a \o Front(s)
  BY ONLY <1>1, <1>3, <1>4, <1>6, Zenon
<1>9. QED
  BY ONLY <1>2, <1>7, <1>8, Zenon

LEMMA ScopeStep ==
  ASSUME FrameInv, Scope
  PROVE  FrameInv'
<1>1. /\ At({"push", "pop"}) /\ Linked(code) /\ FrameKept(code, frame) /\ frame \in FrameRecord
      /\ frame.pc \in DOMAIN code /\ frame.pc \in Nat /\ code[frame.pc].op \in {"push", "pop"}
      /\ InContext(code, frame, frame.pc) /\ here = code[frame.pc] /\ code' = code
      /\ status = "running" /\ frame.resume = "none"
  BY HereIs DEF Scope
<1>2. PICK i \in DOMAIN code : i = frame.pc /\ i \in Nat
  BY <1>1
<1>3. PICK s \in Seq(Nat), h \in Seq(Nat) : s = code[i].s /\ h = code[i].h
  BY <1>1, LinkedIs
<1>4. i + 1 \in DOMAIN code /\ Context(code, i + 1) = LeftBy(code, i) /\ (code[i].op = "pop" => s # <<>>)
  BY <1>1, <1>2, <1>3 DEF Linked, LinkedAt
<1>5. PICK j \in DOMAIN code : j = i + 1 /\ j \in Nat
  BY <1>1, <1>4, LinkedIs
<1>6. /\ code[j].h = h
      /\ code[i].op = "push" => code[j].s = Append(s, i)
      /\ code[i].op = "pop" => code[j].s = Front(s)
  BY <1>1, <1>2, <1>3, <1>4, <1>5 DEF Context, LeftBy
<1>7. PICK env : env = IF code[i].op = "push" THEN Append(frame.env, i)
                       ELSE IF Len(frame.env) > 1 THEN Front(frame.env) ELSE frame.env
  OBVIOUS
<1>8. frame.env \in Seq(Nat) /\ Len(frame.env) > 0
  BY <1>1 DEF FrameKept, FrameRecord
<1>9. env \in Seq(Nat) /\ Len(env) > 0
  <2>1. CASE code[i].op = "push"
    BY <1>2, <1>7, <1>8, <2>1
  <2>2. CASE code[i].op = "pop" /\ Len(frame.env) > 1
    <3>1. PICK n \in Nat : n = Len(frame.env) /\ n \in DOMAIN frame.env
      BY <1>8, <2>2, SeqEntries
    <3>2. Front(frame.env) \in Seq(Nat) /\ Len(Front(frame.env)) = n - 1
      BY <1>8, <3>1, SeqFirst DEF Front
    <3>3. QED
      BY <1>7, <2>2, <3>1, <3>2
  <2>3. CASE code[i].op = "pop" /\ ~(Len(frame.env) > 1)
    BY <1>7, <1>8, <2>3
  <2>4. QED
    BY <1>1, <1>2, <2>1, <2>2, <2>3
<1>10. ASSUME LeavesNothing(code)
       PROVE  env = Closure \o code[j].s
  <2>1. frame.env = Closure \o s
    BY <1>1, <1>2, <1>3, <1>10 DEF InContext
  <2>2. CASE code[i].op = "push"
    BY <1>2, <1>3, <1>6, <1>7, <2>1, <2>2, EnvPushed
  <2>3. CASE code[i].op = "pop"
    BY <1>3, <1>4, <1>6, <1>7, <2>1, <2>3, EnvPopped
  <2>4. QED
    BY <1>1, <1>2, <2>2, <2>3
<1>11. PICK g : g = [frame EXCEPT !.env = env, !.pc = j]
  OBVIOUS
<1>12. frame' = g
  BY <1>1, <1>2, <1>5, <1>7, <1>11 DEF Scope, Next1, Jumps, FrameRecord
<1>13. g \in FrameRecord
  BY <1>1, <1>5, <1>9, <1>11 DEF FrameRecord
<1>14. /\ g.env = env /\ g.pc = j /\ g.handlers = frame.handlers /\ g.resume = "none"
       /\ g.pending_exc = frame.pending_exc /\ g.pending_return = frame.pending_return
  BY <1>1, <1>11 DEF FrameRecord
<1>15. FrameKept(code, g)
  BY <1>1, <1>9, <1>13, <1>14 DEF FrameKept
<1>16. InContext(code, g, j)
  BY <1>1, <1>2, <1>3, <1>6, <1>10, <1>14 DEF InContext
<1>17. status' = "running"
  BY <1>1 DEF Scope, Quiet
<1>18. QED
  BY <1>1, <1>12, <1>14, <1>15, <1>16, <1>17, RunKeeps

(* One handler more, that of the try statement that begins.                *)
LEMMA HandlerAdded ==
  ASSUME NEW c, NEW hs \in Seq(HandlerRecord), NEW h \in HandlerRecord, NEW n \in Nat, n = Len(hs),
         \A j \in DOMAIN hs : HandlerKept(c, hs, j),
         NEW t, t = Append(hs, h), HandlerKept(c, t, n + 1)
  PROVE  t \in Seq(HandlerRecord) /\ \A j \in DOMAIN t : HandlerKept(c, t, j)
<1>1. /\ t \in Seq(HandlerRecord) /\ DOMAIN t = DOMAIN hs \cup {n + 1}
      /\ \A j \in DOMAIN hs : t[j] = hs[j]
  BY SeqAdd
<1>2. ASSUME NEW j \in DOMAIN hs
      PROVE  HandlerKept(c, t, j)
  <2>1. HandlerKept(c, hs, j) /\ t[j] = hs[j] /\ \A k \in 1 .. j - 1 : t[k] = hs[k]
    BY <1>1, SeqEntries
  <2>2. \A h1 : Named(hs, j - 1, h1) => Named(t, j - 1, h1)
    BY <2>1 DEF Named
  <2>3. QED
    BY <2>1, <2>2 DEF HandlerKept
<1>3. QED
  BY <1>1, <1>2

LEMMA SetHandlerStep ==
  ASSUME FrameInv, SetHandler
  PROVE  FrameInv'
<1>1. /\ At({"handler", "unhandler"}) /\ Linked(code) /\ FrameKept(code, frame) /\ frame \in FrameRecord
      /\ frame.pc \in DOMAIN code /\ frame.pc \in Nat /\ code[frame.pc].op \in {"handler", "unhandler"}
      /\ InContext(code, frame, frame.pc) /\ here = code[frame.pc] /\ code' = code
      /\ status = "running" /\ frame.resume = "none"
  BY HereIs DEF SetHandler
<1>2. PICK i \in DOMAIN code : i = frame.pc /\ i \in Nat
  BY <1>1
<1>3. PICK s \in Seq(Nat), h \in Seq(Nat) : s = code[i].s /\ h = code[i].h
  BY <1>1, LinkedIs
<1>4. /\ i + 1 \in DOMAIN code /\ Context(code, i + 1) = LeftBy(code, i)
      /\ code[i].op = "unhandler" => h # <<>>
      /\ code[i].op = "handler" =>
           code[i].l \in {"c", "f", "cf"} /\ code[i].to \in DOMAIN code /\ code[i].fin \in DOMAIN code
  BY <1>1, <1>2, <1>3 DEF Linked, LinkedAt
<1>5. PICK j \in DOMAIN code : j = i + 1 /\ j \in Nat
  BY <1>1, <1>4, LinkedIs
<1>6. /\ code[j].s = s
      /\ code[i].op = "handler" => code[j].h = Append(h, i)
      /\ code[i].op = "unhandler" => code[j].h = Front(h)
  BY <1>1, <1>2, <1>3, <1>4, <1>5 DEF Context, LeftBy
<1>7. PICK hs : hs = frame.handlers /\ hs \in Seq(HandlerRecord) /\ \A k \in DOMAIN hs : HandlerKept(code, hs, k)
  BY <1>1 DEF FrameKept, FrameRecord
<1>8. PICK n \in Nat : n = Len(hs) /\ DOMAIN hs = 1 .. n
  BY <1>7, SeqEntries
<1>9. PICK env \in Seq(Nat) : env = frame.env /\ Len(env) > 0
  BY <1>1 DEF FrameKept, FrameRecord
<1>10. LeavesNoTry(code) => Named(hs, n, h)
  BY <1>1, <1>2, <1>3, <1>7, <1>8 DEF InContext
<1>11. LeavesNothing(code) => env = Closure \o s
  BY <1>1, <1>2, <1>3, <1>9 DEF InContext
<1>12. PICK t : frame' = [frame EXCEPT !.handlers = t, !.pc = j]
                /\ t = IF code[i].op = "handler"
                       THEN Append(hs, [flags |-> code[i].l, catch |-> code[i].to, fin |-> code[i].fin,
                                        env |-> env, at |-> i])
                       ELSE IF hs = <<>> THEN hs ELSE Front(hs)
  BY <1>1, <1>2, <1>5, <1>7, <1>9 DEF SetHandler, Next1, Jumps, FrameRecord
<1>13. /\ t \in Seq(HandlerRecord) /\ \A k \in DOMAIN t : HandlerKept(code, t, k)
       /\ LeavesNoTry(code) => Named(t, Len(t), code[j].h)
  <2>1. CASE code[i].op = "handler"
    <3>1. PICK r : r = [flags |-> code[i].l, catch |-> code[i].to, fin |-> code[i].fin, env |-> env, at |-> i]
      OBVIOUS
    <3>2. code[i].to \in Nat /\ code[i].fin \in Nat
      BY <1>1, <1>4, <2>1, LinkedIs
    <3>3. r \in HandlerRecord
      BY <1>2, <1>4, <1>9, <2>1, <3>1, <3>2 DEF HandlerRecord
    <3>4. t = Append(hs, r) /\ Len(t) = n + 1 /\ t[n + 1] = r /\ \A k \in 1 .. n : t[k] = hs[k]
      BY <1>7, <1>8, <1>12, <2>1, <3>1, <3>3, SeqAdd
    <3>5. LeavesNoTry(code) => Named(t, n, h)
      BY <1>10, <3>4 DEF Named
    <3>6. HandlerKept(code, t, n + 1)
      <4>1. n + 1 - 1 = n /\ r.at = i
        BY <3>1
      <4>2. LeavesNoTry(code) => Named(t, n + 1 - 1, code[r.at].h)
        BY <1>3, <3>5, <4>1
      <4>3. LeavesNothing(code) => r.env = Closure \o code[r.at].s
        BY <1>3, <1>11, <3>1
      <4>4. /\ i \in DOMAIN code /\ code[i].op = "handler" /\ r.flags = code[i].l
            /\ r.catch = code[i].to /\ r.fin = code[i].fin /\ Len(r.env) > 0
        BY <1>2, <1>9, <2>1, <3>1
      <4>5. QED
        BY ONLY <3>4, <4>1, <4>2, <4>3, <4>4 DEF HandlerKept
    <3>7. ASSUME LeavesNoTry(code)
          PROVE  Named(t, n + 1, Append(h, i))
      <4>1. Len(h) = n /\ Len(Append(h, i)) = n + 1 /\ \A k \in 1 .. n : t[k].at = h[k]
        BY <1>2, <1>3, <3>5, <3>7 DEF Named
      <4>2. Append(h, i)[n + 1] = i /\ \A k \in 1 .. n : Append(h, i)[k] = h[k]
        BY <1>2, <1>3, <4>1
      <4>3. t[n + 1].at = i
        BY <3>1, <3>4
      <4>4. QED
        BY <1>8, <4>1, <4>2, <4>3 DEF Named
    <3>8. QED
      BY <1>6, <1>7, <1>8, <2>1, <3>3, <3>4, <3>6, <3>7, HandlerAdded
  <2>2. CASE code[i].op = "unhandler" /\ hs = <<>>
    <3>1. ~LeavesNoTry(code)
      BY <1>3, <1>4, <1>8, <1>10, <2>2, EmptySeq DEF Named
    <3>2. QED
      BY <1>7, <1>12, <2>2, <3>1
  <2>3. CASE code[i].op = "unhandler" /\ hs # <<>>
    <3>1. n \in DOMAIN hs
      BY <1>7, <1>8, <2>3
    <3>2. /\ t = SubSeq(hs, 1, n - 1) /\ t \in Seq(HandlerRecord) /\ n - 1 \in Nat
          /\ Len(t) = n - 1 /\ DOMAIN t = 1 .. n - 1 /\ \A k \in 1 .. n - 1 : t[k] = hs[k]
      BY <1>7, <1>8, <1>12, <2>3, <3>1, SeqFirst DEF Front
    <3>3. ASSUME NEW k \in DOMAIN t
          PROVE  HandlerKept(code, t, k)
      <4>1. k \in 1 .. n - 1 /\ k \in DOMAIN hs /\ HandlerKept(code, hs, k) /\ t[k] = hs[k]
        BY <1>7, <1>8, <3>2
      <4>2. \A m \in 1 .. k - 1 : t[m] = hs[m]
        BY <3>2, <4>1
      <4>3. \A h1 : Named(hs, k - 1, h1) => Named(t, k - 1, h1)
        BY <4>2 DEF Named
      <4>4. QED
        BY <4>1, <4>3 DEF HandlerKept
    <3>4. ASSUME LeavesNoTry(code)
          PROVE  Named(t, n - 1, Front(h))
      <4>1. Len(h) = n /\ n \in DOMAIN h /\ \A k \in 1 .. n : hs[k].at = h[k]
        BY <1>3, <1>8, <1>10, <3>1, <3>4, SeqEntries DEF Named
      <4>2. Len(Front(h)) = n - 1 /\ \A k \in 1 .. n - 1 : Front(h)[k] = h[k]
        BY <1>3, <4>1, SeqFirst DEF Front
      <4>3. QED
        BY <3>2, <4>1, <4>2 DEF Named
    <3>5. QED
      BY <1>6, <2>3, <3>2, <3>3, <3>4
  <2>4. QED
    BY <1>1, <1>2, <2>1, <2>2, <2>3
<1>14. PICK g : g = frame'
  OBVIOUS
<1>15. g \in FrameRecord
  BY <1>1, <1>5, <1>12, <1>13, <1>14 DEF FrameRecord
<1>16. /\ g.handlers = t /\ g.pc = j /\ g.env = frame.env /\ g.resume = "none"
       /\ g.pending_exc = frame.pending_exc /\ g.pending_return = frame.pending_return
  BY <1>1, <1>12, <1>14 DEF FrameRecord
<1>17. FrameKept(code, g)
  BY <1>1, <1>13, <1>15, <1>16 DEF FrameKept
<1>18. InContext(code, g, j)
  BY <1>6, <1>9, <1>11, <1>13, <1>16 DEF InContext
<1>19. status' = "running"
  BY <1>1 DEF SetHandler, Quiet
<1>20. QED
  BY <1>1, <1>14, <1>16, <1>17, <1>18, <1>19, RunKeeps

LEMMA ThrowStep ==
  ASSUME FrameInv, Throw
  PROVE  FrameInv'
<1>1. /\ At({"throw"}) /\ Linked(code) /\ FrameKept(code, frame) /\ frame \in FrameRecord
      /\ frame.pc \in DOMAIN code /\ code[frame.pc].op = "throw" /\ here = code[frame.pc] /\ code' = code
      /\ status = "running" /\ frame.resume = "none"
  BY HereIs DEF Throw
<1>2. PICK f : f = [frame EXCEPT !.pending_return = FALSE]
  OBVIOUS
<1>3. f \in FrameRecord
  BY <1>1, <1>2 DEF FrameRecord
<1>4. /\ f.pc = frame.pc /\ f.env = frame.env /\ f.handlers = frame.handlers /\ f.resume = "none"
      /\ f.pending_return = FALSE
  BY <1>1, <1>2 DEF FrameRecord
<1>5. FrameKept(code, f)
  BY <1>1, <1>3, <1>4, Flagged
<1>6. here.id \in Nat
  BY <1>1, LinkedIs
<1>7. Unwind(f, here.id, log)
  BY <1>2 DEF Throw
<1>8. QED
  BY <1>1, <1>4, <1>5, <1>6, <1>7, UnwindKeeps

LEMMA ReturnValueStep ==
  ASSUME FrameInv, ReturnValue
  PROVE  FrameInv'
<1>1. /\ At({"return"}) /\ Linked(code) /\ FrameKept(code, frame) /\ frame \in FrameRecord
      /\ frame.pc \in DOMAIN code /\ code[frame.pc].op = "return" /\ here = code[frame.pc] /\ code' = code
      /\ status = "running" /\ frame.resume = "none"
  BY HereIs DEF ReturnValue
<1>2. PICK v \in Nat : v = here.id
  BY <1>1, LinkedIs
<1>3. PICK f : f = [frame EXCEPT !.return_value = v, !.pending_exc = FALSE]
  OBVIOUS
<1>4. f \in FrameRecord
  BY <1>1, <1>2, <1>3 DEF FrameRecord
<1>5. /\ f.pc = frame.pc /\ f.env = frame.env /\ f.handlers = frame.handlers /\ f.resume = "none"
      /\ f.pending_exc = FALSE
  BY <1>1, <1>3 DEF FrameRecord
<1>6. FrameKept(code, f)
  BY <1>1, <1>4, <1>5, Flagged
<1>7. Return(f)
  BY <1>2, <1>3 DEF ReturnValue
<1>8. QED
  BY <1>1, <1>5, <1>6, <1>7, ReturnKeepsFrame

LEMMA EndFinallyStep ==
  ASSUME FrameInv, EndFinally
  PROVE  FrameInv'
<1>1. /\ At({"endfinally"}) /\ Linked(code) /\ FrameKept(code, frame) /\ frame \in FrameRecord
      /\ frame.pc \in DOMAIN code /\ code[frame.pc].op = "endfinally" /\ here = code[frame.pc]
      /\ code' = code /\ status = "running" /\ frame.resume = "none" /\ InContext(code, frame, frame.pc)
  BY HereIs DEF EndFinally
<1>2. CASE frame.pending_exc /\ Unwind([frame EXCEPT !.pending_exc = FALSE], frame.exc_value, log)
  <2>1. PICK f : f = [frame EXCEPT !.pending_exc = FALSE]
    OBVIOUS
  <2>2. f \in FrameRecord
    BY <1>1, <2>1 DEF FrameRecord
  <2>3. /\ f.pc = frame.pc /\ f.env = frame.env /\ f.handlers = frame.handlers /\ f.resume = "none"
        /\ f.pending_exc = FALSE
    BY <1>1, <2>1 DEF FrameRecord
  <2>4. FrameKept(code, f)
    BY <1>1, <2>2, <2>3, Flagged
  <2>5. frame.exc_value \in Nat
    BY <1>1 DEF FrameRecord
  <2>6. QED
    BY <1>1, <1>2, <2>1, <2>3, <2>4, <2>5, UnwindKeeps
<1>3. CASE Return([frame EXCEPT !.pending_return = FALSE])
  <2>1. PICK f : f = [frame EXCEPT !.pending_return = FALSE]
    OBVIOUS
  <2>2. f \in FrameRecord
    BY <1>1, <2>1 DEF FrameRecord
  <2>3. /\ f.pc = frame.pc /\ f.env = frame.env /\ f.handlers = frame.handlers /\ f.resume = "none"
        /\ f.pending_return = FALSE
    BY <1>1, <2>1 DEF FrameRecord
  <2>4. FrameKept(code, f)
    BY <1>1, <2>2, <2>3, Flagged
  <2>5. QED
    BY <1>1, <1>3, <2>1, <2>3, <2>4, ReturnKeepsFrame
<1>4. CASE frame' = Next1(frame) /\ UNCHANGED status
  <2>1. frame.pc + 1 \in DOMAIN code /\ InContext(code, frame, frame.pc + 1)
    BY <1>1, FitsNext DEF Ops
  <2>2. QED
    BY <1>1, <1>4, <2>1, GoesOn DEF Next1
<1>5. QED
  BY <1>2, <1>3, <1>4 DEF EndFinally

LEMMA SuspendStep ==
  ASSUME FrameInv, Suspend
  PROVE  FrameInv'
<1>1. /\ At({"await", "yield"}) /\ Linked(code) /\ FrameKept(code, frame) /\ frame \in FrameRecord
      /\ frame.pc \in DOMAIN code /\ frame.pc \in Nat /\ code[frame.pc].op \in {"await", "yield"}
      /\ here = code[frame.pc] /\ code' = code /\ status = "running" /\ InContext(code, frame, frame.pc)
  BY HereIs DEF Suspend
<1>2. CASE frame.resume = "none" /\ status' = "waiting" /\ UNCHANGED frame
  BY <1>1, <1>2, RunKeeps
<1>3. CASE frame' = [Next1(frame) EXCEPT !.resume = "none"] /\ UNCHANGED status
  <2>1. PICK j \in DOMAIN code : j = frame.pc + 1 /\ InContext(code, frame, j)
    BY <1>1, FitsNext DEF Ops
  <2>2. j \in Nat
    BY <1>1, LinkedIs
  <2>3. PICK g : g = [frame EXCEPT !.pc = j, !.resume = "none"]
    OBVIOUS
  <2>4. FrameKept(code, g) /\ InContext(code, g, j)
    BY <1>1, <2>1, <2>2, <2>3, Moved
  <2>5. frame' = g /\ g.pc = j /\ g.resume = "none"
    BY <1>1, <1>3, <2>1, <2>3 DEF Next1, Jumps, FrameRecord
  <2>6. QED
    BY <1>1, <1>3, <2>4, <2>5, RunKeeps
<1>4. CASE Unwind([frame EXCEPT !.resume = "none"], here.id, log)
  <2>1. PICK f : f = [frame EXCEPT !.resume = "none"]
    OBVIOUS
  <2>2. f \in FrameRecord
    BY <1>1, <2>1 DEF FrameRecord
  <2>3. /\ f.pc = frame.pc /\ f.env = frame.env /\ f.handlers = frame.handlers /\ f.resume = "none"
        /\ f.pending_exc = frame.pending_exc /\ f.pending_return = frame.pending_return
    BY <1>1, <2>1 DEF FrameRecord
  <2>4. FrameKept(code, f)
    BY <1>1, <2>2, <2>3, Flagged DEF FrameKept
  <2>5. here.id \in Nat
    BY <1>1, LinkedIs
  <2>6. QED
    BY <1>1, <1>4, <2>1, <2>3, <2>4, <2>5, UnwindKeeps
<1>5. QED
  BY <1>2, <1>3, <1>4 DEF Suspend

(* A suspended frame runs again from the instruction that suspended it.    *)
LEMMA RunsOnKeeps ==
  ASSUME FrameInv, code' = code, NEW c, RunsOn(c),
         status = "new" \/ (status = "waiting" /\ here.op \in {"await", "yield"})
  PROVE  FrameInv'
<1>1. /\ Linked(code) /\ FrameKept(code, frame) /\ frame \in FrameRecord /\ InContext(code, frame, frame.pc)
      /\ here = code[frame.pc]
  BY DEF FrameInv, FrameKept, here
<1>2. PICK r \in {"none", "value", "throw"} :
        frame' = [frame EXCEPT !.resume = r] /\ (status = "new" => r = "none")
  BY DEF RunsOn
<1>3. PICK g : g = [frame EXCEPT !.resume = r]
  OBVIOUS
<1>4. g \in FrameRecord
  BY <1>1, <1>3 DEF FrameRecord
<1>5. /\ g.pc = frame.pc /\ g.env = frame.env /\ g.handlers = frame.handlers /\ g.resume = r
      /\ g.pending_exc = frame.pending_exc /\ g.pending_return = frame.pending_return
  BY <1>1, <1>3 DEF FrameRecord
<1>6. FrameKept(code, g) /\ InContext(code, g, g.pc)
  BY <1>1, <1>4, <1>5, Flagged DEF FrameKept
<1>7. status' = "running" /\ frame' = g /\ here' = here
  BY <1>2, <1>3, <1>5 DEF RunsOn, here
<1>8. g.resume = "none" \/ here.op \in {"await", "yield"}
  BY <1>2, <1>5
<1>9. QED
  BY <1>1, <1>6, <1>7, <1>8 DEF FrameInv

LEMMA ResumeAsyncStep ==
  ASSUME FrameInv, ResumeAsync
  PROVE  FrameInv'
BY RunsOnKeeps DEF ResumeAsync

LEMMA ResumeGeneratorStep ==
  ASSUME FrameInv, ResumeGenerator
  PROVE  FrameInv'
<1>1. /\ status = "new" \/ (status = "waiting" /\ here.op \in {"await", "yield"})
      /\ code' = code
  BY DEF ResumeGenerator
<1>2. PICK c : Ends(frame, "return", 0) \/ Ends(frame, "throw", 0) \/ RunsOn(c)
  BY DEF ResumeGenerator
<1>3. Linked(code) /\ FrameKept(code, frame) /\ frame.resume = "none"
  BY <1>1 DEF FrameInv
<1>4. QED
  BY <1>1, <1>2, <1>3, EndKeeps, RunsOnKeeps

LEMMA FrameInitKeeps ==
  ASSUME FrameInit
  PROVE  FrameInv
<1>1. Linked(code) /\ frame = NewFrame /\ status \in {"new", "running"}
  BY JsFrameAssumption DEF FrameInit
<1>2. NewFrame \in FrameRecord
  <2>1. <<>> \in Seq(HandlerRecord) /\ Closure \in Seq(Nat)
    BY EmptySeq, ClosureIs
  <2>2. QED
    BY <2>1 DEF NewFrame, FrameRecord
<1>3. FrameKept(code, NewFrame)
  <2>1. /\ NewFrame.pc = 1 /\ NewFrame.env = Closure /\ NewFrame.handlers = <<>>
        /\ NewFrame.pending_exc = FALSE
    BY DEF NewFrame
  <2>2. 1 \in DOMAIN code /\ Len(Closure) > 0
    BY <1>1, ClosureIs DEF Linked
  <2>3. QED
    BY <1>2, <2>1, <2>2 DEF FrameKept
<1>4. code[1].s = <<>> /\ code[1].h = <<>>
  BY <1>1 DEF Linked, Context
<1>5. Closure \o <<>> = Closure
  BY ClosureIs, ConcatEmptySeq
<1>6. InContext(code, NewFrame, 1)
  BY <1>4, <1>5 DEF NewFrame, InContext, Named
<1>7. QED
  BY <1>1, <1>3, <1>6 DEF FrameInv, NewFrame

LEMMA FrameNextKeeps ==
  ASSUME FrameInv, [FrameNext]_frameVars
  PROVE  FrameInv'
<1>1. CASE Step
  BY <1>1, EvaluateStep, UpdateStep, ScopeStep, JumpStep, BranchStep, SetHandlerStep, ThrowStep,
     ReturnValueStep, EndFinallyStep, SuspendStep DEF Step
<1>2. CASE ResumeAsync \/ ResumeGenerator
  BY <1>2, ResumeAsyncStep, ResumeGeneratorStep
<1>3. CASE UNCHANGED frameVars
  BY <1>3 DEF FrameInv, frameVars, here
<1>4. QED
  BY <1>1, <1>2, <1>3 DEF FrameNext

(* Of all code that is linked as the compiler links it: whatever throws,   *)
(* returns, suspends and resumes, the handlers and the environment of a    *)
(* frame are those that the invariant names (run_frame,                    *)
(* unwind_to_handler, unwind_return_to_finally).                           *)
THEOREM FrameSoundness == FrameSpec => []FrameInv
<1>1. FrameInit => FrameInv
  BY FrameInitKeeps
<1>2. FrameInv /\ [FrameNext]_frameVars => FrameInv'
  BY FrameNextKeeps
<1>3. QED
  BY <1>1, <1>2, PTL DEF FrameSpec

(* Between any two instructions the handlers in force are those of the try *)
(* statements around the instruction, and the environment is that of the   *)
(* blocks around it, unless a jump of the program leaves a try or a block: *)
(* whatever it throws, returns and awaits, and whoever resumes it          *)
(* (unwind_to_handler, unwind_return_to_finally, gen_resume).              *)
THEOREM FrameStacksAreStatic == FrameSpec => []StacksAreStatic
<1>1. ASSUME FrameInv
      PROVE  StacksAreStatic
  <2>1. /\ Linked(code) /\ FrameKept(code, frame) /\ frame \in FrameRecord /\ frame.pc \in DOMAIN code
        /\ here = code[frame.pc]
    BY <1>1 DEF FrameInv, FrameKept, here
  <2>2. PICK hs : hs = frame.handlers /\ hs \in Seq(HandlerRecord)
    BY <2>1 DEF FrameRecord
  <2>3. ASSUME NEW j \in DOMAIN hs
        PROVE  hs[j].flags \in {"c", "f", "cf"} /\ hs[j].catch \in DOMAIN code /\ hs[j].fin \in DOMAIN code
    <3>1. HandlerKept(code, hs, j)
      BY <2>1, <2>2 DEF FrameKept
    <3>2. PICK a \in DOMAIN code : /\ a = hs[j].at /\ code[a].op = "handler" /\ hs[j].flags = code[a].l
                                   /\ hs[j].catch = code[a].to /\ hs[j].fin = code[a].fin
      BY <3>1 DEF HandlerKept
    <3>3. LinkedAt(code, a)
      BY <2>1 DEF Linked
    <3>4. code[a].l \in {"c", "f", "cf"} /\ code[a].to \in DOMAIN code /\ code[a].fin \in DOMAIN code
      BY <3>2, <3>3 DEF LinkedAt
    <3>5. QED
      BY <3>2, <3>4
  <2>4. FrameOK
    BY <1>1, <2>1, <2>2, <2>3 DEF FrameInv, FrameKept, FrameOK
  <2>5. ASSUME status \in {"running", "waiting"}
        PROVE  /\ LeavesNoTry(code) => [j \in DOMAIN frame.handlers |-> frame.handlers[j].at] = here.h
               /\ LeavesNoTry(code) /\ LeavesNoScope(code) => frame.env = Closure \o here.s
    <3>1. InContext(code, frame, frame.pc)
      BY <1>1, <2>5 DEF FrameInv
    <3>2. ASSUME LeavesNoTry(code)
          PROVE  [j \in DOMAIN hs |-> hs[j].at] = here.h
      <4>1. PICK n \in Nat : n = Len(hs) /\ DOMAIN hs = 1 .. n
        BY <2>2, SeqEntries
      <4>2. PICK h \in Seq(Nat) : h = here.h
        BY <2>1, LinkedIs
      <4>3. Named(hs, n, h)
        BY <2>1, <2>2, <3>1, <3>2, <4>1, <4>2 DEF InContext
      <4>4. DOMAIN h = 1 .. n /\ h = [j \in DOMAIN h |-> h[j]] /\ \A j \in 1 .. n : hs[j].at = h[j]
        BY <4>2, <4>3, SeqEntries DEF Named
      <4>5. QED
        BY <4>1, <4>2, <4>4
    <3>3. QED
      BY <2>1, <2>2, <3>1, <3>2 DEF InContext, LeavesNothing
  <2>6. QED
    BY <2>4, <2>5 DEF StacksAreStatic
<1>2. QED
  BY <1>1, FrameSoundness, PTL
=============================================================================
