-------------------------------- MODULE View --------------------------------
(***************************************************************************)
(* A page view: loading documents, the session history, form submissions,  *)
(* dynamic scripts and dedicated workers (malibu-view/src/view.cpp).       *)
(*                                                                         *)
(* Everything runs on one thread, but nested: a script may navigate while  *)
(* the load of its own document is on the stack, and every load runs tasks *)
(* again.  The stack is the sequence `todo` of steps still to be run, the  *)
(* innermost first: a call puts the steps of the callee in front.  Scripts *)
(* and handlers make any calls.  DOM event handlers do not navigate: that  *)
(* would destroy the binding that is dispatching to them.  A document is   *)
(* known by a number of its own, where the code compares its address.      *)
(***************************************************************************)
EXTENDS Integers, Sequences, FiniteSets

CONSTANTS
  Pages,         (* the pages that can be loaded                           *)
  NoPage,
  MaxRedirects,  (* submissions followed in one go (10 in the code)        *)
  Scripts,       (* scripts of a page                                      *)
  MaxLoads,      (* bound: documents loaded                                *)
  MaxCalls,      (* bound: calls made by scripts and workers               *)
  MaxWorkers     (* bound: workers constructed                             *)

ASSUME ViewAssumption ==
  /\ NoPage \notin Pages
  /\ MaxRedirects \in Nat \ {0}
  /\ {Scripts, MaxLoads, MaxCalls, MaxWorkers} \subseteq Nat

VARIABLES
  doc,           (* the document: its number and its page                  *)
  history, pos,  (* history_html_ and history_pos_, counted from 1         *)
  pending,       (* pending_navigation_url_                                *)
  processing,    (* processing_pending_navigation_                         *)
  todo,          (* the steps still to be run, innermost call first        *)
  tasks,         (* tasks of the page's event loop                         *)
  workers,       (* the WorkerStates; those of the document: workers_      *)
  mixed,         (* history: the last load began inside another one        *)
  calls

pageVars == <<doc, history, pos, mixed>>
formVars == <<pending, processing>>
vars == <<pageVars, formVars, todo, tasks, workers, calls>>

Step(op, arg) == [op |-> op, arg |-> arg]
Task(kind, of) == [kind |-> kind, of |-> of]

Idle == todo = <<>>
At(op) == ~Idle /\ Head(todo).op = op
Arg == Head(todo).arg
Call(steps) == todo' = steps \o todo             \* the caller continues later
Become(steps) == todo' = steps \o Tail(todo)     \* the step is done

-----------------------------------------------------------------------------
(* The steps of the functions of View *)

RunTasks == <<Step("engine", 0), Step("snapshot", 0), Step("engine", 0), Step("process", 0)>>

DoLoad(p) == <<Step("reset", p)>> \o [i \in 1 .. Scripts |-> Step("script", i)] \o RunTasks
               \o <<Step("handlers", 0)>> \o RunTasks \o <<Step("styles", 0)>>

LoadHtml(p) == DoLoad(p) \o <<Step("push", p), Step("process", 0)>>

CanLoad == doc.id < MaxLoads

(* the entry is read before the position moves *)
TargetStale(by) == history[pos]                  \* mutant
Target(by) == history[pos + by]

(* reload, go_back, go_forward *)
Traversals == {[pos |-> pos + by, steps |-> DoLoad(Target(by))] :
                 by \in {b \in {-1, 0, 1} : pos + b \in DOMAIN history}}

(* load_url, when the page is served; otherwise it changes nothing *)
UrlLoads == {[pos |-> pos, steps |-> LoadHtml(p)] : p \in Pages}

Navigate ==
  /\ CanLoad
  /\ \E n \in Traversals \union UrlLoads : pos' = n.pos /\ Call(n.steps)
  /\ UNCHANGED <<doc, history, mixed>>

-----------------------------------------------------------------------------
(* Loading *)

Terminated(w) == [w EXCEPT !.terminated = TRUE]

(* the workers are forgotten, not stopped *)
WorkersForgotten == workers                      \* mutant
WorkersAfterReset == [i \in 1 .. Len(workers) |-> Terminated(workers[i])]

(* where the loads under way end *)
Loading == {i \in DOMAIN todo : todo[i].op = "styles"}

(* another load is under way *)
Nested == \E i, j \in Loading : i # j

Reset ==
  /\ At("reset")
  /\ doc' = [id |-> doc.id + 1, page |-> Arg]
  /\ workers' = WorkersAfterReset
  /\ mixed' = Nested
  /\ Become(<<>>)
  /\ UNCHANGED <<history, pos, formVars, tasks, calls>>

Entries == IF history = <<>> THEN <<>> ELSE SubSeq(history, 1, pos)

(* history_pos_ = size() *)
LastEntry(entries) == Len(entries)

(* load_html enters the page and drops what was forward *)
Push ==
  /\ At("push")
  /\ history' = Append(Entries, Arg)
  /\ pos' = LastEntry(history')
  /\ Become(<<>>)
  /\ UNCHANGED <<doc, mixed, formVars, tasks, workers, calls>>

Styles ==
  /\ At("styles")
  /\ Become(<<>>)
  /\ UNCHANGED <<pageVars, formVars, tasks, workers, calls>>

-----------------------------------------------------------------------------
(* Pending navigations *)

(* a failing load_url leaves the flag set *)
FlagAfterFailure == TRUE                         \* mutant
FlagAfter == FALSE

(* process_pending_navigation starts *)
Process ==
  /\ At("process")
  /\ IF processing THEN Become(<<>>) /\ UNCHANGED processing
     ELSE Become(<<Step("redirect", 0)>>) /\ processing' = TRUE
  /\ UNCHANGED <<pageVars, pending, tasks, workers, calls>>

(* another round of its loop *)
Redirect ==
  /\ At("redirect")
  /\ \/ /\ Arg < MaxRedirects /\ pending # NoPage /\ CanLoad
        /\ Become(LoadHtml(pending) \o <<Step("redirect", Arg + 1)>>)
        /\ pending' = NoPage
        /\ UNCHANGED processing
     \/ /\ Arg < MaxRedirects /\ pending # NoPage         \* load_url fails
        /\ Become(<<>>)
        /\ pending' = NoPage /\ processing' = FlagAfter
     \/ /\ Arg = MaxRedirects \/ pending = NoPage
        /\ Become(<<>>)
        /\ processing' = FALSE
        /\ UNCHANGED pending
  /\ UNCHANGED <<pageVars, tasks, workers, calls>>

-----------------------------------------------------------------------------
(* Code of the page *)

Makes(call) == /\ call /\ calls < MaxCalls /\ calls' = calls + 1

(* location.assign, location.reload, history.back, forward and go *)
ScriptNavigates ==
  /\ At("script")
  /\ Makes(Navigate)
  /\ UNCHANGED <<formVars, tasks, workers>>

(* handle_form_submit *)
SubmitForm ==
  /\ At("script") \/ At("handlers")
  /\ Makes(\E p \in Pages : pending' = p)
  /\ UNCHANGED <<pageVars, processing, todo, tasks, workers>>

(* a script or link element is connected (prepare_connected_resource), or a
   timer is set, whose order among the tasks is EventLoop's business *)
PostTask ==
  /\ At("script") \/ At("handlers")
  /\ Makes(\E kind \in {"resource", "timer"} : tasks' = Append(tasks, Task(kind, doc.id)))
  /\ UNCHANGED <<pageVars, formVars, todo, workers>>

(* new Worker: its script runs at once, and may throw, or cannot be fetched *)
NewWorker ==
  /\ At("script") \/ At("handlers")
  /\ Len(workers) < MaxWorkers
  /\ Makes(workers' = Append(workers, [doc |-> doc.id, terminated |-> FALSE,
                                       inbox |-> 0, got |-> 0]))
  /\ LET w == Len(workers) + 1 IN
     Call(<<Step("worker", w)>>) \/ Call(<<Step("worker", w), Step("error", w)>>)
       \/ Call(<<Step("error", w)>>)
  /\ UNCHANGED <<pageVars, formVars, tasks>>

WorkerFails ==
  /\ At("error")
  /\ tasks' = Append(tasks, Task("error", Arg))
  /\ Become(<<>>)
  /\ UNCHANGED <<pageVars, formVars, workers, calls>>

(* worker.postMessage and worker.terminate *)
PostToWorker ==
  /\ At("script") \/ At("handlers")
  /\ \E w \in DOMAIN workers :
       /\ ~workers[w].terminated
       /\ Makes(workers' \in {[workers EXCEPT ![w].inbox = @ + 1],
                              [workers EXCEPT ![w] = Terminated(@)]})
  /\ UNCHANGED <<pageVars, formVars, todo, tasks>>

Returns ==
  /\ At("script") \/ At("handlers") \/ At("worker")
  /\ Become(<<>>)
  /\ UNCHANGED <<pageVars, formVars, tasks, workers, calls>>

-----------------------------------------------------------------------------
(* Tasks of the page and of its workers *)

(* the test each task makes before it runs script *)
Deliverable(task) ==
  CASE task.kind = "resource" -> doc.id = task.of
    [] task.kind \in {"message", "error"} -> ~workers[task.of].terminated
    [] OTHER -> TRUE

(* what a task runs; for a connected element its load or error event, after
   its script when it has one that can be fetched *)
Runs(task) ==
  IF ~Deliverable(task) THEN {<<>>}
  ELSE IF task.kind = "resource"
       THEN {<<Step("script", 0), Step("handlers", 0)>>, <<Step("handlers", 0)>>}
       ELSE {<<Step("script", 0)>>}

(* engine_.run_ready_tasks *)
Engine ==
  /\ At("engine")
  /\ IF tasks = <<>> THEN Become(<<>>) /\ UNCHANGED <<tasks, workers>>
     ELSE LET t == Head(tasks) IN
          /\ tasks' = Tail(tasks)
          /\ \E steps \in Runs(t) : Call(steps)
          /\ workers' = IF t.kind \in {"message", "error"} /\ Deliverable(t)
                        THEN [workers EXCEPT ![t.of].got = @ + 1] ELSE workers
  /\ UNCHANGED <<pageVars, formVars, calls>>

(* the numbers of S in order, a set with one sequence *)
InOrder(S) == {s \in [1 .. Cardinality(S) -> S] : \A i, j \in DOMAIN s : i < j => s[i] < s[j]}

(* run_tasks pumps the workers_ of this moment *)
Snapshot ==
  /\ At("snapshot")
  /\ \E now \in InOrder({w \in DOMAIN workers : workers[w].doc = doc.id}) :
       Become([i \in DOMAIN now |-> Step("pump", now[i])])
  /\ UNCHANGED <<pageVars, formVars, tasks, workers, calls>>

(* run_ready_tasks of a worker's engine, which quit() stops *)
Pump ==
  /\ At("pump")
  /\ IF workers[Arg].terminated \/ workers[Arg].inbox = 0
     THEN Become(<<>>) /\ UNCHANGED workers
     ELSE Call(<<Step("worker", Arg)>>) /\ workers' = [workers EXCEPT ![Arg].inbox = @ - 1]
  /\ UNCHANGED <<pageVars, formVars, tasks, calls>>

(* postMessage and close, called by the worker *)
WorkerCalls ==
  /\ At("worker")
  /\ ~workers[Arg].terminated
  /\ \/ /\ Makes(tasks' = Append(tasks, Task("message", Arg)))
        /\ UNCHANGED workers
     \/ /\ Makes(workers' = [workers EXCEPT ![Arg] = Terminated(@)])
        /\ UNCHANGED tasks
  /\ UNCHANGED <<pageVars, formVars, todo>>

-----------------------------------------------------------------------------
(* The host *)

HostNavigates ==
  /\ Idle
  /\ Navigate
  /\ UNCHANGED <<formVars, tasks, workers, calls>>

(* eval_js, of a script that may throw; dispatch_event; dispatch_mouse and
   dispatch_key, which run tasks *)
HostCalls ==
  /\ Idle
  /\ todo' \in {<<Step("script", 0), Step("process", 0)>>, <<Step("script", 0)>>,
                <<Step("handlers", 0)>>, <<Step("handlers", 0)>> \o RunTasks}
  /\ UNCHANGED <<pageVars, formVars, tasks, workers, calls>>

HostRunsTasks ==
  /\ Idle
  /\ todo' = RunTasks
  /\ UNCHANGED <<pageVars, formVars, tasks, workers, calls>>

-----------------------------------------------------------------------------

Init ==
  /\ doc = [id |-> 0, page |-> NoPage]
  /\ history = <<>> /\ pos = 1
  /\ pending = NoPage /\ processing = FALSE
  /\ todo = <<>> /\ tasks = <<>> /\ workers = <<>>
  /\ mixed = FALSE /\ calls = 0

PageCode == ScriptNavigates \/ SubmitForm \/ PostTask \/ NewWorker \/ PostToWorker

Run == Reset \/ Push \/ Styles \/ Process \/ Redirect \/ PageCode \/ Returns
         \/ WorkerFails \/ Engine \/ Snapshot \/ Pump \/ WorkerCalls

Next == Run \/ HostNavigates \/ HostCalls \/ HostRunsTasks

(* Code returns: what scripts may call is bounded.  The shell runs the tasks
   of its view in every round of its loop, whatever else it does there. *)
Fairness == WF_vars(Run) /\ SF_vars(HostRunsTasks)

Spec == Init /\ [][Next]_vars /\ Fairness

-----------------------------------------------------------------------------
(* Properties *)

(* The state has the expected shape. *)
TypeOK ==
  /\ doc \in [id : 0 .. MaxLoads, page : Pages \union {NoPage}]
  /\ history \in Seq(Pages) /\ pos \in 1 .. (IF history = <<>> THEN 1 ELSE Len(history))
  /\ pending \in Pages \union {NoPage} /\ {processing, mixed} \subseteq BOOLEAN
  /\ \A i \in DOMAIN tasks : tasks[i].kind \in {"resource", "timer", "message", "error"}
  /\ \A w \in DOMAIN workers : workers[w].doc \in 0 .. doc.id /\ workers[w].inbox \in 0 .. MaxCalls

(* When the host is in control, the history's current entry is the document
   the view shows (view.h, History). *)
EntryIsTheDocument == (Idle /\ history # <<>>) => doc.page = history[pos]

(* ... unless that document was loaded while another one was being loaded; and the
   history's position is always one of its entries. *)
EntryIsTheDocumentUnlessNested == TypeOK /\ (mixed \/ EntryIsTheDocument)

(* A message or error of a worker reaches only the document that constructed
   the worker, and only while the worker has not been stopped. *)
WorkersSpeakToTheirDocument ==
  [][\A w \in DOMAIN workers :
       workers'[w].got # workers[w].got =>
         workers[w].doc = doc.id /\ ~workers[w].terminated]_vars

(* The form a script submitted is navigated to, or another one is instead. *)
FormsAreNavigated == pending # NoPage ~> pending = NoPage
=============================================================================
