# Malibu, specified

Malibu is a web engine written from scratch in C++20: its own JavaScript engine
(MalibuJS), DOM, style and layout, renderers, network hosts and an embedding
interface (MalibuView).  This directory holds TLA+ modules of the parts of it that keep
state through long sequences of calls, where the order of calls, callbacks, threads
and failures decides whether it works; TLC configurations that check them on small
instances; and proofs, checked by TLAPS, that hold for every size.

Paths below are relative to the root of the repository.  Each definition that stands
for code is tied to its lines in `PROJECT.json` under `map`.

    tlc -config View.cfg View            # one run
    tlapm NodeTableProofs.tla            # the proofs

Contents: [1 The system](#1-the-system) - [2 The modules](#2-the-modules) -
[3 The runs](#3-the-runs) - [4 Fairness](#4-fairness) - [5 The proofs](#5-the-proofs) -
[6 What is only model-checked](#6-what-is-only-model-checked) -
[7 What the models show of the code](#7-what-the-models-show-of-the-code) -
[8 What is not modelled](#8-what-is-not-modelled) - [9 The plan](#9-the-plan)

## 1 The system

### 1.1 The parts and how they interact

    host program (malibu-shell, malibu-cef, malibu-electron, tools)
       |  navigate, run_tasks, input        ^ polled socket events
       v                                    |
    View (malibu-view) ---- fetch ----> resource loader (host) -- a thread per WebSocket
       |        |    \
       |        |     workers: a second interpreter and event loop each, same thread
       |        v
       |     EventLoop (core/event_loop) --microtasks--> Interpreter (js/runtime)
       |        timers, tasks, frames                      promises, frames, heap
       v                                                        |
    Document / DOMTree (dom) <--- DomBinding (js/dom_binding) <--+
       |       \--- DomCommandBuffer: batches of mutations
       v
    NodeTable: slots, generations, pins        style, layout, render: functions of the tree

One thread runs the host, the view, its scripts and all callbacks.  What makes this
hard is therefore not parallelism but **nesting**: a script that runs because a page
is loaded can navigate, a listener can register listeners or dispatch the event it is
handling, a job can wait for the event loop, a timer can clear itself.  Most functions
keep something across such a call: an index, an iterator, a copy of a list, a flag.
The one place with real threads is the loader: every WebSocket has a worker thread, a
queue of commands of its own and a queue of events shared by all.

### 1.2 The components

| Component | State | Operations | What is hard | What makes it correct |
|---|---|---|---|---|
| Node table `dom/node_table.cpp` | slots (generation, state, pins), free list, one mutex | alloc, free, pin, unpin, set_state, resolve | reuse of slots; 8-bit pins; a handle freed twice | handles are unique; a live or pinned node keeps its slot; the free list holds dead slots once |
| Document and tree `dom/document.cpp` | node cores (type, parent, children, attributes), root, cached connectivity | create, append_child, insert_before, remove_child, set_text_content | moves within one parent; fragments; cycles; caches kept by hand; nodes that are pending or freed | parents and children agree, no cycle; the cache is the reachability from the root; insert_before inserts where it says |
| Command buffer `dom/dom_command_buffer.cpp` | pending commands, pins | push, flush | a flush that fails half way; direct mutations and frees between push and flush | pins count references; referenced nodes live; a failed flush keeps exactly the rest |
| Event loop `core/event_loop` | tasks, microtasks, timers, frame callbacks, virtual clock | post, set/clear timers, request/cancel frames, run_one_iteration, run_until_idle, run_ready_tasks, shutdown | callbacks that call any of these; two microtask queues that feed each other; unsigned times | a checkpoint after every task; cleared timers stay dead; the next frame waits; a ready run returns |
| Promises and async functions `js/runtime/interpreter.cpp`, `builtins.cpp`, `js/engine.cpp` | promises with reactions, the microtask queue, suspended frames | resolve, reject, then, await, drain, await_settled | thenables and promises as values, self resolution, waiting inside a job, scripts that throw | settled for good; reactions once and in order; one waker for a suspended frame; every job runs |
| Compiler and interpreter `js/compiler`, `js/runtime/interpreter.cpp` | bytecode; registers, pc, environment, handlers, pending exception and return of a frame | statements and their code, run_frame, unwind, suspension, resumption | jumps out of blocks and try statements, finally, suspension inside try, generator return() | a call does what its source says; handlers and environments are those of the statements around the instruction |
| DOM events and focus `js/dom_binding.cpp` | listeners, on-type attributes, host roots, focused element | add/removeEventListener, dispatchEvent, stopPropagation, focus, blur | listeners that change lists, re-dispatch, stop or move the focus; garbage collection in between | each due listener is called once; only live functions are called; a stop stops; the focus settles |
| View `malibu-view/src/view.cpp` | document, history, pending navigation, dynamic scripts, timers, workers | navigate, load_html, go, reload, run_tasks, submissions, worker messages | loads inside loads; redirect chains; messages that outlive their page | the history's entry is the document; messages reach only the page that owns the worker; submissions are followed |
| WebSockets `malibu-view/src/view.cpp`, `host/curl_resource_loader.cpp`, `malibu-shell/src/main.cpp` | WebSocket objects, sockets_, connections, command and event queues, threads | construct, send, close, poll, the worker's loop, navigation, shutdown | the worker races close, navigation and shutdown; iterators kept across handlers; lost wake-ups | events in protocol order; threads joined once; sends in order; close is answered |
| Parser `js/parser/parser.cpp` | position, error and the `in` flag of a recursive descent; the lexer's position | tokenize, parse | what a slash begins; templates inside templates; lookahead for arrow functions and patterns; inserted semicolons | a tree that is written down is the tree that is read |
| Expressions `js/compiler/compiler.cpp` | registers in use, jumps to patch | compile_expr and what it calls | order and number of evaluations, optional chains, long argument lists, classes, destructuring | effects in the order of the language, each once |
| HTML `html/html_parser.cpp` | stack of open elements, collected scripts and sheets | parse, parse_fragment | end tags that are left out; raw text | the tree the text was written from |
| CSS `css/parser`, `css/selector`, `css/style`, `css/invalidation` | sheets, computed styles, dirty nodes | parse, match, resolve, recompute | skipping what is malformed; specificity; shorthands, var(), inheritance; what to recompute first | agreement with a definition; a recomputation leaves what a full one gives |
| Layout `layout/layout_engine.cpp` | boxes, floats | layout, hit_test | boxes that are measured in one place and moved to another | boxes where their kind of layout says, contents with them |
| WebAssembly `wasm/wasm.cpp` | modules, stack, memory, tables, globals | decode, instantiate, invoke | branches, traps, 32-bit arithmetic | a structured program does what its structure says |
| Network `network`, `security` | HTTP cache, policy, half-read frames | fetch, feed | a cached entry that is stale; frames cut anywhere | the page gets what is current; messages arrive whole |
| Storage `storage` | cookies, Web Storage, databases, response caches | set, get, delete, clear | cookies of overlapping domains and paths | the last write of each key |
| Electron and service workers `malibu-electron`, `malibu-app-runtime` | realms, channels, listeners, promises | send, invoke, push, fetch | two realms that call each other in the middle of a script | every message to every handler, in order |
| Heap `js/heap/heap.cpp`, and the roots in `js/runtime` | objects, temporary and host roots, suspended and generator frames | allocate, mark, sweep; call, call_async, natives that call back, jobs, timers | a collection before any instruction of a callback, while C++ code holds values | nothing that is still used is freed; roots are taken off as they were put on |
| Realm, objects, built-ins, wrapper cache | property tables, wrappers | the library | iteration while a collection changes | not modelled (section 8) |
| Rendering, canvas, GL, fonts, images, platform, tools | buffers | draw, decode | arithmetic, drivers and libraries | outside a state model (section 8) |

The hazards, each at its line, with the properties that guard it, are the list
`hazards` of `PROJECT.json`.

## 2 The modules

    NodeLives <-- implemented by -- NodeTable <-- INSTANCE -- DomTree <-- EXTENDS -- DomCommandBuffer
                                        ^                                               ^
                                        | EXTENDS                                       |
                                    NodeTableProofs                               DomTreeProofs

    EventLoop        JsPromise      JsFrame <-- EXTENDS -- MCJsFrame -- INSTANCE --> JsCompiler
        ^                ^             ^
        | EXTENDS        |             |
    EventLoopProofs    InterpreterProofs

    WebSockets          View          DomEvents
        ^                ^                ^
        | EXTENDS        |                |
    WebSocketsProofs  ViewProofs   DomEventsProofs      SequenceLemmas

    MCLanguage -- INSTANCE --> MCJsLexer        JsLexer
                               MCJsParser       JsParser, with the reference JsGrammar
                               MCJsExpressions  JsExpressions
                               MCWasm           WasmMachine, WasmNumbers
                               JsHeap
    MCPage     -- INSTANCE --> MCCss            CssCascade > CssSelector > CssParser
                               MCLayout         Layout
                               MCServices       FetchEngine, Storage, ElectronRuntime, ServiceWorker
                   EXTENDS     HtmlParser, WebSocketFrames

SequenceLemmas, which all proofs but those of NodeTable and EventLoop extend, says of the
operators on sequences that the modules use (entry replaced, appended, removed, inserted,
two sequences joined, a prefix taken) what the result's length and entries are; and two facts about
numbers, that a set of them has a least one (`Least`) and that one can count up to each (`Counting`).

The state machines of the upper part have one action per operation.  The algorithms of the
lower part are operators, one per function of the code, on records that stand for the
objects the code changes.  A composing module has one variable, `subject`: an input of one
of the algorithms that grows by one construct per step (a lexeme, a node, a declaration, a
child, a word of a program, a fetch, a write).  What must hold of a subject compares what
the algorithm makes of it with what it was written from, or with a definition that is
written from the language and not from the code.

Conventions.  A module begins with what it abstracts.  Operators named for a function of
the code translate it; a definition marked `\* mutant` is a plausible wrong version
of the one that follows it, which `PROJECT.json` uses to show that a property would
notice; nothing else refers to it.  Constants named `Max...` are bounds of the state
space that the code does not have, and they appear in guards only; constants that
are booleans (`FreesOnce`, `CollectsInNext`, `RefillsWalked`, `RootMoves`, `MarksPending`,
`FreesNodes`) say what the environment, the code's callers, may do.
Variables commented `history` record what happened, for a property; no guard reads them.

**NodeTable** models `dom/node_table.cpp`.  `table.slots[i]` is the slot `i - 1` of the
vector, `table.free` the vector `free_list_`.  One mutex serialises the member
functions, so each is one step: `Alloc`, `Free`, `Pin`, `Unpin`, `SetState`; `Resolves`
is `resolve`.  `free` refuses a pinned or stale handle, `unpin` saturates at zero,
`pin` wraps modulo `PinMod` (an 8-bit counter in the code).  `issued` is the set of
handles ever given out.  With `FreesOnce` FALSE, owners may free a handle twice.
The operators take the table as an argument, so that other modules build one step of
theirs from several calls.

**NodeLives** is what the table promises those who hold handles (`core/include/malibu/types.h`): no
slots, generations or free list, only a node for each handle, which lives, is pinned and changes
its state while it lives, and dies once, whatever happens to the others.  NodeTable maps a
handle that is current to its slot's state and pins, and one that is stale to a dead node;
`EachHandleIsANode` says that under this mapping it implements NodeLives.

**DomTree** models `Document` and `DOMTree` of `dom/document.cpp`, as functions from
a tree (table, cores, root) to a result (tree, error): `InsertBefore`, `AppendChild`,
`RemoveChild`, `SetTextContent`, with the order of their checks, the treatment of
fragments, the detaching from the old parent and the update of the cached states
(`WithConnectedState`).  The walks of the code, up the parents (`AncestorsOrSelf`) and down
the children (`Visited`), are written as the least set of nodes that holds the first node and
is closed under the step of the walk, which is what a walk without a repetition visits; that
there is no repetition is what `IsForest` says.  Children are distinct, so `std::erase`
takes one place out (`Without`).  Attributes, names and text are left out.  Hosts may mark nodes
`PendingDestroy` and free them.

**DomCommandBuffer** adds the queue of `dom/dom_command_buffer.cpp`.  `Push` pins target
and argument; `Flush` applies, unpins and stops at the first failure; the
direct calls of DomTree, and frees, go on in between.

**EventLoop** models `core/event_loop/event_loop.cpp`.  Entries of the task and
microtask queues are interchangeable and counted; `timers` maps ids to fire time,
interval and liveness; `frames` and the `batch` being rendered are sets of ids.  The
loop's functions are spread over `pc` (`select`, `task`, `microtasks`, `jobs`, `frames`,
`frame`, `reap`): at each point where the code calls a callback, the callback may make
any number of scheduling calls (`CallbackCall`) and then returns
(`CallbackReturns`).  `jobs` is the engine's own microtask queue behind the hook.
Times are unsigned integers modulo `ClockMod`, so that a sum that wraps is a sum that
wraps.

**JsPromise** models promises, the microtask queue and async functions.  A heap is a
record [promises, jobs, frames, open, reactions] and the functions of the
interpreter are functions of it: `Settled` (settle_promise), `Resolved`
(resolve_promise), `Chained` (promise_then), `Driven` (drive_async), `RunMicrotask`
(run_microtasks).  Script is what calls them, in any order, in a turn the host starts,
in a job, or in a call that waits (`AwaitSettled`).  Values are plain, a thenable
whose `then` is script, or a promise: that is what resolving distinguishes.

**JsCompiler, JsFrame** model the path of statements through MalibuJS.
`FunctionCode` compiles a syntax tree to instructions as `compiler.cpp` does: the jumps,
scopes and handlers of every statement.  JsFrame is
`Interpreter::run_frame` for these instructions, whatever compiler they come from, with `Unwind`, `Return`, the
suspension of async functions and generators and their resumption (`ResumeAsync`,
`ResumeGenerator`).  The reference in MCJsFrame is written from the language and not
from the code: a statement completes normally or with a break, continue, return or
throw.  Since the environment's choices (throws, conditions, outcomes of awaits) are
recorded, the same choices can be given to the reference and the results compared.
MCJsFrame also generates the programs and compiles them.  What JsFrame expects of the code it is given is
`Linked`, an assumption of the module: each instruction leads only to instructions of the function, and
was compiled in the context, of scopes and handlers, that the ones before it leave behind.  TLC
evaluates it, for each of the 3,284 programs of MCJsFrame as JsCompiler compiles it.

**WebSockets** spans three files.  The browser thread's code is cut where it calls
script or joins a thread (`call`); the worker of a connection is cut where it gives up
the lock or calls curl (`Connect`, `TakeCommands`, `Stop`, `Receive`).  `sockets_` is
the sequence `registered` with the vector's `capacity`, because an iterator into
it is kept across handlers.  The peer is whatever curl may report.

**View** models loading and what runs because of it.  The C++ call stack is the
sequence `todo` of steps still to run; a call puts the callee's steps in front.  So a
script that navigates while its page is loaded is a load above a load, as in
the code.  `RunTasks`, `DoLoad`, `Push`, `Process`, `Redirect`, `Snapshot` and `Pump`
are the member functions of those names or their loops.

**DomEvents** models the event part of `js/dom_binding.cpp`.  `stack` holds the
dispatches under way, and what waits for a call of `focus()`; a dispatch reads
the path when it starts, copies the listeners of a node when it arrives there, and
calls them one by one; each call may do anything, including `Collect`, a run of the
garbage collector that frees what no root holds.

**JsLexer, JsParser, JsGrammar** model `js/parser/parser.cpp`.  A scanner of JsLexer maps a
position to the one after what it accepts; characters stand for their class.  A function
of the class TokenParser is an operator from a parser (tokens, position, error, `no_in_`, nodes so
far) to a parser, with the same lookahead and the same order of attempts.  JsGrammar writes
a tree as text by the grammar of ECMAScript: in parentheses where the grammar asks for something
that binds tighter, with semicolons or with line ends.

**JsExpressions** models `compile_expr` and what it calls: which register takes which value,
in which order, and where the jumps of optional chains, conditionals and logical
operators go; and the instructions of the interpreter that run the code.  What an
effect returns is left open: a world numbers the effects.  The reference in
MCJsExpressions evaluates the tree by the reference records of the language in the same
world, and effects are compared.

**WasmNumbers, WasmMachine** model `wasm/wasm.cpp`: LEB128, the integer instructions and
conversions, `decode`, `instantiate`, and the interpreter of a function's code with its search
for the ends of blocks.  Sizes are scaled: a byte has one bit, an i32 four, an i64 eight.
MCWasm gives programs a meaning by recursion over their blocks, and numbers theirs by
arithmetic.

**JsHeap** models the heap and everything that holds objects while scripts run.  A script works
on arrays, functions (plain, async, generator), environments, promises and their resolving
functions; `Struck` collects before each of its instructions, which frees whatever any
collection could.  `stack` is the C++ stack: of an entry, `called` is what `call_functions_`,
`call_receivers_` and `call_arguments_` hold, and so mark; `held` is what C++ locals hold and
use when the callback returns, and which nothing marks by itself.  `Delivered`, `Finished` and `Thrown` say
what the natives do then: the Promise constructor, `map`, `drive_iterator`, a job of
`run_microtasks`, a timer.  Frames belong to the stack, to `suspended_frames_` or to a generator.

**HtmlParser** models the one pass over a text, its stack of open elements, the implied end
tags, raw text and entities.  **CssParser** models rules, conditions, strings and comments, and
what is skipped; **CssSelector** parsing, specificity and matching of selectors;
**CssCascade** values, shorthands, `var()`, the cascade, inheritance and the recomputation
of dirty nodes.  **Layout** builds boxes and lays them out: block, inline, float, positioned,
flex, grid and table, and hit testing; lengths are integers.

**FetchEngine** models origins, the content security policy, the cache and a fetch over a
transport and servers whose representations change; **Storage** the cookie jar and the stores of
an origin; **WebSocketFrames** the encoding of frames and the reassembly of messages from a
stream that is cut anywhere; **ElectronRuntime** the realms of a main script and its windows, which
call each other in the middle of a script, with what is thrown, where it is caught, and the one
checkpoint for which an asynchronous handler is waited for; **ServiceWorker** the lifecycle of a worker
and its answers.

## 3 The runs

Every property has at least one mutant of a mapped definition that violates it
(`mutants` in `PROJECT.json`), so each is known to depend on the code it is about.

| Run | States | What it asks |
|---|---|---|
| `node_table` | 61,996 | `EachHandleIsANode`: the table implements NodeLives, so what is done through one handle shows through no other. `HandlesAreUnique`: alloc never returns a handle twice. `LiveKeepsItsSlot`: nobody's calls make the handle of a live or pinned node stale. `FreeListSound`: the free list holds dead, unpinned slots, each once |
| `dom_tree` | 37,924 | `IsForest`: parents and children agree and there is no cycle; `StateIsConnectivity`: the cached state is reachability from the root; `InsertIsExact`: insert_before puts the child just before the reference and moves nothing else |
| `dom_buffer` | 23,587 | `PinsAreReferences`: a node is pinned once for every reference of a queued command, also after a flush that failed half way; `QueuedNodesSurvive` |
| `event_loop` | 365,448 | `CheckpointBeforeTask`, `FinishedTimersStayDead`, `NothingIsEarly` (a frame waits for the next frame, and two calls of an interval are its length apart), and the liveness property `ReadyRunReturns` |
| `js_promise` | 60,785 | `ReactionsRunOnceInOrder`, `OneWakerPerSuspendedFrame`, and the liveness property `JobsRun` |
| `js_frame` | 299,496 | `FollowsTheSource`: a call does what the reference says; `StacksAreStatic`: handlers and environment are those of the statements around the instruction |
| `js_frame_scopes` | violated | `EnvironmentsAreLexical` without the exclusion: see 7.1 |
| `dom_events` | 2,041,344 | `ListenersAreCalledOnce`, `CalledAreAlive`, `FocusSettles` |
| `view` | 539,318 | `EntryIsTheDocumentUnlessNested`, `WorkersSpeakToTheirDocument`, and the liveness property `FormsAreNavigated` |
| `web_sockets` | 2,420,021 | `BothEndsSeeTheProtocol` (handlers are called in the order of the protocol, and sends arrive in order), `EveryWorkerWillBeJoined`, `CloseIsUnderWay`, `OnlyClosedSocketsAreForgotten` |
| `language` | 298,136 | `ProgramsReadAsWritten` (lexer and parser), `EvaluatesAsWritten` (expressions), `ModulesRunAsDefined` (WebAssembly), `HeapIsSound` (nothing that is used is freed, and roots balance) |
| `page` | 370,123 | `TextsParseAsWritten` (HTML and CSS), `SelectorsMatchAsDefined`, `StylesFollowTheCascade`, `BoxesAreInPlace`, `FetchesAreCurrent`, `StoresAreLastWrites`, `MessagesArriveWhole`, `HandlersAnswer` |

The type invariant of a module is the first conjunct of one of the invariants of its run; that of
NodeTable is proved, and its run checks what follows from it.
The properties of `language` but the last, and the first four of `page`, are stated of steps
(`[][...]_subject`), of the subject after the step: an initial subject is empty, and what
is compared is long; TLC's statistics of coverage unroll what an invariant calls.

### Bounds, and why they are enough

- `node_table`: three slots, generations up to 2, so a slot is used three times,
  pins modulo 3, so that the counter wraps.  A wrong reuse shows with one slot used twice;
  three slots let two owners interleave with a third node live.  With `FreesOnce` FALSE,
  `EachHandleIsANode` fails: two allocs take a slot that was freed twice.  The proofs of section 5 hold for
  every value of these bounds.
- `dom_tree`: four slots, one the document: enough for a node to move between two parents,
  for a cycle of three, for a fragment with two children and for a shift of positions
  within one parent.  Generations are not needed here (0): reuse is NodeTable's question.
  Text nodes behave like elements without children and are left out of the cfg.
- `dom_buffer`: two commands (three kinds) over two nodes and the root, the smallest
  batch in which the second can fail after the first.  `PinMod` is 256 as in the code, and
  is not reached: with 256 pending commands on one node the counter wraps to 0 and
  `QueuedNodesSurvive` fails (set `PinMod` to 2 to see it).
- `event_loop`: two ids, one entry of each queue, delays 0 and 1, and two iterations per
  capped run.  An interval and a frame, two intervals or two frames can meet; a callback can
  clear itself or the other.  `ClockMod` is large: wrapping needs a negative delay (7.2).
- `js_promise`: two promises, one async call, three reactions: a chain, a cycle of two
  promises, an await of a promise that another job settles.
- `js_frame`: one leaf statement of 9 kinds inside two contexts of 15 kinds, and possibly
  a third (`try/catch/finally`) around them, and four choices of the environment, which is
  enough to go round a loop, throw, and throw again in the handler.
- `dom_events`: a path of two nodes, two functions registered on it, scripts two deep, and
  one call by what the dispatches run until the stack is empty (the host's scripts call as
  often as they like): an inner dispatch can change what the outer one has still to call.  Type `blur` lets dispatches of script and those of focus meet; functions are
  interchangeable (symmetry).  Scripts drop functions as they like, so the run reaches the call
  of a function that was collected while its listener, removed, waited in a copy (7.2).
- `view`: two pages, three loads, three calls of scripts, one worker and `MaxRedirects` 2
  for the 10 of the code, so that the limit is passed.
- `web_sockets`: two connections, two sends, one message of each peer: two threads share the
  event queue, a send and a close meet in one command queue, or in two.

- `language`: texts of three lexemes with every pair that may touch; a tree is a leaf in two
  contexts, so every construct occurs below and above every other; of statements, two after each
  other; expressions likewise, with calls of three arguments where two go in registers; programs
  of five words, which hold a block in a block with a branch out of both; integers of 4 and 8
  bits take all values; a heap of eleven objects and four frames, five instructions from a
  state with an array of arrays or a pending promise: a timer set twice, an await that is
  resumed, a promise that is dropped in its executor, a map whose callback empties the array all
  fit (six instructions, 492,256 states of the heap alone, show the same).
- `page`: documents of two top-level elements with their contents, sheets of two constructs,
  selectors of three compounds over the trees of five nodes, two rules over a document of three
  elements,
  containers with two children of every kind; two fetches with a change of the representation
  before each; three writes to the stores by documents of three origins; three frames cut at every
  byte; two operations of the main script and of a page each; three listeners of a worker.
  Lengths of a frame are scaled to bytes below 2, so that all three forms of a length occur.

Deadlock is checked, but for `js_frame` (a function ends), `web_sockets` (the host
ends with the destructor), `language` and `page` (a subject is complete at its bound).

## 4 Fairness

Fairness is only assumed of code that is not waiting for anybody.

- EventLoop: `WF_vars(RunStep)`: a callback that was entered returns and the loop's own code
  runs on.  Callbacks may schedule for ever, so `ReadyRunReturns` excepts microtasks that
  never end, as the code does; it does not except timers, tasks or frames.
- JsPromise: `WF_vars(Engine)`: the engine's code and scripts end; `SF_vars(Pump)`: the host
  keeps running its event loop, which drains the queue; strong, because the host
  may start another script in between, which is what `malibu-shell/src/main.cpp` does.
- View: `WF_vars(Run)` and `SF_vars(HostRunsTasks)`: the shell calls run_tasks in each round
  of its loop, whatever else it does.
- The others have no fairness: what is stated of them is safety.  For a close that must be answered, WebSockets states the safety
  part: something that leads to the answer exists (`CloseIsUnderWay`).

## 5 The proofs

The theorems hold for every value of the constants that satisfies the module's assumption
(`NodeTableAssumption`, `DomTreeAssumption` and so on: the bounds are natural numbers, the
moduli not zero, the switches booleans).  What a theorem needs beyond that is in its
`ASSUME`, and named below.  Each inductive invariant was an invariant of a TLC run of
its module, at the bounds of section 3, before it was proved.

Every proof of a safety property has the same form: the initial states satisfy the
inductive invariant; each action preserves it, with one lemma per action or per operator
that the action is built from; and it implies the property.  `Spec => []Inv` follows by PTL.

### 5.1 NodeTableProofs

| Theorem | Statement |
|---|---|
| `TypeCorrect` | `Spec => []TypeOK` |
| `StaleIsDetectable` | `Spec => []GenerationsReached`: no handle is from the future of its slot |
| `FreeListIsSound` | if owners free once, `Spec => []FreeListSound` |
| `AllocReturnsFreshHandles` | `Spec => HandlesAreUnique`, even after double frees |
| `NoLiveHandleIsMadeStale` | if owners free once, `Spec => LiveKeepsItsSlot` |
| `TableImplementsLives` | if owners free once, `Spec => EachHandleIsANode`, the refinement of NodeLives |

The invariant is `TableInv`: types, `GenerationsReached`, and, if `FreesOnce`,
`FreeListSound`.  `FreeListSound` alone is not inductive.  That a free pushes a
slot that is not in the list yet needs the handle's slot not to be dead, so that it is
not in a list of dead slots; that alloc returns a fresh handle needs every handle given
out for the slot to have a generation it has reached, so that the next one is larger.
And an alloc under a sound list takes a dead, unpinned slot, so it disturbs no handle that
resolves and no pinned one.  `GenerationsReached` does not need `FreesOnce`,
which is why uniqueness survives owners that free twice.

The steps of pin, unpin and set_state change one slot and neither its generation nor the
list: `PinTouches`, `UnpinTouches` and `StateTouches` say so, `TouchKeeps` draws the
conclusion for all three.  `FreeKeeps` and `AllocKeeps` treat the other two, `StepKeeps`
puts them together, and the temporal theorems follow.

The refinement uses `TableInv` and one lemma for each function (`PinSeen`, `UnpinSeen`, `StateSeen`,
`FreeSeen`, `AllocSeen`), which says what its step is under the mapping.  A slot is seen through one
current handle at most, so a step that changes a slot and keeps its generation changes one node
(`OneChanges`).  A call through a stale handle, an unpin at zero and a free that is refused are
stutters.  `AllocSeen` is where the generations earn their keep: the reused slot's old
handle is seen as dead and unpinned before the step, since the slot is on a sound free list, and after
it, since it has become stale; and nobody had the new handle.

### 5.2 DomTreeProofs: the document

| Theorem | Statement |
|---|---|
| `Soundness` | `Spec => []Inv` |
| `TypeCorrect` | `Spec => []TypeOK` |
| `Forest` | `Spec => []IsForest`: parents and children agree, and there is no cycle |
| `ConnectivityIsCached` | if `RootMoves` is FALSE, `Spec => []StateIsConnectivity` |
| `InsertionIsExact` | `Spec => []InsertIsExact` |

The invariant is a property of a tree, `Sound(t)`, so that the operators, which map trees to
trees, can be treated one by one: `WellMade` (the types, a table whose free list
holds dead, unpinned slots once, handles no newer than their slots), `Agree` (the two
directions of the links, children distinct), `NoCycle`, and, unless scripts move the
document itself, `Cached` (the root has no parent, and the state of a node whose ancestors are
all open is its connectivity).  The properties are not inductive without the rest: a new
node must get a handle that no parent or list of children mentions, which is what
`WellMade` says of the table.
`Cached` needs the hypothesis: a document that is appended to a detached
element is cached as detached together with everything that is shown (section 7.2).
For the walks, `AncestorsLeast` and `AncestorsStep` give induction and unfolding of the set of
ancestors; `AncestorsKept` says whose ancestors a change of links does not touch.
`RelinkedAgrees`, `RelinkedNoCycle` and `RelinkedCached` treat all mutations at once: a tree
in which some nodes have been given another parent, or none, none of them above it, is
agreed, acyclic, and, after `update_connected_state` of those nodes, cached.  Its heart is
`ReachedBelow`: what the walk down from a node visits is what has that node above it
through open nodes.  The insertion of a fragment's children one by one is a recursive function;
`Counting`, an instance of the well-foundedness of the numbers, carries `Sound` along it.

TLC checked `Inv` in the 37,924 states of `dom_tree`, and with `RootMoves` TRUE in 306,720.

### 5.3 DomTreeProofs: the command buffer

| Theorem | Statement |
|---|---|
| `BufferSoundness` | `BufferSpec => []BufferInv` |
| `BufferedForest` | `BufferSpec => []IsForest` |
| `PinsCountReferences` | `BufferSpec => []PinsAreReferences` |
| `QueuedNodesLive` | `BufferSpec => QueuedNodesSurvive` |

All four assume `PinMod > 2 * MaxCommands`: a command has two references, and a pin count that
reached `PinMod` would wrap to zero.  In the code `PinMod` is 256 and the queue has no bound, so
the theorems speak of queues of up to 127 commands; what happens beyond is in section 7.2.

The invariant is again a property of a tree and a queue, `BufferSound(t, q)`: the tree is `Sound`,
the commands are on nodes that exist (`Command`), and the pins of every live node are its
references.  The lemmas about the tree's own steps are used through what they say
of each mutation besides soundness: `Lives` (no node comes to life or dies, nothing is pinned or
unpinned, new nodes are unpinned) of the operators a flush applies, and `Ages` (the same, but nodes
that are not pinned may die) of the owner's steps.  That is where the table's refusal to free a
pinned node enters.  New nodes start with no pins because no pending command
can refer to a handle that was not given out yet, so `Sound`, which bounds the handles, is needed too.

References are counted from a place of the queue on, `Count(q, a, h)`, and `CountStep`,
`CountPushed` and `CountLeft` say how the count changes with one command, a push and the removal of the
applied prefix, from the library's facts about cardinality.  `TurnKeeps` is the invariant of the flush
loop: after n turns the tree is sound, the nodes that were there live or not as before, and the
pins are the references of the commands not applied, whether or not one has
failed.  `FlushKeeps` carries it through the loop by `Counting`.

TLC checked `BufferInv` in the 23,587 states of `dom_buffer`.

### 5.4 EventLoopProofs

| Theorem | Statement |
|---|---|
| `TypeCorrect` | `Spec => []TypeInv` |
| `CheckpointsAreComplete` | `Spec => []CheckpointBeforeTask` |
| `FinishedTimers` | `Spec => []FinishedTimersStayDead` |
| `NothingRunsEarly` | for every `most` with `ClockIsWideEnough(most)`, `Spec => NothingIsEarly` |

`TypeInv` adds to the types that no id is in use before it was handed out, without which a new
timer could take the id of a cleared one.  `Checkpoint` adds to
`CheckpointBeforeTask` what the checkpoint leaves where a run goes on to reap.
`FinishedTimersStayDead` is inductive beside `TypeInv`.

`NothingIsEarly` is false of a clock that wraps, so its theorem has a hypothesis:
`ClockIsWideEnough(most)` says that delays are in `0 .. most` and that the latest time that can
be reached, `Limit(MaxIterations + 1, most)`, is below `ClockMod`.  The invariant `ClockInv(most)`
bounds the time of the n-th turn by `Limit(n, most)` and every due time by the longest
delay from now; then no sum of the code wraps.  The code's clock has 64 bits and counts milliseconds; what
the hypothesis excludes there is negative delays (section 7.2).

### 5.5 InterpreterProofs: promises

| Theorem | Statement |
|---|---|
| `Invariant` | `Spec => []Inv` |
| `TypeCorrect` | `Spec => []TypeOK` |
| `ReactionsInOrder` | `Spec => []ReactionsRunOnceInOrder` |
| `OneWaker` | `Spec => []OneWakerPerSuspendedFrame` |

The invariant is a property of a heap, `Kept(heap, run)`, where `run` are the frames at work:
`Sound` and `FramesKept`.  Of `Sound`, `Shape` are the types; `InOrder` orders the lists and the
queue by the numbers of the reactions and says that only a pending promise has a list;
`WokenOnce` says that the places, in the lists and in the queue, from which a frame is resumed are
one at most; `Untouched` says of the result promises of unfinished calls that nothing in lists or
queue can settle them.  That last part is what makes the invariant inductive: without it a job
could settle the result of a frame that is still suspended.
`FramesKept` ties statuses to wakers: suspended if and only if woken, running if and only if at
work, and two unfinished calls have different results.  A job that runs script is held to
the same (`UnderWay`).  TLC checked `Inv` in the 60,785 states of `js_promise`.

Each function of the interpreter has a lemma that it keeps this (`SettledOnce`,
`ChainedOnce`, `ResolvedOnce`, `PoppedOnce`, `DrivenKept`, `CalledKept`, `EnteredKept`,
`LeftKept`): between the pop of a job and the end of the frame it resumes, the heap is kept with
one more frame at work.

### 5.6 InterpreterProofs: frames

| Theorem | Statement |
|---|---|
| `FrameSoundness` | `FrameSpec => []FrameInv` |
| `FrameStacksAreStatic` | `FrameSpec => []StacksAreStatic` |

The theorems are about any function whose code is `Linked` (`JsFrameAssumption`), and any number of
choices.  That JsCompiler links every program would be an induction over its syntax; TLC checks it for
those of MCJsFrame.  A jump of the program itself, `break` or `continue`, is linked to its target
whatever it leaves behind, since the compiler forgets the context there (section 7.1).

`StacksAreStatic` speaks of the handlers by their place in the code and is not inductive: an exception
or a return makes the machine go on with what a handler recorded when it was pushed.  `FrameInv`
says of every handler on the stack what that was (`HandlerKept`): the operands of its instruction, the environment
of the context of this instruction, and, below it on the stack, exactly the handlers of that context.
`InContext` says the same of the frame at the next instruction.  So `Taken`, the step that
`Unwind` and `Return` share, drops some handlers and lands in the context that the handler's target was
compiled in, which is the one in which the handler was pushed; the handlers left are those of that
context because a prefix of the stack is below a handler that was on it (`HandlerKept`).
`EnvPushed` and `EnvPopped` treat the scopes, `RunKeeps`, `JumpStep` and `GoesOn` what the other instructions
have in common.  The context is claimed only if no jump leaves a try statement (handlers) or neither a
try statement nor a block (environment); that the addresses are instructions of the function, and
that an exception and a return are never pending together, is proved without that hypothesis.

### 5.7 WebSocketsProofs

| Theorem | Statement |
|---|---|
| `TypeCorrect` | `Spec => []TypeInv` |
| `EveryThreadIsJoined` | `Spec => []EveryWorkerWillBeJoined` |
| `CloseIsAnswered` | `Spec => []CloseIsUnderWay` |
| `OnlyClosedAreForgotten` | `Spec => OnlyClosedSocketsAreForgotten` |
| `BothEndsSee` | `Spec => []BothEndsSeeTheProtocol` |

`TypeInv` is `TypeOK` with the shape of what is kept by object.  Three invariants stand beside it:

- `SocketInv`, of threads.  `Threads`: until the destructor runs, a thread whose Close event is
  queued has ended and has one such event, and the one that poll is joining has none;
  `Attendance`: every object not closed has a thread that lives (and the command, if `close()` was called),
  or its last event is on its way; `Growth`: when sockets_ has grown under `socket_close`, its last
  element is the newest socket, which is what the erase through the old iterator then drops
  (`ForgottenKeeps`), and otherwise the iterator is at the closed one.  The first two need each other: a close that is popped is answered because its
  thread is then joined, once.
- `PeerInv`, of the texts: what the peer got, what curl has and what the command queue holds are
  sends in increasing order, for each object.
- `PageInv`, of the handlers.  `Sees` and `Failed` are what the property says of the log of one object;
  `Followed` says what makes it so: the events that wait in the shared queue for an open object
  begin with the first one not logged yet, go on in order and without a gap (`Contiguous`), up to the
  last one its thread pushed.

### 5.8 ViewProofs

| Theorem | Statement |
|---|---|
| `TypeCorrect` | `Spec => []TypeInv` |
| `HistoryIsShown` | `Spec => []EntryIsTheDocumentUnlessNested` |
| `WorkersKeepToTheirDocument` | `Spec => WorkersSpeakToTheirDocument` |

`TypeInv` adds to the types what the steps of `todo`, the C++ stack, may refer to (`Data`), and how
they follow each other (`Placed`): a document is reset as soon as its load begins, and entered
in the history right after its load ends.  `Present` says that a worker that was not stopped
belongs to the document shown.  `HistoryInv` follows a load through the stack: `Begins` is the state
in which a load has been put on the stack, `Entered` the one in which at most one
is under way, and then what is entered at its end is the document (`EntryAfter`).
The property speaks only of the host being in control; the invariant must hold in between, with any
number of scripts, timers and worker messages on the stack.  Most actions put only `Quiet` steps there,
which `QuietStepKeeps` treats together.

### 5.9 DomEventsProofs

| Theorem | Statement |
|---|---|
| `Soundness` | `Spec => []Inv` |
| `TypeCorrect` | `Spec => []TypeOK` |
| `ListenersCalledOnce` | `Spec => []ListenersAreCalledOnce` |
| `FocusIsSettled` | `Spec => []FocusSettles` |
| `RegisteredAreAlive` | no function that is registered as a listener is collected |
| `CalledAlive` | `Spec => CalledAreAlive` |

They hold for a path of any length, any number of functions, types and listeners, and dispatches
nested to any depth.  The invariant has four parts.

- `StackKept`, of each dispatch on the stack.  `Itinerary`: no listener fires at two of its visits (`Apart`),
  so none comes twice, in the copy or on the way.  `DueKept`: what the dispatch owes a call is
  registered, and is in the copy or fires at a visit ahead.  `SpentKept`: what it must not call any more is neither,
  unless the code that runs has stopped the event and the dispatch will drop the rest when it
  returns (`Leaves`).  `Placed`: the events of the stack are those of dispatches that run code, and a
  dispatch that is not on top runs code, is over, or waits for its turn in a focus change; otherwise
  `stopPropagation` in an inner dispatch of the same event could reach one that has chosen its next
  listener already.
- `RootsKept`: a function is in `host_roots_` once for each of its registrations.  With it, `Collect` takes no
  registered listener (`AliveKept`).  The copies of `fire_at` are no roots (section 7.2).
- `FocusKept`: the events of a focus change that have still to be dispatched are the difference between
  the element that was told of its focus and the focused one, and a `blur` comes before a `focus`.
- `Shape`, the types, without the properties' bounds on the events.

The copy of the listeners and what remains of the visits after a stop are `Only(s, S)`, the entries of a
sequence that are in a set, built up entry by entry; `OnlyKeeps` says by `Counting` what is in it.  One
lemma per action, from `ArriveStep` to `MovesStep`, says that it keeps the invariant; those that
change only the top of the stack share `TopOnly`.  `CalledAlive` is an action property: by `AliveKept`
and `AttributesAlive`, its counterpart for on-type attributes, a step that begins a call takes a
live function, unless `Head` of the copy is registered no more (`ListenerCalls`, `ArrivalAlive`); `Collect` spares what
runs; and every other step begins no call (`Quiet`).  TLC checked `Inv` in all states of `dom_events`.

## 6 What is only model-checked

- That a function does what its source says (`FollowsTheSource`), the languages and the services of a
  page: `js_frame`, and all properties of the runs `language` and `page`.
- That JsCompiler links every program, which the theorems of section 5.6 assume.
- Liveness (`ReadyRunReturns`, `JobsRun`, `FormsAreNavigated`): fairness and ENABLED are out of the prover's
  reach.
- What a definition by recursion over data computes for every input: the compiler and its
  reference, the parsers, the cascade, layout and the WebAssembly interpreter are compared with their
  references by TLC on all inputs of the bound.  The provers have no induction over such data;
  where a proof needed it over numbers only (`InsertAll`, section 5.2, `Flushed`, section 5.3), it is
  there.
- The heap (`HeapIsSound`): what an exception leaves of the stack is a recursive operator, and a
  script is the subject of a composing module, not a step of a state machine.

## 7 What the models show of the code

### 7.1 A disagreement that a run shows

`EnvironmentsAreLexical` (`js_frame_scopes`): `break` and `continue` skip the `PopScope` of
the blocks they leave (`js/compiler/compiler.cpp:341`).

### 7.2 Behaviour met while modelling, which no run shows

These are written down because the models had to decide what to do about them: either a
property names the exclusion, or nothing in the repository says what is right.

- Tree: a node inserted before itself is appended at the end (`dom/document.cpp:239`); the
  root may be appended to a detached element (192); the results of inserting the children of
  a fragment are dropped (188).
- Buffer: the pin counter wraps at 256 references (`dom/dom_command_buffer.cpp:17`); only the
  target of a command is marked dirty (68).
- Event loop: a negative interval wraps (`core/event_loop/event_loop.cpp:14`): -1 is never
  due again or due at once; a frame callback of the batch being rendered cannot be
  cancelled (76).
- Promises: there is no already-resolved flag (`js/runtime/interpreter.cpp:2171`); waiting
  inside a job gives up on promises whose job is queued (2232).
- Heap: the array that collects the values of an iterator is no root while `next()` runs, so a
  collection in a script's `next` frees it (`js/runtime/interpreter.cpp:836` and 892;
  `CollectsInNext` TRUE violates `HeapIsSound`).  "The source stays rooted via `t`, so the
  snapshotted Values remain reachable across callbacks" (`js/runtime/builtins.cpp:449`): they
  do not when a callback puts other elements in their place (`RefillsWalked` TRUE violates
  `HeapIsSound`).  `Promise.all` holds its result while a getter `then` of an element may run
  (2021).  `clearTimeout` and `clearInterval` leave the root of the callback for good (3021),
  and a generator that its own frame refers to is never freed (`interpreter.cpp:165`).  A frame marks its
  environment and not those its handlers saved (152): they are its ancestors, unless a jump has left
  the try, after which the stale handler may restore an environment that was freed.
- Compiler and frames: a break or continue out of a try statement leaves its handler in
  force and skips its finally block; a try inside a finally block clears the pending
  completion of the outer one; an unlabelled break inside a labelled block inside a loop
  finds the block; `return()` of a generator skips finally blocks.  `Supported` in JsFrame
  names all four.
- View: a page loaded inside the load of another has the later history entry, though it
  is the current document or not, as `mixed` records (`malibu-view/src/view.cpp:4991`); a task
  recognises its document by an address that may be reused (4874); a handler that navigates
  destroys the binding that is dispatching to it (4982); hovered and focused nodes survive a
  navigation (5130).
- Events: copies of listeners are no roots (`js/dom_binding.cpp:1892`, and `view.cpp:609` for
  other targets), so a function whose listener was removed while it waited in one may be called after it was
  collected, the one case that `CalledAreAlive` allows; a listener removed by another of the same node still runs; a dispatch
  again keeps the stop flags; `removeEventListener` does not read an options object (1131);
  a focus change inside a focus change tells elements about a focus they do not have (1164);
  a `stopPropagation()` in an on-type attribute of the target is read after the first listener
  further up was called (1931; `tests/test_dom_events.cpp:4`).
- Sockets: a text that curl cannot take at once is lost, though counted as sent
  (`host/curl_resource_loader.cpp:233`); a peer that never stops sending delays close and the
  destructor (241).
- Sockets: `socket_close` keeps an iterator into `sockets_` across the handlers of error and
  close (`malibu-view/src/view.cpp:5283`); a handler that opens the next WebSocket may make the
  vector reallocate, and what is erased then is undefined: in the model the newest socket goes, which
  gets no event any more, and the closed one stays.  `OnlyClosedSocketsAreForgotten` names this case,
  and says that there is no other in which a socket is lost.
- Lexer: a `}` followed by `/` begins a regular expression; inside an interpolation, a
  comment with a quote or a brace, a regular expression after a keyword, and a division right
  after a regular expression end it in the wrong place (`js/parser/parser.cpp:1755`).
- Parser: `a ** b ** c` groups to the left; `new new X` and `new a().x++` are not read as the language says;
  `import.meta` cannot begin a statement, nor `yield` stand before `:`; an interpolation
  that begins with `{`, `function`, `class` or `import` becomes empty (1650); `in` stays
  disabled inside parentheses in the head of a for; `async (x)` is no call; a postfix `++` may
  stand on the next line; a template concatenates with + and not with ToString.
- Expressions: `++` and `--` of a member evaluate base and key twice, and a postfix one gives the
  unconverted value (`js/compiler/compiler.cpp:1793`); computed keys of an object literal
  follow their value (937); `yield*` and array patterns read the whole iterable first; iterating
  null, undefined or a number gives nothing (`js/runtime/interpreter.cpp:836`); a member as
  destructuring target has its base evaluated after the value is read; `{} = null` does not throw;
  `super(...args)` and `super.m(...args)` pass one array (`compiler.cpp:1228`); `super.x` in arrow
  functions uses their own this; `typeof this` is "undefined"; `delete a?.b` and `delete f()` are true without
  evaluating; `(a?.b)()` loses its this; `+1n` is 1n; `o.f = function(){}` names the function, and
  `a ??= function(){}` does not.  Of classes: accessors come after methods; static
  fields see the outer this; computed keys of fields are evaluated for each instance;
  computed methods have no name; static accessors become data; defaults of parameters come before the
  fields of a base class; fields are put, not defined; fields come before a `super()` that is
  nested; what `super()` returns is ignored; `extends null` throws.  Objects of
  templates are not cached; compound assignment converts its key twice; `>>>` gives a signed number;
  `await` outside async functions is its operand.
- CSS: `:focus-within` looks at ancestors; `[x|=v]` is presence; nth-of-type counts all elements;
  `:is` and `:not` count as one class; a selector takes the nearest candidate and never another
  (`css/selector/selector.cpp:331`), so it may miss elements, but `SelectorsMatchAsDefined` says for all
  selectors that it matches no wrong ones; a compound `@supports` in parentheses is false
  (`css/parser/css_parser.cpp:404`); an inline `!important` keeps its words; `inherit` does
  nothing and `initial` keeps what is inherited (`css/style/style_resolver.cpp:682`); the
  first number of `font` is its size (900); `line-height: normal` and `font-weight: bolder`
  are 0; the winning declarations are applied in the order of a hash table (1155).
- HTML: `</SCRIPT>` in upper case does not end raw text, `</scriptx>` does; textarea and title
  are not decoded; of attributes given twice the last wins; implied end tags look at the top
  of the stack only (`html/html_parser.cpp:319`).
- Layout: a height of 100% of html never resolves, others only if the parent is laid out twice;
  intrinsic widths leave out unresolved edges; grids and tables as flex items are laid out as
  blocks; an auto-height column shrinks its items by the gaps; boxes anchored at the right or
  bottom ignore margins; all lines of a run keep the indentation of the first; a float may overlap an
  earlier one that was moved down; edges of inline elements, and max-width when growing, are
  ignored.
- WebAssembly: a branch to an enclosing `if` leaves or repeats what is around it
  (`wasm/wasm.cpp:459`); operands below a branch's result stay; a memory with maximum 0 has
  none; imported globals are skipped; data segments stay usable; there is no validator.
- Network: `max-age` is compared with zero and never with an age (`network/fetch_engine.cpp:39`); a
  304 to a validator of the script's own is answered with the stored entry (56).
- Electron and service workers: "handler may be async" (`malibu-electron/electron_runtime.cpp:244`), but one that
  waits for a timer, or for a job while the page's call comes from inside a job of the main process (a page
  that invokes as `whenReady` loads it), is answered with undefined, and its result goes nowhere; a `whenReady` that
  is first called after the main script has ended never resolves (139); `push` inside the page's own
  call runs the page's jobs while its script is on the stack (263); `respondWith` of a kept event
  answers the fetch of the moment (`malibu-app-runtime/service_worker.cpp:198`); a listener that adds
  a listener of its type invalidates the iteration (133).

## 8 What is not modelled

- Input and output, drivers, libraries and generated tables: rendering, fonts,
  image decoders, the platform layer, diagnostics.  There is no state over time to ask about.
- Arithmetic without branching state: rasterisation, shaders, colour spaces.
- The property tables of objects and most of the built-in library, the wrapper cache and the
  bindings other than events; the roots of listeners are in DomEvents.  Of the heap: Map, Set, Proxy,
  buffers and references to DOM nodes, natives other than those named in section 2, handlers of rejections, try
  statements, and when a collection is worth while.  Webcall dispatch is a table.
- Within modelled parts: attribute storage of the document, the paint
  hook of the loop, `finally` and the combinators of promises, `preventDefault`, images of a page,
  views without a transport; contents of strings and of numbers in texts; float arithmetic of
  WebAssembly; white-space modes, bidirectional text and calculated units of layout; JSON between realms;
  letter case of hosts, headers and policies.
- Memory exhaustion, exceptions of the C++ library, and time outs of curl as such (they are
  errors the peer reports).

## 9 The plan

Written: everything in section 2, in this order: the state that most of the engine's callbacks
share first, then the algorithms on which a page depends.

What is left, in order:

1. Proofs: `HeapIsSound` of JsHeap, which needs its operators as functions and its scripts as the
   actions of a state machine.
2. Wrappers of DOM nodes and the unified object graph on JsHeap: which nodes a wrapper keeps.
3. Promise combinators on the heap of JsPromise, each implementing its one-line
   specification; a WebSocket object as the four-state machine of the standard, implemented by
   the page, the loader and the worker together.
4. **DomBindings**: the mutations of `js/dom_binding.cpp` over DomTree, and the navigation inside a
   dispatch, composed with View.
