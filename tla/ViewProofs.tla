------------------------------ MODULE ViewProofs ------------------------------
(***************************************************************************)
(* What holds of a page view for any pages, loads, calls and workers.      *)
(***************************************************************************)
EXTENDS View, SequenceLemmas, FiniteSetTheorems

-----------------------------------------------------------------------------
(* The shape of the state                                                  *)

\* The steps of code that neither loads a document nor enters one in the history,
\* when n workers have been constructed.
Quiet(n) ==
  {Step(op, w) : op \in {"worker", "error", "pump"}, w \in 1 .. n}
    \cup {Step(op, k) : op \in {"script", "handlers", "engine", "snapshot", "process", "redirect"},
                        k \in Nat}

Loads == {Step(op, p) : op \in {"reset", "push"}, p \in Pages} \cup {Step("styles", 0)}

Steps(n) == Quiet(n) \cup Loads

Tasks(n) == [kind : {"resource", "timer"}, of : Nat] \cup [kind : {"message", "error"}, of : 1 .. n]

Worker == [doc : Nat, terminated : BOOLEAN, inbox : Nat, got : Nat]

\* The tasks refer to workers that exist, and a worker holds no more messages than
\* calls were made.
Data ==
  /\ tasks \in Seq(Tasks(Len(workers)))
  /\ workers \in Seq(Worker)
  /\ calls \in 0 .. MaxCalls
  /\ \A w \in DOMAIN workers : workers[w].inbox <= calls /\ workers[w].doc <= doc.id

\* A worker that has not been stopped belongs to the document shown.
Present == \A w \in DOMAIN workers : ~workers[w].terminated => workers[w].doc = doc.id

\* The steps refer to pages and workers that exist; a document is reset as soon as
\* its load begins, and entered in the history as soon as it is loaded.
Placed ==
  /\ todo \in Seq(Steps(Len(workers)))
  /\ At("reset") => doc.id < MaxLoads
  /\ \A i \in DOMAIN todo : todo[i].op = "reset" => i = 1
  /\ \A i \in DOMAIN todo : todo[i].op = "push" => i = 1 \/ (i - 1) \in Loading

TypeInv == TypeOK /\ Data /\ Placed

-----------------------------------------------------------------------------
(* The history and the document                                            *)

\* The place of the end of a load, "styles", among its steps.
StylesAt == Scripts + 11

Shown == history # <<>> => doc.page = history[pos]

PushAt(k) == k \in DOMAIN todo /\ todo[k].op = "push"

\* When step k is done the view shows the current entry: the document is entered
\* next, or is there already.
EntryAfter(k) == IF PushAt(k + 1) THEN todo[k + 1].arg = doc.page ELSE Shown

\* A load that begins will show the page it enters, or the current entry.
Begins ==
  At("reset") =>
    /\ StylesAt \in Loading
    /\ \A k \in Loading : k >= StylesAt
    /\ IF PushAt(StylesAt + 1) THEN todo[StylesAt + 1].arg = Arg
       ELSE history # <<>> /\ history[pos] = Arg

\* Only one load is under way, or none.
Entered ==
  (~mixed /\ ~At("reset")) =>
    /\ ~Nested
    /\ Loading = {} => EntryAfter(0)
    /\ \A k \in Loading : EntryAfter(k)
    /\ At("push") => Loading = {}

HistoryInv == Begins /\ Entered

-----------------------------------------------------------------------------
(* The steps of a load                                                     *)

\* No load begins among these steps, and only one that ends is entered.
Inner(s) ==
  \A i \in DOMAIN s :
    /\ s[i].op # "reset"
    /\ s[i].op = "push" => (i - 1) \in DOMAIN s /\ s[i - 1].op = "styles"

\* What remains when the first step is done.
Rest == IF Idle THEN <<>> ELSE Tail(todo)

(* The bounds are numbers.                                                 *)
LEMMA Bounds ==
  /\ Scripts \in Nat /\ MaxLoads \in Nat /\ MaxCalls \in Nat /\ MaxWorkers \in Nat
  /\ MaxRedirects \in Nat /\ NoPage \notin Pages
  /\ StylesAt \in Nat
BY ViewAssumption DEF ViewAssumption, StylesAt

(* Quiet code neither begins, ends nor enters a load.                      *)
LEMMA QuietSteps ==
  ASSUME NEW n \in Nat
  PROVE  /\ Quiet(n) \subseteq Steps(n)
         /\ \A s \in Quiet(n) : s.op \notin {"reset", "push", "styles"}
         /\ \A s \in Steps(n) : s.op \notin {"reset", "push", "styles"} => s \in Quiet(n)
         /\ \A s \in Steps(n) : s.op \in {"reset", "push"} => s.arg \in Pages
         /\ \A s \in Steps(n) : s.op \in {"worker", "error", "pump"} => s.arg \in 1 .. n
         /\ \A s \in Steps(n) :
              s.op \in {"script", "handlers", "engine", "snapshot", "process", "redirect"} => s.arg \in Nat
         /\ \A s \in Steps(n) :
              s.op \in {"worker", "error", "pump", "script", "handlers", "engine", "snapshot",
                        "process", "redirect", "reset", "push", "styles"}
BY DEF Quiet, Steps, Loads, Step

(* A worker more only adds to the steps and tasks there can be.            *)
LEMMA MoreWorkers ==
  ASSUME NEW n \in Nat, NEW m \in Nat, n <= m
  PROVE  Quiet(n) \subseteq Quiet(m) /\ Steps(n) \subseteq Steps(m) /\ Tasks(n) \subseteq Tasks(m)
<1>1. 1 .. n \subseteq 1 .. m
  OBVIOUS
<1>2. Quiet(n) \subseteq Quiet(m)
  BY <1>1 DEF Quiet
<1>3. Tasks(n) \subseteq Tasks(m)
  BY <1>1 DEF Tasks
<1>4. QED
  BY <1>2, <1>3 DEF Steps

(* A task run of the page is quiet code.                                   *)
LEMMA RunTasksSteps ==
  ASSUME NEW n \in Nat
  PROVE  RunTasks \in Seq(Quiet(n)) /\ Len(RunTasks) = 4
<1>1. \A op \in {"script", "handlers", "engine", "snapshot", "process"} : Step(op, 0) \in Quiet(n)
  BY DEF Quiet
<1>2. QED
  BY <1>1 DEF RunTasks

(* Quiet code behind the first step of a load.                             *)
LEMMA QuietBehind ==
  ASSUME NEW n \in Nat, NEW s \in Seq(Steps(n)), NEW q \in Seq(Quiet(n)), Len(s) >= 1,
         \A i \in 2 .. Len(s) : s[i] \in Quiet(n)
  PROVE  /\ s \o q \in Seq(Steps(n)) /\ Len(s \o q) = Len(s) + Len(q) /\ (s \o q)[1] = s[1]
         /\ \A i \in 2 .. Len(s \o q) : (s \o q)[i] \in Quiet(n)
<1>1. q \in Seq(Steps(n)) /\ \A i \in 1 .. Len(q) : q[i] \in Quiet(n)
  BY QuietSteps, ElementOfSeq
<1>2. DOMAIN s = 1 .. Len(s) /\ DOMAIN q = 1 .. Len(q) /\ Len(s) \in Nat /\ Len(q) \in Nat
  BY LenProperties
<1>3. QED
  BY <1>1, <1>2, SeqJoin

(* A load is a reset, quiet code and its end.                              *)
LEMMA LoadSteps ==
  ASSUME NEW n \in Nat, NEW p \in Pages
  PROVE  /\ DoLoad(p) \in Seq(Steps(n)) /\ Len(DoLoad(p)) = StylesAt
         /\ DoLoad(p)[1] = Step("reset", p)
         /\ DoLoad(p)[StylesAt] = Step("styles", 0)
         /\ \A i \in 2 .. StylesAt - 1 : DoLoad(p)[i] \in Quiet(n)
<1> USE Bounds
<1> DEFINE a == <<Step("reset", p)>>
           code == [i \in 1 .. Scripts |-> Step("script", i)]
           b == a \o code
           c == b \o RunTasks
           d == c \o <<Step("handlers", 0)>>
           e == d \o RunTasks
<1>1. code \in Seq(Quiet(n)) /\ Len(code) = Scripts
  <2>1. \A i \in 1 .. Scripts : Step("script", i) \in Quiet(n)
    BY DEF Quiet
  <2>2. QED
    BY <2>1
<1>2. <<Step("handlers", 0)>> \in Seq(Quiet(n)) /\ Len(<<Step("handlers", 0)>>) = 1
  <2>1. Step("handlers", 0) \in Quiet(n)
    BY DEF Quiet
  <2>2. QED
    BY <2>1
<1>3. RunTasks \in Seq(Quiet(n)) /\ Len(RunTasks) = 4
  BY RunTasksSteps
<1>4. /\ a \in Seq(Steps(n)) /\ Len(a) = 1 /\ a[1] = Step("reset", p)
      /\ <<Step("styles", 0)>> \in Seq(Steps(n))
  <2>1. Step("reset", p) \in Steps(n) /\ Step("styles", 0) \in Steps(n)
    BY DEF Steps, Loads
  <2>2. QED
    BY <2>1
<1> HIDE DEF a, code
<1>5. /\ b \in Seq(Steps(n)) /\ Len(b) = Scripts + 1 /\ b[1] = Step("reset", p)
      /\ \A i \in 2 .. Len(b) : b[i] \in Quiet(n)
  <2>1. Len(a) >= 1 /\ \A i \in 2 .. Len(a) : a[i] \in Quiet(n)
    BY <1>1, <1>4
  <2>2. /\ a \o code \in Seq(Steps(n)) /\ Len(a \o code) = Len(a) + Len(code)
        /\ (a \o code)[1] = a[1]
        /\ \A i \in 2 .. Len(a \o code) : (a \o code)[i] \in Quiet(n)
    BY <2>1, <1>1, <1>4, QuietBehind, ZenonT(30)
  <2>3. QED
    BY <2>2, <1>1, <1>4 DEF b
<1> HIDE DEF b
<1>6. /\ c \in Seq(Steps(n)) /\ Len(c) = Scripts + 5 /\ c[1] = Step("reset", p)
      /\ \A i \in 2 .. Len(c) : c[i] \in Quiet(n)
  <2>1. Len(b) >= 1 /\ \A i \in 2 .. Len(b) : b[i] \in Quiet(n)
    BY <1>3, <1>5
  <2>2. /\ b \o RunTasks \in Seq(Steps(n)) /\ Len(b \o RunTasks) = Len(b) + Len(RunTasks)
        /\ (b \o RunTasks)[1] = b[1]
        /\ \A i \in 2 .. Len(b \o RunTasks) : (b \o RunTasks)[i] \in Quiet(n)
    BY <2>1, <1>3, <1>5, QuietBehind, Zenon
  <2>3. QED
    BY <2>2, <1>3, <1>5 DEF c
<1> HIDE DEF c
<1>7. /\ d \in Seq(Steps(n)) /\ Len(d) = Scripts + 6 /\ d[1] = Step("reset", p)
      /\ \A i \in 2 .. Len(d) : d[i] \in Quiet(n)
  <2>1. Len(c) >= 1 /\ \A i \in 2 .. Len(c) : c[i] \in Quiet(n)
    BY <1>2, <1>6
  <2>2. /\ c \o <<Step("handlers", 0)>> \in Seq(Steps(n)) /\ Len(c \o <<Step("handlers", 0)>>) = Len(c) + Len(<<Step("handlers", 0)>>)
        /\ (c \o <<Step("handlers", 0)>>)[1] = c[1]
        /\ \A i \in 2 .. Len(c \o <<Step("handlers", 0)>>) : (c \o <<Step("handlers", 0)>>)[i] \in Quiet(n)
    BY <2>1, <1>2, <1>6, QuietBehind, ZenonT(30)
  <2>3. QED
    BY <2>2, <1>2, <1>6 DEF d
<1> HIDE DEF d
<1>8. /\ e \in Seq(Steps(n)) /\ Len(e) = Scripts + 10 /\ e[1] = Step("reset", p)
      /\ \A i \in 2 .. Len(e) : e[i] \in Quiet(n)
  <2>1. Len(d) >= 1 /\ \A i \in 2 .. Len(d) : d[i] \in Quiet(n)
    BY <1>3, <1>7
  <2>2. /\ d \o RunTasks \in Seq(Steps(n)) /\ Len(d \o RunTasks) = Len(d) + Len(RunTasks)
        /\ (d \o RunTasks)[1] = d[1]
        /\ \A i \in 2 .. Len(d \o RunTasks) : (d \o RunTasks)[i] \in Quiet(n)
    BY <2>1, <1>3, <1>7, QuietBehind, Zenon
  <2>3. QED
    BY <2>2, <1>3, <1>7 DEF e
<1>9. DoLoad(p) = e \o <<Step("styles", 0)>>
  BY DEF DoLoad, a, b, c, d, code
<1> HIDE DEF e
<1>10. QED
  BY <1>4, <1>8, <1>9, SeqJoin DEF StylesAt

(* load_html enters the page that it loads right after the end of the load. *)
LEMMA LoadHtmlSteps ==
  ASSUME NEW n \in Nat, NEW p \in Pages
  PROVE  /\ LoadHtml(p) \in Seq(Steps(n)) /\ Len(LoadHtml(p)) = StylesAt + 2
         /\ LoadHtml(p)[1] = Step("reset", p)
         /\ LoadHtml(p)[StylesAt] = Step("styles", 0)
         /\ LoadHtml(p)[StylesAt + 1] = Step("push", p)
         /\ LoadHtml(p)[StylesAt + 2] = Step("process", 0)
         /\ \A i \in 2 .. StylesAt - 1 : LoadHtml(p)[i] \in Quiet(n)
<1> USE Bounds
<1>1. Step("push", p) \in Steps(n) /\ Step("process", 0) \in Steps(n)
  BY DEF Steps, Loads, Quiet
<1>2. <<Step("push", p), Step("process", 0)>> \in Seq(Steps(n))
  BY <1>1
<1>3. StylesAt >= 11
  BY DEF StylesAt
<1>4. QED
  BY <1>2, <1>3, LoadSteps, SeqJoin DEF LoadHtml

(* What remains of quiet code, or of a load's first or last step, is inner. *)
LEMMA RestIsInner ==
  ASSUME NEW n \in Nat, todo \in Seq(Steps(n)), Placed, ~At("styles")
  PROVE  Rest \in Seq(Steps(n)) /\ Inner(Rest)
<1>1. CASE Idle
  BY <1>1 DEF Idle, Rest, Inner
<1>2. CASE ~Idle
  <2>1. Rest = Tail(todo) /\ todo # <<>>
    BY <1>2 DEF Rest, Idle
  <2>2. /\ Rest \in Seq(Steps(n))
        /\ Head(todo) = todo[1]
        /\ \A j \in DOMAIN Rest : j + 1 \in DOMAIN todo /\ Rest[j] = todo[j + 1] /\ j >= 1 /\ j \in Int
        /\ \A j \in DOMAIN todo : j - 1 \in DOMAIN Rest \/ j = 1
    BY <2>1, SeqTake
  <2>3. ASSUME NEW i \in DOMAIN Rest
        PROVE  /\ Rest[i].op # "reset"
               /\ Rest[i].op = "push" => (i - 1) \in DOMAIN Rest /\ Rest[i - 1].op = "styles"
    <3>1. Rest[i].op # "reset"
      BY <2>2 DEF Placed
    <3>2. ASSUME Rest[i].op = "push"
          PROVE  (i - 1) \in DOMAIN Rest /\ Rest[i - 1].op = "styles"
      <4>1. i + 1 \in DOMAIN todo /\ todo[i + 1].op = "push" /\ i + 1 # 1 /\ (i + 1) - 1 = i
        BY <2>2, <3>2
      <4>2. i \in Loading
        BY <4>1 DEF Placed
      <4>3. i \in DOMAIN todo /\ todo[i].op = "styles"
        BY <4>2 DEF Loading
      <4>4. i # 1
        BY <2>2, <4>3, <1>2 DEF At
      <4>5. QED
        BY <2>2, <4>3, <4>4
    <3>3. QED
      BY <3>1, <3>2
  <2>4. QED
    BY <2>2, <2>3 DEF Inner
<1>3. QED
  BY <1>1, <1>2

(* Quiet code in front of inner steps.                                     *)
LEMMA QuietBefore ==
  ASSUME NEW n \in Nat, NEW q \in Seq(Quiet(n)), NEW r \in Seq(Steps(n)), Inner(r)
  PROVE  q \o r \in Seq(Steps(n)) /\ Inner(q \o r)
<1>1. q \in Seq(Steps(n))
  BY QuietSteps
<1>2. \A i \in DOMAIN q : q[i].op \notin {"reset", "push", "styles"}
  BY QuietSteps, ElementOfSeq, LenProperties
<1>3. DOMAIN q = 1 .. Len(q) /\ Len(q) \in Nat /\ DOMAIN r = 1 .. Len(r) /\ Len(r) \in Nat
  BY LenProperties
<1>4. q \o r \in Seq(Steps(n))
  BY <1>1, SeqJoin
<1>5. ASSUME NEW i \in DOMAIN (q \o r)
      PROVE  /\ (q \o r)[i].op # "reset"
             /\ (q \o r)[i].op = "push" => (i - 1) \in DOMAIN (q \o r) /\ (q \o r)[i - 1].op = "styles"
  <2>1. CASE i \in DOMAIN q /\ (q \o r)[i] = q[i]
    BY <1>2, <2>1
  <2>2. CASE i - Len(q) \in DOMAIN r /\ (q \o r)[i] = r[i - Len(q)]
    <3>1. ASSUME (q \o r)[i].op = "push"
          PROVE  (i - 1) \in DOMAIN (q \o r) /\ (q \o r)[i - 1].op = "styles"
      <4>1. PICK k \in DOMAIN r : k = i - Len(q)
        BY <2>2
      <4>2. k - 1 \in DOMAIN r /\ r[k - 1].op = "styles"
        BY <2>2, <3>1, <4>1 DEF Inner
      <4>3. Len(q) + (k - 1) = i - 1
        BY <1>1, <1>3, <4>1, SeqJoin
      <4>4. QED
        BY <1>1, <4>2, <4>3, SeqJoin
    <3>2. (q \o r)[i].op # "reset"
      BY <2>2 DEF Inner
    <3>3. QED
      BY <3>1, <3>2
  <2>3. QED
    BY <1>1, <2>1, <2>2, SeqJoin
<1>6. QED
  BY <1>4, <1>5 DEF Inner

-----------------------------------------------------------------------------
(* Quiet steps: the document and the history stay, and quiet code takes the *)
(* place of the step that is done.                                         *)

Quietly ==
  /\ Idle \/ Head(todo) \in Quiet(Len(workers))
  /\ \E q \in Seq(Quiet(Len(workers)')) : todo' = q \o Rest

QuietStep ==
  /\ Quietly
  /\ Len(workers) <= Len(workers)' /\ Data' /\ Present'
  /\ UNCHANGED pageVars
  /\ pending' \in Pages \cup {NoPage} /\ processing' \in BOOLEAN

(* What quiet code in front of the rest does to the steps.                 *)
LEMMA QuietlyPlaced ==
  ASSUME Placed, Quietly, workers \in Seq(Worker), workers' \in Seq(Worker),
         Len(workers) <= Len(workers)'
  PROVE  Placed' /\ Inner(todo')
<1>1. Len(workers) \in Nat /\ Len(workers)' \in Nat
  BY LenProperties
<1>2. PICK m \in Nat : m = Len(workers)'
  BY <1>1
<1>3. PICK q \in Seq(Quiet(m)) : todo' = q \o Rest
  BY <1>2 DEF Quietly
<1>4. ~At("styles")
  BY <1>1, QuietSteps DEF At, Quietly
<1>5. Rest \in Seq(Steps(Len(workers))) /\ Inner(Rest)
  BY <1>1, <1>4, RestIsInner DEF Placed
<1>6. Steps(Len(workers)) \subseteq Steps(m)
  BY <1>1, <1>2, MoreWorkers
<1>7. Rest \in Seq(Steps(m))
  BY <1>5, <1>6, SeqMonotonic
<1>8. todo' \in Seq(Steps(m)) /\ Inner(todo')
  BY <1>3, <1>5, <1>7, QuietBefore
<1>9. Placed'
  <2>1. ~At("reset")'
    <3>1. todo' # <<>> => Head(todo') = todo'[1] /\ 1 \in DOMAIN todo'
      BY <1>8, SeqTake, Zenon
    <3>2. QED
      BY <1>8, <3>1 DEF At, Idle, Inner
  <2>2. \A i \in DOMAIN todo' : todo'[i].op # "reset"
    BY <1>8 DEF Inner
  <2>3. \A i \in DOMAIN todo' : todo'[i].op = "push" => (i - 1) \in Loading'
    BY <1>8 DEF Inner, Loading
  <2>4. QED
    BY <1>2, <1>8, <2>1, <2>2, <2>3 DEF Placed
<1>10. QED
  BY <1>8, <1>9

(* The place where a load ends moves with the steps.                       *)
LEMMA QuietlyLoading ==
  ASSUME Placed, Quietly, workers \in Seq(Worker), workers' \in Seq(Worker),
         Len(workers) <= Len(workers)'
  PROVE  \E d \in Int :
           /\ \A k \in Loading' : (k - d) \in Loading
           /\ \A k \in Loading : (k + d) \in Loading'
           /\ \A k \in DOMAIN todo' : todo'[k].op \in {"push", "styles"} =>
                (k - d) \in DOMAIN todo /\ todo'[k] = todo[k - d]
           /\ \A k \in DOMAIN todo : todo[k].op \in {"push", "styles"} =>
                (k + d) \in DOMAIN todo' /\ todo'[k + d] = todo[k]
<1>1. Len(workers) \in Nat /\ Len(workers)' \in Nat
  BY LenProperties
<1>2. PICK m \in Nat : m = Len(workers)'
  BY <1>1
<1>3. PICK q \in Seq(Quiet(m)) : todo' = q \o Rest
  BY <1>2 DEF Quietly
<1>4. todo \in Seq(Steps(Len(workers))) /\ ~At("styles")
  BY <1>1, QuietSteps DEF At, Quietly, Placed
<1>5. Rest \in Seq(Steps(Len(workers))) /\ Inner(Rest)
  BY <1>1, <1>4, RestIsInner
<1>6. Rest \in Seq(Steps(m)) /\ q \in Seq(Steps(m))
  BY <1>1, <1>2, <1>5, MoreWorkers, QuietSteps, SeqMonotonic
<1>7. \A i \in DOMAIN q : q[i].op \notin {"reset", "push", "styles"}
  BY QuietSteps, ElementOfSeq, LenProperties
<1>8. PICK r \in Seq(Steps(m)) : r = Rest
  BY <1>6
<1>9. PICK l \in Nat : l = Len(q)
  BY LenProperties
<1>10. /\ \A i \in DOMAIN r : l + i \in DOMAIN (q \o r) /\ (q \o r)[l + i] = r[i]
       /\ \A i \in DOMAIN (q \o r) :
            \/ i \in DOMAIN q /\ (q \o r)[i] = q[i]
            \/ i - l \in DOMAIN r /\ (q \o r)[i] = r[i - l]
  BY <1>6, <1>8, <1>9, SeqJoin
<1>11. /\ \A j \in DOMAIN r : j \in Int /\ j + 1 \in DOMAIN todo /\ r[j] = todo[j + 1]
       /\ \A k \in DOMAIN todo : k \in Int
       /\ \A k \in DOMAIN todo : todo[k].op \in {"push", "styles"} => k - 1 \in DOMAIN r
  <2>1. CASE Idle
    BY <1>8, <2>1 DEF Idle, Rest
  <2>2. CASE ~Idle
    <3>1. r = Tail(todo) /\ todo # <<>>
      BY <1>8, <2>2 DEF Rest, Idle
    <3>2. todo[1].op \notin {"push", "styles"}
      BY <1>1, <1>4, <2>2, <3>1, QuietSteps, SeqTake DEF Quietly
    <3>3. \A j \in DOMAIN todo : j \in Int /\ (j - 1 \in DOMAIN r \/ j = 1)
      BY <1>4, <3>1, SeqTake
    <3>4. QED
      BY <1>4, <3>1, <3>2, <3>3, SeqTake
  <2>3. QED
    BY <2>1, <2>2
<1>12. todo' = q \o r
  BY <1>3, <1>8
<1>13. ASSUME NEW k \in DOMAIN todo', todo'[k].op \in {"push", "styles"}
       PROVE  (k - (l - 1)) \in DOMAIN todo /\ todo'[k] = todo[k - (l - 1)]
  <2>1. k - l \in DOMAIN r /\ todo'[k] = r[k - l]
    BY <1>7, <1>10, <1>12, <1>13
  <2>2. PICK j \in DOMAIN r : j = k - l
    BY <2>1
  <2>3. k \in Int /\ j \in Int
    BY <1>12, <1>6, <1>8, <1>11, SeqJoin
  <2>4. k - (l - 1) = j + 1
    BY <2>2, <2>3
  <2>5. QED
    BY <2>1, <2>2, <2>4, <1>11
<1>14. ASSUME NEW k \in DOMAIN todo, todo[k].op \in {"push", "styles"}
       PROVE  (k + (l - 1)) \in DOMAIN todo' /\ todo'[k + (l - 1)] = todo[k]
  <2>1. PICK j \in DOMAIN r : j = k - 1
    BY <1>11, <1>14
  <2>2. k \in Int /\ j \in Int
    BY <1>11
  <2>3. k + (l - 1) = l + j /\ k = j + 1
    BY <2>1, <2>2
  <2>4. QED
    BY <2>3, <1>10, <1>11, <1>12
<1>15. \A k \in Loading' : (k - (l - 1)) \in Loading
  BY <1>13 DEF Loading
<1>16. \A k \in Loading : (k + (l - 1)) \in Loading'
  BY <1>14 DEF Loading
<1>17. l - 1 \in Int
  BY <1>9
<1>18. QED
  BY <1>13, <1>14, <1>15, <1>16, <1>17

(* A quiet step keeps the shape of the state and what the history says.    *)
LEMMA QuietStepKeeps ==
  ASSUME TypeInv, Present, HistoryInv, QuietStep
  PROVE  TypeInv' /\ Present' /\ HistoryInv'
<1>1. workers \in Seq(Worker) /\ workers' \in Seq(Worker) /\ Len(workers) <= Len(workers)'
  BY DEF TypeInv, Data, QuietStep
<1>2. Placed /\ Quietly
  BY DEF TypeInv, QuietStep
<1>3. Placed' /\ Inner(todo')
  BY <1>1, <1>2, QuietlyPlaced
<1>4. doc' = doc /\ history' = history /\ pos' = pos /\ mixed' = mixed /\ Shown' = Shown
  BY DEF QuietStep, pageVars, Shown
<1>5. TypeOK'
  <2>1. \A i \in DOMAIN tasks' : tasks'[i].kind \in {"resource", "timer", "message", "error"}
    <3>1. tasks' \in Seq(Tasks(Len(workers)'))
      BY DEF QuietStep, Data
    <3>2. \A i \in DOMAIN tasks' : tasks'[i] \in Tasks(Len(workers)')
      BY <3>1, ElementOfSeq, LenProperties
    <3>3. QED
      BY <3>2 DEF Tasks
  <2>2. \A w \in DOMAIN workers' : workers'[w].doc \in 0 .. doc'.id /\ workers'[w].inbox \in 0 .. MaxCalls
    <3>1. /\ calls' \in 0 .. MaxCalls
          /\ \A w \in DOMAIN workers' : workers'[w].inbox <= calls' /\ workers'[w].doc <= doc'.id
      BY DEF QuietStep, Data
    <3>2. \A w \in DOMAIN workers' : workers'[w] \in Worker
      BY <1>1, ElementOfSeq, LenProperties
    <3>3. doc'.id \in Nat /\ MaxCalls \in Nat
      BY <1>4, Bounds DEF TypeInv, TypeOK
    <3>4. QED
      BY <3>1, <3>2, <3>3 DEF Worker
  <2>3. QED
    BY <1>4, <2>1, <2>2 DEF TypeInv, TypeOK, QuietStep
<1>6. ~At("reset")' /\ ~At("reset")
  <2>1. todo' # <<>> => Head(todo') = todo'[1] /\ 1 \in DOMAIN todo'
    BY <1>3, SeqTake, Zenon DEF Placed
  <2>2. Head(todo).op # "reset" \/ Idle
    BY <1>2, <1>1, QuietSteps, LenProperties DEF Quietly
  <2>3. QED
    BY <1>3, <2>1, <2>2 DEF At, Idle, Inner
<1>7. PICK d \in Int :
           /\ \A k \in Loading' : (k - d) \in Loading
           /\ \A k \in Loading : (k + d) \in Loading'
           /\ \A k \in DOMAIN todo' : todo'[k].op \in {"push", "styles"} =>
                (k - d) \in DOMAIN todo /\ todo'[k] = todo[k - d]
           /\ \A k \in DOMAIN todo : todo[k].op \in {"push", "styles"} =>
                (k + d) \in DOMAIN todo' /\ todo'[k + d] = todo[k]
  BY <1>1, <1>2, QuietlyLoading
<1>8. ASSUME ~mixed'
      PROVE  ~Nested' /\ (Loading' = {} => EntryAfter(0)') /\ \A k \in Loading' : EntryAfter(k)'
  <2>1. ~Nested /\ (Loading = {} => EntryAfter(0)) /\ \A k \in Loading : EntryAfter(k)
    BY <1>4, <1>6, <1>8 DEF HistoryInv, Entered
  <2>2. \A k \in Loading' : k \in Int
    BY <1>3, LenProperties DEF Loading, Placed
  <2>3. ~Nested'
    BY <1>7, <2>1, <2>2 DEF Nested
  <2>4. ASSUME Loading' = {} PROVE EntryAfter(0)'
    <3>1. Loading = {}
      BY <1>7, <2>4
    <3>2. ~PushAt(0 + 1)
      <4>1. Idle \/ Head(todo).op # "push"
        BY <1>2, <1>1, QuietSteps, LenProperties DEF Quietly
      <4>2. todo # <<>> => Head(todo) = todo[1]
        BY <1>2, SeqTake DEF Placed
      <4>3. todo = <<>> => 1 \notin DOMAIN todo
        OBVIOUS
      <4>4. QED
        BY <4>1, <4>2, <4>3 DEF PushAt, Idle
    <3>3. Shown
      BY <2>1, <3>1, <3>2 DEF EntryAfter
    <3>4. ~PushAt(0 + 1)'
      <4>1. 0 \notin DOMAIN todo' /\ 0 + 1 = 1 /\ 1 - 1 = 0
        BY <1>3, LenProperties DEF Placed
      <4>2. QED
        BY <1>3, <4>1 DEF PushAt, Inner
    <3>5. QED
      BY <1>4, <3>3, <3>4 DEF EntryAfter
  <2>5. ASSUME NEW k \in Loading' PROVE EntryAfter(k)'
    <3>1. PICK j \in Loading : j = k - d
      BY <1>7
    <3>2. k \in Int /\ j + 1 = (k + 1) - d /\ k + 1 = (j + 1) + d
      BY <2>2, <3>1
    <3>3. PushAt(k + 1)' => PushAt(j + 1) /\ todo'[k + 1] = todo[j + 1]
      BY <1>7, <3>2 DEF PushAt
    <3>4. PushAt(j + 1) => PushAt(k + 1)'
      BY <1>7, <3>2 DEF PushAt
    <3>5. EntryAfter(j)
      BY <2>1
    <3>6. QED
      BY <1>4, <3>3, <3>4, <3>5 DEF EntryAfter
  <2>6. QED
    BY <2>3, <2>4, <2>5
<1>9. ~At("push")'
  <2>1. todo' # <<>> => Head(todo') = todo'[1] /\ 1 \in DOMAIN todo'
    BY <1>3, SeqTake, Zenon DEF Placed
  <2>2. 1 - 1 = 0 /\ 0 \notin DOMAIN todo'
    BY <1>3, LenProperties DEF Placed
  <2>3. QED
    BY <1>3, <2>1, <2>2 DEF At, Idle, Inner
<1>10. HistoryInv'
  BY <1>6, <1>8, <1>9 DEF HistoryInv, Begins, Entered
<1>11. QED
  BY <1>3, <1>5, <1>10 DEF TypeInv, QuietStep

-----------------------------------------------------------------------------
(* The quiet steps                                                         *)

(* Quiet code that stays, or calls more of it.                             *)
LEMMA Calls ==
  ASSUME TypeInv, ~Idle, workers' \in Seq(Worker), Len(workers) <= Len(workers)',
         Head(todo) \in Quiet(Len(workers)), NEW q \in Seq(Quiet(Len(workers)')),
         todo' = q \o todo
  PROVE  Quietly
<1>1. todo # <<>> /\ todo \in Seq(Steps(Len(workers)))
  BY DEF Idle, TypeInv, Placed
<1>2. Len(workers) \in Nat /\ Len(workers)' \in Nat
  BY LenProperties DEF TypeInv, Data
<1>3. PICK m \in Nat : m = Len(workers)'
  BY <1>2
<1>4. q \in Seq(Quiet(m)) /\ <<Head(todo)>> \in Seq(Quiet(m)) /\ Quiet(m) \subseteq Steps(m)
  <2>1. Quiet(Len(workers)) \subseteq Quiet(m)
    BY <1>2, <1>3, MoreWorkers
  <2>2. Head(todo) \in Quiet(m)
    BY <2>1
  <2>3. <<Head(todo)>> \in Seq(Quiet(m))
    BY <2>2
  <2>4. QED
    BY <1>3, <2>3, QuietSteps
<1>5. q \o <<Head(todo)>> \in Seq(Quiet(m))
  BY <1>4, ConcatProperties
<1>6. Tail(todo) \in Seq(Steps(Len(workers))) /\ Steps(Len(workers)) \subseteq Steps(m)
  BY <1>1, <1>2, <1>3, SeqTake, MoreWorkers
<1>7. /\ q \in Seq(Steps(m)) /\ <<Head(todo)>> \in Seq(Steps(m)) /\ Tail(todo) \in Seq(Steps(m))
  BY <1>4, <1>6, SeqMonotonic
<1>8. todo = <<Head(todo)>> \o Tail(todo)
  BY <1>1
<1>9. (q \o <<Head(todo)>>) \o Tail(todo) = q \o (<<Head(todo)>> \o Tail(todo))
  BY <1>7, ConcatAssociative
<1>10. todo' = (q \o <<Head(todo)>>) \o Rest
  BY <1>8, <1>9 DEF Rest
<1>11. QED
  BY <1>3, <1>5, <1>10 DEF Quietly

(* Code of the page is quiet, and goes on when nothing is called.          *)
LEMMA Stays ==
  ASSUME TypeInv, At("script") \/ At("handlers") \/ At("worker"), UNCHANGED todo,
         workers' \in Seq(Worker), Len(workers) <= Len(workers)'
  PROVE  Quietly
<1>1. ~Idle /\ Head(todo) \in Quiet(Len(workers))
  BY SeqTake, QuietSteps, LenProperties DEF At, Idle, TypeInv, Placed, Data
<1>2. todo' = <<>> \o todo
  BY ConcatEmptySeq DEF TypeInv, Placed
<1>3. <<>> \in Seq(Quiet(Len(workers)'))
  OBVIOUS
<1>4. QED
  BY <1>1, <1>2, <1>3, Calls

(* What a step at the head of the stack is.                                *)
LEMMA HeadStep ==
  ASSUME TypeInv, ~Idle, Head(todo).op \notin {"reset", "push", "styles"}
  PROVE  /\ Head(todo) \in Quiet(Len(workers))
         /\ Head(todo).op \in {"worker", "error", "pump"} => Arg \in DOMAIN workers
         /\ Head(todo).op \in {"script", "handlers", "engine", "snapshot", "process", "redirect"} => Arg \in Nat
<1>1. Head(todo) \in Steps(Len(workers)) /\ Len(workers) \in Nat /\ DOMAIN workers = 1 .. Len(workers)
  BY SeqTake, LenProperties DEF TypeInv, Placed, Data, Idle
<1>2. QED
  BY <1>1, QuietSteps DEF Arg

(* A quiet step that is done, with the quiet code that takes its place.    *)
LEMMA Becoming ==
  ASSUME TypeInv, ~Idle, Head(todo).op \notin {"reset", "push", "styles"},
         NEW q \in Seq(Quiet(Len(workers)')), Become(q)
  PROVE  Quietly
BY HeadStep DEF Become, Quietly, Rest

(* A quiet step that is done and leaves nothing to be done in its place.   *)
LEMMA Done ==
  ASSUME TypeInv, ~Idle, Head(todo).op \notin {"reset", "push", "styles"}, Become(<<>>)
  PROVE  Quietly
<1>1. <<>> \in Seq(Quiet(Len(workers)'))
  OBVIOUS
<1>2. QED
  BY <1>1, Becoming

(* What a worker is.                                                       *)
LEMMA WorkersAre ==
  ASSUME TypeInv
  PROVE  \A w \in DOMAIN workers :
           workers[w] \in Worker /\ workers[w].inbox \in Nat /\ workers[w].got \in Nat
<1>1. \A w \in DOMAIN workers : workers[w] \in Worker
  BY ElementOfSeq, LenProperties DEF TypeInv, Data
<1>2. QED
  BY <1>1 DEF Worker

(* A worker stopped.                                                       *)
LEMMA StoppedWorker ==
  ASSUME NEW v \in Worker
  PROVE  /\ Terminated(v) \in Worker /\ Terminated(v).terminated
         /\ Terminated(v).doc = v.doc /\ Terminated(v).inbox = v.inbox
BY DEF Worker, Terminated

(* Nothing changes for the workers and the tasks.                          *)
LEMMA DataStays ==
  ASSUME TypeInv, Present, UNCHANGED <<pageVars, tasks, workers>>, calls' \in calls .. MaxCalls
  PROVE  Len(workers) <= Len(workers)' /\ Data' /\ Present'
<1>1. Len(workers)' = Len(workers) /\ Len(workers) \in Nat
  BY LenProperties DEF TypeInv, Data
<1>2. calls' \in 0 .. MaxCalls /\ calls <= calls' /\ calls \in Nat /\ MaxCalls \in Nat
  BY Bounds DEF TypeInv, Data
<1>3. \A w \in DOMAIN workers : workers[w].inbox \in Nat
  BY WorkersAre
<1>4. \A w \in DOMAIN workers : workers[w].inbox <= calls'
  BY <1>2, <1>3 DEF TypeInv, Data
<1>5. QED
  BY <1>1, <1>2, <1>4 DEF TypeInv, Data, Present, pageVars

(* One task more.                                                          *)
LEMMA TaskAdded ==
  ASSUME TypeInv, Present, UNCHANGED <<pageVars, workers>>, calls' \in calls .. MaxCalls,
         NEW t \in Tasks(Len(workers)), tasks' = Append(tasks, t)
  PROVE  Len(workers) <= Len(workers)' /\ Data' /\ Present'
<1>1. Len(workers)' = Len(workers) /\ Len(workers) \in Nat
  BY LenProperties DEF TypeInv, Data
<1>2. calls' \in 0 .. MaxCalls /\ calls <= calls' /\ calls \in Nat /\ MaxCalls \in Nat
  BY Bounds DEF TypeInv, Data
<1>3. \A w \in DOMAIN workers : workers[w].inbox \in Nat
  BY WorkersAre
<1>4. \A w \in DOMAIN workers : workers[w].inbox <= calls'
  BY <1>2, <1>3 DEF TypeInv, Data
<1>5. tasks' \in Seq(Tasks(Len(workers)))
  BY SeqAdd DEF TypeInv, Data
<1>6. QED
  BY <1>1, <1>2, <1>4, <1>5 DEF TypeInv, Data, Present, pageVars

(* One worker changed, which stays with its document and is not started again. *)
LEMMA WorkerChanged ==
  ASSUME TypeInv, Present, UNCHANGED pageVars, calls' \in calls .. MaxCalls,
         tasks' \in Seq(Tasks(Len(workers))),
         NEW w \in DOMAIN workers, NEW v \in Worker, workers' = [workers EXCEPT ![w] = v],
         v.doc = workers[w].doc, workers[w].terminated => v.terminated, v.inbox <= calls'
  PROVE  workers' \in Seq(Worker) /\ Len(workers)' = Len(workers) /\ Data' /\ Present'
<1>1. Len(workers) \in Nat /\ workers \in Seq(Worker)
  BY LenProperties DEF TypeInv, Data
<1>2. /\ workers' \in Seq(Worker) /\ DOMAIN workers' = DOMAIN workers /\ Len(workers') = Len(workers)
      /\ \A j \in DOMAIN workers : workers'[j] = IF j = w THEN v ELSE workers[j]
  BY <1>1, SeqPut
<1>3. calls' \in 0 .. MaxCalls /\ calls <= calls' /\ calls \in Nat /\ MaxCalls \in Nat
  BY Bounds DEF TypeInv, Data
<1>4. \A j \in DOMAIN workers : workers[j].inbox \in Nat
  BY WorkersAre
<1>5. \A j \in DOMAIN workers' : workers'[j].inbox <= calls' /\ workers'[j].doc <= doc'.id
  BY <1>2, <1>3, <1>4 DEF TypeInv, Data, pageVars
<1>6. Data'
  BY <1>1, <1>2, <1>3, <1>5 DEF Data
<1>7. Present'
  BY <1>2 DEF Present, pageVars
<1>8. QED
  BY <1>1, <1>2, <1>6, <1>7

(* A form submitted.                                                       *)
LEMMA SubmitFormIsQuiet ==
  ASSUME TypeInv, Present, SubmitForm
  PROVE  QuietStep
<1>1. UNCHANGED <<pageVars, tasks, workers>> /\ calls' \in calls .. MaxCalls
  BY Bounds DEF SubmitForm, Makes, TypeInv, Data
<1>2. Data' /\ Present' /\ Len(workers) <= Len(workers)' /\ workers' \in Seq(Worker)
  BY <1>1, DataStays DEF TypeInv, Data
<1>3. Quietly
  BY <1>2, Stays DEF SubmitForm
<1>4. pending' \in Pages \cup {NoPage} /\ processing' \in BOOLEAN
  BY DEF SubmitForm, Makes, TypeInv, TypeOK
<1>5. QED
  BY <1>1, <1>2, <1>3, <1>4 DEF QuietStep

(* An element connected or a timer set.                                    *)
LEMMA PostTaskIsQuiet ==
  ASSUME TypeInv, Present, PostTask
  PROVE  QuietStep
<1>1. UNCHANGED <<pageVars, formVars, workers, todo>> /\ calls' \in calls .. MaxCalls
  BY Bounds DEF PostTask, Makes, TypeInv, Data
<1>2. PICK kind \in {"resource", "timer"} : tasks' = Append(tasks, Task(kind, doc.id))
  BY DEF PostTask, Makes
<1>3. Task(kind, doc.id) \in Tasks(Len(workers))
  BY Bounds DEF Task, Tasks, TypeInv, TypeOK
<1>4. Data' /\ Present' /\ Len(workers) <= Len(workers)'
  BY <1>1, <1>2, <1>3, TaskAdded
<1>5. Quietly
  BY <1>1, <1>4, Stays DEF PostTask, Data, TypeInv
<1>6. QED
  BY <1>1, <1>4, <1>5 DEF QuietStep, TypeInv, TypeOK, formVars

(* A worker constructed.                                                   *)
LEMMA NewWorkerIsQuiet ==
  ASSUME TypeInv, Present, NewWorker
  PROVE  QuietStep
<1> DEFINE v == [doc |-> doc.id, terminated |-> FALSE, inbox |-> 0, got |-> 0]
<1>1. UNCHANGED <<pageVars, formVars, tasks>> /\ calls' \in calls .. MaxCalls /\ workers' = Append(workers, v)
  BY Bounds DEF NewWorker, Makes, TypeInv, Data
<1>2. v \in Worker /\ workers \in Seq(Worker) /\ Len(workers) \in Nat /\ doc.id \in Nat
  BY Bounds, LenProperties DEF Worker, TypeInv, TypeOK, Data
<1>3. /\ workers' \in Seq(Worker) /\ Len(workers') = Len(workers) + 1
      /\ DOMAIN workers' = DOMAIN workers \cup {Len(workers) + 1}
      /\ \A j \in DOMAIN workers : workers'[j] = workers[j]
      /\ workers'[Len(workers) + 1] = v
  <2> HIDE DEF v
  <2>1. QED
    BY <1>1, <1>2, SeqAdd
<1>4. PICK m \in Nat : m = Len(workers)' /\ Len(workers) <= m /\ Len(workers) + 1 = m
  BY <1>2, <1>3
<1>5. Data'
  <2>1. calls' \in 0 .. MaxCalls /\ calls <= calls' /\ calls \in Nat
    BY <1>1, Bounds DEF TypeInv, Data
  <2>2. tasks' \in Seq(Tasks(m))
    BY <1>1, <1>2, <1>4, MoreWorkers, SeqMonotonic DEF TypeInv, Data
  <2>3. \A j \in DOMAIN workers : workers[j].inbox <= calls'
    BY <2>1, WorkersAre DEF TypeInv, Data
  <2>4. v.inbox <= calls' /\ v.doc <= doc.id
    BY <1>2, <2>1
  <2>5. \A j \in DOMAIN workers' : workers'[j].inbox <= calls' /\ workers'[j].doc <= doc'.id
    <3> HIDE DEF v
    <3>1. QED
      BY <1>1, <1>3, <2>3, <2>4 DEF TypeInv, Data, pageVars
  <2>6. QED
    BY <1>3, <1>4, <2>1, <2>2, <2>5 DEF Data
<1>6. Present'
  <2>1. v.doc = doc.id
    OBVIOUS
  <2>2. QED
    <3> HIDE DEF v
    <3>1. QED
      BY <1>1, <1>3, <2>1 DEF Present, pageVars
<1>7. PICK q \in Seq(Quiet(m)) : todo' = q \o todo
  <2>1. Len(workers) + 1 \in 1 .. m
    BY <1>2, <1>4
  <2>2. Step("worker", Len(workers) + 1) \in Quiet(m) /\ Step("error", Len(workers) + 1) \in Quiet(m)
    BY <2>1 DEF Quiet
  <2>3. \E q \in {<<Step("worker", Len(workers) + 1)>>,
                  <<Step("worker", Len(workers) + 1), Step("error", Len(workers) + 1)>>,
                  <<Step("error", Len(workers) + 1)>>} : todo' = q \o todo
    BY DEF NewWorker, Call
  <2>4. QED
    BY <2>2, <2>3, ShortSeqs
<1>8. Quietly
  <2>1. ~Idle /\ Head(todo).op \in {"script", "handlers"}
    BY DEF NewWorker, At
  <2>2. Head(todo) \in Quiet(Len(workers))
    BY <2>1, HeadStep
  <2>3. q \in Seq(Quiet(Len(workers)'))
    BY <1>4, <1>7
  <2>4. QED
    BY <1>3, <1>4, <1>7, <2>1, <2>2, <2>3, Calls
<1>9. QED
  BY <1>1, <1>4, <1>5, <1>6, <1>8 DEF QuietStep, TypeInv, TypeOK, formVars

(* A worker that fails reports it.                                         *)
LEMMA WorkerFailsIsQuiet ==
  ASSUME TypeInv, Present, WorkerFails
  PROVE  QuietStep
<1>1. ~Idle /\ Head(todo).op = "error" /\ Become(<<>>) /\ tasks' = Append(tasks, Task("error", Arg))
  BY DEF WorkerFails, At
<1>2. UNCHANGED <<pageVars, formVars, workers>> /\ calls' \in calls .. MaxCalls
  BY Bounds DEF WorkerFails, TypeInv, Data
<1>3. Task("error", Arg) \in Tasks(Len(workers))
  <2>1. Arg \in 1 .. Len(workers)
    BY <1>1, HeadStep, LenProperties DEF TypeInv, Data
  <2>2. QED
    BY <2>1 DEF Task, Tasks
<1>4. Data' /\ Present' /\ Len(workers) <= Len(workers)'
  BY <1>1, <1>2, <1>3, TaskAdded
<1>5. Quietly
  BY <1>1, Done
<1>6. QED
  BY <1>2, <1>4, <1>5 DEF QuietStep, TypeInv, TypeOK, formVars

(* A message posted to a worker, or the worker stopped.                    *)
LEMMA PostToWorkerIsQuiet ==
  ASSUME TypeInv, Present, PostToWorker
  PROVE  QuietStep
<1>1. UNCHANGED <<pageVars, formVars, tasks, todo>> /\ calls' = calls + 1 /\ calls < MaxCalls
  BY DEF PostToWorker, Makes
<1>2. calls' \in calls .. MaxCalls /\ calls \in Nat
  BY <1>1, Bounds DEF TypeInv, Data
<1>3. PICK w \in DOMAIN workers : workers' \in {[workers EXCEPT ![w].inbox = @ + 1],
                                                 [workers EXCEPT ![w] = Terminated(@)]}
  BY DEF PostToWorker, Makes
<1>4. /\ workers[w] \in Worker /\ workers[w].inbox \in Nat /\ workers[w].inbox <= calls
      /\ workers \in Seq(Worker)
  BY WorkersAre DEF TypeInv, Data
<1>5. PICK v \in {[workers[w] EXCEPT !.inbox = @ + 1], Terminated(workers[w])} :
        workers' = [workers EXCEPT ![w] = v]
  BY <1>3
<1>6. /\ v \in Worker /\ v.doc = workers[w].doc /\ (workers[w].terminated => v.terminated)
      /\ v.inbox <= calls'
  <2>1. CASE v = [workers[w] EXCEPT !.inbox = @ + 1]
    <3>1. v.inbox = workers[w].inbox + 1 /\ v.inbox \in Nat /\ v.inbox <= calls'
      BY <1>1, <1>2, <1>4, <2>1 DEF Worker
    <3>2. v \in Worker /\ v.doc = workers[w].doc /\ v.terminated = workers[w].terminated
      BY <1>4, <2>1, <3>1 DEF Worker
    <3>3. QED
      BY <3>1, <3>2
  <2>2. CASE v = Terminated(workers[w])
    BY <1>1, <1>2, <1>4, <2>2, StoppedWorker
  <2>3. QED
    BY <1>5, <2>1, <2>2
<1>7. workers' \in Seq(Worker) /\ Len(workers)' = Len(workers) /\ Data' /\ Present'
  <2>1. tasks' \in Seq(Tasks(Len(workers))) /\ UNCHANGED pageVars
    BY <1>1 DEF TypeInv, Data
  <2>2. QED
    BY <1>2, <1>5, <1>6, <2>1, WorkerChanged
<1>8. Len(workers) <= Len(workers)'
  BY <1>7, LenProperties DEF TypeInv, Data
<1>9. Quietly
  BY <1>1, <1>7, <1>8, Stays DEF PostToWorker
<1>10. QED
  BY <1>1, <1>7, <1>8, <1>9 DEF QuietStep, TypeInv, TypeOK, formVars

(* Code that returns.                                                      *)
LEMMA ReturnsIsQuiet ==
  ASSUME TypeInv, Present, Returns
  PROVE  QuietStep
<1>1. ~Idle /\ Head(todo).op \notin {"reset", "push", "styles"} /\ Become(<<>>)
  BY DEF Returns, At
<1>2. UNCHANGED <<pageVars, formVars, tasks, workers>> /\ calls' \in calls .. MaxCalls
  BY Bounds DEF Returns, TypeInv, Data
<1>3. Data' /\ Present' /\ Len(workers) <= Len(workers)'
  BY <1>2, DataStays
<1>4. Quietly
  BY <1>1, Done
<1>5. QED
  BY <1>2, <1>3, <1>4 DEF QuietStep, TypeInv, TypeOK, formVars

(* A task taken from the queue and run.                                    *)
LEMMA EngineIsQuiet ==
  ASSUME TypeInv, Present, Engine
  PROVE  QuietStep
<1>1. /\ ~Idle /\ Head(todo).op = "engine"
      /\ UNCHANGED <<pageVars, formVars>> /\ calls' \in calls .. MaxCalls /\ calls \in Nat
  BY Bounds DEF Engine, At, TypeInv, Data
<1>2. CASE tasks = <<>>
  <2>1. Become(<<>>) /\ UNCHANGED <<pageVars, tasks, workers>>
    BY <1>1, <1>2 DEF Engine
  <2>2. Data' /\ Present' /\ Len(workers) <= Len(workers)'
    BY <1>1, <2>1, DataStays
  <2>3. Quietly
    BY <1>1, <2>1, Done
  <2>4. QED
    BY <1>1, <2>2, <2>3 DEF QuietStep, TypeInv, TypeOK, formVars
<1>3. CASE tasks # <<>>
  <2>1. PICK t : t = Head(tasks)
    OBVIOUS
  <2>2. /\ tasks' = Tail(tasks)
        /\ \E steps \in Runs(t) : Call(steps)
        /\ workers' = IF t.kind \in {"message", "error"} /\ Deliverable(t)
                      THEN [workers EXCEPT ![t.of].got = @ + 1] ELSE workers
    BY <1>3, <2>1 DEF Engine
  <2>3. t \in Tasks(Len(workers)) /\ tasks' \in Seq(Tasks(Len(workers)))
    BY <1>3, <2>1, <2>2, SeqTake DEF TypeInv, Data
  <2>4. /\ workers' \in Seq(Worker) /\ Len(workers)' = Len(workers) /\ Len(workers) \in Nat
        /\ Data' /\ Present'
    <3>1. CASE t.kind \in {"message", "error"} /\ Deliverable(t)
      <4>1. PICK w \in DOMAIN workers : w = t.of
        BY <2>3, <3>1, LenProperties DEF Tasks, TypeInv, Data
      <4>2. /\ workers[w] \in Worker /\ workers[w].got \in Nat /\ workers[w].inbox \in Nat
            /\ workers[w].inbox <= calls
        BY WorkersAre DEF TypeInv, Data
      <4>3. PICK v : v = [workers[w] EXCEPT !.got = @ + 1]
        OBVIOUS
      <4>4. workers' = [workers EXCEPT ![w] = v]
        BY <2>2, <3>1, <4>1, <4>3
      <4>5. /\ v \in Worker /\ v.doc = workers[w].doc /\ (workers[w].terminated => v.terminated)
            /\ v.inbox <= calls'
        BY <1>1, <4>2, <4>3 DEF Worker
      <4>6. UNCHANGED pageVars /\ calls' \in calls .. MaxCalls
        BY <1>1
      <4>7. workers' \in Seq(Worker) /\ Len(workers)' = Len(workers) /\ Data' /\ Present'
        BY <2>3, <4>4, <4>5, <4>6, WorkerChanged
      <4>8. QED
        BY <4>7, LenProperties DEF TypeInv, Data
    <3>2. CASE ~(t.kind \in {"message", "error"} /\ Deliverable(t))
      <4>1. workers' = workers /\ Len(workers) \in Nat /\ workers \in Seq(Worker)
        BY <2>2, <3>2, LenProperties DEF TypeInv, Data
      <4>2. \A w \in DOMAIN workers : workers[w].inbox <= calls'
        BY <1>1, WorkersAre, Bounds DEF TypeInv, Data
      <4>3. calls' \in 0 .. MaxCalls
        BY <1>1, Bounds
      <4>4. QED
        BY <1>1, <2>3, <4>1, <4>2, <4>3 DEF TypeInv, Data, Present, pageVars
    <3>3. QED
      BY <3>1, <3>2
  <2>5. PICK steps \in Runs(t) : todo' = steps \o todo
    BY <2>2 DEF Call
  <2>6. steps \in Seq(Quiet(Len(workers)'))
    <3>1. Step("script", 0) \in Quiet(Len(workers)') /\ Step("handlers", 0) \in Quiet(Len(workers)')
      BY DEF Quiet
    <3>2. steps \in {<<>>, <<Step("script", 0), Step("handlers", 0)>>, <<Step("handlers", 0)>>,
                     <<Step("script", 0)>>}
      BY <2>5 DEF Runs
    <3>3. QED
      BY <3>1, <3>2, ShortSeqs
  <2>7. Quietly
    <3>1. Head(todo) \in Quiet(Len(workers))
      BY <1>1, HeadStep
    <3>2. Len(workers) <= Len(workers)'
      BY <2>4
    <3>3. QED
      BY <1>1, <2>4, <2>5, <2>6, <3>1, <3>2, Calls
  <2>8. QED
    BY <1>1, <2>4, <2>7 DEF QuietStep, TypeInv, TypeOK, formVars
<1>4. QED
  BY <1>2, <1>3

(* Pumping the workers of the document.                                    *)
LEMMA SnapshotIsQuiet ==
  ASSUME TypeInv, Present, Snapshot
  PROVE  QuietStep
<1> DEFINE mine == {w \in DOMAIN workers : workers[w].doc = doc.id}
<1>1. /\ ~Idle /\ Head(todo).op = "snapshot"
      /\ UNCHANGED <<pageVars, formVars, tasks, workers>> /\ calls' \in calls .. MaxCalls
  BY Bounds DEF Snapshot, At, TypeInv, Data
<1>2. PICK now \in InOrder(mine) : Become([i \in DOMAIN now |-> Step("pump", now[i])])
  BY DEF Snapshot
<1>3. Data' /\ Present' /\ Len(workers) <= Len(workers)'
  BY <1>1, DataStays
<1>4. DOMAIN workers = 1 .. Len(workers) /\ Len(workers) \in Nat /\ Len(workers)' = Len(workers)
  BY <1>1, LenProperties DEF TypeInv, Data
<1>5. IsFiniteSet(mine)
  <2>1. IsFiniteSet(1 .. Len(workers)) /\ mine \subseteq 1 .. Len(workers)
    BY <1>4, FS_Interval
  <2>2. QED
    BY <2>1, FS_Subset
<1>6. PICK k \in Nat : k = Cardinality(mine)
  BY <1>5, FS_CardinalityType
<1>7. now \in [1 .. k -> mine]
  BY <1>2, <1>6 DEF InOrder
<1>8. PICK q : q = [i \in 1 .. k |-> Step("pump", now[i])]
  OBVIOUS
<1>9. \A i \in 1 .. k : q[i] \in Quiet(Len(workers)')
  BY <1>4, <1>7, <1>8 DEF Quiet
<1>10. q \in Seq(Quiet(Len(workers)'))
  BY <1>8, <1>9
<1>11. Become(q)
  BY <1>2, <1>7, <1>8
<1>12. Quietly
  BY <1>1, <1>10, <1>11, Becoming
<1>13. QED
  BY <1>1, <1>3, <1>12 DEF QuietStep, TypeInv, TypeOK, formVars

(* A worker that runs for a message, or has nothing to run.                *)
LEMMA PumpIsQuiet ==
  ASSUME TypeInv, Present, Pump
  PROVE  QuietStep
<1>1. /\ ~Idle /\ Head(todo).op = "pump" /\ UNCHANGED <<pageVars, formVars, tasks>>
      /\ calls' \in calls .. MaxCalls /\ calls' = calls
  BY Bounds DEF Pump, At, TypeInv, Data
<1>2. CASE workers[Arg].terminated \/ workers[Arg].inbox = 0
  <2>1. Become(<<>>) /\ UNCHANGED <<pageVars, tasks, workers>>
    BY <1>1, <1>2 DEF Pump
  <2>2. Data' /\ Present' /\ Len(workers) <= Len(workers)'
    BY <1>1, <2>1, DataStays
  <2>3. Quietly
    BY <1>1, <2>1, Done
  <2>4. QED
    BY <1>1, <2>2, <2>3 DEF QuietStep, TypeInv, TypeOK, formVars
<1>3. CASE ~(workers[Arg].terminated \/ workers[Arg].inbox = 0)
  <2>1. PICK w \in DOMAIN workers : w = Arg
    BY <1>1, HeadStep
  <2>2. Call(<<Step("worker", w)>>) /\ workers' = [workers EXCEPT ![w].inbox = @ - 1]
    BY <1>3, <2>1 DEF Pump
  <2>3. /\ workers[w] \in Worker /\ workers[w].inbox \in Nat /\ workers[w].inbox <= calls
        /\ workers[w].inbox # 0 /\ calls \in Nat
    BY <1>3, <2>1, WorkersAre, Bounds DEF TypeInv, Data
  <2>4. PICK v : v = [workers[w] EXCEPT !.inbox = @ - 1]
    OBVIOUS
  <2>5. workers' = [workers EXCEPT ![w] = v]
    BY <2>2, <2>4
  <2>6. /\ v \in Worker /\ v.doc = workers[w].doc /\ (workers[w].terminated => v.terminated)
        /\ v.inbox <= calls'
    BY <1>1, <2>3, <2>4 DEF Worker
  <2>7. workers' \in Seq(Worker) /\ Len(workers)' = Len(workers) /\ Data' /\ Present'
    <3>1. tasks' \in Seq(Tasks(Len(workers))) /\ UNCHANGED pageVars
      BY <1>1 DEF TypeInv, Data
    <3>2. QED
      BY <1>1, <2>5, <2>6, <3>1, WorkerChanged
  <2>8. DOMAIN workers = 1 .. Len(workers) /\ Len(workers) \in Nat
    BY LenProperties DEF TypeInv, Data
  <2>9. <<Step("worker", w)>> \in Seq(Quiet(Len(workers)'))
    <3>1. Step("worker", w) \in Quiet(Len(workers)')
      BY <2>7, <2>8 DEF Quiet
    <3>2. QED
      BY <3>1, ShortSeqs
  <2>10. Quietly
    <3>1. Head(todo) \in Quiet(Len(workers)) /\ Len(workers) <= Len(workers)'
      BY <1>1, <2>7, <2>8, HeadStep
    <3>2. todo' = <<Step("worker", w)>> \o todo
      BY <2>2 DEF Call
    <3>3. QED
      BY <1>1, <2>7, <2>9, <3>1, <3>2, Calls
  <2>11. QED
    BY <1>1, <2>7, <2>8, <2>10 DEF QuietStep, TypeInv, TypeOK, formVars
<1>4. QED
  BY <1>2, <1>3

(* What a worker calls: it posts a message to its document, or stops.      *)
LEMMA WorkerCallsIsQuiet ==
  ASSUME TypeInv, Present, WorkerCalls
  PROVE  QuietStep
<1>1. /\ ~Idle /\ Head(todo).op = "worker" /\ UNCHANGED <<pageVars, formVars, todo>>
      /\ calls' \in calls .. MaxCalls /\ calls' = calls + 1 /\ calls \in Nat
  BY Bounds DEF WorkerCalls, Makes, At, TypeInv, Data
<1>2. PICK w \in DOMAIN workers : w = Arg
  BY <1>1, HeadStep
<1>3. DOMAIN workers = 1 .. Len(workers) /\ Len(workers) \in Nat
  BY LenProperties DEF TypeInv, Data
<1>4. workers' \in Seq(Worker) /\ Len(workers) <= Len(workers)' /\ Data' /\ Present'
  <2>1. CASE tasks' = Append(tasks, Task("message", Arg)) /\ workers' = workers
    <3>1. Task("message", Arg) \in Tasks(Len(workers))
      BY <1>2, <1>3 DEF Task, Tasks
    <3>2. QED
      BY <1>1, <2>1, <3>1, TaskAdded DEF TypeInv, Data
  <2>2. CASE workers' = [workers EXCEPT ![Arg] = Terminated(@)] /\ tasks' = tasks
    <3>1. workers[w] \in Worker /\ workers[w].inbox \in Nat /\ workers[w].inbox <= calls
      BY WorkersAre DEF TypeInv, Data
    <3>2. PICK v : v = Terminated(workers[w])
      OBVIOUS
    <3>3. workers' = [workers EXCEPT ![w] = v]
      BY <1>2, <2>2, <3>2
    <3>4. /\ v \in Worker /\ v.doc = workers[w].doc /\ (workers[w].terminated => v.terminated)
          /\ v.inbox <= calls'
      BY <1>1, <3>1, <3>2, StoppedWorker
    <3>5. tasks' \in Seq(Tasks(Len(workers))) /\ UNCHANGED pageVars
      BY <1>1, <2>2 DEF TypeInv, Data
    <3>6. workers' \in Seq(Worker) /\ Len(workers)' = Len(workers) /\ Data' /\ Present'
      BY <1>1, <3>3, <3>4, <3>5, WorkerChanged
    <3>7. QED
      BY <1>3, <3>6
  <2>3. QED
    BY <2>1, <2>2 DEF WorkerCalls, Makes
<1>5. Quietly
  BY <1>1, <1>4, Stays DEF WorkerCalls
<1>6. QED
  BY <1>1, <1>4, <1>5 DEF QuietStep, TypeInv, TypeOK, formVars

(* The processing of a pending navigation starts, unless it is under way.  *)
LEMMA ProcessIsQuiet ==
  ASSUME TypeInv, Present, Process
  PROVE  QuietStep
<1>1. /\ ~Idle /\ Head(todo).op = "process" /\ UNCHANGED <<pageVars, pending, tasks, workers>>
      /\ calls' \in calls .. MaxCalls
  BY Bounds DEF Process, At, TypeInv, TypeOK, Data
<1>2. processing \in BOOLEAN
  BY Zenon DEF TypeInv, TypeOK
<1>3. processing' \in {processing, TRUE}
  BY DEF Process
<1>4. Data' /\ Present' /\ Len(workers) <= Len(workers)'
  BY <1>1, DataStays
<1>5. PICK q \in {<<>>, <<Step("redirect", 0)>>} : Become(q)
  BY DEF Process
<1>6. q \in Seq(Quiet(Len(workers)'))
  <2>1. Step("redirect", 0) \in Quiet(Len(workers)')
    BY DEF Quiet
  <2>2. QED
    BY <1>5, <2>1, ShortSeqs
<1>7. Quietly
  BY <1>1, <1>5, <1>6, Becoming
<1>8. QED
  <2>1. processing' \in BOOLEAN
    BY <1>2, <1>3, Zenon
  <2>2. QED
    BY <1>1, <1>4, <1>7, <2>1 DEF QuietStep, TypeInv, TypeOK

(* A round of the redirects that loads nothing.                            *)
LEMMA NoRedirectIsQuiet ==
  ASSUME TypeInv, Present, Redirect, Become(<<>>)
  PROVE  QuietStep
<1>1. /\ ~Idle /\ Head(todo).op = "redirect" /\ UNCHANGED <<pageVars, tasks, workers>>
      /\ calls' \in calls .. MaxCalls
  BY Bounds DEF Redirect, At, TypeInv, TypeOK, Data
<1>2. processing \in BOOLEAN
  BY Zenon DEF TypeInv, TypeOK
<1>3. processing' \in {processing, FALSE} /\ pending' \in {pending, NoPage}
  BY DEF Redirect, FlagAfter
<1>4. Data' /\ Present' /\ Len(workers) <= Len(workers)'
  BY <1>1, DataStays
<1>5. Quietly
  BY <1>1, Done
<1>6. QED
  <2>1. processing' \in BOOLEAN
    <3>1. CASE processing' = processing
      BY <1>2, <3>1, Zenon
    <3>2. CASE processing' = FALSE
      BY <3>2
    <3>3. QED
      BY <1>3, <3>1, <3>2
  <2>2. pending' \in Pages \cup {NoPage}
    BY <1>3 DEF TypeInv, TypeOK
  <2>3. QED
    BY <1>1, <1>4, <1>5, <2>1, <2>2 DEF QuietStep

(* The host calls code of the page, or runs its tasks.                     *)
LEMMA HostIsQuiet ==
  ASSUME TypeInv, Present, HostCalls \/ HostRunsTasks
  PROVE  QuietStep
<1>1. /\ Idle /\ UNCHANGED <<pageVars, formVars, tasks, workers>> /\ calls' \in calls .. MaxCalls
  BY Bounds DEF HostCalls, HostRunsTasks, TypeInv, Data
<1>2. Data' /\ Present' /\ Len(workers) <= Len(workers)'
  BY <1>1, DataStays
<1>3. PICK n \in Nat : n = Len(workers)'
  BY <1>1, LenProperties DEF TypeInv, Data
<1>4. todo' \in Seq(Quiet(n))
  <2>1. Step("script", 0) \in Quiet(n) /\ Step("process", 0) \in Quiet(n) /\ Step("handlers", 0) \in Quiet(n)
    BY DEF Quiet
  <2>2. RunTasks \in Seq(Quiet(n)) /\ <<Step("handlers", 0)>> \in Seq(Quiet(n))
    BY <2>1, RunTasksSteps, ShortSeqs
  <2>3. <<Step("handlers", 0)>> \o RunTasks \in Seq(Quiet(n))
    BY <2>2, ConcatProperties
  <2>4. todo' \in {<<Step("script", 0), Step("process", 0)>>, <<Step("script", 0)>>,
                   <<Step("handlers", 0)>>, <<Step("handlers", 0)>> \o RunTasks, RunTasks}
    BY DEF HostCalls, HostRunsTasks
  <2>5. QED
    BY <2>1, <2>2, <2>3, <2>4, ShortSeqs
<1>5. Quietly
  <2>1. Rest = <<>> /\ todo' = todo' \o <<>>
    BY <1>1, <1>4, ConcatEmptySeq DEF Rest
  <2>2. QED
    BY <1>1, <1>3, <1>4, <2>1 DEF Quietly
<1>6. QED
  BY <1>1, <1>2, <1>5 DEF QuietStep, TypeInv, TypeOK, formVars

-----------------------------------------------------------------------------
(* The steps of loads                                                      *)

(* A load begins in front of inner steps.                                  *)
LEMMA LoadBefore ==
  ASSUME NEW n \in Nat, NEW p \in Pages, NEW s \in Seq(Steps(n)), NEW r \in Seq(Steps(n)),
         Inner(r), s \in {DoLoad(p), LoadHtml(p)}, n = Len(workers)', doc'.id < MaxLoads,
         todo' = s \o r,
         s = DoLoad(p) => history' # <<>> /\ history'[pos'] = p
  PROVE  Placed' /\ Begins' /\ At("reset")'
<1> USE Bounds
<1>1. StylesAt >= 11
  BY DEF StylesAt
<1>2. /\ s \in Seq(Steps(n)) /\ Len(s) \in {StylesAt, StylesAt + 2}
      /\ s[1] = Step("reset", p)
      /\ s[StylesAt] = Step("styles", 0)
      /\ \A i \in 2 .. StylesAt - 1 : s[i] \in Quiet(n)
      /\ Len(s) = StylesAt => s = DoLoad(p)
      /\ Len(s) = StylesAt + 2 => s[StylesAt + 1] = Step("push", p) /\ s[StylesAt + 2] = Step("process", 0)
  BY LoadSteps, LoadHtmlSteps
<1>3. PICK t \in Seq(Steps(n)) : t = s \o r
  BY SeqJoin
<1>4. PICK l \in {StylesAt, StylesAt + 2} : l = Len(s)
  BY <1>2
<1>5. DOMAIN s = 1 .. l /\ DOMAIN r = 1 .. Len(r) /\ Len(r) \in Nat /\ l \in Nat
  BY <1>4, LenProperties
<1>6. /\ DOMAIN t = 1 .. l + Len(r)
      /\ \A i \in DOMAIN s : t[i] = s[i]
      /\ \A i \in DOMAIN r : l + i \in DOMAIN t /\ t[l + i] = r[i]
      /\ \A i \in DOMAIN t :
           \/ i \in DOMAIN s /\ t[i] = s[i]
           \/ i - l \in DOMAIN r /\ t[i] = r[i - l]
  BY <1>3, <1>4, SeqJoin
<1>7. \A i \in 2 .. StylesAt - 1 : s[i].op \notin {"reset", "push", "styles"}
  BY <1>2, QuietSteps
<1>8. /\ s[1].op = "reset" /\ s[1].arg = p /\ s[StylesAt].op = "styles"
      /\ l = StylesAt + 2 => s[StylesAt + 1].op = "push" /\ s[StylesAt + 1].arg = p
                             /\ s[StylesAt + 2].op = "process"
  BY <1>2, <1>4 DEF Step
<1>9. \A i \in DOMAIN s : i = 1 \/ i \in 2 .. StylesAt - 1 \/ i = StylesAt
                            \/ (l = StylesAt + 2 /\ (i = StylesAt + 1 \/ i = StylesAt + 2))
  <2>1. CASE l = StylesAt
    BY <1>5, <1>1, <2>1
  <2>2. CASE l = StylesAt + 2
    <3>1. ASSUME NEW i \in DOMAIN s
          PROVE  i = 1 \/ i \in 2 .. StylesAt - 1 \/ i = StylesAt \/ i = StylesAt + 1 \/ i = StylesAt + 2
      <4>1. i \in Int /\ 1 <= i /\ i <= StylesAt + 2
        BY <1>5, <2>2
      <4>2. QED
        BY <1>1, <4>1
    <3>2. QED
      BY <2>2, <3>1
  <2>3. QED
    BY <1>4, <2>1, <2>2
<1>10. /\ \A i \in DOMAIN s : s[i].op = "reset" => i = 1
       /\ \A i \in DOMAIN s : s[i].op = "push" => i = StylesAt + 1
       /\ \A i \in DOMAIN s : s[i].op = "styles" => i = StylesAt
  BY <1>1, <1>7, <1>8, <1>9
<1>11. \A i \in DOMAIN r : r[i].op # "reset"
  BY DEF Inner
<1>12. ASSUME NEW i \in DOMAIN t, t[i].op = "push"
       PROVE  (i - 1) \in DOMAIN t /\ t[i - 1].op = "styles"
  <2>1. CASE i \in DOMAIN s /\ t[i] = s[i]
    <3>1. i = StylesAt + 1 /\ i - 1 = StylesAt
      BY <1>10, <1>12, <2>1
    <3>2. StylesAt \in DOMAIN s /\ StylesAt \in DOMAIN t
      BY <1>1, <1>5, <1>6, <3>1, <2>1
    <3>3. t[StylesAt].op = "styles"
      BY <1>6, <1>8, <3>2
    <3>4. QED
      BY <3>1, <3>2, <3>3
  <2>2. CASE i - l \in DOMAIN r /\ t[i] = r[i - l]
    <3>1. PICK k \in DOMAIN r : k = i - l
      BY <2>2
    <3>2. k - 1 \in DOMAIN r /\ r[k - 1].op = "styles"
      BY <1>12, <2>2, <3>1 DEF Inner
    <3>3. l + (k - 1) = i - 1
      BY <1>5, <1>6, <3>1
    <3>4. QED
      BY <1>6, <3>2, <3>3
  <2>3. QED
    BY <1>6, <2>1, <2>2
<1>13. \A i \in DOMAIN t : t[i].op = "reset" => i = 1
  BY <1>6, <1>10, <1>11
<1>14. t # <<>> /\ Head(t) = s[1] /\ t[1] = s[1]
  BY <1>1, <1>3, <1>5, <1>6, SeqTake
<1>15. todo' = t
  BY <1>3
<1>16. At("reset")' /\ Arg' = p
  BY <1>8, <1>14, <1>15 DEF At, Idle, Arg
<1>17. Placed'
  BY <1>12, <1>13, <1>15 DEF Placed, Loading
<1>18. StylesAt \in Loading' /\ \A k \in Loading' : k >= StylesAt
  <2>1. StylesAt \in DOMAIN s /\ StylesAt \in DOMAIN t
    BY <1>1, <1>5, <1>6
  <2>2. \A k \in DOMAIN t : t[k].op = "styles" => k >= StylesAt
    BY <1>1, <1>5, <1>6, <1>10
  <2>3. QED
    BY <1>6, <1>8, <1>15, <2>1, <2>2 DEF Loading
<1>19. IF PushAt(StylesAt + 1)' THEN todo'[StylesAt + 1].arg = Arg'
       ELSE history' # <<>> /\ history'[pos'] = Arg'
  <2>1. CASE l = StylesAt + 2
    <3>1. StylesAt + 1 \in DOMAIN s /\ StylesAt + 1 \in DOMAIN t
      BY <1>1, <1>5, <1>6, <2>1
    <3>2. QED
      BY <1>6, <1>8, <1>15, <1>16, <2>1, <3>1 DEF PushAt
  <2>2. CASE l = StylesAt
    <3>1. ~PushAt(StylesAt + 1)'
      <4>1. SUFFICES ASSUME StylesAt + 1 \in DOMAIN t, t[StylesAt + 1].op = "push" PROVE FALSE
        BY <1>15 DEF PushAt
      <4>2. 1 \in DOMAIN r /\ r[1].op = "push"
        <5>1. StylesAt + 1 \notin DOMAIN s /\ (StylesAt + 1) - l = 1
          BY <1>1, <1>5, <2>2
        <5>2. (StylesAt + 1) - l \in DOMAIN r /\ t[StylesAt + 1] = r[(StylesAt + 1) - l]
          BY <1>6, <4>1, <5>1
        <5>3. QED
          BY <4>1, <5>1, <5>2
      <4>3. 1 - 1 = 0 /\ 0 \notin DOMAIN r
        BY <1>5
      <4>4. QED
        BY <4>2, <4>3 DEF Inner
    <3>2. QED
      BY <1>2, <1>4, <1>16, <2>2, <3>1
  <2>3. QED
    BY <2>1, <2>2
<1>20. QED
  BY <1>16, <1>17, <1>18, <1>19 DEF Begins

(* The pages of the history are pages.                                     *)
LEMMA TargetIsPage ==
  ASSUME TypeInv, NEW b \in {-1, 0, 1}, pos + b \in DOMAIN history
  PROVE  /\ Target(b) \in Pages /\ Target(b) = history[pos + b] /\ history # <<>>
         /\ pos + b \in 1 .. Len(history)
BY ElementOfSeq, LenProperties DEF TypeInv, TypeOK, Target

(* A navigation of the host or of a script begins a load.                  *)
LEMMA NavigationBegins ==
  ASSUME TypeInv, Present, Navigate, Idle \/ At("script"), UNCHANGED <<formVars, tasks, workers>>,
         calls' \in calls .. MaxCalls
  PROVE  TypeInv' /\ Present' /\ HistoryInv'
<1>1. Len(workers) \in Nat /\ Len(workers)' = Len(workers)
  BY LenProperties DEF TypeInv, Data
<1>2. PICK n \in Nat : n = Len(workers) /\ n = Len(workers)'
  BY <1>1
<1>3. doc' = doc /\ history' = history /\ mixed' = mixed /\ doc.id < MaxLoads
  BY DEF Navigate, CanLoad
<1>4. PICK p \in Pages : \E s \in {DoLoad(p), LoadHtml(p)} :
        /\ todo' = s \o todo
        /\ \/ s = DoLoad(p) /\ history # <<>> /\ pos' \in 1 .. Len(history) /\ history[pos'] = p
           \/ s = LoadHtml(p) /\ pos' = pos
  <2>1. PICK v \in Traversals \cup UrlLoads : pos' = v.pos /\ todo' = v.steps \o todo
    BY DEF Navigate, Call
  <2>2. CASE v \in Traversals
    <3>1. PICK b \in {-1, 0, 1} : /\ pos + b \in DOMAIN history
                                  /\ v = [pos |-> pos + b, steps |-> DoLoad(Target(b))]
      BY <2>2 DEF Traversals
    <3>2. /\ Target(b) \in Pages /\ Target(b) = history[pos + b] /\ history # <<>>
          /\ pos + b \in 1 .. Len(history)
      BY <3>1, TargetIsPage
    <3>3. QED
      BY <2>1, <3>1, <3>2
  <2>3. CASE v \in UrlLoads
    <3>1. PICK p \in Pages : v = [pos |-> pos, steps |-> LoadHtml(p)]
      BY <2>3 DEF UrlLoads
    <3>2. v.pos = pos /\ v.steps = LoadHtml(p)
      BY <3>1
    <3>3. QED
      BY <2>1, <3>2
  <2>4. QED
    BY <2>2, <2>3
<1>5. PICK s \in {DoLoad(p), LoadHtml(p)} :
        /\ todo' = s \o todo
        /\ \/ s = DoLoad(p) /\ history # <<>> /\ pos' \in 1 .. Len(history) /\ history[pos'] = p
           \/ s = LoadHtml(p) /\ pos' = pos
  BY <1>4
<1>6. LoadHtml(p) # DoLoad(p)
  <2>1. Len(DoLoad(p)) = StylesAt /\ Len(LoadHtml(p)) = StylesAt + 2 /\ StylesAt \in Nat
    BY <1>2, LoadSteps, LoadHtmlSteps, Bounds
  <2>2. QED
    BY <2>1
<1>7. todo \in Seq(Steps(n)) /\ Inner(todo)
  <2>1. todo \in Seq(Steps(n)) /\ \A i \in DOMAIN todo : i \in Int
    BY <1>2, LenProperties DEF TypeInv, Placed
  <2>2. ASSUME NEW i \in DOMAIN todo
        PROVE  /\ todo[i].op # "reset"
               /\ todo[i].op = "push" => (i - 1) \in DOMAIN todo /\ todo[i - 1].op = "styles"
    <3>1. Head(todo) = todo[1] /\ Head(todo).op = "script"
      BY <2>1, <2>2, SeqTake DEF Idle, At
    <3>2. i = 1 => todo[i].op = "script"
      BY <3>1
    <3>3. QED
      BY <3>2 DEF TypeInv, Placed, Loading
  <2>3. QED
    BY <2>1, <2>2 DEF Inner
<1>8. s \in Seq(Steps(n))
  BY LoadSteps, LoadHtmlSteps
<1>9. s = DoLoad(p) => history' # <<>> /\ history'[pos'] = p
  BY <1>3, <1>5, <1>6
<1>10. Placed' /\ Begins' /\ At("reset")'
  BY <1>2, <1>3, <1>5, <1>7, <1>8, <1>9, LoadBefore
<1>11. TypeOK'
  <2>1. pos' \in 1 .. (IF history = <<>> THEN 1 ELSE Len(history))
    BY <1>5 DEF TypeInv, TypeOK
  <2>2. tasks' = tasks /\ workers' = workers /\ pending' = pending /\ processing' = processing
    BY DEF formVars
  <2>3. QED
    BY <1>3, <2>1, <2>2 DEF TypeInv, TypeOK
<1>12. Data' /\ Present'
  <2>1. \A w \in DOMAIN workers : workers[w].inbox <= calls'
    BY WorkersAre, Bounds DEF TypeInv, Data
  <2>2. calls' \in 0 .. MaxCalls
    BY Bounds DEF TypeInv, Data
  <2>3. QED
    BY <1>2, <1>3, <2>1, <2>2 DEF TypeInv, Data, Present
<1>13. QED
  BY <1>10, <1>11, <1>12 DEF TypeInv, HistoryInv, Entered

(* A redirect begins a load.                                               *)
LEMMA RedirectBegins ==
  ASSUME TypeInv, Present, Redirect, ~Become(<<>>)
  PROVE  TypeInv' /\ Present' /\ HistoryInv'
<1>1. /\ ~Idle /\ Head(todo).op = "redirect" /\ UNCHANGED <<pageVars, tasks, workers, calls>>
      /\ Arg < MaxRedirects /\ pending # NoPage /\ CanLoad /\ pending' = NoPage /\ processing' = processing
      /\ Become(LoadHtml(pending) \o <<Step("redirect", Arg + 1)>>)
  BY DEF Redirect, At
<1>2. PICK p \in Pages : p = pending
  BY <1>1 DEF TypeInv, TypeOK
<1>3. PICK n \in Nat : n = Len(workers) /\ n = Len(workers)'
  BY <1>1, LenProperties DEF TypeInv, Data
<1>4. PICK s : s = LoadHtml(p)
  OBVIOUS
<1>5. s \in Seq(Steps(n)) /\ s \in {DoLoad(p), LoadHtml(p)} /\ s # DoLoad(p)
  <2>1. Len(DoLoad(p)) = StylesAt /\ Len(LoadHtml(p)) = StylesAt + 2 /\ StylesAt \in Nat
    BY <1>3, LoadSteps, LoadHtmlSteps, Bounds
  <2>2. QED
    BY <1>4, <2>1, LoadHtmlSteps
<1>6. Rest \in Seq(Steps(n)) /\ Inner(Rest) /\ Rest = Tail(todo)
  <2>1. ~At("styles")
    BY <1>1 DEF At
  <2>2. QED
    BY <1>1, <1>3, <2>1, RestIsInner DEF TypeInv, Placed, Rest
<1>7. PICK q \in Seq(Quiet(n)) : q = <<Step("redirect", Arg + 1)>>
  <2>1. Arg \in Nat
    BY <1>1, HeadStep
  <2>2. Step("redirect", Arg + 1) \in Quiet(n)
    BY <2>1 DEF Quiet
  <2>3. QED
    BY <2>2, ShortSeqs
<1>8. PICK r \in Seq(Steps(n)) : r = q \o Tail(todo) /\ Inner(r)
  BY <1>6, QuietBefore
<1>9. todo' = s \o r
  <2>1. q \in Seq(Steps(n)) /\ Tail(todo) \in Seq(Steps(n))
    BY <1>6, QuietSteps, SeqMonotonic
  <2>2. (s \o q) \o Tail(todo) = s \o (q \o Tail(todo))
    BY <1>5, <2>1, ConcatAssociative, SMTT(30)
  <2>3. todo' = (s \o q) \o Tail(todo)
    BY <1>1, <1>2, <1>4, <1>7 DEF Become
  <2>4. QED
    BY <1>8, <2>2, <2>3
<1>10. doc'.id < MaxLoads
  BY <1>1 DEF CanLoad, pageVars
<1>11. Placed' /\ Begins' /\ At("reset")'
  BY <1>3, <1>5, <1>8, <1>9, <1>10, LoadBefore
<1>12. TypeOK' /\ Data' /\ Present'
  BY <1>1 DEF TypeInv, TypeOK, Data, Present, pageVars
<1>13. QED
  BY <1>11, <1>12 DEF TypeInv, HistoryInv, Entered

(* The types of what a load changes.                                       *)
LEMMA WorkersReset ==
  ASSUME TypeInv, Reset
  PROVE  /\ doc' \in [id : 0 .. MaxLoads, page : Pages \cup {NoPage}] /\ doc'.id = doc.id + 1
         /\ doc'.page = Arg /\ Arg \in Pages
         /\ Data' /\ Present' /\ Len(workers)' = Len(workers) /\ workers' \in Seq(Worker)
         /\ \A w \in DOMAIN workers' : workers'[w].inbox \in Nat /\ workers'[w].doc \in 0 .. doc'.id
<1> USE Bounds
<1>1. At("reset") /\ doc' = [id |-> doc.id + 1, page |-> Arg] /\ workers' = WorkersAfterReset
      /\ UNCHANGED <<tasks, calls>>
  BY DEF Reset
<1>2. Arg \in Pages
  <2>1. Head(todo) \in Steps(Len(workers)) /\ Len(workers) \in Nat
    BY <1>1, SeqTake, LenProperties DEF TypeInv, Placed, Data, At, Idle
  <2>2. QED
    BY <1>1, <2>1, QuietSteps DEF At, Arg
<1>3. doc.id \in 0 .. MaxLoads /\ doc.id < MaxLoads
  BY <1>1 DEF TypeInv, TypeOK, Placed
<1>4. doc' \in [id : 0 .. MaxLoads, page : Pages \cup {NoPage}] /\ doc'.id = doc.id + 1 /\ doc'.page = Arg
  BY <1>1, <1>2, <1>3
<1>5. Len(workers) \in Nat /\ workers \in Seq(Worker) /\ DOMAIN workers = 1 .. Len(workers)
  BY LenProperties DEF TypeInv, Data
<1>6. PICK n \in Nat : n = Len(workers)
  BY <1>5
<1>7. \A i \in 1 .. n :
        /\ Terminated(workers[i]) \in Worker /\ Terminated(workers[i]).terminated
        /\ Terminated(workers[i]).doc = workers[i].doc /\ Terminated(workers[i]).inbox = workers[i].inbox
  BY <1>5, <1>6, WorkersAre, StoppedWorker
<1>8. workers' = [i \in 1 .. n |-> Terminated(workers[i])]
  BY <1>1, <1>6 DEF WorkersAfterReset
<1>9. /\ workers' \in Seq(Worker) /\ Len(workers') = n /\ DOMAIN workers' = 1 .. n
      /\ \A i \in 1 .. n : workers'[i] = Terminated(workers[i])
  BY <1>7, <1>8
<1>10. \A i \in 1 .. n : /\ workers[i].inbox \in Nat /\ workers[i].inbox <= calls
                         /\ workers[i].doc \in 0 .. doc.id
  BY <1>5, <1>6, WorkersAre DEF TypeInv, Data, TypeOK
<1>11. \A i \in DOMAIN workers' : /\ workers'[i].inbox \in Nat /\ workers'[i].inbox <= calls
                                  /\ workers'[i].doc \in 0 .. doc.id /\ workers'[i].terminated
  BY <1>7, <1>9, <1>10
<1>12. \A i \in DOMAIN workers' : workers'[i].doc \in 0 .. doc'.id /\ workers'[i].doc <= doc'.id
  BY <1>3, <1>4, <1>11
<1>13. Data'
  BY <1>1, <1>6, <1>9, <1>11, <1>12 DEF TypeInv, Data
<1>14. Present'
  BY <1>11 DEF Present
<1>15. QED
  BY <1>2, <1>4, <1>6, <1>9, <1>11, <1>12, <1>13, <1>14

(* The document is replaced: nothing of the old one is left.               *)
LEMMA ResetKeeps ==
  ASSUME TypeInv, Present, HistoryInv, Reset
  PROVE  TypeInv' /\ Present' /\ HistoryInv'
<1> USE Bounds
<1>1. /\ At("reset") /\ mixed' = Nested /\ Become(<<>>)
      /\ UNCHANGED <<history, pos, formVars, tasks, calls>>
  BY DEF Reset
<1>2. /\ doc' \in [id : 0 .. MaxLoads, page : Pages \cup {NoPage}] /\ doc'.id = doc.id + 1
      /\ doc'.page = Arg /\ Arg \in Pages
      /\ Data' /\ Present' /\ Len(workers)' = Len(workers) /\ workers' \in Seq(Worker)
      /\ \A w \in DOMAIN workers' : workers'[w].inbox \in Nat /\ workers'[w].doc \in 0 .. doc'.id
  BY WorkersReset
<1>3. PICK n \in Nat : n = Len(workers) /\ n = Len(workers)'
  BY <1>2, LenProperties DEF TypeInv, Data
<1>4. todo \in Seq(Steps(n)) /\ todo # <<>> /\ ~At("styles")
  BY <1>1, <1>3 DEF TypeInv, Placed, At, Idle
<1>5. Rest = Tail(todo) /\ Rest \in Seq(Steps(n)) /\ Inner(Rest)
  BY <1>4, RestIsInner DEF TypeInv, Rest, Idle
<1>6. todo' = Tail(todo) /\ todo' \in Seq(Steps(n)) /\ Inner(todo')
  BY <1>1, <1>5, ConcatEmptySeq DEF Become
<1>7. todo' # <<>> => Head(todo') = todo'[1] /\ 1 \in DOMAIN todo'
  BY <1>6, SeqTake, Zenon
<1>8. ~At("reset")'
  BY <1>6, <1>7 DEF At, Idle, Inner
<1>9. Placed'
  BY <1>3, <1>6, <1>8 DEF Placed, Inner, Loading
<1>10. TypeOK'
  <2>1. \A w \in DOMAIN workers' : workers'[w].inbox \in 0 .. MaxCalls
    BY <1>1, <1>2 DEF Data
  <2>2. mixed' \in BOOLEAN
    BY <1>1 DEF Nested
  <2>3. tasks' = tasks /\ pending' = pending /\ processing' = processing
    BY <1>1 DEF formVars
  <2>4. processing \in BOOLEAN
    BY Zenon DEF TypeInv, TypeOK
  <2>5. QED
    BY <1>1, <1>2, <2>1, <2>2, <2>3, <2>4 DEF TypeInv, TypeOK
<1>11. /\ Len(todo) \in Nat /\ DOMAIN todo = 1 .. Len(todo)
       /\ DOMAIN todo' = 1 .. Len(todo) - 1
       /\ \A k \in DOMAIN todo' : todo'[k] = todo[k + 1]
  BY <1>4, <1>6, SeqTake, LenProperties
<1>12. \A k \in Int : k \in Loading' <=> (k + 1 \in Loading /\ k # 0)
  BY <1>11 DEF Loading
<1>13. todo[1].op = "reset" /\ 1 \notin Loading
  BY <1>1, <1>4, SeqTake DEF At, Loading
<1>14. \A k \in Loading : k \in Int /\ k - 1 \in Loading' /\ k - 1 \in Int
  BY <1>11, <1>12, <1>13 DEF Loading
<1>15. /\ StylesAt \in Loading
       /\ \A k \in Loading : k >= StylesAt
       /\ IF PushAt(StylesAt + 1) THEN todo[StylesAt + 1].arg = Arg
          ELSE history # <<>> /\ history[pos] = Arg
  BY <1>1 DEF HistoryInv, Begins
<1>16. ASSUME ~mixed'
       PROVE  ~Nested' /\ (Loading' = {} => EntryAfter(0)') /\ \A k \in Loading' : EntryAfter(k)'
  <2>1. \A i, j \in Loading : i = j
    BY <1>1, <1>16 DEF Nested
  <2>2. \A k \in Loading' : k \in Int /\ k + 1 \in Loading
    BY <1>11, <1>12 DEF Loading
  <2>3. ~Nested'
    BY <2>1, <2>2 DEF Nested
  <2>4. Loading' # {}
    BY <1>14, <1>15
  <2>5. ASSUME NEW k \in Loading' PROVE EntryAfter(k)'
    <3>1. k + 1 = StylesAt /\ k \in Int
      BY <1>15, <2>1, <2>2
    <3>2. PushAt(k + 1)' <=> PushAt(StylesAt + 1)
      <4>1. k + 1 \in DOMAIN todo' <=> StylesAt + 1 \in DOMAIN todo
        <5>1. StylesAt >= 11
          BY DEF StylesAt
        <5>2. QED
          BY <1>11, <3>1, <5>1
      <4>2. k + 1 \in DOMAIN todo' => todo'[k + 1] = todo[StylesAt + 1]
        BY <1>11, <3>1
      <4>3. QED
        BY <4>1, <4>2 DEF PushAt
    <3>3. PushAt(k + 1)' => todo'[k + 1] = todo[StylesAt + 1]
      BY <1>11, <3>1 DEF PushAt
    <3>4. CASE PushAt(StylesAt + 1)
      BY <1>2, <1>15, <3>2, <3>3, <3>4 DEF EntryAfter
    <3>5. CASE ~PushAt(StylesAt + 1)
      <4>1. doc'.page = history'[pos']
        BY <1>1, <1>2, <1>15, <3>5
      <4>2. Shown'
        BY <4>1 DEF Shown
      <4>3. QED
        BY <3>2, <3>5, <4>2 DEF EntryAfter
    <3>6. QED
      BY <3>4, <3>5
  <2>6. QED
    BY <2>3, <2>4, <2>5
<1>17. ~At("push")'
  <2>1. 1 - 1 = 0 /\ 0 \notin DOMAIN todo'
    BY <1>11
  <2>2. QED
    BY <1>6, <1>7, <2>1 DEF At, Idle, Inner
<1>18. HistoryInv'
  BY <1>8, <1>16, <1>17 DEF HistoryInv, Begins, Entered
<1>19. QED
  BY <1>2, <1>9, <1>10, <1>18 DEF TypeInv

(* What remains of the steps when the first is done.                       *)
LEMMA Shifted ==
  ASSUME TypeInv, ~Idle, todo' = <<>> \o Tail(todo)
  PROVE  /\ todo' \in Seq(Steps(Len(workers)))
         /\ Len(todo) \in Nat /\ DOMAIN todo = 1 .. Len(todo) /\ DOMAIN todo' = 1 .. Len(todo) - 1
         /\ \A k \in DOMAIN todo' : todo'[k] = todo[k + 1]
         /\ \A k \in Int : k \in Loading' <=> (k + 1 \in Loading /\ k # 0)
         /\ Head(todo) = todo[1] /\ 1 \in DOMAIN todo
         /\ todo' # <<>> => Head(todo') = todo'[1] /\ 1 \in DOMAIN todo'
<1>1. todo \in Seq(Steps(Len(workers))) /\ todo # <<>>
  BY DEF TypeInv, Placed, Idle
<1>2. todo' = Tail(todo) /\ todo' \in Seq(Steps(Len(workers)))
  BY <1>1, SeqTake, ConcatEmptySeq
<1>3. /\ Len(todo) \in Nat /\ DOMAIN todo = 1 .. Len(todo) /\ DOMAIN todo' = 1 .. Len(todo) - 1
      /\ \A k \in DOMAIN todo' : todo'[k] = todo[k + 1]
  BY <1>1, <1>2, SeqTake, LenProperties
<1>4. \A k \in Int : k \in Loading' <=> (k + 1 \in Loading /\ k # 0)
  BY <1>3 DEF Loading
<1>5. todo' # <<>> => Head(todo') = todo'[1] /\ 1 \in DOMAIN todo'
  BY <1>2, SeqTake, Zenon
<1>6. QED
  BY <1>1, <1>2, <1>3, <1>4, <1>5, SeqTake

(* A document loaded by load_html is entered.                              *)
LEMMA PushKeeps ==
  ASSUME TypeInv, Present, HistoryInv, Push
  PROVE  TypeInv' /\ Present' /\ HistoryInv'
<1>1. /\ ~Idle /\ Head(todo).op = "push" /\ todo' = <<>> \o Tail(todo)
      /\ history' = Append(Entries, Arg) /\ pos' = Len(history')
      /\ UNCHANGED <<doc, mixed, formVars, tasks, workers, calls>>
  BY DEF Push, At, Become, LastEntry
<1>2. Arg \in Pages
  <2>1. Head(todo) \in Steps(Len(workers)) /\ Len(workers) \in Nat
    BY <1>1, SeqTake, LenProperties DEF TypeInv, Placed, Data, Idle
  <2>2. QED
    BY <1>1, <2>1, QuietSteps DEF Arg
<1>3. Entries \in Seq(Pages)
  <2>1. CASE history = <<>>
    BY <2>1 DEF Entries
  <2>2. CASE history # <<>>
    <3>1. history \in Seq(Pages) /\ Len(history) \in Nat /\ pos \in 1 .. Len(history)
      BY <2>2, LenProperties DEF TypeInv, TypeOK
    <3>2. SubSeq(history, 1, pos) \in Seq(Pages)
      BY <3>1, SubSeqProperties
    <3>3. QED
      BY <2>2, <3>2 DEF Entries
  <2>3. QED
    BY <2>1, <2>2
<1>4. /\ history' \in Seq(Pages) /\ Len(history') \in Nat \ {0} /\ history' # <<>>
      /\ history'[Len(history')] = Arg
  <2>1. PICK e \in Seq(Pages) : e = Entries
    BY <1>3
  <2>2. history' = Append(e, Arg) /\ Len(e) \in Nat
    BY <1>1, <2>1, LenProperties
  <2>3. QED
    BY <1>2, <2>2, SeqAdd
<1>5. history'[pos'] = Arg /\ pos' \in 1 .. Len(history')
  BY <1>1, <1>4
<1>6. /\ todo' \in Seq(Steps(Len(workers)))
      /\ Len(todo) \in Nat /\ DOMAIN todo = 1 .. Len(todo) /\ DOMAIN todo' = 1 .. Len(todo) - 1
      /\ \A k \in DOMAIN todo' : todo'[k] = todo[k + 1]
      /\ \A k \in Int : k \in Loading' <=> (k + 1 \in Loading /\ k # 0)
      /\ Head(todo) = todo[1] /\ 1 \in DOMAIN todo
      /\ todo' # <<>> => Head(todo') = todo'[1] /\ 1 \in DOMAIN todo'
  BY <1>1, Shifted
<1>7. Inner(todo')
  <2>1. ~At("styles") /\ Rest = Tail(todo)
    BY <1>1 DEF At, Rest
  <2>2. Len(workers) \in Nat
    BY LenProperties DEF TypeInv, Data
  <2>3. Inner(Rest) /\ Rest \in Seq(Steps(Len(workers)))
    BY <2>1, <2>2, RestIsInner DEF TypeInv, Placed
  <2>4. QED
    BY <1>1, <2>1, <2>3, ConcatEmptySeq
<1>8. ~At("reset")' /\ ~At("push")'
  <2>1. 1 - 1 = 0 /\ 0 \notin DOMAIN todo'
    BY <1>6
  <2>2. QED
    BY <1>6, <1>7, <2>1 DEF At, Idle, Inner
<1>9. Placed'
  BY <1>1, <1>6, <1>7, <1>8 DEF Placed, Inner, Loading
<1>10. TypeOK' /\ Data' /\ Present'
  BY <1>1, <1>4, <1>5 DEF TypeInv, TypeOK, Data, Present, formVars
<1>11. ASSUME ~mixed'
       PROVE  ~Nested' /\ (Loading' = {} => EntryAfter(0)') /\ \A k \in Loading' : EntryAfter(k)'
  <2>1. Loading = {} /\ EntryAfter(0)
    BY <1>1, <1>11 DEF HistoryInv, Entered, At
  <2>2. Loading' = {}
    <3>1. \A k \in Loading' : k \in Int
      BY <1>6 DEF Loading
    <3>2. QED
      BY <1>6, <2>1, <3>1
  <2>3. PushAt(0 + 1)
    BY <1>1, <1>6 DEF PushAt
  <2>4. doc.page = Arg
    BY <1>6, <2>1, <2>3 DEF EntryAfter, Arg
  <2>5. Shown'
    BY <1>1, <1>5, <2>4 DEF Shown
  <2>6. ~PushAt(0 + 1)'
    BY <1>6, <1>8 DEF PushAt, At, Idle
  <2>7. QED
    BY <2>2, <2>5, <2>6 DEF EntryAfter, Nested
<1>12. QED
  BY <1>8, <1>9, <1>10, <1>11 DEF TypeInv, HistoryInv, Begins, Entered

(* The load of a document ends.                                            *)
LEMMA StylesKeeps ==
  ASSUME TypeInv, Present, HistoryInv, Styles
  PROVE  TypeInv' /\ Present' /\ HistoryInv'
<1>1. /\ ~Idle /\ Head(todo).op = "styles" /\ todo' = <<>> \o Tail(todo)
      /\ UNCHANGED <<pageVars, formVars, tasks, workers, calls>>
  BY DEF Styles, At, Become
<1>2. /\ todo' \in Seq(Steps(Len(workers)))
      /\ Len(todo) \in Nat /\ DOMAIN todo = 1 .. Len(todo) /\ DOMAIN todo' = 1 .. Len(todo) - 1
      /\ \A k \in DOMAIN todo' : todo'[k] = todo[k + 1]
      /\ \A k \in Int : k \in Loading' <=> (k + 1 \in Loading /\ k # 0)
      /\ Head(todo) = todo[1] /\ 1 \in DOMAIN todo
      /\ todo' # <<>> => Head(todo') = todo'[1] /\ 1 \in DOMAIN todo'
  BY <1>1, Shifted
<1>3. 1 \in Loading
  BY <1>1, <1>2 DEF Loading
<1>4. \A i \in DOMAIN todo' : i \in Int /\ i + 1 \in DOMAIN todo /\ i + 1 # 1
  BY <1>2
<1>5. \A i \in DOMAIN todo' : todo'[i].op # "reset"
  BY <1>2, <1>4 DEF TypeInv, Placed
<1>6. ASSUME NEW i \in DOMAIN todo', todo'[i].op = "push"
      PROVE  i = 1 \/ (i - 1) \in Loading'
  <2>1. (i + 1) - 1 \in Loading
    BY <1>2, <1>4, <1>6 DEF TypeInv, Placed
  <2>2. i - 1 \in Int /\ (i + 1) - 1 = (i - 1) + 1
    BY <1>4
  <2>3. QED
    BY <1>2, <1>4, <2>1, <2>2
<1>7. ~At("reset")' /\ ~At("reset")
  BY <1>1, <1>2, <1>5 DEF At, Idle
<1>8. Placed'
  BY <1>1, <1>2, <1>5, <1>6, <1>7 DEF Placed
<1>9. TypeOK' /\ Data' /\ Present'
  BY <1>1 DEF TypeInv, TypeOK, Data, Present, formVars, pageVars
<1>10. ASSUME ~mixed'
       PROVE  Loading' = {} /\ EntryAfter(0)'
  <2>1. ~Nested /\ EntryAfter(1)
    BY <1>1, <1>3, <1>7, <1>10 DEF HistoryInv, Entered, pageVars
  <2>2. Loading' = {}
    <3>1. \A k \in Loading' : k \in Int /\ k + 1 \in Loading /\ k + 1 # 1
      BY <1>2 DEF Loading
    <3>2. QED
      BY <1>3, <2>1, <3>1 DEF Nested
  <2>3. PushAt(0 + 1)' <=> PushAt(1 + 1)
    <3>1. 0 + 1 = 1 /\ 1 + 1 = 2
      OBVIOUS
    <3>2. 1 \in DOMAIN todo' <=> 2 \in DOMAIN todo
      BY <1>2
    <3>3. 1 \in DOMAIN todo' => todo'[1] = todo[2]
      BY <1>2, <3>1
    <3>4. QED
      BY <3>1, <3>2, <3>3 DEF PushAt
  <2>4. PushAt(0 + 1)' => todo'[0 + 1] = todo[1 + 1]
    <3>1. 0 + 1 = 1 /\ 1 + 1 = 2
      OBVIOUS
    <3>2. QED
      BY <1>2, <3>1 DEF PushAt
  <2>5. Shown' = Shown /\ doc' = doc
    BY <1>1 DEF Shown, pageVars
  <2>6. QED
    BY <2>1, <2>2, <2>3, <2>4, <2>5 DEF EntryAfter
<1>11. HistoryInv'
  BY <1>7, <1>10 DEF HistoryInv, Begins, Entered, Nested
<1>12. QED
  BY <1>8, <1>9, <1>11 DEF TypeInv

-----------------------------------------------------------------------------
(* The theorems                                                            *)

Inv == TypeInv /\ Present /\ HistoryInv

(* The view starts without a document.                                     *)
LEMMA InitInv ==
  ASSUME Init
  PROVE  Inv
<1> USE Bounds DEF Init
<1>1. TypeOK
  <2>1. doc \in [id : 0 .. MaxLoads, page : Pages \cup {NoPage}]
    OBVIOUS
  <2>2. history \in Seq(Pages) /\ pos \in 1 .. (IF history = <<>> THEN 1 ELSE Len(history))
    OBVIOUS
  <2>3. pending \in Pages \cup {NoPage} /\ {processing, mixed} \subseteq BOOLEAN
    OBVIOUS
  <2>4. QED
    BY <2>1, <2>2, <2>3 DEF TypeOK
<1>2. Data /\ Present
  BY DEF Data, Present
<1>3. Placed
  BY DEF Placed, At, Idle
<1>4. HistoryInv
  BY DEF HistoryInv, Begins, Entered, At, Idle, Nested, Loading, EntryAfter, PushAt, Shown
<1>5. QED
  BY <1>1, <1>2, <1>3, <1>4 DEF Inv, TypeInv

(* Every step keeps the invariant, whatever is called inside what.         *)
LEMMA NextInv ==
  ASSUME Inv, [Next]_vars
  PROVE  Inv'
<1> USE DEF Inv
<1>1. CASE UNCHANGED vars
  BY <1>1 DEF vars, pageVars, formVars, TypeInv, TypeOK, Data, Placed, Present, HistoryInv, Begins,
     Entered, At, Arg, Idle, Nested, Loading, EntryAfter, PushAt, Shown
<1>2. CASE Reset
  BY <1>2, ResetKeeps
<1>3. CASE Push
  BY <1>3, PushKeeps
<1>4. CASE Styles
  BY <1>4, StylesKeeps
<1>5. CASE Process
  BY <1>5, ProcessIsQuiet, QuietStepKeeps
<1>6. CASE Redirect
  <2>1. CASE Become(<<>>)
    BY <1>6, <2>1, NoRedirectIsQuiet, QuietStepKeeps
  <2>2. CASE ~Become(<<>>)
    BY <1>6, <2>2, RedirectBegins
  <2>3. QED
    BY <2>1, <2>2
<1>7. CASE ScriptNavigates
  <2>1. Navigate /\ At("script") /\ calls' = calls + 1 /\ calls < MaxCalls
        /\ UNCHANGED <<formVars, tasks, workers>>
    BY <1>7 DEF ScriptNavigates, Makes
  <2>2. calls' \in calls .. MaxCalls
    BY <2>1, Bounds DEF TypeInv, Data
  <2>3. QED
    BY <2>1, <2>2, NavigationBegins
<1>8. CASE SubmitForm
  BY <1>8, SubmitFormIsQuiet, QuietStepKeeps
<1>9. CASE PostTask
  BY <1>9, PostTaskIsQuiet, QuietStepKeeps
<1>10. CASE NewWorker
  BY <1>10, NewWorkerIsQuiet, QuietStepKeeps
<1>11. CASE PostToWorker
  BY <1>11, PostToWorkerIsQuiet, QuietStepKeeps
<1>12. CASE Returns
  BY <1>12, ReturnsIsQuiet, QuietStepKeeps
<1>13. CASE WorkerFails
  BY <1>13, WorkerFailsIsQuiet, QuietStepKeeps
<1>14. CASE Engine
  BY <1>14, EngineIsQuiet, QuietStepKeeps
<1>15. CASE Snapshot
  BY <1>15, SnapshotIsQuiet, QuietStepKeeps
<1>16. CASE Pump
  BY <1>16, PumpIsQuiet, QuietStepKeeps
<1>17. CASE WorkerCalls
  BY <1>17, WorkerCallsIsQuiet, QuietStepKeeps
<1>18. CASE HostNavigates
  <2>1. Navigate /\ Idle /\ UNCHANGED <<formVars, tasks, workers, calls>>
    BY <1>18 DEF HostNavigates
  <2>2. calls' \in calls .. MaxCalls
    BY <2>1, Bounds DEF TypeInv, Data
  <2>3. QED
    BY <2>1, <2>2, NavigationBegins
<1>19. CASE HostCalls \/ HostRunsTasks
  BY <1>19, HostIsQuiet, QuietStepKeeps
<1>20. QED
  BY <1>1, <1>2, <1>3, <1>4, <1>5, <1>6, <1>7, <1>8, <1>9, <1>10, <1>11, <1>12, <1>13, <1>14, <1>15,
     <1>16, <1>17, <1>18, <1>19 DEF Next, Run, PageCode

(* The invariant holds in every state.                                     *)
LEMMA Invariance == Spec => []Inv
<1>1. Init => Inv
  BY InitInv
<1>2. Inv /\ [Next]_vars => Inv'
  BY NextInv
<1>3. QED
  BY <1>1, <1>2, PTL DEF Spec

(* Whatever pages, scripts, workers and the host do in whatever nesting, every    *)
(* step, task and worker refers to what exists (View in view.cpp).         *)
THEOREM TypeCorrect == Spec => []TypeInv
<1>1. Inv => TypeInv
  BY DEF Inv
<1>2. QED
  BY <1>1, Invariance, PTL

(* The document shown is the history's current entry whenever the host has *)
(* control, unless it was loaded inside another load (load_html, do_load,  *)
(* go_back, go_forward and reload in view.cpp).                            *)
THEOREM HistoryIsShown == Spec => []EntryIsTheDocumentUnlessNested
<1>1. Inv => EntryIsTheDocumentUnlessNested
  <2>1. ASSUME Inv, ~mixed, Idle, history # <<>>
        PROVE  doc.page = history[pos]
    <3>1. ~At("reset") /\ Loading = {} /\ ~PushAt(0 + 1)
      BY <2>1 DEF At, Idle, Loading, PushAt
    <3>2. EntryAfter(0)
      BY <2>1, <3>1 DEF Inv, HistoryInv, Entered
    <3>3. QED
      BY <2>1, <3>1, <3>2 DEF EntryAfter, Shown
  <2>2. QED
    BY <2>1 DEF Inv, TypeInv, EntryIsTheDocumentUnlessNested, EntryIsTheDocument
<1>2. QED
  BY <1>1, Invariance, PTL

(* A worker's message or error is handled only by the document that        *)
(* constructed it, and only before it is stopped, however many loads happen between *)
(* the call of postMessage and its task (reset_document stops the workers it forgets). *)
THEOREM WorkersKeepToTheirDocument == Spec => WorkersSpeakToTheirDocument
<1> DEFINE Speaks ==
             \A w \in DOMAIN workers :
               workers'[w].got # workers[w].got => workers[w].doc = doc.id /\ ~workers[w].terminated
<1>1. ASSUME Inv, Next
      PROVE  Speaks
  <2> SUFFICES ASSUME NEW w \in DOMAIN workers, workers'[w].got # workers[w].got
               PROVE  workers[w].doc = doc.id /\ ~workers[w].terminated
    OBVIOUS
  <2>1. Engine
    <3>1. workers \in Seq(Worker) /\ DOMAIN workers = 1 .. Len(workers) /\ Len(workers) \in Nat
      BY <1>1, LenProperties DEF Inv, TypeInv, Data
    <3>2. workers[w] \in Worker
      BY <1>1, WorkersAre DEF Inv
    <3>3. ASSUME Reset PROVE FALSE
      BY <3>1, <3>2, <3>3 DEF Reset, WorkersAfterReset, Terminated, Worker
    <3>4. ASSUME NewWorker PROVE FALSE
      <4>1. PICK v : workers' = Append(workers, v)
        BY <3>4 DEF NewWorker, Makes
      <4>2. workers'[w] = workers[w]
        BY <3>1, <4>1
      <4>3. QED
        BY <4>2
    <3>5. ASSUME PostToWorker PROVE FALSE
      <4>1. PICK x \in DOMAIN workers : workers' \in {[workers EXCEPT ![x].inbox = @ + 1],
                                                       [workers EXCEPT ![x] = Terminated(@)]}
        BY <3>5 DEF PostToWorker, Makes
      <4>2. CASE workers' = [workers EXCEPT ![x].inbox = @ + 1]
        BY <3>1, <3>2, <4>2 DEF Worker
      <4>3. CASE workers' = [workers EXCEPT ![x] = Terminated(@)]
        BY <3>1, <3>2, <4>3 DEF Worker, Terminated
      <4>4. QED
        BY <4>1, <4>2, <4>3
    <3>6. ASSUME Pump PROVE FALSE
      <4>1. workers' = workers \/ workers' = [workers EXCEPT ![Arg].inbox = @ - 1]
        BY <3>6 DEF Pump
      <4>2. CASE workers' = [workers EXCEPT ![Arg].inbox = @ - 1]
        <5>1. PICK x : x = Arg
          OBVIOUS
        <5>2. x = w \/ workers'[w] = workers[w]
          BY <3>1, <4>2, <5>1
        <5>3. x = w => workers'[w].got = workers[w].got
          BY <3>1, <3>2, <4>2, <5>1 DEF Worker
        <5>4. QED
          BY <5>2, <5>3
      <4>3. QED
        BY <4>1, <4>2
    <3>7. ASSUME WorkerCalls PROVE FALSE
      <4>1. workers' = workers \/ workers' = [workers EXCEPT ![Arg] = Terminated(@)]
        BY <3>7 DEF WorkerCalls, Makes
      <4>2. CASE workers' = [workers EXCEPT ![Arg] = Terminated(@)]
        <5>1. PICK x : x = Arg
          OBVIOUS
        <5>2. x = w \/ workers'[w] = workers[w]
          BY <3>1, <4>2, <5>1
        <5>3. x = w => workers'[w].got = workers[w].got
          BY <3>1, <3>2, <4>2, <5>1 DEF Worker, Terminated
        <5>4. QED
          BY <5>2, <5>3
      <4>3. QED
        BY <4>1, <4>2
    <3>8. workers' # workers
      OBVIOUS
    <3>9. QED
      BY <1>1, <3>3, <3>4, <3>5, <3>6, <3>7, <3>8 DEF Next, Run, PageCode, Push, Styles, Process, Redirect,
         ScriptNavigates, SubmitForm, PostTask, Returns, WorkerFails, Snapshot, HostNavigates, HostCalls,
         HostRunsTasks
  <2>2. w \in DOMAIN workers /\ ~workers[w].terminated
    <3>1. PICK t : t = Head(tasks)
      OBVIOUS
    <3>2. /\ t.kind \in {"message", "error"} /\ Deliverable(t)
          /\ workers' = [workers EXCEPT ![t.of].got = @ + 1]
      BY <2>1, <3>1 DEF Engine
    <3>3. t.of = w
      BY <3>2
    <3>4. QED
      BY <3>2, <3>3 DEF Deliverable
  <2>3. QED
    BY <1>1, <2>2 DEF Inv, Present
<1>2. ASSUME Inv, [Next]_vars
      PROVE  [Speaks]_vars
  BY <1>1, <1>2
<1>3. QED
  BY <1>2, Invariance, PTL DEF Spec, WorkersSpeakToTheirDocument

=============================================================================
