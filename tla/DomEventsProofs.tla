---------------------------- MODULE DomEventsProofs ----------------------------
(***************************************************************************)
(* What holds of the listeners, the dispatches under way and the focus for *)
(* a path of any length and any number of functions, types and listeners,  *)
(* however deep the scripts that dispatches call dispatch again.           *)
(***************************************************************************)
EXTENDS DomEvents, SequenceLemmas, FiniteSetTheorems

-----------------------------------------------------------------------------
(* The invariant                                                           *)

\* Types of events: those of scripts, and those of a focus change.
AllTypes == Types \cup {"focus", "focusin", "blur", "focusout"}
Phase == {"capture", "target", "attribute", "bubble"}
Place == [node : Nodes, phase : Phase]
Flags == {NoFlags, Stop, StopNow}

Work ==
  [type : AllTypes, bubbles : BOOLEAN, event : Nat, flags : Flags, trusted : BOOLEAN,
   visits : Seq(Place), visit : [node : Nodes, phase : Phase \cup {"none", "start"}],
   list : Seq(Listener), running : Callbacks \cup {NoCallback},
   due : SUBSET Listener, spent : SUBSET Listener, wrong : BOOLEAN]

Shape ==
  /\ listeners \in Seq(Listener) /\ IsInjective(listeners) /\ Len(listeners) <= MaxListeners
  /\ handlers \in [Nodes \X Types -> Callbacks \cup {NoCallback}]
  /\ roots \in [Callbacks -> Nat]
  /\ collected \subseteq Callbacks
  /\ focused \in Nodes \cup {NoNode} /\ told \subseteq Nodes /\ tangled \in BOOLEAN
  /\ stack \in Seq(Work)

\* No listener is called at both visits.
Apart(v, w) == \A l \in Listener : ~(Fires(l, v) /\ Fires(l, w))

\* No listener is called twice on the way.
Route(visits) ==
  /\ IsInjective(visits)
  /\ \A v, w \in ToSet(visits) : v # w => Apart(v, w)

\* The visits and the copy of a dispatch: no listener comes twice.
Itinerary(d) ==
  /\ Route(d.visits) /\ \A v \in ToSet(d.visits) : Apart(d.visit, v)
  /\ IsInjective(d.list) /\ \A l \in ToSet(d.list) : l.type = d.type /\ Fires(l, d.visit)

Runs(d) == d.running # NoCallback

\* Pushed, and not at work yet.
Waits(d) ==
  /\ d.visits # <<>> /\ d.list = <<>> /\ ~Runs(d)
  /\ d.due = {} /\ d.spent = {}

\* What d owes a call, while the event has the flags f: it is registered, and
\* will be called.
DueKept(d, f, registered) ==
  /\ \A l \in d.due :
       /\ l \in registered /\ l.type = d.type
       /\ l \in ToSet(d.list) \/ \E v \in ToSet(d.visits) : Fires(l, v)
  /\ f.stop => d.due \subseteq ToSet(d.list)
  /\ f.now => d.due = {}

\* The code that runs has stopped the event of d: when it returns, d will drop
\* what is left.
Leaves(d) == Runs(d) /\ d.visit.phase # "attribute"

\* What d must not call any more: it will not.
SpentKept(d, f) ==
  /\ ~d.wrong
  /\ \A l \in d.spent :
       /\ l \notin ToSet(d.list) \/ (f.now /\ Leaves(d))
       /\ (\A v \in ToSet(d.visits) : ~Fires(l, v)) \/ (f.stop /\ Leaves(d))

DispatchKept(d, f, registered) ==
  /\ Itinerary(d)
  /\ d.visit.phase = "none" => Waits(d)
  /\ DueKept(d, f, registered) /\ SpentKept(d, f)

\* Where the dispatch at place i of the stack s stands: on top, or it runs code, at
\* a visit or in the checkpoint after its end, or it waits.  Its event is its own,
\* or that of a dispatch below, whose code runs.
Placed(s, i) ==
  /\ s[i].event \in 1 .. i
  /\ s[i].event # i => /\ Runs(s[s[i].event]) /\ ~s[i].trusted
                       /\ s[s[i].event].event = s[i].event
  /\ \/ i = Len(s) \/ Runs(s[i]) \/ Over(s[i])
     \/ s[i].visit.phase = "none" /\ s[i].event = i

StackKept(s, registered) ==
  \A i \in DOMAIN s : Placed(s, i) /\ DispatchKept(s[i], s[s[i].event].flags, registered)

\* Registrations are counted.
Of(cb, registered) == {l \in registered : l.callback = cb}
RootsKept(counts, registered) == \A cb \in Callbacks : counts[cb] = Cardinality(Of(cb, registered))

\* No function that listeners_ refers to is collected.
AliveKept == Listening \cap collected = {}

\* The events of a focus change that have still to be dispatched make up the
\* difference between who was told and who is focused.
Waiting(s, type) ==
  {i \in DOMAIN s : s[i].trusted /\ s[i].type = type /\ s[i].visit.phase = "none"}
Coming(s, type) == {s[i].visit.node : i \in Waiting(s, type)}

FocusKept(s, who, now) ==
  /\ (who \ Coming(s, "blur")) \cup Coming(s, "focus") = {now} \ {NoNode}
  /\ \A i \in Waiting(s, "focus"), j \in Waiting(s, "blur") : i < j

Inv ==
  /\ Shape
  /\ StackKept(stack, Registered)
  /\ RootsKept(roots, Registered)
  /\ AliveKept
  /\ tangled \/ FocusKept(stack, told, focused)

-----------------------------------------------------------------------------
(* The operators of the model                                              *)

\* r is what the first n entries of s have of S.
Part(s, S, n, r) ==
  /\ Len(r) <= n
  /\ \A k \in DOMAIN r : \E j \in 1 .. n : s[j] = r[k] /\ s[j] \in S
  /\ \A j \in 1 .. n : s[j] \in S => \E k \in DOMAIN r : s[j] = r[k]
  /\ IsInjective(s) => IsInjective(r)

(* One entry more.                                                         *)
LEMMA PartGrows ==
  ASSUME NEW T, NEW s \in Seq(T), NEW S, NEW n \in Nat, n + 1 \in DOMAIN s,
         NEW r \in Seq(T), Part(s, S, n, r)
  PROVE  /\ s[n + 1] \in S =>
              Append(r, s[n + 1]) \in Seq(T) /\ Part(s, S, n + 1, Append(r, s[n + 1]))
         /\ s[n + 1] \notin S => Part(s, S, n + 1, r)
<1>1. PICK x \in T : x = s[n + 1]
  BY SeqEntries
<1>2. PICK q : q = Append(r, x)
  OBVIOUS
<1>3. /\ q \in Seq(T) /\ Len(q) = Len(r) + 1 /\ DOMAIN q = DOMAIN r \cup {Len(r) + 1}
      /\ (\A j \in DOMAIN r : q[j] = r[j]) /\ q[Len(r) + 1] = x
  BY <1>2, SeqAdd
<1>4. Len(r) \in Nat /\ DOMAIN r = 1 .. Len(r) /\ Len(r) <= n /\ DOMAIN s = 1 .. Len(s) /\ Len(s) \in Nat
  BY SeqEntries DEF Part
<1>5. \A j \in 1 .. n + 1 : j \in 1 .. n \/ j = n + 1
  OBVIOUS
<1>6. 1 .. n \subseteq 1 .. n + 1 /\ n + 1 \in 1 .. n + 1
  OBVIOUS
<1>7. ASSUME x \in S
      PROVE  Part(s, S, n + 1, q)
  <2>1. Len(q) <= n + 1
    BY <1>3, <1>4
  <2>2. \A k \in DOMAIN q : \E j \in 1 .. n + 1 : s[j] = q[k] /\ s[j] \in S
    BY <1>1, <1>3, <1>6, <1>7 DEF Part
  <2>3. ASSUME NEW j \in 1 .. n + 1, s[j] \in S
        PROVE  \E k \in DOMAIN q : s[j] = q[k]
    <3>1. CASE j \in 1 .. n
      <4>1. PICK k \in DOMAIN r : s[j] = r[k]
        BY <2>3, <3>1 DEF Part
      <4>2. QED
        BY ONLY <1>3, <4>1, k \in DOMAIN r
    <3>2. CASE j = n + 1
      BY ONLY <1>1, <1>3, <3>2
    <3>3. QED
      BY <1>5, <3>1, <3>2
  <2>4. ASSUME IsInjective(s)
        PROVE  IsInjective(q)
    <3>1. \A k \in DOMAIN r : r[k] # x
      <4>1. \A j \in 1 .. n : s[j] # s[n + 1]
        BY <1>4, <2>4 DEF IsInjective
      <4>2. QED
        BY <1>1, <4>1 DEF Part
    <3>2. IsInjective(r)
      BY <2>4 DEF Part
    <3>3. Len(r) + 1 \notin DOMAIN r
      BY <1>4
    <3>4. QED
      BY <1>3, <3>1, <3>2, <3>3 DEF IsInjective
  <2>5. QED
    BY <2>1, <2>2, <2>3, <2>4 DEF Part
<1>8. ASSUME x \notin S
      PROVE  Part(s, S, n + 1, r)
  <2>1. Len(r) <= n + 1
    BY <1>4
  <2>2. \A k \in DOMAIN r : \E j \in 1 .. n + 1 : s[j] = r[k] /\ s[j] \in S
    BY <1>6 DEF Part
  <2>3. \A j \in 1 .. n + 1 : s[j] \in S => \E k \in DOMAIN r : s[j] = r[k]
    BY <1>1, <1>5, <1>8 DEF Part
  <2>4. QED
    BY <2>1, <2>2, <2>3 DEF Part
<1>9. QED
  BY <1>1, <1>2, <1>3, <1>7, <1>8

(* What Only keeps: the entries that belong to S, each as often as it was. *)
LEMMA OnlyKeeps ==
  ASSUME NEW T, NEW s \in Seq(T), NEW S
  PROVE  /\ Only(s, S) \in Seq(T) /\ Len(Only(s, S)) <= Len(s)
         /\ ToSet(Only(s, S)) = ToSet(s) \cap S
         /\ IsInjective(s) => IsInjective(Only(s, S))
<1> DEFINE Parts(f, m) ==
             [n \in 0 .. m |-> IF n = 0 THEN <<>>
                               ELSE IF s[n] \in S THEN Append(f[n - 1], s[n]) ELSE f[n - 1]]
<1>1. PICK l \in Nat : l = Len(s) /\ DOMAIN s = 1 .. l
  BY SeqEntries
<1>2. ASSUME NEW m \in Nat, NEW f, f = Parts(f, m)
      PROVE  \E g : g = Parts(g, m + 1)
  <2>1. PICK g : g = [n \in 0 .. m + 1 |-> IF n \in 0 .. m THEN f[n]
                        ELSE IF s[n] \in S THEN Append(f[m], s[n]) ELSE f[m]]
    OBVIOUS
  <2>2. ASSUME NEW n \in 0 .. m + 1
        PROVE  g[n] = IF n = 0 THEN <<>>
                      ELSE IF s[n] \in S THEN Append(g[n - 1], s[n]) ELSE g[n - 1]
    <3>1. CASE n = 0
      <4>1. g[n] = f[n] /\ f[n] = <<>>
        BY <1>2, <2>1, <3>1
      <4>2. QED
        BY <3>1, <4>1
    <3>2. CASE n \in 1 .. m
      <4>1. g[n] = f[n] /\ g[n - 1] = f[n - 1] /\ n # 0 /\ n \in 0 .. m
        BY <2>1, <3>2
      <4>2. f[n] = IF s[n] \in S THEN Append(f[n - 1], s[n]) ELSE f[n - 1]
        BY <1>2, <4>1
      <4>3. QED
        BY <4>1, <4>2
    <3>3. CASE n = m + 1
      <4>1. /\ g[n] = IF s[n] \in S THEN Append(f[m], s[n]) ELSE f[m]
            /\ g[n - 1] = f[m] /\ n # 0
        BY <2>1, <3>3
      <4>2. QED
        BY <4>1
    <3>4. n = 0 \/ n \in 1 .. m \/ n = m + 1
      OBVIOUS
    <3>5. QED
      BY <3>1, <3>2, <3>3, <3>4
  <2>3. g = Parts(g, m + 1)
    BY <2>1, <2>2
  <2>4. QED
    BY <2>3
<1>3. \E f : f = Parts(f, l)
  <2>1. PICK N : N = {m \in Nat : \E f : f = Parts(f, m)}
    OBVIOUS
  <2>2. 0 \in N
    <3>1. PICK f : f = [n \in 0 .. 0 |-> <<>>]
      OBVIOUS
    <3>2. f = Parts(f, 0)
      BY <3>1
    <3>3. QED
      BY <2>1, <3>2
  <2>3. ASSUME NEW m \in Nat, m \in N
        PROVE  m + 1 \in N
    <3>1. PICK f : f = Parts(f, m)
      BY <2>1, <2>3
    <3>2. \E g : g = Parts(g, m + 1)
      BY <1>2, <3>1
    <3>3. m + 1 \in Nat
      OBVIOUS
    <3>4. QED
      BY <2>1, <3>2, <3>3, Zenon
  <2>4. Nat \subseteq N
    BY <2>2, <2>3, Counting
  <2>5. QED
    BY <2>1, <2>4
<1>4. PICK upto : upto = Parts(upto, l) /\ Only(s, S) = upto[l]
  BY <1>1, <1>3 DEF Only
<1>5. PICK N : N = {n \in Nat : n <= l => upto[n] \in Seq(T) /\ Part(s, S, n, upto[n])}
  OBVIOUS
<1>6. 0 \in N
  <2>1. upto[0] = <<>>
    BY <1>1, <1>4
  <2>2. <<>> \in Seq(T) /\ Len(<<>>) = 0 /\ DOMAIN <<>> = {} /\ 1 .. 0 = {}
    BY EmptySeq
  <2>3. Part(s, S, 0, <<>>)
    BY <2>2 DEF Part, IsInjective
  <2>4. upto[0] \in Seq(T) /\ Part(s, S, 0, upto[0])
    BY <2>1, <2>2, <2>3
  <2>5. QED
    BY <1>5, <2>4
<1>7. ASSUME NEW n \in Nat, n \in N
      PROVE  n + 1 \in N
  <2>1. SUFFICES ASSUME n + 1 <= l
                 PROVE  upto[n + 1] \in Seq(T) /\ Part(s, S, n + 1, upto[n + 1])
    BY <1>5
  <2>2. n + 1 \in DOMAIN s /\ (n + 1) - 1 = n /\ n + 1 \in 0 .. l /\ n <= l /\ n + 1 # 0
    BY <1>1, <2>1
  <2>3. PICK r : r = upto[n]
    OBVIOUS
  <2>4. r \in Seq(T) /\ Part(s, S, n, r)
    BY <1>5, <1>7, <2>2, <2>3
  <2>5. upto[n + 1] = IF s[n + 1] \in S THEN Append(r, s[n + 1]) ELSE r
    BY <1>4, <2>2, <2>3
  <2>6. QED
    BY <2>2, <2>4, <2>5, PartGrows
<1>8. l \in N
  BY <1>1, <1>6, <1>7, Counting
<1>9. PICK r : r = Only(s, S)
  OBVIOUS
<1>10. r \in Seq(T) /\ Part(s, S, l, r)
  BY <1>1, <1>4, <1>5, <1>8, <1>9
<1>11. ToSet(r) = ToSet(s) \cap S
  <2>1. \A x : x \in ToSet(r) <=> \E k \in DOMAIN r : x = r[k]
    BY DEF ToSet
  <2>2. \A x : x \in ToSet(s) <=> \E j \in 1 .. l : x = s[j]
    BY <1>1 DEF ToSet
  <2>3. ASSUME NEW x \in ToSet(r)
        PROVE  x \in ToSet(s) /\ x \in S
    BY <1>10, <2>1, <2>2 DEF Part
  <2>4. ASSUME NEW x \in ToSet(s), x \in S
        PROVE  x \in ToSet(r)
    <3>1. PICK j \in 1 .. l : x = s[j]
      BY <2>2
    <3>2. \E k \in DOMAIN r : s[j] = r[k]
      BY <1>10, <2>4, <3>1 DEF Part
    <3>3. QED
      BY <2>1, <3>1, <3>2
  <2>5. QED
    BY <2>3, <2>4
<1>12. QED
  BY <1>1, <1>9, <1>10, <1>11 DEF Part

\* What follows the place k of a sequence.
Rest(s, k) == SubSeq(s, k + 1, Len(s))

(* It has the entries behind k, and no other.                              *)
LEMMA RestKeeps ==
  ASSUME NEW T, NEW s \in Seq(T), NEW k \in DOMAIN s, NEW r, r = Rest(s, k)
  PROVE  /\ r \in Seq(T)
         /\ \A j \in DOMAIN r : k + j \in DOMAIN s /\ r[j] = s[k + j]
         /\ \A j \in DOMAIN s : j > k => s[j] \in ToSet(r)
         /\ ToSet(r) \subseteq ToSet(s)
         /\ IsInjective(s) => IsInjective(r) /\ s[k] \notin ToSet(r)
<1>1. PICK l \in Nat : l = Len(s) /\ DOMAIN s = 1 .. l
  BY SeqEntries
<1>2. k \in Nat /\ k >= 1 /\ k <= l /\ \A i \in 1 .. l : s[i] \in T
  BY <1>1, SeqEntries
<1>3. /\ r \in Seq(T) /\ Len(r) = l - k /\ DOMAIN r = 1 .. l - k
      /\ \A j \in 1 .. l - k : r[j] = s[k + j]
  BY <1>1, <1>2 DEF Rest
<1>4. \A j \in DOMAIN r : k + j \in DOMAIN s /\ r[j] = s[k + j] /\ k + j # k /\ j \in Nat
  BY <1>1, <1>2, <1>3
<1>5. ASSUME NEW j \in DOMAIN s, j > k
      PROVE  s[j] \in ToSet(r)
  <2>1. j - k \in DOMAIN r /\ k + (j - k) = j
    BY <1>1, <1>2, <1>3, <1>5
  <2>2. r[j - k] = s[j]
    BY <1>4, <2>1
  <2>3. QED
    BY <2>1, <2>2 DEF ToSet
<1>6. ToSet(r) \subseteq ToSet(s)
  BY <1>4 DEF ToSet
<1>7. ASSUME IsInjective(s)
      PROVE  IsInjective(r) /\ s[k] \notin ToSet(r)
  <2>1. ASSUME NEW i \in DOMAIN r, NEW j \in DOMAIN r, r[i] = r[j]
        PROVE  i = j
    <3>1. k + i = k + j
      BY <1>4, <1>7, <2>1 DEF IsInjective
    <3>2. QED
      BY <1>2, <1>4, <3>1
  <2>2. \A j \in DOMAIN r : r[j] # s[k]
    BY <1>4, <1>7 DEF IsInjective
  <2>3. QED
    BY <2>1, <2>2 DEF IsInjective, ToSet
<1>8. QED
  BY <1>3, <1>4, <1>5, <1>6, <1>7

(* A visit copies the listeners that it calls, none twice.                 *)
LEMMA CopiedAre ==
  ASSUME Shape, NEW d, NEW v
  PROVE  /\ Copied(d, v) \in Seq(Listener) /\ IsInjective(Copied(d, v))
         /\ ToSet(Copied(d, v)) = {l \in Registered : l.type = d.type /\ Fires(l, v)}
<1>1. PICK S : S = {l \in Registered : l.type = d.type /\ Fires(l, v)}
  OBVIOUS
<1>2. Copied(d, v) = Only(listeners, S)
  BY <1>1 DEF Copied
<1>3. listeners \in Seq(Listener) /\ IsInjective(listeners)
  BY DEF Shape
<1>4. ToSet(listeners) \cap S = S
  BY <1>1 DEF Registered
<1>5. QED
  BY <1>1, <1>2, <1>3, <1>4, OnlyKeeps

(* The attribute that a visit runs, if it is set.                          *)
LEMMA AttributeIs ==
  ASSUME Shape, NEW d, NEW v \in Place
  PROVE  /\ Attribute(d, v) \in Callbacks \cup {NoCallback}
         /\ Attribute(d, v) # NoCallback => v.phase = "attribute"
<1>1. d.type \in Types => <<v.node, d.type>> \in Nodes \X Types
  BY DEF Place
<1>2. QED
  BY <1>1 DEF Attribute, Shape

\* d has passed the visits before place k, which call nothing.
Passed(d, k) == \A j \in DOMAIN d.visits : j < k => Copied(d, d.visits[j]) = <<>>

\* d at the visit at place k.
AtVisit(d, k) ==
  [d EXCEPT !.visits = SubSeq(@, k + 1, Len(@)), !.visit = d.visits[k],
            !.list = Copied(d, d.visits[k]), !.running = Attribute(d, d.visits[k])]

(* A dispatch goes on to its next visit that calls something.              *)
LEMMA ArrivedIs ==
  ASSUME NEW d, d.visits \in Seq(Place)
  PROVE  \/ /\ Arrived(d) = [d EXCEPT !.visits = <<>>]
            /\ \A k \in DOMAIN d.visits : Copied(d, d.visits[k]) = <<>>
         \/ \E k \in DOMAIN d.visits : Arrived(d) = AtVisit(d, k) /\ Passed(d, k)
<1>1. PICK busy : busy = {k \in DOMAIN d.visits :
                 Copied(d, d.visits[k]) # <<>> \/ Attribute(d, d.visits[k]) # NoCallback}
  OBVIOUS
<1>2. Arrived(d) = IF busy = {} THEN [d EXCEPT !.visits = <<>>] ELSE AtVisit(d, Min(busy))
  BY <1>1 DEF Arrived, AtVisit
<1>3. CASE busy = {}
  BY <1>1, <1>2, <1>3
<1>4. CASE busy # {}
  <2>1. \A k \in DOMAIN d.visits : k \in Nat
    BY SeqEntries
  <2>2. busy \subseteq Nat
    BY <1>1, <2>1
  <2>3. PICK k : k = Min(busy)
    OBVIOUS
  <2>4. k \in busy /\ \A j \in busy : k <= j
    BY <1>4, <2>2, <2>3, Least
  <2>5. Passed(d, k)
    <3>1. SUFFICES ASSUME NEW j \in DOMAIN d.visits, j < k
                   PROVE  j \notin busy
      BY <1>1 DEF Passed
    <3>2. j \in Nat /\ k \in Nat
      BY <2>1, <2>2, <2>4
    <3>3. QED
      BY <2>4, <3>1, <3>2
  <2>6. QED
    BY <1>1, <1>2, <1>4, <2>3, <2>4, <2>5
<1>5. QED
  BY <1>3, <1>4

\* The place of a visit on the way to the target t.
Spot(v, t) ==
  IF v.phase = "capture" THEN v.node ELSE IF v.phase = "target" THEN t
  ELSE IF v.phase = "attribute" THEN t + 1 ELSE t + 1 + (t - v.node)

(* The way of an event to its target and back calls no listener twice.     *)
LEMMA VisitsAre ==
  ASSUME NEW t \in Nodes, NEW b \in BOOLEAN
  PROVE  /\ Visits(t, b) \in Seq(Place) /\ Visits(t, b) # <<>>
         /\ Route(Visits(t, b))
<1>1. t \in Nat /\ t >= 1 /\ t <= PathLength /\ PathLength \in Nat
  BY DomEventsAssumption DEF Nodes
<1>2. PICK m \in Nat : m = t - 1
  BY <1>1
<1> DEFINE at(phase) == [i \in 1 .. m |-> Visit(t - i, phase)]
<1>3. \A i \in 1 .. m : t - i \in Nodes /\ t - i < t
  BY <1>1, <1>2 DEF Nodes
<1>4. /\ DOMAIN Ancestors(t) = 1 .. m
      /\ \A i \in 1 .. m : Ancestors(t)[i] = t - i
  BY <1>1, <1>2 DEF Ancestors
<1>5. PICK up : up = at("capture")
  OBVIOUS
<1>6. PICK down : down = at("bubble")
  OBVIOUS
<1>7. PICK mid : mid = <<Visit(t, "target"), Visit(t, "attribute")>>
  OBVIOUS
<1>8. PICK way : way = Reverse(up)
  OBVIOUS
<1>9. PICK back : back = IF b THEN down ELSE <<>>
  OBVIOUS
<1>10. Visits(t, b) = (way \o mid) \o back
  BY <1>4, <1>5, <1>6, <1>7, <1>8, <1>9 DEF Visits
<1>11. up \in Seq(Place) /\ Len(up) = m /\ DOMAIN up = 1 .. m
  <2>1. up = [i \in 1 .. m |-> up[i]] /\ \A i \in 1 .. m : up[i] \in Place
    BY <1>3, <1>5 DEF Visit, Place, Phase
  <2>2. QED
    BY <2>1, SeqBuilt
<1>12. down \in Seq(Place) /\ Len(down) = m /\ DOMAIN down = 1 .. m
  <2>1. down = [i \in 1 .. m |-> down[i]] /\ \A i \in 1 .. m : down[i] \in Place
    BY <1>3, <1>6 DEF Visit, Place, Phase
  <2>2. QED
    BY <2>1, SeqBuilt
<1>13. way \in Seq(Place) /\ Len(way) = m /\ DOMAIN way = 1 .. m
       /\ \A i \in 1 .. m : way[i] = Visit(i, "capture")
  <2>1. way = [i \in 1 .. m |-> up[m - i + 1]]
    BY <1>8, <1>11 DEF Reverse
  <2>2. ASSUME NEW i \in 1 .. m
        PROVE  way[i] = Visit(i, "capture") /\ way[i] \in Place
    <3>1. m - i + 1 \in 1 .. m /\ t - (m - i + 1) = i
      BY <1>1, <1>2
    <3>2. up[m - i + 1] = Visit(t - (m - i + 1), "capture")
      BY <1>5, <3>1
    <3>3. up[m - i + 1] \in Place
      BY <1>11, <3>1, SeqEntries
    <3>4. QED
      BY <2>1, <3>1, <3>2, <3>3
  <2>3. way = [i \in 1 .. m |-> way[i]]
    BY <2>1
  <2>4. QED
    BY <2>2, <2>3, SeqBuilt
<1>14. mid \in Seq(Place) /\ Len(mid) = 2 /\ DOMAIN mid = 1 .. 2
       /\ mid[1] = Visit(t, "target") /\ mid[2] = Visit(t, "attribute")
  <2>1. Visit(t, "target") \in Place /\ Visit(t, "attribute") \in Place
    BY DEF Visit, Place, Phase
  <2>2. QED
    BY <1>7, <2>1
<1>15. back \in Seq(Place) /\ \A i \in DOMAIN back : i \in 1 .. m /\ back[i] = Visit(t - i, "bubble")
  <2>1. CASE b
    BY <1>6, <1>9, <1>12, <2>1
  <2>2. CASE ~b
    <3>1. <<>> \in Seq(Place) /\ DOMAIN <<>> = {}
      BY EmptySeq
    <3>2. QED
      BY <1>9, <2>2, <3>1
  <2>3. QED
    BY <2>1, <2>2
<1>16. PICK first : first = way \o mid
  OBVIOUS
<1>17. /\ first \in Seq(Place) /\ Len(first) = m + 2 /\ DOMAIN first = 1 .. m + 2
       /\ \A i \in 1 .. m + 2 : \/ i \in 1 .. m /\ first[i] = Visit(i, "capture")
                                \/ i = t /\ first[i] = Visit(t, "target")
                                \/ i = t + 1 /\ first[i] = Visit(t, "attribute")
  <2>1. /\ first \in Seq(Place) /\ Len(first) = m + 2 /\ DOMAIN first = 1 .. m + 2
        /\ \A i \in DOMAIN first : \/ i \in 1 .. m /\ first[i] = way[i]
                                   \/ i - m \in 1 .. 2 /\ first[i] = mid[i - m]
    <3>1. way \in Seq(Place) /\ mid \in Seq(Place)
      BY <1>13, <1>14
    <3>2. /\ first \in Seq(Place) /\ Len(first) = Len(way) + Len(mid)
          /\ DOMAIN first = 1 .. Len(way) + Len(mid)
          /\ \A i \in DOMAIN first :
               \/ i \in DOMAIN way /\ first[i] = way[i]
               \/ i - Len(way) \in DOMAIN mid /\ first[i] = mid[i - Len(way)]
      BY ONLY <1>16, <3>1, SeqJoin
    <3>3. QED
      BY <1>13, <1>14, <3>2
  <2>2. ASSUME NEW i \in 1 .. m + 2
        PROVE  \/ i \in 1 .. m /\ first[i] = Visit(i, "capture")
               \/ i = t /\ first[i] = Visit(t, "target")
               \/ i = t + 1 /\ first[i] = Visit(t, "attribute")
    <3>1. CASE i \in 1 .. m /\ first[i] = way[i]
      BY <1>13, <3>1
    <3>2. CASE i - m \in 1 .. 2 /\ first[i] = mid[i - m]
      <4>1. (i - m = 1 /\ i = t) \/ (i - m = 2 /\ i = t + 1)
        BY <1>1, <1>2, <3>2
      <4>2. QED
        BY <1>14, <3>2, <4>1
    <3>3. QED
      BY <2>1, <3>1, <3>2
  <2>3. QED
    BY <2>1, <2>2
<1>18. PICK all : all = first \o back
  OBVIOUS
<1>19. all = Visits(t, b)
  BY <1>10, <1>16, <1>18
<1>20. /\ all \in Seq(Place) /\ 1 \in DOMAIN all
       /\ \A i \in DOMAIN all : \/ i \in 1 .. m + 2 /\ all[i] = first[i]
                                \/ i - (m + 2) \in DOMAIN back /\ all[i] = back[i - (m + 2)]
  <2>1. Len(back) \in Nat
    BY <1>15, SeqEntries
  <2>2. /\ all \in Seq(Place) /\ DOMAIN all = 1 .. (m + 2) + Len(back)
        /\ \A i \in DOMAIN all : \/ i \in 1 .. m + 2 /\ all[i] = first[i]
                                 \/ i - (m + 2) \in DOMAIN back /\ all[i] = back[i - (m + 2)]
    <3>1. first \in Seq(Place) /\ back \in Seq(Place)
      BY <1>15, <1>17
    <3>2. /\ all \in Seq(Place) /\ DOMAIN all = 1 .. Len(first) + Len(back)
          /\ \A i \in DOMAIN all :
               \/ i \in DOMAIN first /\ all[i] = first[i]
               \/ i - Len(first) \in DOMAIN back /\ all[i] = back[i - Len(first)]
      BY ONLY <1>18, <3>1, SeqJoin
    <3>3. QED
      BY <1>17, <3>2
  <2>3. QED
    BY <2>1, <2>2
<1>21. ASSUME NEW i \in DOMAIN all
       PROVE  /\ all[i] \in Place /\ i = Spot(all[i], t)
              /\ all[i].node = t <=> all[i].phase \in {"target", "attribute"}
  <2>1. i \in Nat
    BY <1>20, SeqEntries
  <2>2. \/ i \in 1 .. m /\ all[i] = Visit(i, "capture")
        \/ i = t /\ all[i] = Visit(t, "target")
        \/ i = t + 1 /\ all[i] = Visit(t, "attribute")
        \/ i - (m + 2) \in 1 .. m /\ all[i] = Visit(t - (i - (m + 2)), "bubble")
    BY <1>15, <1>17, <1>20
  <2>3. all[i] \in Place
    BY <1>20, SeqEntries
  <2>4. QED
    BY <1>1, <1>2, <2>1, <2>2, <2>3 DEF Spot, Visit
<1>22. IsInjective(all)
  BY <1>21 DEF IsInjective
<1>23. ASSUME NEW v \in ToSet(all), NEW w \in ToSet(all), v # w
       PROVE  Apart(v, w)
  <2>1. PICK i \in DOMAIN all, j \in DOMAIN all : v = all[i] /\ w = all[j]
    BY DEF ToSet
  <2>2. /\ v \in Place /\ w \in Place
        /\ v.node = t <=> v.phase \in {"target", "attribute"}
        /\ w.node = t <=> w.phase \in {"target", "attribute"}
    BY <1>21, <2>1
  <2>3. v.node # w.node \/ v.phase # w.phase
    BY <1>23, <2>2 DEF Place
  <2>4. QED
    BY <2>2, <2>3 DEF Apart, Fires, Place, Phase
<1>24. QED
  BY <1>19, <1>20, <1>22, <1>23 DEF Route

-----------------------------------------------------------------------------
(* One dispatch                                                            *)

(* A dispatch that goes on owes and avoids what it did.                    *)
LEMMA ArrivedKeeps ==
  ASSUME Shape, NEW d \in Work, NEW f \in Flags, DispatchKept(d, f, Registered),
         d.list = <<>>, ~Runs(d), d.visit.phase # "none",
         NEW e, e = Arrived(d)
  PROVE  /\ e \in Work /\ DispatchKept(e, f, Registered) /\ e.visit.phase # "none"
         /\ e.event = d.event /\ e.flags = d.flags /\ e.trusted = d.trusted /\ e.type = d.type
<1>1. /\ d.visits \in Seq(Place) /\ d.due \in SUBSET Listener /\ d.spent \in SUBSET Listener
      /\ ToSet(d.list) = {}
  BY EmptySeq DEF Work, ToSet
<1>2. f.now => f.stop
  BY DEF Flags, NoFlags, Stop, StopNow
<1>3. /\ Route(d.visits) /\ ~d.wrong
      /\ \A l \in d.due : /\ l \in Registered /\ l.type = d.type
                          /\ \E v \in ToSet(d.visits) : Fires(l, v)
      /\ f.stop => d.due = {}
      /\ \A l \in d.spent : \A v \in ToSet(d.visits) : ~Fires(l, v)
  BY <1>1 DEF DispatchKept, Itinerary, DueKept, SpentKept, Leaves
<1>4. CASE e = [d EXCEPT !.visits = <<>>] /\ \A k \in DOMAIN d.visits : Copied(d, d.visits[k]) = <<>>
  <2>1. <<>> \in Seq(Place) /\ ToSet(<<>>) = {} /\ IsInjective(<<>>)
    BY EmptySeq DEF ToSet, IsInjective
  <2>2. e \in Work
    BY <1>4, <2>1 DEF Work
  <2>3. /\ e.visits = <<>> /\ e.visit = d.visit /\ e.list = d.list /\ e.running = d.running
        /\ e.due = d.due /\ e.spent = d.spent /\ e.wrong = d.wrong
        /\ e.event = d.event /\ e.flags = d.flags /\ e.trusted = d.trusted /\ e.type = d.type
    BY <1>4 DEF Work
  <2>4. d.due = {}
    <3>1. SUFFICES ASSUME NEW l \in d.due
                   PROVE  FALSE
      OBVIOUS
    <3>2. PICK k \in DOMAIN d.visits : Fires(l, d.visits[k])
      BY <1>3 DEF ToSet
    <3>3. l \in ToSet(Copied(d, d.visits[k]))
      BY <1>3, <3>2, CopiedAre
    <3>4. QED
      BY <1>4, <2>1, <3>3
  <2>5. Itinerary(e)
    BY <1>1, <2>1, <2>3 DEF Itinerary, Route, IsInjective, ToSet
  <2>6. DueKept(e, f, Registered) /\ SpentKept(e, f)
    BY <1>1, <1>3, <2>1, <2>3, <2>4 DEF DueKept, SpentKept
  <2>7. QED
    BY <2>2, <2>3, <2>5, <2>6 DEF DispatchKept
<1>5. ASSUME NEW k \in DOMAIN d.visits, e = AtVisit(d, k), Passed(d, k)
      PROVE  /\ e \in Work /\ DispatchKept(e, f, Registered) /\ e.visit.phase # "none"
             /\ e.event = d.event /\ e.flags = d.flags /\ e.trusted = d.trusted /\ e.type = d.type
  <2>1. PICK rest, v : rest = SubSeq(d.visits, k + 1, Len(d.visits)) /\ v = d.visits[k]
    OBVIOUS
  <2>2. PICK copy, cb : copy = Copied(d, v) /\ cb = Attribute(d, v)
    OBVIOUS
  <2>3. e = [d EXCEPT !.visits = rest, !.visit = v, !.list = copy, !.running = cb]
    BY <1>5, <2>1, <2>2 DEF AtVisit
  <2>4. /\ rest \in Seq(Place) /\ IsInjective(rest) /\ v \notin ToSet(rest)
        /\ ToSet(rest) \subseteq ToSet(d.visits)
        /\ \A j \in DOMAIN d.visits : j > k => d.visits[j] \in ToSet(rest)
    <3>1. IsInjective(d.visits)
      BY <1>3 DEF Route
    <3>2. PICK s \in Seq(Place) : s = d.visits
      BY <1>1
    <3>3. k \in DOMAIN s /\ rest = Rest(s, k)
      BY <2>1, <3>2 DEF Rest
    <3>4. /\ rest \in Seq(Place) /\ ToSet(rest) \subseteq ToSet(s)
          /\ \A j \in DOMAIN s : j > k => s[j] \in ToSet(rest)
          /\ IsInjective(s) => IsInjective(rest) /\ s[k] \notin ToSet(rest)
      BY ONLY s \in Seq(Place), <3>3, RestKeeps
    <3>5. QED
      BY <2>1, <3>1, <3>2, <3>4
  <2>5. v \in Place /\ v \in ToSet(d.visits)
    BY <1>1, <2>1, SeqEntries DEF ToSet
  <2>6. /\ copy \in Seq(Listener) /\ IsInjective(copy)
        /\ ToSet(copy) = {l \in Registered : l.type = d.type /\ Fires(l, v)}
    BY <2>2, CopiedAre
  <2>7. cb \in Callbacks \cup {NoCallback}
    BY <2>2, <2>5, AttributeIs
  <2>8. v \in [node : Nodes, phase : Phase \cup {"none", "start"}] /\ v.phase # "none"
    BY <2>5 DEF Place, Phase
  <2>9. e \in Work
    BY <2>3, <2>4, <2>6, <2>7, <2>8 DEF Work
  <2>10. /\ e.visits = rest /\ e.visit = v /\ e.list = copy /\ e.running = cb
         /\ e.due = d.due /\ e.spent = d.spent /\ e.wrong = d.wrong
         /\ e.event = d.event /\ e.flags = d.flags /\ e.trusted = d.trusted /\ e.type = d.type
    BY <2>3 DEF Work
  <2>11. Itinerary(e)
    <3>1. Route(rest)
      BY <1>3, <2>4 DEF Route
    <3>2. \A w \in ToSet(rest) : Apart(v, w)
      BY <1>3, <2>4, <2>5 DEF Route
    <3>3. QED
      BY <2>6, <2>10, <3>1, <3>2 DEF Itinerary
  <2>12. ASSUME NEW l \in d.due
         PROVE  l \in ToSet(copy) \/ \E w \in ToSet(rest) : Fires(l, w)
    <3>1. PICK j \in DOMAIN d.visits : Fires(l, d.visits[j])
      BY <1>3 DEF ToSet
    <3>2. l \in ToSet(Copied(d, d.visits[j]))
      BY <1>3, <3>1, CopiedAre
    <3>3. j \in Nat /\ k \in Nat
      BY <1>1, SeqEntries
    <3>4. CASE j < k
      <4>1. Copied(d, d.visits[j]) = <<>>
        BY <1>5, <3>4 DEF Passed
      <4>2. QED
        BY <3>2, <4>1 DEF ToSet
    <3>5. CASE j = k
      BY <2>1, <2>2, <3>2, <3>5
    <3>6. CASE j > k
      BY <2>4, <3>1, <3>6
    <3>7. QED
      BY <3>3, <3>4, <3>5, <3>6
  <2>13. DueKept(e, f, Registered)
    BY <1>2, <1>3, <2>10, <2>12 DEF DueKept
  <2>14. SpentKept(e, f)
    BY <1>3, <2>4, <2>5, <2>6, <2>10 DEF SpentKept
  <2>15. QED
    BY <2>8, <2>9, <2>10, <2>11, <2>13, <2>14 DEF DispatchKept
<1>6. QED
  BY <1>1, <1>4, <1>5, ArrivedIs

\* A dispatch as it is pushed, by a script or by a focus change.
Pushed(type, t, b, i, trusted) == [Dispatch(type, t, b, i) EXCEPT !.trusted = trusted]

(* It owes nothing yet.                                                    *)
LEMMA DispatchIs ==
  ASSUME NEW type \in AllTypes, NEW t \in Nodes, NEW b \in BOOLEAN, NEW i \in Nat,
         NEW trusted \in BOOLEAN, NEW f \in Flags, NEW registered,
         NEW d, d = Pushed(type, t, b, i, trusted)
  PROVE  /\ d \in Work /\ DispatchKept(d, f, registered)
         /\ d.visit = Visit(t, "none") /\ d.type = type /\ d.event = i /\ d.trusted = trusted
<1>1. PICK way : way = Visits(t, b) /\ way \in Seq(Place) /\ way # <<>> /\ Route(way)
  BY VisitsAre
<1>2. d = [type |-> type, bubbles |-> b, event |-> i, flags |-> NoFlags, trusted |-> trusted,
           visits |-> way, visit |-> Visit(t, "none"), list |-> <<>>, running |-> NoCallback,
           due |-> {}, spent |-> {}, wrong |-> FALSE]
  BY <1>1 DEF Pushed, Dispatch
<1>3. <<>> \in Seq(Listener) /\ ToSet(<<>>) = {} /\ IsInjective(<<>>)
  BY EmptySeq DEF ToSet, IsInjective
<1>4. Visit(t, "none") \in [node : Nodes, phase : Phase \cup {"none", "start"}]
  BY DEF Visit
<1>5. NoFlags \in Flags
  BY DEF Flags
<1>6. d \in Work
  BY ONLY <1>1, <1>2, <1>3, <1>4, <1>5, type \in AllTypes, b \in BOOLEAN, i \in Nat, trusted \in BOOLEAN DEF Work
<1>7. Itinerary(d)
  BY <1>1, <1>2, <1>3 DEF Itinerary, Apart, Fires, Visit
<1>8. Waits(d) /\ DueKept(d, f, registered) /\ SpentKept(d, f)
  BY <1>1, <1>2, <1>3 DEF Waits, Runs, DueKept, SpentKept
<1>9. QED
  BY <1>2, <1>6, <1>7, <1>8 DEF DispatchKept

\* The dispatch d that calls the next listener of its copy, l.
Called(d, l) ==
  [d EXCEPT !.list = Tail(@), !.running = l.callback, !.due = @ \ {l},
            !.spent = @ \cup {l}, !.wrong = @ \/ l \in d.spent]

(* It owes the others, and must not call this one again.                   *)
LEMMA CallKeeps ==
  ASSUME NEW d \in Work, NEW f \in Flags, NEW registered, DispatchKept(d, f, registered),
         ~Runs(d), d.list # <<>>, NEW l, l = Head(d.list),
         NEW e, e = Called(d, l)
  PROVE  /\ e \in Work /\ DispatchKept(e, f, registered) /\ e.visit = d.visit
         /\ e.event = d.event /\ e.flags = d.flags /\ e.trusted = d.trusted /\ e.type = d.type
<1>1. d.list \in Seq(Listener)
  BY DEF Work
<1>2. PICK rest : rest = Tail(d.list)
  OBVIOUS
<1>3. /\ l \in Listener /\ l = d.list[1] /\ 1 \in DOMAIN d.list
      /\ rest \in Seq(Listener) /\ Len(rest) = Len(d.list) - 1
      /\ \A j \in DOMAIN rest : j + 1 \in DOMAIN d.list /\ rest[j] = d.list[j + 1]
  BY <1>1, <1>2, SeqTake
<1>4. l \in ToSet(d.list) /\ l.callback \in Callbacks
  BY <1>3 DEF ToSet, Listener
<1>5. /\ Itinerary(d) /\ DueKept(d, f, registered) /\ SpentKept(d, f) /\ ~Leaves(d) /\ ~d.wrong
  BY DEF DispatchKept, SpentKept, Leaves
<1>6. l \notin d.spent
  BY <1>4, <1>5 DEF SpentKept
<1>7. e = [d EXCEPT !.list = rest, !.running = l.callback, !.due = @ \ {l},
                    !.spent = @ \cup {l}, !.wrong = FALSE]
  BY <1>2, <1>5, <1>6 DEF Called
<1>8. e \in Work
  <2>1. d.due \ {l} \in SUBSET Listener /\ d.spent \cup {l} \in SUBSET Listener
    BY <1>3 DEF Work
  <2>2. QED
    BY <1>3, <1>4, <1>7, <2>1 DEF Work
<1>9. /\ e.list = rest /\ e.running = l.callback /\ e.due = d.due \ {l} /\ e.spent = d.spent \cup {l}
      /\ e.wrong = FALSE /\ e.visits = d.visits /\ e.visit = d.visit
      /\ e.event = d.event /\ e.flags = d.flags /\ e.trusted = d.trusted /\ e.type = d.type
  BY <1>7 DEF Work
<1>10. IsInjective(rest) /\ l \notin ToSet(rest) /\ ToSet(d.list) = ToSet(rest) \cup {l}
  <2>1. IsInjective(d.list)
    BY <1>5 DEF Itinerary
  <2>2. PICK n \in Nat : n = Len(d.list) /\ DOMAIN d.list = 1 .. n /\ n >= 1
    BY <1>1, <1>3, SeqEntries
  <2>3. DOMAIN rest = 1 .. n - 1
    BY <1>3, <2>2, SeqEntries
  <2>4. \A j \in DOMAIN rest : j \in Nat /\ j + 1 # 1
    BY <2>2, <2>3
  <2>5. IsInjective(rest)
    <3>1. SUFFICES ASSUME NEW i \in DOMAIN rest, NEW j \in DOMAIN rest, rest[i] = rest[j]
                   PROVE  i = j
      BY DEF IsInjective
    <3>2. i + 1 = j + 1
      BY <1>3, <2>1, <3>1 DEF IsInjective
    <3>3. QED
      BY <2>4, <3>2
  <2>6. l \notin ToSet(rest)
    BY <1>3, <2>1, <2>4 DEF IsInjective, ToSet
  <2>7. ASSUME NEW j \in DOMAIN d.list
        PROVE  d.list[j] = l \/ d.list[j] \in ToSet(rest)
    <3>1. j = 1 \/ (j - 1 \in DOMAIN rest /\ (j - 1) + 1 = j)
      BY <2>2, <2>3
    <3>2. QED
      BY <1>3, <3>1 DEF ToSet
  <2>8. ToSet(rest) \subseteq ToSet(d.list)
    BY <1>3 DEF ToSet
  <2>9. QED
    BY <1>4, <2>5, <2>6, <2>7, <2>8 DEF ToSet
<1>11. Fires(l, d.visit)
  BY <1>4, <1>5 DEF Itinerary
<1>12. Itinerary(e)
  BY <1>5, <1>9, <1>10 DEF Itinerary
<1>13. DueKept(e, f, registered)
  BY <1>5, <1>9, <1>10 DEF DueKept
<1>14. SpentKept(e, f)
  <2>1. \A v \in ToSet(d.visits) : ~Fires(l, v)
    BY <1>3, <1>5, <1>11 DEF Itinerary, Apart
  <2>2. QED
    BY <1>5, <1>9, <1>10, <2>1 DEF SpentKept
<1>15. d.visit.phase # "none"
  <2>1. d.visit.phase = "none" => Waits(d)
    BY DEF DispatchKept
  <2>2. QED
    BY <2>1 DEF Waits
<1>16. QED
  BY <1>8, <1>9, <1>12, <1>13, <1>14, <1>15 DEF DispatchKept

\* The dispatch d when the function that it called returns, and the event has
\* the flags f.
Returned(d, f) ==
  IF ~f.stop \/ d.visit.phase = "attribute" THEN [d EXCEPT !.running = NoCallback]
  ELSE IF f.now THEN [d EXCEPT !.running = NoCallback, !.list = <<>>, !.visits = <<>>]
  ELSE IF d.visit.phase = "target"
  THEN [d EXCEPT !.running = NoCallback,
                 !.visits = Only(@, {v \in ToSet(@) : v.phase = "attribute"})]
  ELSE [d EXCEPT !.running = NoCallback, !.visits = <<>>]

(* It drops what it must not call any more.                                *)
LEMMA ReturnKeeps ==
  ASSUME NEW d \in Work, NEW f \in Flags, NEW registered, DispatchKept(d, f, registered), Runs(d),
         NEW e, e = Returned(d, f)
  PROVE  /\ e \in Work /\ DispatchKept(e, f, registered) /\ e.visit = d.visit
         /\ e.event = d.event /\ e.flags = d.flags /\ e.trusted = d.trusted /\ e.type = d.type
<1>1. /\ d.list \in Seq(Listener) /\ d.visits \in Seq(Place) /\ d.spent \in SUBSET Listener
      /\ d.due \in SUBSET Listener
  BY DEF Work
<1>2. f.now => f.stop
  BY DEF Flags, NoFlags, Stop, StopNow
<1>3. d.visit.phase # "none"
  BY DEF DispatchKept, Waits
<1>4. <<>> \in Seq(Listener) /\ <<>> \in Seq(Place) /\ ToSet(<<>>) = {} /\ IsInjective(<<>>)
  BY EmptySeq DEF ToSet, IsInjective
<1>5. PICK list, visits :
        /\ list = IF f.now /\ Leaves(d) THEN <<>> ELSE d.list
        /\ visits = IF ~f.stop \/ d.visit.phase = "attribute" THEN d.visits
                    ELSE IF ~f.now /\ d.visit.phase = "target"
                    THEN Only(d.visits, {v \in ToSet(d.visits) : v.phase = "attribute"}) ELSE <<>>
  OBVIOUS
<1>6. e = [d EXCEPT !.running = NoCallback, !.list = list, !.visits = visits]
  <2>1. d = [d EXCEPT !.list = d.list, !.visits = d.visits]
    BY DEF Work
  <2>2. QED
    BY <1>2, <1>5, <2>1 DEF Work, Leaves, Returned
<1>7. /\ visits \in Seq(Place) /\ IsInjective(visits) /\ ToSet(visits) \subseteq ToSet(d.visits)
      /\ f.stop /\ Leaves(d) => \A v \in ToSet(visits) : v.phase = "attribute"
  <2>1. IsInjective(d.visits)
    BY DEF DispatchKept, Itinerary, Route
  <2>2. PICK S : S = {v \in ToSet(d.visits) : v.phase = "attribute"}
    OBVIOUS
  <2>3. /\ Only(d.visits, S) \in Seq(Place) /\ IsInjective(Only(d.visits, S))
        /\ ToSet(Only(d.visits, S)) = ToSet(d.visits) \cap S
    BY <1>1, <2>1, OnlyKeeps
  <2>4. QED
    BY <1>1, <1>4, <1>5, <2>1, <2>2, <2>3 DEF Leaves
<1>8. /\ list \in Seq(Listener) /\ IsInjective(list) /\ ToSet(list) \subseteq ToSet(d.list)
  <2>1. IsInjective(d.list)
    BY DEF DispatchKept, Itinerary
  <2>2. QED
    BY <1>1, <1>4, <1>5, <2>1
<1>9. e \in Work
  BY ONLY d \in Work, <1>6, <1>7, <1>8 DEF Work
<1>10. /\ e.list = list /\ e.visits = visits /\ e.running = NoCallback /\ e.visit = d.visit
       /\ e.due = d.due /\ e.spent = d.spent /\ e.wrong = d.wrong
       /\ e.event = d.event /\ e.flags = d.flags /\ e.trusted = d.trusted /\ e.type = d.type
  BY <1>6 DEF Work
<1>11. Itinerary(e)
  BY <1>7, <1>8, <1>10 DEF DispatchKept, Itinerary, Route
<1>12. DueKept(e, f, registered)
  <2>1. DueKept(d, f, registered)
    BY DEF DispatchKept
  <2>2. CASE f.now
    BY <2>1, <2>2, <1>2, <1>10 DEF DueKept
  <2>3. CASE ~f.now /\ f.stop
    BY <2>1, <2>3, <1>5, <1>10 DEF DueKept
  <2>4. CASE ~f.stop
    BY <2>1, <2>4, <1>2, <1>5, <1>10 DEF DueKept
  <2>5. QED
    BY <2>2, <2>3, <2>4
<1>13. SpentKept(e, f)
  <2>1. SpentKept(d, f)
    BY DEF DispatchKept
  <2>2. \A l \in d.spent : l \notin ToSet(list)
    BY <1>4, <1>5, <1>8, <2>1 DEF SpentKept
  <2>3. ASSUME NEW l \in d.spent, NEW v \in ToSet(visits)
        PROVE  ~Fires(l, v)
    <3>1. CASE f.stop /\ Leaves(d)
      BY <1>7, <3>1 DEF Fires
    <3>2. CASE ~(f.stop /\ Leaves(d))
      BY <1>7, <2>1, <3>2 DEF SpentKept
    <3>3. QED
      BY <3>1, <3>2
  <2>4. QED
    BY <1>10, <2>1, <2>2, <2>3 DEF SpentKept
<1>14. QED
  BY <1>3, <1>9, <1>10, <1>11, <1>12, <1>13 DEF DispatchKept

-----------------------------------------------------------------------------
(* The stack                                                               *)

SameEvent(e, d) ==
  e.event = d.event /\ e.flags = d.flags /\ e.trusted = d.trusted /\ e.type = d.type

(* What every place of the stack is.                                       *)
LEMMA StackIs ==
  ASSUME NEW s \in Seq(Work), NEW registered, StackKept(s, registered), NEW i \in DOMAIN s
  PROVE  /\ i \in Nat /\ i >= 1 /\ i <= Len(s) /\ Len(s) \in Nat
         /\ s[i] \in Work /\ Placed(s, i)
         /\ s[i].event \in DOMAIN s /\ s[i].event \in Nat /\ s[i].event >= 1 /\ s[i].event <= i
         /\ s[s[i].event].flags \in Flags
         /\ DispatchKept(s[i], s[s[i].event].flags, registered)
<1>1. PICK n \in Nat : n = Len(s) /\ DOMAIN s = 1 .. n
  BY SeqEntries
<1>2. i \in Nat /\ i >= 1 /\ i <= n /\ s[i] \in Work
  BY <1>1, SeqEntries
<1>3. Placed(s, i) /\ DispatchKept(s[i], s[s[i].event].flags, registered)
  BY DEF StackKept
<1>4. s[i].event \in 1 .. i
  BY <1>3 DEF Placed
<1>5. PICK k \in Nat : k = s[i].event /\ k >= 1 /\ k <= i
  BY <1>2, <1>4
<1>6. k \in DOMAIN s
  BY <1>1, <1>2, <1>5
<1>7. s[k] \in Work
  BY <1>6, SeqEntries
<1>8. s[k].flags \in Flags
  BY <1>7 DEF Work
<1>9. QED
  BY <1>1, <1>2, <1>3, <1>5, <1>6, <1>8

(* The dispatch on top changes.                                            *)
LEMMA TopKeeps ==
  ASSUME NEW s \in Seq(Work), s # <<>>, NEW registered, StackKept(s, registered),
         NEW n, n = Len(s), NEW e \in Work, SameEvent(e, s[n]),
         DispatchKept(e, s[s[n].event].flags, registered),
         NEW t, t = [s EXCEPT ![n] = e]
  PROVE  /\ t \in Seq(Work) /\ StackKept(t, registered)
         /\ DOMAIN t = DOMAIN s /\ n \in DOMAIN s /\ t[n] = e
         /\ \A i \in DOMAIN s : i # n => t[i] = s[i]
<1>1. n \in Nat /\ DOMAIN s = 1 .. n /\ n >= 1
  BY SeqEntries, EmptySeq
<1>2. n \in DOMAIN s
  BY <1>1
<1>3. /\ t \in Seq(Work) /\ DOMAIN t = DOMAIN s /\ Len(t) = n
      /\ \A j \in DOMAIN s : t[j] = IF j = n THEN e ELSE s[j]
  BY <1>2, SeqPut
<1>4. ASSUME NEW i \in DOMAIN s
      PROVE  Placed(t, i) /\ DispatchKept(t[i], t[t[i].event].flags, registered)
  <2>1. PICK k \in DOMAIN s : k = s[i].event
    BY StackIs
  <2>2. /\ i \in Nat /\ i <= n /\ k \in Nat /\ k <= i /\ Placed(s, i)
        /\ DispatchKept(s[i], s[k].flags, registered)
    BY <2>1, StackIs
  <2>3. t[i].event = k /\ t[k].flags = s[k].flags /\ t[i].trusted = s[i].trusted /\ t[k].event = s[k].event
    BY <1>3, <2>1 DEF SameEvent
  <2>4. CASE i = n
    <3>1. t[i] = e
      BY <1>3, <2>4
    <3>2. k # i => t[k] = s[k]
      BY <1>3, <2>4
    <3>3. Placed(t, i)
      BY <1>3, <2>1, <2>2, <2>3, <2>4, <3>2 DEF Placed
    <3>4. QED
      BY <2>1, <2>3, <2>4, <3>1, <3>3
  <2>5. CASE i # n
    <3>1. k # n
      BY <1>1, <2>2, <2>5
    <3>2. t[i] = s[i] /\ t[k] = s[k]
      BY <1>3, <2>5, <3>1
    <3>3. Placed(t, i)
      BY <1>3, <2>1, <2>2, <2>5, <3>2 DEF Placed
    <3>4. QED
      BY <2>1, <2>2, <3>2, <3>3
  <2>6. QED
    BY <2>4, <2>5
<1>5. QED
  BY <1>2, <1>3, <1>4 DEF StackKept

\* What may push: the code of the dispatch on top, or of a checkpoint after it.
MayPush(s) == s # <<>> => Runs(s[Len(s)]) \/ Over(s[Len(s)])

\* The event of d, whose flags are f, is new, or it is under way.
Joins(s, d, f) ==
  \/ d.event = Len(s) + 1 /\ f = d.flags
  \/ /\ d.event \in DOMAIN s /\ Runs(s[d.event]) /\ s[d.event].event = d.event
     /\ f = s[d.event].flags /\ ~d.trusted

(* A dispatch is pushed.                                                   *)
LEMMA PushKeeps ==
  ASSUME NEW s \in Seq(Work), NEW registered, StackKept(s, registered), MayPush(s),
         NEW d \in Work, NEW f, DispatchKept(d, f, registered), Joins(s, d, f)
  PROVE  /\ Append(s, d) \in Seq(Work) /\ StackKept(Append(s, d), registered)
         /\ DOMAIN Append(s, d) = DOMAIN s \cup {Len(s) + 1} /\ Append(s, d)[Len(s) + 1] = d
         /\ \A i \in DOMAIN s : Append(s, d)[i] = s[i]
<1>0. PICK t : t = Append(s, d)
  OBVIOUS
<1>1. PICK n \in Nat : n = Len(s) /\ DOMAIN s = 1 .. n
  BY SeqEntries
<1>2. /\ t \in Seq(Work) /\ Len(t) = n + 1 /\ DOMAIN t = DOMAIN s \cup {n + 1}
      /\ (\A j \in DOMAIN s : t[j] = s[j]) /\ t[n + 1] = d
  BY <1>0, <1>1, SeqAdd
<1>3. ASSUME NEW i \in DOMAIN s
      PROVE  Placed(t, i) /\ DispatchKept(t[i], t[t[i].event].flags, registered)
  <2>1. PICK j \in DOMAIN s : j = s[i].event
    BY StackIs
  <2>2. /\ i \in Nat /\ Placed(s, i) /\ DispatchKept(s[i], s[j].flags, registered)
    BY <2>1, StackIs
  <2>3. t[i] = s[i] /\ t[j] = s[j]
    BY <1>2
  <2>4. i = n => Runs(s[i]) \/ Over(s[i])
    <3>1. i = n => s # <<>>
      BY EmptySeq
    <3>2. QED
      BY <1>1, <3>1 DEF MayPush
  <2>5. Placed(t, i)
    BY <1>1, <2>1, <2>2, <2>3, <2>4 DEF Placed
  <2>6. QED
    BY <2>1, <2>2, <2>3, <2>5
<1>4. Placed(t, n + 1) /\ DispatchKept(t[n + 1], t[t[n + 1].event].flags, registered)
  <2> DEFINE k == d.event
  <2>1. CASE k = n + 1 /\ f = d.flags
    <3>1. k \in 1 .. n + 1
      BY <2>1
    <3>2. QED
      BY <1>2, <2>1, <3>1 DEF Placed
  <2>2. CASE k \in DOMAIN s /\ Runs(s[k]) /\ s[k].event = k /\ f = s[k].flags /\ ~d.trusted
    <3>1. k \in 1 .. n + 1 /\ t[k] = s[k]
      BY <1>1, <1>2, <2>2
    <3>2. QED
      BY <1>2, <2>2, <3>1 DEF Placed
  <2>3. QED
    BY <1>1, <2>1, <2>2 DEF Joins
<1>5. StackKept(t, registered)
  BY <1>1, <1>2, <1>3, <1>4 DEF StackKept
<1>6. QED
  BY <1>0, <1>1, <1>2, <1>5

(* Dispatches of new events are pushed, of which the last is at work.      *)
LEMMA PushAllKeeps ==
  ASSUME NEW s \in Seq(Work), NEW registered, StackKept(s, registered), MayPush(s),
         NEW q \in Seq(Work),
         \A k \in DOMAIN q : /\ q[k].event = Len(s) + k /\ q[k].visit.phase = "none"
                             /\ DispatchKept(q[k], q[k].flags, registered),
         NEW t, t = s \o q
  PROVE  t \in Seq(Work) /\ StackKept(t, registered)
<1>1. PICK n \in Nat, m \in Nat : n = Len(s) /\ DOMAIN s = 1 .. n /\ m = Len(q) /\ DOMAIN q = 1 .. m
  BY SeqEntries
<1>2. /\ t \in Seq(Work) /\ Len(t) = n + m /\ DOMAIN t = 1 .. n + m
      /\ \A i \in DOMAIN s : t[i] = s[i]
      /\ \A i \in DOMAIN q : n + i \in DOMAIN t /\ t[n + i] = q[i]
      /\ \A i \in DOMAIN t : i \in DOMAIN s \/ i - n \in DOMAIN q
  BY <1>1, SeqJoin
<1>3. ASSUME NEW i \in DOMAIN s
      PROVE  Placed(t, i) /\ DispatchKept(t[i], t[t[i].event].flags, registered)
  <2>1. PICK j \in DOMAIN s : j = s[i].event
    BY StackIs
  <2>2. /\ i \in Nat /\ Placed(s, i) /\ DispatchKept(s[i], s[j].flags, registered)
    BY <2>1, StackIs
  <2>3. t[i] = s[i] /\ t[j] = s[j]
    BY <1>2
  <2>4. i = n => Runs(s[i]) \/ Over(s[i])
    <3>1. i = n => s # <<>>
      BY EmptySeq
    <3>2. QED
      BY <1>1, <3>1 DEF MayPush
  <2>5. Placed(t, i)
    BY <1>1, <2>1, <2>2, <2>3, <2>4 DEF Placed
  <2>6. QED
    BY <2>1, <2>2, <2>3, <2>5
<1>4. ASSUME NEW i \in DOMAIN t, i - n \in DOMAIN q
      PROVE  Placed(t, i) /\ DispatchKept(t[i], t[t[i].event].flags, registered)
  <2>1. PICK k \in DOMAIN q : k = i - n
    BY <1>4
  <2>2. k \in Nat /\ i \in Nat /\ i = n + k /\ i \in 1 .. i
    BY <1>1, <1>2, <2>1
  <2>3. t[i] = q[k] /\ t[i].event = i
    BY <1>1, <1>2, <2>2
  <2>4. QED
    BY <2>2, <2>3 DEF Placed
<1>5. QED
  BY <1>2, <1>3, <1>4 DEF StackKept

(* The dispatch on top is popped.                                          *)
LEMMA PopKeeps ==
  ASSUME NEW s \in Seq(Work), s # <<>>, NEW registered, StackKept(s, registered),
         NEW t, t = Front(s)
  PROVE  /\ t \in Seq(Work) /\ StackKept(t, registered)
         /\ DOMAIN s = DOMAIN t \cup {Len(s)} /\ \A i \in DOMAIN t : t[i] = s[i]
<1>1. PICK n \in Nat : n = Len(s) /\ DOMAIN s = 1 .. n /\ n >= 1
  BY SeqEntries, EmptySeq
<1>2. /\ t \in Seq(Work) /\ Len(t) = n - 1 /\ DOMAIN t = 1 .. n - 1
      /\ \A i \in 1 .. n - 1 : t[i] = s[i]
  BY <1>1 DEF Front
<1>3. ASSUME NEW i \in DOMAIN t
      PROVE  Placed(t, i) /\ DispatchKept(t[i], t[t[i].event].flags, registered)
  <2>1. i \in DOMAIN s /\ i # n
    BY <1>1, <1>2
  <2>2. PICK j \in DOMAIN s : j = s[i].event
    BY <2>1, StackIs
  <2>3. /\ i \in Nat /\ j \in Nat /\ j <= i /\ j >= 1 /\ Placed(s, i)
        /\ DispatchKept(s[i], s[j].flags, registered)
    BY <2>1, <2>2, StackIs
  <2>4. t[i] = s[i] /\ t[j] = s[j]
    BY <1>1, <1>2, <2>3
  <2>5. Placed(t, i)
    BY <1>1, <2>1, <2>2, <2>3, <2>4 DEF Placed
  <2>6. QED
    BY <2>2, <2>3, <2>4, <2>5
<1>4. QED
  BY <1>1, <1>2, <1>3 DEF StackKept

\* Every dispatch of t is where the one of s is, and on the same way.
SameWays(s, t) ==
  /\ Len(t) = Len(s)
  /\ \A i \in DOMAIN s : /\ t[i].event = s[i].event /\ t[i].trusted = s[i].trusted
                         /\ t[i].type = s[i].type /\ t[i].visit = s[i].visit
                         /\ t[i].visits = s[i].visits /\ t[i].list = s[i].list
                         /\ t[i].running = s[i].running

(* What dispatches owe and avoid changes.                                  *)
LEMMA WaysKeep ==
  ASSUME NEW s \in Seq(Work), NEW registered, StackKept(s, registered), NEW now,
         NEW t \in Seq(Work), SameWays(s, t),
         \A i \in DOMAIN s : DispatchKept(t[i], t[s[i].event].flags, now)
  PROVE  StackKept(t, now)
<1>1. DOMAIN t = DOMAIN s /\ Len(t) = Len(s)
  BY SeqEntries DEF SameWays
<1>2. ASSUME NEW i \in DOMAIN s
      PROVE  Placed(t, i) /\ DispatchKept(t[i], t[t[i].event].flags, now)
  <2>1. PICK j \in DOMAIN s : j = s[i].event
    BY StackIs
  <2>2. Placed(s, i)
    BY StackIs
  <2>3. Placed(t, i)
    BY <1>1, <2>1, <2>2 DEF Placed, SameWays, Runs, Over
  <2>4. QED
    BY <2>1, <2>3 DEF SameWays
<1>3. QED
  BY <1>1, <1>2 DEF StackKept

\* What a focus change has pushed in s and not begun, t has too.
Pending(d) == d.trusted /\ d.visit.phase = "none"
Follows(s, t) ==
  \A i \in DOMAIN s : Pending(s[i]) => /\ i \in DOMAIN t /\ Pending(t[i])
                                       /\ t[i].type = s[i].type /\ t[i].visit = s[i].visit

(* Then the focus is as much on its way as it was.                         *)
LEMMA FocusFollows ==
  ASSUME NEW s, NEW t, Follows(s, t), Follows(t, s), NEW who, NEW now, FocusKept(s, who, now)
  PROVE  FocusKept(t, who, now)
<1>1. ASSUME NEW type
      PROVE  Waiting(t, type) = Waiting(s, type) /\ Coming(t, type) = Coming(s, type)
  <2>1. Waiting(t, type) = Waiting(s, type)
    BY DEF Waiting, Follows, Pending
  <2>2. \A i \in Waiting(s, type) : t[i].visit = s[i].visit
    BY DEF Waiting, Follows, Pending
  <2>3. QED
    BY <2>1, <2>2 DEF Coming
<1>2. QED
  BY <1>1 DEF FocusKept

-----------------------------------------------------------------------------
(* The steps of a dispatch                                                 *)

(* The dispatch at work.                                                   *)
LEMMA AtWork ==
  ASSUME Inv, ~InScript
  PROVE  /\ stack \in Seq(Work) /\ stack # <<>> /\ Len(stack) \in DOMAIN stack
         /\ Top = stack[Len(stack)] /\ Top \in Work /\ ~Runs(Top)
         /\ stack[Top.event].flags \in Flags
         /\ DispatchKept(Top, stack[Top.event].flags, Registered)
<1>1. stack # <<>> /\ Len(stack) \notin Running
  BY DEF InScript
<1>2. stack \in Seq(Work) /\ StackKept(stack, Registered)
  BY DEF Inv, Shape
<1>3. Len(stack) \in DOMAIN stack
  BY <1>1, <1>2, SeqEntries, EmptySeq
<1>4. PICK n \in DOMAIN stack : n = Len(stack)
  BY <1>3
<1>5. /\ stack[n] \in Work /\ stack[stack[n].event].flags \in Flags
      /\ DispatchKept(stack[n], stack[stack[n].event].flags, Registered)
  BY <1>2, StackIs
<1>6. Top = stack[n]
  BY <1>4 DEF Top
<1>7. ~Runs(Top)
  BY <1>1, <1>3 DEF Running, Top, Runs
<1>8. QED
  BY <1>1, <1>2, <1>3, <1>4, <1>5, <1>6, <1>7

(* Steps that change nothing but the stack, and begin no event of a focus  *)
(* change.                                                                 *)
LEMMA StackOnly ==
  ASSUME Inv, UNCHANGED <<registry, collected, focus>>,
         stack' \in Seq(Work), StackKept(stack', Registered),
         Follows(stack, stack'), Follows(stack', stack)
  PROVE  Inv'
<1>1. /\ listeners' = listeners /\ handlers' = handlers /\ roots' = roots /\ collected' = collected
      /\ focused' = focused /\ told' = told /\ tangled' = tangled
  BY DEF registry, focus
<1>2. Registered' = Registered /\ Listening' = Listening
  BY <1>1 DEF Registered, Listening
<1>3. PICK s, t, who, now : s = stack /\ t = stack' /\ who = told /\ now = focused
  OBVIOUS
<1>4. FocusKept(s, who, now) => FocusKept(t, who, now)
  BY <1>3, FocusFollows
<1>5. Shape'
  BY <1>1 DEF Inv, Shape
<1>6. StackKept(stack', Registered')
  BY <1>2
<1>7. RootsKept(roots', Registered')
  BY <1>1, <1>2 DEF Inv
<1>8. AliveKept'
  BY <1>1, <1>2 DEF Inv, AliveKept
<1>9. tangled' \/ FocusKept(stack', told', focused')
  BY <1>1, <1>3, <1>4 DEF Inv
<1>10. QED
  BY <1>5, <1>6, <1>7, <1>8, <1>9 DEF Inv

(* The dispatch on top changes, and is not a new one.                      *)
LEMMA TopOnly ==
  ASSUME Inv, stack # <<>>, UNCHANGED <<registry, collected, focus>>,
         NEW e \in Work, SetTop(e), SameEvent(e, Top),
         DispatchKept(e, stack[Top.event].flags, Registered),
         e.visit = Top.visit \/ (e.visit.phase # "none" /\ Top.visit.phase # "none")
  PROVE  Inv'
<1>1. PICK s, t, n, registered :
        s = stack /\ t = stack' /\ n = Len(stack) /\ registered = Registered
  OBVIOUS
<1>2. s \in Seq(Work) /\ StackKept(s, registered) /\ s # <<>> /\ n = Len(s)
  BY <1>1 DEF Inv, Shape
<1>3. t = [s EXCEPT ![n] = e] /\ Top = s[n]
  BY <1>1 DEF SetTop, Top
<1>4. SameEvent(e, s[n]) /\ DispatchKept(e, s[s[n].event].flags, registered)
  BY <1>1, <1>3
<1>5. /\ t \in Seq(Work) /\ StackKept(t, registered)
      /\ DOMAIN t = DOMAIN s /\ n \in DOMAIN s /\ t[n] = e
      /\ \A i \in DOMAIN s : i # n => t[i] = s[i]
  BY ONLY e \in Work, <1>2, <1>3, <1>4, TopKeeps
<1>6. ASSUME NEW i \in DOMAIN s
      PROVE  /\ t[i].trusted = s[i].trusted /\ t[i].type = s[i].type
             /\ t[i].visit = s[i].visit \/ (t[i].visit.phase # "none" /\ s[i].visit.phase # "none")
  BY <1>3, <1>4, <1>5 DEF SameEvent
<1>7. Follows(s, t) /\ Follows(t, s)
  BY <1>5, <1>6 DEF Follows, Pending
<1>8. QED
  BY <1>1, <1>5, <1>7, StackOnly

LEMMA ArriveStep ==
  ASSUME Inv, Arrive
  PROVE  Inv'
<1>1. ~InScript /\ Top.list = <<>> /\ Top.visit.phase # "none"
  BY DEF Arrive, Chooses
<1>2. PICK d \in Work, f \in Flags : d = Top /\ f = stack[Top.event].flags
  BY <1>1, AtWork
<1>3. DispatchKept(d, f, Registered) /\ ~Runs(d) /\ stack # <<>> /\ Shape
  BY <1>1, <1>2, AtWork DEF Inv
<1>4. PICK e : e = Arrived(d)
  OBVIOUS
<1>5. /\ e \in Work /\ DispatchKept(e, f, Registered) /\ e.visit.phase # "none" /\ SameEvent(e, d)
  BY <1>1, <1>2, <1>3, <1>4, ArrivedKeeps DEF SameEvent
<1>6. SetTop(e) /\ UNCHANGED <<registry, collected, focus>>
  BY <1>2, <1>4 DEF Arrive
<1>7. QED
  BY <1>1, <1>2, <1>3, <1>5, <1>6, TopOnly

LEMMA CallStep ==
  ASSUME Inv, CallListener
  PROVE  Inv'
<1>1. ~InScript /\ Top.list # <<>>
  BY DEF CallListener
<1>2. PICK d \in Work, f \in Flags : d = Top /\ f = stack[Top.event].flags
  BY <1>1, AtWork
<1>3. DispatchKept(d, f, Registered) /\ ~Runs(d) /\ stack # <<>>
  BY <1>1, <1>2, AtWork
<1>4. PICK l, e : l = Head(d.list) /\ e = Called(d, l)
  OBVIOUS
<1>5. /\ e \in Work /\ DispatchKept(e, f, Registered) /\ e.visit = d.visit /\ SameEvent(e, d)
  BY <1>1, <1>2, <1>3, <1>4, CallKeeps DEF SameEvent
<1>6. SetTop(e) /\ UNCHANGED <<registry, collected, focus>>
  BY <1>2, <1>4 DEF CallListener, Called
<1>7. QED
  BY <1>2, <1>3, <1>5, <1>6, TopOnly

LEMMA ReturnStep ==
  ASSUME Inv, Returns
  PROVE  Inv'
<1>1. Len(stack) \in DOMAIN stack /\ Runs(stack[Len(stack)])
  BY DEF Returns, Running, Runs
<1>2. stack \in Seq(Work) /\ StackKept(stack, Registered)
  BY DEF Inv, Shape
<1>3. PICK n \in DOMAIN stack : n = Len(stack)
  BY <1>1
<1>4. PICK d \in Work, f \in Flags : d = stack[n] /\ f = stack[stack[n].event].flags
  BY <1>2, StackIs
<1>5. d = Top /\ Runs(d) /\ DispatchKept(d, f, Registered) /\ stack # <<>>
  BY <1>1, <1>2, <1>3, <1>4, StackIs, EmptySeq DEF Top
<1>6. PICK e : e = Returned(d, f)
  OBVIOUS
<1>7. /\ e \in Work /\ DispatchKept(e, f, Registered) /\ e.visit = d.visit /\ SameEvent(e, d)
  BY <1>5, <1>6, ReturnKeeps DEF SameEvent
<1>8. SetTop(e)
  <2>1. PICK r : r = [d EXCEPT !.running = NoCallback]
    OBVIOUS
  <2>2. r.visit = d.visit /\ r.visits = d.visits
    BY <2>1 DEF Work
  <2>3. e = IF ~f.stop \/ r.visit.phase = "attribute" THEN r
            ELSE IF f.now THEN [r EXCEPT !.list = <<>>, !.visits = <<>>]
            ELSE IF r.visit.phase = "target"
            THEN [r EXCEPT !.visits = Only(@, {v \in ToSet(@) : v.phase = "attribute"})]
            ELSE [r EXCEPT !.visits = <<>>]
    BY <1>6, <2>1, <2>2 DEF Work, Returned
  <2>4. QED
    BY <1>3, <1>4, <1>5, <2>1, <2>3 DEF Returns
<1>9. UNCHANGED <<registry, collected, focus>>
  BY DEF Returns
<1>10. QED
  BY <1>3, <1>4, <1>5, <1>7, <1>8, <1>9, TopOnly

LEMMA EndStep ==
  ASSUME Inv, End
  PROVE  Inv'
<1>1. stack # <<>> /\ Over(Top) /\ UNCHANGED <<registry, collected, focus>>
  BY DEF End
<1>2. PICK s, t, n, registered :
        s = stack /\ t = stack' /\ n = Len(stack) /\ registered = Registered
  OBVIOUS
<1>3. s \in Seq(Work) /\ StackKept(s, registered) /\ s # <<>> /\ t = Front(s)
  BY <1>1, <1>2 DEF Inv, Shape, End
<1>4. /\ t \in Seq(Work) /\ StackKept(t, registered)
      /\ DOMAIN s = DOMAIN t \cup {n} /\ \A i \in DOMAIN t : t[i] = s[i]
  <2>1. n = Len(s)
    BY ONLY <1>2
  <2>2. QED
    BY ONLY <1>3, <2>1, PopKeeps
<1>5. ~Pending(s[n])
  <2>1. s[n] = Top /\ n \in DOMAIN s
    BY <1>2, <1>4 DEF Top
  <2>2. s[n].visit.phase = "none" => Waits(s[n])
    BY <1>3, <2>1 DEF StackKept, DispatchKept
  <2>3. QED
    BY <1>1, <2>1, <2>2 DEF Waits, Over, Pending
<1>6. Follows(s, t) /\ Follows(t, s)
  BY <1>4, <1>5 DEF Follows
<1>7. QED
  BY <1>1, <1>2, <1>4, <1>6, StackOnly

(* A dispatch begins: from now on the element has been told.               *)
LEMMA StartStep ==
  ASSUME Inv, Start
  PROVE  Inv'
<1>1. ~InScript /\ Top.list = <<>> /\ Top.visit.phase = "none"
  BY DEF Start, Chooses
<1>2. PICK d \in Work, f \in Flags : d = Top /\ f = stack[Top.event].flags
  BY <1>1, AtWork
<1>3. DispatchKept(d, f, Registered) /\ ~Runs(d) /\ stack # <<>> /\ Shape
  BY <1>1, <1>2, AtWork DEF Inv
<1>4. PICK due, c, e : /\ due = Due(Top) /\ c = [d EXCEPT !.due = due, !.visit.phase = "start"]
                       /\ e = Arrived(c)
  OBVIOUS
<1>5. Waits(d) /\ d.spent = {} /\ Itinerary(d) /\ d.visits \in Seq(Place) /\ ~d.wrong
      /\ d.list = <<>> /\ ToSet(d.list) = {}
  BY <1>1, <1>2, <1>3 DEF DispatchKept, Waits, SpentKept, Work, ToSet
<1>6. /\ due \subseteq Registered /\ (f # NoFlags => due = {})
      /\ \A l \in due : l.type = d.type /\ \E v \in ToSet(d.visits) : Fires(l, v)
  <2>1. ASSUME NEW l \in due
        PROVE  l \in Registered /\ l.type = d.type /\ \E v \in ToSet(d.visits) : Fires(l, v)
    <3>1. PICK phase \in Phases(l) : Visit(l.node, phase) \in ToSet(d.visits)
      BY <1>2, <1>4 DEF Due
    <3>2. Fires(l, Visit(l.node, phase))
      BY DEF Phases, Fires, Visit
    <3>3. QED
      BY <1>2, <1>4, <3>1, <3>2 DEF Due
  <2>2. f # NoFlags => due = {}
    BY <1>2, <1>4 DEF Due
  <2>3. QED
    BY <2>1, <2>2
<1>7. Registered \subseteq Listener
  <2>1. \A i \in DOMAIN listeners : listeners[i] \in Listener
    BY <1>3, SeqEntries DEF Shape
  <2>2. QED
    BY <2>1 DEF Registered, ToSet
<1>8. d.visit \in [node : Nodes, phase : Phase \cup {"none", "start"}]
  BY DEF Work
<1>9. /\ c \in Work /\ c.visits = d.visits /\ c.list = d.list /\ c.running = d.running
      /\ c.due = due /\ c.spent = {} /\ c.wrong = d.wrong /\ c.visit.phase = "start"
      /\ c.visit.node = d.visit.node /\ SameEvent(c, d)
  <2>1. PICK v : v = [d.visit EXCEPT !.phase = "start"]
    OBVIOUS
  <2>2. v \in [node : Nodes, phase : Phase \cup {"none", "start"}]
        /\ v.phase = "start" /\ v.node = d.visit.node
    BY <1>8, <2>1
  <2>3. c = [d EXCEPT !.due = due, !.visit = v]
    BY <1>4, <2>1 DEF Work
  <2>4. due \in SUBSET Listener
    BY <1>6, <1>7
  <2>5. c \in Work
    BY <2>2, <2>3, <2>4 DEF Work
  <2>6. QED
    BY <1>5, <2>2, <2>3, <2>5 DEF Work, SameEvent
<1>10. DispatchKept(c, f, Registered)
  <2>1. Itinerary(c)
    BY <1>5, <1>9 DEF Itinerary, Apart, Fires
  <2>2. DueKept(c, f, Registered)
    <3>1. f # NoFlags => c.due = {}
      BY <1>6, <1>9
    <3>2. f = NoFlags => ~f.stop /\ ~f.now
      BY DEF NoFlags
    <3>3. QED
      BY <1>6, <1>9, <3>1, <3>2, SameEvent(c, d) DEF DueKept, SameEvent
  <2>3. SpentKept(c, f)
    BY <1>5, <1>9 DEF SpentKept
  <2>4. QED
    BY <1>9, <2>1, <2>2, <2>3 DEF DispatchKept
<1>11. /\ e \in Work /\ DispatchKept(e, f, Registered) /\ e.visit.phase # "none" /\ SameEvent(e, d)
  <2>1. c.list = <<>> /\ ~Runs(c) /\ c.visit.phase # "none"
    BY <1>3, <1>5, <1>9 DEF Runs
  <2>2. /\ e \in Work /\ DispatchKept(e, f, Registered) /\ e.visit.phase # "none" /\ SameEvent(e, c)
    <3>1. c \in Work /\ e = Arrived(c)
      BY <1>4, <1>9
    <3>2. QED
      BY <1>3, <1>10, <2>1, <3>1, ArrivedKeeps DEF SameEvent
  <2>3. QED
    BY <1>9, <2>2 DEF SameEvent
<1>12. SetTop(e)
  BY <1>2, <1>4 DEF Start
<1>13. /\ UNCHANGED <<registry, collected>> /\ focused' = focused /\ tangled' = tangled
       /\ told' = IF ~d.trusted \/ tangled THEN told
                  ELSE IF d.type = "focus" THEN told \cup {d.visit.node}
                  ELSE IF d.type = "blur" THEN told \ {d.visit.node} ELSE told
  BY <1>2 DEF Start
<1>14. PICK s, t, n, registered :
         s = stack /\ t = stack' /\ n = Len(stack) /\ registered = Registered
  OBVIOUS
<1>15. s \in Seq(Work) /\ StackKept(s, registered) /\ s # <<>> /\ n = Len(s) /\ d = s[n]
       /\ t = [s EXCEPT ![n] = e]
  BY <1>2, <1>3, <1>12, <1>14 DEF Inv, Shape, Top, SetTop
<1>16. SameEvent(e, s[n]) /\ DispatchKept(e, s[s[n].event].flags, registered)
  BY <1>2, <1>11, <1>14, <1>15
<1>17. /\ t \in Seq(Work) /\ StackKept(t, registered)
       /\ DOMAIN t = DOMAIN s /\ n \in DOMAIN s /\ t[n] = e
       /\ \A i \in DOMAIN s : i # n => t[i] = s[i]
  <2>1. e \in Work
    BY <1>11
  <2>2. QED
    BY ONLY <2>1, <1>15, <1>16, TopKeeps
<1>18. tangled' \/ FocusKept(t, told', focused')
  <2>1. SUFFICES ASSUME ~tangled
                 PROVE  FocusKept(t, told', focused)
    BY <1>13
  <2>2. PICK who, now, next : who = told /\ now = focused /\ next = told'
    OBVIOUS
  <2>3. FocusKept(s, who, now)
    BY <1>14, <2>1, <2>2 DEF Inv
  <2>4. CASE ~d.trusted
    <3>1. Follows(s, t) /\ Follows(t, s)
      <4>1. ~Pending(s[n]) /\ ~Pending(t[n])
        BY <1>15, <1>16, <1>17, <2>4 DEF Pending, SameEvent
      <4>2. QED
        BY <1>17, <4>1 DEF Follows
    <3>2. next = who
      BY <1>13, <2>2, <2>4
    <3>3. FocusKept(t, who, now)
      BY <2>3, <3>1, FocusFollows
    <3>4. QED
      BY <2>2, <3>2, <3>3
  <2>5. CASE d.trusted
    <3>1. next = IF d.type = "focus" THEN who \cup {d.visit.node}
                 ELSE IF d.type = "blur" THEN who \ {d.visit.node} ELSE who
      BY <1>13, <2>1, <2>2, <2>5
    <3>2. ASSUME NEW type
          PROVE  /\ Waiting(t, type) = Waiting(s, type) \ {n}
                 /\ n \in Waiting(s, type) <=> type = d.type
                 /\ \A i \in Waiting(t, type) : t[i] = s[i]
      BY <1>1, <1>2, <1>11, <1>15, <1>17, <2>5 DEF Waiting
    <3>3. ASSUME NEW type
          PROVE  /\ Coming(t, type) \subseteq Coming(s, type)
                 /\ Coming(s, type) = IF type = d.type THEN Coming(t, type) \cup {d.visit.node}
                                      ELSE Coming(t, type)
      <4>1. Coming(t, type) = {s[i].visit.node : i \in Waiting(t, type)}
        BY <3>2 DEF Coming
      <4>2. Coming(s, type) = {s[i].visit.node : i \in Waiting(s, type)}
        BY DEF Coming
      <4>3. CASE type = d.type
        <5>1. Waiting(s, type) = Waiting(t, type) \cup {n}
          BY <3>2, <4>3
        <5>2. \A x : x \in Coming(s, type) <=> \E i \in Waiting(s, type) : x = s[i].visit.node
          BY <4>2
        <5>3. \A x : x \in Coming(t, type) <=> \E i \in Waiting(t, type) : x = s[i].visit.node
          BY <4>1
        <5>4. s[n].visit.node = d.visit.node
          BY <1>15
        <5>5. \A x : x \in Coming(s, type) <=> x \in Coming(t, type) \/ x = d.visit.node
          BY <5>1, <5>2, <5>3, <5>4
        <5>6. QED
          BY <4>3, <5>5
      <4>4. CASE type # d.type
        <5>1. Waiting(s, type) = Waiting(t, type)
          BY <3>2, <4>4
        <5>2. QED
          BY <4>1, <4>2, <4>4, <5>1
      <4>5. QED
        BY <4>3, <4>4
    <3>4. \A i \in Waiting(t, "focus"), j \in Waiting(t, "blur") : i < j
      BY <2>3, <3>2 DEF FocusKept
    <3>5. d.type = "focus" => Coming(s, "blur") = {}
      <4>1. SUFFICES ASSUME d.type = "focus", NEW j \in Waiting(s, "blur")
                     PROVE  FALSE
        BY DEF Coming
      <4>2. n < j
        BY <2>3, <3>2, <4>1 DEF FocusKept
      <4>3. j \in DOMAIN s
        BY DEF Waiting
      <4>4. QED
        BY <1>15, <4>2, <4>3, SeqEntries
    <3>6. (who \ Coming(s, "blur")) \cup Coming(s, "focus") = {now} \ {NoNode}
      BY <2>3 DEF FocusKept
    <3>7. (next \ Coming(t, "blur")) \cup Coming(t, "focus") = {now} \ {NoNode}
      <4>1. CASE d.type = "focus"
        BY <3>1, <3>3, <3>5, <3>6, <4>1
      <4>2. CASE d.type = "blur"
        <5>1. "blur" # "focus"
          OBVIOUS
        <5>2. Coming(s, "blur") = Coming(t, "blur") \cup {d.visit.node} /\ Coming(t, "focus") = Coming(s, "focus")
          BY <3>3, <4>2, <5>1
        <5>3. next = who \ {d.visit.node}
          BY <3>1, <4>2
        <5>4. QED
          BY <3>6, <5>2, <5>3
      <4>3. CASE d.type # "focus" /\ d.type # "blur"
        BY <3>1, <3>3, <3>6, <4>3
      <4>4. QED
        BY <4>1, <4>2, <4>3
    <3>8. QED
      BY <2>2, <3>4, <3>7 DEF FocusKept
  <2>6. QED
    BY <2>4, <2>5
<1>19. Registered' = Registered /\ Listening' = Listening /\ roots' = roots /\ collected' = collected
       /\ listeners' = listeners /\ handlers' = handlers
  BY <1>13 DEF Registered, Listening, registry
<1>20. told' \subseteq Nodes
  BY <1>3, <1>8, <1>13 DEF Shape
<1>21. Shape'
  BY <1>3, <1>13, <1>14, <1>17, <1>19, <1>20 DEF Shape
<1>22. RootsKept(roots', Registered') /\ AliveKept'
  BY <1>19 DEF Inv, AliveKept
<1>23. QED
  BY <1>14, <1>17, <1>18, <1>19, <1>21, <1>22 DEF Inv

-----------------------------------------------------------------------------
(* The listeners                                                           *)

(* They are finitely many, no more than the list is long.                  *)
LEMMA ListenersAre ==
  ASSUME NEW s \in Seq(Listener), NEW registered, registered = ToSet(s)
  PROVE  /\ registered \subseteq Listener
         /\ \A cb : /\ IsFiniteSet(Of(cb, registered)) /\ Cardinality(Of(cb, registered)) \in Nat
                    /\ Cardinality(Of(cb, registered)) <= Len(s)
<1>1. PICK n \in Nat : n = Len(s) /\ DOMAIN s = 1 .. n
  BY SeqEntries
<1>2. \A i \in DOMAIN s : s[i] \in Listener
  BY SeqEntries
<1>3. registered \subseteq Listener
  BY <1>2 DEF ToSet
<1>4. s \in [1 .. n -> registered]
  <2>1. s \in [1 .. n -> Listener]
    BY <1>1, LenProperties
  <2>2. \A i \in 1 .. n : s[i] \in registered
    BY <1>1 DEF ToSet
  <2>3. QED
    BY <2>1, <2>2
<1>5. s \in Surjection(1 .. n, registered)
  BY <1>1, <1>4 DEF Surjection, ToSet
<1>6. IsFiniteSet(1 .. n) /\ Cardinality(1 .. n) = n
  <2>1. /\ IsFiniteSet(1 .. n)
        /\ Cardinality(1 .. n) = IF 1 > n THEN 0 ELSE n - 1 + 1
    BY FS_Interval
  <2>2. QED
    BY <2>1
<1>7. IsFiniteSet(registered) /\ Cardinality(registered) <= n
  BY <1>5, <1>6, FS_Surjection
<1>8. ASSUME NEW cb
      PROVE  /\ IsFiniteSet(Of(cb, registered)) /\ Cardinality(Of(cb, registered)) \in Nat
             /\ Cardinality(Of(cb, registered)) <= n
  <2>1. Of(cb, registered) \in SUBSET registered
    BY DEF Of
  <2>2. IsFiniteSet(Of(cb, registered)) /\ Cardinality(Of(cb, registered)) <= Cardinality(registered)
    BY <1>7, <2>1, FS_Subset
  <2>3. Cardinality(Of(cb, registered)) \in Nat /\ Cardinality(registered) \in Nat
    BY <1>7, <2>2, FS_CardinalityType
  <2>4. QED
    BY <1>7, <2>2, <2>3
<1>9. QED
  BY <1>1, <1>3, <1>8

(* A registration is counted.                                              *)
LEMMA RootedKeeps ==
  ASSUME NEW counts \in [Callbacks -> Nat], NEW s \in Seq(Listener), NEW registered,
         registered = ToSet(s), RootsKept(counts, registered),
         NEW l \in Listener, l \notin registered,
         NEW more, more = registered \cup {l},
         NEW after, after = [counts EXCEPT ![l.callback] = @ + 1]
  PROVE  after \in [Callbacks -> Nat] /\ RootsKept(after, more)
<1>1. l.callback \in Callbacks
  BY DEF Listener
<1>2. after \in [Callbacks -> Nat]
  BY <1>1
<1>3. ASSUME NEW cb \in Callbacks
      PROVE  after[cb] = Cardinality(Of(cb, more))
  <2>1. counts[cb] = Cardinality(Of(cb, registered)) /\ IsFiniteSet(Of(cb, registered))
    BY ListenersAre DEF RootsKept
  <2>2. CASE cb = l.callback
    <3>1. Of(cb, more) = Of(cb, registered) \cup {l} /\ l \notin Of(cb, registered)
      BY <2>2 DEF Of
    <3>2. Cardinality(Of(cb, more)) = Cardinality(Of(cb, registered)) + 1
      BY <2>1, <3>1, FS_AddElement
    <3>3. after[cb] = counts[cb] + 1
      BY <2>2
    <3>4. QED
      BY <2>1, <3>2, <3>3
  <2>3. CASE cb # l.callback
    <3>1. Of(cb, more) = Of(cb, registered)
      BY <2>3 DEF Of
    <3>2. after[cb] = counts[cb]
      BY <2>3
    <3>3. QED
      BY <2>1, <3>1, <3>2
  <2>4. QED
    BY <2>2, <2>3
<1>4. QED
  BY <1>2, <1>3 DEF RootsKept

(* So is a removal.                                                        *)
LEMMA UnrootedKeeps ==
  ASSUME NEW counts \in [Callbacks -> Nat], NEW s \in Seq(Listener), NEW registered,
         registered = ToSet(s), RootsKept(counts, registered),
         NEW l \in registered, NEW less, less = registered \ {l},
         NEW after, after = [counts EXCEPT ![l.callback] = IF @ > 0 THEN @ - 1 ELSE 0]
  PROVE  after \in [Callbacks -> Nat] /\ RootsKept(after, less)
<1>1. l \in Listener /\ l.callback \in Callbacks
  <2>1. registered \subseteq Listener
    BY ListenersAre
  <2>2. QED
    BY <2>1 DEF Listener
<1>2. after \in [Callbacks -> Nat]
  BY <1>1
<1>3. ASSUME NEW cb \in Callbacks
      PROVE  after[cb] = Cardinality(Of(cb, less))
  <2>1. counts[cb] = Cardinality(Of(cb, registered)) /\ IsFiniteSet(Of(cb, registered))
    BY ListenersAre DEF RootsKept
  <2>2. CASE cb = l.callback
    <3>1. Of(cb, less) = Of(cb, registered) \ {l} /\ l \in Of(cb, registered)
      BY <2>2 DEF Of
    <3>2. Cardinality(Of(cb, less)) = Cardinality(Of(cb, registered)) - 1
      BY ONLY <2>1, <3>1, FS_RemoveElement
    <3>3. counts[cb] # 0
      BY <2>1, <3>1, FS_EmptySet
    <3>4. counts[cb] \in Nat /\ counts[cb] > 0
      BY <3>3
    <3>5. after[cb] = counts[cb] - 1
      BY <2>2, <3>4
    <3>6. QED
      BY <2>1, <3>2, <3>5
  <2>3. CASE cb # l.callback
    <3>1. Of(cb, less) = Of(cb, registered)
      BY <2>3 DEF Of
    <3>2. after[cb] = counts[cb]
      BY <2>3
    <3>3. QED
      BY <2>1, <3>1, <3>2
  <2>4. QED
    BY <2>2, <2>3
<1>4. QED
  BY <1>2, <1>3 DEF RootsKept

-----------------------------------------------------------------------------
(* The calls of scripts                                                    *)

LEMMA AddStep ==
  ASSUME Inv, NEW l \in Listener, AddEventListener(l)
  PROVE  Inv'
<1>1. /\ l.callback \notin collected /\ handlers' = handlers /\ collected' = collected
      /\ stack' = stack /\ focused' = focused /\ told' = told /\ tangled' = tangled
  BY DEF AddEventListener, focus
<1>2. CASE l \in Registered
  <2>1. listeners' = listeners /\ roots' = roots
    BY <1>2 DEF AddEventListener
  <2>2. UNCHANGED <<registry, collected, focus>>
    BY <1>1, <2>1 DEF registry, focus
  <2>3. stack' \in Seq(Work) /\ StackKept(stack', Registered)
    BY <1>1 DEF Inv, Shape
  <2>4. Follows(stack, stack') /\ Follows(stack', stack)
    BY <1>1 DEF Follows
  <2>5. QED
    BY <2>2, <2>3, <2>4, StackOnly
<1>3. CASE l \notin Registered
  <2>1. /\ Len(listeners) < MaxListeners /\ listeners' = Append(listeners, l)
        /\ roots' = [roots EXCEPT ![l.callback] = @ + 1]
    BY <1>3 DEF AddEventListener, Rooted
  <2>2. PICK s, t, registered, more, counts, after :
          /\ s = listeners /\ t = listeners' /\ registered = Registered /\ more = Registered'
          /\ counts = roots /\ after = roots'
    OBVIOUS
  <2>3. /\ s \in Seq(Listener) /\ IsInjective(s) /\ Len(s) < MaxListeners /\ t = Append(s, l)
        /\ registered = ToSet(s) /\ more = ToSet(t) /\ l \notin registered
        /\ counts \in [Callbacks -> Nat] /\ RootsKept(counts, registered)
        /\ after = [counts EXCEPT ![l.callback] = @ + 1]
    BY <1>3, <2>1, <2>2 DEF Inv, Shape, Registered
  <2>4. /\ t \in Seq(Listener) /\ Len(t) = Len(s) + 1 /\ DOMAIN t = DOMAIN s \cup {Len(s) + 1}
        /\ (\A j \in DOMAIN s : t[j] = s[j]) /\ t[Len(s) + 1] = l
    BY <2>3, SeqAdd
  <2>5. more = registered \cup {l}
    BY <2>3, <2>4 DEF ToSet
  <2>6. IsInjective(t)
    BY <2>3, <2>4 DEF IsInjective, ToSet
  <2>7. Len(t) <= MaxListeners
    <3>1. Len(s) \in Nat /\ MaxListeners \in Nat
      BY <2>3, SeqEntries, DomEventsAssumption
    <3>2. QED
      BY <2>3, <2>4, <3>1
  <2>8. after \in [Callbacks -> Nat] /\ RootsKept(after, more)
    BY <2>3, <2>5, RootedKeeps
  <2>9. Shape'
    BY <1>1, <2>2, <2>4, <2>6, <2>7, <2>8 DEF Inv, Shape
  <2>10. StackKept(stack', more)
    <3>1. \A d, f : DueKept(d, f, registered) => DueKept(d, f, more)
      BY <2>5 DEF DueKept
    <3>2. \A d, f : DispatchKept(d, f, registered) => DispatchKept(d, f, more)
      BY <3>1 DEF DispatchKept
    <3>3. StackKept(stack, registered)
      BY <2>2 DEF Inv
    <3>4. QED
      BY <1>1, <3>2, <3>3 DEF StackKept
  <2>11. AliveKept'
    <3>1. Listening' = Listening \cup {l.callback}
      <4>1. Listening = {k.callback : k \in registered} /\ Listening' = {k.callback : k \in more}
        BY <2>2 DEF Listening
      <4>2. QED
        BY <2>5, <4>1
    <3>2. QED
      BY <1>1, <3>1 DEF Inv, AliveKept
  <2>12. QED
    BY <1>1, <2>2, <2>8, <2>9, <2>10, <2>11 DEF Inv
<1>4. QED
  BY <1>2, <1>3

(* A dispatch that owes a call to a listener that is removed is released.  *)
LEMMA ReleaseKeeps ==
  ASSUME NEW d \in Work, NEW f, NEW registered, DispatchKept(d, f, registered), NEW l,
         NEW less, less = registered \ {l}, NEW e, e = [d EXCEPT !.due = @ \ {l}]
  PROVE  /\ e \in Work /\ DispatchKept(e, f, less)
         /\ e.event = d.event /\ e.flags = d.flags /\ e.trusted = d.trusted /\ e.type = d.type
         /\ e.visit = d.visit /\ e.visits = d.visits /\ e.list = d.list /\ e.running = d.running
<1>1. d.due \ {l} \in SUBSET Listener
  BY DEF Work
<1>2. e \in Work
  BY <1>1 DEF Work
<1>3. /\ e.due = d.due \ {l} /\ e.spent = d.spent /\ e.wrong = d.wrong
      /\ e.event = d.event /\ e.flags = d.flags /\ e.trusted = d.trusted /\ e.type = d.type
      /\ e.visit = d.visit /\ e.visits = d.visits /\ e.list = d.list /\ e.running = d.running
  BY DEF Work
<1>4. Itinerary(e) /\ (Waits(d) => Waits(e)) /\ SpentKept(e, f)
  BY <1>3 DEF DispatchKept, Itinerary, Waits, Runs, SpentKept, Leaves
<1>5. DueKept(e, f, less)
  BY <1>3 DEF DispatchKept, DueKept
<1>6. QED
  BY <1>2, <1>3, <1>4, <1>5 DEF DispatchKept

LEMMA RemoveStep ==
  ASSUME Inv, NEW l \in Listener, RemoveEventListener(l)
  PROVE  Inv'
<1>1. /\ l \in Registered /\ handlers' = handlers /\ collected' = collected
      /\ focused' = focused /\ told' = told /\ tangled' = tangled
      /\ listeners' = Only(listeners, Registered \ {l})
      /\ roots' = [roots EXCEPT ![l.callback] = IF @ > 0 THEN @ - 1 ELSE 0]
      /\ stack' = [i \in DOMAIN stack |-> [stack[i] EXCEPT !.due = @ \ {l}]]
  BY DEF RemoveEventListener, focus, Unrooted
<1>2. PICK s, t, registered, less, counts, after :
        /\ s = listeners /\ t = listeners' /\ registered = Registered /\ less = Registered'
        /\ counts = roots /\ after = roots'
  OBVIOUS
<1>3. /\ s \in Seq(Listener) /\ IsInjective(s) /\ Len(s) <= MaxListeners
      /\ t = Only(s, registered \ {l})
      /\ registered = ToSet(s) /\ less = ToSet(t) /\ l \in registered
      /\ counts \in [Callbacks -> Nat] /\ RootsKept(counts, registered)
      /\ after = [counts EXCEPT ![l.callback] = IF @ > 0 THEN @ - 1 ELSE 0]
  BY <1>1, <1>2 DEF Inv, Shape, Registered
<1>4. PICK S : S = registered \ {l}
  OBVIOUS
<1>5. t \in Seq(Listener) /\ Len(t) <= Len(s) /\ ToSet(t) = ToSet(s) \cap S /\ IsInjective(t)
  BY <1>3, <1>4, OnlyKeeps
<1>6. less = registered \ {l}
  BY <1>3, <1>4, <1>5
<1>7. Len(t) <= MaxListeners
  <2>1. Len(s) \in Nat /\ Len(t) \in Nat /\ MaxListeners \in Nat
    BY <1>3, <1>5, SeqEntries, DomEventsAssumption
  <2>2. QED
    BY <1>3, <1>5, <2>1
<1>8. after \in [Callbacks -> Nat] /\ RootsKept(after, less)
  BY <1>3, <1>6, UnrootedKeeps
<1>9. PICK p, q : p = stack /\ q = stack'
  OBVIOUS
<1>10. p \in Seq(Work) /\ StackKept(p, registered) /\ q = [i \in DOMAIN p |-> [p[i] EXCEPT !.due = @ \ {l}]]
  BY <1>1, <1>2, <1>9 DEF Inv, Shape
<1>11. PICK n \in Nat : n = Len(p) /\ DOMAIN p = 1 .. n
  BY <1>10, SeqEntries
<1>12. ASSUME NEW i \in DOMAIN p
       PROVE  /\ q[i] \in Work /\ q[i].flags = p[i].flags
              /\ DispatchKept(q[i], p[p[i].event].flags, less)
              /\ q[i].event = p[i].event /\ q[i].trusted = p[i].trusted /\ q[i].type = p[i].type
              /\ q[i].visit = p[i].visit /\ q[i].visits = p[i].visits /\ q[i].list = p[i].list
              /\ q[i].running = p[i].running
  <2>1. PICK d \in Work, f \in Flags : d = p[i] /\ f = p[p[i].event].flags /\ DispatchKept(d, f, registered)
    BY <1>10, StackIs
  <2>2. q[i] = [d EXCEPT !.due = @ \ {l}]
    BY <1>10, <2>1
  <2>3. QED
    BY <1>6, <2>1, <2>2, ReleaseKeeps
<1>13. q \in Seq(Work) /\ Len(q) = n
  <2>1. q = [i \in 1 .. n |-> q[i]] /\ \A i \in 1 .. n : q[i] \in Work
    BY <1>10, <1>11, <1>12
  <2>2. QED
    BY <2>1, SeqBuilt
<1>14. SameWays(p, q)
  BY <1>11, <1>12, <1>13 DEF SameWays
<1>15. \A i \in DOMAIN p : DispatchKept(q[i], q[p[i].event].flags, less)
  <2>1. \A i \in DOMAIN p : p[i].event \in DOMAIN p
    BY <1>10, StackIs
  <2>2. QED
    BY <1>12, <2>1
<1>16. StackKept(q, less)
  BY <1>10, <1>13, <1>14, <1>15, WaysKeep
<1>17. Follows(p, q) /\ Follows(q, p)
  BY <1>10, <1>12 DEF Follows, Pending
<1>18. tangled' \/ FocusKept(stack', told', focused')
  <2>1. FocusKept(p, told, focused) => FocusKept(q, told, focused)
    <3>1. PICK who, now : who = told /\ now = focused
      OBVIOUS
    <3>2. FocusKept(p, who, now) => FocusKept(q, who, now)
      BY <1>17, FocusFollows
    <3>3. QED
      BY <3>1, <3>2
  <2>2. QED
    BY <1>1, <1>9, <2>1 DEF Inv
<1>19. AliveKept'
  <2>1. Listening = {k.callback : k \in registered} /\ Listening' = {k.callback : k \in less}
    BY <1>2 DEF Listening
  <2>2. Listening' \subseteq Listening
    BY <1>6, <2>1
  <2>3. QED
    BY <1>1, <2>2 DEF Inv, AliveKept
<1>20. Shape'
  BY <1>1, <1>2, <1>5, <1>7, <1>8, <1>9, <1>13 DEF Inv, Shape
<1>21. QED
  BY <1>2, <1>8, <1>9, <1>16, <1>18, <1>19, <1>20 DEF Inv

LEMMA SetAttributeStep ==
  ASSUME Inv, NEW node \in Nodes, NEW type \in Types, NEW cb \in Callbacks \cup {NoCallback},
         SetAttribute(node, type, cb)
  PROVE  Inv'
<1>1. /\ handlers' = [handlers EXCEPT ![<<node, type>>] = cb] /\ listeners' = listeners /\ roots' = roots
      /\ collected' = collected /\ stack' = stack
      /\ focused' = focused /\ told' = told /\ tangled' = tangled
  BY DEF SetAttribute, focus
<1>2. handlers' \in [Nodes \X Types -> Callbacks \cup {NoCallback}]
  BY <1>1 DEF Inv, Shape
<1>3. Shape'
  BY <1>1, <1>2 DEF Inv, Shape
<1>4. Registered' = Registered /\ Listening' = Listening
  BY <1>1 DEF Registered, Listening
<1>5. QED
  BY <1>1, <1>3, <1>4 DEF Inv, AliveKept

(* A collection frees no function of a listener.                           *)
LEMMA CollectStep ==
  ASSUME Inv, NEW dropped \in SUBSET Callbacks, Collect(dropped)
  PROVE  Inv'
<1>1. /\ collected' = collected \cup ((dropped \ Marked) \cap (Listening \cup Copies))
      /\ listeners' = listeners /\ handlers' = handlers /\ roots' = roots /\ stack' = stack
      /\ focused' = focused /\ told' = told /\ tangled' = tangled
  BY DEF Collect, registry, focus
<1>2. Registered' = Registered /\ Listening' = Listening
  BY <1>1 DEF Registered, Listening
<1>3. Listening \subseteq Marked
  <2>1. SUFFICES ASSUME NEW l \in Registered
                 PROVE  l.callback \in Marked
    BY DEF Listening
  <2>2. PICK s, registered, cb : s = listeners /\ registered = Registered /\ cb = l.callback
    OBVIOUS
  <2>3. s \in Seq(Listener) /\ registered = ToSet(s) /\ l \in registered
    BY <2>2 DEF Inv, Shape, Registered
  <2>4. registered \subseteq Listener /\ IsFiniteSet(Of(cb, registered))
    BY <2>3, ListenersAre
  <2>5. cb \in Callbacks
    BY <2>2, <2>3, <2>4 DEF Listener
  <2>6. l \in Of(cb, registered)
    BY <2>2, <2>3 DEF Of
  <2>7. Cardinality(Of(cb, registered)) # 0
    BY <2>4, <2>6, FS_EmptySet
  <2>8. roots[cb] \in Nat /\ roots[cb] = Cardinality(Of(cb, registered))
    BY <2>2, <2>5 DEF Inv, Shape, RootsKept
  <2>9. roots[cb] > 0
    BY <2>7, <2>8
  <2>10. QED
    BY <2>2, <2>5, <2>9 DEF Marked
<1>4. collected' \subseteq Callbacks
  BY <1>1 DEF Inv, Shape
<1>5. Listening \cap collected' = {}
  BY <1>1, <1>3 DEF Inv, AliveKept
<1>6. Shape'
  BY <1>1, <1>4 DEF Inv, Shape
<1>7. QED
  BY <1>1, <1>2, <1>5, <1>6 DEF Inv, AliveKept

(* Script has control.                                                     *)
LEMMA ScriptIs ==
  ASSUME Inv, InScript
  PROVE  stack \in Seq(Work) /\ StackKept(stack, Registered) /\ MayPush(stack)
<1>1. stack \in Seq(Work) /\ StackKept(stack, Registered)
  BY DEF Inv, Shape
<1>2. MayPush(stack)
  BY DEF InScript, Running, Runs, Top, MayPush
<1>3. QED
  BY <1>1, <1>2

(* A script dispatches an event: a new one, or one under way.              *)
LEMMA PushStep ==
  ASSUME Inv, InScript, UNCHANGED <<registry, collected, focus>>,
         NEW type \in AllTypes, NEW target \in Nodes, NEW b \in BOOLEAN, NEW k \in Nat,
         NEW d, d = Dispatch(type, target, b, k), stack' = Append(stack, d),
         k = Len(stack) + 1 \/ (k \in DOMAIN stack /\ Runs(stack[k]) /\ stack[k].event = k)
  PROVE  Inv'
<1>1. PICK s, t, registered : s = stack /\ t = stack' /\ registered = Registered
  OBVIOUS
<1>2. /\ s \in Seq(Work) /\ StackKept(s, registered) /\ MayPush(s) /\ t = Append(s, d)
      /\ k = Len(s) + 1 \/ (k \in DOMAIN s /\ Runs(s[k]) /\ s[k].event = k)
  BY <1>1, ScriptIs
<1>3. d = Pushed(type, target, b, k, FALSE) /\ d.flags = NoFlags
  <2>1. PICK way, v, no : way = Visits(target, b) /\ v = Visit(target, "none") /\ no = FALSE
    OBVIOUS
  <2>2. d = [type |-> type, bubbles |-> b, event |-> k, flags |-> NoFlags, trusted |-> no,
             visits |-> way, visit |-> v, list |-> <<>>, running |-> NoCallback,
             due |-> {}, spent |-> {}, wrong |-> no]
    BY <2>1 DEF Dispatch
  <2>3. Pushed(type, target, b, k, no) = [d EXCEPT !.trusted = no]
    BY DEF Pushed
  <2>4. [d EXCEPT !.trusted = no] = d
    <3>1. PICK none, list : none = {} /\ list = <<>>
      OBVIOUS
    <3>2. d = [type |-> type, bubbles |-> b, event |-> k, flags |-> NoFlags, trusted |-> no,
               visits |-> way, visit |-> v, list |-> list, running |-> NoCallback,
               due |-> none, spent |-> none, wrong |-> no]
      BY <2>2, <3>1
    <3>3. [d EXCEPT !.trusted = no] =
              [type |-> type, bubbles |-> b, event |-> k, flags |-> NoFlags, trusted |-> no,
               visits |-> way, visit |-> v, list |-> list, running |-> NoCallback,
               due |-> none, spent |-> none, wrong |-> no]
      BY ONLY <3>2
    <3>4. QED
      BY ONLY <3>2, <3>3
  <2>5. d.flags = NoFlags
    BY <2>2
  <2>6. QED
    BY <2>1, <2>3, <2>4, <2>5
<1>4. PICK f \in Flags : f = IF k = Len(s) + 1 THEN NoFlags ELSE s[k].flags
  <2>1. NoFlags \in Flags
    BY DEF Flags
  <2>2. k # Len(s) + 1 => s[k] \in Work
    BY <1>2, SeqEntries
  <2>3. QED
    BY <2>1, <2>2 DEF Work
<1>5. /\ d \in Work /\ DispatchKept(d, f, registered)
      /\ d.visit = Visit(target, "none") /\ d.type = type /\ d.event = k /\ d.trusted = FALSE
  <2>1. PICK no \in BOOLEAN : no = FALSE
    OBVIOUS
  <2>2. d = Pushed(type, target, b, k, no)
    BY <1>3, <2>1
  <2>3. /\ d \in Work /\ DispatchKept(d, f, registered)
        /\ d.visit = Visit(target, "none") /\ d.type = type /\ d.event = k /\ d.trusted = no
    BY <2>2, DispatchIs
  <2>4. QED
    BY <2>1, <2>3
<1>6. Joins(s, d, f)
  <2>1. CASE k = Len(s) + 1
    BY <1>3, <1>4, <1>5, <2>1 DEF Joins
  <2>2. CASE k # Len(s) + 1
    BY <1>2, <1>4, <1>5, <2>2 DEF Joins
  <2>3. QED
    BY <2>1, <2>2
<1>7. /\ t \in Seq(Work) /\ StackKept(t, registered)
      /\ DOMAIN t = DOMAIN s \cup {Len(s) + 1} /\ t[Len(s) + 1] = d
      /\ \A i \in DOMAIN s : t[i] = s[i]
  <2>1. d \in Work /\ DispatchKept(d, f, registered)
    BY <1>5
  <2>2. s \in Seq(Work) /\ StackKept(s, registered) /\ MayPush(s) /\ t = Append(s, d)
    BY <1>2
  <2>3. QED
    BY ONLY <1>6, <2>1, <2>2, PushKeeps
<1>8. Follows(s, t) /\ Follows(t, s)
  BY <1>5, <1>7 DEF Follows, Pending
<1>9. QED
  BY <1>1, <1>7, <1>8, StackOnly

LEMMA DispatchStepKeeps ==
  ASSUME Inv, InScript, NEW type \in Types, NEW target \in Nodes, NEW b \in BOOLEAN,
         DispatchEvent(type, target, b)
  PROVE  Inv'
<1>1. PICK k : k = Len(stack) + 1
  OBVIOUS
<1>2. k \in Nat
  BY <1>1, ScriptIs, SeqEntries
<1>3. PICK d : d = Dispatch(type, target, b, k)
  OBVIOUS
<1>4. UNCHANGED <<registry, collected, focus>> /\ stack' = Append(stack, d)
  BY <1>1, <1>3 DEF DispatchEvent
<1>5. type \in AllTypes
  BY DEF AllTypes
<1>6. QED
  BY <1>1, <1>2, <1>3, <1>4, <1>5, PushStep

(* An event that code is run for is that of its dispatch, or of one below  *)
(* that runs code, too.                                                    *)
LEMMA EventIs ==
  ASSUME NEW s \in Seq(Work), NEW registered, StackKept(s, registered),
         NEW i \in DOMAIN s, Runs(s[i]), NEW k, k = s[i].event
  PROVE  k \in DOMAIN s /\ k \in Nat /\ Runs(s[k]) /\ s[k].event = k
<1>1. k \in DOMAIN s /\ k \in Nat /\ Placed(s, i)
  BY StackIs
<1>2. QED
  BY <1>1 DEF Placed

LEMMA DispatchAgainStep ==
  ASSUME Inv, InScript, NEW i \in Running, NEW target \in Nodes, DispatchAgain(i, target)
  PROVE  Inv'
<1>1. i \in DOMAIN stack /\ Runs(stack[i])
  BY DEF Running, Runs
<1>2. PICK k : k = stack[i].event
  OBVIOUS
<1>3. k \in DOMAIN stack /\ k \in Nat /\ Runs(stack[k]) /\ stack[k].event = k
  BY <1>1, <1>2, ScriptIs, EventIs
<1>4. stack[i] \in Work
  BY <1>1, ScriptIs, SeqEntries
<1>5. PICK type \in AllTypes, b \in BOOLEAN : type = stack[i].type /\ b = stack[i].bubbles
  BY <1>4 DEF Work
<1>6. PICK d : d = Dispatch(type, target, b, k)
  OBVIOUS
<1>7. UNCHANGED <<registry, collected, focus>> /\ stack' = Append(stack, d)
  BY <1>2, <1>5, <1>6 DEF DispatchAgain
<1>8. QED
  BY <1>3, <1>6, <1>7, PushStep

\* The dispatch d, when the event at place k is stopped.
Stopped(d, k, flags) ==
  LET last == IF flags.now THEN {} ELSE {l \in Listener : Fires(l, d.visit)}
  IN  IF d.event # k THEN d
      ELSE IF d.visit.phase = "attribute" THEN [d EXCEPT !.due = {}]
      ELSE [d EXCEPT !.due = @ \cap last, !.spent = @ \cup (Listener \ last)]

(* It owes a call only to the listeners of the node that it visits, and    *)
(* must not call those of the others.                                      *)
LEMMA StoppedKeeps ==
  ASSUME NEW d \in Work, NEW f \in Flags, NEW registered, DispatchKept(d, f, registered),
         Runs(d) \/ Over(d), NEW k, d.event = k, NEW flags \in {Stop, StopNow},
         NEW g, g = [stop |-> TRUE, now |-> f.now \/ flags.now],
         NEW e, e = Stopped(d, k, flags)
  PROVE  /\ e \in Work /\ DispatchKept(e, g, registered) /\ e.flags = d.flags
         /\ e.event = d.event /\ e.trusted = d.trusted /\ e.type = d.type
         /\ e.visit = d.visit /\ e.visits = d.visits /\ e.list = d.list /\ e.running = d.running
<1>1. /\ d.due \in SUBSET Listener /\ d.spent \in SUBSET Listener
      /\ g.stop = TRUE /\ (g.now <=> f.now \/ flags.now) /\ (f.now => f.stop)
  <2>1. d.due \in SUBSET Listener /\ d.spent \in SUBSET Listener
    BY DEF Work
  <2>2. g.stop = TRUE /\ (g.now <=> f.now \/ flags.now)
    OBVIOUS
  <2>3. f.now => f.stop
    BY DEF Flags, NoFlags, Stop, StopNow
  <2>4. QED
    BY <2>1, <2>2, <2>3
<1>2. d.visit.phase # "none"
  BY DEF DispatchKept, Waits, Over
<1>3. Itinerary(d) /\ DueKept(d, f, registered) /\ SpentKept(d, f)
  BY DEF DispatchKept
<1>4. CASE d.visit.phase = "attribute"
  <2>1. e = [d EXCEPT !.due = {}]
    BY <1>4 DEF Stopped
  <2>2. e \in Work
    BY <2>1 DEF Work
  <2>3. /\ e.due = {} /\ e.spent = d.spent /\ e.wrong = d.wrong /\ e.flags = d.flags
        /\ e.event = d.event /\ e.trusted = d.trusted /\ e.type = d.type
        /\ e.visit = d.visit /\ e.visits = d.visits /\ e.list = d.list /\ e.running = d.running
    BY <2>1 DEF Work
  <2>4. Itinerary(e) /\ DueKept(e, g, registered)
    BY <1>3, <2>3 DEF Itinerary, DueKept
  <2>5. SpentKept(e, g)
    BY <1>1, <1>3, <2>3 DEF SpentKept, Leaves, Runs
  <2>6. QED
    BY <1>2, <2>2, <2>3, <2>4, <2>5 DEF DispatchKept
<1>5. CASE d.visit.phase # "attribute"
  <2>1. PICK last : last = IF flags.now THEN {} ELSE {l \in Listener : Fires(l, d.visit)}
    OBVIOUS
  <2>2. e = [d EXCEPT !.due = @ \cap last, !.spent = @ \cup (Listener \ last)]
    BY <1>5, <2>1 DEF Stopped
  <2>3. PICK due \in SUBSET Listener, spent \in SUBSET Listener :
          due = d.due \cap last /\ spent = d.spent \cup (Listener \ last)
    BY <1>1
  <2>4. e = [d EXCEPT !.due = due, !.spent = spent]
    BY <2>2, <2>3
  <2>5. e \in Work
    BY <2>4 DEF Work
  <2>6. /\ e.due = due /\ e.spent = spent /\ e.wrong = d.wrong /\ e.flags = d.flags
        /\ e.event = d.event /\ e.trusted = d.trusted /\ e.type = d.type
        /\ e.visit = d.visit /\ e.visits = d.visits /\ e.list = d.list /\ e.running = d.running
    BY <2>4 DEF Work
  <2>7. Itinerary(e)
    BY <1>3, <2>6 DEF Itinerary
  <2>8. DueKept(e, g, registered)
    <3>1. ASSUME NEW l \in due
          PROVE  l \in ToSet(d.list) /\ ~flags.now /\ ~f.now
      <4>1. l \in d.due /\ Fires(l, d.visit) /\ ~flags.now
        BY <2>1, <2>3
      <4>2. \A v \in ToSet(d.visits) : ~Fires(l, v)
        BY <1>3, <4>1 DEF Itinerary, Apart
      <4>3. QED
        BY <1>3, <4>1, <4>2 DEF DueKept
    <3>2. due \subseteq d.due
      BY <2>3
    <3>3. QED
      BY <1>1, <1>3, <2>6, <3>1, <3>2 DEF DueKept
  <2>9. SpentKept(e, g)
    <3>1. CASE Over(d)
      <4>1. ToSet(d.list) = {} /\ ToSet(d.visits) = {}
        BY <3>1 DEF Over, ToSet
      <4>2. QED
        BY <1>3, <2>6, <4>1 DEF SpentKept
    <3>2. CASE Runs(d)
      <4>1. Leaves(e)
        BY <1>5, <2>6, <3>2 DEF Leaves, Runs
      <4>2. ASSUME NEW l \in spent
            PROVE  l \notin ToSet(d.list) \/ g.now
        <5>1. CASE l \in d.spent
          BY <1>1, <1>3, <5>1 DEF SpentKept
        <5>2. CASE l \in Listener \ last
          <6>1. flags.now \/ ~Fires(l, d.visit)
            BY <2>1, <5>2
          <6>2. QED
            BY <1>1, <1>3, <6>1 DEF Itinerary
        <5>3. QED
          BY <2>3, <5>1, <5>2
      <4>3. QED
        BY <1>1, <1>3, <2>6, <4>1, <4>2 DEF SpentKept
    <3>3. QED
      BY <3>1, <3>2
  <2>10. QED
    BY <1>2, <2>5, <2>6, <2>7, <2>8, <2>9 DEF DispatchKept
<1>6. QED
  BY <1>4, <1>5

LEMMA StopStep ==
  ASSUME Inv, InScript, NEW j \in Running, NEW flags \in {Stop, StopNow},
         StopEvent(stack[j].event, flags)
  PROVE  Inv'
<1>1. UNCHANGED <<registry, collected, focus>>
  BY DEF StopEvent
<1>2. PICK p, q, k, registered :
        p = stack /\ q = stack' /\ k = stack[j].event /\ registered = Registered
  OBVIOUS
<1>3. p \in Seq(Work) /\ StackKept(p, registered) /\ MayPush(p)
  BY <1>2, ScriptIs
<1>4. j \in DOMAIN p /\ Runs(p[j]) /\ k = p[j].event
  BY <1>2 DEF Running, Runs
<1>5. k \in DOMAIN p /\ Runs(p[k]) /\ p[k].event = k
  BY <1>3, <1>4, EventIs
<1>6. PICK n \in Nat : n = Len(p) /\ DOMAIN p = 1 .. n
  BY <1>3, SeqEntries
<1>7. PICK g : g = [stop |-> TRUE, now |-> p[k].flags.now \/ flags.now]
  OBVIOUS
<1>8. g \in Flags
  <2>1. p[k].flags \in Flags
    BY <1>3, <1>5, StackIs
  <2>2. QED
    BY <1>7, <2>1 DEF Flags, NoFlags, Stop, StopNow
<1>9. ASSUME NEW i \in DOMAIN p
      PROVE  q[i] = IF i = k THEN [Stopped(p[i], k, flags) EXCEPT !.flags =
                                     [stop |-> TRUE, now |-> @.now \/ flags.now]]
                    ELSE Stopped(p[i], k, flags)
  BY <1>2 DEF StopEvent, Stopped
<1>10. ASSUME NEW i \in DOMAIN p
       PROVE  /\ q[i] \in Work /\ q[i].flags = (IF i = k THEN g ELSE p[i].flags)
              /\ DispatchKept(q[i], IF p[i].event = k THEN g ELSE p[p[i].event].flags, registered)
              /\ q[i].event = p[i].event /\ q[i].trusted = p[i].trusted /\ q[i].type = p[i].type
              /\ q[i].visit = p[i].visit /\ q[i].visits = p[i].visits /\ q[i].list = p[i].list
              /\ q[i].running = p[i].running
  <2>1. PICK d \in Work, f \in Flags : d = p[i] /\ f = p[p[i].event].flags /\ DispatchKept(d, f, registered)
    BY <1>3, StackIs
  <2>2. Placed(p, i)
    BY <1>3, StackIs
  <2>3. CASE d.event # k
    <3>1. i # k
      BY <1>5, <2>1, <2>3
    <3>2. q[i] = d
      BY <1>9, <2>1, <2>3, <3>1 DEF Stopped
    <3>3. QED
      BY <2>1, <2>3, <3>1, <3>2
  <2>4. CASE d.event = k
    <3>1. Runs(d) \/ Over(d)
      <4>1. i = Len(p) => Runs(p[i]) \/ Over(p[i])
        <5>1. p # <<>>
          BY EmptySeq
        <5>2. QED
          BY <1>3, <5>1 DEF MayPush
      <4>2. p[i].event = i => Runs(p[i])
        BY <1>5, <2>1, <2>4
      <4>3. QED
        BY <2>1, <2>2, <4>1, <4>2 DEF Placed
    <3>2. PICK e : e = Stopped(d, k, flags)
      OBVIOUS
    <3>3. g = [stop |-> TRUE, now |-> f.now \/ flags.now]
      BY <1>7, <2>1, <2>4
    <3>4. /\ e \in Work /\ DispatchKept(e, g, registered) /\ e.flags = d.flags
          /\ e.event = d.event /\ e.trusted = d.trusted /\ e.type = d.type
          /\ e.visit = d.visit /\ e.visits = d.visits /\ e.list = d.list /\ e.running = d.running
      BY <2>1, <2>4, <3>1, <3>2, <3>3, StoppedKeeps
    <3>5. CASE i # k
      <4>1. q[i] = e
        BY <1>9, <2>1, <3>2, <3>5
      <4>2. QED
        BY <2>1, <2>4, <3>4, <3>5, <4>1
    <3>6. CASE i = k
      <4>1. q[i] = [e EXCEPT !.flags = g]
        BY <1>7, <1>9, <2>1, <3>2, <3>4, <3>6
      <4>2. q[i] \in Work
        BY <1>8, <3>4, <4>1 DEF Work
      <4>3. /\ q[i].flags = g /\ q[i].due = e.due /\ q[i].spent = e.spent /\ q[i].wrong = e.wrong
            /\ q[i].event = e.event /\ q[i].trusted = e.trusted /\ q[i].type = e.type
            /\ q[i].visit = e.visit /\ q[i].visits = e.visits /\ q[i].list = e.list
            /\ q[i].running = e.running
        BY <3>4, <4>1 DEF Work
      <4>4. DispatchKept(q[i], g, registered)
        BY <3>4, <4>3 DEF DispatchKept, Itinerary, Waits, Runs, DueKept, SpentKept, Leaves
      <4>5. QED
        BY <2>1, <2>4, <3>4, <3>6, <4>2, <4>3, <4>4
    <3>7. QED
      BY <3>5, <3>6
  <2>5. QED
    BY <2>3, <2>4
<1>11. q \in Seq(Work) /\ Len(q) = n
  <2>1. DOMAIN q = 1 .. n /\ q = [i \in DOMAIN q |-> q[i]]
    BY <1>2, <1>6 DEF StopEvent
  <2>2. QED
    BY <1>6, <1>10, <2>1, SeqBuilt
<1>12. SameWays(p, q)
  BY <1>6, <1>10, <1>11 DEF SameWays
<1>13. \A i \in DOMAIN p : DispatchKept(q[i], q[p[i].event].flags, registered)
  <2>1. \A i \in DOMAIN p : p[i].event \in DOMAIN p
    BY <1>3, StackIs
  <2>2. QED
    BY <1>10, <2>1
<1>14. StackKept(q, registered)
  BY <1>3, <1>11, <1>12, <1>13, WaysKeep
<1>15. Follows(p, q) /\ Follows(q, p)
  <2>1. DOMAIN q = DOMAIN p
    BY <1>6, <1>11, SeqEntries
  <2>2. QED
    BY <1>10, <2>1 DEF Follows, Pending
<1>16. QED
  BY <1>1, <1>2, <1>11, <1>14, <1>15, StackOnly

-----------------------------------------------------------------------------
(* The focus                                                               *)

Tell == [type : AllTypes, node : Nodes, bubbles : BOOLEAN]

\* The events c of the change of the focus from one element to another: first those
\* of the element that loses it.
IsChange(c, from, to) ==
  /\ \E m \in Nat : \A i \in DOMAIN c :
       /\ i <= m => c[i].node = from /\ c[i].type \in {"blur", "focusout"}
       /\ i > m => c[i].node = to /\ c[i].type \in {"focus", "focusin"}
  /\ from # NoNode => \E i \in DOMAIN c : c[i].type = "blur"
  /\ to # NoNode => \E i \in DOMAIN c : c[i].type = "focus"

LEMMA ChangeIs ==
  ASSUME NEW from \in Nodes \cup {NoNode}, NEW to \in Nodes \cup {NoNode}
  PROVE  Change(from, to) \in Seq(Tell) /\ IsChange(Change(from, to), from, to)
<1>1. PICK a, b, c : a = Loses(from) /\ b = Gains(to) /\ c = Change(from, to)
  OBVIOUS
<1>2. /\ a \in Seq(Tell) /\ \A i \in DOMAIN a : a[i].node = from /\ a[i].type \in {"blur", "focusout"}
      /\ from # NoNode => 1 \in DOMAIN a /\ a[1].type = "blur"
  <2>1. CASE from = NoNode
    BY <1>1, <2>1, EmptySeq DEF Loses
  <2>2. CASE from # NoNode
    <3>1. PICK x, y : x = Told("blur", from, FALSE) /\ y = Told("focusout", from, TRUE)
      OBVIOUS
    <3>2. x \in Tell /\ y \in Tell
      BY <2>2, <3>1 DEF Told, Tell, AllTypes
    <3>3. x.node = from /\ x.type = "blur" /\ y.node = from /\ y.type = "focusout"
      BY <3>1 DEF Told
    <3>4. a = <<x, y>>
      BY <1>1, <2>2, <3>1 DEF Loses
    <3>5. a \in Seq(Tell) /\ DOMAIN a = 1 .. 2 /\ a[1] = x /\ a[2] = y
      BY <3>2, <3>4
    <3>6. \A i \in 1 .. 2 : i = 1 \/ i = 2
      OBVIOUS
    <3>7. QED
      BY <2>2, <3>3, <3>5, <3>6
  <2>3. QED
    BY <2>1, <2>2
<1>3. /\ b \in Seq(Tell) /\ \A i \in DOMAIN b : b[i].node = to /\ b[i].type \in {"focus", "focusin"}
      /\ to # NoNode => 1 \in DOMAIN b /\ b[1].type = "focus"
  <2>1. CASE to = NoNode
    BY <1>1, <2>1, EmptySeq DEF Gains
  <2>2. CASE to # NoNode
    <3>1. PICK x, y : x = Told("focus", to, FALSE) /\ y = Told("focusin", to, TRUE)
      OBVIOUS
    <3>2. x \in Tell /\ y \in Tell
      BY <2>2, <3>1 DEF Told, Tell, AllTypes
    <3>3. x.node = to /\ x.type = "focus" /\ y.node = to /\ y.type = "focusin"
      BY <3>1 DEF Told
    <3>4. b = <<x, y>>
      BY <1>1, <2>2, <3>1 DEF Gains
    <3>5. b \in Seq(Tell) /\ DOMAIN b = 1 .. 2 /\ b[1] = x /\ b[2] = y
      BY <3>2, <3>4
    <3>6. \A i \in 1 .. 2 : i = 1 \/ i = 2
      OBVIOUS
    <3>7. QED
      BY <2>2, <3>3, <3>5, <3>6
  <2>3. QED
    BY <2>1, <2>2
<1>4. PICK m \in Nat : m = Len(a) /\ DOMAIN a = 1 .. m
  BY <1>2, SeqEntries
<1>5. c = a \o b
  BY <1>1 DEF Change
<1>6. /\ c \in Seq(Tell)
      /\ \A i \in DOMAIN a : i \in DOMAIN c /\ c[i] = a[i]
      /\ \A i \in DOMAIN b : m + i \in DOMAIN c /\ c[m + i] = b[i]
      /\ \A i \in DOMAIN c : \/ i \in DOMAIN a /\ c[i] = a[i]
                             \/ i - m \in DOMAIN b /\ c[i] = b[i - m]
  <2>1. /\ a \o b \in Seq(Tell) /\ DOMAIN (a \o b) = 1 .. Len(a) + Len(b)
        /\ \A i \in DOMAIN a : (a \o b)[i] = a[i]
        /\ \A i \in DOMAIN b : Len(a) + i \in DOMAIN (a \o b) /\ (a \o b)[Len(a) + i] = b[i]
        /\ \A i \in DOMAIN (a \o b) :
             \/ i \in DOMAIN a /\ (a \o b)[i] = a[i]
             \/ i - Len(a) \in DOMAIN b /\ (a \o b)[i] = b[i - Len(a)]
    BY <1>2, <1>3, SeqJoin
  <2>2. Len(b) \in Nat
    BY <1>3, SeqEntries
  <2>3. DOMAIN a \subseteq 1 .. Len(a) + Len(b)
    BY <1>4, <2>2
  <2>4. QED
    BY <1>4, <1>5, <2>1, <2>3
<1>7. \A i \in DOMAIN c : /\ i <= m => c[i].node = from /\ c[i].type \in {"blur", "focusout"}
                          /\ i > m => c[i].node = to /\ c[i].type \in {"focus", "focusin"}
  <2>1. SUFFICES ASSUME NEW i \in DOMAIN c
                 PROVE  /\ i <= m => c[i].node = from /\ c[i].type \in {"blur", "focusout"}
                        /\ i > m => c[i].node = to /\ c[i].type \in {"focus", "focusin"}
    OBVIOUS
  <2>2. i \in Nat
    BY <1>6, SeqEntries
  <2>3. CASE i \in DOMAIN a /\ c[i] = a[i]
    BY <1>2, <1>4, <2>2, <2>3
  <2>4. CASE i - m \in DOMAIN b /\ c[i] = b[i - m]
    <3>1. i - m \in Nat /\ i - m >= 1
      BY <1>3, <2>4, SeqEntries
    <3>2. i > m
      BY <2>2, <3>1
    <3>3. QED
      BY <1>3, <2>2, <2>4, <3>2
  <2>5. QED
    BY <1>6, <2>3, <2>4
<1>8. from # NoNode => \E i \in DOMAIN c : c[i].type = "blur"
  BY <1>2, <1>6
<1>9. to # NoNode => \E i \in DOMAIN c : c[i].type = "focus"
  BY <1>3, <1>6
<1>10. QED
  BY <1>1, <1>6, <1>7, <1>8, <1>9 DEF IsChange

\* The dispatches q of the events c, pushed on n others: the last event first.
IsAgenda(q, c, n) ==
  /\ Len(q) = Len(c)
  /\ \A i \in DOMAIN q :
       q[i] = Pushed(c[Len(c) - i + 1].type, c[Len(c) - i + 1].node, c[Len(c) - i + 1].bubbles,
                     n + i, TRUE)

\* The place in the stack of the dispatch of the event at place i of m.
At(n, m, i) == n + (m - i + 1)

(* They bring the new focus in, once no other focus change is under way.   *)
LEMMA AgendaKeeps ==
  ASSUME NEW s \in Seq(Work), NEW c \in Seq(Tell), NEW from, NEW to,
         IsChange(c, from, to),
         NEW n, n = Len(s), NEW q \in Seq(Work), IsAgenda(q, c, n),
         \A i \in DOMAIN q : /\ q[i].visit = Visit(c[Len(c) - i + 1].node, "none") /\ q[i].trusted
                             /\ q[i].type = c[Len(c) - i + 1].type,
         \A i \in DOMAIN c : c[i].node \in Nodes,
         \A i \in DOMAIN s : ~s[i].trusted,
         NEW t, t = s \o q, NEW who, FocusKept(s, who, from)
  PROVE  FocusKept(t, who, to)
<1>1. PICK m \in Nat : m = Len(q) /\ DOMAIN q = 1 .. m /\ m = Len(c) /\ DOMAIN c = 1 .. m
  BY SeqEntries DEF IsAgenda
<1>2. n \in Nat /\ DOMAIN s = 1 .. n
  BY SeqEntries
<1>3. /\ DOMAIN t = 1 .. n + m /\ \A i \in DOMAIN s : t[i] = s[i]
      /\ \A i \in DOMAIN q : n + i \in DOMAIN t /\ t[n + i] = q[i]
      /\ \A i \in DOMAIN t : \/ i \in DOMAIN s
                             \/ i - n \in DOMAIN q /\ t[i] = q[i - n]
  <2>1. /\ DOMAIN (s \o q) = 1 .. Len(s) + Len(q)
        /\ \A i \in DOMAIN s : (s \o q)[i] = s[i]
        /\ \A i \in DOMAIN q : Len(s) + i \in DOMAIN (s \o q) /\ (s \o q)[Len(s) + i] = q[i]
        /\ \A i \in DOMAIN (s \o q) :
             \/ i \in DOMAIN s /\ (s \o q)[i] = s[i]
             \/ i - Len(s) \in DOMAIN q /\ (s \o q)[i] = q[i - Len(s)]
    BY ONLY s \in Seq(Work), q \in Seq(Work), SeqJoin
  <2>2. QED
    BY <1>1, <2>1
<1>4. \A type : Waiting(s, type) = {} /\ Coming(s, type) = {}
  BY DEF Waiting, Coming
<1>5. who = {from} \ {NoNode}
  BY <1>4 DEF FocusKept
<1>6. ASSUME NEW i \in DOMAIN c
      PROVE  At(n, m, i) \in DOMAIN t /\ t[At(n, m, i)].trusted /\ t[At(n, m, i)].visit = Visit(c[i].node, "none")
             /\ t[At(n, m, i)].type = c[i].type
  <2>1. PICK k \in DOMAIN q : k = m - i + 1
    BY <1>1
  <2>2. Len(c) - k + 1 = i /\ At(n, m, i) = n + k
    BY <1>1, <1>2, <2>1 DEF At
  <2>3. n + k \in DOMAIN t /\ t[n + k] = q[k]
    BY ONLY <1>3, k \in DOMAIN q
  <2>4. q[k].trusted /\ q[k].visit = Visit(c[i].node, "none") /\ q[k].type = c[i].type
    BY <2>2
  <2>5. QED
    BY ONLY <2>2, <2>3, <2>4
<1>7. ASSUME NEW type, NEW j \in Waiting(t, type)
      PROVE  /\ \E i \in DOMAIN c : j = At(n, m, i)
             /\ j \in Nat
  <2>1. j \in DOMAIN t /\ t[j].trusted
    BY DEF Waiting
  <2>2. j - n \in DOMAIN q
    BY <1>3, <2>1
  <2>3. j \in Nat
    BY <1>2, <1>3, <2>1
  <2>4. PICK i : i = m - (j - n) + 1
    OBVIOUS
  <2>5. i \in DOMAIN c /\ j = n + (m - i + 1)
    BY <1>1, <1>2, <2>2, <2>3, <2>4
  <2>6. QED
    BY <2>3, <2>5 DEF At
<1>8. ASSUME NEW type
      PROVE  \A x : x \in Coming(t, type) <=> \E i \in DOMAIN c : c[i].type = type /\ x = c[i].node
  <2>1. ASSUME NEW x \in Coming(t, type)
        PROVE  \E i \in DOMAIN c : c[i].type = type /\ x = c[i].node
    <3>1. PICK j \in Waiting(t, type) : x = t[j].visit.node
      BY DEF Coming
    <3>2. PICK i \in DOMAIN c : j = At(n, m, i)
      BY <1>7
    <3>3. t[j].type = type
      BY DEF Waiting
    <3>4. t[j].visit = Visit(c[i].node, "none") /\ t[j].type = c[i].type
      BY <1>6, <3>2
    <3>5. t[j].visit.node = c[i].node
      BY <3>4 DEF Visit
    <3>6. QED
      BY <3>1, <3>3, <3>4, <3>5
  <2>2. ASSUME NEW i \in DOMAIN c, c[i].type = type
        PROVE  c[i].node \in Coming(t, type)
    <3>1. PICK j : j = At(n, m, i)
      OBVIOUS
    <3>2. j \in DOMAIN t /\ t[j].trusted /\ t[j].visit = Visit(c[i].node, "none") /\ t[j].type = type
      BY <1>6, <2>2, <3>1
    <3>3. j \in Waiting(t, type) /\ t[j].visit.node = c[i].node
      BY <3>2 DEF Waiting, Visit
    <3>4. QED
      BY <3>3 DEF Coming
  <2>3. QED
    BY <2>1, <2>2
<1>9. PICK l \in Nat : \A i \in DOMAIN c :
        /\ i <= l => c[i].node = from /\ c[i].type \in {"blur", "focusout"}
        /\ i > l => c[i].node = to /\ c[i].type \in {"focus", "focusin"}
  BY DEF IsChange
<1>10. ASSUME NEW i \in DOMAIN c
       PROVE  /\ i \in Nat /\ i <= m
              /\ c[i].type = "blur" => i <= l /\ c[i].node = from
              /\ c[i].type = "focus" => i > l /\ c[i].node = to
  <2>1. i \in Nat /\ i <= m
    BY <1>1
  <2>2. i <= l \/ i > l
    BY <2>1
  <2>3. QED
    BY <1>9, <2>1, <2>2
<1>11. NoNode \notin Nodes
  BY DEF NoNode, Nodes
<1>12. Coming(t, "blur") = {from} \ {NoNode}
  <2>1. \A x : x \in Coming(t, "blur") <=> \E i \in DOMAIN c : c[i].type = "blur" /\ x = c[i].node
    BY <1>8
  <2>2. ASSUME NEW x \in Coming(t, "blur")
        PROVE  x = from /\ x \in Nodes
    <3>1. PICK i \in DOMAIN c : c[i].type = "blur" /\ x = c[i].node
      BY <2>1
    <3>2. c[i].node \in Nodes
      OBVIOUS
    <3>3. QED
      BY <1>10, <3>1, <3>2
  <2>3. from # NoNode => \E i \in DOMAIN c : c[i].type = "blur"
    BY DEF IsChange
  <2>4. ASSUME from # NoNode
        PROVE  from \in Coming(t, "blur")
    <3>1. PICK i \in DOMAIN c : c[i].type = "blur"
      BY <2>3, <2>4
    <3>2. c[i].node = from
      BY <1>10, <3>1
    <3>3. QED
      BY ONLY <2>1, <3>1, <3>2, i \in DOMAIN c
  <2>5. QED
    BY <1>11, <2>2, <2>4
<1>13. Coming(t, "focus") = {to} \ {NoNode}
  <2>1. \A x : x \in Coming(t, "focus") <=> \E i \in DOMAIN c : c[i].type = "focus" /\ x = c[i].node
    BY <1>8
  <2>2. ASSUME NEW x \in Coming(t, "focus")
        PROVE  x = to /\ x \in Nodes
    <3>1. PICK i \in DOMAIN c : c[i].type = "focus" /\ x = c[i].node
      BY <2>1
    <3>2. c[i].node \in Nodes
      OBVIOUS
    <3>3. QED
      BY <1>10, <3>1, <3>2
  <2>3. to # NoNode => \E i \in DOMAIN c : c[i].type = "focus"
    BY DEF IsChange
  <2>4. ASSUME to # NoNode
        PROVE  to \in Coming(t, "focus")
    <3>1. PICK i \in DOMAIN c : c[i].type = "focus"
      BY <2>3, <2>4
    <3>2. c[i].node = to
      BY <1>10, <3>1
    <3>3. QED
      BY ONLY <2>1, <3>1, <3>2, i \in DOMAIN c
  <2>5. QED
    BY <1>11, <2>2, <2>4
<1>14. ASSUME NEW i \in Waiting(t, "focus"), NEW j \in Waiting(t, "blur")
       PROVE  i < j
  <2>1. PICK x \in DOMAIN c, y \in DOMAIN c : i = At(n, m, x) /\ j = At(n, m, y)
    BY <1>7
  <2>2. t[i].type = "focus" /\ t[j].type = "blur"
    BY DEF Waiting
  <2>3. c[x].type = "focus" /\ c[y].type = "blur"
    BY <1>6, <2>1, <2>2
  <2>4. x \in Nat /\ y \in Nat /\ x > l /\ y <= l
    BY <1>10, <2>3
  <2>5. x \in DOMAIN c /\ y \in DOMAIN c /\ x <= m /\ y <= m
    BY <1>10
  <2>6. i = n + (m - x + 1) /\ j = n + (m - y + 1)
    BY <2>1 DEF At
  <2>7. n \in Nat /\ m \in Nat /\ l \in Nat
    BY <1>2, <1>9
  <2>8. y < x
    BY ONLY <2>4, <2>7
  <2>9. PICK a \in Nat, b \in Nat : a = x /\ b = y
    BY <2>4
  <2>10. b < a /\ n \in Nat /\ m \in Nat /\ a \in Nat /\ b \in Nat
    BY ONLY <2>7, <2>8, <2>9
  <2>11. n + (m - a + 1) < n + (m - b + 1)
    BY ONLY <2>10, SMT
  <2>12. QED
    BY ONLY <2>6, <2>9, <2>11
<1>15. QED
  BY <1>5, <1>12, <1>13, <1>14 DEF FocusKept

LEMMA MovesStep ==
  ASSUME Inv, InScript, NEW to \in Nodes \cup {NoNode}, Moves(to)
  PROVE  Inv'
<1>1. PICK s, t, registered, from :
        s = stack /\ t = stack' /\ registered = Registered /\ from = focused
  OBVIOUS
<1>2. /\ s \in Seq(Work) /\ StackKept(s, registered) /\ MayPush(s)
      /\ from \in Nodes \cup {NoNode}
  BY <1>1, ScriptIs DEF Inv, Shape
<1>3. PICK c : c = Change(from, to)
  OBVIOUS
<1>4. c \in Seq(Tell) /\ IsChange(c, from, to)
  BY <1>2, <1>3, ChangeIs
<1>5. PICK m \in Nat, n \in Nat : m = Len(c) /\ DOMAIN c = 1 .. m /\ n = Len(s)
  BY <1>2, <1>4, SeqEntries
<1>6. PICK events, q : /\ events = Reverse(c)
                       /\ q = [i \in DOMAIN events |->
                                 Pushed(events[i].type, events[i].node, events[i].bubbles, n + i, TRUE)]
  OBVIOUS
<1>7. /\ UNCHANGED <<registry, collected>> /\ focused' = to /\ ~tangled /\ t = s \o q
      /\ tangled' = (tangled \/ \E i \in DOMAIN stack : stack[i].trusted)
      /\ told' = IF tangled' THEN {} ELSE told
  BY <1>1, <1>3, <1>5, <1>6 DEF Moves, Pushed
<1>8. DOMAIN events = 1 .. m /\ \A i \in 1 .. m : events[i] = c[m - i + 1]
  BY <1>5, <1>6 DEF Reverse
<1>9. ASSUME NEW i \in 1 .. m
      PROVE  /\ q[i] = Pushed(c[m - i + 1].type, c[m - i + 1].node, c[m - i + 1].bubbles, n + i, TRUE)
             /\ q[i] \in Work /\ DispatchKept(q[i], q[i].flags, registered)
             /\ q[i].visit = Visit(c[m - i + 1].node, "none") /\ q[i].type = c[m - i + 1].type
             /\ q[i].event = n + i /\ q[i].trusted
  <2>1. PICK k \in DOMAIN c : k = m - i + 1
    BY <1>5
  <2>2. c[k] \in Tell
    BY <1>4, SeqEntries
  <2>3. PICK type \in AllTypes, node \in Nodes, b \in BOOLEAN :
          type = c[k].type /\ node = c[k].node /\ b = c[k].bubbles
    BY <2>2 DEF Tell
  <2>4. PICK yes \in BOOLEAN : yes = TRUE
    OBVIOUS
  <2>5. PICK j \in Nat : j = n + i
    OBVIOUS
  <2>6. PICK d : d = Pushed(type, node, b, j, yes)
    OBVIOUS
  <2>7. q[i] = d
    BY <1>6, <1>8, <2>1, <2>3, <2>4, <2>5, <2>6
  <2>8. NoFlags \in Flags /\ d.flags = NoFlags
    BY <2>6 DEF Flags, Pushed, Dispatch
  <2>9. /\ d \in Work /\ DispatchKept(d, d.flags, registered)
        /\ d.visit = Visit(node, "none") /\ d.type = type /\ d.event = j /\ d.trusted = yes
    BY <2>6, <2>8, DispatchIs
  <2>10. QED
    BY <2>1, <2>3, <2>4, <2>5, <2>6, <2>7, <2>9
<1>10. q \in Seq(Work) /\ Len(q) = m /\ DOMAIN q = 1 .. m
  <2>1. q = [i \in 1 .. m |-> q[i]] /\ \A i \in 1 .. m : q[i] \in Work
    BY <1>6, <1>8, <1>9
  <2>2. QED
    BY <2>1, SeqBuilt
<1>11. \A k \in DOMAIN q : /\ q[k].event = Len(s) + k /\ q[k].visit.phase = "none"
                           /\ DispatchKept(q[k], q[k].flags, registered)
  <2>1. SUFFICES ASSUME NEW k \in DOMAIN q
                 PROVE  /\ q[k].event = Len(s) + k /\ q[k].visit.phase = "none"
                        /\ DispatchKept(q[k], q[k].flags, registered)
    OBVIOUS
  <2>2. /\ DispatchKept(q[k], q[k].flags, registered) /\ q[k].event = n + k
        /\ q[k].visit = Visit(c[m - k + 1].node, "none")
    BY <1>9, <1>10
  <2>3. q[k].visit.phase = "none"
    BY <2>2 DEF Visit
  <2>4. QED
    BY <1>5, <2>2, <2>3
<1>12. t \in Seq(Work) /\ StackKept(t, registered)
  BY <1>2, <1>7, <1>10, <1>11, PushAllKeeps
<1>13. tangled' \/ FocusKept(t, told', focused')
  <2>1. SUFFICES ASSUME ~tangled'
                 PROVE  FocusKept(t, told, to)
    BY <1>7
  <2>2. \A i \in DOMAIN s : ~s[i].trusted
    BY <1>1, <1>7, <2>1
  <2>3. PICK who : who = told
    OBVIOUS
  <2>4. FocusKept(s, who, from)
    BY <1>1, <1>7, <2>3 DEF Inv
  <2>5. IsAgenda(q, c, n)
    BY <1>5, <1>9, <1>10 DEF IsAgenda
  <2>6. \A i \in DOMAIN q : /\ q[i].visit = Visit(c[Len(c) - i + 1].node, "none") /\ q[i].trusted
                            /\ q[i].type = c[Len(c) - i + 1].type
    BY <1>5, <1>9, <1>10
  <2>7. \A i \in DOMAIN c : c[i].node \in Nodes
    <3>1. \A i \in DOMAIN c : c[i] \in Tell
      BY <1>4, SeqEntries
    <3>2. QED
      BY <3>1 DEF Tell
  <2>8. /\ s \in Seq(Work) /\ c \in Seq(Tell) /\ IsChange(c, from, to) /\ n = Len(s)
        /\ q \in Seq(Work) /\ t = s \o q
    BY <1>2, <1>4, <1>5, <1>7, <1>10
  <2>9. FocusKept(t, who, to)
    BY ONLY <2>2, <2>4, <2>5, <2>6, <2>7, <2>8, AgendaKeeps
  <2>10. QED
    BY <2>3, <2>9
<1>14. Registered' = Registered /\ Listening' = Listening /\ roots' = roots /\ collected' = collected
       /\ listeners' = listeners /\ handlers' = handlers
  BY <1>7 DEF Registered, Listening, registry
<1>15. told' \subseteq Nodes /\ tangled' \in BOOLEAN /\ focused' \in Nodes \cup {NoNode}
  BY <1>7 DEF Inv, Shape
<1>16. Shape'
  BY <1>1, <1>12, <1>14, <1>15 DEF Inv, Shape
<1>17. RootsKept(roots', Registered') /\ AliveKept'
  BY <1>14 DEF Inv, AliveKept
<1>18. QED
  BY <1>1, <1>12, <1>13, <1>14, <1>16, <1>17 DEF Inv


-----------------------------------------------------------------------------
(* The invariant holds.                                                    *)

LEMMA InitKeeps ==
  ASSUME Init
  PROVE  Inv
<1>1. Registered = {} /\ Listening = {} /\ listeners \in Seq(Listener) /\ Len(listeners) = 0
  BY EmptySeq DEF Init, Registered, Listening, ToSet
<1>2. IsInjective(listeners)
  BY DEF Init, IsInjective
<1>3. stack \in Seq(Work) /\ DOMAIN stack = {}
  BY EmptySeq DEF Init
<1>4. Shape
  <2>1. Len(listeners) <= MaxListeners
    BY <1>1, DomEventsAssumption
  <2>2. 0 \in Nat /\ NoCallback \in Callbacks \cup {NoCallback}
    OBVIOUS
  <2>3. QED
    BY <1>1, <1>2, <1>3, <2>1, <2>2 DEF Init, Shape
<1>5. StackKept(stack, Registered)
  BY <1>3 DEF StackKept
<1>6. RootsKept(roots, Registered)
  <2>1. \A cb : Of(cb, Registered) = {}
    BY <1>1 DEF Of
  <2>2. Cardinality({}) = 0
    BY FS_EmptySet
  <2>3. QED
    BY <2>1, <2>2 DEF Init, RootsKept
<1>7. AliveKept
  BY <1>1 DEF Init, AliveKept
<1>8. FocusKept(stack, told, focused)
  BY <1>3 DEF Init, FocusKept, Waiting, Coming
<1>9. QED
  BY <1>4, <1>5, <1>6, <1>7, <1>8 DEF Inv

LEMMA ScriptKeeps ==
  ASSUME Inv, ScriptStep
  PROVE  Inv'
<1>1. InScript /\ (Call \/ Other)
  BY DEF ScriptStep
<1>2. CASE Call
  <2>1. CASE \E l \in Listener : AddEventListener(l) \/ RemoveEventListener(l)
    BY <2>1, AddStep, RemoveStep
  <2>2. CASE \E node \in Nodes, type \in Types, cb \in Callbacks \cup {NoCallback} :
               SetAttribute(node, type, cb)
    BY <2>2, SetAttributeStep
  <2>3. CASE \E type \in Types, target \in Nodes, bubbles \in BOOLEAN :
               DispatchEvent(type, target, bubbles)
    BY <1>1, <2>3, DispatchStepKeeps
  <2>4. CASE \E i \in Running, flags \in {Stop, StopNow} : StopEvent(stack[i].event, flags)
    BY <1>1, <2>4, StopStep
  <2>5. CASE \E n \in Nodes : Focus(n) \/ Blur(n)
    <3>1. PICK to \in Nodes \cup {NoNode} : Moves(to)
      BY <2>5 DEF Focus, Blur
    <3>2. QED
      BY <1>1, <3>1, MovesStep
  <2>6. QED
    BY <1>2, <2>1, <2>2, <2>3, <2>4, <2>5 DEF Call
<1>3. CASE Other
  <2>1. CASE \E i \in Running, target \in Nodes : DispatchAgain(i, target)
    BY <1>1, <2>1, DispatchAgainStep
  <2>2. CASE \E dropped \in SUBSET Callbacks : Collect(dropped)
    BY <2>2, CollectStep
  <2>3. QED
    BY <1>3, <2>1, <2>2 DEF Other
<1>4. QED
  BY <1>1, <1>2, <1>3

LEMMA NextKeeps ==
  ASSUME Inv, [Next]_vars
  PROVE  Inv'
<1>1. CASE ScriptStep
  BY <1>1, ScriptKeeps
<1>2. CASE DispatchStep
  <2>1. Start \/ Arrive \/ CallListener \/ Returns \/ End
    BY <1>2 DEF DispatchStep
  <2>2. QED
    BY <2>1, StartStep, ArriveStep, CallStep, ReturnStep, EndStep
<1>3. CASE UNCHANGED vars
  <2>1. UNCHANGED <<listeners, handlers, roots, collected, stack, focused, told, tangled>>
    BY <1>3 DEF vars, registry, focus
  <2>2. Registered' = Registered /\ Listening' = Listening
    BY <2>1 DEF Registered, Listening
  <2>3. Shape' /\ AliveKept'
    BY <2>1, <2>2 DEF Inv, Shape, AliveKept
  <2>4. StackKept(stack', Registered') /\ RootsKept(roots', Registered')
        /\ (tangled' \/ FocusKept(stack', told', focused'))
    BY <2>1, <2>2 DEF Inv
  <2>5. QED
    BY <2>3, <2>4 DEF Inv
<1>4. QED
  BY <1>1, <1>2, <1>3 DEF Next

(* The listeners, the dispatches under way and the focus are as the        *)
(* invariant says, after every call of a script, every step of a dispatch  *)
(* and every collection (dispatch_value, fire_at, add_listener,            *)
(* remove_listener, focus and blur in dom_binding.cpp).                    *)
THEOREM Soundness == Spec => []Inv
<1>1. Init => Inv
  BY InitKeeps
<1>2. Inv /\ [Next]_vars => Inv'
  BY NextKeeps
<1>3. QED
  BY <1>1, <1>2, PTL DEF Spec

LEMMA InvType ==
  ASSUME Inv
  PROVE  TypeOK
<1>1. roots \in [Callbacks -> 0 .. MaxListeners]
  <2>1. ASSUME NEW cb \in Callbacks
        PROVE  roots[cb] \in 0 .. MaxListeners
    <3>1. listeners \in Seq(Listener) /\ Len(listeners) \in Nat /\ Len(listeners) <= MaxListeners
      BY DEF Inv, Shape
    <3>2. PICK n \in Nat : n = roots[cb] /\ n = Cardinality(Of(cb, Registered))
      BY DEF Inv, Shape, RootsKept
    <3>3. n <= Len(listeners)
      BY <3>1, <3>2, ListenersAre DEF Registered
    <3>4. MaxListeners \in Nat
      BY DomEventsAssumption
    <3>5. QED
      BY <3>1, <3>2, <3>3, <3>4
  <2>2. roots \in [Callbacks -> Nat]
    BY DEF Inv, Shape
  <2>3. QED
    BY <2>1, <2>2
<1>2. ASSUME NEW i \in DOMAIN stack
      PROVE  stack[i].event \in 1 .. i /\ ToSet(stack[i].list) \subseteq Listener
  <2>1. stack[i].event \in 1 .. i
    BY DEF Inv, StackKept, Placed
  <2>2. stack[i] \in Work
    BY SeqEntries DEF Inv, Shape
  <2>3. stack[i].list \in Seq(Listener)
    BY <2>2 DEF Work
  <2>4. QED
    BY <2>1, <2>3, SeqEntries DEF ToSet
<1>3. QED
  BY <1>1, <1>2 DEF Inv, Shape, TypeOK

(* Every variable is of its type; no function is rooted more often than    *)
(* there may be listeners, and every event is that of a dispatch under way *)
(* (add_listener, dispatch_value).                                         *)
THEOREM TypeCorrect == Spec => []TypeOK
<1>1. Inv => TypeOK
  BY InvType
<1>2. QED
  BY <1>1, Soundness, PTL

(* A dispatch that comes to its end has called every listener that was     *)
(* registered for one of its visits when it began and was not removed      *)
(* since, unless the event was stopped; it calls none twice, and none of   *)
(* another node after a stop, however deep what it calls registers,        *)
(* removes, dispatches and stops (fire_at, which copies the listeners, and *)
(* dispatch_value, which copies the path).                                 *)
THEOREM ListenersCalledOnce == Spec => []ListenersAreCalledOnce
<1>1. ASSUME Inv
      PROVE  ListenersAreCalledOnce
  <2>1. SUFFICES ASSUME NEW i \in DOMAIN stack
                 PROVE  ~stack[i].wrong /\ (Over(stack[i]) => stack[i].due = {})
    BY <1>1, InvType DEF ListenersAreCalledOnce
  <2>2. PICK f : DispatchKept(stack[i], f, Registered)
    BY <1>1 DEF Inv, StackKept
  <2>3. ~stack[i].wrong
    BY <2>2 DEF DispatchKept, SpentKept
  <2>4. ASSUME Over(stack[i])
        PROVE  stack[i].due = {}
    <3>1. ToSet(stack[i].list) = {} /\ ToSet(stack[i].visits) = {}
      BY <2>4 DEF Over, ToSet
    <3>2. \A l \in stack[i].due : FALSE
      BY <2>2, <3>1 DEF DispatchKept, DueKept
    <3>3. QED
      BY <3>2
  <2>5. QED
    BY <2>3, <2>4
<1>2. QED
  BY <1>1, Soundness, PTL

(* Once no event of a focus change has still to be dispatched, the element *)
(* that was told of a focus, and not of a blur since, is the focused one,  *)
(* unless code that a focus change called moved the focus again (focus and *)
(* blur, which change the element before they dispatch their events).      *)
THEOREM FocusIsSettled == Spec => []FocusSettles
<1>1. ASSUME Inv
      PROVE  FocusSettles
  <2>1. SUFFICES ASSUME ~tangled, \A i \in DOMAIN stack : ~stack[i].trusted
                 PROVE  told = {focused} \ {NoNode}
    BY DEF FocusSettles
  <2>2. \A type : Waiting(stack, type) = {}
    BY <2>1 DEF Waiting
  <2>3. \A type : Coming(stack, type) = {}
    BY <2>2 DEF Coming
  <2>4. FocusKept(stack, told, focused)
    BY <1>1, <2>1 DEF Inv
  <2>5. QED
    BY <2>3, <2>4 DEF FocusKept
<1>2. QED
  BY <1>1, Soundness, PTL

(* No function that is registered as a listener is ever collected, whatever *)
(* the scripts drop: host_roots_ counts its registrations (add_listener,    *)
(* remove_listener).                                                        *)
THEOREM RegisteredAreAlive == Spec => [](Listening \cap collected = {})
<1>1. Inv => Listening \cap collected = {}
  BY DEF Inv, AliveKept
<1>2. QED
  BY <1>1, Soundness, PTL

-----------------------------------------------------------------------------
(* What is called                                                          *)

\* Nothing runs on the stack t that does not run on s, in the same place.
Quiet(s, t) ==
  \A i \in DOMAIN t : Runs(t[i]) => i \in DOMAIN s /\ t[i].running = s[i].running

\* No attribute is set to a function that has been collected.
AttributesAlive == \A x \in Nodes \X Types : handlers[x] \notin collected

\* What CalledAreAlive says of a step.
CallsAlive ==
  \A i \in Running' : stack'[i].running \in collected' =>
    IF i \in Running THEN stack[i].running \in collected ELSE CallsRemoved(i)

(* An attribute is set to a function the script still has, and marks it    *)
(* from then on.                                                           *)
LEMMA AttributesStep ==
  ASSUME Inv, AttributesAlive, [Next]_vars
  PROVE  AttributesAlive'
<1>1. NoCallback \notin collected /\ collected \subseteq Callbacks
  BY DomEventsAssumption DEF Inv, Shape
<1>2. CASE UNCHANGED <<handlers, collected>>
  BY <1>2 DEF AttributesAlive
<1>3. ASSUME NEW node \in Nodes, NEW type \in Types, NEW cb \in Callbacks \cup {NoCallback},
             SetAttribute(node, type, cb)
      PROVE  AttributesAlive'
  <2>1. /\ handlers' = [handlers EXCEPT ![<<node, type>>] = cb] /\ collected' = collected
        /\ cb \notin collected
    BY <1>3 DEF SetAttribute
  <2>2. handlers \in [Nodes \X Types -> Callbacks \cup {NoCallback}]
    BY DEF Inv, Shape
  <2>3. \A x \in Nodes \X Types : handlers'[x] = cb \/ handlers'[x] = handlers[x]
    BY <2>1, <2>2
  <2>4. QED
    BY <2>1, <2>3 DEF AttributesAlive
<1>4. ASSUME NEW dropped \in SUBSET Callbacks, Collect(dropped)
      PROVE  AttributesAlive'
  <2>1. /\ collected' \subseteq collected \cup (dropped \ Marked) /\ handlers' = handlers
    BY <1>4 DEF Collect, registry
  <2>2. ASSUME NEW x \in Nodes \X Types
        PROVE  handlers[x] \notin dropped \ Marked
    <3>1. CASE handlers[x] = NoCallback
      BY <3>1, DomEventsAssumption
    <3>2. CASE handlers[x] # NoCallback
      <4>1. x \in Set
        BY <3>2 DEF Inv, Shape, Set
      <4>2. handlers[x] \in Marked
        BY <4>1 DEF Marked
      <4>3. QED
        BY <4>2
    <3>3. QED
      BY <3>1, <3>2
  <2>3. QED
    BY <2>1, <2>2 DEF AttributesAlive
<1>5. CASE DispatchStep
  BY <1>2, <1>5 DEF DispatchStep, Start, Arrive, CallListener, Returns, End, registry
<1>6. CASE \/ \E l \in Listener : AddEventListener(l) \/ RemoveEventListener(l)
           \/ \E type \in Types, target \in Nodes, bubbles \in BOOLEAN : DispatchEvent(type, target, bubbles)
           \/ \E i \in Running, flags \in {Stop, StopNow} : StopEvent(stack[i].event, flags)
           \/ \E n \in Nodes : Focus(n) \/ Blur(n)
           \/ \E i \in Running, target \in Nodes : DispatchAgain(i, target)
           \/ UNCHANGED vars
  BY <1>2, <1>6 DEF AddEventListener, RemoveEventListener, DispatchEvent, StopEvent, Focus, Blur, Moves,
                    DispatchAgain, vars, registry
<1>7. QED
  BY <1>3, <1>4, <1>5, <1>6 DEF Next, ScriptStep, Call, Other

(* A step that is quiet and collects nothing is no call.                   *)
LEMMA QuietIsAlive ==
  ASSUME Quiet(stack, stack'), collected' = collected
  PROVE  CallsAlive
BY DEF Quiet, CallsAlive, Running, Runs

(* The dispatch on top changes.                                            *)
LEMMA TopRuns ==
  ASSUME stack \in Seq(Work), stack # <<>>, NEW e, SetTop(e), NEW n, n = Len(stack)
  PROVE  /\ n \in DOMAIN stack /\ Top = stack[n] /\ Top \in Work
         /\ DOMAIN stack' = DOMAIN stack /\ stack'[n] = e
         /\ \A i \in DOMAIN stack : i # n => stack'[i] = stack[i]
<1>1. n \in DOMAIN stack
  BY SeqEntries, EmptySeq
<1>2. stack' = [stack EXCEPT ![n] = e]
  BY DEF SetTop
<1>3. DOMAIN stack' = DOMAIN stack /\ \A i \in DOMAIN stack : stack'[i] = IF i = n THEN e ELSE stack[i]
  BY <1>2
<1>4. Top \in Work
  BY <1>1, SeqEntries DEF Top
<1>5. QED
  BY <1>1, <1>3, <1>4 DEF Top

(* A visit that calls an attribute calls one that is alive.                *)
LEMMA ArrivalAlive ==
  ASSUME Inv, AttributesAlive, NEW d \in Work, ~Runs(d)
  PROVE  Arrived(d).running \notin collected
<1>1. NoCallback \notin collected
  BY DomEventsAssumption DEF Inv, Shape
<1>2. d.visits \in Seq(Place)
  BY DEF Work
<1>3. CASE Arrived(d) = [d EXCEPT !.visits = <<>>]
  <2>1. [d EXCEPT !.visits = <<>>].running = d.running
    BY DEF Work
  <2>2. QED
    BY <1>1, <1>3, <2>1 DEF Runs
<1>4. CASE \E k \in DOMAIN d.visits : Arrived(d) = AtVisit(d, k)
  <2>1. PICK k \in DOMAIN d.visits : Arrived(d) = AtVisit(d, k)
    BY <1>4
  <2>2. PICK v \in Place : v = d.visits[k]
    BY <1>2, SeqEntries
  <2>3. AtVisit(d, k).running = Attribute(d, v)
    BY <2>2 DEF AtVisit, Work
  <2>4. Attribute(d, v) \notin collected
    <3>1. d.type \in Types => <<v.node, d.type>> \in Nodes \X Types
      BY DEF Place
    <3>2. QED
      BY <1>1, <3>1 DEF Attribute, AttributesAlive
  <2>5. QED
    BY <2>1, <2>3, <2>4
<1>5. QED
  BY <1>2, <1>3, <1>4, ArrivedIs

(* A dispatch starts, or goes on to its next visit.                        *)
LEMMA ArriveCalls ==
  ASSUME Inv, AttributesAlive, Start \/ Arrive
  PROVE  CallsAlive
<1>1. ~InScript /\ collected' = collected
  BY DEF Start, Arrive, Chooses
<1>2. stack \in Seq(Work) /\ stack # <<>> /\ Top \in Work /\ ~Runs(Top)
  BY <1>1, AtWork
<1>3. PICK d \in Work : ~Runs(d) /\ SetTop(Arrived(d))
  <2>1. CASE Arrive
    BY <1>2, <2>1 DEF Arrive
  <2>2. CASE Start
    <3>1. PICK top, due, c : top = Top /\ due = Due(Top) /\ c = [top EXCEPT !.due = due, !.visit.phase = "start"]
      OBVIOUS
    <3>2. top.visit \in [node : Nodes, phase : Phase \cup {"none", "start"}] /\ top \in Work
      BY <1>2, <3>1 DEF Work
    <3>3. PICK v : v = [top.visit EXCEPT !.phase = "start"]
      OBVIOUS
    <3>4. v \in [node : Nodes, phase : Phase \cup {"none", "start"}]
      BY <3>2, <3>3
    <3>5. c = [top EXCEPT !.due = due, !.visit = v]
      BY <3>1, <3>2, <3>3 DEF Work
    <3>6. due \in SUBSET Listener
      <4>1. due \subseteq Registered
        BY <3>1 DEF Due
      <4>2. listeners \in Seq(Listener)
        BY DEF Inv, Shape
      <4>3. \A i \in DOMAIN listeners : listeners[i] \in Listener
        BY <4>2, SeqEntries
      <4>4. QED
        BY <4>1, <4>3 DEF Registered, ToSet
    <3>7. c \in Work /\ c.running = top.running
      BY <3>2, <3>4, <3>5, <3>6 DEF Work
    <3>8. SetTop(Arrived(c))
      BY <2>2, <3>1 DEF Start
    <3>9. QED
      BY <1>2, <3>1, <3>7, <3>8 DEF Runs
  <2>3. QED
    BY <2>1, <2>2
<1>4. PICK e, n : e = Arrived(d) /\ n = Len(stack)
  OBVIOUS
<1>5. e.running \notin collected
  BY <1>3, <1>4, ArrivalAlive
<1>6. /\ n \in DOMAIN stack /\ DOMAIN stack' = DOMAIN stack /\ stack'[n] = e
      /\ \A i \in DOMAIN stack : i # n => stack'[i] = stack[i]
  BY <1>2, <1>3, <1>4, TopRuns
<1>7. QED
  BY <1>1, <1>5, <1>6 DEF CallsAlive, Running

(* A listener is called: if its function is gone, it is registered no more.*)
LEMMA ListenerCalls ==
  ASSUME Inv, CallListener
  PROVE  CallsAlive
<1>1. ~InScript /\ Top.list # <<>> /\ collected' = collected
  BY DEF CallListener
<1>2. stack \in Seq(Work) /\ stack # <<>> /\ Top \in Work /\ ~Runs(Top)
  BY <1>1, AtWork
<1>3. PICK l, e, n : l = Head(Top.list) /\ e = Called(Top, l) /\ n = Len(stack)
  OBVIOUS
<1>4. SetTop(e)
  BY <1>3 DEF CallListener, Called
<1>5. e.running = l.callback
  BY <1>2, <1>3 DEF Called, Work
<1>6. /\ n \in DOMAIN stack /\ DOMAIN stack' = DOMAIN stack /\ stack'[n] = e /\ Top = stack[n]
      /\ \A i \in DOMAIN stack : i # n => stack'[i] = stack[i]
  BY <1>2, <1>3, <1>4, TopRuns
<1>7. l.callback \in collected => l \notin Registered
  BY DEF Inv, AliveKept, Listening
<1>8. e.running \in collected => CallsRemoved(n)
  BY <1>1, <1>3, <1>5, <1>6, <1>7 DEF CallsRemoved
<1>9. n \notin Running
  BY <1>2, <1>6 DEF Running, Runs
<1>10. QED
  BY <1>1, <1>6, <1>8, <1>9 DEF CallsAlive, Running

(* What runs returns, or a dispatch is done.                               *)
LEMMA EndsQuietly ==
  ASSUME Inv, Returns \/ End
  PROVE  CallsAlive
<1>1. collected' = collected /\ stack \in Seq(Work) /\ StackKept(stack, Registered)
  BY DEF Returns, End, Inv, Shape
<1>2. CASE End
  <2>1. stack # <<>> /\ stack' = Front(stack)
    BY <1>2 DEF End
  <2>2. DOMAIN stack' \subseteq DOMAIN stack /\ \A i \in DOMAIN stack' : stack'[i] = stack[i]
    <3>1. PICK s, t, registered : s = stack /\ t = stack' /\ registered = Registered
      OBVIOUS
    <3>2. s \in Seq(Work) /\ StackKept(s, registered) /\ s # <<>> /\ t = Front(s)
      BY <1>1, <2>1, <3>1
    <3>3. DOMAIN s = DOMAIN t \cup {Len(s)} /\ \A i \in DOMAIN t : t[i] = s[i]
      BY ONLY <3>2, PopKeeps
    <3>4. QED
      BY <3>1, <3>3
  <2>3. QED
    BY <1>1, <2>2, QuietIsAlive DEF Quiet
<1>3. CASE Returns
  <2>1. Len(stack) \in DOMAIN stack /\ stack # <<>>
    BY <1>1, <1>3, EmptySeq DEF Returns, Running
  <2>2. PICK n, top, f : n = Len(stack) /\ top = Top /\ f = stack[Top.event].flags
    OBVIOUS
  <2>3. top \in Work
    BY <1>1, <2>1, <2>2, SeqEntries DEF Top
  <2>4. PICK r : r = [top EXCEPT !.running = NoCallback]
    OBVIOUS
  <2>5. r \in Work /\ r.running = NoCallback
    BY <2>3, <2>4 DEF Work
  <2>6. PICK e : SetTop(e) /\ e.running = NoCallback
    <3>1. PICK e : e = IF ~f.stop \/ r.visit.phase = "attribute" THEN r
                       ELSE IF f.now THEN [r EXCEPT !.list = <<>>, !.visits = <<>>]
                       ELSE IF r.visit.phase = "target"
                       THEN [r EXCEPT !.visits = Only(@, {v \in ToSet(@) : v.phase = "attribute"})]
                       ELSE [r EXCEPT !.visits = <<>>]
      OBVIOUS
    <3>2. SetTop(e)
      BY <1>3, <2>2, <2>4, <3>1 DEF Returns
    <3>3. e.running = NoCallback
      BY <2>5, <3>1 DEF Work
    <3>4. QED
      BY <3>2, <3>3
  <2>7. /\ n \in DOMAIN stack /\ DOMAIN stack' = DOMAIN stack /\ stack'[n] = e
        /\ \A i \in DOMAIN stack : i # n => stack'[i] = stack[i]
    BY <1>1, <2>1, <2>2, <2>6, TopRuns
  <2>8. Quiet(stack, stack')
    BY <2>6, <2>7 DEF Quiet, Runs
  <2>9. QED
    BY <1>1, <2>8, QuietIsAlive
<1>4. QED
  BY <1>2, <1>3

(* Events are pushed, and run nothing yet.                                 *)
LEMMA PushesQuietly ==
  ASSUME NEW s \in Seq(Work), NEW T, NEW q \in Seq(T), \A k \in DOMAIN q : ~Runs(q[k])
  PROVE  Quiet(s, s \o q)
<1>1. PICK n \in Nat, m \in Nat : n = Len(s) /\ DOMAIN s = 1 .. n /\ m = Len(q) /\ DOMAIN q = 1 .. m
  BY SeqEntries
<1>2. DOMAIN (s \o q) = 1 .. n + m
      /\ \A i \in 1 .. n + m : (s \o q)[i] = IF i <= n THEN s[i] ELSE q[i - n]
  BY <1>1
<1>3. ASSUME NEW i \in 1 .. n + m, Runs((s \o q)[i])
      PROVE  i \in DOMAIN s /\ (s \o q)[i] = s[i]
  <2>1. CASE i <= n
    BY <1>1, <1>2, <2>1
  <2>2. CASE i > n
    <3>1. i - n \in DOMAIN q
      BY <1>1, <2>2
    <3>2. QED
      BY <1>1, <1>2, <1>3, <2>2, <3>1
  <2>3. QED
    BY <1>1, <2>1, <2>2
<1>4. QED
  BY <1>2, <1>3 DEF Quiet

(* The calls of scripts change what dispatches will call, and run nothing. *)
LEMMA ScriptQuietly ==
  ASSUME Inv, Call \/ \E i \in Running, target \in Nodes : DispatchAgain(i, target)
  PROVE  CallsAlive
<1>1. stack \in Seq(Work) /\ \A i \in DOMAIN stack : stack[i] \in Work
  BY SeqEntries DEF Inv, Shape
<1>2. CASE stack' = stack /\ collected' = collected
  BY <1>2, QuietIsAlive DEF Quiet
<1>3. ASSUME NEW l \in Listener, RemoveEventListener(l)
      PROVE  CallsAlive
  <2>1. collected' = collected /\ stack' = [i \in DOMAIN stack |-> [stack[i] EXCEPT !.due = @ \ {l}]]
    BY <1>3 DEF RemoveEventListener
  <2>2. DOMAIN stack' = DOMAIN stack /\ \A i \in DOMAIN stack : stack'[i].running = stack[i].running
    BY <1>1, <2>1 DEF Work
  <2>3. QED
    BY <2>1, <2>2, QuietIsAlive DEF Quiet, Runs
<1>4. ASSUME NEW event, NEW flags, StopEvent(event, flags)
      PROVE  CallsAlive
  <2>1. collected' = collected
    BY <1>4 DEF StopEvent
  <2>2. DOMAIN stack' = DOMAIN stack /\ \A i \in DOMAIN stack : stack'[i].running = stack[i].running
    <3>1. PICK after : after = [i \in DOMAIN stack |->
             LET d == stack[i]
                 last == IF flags.now THEN {} ELSE {l \in Listener : Fires(l, d.visit)}
             IN  IF d.event # event THEN d
                 ELSE IF d.visit.phase = "attribute" THEN [d EXCEPT !.due = {}]
                 ELSE [d EXCEPT !.due = @ \cap last, !.spent = @ \cup (Listener \ last)]]
      OBVIOUS
    <3>2. \A i \in DOMAIN stack : after[i] \in Work /\ after[i].running = stack[i].running
      <4>1. SUFFICES ASSUME NEW i \in DOMAIN stack
                     PROVE  after[i] \in Work /\ after[i].running = stack[i].running
        OBVIOUS
      <4>2. PICK d \in Work, last \in SUBSET Listener :
              d = stack[i] /\ last = IF flags.now THEN {} ELSE {l \in Listener : Fires(l, d.visit)}
        BY <1>1
      <4>3. after[i] = IF d.event # event THEN d
                       ELSE IF d.visit.phase = "attribute" THEN [d EXCEPT !.due = {}]
                       ELSE [d EXCEPT !.due = @ \cap last, !.spent = @ \cup (Listener \ last)]
        BY <3>1, <4>2
      <4>4. CASE d.event # event
        BY <4>2, <4>3, <4>4
      <4>5. CASE d.event = event /\ d.visit.phase = "attribute"
        <5>1. after[i] = [d EXCEPT !.due = {}]
          BY <4>3, <4>5
        <5>2. QED
          BY <4>2, <5>1 DEF Work
      <4>6. CASE d.event = event /\ d.visit.phase # "attribute"
        <5>1. PICK due, spent : due = d.due \cap last /\ spent = d.spent \cup (Listener \ last)
          OBVIOUS
        <5>2. due \in SUBSET Listener /\ spent \in SUBSET Listener
          BY <4>2, <5>1 DEF Work
        <5>3. after[i] = [d EXCEPT !.due = due, !.spent = spent]
          BY <4>2, <4>3, <4>6, <5>1 DEF Work
        <5>4. QED
          BY <4>2, <5>2, <5>3 DEF Work
      <4>7. QED
        BY <4>4, <4>5, <4>6
    <3>3. stack' = [i \in DOMAIN stack |->
                      IF i = event
                      THEN [after[i] EXCEPT !.flags = [stop |-> TRUE, now |-> @.now \/ flags.now]]
                      ELSE after[i]]
      BY <1>4, <3>1 DEF StopEvent
    <3>4. \A i \in DOMAIN stack : stack'[i].running = after[i].running
      BY <3>2, <3>3 DEF Work
    <3>5. QED
      BY <3>2, <3>3, <3>4
  <2>3. QED
    BY <2>1, <2>2, QuietIsAlive DEF Quiet, Runs
<1>5. ASSUME NEW d, d.running = NoCallback, stack' = Append(stack, d), collected' = collected
      PROVE  CallsAlive
  <2>1. PICK n \in Nat : n = Len(stack) /\ DOMAIN stack = 1 .. n
    BY <1>1, SeqEntries
  <2>2. DOMAIN stack' = 1 .. n + 1 /\ \A i \in 1 .. n + 1 : stack'[i] = IF i = n + 1 THEN d ELSE stack[i]
    BY <1>1, <1>5, <2>1
  <2>3. Quiet(stack, stack')
    BY <1>5, <2>1, <2>2 DEF Quiet, Runs
  <2>4. QED
    BY <1>5, <2>3, QuietIsAlive
<1>6. ASSUME NEW type, NEW target, NEW b, NEW k, NEW yes
      PROVE  /\ Dispatch(type, target, b, k).running = NoCallback
             /\ Pushed(type, target, b, k, yes).running = NoCallback
  BY DEF Dispatch, Pushed
<1>7. ASSUME NEW to \in Nodes \cup {NoNode}, Moves(to)
      PROVE  CallsAlive
  <2>1. PICK c, n : c = Change(focused, to) /\ n = Len(stack)
    OBVIOUS
  <2>2. c \in Seq(Tell)
    <3>1. focused \in Nodes \cup {NoNode}
      BY DEF Inv, Shape
    <3>2. QED
      BY <2>1, <3>1, ChangeIs
  <2>3. PICK m \in Nat : m = Len(c) /\ DOMAIN c = 1 .. m
    BY <2>2, SeqEntries
  <2>4. PICK events, q : /\ events = Reverse(c)
                         /\ q = [i \in DOMAIN events |->
                                   Pushed(events[i].type, events[i].node, events[i].bubbles, n + i, TRUE)]
    OBVIOUS
  <2>5. stack' = stack \o q /\ collected' = collected
    BY <1>7, <2>1, <2>4 DEF Moves, Pushed
  <2>6. DOMAIN events = 1 .. m
    BY <2>3, <2>4 DEF Reverse
  <2>7. \A i \in DOMAIN q : q[i].running = NoCallback
    <3>1. SUFFICES ASSUME NEW i \in DOMAIN q
                   PROVE  q[i].running = NoCallback
      OBVIOUS
    <3>2. PICK type, node, b, k, yes :
            /\ type = events[i].type /\ node = events[i].node /\ b = events[i].bubbles
            /\ k = n + i /\ yes = TRUE
      OBVIOUS
    <3>3. q[i] = Pushed(type, node, b, k, yes)
      BY <2>4, <3>2
    <3>4. QED
      BY <1>6, <3>3
  <2>8. q \in Seq({q[i] : i \in 1 .. m})
    <3>1. PICK T : T = {q[i] : i \in 1 .. m}
      OBVIOUS
    <3>2. q = [i \in 1 .. m |-> q[i]] /\ \A i \in 1 .. m : q[i] \in T
      BY <2>4, <2>6, <3>1
    <3>3. QED
      BY <3>1, <3>2, SeqBuilt
  <2>9. Quiet(stack, stack')
    BY <1>1, <2>5, <2>7, <2>8, PushesQuietly DEF Runs
  <2>10. QED
    BY <2>5, <2>9, QuietIsAlive
<1>8. QED
  <2>1. ASSUME NEW i, NEW target, DispatchAgain(i, target)
        PROVE  CallsAlive
    BY <1>5, <1>6, <2>1 DEF DispatchAgain
  <2>2. ASSUME NEW type, NEW target, NEW b, DispatchEvent(type, target, b)
        PROVE  CallsAlive
    BY <1>5, <1>6, <2>2 DEF DispatchEvent
  <2>3. ASSUME NEW l \in Listener, AddEventListener(l)
        PROVE  CallsAlive
    BY <1>2, <2>3 DEF AddEventListener
  <2>4. ASSUME NEW node, NEW type, NEW cb, SetAttribute(node, type, cb)
        PROVE  CallsAlive
    BY <1>2, <2>4 DEF SetAttribute
  <2>5. QED
    BY <1>3, <1>4, <1>7, <2>1, <2>2, <2>3, <2>4 DEF Call, Focus, Blur

(* No step calls a function that was collected, but for listeners that     *)
(* were removed.                                                           *)
LEMMA CallsStep ==
  ASSUME Inv, AttributesAlive, [Next]_vars
  PROVE  CallsAlive
<1>1. CASE DispatchStep
  BY <1>1, ArriveCalls, ListenerCalls, EndsQuietly DEF DispatchStep
<1>2. ASSUME NEW dropped \in SUBSET Callbacks, Collect(dropped)
      PROVE  CallsAlive
  <2>1. stack' = stack /\ collected' \subseteq collected \cup (dropped \ Marked)
    BY <1>2 DEF Collect
  <2>2. Running' = Running /\ \A i \in Running : stack[i].running \in Marked
    BY <2>1 DEF Running, Marked
  <2>3. QED
    BY <2>1, <2>2 DEF CallsAlive
<1>3. CASE UNCHANGED vars
  <2>1. stack' = stack /\ collected' = collected
    BY <1>3 DEF vars
  <2>2. QED
    BY <2>1, QuietIsAlive DEF Quiet
<1>4. CASE Call \/ \E i \in Running, target \in Nodes : DispatchAgain(i, target)
  BY <1>4, ScriptQuietly
<1>5. QED
  BY <1>1, <1>2, <1>3, <1>4 DEF Next, ScriptStep, Other

(* No function is collected while it runs, and none is called that was     *)
(* collected before, whatever the scripts drop, register, remove and       *)
(* dispatch again, but for listeners that were removed while they waited   *)
(* in a copy of the list, which holds nothing (fire_at, mark_roots).       *)
THEOREM CalledAlive == Spec => CalledAreAlive
<1>1. Init => Inv /\ AttributesAlive
  <2>1. Init => AttributesAlive
    BY DEF Init, AttributesAlive
  <2>2. QED
    BY <2>1, InitKeeps
<1>2. Inv /\ AttributesAlive /\ [Next]_vars => (Inv /\ AttributesAlive)'
  BY NextKeeps, AttributesStep
<1>3. Inv /\ AttributesAlive /\ [Next]_vars =>
        [\A i \in Running' : stack'[i].running \in collected' =>
           IF i \in Running THEN stack[i].running \in collected ELSE CallsRemoved(i)]_vars
  BY CallsStep DEF CallsAlive
<1>4. QED
  BY <1>1, <1>2, <1>3, PTL DEF Spec, CalledAreAlive
=============================================================================
