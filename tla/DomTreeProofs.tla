---------------------------- MODULE DomTreeProofs ----------------------------
(***************************************************************************)
(* What holds of the document tree, and of the pending commands and the    *)
(* pins of their nodes, for any number of nodes and commands, in whatever  *)
(* order scripts push, flush and change the tree and the host marks and    *)
(* frees nodes.                                                            *)
(***************************************************************************)
EXTENDS DomCommandBuffer, SequenceLemmas, FiniteSetTheorems

-----------------------------------------------------------------------------
(* Numbers and lists of children                                           *)

(* The place of an entry.                                                  *)
LEMMA PlaceFound ==
  ASSUME NEW S, NEW s \in Seq(S), NEW x \in ToSet(s)
  PROVE  Place(s, x) \in 1 .. Len(s) /\ s[Place(s, x)] = x
<1>1. \E k \in DOMAIN s : s[k] = x
  BY DEF ToSet
<1>2. Place(s, x) \in DOMAIN s /\ s[Place(s, x)] = x
  BY <1>1 DEF Place
<1>3. QED
  BY <1>2, SeqEntries

(* The children without one of them.                                       *)
LEMMA WithoutOne ==
  ASSUME NEW S, NEW s \in Seq(S), NEW x
  PROVE  /\ Without(s, x) \in Seq(S)
         /\ IsInjective(s) => IsInjective(Without(s, x)) /\ ToSet(Without(s, x)) = ToSet(s) \ {x}
<1>1. CASE x \notin ToSet(s)
  BY <1>1 DEF Without
<1>2. CASE x \in ToSet(s)
  <2>1. PICK p, n, u : p = Place(s, x) /\ n = Len(s) /\ u = Without(s, x)
    OBVIOUS
  <2>2. p \in 1 .. n /\ s[p] = x /\ n \in Nat /\ DOMAIN s = 1 .. n
    BY <1>2, <2>1, PlaceFound, SeqEntries
  <2>3. /\ u \in Seq(S) /\ Len(u) = n - 1
        /\ \A k \in 1 .. n - 1 : u[k] = IF k < p THEN s[k] ELSE s[k + 1]
    BY <1>2, <2>1, <2>2, SeqRemove DEF Without
  <2>4. DOMAIN u = 1 .. n - 1
    BY <2>3, SeqEntries
  <2>5. ASSUME IsInjective(s)
        PROVE  IsInjective(u) /\ ToSet(u) = ToSet(s) \ {x}
    <3>1. \A j, k \in 1 .. n : s[j] = s[k] => j = k
      BY <2>2, <2>5 DEF IsInjective
    <3>2. ASSUME NEW j \in 1 .. n - 1, NEW k \in 1 .. n - 1, u[j] = u[k]
          PROVE  j = k
      <4>1. PICK a, b \in 1 .. n : /\ a = IF j < p THEN j ELSE j + 1
                                   /\ b = IF k < p THEN k ELSE k + 1
        BY <2>2
      <4>2. s[a] = s[b]
        BY <2>2, <2>3, <3>2, <4>1
      <4>3. a = b
        BY <3>1, <4>2
      <4>4. QED
        BY <2>2, <4>1, <4>3
    <3>3. ASSUME NEW k \in 1 .. n - 1
          PROVE  u[k] \in ToSet(s) \ {x}
      <4>1. PICK a \in 1 .. n : a = IF k < p THEN k ELSE k + 1
        BY <2>2
      <4>2. u[k] = s[a] /\ a # p
        BY <2>2, <2>3, <4>1
      <4>3. QED
        BY <2>2, <3>1, <4>2 DEF ToSet
    <3>4. ASSUME NEW k \in 1 .. n, s[k] # x
          PROVE  s[k] \in ToSet(u)
      <4>1. CASE k < p
        <5>1. k \in 1 .. n - 1 /\ u[k] = s[k]
          BY <2>2, <2>3, <4>1
        <5>2. QED
          BY <2>4, <5>1 DEF ToSet
      <4>2. CASE k > p
        <5>1. k - 1 \in 1 .. n - 1 /\ u[k - 1] = s[k]
          BY <2>2, <2>3, <4>2
        <5>2. QED
          BY <2>4, <5>1 DEF ToSet
      <4>3. QED
        BY <2>2, <3>4, <4>1, <4>2
    <3>5. ToSet(u) \subseteq ToSet(s) \ {x}
      BY <2>4, <3>3 DEF ToSet
    <3>6. ToSet(s) \ {x} \subseteq ToSet(u)
      BY <2>2, <3>4 DEF ToSet
    <3>7. QED
      BY <2>4, <3>2, <3>5, <3>6 DEF IsInjective
  <2>6. QED
    BY <2>1, <2>3, <2>5
<1>3. QED
  BY <1>1, <1>2

(* The children with one more, at some place.                              *)
LEMMA WithOne ==
  ASSUME NEW S, NEW s \in Seq(S), IsInjective(s), NEW x \in S, x \notin ToSet(s),
         NEW p \in 1 .. Len(s) + 1
  PROVE  /\ InsertAt(s, p, x) \in Seq(S) /\ IsInjective(InsertAt(s, p, x))
         /\ ToSet(InsertAt(s, p, x)) = ToSet(s) \cup {x}
         /\ Without(InsertAt(s, p, x), x) = s
<1>1. PICK n, u : n = Len(s) /\ u = InsertAt(s, p, x)
  OBVIOUS
<1>2. n \in Nat /\ DOMAIN s = 1 .. n /\ p \in 1 .. n + 1 /\ \A k \in 1 .. n : s[k] # x
  BY <1>1, SeqEntries DEF ToSet
<1>3. /\ u \in Seq(S) /\ Len(u) = n + 1 /\ DOMAIN u = 1 .. n + 1
      /\ \A k \in 1 .. n + 1 : u[k] = IF k < p THEN s[k] ELSE IF k = p THEN x ELSE s[k - 1]
  <2>1. /\ u \in Seq(S) /\ Len(u) = n + 1
        /\ \A k \in 1 .. n + 1 : u[k] = IF k < p THEN s[k] ELSE IF k = p THEN x ELSE s[k - 1]
    <3>1. /\ InsertAt(s, p, x) \in Seq(S) /\ Len(InsertAt(s, p, x)) = Len(s) + 1
          /\ \A k \in 1 .. Len(s) + 1 :
               InsertAt(s, p, x)[k] = IF k < p THEN s[k] ELSE IF k = p THEN x ELSE s[k - 1]
      <4>1. InsertAt(s, p, x) \in Seq(S) /\ Len(InsertAt(s, p, x)) = Len(s) + 1
        BY ONLY s \in Seq(S), x \in S, p \in 1 .. Len(s) + 1, SeqInsert
      <4>2. ASSUME NEW k \in 1 .. Len(s) + 1
            PROVE  InsertAt(s, p, x)[k] = IF k < p THEN s[k] ELSE IF k = p THEN x ELSE s[k - 1]
        BY ONLY s \in Seq(S), x \in S, p \in 1 .. Len(s) + 1, k \in 1 .. Len(s) + 1, SeqInsert
      <4>3. QED
        BY <4>1, <4>2
    <3>2. QED
      BY <1>1, <3>1
  <2>2. QED
    BY <2>1, SeqEntries
<1>4. \A j, k \in 1 .. n : s[j] = s[k] => j = k
  BY <1>2 DEF IsInjective
<1>5. ASSUME NEW k \in 1 .. n + 1
      PROVE  u[k] = x <=> k = p
  <2>1. CASE k < p
    BY <1>2, <1>3, <2>1
  <2>2. CASE k = p
    BY <1>2, <1>3, <2>2
  <2>3. CASE k > p
    <3>1. k - 1 \in 1 .. n /\ u[k] = s[k - 1]
      BY <1>2, <1>3, <2>3
    <3>2. QED
      BY <1>2, <2>3, <3>1
  <2>4. QED
    BY <1>2, <2>1, <2>2, <2>3
<1>6. ASSUME NEW j \in 1 .. n + 1, NEW k \in 1 .. n + 1, u[j] = u[k]
      PROVE  j = k
  <2>1. CASE j = p \/ k = p
    BY <1>5, <1>6, <2>1
  <2>2. CASE j # p /\ k # p
    <3>1. PICK a, b \in 1 .. n : /\ a = IF j < p THEN j ELSE j - 1
                                 /\ b = IF k < p THEN k ELSE k - 1
      BY <1>2, <2>2
    <3>2. s[a] = s[b]
      BY <1>2, <1>3, <1>6, <2>2, <3>1
    <3>3. a = b
      BY <1>4, <3>2
    <3>4. QED
      BY <1>2, <2>2, <3>1, <3>3
  <2>3. QED
    BY <2>1, <2>2
<1>7. ASSUME NEW k \in 1 .. n
      PROVE  s[k] \in ToSet(u)
  <2>1. PICK a \in 1 .. n + 1 : a = IF k < p THEN k ELSE k + 1
    BY <1>2
  <2>2. CASE k < p
    <3>1. u[a] = s[k]
      BY <1>2, <1>3, <2>1, <2>2
    <3>2. QED
      BY <1>3, <3>1 DEF ToSet
  <2>3. CASE ~(k < p)
    <3>1. a = k + 1 /\ ~(a < p) /\ a # p /\ a - 1 = k
      BY <1>2, <2>1, <2>3
    <3>2. u[a] = s[k]
      BY <1>3, <3>1
    <3>3. QED
      BY <1>3, <3>2 DEF ToSet
  <2>4. QED
    BY <2>2, <2>3
<1>8. ASSUME NEW k \in 1 .. n + 1
      PROVE  u[k] \in ToSet(s) \cup {x}
  <2>1. CASE k = p
    BY <1>5, <2>1
  <2>2. CASE k # p
    <3>1. PICK a \in 1 .. n : a = IF k < p THEN k ELSE k - 1
      BY <1>2, <2>2
    <3>2. u[k] = s[a]
      BY <1>2, <1>3, <2>2, <3>1
    <3>3. QED
      BY <1>2, <3>2 DEF ToSet
  <2>3. QED
    BY <2>1, <2>2
<1>9. ToSet(u) = ToSet(s) \cup {x}
  <2>1. ToSet(u) \subseteq ToSet(s) \cup {x}
    BY <1>3, <1>8 DEF ToSet
  <2>2. ToSet(s) \subseteq ToSet(u)
    BY <1>2, <1>7 DEF ToSet
  <2>3. x \in ToSet(u)
    BY <1>2, <1>3, <1>5 DEF ToSet
  <2>4. QED
    BY <2>1, <2>2, <2>3
<1>10. Without(u, x) = s
  <2>1. PICK v, q : v = Without(u, x) /\ q = Place(u, x)
    OBVIOUS
  <2>2. q \in 1 .. n + 1 /\ u[q] = x
    BY <1>3, <1>9, <2>1, PlaceFound
  <2>3. q = p
    BY <1>5, <2>2
  <2>4. /\ v \in Seq(S) /\ Len(v) = n
        /\ \A k \in 1 .. n : v[k] = IF k < p THEN u[k] ELSE u[k + 1]
    <3>1. v = RemoveAt(u, p)
      BY <1>9, <2>1, <2>3 DEF Without
    <3>2. (n + 1) - 1 = n
      BY <1>2
    <3>3. /\ RemoveAt(u, p) \in Seq(S) /\ Len(RemoveAt(u, p)) = (n + 1) - 1
          /\ \A k \in 1 .. (n + 1) - 1 : RemoveAt(u, p)[k] = IF k < p THEN u[k] ELSE u[k + 1]
      <4>1. p \in 1 .. Len(u)
        BY <1>2, <1>3
      <4>2. QED
        BY <1>3, <4>1, SeqRemove
    <3>4. QED
      BY <3>1, <3>2, <3>3
  <2>5. ASSUME NEW k \in 1 .. n
        PROVE  v[k] = s[k]
    <3>1. CASE k < p
      BY <1>2, <1>3, <2>4, <3>1
    <3>2. CASE ~(k < p)
      <4>1. k + 1 \in 1 .. n + 1 /\ (k + 1) - 1 = k
        BY <1>2
      <4>2. QED
        BY <1>2, <1>3, <2>4, <3>2, <4>1
    <3>3. QED
      BY <3>1, <3>2
  <2>6. v = s
    BY <1>1, <1>2, <2>4, <2>5, SeqEqual
  <2>7. QED
    BY <2>1, <2>6
<1>11. QED
  BY <1>1, <1>3, <1>6, <1>9, <1>10 DEF IsInjective

-----------------------------------------------------------------------------
(* The node table                                                          *)

\* The free list of a table holds dead, unpinned slots, each once.
TableOK(tb) ==
  /\ tb \in [slots : Seq(T!Slot), free : Seq(1 .. MaxSlots)]
  /\ Len(tb.slots) <= MaxSlots
  /\ \A k \in DOMAIN tb.free :
       /\ tb.free[k] \in DOMAIN tb.slots
       /\ tb.slots[tb.free[k]].state = "Dead" /\ tb.slots[tb.free[k]].pins = 0
  /\ IsInjective(tb.free)

\* Handles that were given out: none is from the future of its slot.
HandlesOK(tb, H) ==
  /\ H \subseteq T!Handle
  /\ \A h \in H : h.index \in DOMAIN tb.slots /\ h.generation <= tb.slots[h.index].generation

\* Slots that are not dead may have changed, but for their generation.
Touched(tb, tc) ==
  /\ tc = [slots |-> tc.slots, free |-> tb.free]
  /\ tc.slots = [i \in DOMAIN tb.slots |-> tc.slots[i]]
  /\ \A i \in DOMAIN tb.slots :
       /\ tc.slots[i] \in T!Slot
       /\ tc.slots[i].generation = tb.slots[i].generation
       /\ tb.slots[i].state = "Dead" => tc.slots[i] = tb.slots[i]

\* How often a slot is pinned; one that is not there yet is not.
PinsAt(tb, i) == IF i \in DOMAIN tb.slots THEN tb.slots[i].pins ELSE 0

SamePins(tb, tc) == \A i : PinsAt(tc, i) = PinsAt(tb, i)

(* What a table consists of.                                               *)
LEMMA TableParts ==
  ASSUME NEW tb, TableOK(tb)
  PROVE  /\ tb = [slots |-> tb.slots, free |-> tb.free]
         /\ tb.slots \in Seq(T!Slot) /\ tb.free \in Seq(1 .. MaxSlots)
         /\ Len(tb.slots) \in Nat /\ DOMAIN tb.slots = 1 .. Len(tb.slots)
         /\ \A i \in DOMAIN tb.slots :
              /\ tb.slots[i] \in T!Slot /\ tb.slots[i].generation \in Nat
              /\ tb.slots[i].state \in T!NodeStates
<1>1. /\ tb = [slots |-> tb.slots, free |-> tb.free]
      /\ tb.slots \in Seq(T!Slot) /\ tb.free \in Seq(1 .. MaxSlots)
  BY DEF TableOK
<1>2. /\ Len(tb.slots) \in Nat /\ DOMAIN tb.slots = 1 .. Len(tb.slots)
      /\ \A i \in DOMAIN tb.slots : tb.slots[i] \in T!Slot
  BY <1>1, SeqEntries
<1>3. \A x \in T!Slot : x.generation \in Nat /\ x.state \in T!NodeStates
  BY DomTreeAssumption DEF T!Slot
<1>4. QED
  BY <1>1, <1>2, <1>3

(* A handle is its index and its generation.                               *)
LEMMA HandleParts ==
  ASSUME NEW g \in T!Handle, NEW h \in T!Handle, g.index = h.index, g.generation = h.generation
  PROVE  g = h
BY DEF T!Handle

(* Null is no handle, and a handle has numbers.                            *)
LEMMA HandleNumbers ==
  /\ Null \notin T!Handle
  /\ \A h \in T!Handle : h.index \in Nat /\ h.generation \in Nat
BY DomTreeAssumption DEF Null, T!Handle

(* A handle resolves if the state it shows is not that of a dead node.     *)
LEMMA ResolvesIsState ==
  ASSUME NEW tb, NEW h
  PROVE  T!Resolves(tb, h) <=> T!StateOf(tb, h) # "Dead"
BY DEF T!Resolves, T!StateOf

(* Touching a table keeps it in order.                                     *)
LEMMA TouchedKeeps ==
  ASSUME NEW tb, TableOK(tb), NEW tc, Touched(tb, tc), NEW H, HandlesOK(tb, H)
  PROVE  TableOK(tc) /\ HandlesOK(tc, H) /\ T!NextHandle(tc) = T!NextHandle(tb)
<1>1. /\ tb.slots \in Seq(T!Slot) /\ tb.free \in Seq(1 .. MaxSlots)
      /\ Len(tb.slots) \in Nat /\ DOMAIN tb.slots = 1 .. Len(tb.slots)
  BY TableParts
<1>2. /\ tc.free = tb.free /\ DOMAIN tc.slots = DOMAIN tb.slots
      /\ \A i \in DOMAIN tb.slots :
            /\ tc.slots[i] \in T!Slot
            /\ tc.slots[i].generation = tb.slots[i].generation
            /\ tb.slots[i].state = "Dead" => tc.slots[i] = tb.slots[i]
  BY DEF Touched
<1>3. tc.slots \in Seq(T!Slot) /\ Len(tc.slots) = Len(tb.slots)
  <2>1. PICK f : f = tc.slots
    OBVIOUS
  <2>2. PICK n \in Nat : n = Len(tb.slots) /\ f = tc.slots
    BY <1>1, <2>1
  <2>3. f = [i \in 1 .. n |-> f[i]] /\ \A i \in 1 .. n : f[i] \in T!Slot
    BY <1>1, <1>2, <2>2 DEF Touched
  <2>4. f \in Seq(T!Slot) /\ Len(f) = n
    BY <2>3, SeqBuilt
  <2>5. QED
    BY <2>2, <2>4
<1>4. TableOK(tc)
  <2>1. tc \in [slots : Seq(T!Slot), free : Seq(1 .. MaxSlots)]
    BY <1>1, <1>2, <1>3 DEF Touched
  <2>2. \A k \in DOMAIN tc.free :
          /\ tc.free[k] \in DOMAIN tc.slots
          /\ tc.slots[tc.free[k]].state = "Dead" /\ tc.slots[tc.free[k]].pins = 0
    BY <1>2 DEF TableOK
  <2>3. QED
    BY <1>2, <1>3, <2>1, <2>2 DEF TableOK
<1>5. HandlesOK(tc, H)
  BY <1>2 DEF HandlesOK
<1>6. T!NextHandle(tc) = T!NextHandle(tb)
  <2>1. CASE ~T!Reuses(tb)
    BY <1>2, <1>3, <2>1 DEF T!NextHandle, T!Reuses
  <2>2. CASE T!Reuses(tb)
    <3>1. PICK i : i = tb.free[Len(tb.free)]
      OBVIOUS
    <3>2. Len(tb.free) \in DOMAIN tb.free
      BY <1>1, <2>2 DEF T!Reuses
    <3>3. i \in DOMAIN tb.slots
      BY <3>1, <3>2 DEF TableOK
    <3>4. tc.slots[i].generation = tb.slots[i].generation
      BY <1>2, <3>3
    <3>5. QED
      BY <1>2, <2>2, <3>1, <3>4 DEF T!NextHandle, T!Reuses
  <2>3. QED
    BY <2>1, <2>2
<1>7. QED
  BY <1>4, <1>5, <1>6

(* set_state changes the state that one handle shows, if that resolves.    *)
LEMMA WithStateTouches ==
  ASSUME NEW tb, TableOK(tb), NEW h \in T!Handle, NEW st \in T!NodeStates,
         NEW tc, tc = T!WithState(tb, h, st)
  PROVE  /\ Touched(tb, tc)
         /\ T!StateOf(tc, h) = IF T!Resolves(tb, h) THEN st ELSE "Dead"
         /\ \A g \in T!Handle : g # h => T!StateOf(tc, g) = T!StateOf(tb, g)
         /\ SamePins(tb, tc)
<1>1. /\ tb = [slots |-> tb.slots, free |-> tb.free]
      /\ \A i \in DOMAIN tb.slots : tb.slots[i] \in T!Slot
      /\ tb.slots = [i \in DOMAIN tb.slots |-> tb.slots[i]]
  BY TableParts
<1>2. CASE ~T!Resolves(tb, h)
  <2>1. tc = tb
    BY <1>2 DEF T!WithState
  <2>2. Touched(tb, tc) /\ SamePins(tb, tc)
    BY <1>1, <2>1 DEF Touched, SamePins
  <2>3. QED
    BY <1>2, <2>1, <2>2, ResolvesIsState
<1>3. CASE T!Resolves(tb, h)
  <2>1. PICK i, s, e : i = h.index /\ s = tb.slots[i] /\ e = [s EXCEPT !.state = st]
    OBVIOUS
  <2>2. i \in DOMAIN tb.slots /\ s.generation = h.generation /\ s.state # "Dead"
    BY <1>3, <2>1 DEF T!Resolves, T!Current
  <2>3. s \in T!Slot
    BY <1>1, <2>1, <2>2
  <2>4. e \in T!Slot /\ e.generation = s.generation /\ e.state = st /\ e.pins = s.pins
    BY <2>1, <2>3 DEF T!Slot
  <2>5. tc = [slots |-> [tb.slots EXCEPT ![i] = e], free |-> tb.free]
    <3>1. tc = [tb EXCEPT !.slots[i].state = st]
      BY <1>3, <2>1 DEF T!WithState
    <3>2. tc = [tb EXCEPT !.slots = [tb.slots EXCEPT ![i] = [tb.slots[i] EXCEPT !.state = st]]]
      BY <3>1
    <3>3. QED
      BY <1>1, <2>1, <3>2
  <2>6. /\ tc.free = tb.free /\ DOMAIN tc.slots = DOMAIN tb.slots
        /\ \A j \in DOMAIN tb.slots : tc.slots[j] = IF j = i THEN e ELSE tb.slots[j]
    BY <1>1, <2>5
  <2>7. Touched(tb, tc)
    <3>1. tc = [slots |-> tc.slots, free |-> tb.free]
      BY <2>5
    <3>2. tc.slots = [j \in DOMAIN tb.slots |-> tc.slots[j]]
      BY <1>1, <2>5
    <3>3. QED
      BY <1>1, <2>1, <2>2, <2>4, <2>6, <3>1, <3>2 DEF Touched
  <2>8. T!StateOf(tc, h) = st
    BY <2>1, <2>2, <2>4, <2>6 DEF T!StateOf, T!Current
  <2>9. ASSUME NEW g \in T!Handle, g # h
        PROVE  T!StateOf(tc, g) = T!StateOf(tb, g)
    <3>1. CASE g.index = i
      <4>1. g.generation # h.generation
        BY <2>1, <2>9, <3>1, HandleParts
      <4>2. ~T!Current(tc, g) /\ ~T!Current(tb, g)
        BY <2>1, <2>2, <2>4, <2>6, <3>1, <4>1 DEF T!Current
      <4>3. QED
        BY <4>2 DEF T!StateOf
    <3>2. CASE g.index # i
      BY <2>6, <3>2 DEF T!StateOf, T!Current
    <3>3. QED
      BY <3>1, <3>2
  <2>10. SamePins(tb, tc)
    BY <2>1, <2>4, <2>6 DEF SamePins, PinsAt
  <2>11. QED
    BY <1>3, <2>7, <2>8, <2>9, <2>10
<1>4. QED
  BY <1>2, <1>3

(* free makes one handle show a dead node.                                 *)
LEMMA FreedKeeps ==
  ASSUME NEW tb, TableOK(tb), NEW H, HandlesOK(tb, H), NEW h \in H, T!Resolves(tb, h),
         NEW tc, tc = T!WithFreed(tb, h)
  PROVE  /\ TableOK(tc) /\ HandlesOK(tc, H)
         /\ \A g \in H : g # h => T!StateOf(tc, g) = T!StateOf(tb, g)
         /\ T!StateOf(tc, h) \in {T!StateOf(tb, h), "Dead"}
         /\ SamePins(tb, tc) /\ (PinsAt(tb, h.index) > 0 => tc = tb)
<1>1. CASE ~T!Freeable(tb, h)
  BY <1>1 DEF T!WithFreed, SamePins
<1>2. CASE T!Freeable(tb, h)
  <2>1. PICK i, s, e : i = h.index /\ s = tb.slots[i] /\ e = [s EXCEPT !.state = "Dead"]
    OBVIOUS
  <2>2. /\ i \in DOMAIN tb.slots /\ s.generation = h.generation /\ s.state # "Dead" /\ ~(s.pins > 0)
        /\ i \in 1 .. MaxSlots /\ H \subseteq T!Handle
    BY <1>2, <2>1 DEF T!Resolves, T!Current, T!Freeable, T!Pinned, HandlesOK, T!Handle
  <2>3. /\ tb = [slots |-> tb.slots, free |-> tb.free]
        /\ tb.slots \in Seq(T!Slot) /\ tb.free \in Seq(1 .. MaxSlots)
        /\ Len(tb.slots) \in Nat /\ DOMAIN tb.slots = 1 .. Len(tb.slots) /\ s \in T!Slot
    BY <2>1, <2>2, TableParts
  <2>4. e \in T!Slot /\ e.generation = s.generation /\ e.state = "Dead" /\ e.pins = 0 /\ s.pins = 0
    <3>1. s.pins \in 0 .. PinMod - 1
      BY <2>3 DEF T!Slot
    <3>2. s.pins = 0
      BY <2>2, <3>1, DomTreeAssumption
    <3>3. QED
      BY <2>1, <2>3, <3>2 DEF T!Slot, T!NodeStates
  <2>5. tc = [slots |-> [tb.slots EXCEPT ![i] = e], free |-> Append(tb.free, i)]
    BY <1>2, <2>1 DEF T!WithFreed
  <2>6. /\ tc.slots \in Seq(T!Slot) /\ DOMAIN tc.slots = DOMAIN tb.slots /\ Len(tc.slots) = Len(tb.slots)
        /\ \A j \in DOMAIN tb.slots : tc.slots[j] = IF j = i THEN e ELSE tb.slots[j]
    BY <2>2, <2>3, <2>4, <2>5, SeqPut
  <2>7. PICK m \in Nat : m = Len(tb.free) /\ DOMAIN tb.free = 1 .. m
    BY <2>3, SeqEntries
  <2>8. /\ tc.free \in Seq(1 .. MaxSlots) /\ DOMAIN tc.free = 1 .. m + 1
        /\ \A k \in 1 .. m : tc.free[k] = tb.free[k] /\ tc.free[k] # i
        /\ tc.free[m + 1] = i
    <3>1. \A k \in 1 .. m : tb.free[k] # i
      BY <2>1, <2>2, <2>7 DEF TableOK
    <3>2. /\ tc.free \in Seq(1 .. MaxSlots) /\ DOMAIN tc.free = DOMAIN tb.free \cup {m + 1}
          /\ \A k \in DOMAIN tb.free : tc.free[k] = tb.free[k]
          /\ tc.free[m + 1] = i
      BY <2>2, <2>3, <2>5, <2>7, SeqAdd
    <3>3. 1 .. m + 1 = 1 .. m \cup {m + 1}
      OBVIOUS
    <3>4. QED
      BY <2>7, <3>1, <3>2, <3>3
  <2>9. TableOK(tc)
    <3>1. tc \in [slots : Seq(T!Slot), free : Seq(1 .. MaxSlots)]
      BY <2>5, <2>6, <2>8
    <3>2. ASSUME NEW k \in DOMAIN tc.free
          PROVE  /\ tc.free[k] \in DOMAIN tc.slots
                 /\ tc.slots[tc.free[k]].state = "Dead" /\ tc.slots[tc.free[k]].pins = 0
      <4>1. CASE k = m + 1
        BY <2>2, <2>4, <2>6, <2>8, <4>1
      <4>2. CASE k \in 1 .. m
        BY <2>6, <2>7, <2>8, <4>2 DEF TableOK
      <4>3. QED
        BY <2>8, <4>1, <4>2
    <3>3. IsInjective(tc.free)
      <4>1. \A j, k \in 1 .. m : tb.free[j] = tb.free[k] => j = k
        BY <2>7 DEF TableOK, IsInjective
      <4>2. \A j, k \in 1 .. m + 1 : tc.free[j] = tc.free[k] => j = k
        BY <2>8, <4>1
      <4>3. QED
        BY <2>8, <4>2 DEF IsInjective
    <3>4. QED
      BY <2>6, <3>1, <3>2, <3>3 DEF TableOK
  <2>10. \A j \in DOMAIN tb.slots : tc.slots[j].generation = tb.slots[j].generation
    BY <2>1, <2>4, <2>6
  <2>11. HandlesOK(tc, H)
    BY <2>6, <2>10 DEF HandlesOK
  <2>12. T!StateOf(tc, h) = "Dead"
    BY <2>1, <2>2, <2>4, <2>6 DEF T!StateOf, T!Current
  <2>13. ASSUME NEW g \in H, g # h
         PROVE  T!StateOf(tc, g) = T!StateOf(tb, g)
    <3>1. CASE g.index = i
      <4>1. g.generation # h.generation
        BY <2>1, <2>2, <2>13, <3>1, HandleParts
      <4>2. ~T!Current(tc, g) /\ ~T!Current(tb, g)
        BY <2>1, <2>2, <2>10, <3>1, <4>1 DEF T!Current
      <4>3. QED
        BY <4>2 DEF T!StateOf
    <3>2. CASE g.index # i
      BY <2>6, <3>2 DEF T!StateOf, T!Current
    <3>3. QED
      BY <3>1, <3>2
  <2>14. \A j \in DOMAIN tb.slots : tc.slots[j].pins = tb.slots[j].pins
    BY ONLY <2>1, <2>4, <2>6
  <2>15. SamePins(tb, tc)
    BY ONLY <2>6, <2>14 DEF SamePins, PinsAt
  <2>16. ~(PinsAt(tb, h.index) > 0)
    BY ONLY <2>1, <2>2 DEF PinsAt
  <2>17. QED
    BY <2>9, <2>11, <2>12, <2>13, <2>15, <2>16
<1>3. QED
  BY <1>1, <1>2

(* alloc returns a handle that was never given out, and disturbs no other. *)
LEMMA AllocKeeps ==
  ASSUME NEW tb, TableOK(tb), NEW H, HandlesOK(tb, H), NEW n \in T!Handle, n = T!NextHandle(tb),
         NEW tc, tc = T!WithAlloc(tb)
  PROVE  /\ TableOK(tc) /\ HandlesOK(tc, H \cup {n}) /\ n \notin H
         /\ T!StateOf(tc, n) = "AliveConnected"
         /\ \A g \in H : T!StateOf(tc, g) = T!StateOf(tb, g)
         /\ SamePins(tb, tc) /\ PinsAt(tc, n.index) = 0
<1>1. PICK e : e = T!FreshSlot(n)
  OBVIOUS
<1>2. PICK l \in Nat : l = Len(tb.slots) /\ e = T!FreshSlot(n)
  BY <1>1, TableParts
<1>3. /\ tb = [slots |-> tb.slots, free |-> tb.free]
      /\ tb.slots \in Seq(T!Slot) /\ tb.free \in Seq(1 .. MaxSlots) /\ DOMAIN tb.slots = 1 .. l
      /\ \A i \in 1 .. l : tb.slots[i].generation \in Nat
  BY <1>2, TableParts
<1>4. /\ e \in T!Slot /\ e.generation = n.generation /\ e.state = "AliveConnected" /\ e.pins = 0
      /\ n.generation \in Nat /\ n.index \in 1 .. MaxSlots
  BY <1>2, DomTreeAssumption DEF T!FreshSlot, T!Slot, T!Handle, T!NodeStates
<1>5. \A h \in H : /\ h \in T!Handle /\ h.index \in 1 .. l
                   /\ h.generation \in Nat /\ h.generation <= tb.slots[h.index].generation
  BY <1>3, HandleNumbers DEF HandlesOK
<1>6. CASE ~T!Reuses(tb)
  <2>1. n.index = l + 1 /\ n.generation = 0
    BY <1>2, <1>6 DEF T!NextHandle
  <2>2. tc = [slots |-> Append(tb.slots, e), free |-> tb.free]
    BY <1>2, <1>6 DEF T!WithAlloc
  <2>3. /\ tc.slots \in Seq(T!Slot) /\ Len(tc.slots) = l + 1 /\ DOMAIN tc.slots = 1 .. l + 1
        /\ \A i \in 1 .. l : tc.slots[i] = tb.slots[i]
        /\ tc.slots[l + 1] = e
    <3>1. /\ tc.slots \in Seq(T!Slot) /\ Len(tc.slots) = l + 1
          /\ \A i \in 1 .. l : tc.slots[i] = tb.slots[i]
          /\ tc.slots[l + 1] = e
      BY <1>2, <1>3, <1>4, <2>2, SeqAdd
    <3>2. QED
      BY <3>1, SeqEntries
  <2>4. tb.free = <<>> /\ tc.free = <<>>
    BY <1>6, <2>2 DEF T!Reuses
  <2>5. TableOK(tc)
    <3>1. tc \in [slots : Seq(T!Slot), free : Seq(1 .. MaxSlots)]
      BY <1>3, <2>2, <2>3
    <3>2. Len(tc.slots) <= MaxSlots
      BY <1>4, <2>1, <2>3
    <3>3. QED
      BY <2>4, <3>1, <3>2 DEF TableOK, IsInjective
  <2>6. n \notin H
    BY <1>5, <2>1
  <2>7. HandlesOK(tc, H \cup {n})
    <3>1. \A h \in H : h.index \in 1 .. l + 1 /\ tc.slots[h.index] = tb.slots[h.index]
      BY <1>5, <2>3
    <3>2. ASSUME NEW h \in H \cup {n}
          PROVE  h \in T!Handle /\ h.index \in DOMAIN tc.slots /\ h.generation <= tc.slots[h.index].generation
      BY <1>4, <1>5, <2>1, <2>3, <3>1
    <3>3. QED
      BY <3>2 DEF HandlesOK
  <2>8. T!StateOf(tc, n) = "AliveConnected"
    BY <1>4, <2>1, <2>3 DEF T!StateOf, T!Current
  <2>9. \A g \in H : T!StateOf(tc, g) = T!StateOf(tb, g)
    BY <1>3, <1>5, <2>3 DEF T!StateOf, T!Current
  <2>10. SamePins(tb, tc) /\ PinsAt(tc, n.index) = 0
    BY <1>3, <1>4, <2>1, <2>3 DEF SamePins, PinsAt
  <2>11. QED
    BY <2>5, <2>6, <2>7, <2>8, <2>9, <2>10
<1>7. CASE T!Reuses(tb)
  <2>1. PICK i : i = tb.free[Len(tb.free)]
    OBVIOUS
  <2>2. PICK m \in Nat : m = Len(tb.free) /\ i = tb.free[m]
    BY <1>3, <2>1, SeqEntries
  <2>3. m # 0 /\ DOMAIN tb.free = 1 .. m
    BY <1>3, <1>7, <2>2 DEF T!Reuses
  <2>4. m \in DOMAIN tb.free
    BY <2>2, <2>3
  <2>5. i \in 1 .. l /\ tb.slots[i].state = "Dead"
    BY <1>3, <2>2, <2>4 DEF TableOK
  <2>6. n.index = i /\ n.generation = tb.slots[i].generation + 1
    BY <1>7, <2>2 DEF T!NextHandle
  <2>7. tc = [slots |-> [tb.slots EXCEPT ![i] = e], free |-> SubSeq(tb.free, 1, m - 1)]
    BY <1>2, <1>7, <2>2, <2>6 DEF T!WithAlloc
  <2>8. /\ tc.slots \in Seq(T!Slot) /\ Len(tc.slots) = l /\ DOMAIN tc.slots = 1 .. l
        /\ \A j \in 1 .. l : tc.slots[j] = IF j = i THEN e ELSE tb.slots[j]
    BY <1>2, <1>3, <1>4, <2>5, <2>7, SeqPut
  <2>9. /\ tc.free \in Seq(1 .. MaxSlots) /\ DOMAIN tc.free = 1 .. m - 1
        /\ \A k \in 1 .. m - 1 : k \in 1 .. m /\ tc.free[k] = tb.free[k]
    <3>1. \A k \in 1 .. m : tb.free[k] \in 1 .. MaxSlots
      BY <1>3, <2>3, SeqEntries
    <3>2. \A k \in 1 .. m - 1 : k \in 1 .. m /\ tb.free[k] \in 1 .. MaxSlots
      BY <3>1
    <3>3. m - 1 \in Int /\ 1 \in Int /\ (IF 1 <= m - 1 THEN (m - 1) - 1 + 1 ELSE 0) = m - 1 /\ (m - 1) - 1 + 1 = m - 1
      BY <2>3
    <3>4. /\ SubSeq(tb.free, 1, m - 1) \in Seq(1 .. MaxSlots)
          /\ Len(SubSeq(tb.free, 1, m - 1)) = IF 1 <= m - 1 THEN (m - 1) - 1 + 1 ELSE 0
          /\ \A k \in 1 .. (m - 1) - 1 + 1 : SubSeq(tb.free, 1, m - 1)[k] = tb.free[1 + k - 1]
      BY ONLY <3>2, <3>3, SubSeqProperties
    <3>5. DOMAIN tc.free = 1 .. m - 1
      BY <2>7, <3>3, <3>4, SeqEntries
    <3>6. \A k \in 1 .. m - 1 : 1 + k - 1 = k
      OBVIOUS
    <3>7. QED
      BY <2>7, <3>2, <3>3, <3>4, <3>5, <3>6
  <2>10. \A j, k \in 1 .. m : tb.free[j] = tb.free[k] => j = k
    BY <2>3 DEF TableOK, IsInjective
  <2>11. \A k \in 1 .. m - 1 : tc.free[k] \in 1 .. l /\ tc.free[k] # i
    <3>1. \A k \in 1 .. m : tb.free[k] \in 1 .. l
      BY <1>3, <2>3 DEF TableOK
    <3>2. ASSUME NEW k \in 1 .. m - 1 PROVE tb.free[k] # i
      BY <2>2, <2>3, <2>4, <2>10
    <3>3. QED
      BY <2>9, <3>1, <3>2
  <2>12. TableOK(tc)
    <3>1. tc \in [slots : Seq(T!Slot), free : Seq(1 .. MaxSlots)]
      BY <2>7, <2>8, <2>9
    <3>2. ASSUME NEW k \in DOMAIN tc.free
          PROVE  /\ tc.free[k] \in DOMAIN tc.slots
                 /\ tc.slots[tc.free[k]].state = "Dead" /\ tc.slots[tc.free[k]].pins = 0
      <4>1. k \in 1 .. m - 1 /\ k \in 1 .. m
        BY <2>9, <3>2
      <4>2. tb.slots[tb.free[k]].state = "Dead" /\ tb.slots[tb.free[k]].pins = 0
        BY <2>3, <4>1 DEF TableOK
      <4>3. tc.slots[tc.free[k]] = tb.slots[tb.free[k]]
        BY <2>8, <2>9, <2>11, <4>1
      <4>4. QED
        BY <2>8, <2>11, <4>1, <4>2, <4>3
    <3>3. IsInjective(tc.free)
      BY <2>9, <2>10 DEF IsInjective
    <3>4. QED
      BY <1>2, <2>8, <3>1, <3>2, <3>3 DEF TableOK
  <2>13. \A g \in H : g.index = i => g.generation < n.generation
    BY <1>3, <1>4, <1>5, <2>5, <2>6
  <2>14. n \notin H
    BY <1>4, <2>6, <2>13
  <2>15. HandlesOK(tc, H \cup {n})
    <3>1. ASSUME NEW h \in H
          PROVE  h \in T!Handle /\ h.index \in DOMAIN tc.slots /\ h.generation <= tc.slots[h.index].generation
      <4>1. CASE h.index = i
        BY <1>4, <1>5, <2>5, <2>8, <2>13, <4>1
      <4>2. CASE h.index # i
        BY <1>5, <2>8, <4>2
      <4>3. QED
        BY <4>1, <4>2
    <3>2. n.index \in DOMAIN tc.slots /\ n.generation <= tc.slots[n.index].generation
      BY <1>4, <2>5, <2>6, <2>8
    <3>3. QED
      BY <3>1, <3>2 DEF HandlesOK
  <2>16. T!StateOf(tc, n) = "AliveConnected"
    BY <1>4, <2>5, <2>6, <2>8 DEF T!StateOf, T!Current
  <2>17. ASSUME NEW g \in H
         PROVE  T!StateOf(tc, g) = T!StateOf(tb, g)
    <3>1. CASE g.index = i
      <4>1. T!StateOf(tb, g) = "Dead"
        BY <2>5, <3>1 DEF T!StateOf
      <4>2. ~T!Current(tc, g)
        BY <1>4, <1>5, <2>5, <2>8, <2>13, <3>1 DEF T!Current
      <4>3. QED
        BY <4>1, <4>2 DEF T!StateOf
    <3>2. CASE g.index # i
      BY <1>3, <1>5, <2>8, <3>2 DEF T!StateOf, T!Current
    <3>3. QED
      BY <3>1, <3>2
  <2>18. SamePins(tb, tc) /\ PinsAt(tc, n.index) = 0
    <3>1. tb.slots[i].pins = 0
      BY <2>2, <2>4 DEF TableOK
    <3>2. QED
      BY <1>3, <1>4, <2>5, <2>6, <2>8, <3>1 DEF SamePins, PinsAt
  <2>19. QED
    BY <2>12, <2>14, <2>15, <2>16, <2>17, <2>18
<1>8. QED
  BY <1>6, <1>7

-----------------------------------------------------------------------------
(* Trees                                                                   *)

St(t, h) == T!StateOf(t.table, h)

Kin(D) == [type : AllTypes \cup {"document"}, parent : D \cup {Null}, children : Seq(D)]

\* Parents and children are handles that were given out; the root is alive.
WellMade(t) ==
  /\ t = [table |-> t.table, nodes |-> t.nodes]
  /\ TableOK(t.table) /\ HandlesOK(t.table, DOMAIN t.nodes)
  /\ t.nodes \in [DOMAIN t.nodes -> Kin(DOMAIN t.nodes)]
  /\ HasCore(t, root)

\* ParentsAgree, Acyclic and StateIsConnectivity of any tree.
Agree(t) ==
  \A p \in DOMAIN t.nodes : HasCore(t, p) =>
    /\ IsInjective(t.nodes[p].children)
    /\ \A c \in DOMAIN t.nodes : HasCore(t, c) => (c \in Kids(t, p) <=> t.nodes[c].parent = p)

NoCycle(t) ==
  \A h \in DOMAIN t.nodes : HasCore(t, h) => h \notin AncestorsOrSelf(t, t.nodes[h].parent)

AllOpen(t, h) == \A x \in AncestorsOrSelf(t, h) : Open(t, x)

Cached(t) ==
  \A h \in DOMAIN t.nodes : HasCore(t, h) /\ AllOpen(t, h) =>
    (St(t, h) = "AliveConnected" <=> IsConnected(t, h))

\* What every mutation keeps of the tree.
Sound(t) ==
  /\ WellMade(t) /\ Agree(t) /\ NoCycle(t)
  /\ ~RootMoves => t.nodes[root].parent = Null /\ Cached(t)

\* The parent of a node is a node or Null, which is none.
Upwards(t) ==
  /\ Null \notin DOMAIN t.nodes
  /\ \A x \in DOMAIN t.nodes : t.nodes[x].parent \in DOMAIN t.nodes \cup {Null}

(* A node has a core and is open by the state its handle shows.            *)
LEMMA CoreIsState ==
  ASSUME NEW t, NEW h
  PROVE  /\ HasCore(t, h) <=> h \in DOMAIN t.nodes /\ St(t, h) # "Dead"
         /\ Open(t, h) <=> St(t, h) \in {"AliveConnected", "AliveDetached"}
BY ResolvesIsState DEF HasCore, Open, St

\* From t to u no node came to life, died, was pinned or unpinned; new ones may have
\* been created, which are not pinned.
Lives(t, u) ==
  /\ DOMAIN t.nodes \subseteq DOMAIN u.nodes
  /\ \A h \in DOMAIN t.nodes : HasCore(u, h) <=> HasCore(t, h)
  /\ SamePins(t.table, u.table)
  /\ \A h \in DOMAIN u.nodes \ DOMAIN t.nodes : PinsAt(u.table, h.index) = 0

(* Lives go on from tree to tree.                                          *)
LEMMA LivesOn ==
  ASSUME NEW t
  PROVE  Lives(t, t) /\ \A u, v : Lives(t, u) /\ Lives(u, v) => Lives(t, v)
BY DEF Lives, SamePins

(* What a well made tree says of one node.                                 *)
LEMMA NodeParts ==
  ASSUME NEW t, WellMade(t)
  PROVE  /\ Upwards(t) /\ root \in DOMAIN t.nodes /\ DOMAIN t.nodes \subseteq T!Handle
         /\ \A x \in DOMAIN t.nodes :
              /\ t.nodes[x] \in Kin(DOMAIN t.nodes)
              /\ t.nodes[x].parent \in DOMAIN t.nodes \cup {Null}
              /\ t.nodes[x].children \in Seq(DOMAIN t.nodes)
              /\ Kids(t, x) \subseteq DOMAIN t.nodes
<1>1. \A x \in DOMAIN t.nodes : t.nodes[x] \in Kin(DOMAIN t.nodes)
  BY DEF WellMade
<1>2. \A x \in DOMAIN t.nodes : /\ t.nodes[x].parent \in DOMAIN t.nodes \cup {Null}
                                /\ t.nodes[x].children \in Seq(DOMAIN t.nodes)
  BY <1>1 DEF Kin
<1>3. ASSUME NEW x \in DOMAIN t.nodes
      PROVE  Kids(t, x) \subseteq DOMAIN t.nodes
  <2>1. PICK s \in Seq(DOMAIN t.nodes) : s = t.nodes[x].children
    BY <1>2
  <2>2. ToSet(s) \subseteq DOMAIN t.nodes
    BY SeqEntries DEF ToSet
  <2>3. QED
    BY <2>1, <2>2 DEF Kids
<1>4. root \in DOMAIN t.nodes /\ DOMAIN t.nodes \subseteq T!Handle
  BY DEF WellMade, HasCore, HandlesOK
<1>5. Upwards(t)
  BY <1>2, <1>4, HandleNumbers DEF Upwards
<1>6. QED
  BY <1>1, <1>2, <1>3, <1>4, <1>5

-----------------------------------------------------------------------------
(* Ancestors                                                               *)

(* The ancestors are the least set that goes up with the parents.          *)
LEMMA AncestorsLeast ==
  ASSUME NEW t, NEW S \in SUBSET DOMAIN t.nodes, NEW h \in S \cup {Null}, UpClosed(t, S)
  PROVE  AncestorsOrSelf(t, h) \subseteq S
BY DEF AncestorsOrSelf

LEMMA AncestorsClosed ==
  ASSUME NEW t, Upwards(t), NEW h \in DOMAIN t.nodes \cup {Null}
  PROVE  /\ AncestorsOrSelf(t, h) \subseteq DOMAIN t.nodes
         /\ UpClosed(t, AncestorsOrSelf(t, h))
         /\ h \in AncestorsOrSelf(t, h) \cup {Null}
<1>1. \A x \in AncestorsOrSelf(t, h) : t.nodes[x].parent \in DOMAIN t.nodes \cup {Null}
  BY DEF AncestorsOrSelf, Upwards
<1>2. ASSUME NEW x \in AncestorsOrSelf(t, h), HasCore(t, x), t.nodes[x].parent # Null
      PROVE  t.nodes[x].parent \in AncestorsOrSelf(t, h)
  BY <1>1, <1>2 DEF AncestorsOrSelf, UpClosed
<1>3. QED
  BY <1>2 DEF AncestorsOrSelf, UpClosed

LEMMA NoAncestors ==
  ASSUME NEW t
  PROVE  AncestorsOrSelf(t, Null) = {}
<1>1. PICK S \in SUBSET DOMAIN t.nodes : S = {}
  OBVIOUS
<1>2. Null \in S \cup {Null} /\ UpClosed(t, S)
  BY <1>1 DEF UpClosed
<1>3. AncestorsOrSelf(t, Null) \subseteq S
  BY <1>2, AncestorsLeast
<1>4. QED
  BY <1>1, <1>3

(* The ancestors of an ancestor.                                           *)
LEMMA AncestorsAbove ==
  ASSUME NEW t, Upwards(t), NEW h \in DOMAIN t.nodes \cup {Null},
         NEW x \in AncestorsOrSelf(t, h) \cup {Null}
  PROVE  AncestorsOrSelf(t, x) \subseteq AncestorsOrSelf(t, h)
BY AncestorsClosed, AncestorsLeast

(* A node and the ancestors of its parent.                                 *)
LEMMA AncestorsStep ==
  ASSUME NEW t, Upwards(t), NEW h, HasCore(t, h)
  PROVE  AncestorsOrSelf(t, h) = {h} \cup AncestorsOrSelf(t, t.nodes[h].parent)
<1>1. PICK p : p = t.nodes[h].parent
  OBVIOUS
<1>2. h \in DOMAIN t.nodes /\ p \in DOMAIN t.nodes \cup {Null} /\ h # Null
  BY <1>1 DEF HasCore, Upwards
<1>3. h \in AncestorsOrSelf(t, h) /\ p \in AncestorsOrSelf(t, h) \cup {Null}
  BY <1>1, <1>2, AncestorsClosed DEF UpClosed
<1>4. AncestorsOrSelf(t, p) \subseteq AncestorsOrSelf(t, h)
  BY <1>2, <1>3, AncestorsAbove
<1>5. PICK S : S = {h} \cup AncestorsOrSelf(t, p)
  OBVIOUS
<1>6. S \in SUBSET DOMAIN t.nodes /\ h \in S
  BY <1>2, <1>5, AncestorsClosed
<1>7. UpClosed(t, S)
  BY <1>1, <1>2, <1>5, AncestorsClosed DEF UpClosed
<1>8. AncestorsOrSelf(t, h) \subseteq S
  BY <1>6, <1>7, AncestorsLeast
<1>9. QED
  BY <1>1, <1>3, <1>4, <1>5, <1>8

(* In a tree whose chain from h kept its parents, or lost cores, the chain *)
(* is no longer.                                                           *)
LEMMA AncestorsKept ==
  ASSUME NEW t, Upwards(t), NEW u, NEW h \in DOMAIN t.nodes \cup {Null},
         AncestorsOrSelf(t, h) \subseteq DOMAIN u.nodes,
         \A x \in AncestorsOrSelf(t, h) :
           HasCore(u, x) => HasCore(t, x) /\ u.nodes[x].parent = t.nodes[x].parent
  PROVE  AncestorsOrSelf(u, h) \subseteq AncestorsOrSelf(t, h)
<1>1. PICK S : S = AncestorsOrSelf(t, h)
  OBVIOUS
<1>2. UpClosed(t, S) /\ h \in S \cup {Null}
  BY <1>1, AncestorsClosed
<1>3. UpClosed(u, S)
  BY <1>1, <1>2 DEF UpClosed
<1>4. AncestorsOrSelf(u, h) \subseteq S
  BY <1>1, <1>2, <1>3, AncestorsLeast
<1>5. QED
  BY <1>1, <1>4

-----------------------------------------------------------------------------
(* Nodes that get another parent                                           *)

\* From t to u the nodes of C get the parent q, a node or Null; nothing else moves.
Relinked(t, u, C, q) ==
  /\ DOMAIN u.nodes = DOMAIN t.nodes
  /\ \A x \in DOMAIN t.nodes : (HasCore(u, x) <=> HasCore(t, x)) /\ (Open(u, x) <=> Open(t, x))
  /\ \A x \in DOMAIN t.nodes : HasCore(t, x) =>
       /\ u.nodes[x].parent = IF x \in C THEN q ELSE t.nodes[x].parent
       /\ IsInjective(u.nodes[x].children)
       /\ \A y \in DOMAIN t.nodes : HasCore(t, y) =>
            (y \in Kids(u, x) <=> IF y \in C THEN x = q ELSE y \in Kids(t, x))

LEMMA RelinkedAgrees ==
  ASSUME NEW t, Agree(t), NEW u, NEW C, NEW q, Relinked(t, u, C, q)
  PROVE  Agree(u)
<1>1. ASSUME NEW p \in DOMAIN u.nodes, HasCore(u, p)
      PROVE  /\ IsInjective(u.nodes[p].children)
             /\ \A c \in DOMAIN u.nodes : HasCore(u, c) => (c \in Kids(u, p) <=> u.nodes[c].parent = p)
  <2>1. p \in DOMAIN t.nodes /\ HasCore(t, p)
    BY <1>1 DEF Relinked
  <2>2. IsInjective(u.nodes[p].children)
    BY <2>1 DEF Relinked
  <2>3. ASSUME NEW c \in DOMAIN u.nodes, HasCore(u, c)
        PROVE  c \in Kids(u, p) <=> u.nodes[c].parent = p
    <3>1. c \in DOMAIN t.nodes /\ HasCore(t, c)
      BY <2>3 DEF Relinked
    <3>2. c \in Kids(t, p) <=> t.nodes[c].parent = p
      BY <2>1, <3>1 DEF Agree
    <3>3. c \in Kids(u, p) <=> IF c \in C THEN p = q ELSE c \in Kids(t, p)
      BY <2>1, <3>1 DEF Relinked
    <3>4. u.nodes[c].parent = IF c \in C THEN q ELSE t.nodes[c].parent
      BY <3>1 DEF Relinked
    <3>5. QED
      BY <3>2, <3>3, <3>4
  <2>4. QED
    BY <2>2, <2>3
<1>2. QED
  BY <1>1 DEF Agree

(* The chain from a node that meets no node of C stays as it is, in both   *)
(* directions.                                                             *)
LEMMA RelinkedChain ==
  ASSUME NEW t, Upwards(t), NEW u, Upwards(u), NEW C, NEW q, Relinked(t, u, C, q),
         NEW h \in DOMAIN t.nodes \cup {Null},
         \/ C \cap AncestorsOrSelf(t, h) = {}
         \/ C \cap AncestorsOrSelf(u, h) = {}
  PROVE  AncestorsOrSelf(u, h) = AncestorsOrSelf(t, h)
<1>1. DOMAIN u.nodes = DOMAIN t.nodes
  BY DEF Relinked
<1>2. \A x \in DOMAIN t.nodes : x \notin C =>
        /\ HasCore(u, x) <=> HasCore(t, x)
        /\ HasCore(t, x) => u.nodes[x].parent = t.nodes[x].parent
  BY DEF Relinked
<1>3. AncestorsOrSelf(t, h) \subseteq DOMAIN t.nodes /\ AncestorsOrSelf(u, h) \subseteq DOMAIN t.nodes
  BY <1>1, AncestorsClosed
<1>4. ASSUME C \cap AncestorsOrSelf(t, h) = {}
      PROVE  AncestorsOrSelf(u, h) \subseteq AncestorsOrSelf(t, h)
  <2>1. \A x \in AncestorsOrSelf(t, h) :
          HasCore(u, x) => HasCore(t, x) /\ u.nodes[x].parent = t.nodes[x].parent
    BY <1>2, <1>3, <1>4
  <2>2. QED
    BY <1>1, <1>3, <2>1, AncestorsKept
<1>5. ASSUME C \cap AncestorsOrSelf(u, h) = {}
      PROVE  AncestorsOrSelf(t, h) \subseteq AncestorsOrSelf(u, h)
  <2>1. \A x \in AncestorsOrSelf(u, h) :
          HasCore(t, x) => HasCore(u, x) /\ t.nodes[x].parent = u.nodes[x].parent
    BY <1>2, <1>3, <1>5
  <2>2. QED
    BY <1>1, <1>3, <2>1, AncestorsKept
<1>6. QED
  BY <1>4, <1>5

(* No node comes below itself when no node of C is above q.                *)
LEMMA RelinkedNoCycle ==
  ASSUME NEW t, Upwards(t), NoCycle(t), NEW u, Upwards(u), NEW C,
         NEW q \in DOMAIN t.nodes \cup {Null}, Relinked(t, u, C, q),
         C \cap AncestorsOrSelf(t, q) = {}
  PROVE  NoCycle(u)
<1>1. SUFFICES ASSUME NEW h \in DOMAIN t.nodes, HasCore(t, h)
               PROVE  h \notin AncestorsOrSelf(u, u.nodes[h].parent)
  BY DEF NoCycle, Relinked
<1>2. AncestorsOrSelf(u, q) = AncestorsOrSelf(t, q)
  BY RelinkedChain
<1>3. CASE h \in C
  <2>1. u.nodes[h].parent = q
    BY <1>1, <1>3 DEF Relinked
  <2>2. QED
    BY <1>2, <1>3, <2>1
<1>4. CASE h \notin C
  <2>1. PICK g : g = t.nodes[h].parent
    OBVIOUS
  <2>2. u.nodes[h].parent = g /\ g \in DOMAIN t.nodes \cup {Null} /\ h \notin AncestorsOrSelf(t, g)
    BY <1>1, <1>4, <2>1 DEF Relinked, Upwards, NoCycle
  <2>3. CASE h \in AncestorsOrSelf(t, q)
    <3>1. g \in AncestorsOrSelf(t, q) \cup {Null}
      BY <1>1, <2>1, <2>3, AncestorsClosed DEF UpClosed
    <3>2. AncestorsOrSelf(t, g) \subseteq AncestorsOrSelf(t, q)
      BY <3>1, AncestorsAbove
    <3>3. AncestorsOrSelf(u, g) = AncestorsOrSelf(t, g)
      BY <2>2, <3>2, RelinkedChain
    <3>4. QED
      BY <2>2, <3>3
  <2>4. CASE h \notin AncestorsOrSelf(t, q)
    <3>1. PICK S : S = AncestorsOrSelf(t, g) \cup AncestorsOrSelf(t, q)
      OBVIOUS
    <3>2. S \in SUBSET DOMAIN u.nodes /\ g \in S \cup {Null}
      BY <2>2, <3>1, AncestorsClosed DEF Relinked
    <3>3. ASSUME NEW x \in S, HasCore(u, x)
          PROVE  u.nodes[x].parent \in S \cup {Null}
      <4>1. x \in DOMAIN t.nodes /\ HasCore(t, x)
        BY <3>2, <3>3 DEF Relinked
      <4>2. u.nodes[x].parent = IF x \in C THEN q ELSE t.nodes[x].parent
        BY <4>1 DEF Relinked
      <4>3. q \in S \cup {Null}
        BY <3>1, AncestorsClosed
      <4>4. t.nodes[x].parent \in S \cup {Null}
        BY <2>2, <3>1, <3>3, <4>1, AncestorsClosed DEF UpClosed
      <4>5. QED
        BY <4>2, <4>3, <4>4
    <3>4. AncestorsOrSelf(u, g) \subseteq S
      BY <3>2, <3>3, AncestorsLeast DEF UpClosed
    <3>5. QED
      BY <2>2, <2>4, <3>1, <3>4
  <2>5. QED
    BY <2>3, <2>4
<1>5. QED
  BY <1>3, <1>4

-----------------------------------------------------------------------------
(* Nodes whose state update_connected_state sets                           *)

\* V is what is visited from the nodes of C in the tree w: the open nodes of C and
\* what is open below them.
Reached(w, C, V) ==
  /\ \A x \in V : Open(w, x)
  /\ \A x \in C : Open(w, x) => x \in V
  /\ DownClosed(w, V)
  /\ \A S \in SUBSET DOMAIN w.nodes :
       (\A x \in C : Open(w, x) => x \in S) /\ DownClosed(w, S) => V \subseteq S

AllVisited(t, C) == UNION {Visited(t, h) : h \in C}

StateFor(connected) == IF connected THEN "AliveConnected" ELSE "AliveDetached"

\* From t to u the nodes of V get the state st.
StatesSet(t, u, V, st) == \A x \in DOMAIN t.nodes : St(u, x) = IF x \in V THEN st ELSE St(t, x)

(* The visits from the nodes of C reach just that.                         *)
LEMMA VisitedReached ==
  ASSUME NEW t, WellMade(t), NEW C \in SUBSET DOMAIN t.nodes
  PROVE  AllVisited(t, C) \subseteq DOMAIN t.nodes /\ Reached(t, C, AllVisited(t, C))
<1>1. PICK V : V = AllVisited(t, C)
  OBVIOUS
<1>2. \A h \in C : Visited(t, h) \subseteq DOMAIN t.nodes
  BY DEF Visited
<1>3. V = UNION {Visited(t, h) : h \in C} /\ V \subseteq DOMAIN t.nodes
  BY <1>1, <1>2 DEF AllVisited
<1>4. PICK D \in SUBSET DOMAIN t.nodes : D = {x \in DOMAIN t.nodes : Open(t, x)}
  OBVIOUS
<1>5. DownClosed(t, D) /\ \A h \in C : Open(t, h) => h \in D
  <2>1. \A x \in DOMAIN t.nodes : Kids(t, x) \subseteq DOMAIN t.nodes
    BY NodeParts
  <2>2. QED
    BY <1>4, <2>1 DEF DownClosed
<1>6. ASSUME NEW h \in C
      PROVE  /\ Visited(t, h) \subseteq D
             /\ Open(t, h) => h \in Visited(t, h)
             /\ DownClosed(t, Visited(t, h))
  <2>1. Visited(t, h) \subseteq D
    BY <1>5 DEF Visited
  <2>2. Open(t, h) => h \in Visited(t, h)
    BY DEF Visited
  <2>3. ASSUME NEW x \in Visited(t, h), NEW y \in Kids(t, x), Open(t, y)
        PROVE  y \in Visited(t, h)
    <3>1. y \in DOMAIN t.nodes
      <4>1. x \in DOMAIN t.nodes
        BY <2>1
      <4>2. QED
        BY <2>3, <4>1, NodeParts
    <3>2. QED
      BY <2>3, <3>1 DEF Visited, DownClosed
  <2>4. DownClosed(t, Visited(t, h))
    BY <2>3 DEF DownClosed
  <2>5. QED
    BY <2>1, <2>2, <2>4
<1>7. \A x \in V : Open(t, x)
  BY <1>3, <1>4, <1>6
<1>8. \A x \in C : Open(t, x) => x \in V
  BY <1>3, <1>6
<1>9. DownClosed(t, V)
  <2>1. ASSUME NEW x \in V, NEW y \in Kids(t, x), Open(t, y)
        PROVE  y \in V
    <3>1. PICK h \in C : x \in Visited(t, h)
      BY <1>3
    <3>2. y \in Visited(t, h)
      BY <1>6, <2>1, <3>1 DEF DownClosed
    <3>3. QED
      BY <1>3, <3>2
  <2>2. QED
    BY <2>1 DEF DownClosed
<1>10. ASSUME NEW S \in SUBSET DOMAIN t.nodes, \A x \in C : Open(t, x) => x \in S, DownClosed(t, S)
      PROVE  V \subseteq S
  <2>1. \A h \in C : Visited(t, h) \subseteq S
    BY <1>10 DEF Visited
  <2>2. QED
    BY <1>3, <2>1
<1>11. QED
  BY <1>1, <1>3, <1>7, <1>8, <1>9, <1>10 DEF Reached

(* In the new tree u, what was visited from C, before or after, is what    *)
(* hangs below C on a chain of open nodes.                                 *)
LEMMA ReachedBelow ==
  ASSUME NEW t, WellMade(t), Agree(t), NEW u, WellMade(u), NEW C, NEW q, Relinked(t, u, C, q),
         NEW w \in {t, u}, NEW V \in SUBSET DOMAIN t.nodes, Reached(w, C, V),
         NEW h \in DOMAIN t.nodes, AllOpen(u, h)
  PROVE  h \in V <=> C \cap AncestorsOrSelf(u, h) # {}
<1>1. Upwards(u)
  BY NodeParts
<1>2. /\ DOMAIN u.nodes = DOMAIN t.nodes /\ DOMAIN w.nodes = DOMAIN t.nodes
      /\ \A x \in DOMAIN t.nodes : /\ HasCore(u, x) <=> HasCore(t, x)
                                   /\ Open(u, x) <=> Open(t, x)
                                   /\ Open(w, x) <=> Open(t, x)
  BY DEF Relinked
<1>3. \A x \in DOMAIN t.nodes : Open(t, x) => HasCore(t, x)
  BY CoreIsState
<1>4. ASSUME NEW x \in DOMAIN t.nodes, NEW y \in DOMAIN t.nodes, y \notin C,
             HasCore(t, x), HasCore(t, y)
      PROVE  /\ y \in Kids(w, x) <=> y \in Kids(t, x)
             /\ y \in Kids(t, x) <=> t.nodes[y].parent = x
             /\ u.nodes[y].parent = t.nodes[y].parent
  <2>1. y \in Kids(u, x) <=> y \in Kids(t, x)
    BY <1>4 DEF Relinked
  <2>2. y \in Kids(t, x) <=> t.nodes[y].parent = x
    BY <1>4 DEF Agree
  <2>3. u.nodes[y].parent = t.nodes[y].parent
    BY <1>4 DEF Relinked
  <2>4. QED
    BY <2>1, <2>2, <2>3
<1>5. AncestorsOrSelf(u, h) \subseteq DOMAIN t.nodes /\ h \in AncestorsOrSelf(u, h)
  <2>1. h # Null
    BY <1>1, <1>2 DEF Upwards
  <2>2. QED
    BY <1>1, <1>2, <2>1, AncestorsClosed
<1>6. ASSUME NEW c \in C, c \in AncestorsOrSelf(u, h)
      PROVE  h \in V
  <2>1. SUFFICES ASSUME h \notin V
                 PROVE  FALSE
    OBVIOUS
  <2>2. PICK N \in SUBSET DOMAIN u.nodes : N = AncestorsOrSelf(u, h) \ V
    BY <1>2, <1>5
  <2>3. ASSUME NEW y \in N, u.nodes[y].parent # Null
        PROVE  u.nodes[y].parent \in N
    <3>1. y \in DOMAIN t.nodes /\ y \in AncestorsOrSelf(u, h) /\ y \notin V
      BY <1>2, <2>2
    <3>2. Open(t, y) /\ Open(w, y)
      BY <1>2, <3>1 DEF AllOpen
    <3>3. y \notin C
      BY <3>1, <3>2 DEF Reached
    <3>4. HasCore(t, y) /\ HasCore(u, y)
      BY <1>2, <1>3, <3>1, <3>2
    <3>5. PICK g : g = u.nodes[y].parent
      OBVIOUS
    <3>6. g \in AncestorsOrSelf(u, h)
      BY <1>1, <1>2, <2>3, <3>1, <3>4, <3>5, AncestorsClosed DEF UpClosed
    <3>7. g \in DOMAIN t.nodes /\ Open(t, g) /\ HasCore(t, g)
      BY <1>2, <1>3, <1>5, <3>6 DEF AllOpen
    <3>8. y \in Kids(w, g)
      BY <1>4, <3>1, <3>3, <3>4, <3>5, <3>7
    <3>9. g \notin V
      BY <3>1, <3>2, <3>8 DEF Reached, DownClosed
    <3>10. QED
      BY <2>2, <3>5, <3>6, <3>9
  <2>4. UpClosed(u, N)
    BY <2>3 DEF UpClosed
  <2>5. AncestorsOrSelf(u, h) \subseteq N
    BY <1>5, <2>1, <2>2, <2>4, AncestorsLeast
  <2>6. c \notin V /\ Open(w, c)
    BY <1>2, <1>5, <1>6, <2>2, <2>5 DEF AllOpen
  <2>7. QED
    BY <2>6 DEF Reached
<1>7. ASSUME h \in V
      PROVE  C \cap AncestorsOrSelf(u, h) # {}
  <2>1. PICK S \in SUBSET DOMAIN t.nodes :
          S = {x \in DOMAIN t.nodes : Open(t, x) /\ C \cap AncestorsOrSelf(u, x) # {}}
    OBVIOUS
  <2>2. \A x \in DOMAIN t.nodes : x \in AncestorsOrSelf(u, x)
    <3>1. ASSUME NEW x \in DOMAIN t.nodes
          PROVE  x \in AncestorsOrSelf(u, x)
      <4>1. x # Null /\ x \in DOMAIN u.nodes
        BY <1>1, <1>2 DEF Upwards
      <4>2. QED
        BY <1>1, <4>1, AncestorsClosed
    <3>2. QED
      BY <3>1
  <2>3. \A x \in C : Open(w, x) => x \in S
    <3>1. ASSUME NEW x \in C, Open(w, x)
          PROVE  x \in S
      <4>1. x \in V
        BY <3>1 DEF Reached
      <4>2. x \in DOMAIN t.nodes
        BY <4>1
      <4>3. QED
        BY <1>2, <2>1, <2>2, <3>1, <4>2
    <3>2. QED
      BY <3>1
  <2>4. ASSUME NEW x \in S, NEW y \in Kids(w, x), Open(w, y), y \in DOMAIN t.nodes
        PROVE  y \in S
    <3>1. Open(t, y) /\ HasCore(t, y) /\ HasCore(u, y) /\ x \in DOMAIN t.nodes /\ HasCore(t, x)
      BY <1>2, <1>3, <2>1, <2>4
    <3>2. CASE y \in C
      BY <2>1, <2>2, <2>4, <3>1, <3>2
    <3>3. CASE y \notin C
      <4>1. u.nodes[y].parent = x
        BY <1>4, <2>4, <3>1, <3>3
      <4>2. AncestorsOrSelf(u, x) \subseteq AncestorsOrSelf(u, y)
        BY <1>1, <3>1, <4>1, AncestorsStep
      <4>3. QED
        BY <2>1, <2>4, <3>1, <4>2
    <3>4. QED
      BY <3>2, <3>3
  <2>5. \A x \in S : Kids(w, x) \subseteq DOMAIN t.nodes
    <3>1. \A x \in DOMAIN w.nodes : Kids(w, x) \subseteq DOMAIN w.nodes
      BY NodeParts
    <3>2. QED
      BY <1>2, <3>1
  <2>6. DownClosed(w, S)
    BY <2>4, <2>5 DEF DownClosed
  <2>7. V \subseteq S
    BY <1>2, <2>3, <2>6 DEF Reached
  <2>8. QED
    BY <1>7, <2>1, <2>7
<1>8. QED
  BY <1>6, <1>7

(* The states stay true to the tree when what was visited from C gets the  *)
(* state that the new parent q calls for.                                  *)
LEMMA RelinkedCached ==
  ASSUME NEW t, WellMade(t), Agree(t), Cached(t), NEW u, WellMade(u),
         NEW C \in SUBSET DOMAIN t.nodes, NEW q \in DOMAIN t.nodes \cup {Null}, Relinked(t, u, C, q),
         t.nodes[root].parent = Null, root \notin C,
         NEW w \in {t, u}, NEW V \in SUBSET DOMAIN t.nodes, Reached(w, C, V),
         NEW st, st = "AliveConnected" <=> root \in AncestorsOrSelf(u, q),
         StatesSet(t, u, V, st)
  PROVE  u.nodes[root].parent = Null /\ Cached(u)
<1>1. /\ Upwards(t) /\ Upwards(u) /\ DOMAIN u.nodes = DOMAIN t.nodes
      /\ root \in DOMAIN t.nodes /\ HasCore(t, root) /\ HasCore(u, root)
  BY NodeParts DEF WellMade, Relinked
<1>2. u.nodes[root].parent = Null
  BY <1>1 DEF Relinked
<1>3. SUFFICES ASSUME NEW h \in DOMAIN t.nodes, HasCore(u, h), AllOpen(u, h)
               PROVE  St(u, h) = "AliveConnected" <=> root \in AncestorsOrSelf(u, h)
  BY <1>1, <1>2 DEF Cached, IsConnected
<1>4. h \in V <=> C \cap AncestorsOrSelf(u, h) # {}
  BY <1>3, ReachedBelow
<1>5. AncestorsOrSelf(u, h) \subseteq DOMAIN t.nodes
  BY <1>1, AncestorsClosed
<1>6. CASE C \cap AncestorsOrSelf(u, h) = {}
  <2>1. AncestorsOrSelf(u, h) = AncestorsOrSelf(t, h)
    BY <1>1, <1>6, RelinkedChain
  <2>2. HasCore(t, h) /\ AllOpen(t, h)
    BY <1>3, <1>5, <2>1 DEF AllOpen, Relinked
  <2>3. St(t, h) = "AliveConnected" <=> root \in AncestorsOrSelf(t, h)
    BY <2>2 DEF Cached, IsConnected
  <2>4. QED
    BY <1>4, <1>6, <2>1, <2>3 DEF StatesSet
<1>7. CASE C \cap AncestorsOrSelf(u, h) # {}
  <2>1. PICK c \in C : c \in AncestorsOrSelf(u, h)
    BY <1>7
  <2>2. c \in DOMAIN t.nodes /\ HasCore(t, c) /\ HasCore(u, c)
    <3>1. Open(u, c)
      BY <1>3, <2>1 DEF AllOpen
    <3>2. HasCore(u, c)
      BY <1>1, <2>1, <3>1, CoreIsState
    <3>3. QED
      BY <2>1, <3>2 DEF Relinked
  <2>3. u.nodes[c].parent = q
    BY <2>1, <2>2 DEF Relinked
  <2>4. AncestorsOrSelf(u, q) \subseteq AncestorsOrSelf(u, h)
    <3>1. AncestorsOrSelf(u, c) = {c} \cup AncestorsOrSelf(u, q)
      BY <1>1, <2>2, <2>3, AncestorsStep
    <3>2. AncestorsOrSelf(u, c) \subseteq AncestorsOrSelf(u, h)
      BY <1>1, <2>1, AncestorsAbove
    <3>3. QED
      BY <3>1, <3>2
  <2>5. ASSUME root \in AncestorsOrSelf(u, h)
        PROVE  root \in AncestorsOrSelf(u, q)
    <3>1. PICK S \in SUBSET DOMAIN u.nodes :
            S = {x \in AncestorsOrSelf(u, h) : c \in AncestorsOrSelf(u, x)} \cup AncestorsOrSelf(u, q)
      BY <1>1, <1>5, <2>4
    <3>2. ASSUME NEW x \in S, HasCore(u, x), x \notin AncestorsOrSelf(u, q)
          PROVE  u.nodes[x].parent \in S \cup {Null}
      <4>1. PICK g : g = u.nodes[x].parent
        OBVIOUS
      <4>2. x \in AncestorsOrSelf(u, h) /\ c \in AncestorsOrSelf(u, x)
        BY <3>1, <3>2
      <4>3. CASE x = c
        BY <1>1, <2>3, <3>1, <4>3, AncestorsClosed
      <4>4. CASE x # c
        <5>1. c \in AncestorsOrSelf(u, g)
          BY <1>1, <3>2, <4>1, <4>2, <4>4, AncestorsStep
        <5>2. g \in AncestorsOrSelf(u, h) \cup {Null}
          BY <1>1, <3>2, <4>1, <4>2, AncestorsClosed DEF UpClosed
        <5>3. QED
          BY <3>1, <4>1, <5>1, <5>2
      <4>5. QED
        BY <4>3, <4>4
    <3>3. UpClosed(u, S)
      <4>1. UpClosed(u, AncestorsOrSelf(u, q))
        BY <1>1, AncestorsClosed
      <4>2. QED
        BY <3>1, <3>2, <4>1 DEF UpClosed
    <3>4. h \in S
      <4>1. h # Null /\ h \in DOMAIN u.nodes
        BY <1>1 DEF Upwards
      <4>2. h \in AncestorsOrSelf(u, h)
        BY <1>1, <4>1, AncestorsClosed
      <4>3. QED
        BY <2>1, <3>1, <4>2
    <3>5. AncestorsOrSelf(u, h) \subseteq S
      BY <3>3, <3>4, AncestorsLeast
    <3>6. CASE c \in AncestorsOrSelf(u, root)
      <4>1. AncestorsOrSelf(u, root) = {root} \cup AncestorsOrSelf(u, Null)
        BY <1>1, <1>2, AncestorsStep
      <4>2. AncestorsOrSelf(u, root) = {root}
        BY <4>1, NoAncestors
      <4>3. QED
        BY <2>1, <3>6, <4>2
    <3>7. QED
      BY <2>5, <3>1, <3>5, <3>6
  <2>6. root \in AncestorsOrSelf(u, h) <=> root \in AncestorsOrSelf(u, q)
    BY <2>4, <2>5
  <2>7. St(u, h) = st
    BY <1>4, <1>7 DEF StatesSet
  <2>8. QED
    BY <2>6, <2>7
<1>8. QED
  BY <1>6, <1>7

(* Setting the state of what is visited from C changes nothing but that.   *)
LEMMA ConnectedStateSet ==
  ASSUME NEW t, WellMade(t), NEW C \in SUBSET DOMAIN t.nodes, NEW con \in BOOLEAN,
         NEW u, u = WithConnectedState(t, C, con)
  PROVE  /\ u = [table |-> u.table, nodes |-> t.nodes] /\ Touched(t.table, u.table)
         /\ \A h \in T!Handle : St(u, h) = IF h \in AllVisited(t, C) THEN StateFor(con) ELSE St(t, h)
         /\ SamePins(t.table, u.table)
<1>1. PICK V, st : V = AllVisited(t, C) /\ st = StateFor(con)
  OBVIOUS
<1>2. V \subseteq DOMAIN t.nodes /\ \A x \in V : Open(t, x)
  <2>1. V \subseteq DOMAIN t.nodes /\ Reached(t, C, V)
    BY <1>1, VisitedReached
  <2>2. QED
    BY <2>1 DEF Reached
<1>3. PICK tb, I : tb = t.table /\ I = {x.index : x \in V}
  OBVIOUS
<1>4. TableOK(tb) /\ t = [table |-> tb, nodes |-> t.nodes] /\ DOMAIN t.nodes \subseteq T!Handle
  BY <1>3, NodeParts DEF WellMade
<1>5. /\ tb = [slots |-> tb.slots, free |-> tb.free]
      /\ \A i \in DOMAIN tb.slots : tb.slots[i] \in T!Slot
      /\ tb.slots = [i \in DOMAIN tb.slots |-> tb.slots[i]]
  BY <1>4, TableParts
<1>6. PICK sl : sl = [i \in DOMAIN tb.slots |->
                        IF i \in I THEN [tb.slots[i] EXCEPT !.state = st] ELSE tb.slots[i]]
  OBVIOUS
<1>7. u = [table |-> [slots |-> sl, free |-> tb.free], nodes |-> t.nodes]
  <2>1. u = [t EXCEPT !.table.slots = sl]
    BY <1>1, <1>3, <1>6 DEF WithConnectedState, AllVisited, StateFor
  <2>2. u = [t EXCEPT !.table = [t.table EXCEPT !.slots = sl]]
    BY <2>1
  <2>3. QED
    BY <1>3, <1>4, <1>5, <2>2
<1>8. st \in {"AliveConnected", "AliveDetached"}
  BY <1>1 DEF StateFor
<1>9. \A x \in V : x.index \in DOMAIN tb.slots /\ tb.slots[x.index].generation = x.generation
                   /\ tb.slots[x.index].state # "Dead"
  BY <1>2, <1>3 DEF Open, T!StateOf, T!Current
<1>10. ASSUME NEW i \in DOMAIN tb.slots
      PROVE  /\ sl[i] \in T!Slot /\ sl[i].generation = tb.slots[i].generation
             /\ tb.slots[i].state = "Dead" => sl[i] = tb.slots[i]
             /\ i \in I => sl[i].state = st
             /\ i \notin I => sl[i] = tb.slots[i]
             /\ sl[i].pins = tb.slots[i].pins
  <2>1. tb.slots[i] \in T!Slot
    BY <1>5
  <2>2. CASE i \notin I
    BY <1>6, <2>1, <2>2
  <2>3. CASE i \in I
    <3>1. tb.slots[i].state # "Dead"
      BY <1>3, <1>9, <2>3
    <3>2. sl[i] = [tb.slots[i] EXCEPT !.state = st]
      BY <1>6, <2>3
    <3>3. QED
      BY <1>8, <2>1, <2>3, <3>1, <3>2 DEF T!Slot, T!NodeStates
  <2>4. QED
    BY <2>2, <2>3
<1>11. DOMAIN sl = DOMAIN tb.slots /\ sl = [i \in DOMAIN tb.slots |-> sl[i]]
  BY <1>6
<1>12. Touched(tb, u.table)
  BY <1>5, <1>7, <1>10, <1>11 DEF Touched
<1>13. ASSUME NEW h \in T!Handle
       PROVE  St(u, h) = IF h \in V THEN st ELSE St(t, h)
  <2>1. CASE h \in V
    <3>1. h.index \in I /\ h.index \in DOMAIN sl /\ sl[h.index].generation = h.generation
      BY <1>3, <1>9, <1>10, <1>11, <2>1
    <3>2. QED
      BY <1>7, <1>10, <1>11, <2>1, <3>1 DEF St, T!StateOf, T!Current
  <2>2. CASE h \notin V /\ h.index \in I
    <3>1. PICK x \in V : h.index = x.index
      BY <1>3, <2>2
    <3>2. h.generation # tb.slots[h.index].generation
      BY <1>2, <1>4, <1>9, <2>2, <3>1, HandleParts
    <3>3. QED
      <4>1. h.index \in DOMAIN tb.slots /\ sl[h.index].generation # h.generation
        BY <1>9, <1>10, <3>1, <3>2
      <4>2. ~T!Current(u.table, h) /\ ~T!Current(t.table, h)
        BY <1>3, <1>7, <3>2, <4>1 DEF T!Current
      <4>3. QED
        BY <2>2, <4>2 DEF St, T!StateOf
  <2>3. CASE h \notin V /\ h.index \notin I
    BY <1>3, <1>7, <1>10, <1>11, <2>3 DEF St, T!StateOf, T!Current
  <2>4. QED
    BY <2>1, <2>2, <2>3
<1>14. SamePins(t.table, u.table)
  BY <1>3, <1>7, <1>10, <1>11 DEF SamePins, PinsAt
<1>15. QED
  BY <1>1, <1>3, <1>7, <1>12, <1>13, <1>14

(* A tree whose table was touched is well made, with the same live nodes.  *)
LEMMA TouchedTree ==
  ASSUME NEW t, NEW u, WellMade(t), Touched(t.table, u.table),
         u = [table |-> u.table, nodes |-> u.nodes], DOMAIN u.nodes = DOMAIN t.nodes,
         u.nodes \in [DOMAIN u.nodes -> Kin(DOMAIN u.nodes)], St(u, root) # "Dead"
  PROVE  WellMade(u)
<1>1. TableOK(t.table) /\ HandlesOK(t.table, DOMAIN t.nodes) /\ root \in DOMAIN t.nodes
  BY NodeParts DEF WellMade
<1>2. TableOK(u.table) /\ HandlesOK(u.table, DOMAIN t.nodes)
  BY <1>1, TouchedKeeps
<1>3. HasCore(u, root)
  BY <1>1, CoreIsState
<1>4. QED
  BY <1>2, <1>3 DEF WellMade

(* A tree with nodes relinked, and the states of what hangs below them     *)
(* set to match, is sound.                                                 *)
LEMMA RelinkedSound ==
  ASSUME NEW t, Sound(t), NEW u, WellMade(u), NEW C \in SUBSET DOMAIN t.nodes,
         NEW q \in DOMAIN t.nodes \cup {Null}, Relinked(t, u, C, q),
         C \cap AncestorsOrSelf(t, q) = {}, RootMoves \/ root \notin C,
         NEW w \in {t, u}, NEW V \in SUBSET DOMAIN t.nodes, Reached(w, C, V),
         NEW st, st = "AliveConnected" <=> root \in AncestorsOrSelf(t, q),
         StatesSet(t, u, V, st)
  PROVE  Sound(u)
<1>1. WellMade(t) /\ Agree(t) /\ NoCycle(t) /\ Upwards(t) /\ Upwards(u)
  BY NodeParts DEF Sound
<1>2. Agree(u)
  BY <1>1, RelinkedAgrees
<1>3. NoCycle(u)
  BY <1>1, RelinkedNoCycle
<1>4. AncestorsOrSelf(u, q) = AncestorsOrSelf(t, q)
  BY <1>1, RelinkedChain
<1>5. ASSUME ~RootMoves
      PROVE  u.nodes[root].parent = Null /\ Cached(u)
  <2>1. t.nodes[root].parent = Null /\ Cached(t) /\ root \notin C
    BY <1>5 DEF Sound
  <2>2. st = "AliveConnected" <=> root \in AncestorsOrSelf(u, q)
    BY <1>4
  <2>3. QED
    BY <1>1, <2>1, <2>2, RelinkedCached
<1>6. QED
  BY <1>2, <1>3, <1>5 DEF Sound

(* The tree m is t with C made children of q, whose connectivity is con.   *)
MovesTo(t, m, C, q, con) ==
  /\ Sound(t) /\ WellMade(m) /\ m.table = t.table
  /\ C \in SUBSET DOMAIN t.nodes /\ q \in DOMAIN t.nodes \cup {Null} /\ Relinked(t, m, C, q)
  /\ C \cap AncestorsOrSelf(t, q) = {} /\ (RootMoves \/ root \notin C)
  /\ con \in BOOLEAN /\ (con <=> root \in AncestorsOrSelf(t, q))

(* Setting the states after such a move keeps the tree sound.              *)
LEMMA RelinkedThenSet ==
  ASSUME NEW t, NEW m, NEW C, NEW q, NEW con, MovesTo(t, m, C, q, con),
         NEW u, u = WithConnectedState(m, C, con)
  PROVE  Sound(u) /\ DOMAIN u.nodes = DOMAIN t.nodes /\ Lives(t, u)
<1> SUFFICES ASSUME Sound(t), WellMade(m), m.table = t.table,
                    C \in SUBSET DOMAIN t.nodes, q \in DOMAIN t.nodes \cup {Null}, Relinked(t, m, C, q),
                    C \cap AncestorsOrSelf(t, q) = {}, RootMoves \/ root \notin C,
                    con \in BOOLEAN, con <=> root \in AncestorsOrSelf(t, q)
             PROVE  Sound(u) /\ DOMAIN u.nodes = DOMAIN t.nodes /\ Lives(t, u)
  BY DEF MovesTo
<1>1. PICK V, st : V = AllVisited(m, C) /\ st = StateFor(con)
  OBVIOUS
<1>2. DOMAIN m.nodes = DOMAIN t.nodes /\ C \in SUBSET DOMAIN m.nodes
  BY DEF Relinked
<1>3. V \subseteq DOMAIN m.nodes /\ Reached(m, C, V)
  BY <1>1, <1>2, VisitedReached
<1>4. /\ u = [table |-> u.table, nodes |-> m.nodes] /\ Touched(m.table, u.table)
      /\ \A h \in T!Handle : St(u, h) = IF h \in V THEN st ELSE St(m, h)
      /\ SamePins(m.table, u.table)
  <2>1. /\ u = [table |-> u.table, nodes |-> m.nodes] /\ Touched(m.table, u.table)
        /\ \A h \in T!Handle : St(u, h) = IF h \in AllVisited(m, C) THEN StateFor(con) ELSE St(m, h)
        /\ SamePins(m.table, u.table)
    BY <1>2, ConnectedStateSet
  <2>2. QED
    BY <1>1, <2>1
<1>5. u.nodes = m.nodes
  BY <1>4
<1>6. DOMAIN t.nodes \subseteq T!Handle /\ root \in DOMAIN t.nodes /\ \A h \in DOMAIN t.nodes : St(m, h) = St(t, h)
  BY <1>2, NodeParts DEF St
<1>7. \A x \in V : Open(m, x)
  BY <1>3 DEF Reached
<1>8. ASSUME NEW x \in DOMAIN t.nodes
      PROVE  /\ St(u, x) = IF x \in V THEN st ELSE St(t, x)
             /\ HasCore(u, x) <=> HasCore(m, x)
             /\ Open(u, x) <=> Open(m, x)
             /\ Kids(u, x) = Kids(m, x)
  <2>1. St(u, x) = (IF x \in V THEN st ELSE St(m, x)) /\ x \in DOMAIN m.nodes
    BY <1>2, <1>4, <1>6
  <2>2. HasCore(u, x) <=> HasCore(m, x)
    BY <1>1, <1>5, <1>7, <2>1, CoreIsState DEF StateFor
  <2>3. Open(u, x) <=> Open(m, x)
    BY <1>1, <1>7, <2>1, CoreIsState DEF StateFor
  <2>4. QED
    BY <1>5, <1>6, <2>1, <2>2, <2>3 DEF Kids
<1>9. WellMade(u)
  <2>1. u.nodes \in [DOMAIN u.nodes -> Kin(DOMAIN u.nodes)]
    BY <1>5 DEF WellMade
  <2>2. HasCore(m, root)
    BY DEF WellMade
  <2>3. St(u, root) # "Dead"
    BY <1>6, <1>8, <2>2, CoreIsState
  <2>4. u = [table |-> u.table, nodes |-> u.nodes]
    BY <1>4
  <2>5. QED
    BY <1>4, <1>5, <2>1, <2>3, <2>4, TouchedTree
<1>10. Relinked(t, u, C, q)
  <2>1. ASSUME NEW x \in DOMAIN t.nodes
        PROVE  (HasCore(u, x) <=> HasCore(t, x)) /\ (Open(u, x) <=> Open(t, x))
    BY <1>8 DEF Relinked
  <2>2. ASSUME NEW x \in DOMAIN t.nodes, HasCore(t, x)
        PROVE  /\ u.nodes[x].parent = IF x \in C THEN q ELSE t.nodes[x].parent
               /\ IsInjective(u.nodes[x].children)
    BY <1>5, <2>2 DEF Relinked
  <2>3. ASSUME NEW x \in DOMAIN t.nodes, HasCore(t, x), NEW y \in DOMAIN t.nodes, HasCore(t, y)
        PROVE  y \in Kids(u, x) <=> IF y \in C THEN x = q ELSE y \in Kids(t, x)
    BY <1>8, <2>3 DEF Relinked
  <2>4. QED
    BY <1>2, <1>5, <2>1, <2>2, <2>3 DEF Relinked
<1>11. Reached(u, C, V)
  <2>1. \A x \in V : Open(u, x)
    BY <1>2, <1>3, <1>7, <1>8
  <2>2. \A x \in C : Open(u, x) => x \in V
    BY <1>3, <1>8 DEF Reached
  <2>3. ASSUME NEW S \in SUBSET DOMAIN t.nodes
        PROVE  DownClosed(u, S) <=> DownClosed(m, S)
    <3>1. \A x \in S : Kids(m, x) \subseteq DOMAIN t.nodes
      BY <1>2, NodeParts
    <3>2. QED
      BY <1>8, <3>1 DEF DownClosed
  <2>4. DownClosed(u, V)
    BY <1>2, <1>3, <2>3 DEF Reached
  <2>5. ASSUME NEW S \in SUBSET DOMAIN t.nodes, \A x \in C : Open(u, x) => x \in S, DownClosed(u, S)
        PROVE  V \subseteq S
    <3>1. (\A x \in C : Open(m, x) => x \in S) /\ DownClosed(m, S) /\ S \in SUBSET DOMAIN m.nodes
      BY <1>2, <1>8, <2>3, <2>5
    <3>2. QED
      BY <1>3, <3>1 DEF Reached
  <2>6. QED
    BY <1>2, <1>5, <2>1, <2>2, <2>4, <2>5 DEF Reached
<1>12. st = "AliveConnected" <=> root \in AncestorsOrSelf(t, q)
  BY <1>1 DEF StateFor
<1>13. Sound(u)
  <2>1. V \in SUBSET DOMAIN t.nodes /\ StatesSet(t, u, V, st)
    BY <1>2, <1>3, <1>8 DEF StatesSet
  <2>2. QED
    BY <1>9, <1>10, <1>11, <1>12, <2>1, RelinkedSound
<1>14. Lives(t, u)
  BY <1>2, <1>4, <1>5, <1>8 DEF Lives, HasCore
<1>15. QED
  BY <1>2, <1>5, <1>13, <1>14

-----------------------------------------------------------------------------
(* The mutations                                                           *)

\* From t to m the child c was taken out of the children of its live parent.
TakenOut(t, m, c) ==
  /\ m = [table |-> t.table, nodes |-> m.nodes] /\ DOMAIN m.nodes = DOMAIN t.nodes
  /\ m.nodes = [x \in DOMAIN t.nodes |-> m.nodes[x]]
  /\ \A x \in DOMAIN t.nodes :
       /\ m.nodes[x] = [t.nodes[x] EXCEPT !.children = m.nodes[x].children]
       /\ m.nodes[x].children \in Seq(DOMAIN t.nodes)
       /\ m.nodes[x].parent = t.nodes[x].parent
       /\ HasCore(t, x) => /\ m.nodes[x].children = Without(t.nodes[x].children, c)
                           /\ IsInjective(m.nodes[x].children)
                           /\ ToSet(m.nodes[x].children) = Kids(t, x) \ {c}

(* Taking a child out of its old parent.                                   *)
LEMMA UnlinkedTree ==
  ASSUME NEW t, Sound(t), NEW c \in DOMAIN t.nodes, HasCore(t, c), NEW m, m = Unlinked(t, c)
  PROVE  TakenOut(t, m, c)
<1>1. WellMade(t) /\ Agree(t) /\ t = [table |-> t.table, nodes |-> t.nodes]
  BY DEF Sound, WellMade
<1>2. PICK p : p = t.nodes[c].parent
  OBVIOUS
<1>3. \A x \in DOMAIN t.nodes : /\ t.nodes[x] \in Kin(DOMAIN t.nodes)
                                /\ t.nodes[x].children \in Seq(DOMAIN t.nodes)
  BY <1>1, NodeParts
<1>4. t.nodes = [x \in DOMAIN t.nodes |-> t.nodes[x]]
  BY <1>1 DEF WellMade
<1>5. Null \notin DOMAIN t.nodes
  BY <1>1, NodeParts DEF Upwards
<1>6. ASSUME NEW x \in DOMAIN t.nodes, HasCore(t, x)
      PROVE  /\ IsInjective(t.nodes[x].children) /\ Kids(t, x) = ToSet(t.nodes[x].children)
             /\ c \in Kids(t, x) <=> x = p
             /\ Without(t.nodes[x].children, c) \in Seq(DOMAIN t.nodes)
             /\ IsInjective(Without(t.nodes[x].children, c))
             /\ ToSet(Without(t.nodes[x].children, c)) = Kids(t, x) \ {c}
  <2>1. IsInjective(t.nodes[x].children) /\ (c \in Kids(t, x) <=> x = p)
    BY <1>1, <1>2, <1>6 DEF Agree
  <2>2. Kids(t, x) = ToSet(t.nodes[x].children)
    BY <1>6 DEF Kids
  <2>3. PICK s \in Seq(DOMAIN t.nodes) : s = t.nodes[x].children
    BY <1>3
  <2>4. /\ Without(s, c) \in Seq(DOMAIN t.nodes)
        /\ IsInjective(Without(s, c)) /\ ToSet(Without(s, c)) = ToSet(s) \ {c}
    BY <2>1, <2>3, WithoutOne
  <2>5. QED
    BY <2>1, <2>2, <2>3, <2>4
<1>7. CASE p = Null \/ ~HasCore(t, p)
  <2>1. m = t
    BY <1>2, <1>7 DEF Unlinked
  <2>2. ASSUME NEW x \in DOMAIN t.nodes, HasCore(t, x)
        PROVE  Without(t.nodes[x].children, c) = t.nodes[x].children
    <3>1. c \notin ToSet(t.nodes[x].children)
      BY <1>5, <1>6, <1>7, <2>2
    <3>2. QED
      BY <3>1 DEF Without
  <2>3. ASSUME NEW x \in DOMAIN t.nodes
        PROVE  t.nodes[x] = [t.nodes[x] EXCEPT !.children = t.nodes[x].children]
    BY <1>3 DEF Kin
  <2>4. QED
    BY <1>1, <1>3, <1>4, <1>6, <2>1, <2>2, <2>3 DEF TakenOut
<1>8. CASE p # Null /\ HasCore(t, p)
  <2>1. PICK s : s = Without(t.nodes[p].children, c)
    OBVIOUS
  <2>2. p \in DOMAIN t.nodes
    BY <1>8 DEF HasCore
  <2>3. m = [table |-> t.table, nodes |-> [t.nodes EXCEPT ![p] = [t.nodes[p] EXCEPT !.children = s]]]
    <3>1. m = [t EXCEPT !.nodes[p].children = s]
      BY <1>2, <1>8, <2>1 DEF Unlinked
    <3>2. m = [t EXCEPT !.nodes = [t.nodes EXCEPT ![p] = [t.nodes[p] EXCEPT !.children = s]]]
      BY <3>1
    <3>3. QED
      BY <1>1, <3>2
  <2>4. /\ DOMAIN m.nodes = DOMAIN t.nodes /\ m.nodes = [x \in DOMAIN t.nodes |-> m.nodes[x]]
        /\ m = [table |-> t.table, nodes |-> m.nodes]
        /\ \A x \in DOMAIN t.nodes : x # p => m.nodes[x] = t.nodes[x]
        /\ m.nodes[p] = [t.nodes[p] EXCEPT !.children = s]
    BY <1>4, <2>2, <2>3
  <2>5. ASSUME NEW x \in DOMAIN t.nodes
        PROVE  /\ m.nodes[x] = [t.nodes[x] EXCEPT !.children = m.nodes[x].children]
               /\ m.nodes[x].children \in Seq(DOMAIN t.nodes)
               /\ m.nodes[x].parent = t.nodes[x].parent
               /\ HasCore(t, x) => m.nodes[x].children = Without(t.nodes[x].children, c)
    <3>1. t.nodes[x] \in Kin(DOMAIN t.nodes)
      BY <1>3
    <3>2. CASE x = p
      <4>1. s \in Seq(DOMAIN t.nodes)
        BY <1>6, <1>8, <2>1, <2>2
      <4>2. m.nodes[x].children = s /\ m.nodes[x].parent = t.nodes[x].parent
        BY <2>4, <3>1, <3>2 DEF Kin
      <4>3. QED
        BY <2>1, <2>4, <3>2, <4>1, <4>2
    <3>3. CASE x # p
      <4>1. HasCore(t, x) => Without(t.nodes[x].children, c) = t.nodes[x].children
        BY <1>6, <3>3 DEF Without
      <4>2. t.nodes[x] = [t.nodes[x] EXCEPT !.children = t.nodes[x].children]
        BY <3>1 DEF Kin
      <4>3. QED
        BY <1>3, <2>4, <3>3, <4>1, <4>2
    <3>4. QED
      BY <3>2, <3>3
  <2>6. ASSUME NEW x \in DOMAIN t.nodes, HasCore(t, x)
        PROVE  /\ m.nodes[x].children = Without(t.nodes[x].children, c)
               /\ IsInjective(m.nodes[x].children)
               /\ ToSet(m.nodes[x].children) = Kids(t, x) \ {c}
    <3>1. m.nodes[x].children = Without(t.nodes[x].children, c)
      BY <2>5, <2>6
    <3>2. QED
      BY <1>6, <2>6, <3>1
  <2>7. m = [table |-> t.table, nodes |-> m.nodes]
    BY <2>4
  <2>8. DOMAIN m.nodes = DOMAIN t.nodes /\ m.nodes = [x \in DOMAIN t.nodes |-> m.nodes[x]]
    BY <2>4
  <2>9. QED
    BY <2>5, <2>6, <2>7, <2>8 DEF TakenOut
<1>9. QED
  BY <1>7, <1>8

\* From t to u, by way of m, the child c came to be at a place of the children of p.
IsPut(t, m, u, p, c, at) ==
  /\ u.table = t.table /\ WellMade(u) /\ Relinked(t, u, {c}, p)
  /\ \A x \in DOMAIN t.nodes :
       u.nodes[x].children = IF x = p THEN InsertAt(m.nodes[p].children, at, c)
                             ELSE m.nodes[x].children

(* Putting a child that is not above it below a node.                      *)
LEMMA PutTree ==
  ASSUME NEW t, Sound(t), NEW p \in DOMAIN t.nodes, NEW c \in DOMAIN t.nodes,
         HasCore(t, p), HasCore(t, c), p # c, NEW m, m = Unlinked(t, c),
         NEW at, at \in 1 .. Len(m.nodes[p].children) + 1, NEW u, u = Put(m, p, c, at)
  PROVE  IsPut(t, m, u, p, c, at)
<1>1. /\ m = [table |-> t.table, nodes |-> m.nodes] /\ DOMAIN m.nodes = DOMAIN t.nodes
      /\ m.nodes = [x \in DOMAIN t.nodes |-> m.nodes[x]]
      /\ \A x \in DOMAIN t.nodes :
           /\ m.nodes[x] = [t.nodes[x] EXCEPT !.children = m.nodes[x].children]
           /\ m.nodes[x].children \in Seq(DOMAIN t.nodes)
           /\ m.nodes[x].parent = t.nodes[x].parent
           /\ HasCore(t, x) => /\ m.nodes[x].children = Without(t.nodes[x].children, c)
                               /\ IsInjective(m.nodes[x].children)
                               /\ ToSet(m.nodes[x].children) = Kids(t, x) \ {c}
  <2>1. TakenOut(t, m, c)
    BY UnlinkedTree
  <2>2. QED
    BY <2>1 DEF TakenOut
<1>2. WellMade(t) /\ \A x \in DOMAIN t.nodes : t.nodes[x] \in Kin(DOMAIN t.nodes)
  BY NodeParts DEF Sound
<1>3. \A x \in DOMAIN t.nodes : m.nodes[x] \in Kin(DOMAIN t.nodes)
  <2>1. ASSUME NEW x \in DOMAIN t.nodes
        PROVE  m.nodes[x] \in Kin(DOMAIN t.nodes)
    <3>1. PICK s \in Seq(DOMAIN t.nodes), k \in Kin(DOMAIN t.nodes) :
            s = m.nodes[x].children /\ k = t.nodes[x]
      BY <1>1, <1>2
    <3>2. [k EXCEPT !.children = s] \in Kin(DOMAIN t.nodes)
      BY DEF Kin
    <3>3. m.nodes[x] = [k EXCEPT !.children = s]
      BY <1>1, <3>1
    <3>4. QED
      BY <3>2, <3>3
  <2>2. QED
    BY <2>1
<1>4. PICK s, e : s = m.nodes[p].children /\ e = InsertAt(s, at, c)
  OBVIOUS
<1>5. /\ s \in Seq(DOMAIN t.nodes) /\ IsInjective(s) /\ ToSet(s) = Kids(t, p) \ {c} /\ at \in 1 .. Len(s) + 1
  BY <1>1, <1>4
<1>6. e \in Seq(DOMAIN t.nodes) /\ IsInjective(e) /\ ToSet(e) = Kids(t, p) \cup {c}
  <2>1. c \notin ToSet(s)
    BY <1>5
  <2>2. /\ InsertAt(s, at, c) \in Seq(DOMAIN t.nodes) /\ IsInjective(InsertAt(s, at, c))
        /\ ToSet(InsertAt(s, at, c)) = ToSet(s) \cup {c}
    BY <1>5, <2>1, WithOne
  <2>3. QED
    BY <1>4, <1>5, <2>2
<1>7. PICK N : N = [[m.nodes EXCEPT ![c] = [m.nodes[c] EXCEPT !.parent = p]]
                      EXCEPT ![p] = [m.nodes[p] EXCEPT !.children = e]]
  OBVIOUS
<1>8. u = [table |-> t.table, nodes |-> N]
  <2>1. PICK n1 : n1 = [m.nodes EXCEPT ![c] = [m.nodes[c] EXCEPT !.parent = p]]
    OBVIOUS
  <2>2. n1[p] = m.nodes[p]
    BY <1>1, <2>1
  <2>3. u = [[m EXCEPT !.nodes = n1] EXCEPT !.nodes[p].children = InsertAt(@, at, c)]
    <3>1. [m EXCEPT !.nodes[c].parent = p] = [m EXCEPT !.nodes = n1]
      BY <2>1
    <3>2. u = [[m EXCEPT !.nodes[c].parent = p] EXCEPT !.nodes[p].children = InsertAt(@, at, c)]
      BY DEF Put
    <3>3. QED
      BY <3>1, <3>2
  <2>4. PICK m1 : m1 = [table |-> t.table, nodes |-> n1]
    OBVIOUS
  <2>5. [m EXCEPT !.nodes = n1] = m1
    BY <1>1, <2>4
  <2>6. u = [m1 EXCEPT !.nodes = [m1.nodes EXCEPT ![p] = [m1.nodes[p] EXCEPT !.children = InsertAt(m1.nodes[p].children, at, c)]]]
    BY <2>3, <2>5
  <2>7. InsertAt(m1.nodes[p].children, at, c) = e
    BY <1>4, <2>2, <2>4
  <2>8. u = [table |-> t.table, nodes |-> [n1 EXCEPT ![p] = [n1[p] EXCEPT !.children = e]]]
    BY <2>4, <2>6, <2>7
  <2>9. QED
    BY <1>7, <2>1, <2>2, <2>8
<1>9. /\ DOMAIN u.nodes = DOMAIN t.nodes /\ u = [table |-> u.table, nodes |-> u.nodes] /\ u.table = t.table
      /\ u.nodes = [x \in DOMAIN t.nodes |-> u.nodes[x]]
      /\ u.nodes[p] = [m.nodes[p] EXCEPT !.children = e]
      /\ u.nodes[c] = [m.nodes[c] EXCEPT !.parent = p]
      /\ \A x \in DOMAIN t.nodes : x # c /\ x # p => u.nodes[x] = m.nodes[x]
  <2>1. N = [x \in DOMAIN t.nodes |-> N[x]]
    BY <1>1, <1>7
  <2>2. N[p] = [m.nodes[p] EXCEPT !.children = e] /\ N[c] = [m.nodes[c] EXCEPT !.parent = p]
    BY <1>1, <1>7
  <2>3. \A x \in DOMAIN t.nodes : x # c /\ x # p => N[x] = m.nodes[x]
    BY <1>1, <1>7
  <2>4. u.nodes = N /\ u.table = t.table
    BY <1>8
  <2>5. u = [table |-> u.table, nodes |-> u.nodes]
    BY <1>8, <2>4
  <2>6. QED
    BY <2>1, <2>2, <2>3, <2>4, <2>5
<1>10. ASSUME NEW x \in DOMAIN t.nodes
       PROVE  /\ u.nodes[x] \in Kin(DOMAIN t.nodes)
              /\ u.nodes[x].parent = IF x = c THEN p ELSE t.nodes[x].parent
              /\ u.nodes[x].children = IF x = p THEN e ELSE m.nodes[x].children
  <2>1. m.nodes[x] \in Kin(DOMAIN t.nodes) /\ m.nodes[x].parent = t.nodes[x].parent
    BY <1>1, <1>3
  <2>2. CASE x = p
    BY <1>6, <1>9, <2>1, <2>2 DEF Kin
  <2>3. CASE x = c
    BY <1>9, <2>1, <2>3 DEF Kin
  <2>4. CASE x # p /\ x # c
    BY <1>9, <2>1, <2>4
  <2>5. QED
    BY <2>2, <2>3, <2>4
<1>11. \A x \in DOMAIN t.nodes : /\ HasCore(u, x) <=> HasCore(t, x)
                                 /\ Open(u, x) <=> Open(t, x)
  BY <1>9 DEF HasCore, Open
<1>12. WellMade(u)
  <2>1. u.nodes \in [DOMAIN t.nodes -> Kin(DOMAIN t.nodes)]
    BY <1>9, <1>10
  <2>2. HasCore(u, root)
    BY <1>2, <1>11, NodeParts DEF WellMade
  <2>3. QED
    BY <1>2, <1>9, <2>1, <2>2 DEF WellMade
<1>13. ASSUME NEW x \in DOMAIN t.nodes, HasCore(t, x)
       PROVE  /\ IsInjective(u.nodes[x].children)
              /\ Kids(u, x) = IF x = p THEN Kids(t, x) \cup {c} ELSE Kids(t, x) \ {c}
  <2>1. Kids(u, x) = ToSet(u.nodes[x].children)
    BY <1>11, <1>13 DEF Kids
  <2>2. CASE x = p
    BY <1>6, <1>10, <2>1, <2>2
  <2>3. CASE x # p
    BY <1>1, <1>10, <1>13, <2>1, <2>3
  <2>4. QED
    BY <2>2, <2>3
<1>14. Relinked(t, u, {c}, p)
  <2>1. ASSUME NEW x \in DOMAIN t.nodes, HasCore(t, x), NEW y \in DOMAIN t.nodes
        PROVE  y \in Kids(u, x) <=> IF y \in {c} THEN x = p ELSE y \in Kids(t, x)
    BY <1>13, <2>1
  <2>2. QED
    BY <1>9, <1>10, <1>11, <1>13, <2>1 DEF Relinked
<1>15. QED
  BY <1>4, <1>9, <1>10, <1>12, <1>14 DEF IsPut

(* What an insertion finds when nothing is wrong with its nodes.           *)
LEMMA OpenNodes ==
  ASSUME NEW t, WellMade(t), NEW p \in DOMAIN t.nodes, NEW c \in DOMAIN t.nodes, InsertError(t, p, c) = "Ok"
  PROVE  Open(t, p) /\ Open(t, c) /\ HasCore(t, p) /\ HasCore(t, c)
<1>1. "Dead" \notin {St(t, p), St(t, c)} /\ "PendingDestroy" \notin {St(t, p), St(t, c)}
  BY DEF InsertError, St
<1>2. HasCore(t, p) /\ HasCore(t, c)
  BY <1>1, CoreIsState
<1>3. \A h \in DOMAIN t.nodes : St(t, h) \in T!NodeStates
  <2>1. \A i \in DOMAIN t.table.slots : t.table.slots[i].state \in T!NodeStates
    BY TableParts DEF WellMade
  <2>2. QED
    BY <2>1 DEF St, T!StateOf, T!Current, T!NodeStates
<1>4. QED
  BY <1>1, <1>2, <1>3, CoreIsState DEF T!NodeStates

(* Where an insertion puts the child.                                      *)
LEMMA PlaceToPut ==
  ASSUME NEW S, NEW s \in Seq(S), NEW ref, NEW at,
         at = IF ref \in ToSet(s) THEN Place(s, ref) ELSE Len(s) + 1
  PROVE  at \in 1 .. Len(s) + 1
<1>1. Len(s) \in Nat
  BY SeqEntries
<1>2. CASE ref \in ToSet(s)
  BY <1>1, <1>2, PlaceFound
<1>3. CASE ref \notin ToSet(s)
  BY <1>1, <1>3
<1>4. QED
  BY <1>2, <1>3

(* append_child and insert_before of one node keep the tree sound.         *)
LEMMA InsertOneKeeps ==
  ASSUME NEW t, Sound(t), NEW p \in DOMAIN t.nodes, NEW c \in DOMAIN t.nodes, RootMoves \/ c # root,
         NEW ref, NEW v, v = InsertOne(t, p, c, ref).tree
  PROVE  Sound(v) /\ DOMAIN v.nodes = DOMAIN t.nodes /\ Lives(t, v)
<1>1. CASE InsertError(t, p, c) # "Ok" \/ c \in AncestorsOrSelf(t, p)
  BY <1>1, LivesOn DEF InsertOne, Refused
<1>2. CASE InsertError(t, p, c) = "Ok" /\ c \notin AncestorsOrSelf(t, p)
  <2>1. HasCore(t, p) /\ HasCore(t, c) /\ WellMade(t) /\ Upwards(t)
    BY <1>2, OpenNodes, NodeParts DEF Sound
  <2>2. p \in AncestorsOrSelf(t, p) /\ p # c
    <3>1. p # Null
      BY <2>1 DEF Upwards
    <3>2. QED
      BY <1>2, <2>1, <3>1, AncestorsClosed
  <2>3. PICK m, s, at, u : /\ m = Unlinked(t, c) /\ s = m.nodes[p].children
                           /\ at = IF ref \in ToSet(s) THEN Place(s, ref) ELSE Len(s) + 1
                           /\ u = Put(m, p, c, at)
    OBVIOUS
  <2>4. /\ DOMAIN m.nodes = DOMAIN t.nodes /\ m = [table |-> t.table, nodes |-> m.nodes]
        /\ \A x \in DOMAIN t.nodes : m.nodes[x].children \in Seq(DOMAIN t.nodes) /\ m.nodes[x].parent = t.nodes[x].parent
    <3>1. TakenOut(t, m, c)
      BY <2>1, <2>3, UnlinkedTree
    <3>2. QED
      BY <3>1 DEF TakenOut
  <2>5. at \in 1 .. Len(s) + 1
    BY <2>3, <2>4, PlaceToPut
  <2>6. u.table = t.table /\ WellMade(u) /\ Relinked(t, u, {c}, p)
    <3>1. m = Unlinked(t, c) /\ at \in 1 .. Len(m.nodes[p].children) + 1 /\ u = Put(m, p, c, at)
      BY <2>3, <2>5
    <3>2. IsPut(t, m, u, p, c, at)
      BY <2>1, <2>2, <3>1, PutTree
    <3>3. QED
      BY <3>2 DEF IsPut
  <2>7. IsConnected(m, p) <=> root \in AncestorsOrSelf(t, p)
    <3>1. \A x \in DOMAIN t.nodes : HasCore(m, x) <=> HasCore(t, x)
      BY <2>4 DEF HasCore
    <3>2. Upwards(m)
      BY <2>1, <2>4 DEF Upwards
    <3>3. AncestorsOrSelf(t, p) \subseteq DOMAIN m.nodes /\ AncestorsOrSelf(m, p) \subseteq DOMAIN t.nodes
      BY <2>1, <2>4, <3>2, AncestorsClosed
    <3>4. AncestorsOrSelf(m, p) \subseteq AncestorsOrSelf(t, p)
      BY <2>1, <2>4, <3>1, <3>3, AncestorsKept
    <3>5. AncestorsOrSelf(t, p) \subseteq AncestorsOrSelf(m, p)
      BY <2>4, <3>1, <3>2, <3>3, AncestorsKept
    <3>6. QED
      BY <3>4, <3>5 DEF IsConnected
  <2>8. v = WithConnectedState(u, {c}, IsConnected(m, p))
    <3>1. InsertOne(t, p, c, ref) = Done(Linked(m, p, c, at))
      BY <1>2, <2>3 DEF InsertOne
    <3>2. v = Linked(m, p, c, at)
      BY <3>1 DEF Done
    <3>3. Linked(m, p, c, at) = WithConnectedState(Put(m, p, c, at), {c}, IsConnected(m, p))
      BY DEF Linked
    <3>4. QED
      BY <2>3, <3>2, <3>3
  <2>9. PICK con \in BOOLEAN : con = IsConnected(m, p)
    <3>1. IsConnected(m, p) \in BOOLEAN
      BY DEF IsConnected
    <3>2. QED
      BY <3>1
  <2>10. /\ {c} \in SUBSET DOMAIN t.nodes /\ {c} \cap AncestorsOrSelf(t, p) = {}
         /\ RootMoves \/ root \notin {c}
         /\ p \in DOMAIN t.nodes \cup {Null}
         /\ con <=> root \in AncestorsOrSelf(t, p)
         /\ v = WithConnectedState(u, {c}, con)
    BY <1>2, <2>7, <2>8, <2>9
  <2>11. MovesTo(t, u, {c}, p, con)
    BY <2>6, <2>9, <2>10 DEF MovesTo
  <2>12. QED
    BY ONLY <2>10, <2>11, RelinkedThenSet
<1>3. QED
  BY <1>1, <1>2

(* The insertions of a list of nodes, one after the other.                 *)
LEMMA InsertAllKeeps ==
  ASSUME NEW t, Sound(t), NEW p \in DOMAIN t.nodes, NEW kids \in Seq(DOMAIN t.nodes),
         \A k \in 1 .. Len(kids) : RootMoves \/ kids[k] # root, NEW ref
  PROVE  /\ Sound(InsertAll(t, p, kids, ref)) /\ DOMAIN InsertAll(t, p, kids, ref).nodes = DOMAIN t.nodes
         /\ Lives(t, InsertAll(t, p, kids, ref))
<1> DEFINE Steps(f, l) == [n \in 0 .. l |-> IF n = 0 THEN t ELSE InsertOne(f[n - 1], p, kids[n], ref).tree]
<1>1. PICK l \in Nat : l = Len(kids) /\ \A k \in 1 .. l : kids[k] \in DOMAIN t.nodes
  BY SeqEntries
<1>2. ASSUME NEW m \in Nat, NEW f, f = Steps(f, m)
      PROVE  \E g : g = Steps(g, m + 1)
  <2>1. PICK g : g = [n \in 0 .. m + 1 |-> IF n \in 0 .. m THEN f[n] ELSE InsertOne(f[m], p, kids[n], ref).tree]
    OBVIOUS
  <2>2. ASSUME NEW n \in 0 .. m + 1
        PROVE  g[n] = IF n = 0 THEN t ELSE InsertOne(g[n - 1], p, kids[n], ref).tree
    <3>1. CASE n = 0
      <4>1. g[n] = f[n] /\ f[n] = t
        BY <1>2, <2>1, <3>1
      <4>2. QED
        BY <3>1, <4>1
    <3>2. CASE n \in 1 .. m
      <4>1. g[n] = f[n] /\ g[n - 1] = f[n - 1] /\ n # 0 /\ n \in 0 .. m
        BY <2>1, <3>2
      <4>2. f[n] = InsertOne(f[n - 1], p, kids[n], ref).tree
        BY <1>2, <4>1
      <4>3. QED
        BY <4>1, <4>2
    <3>3. CASE n = m + 1
      <4>1. g[n] = InsertOne(f[m], p, kids[n], ref).tree /\ g[n - 1] = f[m] /\ n # 0
        BY <2>1, <3>3
      <4>2. QED
        BY <4>1
    <3>4. n = 0 \/ n \in 1 .. m \/ n = m + 1
      OBVIOUS
    <3>5. QED
      BY <3>1, <3>2, <3>3, <3>4
  <2>3. g = Steps(g, m + 1)
    BY <2>1, <2>2
  <2>4. QED
    BY <2>3
<1>3. \E f : f = Steps(f, l)
  <2>1. PICK S : S = {m \in Nat : \E f : f = Steps(f, m)}
    OBVIOUS
  <2>2. 0 \in S
    <3>1. PICK f : f = [n \in 0 .. 0 |-> t]
      OBVIOUS
    <3>2. f = Steps(f, 0)
      BY <3>1
    <3>3. QED
      BY <2>1, <3>2
  <2>3. ASSUME NEW m \in Nat, m \in S
        PROVE  m + 1 \in S
    <3>1. PICK f : f = Steps(f, m)
      BY <2>1, <2>3
    <3>2. \E g : g = Steps(g, m + 1)
      BY <1>2, <3>1
    <3>3. m + 1 \in Nat
      OBVIOUS
    <3>4. QED
      BY <2>1, <3>2, <3>3, Zenon
  <2>4. Nat \subseteq S
    BY <2>2, <2>3, Counting
  <2>5. QED
    BY <2>1, <2>4
<1>4. PICK a : a = (CHOOSE f : f = Steps(f, l))
  OBVIOUS
<1>5. a = Steps(a, l)
  BY <1>3, <1>4
<1>6. InsertAll(t, p, kids, ref) = a[l]
  BY <1>1, <1>4 DEF InsertAll
<1>7. PICK S : S = {n \in Nat : n <= l => Sound(a[n]) /\ DOMAIN a[n].nodes = DOMAIN t.nodes /\ Lives(t, a[n])}
  OBVIOUS
<1>8. 0 \in S
  <2>1. a[0] = t
    BY <1>1, <1>5
  <2>2. QED
    BY <1>7, <2>1, LivesOn
<1>9. ASSUME NEW n \in Nat, n \in S
      PROVE  n + 1 \in S
  <2>1. SUFFICES ASSUME n + 1 <= l
                 PROVE  /\ Sound(a[n + 1]) /\ DOMAIN a[n + 1].nodes = DOMAIN t.nodes
                        /\ Lives(t, a[n + 1])
    BY <1>7
  <2>2. Sound(a[n]) /\ DOMAIN a[n].nodes = DOMAIN t.nodes /\ Lives(t, a[n])
    BY <1>1, <1>7, <1>9, <2>1
  <2>3. PICK k : k = kids[n + 1]
    OBVIOUS
  <2>4. k \in DOMAIN t.nodes /\ (RootMoves \/ k # root)
    BY <1>1, <2>1, <2>3
  <2>5. a[n + 1] = InsertOne(a[n], p, k, ref).tree
    <3>1. n + 1 \in 0 .. l /\ n + 1 # 0 /\ (n + 1) - 1 = n
      BY <1>1, <2>1
    <3>2. QED
      BY <1>5, <2>3, <3>1
  <2>6. Sound(a[n + 1]) /\ DOMAIN a[n + 1].nodes = DOMAIN a[n].nodes /\ Lives(a[n], a[n + 1])
    BY <2>2, <2>4, <2>5, InsertOneKeeps
  <2>7. QED
    BY <2>2, <2>6, LivesOn
<1>10. l \in S
  BY <1>1, <1>8, <1>9, Counting
<1>11. QED
  BY <1>1, <1>6, <1>7, <1>10

(* append_child and insert_before keep the tree sound.                     *)
LEMMA InsertBeforeKeeps ==
  ASSUME NEW t, Sound(t), NEW p \in DOMAIN t.nodes, NEW c \in DOMAIN t.nodes, RootMoves \/ c # root,
         NEW ref, NEW v, v = InsertBefore(t, p, c, ref).tree
  PROVE  Sound(v) /\ DOMAIN v.nodes = DOMAIN t.nodes /\ Lives(t, v)
<1>1. PICK one, all, kids : /\ one = InsertOne(t, p, c, ref) /\ kids = t.nodes[c].children
                            /\ all = InsertAll(t, p, kids, ref)
  OBVIOUS
<1>2. CASE InsertError(t, p, c) # "Ok" \/ (ref # Null /\ ref \notin Kids(t, p))
  BY <1>2, LivesOn DEF InsertBefore, Refused
<1>3. CASE InsertError(t, p, c) = "Ok" /\ ~(ref # Null /\ ref \notin Kids(t, p))
  <2>1. CASE t.nodes[c].type # "fragment"
    <3>1. v = one.tree
      BY <1>1, <1>3, <2>1 DEF InsertBefore
    <3>2. QED
      BY <1>1, <3>1, InsertOneKeeps
  <2>2. CASE t.nodes[c].type = "fragment"
    <3>1. v = all
      BY <1>1, <1>3, <2>2 DEF InsertBefore, Done
    <3>2. WellMade(t) /\ HasCore(t, c) /\ Agree(t)
      BY <1>3, OpenNodes DEF Sound
    <3>3. kids \in Seq(DOMAIN t.nodes) /\ root \in DOMAIN t.nodes /\ HasCore(t, root) /\ c # Null
      BY <1>1, <3>2, NodeParts DEF WellMade, Upwards
    <3>4. ASSUME ~RootMoves, NEW k \in 1 .. Len(kids), kids[k] = root
          PROVE  FALSE
      <4>1. root \in Kids(t, c)
        <5>1. DOMAIN kids = 1 .. Len(kids)
          BY <3>3, SeqEntries
        <5>2. root \in ToSet(kids)
          BY <3>4, <5>1 DEF ToSet
        <5>3. QED
          BY <1>1, <3>2, <5>2 DEF Kids
      <4>2. t.nodes[root].parent = c
        BY <3>2, <3>3, <4>1 DEF Agree
      <4>3. QED
        BY <3>3, <3>4, <4>2 DEF Sound
    <3>5. \A k \in 1 .. Len(kids) : RootMoves \/ kids[k] # root
      BY <3>4
    <3>6. /\ Sound(InsertAll(t, p, kids, ref)) /\ DOMAIN InsertAll(t, p, kids, ref).nodes = DOMAIN t.nodes
          /\ Lives(t, InsertAll(t, p, kids, ref))
      BY <3>3, <3>5, InsertAllKeeps
    <3>7. QED
      BY <1>1, <3>1, <3>6
  <2>3. QED
    BY <2>1, <2>2
<1>4. QED
  BY <1>2, <1>3

(* remove_child keeps the tree sound.                                      *)
LEMMA RemoveChildKeeps ==
  ASSUME NEW t, Sound(t), NEW p \in DOMAIN t.nodes, NEW c \in DOMAIN t.nodes,
         NEW v, v = RemoveChild(t, p, c).tree
  PROVE  Sound(v) /\ DOMAIN v.nodes = DOMAIN t.nodes /\ Lives(t, v)
<1>1. CASE "Dead" \in {T!StateOf(t.table, p), T!StateOf(t.table, c)} \/ c \notin Kids(t, p)
  BY <1>1, LivesOn DEF RemoveChild, Refused
<1>2. CASE ~("Dead" \in {T!StateOf(t.table, p), T!StateOf(t.table, c)}) /\ c \in Kids(t, p)
  <2>1. /\ WellMade(t) /\ Agree(t) /\ Upwards(t) /\ t = [table |-> t.table, nodes |-> t.nodes]
        /\ t.nodes = [x \in DOMAIN t.nodes |-> t.nodes[x]]
    BY NodeParts DEF Sound, WellMade
  <2>2. HasCore(t, p) /\ HasCore(t, c)
    <3>1. St(t, p) # "Dead" /\ St(t, c) # "Dead"
      BY <1>2 DEF St
    <3>2. QED
      BY <3>1, CoreIsState
  <2>3. t.nodes[c].parent = p /\ p # Null
    BY <1>2, <2>1, <2>2 DEF Agree, Upwards
  <2>4. p # c
    <3>1. p \in AncestorsOrSelf(t, p)
      BY <2>1, <2>3, AncestorsClosed
    <3>2. c \notin AncestorsOrSelf(t, p)
      BY <2>2, <2>3 DEF Sound, NoCycle
    <3>3. QED
      BY <3>1, <3>2
  <2>5. PICK s, e : s = t.nodes[p].children /\ e = Without(s, c)
    OBVIOUS
  <2>6. PICK N : N = [[t.nodes EXCEPT ![p] = [t.nodes[p] EXCEPT !.children = e]]
                        EXCEPT ![c] = [t.nodes[c] EXCEPT !.parent = Null]]
    OBVIOUS
  <2>7. PICK m : m = [table |-> t.table, nodes |-> N]
    OBVIOUS
  <2>8. v = WithConnectedState(m, {c}, FALSE)
    <3>1. PICK n1 : n1 = [t.nodes EXCEPT ![p] = [t.nodes[p] EXCEPT !.children = Without(t.nodes[p].children, c)]]
      OBVIOUS
    <3>2. n1[c] = t.nodes[c]
      BY <2>1, <2>4, <3>1
    <3>3. [t EXCEPT !.nodes[p].children = Without(@, c), !.nodes[c].parent = Null]
            = [[t EXCEPT !.nodes = n1] EXCEPT !.nodes[c].parent = Null]
      BY <3>1
    <3>4. PICK m1 : m1 = [table |-> t.table, nodes |-> n1]
      OBVIOUS
    <3>5. [t EXCEPT !.nodes = n1] = m1
      BY <2>1, <3>4
    <3>6. [m1 EXCEPT !.nodes[c].parent = Null] = [table |-> t.table, nodes |-> [n1 EXCEPT ![c] = [n1[c] EXCEPT !.parent = Null]]]
      BY <3>4
    <3>7. [t EXCEPT !.nodes[p].children = Without(@, c), !.nodes[c].parent = Null] = m
      BY <2>5, <2>6, <2>7, <3>1, <3>2, <3>3, <3>5, <3>6
    <3>8. RemoveChild(t, p, c) =
            Done(WithConnectedState([t EXCEPT !.nodes[p].children = Without(@, c), !.nodes[c].parent = Null], {c}, FALSE))
      BY <1>2 DEF RemoveChild
    <3>9. QED
      BY <3>7, <3>8 DEF Done
  <2>9. \A x \in DOMAIN t.nodes : t.nodes[x] \in Kin(DOMAIN t.nodes) /\ t.nodes[x].children \in Seq(DOMAIN t.nodes)
    BY <2>1, NodeParts
  <2>10. e \in Seq(DOMAIN t.nodes) /\ IsInjective(e) /\ ToSet(e) = Kids(t, p) \ {c}
    <3>1. s \in Seq(DOMAIN t.nodes) /\ IsInjective(s) /\ Kids(t, p) = ToSet(s)
      BY <2>1, <2>2, <2>5, <2>9 DEF Agree, Kids
    <3>2. Without(s, c) \in Seq(DOMAIN t.nodes) /\ IsInjective(Without(s, c)) /\ ToSet(Without(s, c)) = ToSet(s) \ {c}
      BY <3>1, WithoutOne
    <3>3. QED
      BY <2>5, <3>1, <3>2
  <2>11. /\ m.nodes = N /\ m.table = t.table /\ DOMAIN N = DOMAIN t.nodes /\ N = [x \in DOMAIN t.nodes |-> N[x]]
         /\ N[p] = [t.nodes[p] EXCEPT !.children = e] /\ N[c] = [t.nodes[c] EXCEPT !.parent = Null]
         /\ \A x \in DOMAIN t.nodes : x # c /\ x # p => N[x] = t.nodes[x]
    <3>1. m.nodes = N /\ m.table = t.table
      BY <2>7
    <3>2. DOMAIN N = DOMAIN t.nodes /\ N = [x \in DOMAIN t.nodes |-> N[x]]
      BY <2>1, <2>6
    <3>3. N[p] = [t.nodes[p] EXCEPT !.children = e] /\ N[c] = [t.nodes[c] EXCEPT !.parent = Null]
      BY <2>1, <2>4, <2>6
    <3>4. \A x \in DOMAIN t.nodes : x # c /\ x # p => N[x] = t.nodes[x]
      BY <2>1, <2>6
    <3>5. QED
      BY <3>1, <3>2, <3>3, <3>4
  <2>12. ASSUME NEW x \in DOMAIN t.nodes
         PROVE  /\ N[x] \in Kin(DOMAIN t.nodes)
                /\ N[x].parent = IF x = c THEN Null ELSE t.nodes[x].parent
                /\ N[x].children = IF x = p THEN e ELSE t.nodes[x].children
    <3>1. t.nodes[x] \in Kin(DOMAIN t.nodes)
      BY <2>9
    <3>2. CASE x = p
      BY <2>4, <2>10, <2>11, <3>1, <3>2 DEF Kin
    <3>3. CASE x = c
      BY <2>4, <2>11, <3>1, <3>3 DEF Kin
    <3>4. CASE x # p /\ x # c
      BY <2>11, <3>1, <3>4
    <3>5. QED
      BY <3>2, <3>3, <3>4
  <2>13. \A x \in DOMAIN t.nodes : /\ HasCore(m, x) <=> HasCore(t, x)
                                   /\ Open(m, x) <=> Open(t, x)
    BY <2>11 DEF HasCore, Open
  <2>14. WellMade(m)
    <3>1. m.nodes \in [DOMAIN t.nodes -> Kin(DOMAIN t.nodes)]
      BY <2>11, <2>12
    <3>2. HasCore(m, root)
      BY <2>1, <2>13, NodeParts DEF WellMade
    <3>3. QED
      BY <2>1, <2>7, <2>11, <3>1, <3>2 DEF WellMade
  <2>15. ASSUME NEW x \in DOMAIN t.nodes, HasCore(t, x)
         PROVE  IsInjective(m.nodes[x].children) /\ Kids(m, x) = Kids(t, x) \ {c}
    <3>1. Kids(m, x) = ToSet(N[x].children)
      BY <2>11, <2>13, <2>15 DEF Kids
    <3>2. CASE x = p
      BY <2>10, <2>11, <2>12, <3>1, <3>2
    <3>3. CASE x # p
      <4>1. c \notin Kids(t, x) /\ IsInjective(t.nodes[x].children) /\ Kids(t, x) = ToSet(t.nodes[x].children)
        BY <2>1, <2>2, <2>3, <2>15, <3>3 DEF Agree, Kids
      <4>2. QED
        BY <2>11, <2>12, <3>1, <3>3, <4>1
    <3>4. QED
      BY <3>2, <3>3
  <2>16. Relinked(t, m, {c}, Null)
    <3>1. ASSUME NEW x \in DOMAIN t.nodes, HasCore(t, x), NEW y \in DOMAIN t.nodes
          PROVE  y \in Kids(m, x) <=> IF y \in {c} THEN x = Null ELSE y \in Kids(t, x)
      <4>1. x # Null
        BY <2>1 DEF Upwards
      <4>2. QED
        BY <2>15, <3>1, <4>1
    <3>2. QED
      BY <2>11, <2>12, <2>13, <2>15, <3>1 DEF Relinked
  <2>17. /\ {c} \cap AncestorsOrSelf(t, Null) = {}
         /\ RootMoves \/ root \notin {c}
         /\ FALSE <=> root \in AncestorsOrSelf(t, Null)
    BY <2>3, NoAncestors DEF Sound
  <2>18. PICK C \in SUBSET DOMAIN t.nodes, q \in DOMAIN t.nodes \cup {Null}, con \in BOOLEAN :
           C = {c} /\ q = Null /\ con = FALSE
    OBVIOUS
  <2>19. /\ Relinked(t, m, C, q) /\ C \cap AncestorsOrSelf(t, q) = {}
         /\ RootMoves \/ root \notin C
         /\ con <=> root \in AncestorsOrSelf(t, q)
         /\ v = WithConnectedState(m, C, con)
    BY <2>8, <2>16, <2>17, <2>18
  <2>20. m.table = t.table
    BY <2>11
  <2>21. QED
    <3>1. MovesTo(t, m, C, q, con)
      <4>1. Sound(t) /\ C \in SUBSET DOMAIN t.nodes /\ q \in DOMAIN t.nodes \cup {Null} /\ con \in BOOLEAN
        OBVIOUS
      <4>2. QED
        BY ONLY <2>14, <2>19, <2>20, <4>1 DEF MovesTo
    <3>2. QED
      BY ONLY <2>19, <3>1, RelinkedThenSet
<1>3. QED
  BY <1>1, <1>2

(* Detaching all children of a node keeps the tree sound, and leaves the   *)
(* next handle of the table.                                               *)
LEMMA ClearedKeeps ==
  ASSUME NEW t, Sound(t), NEW h \in DOMAIN t.nodes, HasCore(t, h), NEW u, u = Cleared(t, h)
  PROVE  /\ Sound(u) /\ DOMAIN u.nodes = DOMAIN t.nodes
         /\ T!NextHandle(u.table) = T!NextHandle(t.table) /\ Lives(t, u)
<1>1. PICK K, V, w : K = Kids(t, h) /\ V = AllVisited(t, K) /\ w = WithConnectedState(t, K, FALSE)
  OBVIOUS
<1>2. /\ WellMade(t) /\ Agree(t) /\ Upwards(t) /\ t = [table |-> t.table, nodes |-> t.nodes]
      /\ K \in SUBSET DOMAIN t.nodes /\ DOMAIN t.nodes \subseteq T!Handle /\ root \in DOMAIN t.nodes
      /\ \A x \in DOMAIN t.nodes : /\ t.nodes[x] \in Kin(DOMAIN t.nodes)
                                   /\ t.nodes[x].children \in Seq(DOMAIN t.nodes)
  BY <1>1, NodeParts DEF Sound, WellMade
<1>3. V \subseteq DOMAIN t.nodes /\ Reached(t, K, V)
  BY <1>1, <1>2, VisitedReached
<1>4. /\ w = [table |-> w.table, nodes |-> t.nodes] /\ Touched(t.table, w.table)
      /\ \A x \in T!Handle : St(w, x) = IF x \in V THEN "AliveDetached" ELSE St(t, x)
      /\ SamePins(t.table, w.table)
  <2>1. PICK con \in BOOLEAN : con = FALSE
    OBVIOUS
  <2>2. w = WithConnectedState(t, K, con)
    BY <1>1, <2>1
  <2>3. /\ w = [table |-> w.table, nodes |-> t.nodes] /\ Touched(t.table, w.table)
        /\ \A x \in T!Handle : St(w, x) = IF x \in AllVisited(t, K) THEN StateFor(con) ELSE St(t, x)
        /\ SamePins(t.table, w.table)
    <3>1. WellMade(t) /\ K \in SUBSET DOMAIN t.nodes
      BY <1>2
    <3>2. QED
      BY ONLY <2>2, <3>1, ConnectedStateSet
  <2>4. StateFor(con) = "AliveDetached"
    BY <2>1 DEF StateFor
  <2>5. QED
    BY <1>1, <2>3, <2>4
<1>5. PICK N : N = [x \in DOMAIN t.nodes |->
                      IF x = h THEN [t.nodes[x] EXCEPT !.children = <<>>]
                      ELSE IF x \in K /\ HasCore(t, x) THEN [t.nodes[x] EXCEPT !.parent = Null]
                      ELSE t.nodes[x]]
  OBVIOUS
<1>6. u = [table |-> w.table, nodes |-> N]
  <2>1. w.nodes = t.nodes
    BY <1>4
  <2>2. u = [w EXCEPT !.nodes = N]
    BY <1>1, <1>5, <2>1 DEF Cleared
  <2>3. w = [table |-> w.table, nodes |-> w.nodes]
    BY <1>4, <2>1
  <2>4. QED
    BY <2>2, <2>3
<1>7. /\ u = [table |-> u.table, nodes |-> u.nodes] /\ u.table = w.table /\ u.nodes = N
      /\ DOMAIN u.nodes = DOMAIN t.nodes
  BY <1>5, <1>6
<1>8. \A y \in DOMAIN t.nodes : HasCore(t, y) => (y \in K <=> t.nodes[y].parent = h)
  BY <1>1, <1>2 DEF Agree
<1>9. h \notin K
  <2>1. h \in AncestorsOrSelf(t, h)
    BY <1>2, AncestorsClosed DEF Upwards
  <2>2. h \notin AncestorsOrSelf(t, t.nodes[h].parent)
    BY DEF Sound, NoCycle
  <2>3. QED
    BY <1>8, <2>1, <2>2
<1>10. ASSUME NEW x \in DOMAIN t.nodes
       PROVE  /\ N[x] \in Kin(DOMAIN t.nodes)
              /\ HasCore(t, x) => N[x].parent = IF x \in K THEN Null ELSE t.nodes[x].parent
              /\ N[x].children = IF x = h THEN <<>> ELSE t.nodes[x].children
  <2>1. t.nodes[x] \in Kin(DOMAIN t.nodes)
    BY <1>2
  <2>2. CASE x = h
    <3>1. PICK k \in Kin(DOMAIN t.nodes) : k = t.nodes[x]
      BY <2>1
    <3>2. PICK none \in Seq(DOMAIN t.nodes) : none = <<>>
      BY EmptySeq
    <3>3. N[x] = [k EXCEPT !.children = none]
      BY <1>5, <2>2, <3>1, <3>2
    <3>4. N[x] \in Kin(DOMAIN t.nodes) /\ N[x].parent = k.parent /\ N[x].children = none
      BY <3>3 DEF Kin
    <3>5. QED
      BY <1>9, <2>2, <3>1, <3>2, <3>4
  <2>3. CASE x # h /\ x \in K /\ HasCore(t, x)
    <3>1. N[x] = [t.nodes[x] EXCEPT !.parent = Null]
      BY <1>5, <2>3
    <3>2. QED
      BY <2>1, <2>3, <3>1 DEF Kin
  <2>4. CASE x # h /\ ~(x \in K /\ HasCore(t, x))
    <3>1. N[x] = t.nodes[x]
      BY <1>5, <2>4
    <3>2. QED
      BY <2>1, <2>4, <3>1
  <2>5. QED
    BY <2>2, <2>3, <2>4
<1>11. ASSUME NEW x \in DOMAIN t.nodes
       PROVE  /\ St(u, x) = IF x \in V THEN "AliveDetached" ELSE St(t, x)
              /\ HasCore(u, x) <=> HasCore(t, x)
              /\ Open(u, x) <=> Open(t, x)
  <2>1. St(u, x) = IF x \in V THEN "AliveDetached" ELSE St(t, x)
    BY <1>2, <1>4, <1>7 DEF St
  <2>2. x \in V => Open(t, x)
    BY <1>3 DEF Reached
  <2>3. HasCore(u, x) <=> HasCore(t, x)
    BY <1>7, <2>1, <2>2, CoreIsState
  <2>4. Open(u, x) <=> Open(t, x)
    BY <2>1, <2>2, CoreIsState
  <2>5. QED
    BY <2>1, <2>3, <2>4
<1>12. WellMade(u)
  <2>1. HasCore(t, root)
    BY <1>2 DEF WellMade
  <2>2. St(u, root) # "Dead"
    BY <1>2, <1>11, <2>1, CoreIsState
  <2>3. u.nodes \in [DOMAIN u.nodes -> Kin(DOMAIN u.nodes)]
    <3>1. N \in [DOMAIN t.nodes -> Kin(DOMAIN t.nodes)]
      BY <1>5, <1>10
    <3>2. QED
      BY <1>7, <3>1
  <2>4. Touched(t.table, u.table)
    BY <1>4, <1>7
  <2>5. QED
    BY <1>2, <1>7, <2>2, <2>3, <2>4, TouchedTree
<1>13. Relinked(t, u, K, Null)
  <2>1. ASSUME NEW x \in DOMAIN t.nodes, HasCore(t, x)
        PROVE  /\ IsInjective(u.nodes[x].children)
               /\ Kids(u, x) = IF x = h THEN {} ELSE Kids(t, x)
    <3>1. Kids(u, x) = ToSet(N[x].children) /\ Kids(t, x) = ToSet(t.nodes[x].children)
      BY <1>7, <1>11, <2>1 DEF Kids
    <3>2. CASE x = h
      <4>1. N[x].children = <<>>
        BY <1>10, <3>2
      <4>2. ToSet(<<>>) = {} /\ IsInjective(<<>>)
        BY DEF ToSet, IsInjective
      <4>3. QED
        BY <1>7, <3>1, <3>2, <4>1, <4>2
    <3>3. CASE x # h
      BY <1>2, <1>7, <1>10, <2>1, <3>1, <3>3 DEF Agree
    <3>4. QED
      BY <3>2, <3>3
  <2>2. ASSUME NEW x \in DOMAIN t.nodes, HasCore(t, x), NEW y \in DOMAIN t.nodes, HasCore(t, y)
        PROVE  y \in Kids(u, x) <=> IF y \in K THEN x = Null ELSE y \in Kids(t, x)
    <3>1. x # Null
      BY <1>2 DEF Upwards
    <3>2. y \in Kids(t, x) <=> t.nodes[y].parent = x
      BY <1>2, <2>2 DEF Agree
    <3>3. QED
      BY <1>1, <1>8, <2>1, <2>2, <3>1, <3>2
  <2>3. QED
    BY <1>7, <1>10, <1>11, <2>1, <2>2 DEF Relinked
<1>14. RootMoves \/ root \notin K
  <2>1. HasCore(t, root)
    BY <1>2 DEF WellMade
  <2>2. QED
    BY <1>2, <1>8, <2>1 DEF Sound, Upwards
<1>15. PICK st : st = "AliveDetached"
  OBVIOUS
<1>16. PICK q \in DOMAIN t.nodes \cup {Null} : q = Null /\ st = "AliveDetached"
  BY <1>15
<1>17. Sound(u)
  <2>1. /\ Relinked(t, u, K, q) /\ K \cap AncestorsOrSelf(t, q) = {}
        /\ st = "AliveConnected" <=> root \in AncestorsOrSelf(t, q)
    BY <1>13, <1>16, NoAncestors
  <2>2. StatesSet(t, u, V, st)
    BY <1>11, <1>16 DEF StatesSet
  <2>3. QED
    BY <1>2, <1>3, <1>12, <1>14, <2>1, <2>2, RelinkedSound
<1>18. T!NextHandle(u.table) = T!NextHandle(t.table)
  <2>1. TableOK(t.table) /\ HandlesOK(t.table, DOMAIN t.nodes)
    BY <1>2 DEF WellMade
  <2>2. T!NextHandle(w.table) = T!NextHandle(t.table)
    BY <1>4, <2>1, TouchedKeeps
  <2>3. QED
    BY <1>7, <2>2
<1>19. Lives(t, u)
  BY <1>2, <1>4, <1>7, <1>11 DEF Lives
<1>20. QED
  BY <1>7, <1>17, <1>18, <1>19

(* When nodes other than the root die or go pending, with their links left *)
(* as they are, the rest of the tree is sound.                             *)
LEMMA FewerKeep ==
  ASSUME NEW t, Sound(t), NEW u, u = [table |-> u.table, nodes |-> t.nodes],
         TableOK(u.table), HandlesOK(u.table, DOMAIN t.nodes),
         \A x \in DOMAIN t.nodes :
           \/ St(u, x) = St(t, x)
           \/ St(u, x) \in {"Dead", "PendingDestroy"} /\ x # root /\ St(t, x) # "Dead"
  PROVE  Sound(u)
<1>1. /\ WellMade(t) /\ Agree(t) /\ Upwards(t) /\ u.nodes = t.nodes /\ root \in DOMAIN t.nodes
      /\ DOMAIN u.nodes = DOMAIN t.nodes
  BY NodeParts DEF Sound
<1>2. ASSUME NEW x \in DOMAIN t.nodes
      PROVE  /\ HasCore(u, x) => HasCore(t, x)
             /\ Open(u, x) => Open(t, x) /\ St(u, x) = St(t, x)
             /\ Open(u, x) => HasCore(u, x)
  BY <1>1, CoreIsState
<1>3. WellMade(u)
  <2>1. HasCore(t, root)
    BY <1>1 DEF WellMade
  <2>2. HasCore(u, root)
    BY <1>1, <2>1, CoreIsState
  <2>3. QED
    BY <1>1, <2>2 DEF WellMade
<1>4. Upwards(u)
  BY <1>3, NodeParts
<1>5. Agree(u)
  <2>1. \A x \in DOMAIN t.nodes : HasCore(u, x) => Kids(u, x) = Kids(t, x)
    BY <1>1, <1>2 DEF Kids
  <2>2. QED
    BY <1>1, <1>2, <2>1 DEF Agree
<1>6. ASSUME NEW x \in DOMAIN t.nodes \cup {Null}
      PROVE  AncestorsOrSelf(u, x) \subseteq AncestorsOrSelf(t, x)
  <2>1. AncestorsOrSelf(t, x) \subseteq DOMAIN t.nodes
    BY <1>1, AncestorsClosed
  <2>2. \A y \in AncestorsOrSelf(t, x) : HasCore(u, y) => HasCore(t, y) /\ u.nodes[y].parent = t.nodes[y].parent
    BY <1>1, <1>2, <2>1
  <2>3. QED
    BY <1>1, <2>1, <2>2, AncestorsKept
<1>7. NoCycle(u)
  <2>1. ASSUME NEW x \in DOMAIN t.nodes, HasCore(u, x)
        PROVE  x \notin AncestorsOrSelf(u, u.nodes[x].parent)
    <3>1. PICK g \in DOMAIN t.nodes \cup {Null} : g = t.nodes[x].parent
      BY <1>1 DEF Upwards
    <3>2. x \notin AncestorsOrSelf(t, g)
      BY <1>2, <2>1, <3>1 DEF Sound, NoCycle
    <3>3. QED
      BY <1>1, <1>6, <3>1, <3>2
  <2>2. QED
    BY <1>1, <2>1 DEF NoCycle
<1>8. ASSUME ~RootMoves, NEW x \in DOMAIN t.nodes, HasCore(u, x), AllOpen(u, x)
      PROVE  St(u, x) = "AliveConnected" <=> IsConnected(u, x)
  <2>1. AncestorsOrSelf(u, x) \subseteq DOMAIN t.nodes /\ x \in AncestorsOrSelf(u, x)
    BY <1>1, <1>4, AncestorsClosed DEF Upwards
  <2>2. \A y \in AncestorsOrSelf(u, x) : Open(u, y) /\ Open(t, y) /\ HasCore(u, y)
    BY <1>2, <1>8, <2>1 DEF AllOpen
  <2>3. AncestorsOrSelf(t, x) \subseteq AncestorsOrSelf(u, x)
    <3>1. \A y \in AncestorsOrSelf(u, x) : HasCore(t, y) => HasCore(u, y) /\ t.nodes[y].parent = u.nodes[y].parent
      BY <1>1, <2>2
    <3>2. QED
      BY <1>1, <1>4, <2>1, <3>1, AncestorsKept
  <2>4. AncestorsOrSelf(t, x) = AncestorsOrSelf(u, x)
    BY <1>6, <2>3
  <2>5. AllOpen(t, x) /\ HasCore(t, x)
    BY <1>2, <1>8, <2>2, <2>4 DEF AllOpen
  <2>6. St(t, x) = "AliveConnected" <=> IsConnected(t, x)
    BY <1>8, <2>5 DEF Sound, Cached
  <2>7. QED
    BY <1>2, <2>1, <2>2, <2>4, <2>6 DEF IsConnected
<1>9. ~RootMoves => u.nodes[root].parent = Null /\ Cached(u)
  BY <1>1, <1>8 DEF Sound, Cached
<1>10. QED
  BY <1>3, <1>5, <1>7, <1>9 DEF Sound

(* A new node, hanging from nothing, keeps the tree sound.                 *)
LEMMA WithNodeKeeps ==
  ASSUME NEW t, Sound(t), NEW type \in AllTypes, NEW n \in T!Handle, n = T!NextHandle(t.table),
         NEW u, u = WithNode(t, type, "AliveDetached")
  PROVE  Sound(u) /\ DOMAIN u.nodes = DOMAIN t.nodes \cup {n} /\ n \notin DOMAIN t.nodes /\ Lives(t, u)
<1>1. PICK D, tb, ta : D = DOMAIN t.nodes /\ tb = t.table /\ ta = T!WithAlloc(tb)
  OBVIOUS
<1>2. /\ WellMade(t) /\ Agree(t) /\ Upwards(t) /\ root \in D /\ D \subseteq T!Handle
      /\ TableOK(tb) /\ HandlesOK(tb, D) /\ Null \notin D /\ HasCore(t, root)
      /\ \A x \in D : /\ t.nodes[x] \in Kin(D) /\ t.nodes[x].parent \in D \cup {Null}
                      /\ Kids(t, x) \subseteq D
  BY <1>1, NodeParts DEF Sound, WellMade, Upwards
<1>3. /\ TableOK(ta) /\ HandlesOK(ta, D \cup {n}) /\ n \notin D
      /\ T!StateOf(ta, n) = "AliveConnected"
      /\ \A g \in D : T!StateOf(ta, g) = T!StateOf(tb, g)
      /\ SamePins(tb, ta) /\ PinsAt(ta, n.index) = 0
  BY <1>1, <1>2, AllocKeeps
<1>4. PICK st \in T!NodeStates : st = "AliveDetached"
  BY DEF T!NodeStates
<1>5. PICK tc : tc = T!WithState(ta, n, st)
  OBVIOUS
<1>6. PICK k : k = NewCore(type)
  OBVIOUS
<1>7. PICK N : N = [g \in D \cup {n} |-> IF g = n THEN k ELSE t.nodes[g]]
  OBVIOUS
<1>8. u = [table |-> tc, nodes |-> N]
  BY <1>1, <1>4, <1>5, <1>6, <1>7 DEF WithNode
<1>9. /\ u = [table |-> u.table, nodes |-> u.nodes] /\ u.table = tc /\ u.nodes = N
      /\ DOMAIN u.nodes = D \cup {n} /\ N[n] = k /\ \A x \in D : N[x] = t.nodes[x]
  BY <1>3, <1>7, <1>8
<1>10. /\ Touched(ta, tc) /\ T!StateOf(tc, n) = "AliveDetached"
       /\ \A g \in D : T!StateOf(tc, g) = T!StateOf(tb, g)
       /\ SamePins(tb, tc) /\ PinsAt(tc, n.index) = 0
  <2>1. T!Resolves(ta, n)
    BY <1>3, ResolvesIsState
  <2>2. /\ Touched(ta, tc)
        /\ T!StateOf(tc, n) = IF T!Resolves(ta, n) THEN st ELSE "Dead"
        /\ \A g \in T!Handle : g # n => T!StateOf(tc, g) = T!StateOf(ta, g)
        /\ SamePins(ta, tc)
    BY <1>3, <1>5, WithStateTouches
  <2>3. SamePins(tb, tc) /\ PinsAt(tc, n.index) = 0
    BY <1>3, <2>2 DEF SamePins
  <2>4. QED
    BY <1>2, <1>3, <1>4, <2>1, <2>2, <2>3
<1>11. TableOK(tc) /\ HandlesOK(tc, D \cup {n})
  BY <1>3, <1>10, TouchedKeeps
<1>12. k \in Kin(D \cup {n}) /\ k.parent = Null /\ k.children = <<>>
  <2>1. PICK none \in Seq(D \cup {n}) : none = <<>>
    BY EmptySeq
  <2>2. k = [type |-> type, parent |-> Null, children |-> none]
    BY <1>6, <2>1 DEF NewCore
  <2>3. QED
    BY <2>1, <2>2 DEF Kin
<1>13. ASSUME NEW x \in D
       PROVE  /\ St(u, x) = St(t, x)
              /\ HasCore(u, x) <=> HasCore(t, x)
              /\ Open(u, x) <=> Open(t, x)
              /\ u.nodes[x] = t.nodes[x]
              /\ Kids(u, x) = Kids(t, x)
  <2>1. St(u, x) = St(t, x)
    BY <1>1, <1>9, <1>10 DEF St
  <2>2. u.nodes[x] = t.nodes[x] /\ (HasCore(u, x) <=> HasCore(t, x)) /\ (Open(u, x) <=> Open(t, x))
    BY <1>1, <1>9, <2>1, CoreIsState
  <2>3. QED
    BY <2>1, <2>2 DEF Kids
<1>14. HasCore(u, n) /\ Open(u, n) /\ St(u, n) = "AliveDetached" /\ Kids(u, n) = {}
  <2>1. St(u, n) = "AliveDetached"
    BY <1>9, <1>10 DEF St
  <2>2. HasCore(u, n) /\ Open(u, n)
    BY <1>9, <2>1, CoreIsState
  <2>3. ToSet(<<>>) = {}
    BY DEF ToSet
  <2>4. QED
    BY <1>9, <1>12, <2>1, <2>2, <2>3 DEF Kids
<1>15. WellMade(u)
  <2>1. ASSUME NEW x \in D \cup {n}
        PROVE  N[x] \in Kin(D \cup {n})
    <3>1. CASE x = n
      BY <1>9, <1>12, <3>1
    <3>2. CASE x \in D
      <4>1. N[x] \in Kin(D)
        BY <1>2, <1>9, <3>2
      <4>2. Seq(D) \subseteq Seq(D \cup {n})
        OBVIOUS
      <4>3. QED
        BY <4>1, <4>2 DEF Kin
    <3>3. QED
      BY <3>1, <3>2
  <2>2. N \in [D \cup {n} -> Kin(D \cup {n})]
    BY <1>7, <2>1
  <2>3. HasCore(u, root)
    BY <1>2, <1>13
  <2>4. QED
    BY <1>9, <1>11, <2>2, <2>3 DEF WellMade
<1>16. Upwards(u)
  BY <1>15, NodeParts
<1>17. Agree(u)
  <2>1. ASSUME NEW p \in D \cup {n}, HasCore(u, p), NEW c \in D \cup {n}, HasCore(u, c)
        PROVE  c \in Kids(u, p) <=> u.nodes[c].parent = p
    <3>1. CASE p = n
      <4>1. u.nodes[c].parent # n
        <5>1. CASE c = n
          BY <1>9, <1>12, <1>16, <5>1 DEF Upwards
        <5>2. CASE c \in D
          BY <1>2, <1>3, <1>9, <5>2, <1>16 DEF Upwards
        <5>3. QED
          BY <5>1, <5>2
      <4>2. QED
        BY <1>14, <3>1, <4>1
    <3>2. CASE p \in D /\ c = n
      <4>1. u.nodes[c].parent = Null /\ p # Null
        BY <1>2, <1>9, <1>12, <3>2
      <4>2. n \notin Kids(u, p)
        BY <1>2, <1>3, <1>13, <3>2
      <4>3. QED
        BY <3>2, <4>1, <4>2
    <3>3. CASE p \in D /\ c \in D
      <4>1. HasCore(t, p) /\ HasCore(t, c) /\ Kids(u, p) = Kids(t, p) /\ u.nodes[c] = t.nodes[c]
        BY <1>13, <2>1, <3>3
      <4>2. c \in Kids(t, p) <=> t.nodes[c].parent = p
        BY <1>1, <1>2, <3>3, <4>1 DEF Agree
      <4>3. QED
        BY <4>1, <4>2
    <3>4. QED
      BY <3>1, <3>2, <3>3
  <2>2. ASSUME NEW p \in D \cup {n}, HasCore(u, p)
        PROVE  IsInjective(u.nodes[p].children)
    <3>1. CASE p = n
      BY <1>9, <1>12, <3>1 DEF IsInjective
    <3>2. CASE p \in D
      BY <1>1, <1>2, <1>13, <2>2, <3>2 DEF Agree
    <3>3. QED
      BY <3>1, <3>2
  <2>3. QED
    BY <1>9, <2>1, <2>2 DEF Agree
<1>18. ASSUME NEW x \in D \cup {Null}
       PROVE  AncestorsOrSelf(u, x) = AncestorsOrSelf(t, x)
  <2>1. AncestorsOrSelf(t, x) \subseteq D
    BY <1>1, <1>2, AncestorsClosed
  <2>2. AncestorsOrSelf(u, x) \subseteq AncestorsOrSelf(t, x)
    <3>1. AncestorsOrSelf(t, x) \subseteq DOMAIN u.nodes
      BY <1>9, <2>1
    <3>2. \A y \in AncestorsOrSelf(t, x) : HasCore(u, y) => HasCore(t, y) /\ u.nodes[y].parent = t.nodes[y].parent
      BY <1>13, <2>1
    <3>3. QED
      BY <1>1, <1>2, <3>1, <3>2, AncestorsKept
  <2>3. AncestorsOrSelf(t, x) \subseteq AncestorsOrSelf(u, x)
    <3>1. AncestorsOrSelf(u, x) \subseteq DOMAIN t.nodes
      BY <1>1, <2>1, <2>2
    <3>2. \A y \in AncestorsOrSelf(u, x) : HasCore(t, y) => HasCore(u, y) /\ t.nodes[y].parent = u.nodes[y].parent
      BY <1>13, <2>1, <2>2
    <3>3. x \in DOMAIN u.nodes \cup {Null}
      BY <1>9
    <3>4. QED
      BY <1>16, <3>1, <3>2, <3>3, AncestorsKept
  <2>4. QED
    BY <2>2, <2>3
<1>19. AncestorsOrSelf(u, n) = {n}
  <2>1. u.nodes[n].parent = Null
    BY <1>9, <1>12
  <2>2. AncestorsOrSelf(u, n) = {n} \cup AncestorsOrSelf(u, Null)
    BY <1>14, <1>16, <2>1, AncestorsStep
  <2>3. QED
    BY <2>2, NoAncestors
<1>20. NoCycle(u)
  <2>1. ASSUME NEW x \in D \cup {n}, HasCore(u, x)
        PROVE  x \notin AncestorsOrSelf(u, u.nodes[x].parent)
    <3>1. CASE x = n
      BY <1>9, <1>12, <3>1, NoAncestors
    <3>2. CASE x \in D
      <4>1. PICK g \in D \cup {Null} : g = t.nodes[x].parent /\ g = u.nodes[x].parent
        BY <1>2, <1>13, <3>2
      <4>2. x \notin AncestorsOrSelf(t, g)
        BY <1>1, <1>13, <2>1, <3>2, <4>1 DEF Sound, NoCycle
      <4>3. QED
        BY <1>18, <4>1, <4>2
    <3>3. QED
      BY <3>1, <3>2
  <2>2. QED
    BY <1>9, <2>1 DEF NoCycle
<1>21. ASSUME ~RootMoves, NEW x \in D \cup {n}, HasCore(u, x), AllOpen(u, x)
       PROVE  St(u, x) = "AliveConnected" <=> IsConnected(u, x)
  <2>1. CASE x = n
    <3>1. root # n
      BY <1>2, <1>3
    <3>2. QED
      BY <1>14, <1>19, <2>1, <3>1 DEF IsConnected
  <2>2. CASE x \in D
    <3>1. AncestorsOrSelf(u, x) = AncestorsOrSelf(t, x) /\ AncestorsOrSelf(t, x) \subseteq D
      BY <1>1, <1>2, <1>18, <2>2, AncestorsClosed
    <3>2. AllOpen(t, x) /\ HasCore(t, x)
      BY <1>13, <1>21, <2>2, <3>1 DEF AllOpen
    <3>3. St(t, x) = "AliveConnected" <=> IsConnected(t, x)
      BY <1>1, <1>21, <2>2, <3>2 DEF Sound, Cached
    <3>4. QED
      BY <1>13, <2>2, <3>1, <3>3 DEF IsConnected
  <2>3. QED
    BY <2>1, <2>2
<1>22. ~RootMoves => u.nodes[root].parent = Null /\ Cached(u)
  BY <1>2, <1>9, <1>21 DEF Sound, Cached
<1>23. Sound(u)
  BY <1>1, <1>9, <1>15, <1>17, <1>20, <1>22 DEF Sound
<1>24. Lives(t, u)
  BY <1>1, <1>9, <1>10, <1>13 DEF Lives
<1>25. QED
  BY <1>1, <1>3, <1>9, <1>23, <1>24

(* set_text_content keeps the tree sound.                                  *)
LEMMA SetTextKeeps ==
  ASSUME NEW t, Sound(t), NEW h \in DOMAIN t.nodes,
         TargetError(t, h) = "Ok" /\ t.nodes[h].type # "text" => T!CanAlloc(t.table),
         NEW v, v = SetTextContent(t, h).tree
  PROVE  Sound(v) /\ Lives(t, v)
<1>1. CASE TargetError(t, h) # "Ok"
  BY <1>1, LivesOn DEF SetTextContent, Refused
<1>2. CASE TargetError(t, h) = "Ok" /\ t.nodes[h].type = "text"
  BY <1>2, LivesOn DEF SetTextContent, Done
<1>3. CASE TargetError(t, h) = "Ok" /\ t.nodes[h].type # "text"
  <2>1. PICK n, w, u : n = T!NextHandle(t.table) /\ w = Cleared(t, h) /\ u = WithNode(w, "text", "AliveDetached")
    OBVIOUS
  <2>2. n \in T!Handle
    BY <1>3, <2>1 DEF T!CanAlloc
  <2>3. HasCore(t, h)
    <3>1. St(t, h) # "Dead"
      BY <1>3 DEF TargetError, St
    <3>2. QED
      BY <3>1, CoreIsState
  <2>4. /\ Sound(w) /\ DOMAIN w.nodes = DOMAIN t.nodes
        /\ T!NextHandle(w.table) = T!NextHandle(t.table) /\ Lives(t, w)
    BY <2>1, <2>3, ClearedKeeps
  <2>5. PICK type \in AllTypes : type = "text"
    BY DEF AllTypes
  <2>6. Sound(u) /\ DOMAIN u.nodes = DOMAIN w.nodes \cup {n} /\ n \notin DOMAIN w.nodes /\ Lives(w, u)
    BY <2>1, <2>2, <2>4, <2>5, WithNodeKeeps
  <2>7. v = InsertBefore(u, h, n, Null).tree
    BY <1>3, <2>1 DEF SetTextContent, AppendChild
  <2>8. root \in DOMAIN t.nodes
    BY NodeParts DEF Sound
  <2>9. h \in DOMAIN u.nodes /\ n \in DOMAIN u.nodes /\ n # root
    BY <2>4, <2>6, <2>8
  <2>10. Sound(v) /\ Lives(u, v)
    BY <2>6, <2>7, <2>9, InsertBeforeKeeps
  <2>11. QED
    BY <2>4, <2>6, <2>10, LivesOn
<1>4. QED
  BY <1>1, <1>2, <1>3

-----------------------------------------------------------------------------
(* The steps                                                               *)

\* The inductive invariant.
Inv == Sound(Tree)

(* The document with its root alone, which is not pinned.                  *)
LEMMA RootAlone ==
  ASSUME Init
  PROVE  Inv /\ Handles = {root} /\ PinsAt(table, root.index) = 0
<1>1. PICK tb, n, H : tb = T!EmptyTable /\ n = T!NextHandle(tb) /\ H = {}
  OBVIOUS
<1>2. n = root /\ n \in T!Handle
  <2>1. n = root
    BY <1>1 DEF T!EmptyTable, T!NextHandle, T!Reuses, root
  <2>2. root \in T!Handle
    BY DomTreeAssumption DEF root, T!Handle
  <2>3. QED
    BY <2>1, <2>2
<1>3. TableOK(tb) /\ HandlesOK(tb, H)
  <2>1. <<>> \in Seq(T!Slot) /\ <<>> \in Seq(1 .. MaxSlots) /\ Len(<<>>) = 0 /\ DOMAIN <<>> = {}
    BY EmptySeq
  <2>2. tb = [slots |-> <<>>, free |-> <<>>]
    BY <1>1 DEF T!EmptyTable
  <2>3. TableOK(tb)
    BY <2>1, <2>2, DomTreeAssumption DEF TableOK, IsInjective
  <2>4. QED
    BY <1>1, <2>3 DEF HandlesOK
<1>4. PICK tc : tc = T!WithAlloc(tb)
  OBVIOUS
<1>5. /\ TableOK(tc) /\ HandlesOK(tc, H \cup {n}) /\ T!StateOf(tc, n) = "AliveConnected"
      /\ PinsAt(tc, n.index) = 0
  <2>1. /\ TableOK(tc) /\ HandlesOK(tc, H \cup {n}) /\ n \notin H
        /\ T!StateOf(tc, n) = "AliveConnected"
        /\ \A g \in H : T!StateOf(tc, g) = T!StateOf(tb, g)
        /\ SamePins(tb, tc) /\ PinsAt(tc, n.index) = 0
    <3>1. n \in T!Handle /\ n = T!NextHandle(tb)
      BY <1>1, <1>2
    <3>2. QED
      BY ONLY <1>3, <1>4, <3>1, AllocKeeps
  <2>2. QED
    BY <2>1
<1>6. PICK k : k = NewCore("document")
  OBVIOUS
<1>7. PICK t : t = [table |-> tc, nodes |-> [h \in {root} |-> k]]
  OBVIOUS
<1>8. Tree = t
  BY <1>1, <1>4, <1>6, <1>7 DEF Init, Tree
<1>9. /\ t = [table |-> t.table, nodes |-> t.nodes] /\ t.table = tc /\ DOMAIN t.nodes = {root}
      /\ t.nodes[root] = k /\ t.nodes = [h \in {root} |-> k]
  BY <1>7
<1>10. k.parent = Null /\ k.children = <<>> /\ k \in Kin({root})
  <2>1. PICK none \in Seq({root}) : none = <<>>
    BY EmptySeq
  <2>2. k = [type |-> "document", parent |-> Null, children |-> none]
    BY <1>6, <2>1 DEF NewCore
  <2>3. QED
    BY <2>1, <2>2 DEF Kin
<1>11. St(t, root) = "AliveConnected" /\ HasCore(t, root) /\ Kids(t, root) = {}
  <2>1. St(t, root) = "AliveConnected"
    BY <1>2, <1>5, <1>9 DEF St
  <2>2. HasCore(t, root)
    BY <1>9, <2>1, CoreIsState
  <2>3. ToSet(<<>>) = {}
    BY DEF ToSet
  <2>4. QED
    BY <1>9, <1>10, <2>1, <2>2, <2>3 DEF Kids
<1>12. WellMade(t)
  <2>1. H \cup {n} = {root}
    BY <1>1, <1>2
  <2>2. t.nodes \in [{root} -> Kin({root})]
    BY <1>9, <1>10
  <2>3. QED
    BY <1>5, <1>9, <1>11, <2>1, <2>2 DEF WellMade
<1>13. Upwards(t)
  BY <1>12, NodeParts
<1>14. Agree(t)
  <2>1. root # Null
    BY <1>9, <1>13 DEF Upwards
  <2>2. IsInjective(<<>>)
    BY DEF IsInjective
  <2>3. QED
    BY <1>9, <1>10, <1>11, <2>1, <2>2 DEF Agree
<1>15. AncestorsOrSelf(t, Null) = {} /\ AncestorsOrSelf(t, root) = {root}
  <2>1. AncestorsOrSelf(t, root) = {root} \cup AncestorsOrSelf(t, Null)
    BY <1>9, <1>10, <1>11, <1>13, AncestorsStep
  <2>2. QED
    BY <2>1, NoAncestors
<1>16. NoCycle(t) /\ Cached(t)
  BY <1>9, <1>10, <1>11, <1>15 DEF NoCycle, Cached, IsConnected
<1>17. Inv
  BY <1>8, <1>9, <1>10, <1>12, <1>14, <1>16 DEF Inv, Sound
<1>18. Handles = {root} /\ PinsAt(table, root.index) = 0
  BY <1>2, <1>5, <1>8, <1>9 DEF Handles, Tree
<1>19. QED
  BY <1>17, <1>18

\* From t to u no node came to life or died while it was pinned, and none was pinned
\* or unpinned.
Ages(t, u) ==
  /\ DOMAIN t.nodes \subseteq DOMAIN u.nodes
  /\ \A h \in DOMAIN t.nodes :
       /\ HasCore(u, h) => HasCore(t, h)
       /\ HasCore(t, h) /\ PinsAt(t.table, h.index) > 0 => HasCore(u, h)
  /\ SamePins(t.table, u.table)
  /\ \A h \in DOMAIN u.nodes \ DOMAIN t.nodes : PinsAt(u.table, h.index) = 0

(* Every step leads to a sound tree, and no step destroys a pinned node.   *)
LEMMA StepKeeps ==
  ASSUME Inv, [Next]_treeVars
  PROVE  Inv' /\ Ages(Tree, Tree')
<1>1. PICK t, u : t = Tree /\ u = [table |-> table', nodes |-> nodes']
  OBVIOUS
<1>2. /\ Sound(t) /\ t = [table |-> t.table, nodes |-> t.nodes] /\ t.table = table /\ t.nodes = nodes
      /\ Handles = DOMAIN t.nodes /\ t = [table |-> table, nodes |-> nodes]
  BY <1>1 DEF Inv, Tree, Handles
<1>3. /\ WellMade(t) /\ TableOK(table) /\ HandlesOK(table, DOMAIN nodes) /\ root \in DOMAIN t.nodes
      /\ DOMAIN t.nodes \subseteq T!Handle
  BY <1>2, NodeParts DEF Sound, WellMade
<1>4. u = [table |-> u.table, nodes |-> u.nodes] /\ u.table = table' /\ u.nodes = nodes'
  BY <1>1
<1>5. SUFFICES Sound(u) /\ Ages(t, u)
  BY <1>1 DEF Inv, Tree
<1>6. ASSUME NEW v, Sound(v), Lives(t, v), Becomes(v)
      PROVE  Sound(u) /\ Ages(t, u)
  <2>1. v = [table |-> v.table, nodes |-> v.nodes]
    BY <1>6 DEF Sound, WellMade
  <2>2. u = v
    BY <1>1, <1>6, <2>1 DEF Becomes
  <2>3. QED
    BY <1>6, <2>2 DEF Lives, Ages
<1>7. ASSUME NEW type \in NodeTypes, Create(type)
      PROVE  Sound(u) /\ Ages(t, u)
  <2>1. PICK n, v : n = T!NextHandle(t.table) /\ v = WithNode(t, type, "AliveDetached")
    OBVIOUS
  <2>2. n \in T!Handle /\ type \in AllTypes /\ Becomes(v)
    BY <1>1, <1>2, <1>7, <2>1, DomTreeAssumption DEF Create, T!CanAlloc
  <2>3. Sound(v) /\ Lives(t, v)
    BY <1>2, <2>1, <2>2, WithNodeKeeps
  <2>4. QED
    BY <1>6, <2>2, <2>3
<1>8. ASSUME NEW p \in Handles, NEW c \in Handles, Append_(p, c)
      PROVE  Sound(u) /\ Ages(t, u)
  <2>1. PICK v : v = InsertBefore(t, p, c, Null).tree
    OBVIOUS
  <2>2. Becomes(v) /\ (RootMoves \/ c # root)
    BY <1>1, <1>8, <2>1 DEF Append_, AppendChild
  <2>3. Sound(v) /\ Lives(t, v)
    BY <1>2, <2>1, <2>2, InsertBeforeKeeps
  <2>4. QED
    BY <1>6, <2>2, <2>3
<1>9. ASSUME NEW p \in Handles, NEW c \in Handles, NEW ref \in Handles, Insert(p, c, ref)
      PROVE  Sound(u) /\ Ages(t, u)
  <2>1. PICK v : v = InsertBefore(t, p, c, ref).tree
    OBVIOUS
  <2>2. Becomes(v) /\ (RootMoves \/ c # root)
    BY <1>1, <1>9, <2>1 DEF Insert
  <2>3. Sound(v) /\ Lives(t, v)
    BY <1>2, <2>1, <2>2, InsertBeforeKeeps
  <2>4. QED
    BY <1>6, <2>2, <2>3
<1>10. ASSUME NEW p \in Handles, NEW c \in Handles, RemoveOne(p, c)
       PROVE  Sound(u) /\ Ages(t, u)
  <2>1. PICK v : v = RemoveChild(t, p, c).tree
    OBVIOUS
  <2>2. Becomes(v)
    BY <1>1, <1>10, <2>1 DEF RemoveOne
  <2>3. Sound(v) /\ Lives(t, v)
    BY <1>2, <2>1, RemoveChildKeeps
  <2>4. QED
    BY <1>6, <2>2, <2>3
<1>11. ASSUME NEW h \in Handles, SetText(h)
       PROVE  Sound(u) /\ Ages(t, u)
  <2>1. PICK v : v = SetTextContent(t, h).tree
    OBVIOUS
  <2>2. Becomes(v) /\ T!CanAlloc(t.table)
    BY <1>1, <1>2, <1>11, <2>1 DEF SetText
  <2>3. Sound(v) /\ Lives(t, v)
    BY <1>2, <2>1, <2>2, SetTextKeeps
  <2>4. QED
    BY <1>6, <2>2, <2>3
<1>12. ASSUME NEW h \in Handles, MarkPending(h)
       PROVE  Sound(u) /\ Ages(t, u)
  <2>1. PICK st \in T!NodeStates : st = "PendingDestroy"
    BY DEF T!NodeStates
  <2>2. h \in T!Handle /\ h # root /\ u.nodes = t.nodes /\ u.table = T!WithState(t.table, h, st)
    BY <1>2, <1>3, <1>4, <1>12, <2>1 DEF MarkPending
  <2>3. /\ Touched(t.table, u.table)
        /\ T!StateOf(u.table, h) = IF T!Resolves(t.table, h) THEN st ELSE "Dead"
        /\ \A g \in T!Handle : g # h => T!StateOf(u.table, g) = T!StateOf(t.table, g)
        /\ SamePins(t.table, u.table)
    <3>1. TableOK(t.table)
      BY <1>2, <1>3
    <3>2. QED
      BY <2>2, <3>1, WithStateTouches
  <2>4. TableOK(u.table) /\ HandlesOK(u.table, DOMAIN t.nodes)
    BY <1>2, <1>3, <2>3, TouchedKeeps
  <2>5. ASSUME NEW x \in DOMAIN t.nodes
        PROVE  \/ St(u, x) = St(t, x)
               \/ St(u, x) \in {"Dead", "PendingDestroy"} /\ x # root /\ St(t, x) # "Dead"
    BY <1>3, <2>1, <2>2, <2>3, ResolvesIsState DEF St
  <2>6. Sound(u)
    BY <1>2, <1>4, <2>2, <2>4, <2>5, FewerKeep
  <2>7. ASSUME NEW x \in DOMAIN t.nodes
        PROVE  HasCore(u, x) <=> HasCore(t, x)
    <3>1. St(u, x) = "Dead" <=> St(t, x) = "Dead"
      BY <1>3, <2>1, <2>2, <2>3, ResolvesIsState DEF St
    <3>2. QED
      BY <2>2, <3>1, CoreIsState
  <2>8. QED
    BY <2>2, <2>3, <2>6, <2>7 DEF Ages
<1>13. ASSUME NEW h \in Handles, FreeNode(h)
       PROVE  Sound(u) /\ Ages(t, u)
  <2>1. h # root /\ u.nodes = t.nodes /\ u.table = T!WithFreed(t.table, h) /\ T!Resolves(t.table, h)
    BY <1>2, <1>4, <1>13 DEF FreeNode
  <2>2. /\ TableOK(u.table) /\ HandlesOK(u.table, DOMAIN t.nodes)
        /\ \A g \in DOMAIN t.nodes : g # h => T!StateOf(u.table, g) = T!StateOf(t.table, g)
        /\ T!StateOf(u.table, h) \in {T!StateOf(t.table, h), "Dead"}
        /\ SamePins(t.table, u.table)
        /\ PinsAt(t.table, h.index) > 0 => u.table = t.table
    <3>1. TableOK(t.table) /\ HandlesOK(t.table, DOMAIN t.nodes) /\ h \in DOMAIN t.nodes
      BY <1>2, <1>3
    <3>2. QED
      BY <2>1, <3>1, FreedKeeps
  <2>3. ASSUME NEW x \in DOMAIN t.nodes
        PROVE  \/ St(u, x) = St(t, x)
               \/ St(u, x) \in {"Dead", "PendingDestroy"} /\ x # root /\ St(t, x) # "Dead"
    BY <2>1, <2>2, ResolvesIsState DEF St
  <2>4. Sound(u)
    BY <1>2, <1>4, <2>1, <2>2, <2>3, FewerKeep
  <2>5. ASSUME NEW x \in DOMAIN t.nodes
        PROVE  /\ HasCore(u, x) => HasCore(t, x)
               /\ HasCore(t, x) /\ PinsAt(t.table, x.index) > 0 => HasCore(u, x)
    <3>1. CASE x # h
      BY <2>1, <2>2, <3>1, CoreIsState DEF St
    <3>2. CASE x = h
      BY <2>1, <2>2, <3>2 DEF HasCore
    <3>3. QED
      BY <3>1, <3>2
  <2>6. QED
    BY <2>1, <2>2, <2>4, <2>5 DEF Ages
<1>14. CASE UNCHANGED treeVars
  <2>1. u = t
    BY <1>1, <1>2, <1>14 DEF treeVars
  <2>2. QED
    BY <1>2, <2>1 DEF Ages, SamePins
<1>15. QED
  BY <1>7, <1>8, <1>9, <1>10, <1>11, <1>12, <1>13, <1>14 DEF Next

(* The tree is sound in every state.                                       *)
THEOREM Soundness == Spec => []Inv
<1>1. Init => Inv
  BY RootAlone
<1>2. Inv /\ [Next]_treeVars => Inv'
  BY StepKeeps
<1>3. QED
  BY <1>1, <1>2, PTL DEF Spec

-----------------------------------------------------------------------------
(* What the properties say of a sound tree                                 *)

LEMMA LiveCores ==
  ASSUME NEW h
  PROVE  h \in Live <=> HasCore(Tree, h)
BY DEF Live, HasCore, Tree, Handles

LEMMA SoundIsForest ==
  ASSUME Inv
  PROVE  IsForest
<1>1. PICK t : t = Tree
  OBVIOUS
<1>2. Sound(t) /\ t.table = table /\ t.nodes = nodes /\ Handles = DOMAIN nodes
  BY <1>1 DEF Inv, Tree, Handles
<1>3. /\ WellMade(t) /\ Agree(t) /\ NoCycle(t) /\ Upwards(t)
      /\ TableOK(table) /\ HandlesOK(table, Handles) /\ HasCore(t, root)
  BY <1>2, NodeParts DEF Sound, WellMade
<1>4. TypeOK
  <2>1. T!TypeOK
    BY <1>2, <1>3 DEF T!TypeOK, TableOK, HandlesOK
  <2>2. nodes \in [Handles -> Core]
    BY <1>2, <1>3 DEF WellMade, Core, Kin
  <2>3. root \in Handles /\ T!Resolves(table, root)
    BY <1>2, <1>3 DEF HasCore
  <2>4. QED
    BY <2>1, <2>2, <2>3 DEF TypeOK
<1>5. \A h : h \in Live <=> h \in DOMAIN t.nodes /\ HasCore(t, h)
  BY <1>1, LiveCores DEF HasCore
<1>6. ParentsAgree
  BY <1>1, <1>2, <1>3, <1>5 DEF ParentsAgree, Agree
<1>7. Acyclic
  BY <1>1, <1>2, <1>3, <1>5 DEF Acyclic, NoCycle
<1>8. QED
  BY <1>4, <1>6, <1>7 DEF IsForest

(* The tables fields, the nodes and the root keep their types              *)
(* (dom/document.cpp, dom/node_table.cpp).                                 *)
THEOREM TypeCorrect == Spec => []TypeOK
<1>1. Inv => TypeOK
  BY SoundIsForest DEF IsForest
<1>2. QED
  BY <1>1, Soundness, PTL

(* The document is a forest whatever is called in whatever order: the two  *)
(* directions of the links agree, no node is in two places or below itself *)
(* (append_child, insert_before, remove_child, set_text_content of         *)
(* dom/document.cpp, and the frees of the host).                           *)
THEOREM Forest == Spec => []IsForest
<1>1. Inv => IsForest
  BY SoundIsForest
<1>2. QED
  BY <1>1, Soundness, PTL

(* As long as no script moves the document itself, the cached state of a   *)
(* node is whether it hangs from the root (update_connected_state,         *)
(* dom/document.cpp:160).                                                  *)
THEOREM ConnectivityIsCached ==
  ASSUME RootMoves = FALSE
  PROVE  Spec => []StateIsConnectivity
<1>1. ASSUME Inv
      PROVE  StateIsConnectivity
  <2>1. PICK t : t = Tree
    OBVIOUS
  <2>2. Cached(t) /\ t.table = table
    BY <1>1, <2>1 DEF Inv, Sound, Tree
  <2>3. ASSUME NEW h \in Live, \A x \in AncestorsOrSelf(Tree, h) : Open(Tree, x)
        PROVE  T!StateOf(table, h) = "AliveConnected" <=> IsConnected(Tree, h)
    <3>1. HasCore(t, h) /\ h \in DOMAIN t.nodes /\ AllOpen(t, h)
      BY <2>1, <2>3, LiveCores DEF HasCore, AllOpen
    <3>2. St(t, h) = "AliveConnected" <=> IsConnected(t, h)
      BY <2>2, <3>1 DEF Cached
    <3>3. QED
      BY <2>1, <2>2, <3>2 DEF St
  <2>4. QED
    BY <2>3 DEF StateIsConnectivity
<1>2. Inv => StateIsConnectivity
  BY <1>1
<1>3. QED
  BY <1>2, Soundness, PTL

(* Taking a child out of a list twice is taking it out once.               *)
LEMMA WithoutTwice ==
  ASSUME NEW S, NEW s \in Seq(S), IsInjective(s), NEW x
  PROVE  Without(Without(s, x), x) = Without(s, x)
<1>1. ToSet(Without(s, x)) = ToSet(s) \ {x}
  BY WithoutOne
<1>2. QED
  BY <1>1 DEF Without

\* The insertion r of c before ref has put it there, and moved nothing else.
PutBefore(r, p, c, ref) ==
  /\ \A h \in Handles : Without(r.tree.nodes[h].children, c) = Without(nodes[h].children, c)
  /\ \E k \in 2 .. Len(r.tree.nodes[p].children) :
       r.tree.nodes[p].children[k - 1] = c /\ r.tree.nodes[p].children[k] = ref

(* insert_before puts the child directly before the reference node and     *)
(* moves nothing else (dom/document.cpp:213).                              *)
THEOREM InsertionIsExact == Spec => []InsertIsExact
<1>1. ASSUME Inv, NEW p \in Live, NEW c \in Live, NEW ref \in Live,
             NEW r, r = InsertBefore(Tree, p, c, ref), r.err = "Ok",
             nodes[c].type # "fragment", c # ref
      PROVE  PutBefore(r, p, c, ref)
  <2>1. PICK t, m, s, at, u, v :
          /\ t = Tree /\ m = Unlinked(t, c) /\ s = m.nodes[p].children
          /\ at = IF ref \in ToSet(s) THEN Place(s, ref) ELSE Len(s) + 1
          /\ u = Put(m, p, c, at) /\ v = r.tree
    OBVIOUS
  <2>2. /\ Sound(t) /\ t.nodes = nodes /\ Handles = DOMAIN t.nodes
        /\ HasCore(t, p) /\ HasCore(t, c) /\ HasCore(t, ref)
        /\ p \in DOMAIN t.nodes /\ c \in DOMAIN t.nodes /\ ref \in DOMAIN t.nodes
    BY <1>1, <2>1, LiveCores DEF Inv, Tree, Handles, HasCore
  <2>3. WellMade(t) /\ Upwards(t) /\ Agree(t) /\ ref # Null
    <3>1. WellMade(t) /\ Upwards(t) /\ Agree(t)
      BY <2>2, NodeParts DEF Sound
    <3>2. QED
      BY <2>2, <3>1 DEF Upwards
  <2>4. /\ InsertError(t, p, c) = "Ok" /\ ref \in Kids(t, p) /\ c \notin AncestorsOrSelf(t, p)
        /\ r = Done(Linked(m, p, c, at))
    <3>1. InsertError(t, p, c) = "Ok"
      BY <1>1, <2>1 DEF InsertBefore, Refused
    <3>2. ref \in Kids(t, p)
      BY <1>1, <2>1, <2>3, <3>1 DEF InsertBefore, Refused
    <3>3. r = InsertOne(t, p, c, ref)
      BY <1>1, <2>1, <2>2, <3>1, <3>2 DEF InsertBefore
    <3>4. c \notin AncestorsOrSelf(t, p)
      BY <1>1, <3>1, <3>3 DEF InsertOne, Refused
    <3>5. r = Done(Linked(m, p, c, at))
      BY <2>1, <3>1, <3>3, <3>4 DEF InsertOne
    <3>6. QED
      BY <3>1, <3>2, <3>4, <3>5
  <2>5. p # c
    <3>1. p \in AncestorsOrSelf(t, p)
      BY <2>2, <2>3, AncestorsClosed DEF Upwards
    <3>2. QED
      BY <2>4, <3>1
  <2>6. /\ \A x \in DOMAIN t.nodes :
             /\ m.nodes[x].children \in Seq(DOMAIN t.nodes)
             /\ m.nodes[x] = [t.nodes[x] EXCEPT !.children = m.nodes[x].children]
             /\ HasCore(t, x) => /\ m.nodes[x].children = Without(t.nodes[x].children, c)
                                 /\ IsInjective(m.nodes[x].children)
                                 /\ ToSet(m.nodes[x].children) = Kids(t, x) \ {c}
    <3>1. TakenOut(t, m, c)
      BY <2>1, <2>2, UnlinkedTree
    <3>2. QED
      BY <3>1 DEF TakenOut
  <2>7. /\ s \in Seq(DOMAIN t.nodes) /\ IsInjective(s) /\ ToSet(s) = Kids(t, p) \ {c}
        /\ s = Without(t.nodes[p].children, c)
    BY <2>1, <2>2, <2>6
  <2>8. at \in 1 .. Len(s) /\ s[at] = ref /\ Len(s) \in Nat /\ at \in 1 .. Len(s) + 1
    <3>1. ref \in ToSet(s) /\ at = Place(s, ref)
      BY <1>1, <2>1, <2>4, <2>7
    <3>2. at \in 1 .. Len(s) /\ s[at] = ref
      BY <2>7, <3>1, PlaceFound
    <3>3. Len(s) \in Nat
      BY <2>7, SeqEntries
    <3>4. QED
      BY <3>2, <3>3
  <2>9. IsPut(t, m, u, p, c, at)
    <3>1. m = Unlinked(t, c) /\ at \in 1 .. Len(m.nodes[p].children) + 1 /\ u = Put(m, p, c, at)
      BY <2>1, <2>8
    <3>2. QED
      BY <2>2, <2>5, <3>1, PutTree
  <2>10. v.nodes = u.nodes
    <3>1. v = WithConnectedState(u, {c}, IsConnected(m, p))
      BY <2>1, <2>4 DEF Done, Linked
    <3>2. PICK con \in BOOLEAN : con = IsConnected(m, p)
      <4>1. IsConnected(m, p) \in BOOLEAN
        BY DEF IsConnected
      <4>2. QED
        BY <4>1
    <3>3. PICK C : C = {c}
      OBVIOUS
    <3>4. WellMade(u) /\ C \in SUBSET DOMAIN u.nodes /\ v = WithConnectedState(u, C, con)
      BY <2>2, <2>9, <3>1, <3>2, <3>3 DEF IsPut, Relinked
    <3>5. /\ v = [table |-> v.table, nodes |-> u.nodes] /\ Touched(u.table, v.table)
          /\ \A h \in T!Handle : St(v, h) = IF h \in AllVisited(u, C) THEN StateFor(con) ELSE St(u, h)
      BY ONLY <3>2, <3>4, ConnectedStateSet
    <3>6. QED
      BY <3>5
  <2>11. \A x \in DOMAIN t.nodes :
           v.nodes[x].children = IF x = p THEN InsertAt(s, at, c) ELSE m.nodes[x].children
    <3>1. \A x \in DOMAIN t.nodes :
            u.nodes[x].children = IF x = p THEN InsertAt(m.nodes[p].children, at, c) ELSE m.nodes[x].children
      BY <2>9 DEF IsPut
    <3>2. s = m.nodes[p].children
      BY <2>1
    <3>3. QED
      BY <2>10, <3>1, <3>2
  <2>12. PICK e : e = InsertAt(s, at, c)
    OBVIOUS
  <2>13. Without(e, c) = s
    <3>1. c \notin ToSet(s)
      BY <2>7
    <3>2. QED
      BY <2>2, <2>7, <2>8, <2>12, <3>1, WithOne
  <2>14. Len(e) = Len(s) + 1 /\ e[at] = c /\ e[at + 1] = ref
    <3>1. /\ Len(InsertAt(s, at, c)) = Len(s) + 1
          /\ \A k \in 1 .. Len(s) + 1 :
               InsertAt(s, at, c)[k] = IF k < at THEN s[k] ELSE IF k = at THEN c ELSE s[k - 1]
      <4>1. s \in Seq(DOMAIN t.nodes) /\ at \in 1 .. Len(s) + 1 /\ c \in DOMAIN t.nodes
        BY <2>2, <2>7, <2>8
      <4>2. QED
        BY ONLY <4>1, SeqInsert
    <3>2. at + 1 \in 1 .. Len(s) + 1 /\ (at + 1) - 1 = at /\ ~(at + 1 < at) /\ at + 1 # at /\ ~(at < at)
      BY <2>8
    <3>3. QED
      BY <2>8, <2>12, <3>1, <3>2
  <2>15. ASSUME NEW h \in DOMAIN t.nodes
         PROVE  Without(v.nodes[h].children, c) = Without(t.nodes[h].children, c)
    <3>1. CASE h = p
      BY <2>7, <2>11, <2>12, <2>13, <3>1
    <3>2. CASE h # p /\ HasCore(t, h)
      <4>1. PICK k \in Seq(DOMAIN t.nodes) : k = t.nodes[h].children
        BY <2>3, NodeParts
      <4>2. IsInjective(k)
        BY <2>3, <3>2, <4>1 DEF Agree
      <4>3. v.nodes[h].children = Without(k, c)
        BY <2>6, <2>11, <3>2, <4>1
      <4>4. QED
        BY <4>1, <4>2, <4>3, WithoutTwice
    <3>3. CASE h # p /\ ~HasCore(t, h)
      <4>1. m.nodes[h] = t.nodes[h]
        <5>1. PICK q : q = t.nodes[c].parent
          OBVIOUS
        <5>2. CASE q = Null \/ ~HasCore(t, q)
          <6>1. m = t
            BY <2>1, <5>1, <5>2 DEF Unlinked
          <6>2. QED
            BY <6>1
        <5>3. CASE q # Null /\ HasCore(t, q)
          <6>1. m = [t EXCEPT !.nodes[q].children = Without(@, c)]
            BY <2>1, <5>1, <5>3 DEF Unlinked
          <6>2. h # q
            BY <3>3, <5>3
          <6>3. t = [table |-> t.table, nodes |-> t.nodes]
            BY <2>3 DEF WellMade
          <6>4. m.nodes = [t.nodes EXCEPT ![q].children = Without(@, c)]
            BY <6>1, <6>3
          <6>5. QED
            BY <6>2, <6>4
        <5>4. QED
          BY <5>2, <5>3
      <4>2. QED
        BY <2>11, <3>3, <4>1
    <3>4. QED
      BY <3>1, <3>2, <3>3
  <2>16. \A h \in Handles : Without(r.tree.nodes[h].children, c) = Without(nodes[h].children, c)
    BY <2>1, <2>2, <2>15
  <2>17. at + 1 \in 2 .. Len(e) /\ e[(at + 1) - 1] = c /\ e[at + 1] = ref /\ r.tree.nodes[p].children = e
    <3>1. at + 1 \in 2 .. Len(e) /\ (at + 1) - 1 = at
      BY <2>8, <2>14
    <3>2. r.tree.nodes[p].children = e
      BY <2>1, <2>2, <2>11, <2>12
    <3>3. QED
      BY <2>14, <3>1, <3>2
  <2>18. QED
    BY <2>16, <2>17 DEF PutBefore
<1>2. ASSUME Inv
      PROVE  InsertIsExact
  <2>1. SUFFICES ASSUME NEW p \in Live, NEW c \in Live, NEW ref \in Live,
                        NEW r, r = InsertBefore(Tree, p, c, ref), r.err = "Ok",
                        nodes[c].type # "fragment", c # ref
                 PROVE  PutBefore(r, p, c, ref)
    BY DEF InsertIsExact, PutBefore
  <2>2. QED
    BY <1>1, <1>2, <2>1
<1>3. QED
  BY <1>2, Soundness, PTL

-----------------------------------------------------------------------------
(* Counting references                                                     *)

\* A command on nodes of H: it has a target and, if it is of two nodes, an argument.
Command(H) ==
  {cmd \in [kind : AllKinds, target : H, arg : H \cup {Null}] :
     /\ cmd.kind \in Binary => cmd.arg \in H
     /\ RootMoves \/ cmd.arg # root}

\* Where the commands from place a on refer to a node, and how often they do.
RefPlaces(q, a, h) == {r \in (a .. Len(q)) \X {1, 2} : Refs(q[r[1]])[r[2]] = h}

Count(q, a, h) == Cardinality(RefPlaces(q, a, h))

\* How often one command does.
Once(x, h) == IF x = h THEN 1 ELSE 0

Own(cmd, h) == Once(cmd.target, h) + Once(cmd.arg, h)

(* The places are finitely many, no more than two for each command.        *)
LEMMA CountType ==
  ASSUME NEW S, NEW q \in Seq(S), NEW h
  PROVE  /\ \A a \in Nat : IsFiniteSet(RefPlaces(q, a, h)) /\ Count(q, a, h) \in Nat
         /\ Count(q, 1, h) <= 2 * Len(q)
         /\ Count(q, Len(q) + 1, h) = 0
<1>1. PICK n \in Nat : n = Len(q)
  BY SeqEntries
<1>2. IsFiniteSet({1, 2}) /\ Cardinality({1, 2}) = 2
  <2>1. IsFiniteSet({1}) /\ Cardinality({1}) = 1
    BY FS_Singleton
  <2>2. IsFiniteSet({1} \cup {2}) /\ Cardinality({1} \cup {2}) = Cardinality({1}) + 1
    <3>1. 2 \notin {1}
      OBVIOUS
    <3>2. QED
      BY <2>1, <3>1, FS_AddElement
  <2>3. IsFiniteSet({1} \cup {2}) /\ Cardinality({1} \cup {2}) = 2
    BY ONLY <2>1, <2>2
  <2>4. {1, 2} = {1} \cup {2}
    OBVIOUS
  <2>5. QED
    BY <2>3, <2>4, Zenon
<1>3. ASSUME NEW a \in Nat
      PROVE  /\ IsFiniteSet(RefPlaces(q, a, h)) /\ Count(q, a, h) \in Nat
             /\ Count(q, a, h) <= Cardinality(a .. n) * 2
  <2>1. IsFiniteSet(a .. n)
    BY FS_Interval
  <2>2. /\ IsFiniteSet((a .. n) \X {1, 2})
        /\ Cardinality((a .. n) \X {1, 2}) = Cardinality(a .. n) * 2
    BY <1>2, <2>1, FS_Product
  <2>3. RefPlaces(q, a, h) \in SUBSET ((a .. n) \X {1, 2})
    BY <1>1 DEF RefPlaces
  <2>4. IsFiniteSet(RefPlaces(q, a, h)) /\ Count(q, a, h) <= Cardinality((a .. n) \X {1, 2})
    BY <2>2, <2>3, FS_Subset DEF Count
  <2>5. QED
    BY <2>2, <2>4, FS_CardinalityType DEF Count
<1>4. Cardinality(1 .. n) = n
  <2>1. Cardinality(1 .. n) = IF 1 > n THEN 0 ELSE n - 1 + 1
    BY FS_Interval
  <2>2. QED
    BY <2>1
<1>5. Count(q, 1, h) <= 2 * n
  <2>1. Count(q, 1, h) <= n * 2
    BY <1>3, <1>4
  <2>2. Count(q, 1, h) \in Nat
    BY <1>3
  <2>3. QED
    BY <2>1, <2>2
<1>6. Count(q, n + 1, h) = 0
  <2>1. RefPlaces(q, n + 1, h) = {}
    BY <1>1 DEF RefPlaces
  <2>2. QED
    BY <2>1, FS_EmptySet DEF Count
<1>7. QED
  BY <1>1, <1>3, <1>5, <1>6

(* Places of one more command.                                             *)
LEMMA PlacesAdded ==
  ASSUME NEW P, IsFiniteSet(P), NEW a, NEW cmd, NEW h, \A i \in {1, 2} : <<a, i>> \notin P,
         NEW Q, Q = P \cup {r \in {a} \X {1, 2} : Refs(cmd)[r[2]] = h}
  PROVE  Cardinality(Q) = Cardinality(P) + Own(cmd, h)
<1>1. Refs(cmd)[1] = cmd.target /\ Refs(cmd)[2] = cmd.arg
  BY DEF Refs
<1>2. {r \in {a} \X {1, 2} : Refs(cmd)[r[2]] = h}
        = (IF cmd.target = h THEN {<<a, 1>>} ELSE {}) \cup (IF cmd.arg = h THEN {<<a, 2>>} ELSE {})
  BY <1>1
<1>3. PICK R : R = IF cmd.target = h THEN P \cup {<<a, 1>>} ELSE P
  OBVIOUS
<1>4. Cardinality(P) \in Nat
  BY FS_CardinalityType
<1>5. IsFiniteSet(R) /\ Cardinality(R) = Cardinality(P) + Once(cmd.target, h)
  <2>1. /\ IsFiniteSet(P \cup {<<a, 1>>})
        /\ Cardinality(P \cup {<<a, 1>>}) = IF <<a, 1>> \in P THEN Cardinality(P) ELSE Cardinality(P) + 1
    BY FS_AddElement
  <2>2. QED
    BY <1>3, <1>4, <2>1 DEF Once
<1>6. <<a, 2>> \notin R /\ Cardinality(R) \in Nat
  <2>1. <<a, 2>> # <<a, 1>>
    OBVIOUS
  <2>2. QED
    BY <1>3, <1>5, <2>1, FS_CardinalityType
<1>7. Q = IF cmd.arg = h THEN R \cup {<<a, 2>>} ELSE R
  BY <1>2, <1>3
<1>8. Cardinality(Q) = Cardinality(R) + Once(cmd.arg, h)
  <2>1. Cardinality(R \cup {<<a, 2>>}) = IF <<a, 2>> \in R THEN Cardinality(R) ELSE Cardinality(R) + 1
    BY <1>5, FS_AddElement
  <2>2. CASE cmd.arg = h
    BY <1>6, <1>7, <2>1, <2>2 DEF Once
  <2>3. CASE cmd.arg # h
    <3>1. Q = R /\ Once(cmd.arg, h) = 0
      BY <1>7, <2>3 DEF Once
    <3>2. QED
      BY <1>6, <3>1
  <2>4. QED
    BY <2>2, <2>3
<1>9. QED
  BY <1>4, <1>5, <1>8 DEF Own, Once

(* The references from a place on are those of its command and the rest.   *)
LEMMA CountStep ==
  ASSUME NEW S, NEW q \in Seq(S), NEW a \in 1 .. Len(q), NEW h
  PROVE  Count(q, a, h) = Count(q, a + 1, h) + Own(q[a], h)
<1>1. PICK n \in Nat : n = Len(q) /\ a \in 1 .. n
  BY SeqEntries
<1>2. RefPlaces(q, a, h) = RefPlaces(q, a + 1, h) \cup {r \in {a} \X {1, 2} : Refs(q[a])[r[2]] = h}
  <2>1. \A i : i \in a .. n <=> i = a \/ i \in a + 1 .. n
    BY <1>1
  <2>2. QED
    BY <1>1, <2>1 DEF RefPlaces
<1>3. \A i \in {1, 2} : <<a, i>> \notin RefPlaces(q, a + 1, h)
  BY <1>1 DEF RefPlaces
<1>4. IsFiniteSet(RefPlaces(q, a + 1, h))
  <2>1. \A b \in Nat : IsFiniteSet(RefPlaces(q, b, h))
    BY CountType
  <2>2. QED
    BY <1>1, <2>1
<1>5. QED
  BY <1>2, <1>3, <1>4, PlacesAdded DEF Count

(* A command pushed adds its own references.                               *)
LEMMA CountPushed ==
  ASSUME NEW S, NEW q \in Seq(S), NEW cmd \in S, NEW h
  PROVE  Count(Append(q, cmd), 1, h) = Count(q, 1, h) + Own(cmd, h)
<1>1. PICK n, w : n \in Nat /\ n = Len(q) /\ w = Append(q, cmd)
  BY SeqEntries
<1>2. Len(w) = n + 1 /\ w[n + 1] = cmd /\ \A i \in 1 .. n : w[i] = q[i]
  BY <1>1, SeqAdd, SeqEntries
<1>3. RefPlaces(w, 1, h) = RefPlaces(q, 1, h) \cup {r \in {n + 1} \X {1, 2} : Refs(cmd)[r[2]] = h}
  <2>1. \A i : i \in 1 .. n + 1 <=> i = n + 1 \/ i \in 1 .. n
    BY <1>1
  <2>2. QED
    BY <1>1, <1>2, <2>1 DEF RefPlaces
<1>4. \A i \in {1, 2} : <<n + 1, i>> \notin RefPlaces(q, 1, h)
  BY <1>1 DEF RefPlaces
<1>5. IsFiniteSet(RefPlaces(q, 1, h))
  BY CountType
<1>6. QED
  BY <1>1, <1>3, <1>4, <1>5, PlacesAdded DEF Count

(* The references of the commands left are those from their place on.      *)
LEMMA CountLeft ==
  ASSUME NEW S, NEW q \in Seq(S), NEW k \in 0 .. Len(q), NEW h
  PROVE  Count(SubSeq(q, k + 1, Len(q)), 1, h) = Count(q, k + 1, h)
<1>1. PICK n, w : n \in Nat /\ n = Len(q) /\ k \in 0 .. n /\ w = SubSeq(q, k + 1, n)
  BY SeqEntries
<1>2. Len(w) = n - k /\ \A i \in 1 .. n - k : w[i] = q[i + k]
  BY <1>1
<1>3. PICK P, Q, f : /\ P = RefPlaces(q, k + 1, h) /\ Q = RefPlaces(w, 1, h)
                     /\ f = [r \in P |-> <<r[1] - k, r[2]>>]
  OBVIOUS
<1>4. ASSUME NEW r \in P
      PROVE  /\ r[1] \in k + 1 .. n /\ r[2] \in {1, 2} /\ r = <<r[1], r[2]>>
             /\ f[r] = <<r[1] - k, r[2]>> /\ f[r] \in Q
  <2>1. r[1] \in k + 1 .. n /\ r[2] \in {1, 2} /\ r = <<r[1], r[2]>> /\ Refs(q[r[1]])[r[2]] = h
    BY <1>1, <1>3 DEF RefPlaces
  <2>2. r[1] - k \in 1 .. n - k /\ w[r[1] - k] = q[r[1]]
    <3>1. PICK i \in k + 1 .. n : i = r[1]
      BY <2>1
    <3>2. i - k \in 1 .. n - k /\ (i - k) + k = i
      BY <1>1
    <3>3. w[i - k] = q[(i - k) + k]
      BY <1>2, <3>2
    <3>4. QED
      BY <3>1, <3>2, <3>3
  <2>3. <<r[1] - k, r[2]>> \in Q
    BY <1>2, <1>3, <2>1, <2>2 DEF RefPlaces
  <2>4. QED
    BY <1>3, <2>1, <2>3
<1>5. ASSUME NEW r \in P, NEW s \in P, f[r] = f[s]
      PROVE  r = s
  <2>1. r[1] - k = s[1] - k /\ r[2] = s[2]
    BY <1>4, <1>5
  <2>2. r[1] = s[1]
    BY <1>1, <1>4, <2>1
  <2>3. QED
    BY <1>4, <2>1, <2>2
<1>6. ASSUME NEW s \in Q
      PROVE  \E r \in P : f[r] = s
  <2>1. s[1] \in 1 .. n - k /\ s[2] \in {1, 2} /\ s = <<s[1], s[2]>> /\ Refs(w[s[1]])[s[2]] = h
    BY <1>2, <1>3, <1>6 DEF RefPlaces
  <2>2. s[1] + k \in k + 1 .. n /\ w[s[1]] = q[s[1] + k] /\ (s[1] + k) - k = s[1]
    BY <1>1, <1>2, <2>1
  <2>3. <<s[1] + k, s[2]>> \in P
    BY <1>1, <1>3, <2>1, <2>2 DEF RefPlaces
  <2>4. f[<<s[1] + k, s[2]>>] = s
    BY <1>3, <2>1, <2>2, <2>3
  <2>5. QED
    BY <2>3, <2>4
<1>7. f \in Bijection(P, Q)
  <2>1. f \in [P -> Q]
    BY <1>3, <1>4
  <2>2. QED
    BY <1>5, <1>6, <2>1 DEF Bijection, Injection, Surjection, IsInjective
<1>8. Cardinality(Q) = Cardinality(P)
  <2>1. \A b \in Nat : IsFiniteSet(RefPlaces(q, b, h))
    BY CountType
  <2>2. IsFiniteSet(P)
    BY <1>1, <1>3, <2>1
  <2>3. QED
    BY <1>7, <2>2, FS_Bijection DEF ExistsBijection
<1>9. QED
  BY <1>1, <1>3, <1>8 DEF Count

(* No command refers to a node that was not there when it was pushed.      *)
LEMMA CountOfNew ==
  ASSUME NEW H, NEW q \in Seq(Command(H)), NEW h, h \notin H \cup {Null}, NEW a \in Nat \ {0}
  PROVE  Count(q, a, h) = 0
<1>1. \A i \in 1 .. Len(q) : q[i].target # h /\ q[i].arg # h
  BY SeqEntries DEF Command
<1>2. RefPlaces(q, a, h) = {}
  <2>1. \A r \in (a .. Len(q)) \X {1, 2} : r[1] \in 1 .. Len(q) /\ Refs(q[r[1]])[r[2]] # h
    BY <1>1, SeqEntries DEF Refs
  <2>2. QED
    BY <2>1 DEF RefPlaces
<1>3. QED
  BY <1>2, FS_EmptySet DEF Count

-----------------------------------------------------------------------------
(* Pins                                                                    *)

PinsOf(t, h) == PinsAt(t.table, h.index)

\* From t to u nothing but pins changed.
OnlyPins(t, u) ==
  /\ Sound(u) /\ u.nodes = t.nodes
  /\ \A x \in DOMAIN t.nodes : HasCore(u, x) <=> HasCore(t, x)

(* Setting the pins of a slot that is not dead.                            *)
LEMMA PinsSet ==
  ASSUME NEW tb, TableOK(tb), NEW h, T!Resolves(tb, h), NEW p \in 0 .. PinMod - 1,
         NEW tc, tc = [tb EXCEPT !.slots[h.index].pins = p]
  PROVE  /\ Touched(tb, tc)
         /\ \A g : T!StateOf(tc, g) = T!StateOf(tb, g)
         /\ \A i : PinsAt(tc, i) = IF i = h.index THEN p ELSE PinsAt(tb, i)
<1>1. /\ tb = [slots |-> tb.slots, free |-> tb.free]
      /\ \A i \in DOMAIN tb.slots : tb.slots[i] \in T!Slot
      /\ tb.slots = [i \in DOMAIN tb.slots |-> tb.slots[i]]
  BY TableParts
<1>2. PICK i, s, e : i = h.index /\ s = tb.slots[i] /\ e = [s EXCEPT !.pins = p]
  OBVIOUS
<1>3. i \in DOMAIN tb.slots /\ s.state # "Dead" /\ s \in T!Slot
  BY <1>1, <1>2 DEF T!Resolves, T!Current
<1>4. e \in T!Slot /\ e.generation = s.generation /\ e.state = s.state /\ e.pins = p
  BY <1>2, <1>3 DEF T!Slot
<1>5. tc = [slots |-> [tb.slots EXCEPT ![i] = e], free |-> tb.free]
  <2>1. tc = [tb EXCEPT !.slots = [tb.slots EXCEPT ![i] = [tb.slots[i] EXCEPT !.pins = p]]]
    BY <1>2
  <2>2. QED
    BY <1>1, <1>2, <2>1
<1>6. /\ tc.free = tb.free /\ DOMAIN tc.slots = DOMAIN tb.slots
      /\ \A j \in DOMAIN tb.slots : tc.slots[j] = IF j = i THEN e ELSE tb.slots[j]
  BY <1>1, <1>5
<1>7. Touched(tb, tc)
  <2>1. tc = [slots |-> tc.slots, free |-> tb.free]
    BY <1>5
  <2>2. tc.slots = [j \in DOMAIN tb.slots |-> tc.slots[j]]
    BY <1>1, <1>5
  <2>3. QED
    BY <1>1, <1>2, <1>3, <1>4, <1>6, <2>1, <2>2 DEF Touched
<1>8. ASSUME NEW g
      PROVE  T!StateOf(tc, g) = T!StateOf(tb, g)
  BY <1>2, <1>4, <1>6 DEF T!StateOf, T!Current
<1>9. ASSUME NEW j
      PROVE  PinsAt(tc, j) = IF j = i THEN p ELSE PinsAt(tb, j)
  <2>1. CASE j \notin DOMAIN tb.slots
    BY <1>3, <1>6, <2>1 DEF PinsAt
  <2>2. CASE j \in DOMAIN tb.slots /\ j # i
    <3>1. j \in DOMAIN tc.slots /\ tc.slots[j] = tb.slots[j]
      BY <1>6, <2>2
    <3>2. PinsAt(tc, j) = PinsAt(tb, j)
      BY ONLY <2>2, <3>1 DEF PinsAt
    <3>3. QED
      BY <2>2, <3>2
  <2>3. CASE j = i
    BY <1>3, <1>4, <1>6, <2>3 DEF PinsAt
  <2>4. QED
    BY <2>1, <2>2, <2>3
<1>10. QED
  BY <1>2, <1>7, <1>8, <1>9

(* Two live nodes never share a slot; a slot has a number of pins.         *)
LEMMA LiveSlots ==
  ASSUME NEW t, Sound(t)
  PROVE  /\ \A g, h \in DOMAIN t.nodes : HasCore(t, g) /\ HasCore(t, h) /\ g.index = h.index => g = h
         /\ \A h \in DOMAIN t.nodes : HasCore(t, h) => PinsOf(t, h) \in 0 .. PinMod - 1
<1>1. WellMade(t) /\ DOMAIN t.nodes \subseteq T!Handle
  BY NodeParts DEF Sound
<1>2. ASSUME NEW g \in DOMAIN t.nodes, NEW h \in DOMAIN t.nodes,
             HasCore(t, g), HasCore(t, h), g.index = h.index
      PROVE  g = h
  BY <1>1, <1>2, HandleParts DEF HasCore, T!Resolves, T!Current
<1>3. ASSUME NEW h \in DOMAIN t.nodes, HasCore(t, h)
      PROVE  PinsOf(t, h) \in 0 .. PinMod - 1
  <2>1. h.index \in DOMAIN t.table.slots
    BY <1>3 DEF HasCore, T!Resolves, T!Current
  <2>2. t.table.slots[h.index] \in T!Slot
    BY <1>1, <2>1, TableParts DEF WellMade
  <2>3. QED
    BY <2>1, <2>2 DEF PinsOf, PinsAt, T!Slot
<1>4. QED
  BY <1>2, <1>3

(* A tree whose table differs in pins only is as sound as before.          *)
LEMMA OnlyPinsKeep ==
  ASSUME NEW t, Sound(t), NEW u, u = [table |-> u.table, nodes |-> t.nodes],
         Touched(t.table, u.table), \A g : T!StateOf(u.table, g) = T!StateOf(t.table, g)
  PROVE  OnlyPins(t, u)
<1>1. WellMade(t) /\ TableOK(t.table) /\ HandlesOK(t.table, DOMAIN t.nodes)
  BY DEF Sound, WellMade
<1>2. u.nodes = t.nodes /\ TableOK(u.table) /\ HandlesOK(u.table, DOMAIN t.nodes)
  BY <1>1, TouchedKeeps
<1>3. \A x : St(u, x) = St(t, x)
  BY DEF St
<1>4. Sound(u)
  BY <1>2, <1>3, FewerKeep
<1>5. \A x \in DOMAIN t.nodes : HasCore(u, x) <=> HasCore(t, x)
  BY <1>2, <1>3, CoreIsState
<1>6. QED
  BY <1>2, <1>4, <1>5 DEF OnlyPins

(* One pin more, through a handle that may be dead or null.                *)
LEMMA PinnedOnce ==
  ASSUME NEW t, Sound(t), NEW h \in DOMAIN t.nodes \cup {Null},
         \A x \in DOMAIN t.nodes : HasCore(t, x) => PinsOf(t, x) + 1 < PinMod,
         NEW u, u = [table |-> T!WithPin(t.table, h), nodes |-> t.nodes]
  PROVE  /\ OnlyPins(t, u)
         /\ \A x \in DOMAIN t.nodes : HasCore(t, x) => PinsOf(u, x) = PinsOf(t, x) + Once(h, x)
<1>1. WellMade(t) /\ TableOK(t.table) /\ t = [table |-> t.table, nodes |-> t.nodes]
  BY DEF Sound, WellMade
<1>2. CASE ~T!Resolves(t.table, h)
  <2>1. u = t
    BY <1>1, <1>2 DEF T!WithPin
  <2>2. \A x \in DOMAIN t.nodes : HasCore(t, x) => x # h
    BY <1>2 DEF HasCore
  <2>3. QED
    BY <2>1, <2>2, LiveSlots DEF OnlyPins, Once
<1>3. CASE T!Resolves(t.table, h)
  <2>1. PICK i, p : i = h.index /\ p = PinsOf(t, h) + 1
    OBVIOUS
  <2>2. h \in DOMAIN t.nodes /\ HasCore(t, h)
    <3>1. h # Null
      BY <1>1, <1>3, TableParts DEF Null, T!Resolves, T!Current
    <3>2. QED
      BY <1>3, <3>1 DEF HasCore
  <2>3. p \in 0 .. PinMod - 1 /\ (t.table.slots[i].pins + 1) % PinMod = p
    <3>1. PinsOf(t, h) \in 0 .. PinMod - 1 /\ PinsOf(t, h) + 1 < PinMod
      BY <2>2, LiveSlots
    <3>2. t.table.slots[i].pins = PinsOf(t, h)
      BY <1>3, <2>1 DEF PinsOf, PinsAt, T!Resolves, T!Current
    <3>3. PinMod \in Nat
      BY DomTreeAssumption
    <3>4. QED
      BY <2>1, <3>1, <3>2, <3>3
  <2>4. u.table = [t.table EXCEPT !.slots[h.index].pins = p]
    BY <1>3, <2>1, <2>3 DEF T!WithPin
  <2>5. /\ Touched(t.table, u.table)
        /\ \A g : T!StateOf(u.table, g) = T!StateOf(t.table, g)
        /\ \A j : PinsAt(u.table, j) = IF j = h.index THEN p ELSE PinsAt(t.table, j)
    BY <1>1, <1>3, <2>3, <2>4, PinsSet
  <2>6. OnlyPins(t, u)
    BY <2>5, OnlyPinsKeep
  <2>7. ASSUME NEW x \in DOMAIN t.nodes, HasCore(t, x)
        PROVE  PinsOf(u, x) = PinsOf(t, x) + Once(h, x)
    <3>1. PinsOf(t, x) \in 0 .. PinMod - 1
      BY <2>7, LiveSlots
    <3>2. x.index = h.index <=> x = h
      BY <2>2, <2>7, LiveSlots
    <3>3. QED
      BY <2>1, <2>5, <3>1, <3>2 DEF PinsOf, Once
  <2>8. QED
    BY <2>6, <2>7
<1>4. QED
  BY <1>2, <1>3

(* One pin fewer.                                                          *)
LEMMA UnpinnedOnce ==
  ASSUME NEW t, Sound(t), NEW h \in DOMAIN t.nodes \cup {Null},
         h \in DOMAIN t.nodes /\ HasCore(t, h) => PinsOf(t, h) > 0,
         NEW u, u = [table |-> T!WithoutPin(t.table, h), nodes |-> t.nodes]
  PROVE  /\ OnlyPins(t, u)
         /\ \A x \in DOMAIN t.nodes : HasCore(t, x) => PinsOf(u, x) = PinsOf(t, x) - Once(h, x)
<1>1. WellMade(t) /\ TableOK(t.table) /\ t = [table |-> t.table, nodes |-> t.nodes]
  BY DEF Sound, WellMade
<1>2. CASE ~T!Resolves(t.table, h)
  <2>1. u = t
    BY <1>1, <1>2 DEF T!WithoutPin
  <2>2. \A x \in DOMAIN t.nodes : HasCore(t, x) => x # h
    BY <1>2 DEF HasCore
  <2>3. QED
    BY <2>1, <2>2, LiveSlots DEF OnlyPins, Once
<1>3. CASE T!Resolves(t.table, h)
  <2>1. PICK i, p : i = h.index /\ p = PinsOf(t, h) - 1
    OBVIOUS
  <2>2. h \in DOMAIN t.nodes /\ HasCore(t, h)
    <3>1. h # Null
      BY <1>1, <1>3, TableParts DEF Null, T!Resolves, T!Current
    <3>2. QED
      BY <1>3, <3>1 DEF HasCore
  <2>3. p \in 0 .. PinMod - 1 /\ t.table.slots[i].pins - 1 = p /\ T!Pinned(t.table, h)
    <3>1. PinsOf(t, h) \in 0 .. PinMod - 1 /\ PinsOf(t, h) > 0
      BY <2>2, LiveSlots
    <3>2. t.table.slots[i].pins = PinsOf(t, h) /\ T!Current(t.table, h)
      BY <1>3, <2>1 DEF PinsOf, PinsAt, T!Resolves, T!Current
    <3>3. PinMod \in Nat
      BY DomTreeAssumption
    <3>4. QED
      BY <2>1, <3>1, <3>2, <3>3 DEF T!Pinned
  <2>4. u.table = [t.table EXCEPT !.slots[h.index].pins = p]
    BY <1>3, <2>1, <2>3 DEF T!WithoutPin
  <2>5. /\ Touched(t.table, u.table)
        /\ \A g : T!StateOf(u.table, g) = T!StateOf(t.table, g)
        /\ \A j : PinsAt(u.table, j) = IF j = h.index THEN p ELSE PinsAt(t.table, j)
    BY <1>1, <1>3, <2>3, <2>4, PinsSet
  <2>6. OnlyPins(t, u)
    BY <2>5, OnlyPinsKeep
  <2>7. ASSUME NEW x \in DOMAIN t.nodes, HasCore(t, x)
        PROVE  PinsOf(u, x) = PinsOf(t, x) - Once(h, x)
    <3>1. PinsOf(t, x) \in 0 .. PinMod - 1
      BY <2>7, LiveSlots
    <3>2. x.index = h.index <=> x = h
      BY <2>2, <2>7, LiveSlots
    <3>3. QED
      BY <2>1, <2>5, <3>1, <3>2 DEF PinsOf, Once
  <2>8. QED
    BY <2>6, <2>7
<1>4. QED
  BY <1>2, <1>3

(* The pins of a command.                                                  *)
LEMMA CommandPinned ==
  ASSUME NEW t, Sound(t), NEW cmd \in Command(DOMAIN t.nodes),
         \A x \in DOMAIN t.nodes : HasCore(t, x) => PinsOf(t, x) + 2 < PinMod,
         NEW u, u = [table |-> WithPins(t.table, cmd), nodes |-> t.nodes]
  PROVE  /\ OnlyPins(t, u)
         /\ \A x \in DOMAIN t.nodes : HasCore(t, x) => PinsOf(u, x) = PinsOf(t, x) + Own(cmd, x)
<1>1. cmd.target \in DOMAIN t.nodes \cup {Null} /\ cmd.arg \in DOMAIN t.nodes \cup {Null}
  BY DEF Command
<1>2. \A x \in DOMAIN t.nodes : HasCore(t, x) => PinsOf(t, x) \in Nat /\ PinsOf(t, x) + 1 < PinMod
  BY LiveSlots, DomTreeAssumption
<1>3. PICK m : m = [table |-> T!WithPin(t.table, cmd.target), nodes |-> t.nodes]
  OBVIOUS
<1>4. /\ OnlyPins(t, m)
      /\ \A x \in DOMAIN t.nodes : HasCore(t, x) => PinsOf(m, x) = PinsOf(t, x) + Once(cmd.target, x)
  BY <1>1, <1>2, <1>3, PinnedOnce
<1>5. Sound(m) /\ m.nodes = t.nodes /\ \A x \in DOMAIN t.nodes : HasCore(m, x) <=> HasCore(t, x)
  BY <1>4 DEF OnlyPins
<1>6. \A x \in DOMAIN m.nodes : HasCore(m, x) => PinsOf(m, x) + 1 < PinMod
  BY <1>2, <1>4, <1>5, DomTreeAssumption DEF Once
<1>7. u = [table |-> T!WithPin(m.table, cmd.arg), nodes |-> m.nodes]
  BY <1>3 DEF WithPins
<1>8. /\ OnlyPins(m, u)
      /\ \A x \in DOMAIN m.nodes : HasCore(m, x) => PinsOf(u, x) = PinsOf(m, x) + Once(cmd.arg, x)
  BY <1>1, <1>5, <1>6, <1>7, PinnedOnce
<1>9. OnlyPins(t, u)
  BY <1>5, <1>8 DEF OnlyPins
<1>10. ASSUME NEW x \in DOMAIN t.nodes, HasCore(t, x)
       PROVE  PinsOf(u, x) = PinsOf(t, x) + Own(cmd, x)
  BY <1>2, <1>4, <1>5, <1>8, <1>10 DEF Own, Once
<1>11. QED
  BY <1>9, <1>10

LEMMA CommandUnpinned ==
  ASSUME NEW t, Sound(t), NEW cmd \in Command(DOMAIN t.nodes),
         \A x \in DOMAIN t.nodes : HasCore(t, x) => PinsOf(t, x) >= Own(cmd, x),
         NEW u, u = [table |-> WithoutPins(t.table, cmd), nodes |-> t.nodes]
  PROVE  /\ OnlyPins(t, u)
         /\ \A x \in DOMAIN t.nodes : HasCore(t, x) => PinsOf(u, x) = PinsOf(t, x) - Own(cmd, x)
<1>1. cmd.target \in DOMAIN t.nodes \cup {Null} /\ cmd.arg \in DOMAIN t.nodes \cup {Null}
  BY DEF Command
<1>2. \A x \in DOMAIN t.nodes : HasCore(t, x) => PinsOf(t, x) \in Nat
  BY LiveSlots, DomTreeAssumption
<1>3. PICK m : m = [table |-> T!WithoutPin(t.table, cmd.target), nodes |-> t.nodes]
  OBVIOUS
<1>4. HasCore(t, cmd.target) => PinsOf(t, cmd.target) > 0
  BY <1>2 DEF Own, Once, HasCore
<1>5. /\ OnlyPins(t, m)
      /\ \A x \in DOMAIN t.nodes : HasCore(t, x) => PinsOf(m, x) = PinsOf(t, x) - Once(cmd.target, x)
  BY <1>1, <1>3, <1>4, UnpinnedOnce
<1>6. Sound(m) /\ m.nodes = t.nodes /\ \A x \in DOMAIN t.nodes : HasCore(m, x) <=> HasCore(t, x)
  BY <1>5 DEF OnlyPins
<1>7. cmd.arg \in DOMAIN m.nodes /\ HasCore(m, cmd.arg) => PinsOf(m, cmd.arg) > 0
  BY <1>2, <1>5, <1>6 DEF Own, Once
<1>8. u = [table |-> T!WithoutPin(m.table, cmd.arg), nodes |-> m.nodes]
  BY <1>3 DEF WithoutPins
<1>9. /\ OnlyPins(m, u)
      /\ \A x \in DOMAIN m.nodes : HasCore(m, x) => PinsOf(u, x) = PinsOf(m, x) - Once(cmd.arg, x)
  BY <1>1, <1>6, <1>7, <1>8, UnpinnedOnce
<1>10. OnlyPins(t, u)
  BY <1>6, <1>9 DEF OnlyPins
<1>11. ASSUME NEW x \in DOMAIN t.nodes, HasCore(t, x)
       PROVE  PinsOf(u, x) = PinsOf(t, x) - Own(cmd, x)
  BY <1>2, <1>5, <1>6, <1>9, <1>11 DEF Own, Once
<1>12. QED
  BY <1>10, <1>11

-----------------------------------------------------------------------------
(* A flush                                                                 *)

(* A command applied keeps the tree sound and pins nothing.                *)
LEMMA AppliedKeeps ==
  ASSUME NEW t, Sound(t), NEW cmd \in Command(DOMAIN t.nodes),
         Creates(t, cmd) => T!CanAlloc(t.table), NEW r, r = Applied(t, cmd)
  PROVE  Sound(r.tree) /\ Lives(t, r.tree)
<1>1. PICK p, c, v : p = cmd.target /\ c = cmd.arg /\ v = r.tree
  OBVIOUS
<1>2. /\ cmd.kind \in AllKinds /\ p \in DOMAIN t.nodes
      /\ cmd.kind \in Binary => c \in DOMAIN t.nodes /\ (RootMoves \/ c # root)
  BY <1>1 DEF Command
<1>3. WellMade(t)
  BY DEF Sound
<1>4. CASE cmd.kind = "AppendChild"
  <2>1. c \in DOMAIN t.nodes /\ (RootMoves \/ c # root)
    BY <1>2, <1>4 DEF Binary
  <2>2. v = InsertBefore(t, p, c, Null).tree
    BY <1>1, <1>4 DEF Applied, AppendChild
  <2>3. QED
    BY <1>1, <1>2, <2>1, <2>2, InsertBeforeKeeps
<1>5. CASE cmd.kind = "RemoveChild"
  <2>1. c \in DOMAIN t.nodes
    BY <1>2, <1>5 DEF Binary
  <2>2. v = RemoveChild(t, p, c).tree
    BY <1>1, <1>5 DEF Applied
  <2>3. QED
    BY <1>1, <1>2, <2>1, <2>2, RemoveChildKeeps
<1>6. CASE cmd.kind = "Remove"
  <2>1. PICK d : d = t.nodes[p].parent
    OBVIOUS
  <2>2. CASE HasCore(t, p) /\ d # Null
    <3>1. v = RemoveChild(t, d, p).tree
      BY <1>1, <1>6, <2>1, <2>2 DEF Applied
    <3>2. d \in DOMAIN t.nodes
      BY <1>2, <1>3, <2>1, <2>2, NodeParts
    <3>3. QED
      BY <1>1, <1>2, <3>1, <3>2, RemoveChildKeeps
  <2>3. CASE ~(HasCore(t, p) /\ d # Null)
    <3>1. v = t
      BY <1>1, <1>6, <2>1, <2>3 DEF Applied, Done
    <3>2. QED
      BY <1>1, <3>1, LivesOn
  <2>4. QED
    BY <2>2, <2>3
<1>7. CASE cmd.kind = "SetAttribute"
  <2>1. v = t
    BY <1>1, <1>7 DEF Applied, SetAttribute
  <2>2. QED
    BY <1>1, <2>1, LivesOn
<1>8. CASE cmd.kind = "SetTextContent"
  <2>1. v = SetTextContent(t, p).tree
    BY <1>1, <1>8 DEF Applied
  <2>2. TargetError(t, p) = "Ok" /\ t.nodes[p].type # "text" => T!CanAlloc(t.table)
    BY <1>1, <1>8 DEF Creates
  <2>3. QED
    BY <1>1, <1>2, <2>1, <2>2, SetTextKeeps
<1>9. QED
  BY <1>2, <1>4, <1>5, <1>6, <1>7, <1>8 DEF AllKinds

\* After n turns of a flush of q that began with the tree t: the nodes of t live or
\* not as before, and the pins that are left are those of the commands not applied.
TurnOK(t, q, n, f) ==
  /\ f = [tree |-> f.tree, applied |-> f.applied, err |-> f.err]
  /\ f.applied \in 0 .. n /\ (f.err = "Ok" => f.applied = n)
  /\ Sound(f.tree) /\ DOMAIN t.nodes \subseteq DOMAIN f.tree.nodes
  /\ \A x \in DOMAIN t.nodes : HasCore(f.tree, x) <=> HasCore(t, x)
  /\ \A x \in DOMAIN f.tree.nodes :
       HasCore(f.tree, x) => PinsOf(f.tree, x) = Count(q, f.applied + 1, x)

(* One turn.                                                               *)
LEMMA TurnKeeps ==
  ASSUME NEW t, NEW q \in Seq(Command(DOMAIN t.nodes)), NEW n \in Nat, n + 1 \in 1 .. Len(q),
         NEW f, TurnOK(t, q, n, f), NEW cmd, cmd = q[n + 1],
         f.err = "Ok" /\ Creates(f.tree, cmd) => T!CanAlloc(f.tree.table),
         NEW g, g = After(f, cmd)
  PROVE  TurnOK(t, q, n + 1, g)
<1>1. PICK w, r, v, u : /\ w = f.tree /\ r = Applied(w, cmd) /\ v = r.tree
                        /\ u = [table |-> WithoutPins(v.table, cmd), nodes |-> v.nodes]
  OBVIOUS
<1>2. /\ f = [tree |-> w, applied |-> f.applied, err |-> f.err]
      /\ f.applied \in 0 .. n /\ (f.err = "Ok" => f.applied = n)
      /\ Sound(w) /\ DOMAIN t.nodes \subseteq DOMAIN w.nodes
      /\ \A x \in DOMAIN t.nodes : HasCore(w, x) <=> HasCore(t, x)
      /\ \A x \in DOMAIN w.nodes : HasCore(w, x) => PinsOf(w, x) = Count(q, f.applied + 1, x)
  BY <1>1 DEF TurnOK
<1>3. CASE f.err # "Ok"
  <2>1. g = f
    BY <1>3 DEF After
  <2>2. f.applied \in 0 .. n + 1
    BY <1>2
  <2>3. QED
    BY <1>1, <1>2, <1>3, <2>1, <2>2 DEF TurnOK
<1>4. CASE f.err = "Ok" /\ r.err # "Ok"
  <2>1. g = [f EXCEPT !.err = r.err]
    BY <1>1, <1>4 DEF After
  <2>2. g = [tree |-> w, applied |-> f.applied, err |-> r.err]
    BY <1>2, <2>1
  <2>3. f.applied \in 0 .. n + 1
    BY <1>2
  <2>4. QED
    BY <1>2, <1>4, <2>2, <2>3 DEF TurnOK
<1>5. CASE f.err = "Ok" /\ r.err = "Ok"
  <2>1. cmd \in Command(DOMAIN t.nodes) /\ cmd \in Command(DOMAIN w.nodes)
    <3>1. cmd \in Command(DOMAIN t.nodes)
      BY SeqEntries
    <3>2. QED
      BY <1>2, <3>1 DEF Command
  <2>2. Sound(v) /\ Lives(w, v)
    <3>1. Creates(w, cmd) => T!CanAlloc(w.table)
      BY <1>1, <1>5
    <3>2. QED
      BY <1>1, <1>2, <2>1, <3>1, AppliedKeeps
  <2>3. /\ DOMAIN w.nodes \subseteq DOMAIN v.nodes
        /\ \A x \in DOMAIN w.nodes : HasCore(v, x) <=> HasCore(w, x)
        /\ \A x \in DOMAIN w.nodes : PinsOf(v, x) = PinsOf(w, x)
        /\ \A x \in DOMAIN v.nodes \ DOMAIN w.nodes : PinsOf(v, x) = 0
    BY <2>2 DEF Lives, SamePins, PinsOf
  <2>4. v = [table |-> v.table, nodes |-> v.nodes] /\ Null \notin DOMAIN v.nodes
    BY <2>2, NodeParts DEF Sound, WellMade, Upwards
  <2>5. \A x : Count(q, n + 1, x) = Count(q, n + 2, x) + Own(cmd, x) /\ Count(q, n + 2, x) \in Nat
    <3>1. \A x : Count(q, n + 1, x) = Count(q, (n + 1) + 1, x) + Own(q[n + 1], x)
      BY CountStep
    <3>2. ASSUME NEW x
          PROVE  Count(q, n + 2, x) \in Nat
      <4>1. \A a \in Nat : Count(q, a, x) \in Nat
        BY CountType
      <4>2. n + 2 \in Nat
        OBVIOUS
      <4>3. QED
        BY <4>1, <4>2
    <3>3. (n + 1) + 1 = n + 2
      OBVIOUS
    <3>4. QED
      BY <3>1, <3>2, <3>3
  <2>6. ASSUME NEW x \in DOMAIN v.nodes, HasCore(v, x)
        PROVE  PinsOf(v, x) = Count(q, n + 1, x)
    <3>1. CASE x \in DOMAIN w.nodes
      BY <1>2, <1>5, <2>3, <2>6, <3>1
    <3>2. CASE x \notin DOMAIN w.nodes
      <4>1. x \notin DOMAIN t.nodes \cup {Null}
        BY <1>2, <2>4, <3>2
      <4>2. n + 1 \in Nat \ {0}
        OBVIOUS
      <4>3. Count(q, n + 1, x) = 0
        BY <4>1, <4>2, CountOfNew
      <4>4. QED
        BY <2>3, <3>2, <4>3
    <3>3. QED
      BY <3>1, <3>2
  <2>7. /\ OnlyPins(v, u)
        /\ \A x \in DOMAIN v.nodes : HasCore(v, x) => PinsOf(u, x) = PinsOf(v, x) - Own(cmd, x)
    <3>1. cmd \in Command(DOMAIN v.nodes)
      BY <2>1, <2>3 DEF Command
    <3>2. \A x : Own(cmd, x) \in Nat
      BY DEF Own, Once
    <3>3. \A x \in DOMAIN v.nodes : HasCore(v, x) => PinsOf(v, x) >= Own(cmd, x)
      BY <2>5, <2>6, <3>2
    <3>4. Sound(v) /\ u = [table |-> WithoutPins(v.table, cmd), nodes |-> v.nodes]
      BY <1>1, <2>2
    <3>5. QED
      BY ONLY <3>1, <3>3, <3>4, CommandUnpinned
  <2>8. Sound(u) /\ u.nodes = v.nodes /\ \A x \in DOMAIN v.nodes : HasCore(u, x) <=> HasCore(v, x)
    BY <2>7 DEF OnlyPins
  <2>9. g = [tree |-> u, applied |-> n + 1, err |-> "Ok"]
    <3>1. g = [tree |-> [v EXCEPT !.table = WithoutPins(@, cmd)], applied |-> f.applied + 1, err |-> "Ok"]
      BY <1>1, <1>5 DEF After
    <3>2. [v EXCEPT !.table = WithoutPins(@, cmd)] = u
      BY <1>1, <2>4
    <3>3. QED
      BY <1>2, <1>5, <3>1, <3>2
  <2>10. ASSUME NEW x \in DOMAIN u.nodes, HasCore(u, x)
         PROVE  PinsOf(u, x) = Count(q, n + 2, x)
    <3>1. x \in DOMAIN v.nodes /\ HasCore(v, x)
      BY <2>8, <2>10
    <3>2. Own(cmd, x) \in Nat
      BY DEF Own, Once
    <3>3. QED
      BY <2>5, <2>6, <2>7, <3>1, <3>2
  <2>11. \A x \in DOMAIN t.nodes : HasCore(u, x) <=> HasCore(t, x)
    BY <1>2, <2>3, <2>8
  <2>12. n + 1 \in 0 .. n + 1 /\ (n + 1) + 1 = n + 2
    OBVIOUS
  <2>13. QED
    BY <1>2, <2>3, <2>8, <2>9, <2>10, <2>11, <2>12 DEF TurnOK
<1>6. QED
  BY <1>3, <1>4, <1>5

(* A flush keeps the tree sound and leaves the pins of the commands it     *)
(* leaves.                                                                 *)
LEMMA FlushKeeps ==
  ASSUME NEW t, Sound(t), NEW q \in Seq(Command(DOMAIN t.nodes)),
         \A x \in DOMAIN t.nodes : HasCore(t, x) => PinsOf(t, x) = Count(q, 1, x),
         NEW after, after = Flushed(t, q),
         \A n \in DOMAIN q : after[n - 1].err = "Ok" /\ Creates(after[n - 1].tree, q[n])
                               => T!CanAlloc(after[n - 1].tree.table)
  PROVE  TurnOK(t, q, Len(q), after[Len(q)])
<1> DEFINE start == [tree |-> t, applied |-> 0, err |-> "Ok"]
           Turns(f, l) == [n \in 0 .. l |-> IF n = 0 THEN start ELSE After(f[n - 1], q[n])]
<1>1. PICK l \in Nat : l = Len(q) /\ DOMAIN q = 1 .. l
  BY SeqEntries
<1>2. ASSUME NEW m \in Nat, NEW f, f = Turns(f, m)
      PROVE  \E g : g = Turns(g, m + 1)
  <2>1. PICK g : g = [n \in 0 .. m + 1 |-> IF n \in 0 .. m THEN f[n] ELSE After(f[m], q[n])]
    OBVIOUS
  <2>2. ASSUME NEW n \in 0 .. m + 1
        PROVE  g[n] = IF n = 0 THEN start ELSE After(g[n - 1], q[n])
    <3>1. CASE n = 0
      <4>1. g[n] = f[n] /\ f[n] = start
        BY <1>2, <2>1, <3>1
      <4>2. QED
        BY <3>1, <4>1
    <3>2. CASE n \in 1 .. m
      <4>1. g[n] = f[n] /\ g[n - 1] = f[n - 1] /\ n # 0 /\ n \in 0 .. m
        BY <2>1, <3>2
      <4>2. f[n] = After(f[n - 1], q[n])
        BY <1>2, <4>1
      <4>3. QED
        BY <4>1, <4>2
    <3>3. CASE n = m + 1
      <4>1. g[n] = After(f[m], q[n]) /\ g[n - 1] = f[m] /\ n # 0
        BY <2>1, <3>3
      <4>2. QED
        BY <4>1
    <3>4. n = 0 \/ n \in 1 .. m \/ n = m + 1
      OBVIOUS
    <3>5. QED
      BY <3>1, <3>2, <3>3, <3>4
  <2>3. g = Turns(g, m + 1)
    BY <2>1, <2>2
  <2>4. QED
    BY <2>3
<1>3. \E f : f = Turns(f, l)
  <2>1. PICK S : S = {m \in Nat : \E f : f = Turns(f, m)}
    OBVIOUS
  <2>2. 0 \in S
    <3>1. PICK f : f = [n \in 0 .. 0 |-> start]
      OBVIOUS
    <3>2. f = Turns(f, 0)
      BY <3>1
    <3>3. QED
      BY <2>1, <3>2
  <2>3. ASSUME NEW m \in Nat, m \in S
        PROVE  m + 1 \in S
    <3>1. PICK f : f = Turns(f, m)
      BY <2>1, <2>3
    <3>2. \E g : g = Turns(g, m + 1)
      BY <1>2, <3>1
    <3>3. m + 1 \in Nat
      OBVIOUS
    <3>4. QED
      BY <2>1, <3>2, <3>3, Zenon
  <2>4. Nat \subseteq S
    BY <2>2, <2>3, Counting
  <2>5. QED
    BY <2>1, <2>4
<1>4. after = (CHOOSE f : f = Turns(f, l))
  BY <1>1 DEF Flushed
<1>5. after = Turns(after, l)
  BY <1>3, <1>4
<1>6. PICK S : S = {n \in Nat : n <= l => TurnOK(t, q, n, after[n])}
  OBVIOUS
<1>7. 0 \in S
  <2>1. after[0] = start
    BY <1>1, <1>5
  <2>2. TurnOK(t, q, 0, start)
    BY DEF TurnOK
  <2>3. QED
    BY <1>6, <2>1, <2>2
<1>8. ASSUME NEW n \in Nat, n \in S
      PROVE  n + 1 \in S
  <2>1. SUFFICES ASSUME n + 1 <= l
                 PROVE  TurnOK(t, q, n + 1, after[n + 1])
    BY <1>6
  <2>2. n + 1 \in 1 .. Len(q) /\ n + 1 \in DOMAIN q /\ (n + 1) - 1 = n /\ n + 1 \in 0 .. l /\ n <= l
    BY <1>1, <2>1
  <2>3. PICK f, cmd, g : f = after[n] /\ cmd = q[n + 1] /\ g = after[n + 1]
    OBVIOUS
  <2>4. TurnOK(t, q, n, f)
    BY <1>6, <1>8, <2>2, <2>3
  <2>5. g = After(f, cmd)
    BY <1>5, <2>2, <2>3
  <2>6. f.err = "Ok" /\ Creates(f.tree, cmd) => T!CanAlloc(f.tree.table)
    BY <2>2, <2>3
  <2>7. TurnOK(t, q, n + 1, g)
    BY <2>2, <2>3, <2>4, <2>5, <2>6, TurnKeeps
  <2>8. QED
    BY <2>3, <2>7
<1>9. l \in S
  BY <1>1, <1>7, <1>8, Counting
<1>10. QED
  BY <1>1, <1>6, <1>9

-----------------------------------------------------------------------------
(* The steps                                                               *)

\* What every step keeps of a tree and its pending commands.
BufferSound(t, q) ==
  /\ Sound(t) /\ q \in Seq(Command(DOMAIN t.nodes)) /\ Len(q) <= MaxCommands
  /\ \A x \in DOMAIN t.nodes : HasCore(t, x) => PinsOf(t, x) = Count(q, 1, x)

\* The inductive invariant.
BufferInv == BufferSound(Tree, commands)

\* From t to u no node died that a command of q refers to.
Survive(t, q, u) == \A x \in DOMAIN t.nodes : HasCore(t, x) /\ Count(q, 1, x) > 0 => HasCore(u, x)

(* Commands on nodes that are there are commands on them and more.         *)
LEMMA MoreNodes ==
  ASSUME NEW G, NEW H, G \subseteq H, NEW q \in Seq(Command(G))
  PROVE  q \in Seq(Command(H))
<1>1. Command(G) \subseteq Command(H)
  BY DEF Command
<1>2. QED
  BY <1>1, SeqWider

(* A push pins the nodes of its command.                                   *)
LEMMA PushKeeps ==
  ASSUME PinMod > 2 * MaxCommands, NEW t, NEW q, BufferSound(t, q), Len(q) < MaxCommands,
         NEW cmd \in Command(DOMAIN t.nodes),
         NEW u, u = [table |-> WithPins(t.table, cmd), nodes |-> t.nodes]
  PROVE  BufferSound(u, Append(q, cmd)) /\ Survive(t, q, u)
<1>1. /\ Sound(t) /\ q \in Seq(Command(DOMAIN t.nodes)) /\ Len(q) \in Nat
      /\ MaxCommands \in Nat /\ PinMod \in Nat
      /\ \A x \in DOMAIN t.nodes : HasCore(t, x) => PinsOf(t, x) = Count(q, 1, x)
  BY SeqEntries, DomTreeAssumption, DomCommandBufferAssumption DEF BufferSound
<1>2. \A x : Count(q, 1, x) <= 2 * Len(q) /\ Count(q, 1, x) \in Nat
  <2>1. \A x : Count(q, 1, x) <= 2 * Len(q)
    BY <1>1, CountType
  <2>2. \A x : \A a \in Nat : Count(q, a, x) \in Nat
    BY <1>1, CountType
  <2>3. QED
    BY <2>1, <2>2
<1>3. \A x \in DOMAIN t.nodes : HasCore(t, x) => PinsOf(t, x) + 2 < PinMod
  BY <1>1, <1>2
<1>4. /\ OnlyPins(t, u)
      /\ \A x \in DOMAIN t.nodes : HasCore(t, x) => PinsOf(u, x) = PinsOf(t, x) + Own(cmd, x)
  BY <1>1, <1>3, CommandPinned
<1>5. Sound(u) /\ u.nodes = t.nodes /\ \A x \in DOMAIN t.nodes : HasCore(u, x) <=> HasCore(t, x)
  BY <1>4 DEF OnlyPins
<1>6. Append(q, cmd) \in Seq(Command(DOMAIN u.nodes)) /\ Len(Append(q, cmd)) <= MaxCommands
  BY <1>1, <1>5, SeqAdd
<1>7. \A x : Count(Append(q, cmd), 1, x) = Count(q, 1, x) + Own(cmd, x)
  BY <1>1, CountPushed
<1>8. QED
  BY <1>1, <1>4, <1>5, <1>6, <1>7 DEF BufferSound, Survive

(* After a flush the commands that were not applied are left.              *)
LEMMA FlushedKeeps ==
  ASSUME NEW t, NEW q, BufferSound(t, q), NEW f, TurnOK(t, q, Len(q), f),
         NEW u, u = f.tree, NEW w, w = SubSeq(q, f.applied + 1, Len(q))
  PROVE  BufferSound(u, w) /\ Survive(t, q, u)
<1>1. q \in Seq(Command(DOMAIN t.nodes)) /\ Len(q) <= MaxCommands /\ MaxCommands \in Nat
  BY DomCommandBufferAssumption DEF BufferSound
<1>2. PICK n \in Nat, k \in Nat : n = Len(q) /\ k = f.applied /\ k \in 0 .. n
  BY <1>1, SeqEntries DEF TurnOK
<1>3. /\ Sound(u) /\ DOMAIN t.nodes \subseteq DOMAIN u.nodes
      /\ \A x \in DOMAIN t.nodes : HasCore(u, x) <=> HasCore(t, x)
      /\ \A x \in DOMAIN u.nodes : HasCore(u, x) => PinsOf(u, x) = Count(q, k + 1, x)
  BY <1>2 DEF TurnOK
<1>4. w \in Seq(Command(DOMAIN t.nodes)) /\ Len(w) = n - k
  BY <1>1, <1>2
<1>5. w \in Seq(Command(DOMAIN u.nodes))
  BY <1>3, <1>4, MoreNodes
<1>6. Len(w) <= MaxCommands
  BY <1>1, <1>2, <1>4
<1>7. \A x : Count(w, 1, x) = Count(q, k + 1, x)
  BY <1>1, <1>2, CountLeft
<1>8. QED
  BY <1>3, <1>5, <1>6, <1>7 DEF BufferSound, Survive

(* The owner of the document may change the tree between them.             *)
LEMMA OwnerKeeps ==
  ASSUME NEW t, NEW q, BufferSound(t, q), NEW u, Sound(u), Ages(t, u)
  PROVE  BufferSound(u, q) /\ Survive(t, q, u)
<1>1. /\ q \in Seq(Command(DOMAIN t.nodes)) /\ Len(q) <= MaxCommands
      /\ \A x \in DOMAIN t.nodes : HasCore(t, x) => PinsOf(t, x) = Count(q, 1, x)
  BY DEF BufferSound
<1>2. /\ DOMAIN t.nodes \subseteq DOMAIN u.nodes
      /\ \A x \in DOMAIN t.nodes : /\ HasCore(u, x) => HasCore(t, x)
                                   /\ HasCore(t, x) /\ PinsOf(t, x) > 0 => HasCore(u, x)
      /\ \A x : PinsOf(u, x) = PinsOf(t, x)
      /\ \A x \in DOMAIN u.nodes \ DOMAIN t.nodes : PinsOf(u, x) = 0
  BY DEF Ages, SamePins, PinsOf
<1>3. ASSUME NEW x \in DOMAIN u.nodes, HasCore(u, x)
      PROVE  PinsOf(u, x) = Count(q, 1, x)
  <2>1. CASE x \in DOMAIN t.nodes
    BY <1>1, <1>2, <1>3, <2>1
  <2>2. CASE x \notin DOMAIN t.nodes
    <3>1. Null \notin DOMAIN u.nodes
      BY NodeParts DEF Sound, Upwards
    <3>2. x \notin DOMAIN t.nodes \cup {Null} /\ 1 \in Nat \ {0}
      BY <2>2, <3>1
    <3>3. Count(q, 1, x) = 0
      BY <1>1, <3>2, CountOfNew
    <3>4. QED
      BY <1>2, <2>2, <3>3
  <2>3. QED
    BY <2>1, <2>2
<1>4. q \in Seq(Command(DOMAIN u.nodes))
  BY <1>1, <1>2, MoreNodes
<1>5. QED
  BY <1>1, <1>2, <1>3, <1>4 DEF BufferSound, Survive

(* The buffer is empty at first.                                           *)
LEMMA BufferStart ==
  ASSUME BufferInit
  PROVE  BufferInv
<1>1. /\ Sound(Tree) /\ commands = <<>> /\ DOMAIN Tree.nodes = {root}
      /\ PinsOf(Tree, root) = 0
  BY RootAlone DEF BufferInit, Inv, Handles, Tree, PinsOf
<1>2. commands \in Seq(Command(DOMAIN Tree.nodes)) /\ Len(commands) = 0
  BY <1>1, EmptySeq
<1>3. \A x : Count(commands, Len(commands) + 1, x) = 0
  BY <1>2, CountType
<1>4. \A x : Count(commands, 1, x) = 0
  BY <1>2, <1>3
<1>5. QED
  BY <1>1, <1>2, <1>4, DomCommandBufferAssumption DEF BufferInv, BufferSound

(* Every step keeps the pins and the references together, and no step      *)
(* destroys a node that a pending command refers to.                       *)
LEMMA BufferStepKeeps ==
  ASSUME PinMod > 2 * MaxCommands, BufferInv, [BufferNext]_bufferVars
  PROVE  BufferInv' /\ Survive(Tree, commands, Tree')
<1>1. PICK t, q, u, w : t = Tree /\ q = commands /\ u = [table |-> table', nodes |-> nodes'] /\ w = commands'
  OBVIOUS
<1>2. /\ BufferSound(t, q) /\ t.table = table /\ t.nodes = nodes /\ Handles = DOMAIN t.nodes
      /\ u.table = table' /\ u.nodes = nodes' /\ u = [table |-> u.table, nodes |-> u.nodes]
  BY <1>1 DEF BufferInv, Tree, Handles
<1>3. Sound(t) /\ WellMade(t) /\ Null \notin DOMAIN t.nodes
  BY <1>2, NodeParts DEF BufferSound, Sound, Upwards
<1>4. SUFFICES BufferSound(u, w) /\ Survive(t, q, u)
  BY <1>1 DEF BufferInv, Tree
<1>5. ASSUME NEW kind \in Kinds, NEW target \in Handles, NEW arg \in Handles \cup {Null},
             Push(kind, target, arg)
      PROVE  BufferSound(u, w) /\ Survive(t, q, u)
  <2>1. PICK cmd : cmd = [kind |-> kind, target |-> target, arg |-> arg]
    OBVIOUS
  <2>2. /\ Len(q) < MaxCommands /\ (arg = Null <=> kind \notin Binary) /\ (RootMoves \/ arg # root)
        /\ u.table = WithPins(t.table, cmd) /\ u.nodes = t.nodes /\ w = Append(q, cmd)
    BY <1>1, <1>2, <1>5, <2>1 DEF Push, PushPins
  <2>3. cmd \in Command(DOMAIN t.nodes)
    BY <1>2, <2>1, <2>2, DomCommandBufferAssumption DEF Command
  <2>4. u = [table |-> WithPins(t.table, cmd), nodes |-> t.nodes]
    BY <1>2, <2>2
  <2>5. QED
    BY <1>2, <2>2, <2>3, <2>4, PushKeeps
<1>6. CASE Flush
  <2>1. PICK after, f : after = Flushed(t, q) /\ f = after[Len(q)]
    OBVIOUS
  <2>2. /\ \A n \in DOMAIN q : after[n - 1].err = "Ok" /\ Creates(after[n - 1].tree, q[n])
                                 => T!CanAlloc(after[n - 1].tree.table)
        /\ u.table = f.tree.table /\ u.nodes = f.tree.nodes
        /\ w = SubSeq(q, f.applied + 1, Len(q))
    BY <1>1, <1>2, <1>6, <2>1 DEF Flush, Becomes
  <2>3. TurnOK(t, q, Len(q), f)
    <3>1. /\ q \in Seq(Command(DOMAIN t.nodes))
          /\ \A x \in DOMAIN t.nodes : HasCore(t, x) => PinsOf(t, x) = Count(q, 1, x)
      BY <1>2 DEF BufferSound
    <3>2. QED
      BY <1>3, <2>1, <2>2, <3>1, FlushKeeps
  <2>4. u = f.tree
    BY <1>2, <2>2, <2>3 DEF TurnOK, Sound, WellMade
  <2>5. QED
    BY <1>2, <2>2, <2>3, <2>4, FlushedKeeps
<1>7. ASSUME Sound(u), Ages(t, u), w = q
      PROVE  BufferSound(u, w) /\ Survive(t, q, u)
  BY <1>2, <1>7, OwnerKeeps
<1>8. CASE Next /\ UNCHANGED commands
  <2>1. Inv' /\ Ages(Tree, Tree')
    BY <1>1, <1>3, <1>8, StepKeeps DEF Inv
  <2>2. Sound(u) /\ Ages(t, u) /\ w = q
    BY <1>1, <1>8, <2>1 DEF Inv, Tree
  <2>3. QED
    BY <1>7, <2>2
<1>9. CASE UNCHANGED bufferVars
  <2>1. Inv' /\ Ages(Tree, Tree')
    BY <1>1, <1>3, <1>9, StepKeeps DEF Inv, bufferVars, treeVars
  <2>2. Sound(u) /\ Ages(t, u) /\ w = q
    BY <1>1, <1>9, <2>1 DEF Inv, Tree, bufferVars
  <2>3. QED
    BY <1>7, <2>2
<1>10. QED
  BY <1>5, <1>6, <1>8, <1>9 DEF BufferNext

(* The tree is sound and its pins are the references of the pending        *)
(* commands, in every state, as long as all pending commands together have *)
(* fewer references than a pin count has values.                           *)
THEOREM BufferSoundness ==
  ASSUME PinMod > 2 * MaxCommands
  PROVE  BufferSpec => []BufferInv
<1>1. BufferInit => BufferInv
  BY BufferStart
<1>2. BufferInv /\ [BufferNext]_bufferVars => BufferInv'
  BY BufferStepKeeps
<1>3. QED
  BY <1>1, <1>2, PTL DEF BufferSpec

-----------------------------------------------------------------------------
(* What the properties say of a sound buffer                               *)

LEMMA ReferencesCount ==
  ASSUME NEW S, commands \in Seq(S), NEW h
  PROVE  References(h) = Count(commands, 1, h)
<1>1. DOMAIN commands = 1 .. Len(commands)
  BY SeqEntries
<1>2. QED
  BY <1>1 DEF References, Count, RefPlaces

(* Whatever commands are applied, and whichever of them fails, the tree    *)
(* stays a forest (flush, dom/dom_command_buffer.cpp:22).                  *)
THEOREM BufferedForest ==
  ASSUME PinMod > 2 * MaxCommands
  PROVE  BufferSpec => []IsForest
<1>1. BufferInv => IsForest
  BY SoundIsForest DEF BufferInv, BufferSound, Inv
<1>2. QED
  BY <1>1, BufferSoundness, PTL

(* A node's pin count is how often the pending commands refer to it: every *)
(* pin of a push is given back once, also when a flush fails half way      *)
(* (push and flush, dom/dom_command_buffer.cpp:16 and 71).                 *)
THEOREM PinsCountReferences ==
  ASSUME PinMod > 2 * MaxCommands
  PROVE  BufferSpec => []PinsAreReferences
<1>1. ASSUME BufferInv, NEW h \in Live
      PROVE  table.slots[h.index].pins = References(h)
  <2>1. /\ HasCore(Tree, h) /\ h \in DOMAIN Tree.nodes
        /\ commands \in Seq(Command(DOMAIN Tree.nodes)) /\ PinsOf(Tree, h) = Count(commands, 1, h)
    BY <1>1, LiveCores DEF HasCore, BufferInv, BufferSound
  <2>2. PinsOf(Tree, h) = table.slots[h.index].pins
    BY <2>1 DEF PinsOf, PinsAt, Tree, HasCore, T!Resolves, T!Current
  <2>3. QED
    BY <2>1, <2>2, ReferencesCount
<1>2. BufferInv => PinsAreReferences
  BY <1>1 DEF PinsAreReferences
<1>3. QED
  BY <1>2, BufferSoundness, PTL

(* A node that a pending command refers to stays alive whatever the owner  *)
(* of the document does in the meantime (tests/test_command_buffer.cpp:92).*)
THEOREM QueuedNodesLive ==
  ASSUME PinMod > 2 * MaxCommands
  PROVE  BufferSpec => QueuedNodesSurvive
<1>1. ASSUME BufferInv, [BufferNext]_bufferVars, NEW h \in Live, References(h) > 0
      PROVE  T!Resolves(table', h)
  <2>1. Survive(Tree, commands, Tree')
    BY <1>1, BufferStepKeeps
  <2>2. HasCore(Tree, h) /\ h \in DOMAIN Tree.nodes
    BY <1>1, LiveCores DEF HasCore
  <2>3. commands \in Seq(Command(DOMAIN Tree.nodes))
    BY <1>1 DEF BufferInv, BufferSound
  <2>4. Count(commands, 1, h) > 0
    BY <1>1, <2>3, ReferencesCount
  <2>5. PICK t, u : t = Tree /\ u = [table |-> table', nodes |-> nodes']
    OBVIOUS
  <2>6. HasCore(u, h)
    <3>1. Survive(t, commands, u)
      BY <2>1, <2>5 DEF Tree
    <3>2. QED
      BY <2>2, <2>4, <2>5, <3>1 DEF Survive
  <2>7. QED
    BY <2>5, <2>6 DEF HasCore
<1>2. BufferInv /\ [BufferNext]_bufferVars
        => [\A h \in Live : References(h) > 0 => T!Resolves(table', h)]_bufferVars
  BY <1>1
<1>3. QED
  BY <1>2, BufferSoundness, PTL DEF BufferSpec, QueuedNodesSurvive

=============================================================================
