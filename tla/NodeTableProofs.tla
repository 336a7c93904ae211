--------------------------- MODULE NodeTableProofs ---------------------------
(***************************************************************************)
(* What holds of the node table for every size of the table, every width   *)
(* of the counters and every order of calls.                               *)
(***************************************************************************)
EXTENDS NodeTable, SequenceTheorems, TLAPS

\* The types of the slots and of the free list, apart from the history.
TableOK(tb) ==
  /\ tb \in [slots : Seq(Slot), free : Seq(1 .. MaxSlots)]
  /\ Len(tb.slots) <= MaxSlots
  /\ \A k \in DOMAIN tb.free : tb.free[k] \in DOMAIN tb.slots

\* The table with one slot replaced.
Put(tb, i, s) == [tb EXCEPT !.slots = [tb.slots EXCEPT ![i] = s]]

\* pin, unpin and set_state replace at most one slot, and then one that is
\* alive, keeping its generation.
TouchesLive(tb, tc) ==
  \/ tc = tb
  \/ \E i \in DOMAIN tb.slots, s \in Slot :
       /\ tb.slots[i].state # "Dead"
       /\ s.generation = tb.slots[i].generation
       /\ tc = Put(tb, i, s)

(* Replacing a slot by one of its type keeps the table well formed.        *)
LEMMA PutKeeps ==
  ASSUME NEW tb, TableOK(tb), NEW i \in DOMAIN tb.slots, NEW s \in Slot
  PROVE  /\ TableOK(Put(tb, i, s))
         /\ DOMAIN Put(tb, i, s).slots = DOMAIN tb.slots
         /\ Put(tb, i, s).free = tb.free
         /\ \A j \in DOMAIN tb.slots : Put(tb, i, s).slots[j] = IF j = i THEN s ELSE tb.slots[j]
<1> DEFINE sl == [tb.slots EXCEPT ![i] = s]
<1>1. tb.slots \in Seq(Slot) /\ tb.free \in Seq(1 .. MaxSlots)
  BY DEF TableOK
<1>2. Put(tb, i, s).slots = sl /\ Put(tb, i, s).free = tb.free
  BY DEF TableOK, Put
<1>3. sl \in Seq(Slot) /\ Len(sl) = Len(tb.slots) /\ DOMAIN sl = DOMAIN tb.slots
  BY <1>1
<1>4. \A j \in DOMAIN tb.slots : sl[j] = IF j = i THEN s ELSE tb.slots[j]
  BY <1>1
<1>5. Put(tb, i, s) \in [slots : Seq(Slot), free : Seq(1 .. MaxSlots)]
  BY <1>3 DEF TableOK, Put
<1> HIDE DEF sl
<1>6. QED
  BY <1>1, <1>2, <1>3, <1>4, <1>5 DEF TableOK

(* A slot reached through a handle has the type of a slot.                 *)
LEMMA SlotAt ==
  ASSUME NEW tb, TableOK(tb), NEW h, Current(tb, h)
  PROVE  tb.slots[h.index] \in Slot /\ h.index \in DOMAIN tb.slots
BY DEF TableOK, Current

(* pin() adds one, modulo the width of the counter, to a live slot.        *)
LEMMA PinTouches ==
  ASSUME NEW tb, TableOK(tb), NEW h
  PROVE  TouchesLive(tb, WithPin(tb, h))
<1>1. CASE Resolves(tb, h)
  <2> DEFINE s == [tb.slots[h.index] EXCEPT !.pins = (@ + 1) % PinMod]
  <2>1. tb.slots[h.index] \in Slot /\ h.index \in DOMAIN tb.slots
    BY <1>1, SlotAt DEF Resolves
  <2>2. s \in Slot /\ s.generation = tb.slots[h.index].generation
    BY <2>1, NodeTableAssumption DEF Slot
  <2>3. WithPin(tb, h) = Put(tb, h.index, s)
    BY <1>1, <2>1 DEF WithPin, Put, TableOK, Slot
  <2>4. QED
    BY <1>1, <2>1, <2>2, <2>3 DEF TouchesLive, Resolves
<1>2. QED
  BY <1>1 DEF WithPin, TouchesLive

(* unpin() takes one from a live slot whose count is not zero.             *)
LEMMA UnpinTouches ==
  ASSUME NEW tb, TableOK(tb), NEW h
  PROVE  TouchesLive(tb, WithoutPin(tb, h))
<1>1. CASE Resolves(tb, h) /\ Pinned(tb, h)
  <2> DEFINE s == [tb.slots[h.index] EXCEPT !.pins = @ - 1]
  <2>1. tb.slots[h.index] \in Slot /\ h.index \in DOMAIN tb.slots
    BY <1>1, SlotAt DEF Resolves
  <2>2. s \in Slot /\ s.generation = tb.slots[h.index].generation
    BY <1>1, <2>1, NodeTableAssumption DEF Slot, Pinned
  <2>3. WithoutPin(tb, h) = Put(tb, h.index, s)
    BY <1>1, <2>1 DEF WithoutPin, Put, TableOK, Slot
  <2>4. QED
    BY <1>1, <2>1, <2>2, <2>3 DEF TouchesLive, Resolves
<1>2. QED
  BY <1>1 DEF WithoutPin, TouchesLive

(* set_state() writes the state of a live slot only.                       *)
LEMMA StateTouches ==
  ASSUME NEW tb, TableOK(tb), NEW h, NEW st \in NodeStates
  PROVE  TouchesLive(tb, WithState(tb, h, st))
<1>1. CASE Resolves(tb, h)
  <2> DEFINE s == [tb.slots[h.index] EXCEPT !.state = st]
  <2>1. tb.slots[h.index] \in Slot /\ h.index \in DOMAIN tb.slots
    BY <1>1, SlotAt DEF Resolves
  <2>2. s \in Slot /\ s.generation = tb.slots[h.index].generation
    BY <2>1 DEF Slot
  <2>3. WithState(tb, h, st) = Put(tb, h.index, s)
    BY <1>1, <2>1 DEF WithState, Put, TableOK, Slot
  <2>4. QED
    BY <1>1, <2>1, <2>2, <2>3 DEF TouchesLive, Resolves
<1>2. QED
  BY <1>1 DEF WithState, TouchesLive

(* free() marks one unpinned slot dead and pushes it on the free list.     *)
LEMMA FreeTouches ==
  ASSUME NEW tb, TableOK(tb), NEW h, Freeable(tb, h)
  PROVE  LET s == [tb.slots[h.index] EXCEPT !.state = "Dead"]
         IN  /\ s \in Slot
             /\ h.index \in DOMAIN tb.slots
             /\ WithFreed(tb, h) = [slots |-> Put(tb, h.index, s).slots,
                                    free  |-> Append(tb.free, h.index)]
<1> DEFINE s == [tb.slots[h.index] EXCEPT !.state = "Dead"]
<1>1. tb.slots[h.index] \in Slot /\ h.index \in DOMAIN tb.slots
  BY SlotAt DEF Freeable
<1>2. s \in Slot
  BY <1>1 DEF Slot, NodeStates
<1>3. Put(tb, h.index, s).slots = [tb.slots EXCEPT ![h.index] = s]
  BY DEF Put, TableOK
<1>4. [tb.slots EXCEPT ![h.index] = s] = [tb.slots EXCEPT ![h.index].state = "Dead"]
  OBVIOUS
<1>5. QED
  BY <1>1, <1>2, <1>3, <1>4 DEF WithFreed

(* The invariant: types, generations reached by every handle, and a sound  *)
(* free list when owners free once.                                        *)
TableInv ==
  /\ TypeOK
  /\ GenerationsReached
  /\ FreesOnce => FreeListSound

\* What one call of pin, unpin or set_state preserves.
LEMMA TouchKeeps ==
  ASSUME TableInv, TouchesLive(table, table'), issued' = issued
  PROVE  /\ TableInv'
         /\ \A h \in issued : Current(table, h) => Current(table', h)
<1>1. TableOK(table)
  BY DEF TableInv, TypeOK, TableOK
<1>2. CASE table' = table
  BY <1>2 DEF TableInv, TypeOK, GenerationsReached, FreeListSound, Current
<1>3. ASSUME NEW i \in DOMAIN table.slots, NEW s \in Slot,
             table.slots[i].state # "Dead",
             s.generation = table.slots[i].generation,
             table' = Put(table, i, s)
      PROVE  /\ TableInv'
             /\ \A h \in issued : Current(table, h) => Current(table', h)
  <2>1. /\ TableOK(table')
        /\ DOMAIN table'.slots = DOMAIN table.slots
        /\ table'.free = table.free
        /\ \A j \in DOMAIN table.slots : table'.slots[j] = IF j = i THEN s ELSE table.slots[j]
    BY <1>1, <1>3, PutKeeps
  <2>2. \A j \in DOMAIN table.slots : table'.slots[j].generation = table.slots[j].generation
    BY <1>3, <2>1
  <2>3. TypeOK'
    BY <2>1 DEF TableInv, TypeOK, TableOK
  <2>4. GenerationsReached'
    BY <2>2 DEF TableInv, TypeOK, GenerationsReached
  <2>5. (FreesOnce => FreeListSound)'
    BY <1>1, <1>3, <2>1 DEF TableInv, FreeListSound, TableOK
  <2>6. QED
    BY <2>1, <2>2, <2>3, <2>4, <2>5 DEF TableInv, Current
<1>4. QED
  BY <1>2, <1>3 DEF TouchesLive

\* A call of free preserves the invariant and leaves every handle current.
LEMMA FreeKeeps ==
  ASSUME TableInv, NEW h \in issued, Free(h)
  PROVE  /\ TableInv'
         /\ \A g \in issued : Current(table, g) => Current(table', g)
<1>1. TableOK(table)
  BY DEF TableInv, TypeOK, TableOK
<1>2. CASE ~Freeable(table, h)
  BY <1>2 DEF Free, WithFreed, TableInv, TypeOK, GenerationsReached, FreeListSound, Current
<1>3. CASE Freeable(table, h)
  <2> DEFINE s == [table.slots[h.index] EXCEPT !.state = "Dead"]
             p == Put(table, h.index, s)
  <2>1. /\ s \in Slot
        /\ h.index \in DOMAIN table.slots
        /\ table' = [slots |-> p.slots, free |-> Append(table.free, h.index)]
    BY <1>1, <1>3, FreeTouches DEF Free
  <2>2. /\ TableOK(p)
        /\ DOMAIN p.slots = DOMAIN table.slots
        /\ p.free = table.free
        /\ \A j \in DOMAIN table.slots : p.slots[j] = IF j = h.index THEN s ELSE table.slots[j]
    BY <1>1, <2>1, PutKeeps
  <2>3. table'.slots = p.slots /\ table'.free = Append(table.free, h.index)
    BY <2>1
  <2> HIDE DEF p
  <2>4. s.generation = table.slots[h.index].generation /\ s.state = "Dead"
        /\ s.pins = table.slots[h.index].pins
    BY <1>1, <1>3, SlotAt DEF Freeable, Slot
  <2> HIDE DEF s
  <2>5. \A j \in DOMAIN table.slots : table'.slots[j].generation = table.slots[j].generation
    BY <2>2, <2>3, <2>4
  <2>6. h.index \in 1 .. MaxSlots /\ issued' = issued
    BY DEF TableInv, TypeOK, Handle, Free
  <2>7. TypeOK'
    <3>1. p.slots \in Seq(Slot)
      BY <2>2 DEF TableOK
    <3>2. table'.free \in Seq(1 .. MaxSlots)
      BY <2>2, <2>3, <2>6 DEF TableOK
    <3>3. \A k \in DOMAIN table'.free : table'.free[k] \in DOMAIN table'.slots
      BY <2>1, <2>2, <2>3 DEF TableOK
    <3>4. QED
      BY <2>1, <2>2, <2>3, <2>6, <3>1, <3>2, <3>3 DEF TypeOK, TableOK, TableInv
  <2>8. GenerationsReached'
    BY <2>5, <2>6 DEF TableInv, TypeOK, GenerationsReached
  <2>9. ASSUME FreesOnce PROVE FreeListSound'
    <3>1. table.slots[h.index].state # "Dead"
      BY <2>9 DEF Free, Resolves
    <3>2. \A k \in DOMAIN table.free : table.free[k] # h.index
      BY <2>9, <3>1 DEF TableInv, FreeListSound
    <3>3. DOMAIN table'.free = 1 .. Len(table.free) + 1 /\ DOMAIN table.free = 1 .. Len(table.free)
      BY <1>1, <2>3, <2>6 DEF TableOK
    <3>4. \A k \in DOMAIN table'.free :
            table'.free[k] = IF k = Len(table.free) + 1 THEN h.index ELSE table.free[k]
      BY <1>1, <2>3, <2>6 DEF TableOK
    <3>5. s.pins = 0
      BY <1>1, <1>3, <2>4, SlotAt DEF Freeable, Pinned, Slot
    <3>6. \A k \in DOMAIN table'.free :
            table'.slots[table'.free[k]].state = "Dead" /\ table'.slots[table'.free[k]].pins = 0
      BY <1>1, <2>1, <2>2, <2>3, <2>4, <2>9, <3>2, <3>3, <3>4, <3>5 DEF TableInv, FreeListSound, TableOK
    <3>7. \A j, k \in DOMAIN table'.free : table'.free[j] = table'.free[k] => j = k
      BY <2>9, <3>2, <3>3, <3>4 DEF TableInv, FreeListSound
    <3>8. QED
      BY <3>6, <3>7 DEF FreeListSound
  <2>10. QED
    BY <2>2, <2>3, <2>5, <2>7, <2>8, <2>9 DEF TableInv, Current
<1>4. QED
  BY <1>2, <1>3

\* A call of alloc preserves the invariant, returns a handle it never returned
\* before and, when owners free once, makes no live or pinned handle stale.
LEMMA AllocKeeps ==
  ASSUME TableInv, Alloc
  PROVE  /\ TableInv'
         /\ NextHandle(table) \notin issued
         /\ FreesOnce => \A h \in issued :
              Resolves(table, h) \/ Pinned(table, h) => Current(table', h)
<1> DEFINE n == NextHandle(table)
<1>1. TableOK(table) /\ TypeOK /\ GenerationsReached
  BY DEF TableInv, TypeOK, TableOK
<1>2. n \in Handle /\ issued' = issued \cup {n}
  BY DEF Alloc, CanAlloc
<1>3. FreshSlot(n) \in Slot /\ FreshSlot(n).generation = n.generation
  BY <1>2, NodeTableAssumption DEF FreshSlot, Slot, NodeStates, Handle
<1>4. CASE Reuses(table)
  <2>1. PICK m \in Nat \ {0}, i \in DOMAIN table.slots :
          /\ table.free \in Seq(1 .. MaxSlots) /\ table.slots \in Seq(Slot)
          /\ m = Len(table.free) /\ m \in DOMAIN table.free
          /\ i = table.free[m]
    BY <1>1, <1>4 DEF Reuses, TableOK
  <2>2. n.index = i /\ n.generation = table.slots[i].generation + 1
    BY <1>4, <2>1 DEF NextHandle
  <2>3. /\ table'.slots = [table.slots EXCEPT ![i] = FreshSlot(n)]
        /\ table'.free = SubSeq(table.free, 1, m - 1)
        /\ table' = [slots |-> table'.slots, free |-> table'.free]
    BY <1>4, <2>1, <2>2 DEF Alloc, WithAlloc
  <2> HIDE DEF n
  <2>4. \A j \in DOMAIN table.slots : table.slots[j].generation \in Nat
    <3>1. ASSUME NEW j \in DOMAIN table.slots PROVE table.slots[j] \in Slot
      BY <2>1
    <3>2. QED
      BY <3>1, NodeTableAssumption DEF Slot
  <2>5. /\ DOMAIN table'.slots = DOMAIN table.slots
        /\ table'.slots \in Seq(Slot)
        /\ Len(table'.slots) <= MaxSlots
        /\ \A j \in DOMAIN table.slots :
             table'.slots[j] = IF j = i THEN FreshSlot(n) ELSE table.slots[j]
    BY <1>1, <1>3, <2>1, <2>3 DEF TableOK
  <2>6. /\ table'.free \in Seq(1 .. MaxSlots)
        /\ DOMAIN table'.free = 1 .. m - 1
        /\ DOMAIN table.free = 1 .. m
        /\ \A k \in 1 .. m - 1 : k \in DOMAIN table.free /\ table'.free[k] = table.free[k]
    <3>1. DOMAIN table.free = 1 .. m /\ \A k \in 1 .. m : table.free[k] \in 1 .. MaxSlots
      BY <2>1, LenProperties, ElementOfSeq
    <3>2. \A k \in 1 .. m - 1 : table.free[k] \in 1 .. MaxSlots
      BY <2>1, <3>1
    <3>3. m - 1 \in Int /\ 1 \in Int
      BY <2>1
    <3>4. /\ SubSeq(table.free, 1, m - 1) \in Seq(1 .. MaxSlots)
          /\ Len(SubSeq(table.free, 1, m - 1)) = IF 1 <= m - 1 THEN (m - 1) - 1 + 1 ELSE 0
          /\ \A k \in 1 .. (m - 1) - 1 + 1 : SubSeq(table.free, 1, m - 1)[k] = table.free[1 + k - 1]
      BY ONLY <3>2, <3>3, SubSeqProperties
    <3>5. QED
      BY <2>1, <2>3, <3>1, <3>4, LenProperties
  <2>7. \A h \in issued : h.generation \in Nat /\ h.index \in DOMAIN table.slots
    BY <1>1, NodeTableAssumption DEF TypeOK, Handle
  <2>8. n \notin issued
    BY <1>1, <2>1, <2>2, <2>4, <2>7 DEF GenerationsReached
  <2>9. TypeOK'
    <3>1. \A k \in DOMAIN table'.free : table'.free[k] \in DOMAIN table'.slots
      BY <1>1, <2>1, <2>5, <2>6 DEF TableOK
    <3>2. \A h \in issued' : h \in Handle /\ h.index \in DOMAIN table'.slots
      BY <1>1, <1>2, <2>1, <2>2, <2>5, <2>7 DEF TypeOK
    <3>3. table' \in [slots : Seq(Slot), free : Seq(1 .. MaxSlots)]
      BY <2>3, <2>5, <2>6
    <3>4. QED
      BY <2>5, <3>1, <3>2, <3>3 DEF TypeOK
  <2>10. GenerationsReached'
    <3>1. table'.slots[i].generation = table.slots[i].generation + 1 /\ n.index = i
      BY <1>3, <2>1, <2>2, <2>5
    <3>2. \A j \in DOMAIN table.slots : table.slots[j].generation <= table'.slots[j].generation
      BY <2>1, <2>4, <2>5, <3>1
    <3>3. ASSUME NEW h \in issued PROVE h.generation <= table'.slots[h.index].generation
      BY <1>1, <2>4, <2>5, <2>7, <3>1, <3>2, SMTT(30) DEF GenerationsReached
    <3>4. n.generation <= table'.slots[n.index].generation
      BY <2>1, <2>2, <2>4, <3>1
    <3>5. QED
      BY <1>2, <3>3, <3>4 DEF GenerationsReached
  <2>11. ASSUME FreesOnce
         PROVE  FreeListSound' /\ \A h \in issued :
                  Resolves(table, h) \/ Pinned(table, h) => Current(table', h)
    <3>1. FreeListSound
      BY <2>11 DEF TableInv
    <3>2. table.slots[i].state = "Dead" /\ table.slots[i].pins = 0
      BY <2>1, <3>1 DEF FreeListSound
    <3>3. \A k \in 1 .. m - 1 : table.free[k] # i /\ table.free[k] \in DOMAIN table.slots
      <4>1. \A k \in 1 .. m - 1 : k # m
        BY <2>1
      <4>2. QED
        BY <1>1, <2>1, <2>6, <3>1, <4>1 DEF FreeListSound, TableOK
    <3>4. FreeListSound'
      <4>1. \A k \in DOMAIN table'.free :
              /\ table'.slots[table'.free[k]].state = "Dead"
              /\ table'.slots[table'.free[k]].pins = 0
        <5> SUFFICES ASSUME NEW k \in 1 .. m - 1
                     PROVE  /\ table'.slots[table'.free[k]].state = "Dead"
                            /\ table'.slots[table'.free[k]].pins = 0
          BY <2>6
        <5>1. k \in DOMAIN table.free /\ table'.free[k] = table.free[k]
          BY <2>6
        <5>2. table'.slots[table.free[k]] = table.slots[table.free[k]]
          BY <2>5, <3>3
        <5>3. QED
          BY <3>1, <5>1, <5>2 DEF FreeListSound
      <4>2. \A j, k \in DOMAIN table'.free : table'.free[j] = table'.free[k] => j = k
        BY <2>6, <3>1 DEF FreeListSound
      <4>3. QED
        BY <4>1, <4>2 DEF FreeListSound
    <3>5. \A h \in issued : Resolves(table, h) \/ Pinned(table, h) => h.index # i
      BY <3>2 DEF Resolves, Pinned
    <3>6. QED
      BY <2>5, <3>4, <3>5 DEF Resolves, Pinned, Current
  <2>12. QED
    BY <2>8, <2>9, <2>10, <2>11 DEF TableInv, n
<1>5. CASE ~Reuses(table)
  <2>1. n.index = Len(table.slots) + 1 /\ n.generation = 0
    BY <1>5 DEF NextHandle
  <2>2. /\ table'.slots = Append(table.slots, FreshSlot(n))
        /\ table'.free = table.free
        /\ table' = [slots |-> table'.slots, free |-> table'.free]
    BY <1>5, <2>1 DEF Alloc, WithAlloc
  <2> HIDE DEF n
  <2>3. /\ table'.slots \in Seq(Slot)
        /\ DOMAIN table.slots = 1 .. Len(table.slots)
        /\ DOMAIN table'.slots = 1 .. Len(table.slots) + 1
        /\ Len(table'.slots) = Len(table.slots) + 1
        /\ \A j \in DOMAIN table.slots : table'.slots[j] = table.slots[j]
        /\ table'.slots[n.index] = FreshSlot(n)
        /\ Len(table.slots) \in Nat
    BY <1>1, <1>3, <2>1, <2>2 DEF TableOK
  <2>4. \A h \in issued : h.index \in DOMAIN table.slots
    BY <1>1 DEF TypeOK
  <2>5. n \notin issued
    BY <2>1, <2>3, <2>4
  <2>6. TypeOK'
    <3>1. Len(table'.slots) <= MaxSlots
      BY <1>2, <2>1, <2>3 DEF Handle
    <3>2. \A k \in DOMAIN table'.free : table'.free[k] \in DOMAIN table'.slots
      BY <1>1, <2>2, <2>3 DEF TableOK
    <3>3. \A h \in issued' : h \in Handle /\ h.index \in DOMAIN table'.slots
      BY <1>1, <1>2, <2>1, <2>3, <2>4 DEF TypeOK
    <3>4. table' \in [slots : Seq(Slot), free : Seq(1 .. MaxSlots)]
      BY <1>1, <2>2, <2>3 DEF TableOK
    <3>5. QED
      BY <3>1, <3>2, <3>3, <3>4 DEF TypeOK
  <2>7. GenerationsReached'
    BY <1>1, <1>2, <1>3, <2>3, <2>4, NodeTableAssumption, SMTT(30) DEF GenerationsReached, Handle
  <2>8. FreesOnce => FreeListSound'
    BY <1>1, <2>2, <2>3 DEF TableInv, FreeListSound, TableOK
  <2>9. \A h \in issued : Current(table, h) => Current(table', h)
    BY <2>3, <2>4 DEF Current
  <2>10. QED
    BY <2>5, <2>6, <2>7, <2>8, <2>9 DEF TableInv, Resolves, Pinned, n
<1>6. QED
  BY <1>4, <1>5

\* Every step preserves the invariant and does what the two action properties
\* ask of a step.
LEMMA StepKeeps ==
  ASSUME TableInv, [Next]_tableVars
  PROVE  /\ TableInv'
         /\ Alloc => NextHandle(table) \notin issued
         /\ FreesOnce => \A h \in issued :
              Resolves(table, h) \/ Pinned(table, h) => Current(table', h)
<1>1. CASE Alloc
  BY <1>1, AllocKeeps
<1>2. ASSUME NEW h \in issued, Free(h)
      PROVE  TableInv' /\ issued' = issued /\ \A g \in issued : Current(table, g) => Current(table', g)
  BY <1>2, FreeKeeps DEF Free
<1>3. ASSUME NEW h \in issued, Pin(h) \/ Unpin(h) \/ \E s \in NodeStates : SetState(h, s)
      PROVE  TableInv' /\ issued' = issued /\ \A g \in issued : Current(table, g) => Current(table', g)
  <2>1. TableOK(table)
    BY DEF TableInv, TypeOK, TableOK
  <2>2. TouchesLive(table, table') /\ issued' = issued
    BY <1>3, <2>1, PinTouches, UnpinTouches, StateTouches DEF Pin, Unpin, SetState
  <2>3. QED
    BY <2>2, TouchKeeps
<1>4. Alloc => NextHandle(table) \notin issued
  BY AllocKeeps
<1>5. CASE UNCHANGED tableVars
  <2>1. table' = table /\ issued' = issued
    BY <1>5 DEF tableVars
  <2>2. TableInv'
    BY <2>1 DEF TableInv, TypeOK, GenerationsReached, FreeListSound
  <2>3. QED
    BY <1>4, <2>1, <2>2 DEF Resolves, Pinned, Current
<1>6. CASE Next
  <2>1. Alloc \/ \E h \in issued :
          Free(h) \/ Pin(h) \/ Unpin(h) \/ \E s \in NodeStates : SetState(h, s)
    BY <1>6 DEF Next
  <2>2. CASE Alloc
    BY <1>1, <2>2
  <2>3. CASE \E h \in issued : Free(h)
    BY <1>2, <1>4, <2>3 DEF Resolves, Pinned
  <2>4. CASE \E h \in issued : Pin(h) \/ Unpin(h) \/ \E s \in NodeStates : SetState(h, s)
    BY <1>3, <1>4, <2>4 DEF Resolves, Pinned
  <2>5. QED
    BY <2>1, <2>2, <2>3, <2>4
<1>7. QED
  BY <1>5, <1>6

\* The invariant holds of every reachable state.
LEMMA TableInvariant == Spec => []TableInv
<1>1. Init => TableInv
  <2>1. ASSUME Init PROVE TypeOK /\ GenerationsReached /\ FreeListSound
    <3>1. table.slots = <<>> /\ table.free = <<>> /\ issued = {}
      BY <2>1 DEF Init, EmptyTable
    <3>2. Len(table.slots) = 0 /\ DOMAIN table.free = {} /\ table \in [slots : Seq(Slot), free : Seq(1 .. MaxSlots)]
      BY <2>1, <3>1 DEF Init, EmptyTable
    <3>3. QED
      BY <3>1, <3>2, NodeTableAssumption DEF TypeOK, GenerationsReached, FreeListSound
  <2>2. QED
    BY <2>1 DEF TableInv
<1>2. TableInv /\ [Next]_tableVars => TableInv'
  BY StepKeeps
<1>3. QED
  BY <1>1, <1>2, PTL DEF Spec

(* Types, for every size of the table and width of the counters.           *)
THEOREM TypeCorrect == Spec => []TypeOK
<1>1. TableInv => TypeOK
  BY DEF TableInv
<1>2. QED
  BY <1>1, TableInvariant, PTL

(* A stale handle never has a generation its slot has not passed.          *)
THEOREM StaleIsDetectable == Spec => []GenerationsReached
<1>1. TableInv => GenerationsReached
  BY DEF TableInv
<1>2. QED
  BY <1>1, TableInvariant, PTL

(* Owners that free once keep the free list sound.                         *)
THEOREM FreeListIsSound ==
  ASSUME FreesOnce
  PROVE  Spec => []FreeListSound
<1>1. TableInv => FreeListSound
  BY DEF TableInv
<1>2. QED
  BY <1>1, TableInvariant, PTL

(* alloc never returns the same handle twice, even after double frees.     *)
THEOREM AllocReturnsFreshHandles == Spec => HandlesAreUnique
<1>1. TableInv /\ [Next]_tableVars => [Alloc => NextHandle(table) \notin issued]_tableVars
  BY StepKeeps
<1>2. QED
  BY <1>1, TableInvariant, PTL DEF Spec, HandlesAreUnique

(* When owners free once, no live or pinned handle is ever made stale.     *)
THEOREM NoLiveHandleIsMadeStale ==
  ASSUME FreesOnce
  PROVE  Spec => LiveKeepsItsSlot
<1>1. TableInv /\ [Next]_tableVars =>
        [\A h \in issued : Resolves(table, h) \/ Pinned(table, h) => Current(table', h)]_tableVars
  BY StepKeeps
<1>2. QED
  BY <1>1, TableInvariant, PTL DEF Spec, LiveKeepsItsSlot

-----------------------------------------------------------------------------
(* Each handle is a node (NodeLives)                                       *)

(* A slot that is replaced by one of the same generation is seen through   *)
(* the one handle that is current for it, and through no other.            *)
LEMMA OneChanges ==
  ASSUME NEW tb, TableOK(tb), NEW tc, NEW h \in Handle, Current(tb, h), NEW s \in Slot,
         s.generation = h.generation,
         DOMAIN tc.slots = DOMAIN tb.slots,
         \A j \in DOMAIN tb.slots : tc.slots[j] = IF j = h.index THEN s ELSE tb.slots[j]
  PROVE  /\ NodeOf(tc, h) = [state |-> s.state, pins |-> s.pins]
         /\ \A g \in Handle : g # h => NodeOf(tc, g) = NodeOf(tb, g)
<1>1. h.index \in DOMAIN tb.slots /\ tb.slots[h.index].generation = h.generation
  BY DEF Current
<1>2. Current(tc, h) /\ tc.slots[h.index] = s
  BY <1>1 DEF Current
<1>3. ASSUME NEW g \in Handle, g # h
      PROVE  NodeOf(tc, g) = NodeOf(tb, g)
  <2>1. CASE g.index # h.index
    <3>1. Current(tc, g) <=> Current(tb, g)
      BY <2>1 DEF Current
    <3>2. Current(tb, g) => tc.slots[g.index] = tb.slots[g.index]
      BY <2>1 DEF Current
    <3>3. QED
      BY <3>1, <3>2 DEF NodeOf
  <2>2. CASE g.index = h.index
    <3>1. g.generation # h.generation
      BY <1>3, <2>2 DEF Handle
    <3>2. ~Current(tb, g) /\ ~Current(tc, g)
      BY <1>1, <1>2, <2>2, <3>1 DEF Current
    <3>3. QED
      BY <3>2 DEF NodeOf
  <2>3. QED
    BY <2>1, <2>2
<1>4. QED
  BY <1>2, <1>3 DEF NodeOf

\* The nodes of the handles that were given out.
View == [h \in issued |-> NodeOf(table, h)]

(* A call that replaces the slot of one living handle is seen as one of    *)
(* its node, and of no other.                                              *)
LEMMA CallSeen ==
  ASSUME TypeOK, issued' = issued, NEW h \in issued, Resolves(table, h), NEW s \in Slot,
         s.generation = table.slots[h.index].generation,
         DOMAIN table'.slots = DOMAIN table.slots,
         \A j \in DOMAIN table.slots :
           table'.slots[j] = IF j = h.index THEN s ELSE table.slots[j]
  PROVE  /\ h \in Lives!Living
         /\ View[h] = [state |-> table.slots[h.index].state, pins |-> table.slots[h.index].pins]
         /\ View' = [View EXCEPT ![h] = [state |-> s.state, pins |-> s.pins]]
<1>1. TableOK(table) /\ Current(table, h) /\ issued \subseteq Handle
  BY DEF TypeOK, TableOK, Resolves
<1>2. s.generation = h.generation
  BY <1>1 DEF Current
<1>3. /\ NodeOf(table', h) = [state |-> s.state, pins |-> s.pins]
      /\ \A g \in Handle : g # h => NodeOf(table', g) = NodeOf(table, g)
  BY <1>1, <1>2, OneChanges
<1>4. View' = [View EXCEPT ![h] = [state |-> s.state, pins |-> s.pins]]
  BY <1>1, <1>3 DEF View
<1>5. NodeOf(table, h) = [state |-> table.slots[h.index].state, pins |-> table.slots[h.index].pins]
  BY <1>1 DEF NodeOf
<1>6. h \in Lives!Living
  BY <1>5 DEF Lives!Living, Resolves
<1>7. QED
  BY <1>4, <1>5, <1>6 DEF View

LEMMA PinSeen ==
  ASSUME TableInv, NEW h \in issued, Pin(h)
  PROVE  Lives!Next \/ View' = View
<1>1. TypeOK /\ TableOK(table) /\ issued' = issued /\ table' = WithPin(table, h)
  BY DEF TableInv, TypeOK, TableOK, Pin
<1>2. CASE Resolves(table, h)
  <2>1. PICK r \in Slot : r = table.slots[h.index] /\ h.index \in DOMAIN table.slots
    BY <1>1, <1>2, SlotAt DEF Resolves
  <2>2. PICK s : s = [r EXCEPT !.pins = (@ + 1) % PinMod]
    OBVIOUS
  <2>3. s \in Slot /\ s.generation = r.generation /\ s.state = r.state /\ s.pins = (r.pins + 1) % PinMod
    BY <2>1, <2>2, NodeTableAssumption DEF Slot
  <2>4. table' = Put(table, h.index, s)
    BY <1>1, <1>2, <2>1, <2>2 DEF WithPin, Put, TableOK, Slot
  <2>5. /\ h \in Lives!Living
        /\ View[h] = [state |-> r.state, pins |-> r.pins]
        /\ View' = [View EXCEPT ![h] = [state |-> s.state, pins |-> s.pins]]
    BY <1>1, <1>2, <2>1, <2>3, <2>4, PutKeeps, CallSeen
  <2>6. [View[h] EXCEPT !.pins = (@ + 1) % PinMod] = [state |-> s.state, pins |-> s.pins]
    BY <2>3, <2>5
  <2>7. Lives!Pin(h)
    BY <2>5, <2>6 DEF Lives!Pin, Lives!Becomes, View
  <2>8. QED
    BY <2>5, <2>7 DEF Lives!Next
<1>3. QED
  BY <1>1, <1>2 DEF WithPin, View

LEMMA UnpinSeen ==
  ASSUME TableInv, NEW h \in issued, Unpin(h)
  PROVE  Lives!Next \/ View' = View
<1>1. TypeOK /\ TableOK(table) /\ issued' = issued /\ table' = WithoutPin(table, h)
  BY DEF TableInv, TypeOK, TableOK, Unpin
<1>2. CASE Resolves(table, h) /\ Pinned(table, h)
  <2>1. PICK r \in Slot : r = table.slots[h.index] /\ h.index \in DOMAIN table.slots /\ r.pins > 0
    BY <1>1, <1>2, SlotAt DEF Resolves, Pinned
  <2>2. PICK s : s = [r EXCEPT !.pins = @ - 1]
    OBVIOUS
  <2>3. s \in Slot /\ s.generation = r.generation /\ s.state = r.state /\ s.pins = r.pins - 1
    BY <2>1, <2>2, NodeTableAssumption DEF Slot
  <2>4. table' = Put(table, h.index, s)
    BY <1>1, <1>2, <2>1, <2>2 DEF WithoutPin, Put, TableOK, Slot
  <2>5. /\ h \in Lives!Living
        /\ View[h] = [state |-> r.state, pins |-> r.pins]
        /\ View' = [View EXCEPT ![h] = [state |-> s.state, pins |-> s.pins]]
    BY <1>1, <1>2, <2>1, <2>3, <2>4, PutKeeps, CallSeen
  <2>6. View[h].pins > 0 /\ [View[h] EXCEPT !.pins = @ - 1] = [state |-> s.state, pins |-> s.pins]
    BY <2>1, <2>3, <2>5
  <2>7. Lives!Unpin(h)
    BY <2>5, <2>6 DEF Lives!Unpin, Lives!Becomes, View
  <2>8. QED
    BY <2>5, <2>7 DEF Lives!Next
<1>3. QED
  BY <1>1, <1>2 DEF WithoutPin, View

LEMMA StateSeen ==
  ASSUME TableInv, NEW h \in issued, NEW st \in NodeStates, SetState(h, st)
  PROVE  Lives!Next \/ View' = View
<1>1. TypeOK /\ TableOK(table) /\ issued' = issued /\ table' = WithState(table, h, st)
  BY DEF TableInv, TypeOK, TableOK, SetState
<1>2. CASE Resolves(table, h)
  <2>1. PICK r \in Slot : r = table.slots[h.index] /\ h.index \in DOMAIN table.slots
    BY <1>1, <1>2, SlotAt DEF Resolves
  <2>2. PICK s : s = [r EXCEPT !.state = st]
    OBVIOUS
  <2>3. s \in Slot /\ s.generation = r.generation /\ s.state = st /\ s.pins = r.pins
    BY <2>1, <2>2 DEF Slot
  <2>4. table' = Put(table, h.index, s)
    BY <1>1, <1>2, <2>1, <2>2 DEF WithState, Put, TableOK, Slot
  <2>5. /\ h \in Lives!Living
        /\ View[h] = [state |-> r.state, pins |-> r.pins]
        /\ View' = [View EXCEPT ![h] = [state |-> s.state, pins |-> s.pins]]
    BY <1>1, <1>2, <2>1, <2>3, <2>4, PutKeeps, CallSeen
  <2>6. [View[h] EXCEPT !.state = st] = [state |-> s.state, pins |-> s.pins]
    BY <2>3, <2>5
  <2>7. Lives!SetState(h, st)
    BY <2>5, <2>6 DEF Lives!SetState, Lives!Becomes, View
  <2>8. QED
    BY <2>5, <2>7 DEF Lives!Next
<1>3. QED
  BY <1>1, <1>2 DEF WithState, View

(* An owner that frees once frees a node that lives.                       *)
LEMMA FreeSeen ==
  ASSUME TableInv, FreesOnce, NEW h \in issued, Free(h)
  PROVE  Lives!Next \/ View' = View
<1>1. TypeOK /\ TableOK(table) /\ issued' = issued /\ table' = WithFreed(table, h) /\ Resolves(table, h)
  BY DEF TableInv, TypeOK, TableOK, Free
<1>2. CASE Freeable(table, h)
  <2>1. PICK r \in Slot : r = table.slots[h.index] /\ h.index \in DOMAIN table.slots
    BY <1>1, SlotAt DEF Resolves
  <2>2. PICK s : s = [r EXCEPT !.state = "Dead"]
    OBVIOUS
  <2>3. s \in Slot /\ s.generation = r.generation /\ s.state = "Dead" /\ s.pins = r.pins
    BY <2>1, <2>2 DEF Slot, NodeStates
  <2>4. table'.slots = Put(table, h.index, s).slots
    BY <1>1, <1>2, <2>1, <2>2, FreeTouches
  <2>5. /\ h \in Lives!Living
        /\ View[h] = [state |-> r.state, pins |-> r.pins]
        /\ View' = [View EXCEPT ![h] = [state |-> s.state, pins |-> s.pins]]
    BY <1>1, <2>1, <2>3, <2>4, PutKeeps, CallSeen
  <2>6. r.pins = 0
    BY <1>2, <2>1, NodeTableAssumption DEF Freeable, Pinned, Slot
  <2>7. View[h].pins = 0 /\ [View[h] EXCEPT !.state = "Dead"] = [state |-> s.state, pins |-> s.pins]
    BY <2>3, <2>5, <2>6
  <2>8. Lives!Free(h)
    BY <2>5, <2>7 DEF Lives!Free, Lives!Becomes, View
  <2>9. QED
    BY <2>5, <2>8 DEF Lives!Next
<1>3. QED
  BY <1>1, <1>2 DEF WithFreed, View

(* A handle that is given out is that of a new node: what it reuses was    *)
(* seen as dead and unpinned already by those who had a handle of it.      *)
LEMMA AllocSeen ==
  ASSUME TableInv, FreesOnce, Alloc
  PROVE  Lives!Next
<1>1. PICK n \in Handle : n = NextHandle(table)
  BY DEF Alloc, CanAlloc
<1>2. /\ TypeOK /\ TableOK(table) /\ FreeListSound /\ n \notin issued
      /\ issued' = issued \cup {n} /\ table' = WithAlloc(table)
  BY <1>1, AllocKeeps DEF TableInv, TypeOK, TableOK, Alloc
<1>3. /\ FreshSlot(n).generation = n.generation
      /\ FreshSlot(n).state = "AliveConnected" /\ FreshSlot(n).pins = 0
  BY DEF FreshSlot
<1>4. /\ NodeOf(table', n) = Lives!NewNode
      /\ \A g \in issued : NodeOf(table', g) = NodeOf(table, g)
  <2>1. CASE Reuses(table)
    <3>1. PICK m \in DOMAIN table.free, i \in DOMAIN table.slots :
            i = table.free[m] /\ m = Len(table.free) /\ table.slots \in Seq(Slot)
      BY <1>2, <2>1 DEF Reuses, TableOK
    <3>2. /\ n.index = i /\ n.generation = table.slots[i].generation + 1
          /\ table'.slots = [table.slots EXCEPT ![i] = FreshSlot(n)]
      BY <1>1, <1>2, <2>1, <3>1 DEF NextHandle, WithAlloc
    <3>3. /\ DOMAIN table'.slots = DOMAIN table.slots
          /\ \A j \in DOMAIN table.slots :
               table'.slots[j] = IF j = i THEN FreshSlot(n) ELSE table.slots[j]
      BY <3>1, <3>2
    <3>4. table.slots[i].state = "Dead" /\ table.slots[i].pins = 0
      BY <1>2, <3>1 DEF FreeListSound
    <3>5. Current(table', n) /\ table'.slots[n.index] = FreshSlot(n)
      BY <1>3, <3>2, <3>3 DEF Current
    <3>6. ASSUME NEW g \in issued
          PROVE  NodeOf(table', g) = NodeOf(table, g)
      <4>1. CASE g.index = i
        <5>1. g \in Handle /\ g # n
          BY <1>2 DEF TypeOK
        <5>2. g.generation # n.generation
          BY <3>2, <4>1, <5>1 DEF Handle
        <5>3. ~Current(table', g)
          BY <1>3, <3>3, <4>1, <5>2 DEF Current
        <5>4. NodeOf(table, g) = [state |-> "Dead", pins |-> 0]
          BY <3>4, <4>1 DEF NodeOf
        <5>5. QED
          BY <5>3, <5>4 DEF NodeOf
      <4>2. CASE g.index # i
        <5>1. g.index \in DOMAIN table.slots
          BY <1>2 DEF TypeOK
        <5>2. table'.slots[g.index] = table.slots[g.index] /\ g.index \in DOMAIN table'.slots
          BY <3>3, <4>2, <5>1
        <5>3. QED
          BY <5>1, <5>2 DEF NodeOf, Current
      <4>3. QED
        BY <4>1, <4>2
    <3>7. QED
      BY <1>3, <3>5, <3>6 DEF NodeOf, Lives!NewNode
  <2>2. CASE ~Reuses(table)
    <3>1. PICK k \in Nat : k = Len(table.slots) /\ DOMAIN table.slots = 1 .. k
      BY <1>2, LenProperties DEF TableOK
    <3>2. n.index = k + 1 /\ table'.slots = Append(table.slots, FreshSlot(n))
      BY <1>1, <1>2, <2>2, <3>1 DEF NextHandle, WithAlloc
    <3>3. FreshSlot(n) \in Slot /\ table.slots \in Seq(Slot)
      BY <1>2, NodeTableAssumption DEF FreshSlot, Slot, NodeStates, Handle, TableOK
    <3>4. /\ DOMAIN table'.slots = 1 .. k + 1 /\ table'.slots[k + 1] = FreshSlot(n)
          /\ \A j \in 1 .. k : table'.slots[j] = table.slots[j]
      BY <3>1, <3>2, <3>3, AppendProperties
    <3>5. Current(table', n) /\ table'.slots[n.index] = FreshSlot(n)
      BY <1>3, <3>1, <3>2, <3>4 DEF Current
    <3>6. ASSUME NEW g \in issued
          PROVE  NodeOf(table', g) = NodeOf(table, g)
      <4>1. g.index \in 1 .. k
        BY <1>2, <3>1 DEF TypeOK
      <4>2. table'.slots[g.index] = table.slots[g.index] /\ g.index \in 1 .. k + 1
        BY <3>4, <4>1
      <4>3. QED
        BY <3>1, <3>4, <4>1, <4>2 DEF NodeOf, Current
    <3>7. QED
      BY <1>3, <3>5, <3>6 DEF NodeOf, Lives!NewNode
  <2>3. QED
    BY <2>1, <2>2
<1>5. View' = [g \in DOMAIN View \cup {n} |-> IF g = n THEN Lives!NewNode ELSE View[g]]
  BY <1>2, <1>4 DEF View
<1>6. Lives!Alloc(n)
  BY <1>5 DEF Lives!Alloc, View
<1>7. n \in Handle \ DOMAIN View
  BY <1>2 DEF View
<1>8. QED
  BY <1>6, <1>7 DEF Lives!Next, View

(* Slots, generations and the free list are not to be seen: if owners free *)
(* once, every step of the table is one call on one node of NodeLives, or  *)
(* none, however often slots are reused (resolve, state_of).               *)
THEOREM TableImplementsLives ==
  ASSUME FreesOnce
  PROVE  Spec => EachHandleIsANode
<1>1. Init => Lives!Init
  <2>1. ASSUME Init
        PROVE  View = [h \in {} |-> Lives!NewNode]
    BY <2>1 DEF Init, View
  <2>2. QED
    BY <2>1 DEF Lives!Init, View
<1>2. ASSUME TableInv, [Next]_tableVars
      PROVE  Lives!Next \/ View' = View
  <2>1. CASE Alloc
    BY <1>2, <2>1, AllocSeen
  <2>2. CASE \E h \in issued : Free(h)
    BY <1>2, <2>2, FreeSeen
  <2>3. CASE \E h \in issued : Pin(h)
    BY <1>2, <2>3, PinSeen
  <2>4. CASE \E h \in issued : Unpin(h)
    BY <1>2, <2>4, UnpinSeen
  <2>5. CASE \E h \in issued, s \in NodeStates : SetState(h, s)
    BY <1>2, <2>5, StateSeen
  <2>6. CASE UNCHANGED tableVars
    BY <2>6 DEF tableVars, View, NodeOf, Current
  <2>7. QED
    BY <1>2, <2>1, <2>2, <2>3, <2>4, <2>5, <2>6 DEF Next
<1>3. TableInv /\ [Next]_tableVars => [Lives!Next]_View
  BY <1>2
<1>4. TableInv /\ [Next]_tableVars => [Lives!Next]_([h \in issued |-> NodeOf(table, h)])
  BY <1>3 DEF View
<1>5. QED
  BY <1>1, <1>4, TableInvariant, PTL DEF Spec, EachHandleIsANode, Lives!Spec
=============================================================================
