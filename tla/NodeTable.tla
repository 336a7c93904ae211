------------------------------ MODULE NodeTable ------------------------------
(***************************************************************************)
(* The slab allocator of DOM nodes (dom/node_table.cpp).  A slot has a     *)
(* generation, a life-cycle state and a pin count; a NodeHandle names a    *)
(* slot and the generation it was given out at.  Free slots are reused     *)
(* last in, first out, and a reused slot gets the next generation.         *)
(*                                                                         *)
(* One mutex protects the table, so each member function is one atomic     *)
(* step.  The operators take the table as a parameter: the DOM tree and    *)
(* the command buffer compose several of them into one step of theirs.     *)
(***************************************************************************)
EXTENDS Naturals, Sequences

CONSTANTS
  MaxSlots,       (* bound: slots the table may grow to                    *)
  MaxFree,        (* bound: length of the free list                        *)
  MaxGeneration,  (* bound: the largest generation (2^32 - 1 in the code)  *)
  PinMod,         (* pin_count is an unsigned of this many values (2^8)    *)
  FreesOnce       (* TRUE: owners free a handle only while it resolves     *)

ASSUME NodeTableAssumption ==
  /\ MaxSlots \in Nat \ {0}
  /\ MaxFree \in Nat
  /\ MaxGeneration \in Nat
  /\ PinMod \in Nat \ {0}
  /\ FreesOnce \in BOOLEAN

VARIABLES
  table,   (* the slots (slot i of the code is slots[i + 1]) and free list *)
  issued   (* history: every handle alloc has returned                     *)

tableVars == <<table, issued>>

NodeStates == {"AliveConnected", "AliveDetached", "PendingDestroy", "Dead"}

Slot == [generation : 0 .. MaxGeneration, state : NodeStates, pins : 0 .. PinMod - 1]

Handle == [index : 1 .. MaxSlots, generation : 0 .. MaxGeneration]

-----------------------------------------------------------------------------
(* Reading a slot through a handle.                                        *)

\* The handle's index is in range and its generation is the slot's.
Current(tb, h) ==
  /\ h.index \in DOMAIN tb.slots
  /\ tb.slots[h.index].generation = h.generation

\* resolve() returns a slot: the handle is current and its node not dead.
Resolves(tb, h) == Current(tb, h) /\ tb.slots[h.index].state # "Dead"

StateOf(tb, h) == IF Current(tb, h) THEN tb.slots[h.index].state ELSE "Dead"

Pinned(tb, h) == Current(tb, h) /\ tb.slots[h.index].pins > 0

(* Changing a slot through a handle: one that does not resolve is ignored. *)

WithPin(tb, h) ==
  IF Resolves(tb, h)
  THEN [tb EXCEPT !.slots[h.index].pins = (@ + 1) % PinMod] ELSE tb

WithoutPin(tb, h) ==
  IF Resolves(tb, h) /\ Pinned(tb, h)
  THEN [tb EXCEPT !.slots[h.index].pins = @ - 1] ELSE tb

WithStateRevived(tb, h, s) ==                                   \* mutant
  IF Current(tb, h) THEN [tb EXCEPT !.slots[h.index].state = s] ELSE tb
WithState(tb, h, s) ==
  IF Resolves(tb, h) THEN [tb EXCEPT !.slots[h.index].state = s] ELSE tb

(* free() refuses a pinned slot, but does not look at the state: a handle  *)
(* that was freed already is still current, and is freed again.            *)
FreeableEvenIfPinned(tb, h) == Current(tb, h)                   \* mutant
Freeable(tb, h) == Current(tb, h) /\ ~Pinned(tb, h)

WithFreedStillAlive(tb, h) ==                                   \* mutant
  IF Freeable(tb, h) THEN [tb EXCEPT !.free = Append(@, h.index)] ELSE tb
WithFreed(tb, h) ==
  IF Freeable(tb, h)
  THEN [slots |-> [tb.slots EXCEPT ![h.index].state = "Dead"],
        free  |-> Append(tb.free, h.index)]
  ELSE tb

-----------------------------------------------------------------------------
(* Allocation: the top of the free list, or a new slot at the end.         *)

Reuses(tb) == tb.free # <<>>

NextHandleSameGeneration(tb) ==                                 \* mutant
  IF Reuses(tb)
  THEN LET i == tb.free[Len(tb.free)]
       IN  [index |-> i, generation |-> tb.slots[i].generation]
  ELSE [index |-> Len(tb.slots) + 1, generation |-> 0]
NextHandle(tb) ==
  IF Reuses(tb)
  THEN LET i == tb.free[Len(tb.free)]
       IN  [index |-> i, generation |-> tb.slots[i].generation + 1]
  ELSE [index |-> Len(tb.slots) + 1, generation |-> 0]

FreshSlot(h) == [generation |-> h.generation, state |-> "AliveConnected", pins |-> 0]

WithAlloc(tb) ==
  LET h == NextHandle(tb)
  IN  IF Reuses(tb)
      THEN [slots |-> [tb.slots EXCEPT ![h.index] = FreshSlot(h)],
            free  |-> SubSeq(tb.free, 1, Len(tb.free) - 1)]
      ELSE [slots |-> Append(tb.slots, FreshSlot(h)), free |-> tb.free]

\* The bounds allow one more allocation.
CanAlloc(tb) == NextHandle(tb) \in Handle

EmptyTable == [slots |-> <<>>, free |-> <<>>]

-----------------------------------------------------------------------------
(* The table used on its own, by owners that may call anything.            *)

Alloc ==
  /\ CanAlloc(table)
  /\ table' = WithAlloc(table)
  /\ issued' = issued \cup {NextHandle(table)}

Free(h) ==
  /\ FreesOnce => Resolves(table, h)
  /\ Len(table.free) < MaxFree
  /\ table' = WithFreed(table, h)
  /\ UNCHANGED issued

Pin(h) ==
  /\ table' = WithPin(table, h)
  /\ UNCHANGED issued

Unpin(h) ==
  /\ table' = WithoutPin(table, h)
  /\ UNCHANGED issued

SetState(h, s) ==
  /\ table' = WithState(table, h, s)
  /\ UNCHANGED issued

Init ==
  /\ table = EmptyTable
  /\ issued = {}

Next ==
  \/ Alloc
  \/ \E h \in issued :
       \/ Free(h)
       \/ Pin(h)
       \/ Unpin(h)
       \/ \E s \in NodeStates : SetState(h, s)

Spec == Init /\ [][Next]_tableVars

-----------------------------------------------------------------------------
(* Properties.                                                             *)

\* The table's fields stay in their ranges; every handle given out names a
\* slot that exists (alloc, dom/node_table.cpp:11).
TypeOK ==
  /\ table \in [slots : Seq(Slot), free : Seq(1 .. MaxSlots)]
  /\ Len(table.slots) <= MaxSlots
  /\ \A k \in DOMAIN table.free : table.free[k] \in DOMAIN table.slots
  /\ issued \subseteq Handle
  /\ \A h \in issued : h.index \in DOMAIN table.slots

\* No handle is ever from the future: a slot's generation has reached that of
\* every handle given out for it, which is what makes a stale handle
\* detectable by comparing generations (resolve, dom/node_table.cpp:79).
GenerationsReached ==
  \A h \in issued : h.generation <= table.slots[h.index].generation

\* The free list holds dead, unpinned slots, each once: alloc (line 15) takes
\* what free (line 68) pushed and asks no further question.
FreeListSound ==
  /\ \A k \in DOMAIN table.free :
       /\ table.slots[table.free[k]].state = "Dead"
       /\ table.slots[table.free[k]].pins = 0
  /\ \A j, k \in DOMAIN table.free : table.free[j] = table.free[k] => j = k

\* alloc never returns a handle it has returned before, so two nodes never
\* share an (index, generation) pair (core/include/malibu/types.h:13).
HandlesAreUnique ==
  [][Alloc => NextHandle(table) \notin issued]_tableVars

\* Only a freed slot is reused: the handle of a live node stays current, and
\* so does a pinned one, whatever the other owners do with their handles.
LiveKeepsItsSlot ==
  [][\A h \in issued :
       Resolves(table, h) \/ Pinned(table, h) => Current(table', h)]_tableVars

\* The node that a handle stands for.
NodeOf(tb, h) ==
  IF Current(tb, h) THEN [state |-> tb.slots[h.index].state, pins |-> tb.slots[h.index].pins]
  ELSE [state |-> "Dead", pins |-> 0]

Lives == INSTANCE NodeLives WITH lives <- [h \in issued |-> NodeOf(table, h)]

\* Slots, generations and the free list are not to be seen: each handle is a node of
\* its own that lives once, and what is done through one handle shows through no
\* other (resolve, dom/node_table.cpp:71, and types.h:13).
EachHandleIsANode == Lives!Spec
=============================================================================
