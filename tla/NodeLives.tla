------------------------------ MODULE NodeLives ------------------------------
(***************************************************************************)
(* What a table of DOM nodes promises those who hold handles               *)
(* (core/include/malibu/types.h, NodeHandle): a handle is one node for     *)
(* good.  A node is given a handle that no node had before, lives, and     *)
(* dies once; it is pinned and changes its state only while it lives, is   *)
(* not freed while it is pinned, and nothing that is done to one node can  *)
(* be seen through the handle of another.  There are no slots here, no     *)
(* generations and no list of free slots: they are how NodeTable keeps the *)
(* promise.                                                                *)
(***************************************************************************)
EXTENDS Naturals

CONSTANTS
  Handle,      (* the handles                                              *)
  NodeStates,  (* the states of a node                                     *)
  PinMod       (* a pin count is an unsigned of this many values           *)

VARIABLE
  lives        (* handle -> its node's state and pins, once it is given    *)

Living == {h \in DOMAIN lives : lives[h].state # "Dead"}

NewNode == [state |-> "AliveConnected", pins |-> 0]

Init == lives = [h \in {} |-> NewNode]

\* A handle that nobody had is given out.
Alloc(h) ==
  lives' = [g \in DOMAIN lives \cup {h} |-> IF g = h THEN NewNode ELSE lives[g]]

Becomes(h, node) == lives' = [lives EXCEPT ![h] = node]

Pin(h)   == Becomes(h, [lives[h] EXCEPT !.pins = (@ + 1) % PinMod])
Unpin(h) == lives[h].pins > 0 /\ Becomes(h, [lives[h] EXCEPT !.pins = @ - 1])
Free(h)  == lives[h].pins = 0 /\ Becomes(h, [lives[h] EXCEPT !.state = "Dead"])

SetState(h, s) == Becomes(h, [lives[h] EXCEPT !.state = s])

Next ==
  \/ \E h \in Living :
       Pin(h) \/ Unpin(h) \/ Free(h) \/ \E s \in NodeStates : SetState(h, s)
  \/ \E h \in Handle \ DOMAIN lives : Alloc(h)

Spec == Init /\ [][Next]_lives
=============================================================================
