------------------------------ MODULE DomEvents ------------------------------
(***************************************************************************)
(* DOM events and focus (js/dom_binding.cpp): the listeners of the nodes,  *)
(* the dispatch of an event along the path to its target, and the events   *)
(* of a focus change.  Everything runs on one thread, but nested: what a   *)
(* dispatch calls may register, remove, dispatch, stop and move the focus, *)
(* and the garbage collector may run between any two of its instructions.  *)
(*                                                                         *)
(* A dispatch reads the tree once, when it starts, so the tree is one path *)
(* here, node 1 the root.  The stack holds the dispatches under way; above *)
(* one that calls focus() or blur() are those that the call still has to   *)
(* make.  The last element is at work.                                     *)
(***************************************************************************)
EXTENDS Naturals, Sequences, FiniteSets, SequencesExt, Functions, TLC

CONSTANTS
  PathLength,    (* nodes of the path                                      *)
  Callbacks,     (* functions of scripts                                   *)
  NoCallback,
  Types,         (* event types scripts listen to and dispatch             *)
  MaxListeners,  (* bound: listeners registered at a time                  *)
  MaxHandlers,   (* bound: on<type> attributes set at a time               *)
  MaxNesting,    (* bound: scripts running inside one another              *)
  MaxCalls       (* bound: calls made by the scripts that dispatches run,  *)
                 (* until the stack is empty                               *)

ASSUME DomEventsAssumption ==
  /\ PathLength \in Nat \ {0}
  /\ NoCallback \notin Callbacks
  /\ {MaxListeners, MaxHandlers, MaxNesting, MaxCalls} \subseteq Nat

Nodes == 1 .. PathLength
NoNode == 0

VARIABLES
  listeners,     (* listeners_, in the order they were registered          *)
  handlers,      (* node and type -> the on<type> attribute                *)
  roots,         (* callback -> how often host_roots_ holds it             *)
  collected,     (* callbacks collected though listeners refer to them     *)
  stack,
  focused,       (* focused_element_                                       *)
  calls,
  told,          (* history: nodes told of a focus, and not of a blur since *)
  tangled        (* history: code called by a focus change moved the focus *)

registry == <<listeners, handlers, roots>>
focus == <<focused, told, tangled>>
vars == <<registry, collected, stack, focus, calls>>

Listener == [node : Nodes, type : Types, callback : Callbacks, capture : BOOLEAN]

Registered == ToSet(listeners)

\* The entries of s that belong to S, in their order.
Only(s, S) ==
  LET upto[n \in 0 .. Len(s)] ==
        IF n = 0 THEN <<>>
        ELSE IF s[n] \in S THEN Append(upto[n - 1], s[n]) ELSE upto[n - 1]
  IN  upto[Len(s)]

Set == {x \in DOMAIN handlers : handlers[x] # NoCallback}

-----------------------------------------------------------------------------
(* A dispatch: the visits it has still to make, its copy of the listeners  *)
(* of the node it visits, and what it runs.  `event` is the place in the   *)
(* stack of the dispatch the event was made for, which keeps the flags of  *)
(* the event itself; the local flags of a dispatch are in its visits.      *)
(*                                                                         *)
(* History: the listeners that it owes a call (due), those that it must    *)
(* not call any more (spent), and whether it called one of these (wrong).  *)

Visit(node, phase) == [node |-> node, phase |-> phase]

Ancestors(n) == [i \in 1 .. n - 1 |-> n - i]

Visits(target, bubbles) ==
  LET at(phase) == [i \in DOMAIN Ancestors(target) |-> Visit(Ancestors(target)[i], phase)]
  IN  Reverse(at("capture")) \o <<Visit(target, "target"), Visit(target, "attribute")>>
        \o (IF bubbles THEN at("bubble") ELSE <<>>)

NoFlags == [stop |-> FALSE, now |-> FALSE]
Stop == [stop |-> TRUE, now |-> FALSE]
StopNow == [stop |-> TRUE, now |-> TRUE]

Dispatch(type, target, bubbles, event) ==
  [type |-> type, bubbles |-> bubbles, event |-> event, flags |-> NoFlags, trusted |-> FALSE,
   visits |-> Visits(target, bubbles), visit |-> Visit(target, "none"),
   list |-> <<>>, running |-> NoCallback,
   due |-> {}, spent |-> {}, wrong |-> FALSE]

Top == stack[Len(stack)]
SetTop(d) == stack' = [stack EXCEPT ![Len(stack)] = d]

Running == {i \in DOMAIN stack : stack[i].running # NoCallback}

Over(d) == d.visits = <<>> /\ d.list = <<>> /\ d.running = NoCallback

\* Script has control: the host runs one, a dispatch has called it, or it is a
\* job of the checkpoint that ends a dispatch of a focus change.  The jobs that
\* other dispatches run have the same chances as the script that goes on then.
InScript == stack # <<>> => Len(stack) \in Running \/ (Over(Top) /\ Top.trusted)

\* The dispatch on top chooses what to call next.
Chooses == ~InScript /\ Top.list = <<>> /\ ~Over(Top)

\* fire_at: the listeners of a node that a visit calls.
FiresByPhase(l, v) ==                                           \* mutant
  l.node = v.node /\ l.capture = (v.phase = "capture")
Fires(l, v) ==
  /\ l.node = v.node
  /\ \/ v.phase = "target"
     \/ v.phase = "capture" /\ l.capture
     \/ v.phase = "bubble" /\ ~l.capture

Copied(d, v) == Only(listeners, {l \in Registered : l.type = d.type /\ Fires(l, v)})

Attribute(d, v) ==
  IF v.phase = "attribute" /\ d.type \in Types THEN handlers[<<v.node, d.type>>] ELSE NoCallback

\* The dispatch at its next visit that calls something.
Arrived(d) ==
  LET busy == {k \in DOMAIN d.visits :
                 Copied(d, d.visits[k]) # <<>> \/ Attribute(d, d.visits[k]) # NoCallback}
      v == d.visits[Min(busy)]
  IN  IF busy = {} THEN [d EXCEPT !.visits = <<>>]
      ELSE [d EXCEPT !.visits = SubSeq(@, Min(busy) + 1, Len(@)), !.visit = v,
                     !.list = Copied(d, v), !.running = Attribute(d, v)]

-----------------------------------------------------------------------------
(* The steps of dispatch_value and fire_at.                                *)

\* The phases in which a listener of a node on the path is called.
Phases(l) == IF l.capture THEN {"capture", "target"} ELSE {"target", "bubble"}

Due(d) ==
  IF stack[d.event].flags # NoFlags THEN {}
  ELSE {l \in Registered : l.type = d.type
          /\ \E phase \in Phases(l) : Visit(l.node, phase) \in ToSet(d.visits)}

Start ==
  /\ Chooses
  /\ Top.visit.phase = "none"
  /\ SetTop(Arrived([Top EXCEPT !.due = Due(Top), !.visit.phase = "start"]))
  /\ told' = IF ~Top.trusted \/ tangled THEN told
             ELSE CASE Top.type = "focus" -> told \cup {Top.visit.node}
                    [] Top.type = "blur" -> told \ {Top.visit.node}
                    [] OTHER -> told
  /\ UNCHANGED <<registry, collected, focused, tangled>>

Arrive ==
  /\ Chooses
  /\ Top.visit.phase # "none"
  /\ SetTop(Arrived(Top))
  /\ UNCHANGED <<registry, collected, focus>>

CallListener ==
  /\ ~InScript
  /\ Top.list # <<>>
  /\ LET l == Head(Top.list)
     IN  SetTop([Top EXCEPT !.list = Tail(@), !.running = l.callback, !.due = @ \ {l},
                            !.spent = @ \cup {l}, !.wrong = @ \/ l \in Top.spent])
  /\ UNCHANGED <<registry, collected, focus>>

\* The listener that ran may have stopped the event, or one before it: then the
\* other nodes are not visited, but the target's attribute is still run.
Returns ==
  /\ Len(stack) \in Running
  /\ LET flags == stack[Top.event].flags
         d == [Top EXCEPT !.running = NoCallback]
     IN  SetTop(IF ~flags.stop \/ d.visit.phase = "attribute" THEN d
                ELSE IF flags.now THEN [d EXCEPT !.list = <<>>, !.visits = <<>>]
                ELSE IF d.visit.phase = "target"
                THEN [d EXCEPT !.visits = Only(@, {v \in ToSet(@) : v.phase = "attribute"})]
                ELSE [d EXCEPT !.visits = <<>>])
  /\ UNCHANGED <<registry, collected, focus>>

End ==
  /\ stack # <<>> /\ Over(Top)
  /\ stack' = Front(stack)
  /\ UNCHANGED <<registry, collected, focus>>

-----------------------------------------------------------------------------
(* The calls of scripts.                                                   *)

RootedOnce(cb) == [roots EXCEPT ![cb] = 1]                      \* mutant
Rooted(cb) == [roots EXCEPT ![cb] = @ + 1]

Unrooted(cb) == [roots EXCEPT ![cb] = IF @ > 0 THEN @ - 1 ELSE 0]

AddEventListener(l) ==
  /\ l.callback \notin collected
  /\ IF l \in Registered THEN UNCHANGED <<listeners, roots>>
     ELSE /\ Len(listeners) < MaxListeners
          /\ listeners' = Append(listeners, l)
          /\ roots' = Rooted(l.callback)
  /\ UNCHANGED <<handlers, collected, stack, focus>>

RemoveEventListener(l) ==
  /\ l \in Registered
  /\ l.callback \notin collected
  /\ listeners' = Only(listeners, Registered \ {l})
  /\ roots' = Unrooted(l.callback)
  /\ stack' = [i \in DOMAIN stack |-> [stack[i] EXCEPT !.due = @ \ {l}]]
  /\ UNCHANGED <<handlers, collected, focus>>

SetAttribute(node, type, cb) ==
  /\ cb \notin collected
  /\ handlers' = [handlers EXCEPT ![<<node, type>>] = cb]
  /\ Cardinality(Set') <= MaxHandlers
  /\ UNCHANGED <<listeners, roots, collected, stack, focus>>

\* Room for code that is called by the code that runs.
Nests == Cardinality(Running) < MaxNesting

\* A new event.
DispatchEvent(type, target, bubbles) ==
  /\ Nests
  /\ stack' = Append(stack, Dispatch(type, target, bubbles, Len(stack) + 1))
  /\ UNCHANGED <<registry, collected, focus>>

\* An event that is being dispatched, and may have been stopped.
DispatchAgain(i, target) ==
  /\ Nests
  /\ stack' = Append(stack, Dispatch(stack[i].type, target, stack[i].bubbles, stack[i].event))
  /\ UNCHANGED <<registry, collected, focus>>

\* stopPropagation() and stopImmediatePropagation() of an event that is being
\* dispatched, by the code a dispatch of it has called.
StopEvent(event, flags) ==
  /\ LET after(i) ==
           LET d == stack[i]
               last == IF flags.now THEN {} ELSE {l \in Listener : Fires(l, d.visit)}
           IN  IF d.event # event THEN d
               ELSE IF d.visit.phase = "attribute" THEN [d EXCEPT !.due = {}]
               ELSE [d EXCEPT !.due = @ \cap last, !.spent = @ \cup (Listener \ last)]
     IN  stack' = [i \in DOMAIN stack |->
                     IF i = event
                     THEN [after(i) EXCEPT !.flags = [stop |-> TRUE, now |-> @.now \/ flags.now]]
                     ELSE after(i)]
  /\ UNCHANGED <<registry, collected, focus>>

-----------------------------------------------------------------------------
(* focus() and blur(): the element changes first, then come the events.    *)

Told(type, node, bubbles) == [type |-> type, node |-> node, bubbles |-> bubbles]

Loses(n) == IF n = NoNode THEN <<>>
            ELSE <<Told("blur", n, FALSE), Told("focusout", n, TRUE)>>
Gains(n) == IF n = NoNode THEN <<>>
            ELSE <<Told("focus", n, FALSE), Told("focusin", n, TRUE)>>

OnlyGains(from, to) == Gains(to)                                \* mutant
Change(from, to) == Loses(from) \o Gains(to)

\* Once it is tangled, the focus is left alone: nothing is claimed of it any more.
Moves(to) ==
  /\ Nests /\ ~tangled
  /\ LET events == Reverse(Change(focused, to))
     IN  stack' = stack \o
           [i \in DOMAIN events |->
              [Dispatch(events[i].type, events[i].node, events[i].bubbles, Len(stack) + i)
                 EXCEPT !.trusted = TRUE]]
  /\ focused' = to
  /\ tangled' = (tangled \/ \E i \in DOMAIN stack : stack[i].trusted)
  /\ told' = IF tangled' THEN {} ELSE told
  /\ UNCHANGED <<registry, collected>>

Focus(n) == focused # n /\ Moves(n)

Blur(n) == focused = n /\ Moves(NoNode)

-----------------------------------------------------------------------------
(* The heap.                                                               *)

\* mark_roots: host_roots_, the functions being called, and the attributes of
\* the nodes, whose wrappers are marked.
Marked ==
  {cb \in Callbacks : roots[cb] > 0} \cup {stack[i].running : i \in Running}
    \cup {handlers[x] : x \in Set}

\* The functions that listeners_ refers to, and those that copies of it do.
Listening == {l.callback : l \in Registered}
Copies == UNION {{l.callback : l \in ToSet(stack[i].list)} : i \in DOMAIN stack}

\* A collection, when the scripts have no reference to some functions left.  One
\* that nothing else refers to may be created again.
Collect(dropped) ==
  /\ collected' = collected \cup ((dropped \ Marked) \cap (Listening \cup Copies))
  /\ UNCHANGED <<registry, stack, focus>>

-----------------------------------------------------------------------------
Init ==
  /\ listeners = <<>>
  /\ handlers = [x \in Nodes \X Types |-> NoCallback]
  /\ roots = [cb \in Callbacks |-> 0]
  /\ collected = {}
  /\ stack = <<>>
  /\ focused = NoNode /\ told = {} /\ tangled = FALSE /\ calls = 0

\* Calls, of which the scripts that dispatches run make a bounded number,
Call ==
  \/ \E l \in Listener : AddEventListener(l) \/ RemoveEventListener(l)
  \/ \E node \in Nodes, type \in Types, cb \in Callbacks \cup {NoCallback} :
       SetAttribute(node, type, cb)
  \/ \E type \in Types, target \in Nodes, bubbles \in BOOLEAN : DispatchEvent(type, target, bubbles)
  \/ \E i \in Running, flags \in {Stop, StopNow} : StopEvent(stack[i].event, flags)
  \/ \E n \in Nodes : Focus(n) \/ Blur(n)

\* and what they do besides.
Other ==
  \/ \E i \in Running, target \in Nodes : DispatchAgain(i, target)
  \/ \E dropped \in SUBSET Callbacks : Collect(dropped)

ScriptStep ==
  /\ InScript
  /\ \/ /\ stack # <<>> => calls < MaxCalls
        /\ Call
        /\ calls' = IF stack = <<>> THEN 0 ELSE calls + 1
     \/ Other /\ UNCHANGED calls

DispatchStep ==
  /\ Start \/ Arrive \/ CallListener \/ Returns \/ End
  /\ calls' = IF stack' = <<>> THEN 0 ELSE calls

Next == ScriptStep \/ DispatchStep

Spec == Init /\ [][Next]_vars

-----------------------------------------------------------------------------
(* Properties.                                                             *)

TypeOK ==
  /\ listeners \in Seq(Listener) /\ IsInjective(listeners)
  /\ handlers \in [Nodes \X Types -> Callbacks \cup {NoCallback}]
  /\ roots \in [Callbacks -> 0 .. MaxListeners]
  /\ collected \subseteq Callbacks
  /\ focused \in Nodes \cup {NoNode} /\ told \subseteq Nodes /\ tangled \in BOOLEAN
  /\ \A i \in DOMAIN stack :
       /\ stack[i].event \in 1 .. i
       /\ ToSet(stack[i].list) \subseteq Listener

\* The next that the dispatch at place i calls is a listener that was removed while
\* it waited in the copy of the list.
CallsRemoved(i) == i \in DOMAIN stack /\ stack[i].list # <<>> /\ Head(stack[i].list) \notin Registered

\* "All live values are reachable from the roots" (heap.h:7): no function is collected
\* while it runs, and none is called that was collected before, though it be registered
\* several times, removed once or set as an attribute too: host_roots_ holds it once for
\* each of its registrations (add_listener, line 1666). Only a copy of the list holds nothing
\* (1892): what is called after it was collected was removed while it waited there.
CalledAreAlive ==
  [][\A i \in Running' : stack'[i].running \in collected' =>
       IF i \in Running THEN stack[i].running \in collected ELSE CallsRemoved(i)]_vars

\* "capture -> target -> bubble" (tests/test_dom_events.cpp:3): a dispatch that
\* comes to its end has called every listener that was registered for one of its
\* visits when it began and was not removed since, unless a listener stopped the
\* event; and it calls none twice, and none of another node after such a stop.
ListenersAreCalledOnce ==
  /\ TypeOK
  /\ \A i \in DOMAIN stack :
       ~stack[i].wrong /\ (Over(stack[i]) => stack[i].due = {})

\* When all events of the focus changes are dispatched, the element that was told
\* of a focus, and not of a blur since, is the focused one, unless code that a
\* focus change called moved the focus again.
FocusSettles ==
  tangled \/ (\E i \in DOMAIN stack : stack[i].trusted) \/ told = {focused} \ {NoNode}

\* Scripts treat their functions alike.
Symmetry == Permutations(Callbacks)
=============================================================================
