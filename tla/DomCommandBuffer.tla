--------------------------- MODULE DomCommandBuffer ---------------------------
(***************************************************************************)
(* The batch of DOM mutations (dom/dom_command_buffer.cpp).  A push pins   *)
(* the nodes of the command; a flush applies the commands in order, unpins *)
(* the nodes of each one applied, and stops at the first that fails, which *)
(* stays at the head with all that follow it.  Between a push and a flush  *)
(* the owner of the document may use the tree and the table directly.      *)
(***************************************************************************)
EXTENDS DomTree

CONSTANTS
  MaxCommands,    (* bound: pending commands                               *)
  Kinds           (* the DomCommandTypes that are pushed                   *)

AllKinds == {"AppendChild", "RemoveChild", "Remove", "SetAttribute", "SetTextContent"}

ASSUME DomCommandBufferAssumption ==
  /\ MaxCommands \in Nat
  /\ Kinds \subseteq AllKinds

VARIABLE commands   (* the queue of commands not applied yet               *)

bufferVars == <<table, nodes, commands>>

\* Commands with an argument node; the others carry the null handle.
Binary == {"AppendChild", "RemoveChild"}

Refs(cmd) == <<cmd.target, cmd.arg>>

-----------------------------------------------------------------------------
(* push                                                                    *)

WithPins(tb, cmd) == T!WithPin(T!WithPin(tb, cmd.target), cmd.arg)
WithPinOfTarget(tb, cmd) == T!WithPin(tb, cmd.target)           \* mutant
WithoutPins(tb, cmd) == T!WithoutPin(T!WithoutPin(tb, cmd.target), cmd.arg)

PushPins(tb, cmd) == WithPins(tb, cmd)

Push(kind, target, arg) ==
  /\ Len(commands) < MaxCommands
  /\ arg = Null <=> kind \notin Binary
  /\ RootMoves \/ arg # root
  /\ LET cmd == [kind |-> kind, target |-> target, arg |-> arg]
     IN  /\ table' = PushPins(table, cmd)
         /\ commands' = Append(commands, cmd)
  /\ UNCHANGED nodes

-----------------------------------------------------------------------------
(* flush                                                                   *)

\* One command applied to the tree: the new tree and the DomError.
Applied(t, cmd) ==
  CASE cmd.kind = "AppendChild" -> AppendChild(t, cmd.target, cmd.arg)
    [] cmd.kind = "RemoveChild" -> RemoveChild(t, cmd.target, cmd.arg)
    [] cmd.kind = "Remove" ->
         IF HasCore(t, cmd.target) /\ t.nodes[cmd.target].parent # Null
         THEN RemoveChild(t, t.nodes[cmd.target].parent, cmd.target)
         ELSE Done(t)
    [] cmd.kind = "SetAttribute" -> SetAttribute(t, cmd.target)
    [] cmd.kind = "SetTextContent" -> SetTextContent(t, cmd.target)

\* One turn of the loop, unless an earlier command has failed.
AfterUnpinsFailed(f, cmd) ==                                    \* mutant
  IF f.err # "Ok" THEN f
  ELSE LET r == Applied(f.tree, cmd)
       IN  IF r.err # "Ok"
           THEN [f EXCEPT !.err = r.err, !.tree.table = WithoutPins(@, cmd)]
           ELSE [tree |-> [r.tree EXCEPT !.table = WithoutPins(@, cmd)],
                 applied |-> f.applied + 1, err |-> "Ok"]
After(f, cmd) ==
  IF f.err # "Ok" THEN f
  ELSE LET r == Applied(f.tree, cmd)
       IN  IF r.err # "Ok" THEN [f EXCEPT !.err = r.err]
           ELSE [tree |-> [r.tree EXCEPT !.table = WithoutPins(@, cmd)],
                 applied |-> f.applied + 1, err |-> "Ok"]

\* The tree and the error after the first n turns.
Flushed(t, cmds) ==
  LET after[n \in 0 .. Len(cmds)] ==
        IF n = 0 THEN [tree |-> t, applied |-> 0, err |-> "Ok"]
        ELSE After(after[n - 1], cmds[n])
  IN  after

\* The command makes a text node.
Creates(t, cmd) ==
  /\ cmd.kind = "SetTextContent"
  /\ TargetError(t, cmd.target) = "Ok"
  /\ t.nodes[cmd.target].type # "text"

\* Every text node the flush creates fits into the bounds.
Flush ==
  LET after == Flushed(Tree, commands)
      f == after[Len(commands)]
  IN  /\ \A n \in DOMAIN commands :
           after[n - 1].err = "Ok" /\ Creates(after[n - 1].tree, commands[n])
             => T!CanAlloc(after[n - 1].tree.table)
      /\ Becomes(f.tree)
      /\ commands' = SubSeq(commands, f.applied + 1, Len(commands))

-----------------------------------------------------------------------------
BufferInit == Init /\ commands = <<>>

BufferNext ==
  \/ \E kind \in Kinds, target \in Handles, arg \in Handles \cup {Null} :
       Push(kind, target, arg)
  \/ Flush
  \/ Next /\ UNCHANGED commands

BufferSpec == BufferInit /\ [][BufferNext]_bufferVars

-----------------------------------------------------------------------------
(* Properties.                                                             *)

\* How often the pending commands refer to a node.
References(h) ==
  Cardinality({r \in (DOMAIN commands) \X {1, 2} : Refs(commands[r[1]])[r[2]] = h})

\* A node's pin count is the number of references from pending commands: every
\* pin of a push is given back once, by the flush that applies the command
\* (push, dom/dom_command_buffer.cpp:16, and flush, line 71).
PinsAreReferences ==
  \A h \in Live : table.slots[h.index].pins = References(h)

\* "Pinned: free must be refused while the command is pending"
\* (tests/test_command_buffer.cpp:92): whatever the owner of the document
\* does, a node that a pending command refers to stays alive.
QueuedNodesSurvive ==
  [][\A h \in Live : References(h) > 0 => T!Resolves(table', h)]_bufferVars
=============================================================================
