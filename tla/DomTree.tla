------------------------------- MODULE DomTree -------------------------------
(***************************************************************************)
(* Document and DOMTree (dom/document.cpp): the nodes behind the handles   *)
(* of a node table, and the structural mutations of the tree.  A mutation  *)
(* runs to completion in one call, so each is one step; it returns a       *)
(* DomError.  Tag names, attributes and text are left out: no property     *)
(* depends on them.                                                        *)
(***************************************************************************)
EXTENDS Naturals, Sequences, FiniteSets, SequencesExt

CONSTANTS
  MaxSlots, MaxFree, MaxGeneration, PinMod,  (* see NodeTable              *)
  NodeTypes,     (* the types of node scripts create, a subset of AllTypes *)
  MarksPending,  (* TRUE: the host may mark a node PendingDestroy          *)
  FreesNodes,    (* TRUE: the host may free any node but the root          *)
  RootMoves      (* TRUE: a script may pass the document itself as a child *)

AllTypes == {"element", "text", "fragment"}

ASSUME DomTreeAssumption ==
  /\ MaxSlots \in Nat \ {0} /\ MaxFree \in Nat /\ MaxGeneration \in Nat /\ PinMod \in Nat \ {0}
  /\ NodeTypes \subseteq AllTypes
  /\ MarksPending \in BOOLEAN
  /\ FreesNodes \in BOOLEAN
  /\ RootMoves \in BOOLEAN

VARIABLES
  table,  (* the document's node table                                     *)
  nodes   (* handle -> its NodeCore: type, parent and children             *)

treeVars == <<table, nodes>>

\* Every handle of the table belongs to a NodeCore of the document.
T == INSTANCE NodeTable WITH issued <- DOMAIN nodes, FreesOnce <- TRUE

Null == [index |-> 0, generation |-> 0]

\* The document root is the first node of the table.
root == [index |-> 1, generation |-> 0]

NewCore(type) == [type |-> type, parent |-> Null, children |-> <<>>]

\* The tree a mutation works on; core(h) is nodes[h] while h resolves.
Tree == [table |-> table, nodes |-> nodes]

HasCore(t, h) == h \in DOMAIN t.nodes /\ T!Resolves(t.table, h)

Kids(t, h) == IF HasCore(t, h) THEN ToSet(t.nodes[h].children) ELSE {}

-----------------------------------------------------------------------------
(* Reachability.                                                           *)

UpClosed(t, S) == \A x \in S : HasCore(t, x) => t.nodes[x].parent \in S \cup {Null}

\* The chain of parents from h upwards, through handles that resolve: the nodes
\* that no set with h avoids which has the parents of its nodes.
AncestorsOrSelf(t, h) ==
  LET chains == {S \in SUBSET DOMAIN t.nodes : h \in S \cup {Null} /\ UpClosed(t, S)}
  IN  {x \in DOMAIN t.nodes : \A S \in chains : x \in S}

IsConnected(t, h) == root \in AncestorsOrSelf(t, h)

Open(t, h) == T!StateOf(t.table, h) \in {"AliveConnected", "AliveDetached"}

DownClosed(t, S) == \A x \in S : \A y \in Kids(t, x) : Open(t, y) => y \in S

\* update_connected_state visits a subtree but does not enter a node that is
\* dead or pending.
Visited(t, h) ==
  LET trees == {S \in SUBSET DOMAIN t.nodes : (Open(t, h) => h \in S) /\ DownClosed(t, S)}
  IN  {x \in DOMAIN t.nodes : \A S \in trees : x \in S}

WithConnectedState(t, S, connected) ==
  LET visited == {x.index : x \in UNION {Visited(t, h) : h \in S}}
  IN  [t EXCEPT !.table.slots =
        [i \in DOMAIN @ |->
           IF i \in visited
           THEN [@[i] EXCEPT !.state = IF connected THEN "AliveConnected" ELSE "AliveDetached"]
           ELSE @[i]]]

-----------------------------------------------------------------------------
(* Building blocks of the mutations.                                       *)

\* A new node, registered in the table; the caller sets its state.
WithNode(t, type, state) ==
  LET h == T!NextHandle(t.table)
  IN  [table |-> T!WithState(T!WithAlloc(t.table), h, state),
       nodes |-> [g \in DOMAIN t.nodes \cup {h} |-> IF g = h THEN NewCore(type) ELSE t.nodes[g]]]

\* Where x is among some children, and the children without it: none is there twice.
Place(s, x) == CHOOSE k \in DOMAIN s : s[k] = x
Without(s, x) == IF x \in ToSet(s) THEN RemoveAt(s, Place(s, x)) ELSE s

\* Take the child out of the children of its parent, if that resolves.
Unlinked(t, c) ==
  LET p == t.nodes[c].parent
  IN  IF p # Null /\ HasCore(t, p)
      THEN [t EXCEPT !.nodes[p].children = Without(@, c)]
      ELSE t

\* Put the child, unlinked before, at a place of its new parent.
Put(t, p, c, at) ==
  [t EXCEPT !.nodes[c].parent = p, !.nodes[p].children = InsertAt(@, at, c)]

Linked(t, p, c, at) == WithConnectedState(Put(t, p, c, at), {c}, IsConnected(t, p))

\* The checks append_child and insert_before share.
InsertError(t, p, c) ==
  LET states == {T!StateOf(t.table, p), T!StateOf(t.table, c)}
  IN  CASE "Dead" \in states -> "NotFound"
        [] "PendingDestroy" \in states -> "InvalidState"
        [] OTHER -> "Ok"

Done(t) == [tree |-> t, err |-> "Ok"]
Refused(t, err) == [tree |-> t, err |-> err]

\* append_child and insert_before of a node that is not a fragment.
InsertOneUnchecked(t, p, c, ref) ==                             \* mutant
  LET u == Unlinked(t, c)
      s == u.nodes[p].children
      at == IF ref \in ToSet(s) THEN Place(s, ref) ELSE Len(s) + 1
  IN  IF InsertError(t, p, c) # "Ok" THEN Refused(t, InsertError(t, p, c))
      ELSE Done(Linked(u, p, c, at))
InsertOneStale(t, p, c, ref) ==                                 \* mutant
  LET u == Unlinked(t, c)
      s == t.nodes[p].children
      at == IF ref \in ToSet(s) THEN Place(s, ref) ELSE Len(s) + 1
  IN  IF InsertError(t, p, c) # "Ok" THEN Refused(t, InsertError(t, p, c))
      ELSE IF c \in AncestorsOrSelf(t, p) THEN Refused(t, "HierarchyRequest")
      ELSE Done(Linked(u, p, c, IF at > Len(u.nodes[p].children) + 1 THEN at - 1 ELSE at))
InsertOne(t, p, c, ref) ==
  LET u == Unlinked(t, c)
      s == u.nodes[p].children
      at == IF ref \in ToSet(s) THEN Place(s, ref) ELSE Len(s) + 1
  IN  IF InsertError(t, p, c) # "Ok" THEN Refused(t, InsertError(t, p, c))
      ELSE IF c \in AncestorsOrSelf(t, p) THEN Refused(t, "HierarchyRequest")
      ELSE Done(Linked(u, p, c, at))

-----------------------------------------------------------------------------
(* The mutations: the new tree and the DomError.                           *)

\* The tree after the insertions of some nodes, one by one; what becomes of each
\* is not looked at.
InsertAll(t, p, kids, ref) ==
  LET after[n \in 0 .. Len(kids)] ==
        IF n = 0 THEN t ELSE InsertOne(after[n - 1], p, kids[n], ref).tree
  IN  after[Len(kids)]

\* A fragment is not inserted itself: its children are.
InsertBefore(t, p, c, ref) ==
  IF InsertError(t, p, c) # "Ok" THEN Refused(t, InsertError(t, p, c))
  ELSE IF ref # Null /\ ref \notin Kids(t, p) THEN Refused(t, "NotFound")
  ELSE IF t.nodes[c].type = "fragment"
  THEN Done(InsertAll(t, p, t.nodes[c].children, ref))
  ELSE InsertOne(t, p, c, ref)

AppendChild(t, p, c) == InsertBefore(t, p, c, Null)

RemoveChild(t, p, c) ==
  IF "Dead" \in {T!StateOf(t.table, p), T!StateOf(t.table, c)} THEN Refused(t, "NotFound")
  ELSE IF c \notin Kids(t, p) THEN Refused(t, "HierarchyRequest")
  ELSE Done(WithConnectedState(
              [t EXCEPT !.nodes[p].children = Without(@, c),
                        !.nodes[c].parent = Null], {c}, FALSE))

\* The checks of set_attribute and set_text_content.
TargetError(t, h) ==
  CASE T!StateOf(t.table, h) = "Dead" -> "NotFound"
    [] T!StateOf(t.table, h) = "PendingDestroy" -> "InvalidState"
    [] OTHER -> "Ok"

SetAttribute(t, h) == [tree |-> t, err |-> TargetError(t, h)]

\* Character data keeps its own text; any other node has all its children
\* detached and gets one new text node.
ClearedStaleState(t, h) ==                                      \* mutant
  [t EXCEPT !.nodes =
     [x \in DOMAIN @ |-> IF x = h THEN [@[x] EXCEPT !.children = <<>>]
                         ELSE IF x \in Kids(t, h) /\ HasCore(t, x)
                         THEN [@[x] EXCEPT !.parent = Null] ELSE @[x]]]
Cleared(t, h) ==
  [WithConnectedState(t, Kids(t, h), FALSE) EXCEPT !.nodes =
     [x \in DOMAIN @ |-> IF x = h THEN [@[x] EXCEPT !.children = <<>>]
                         ELSE IF x \in Kids(t, h) /\ HasCore(t, x)
                         THEN [@[x] EXCEPT !.parent = Null] ELSE @[x]]]

SetTextContent(t, h) ==
  IF TargetError(t, h) # "Ok" THEN Refused(t, TargetError(t, h))
  ELSE IF t.nodes[h].type = "text" THEN Done(t)
  ELSE LET u == WithNode(Cleared(t, h), "text", "AliveDetached")
       IN  AppendChild(u, h, T!NextHandle(t.table))

-----------------------------------------------------------------------------
(* The actions.                                                            *)

Handles == DOMAIN nodes

Becomes(t) ==
  /\ table' = t.table
  /\ nodes' = t.nodes

Create(type) ==
  /\ T!CanAlloc(table)
  /\ Becomes(WithNode(Tree, type, "AliveDetached"))

Append_(p, c) ==
  /\ RootMoves \/ c # root
  /\ Becomes(AppendChild(Tree, p, c).tree)

Insert(p, c, ref) ==
  /\ RootMoves \/ c # root
  /\ ref # Null
  /\ Becomes(InsertBefore(Tree, p, c, ref).tree)

RemoveOne(p, c) == Becomes(RemoveChild(Tree, p, c).tree)

SetText(h) ==
  /\ T!CanAlloc(table)
  /\ Becomes(SetTextContent(Tree, h).tree)

\* The node table's set_state and free, called by the host.
MarkPending(h) ==
  /\ MarksPending
  /\ h # root
  /\ table' = T!WithState(table, h, "PendingDestroy")
  /\ UNCHANGED nodes

FreeNode(h) ==
  /\ FreesNodes
  /\ h # root
  /\ T!Resolves(table, h)
  /\ Len(table.free) < MaxFree
  /\ table' = T!WithFreed(table, h)
  /\ UNCHANGED nodes

Init ==
  /\ table = T!WithAlloc(T!EmptyTable)
  /\ nodes = [h \in {root} |-> NewCore("document")]

Next ==
  \/ \E type \in NodeTypes : Create(type)
  \/ \E p, c \in Handles : Append_(p, c)
  \/ \E p, c, ref \in Handles : Insert(p, c, ref)
  \/ \E p, c \in Handles : RemoveOne(p, c)
  \/ \E h \in Handles : SetText(h)
  \/ \E h \in Handles : MarkPending(h)
  \/ \E h \in Handles : FreeNode(h)

Spec == Init /\ [][Next]_treeVars

-----------------------------------------------------------------------------
(* Properties.                                                             *)

Core == [type : AllTypes \cup {"document"},
         parent : Handles \cup {Null}, children : Seq(Handles)]

\* The table is well formed, every handle has a core, and the root is alive.
TypeOK ==
  /\ T!TypeOK
  /\ nodes \in [Handles -> Core]
  /\ root \in Handles /\ T!Resolves(table, root)

Live == {h \in Handles : T!Resolves(table, h)}

\* The two directions of the tree agree: a live node is among the children of
\* the live node it calls its parent, of no other, and once (append_child,
\* dom/document.cpp:173, detaches before it attaches).
ParentsAgree ==
  /\ \A p, c \in Live : c \in Kids(Tree, p) <=> nodes[c].parent = p
  /\ \A p \in Live : IsInjective(nodes[p].children)

\* No node is its own ancestor: the walks up the parents (is_connected, the
\* cycle check) and down the children (update_connected_state) end.
Acyclic == \A h \in Live : h \notin AncestorsOrSelf(Tree, nodes[h].parent)

\* What document.cpp builds is a forest, whatever sequence of calls built it: every
\* handle that resolves has its node, and the document's root is always one of them.
IsForest == TypeOK /\ ParentsAgree /\ Acyclic

\* The cached state of a node says whether it hangs from the root, for every
\* node below which and above which nothing is pending or freed: the cache is
\* updated by every mutation that moves a subtree (dom/document.cpp:160).
StateIsConnectivity ==
  \A h \in Live :
    (\A x \in AncestorsOrSelf(Tree, h) : Open(Tree, x))
      => (T!StateOf(table, h) = "AliveConnected" <=> IsConnected(Tree, h))

\* From every tree, insert_before puts the child directly before the reference
\* node and moves nothing else (dom/document.cpp:213), unless child and
\* reference are the same node.
InsertIsExact ==
  \A p, c, ref \in Live :
    LET r == InsertBefore(Tree, p, c, ref)
        s == r.tree.nodes[p].children
    IN  r.err = "Ok" /\ nodes[c].type # "fragment" /\ c # ref
          => /\ \A h \in Handles : Without(r.tree.nodes[h].children, c) = Without(nodes[h].children, c)
             /\ \E k \in 2 .. Len(s) : s[k - 1] = c /\ s[k] = ref

=============================================================================
