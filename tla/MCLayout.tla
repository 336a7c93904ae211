------------------------------ MODULE MCLayout ------------------------------
(***************************************************************************)
(* Layout on every small container: its children come one at a time. What  *)
(* a layout should be is said of the places of the boxes.                  *)
(***************************************************************************)
EXTENDS Layout, TLC

CONSTANT MaxKids

VARIABLE subject

With(f) == f @@ [Plain EXCEPT !.styled = TRUE]
Node(id, f, kids) == [kind |-> "element", id |-> id, style |-> With(f), kids |-> kids, replaced |-> FALSE, size |-> <<0, 0>>, before |-> <<>>, after |-> <<>>, words |-> <<>>]
Text(words) == [kind |-> "text", id |-> "text", words |-> words]
Image(id, f, w, h) == [Node(id, f, <<>>) EXCEPT !.replaced = TRUE, !.size = <<w, h>>]
All(n) == <<Px(n), Px(n), Px(n), Px(n)>>
Plainly == [styled |-> TRUE]      \* no property given
High(n) == [height |-> Px(n)]
Sized(w, h) == [width |-> Px(w), height |-> Px(h)]

(***************************************************************************)
(* The containers and the children of each kind of layout.                 *)
(***************************************************************************)
Kids(kind) ==
  CASE kind = "flow" ->
         {Node("a", High(4) @@ [margin |-> <<Px(2), Px(0), Px(6), Px(0)>>], <<>>),
          Node("b", Sized(12, 2) @@ [margin |-> <<Px(4), Auto, Px(2), Auto>>], <<>>),
          Node("c", [padding |-> All(1), border |-> All(1), margin |-> All(1)], <<Text(<<3, 5>>)>>),
          Node("d", High(2) @@ [minWidth |-> Px(10), maxWidth |-> Percent(25)], <<>>),
          Node("e", High(2) @@ [position |-> "relative", top |-> Px(3), left |-> Px(2)], <<>>),
          Node("f", High(6) @@ [width |-> Percent(50), sizing |-> "border", padding |-> All(2)], <<>>),
          Image("g", Plainly, 8, 4),
          Node("h", Plainly, <<Node("h1", High(2) @@ [margin |-> All(2)], <<>>), Node("h2", High(2) @@ [margin |-> All(1)], <<>>)>>)}
    [] kind = "float" ->
         {Node("l", Sized(8, 4) @@ [float |-> "left"], <<>>), Node("k", Sized(16, 2) @@ [float |-> "left", margin |-> All(1)], <<>>),
          Node("r", Sized(8, 6) @@ [float |-> "right"], <<>>), Node("w", [float |-> "right"], <<Text(<<2, 3>>)>>),
          Text(<<6, 7, 8, 6, 5>>), Node("c", High(2) @@ [clear |-> "left"], <<>>), Node("d", High(2) @@ [clear |-> "both"], <<>>),
          Node("o", [overflow |-> "hidden"], <<Node("in", Sized(4, 3) @@ [float |-> "left"], <<>>), Text(<<2>>)>>),
          Node("n", Plainly, <<Text(<<6, 6, 6>>)>>)}
    [] kind = "inline" ->
         {Text(<<3, 4>>), Text(<<10>>), Text(<<1>>), Node("i", [display |-> "inline"], <<Text(<<2, 6>>)>>),
          Node("s", Sized(6, 3) @@ [display |-> "inline-block", margin |-> All(1)], <<>>),
          Node("t", [display |-> "inline-block", padding |-> All(1)], <<Text(<<2, 2>>)>>),
          [Node("u", [display |-> "inline"], <<>>) EXCEPT !.before = <<[style |-> With([display |-> "inline"]), words |-> <<2>>]>>]}
    [] kind = "positioned" ->
         {Node("a", Sized(4, 2) @@ [position |-> "absolute", left |-> Px(3), top |-> Percent(50)], <<>>),
          Node("b", Sized(4, 2) @@ [position |-> "absolute", right |-> Px(1), bottom |-> Px(2), padding |-> All(1)], <<>>),
          Node("c", [position |-> "absolute"], <<Text(<<2, 3>>)>>),
          Node("d", Sized(4, 2) @@ [position |-> "fixed", right |-> Px(0), top |-> Px(0)], <<>>),
          Node("e", Plainly, <<Node("e1", Sized(2, 2) @@ [position |-> "absolute", left |-> Px(1), bottom |-> Px(0)], <<>>), Text(<<4>>)>>),
          Node("f", High(3), <<>>), Text(<<5, 6>>)}
    [] kind \in {"flex", "wrap"} ->
         {Node("a", Sized(12, 4), <<>>), Node("b", [grow |-> 1], <<Text(<<4, 2>>)>>), Node("c", [grow |-> 2, basis |-> Px(6), height |-> Px(2)], <<>>),
          Node("d", [shrink |-> 0, margin |-> All(1)], <<Text(<<6, 6, 6>>)>>), Node("e", Plainly, <<Text(<<5, 8, 7>>)>>),
          Node("f", [display |-> "flex", align |-> "center"], <<Node("f1", Sized(4, 6), <<>>), Node("f2", Sized(2, 2), <<>>)>>),
          Node("p", Sized(4, 2) @@ [position |-> "absolute"], <<>>)}
    [] kind = "grid" ->
         {Node("a", High(4), <<>>), Node("b", [margin |-> All(1), padding |-> All(1)], <<Text(<<4, 5>>)>>), Node("c", High(2) @@ [display |-> "flex"], <<>>)}
    [] kind = "table" ->
         LET Cell(id, f, words) == Node(id, [display |-> "cell"] @@ f, <<Text(words)>>)
         IN  {Node("r", [display |-> "row"], <<Cell("a", Plainly, <<4, 6>>), Cell("b", [padding |-> All(1)], <<3>>)>>),
              Node("s", [display |-> "row"], <<Cell("c", [width |-> Px(10)], <<2>>), Cell("d", Plainly, <<7, 7, 7>>), Cell("e", Plainly, <<1>>)>>),
              Node("g", [display |-> "group"], <<Node("u", [display |-> "row"], <<Cell("f", [border |-> All(1)], <<9, 9>>)>>)>>)}

Justifies == {"start", "end", "center", "between", "around", "evenly"}
Aligns == {"stretch", "start", "end", "center"}
FlexStyles ==
  {[display |-> "flex", direction |-> d, justify |-> j, align |-> "stretch", gap |-> g, width |-> Px(36), height |-> h] :
     d \in {"row", "column"}, j \in Justifies, g \in {0, 2}, h \in {Auto, Px(24)}}
  \cup {[display |-> "flex", direction |-> d, align |-> a, width |-> Px(24), height |-> Px(12)] : d \in {"row", "column"}, a \in Aligns}
Containers(kind) ==
  CASE kind \in {"flow", "float"} -> {[width |-> Px(40)], [width |-> Px(32), padding |-> All(2), margin |-> All(1)]}
    [] kind = "inline" -> {[width |-> Px(9)], [width |-> Px(16)]}
    [] kind = "positioned" -> {Sized(30, 20) @@ [position |-> "relative", margin |-> All(2)], Sized(30, 20), [width |-> Px(20), position |-> "relative"]}
    [] kind = "flex" -> FlexStyles
    [] kind = "wrap" -> {[display |-> "flex", wrap |-> TRUE, gap |-> g, width |-> Px(24)] : g \in {0, 2}}
    [] kind = "grid" -> {[display |-> "grid", gap |-> g, width |-> Px(42), columns |-> c] : g \in {0, 2}, c \in {<<Px(10), Fr(1)>>, <<Fr(1), Fr(3)>>, <<Auto, Percent(50)>>}}
    [] kind = "table" -> {[display |-> "table"], [display |-> "table", width |-> Px(20)], [display |-> "table", width |-> Px(58)]}
KindsOfLayout == {"flow", "float", "inline", "positioned", "flex", "wrap", "grid", "table"}

Written(container, kids) == <<Node("container", container, kids)>>
Laid(container, kids) == LayoutDocument(Written(container, kids))

(***************************************************************************)
(* The places of boxes.                                                    *)
(***************************************************************************)
OuterLeft(b) == b.x - b.m[4] - b.b[4] - b.p[4]
OuterTop(b) == b.y - b.m[1] - b.b[1] - b.p[1]
OuterRight(b) == OuterLeft(b) + OuterWidth(b)
OuterBottom(b) == OuterTop(b) + OuterHeight(b)
Right(b) == b.x + b.w
Bottom(b) == b.y + b.h
Disjoint(a, b) ==
  \/ OuterRight(a) <= OuterLeft(b) \/ OuterRight(b) <= OuterLeft(a) \/ OuterBottom(a) <= OuterTop(b) \/ OuterBottom(b) <= OuterTop(a)
\* Within n of each other, for quotients that were rounded.
Near(a, b, n) == a - b <= n /\ b - a <= n
RECURSIVE Preorder(_)
Preorder(box) == <<box>> \o FlattenSeq([k \in DOMAIN box.kids |-> Preorder(box.kids[k])])
Following(kids) == {k \in DOMAIN kids : k + 1 \in DOMAIN kids}

\* Blocks: below one another with their margins collapsed, as wide as the container or as they say, centred if they ask for it.
Unmoved(b) == IF b.s.position = "relative" THEN OuterTop(b) - Resolve(b.s.top, 0) ELSE OuterTop(b)
FlowHolds(c) ==
  LET k == c.kids
  IN  /\ k # <<>> => Unmoved(k[1]) = c.y
      /\ \A j \in Following(k) :
           Unmoved(k[j + 1]) = Unmoved(k[j]) + OuterHeight(k[j]) - (CHOOSE m \in {k[j].m[3], k[j + 1].m[1]} : m <= k[j].m[3] /\ m <= k[j + 1].m[1])
      /\ c.h = IF k = <<>> THEN 0 ELSE Unmoved(Last(k)) + OuterHeight(Last(k)) - c.y
      /\ \A j \in DOMAIN k :
           LET b == k[j]
           IN  CASE b.node = "d" -> b.w = (IF c.w >= 40 THEN c.w \div 4 ELSE 10)
                 [] b.node = "f" -> BorderWidth(b) = c.w \div 2
                 [] b.node = "g" -> b.w = 8 /\ b.h = 4
                 [] b.node = "b" -> b.w = 12 /\ Near(b.x - c.x, Right(c) - Right(b), 1)
                 [] b.node = "e" -> OuterLeft(b) = c.x + 2 /\ b.w = c.w
                 [] OTHER -> OuterWidth(b) = c.w /\ OuterLeft(b) = c.x

\* Floats: inside, apart from one another, not under a line that starts beside them; what clears is below, and the container is around them.
FloatHolds(c) ==
  LET k == c.kids
      floats == {j \in DOMAIN k : k[j].s.float # "none"}
      lines(j) == {k[j].lines[n] : n \in DOMAIN k[j].lines}
  IN  /\ \A j \in floats : OuterLeft(k[j]) >= c.x /\ OuterRight(k[j]) <= Right(c) /\ OuterBottom(k[j]) <= Bottom(c)
      /\ \A i, j \in floats : i < j /\ OuterTop(k[j]) >= OuterTop(k[i]) => Disjoint(k[i], k[j])
      /\ \A i \in floats, j \in DOMAIN k :
           i < j /\ k[j].type = "text" /\ OuterTop(k[i]) <= k[j].lines[1].y =>
             \A l \in lines(j) : OuterBottom(k[i]) <= l.y \/ OuterRight(k[i]) <= l.x \/ OuterLeft(k[i]) >= l.x + l.w
      /\ \A i \in floats, j \in DOMAIN k : i < j /\ k[j].s.clear \in {"both", k[i].s.float} => OuterTop(k[j]) >= OuterBottom(k[i])
      /\ \A j \in DOMAIN k : k[j].node = "o" /\ Len(k[j].kids) = 2 =>
           OuterLeft(k[j].kids[1]) = k[j].x /\ k[j].h = 3 /\ k[j].kids[2].lines[1].x = OuterRight(k[j].kids[1])

\* Atoms of lines: the pieces of texts and inline blocks, with their first unit that cannot be broken.
AtomsOf(b) ==
  IF b.type = "text" THEN [n \in DOMAIN b.lines |-> [x |-> b.lines[n].x, y |-> b.lines[n].y, w |-> b.lines[n].w, h |-> 2, first |-> b.lines[n].words[1],
                                                     single |-> Len(b.lines[n].words) = 1, space |-> 1]]
  ELSE IF b.type = "inline-block" THEN <<[x |-> OuterLeft(b), y |-> OuterTop(b), w |-> OuterWidth(b), h |-> OuterHeight(b), first |-> OuterWidth(b), single |-> TRUE, space |-> 0]>>
  ELSE <<>>
RECURSIVE Atoms(_)
Atoms(b) == IF b.type = "inline" \/ b.node = "container" THEN FlattenSeq([k \in DOMAIN b.kids |-> Atoms(b.kids[k])]) ELSE AtomsOf(b)
WordsOf(b) == FlattenSeq([n \in DOMAIN b.lines |-> b.lines[n].words])
InlineHolds(c) ==
  LET a == Atoms(c)
      lineOf(n) == {j \in DOMAIN a : a[j].y = a[n].y}
      below(n) == a[n].y + Max({a[j].h : j \in lineOf(n)})
  IN  /\ \A b \in ToSet(Preorder(c)) : b.type = "text" => WordsOf(b) = b.words
      /\ a # <<>> => a[1].x = c.x /\ a[1].y = c.y /\ Bottom(c) = below(Len(a))
      /\ \A n \in DOMAIN a : a[n].x + a[n].w <= Right(c) \/ (a[n].single /\ a[n].x = c.x)
      /\ \A n \in Following(a) :
           LET end == a[n].x + a[n].w + a[n].space
           IN  IF a[n + 1].y = a[n].y THEN a[n + 1].x = end
               ELSE a[n + 1].x = c.x /\ a[n + 1].y = below(n) /\ end + a[n + 1].first > Right(c)

\* Positioned boxes: at their insets from the nearest positioned box, the viewport or their place; the others do not notice.
InFlow(kids) == SelectSeq(kids, LAMBDA n : n.kind = "text" \/ n.style.position = "static")
Placed(box) == [box EXCEPT !.kids = SelectSeq(@, LAMBDA b : ~OutOfFlow(b))]
PositionedHolds(root, container, kids) ==
  LET c  == root.kids[1]
      cb == IF c.s.position = "relative" THEN c ELSE [root EXCEPT !.h = ViewportHeight]
      known == cb.node = "root" \/ Fixed(c.s.height)
  IN  /\ Placed(c) = Placed(Laid(container, InFlow(kids)).kids[1])
      /\ \A b \in ToSet(Preorder(c)) :
           CASE b.node = "a" -> OuterLeft(b) = cb.x + 3 /\ (known => OuterTop(b) = cb.y + cb.h \div 2)
             [] b.node = "b" -> OuterRight(b) = Right(cb) - 1 /\ (known => OuterBottom(b) = Bottom(cb) - 2)
             [] b.node = "c" -> OuterLeft(b) = c.x /\ b.w = 6 /\ OuterTop(b) >= c.y
             [] b.node = "d" -> OuterRight(b) = ViewportWidth /\ OuterTop(b) = 0
             [] b.node = "e1" -> OuterLeft(b) = cb.x + 1 /\ (known => OuterBottom(b) = Bottom(cb))
             [] OTHER -> TRUE

\* Flex items: in order and evenly spaced along the main axis, in as much room as there is.
FlexHolds(c) ==
  LET row   == IsRow(c)
      k     == SelectSeq(c.kids, LAMBDA b : ~OutOfFlow(b))
      n     == Len(k)
      from(b) == IF row THEN OuterLeft(b) ELSE OuterTop(b)
      to(b)   == IF row THEN OuterRight(b) ELSE OuterBottom(b)
      start == from(k[1]) - (IF row THEN c.x ELSE c.y)
      room  == IF row THEN c.w ELSE c.h
      end   == room - (to(k[n]) - (IF row THEN c.x ELSE c.y))
      gap   == IF n > 1 THEN from(k[2]) - to(k[1]) ELSE c.s.gap
      used  == SumOf([j \in 1..n |-> to(k[j]) - from(k[j])]) + c.s.gap * (n - 1)
      free  == room - used
      \* an item that could not be narrower
      stuck(b) == Fixed(b.s.width) \/ Fixed(b.s.basis) \/ b.s.shrink = 0 \/ b.type = "flex" \/ b.w <= MaxOf0(b.kids[1].words)
      content(b) == b.type # "flex" /\ ~Fixed(b.s.width) /\ ~Fixed(b.s.basis)
      grow  == \E j \in 1..n : k[j].s.grow > 0
      definite == row \/ Fixed(c.s.height)
      spread == CASE c.s.justify = "end"     -> Near(end, 0, n) /\ Near(gap, c.s.gap, n)
                  [] c.s.justify = "center"  -> Near(start, end, n) /\ Near(gap, c.s.gap, n)
                  [] c.s.justify = "between" -> start = 0 /\ (n > 1 => Near(end, 0, n))
                  [] c.s.justify = "around"  -> Near(start, end, n) /\ (n > 1 => Near(2 * start, gap - c.s.gap, n))
                  [] c.s.justify = "evenly"  -> Near(start, end, n) /\ (n > 1 => Near(start, gap - c.s.gap, n))
                  [] OTHER -> start = 0 /\ Near(gap, c.s.gap, n)
      across(b) == IF row THEN [from |-> OuterTop(b) - c.y, to |-> Bottom(c) - OuterBottom(b), auto |-> IsAuto(b.s.height) /\ b.type # "flex"]
                   ELSE [from |-> OuterLeft(b) - c.x, to |-> Right(c) - OuterRight(b), auto |-> IsAuto(b.s.width)]
  IN  n > 0 =>
        /\ \A j \in Following(k) : from(k[j + 1]) - to(k[j]) = gap
        /\ definite /\ free >= 0 => spread
        /\ definite /\ grow /\ free > 0 => free <= n
        /\ row => \A j \in 1..n : content(k[j]) => k[j].w >= MaxOf0(k[j].kids[1].words)
        /\ row /\ free < 0 => (\A j \in 1..n : stuck(k[j])) \/ -free <= n
        /\ \A j \in 1..n :
             CASE c.s.align = "end"    -> across(k[j]).to = 0
               [] c.s.align = "center" -> Near(across(k[j]).from, across(k[j]).to, 1)
               [] c.s.align = "stretch" /\ across(k[j]).auto /\ (row => c.h >= 2) -> across(k[j]).from = 0 /\ across(k[j]).to = 0
               [] OTHER -> across(k[j]).from = 0
WrapHolds(c) ==
  LET k == SelectSeq(c.kids, LAMBDA b : ~OutOfFlow(b))
      lineOf(j) == {i \in DOMAIN k : OuterTop(k[i]) = OuterTop(k[j])}
  IN  /\ \A j \in Following(k) :
           IF OuterTop(k[j + 1]) = OuterTop(k[j]) THEN OuterLeft(k[j + 1]) = OuterRight(k[j]) + c.s.gap
           ELSE /\ OuterLeft(k[j + 1]) = c.x
                /\ OuterTop(k[j + 1]) = Max({OuterBottom(k[i]) : i \in lineOf(j)}) + c.s.gap
                /\ OuterRight(k[j]) + c.s.gap + OuterWidth(k[j + 1]) > Right(c)
      /\ k # <<>> => Bottom(c) = Max({OuterBottom(k[j]) : j \in DOMAIN k})

\* Grids and tables: columns in line, rows below one another, all the room of fractions given out.
GridHolds(c) ==
  LET n == Len(c.s.columns)
      k == c.kids
      row(j) == {i \in DOMAIN k : (i - 1) \div n = (j - 1) \div n}
  IN  /\ \A i, j \in DOMAIN k : (i - j) % n = 0 => OuterLeft(k[i]) = OuterLeft(k[j]) /\ OuterWidth(k[i]) = OuterWidth(k[j])
      /\ \A j \in Following(k) : IF j % n = 0 THEN OuterTop(k[j + 1]) = Max({OuterBottom(k[i]) : i \in row(j)}) + c.s.gap
                                 ELSE OuterTop(k[j + 1]) = OuterTop(k[j]) /\ OuterLeft(k[j + 1]) = OuterRight(k[j]) + c.s.gap
      /\ Len(k) >= n => OuterLeft(k[1]) = c.x /\ Near(OuterRight(k[n]), Right(c), 1)
      /\ k # <<>> => Bottom(c) = Max({OuterBottom(k[i]) : i \in row(Len(k))})
TableHolds(c) ==
  LET r == RowsOf(c.kids)
      narrow == c.s.width = Px(20)
  IN  /\ \A i, j \in DOMAIN r : \A n \in DOMAIN r[i].kids :
           n \in DOMAIN r[j].kids => OuterLeft(r[i].kids[n]) = OuterLeft(r[j].kids[n]) /\ OuterWidth(r[i].kids[n]) = OuterWidth(r[j].kids[n])
      /\ \A i \in DOMAIN r :
           /\ r[i].y = (IF i = 1 THEN c.y ELSE Bottom(r[i - 1])) /\ r[i].x = c.x /\ r[i].w = c.w
           /\ \A n \in DOMAIN r[i].kids :
                /\ OuterTop(r[i].kids[n]) = r[i].y /\ OuterBottom(r[i].kids[n]) = Bottom(r[i])
                /\ OuterLeft(r[i].kids[n]) = IF n = 1 THEN c.x ELSE OuterRight(r[i].kids[n - 1])
                /\ r[i].kids[n].w >= MaxOf0(r[i].kids[n].kids[1].words)
           /\ ~narrow => OuterRight(Last(r[i].kids)) <= Right(c)
      /\ r # <<>> => Bottom(c) = Bottom(Last(r))

Holds(kind, container, kids) ==
  LET root == Laid(container, kids)
      c == root.kids[1]
  IN  CASE kind = "flow" -> FlowHolds(c) [] kind = "float" -> FloatHolds(c) [] kind = "inline" -> InlineHolds(c)
        [] kind = "positioned" -> PositionedHolds(root, container, kids) [] kind = "flex" -> FlexHolds(c) [] kind = "wrap" -> WrapHolds(c)
        [] kind = "grid" -> GridHolds(c) [] kind = "table" -> TableHolds(c)

\* The box drawn last of those around a point.
Hits(root, x, y) ==
  LET p == Preorder(root)
      hit == {n \in DOMAIN p : p[n].s.styled /\ x >= OuterLeft(p[n]) + p[n].m[4] /\ x < OuterRight(p[n]) - p[n].m[2]
                               /\ y >= OuterTop(p[n]) + p[n].m[1] /\ y < OuterBottom(p[n]) - p[n].m[3]}
  IN  HitTest(root, x, y) = IF hit = {} THEN <<>> ELSE <<p[Max(hit)].node>>

\* Laying out the contents of a finished box again. Not where a box is placed against a height that is not known yet.
Settled(grown) == grown.kind # "float" /\ (grown.kind = "positioned" => "height" \in DOMAIN grown.container)
NoFloats == [list |-> <<>>, base |-> 0]
Again(box, up) ==
  CASE box.type \in {"text", "inline"} -> box
    [] up[1].type = "flex" /\ ~OutOfFlow(box) -> Refilled(box, up, NoFloats)
    [] box.type \in {"inline-block", "cell", "row", "group"} -> IF box.type \in {"row", "group"} THEN box ELSE Children(box, up, NoFloats).box
    [] OTHER -> Contents(box, up, NoFloats)
RECURSIVE Stable(_, _)
Stable(box, up) ==
  /\ up # <<>> => Again(box, up) = box
  /\ \A k \in DOMAIN box.kids : Stable(box.kids[k], <<box>> \o up)

(***************************************************************************)
(* The run.                                                                *)
(***************************************************************************)
LayoutBegin == /\ subject.of = "nothing"
               /\ \E kind \in KindsOfLayout : \E c \in Containers(kind) :
                    subject' = [of |-> "layout", kind |-> kind, container |-> c, kids |-> <<>>]
LayoutGrow == /\ subject.of = "layout"
              /\ Len(subject.kids) < MaxKids
              /\ \E n \in Kids(subject.kind) : subject' = [subject EXCEPT !.kids = Append(@, n)]
LayoutNext == LayoutBegin \/ LayoutGrow

(***************************************************************************)
(* Boxes are where their kind of layout says: blocks stack with collapsed  *)
(* margins; floats stay inside and apart, lines keep clear of them; words  *)
(* break only when they must; positioned boxes keep their insets and move  *)
(* no one; flex, grid and table items line up and share the room; a point  *)
(* hits the box drawn last (layout_children, layout_inline_run,            *)
(* layout_flex, layout_grid, layout_table, hit_test).                      *)
(***************************************************************************)
BoxesAreInPlace(grown) ==
  grown.of = "layout" =>
    /\ Holds(grown.kind, grown.container, grown.kids)
    /\ LET root == Laid(grown.container, grown.kids) IN \A x, y \in {0, 7, 20, 41} : Hits(root, x, y)

(***************************************************************************)
(* Contents follow their box: a box that was measured in one place and     *)
(* moved to another has its children where laying them out there would     *)
(* put them (the second pass of layout_inline_run, layout_flex and of      *)
(* positioned boxes).                                                      *)
(***************************************************************************)
ContentsFollowTheirBox(grown) ==
  grown.of = "layout" /\ Settled(grown) => Stable(Laid(grown.container, grown.kids), <<>>)
=============================================================================
