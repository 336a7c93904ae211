------------------------------- MODULE Layout -------------------------------
(***************************************************************************)
(* The layout engine (layout/layout_engine.cpp): boxes for a tree of       *)
(* nodes, and their places in block, inline, flex, grid and table layout,  *)
(* with floats and positioned boxes.                                       *)
(*                                                                         *)
(* Lengths are integers; quotients round down. A word is its number of     *)
(* characters. A box is a record: the C++ code changes it in place, here   *)
(* each operator returns it. "up" holds the boxes around, the innermost    *)
(* first, as they are at that time; floats are [list, base], which a box   *)
(* passes on to its children only.                                         *)
(***************************************************************************)
EXTENDS Integers, Sequences, SequencesExt, FiniteSetsExt

CONSTANTS ViewportWidth, ViewportHeight

Auto == [k |-> "auto", n |-> 0]
Px(n) == [k |-> "px", n |-> n]
Percent(n) == [k |-> "percent", n |-> n]
IsAuto(l) == l.k = "auto"
IsPercent(l) == l.k = "percent"
Resolve(l, of) == IF IsPercent(l) THEN (l.n * of) \div 100 ELSE l.n

Larger(a, b) == IF a > b THEN a ELSE b
Smaller(a, b) == IF a < b THEN a ELSE b
AtLeast0(n) == Larger(0, n)
SumOf(s) == FoldLeft(LAMBDA a, b : a + b, 0, s)
MaxOf0(s) == FoldLeft(Larger, 0, s)

NoEdges == <<0, 0, 0, 0>>
Sides == 1..4          \* top, right, bottom, left
PlainEdges == <<Px(0), Px(0), Px(0), Px(0)>>
\* The style of a text and of the root.
Plain == [styled |-> FALSE, display |-> "block", position |-> "static", float |-> "none", clear |-> "none", overflow |-> "visible",
          width |-> Auto, height |-> Auto, minWidth |-> Auto, maxWidth |-> Auto, minHeight |-> Auto, maxHeight |-> Auto,
          margin |-> PlainEdges, padding |-> PlainEdges, border |-> PlainEdges, left |-> Auto, right |-> Auto, top |-> Auto, bottom |-> Auto,
          sizing |-> "content", ratio |-> 0, direction |-> "row", wrap |-> FALSE, align |-> "stretch", justify |-> "start",
          grow |-> 0, shrink |-> 1, basis |-> Auto, gap |-> 0, columns |-> <<>>, font |-> 2, line |-> 1]

(***************************************************************************)
(* build_box. A node is [kind, style, words, kids, replaced, size,         *)
(* before, after].                                                         *)
(***************************************************************************)
Inlines == {"inline", "text", "inline-block"}
BoxType(display) == CASE display = "inline-flex" -> "flex" [] display = "inline-grid" -> "grid" [] OTHER -> display
NewBox(node, type, style) ==
  [node |-> node, type |-> type, s |-> style, words |-> <<>>, lines |-> <<>>, kids |-> <<>>, x |-> 0, y |-> 0, w |-> 0, h |-> 0,
   replaced |-> FALSE, size |-> <<0, 0>>, m |-> NoEdges, p |-> NoEdges, b |-> NoEdges]
TextBox(node, words) == [NewBox(node, "text", Plain) EXCEPT !.words = words]

\* The box of ::before or ::after, from its style and its content.
Generated(g) ==
  IF g.style.display = "none" THEN <<>>
  ELSE <<[NewBox("generated", BoxType(g.style.display), g.style) EXCEPT
            !.kids = IF g.words = <<>> THEN <<>> ELSE <<TextBox("generated", g.words)>>]>>
\* An inline box with a child that is not inline becomes a block.
Blockified(box) == IF box.type \in {"inline", "inline-block"} /\ (\E k \in DOMAIN box.kids : box.kids[k].type \notin Inlines)
                   THEN [box EXCEPT !.type = "block"] ELSE box
RECURSIVE Build(_)
Build(n) ==
  IF n.kind = "text" THEN IF n.words = <<>> THEN <<>> ELSE <<TextBox(n.id, n.words)>>
  ELSE IF n.kind # "element" \/ n.style.display = "none" THEN <<>>
  ELSE LET kids == FlattenSeq([k \in DOMAIN n.before |-> Generated(n.before[k])])
                   \o FlattenSeq([k \in DOMAIN n.kids |-> Build(n.kids[k])])
                   \o FlattenSeq([k \in DOMAIN n.after |-> Generated(n.after[k])])
       IN  <<Blockified([NewBox(n.id, BoxType(n.style.display), n.style) EXCEPT
                           !.replaced = n.replaced, !.size = n.size, !.kids = IF n.replaced THEN <<>> ELSE kids])>>

(***************************************************************************)
(* Edges, widths and heights.                                              *)
(***************************************************************************)
ResolveEdges(box, of) ==
  [box EXCEPT !.m = [k \in Sides |-> Resolve(box.s.margin[k], of)], !.p = [k \in Sides |-> Resolve(box.s.padding[k], of)],
              !.b = [k \in Sides |-> Resolve(box.s.border[k], of)]]
BorderPad(box, j, k) == box.b[j] + box.b[k] + box.p[j] + box.p[k]
Edges(box) == box.m[2] + box.m[4] + BorderPad(box, 2, 4)
OuterWidth(box) == box.w + Edges(box)
OuterHeight(box) == box.h + box.m[1] + box.m[3] + BorderPad(box, 1, 3)
BorderWidth(box) == box.w + BorderPad(box, 2, 4)
BorderHeight(box) == box.h + BorderPad(box, 1, 3)
At(box, x, y) == [box EXCEPT !.x = x + box.m[4] + box.b[4] + box.p[4], !.y = y + box.m[1] + box.b[1] + box.p[1]]

Ratio(box) == IF box.s.ratio > 0 THEN box.s.ratio ELSE IF box.size[1] > 0 /\ box.size[2] > 0 THEN box.size[1] \div box.size[2] ELSE 0
Fixed(l) == l.k = "px"
\* Clamped to a minimum that wins over a maximum.
Clamped(n, min, max, of) ==
  LET low == IF IsAuto(max) THEN n ELSE Smaller(n, AtLeast0(Resolve(max, of)))
  IN  AtLeast0(IF IsAuto(min) THEN low ELSE Larger(low, Resolve(min, of)))

\* compute_content_width: the box with its width and, when both are auto, its margins.
WithContentWidth(box, avail) ==
  LET s == box.s
      given == IF ~IsAuto(s.width) THEN Resolve(s.width, avail) - (IF s.sizing = "border" THEN BorderPad(box, 2, 4) ELSE 0)
               ELSE IF box.replaced /\ box.size[1] > 0 THEN box.size[1] ELSE AtLeast0(avail - Edges(box))
      w == Clamped(IF IsAuto(s.width) /\ Ratio(box) > 0 /\ Fixed(s.height) THEN s.height.n * Ratio(box) ELSE given, s.minWidth, s.maxWidth, avail)
      side == AtLeast0((avail - BorderPad(box, 2, 4) - w) \div 2)
  IN  IF IsAuto(s.margin[2]) /\ IsAuto(s.margin[4]) THEN [box EXCEPT !.w = w, !.m[2] = side, !.m[4] = side] ELSE [box EXCEPT !.w = w]

\* compute_height. The parent's height is what it is by now; the root has no style.
Height(box, content, up) ==
  LET s == box.s
      p == up[1]
      Sized(b, n) == n - (IF b.s.sizing = "border" THEN BorderPad(b, 1, 3) ELSE 0)
      around == IF Fixed(p.s.height) THEN Sized(p, p.s.height.n) ELSE IF p.h > 0 /\ IsPercent(p.s.height) THEN p.h ELSE 0
      h == CASE Fixed(s.height) -> Sized(box, s.height.n)
             [] IsPercent(s.height) -> IF around > 0 THEN Sized(box, Resolve(s.height, around)) ELSE content
             [] OTHER -> IF Ratio(box) > 0 /\ box.w > 0 THEN box.w \div Ratio(box)
                         ELSE IF box.replaced /\ box.size[2] > 0 THEN box.size[2] ELSE content
  IN  Clamped(h, IF IsPercent(s.minHeight) THEN Auto ELSE s.minHeight, IF IsPercent(s.maxHeight) THEN Auto ELSE s.maxHeight, 0)

(***************************************************************************)
(* intrinsic_widths: the widest word and all of a subtree in one line.     *)
(* Edges that are not resolved yet count as what they were.                *)
(***************************************************************************)
Advance(font) == font \div 2
RECURSIVE Intrinsic(_, _)
Intrinsic(box, font) ==
  IF box.type = "text" THEN [min |-> MaxOf0(box.words) * Advance(font), max |-> (SumOf(box.words) + Len(box.words) - 1) * Advance(font)]
  ELSE LET kids  == [k \in DOMAIN box.kids |-> Intrinsic(box.kids[k], box.s.font)]
           image == IF Fixed(box.s.height) /\ Ratio(box) > 0 THEN box.s.height.n * Ratio(box) ELSE box.size[1]
           max   == FoldLeftDomain(LAMBDA a, k : IF box.kids[k].type \in Inlines THEN a + kids[k].max ELSE Larger(a, kids[k].max), 0, kids)
           Both(n) == [min |-> n + Edges(box), max |-> n + Edges(box)]
       IN  IF Fixed(box.s.width) THEN Both(box.s.width.n)
           ELSE IF box.replaced THEN Both(image)
           ELSE [min |-> MaxOf0([k \in DOMAIN kids |-> kids[k].min]) + Edges(box), max |-> max + Edges(box)]
\* As wide as the content, within limit; a maximum counts where withMax.
ShrinkToFit(box, limit, font, withMax) ==
  LET w == AtLeast0(Smaller(limit - Edges(box), Intrinsic(box, font).max - Edges(box)))
  IN  [box EXCEPT !.w = IF withMax /\ ~IsAuto(box.s.maxWidth) THEN Smaller(w, AtLeast0(Resolve(box.s.maxWidth, limit))) ELSE w]

RECURSIVE Children(_, _, _)
RECURSIVE Flow(_, _, _, _)
RECURSIVE Flex(_, _, _)
RECURSIVE Grid(_, _, _)
RECURSIVE Table(_, _, _)

Content(box, up, floats) == LET r == Children(box, up, floats) IN [r.box EXCEPT !.h = Height(r.box, r.h, up)]
\* layout_box_contents
Contents(box, up, floats) ==
  CASE box.type = "flex"  -> Flex([box EXCEPT !.h = Height(box, 0, up)], up, floats)
    [] box.type = "table" -> Table(box, up, floats)
    [] box.type = "grid"  -> Grid(box, up, floats)
    [] OTHER -> Content(box, up, floats)

(***************************************************************************)
(* layout_inline_run: f = [x, top, max] is where the line is and how high. *)
(***************************************************************************)
Line(f, e) == [x |-> e.x, top |-> f.top + (IF f.max > 0 THEN f.max ELSE e.lineHeight), max |-> 0]
Wraps(f, w, e) == f.x + w > e.x + e.avail /\ f.x > e.x
Flushed(t, space) ==
  IF t.line = <<>> THEN t
  ELSE [t EXCEPT !.line = <<>>, !.lines = Append(@, [words |-> t.line, x |-> t.x, y |-> t.y, w |-> AtLeast0(t.f.x - space - t.x)])]
Word(t, word, e, font, high) ==
  LET w == word * Advance(font)
      u == IF ~Wraps(t.f, w, e) THEN t
           ELSE LET n == Line(t.f, e) IN [Flushed(t, Advance(font)) EXCEPT !.f = n, !.x = n.x, !.y = n.top]
  IN  [u EXCEPT !.line = Append(@, word), !.f = [@ EXCEPT !.x = @ + w + Advance(font), !.max = Larger(@, high)]]
FlowText(item, f, e) ==
  LET high == e.font * e.line
      t == FoldLeft(LAMBDA a, word : Word(a, word, e, e.font, high), [f |-> f, line |-> <<>>, lines |-> <<>>, x |-> f.x, y |-> f.top], item.words)
      g == t.f
  IN  [f |-> g, item |-> [item EXCEPT !.x = f.x, !.y = f.top, !.lines = Flushed(t, Advance(e.font)).lines, !.w = AtLeast0(g.x - f.x),
                                      !.h = g.top + (IF g.max > 0 THEN g.max ELSE high) - f.top]]
FlowInline(item, f, e, up) ==
  LET mine == [e EXCEPT !.font = item.s.font, !.line = item.s.line]
      at   == [item EXCEPT !.x = f.x, !.y = f.top]
      r == FoldLeft(LAMBDA a, kid : LET k == Flow(kid, a.f, mine, <<at>> \o up) IN [f |-> k.f, kids |-> Append(a.kids, k.item)],
                    [f |-> f, kids |-> <<>>], item.kids)
  IN  [f |-> r.f, item |-> [at EXCEPT !.kids = r.kids, !.w = AtLeast0(r.f.x - f.x), !.h = IF r.f.max > 0 THEN r.f.max ELSE item.s.font * item.s.line]]

\* Where its box was when it was measured.
ChildrenStay(item, up, floats) == item     \* mutant
ChildrenFollow(item, up, floats) == Children(item, up, floats).box
FlowInlineBlock(item, f, e, up) ==
  LET c == ResolveEdges(item, e.avail)
      sized == IF IsAuto(c.s.width) THEN ShrinkToFit(c, e.avail, up[1].s.font, TRUE) ELSE WithContentWidth(c, e.avail)
      measured == Content(sized, up, e.floats)
      g == IF Wraps(f, OuterWidth(measured), e) THEN Line(f, e) ELSE f
  IN  [f |-> [g EXCEPT !.x = @ + OuterWidth(measured), !.max = Larger(@, OuterHeight(measured))],
       item |-> ChildrenFollow(At(measured, g.x, g.top), up, e.floats)]
Flow(item, f, e, up) ==
  CASE item.type = "text" -> FlowText(item, f, e) [] item.type = "inline" -> FlowInline(item, f, e, up)
    [] item.type = "inline-block" -> FlowInlineBlock(item, f, e, up) [] OTHER -> [f |-> f, item |-> item]

\* The boxes of a run in place and the height of their lines.
InlineRun(items, up, floats, x, y, avail) ==
  LET s == up[1].s
      e == [x |-> x, avail |-> avail, font |-> s.font, line |-> s.line, lineHeight |-> s.font * s.line, floats |-> floats]
      r == FoldLeft(LAMBDA a, item : LET k == Flow(item, a.f, e, up) IN [f |-> k.f, items |-> Append(a.items, k.item)],
                    [f |-> [x |-> x, top |-> y, max |-> 0], items |-> <<>>], items)
  IN  [items |-> r.items, h |-> r.f.top + r.f.max - y]

(***************************************************************************)
(* layout_children: inline runs, positioned boxes, floats and blocks, from *)
(* the top; c is [y, bottom (the margin of the block before), kids,        *)
(* floats]. A float is [side, top, bottom, inner].                         *)
(***************************************************************************)
Beside(floats, side, y) ==
  {k \in DOMAIN floats.list : k > floats.base /\ floats.list[k].side = side /\ y >= floats.list[k].top /\ y < floats.list[k].bottom}
LeftEdge(box, floats, y) == Max({box.x} \cup {floats.list[k].inner : k \in Beside(floats, "left", y)})
RightEdge(box, floats, y) == Min({box.x + box.w} \cup {floats.list[k].inner : k \in Beside(floats, "right", y)})
Band(box, floats, y) == RightEdge(box, floats, y) - LeftEdge(box, floats, y)
ClearTo(floats, clear, y) ==
  Max({y} \cup {floats.list[k].bottom : k \in {j \in DOMAIN floats.list : j > floats.base /\ clear \in {"both", floats.list[j].side}}})

OutOfFlow(box) == box.s.position \in {"absolute", "fixed"}
\* A context of its own does not see the floats around it.
NewContext(box, up) ==
  up = <<>> \/ box.s.overflow # "visible" \/ box.s.float # "none" \/ OutOfFlow(box) \/ box.type \in {"inline-block", "cell"}

\* What a positioned box is placed against; the height of a box without one is what it is by now.
Containing(up, fixed) ==
  LET root == Last(up)
      positioned == {j \in DOMAIN up : up[j].s.styled /\ up[j].s.position # "static"}
      box  == IF positioned = {} THEN root ELSE up[Min(positioned)]
  IN  IF fixed THEN [x |-> 0, y |-> 0, w |-> ViewportWidth, h |-> ViewportHeight]
      ELSE [x |-> box.x, y |-> box.y, w |-> box.w,
            h |-> IF Fixed(box.s.height) THEN box.s.height.n ELSE IF positioned = {} THEN ViewportHeight ELSE box.h]
Inset(near, far, from, size, outer, static) ==
  IF ~IsAuto(near) THEN from + Resolve(near, size) ELSE IF ~IsAuto(far) THEN from + size - Resolve(far, size) - outer ELSE static
PlacePositioned(kid, up, floats, c) ==
  LET e == ResolveEdges(kid, up[1].w)
      cb == Containing(up, kid.s.position = "fixed")
      sized == IF IsAuto(kid.s.width) THEN ShrinkToFit(e, cb.w, up[1].s.font, TRUE) ELSE WithContentWidth(e, cb.w)
      m == Contents(sized, up, floats)
      x == Inset(kid.s.left, kid.s.right, cb.x, cb.w, BorderWidth(m) + m.m[2], LeftEdge(up[1], floats, c.y))
      y == Inset(kid.s.top, kid.s.bottom, cb.y, cb.h, BorderHeight(m) + m.m[3], c.y)
  IN  [c EXCEPT !.kids = Append(@, Contents(At(m, x, y), up, floats))]

PlaceFloat(kid, up, floats, c) ==
  LET e == ResolveEdges(kid, up[1].w)
      avail == Band(up[1], floats, c.y)
      sized == IF ~IsAuto(kid.s.width) THEN WithContentWidth(e, up[1].w)
               ELSE IF kid.type = "table" THEN [e EXCEPT !.w = AtLeast0(Smaller(avail, up[1].w))]
               ELSE ShrinkToFit(e, avail, up[1].s.font, TRUE)
      m == Contents(sized, up, floats)
      y == IF OuterWidth(m) > avail THEN ClearTo(floats, "both", c.y) ELSE c.y
      x == IF kid.s.float = "left" THEN LeftEdge(up[1], floats, y) ELSE RightEdge(up[1], floats, y) - OuterWidth(m)
      placed == Contents(At(m, x, y), up, floats)
      record == [side |-> kid.s.float, top |-> y, bottom |-> y + OuterHeight(placed), inner |-> IF kid.s.float = "left" THEN x + OuterWidth(m) ELSE x]
  IN  [c EXCEPT !.kids = Append(@, placed), !.floats = Append(@, record)]

\* The top margin of a block overlaps the bottom margin of the block before it.
Overlap(above, below) == Smaller(above, below)
OverlapAll(above, below) == Larger(above, below)     \* mutant
Collapsed(above, below) == Overlap(above, below)
PlaceBlock(kid, up, floats, c) ==
  LET e == ResolveEdges(kid, up[1].w)
      y == (IF kid.s.clear = "none" THEN c.y ELSE ClearTo(floats, kid.s.clear, c.y)) - Collapsed(c.bottom, e.m[1])
      sized == WithContentWidth(e, AtLeast0(Band(up[1], floats, y)))
      moved == kid.s.position = "relative"
      placed == Contents(At(sized, LeftEdge(up[1], floats, y) + (IF moved THEN Resolve(kid.s.left, up[1].w) ELSE 0),
                            y + (IF moved THEN Resolve(kid.s.top, up[1].w) ELSE 0)), up, floats)
  IN  [c EXCEPT !.kids = Append(@, placed), !.y = y + OuterHeight(placed), !.bottom = placed.m[3]]

PlaceRun(run, up, floats, c) ==
  LET l == LeftEdge(up[1], floats, c.y)
      r == InlineRun(run, up, floats, l, c.y, AtLeast0(RightEdge(up[1], floats, c.y) - l))
  IN  [c EXCEPT !.kids = @ \o r.items, !.y = @ + r.h, !.bottom = 0]

RECURSIVE PlaceAll(_, _, _, _)
PlaceAll(kids, up, base, c) ==
  LET floats == [list |-> c.floats, base |-> base]
      inline == {n \in DOMAIN kids : \A k \in 1..n : kids[k].type \in Inlines}
      run    == IF inline = {} THEN 0 ELSE Max(inline)
      first  == Head(kids)
  IN  IF kids = <<>> THEN c
      ELSE IF run > 0 THEN PlaceAll(SubSeq(kids, run + 1, Len(kids)), up, base, PlaceRun(SubSeq(kids, 1, run), up, floats, c))
      ELSE PlaceAll(Tail(kids), up, base,
                    IF OutOfFlow(first) THEN PlacePositioned(first, up, floats, c)
                    ELSE IF first.s.float # "none" THEN PlaceFloat(first, up, floats, c) ELSE PlaceBlock(first, up, floats, c))

\* The box with its children placed, and the height of its content, its own floats included.
Children(box, up, floats) ==
  LET base == IF NewContext(box, up) THEN Len(floats.list) ELSE floats.base
      c == PlaceAll(box.kids, <<box>> \o up, base, [y |-> box.y, bottom |-> 0, kids |-> <<>>, floats |-> floats.list])
      own == {c.floats[k].bottom : k \in (Len(floats.list) + 1)..Len(c.floats)}
  IN  [box |-> [box EXCEPT !.kids = c.kids], h |-> Max({c.y} \cup own) - box.y]

(***************************************************************************)
(* layout_flex. Along names the measures of the main axis.                 *)
(***************************************************************************)
IsRow(box) == box.s.direction \in {"row", "row-reverse"}
Outer(box, row) == IF row THEN OuterWidth(box) ELSE OuterHeight(box)
FlexItems(box) == SelectSeq([k \in DOMAIN box.kids |-> k], LAMBDA k : ~OutOfFlow(box.kids[k]) /\ (box.kids[k].type # "text" \/ box.kids[k].words # <<>>))
Outers(items, row) == SumOf([k \in DOMAIN items |-> Outer(items[k], row)])

\* An item in a flex box again, anything else as blocks and lines.
Refilled(item, up, floats) == IF item.type = "flex" THEN Flex(item, up, floats) ELSE Children(item, up, floats).box

\* The basis of an item: its given size or its content.
HasBasis(item) == Fixed(item.s.basis)
Measured(item, up, floats) ==
  LET box == up[1]
      e == ResolveEdges(item, box.w)
      sized == IF ~IsRow(box) THEN WithContentWidth(e, box.w)
               ELSE IF HasBasis(item) THEN [e EXCEPT !.w = AtLeast0(item.s.basis.n - Edges(e))]
               ELSE IF ~IsAuto(item.s.width) THEN WithContentWidth(e, box.w)
               ELSE [e EXCEPT !.w = AtLeast0(Intrinsic(e, box.s.font).max - Edges(e))]
  IN  IF item.type = "flex" THEN Flex([sized EXCEPT !.h = Height(sized, 0, up)], up, floats) ELSE Content(sized, up, floats)
\* The size a row's item does not shrink below, from before its children are laid out.
Floor(item, of, font, measured) ==
  LET e == ResolveEdges(item, of)
  IN  IF HasBasis(item) \/ ~IsAuto(item.s.width) THEN measured.w ELSE AtLeast0(Intrinsic(e, font).min - Edges(e))

Grown(items, row, free) ==
  LET all == SumOf([k \in DOMAIN items |-> items[k].s.grow])
      More(k) == (free * items[k].s.grow) \div all
  IN  [k \in DOMAIN items |-> IF row THEN [items[k] EXCEPT !.w = @ + More(k)] ELSE [items[k] EXCEPT !.h = @ + More(k)]]
\* What is needed is taken from the items by shrink times width, down to their floors, in up to five passes.
RECURSIVE ShrunkRow(_, _, _, _)
ShrunkRow(items, floors, need, passes) ==
  LET can(k)  == items[k].w > floors[k]
      all     == SumOf([k \in DOMAIN items |-> IF can(k) THEN items[k].s.shrink * items[k].w ELSE 0])
      want(k) == (need * items[k].s.shrink * items[k].w) \div all
      taken   == [k \in DOMAIN items |-> IF can(k) THEN Smaller(want(k), items[k].w - floors[k]) ELSE 0]
      short   == SumOf([k \in DOMAIN items |-> IF can(k) THEN want(k) - taken[k] ELSE 0])
  IN  IF passes = 0 \/ need <= 0 \/ all <= 0 THEN items
      ELSE ShrunkRow([k \in DOMAIN items |-> [items[k] EXCEPT !.w = @ - taken[k]]], floors, short, passes - 1)
ShrunkColumn(items, need) ==
  LET all == SumOf([k \in DOMAIN items |-> items[k].s.shrink])
  IN  [k \in DOMAIN items |-> [items[k] EXCEPT !.h = AtLeast0(@ - (need * items[k].s.shrink) \div all)]]

\* Items in lines, each as high as its highest item; positions and measures stay as they were.
Wrapped(items, up, floats) ==
  LET box == up[1]
      Put(a, item) ==
        LET over == a.x > box.x /\ a.x + OuterWidth(item) > box.x + box.w
            x == IF over THEN box.x ELSE a.x
            y == IF over THEN a.y + a.high + box.s.gap ELSE a.y
            put == Refilled(At(item, x, y), up, floats)
        IN  [x |-> x + OuterWidth(item) + box.s.gap, y |-> y, high |-> Larger(IF over THEN 0 ELSE a.high, OuterHeight(put)), items |-> Append(a.items, put)]
      r == FoldLeft(Put, [x |-> box.x, y |-> box.y, high |-> 0, items |-> <<>>], items)
  IN  [items |-> r.items, h |-> r.y + r.high - box.y]

\* Where the first item starts and what is between two of them.
Justified(justify, n, free, gap) ==
  CASE n = 0 -> [start |-> 0, gap |-> gap]
    [] justify = "end"     -> [start |-> free, gap |-> gap]
    [] justify = "center"  -> [start |-> free \div 2, gap |-> gap]
    [] justify = "between" -> [start |-> 0, gap |-> gap + (IF n > 1 THEN free \div (n - 1) ELSE 0)]
    [] justify = "around"  -> [start |-> (free \div n) \div 2, gap |-> gap + free \div n]
    [] justify = "evenly"  -> [start |-> free \div (n + 1), gap |-> gap + free \div (n + 1)]
    [] OTHER -> [start |-> 0, gap |-> gap]
CrossOffset(align, room) == CASE align = "end" -> room [] align = "center" -> room \div 2 [] OTHER -> 0
Stretched(item, row, cross) ==
  IF row /\ IsAuto(item.s.height) THEN [item EXCEPT !.h = AtLeast0(cross - (OuterHeight(item) - item.h))]
  ELSE IF ~row /\ IsAuto(item.s.width) THEN [item EXCEPT !.w = AtLeast0(cross - Edges(item))] ELSE item
PlaceItem(a, item, up, floats, row, cross, gap) ==
  LET box == up[1]
      off == CrossOffset(box.s.align, cross - Outer(item, ~row))
      sized == IF box.s.align = "stretch" THEN Stretched(item, row, cross) ELSE item
      at  == IF row THEN At(sized, a.main, box.y + off) ELSE At(sized, box.x + off, a.main)
  IN  [main |-> a.main + Outer(item, row) + gap, items |-> Append(a.items, Refilled(at, up, floats))]

\* A positioned child of a flex box lies where an item of its own would, or at its insets.
MainOffset(justify, room) == CASE justify = "end" -> room [] justify \in {"center", "around", "evenly"} -> room \div 2 [] OTHER -> 0
FlexPositioned(kid, up, floats) ==
  LET box == up[1]
      row == IsRow(box)
      cb  == IF kid.s.position = "fixed" THEN [x |-> 0, y |-> 0, w |-> ViewportWidth, h |-> ViewportHeight]
             ELSE [x |-> box.x, y |-> box.y, w |-> box.w, h |-> box.h]
      e == ResolveEdges(kid, cb.w)
      m == Contents(IF IsAuto(kid.s.width) THEN ShrinkToFit(e, cb.w, box.s.font, FALSE) ELSE WithContentWidth(e, cb.w), up, floats)
      Off(room, main) == IF main THEN MainOffset(box.s.justify, room) ELSE CrossOffset(box.s.align, room)
      x == Inset(kid.s.left, kid.s.right, cb.x, cb.w, OuterWidth(m), cb.x + Off(cb.w - OuterWidth(m), row))
      y == Inset(kid.s.top, kid.s.bottom, cb.y, cb.h, OuterHeight(m), cb.y + Off(cb.h - OuterHeight(m), ~row))
  IN  Contents(At(m, x, y), up, floats)
\* The items put back, and then the positioned children.
Filled(box, places, items, up, floats) ==
  LET Place(k) == CHOOSE j \in DOMAIN places : places[j] = k
      with == [box EXCEPT !.kids = [k \in DOMAIN @ |-> IF k \in Range(places) THEN items[Place(k)] ELSE @[k]]]
  IN  [with EXCEPT !.kids = [k \in DOMAIN @ |-> IF OutOfFlow(@[k]) THEN FlexPositioned(@[k], <<with>> \o up, floats) ELSE @[k]]]

Flex(box, up, floats) ==
  LET row    == IsRow(box)
      s      == box.s
      places == FlexItems(box)
      n      == Len(places)
      base   == [k \in 1..n |-> Measured(box.kids[places[k]], <<box>> \o up, floats)]
      floors == [k \in 1..n |-> Floor(box.kids[places[k]], box.w, s.font, base[k])]
      wrap   == Wrapped(base, <<box>> \o up, floats)
      definite == row \/ box.h > 0 \/ Fixed(s.height)
      avail  == IF row THEN box.w ELSE IF definite THEN box.h ELSE Outers(base, FALSE)
      gap    == IF n > 1 THEN s.gap ELSE 0
      free   == avail - Outers(base, row) - gap * AtLeast0(n - 1)
      grows  == free > 0 /\ \E k \in 1..n : base[k].s.grow > 0
      shrinks == free < 0 /\ \E k \in 1..n : base[k].s.shrink > 0
      items  == IF grows THEN Grown(base, row, free)
                ELSE IF ~shrinks THEN base ELSE IF row THEN ShrunkRow(base, floors, -free, 5) ELSE ShrunkColumn(base, -free)
      high   == MaxOf0([k \in 1..n |-> OuterHeight(items[k])])
      sized  == IF row /\ IsAuto(s.height) THEN [box EXCEPT !.h = high] ELSE box
      j      == Justified(s.justify, n, IF grows \/ shrinks THEN 0 ELSE free, gap)
      cross  == IF row THEN sized.h ELSE box.w
      placed == FoldLeft(LAMBDA a, item : PlaceItem(a, item, <<sized>> \o up, floats, row, cross, j.gap),
                         [main |-> (IF row THEN box.x ELSE box.y) + j.start, items |-> <<>>], items).items
      tall   == IF ~row /\ ~definite THEN [sized EXCEPT !.h = IF grows \/ shrinks THEN avail ELSE Outers(base, FALSE)] ELSE sized
  IN  IF s.wrap /\ row /\ n > 0 THEN Filled(IF IsAuto(s.height) THEN [box EXCEPT !.h = wrap.h] ELSE box, places, wrap.items, up, floats)
      ELSE Filled(tall, places, placed, up, floats)

(***************************************************************************)
(* layout_grid: columns of the template, repeats written out; auto counts  *)
(* as 1fr.                                                                 *)
(***************************************************************************)
Fr(n) == [k |-> "fr", n |-> n]
Tracks(columns, avail, gap) ==
  LET fr(t) == CASE t.k = "fr" -> t.n [] t.k = "auto" -> 1 [] OTHER -> 0
      fixed(t) == IF t.k \in {"px", "percent"} THEN Resolve(t, avail) ELSE 0
      all  == SumOf([k \in DOMAIN columns |-> fr(columns[k])])
      left == AtLeast0(avail - gap * (Len(columns) - 1) - SumOf([k \in DOMAIN columns |-> fixed(columns[k])]))
  IN  [k \in DOMAIN columns |-> IF fr(columns[k]) > 0 THEN (left * fr(columns[k])) \div all ELSE fixed(columns[k])]
GridItem(a, item, cols, up, floats) ==
  LET box == up[1]
      next == a.col > Len(cols)
      col == IF next THEN 1 ELSE a.col
      x   == IF next THEN box.x ELSE a.x
      y   == IF next THEN a.y + a.high + box.s.gap ELSE a.y
      e   == ResolveEdges(item, cols[col])
      put == Contents(At([e EXCEPT !.w = AtLeast0(cols[col] - Edges(e))], x, y), up, floats)
  IN  [col |-> col + 1, x |-> x + cols[col] + box.s.gap, y |-> y, high |-> Larger(IF next THEN 0 ELSE a.high, OuterHeight(put)), items |-> Append(a.items, put)]
Grid(box, up, floats) ==
  LET cols == Tracks(box.s.columns, box.w, box.s.gap)
      r == FoldLeft(LAMBDA a, item : GridItem(a, item, cols, <<box>> \o up, floats),
                    [col |-> 1, x |-> box.x, y |-> box.y, high |-> 0, items |-> <<>>], box.kids)
      h == IF box.kids = <<>> THEN 0 ELSE r.y + r.high - box.y
      filled == [box EXCEPT !.kids = r.items]
  IN  IF cols = <<>> THEN Content(box, up, floats)
      ELSE [filled EXCEPT !.h = IF IsAuto(box.s.height) THEN h ELSE Height(box, h, up)]

(***************************************************************************)
(* layout_table: rows, also those of row groups, as sequences of cells.    *)
(***************************************************************************)
RECURSIVE RowsOf(_)
RowsOf(kids) == FlattenSeq([k \in DOMAIN kids |-> IF kids[k].type = "row" THEN <<kids[k]>> ELSE IF kids[k].type = "group" THEN RowsOf(kids[k].kids) ELSE <<>>])
CellsOf(row) == SelectSeq(row.kids, LAMBDA c : c.type = "cell")
\* What a cell asks for, with two pixels between columns.
CellWidths(cell, font, of) ==
  LET e == ResolveEdges(cell, of)
      pad == BorderPad(e, 2, 4) + 2
      i == Intrinsic(e, font)
      given == Resolve(e.s.width, of)
  IN  IF IsAuto(e.s.width) THEN [min |-> i.min + pad, max |-> i.max + pad] ELSE [min |-> given + pad, max |-> given + pad]
ColumnWidths(box, rows) ==
  LET cells == [r \in DOMAIN rows |-> CellsOf(rows[r])]
      n     == MaxOf0([r \in DOMAIN rows |-> Len(cells[r])])
      asked == [r \in DOMAIN rows |-> [k \in DOMAIN cells[r] |-> CellWidths(cells[r][k], rows[r].s.font, box.w)]]
      max(k) == Max({0} \cup {asked[r][k].max : r \in {q \in DOMAIN rows : k \in DOMAIN asked[q]}})
      min(k) == Max({0} \cup {asked[r][k].min : r \in {q \in DOMAIN rows : k \in DOMAIN asked[q]}})
      total  == SumOf([k \in 1..n |-> max(k)])
      give   == total - SumOf([k \in 1..n |-> min(k)])
      need   == Smaller(total - box.w, give)
  IN  [k \in 1..n |->
         IF total > box.w /\ box.w > 0 THEN IF give > 0 THEN max(k) - ((max(k) - min(k)) * need) \div give ELSE max(k)
         ELSE IF ~IsAuto(box.s.width) /\ total < box.w THEN max(k) + (box.w - total) \div n ELSE max(k)]
\* A table without a width is as wide as its columns, unless they did not fit.
TableWidth(box, cols) ==
  IF box.w > 0 /\ SumOf(cols) > box.w THEN box.w ELSE IF ~IsAuto(box.s.width) THEN box.w ELSE SumOf(cols)
PlaceCell(a, cell, cols, y, up, floats, of) ==
  LET e == ResolveEdges(cell, of)
      put == Content(At([e EXCEPT !.w = AtLeast0(cols[a.col] - BorderPad(e, 2, 4))], a.x, y), up, floats)
  IN  [col |-> a.col + 1, x |-> a.x + cols[a.col], cells |-> Append(a.cells, put)]
\* The cells of a row in place, all as high as the highest.
PlaceRow(row, box, cols, y, up, floats) ==
  LET a == FoldLeft(LAMBDA b, kid : IF kid.type # "cell" THEN [b EXCEPT !.cells = Append(@, kid)]
                                    ELSE PlaceCell(b, kid, cols, y, <<row>> \o up, floats, box.w),
                    [col |-> 1, x |-> box.x, cells |-> <<>>], row.kids)
      high == MaxOf0([k \in DOMAIN a.cells |-> IF a.cells[k].type = "cell" THEN BorderHeight(a.cells[k]) ELSE 0])
  IN  [row EXCEPT !.x = box.x, !.y = y, !.w = TableWidth(box, cols), !.h = high,
                  !.kids = [k \in DOMAIN a.cells |-> IF a.cells[k].type # "cell" THEN a.cells[k]
                                                     ELSE [a.cells[k] EXCEPT !.h = Larger(@, high - BorderPad(a.cells[k], 1, 3))]]]
RECURSIVE PlaceRows(_, _, _, _, _, _)
PlaceRows(kids, box, cols, y, up, floats) ==
  FoldLeft(LAMBDA a, kid :
             CASE kid.type = "row" -> LET r == PlaceRow(kid, box, cols, a.y, up, floats) IN [y |-> a.y + r.h, kids |-> Append(a.kids, r)]
               [] kid.type = "group" -> LET g == PlaceRows(kid.kids, box, cols, a.y, <<kid>> \o up, floats)
                                        IN  [y |-> g.y, kids |-> Append(a.kids, [kid EXCEPT !.kids = g.kids])]
               [] OTHER -> [a EXCEPT !.kids = Append(@, kid)],
           [y |-> y, kids |-> <<>>], kids)
Table(box, up, floats) ==
  LET rows == RowsOf(box.kids)
      cols == ColumnWidths(box, rows)
      r    == PlaceRows(box.kids, box, cols, box.y, <<box>> \o up, floats)
  IN  IF rows = <<>> THEN Content(box, up, floats)
      ELSE IF cols = <<>> THEN [box EXCEPT !.h = Height(box, 0, up)]
      ELSE [box EXCEPT !.kids = r.kids, !.w = TableWidth(box, cols), !.h = r.y - box.y]

(***************************************************************************)
(* layout_document and hit_test.                                           *)
(***************************************************************************)
LayoutDocument(nodes) ==
  LET root == [NewBox("root", "block", Plain) EXCEPT !.w = ViewportWidth, !.kids = FlattenSeq([k \in DOMAIN nodes |-> Build(nodes[k])])]
      r == Children(root, <<>>, [list |-> <<>>, base |-> 0])
  IN  [r.box EXCEPT !.h = Larger(r.h, ViewportHeight)]

Within(box, x, y) ==
  /\ x >= box.x - box.p[4] - box.b[4] /\ x < box.x + box.w + box.p[2] + box.b[2]
  /\ y >= box.y - box.p[1] - box.b[1] /\ y < box.y + box.h + box.p[3] + box.b[3]
\* The last child that is hit, or the box.
RECURSIVE HitTest(_, _, _)
HitTest(box, x, y) ==
  LET hits == {k \in DOMAIN box.kids : HitTest(box.kids[k], x, y) # <<>>}
  IN  IF hits # {} THEN HitTest(box.kids[Max(hits)], x, y) ELSE IF box.s.styled /\ Within(box, x, y) THEN <<box.node>> ELSE <<>>
=============================================================================
