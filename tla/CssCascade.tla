---------------------------- MODULE CssCascade -----------------------------
(***************************************************************************)
(* From style sheets to the computed style of every element: values, the   *)
(* cascade, var() and inheritance (css/style/style_resolver.cpp and        *)
(* core/include/malibu/css/cascade/cascade.h), and the recomputation of    *)
(* what is dirty (css/invalidation/invalidation.cpp).  Lengths are pairs   *)
(* of an integer and a unit, colours are records, and numbers are read     *)
(* from lexemes such as "2px" by the tables below.                         *)
(***************************************************************************)
EXTENDS CssSelector

Tokens(t) == SelectSeq(Split(t, "ws", {"("}, {")"}), LAMBDA part : part /= <<>>)
Commas(t) == LET parts == Split(t, ",", {"("}, {")"}) IN [k \in DOMAIN parts |-> Trim(parts[k])]
(* What a function is applied to: the text between its parentheses.        *)
IsCall(t, names) == Len(t) > 2 /\ t[1] \in names /\ t[2] = "("
Inside(t) == LET close == {k \in DOMAIN t : t[k] = ")"}
             IN SubSeq(t, 3, (CHOOSE k \in close : \A j \in close : j <= k) - 1)

(******************************** Numbers **********************************)
Measures == [l \in {"0", "1", "2", "4", "50", "100", "255", "400", "1px", "2px", "6px", "2em", "50%", "100%",
                    "600px"} |->
  CASE l = "0" -> <<0, "">> [] l = "1" -> <<1, "">> [] l = "2" -> <<2, "">> [] l = "4" -> <<4, "">>
    [] l = "50" -> <<50, "">> [] l = "100" -> <<100, "">> [] l = "255" -> <<255, "">>
    [] l = "400" -> <<400, "">> [] l = "1px" -> <<1, "px">> [] l = "2px" -> <<2, "px">>
    [] l = "6px" -> <<6, "px">> [] l = "600px" -> <<600, "px">> [] l = "2em" -> <<2, "em">>
    [] l = "50%" -> <<50, "%">> [] l = "100%" -> <<100, "%">>]
Measure(l) == IF l \in DOMAIN Measures THEN Measures[l] ELSE <<0, "">>
Number(t) == IF t = <<>> THEN 0 ELSE Measure(t[1])[1]
Ends2(t, unit) == t /= <<>> /\ Measure(t[Len(t)])[2] = unit

(* calc() is a sum of coefficients, one for each unit.                     *)
Units == {"px", "em", "%", ""}
NoUnits == [u \in Units |-> 0]
Plus(a, b, sign) == [c |-> [u \in Units |-> a.c[u] + sign * b.c[u]], num |-> a.num /\ b.num, i |-> b.i]
Scaled(a, k) == [a EXCEPT !.c = [u \in Units |-> @[u] * k]]
Divided(a, k) == [a EXCEPT !.c = [u \in Units |-> @[u] \div k]]
Times(a, b) ==
  [(CASE b.num -> Scaled(a, b.c[""]) [] ~b.num /\ a.num -> Scaled(b, a.c[""]) [] OTHER -> a) EXCEPT !.i = b.i]
Over(a, b) == [(IF b.num /\ b.c[""] /= 0 THEN Divided(a, b.c[""]) ELSE a) EXCEPT !.i = b.i]
RECURSIVE Sum(_, _), SumRest(_, _), Product(_, _), ProductRest(_, _)
Factor(t, from) ==
  LET i == SkipBlanks(t, from)
      inner == Sum(t, i + 1)
      signed == i <= Len(t) /\ t[i] \in {"+", "-"}
      j == IF signed THEN i + 1 ELSE i
      m == IF j <= Len(t) THEN Measure(t[j]) ELSE <<0, "">>
      n == IF signed /\ t[i] = "-" THEN -m[1] ELSE m[1]
  IN IF At(t, i, "(") THEN [inner EXCEPT !.i = LET k == SkipBlanks(t, @) IN IF At(t, k, ")") THEN k + 1 ELSE k]
     ELSE [c |-> [NoUnits EXCEPT ![m[2]] = n], num |-> m[2] = "",
           i |-> IF j <= Len(t) /\ t[j] \in DOMAIN Measures THEN j + 1 ELSE j]
Product(t, i) == ProductRest(t, Factor(t, i))
ProductRest(t, a) ==
  LET i == SkipBlanks(t, a.i)
  IN CASE At(t, i, "*") -> ProductRest(t, Times(a, Factor(t, i + 1)))
       [] At(t, i, "/") -> ProductRest(t, Over(a, Factor(t, i + 1)))
       [] OTHER -> a
Sum(t, i) == SumRest(t, Product(t, i))
SumRest(t, a) ==
  LET i == SkipBlanks(t, a.i)
  IN CASE At(t, i, "+") -> SumRest(t, Plus(a, Product(t, i + 1), 1))
       [] At(t, i, "-") -> SumRest(t, Plus(a, Product(t, i + 1), -1))
       [] OTHER -> a

(* A length is its coefficients; a number without a unit counts as pixels. *)
Px(n) == [NoUnits EXCEPT !["px"] = n]
Auto == [u \in {"auto"} |-> 0]
ParseLength(t) ==
  LET c == Sum(Inside(t), 1).c
      m == IF t = <<>> THEN <<0, "">> ELSE Measure(t[1])
  IN CASE t = <<"auto">> -> Auto
       [] IsCall(t, {"calc"}) -> [c EXCEPT !["px"] = @ + c[""], ![""] = 0]
       [] OTHER -> [NoUnits EXCEPT ![IF m[2] = "" THEN "px" ELSE m[2]] = m[1]]
Resolve(length, fontSize, basis) ==
  IF length = Auto THEN 0 ELSE length["px"] + length["em"] * fontSize + (length["%"] * basis) \div 100

(******************************** Colours **********************************)
Rgba(r, g, b, a) == [r |-> r, g |-> g, b |-> b, a |-> a]
NamedColors == [red |-> Rgba(255, 0, 0, 255), blue |-> Rgba(0, 0, 255, 255), transparent |-> Rgba(0, 0, 0, 0)]
NoColor == Rgba(0, 0, 0, -1)
Clamped(n, top) == IF n < 0 THEN 0 ELSE IF n > top THEN top ELSE n
Rounded(n, d) == (2 * n + d) \div (2 * d)
(* Comma or blank separated components, with an alpha that is the fourth   *)
(* component or follows a slash.                                           *)
Components(t) ==
  LET commas == Commas(t)
      slashed == Split(t, "/", {"("}, {")"})
  IN IF \E k \in DOMAIN t : t[k] = ","
     THEN [of |-> SubSeq(commas, 1, IF Len(commas) = 4 THEN 3 ELSE Len(commas)),
           alpha |-> IF Len(commas) = 4 THEN commas[4] ELSE <<>>]
     ELSE [of |-> Tokens(slashed[1]), alpha |-> IF Len(slashed) > 1 THEN Trim(slashed[2]) ELSE <<>>]
Share(t, whole, scale) ==
  IF Ends2(t, "%") THEN Clamped(Rounded(Number(t) * scale, 100), scale)
  ELSE Clamped(Rounded(Number(t) * scale, whole), scale)
ParseRgb(t) ==
  LET parts == Components(Inside(t))
      channel(k) == Share(parts.of[k], 255, 255)
  IN IF Len(parts.of) /= 3 THEN NoColor
     ELSE Rgba(channel(1), channel(2), channel(3),
               IF parts.alpha = <<>> THEN 255 ELSE Share(parts.alpha, 1, 255))

(* The share of each colour, in percent; one that is left out takes what   *)
(* the other leaves.                                                       *)
Halves(w1, w2) == <<IF w1 >= 0 THEN w1 ELSE 50, IF w2 >= 0 THEN w2 ELSE 50>>     \* mutant
Weights(w1, w2) == <<IF w1 >= 0 THEN w1 ELSE IF w2 >= 0 THEN 100 - w2 ELSE 50,
                     IF w2 >= 0 THEN w2 ELSE IF w1 >= 0 THEN 100 - w1 ELSE 50>>
RECURSIVE ParseColor(_, _)
ColorStop(t, current) ==
  LET toks == Tokens(t)
      weighted == Len(toks) > 1 /\ Ends2(toks[Len(toks)], "%")
      text == FlattenSeq(IF weighted THEN Front(toks) ELSE toks)
  IN [color |-> ParseColor(text, current), weight |-> IF weighted THEN Clamped(Number(toks[Len(toks)]), 100) ELSE -1]
ColorMix(t, current) ==
  LET parts == Commas(Inside(t))
      c == [k \in 1..2 |-> ColorStop(parts[k + 1], current)]
      w == Weights(c[1].weight, c[2].weight)
      sum == w[1] + w[2]
      by == c[1].color.a * w[1] + c[2].color.a * w[2]
      mixed(x, y) == Rounded(x * c[1].color.a * w[1] + y * c[2].color.a * w[2], by)
  IN CASE Len(parts) /= 3 -> NoColor
       [] Len(parts) = 3 /\ parts[1] /= <<"in", "ws", "srgb">> -> NoColor
       [] Len(parts) = 3 /\ parts[1] = <<"in", "ws", "srgb">> ->
            CASE c[1].color = NoColor \/ c[2].color = NoColor -> NoColor
              [] c[1].color /= NoColor /\ c[2].color /= NoColor /\ by = 0 -> NamedColors["transparent"]
              [] OTHER -> Rgba(mixed(c[1].color.r, c[2].color.r), mixed(c[1].color.g, c[2].color.g),
                               mixed(c[1].color.b, c[2].color.b),
                               Rounded(by * (IF sum > 100 THEN 100 ELSE sum), sum * 100))
ParseColor(t, current) ==
  CASE t = <<"currentcolor">> -> current
    [] Len(t) = 1 /\ t[1] \in DOMAIN NamedColors -> NamedColors[t[1]]
    [] IsCall(t, {"rgb", "rgba"}) -> ParseRgb(t)
    [] IsCall(t, {"color-mix"}) -> ColorMix(t, current)
    [] OTHER -> NoColor

(*************************** One declaration *******************************)
Inherited == {"color", "font-size", "font-family", "font-weight", "line-height", "text-align", "visibility",
              "font-style", "white-space", "text-transform", "list-style-type"}
Sides == <<"top", "right", "bottom", "left">>
BoxNames == [margin |-> <<"margin-top", "margin-right", "margin-bottom", "margin-left">>,
             padding |-> <<"padding-top", "padding-right", "padding-bottom", "padding-left">>]
BorderWidths == <<"border-top-width", "border-right-width", "border-bottom-width", "border-left-width">>
BorderColors == <<"border-top-color", "border-right-color", "border-bottom-color", "border-left-color">>
Borders == <<"border-top", "border-right", "border-bottom", "border-left">>
Lengths == {"width", "height", "max-width", "min-width", "max-height", "min-height", "flex-basis"}
  \cup ToSet(Sides) \cup ToSet(BoxNames["margin"]) \cup ToSet(BoxNames["padding"]) \cup ToSet(BorderWidths)
(* Properties of keywords, and what any other word is read as.             *)
Enumerations == [p \in {"float", "clear", "font-style", "white-space", "text-transform", "vertical-align",
                        "position", "box-sizing", "visibility", "overflow", "object-fit", "text-align",
                        "flex-direction", "flex-wrap", "align-items", "justify-content", "justify-items",
                        "align-content"} |->
  CASE p = "float" -> [words |-> {"left", "right"}, other |-> "none"]
    [] p = "clear" -> [words |-> {"left", "right", "both"}, other |-> "none"]
    [] p = "font-style" -> [words |-> {"italic", "oblique"}, other |-> "normal"]
    [] p = "white-space" -> [words |-> {"nowrap", "pre", "pre-wrap"}, other |-> "normal"]
    [] p = "text-transform" -> [words |-> {"uppercase", "lowercase", "capitalize"}, other |-> "none"]
    [] p = "vertical-align" -> [words |-> {"top", "middle", "bottom", "sub", "super"}, other |-> "baseline"]
    [] p = "position" -> [words |-> {"relative", "absolute", "fixed", "sticky"}, other |-> "static"]
    [] p = "box-sizing" -> [words |-> {"border-box"}, other |-> "content-box"]
    [] p = "visibility" -> [words |-> {"hidden", "collapse"}, other |-> "visible"]
    [] p = "overflow" -> [words |-> {"hidden", "scroll", "auto"}, other |-> "visible"]
    [] p = "object-fit" -> [words |-> {"contain", "cover", "none", "scale-down"}, other |-> "fill"]
    [] p = "text-align" -> [words |-> {"right", "center", "justify"}, other |-> "left"]
    [] p = "flex-direction" -> [words |-> {"column", "row-reverse", "column-reverse"}, other |-> "row"]
    [] p = "flex-wrap" -> [words |-> {"wrap", "wrap-reverse"}, other |-> "nowrap"]
    [] p = "align-items" -> [words |-> {"flex-start", "flex-end", "center", "baseline"}, other |-> "stretch"]
    [] p = "justify-items" -> [words |-> {"flex-start", "flex-end", "center", "baseline"}, other |-> "stretch"]
    [] p = "justify-content" -> [words |-> {"flex-end", "center", "space-between", "space-around", "space-evenly"},
                                 other |-> "flex-start"]
    [] p = "align-content" -> [words |-> {"flex-start", "flex-end", "center", "space-between", "space-around",
                                          "space-evenly", "stretch"}, other |-> "normal"]]
Keyword(p, t) == IF Len(t) = 1 /\ t[1] \in Enumerations[p].words THEN t[1] ELSE Enumerations[p].other
(* Lists of words of which the first in this order counts.                 *)
Sought == [p \in {"list-style-type", "text-decoration"} |->
  IF p = "list-style-type" THEN [words |-> <<"none", "decimal", "circle", "square">>, other |-> "disc"]
  ELSE [words |-> <<"underline", "line-through", "overline">>, other |-> "none"]]
FirstOf(p, t) == LET found == SelectSeq(Sought[p].words, LAMBDA w : w \in ToSet(t))
                 IN IF found = <<>> THEN Sought[p].other ELSE found[1]
DisplayWords == {"block", "inline", "inline-block", "flex", "inline-flex", "list-item", "table", "table-row",
                 "table-cell", "table-row-group", "grid", "none"}
Display(t) == CASE t[1] \in DisplayWords -> t[1]
                [] t[1] = "inline-table" -> "table"
                [] t[1] \in {"table-header-group", "table-footer-group"} -> "table-row-group"
                [] t[1] = "inline-grid" -> "grid"
                [] OTHER -> "block"
FontSizes == [w \in {"small", "medium", "large"} |-> CASE w = "small" -> 13 [] w = "medium" -> 16 [] w = "large" -> 18]
FontSize(t, parent) ==
  CASE t[1] \in DOMAIN FontSizes -> FontSizes[t[1]]
    [] t[1] = "larger" -> (parent["font-size"] * 6) \div 5
    [] OTHER -> Resolve(ParseLength(t), parent["font-size"], parent["font-size"])
(* A weight that is no keyword is read as a number, and 0 if it is none.   *)
FontWeight(t) == CASE t = <<"bold">> -> 700 [] t = <<"normal">> -> 400 [] OTHER -> Number(t)
(* In percent of the font size.                                            *)
LineHeight(t, fontSize) ==
  IF Measure(t[1])[2] \in {"%", "px"} THEN (Resolve(ParseLength(t), fontSize, fontSize) * 100) \div fontSize
  ELSE Number(t) * 100

(* The style with some of its fields replaced.                             *)
With(s, f) == [x \in DOMAIN s |-> IF x \in DOMAIN f THEN f[x] ELSE s[x]]
One(name, value) == [x \in {name} |-> value]
Each(names, values) == [x \in ToSet(names) |-> LET k == CHOOSE j \in DOMAIN names : names[j] = x IN values[k]]
Colored(name, t, current) ==
  LET c == ParseColor(t, current) IN IF c = NoColor THEN [x \in {} |-> 0] ELSE One(name, c)

(* One to four lengths: top, right, bottom, left; what is missing is that  *)
(* of the other side.                                                      *)
BoxShorthand(names, t) ==
  LET toks == Tokens(t)
      pick == CASE Len(toks) = 1 -> <<1, 1, 1, 1>> [] Len(toks) = 2 -> <<1, 2, 1, 2>>
                [] Len(toks) = 3 -> <<1, 2, 3, 2>> [] OTHER -> <<1, 2, 3, 4>>
  IN Each(names, [k \in 1..4 |-> ParseLength(toks[pick[k]])])

(* Width, style and colour in any order, for one side or all; a style      *)
(* without a width is 3px wide, and "none" has no width.                   *)
BorderStyles == {"solid", "dashed", "dotted", "double", "groove", "ridge", "inset", "outset"}
BorderShorthand(s, p, t) ==
  LET toks == Tokens(t)
      none == \E k \in DOMAIN toks : toks[k] \in {<<"none">>, <<"hidden">>}
      styled == \E k \in DOMAIN toks : Len(toks[k]) = 1 /\ toks[k][1] \in BorderStyles
      rest == SelectSeq(toks, LAMBDA k : ~(Len(k) = 1 /\ k[1] \in BorderStyles \cup {"none", "hidden"}))
      colors == SelectSeq(rest, LAMBDA k : ParseColor(k, s["color"]) /= NoColor)
      widths == SelectSeq(rest, LAMBDA k : ParseColor(k, s["color"]) = NoColor)
      w == CASE none -> Px(0) [] ~none /\ widths /= <<>> -> ParseLength(widths[Len(widths)])
             [] OTHER -> Px(IF styled THEN 3 ELSE 0)
      sides == IF p = "border" THEN 1..4 ELSE {k \in 1..4 : Borders[k] = p}
  IN With(With(s, [x \in {BorderWidths[k] : k \in sides} |-> w]),
          IF colors = <<>> THEN [x \in {} |-> 0]
          ELSE [x \in {BorderColors[k] : k \in sides} |-> ParseColor(colors[Len(colors)], s["color"])])

(* [style] [weight] size[/line-height] family: what stands before the size *)
(* is a style, a weight or nothing, and what stands after it the family.   *)
(* Any token that begins with a digit is taken for the size, a weight too. *)
IsSize(tok) == tok[1] \in DOMAIN FontSizes \cup {"larger"} \/ tok[1] \in DOMAIN Measures
FontShorthand(s, parent, t) ==
  LET toks == Tokens(t)
      sizes == {k \in DOMAIN toks : IsSize(toks[k])}
      at == Pos(sizes)
      before == [k \in 1..(at - 1) |-> toks[k]]
      styles == SelectSeq(before, LAMBDA k : k \in {<<"italic">>, <<"oblique">>})
      weights == SelectSeq(before, LAMBDA k : k \in {<<"bold">>})
      slash == Split(toks[at], "/", {}, {})
      family == SubSeq(toks, at + 1, Len(toks))
  IN IF sizes = {} THEN s
     ELSE With(s, [x \in {"font-size"} \cup (IF styles = <<>> THEN {} ELSE {"font-style"})
                         \cup (IF weights = <<>> THEN {} ELSE {"font-weight"})
                         \cup (IF Len(slash) = 1 THEN {} ELSE {"line-height"})
                         \cup (IF family = <<>> THEN {} ELSE {"font-family"}) |->
                     CASE x = "font-size" -> FontSize(slash[1], parent)
                       [] x = "font-style" -> "italic"
                       [] x = "font-weight" -> 700
                       [] x = "line-height" -> LineHeight(slash[2], FontSize(slash[1], parent))
                       [] x = "font-family" -> family])

(* First the offsets, blur and spread, then the colour; one shadow.        *)
BoxShadow(s, t) ==
  LET toks == SelectSeq(Tokens(Commas(t)[1]), LAMBDA k : k /= <<"inset">>)
      colors == SelectSeq(toks, LAMBDA k : ParseColor(k, s["color"]) /= NoColor)
      nums == SelectSeq(toks, LAMBDA k : ParseColor(k, s["color"]) = NoColor)
      nth(k) == IF k > Len(nums) THEN 0 ELSE Resolve(ParseLength(nums[k]), s["font-size"], 0)
  IN IF t = <<"none">> THEN With(s, One("box-shadow", <<>>))
     ELSE IF Len(nums) < 2 THEN s
     ELSE With(s, One("box-shadow", <<nth(1), nth(2), nth(3), nth(4),
                 IF colors = <<>> THEN Rgba(0, 0, 0, 160) ELSE ParseColor(colors[Len(colors)], s["color"])>>))
Gaps(s, t) == LET toks == Tokens(t)
                  gap(k) == Resolve(ParseLength(toks[k]), s["font-size"], 0)
              IN With(s, Each(<<"row-gap", "column-gap">>, <<gap(1), gap(Len(toks))>>))
Flex(s, t) ==
  LET toks == Tokens(t)
      n == Len(toks)
  IN IF t = <<"none">> THEN With(s, Each(<<"flex-grow", "flex-shrink">>, <<0, 0>>))
     ELSE With(s, [x \in {"flex-grow", "flex-basis"} \cup (IF n > 1 THEN {"flex-shrink"} ELSE {}) |->
                     CASE x = "flex-grow" -> Number(toks[1]) [] x = "flex-shrink" -> Number(toks[2])
                       [] x = "flex-basis" -> IF n > 2 THEN ParseLength(toks[3]) ELSE Px(0)])
Places(s, t, first, second) ==
  LET toks == Tokens(t)
  IN With(With(s, One(first, Keyword(first, toks[1]))),
          IF Len(toks) > 1 THEN One(second, Keyword(second, toks[2])) ELSE [x \in {} |-> 0])
Content(s, t) ==
  CASE t \in {<<"none">>, <<"normal">>} -> With(s, One("content", <<>>))
    [] Len(t) > 1 /\ t[1] \in Quotes /\ t[Len(t)] = t[1] ->
         With(s, One("content", <<SubSeq(t, 2, Len(t) - 1)>>))
    [] OTHER -> s

(* What a declaration does to a style that holds the inherited and initial *)
(* values: "initial" and "unset" leave it as it is, and so does "inherit"  *)
(* for most properties.                                                    *)
ApplyProperty(s, parent, p, t) ==
  CASE t = <<"inherit">> ->
         IF p \in {"color", "font-size", "font-family", "visibility"} THEN With(s, One(p, parent[p])) ELSE s
    [] t \in {<<"initial">>, <<"unset">>} -> s
    [] t \in {<<"inherit">>, <<"initial">>, <<"unset">>} -> s
    [] OTHER ->
  CASE p = "display" -> With(s, One(p, Display(t)))
    [] p \in DOMAIN Enumerations -> With(s, One(p, Keyword(p, t)))
    [] p \in DOMAIN Sought -> With(s, One(p, FirstOf(p, t)))
    [] p = "list-style" -> With(s, One("list-style-type", FirstOf("list-style-type", t)))
    [] p \in Lengths -> With(s, One(p, ParseLength(t)))
    [] p \in DOMAIN BoxNames -> With(s, BoxShorthand(BoxNames[p], t))
    [] p = "border-width" -> With(s, BoxShorthand(BorderWidths, t))
    [] p \in {"border"} \cup ToSet(Borders) -> BorderShorthand(s, p, t)
    [] p = "border-style" -> IF t \in {<<"none">>, <<"hidden">>} THEN With(s, [x \in ToSet(BorderWidths) |-> Px(0)]) ELSE s
    [] p \in ToSet(BorderColors) \cup {"background-color"} -> With(s, Colored(p, t, s["color"]))
    [] p = "border-color" -> IF ParseColor(t, s["color"]) = NoColor THEN s
                             ELSE With(s, [x \in ToSet(BorderColors) |-> ParseColor(t, s["color"])])
    [] p = "color" -> With(s, Colored(p, t, parent["color"]))
    [] p = "background" -> With(s, Colored("background-color", t, s["color"]))
    [] p = "box-shadow" -> BoxShadow(s, t)
    [] p \in {"gap", "grid-gap"} -> Gaps(s, t)
    [] p \in {"row-gap", "column-gap"} -> With(s, One(p, Resolve(ParseLength(t), s["font-size"], 0)))
    [] p = "z-index" -> IF t = <<"auto">> THEN s ELSE With(s, One(p, <<Number(t)>>))
    [] p = "content" -> Content(s, t)
    [] p = "font-size" -> With(s, One(p, FontSize(t, parent)))
    [] p = "font-family" -> With(s, One(p, Tokens(t)))
    [] p = "font" -> FontShorthand(s, parent, t)
    [] p = "font-weight" -> With(s, One(p, FontWeight(t)))
    [] p = "line-height" -> With(s, One(p, LineHeight(t, s["font-size"])))
    [] p \in {"flex-grow", "flex-shrink"} -> With(s, One(p, Number(t)))
    [] p = "flex" -> Flex(s, t)
    [] p = "place-items" -> Places(s, t, "align-items", "justify-items")
    [] p = "place-content" -> Places(s, t, "align-content", "justify-content")
    [] OTHER -> s

(* The initial value of every field.                                       *)
InitialLengths == Lengths \ (ToSet(BoxNames["margin"]) \cup ToSet(BoxNames["padding"]) \cup ToSet(BorderWidths))
Initial ==
  [x \in DOMAIN Enumerations \cup DOMAIN Sought \cup Lengths \cup ToSet(BorderColors)
         \cup {"display", "color", "background-color", "box-shadow", "row-gap", "column-gap", "z-index", "content",
               "font-size", "font-family", "font-weight", "line-height", "flex-grow", "flex-shrink"} |->
   CASE x \in DOMAIN Enumerations -> Enumerations[x].other
     [] x \in DOMAIN Sought -> Sought[x].other
     [] x \in InitialLengths -> Auto
     [] x \in Lengths \ InitialLengths -> Px(0)
     [] x \in ToSet(BorderColors) \cup {"color"} -> Rgba(0, 0, 0, 255)
     [] x = "background-color" -> Rgba(0, 0, 0, 0)
     [] x = "display" -> "inline"
     [] x \in {"box-shadow", "z-index", "content"} -> <<>>
     [] x \in {"row-gap", "column-gap", "flex-grow"} -> 0
     [] x = "flex-shrink" -> 1
     [] x = "font-size" -> 16
     [] x = "font-family" -> <<<<"serif">>>>
     [] x = "font-weight" -> 400
     [] x = "line-height" -> 120]

(******************************* The cascade *******************************)
(* Commas are alternatives, groups in parentheses are all required, print  *)
(* never holds, and an unknown feature does.                               *)
Feature(q, viewport) ==
  LET parts == Split(q, ":", {}, {})
      name == Trim(parts[1])
      val == IF Len(parts) > 1 THEN Trim(parts[2]) ELSE <<>>
      m == IF val = <<>> THEN <<0, "">> ELSE Measure(val[1])
      n == IF m[2] = "em" THEN m[1] * 16 ELSE m[1]
  IN CASE name = <<"min-width">> -> viewport.w >= n
       [] name = <<"max-width">> -> viewport.w <= n
       [] name = <<"width">> -> viewport.w = n
       [] name = <<"min-height">> -> viewport.h >= n
       [] name = <<"max-height">> -> viewport.h <= n
       [] name = <<"orientation">> -> val = <<IF viewport.w >= viewport.h THEN "landscape" ELSE "portrait">>
       [] name = <<"prefers-color-scheme">> -> val /= <<"dark">>
       [] OTHER -> TRUE
Groups(q) == {SubSeq(q, i + 1, Until(q, i, {")"}) - 1) : i \in {k \in DOMAIN q : q[k] = "(" /\ Until(q, k, {")"}) <= Len(q)}}
MediaMatches(cond, viewport) ==
  \E q \in ToSet(Split(cond, ",", {}, {})) :
    "print" \notin ToSet(q) /\ \A g \in Groups(q) : Feature(g, viewport)

(* Of two declarations for the same property: importance, origin,          *)
(* specificity, and the later one.                                         *)
Origins == [o \in {"user agent", "author", "inline"} |-> CASE o = "user agent" -> 0 [] o = "author" -> 2 [] o = "inline" -> 3]
Less(a, b) == a.a < b.a \/ (a.a = b.a /\ (a.b < b.b \/ (a.b = b.b /\ a.c < b.c)))
SpecificityFirst(e, o) ==                                              \* mutant
  IF e.decl.important /= o.decl.important THEN e.decl.important
  ELSE IF e.spec /= o.spec THEN Less(o.spec, e.spec)
  ELSE e.order >= o.order
WinsOver(e, o) ==
  IF e.decl.important /= o.decl.important THEN e.decl.important
  ELSE IF e.origin /= o.origin THEN Origins[e.origin] > Origins[o.origin]
  ELSE IF e.spec /= o.spec THEN Less(o.spec, e.spec)
  ELSE e.order >= o.order

(* The value with its var() references replaced, or Unresolved: a property *)
(* that is not set, or is being resolved already, has the fallback's value.*)
Unresolved == <<"unresolved">>
RECURSIVE Substitute(_, _, _)
Reference(inner, props, resolving) ==
  LET parts == Split(inner, ",", {"("}, {")"})
      name == Trim(parts[1])
      value == IF name \in DOMAIN props /\ name \notin resolving
               THEN Substitute(props[name], props, resolving \cup {name}) ELSE Unresolved
  IN IF value = Unresolved /\ Len(parts) > 1
     THEN Substitute(Trim(SubSeq(inner, Len(parts[1]) + 2, Len(inner))), props, resolving) ELSE value
Substitute(t, props, resolving) ==
  LET at == {i \in DOMAIN t : t[i] = "var" /\ At(t, i + 1, "(")}
      i == Pos(at)
      close == Pos({k \in (i + 2)..Len(t) : Depth(t, i, k, {"("}, {")"}) = 0} \cup {Len(t) + 1})
      one == Reference(SubSeq(t, i + 2, close - 1), props, resolving)
      rest == Substitute(SubSeq(t, close + 1, Len(t)), props, resolving)
  IN IF at = {} THEN t
     ELSE IF close > Len(t) \/ one = Unresolved \/ rest = Unresolved THEN Unresolved
     ELSE Upto(t, 1, i) \o one \o rest

(* Inline declarations: between semicolons outside parentheses.            *)
InlineDeclarations(t) ==
  LET parts == Split(t, ";", {"("}, {")"})
      colon(d) == Until(d, 1, {":"})
      decl(d) == [property |-> Lowered(Trim(Upto(d, 1, colon(d)))), important |-> FALSE,
                  value |-> Trim(SubSeq(d, colon(d) + 1, Len(d)))]
  IN SelectSeq([k \in DOMAIN parts |-> decl(parts[k])], LAMBDA d : d.property /= <<>> /\ d.value /= <<>>)

(* The selectors of a sheet, parsed, with their rule and their place.      *)
AddStylesheet(rules, sheet, origin) ==
  rules \o FlattenSeq([r \in DOMAIN sheet |->
    SelectSeq([k \in DOMAIN sheet[r].selectors |->
                 [selector |-> ParseSelector(sheet[r].selectors[k]), rule |-> sheet[r], origin |-> origin,
                  order |-> Len(rules) * 100 + r * 10 + k]], LAMBDA m : m.selector.valid)])

Entries(doc, n, rules, viewport, element) ==
  LET applying == SelectSeq(rules, LAMBDA r :
        r.selector.element = element /\ Matches(doc, n, r.selector)
          /\ (r.rule.media = <<>> \/ MediaMatches(r.rule.media, viewport)))
      written(decls, r) == [k \in DOMAIN decls |->
        [decl |-> decls[k], origin |-> r.origin, spec |-> r.spec, order |-> r.order]]
      inline == IF element = "none" /\ HasAttr(doc, n, "style")
                THEN InlineDeclarations(doc.attrs[n]["style"]) ELSE <<>>
  IN FlattenSeq([k \in DOMAIN applying |->
                   written(applying[k].rule.decls, [origin |-> applying[k].origin, order |-> applying[k].order,
                                                    spec |-> applying[k].selector.spec])])
       \o written(inline, [origin |-> "inline", spec |-> [a |-> 1, b |-> 0, c |-> 0], order |-> 10000])
Winners(entries) ==
  LET better(w, e) == LET p == e.decl.property
                      IN IF p \notin DOMAIN w \/ WinsOver(e, w[p])
                         THEN [q \in DOMAIN w \cup {p} |-> IF q = p THEN e ELSE w[q]] ELSE w
  IN FoldLeft(better, [p \in {} |-> 0], entries)

Custom(p) == Len(p) > 1 /\ p[1] = "--"
Blockified(s) ==
  IF s["float"] = "none" /\ s["position"] \notin {"absolute", "fixed"} THEN s["display"]
  ELSE CASE s["display"] \in {"inline", "inline-block", "list-item"} -> "block"
         [] s["display"] = "inline-flex" -> "flex"
         [] OTHER -> s["display"]
Levelled(s, parent) ==
  IF s["position"] = "static" /\ parent.style["display"] \notin {"flex", "inline-flex", "grid"} THEN <<>> ELSE s["z-index"]
(* The style of a node, or of a pseudo-element of it, under that of its    *)
(* parent.  The winners are applied in the order of a hash table, which    *)
(* may be any: here, in the order of their ranks.                          *)
Compute(doc, n, parent, rules, viewport, element, rank) ==
  LET winners == Winners(Entries(doc, n, rules, viewport, element))
      props == [p \in DOMAIN parent.props \cup {q \in DOMAIN winners : Custom(q)} |->
                  IF p \in DOMAIN winners THEN winners[p].decl.value ELSE parent.props[p]]
      base == [x \in DOMAIN Initial |-> IF x \in Inherited THEN parent.style[x] ELSE Initial[x]]
      apply(s, p) == LET v == Substitute(winners[p].decl.value, props, {})
                     IN IF v = Unresolved THEN s ELSE ApplyProperty(s, parent.style, p[1], Trim(v))
      s == FoldLeft(apply, base, SetToSortSeq({p \in DOMAIN winners : ~Custom(p)}, LAMBDA p, q : rank[p] < rank[q]))
  IN [style |-> With(s, Each(<<"display", "z-index">>, <<Blockified(s), Levelled(s, parent)>>)), props |-> props]
Root == [style |-> [Initial EXCEPT !["display"] = "block"], props |-> [p \in {} |-> 0]]

(* The styles of a subtree, over those that the nodes have: a node that is *)
(* no element hands its parent's style down.                               *)
RECURSIVE ResolveElement(_, _, _, _, _, _, _)
ResolveElement(styles, doc, n, parent, rules, viewport, rank) ==
  LET own == Compute(doc, n, parent, rules, viewport, "none", rank)
      generated(e) == LET c == Compute(doc, n, own, rules, viewport, e, rank)
                      IN IF c.style["content"] /= <<>> /\ c.style["display"] /= "none" THEN c.style ELSE <<>>
      here == IF doc.type[n] = "element"
              THEN [styles EXCEPT ![n] = [own |-> own, before |-> generated("before"), after |-> generated("after")]]
              ELSE styles
      down(all, kid) == ResolveElement(all, doc, kid, IF doc.type[n] = "element" THEN own ELSE parent, rules, viewport, rank)
  IN FoldLeft(down, here, doc.kids[n])
NoStyle == [own |-> Root, before |-> <<>>, after |-> <<>>]
ResolveAll(doc, rules, viewport, rank) ==
  ResolveElement([n \in DOMAIN doc.kids |-> NoStyle], doc, 0, Root, rules, viewport, rank)

(* Only what has no dirty ancestor is recomputed, with its subtree, under  *)
(* the style that its parent has.                                          *)
Recompute(styles, doc, dirty, rules, viewport, rank) ==
  LET tops == SelectSeq(dirty, LAMBDA n : Ancestry(doc, doc.parent[n]) \cap ToSet(dirty) = {})
      one(all, n) == ResolveElement(all, doc, n, all[doc.parent[n]].own, rules, viewport, rank)
  IN FoldLeft(one, styles, tops)
=============================================================================
