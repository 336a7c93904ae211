------------------------------- MODULE MCCss -------------------------------
(***************************************************************************)
(* Style sheets, selectors and conditions, written from their structure    *)
(* and read back by the parsers; values that mean the same; and the        *)
(* styles of a small document under a few rules.                           *)
(***************************************************************************)
EXTENDS CssCascade
CONSTANTS MaxItems,   \* constructs of a sheet
          MaxSteps    \* compounds of a selector
VARIABLE subject

(****************************** Style sheets *******************************)
Declared(name, value, important) ==
  <<[property |-> <<name>>, value |-> value, important |-> important]>>
(* What may stand in a block, and the declarations it stands for.          *)
Pieces == {
  [text |-> <<"COLOR", ":", "ws", "red", "ws", ";">>, decls |-> Declared("color", <<"red">>, FALSE)],
  [text |-> <<"ws", "width", ":", "1px", "!important", ";">>, decls |-> Declared("width", <<"1px">>, TRUE)],
  [text |-> <<"content", ":", "'", "}", ";", "dquote", "'", ";">>,
   decls |-> Declared("content", <<"'", "}", ";", "dquote", "'">>, FALSE)],
  [text |-> <<"/*", "}", ";", "*/", "width", ";">>, decls |-> <<>>],
  [text |-> <<"width", ":", "ws", ";">>, decls |-> <<>>]}
Heads == {
  [text |-> <<"p", "ws", ",", "q">>, selectors |-> <<<<"p">>, <<"q">>>>],
  [text |-> <<":", "is", "(", "p", ",", "q", ")">>, selectors |-> <<<<":", "is", "(", "p", ",", "q", ")">>>>],
  [text |-> <<"p", "/*", "{", "*/", ",", "ws">>, selectors |-> <<<<"p">>>>],
  [text |-> <<>>, selectors |-> <<>>]}
RuleOf(head, pieces, open) ==
  LET whole == <<"{">> \o FlattenSeq([k \in DOMAIN pieces |-> pieces[k].text])
  IN [text |-> head.text \o (IF open THEN Front(whole) ELSE whole) \o <<"}">>,
      rules |-> IF head.selectors = <<>> THEN <<>>
                ELSE <<[selectors |-> head.selectors, media |-> <<>>,
                        decls |-> FlattenSeq([k \in DOMAIN pieces |-> pieces[k].decls])]>>]
(* The last semicolon of a block may be left out.                          *)
Rules == {RuleOf(h, ps, FALSE) : h \in Heads, ps \in SeqOf(Pieces, 2)}
           \cup {RuleOf(h, <<p>>, TRUE) : h \in Heads, p \in Pieces}
Few == {RuleOf(h, <<p>>, FALSE) : h \in Heads, p \in Pieces}
InMedia(rs) ==
  [text |-> <<"@media", "ws", "(", "wide", ")", "{", "ws">> \o FlattenSeq([k \in DOMAIN rs |-> rs[k].text]) \o <<"}">>,
   rules |-> LET inner == FlattenSeq([k \in DOMAIN rs |-> rs[k].rules])
             IN [k \in DOMAIN inner |-> [inner[k] EXCEPT !.media = <<"(", "wide", ")">>]]]
Skipped(text) == [text |-> text, rules |-> <<>>]
AtRules == {Skipped(<<"@import", "'", "x", "'", ";">>), Skipped(<<"@media", "wide", ";">>),
            Skipped(<<"@font-face", "{", "p", "{", "}", "}">>), Skipped(<<"/*", "@media", "*/", "ws">>)}
Items == Rules \cup AtRules \cup {InMedia(<<r>>) : r \in Few}
           \cup {InMedia(<<r, Skipped(<<"@import", "x", ";">>), r>>) : r \in Few}

SheetParsesAsWritten(grown) ==
  Parse(FlattenSeq([k \in DOMAIN grown.items |-> grown.items[k].text]))
    = FlattenSeq([k \in DOMAIN grown.items |-> grown.items[k].rules])

(******************************* Conditions ********************************)
Leaves == {[text |-> <<"(", "float", ":", "ws", "left", ")">>, holds |-> TRUE],
           [text |-> <<"(", "float", ":", "red", ")">>, holds |-> FALSE],
           [text |-> <<"(", "--", "x", ":", "{", "'", "}", "escape", "'", "'", "}", ")">>, holds |-> TRUE],
           [text |-> <<"(", "color", ":", "{", "a", "]", ")">>, holds |-> FALSE],
           [text |-> <<"selector", "(", "p", "ws", ">", ":", "hover", ")">>, holds |-> TRUE],
           [text |-> <<"(", "selector", "(", "p", ")", ")">>, holds |-> TRUE],
           [text |-> <<"selector", "(", ":", ":", "x", ")">>, holds |-> FALSE]}
Negated(l) == [text |-> <<"not", "ws">> \o l.text, holds |-> ~l.holds]
Joined(ls, word) == FoldSeq(LAMBDA l, text : IF text = <<>> THEN l.text ELSE l.text \o <<"ws", word, "ws">> \o text,
                            <<>>, ls)
Conditions == {Negated(l) : l \in Leaves}
  \cup {[text |-> Joined(ls, "and"), holds |-> \A k \in DOMAIN ls : ls[k].holds] : ls \in SeqOf(Leaves, 3) \ {<<>>}}
  \cup {[text |-> Joined(ls, "or"), holds |-> \E k \in DOMAIN ls : ls[k].holds] : ls \in SeqOf(Leaves, 3) \ {<<>>}}
ConditionHolds(grown) == SupportsCondition(grown.condition.text) = grown.condition.holds

(* A sheet is read as the rules it is written from, with what is malformed *)
(* or skipped left out and nothing else; a condition of CSS.supports() is  *)
(* the conjunction, disjunction or negation that it says.                  *)
SheetsParseAsWritten(grown) ==
  /\ grown.of = "sheet" => SheetParsesAsWritten(grown)
  /\ grown.of = "condition" => ConditionHolds(grown)

(******************************** Selectors ********************************)
(* Node 4 is a text or an element; the others are elements.                *)
Doc(parent, tag, last) ==
  LET nodes == 0..5
      kids == [n \in nodes |-> SetToSortSeq({m \in 1..5 : parent[m] = n}, <)]
      none == [n \in {} |-> 0]
  IN [type |-> [n \in nodes |-> IF n = 0 THEN "document" ELSE IF n = 4 THEN last ELSE "element"],
      tag |-> [n \in nodes |-> IF n \in {0, 4} /\ (n = 0 \/ last = "text") THEN "" ELSE tag[n % 2]],
      parent |-> [n \in nodes |-> IF n = 0 THEN 0 ELSE parent[n]], kids |-> kids,
      attrs |-> [n \in nodes |-> CASE n = 2 -> [class |-> <<"a", "ws", "b">>, id |-> <<"i">>]
                                   [] n = 3 -> [class |-> <<"a">>, href |-> <<"a", "b", "a">>]
                                   [] n = 5 -> [href |-> <<"b">>, disabled |-> <<>>]
                                   [] OTHER -> none],
      state |-> [n \in nodes |-> IF n = 3 THEN {"hover"} ELSE {}]]
Parents == {p \in [1..5 -> 0..3] : \A n \in 1..5 : p[n] < n}
Docs == {Doc(p, t, l) : p \in {q \in Parents : q[4] >= q[3] /\ q[5] >= q[2]},
                        t \in {[k \in 0..1 |-> IF k = 0 THEN "p" ELSE "q"]}, l \in {"element", "text"}}

(* The nodes that a simple selector stands for, and how it is written.     *)
Word(doc, n, name, w) == name \in DOMAIN doc.attrs[n] /\ w \in ToSet(doc.attrs[n][name])
Nth(a, b, i) == \E k \in 0..5 : i = a * k + b
Index(doc, n) == Cardinality({m \in 1..n : doc.parent[m] = doc.parent[n] /\ doc.type[m] = "element"})
IndexBack(doc, n) == Cardinality({m \in n..5 : doc.parent[m] = doc.parent[n] /\ doc.type[m] = "element"})
Selects(doc, n, name) ==
  CASE name = "p" -> doc.tag[n] = "p"
    [] name = "any" -> TRUE
    [] name = "a" -> Word(doc, n, "class", "a")
    [] name = "i" -> Word(doc, n, "id", "i")
    [] name = "href" -> "href" \in DOMAIN doc.attrs[n]
    [] name = "word" -> Word(doc, n, "class", "b")
    [] name = "starts" -> Word(doc, n, "href", "b") /\ doc.attrs[n]["href"][1] = "a"
    [] name = "ends" -> "href" \in DOMAIN doc.attrs[n] /\ doc.attrs[n]["href"] \in {<<"b">>, <<"a", "b">>}
    [] name = "holds" -> "href" \in DOMAIN doc.attrs[n] /\ Len(doc.attrs[n]["href"]) = 3
    [] name = "odd" -> Nth(2, 1, Index(doc, n))
    [] name = "first two" -> Nth(-1, 2, Index(doc, n))
    [] name = "last" -> IndexBack(doc, n) = 1
    [] name = "second last" -> Nth(0, 2, IndexBack(doc, n))
    [] name = "not" -> ~Word(doc, n, "class", "a") /\ doc.tag[n] /= "q"
    [] name = "is" -> Word(doc, n, "class", "b") \/ (doc.tag[n] = "q" /\ Index(doc, n) = 1)
    [] name = "hover" -> "hover" \in doc.state[n]
    [] name = "top" -> doc.parent[n] = 0
Spec(a, b, c) == [a |-> a, b |-> b, c |-> c]
Attr(text) == <<"[", "href">> \o text \o <<"]">>
Pseudo(name, arg) == <<":", name, "(">> \o arg \o <<")">>
Simples == {
  [is |-> "p", text |-> <<"p">>, spec |-> Spec(0, 0, 1)],
  [is |-> "a", text |-> <<".", "a">>, spec |-> Spec(0, 1, 0)],
  [is |-> "any", text |-> <<"*">>, spec |-> Spec(0, 0, 0)],
  [is |-> "i", text |-> <<"#", "i">>, spec |-> Spec(1, 0, 0)],
  [is |-> "href", text |-> Attr(<<>>), spec |-> Spec(0, 1, 0)],
  [is |-> "word", text |-> <<"[", "class", "~", "=", "'", "b", "'", "]">>, spec |-> Spec(0, 1, 0)],
  [is |-> "starts", text |-> Attr(<<"^", "=", "a">>), spec |-> Spec(0, 1, 0)],
  [is |-> "ends", text |-> Attr(<<"$", "=", "'", "b", "'">>), spec |-> Spec(0, 1, 0)],
  [is |-> "holds", text |-> Attr(<<"*", "=", "b", "a">>), spec |-> Spec(0, 1, 0)],
  [is |-> "odd", text |-> Pseudo("nth-child", <<"2", "n", "+", "1">>), spec |-> Spec(0, 1, 0)],
  [is |-> "first two", text |-> Pseudo("nth-child", <<"-", "n", "ws", "+", "2">>), spec |-> Spec(0, 1, 0)],
  [is |-> "last", text |-> <<":", "last-child">>, spec |-> Spec(0, 1, 0)],
  [is |-> "second last", text |-> Pseudo("nth-last-child", <<"2">>), spec |-> Spec(0, 1, 0)],
  [is |-> "not", text |-> Pseudo("not", <<".", "a", ",", "q">>), spec |-> Spec(0, 1, 0)],
  [is |-> "is", text |-> Pseudo("is", <<".", "b", ",", "q", ":", "first-child">>), spec |-> Spec(0, 1, 0)],
  [is |-> "hover", text |-> <<":", "hover">>, spec |-> Spec(0, 1, 0)],
  [is |-> "top", text |-> <<":", "root">>, spec |-> Spec(0, 1, 0)]}
Plain == {s \in Simples : s.is \in {"p", "a", "odd"}}
Printed(comb) == IF comb = "ws" THEN <<"ws">> ELSE <<"ws", comb>>
(* A chain of steps, each a set of simple selectors with the combinator to *)
(* the step before it.                                                     *)
Text(chain) == FlattenSeq([k \in DOMAIN chain |->
  (IF k = 1 THEN <<>> ELSE Printed(chain[k].comb)) \o FlattenSeq([j \in DOMAIN chain[k].simples |-> chain[k].simples[j].text])])
Weight(chain, part) == FoldSeq(LAMBDA step, sum : FoldSeq(LAMBDA s, x : x + s.spec[part], sum, step.simples), 0, chain)

Fits(doc, n, step) == doc.type[n] = "element" /\ \A k \in DOMAIN step.simples : Selects(doc, n, step.simples[k].is)
Reaches(doc, n, comb, m) ==
  CASE comb = ">" -> m = doc.parent[n]
    [] comb = "ws" -> m \in Ancestry(doc, n) \ {n}
    [] comb = "+" -> /\ m < n /\ doc.parent[m] = doc.parent[n]
                     /\ \A k \in (m + 1)..(n - 1) : doc.parent[k] /= doc.parent[n] \/ doc.type[k] /= "element"
    [] comb = "~" -> m < n /\ doc.parent[m] = doc.parent[n] /\ m /= 0
RECURSIVE SelectedBy(_, _, _, _)
SelectedBy(doc, n, chain, k) ==
  Fits(doc, n, chain[k]) /\ (k = 1 \/ \E m \in 0..5 : Reaches(doc, n, chain[k].comb, m) /\ SelectedBy(doc, m, chain, k - 1))
(* Where the first candidate that fits is as good as any other.            *)
FirstIsBest(chain) == \A k \in 3..Len(chain) :
  /\ chain[k].comb = "ws" => chain[k - 1].comb = "ws"
  /\ chain[k].comb = "~" => chain[k - 1].comb /= "+"

(* A selector has the weight of its parts.  It matches no element that the *)
(* combinators, read as relations, do not lead to; and all that they lead  *)
(* to but where a child or sibling combinator stands left of a descendant  *)
(* or sibling one, since matches() never gives up the nearest candidate.   *)
SelectorsMatchAsDefined(grown) ==
  grown.of = "selector" =>
    LET sel == ParseSelector(Text(grown.chain))
        selected(node) == SelectedBy(grown.doc, node, grown.chain, Len(grown.chain))
    IN /\ \A part \in {"a", "b", "c"} : sel.spec[part] = Weight(grown.chain, part)
       /\ \A node \in 1..5 : /\ Matches(grown.doc, node, sel) => selected(node)
                            /\ FirstIsBest(grown.chain) /\ selected(node) => Matches(grown.doc, node, sel)

(********************************* Values **********************************)
(* Each pair of lists of declarations means the same.                      *)
Decl(p, t) == <<p, t>>
Spaced(parts) == FoldLeft(LAMBDA t, part : IF t = <<>> THEN part ELSE t \o <<"ws">> \o part, <<>>, parts)
Boxes == {<<"margin", BoxNames["margin"]>>, <<"padding", BoxNames["padding"]>>, <<"border-width", BorderWidths>>}
BoxSpellings ==
  {[a |-> <<Decl(b[1], Spaced(ts))>>,
    b |-> [k \in 1..4 |-> Decl(b[2][k], ts[IF k <= Len(ts) THEN k ELSE IF k = 4 /\ Len(ts) > 1 THEN 2 ELSE 1])]]
     : b \in Boxes, ts \in SeqOf({<<"1px">>, <<"2em">>, <<"auto">>}, 4) \ {<<>>}}
BorderSpellings ==
  {[a |-> <<Decl(Borders[k], Spaced([j \in 1..3 |-> <<<<"2px">>, <<"solid">>, c>>[p[j]]]))>>,
    b |-> <<Decl(BorderColors[k], c), Decl(BorderWidths[k], <<"2px">>)>>]
     : k \in 1..4, p \in {f \in [1..3 -> 1..3] : \A x, y \in 1..3 : f[x] = f[y] => x = y},
       c \in {<<"red">>, <<"rgb", "(", "1", ",", "ws", "2", ",", "4", ")">>}}
FontSpellings ==
  {[a |-> <<Decl("font", Spaced(st \o wt \o <<sz \o lh>> \o <<<<"mono">>, <<"serif">>>>))>>,
    b |-> (IF st = <<>> THEN <<>> ELSE <<Decl("font-style", st[1])>>)
            \o (IF wt = <<>> THEN <<>> ELSE <<Decl("font-weight", wt[1])>>)
            \o <<Decl("font-size", sz)>> \o (IF lh = <<>> THEN <<>> ELSE <<Decl("line-height", Tail(lh))>>)
            \o <<Decl("font-family", <<"mono", "ws", "serif">>)>>]
     : st \in {<<>>, <<<<"italic">>>>}, wt \in {<<>>, <<<<"bold">>>>}, sz \in {<<"large">>, <<"2em">>, <<"larger">>},
       lh \in {<<>>, <<"/", "2">>, <<"/", "50%">>}}
OtherSpellings ==
  {[a |-> <<Decl("flex", <<"2", "ws", "4", "ws", "1px">>)>>,
    b |-> <<Decl("flex-grow", <<"2">>), Decl("flex-shrink", <<"4">>), Decl("flex-basis", <<"1px">>)>>],
   [a |-> <<Decl("gap", <<"1px", "ws", "2em">>)>>, b |-> <<Decl("row-gap", <<"1px">>), Decl("column-gap", <<"2em">>)>>],
   [a |-> <<Decl("place-items", <<"center", "ws", "baseline">>)>>,
    b |-> <<Decl("align-items", <<"center">>), Decl("justify-items", <<"baseline">>)>>],
   [a |-> <<Decl("place-content", <<"center", "ws", "flex-end">>)>>,
    b |-> <<Decl("align-content", <<"center">>), Decl("justify-content", <<"flex-end">>)>>],
   [a |-> <<Decl("border", <<"none">>)>>, b |-> <<Decl("border-style", <<"none">>)>>],
   [a |-> <<Decl("box-shadow", <<"red", "ws", "1px", "ws", "2px">>)>>,
    b |-> <<Decl("box-shadow", <<"1px", "ws", "2px", "ws", "0", "ws", "red">>)>>]}
Rgb(parts, between, alpha, slash) ==
  <<"rgb", "(">> \o parts[1] \o between \o parts[2] \o between \o parts[3] \o slash \o alpha \o <<")">>
Mix(c, w, d, v) == <<"color-mix", "(", "in", "ws", "srgb", ",", "ws">> \o c \o w \o <<",", "ws">> \o d \o v \o <<")">>
Colors == {<<"red">>, <<"blue">>, Rgb(<<<<"0">>, <<"255">>, <<"0">>>>, <<",">>, <<"50%">>, <<",">>)}
ColorSpellings ==
  {[a |-> <<Decl("color", Rgb(ps, <<",", "ws">>, al, <<",", "ws">>))>>, b |-> <<Decl("color", Rgb(ps, <<"ws">>, al, <<"ws", "/", "ws">>))>>]
     : ps \in {<<<<"255">>, <<"0">>, <<"50%">>>>, <<<<"100%">>, <<"1">>, <<"2">>>>}, al \in {<<"1">>, <<"50%">>, <<"0">>}}
  \cup {[a |-> <<Decl("color", Mix(c, w, d, v))>>, b |-> <<Decl("color", Mix(d, v, c, w))>>]
          : c, d \in Colors, w, v \in {<<>>, <<"ws", "50%">>, <<"ws", "100%">>}}
  \cup {[a |-> <<Decl("color", Mix(c, <<"ws", "100%">>, d, <<>>))>>, b |-> <<Decl("color", c)>>] : c, d \in Colors}
Spellings == BoxSpellings \cup BorderSpellings \cup FontSpellings \cup OtherSpellings \cup ColorSpellings
Declare(ds) == LET parent == [Initial EXCEPT !["font-size"] = 20]
               IN FoldLeft(LAMBDA s, d : ApplyProperty(s, parent, d[1], d[2]), parent, ds)

(* Sums of products, written with the parentheses they need.               *)
Leaf(l, n) == [text |-> <<l>>, sum |-> FALSE, value |-> n]
Lengths2 == {Leaf("2px", 2), Leaf("2em", 40), Leaf("50%", 100)}
Paren(e) == IF e.sum THEN <<"(">> \o e.text \o <<"ws", ")">> ELSE e.text
Sums(es) == {[text |-> d.text \o <<"ws", "+", "ws">> \o e.text, sum |-> TRUE, value |-> d.value + e.value] : d, e \in es}
       \cup {[text |-> d.text \o <<"ws", "-", "ws">> \o Paren(e), sum |-> TRUE, value |-> d.value - e.value] : d, e \in es}
Fours(es) == {[text |-> Paren(e) \o <<"ws", "*", "4">>, sum |-> FALSE, value |-> 4 * e.value] : e \in es}
        \cup {[text |-> <<"4", "*">> \o Paren(e), sum |-> FALSE, value |-> 4 * e.value] : e \in es}
(* Only even coefficients are halved.                                      *)
Halved(es) == {[text |-> Paren(e) \o <<"/", "2">>, sum |-> FALSE, value |-> e.value \div 2] : e \in es}
Calcs == LET two == Sums(Lengths2)
             flat == Lengths2 \cup two \cup Fours(Lengths2) \cup Halved(Lengths2)
         IN Sums(flat) \cup Fours(two \cup Halved(two)) \cup Halved(two \cup Fours(two))

(* A shorthand is its longhands, in any order that it allows; two ways to  *)
(* write a colour give the same one; and calc() computes what it says.     *)
SpellingsAgree(grown) ==
  /\ grown.of = "spelling" => Declare(grown.same.a) = Declare(grown.same.b)
  /\ grown.of = "calc" =>
       Resolve(ParseLength(<<"calc", "(">> \o grown.calc.text \o <<")">>), 20, 200) = grown.calc.value

(******************************** Cascade **********************************)
(* The document: 1 holds 2 and 4, 2 holds the text 3.                      *)
Page(class2, style4) ==
  LET none == [k \in {} |-> 0]
  IN [type |-> [n \in 0..4 |-> IF n = 0 THEN "document" ELSE IF n = 3 THEN "text" ELSE "element"],
      tag |-> [n \in 0..4 |-> IF n \in {1, 4} THEN "p" ELSE IF n = 2 THEN "q" ELSE ""],
      parent |-> [n \in 0..4 |-> CASE n \in {0, 1} -> 0 [] n = 3 -> 2 [] OTHER -> 1],
      kids |-> [n \in 0..4 |-> CASE n = 0 -> <<1>> [] n = 1 -> <<2, 4>> [] n = 2 -> <<3>> [] OTHER -> <<>>],
      attrs |-> [n \in 0..4 |-> IF n = 2 /\ class2 THEN [class |-> <<"a">>]
                                ELSE IF n = 4 /\ style4 /= <<>> THEN [id |-> <<"i">>, style |-> style4]
                                ELSE IF n = 4 THEN [id |-> <<"i">>] ELSE none],
      state |-> [n \in 0..4 |-> {}]]
(* A selector: what it selects in that document, and its rank.             *)
On == <<[text |-> <<"p">>, on |-> {1, 4}, rank |-> 1], [text |-> <<".", "a">>, on |-> {2}, rank |-> 10],
        [text |-> <<"#", "i">>, on |-> {4}, rank |-> 100], [text |-> <<"*">>, on |-> {1, 2, 4}, rank |-> 0]>>
Given(p, v, i) == [property |-> p, value |-> v, important |-> i]
Var(name, fallback) == <<"var", "(", "--", name>> \o fallback \o <<")">>
Decls == {<<Given(<<"color">>, <<"red">>, FALSE)>>, <<Given(<<"color">>, <<"blue">>, TRUE)>>,
          <<Given(<<"--", "x">>, <<"blue">>, FALSE)>>, <<Given(<<"--", "x">>, Var("y", <<>>), FALSE)>>,
          <<Given(<<"--", "y">>, <<"red">>, FALSE), Given(<<"width">>, <<"1px">>, FALSE)>>,
          <<Given(<<"color">>, Var("x", <<>>), FALSE)>>, <<Given(<<"color">>, Var("x", <<",", "ws", "red">>), FALSE)>>,
          <<Given(<<"width">>, <<"inherit">>, FALSE), Given(<<"color">>, <<"inherit">>, FALSE)>>}
RuleChoices == [on : DOMAIN On, decls : Decls, origin : {"author"}, media : {<<>>}]
          \cup [on : {2, 3}, decls : {ds \in Decls : ds[1].value \in {<<"red">>, <<"blue">>}}, origin : {"user agent"}, media : {<<>>}]
          \cup [on : {1, 2}, decls : {<<Given(<<"color">>, <<"red">>, FALSE)>>}, origin : {"author"},
                media : {<<"screen", "ws", "(", "min-width", ":", "600px", ")">>, <<"print", ",", "(", "max-width", ":", "600px", ")">>}]
Styles == {<<>>, <<"color", ":", "red", ";", "--", "x", ":", "red">>}
Viewport == [w |-> 800, h |-> 400]
Holds(media) == media = <<>> \/ media[1] = "screen"
Ranks == {[p \in {<<"color">>, <<"width">>} |-> IF p = first THEN 1 ELSE 2] : first \in {<<"color">>, <<"width">>}}
RulesOf(rs) == FoldLeft(LAMBDA all, r :
  AddStylesheet(all, <<[selectors |-> <<On[r.on].text>>, decls |-> r.decls, media |-> r.media]>>, r.origin), <<>>, rs)

(* The declarations for a property of a node, as places in rs with a       *)
(* place in the block, and the inline style; the best has the highest key. *)
Weighty(rs, c) ==
  IF c[1] = 0 THEN <<0, 3, 0, 0>>
  ELSE <<IF rs[c[1]].decls[c[2]].important THEN 1 ELSE 0, Origins[rs[c[1]].origin], On[rs[c[1]].on].rank, c[1]>>
Higher(x, y) == \E k \in 1..4 : x[k] > y[k] /\ \A j \in 1..(k - 1) : x[j] = y[j]
Best(rs, style4, class2, n, p) ==
  LET all == {<<r, d>> \in (DOMAIN rs) \X (1..2) :
                d <= Len(rs[r].decls) /\ rs[r].decls[d].property = p /\ Holds(rs[r].media)
                  /\ n \in On[rs[r].on].on /\ (n = 2 /\ ~class2 => rs[r].on = 4)}
      inline == IF n = 4 /\ style4 /= <<>> /\ p \in {<<"color">>, <<"--", "x">>} THEN {<<0, 1>>} ELSE {}
      best == {c \in all \cup inline : \A d \in all \cup inline : ~Higher(Weighty(rs, d), Weighty(rs, c))}
  IN IF best = {} THEN <<>> ELSE LET c == CHOOSE b \in best : TRUE
                                IN IF c[1] = 0 THEN <<"red">> ELSE rs[c[1]].decls[c[2]].value
RECURSIVE ValueOf(_, _, _, _, _)
ValueOf(rs, style4, class2, n, p) ==
  LET own == Best(rs, style4, class2, n, p)
      up == IF n = 1 THEN <<>> ELSE ValueOf(rs, style4, class2, 1, p)
      x == ValueOf(rs, style4, class2, n, <<"--", "x">>)
      y == ValueOf(rs, style4, class2, n, <<"--", "y">>)
      at(v) == IF v = Var("y", <<>>) THEN y ELSE v
  IN CASE p = <<"width">> -> IF own = <<"inherit">> THEN <<>> ELSE own
       [] p /= <<"width">> /\ own = <<>> -> up
       [] p = <<"color">> /\ own = <<"inherit">> -> up
       [] p = <<"color">> /\ own = Var("x", <<>>) -> IF at(x) = <<>> THEN up ELSE at(x)
       [] p = <<"color">> /\ own = Var("x", <<",", "ws", "red">>) -> IF at(x) = <<>> THEN <<"red">> ELSE at(x)
       [] OTHER -> own
FollowsTheCascade(rs, style4, class2) ==
  \A rank \in Ranks : LET styles == ResolveAll(Page(class2, style4), RulesOf(rs), Viewport, rank) IN
    \A n \in {1, 2, 4} :
      /\ LET color == ValueOf(rs, style4, class2, n, <<"color">>)
         IN styles[n].own.style["color"] = IF color = <<>> THEN Initial["color"] ELSE NamedColors[color[1]]
      /\ LET width == ValueOf(rs, style4, class2, n, <<"width">>)
         IN styles[n].own.style["width"] = IF width = <<>> THEN Auto ELSE Px(1)
(* Nodes 2 and 4 change, and what is recomputed is as if all were.         *)
RecomputingIsResolving(rs) ==
  \A dirty \in {<<2, 4>>, <<4, 1, 2>>} :
    LET rank == CHOOSE r \in Ranks : TRUE
        old == ResolveAll(Page(TRUE, <<>>), RulesOf(rs), Viewport, rank)
        page == Page(FALSE, <<"color", ":", "red", ";", "--", "x", ":", "red">>)
    IN Recompute(old, page, dirty, RulesOf(rs), Viewport, rank) = ResolveAll(page, RulesOf(rs), Viewport, rank)

(* Every element has, whatever the order in which the winners are applied, *)
(* the value of the declaration that importance, origin, specificity and   *)
(* order put first, its references replaced, or else the inherited or      *)
(* initial one; and recomputing what changed gives what resolving the      *)
(* whole document would.                                                   *)
StylesFollowTheCascade(grown) ==
  grown.of = "cascade" => /\ \A class2 \in BOOLEAN, style4 \in Styles : FollowsTheCascade(grown.rules, style4, class2)
                            /\ RecomputingIsResolving(grown.rules)

CssBegin == subject.of = "nothing" /\
           \/ subject' = [of |-> "sheet", items |-> <<>>]
           \/ \E c \in Conditions : subject' = [of |-> "condition", condition |-> c]
           \/ \E d \in Docs, s \in Simples : subject' = [of |-> "selector", doc |-> d, chain |-> <<[comb |-> "ws", simples |-> <<s>>]>>]
           \/ \E sp \in Spellings : subject' = [of |-> "spelling", same |-> sp]
           \/ \E c \in Calcs : subject' = [of |-> "calc", calc |-> c]
           \/ subject' = [of |-> "cascade", rules |-> <<>>]
AddItem == subject.of = "sheet" /\ Len(subject.items) < MaxItems
             /\ \E item \in Items : subject' = [subject EXCEPT !.items = Append(@, item)]
AddStep == subject.of = "selector" /\ Len(subject.chain) < MaxSteps
             /\ \A k \in DOMAIN subject.chain : Len(subject.chain[k].simples) = 1 /\ (MaxSteps > 2 => subject.chain[k].simples[1] \in Plain)
             /\ \E c \in {"ws", ">", "+", "~"}, s \in Plain :
                  subject' = [subject EXCEPT !.chain = Append(@, [comb |-> c, simples |-> <<s>>])]
AddSimple == subject.of = "selector" /\ Len(subject.chain) = 1 /\ Len(subject.chain[1].simples) = 1
               /\ \E s \in Simples : /\ s.is \notin {"p", "any"}
                                     /\ subject' = [subject EXCEPT !.chain[1].simples = Append(@, s)]
AddRule == subject.of = "cascade" /\ Len(subject.rules) < MaxItems
             /\ \E r \in RuleChoices : subject' = [subject EXCEPT !.rules = Append(@, r)]
CssNext == CssBegin \/ AddRule \/ AddItem \/ AddStep \/ AddSimple
=============================================================================
