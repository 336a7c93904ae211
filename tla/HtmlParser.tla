----------------------------- MODULE HtmlParser -----------------------------
(***************************************************************************)
(* The HTML parser (html/html_parser.cpp): one pass that reads tags and    *)
(* text, keeps the stack of open elements and appends to the element on    *)
(* top of it.  A text is a sequence of lexemes: "<", "/", ">", "=", the    *)
(* quotes, "&", ";", "ws", "<!--", "-->", "<!" and words.  A document is   *)
(* the sequence of its nodes in the order of their creation, each with the *)
(* place of its parent; 0 is the document, or the context of a fragment.   *)
(***************************************************************************)
EXTENDS Naturals, Sequences, SequencesExt

IsVoid(tag) == tag \in {"area", "base", "br", "col", "embed", "hr", "img", "input", "link", "meta", "param",
                        "source", "track", "wbr"}
IsRawText(tag) == tag \in {"script", "style", "textarea", "title"}
ClosesP(tag) == tag \in {"address", "article", "aside", "blockquote", "div", "dl", "fieldset", "footer", "form",
                         "h1", "h2", "h3", "h4", "header", "hr", "ol", "p", "ul"}
Lower(w) == IF w = "DIV" THEN "div" ELSE w
(* Of the entities, the two that the models write.                         *)
Entities == [e \in {"amp", "#60"} |-> IF e = "amp" THEN "&" ELSE "<"]

(* The first place from i on that holds one of the lexemes, or the end.    *)
Find(t, i, stops) ==
  LET places == {j \in i..Len(t) : t[j] \in stops} \cup {Len(t) + 1}
  IN CHOOSE j \in places : \A k \in places : j <= k
Holds(t, i, l) == i <= Len(t) /\ t[i] = l
Between(t, i, j) == SubSeq(t, i, j - 1)

RECURSIVE DecodeEntities(_)
DecodeEntities(t) ==
  LET i == Find(t, 1, {"&"})
      semi == Find(t, i + 1, {";"})
      known == semi = i + 2 /\ semi <= Len(t) /\ t[i + 1] \in DOMAIN Entities
  IN IF i > Len(t) THEN t
     ELSE Between(t, 1, i) \o <<IF known THEN Entities[t[i + 1]] ELSE "&">>
            \o DecodeEntities(SubSeq(t, (IF known THEN semi ELSE i) + 1, Len(t)))

NoResult == [scripts |-> <<>>, stylesheets |-> <<>>, externalStyles |-> <<>>]
Builder(t, context) ==
  [t |-> t, i |-> 1, stack |-> <<0>>, context |-> context, nodes |-> <<>>, result |-> NoResult]
Current(b) == b.stack[Len(b.stack)]
TagOf(b, n) == IF n = 0 THEN b.context ELSE b.nodes[n].tag
TopName(b) == TagOf(b, Current(b))
Element(tag, attrs, parent) == [tag |-> tag, attrs |-> attrs, text |-> <<>>, parent |-> parent]
Text(text, parent) == [tag |-> "#text", attrs |-> <<>>, text |-> text, parent |-> parent]
Appended(b, node) == [b EXCEPT !.nodes = Append(@, node)]
WithText(b, text) == IF text = <<>> THEN b ELSE Appended(b, Text(text, Current(b)))

(* Pops up to and including the nearest open element of that name; without *)
(* one, nothing.  The bottom of the stack stays.                           *)
CloseTo(b, tag) ==
  LET open == {k \in 2..Len(b.stack) : TagOf(b, b.stack[k]) = tag}
  IN IF open = {} THEN b
     ELSE [b EXCEPT !.stack = SubSeq(@, 1, (CHOOSE k \in open : \A j \in open : j <= k) - 1)]

(* End tags that a start tag implies: they look at the top of the stack.   *)
CloseTop(b, tags) == IF TopName(b) \in tags THEN CloseTo(b, TopName(b)) ELSE b
RECURSIVE CloseSection(_)
CloseSection(b) ==
  IF TopName(b) \in {"td", "th", "tr", "thead", "tbody", "tfoot"} /\ Len(b.stack) > 1
  THEN CloseSection(CloseTo(b, TopName(b))) ELSE b
KeepOpen(b, tag) == b                                                  \* mutant
ApplyImpliedEnd(b, tag) ==
  CASE tag = "li" -> CloseTop(b, {"li"})
    [] tag \in {"dt", "dd"} -> CloseTop(b, {"dt", "dd"})
    [] tag \in {"option", "optgroup"} -> CloseTop(b, {"option"})
    [] tag \in {"td", "th"} -> CloseTop(b, {"td", "th"})
    [] tag = "tr" -> CloseTop(CloseTop(b, {"td", "th"}), {"tr"})
    [] tag \in {"thead", "tbody", "tfoot"} -> CloseSection(b)
    [] OTHER -> b

SkipSpaces(t, i) == LET ends == {j \in i..(Len(t) + 1) : ~Holds(t, j, "ws")}
                    IN CHOOSE j \in ends : \A k \in ends : j <= k
NameEnd(t, i) == Find(t, i, {">", "/", "ws"})
NameOf(t, i) == LET name == Between(t, i, NameEnd(t, i)) IN IF name = <<>> THEN "" ELSE Lower(name[1])

(* Attributes up to the end of the tag; a slash makes the tag self-closing *)
(* wherever it stands outside a value.                                     *)
RECURSIVE ParseAttributes(_, _, _)
ParseAttributes(t, from, so) ==
  LET i == SkipSpaces(t, from)
      end == Find(t, i, {"=", ">", "/", "ws"})
      eq == SkipSpaces(t, end)
      v == SkipSpaces(t, eq + 1)
      quoted == v <= Len(t) /\ t[v] \in {"'", "dquote"}
      vend == IF quoted THEN Find(t, v + 1, {t[v]}) ELSE Find(t, v, {">", "ws"})
      value == DecodeEntities(Between(t, IF quoted THEN v + 1 ELSE v, vend))
      next == IF ~Holds(t, eq, "=") THEN eq ELSE IF quoted /\ vend <= Len(t) THEN vend + 1 ELSE vend
      attr == [name |-> Between(t, i, end), value |-> IF Holds(t, eq, "=") THEN value ELSE <<>>]
  IN IF i > Len(t) THEN [so EXCEPT !.i = i]
     ELSE IF t[i] = ">" THEN [so EXCEPT !.i = i + 1]
     ELSE IF t[i] = "/" THEN ParseAttributes(t, i + 1, [so EXCEPT !.closing = TRUE])
     ELSE ParseAttributes(t, next, IF attr.name = <<>> THEN so ELSE [so EXCEPT !.attrs = Append(@, attr)])

(* Raw text ends at "</" and the tag's name, in lower case.                *)
RawEnd(t, i, tag) ==
  LET ends == {j \in i..Len(t) : t[j] = "<" /\ Holds(t, j + 1, "/") /\ Holds(t, j + 2, tag)} \cup {Len(t) + 1}
  IN CHOOSE j \in ends : \A k \in ends : j <= k

ValueOfAttr(attrs, name) ==
  LET all == SelectSeq(attrs, LAMBDA a : a.name = <<name>>)
  IN IF all = <<>> THEN <<>> ELSE all[Len(all)].value
HasName(attrs, name) == \E k \in DOMAIN attrs : attrs[k].name = <<name>>
(* An external script has its src, an inline one its content.              *)
ScriptItem(attrs, content) ==
  [external |-> HasName(attrs, "src"), async |-> HasName(attrs, "async"), defer |-> HasName(attrs, "defer"),
   text |-> IF HasName(attrs, "src") THEN ValueOfAttr(attrs, "src") ELSE content]
Collected(b, tag, attrs, content) ==
  CASE tag = "script" -> [b EXCEPT !.result.scripts = Append(@, ScriptItem(attrs, content))]
    [] tag = "style" -> [b EXCEPT !.result.stylesheets = Append(@, content)]
    [] tag = "link" /\ "stylesheet" \in ToSet(ValueOfAttr(attrs, "rel")) /\ ValueOfAttr(attrs, "href") /= <<>> ->
         [b EXCEPT !.result.externalStyles = Append(@, ValueOfAttr(attrs, "href"))]
    [] OTHER -> b

ParseStartTag(b) ==
  LET tag == NameOf(b.t, b.i + 1)
      closed == ApplyImpliedEnd(IF ClosesP(tag) THEN CloseTo(b, "p") ELSE b, tag)
      so == ParseAttributes(b.t, NameEnd(b.t, b.i + 1), [i |-> 0, attrs |-> <<>>, closing |-> FALSE])
      el == Len(b.nodes) + 1
      opened == [Appended(closed, Element(tag, so.attrs, Current(closed))) EXCEPT !.i = so.i]
      end == RawEnd(b.t, so.i, tag)
      content == Between(b.t, so.i, end)
      raw == [(IF content = <<>> THEN opened ELSE Appended(opened, Text(content, el)))
                EXCEPT !.i = Find(b.t, end, {">"}) + 1]
  IN IF tag = "" THEN [WithText(b, <<"<">>) EXCEPT !.i = @ + 1]
     ELSE IF IsRawText(tag) THEN Collected(raw, tag, so.attrs, content)
     ELSE IF so.closing \/ IsVoid(tag) THEN Collected(opened, tag, so.attrs, <<>>)
     ELSE [opened EXCEPT !.stack = Append(@, el)]

ParseEndTag(b) ==
  CloseTo([b EXCEPT !.i = Find(b.t, NameEnd(b.t, b.i + 2), {">"}) + 1], NameOf(b.t, b.i + 2))
ParseText(b) ==
  LET end == Find(b.t, b.i, {"<", "<!--", "<!"})
  IN [WithText(b, DecodeEntities(Between(b.t, b.i, end))) EXCEPT !.i = end]

RECURSIVE Run(_)
Run(b) ==
  LET t == b.t
      i == b.i
  IN IF i > Len(t) THEN b
     ELSE Run(CASE t[i] = "<!--" -> [b EXCEPT !.i = Find(t, i + 1, {"-->"}) + 1]
                [] t[i] = "<!" -> [b EXCEPT !.i = Find(t, i + 1, {">"}) + 1]
                [] t[i] = "<" /\ Holds(t, i + 1, "/") -> ParseEndTag(b)
                [] t[i] = "<" /\ ~Holds(t, i + 1, "/") -> ParseStartTag(b)
                [] OTHER -> ParseText(b))
ParseHtml(t, context) == Run(Builder(t, context))
=============================================================================
