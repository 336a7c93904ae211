------------------------------ MODULE MCPage ------------------------------
(***************************************************************************)
(* What is around the scripts of a page, checked in one run. From text to  *)
(* places: HTML to a tree, CSS to rules, selectors and styles, styled      *)
(* trees to boxes. And the services of the page: fetches and the cache,    *)
(* storage, the frames of a WebSocket, the Electron host and service       *)
(* workers. A subject is of one of them and grows step by step; the        *)
(* modules named here say how, and what must hold.                         *)
(***************************************************************************)
EXTENDS HtmlParser, WebSocketFrames

CONSTANTS MaxNodes,                        \* at the top of a document
          MaxItems, MaxSteps,              \* of a sheet and of a selector (MCCss)
          ViewportWidth, ViewportHeight,   \* in pixels (Layout)
          MaxKids,                         \* of a container (MCLayout)
          MaxVersion, MaxFetches,          \* of a representation and of a page (MCServices)
          MaxWrites,                       \* to the stores (MCServices)
          MaxOps, MaxListeners,            \* of a script and of a service worker (MCServices)
          MaxFrames, MaxLength             \* of a stream and of a payload

VARIABLE subject

Css      == INSTANCE MCCss
Boxes    == INSTANCE MCLayout
Services == INSTANCE MCServices

-----------------------------------------------------------------------------
(* Documents written from their trees, with and without the end tags that  *)
(* may be left out, and parsed again.                                      *)

T(text, means) == [tag |-> "#text", text |-> text, means |-> means]
E(tag, attrs, kids, open) == [tag |-> tag, attrs |-> attrs, kids |-> kids, open |-> open]
Attr(name, value, text) == [name |-> <<name>>, value |-> value, text |-> text]
Href == Attr("href", <<"x", ">">>, <<"ws", "href", "ws", "=", "'", "x", ">", "'">>)
Texts == {T(<<"w", "ws", "&", "amp", ";">>, <<"w", "ws", "&">>), T(<<"&", "w", "&", "#60", ";">>, <<"&", "w", "<">>)}
W == CHOOSE t \in Texts : TRUE
Void == {E("img", <<Attr("alt", <<>>, <<"ws", "alt">>), Href>>, <<>>, FALSE), E("br", <<>>, <<>>, FALSE)}
Raw == {E("script", <<>>, <<T(<<"<", "p", "&", "amp", ";">>, <<"<", "p", "&", "amp", ";">>)>>, FALSE),
        E("script", <<Attr("src", <<"/", "u">>, <<"ws", "src", "=", "/", "u">>), Attr("defer", <<>>, <<"ws", "defer">>)>>, <<>>, FALSE),
        E("style", <<>>, <<T(<<"<", "/", "p", ">">>, <<"<", "/", "p", ">">>)>>, FALSE),
        E("link", <<Attr("rel", <<"stylesheet">>, <<"ws", "rel", "=", "dquote", "stylesheet", "dquote">>), Href>>, <<>>, FALSE)}
Inline == Texts \cup Void \cup {E("b", <<>>, <<W>>, FALSE)}
Of(tag, kids, opens) == {E(tag, <<>>, ks, o) : ks \in kids, o \in opens}
Paragraphs == Of("p", {<<>>} \cup {<<i>> : i \in Inline} \cup {<<W, E("b", <<>>, <<W>>, FALSE)>>}, BOOLEAN)
Items == Of("li", {<<W>>, <<E("p", <<>>, <<W>>, FALSE), W>>}, BOOLEAN) \cup Of("li", {<<E("p", <<>>, <<W>>, TRUE)>>}, {FALSE})
Cells == Of("td", {<<W>>}, BOOLEAN)
Rows == Of("tr", {<<c>> : c \in Cells} \cup {<<c, d>> : c, d \in Cells}, BOOLEAN)
Lists == Of("ul", {<<i>> : i \in Items} \cup {<<i, j>> : i, j \in Items}, {FALSE})
Tables == Of("table", {<<r, s>> : r, s \in Rows}, {FALSE})
            \cup Of("table", {<<E("thead", <<>>, <<r>>, o), E("tbody", <<>>, <<r>>, o)>> : r \in Rows, o \in BOOLEAN}, {FALSE})
Small == Texts \cup Void \cup Raw \cup Of("p", {<<>>, <<W>>}, BOOLEAN)
           \cup Of("div", {<<W>>, <<E("p", <<>>, <<W>>, TRUE)>>, <<E("p", <<>>, <<W>>, TRUE), E("div", <<>>, <<>>, FALSE)>>}, {FALSE})
Nodes == Inline \cup Raw \cup Paragraphs \cup Lists \cup Tables \cup Small

(* Whether an end tag may be left out before a node with that tag, or      *)
(* before the end tag of the parent ("end"); "open" if that is left out    *)
(* too, and "then" is what follows the parent.                             *)
MayOmit(tag, next, then) ==
  CASE tag = "p" -> next = "end" \/ ClosesP(next)
    [] tag = "li" -> next \in {"li", "end"}
    [] tag = "td" -> next \in {"td", "end"} \/ (next = "open" /\ then \in {"tr", "tbody", "end"})
    [] tag = "tr" -> next \in {"tr", "end"} \/ (next = "open" /\ then \in {"tbody", "end"})
    [] tag = "thead" -> next \in {"tbody", "end"}
    [] tag = "tbody" -> next = "end"
    [] OTHER -> FALSE
RECURSIVE Write(_, _, _)
WriteOne(node, next, then) ==
  LET omit == node.open /\ MayOmit(node.tag, next, then)
      start == <<"<", node.tag>> \o FlattenSeq([k \in DOMAIN node.attrs |-> node.attrs[k].text])
                 \o <<IF node.attrs = <<>> /\ IsVoid(node.tag) THEN "/" ELSE "ws", ">">>
  IN IF node.tag = "#text" THEN node.text
     ELSE IF IsVoid(node.tag) THEN start
     ELSE start \o Write(node.kids, IF omit THEN "open" ELSE "end", IF omit /\ next = "open" THEN then ELSE next)
            \o (IF omit THEN <<>> ELSE <<"<", "/", node.tag, ">">>)
(* last is what comes after the last of the nodes.                         *)
Write(nodes, last, then) ==
  FlattenSeq([k \in DOMAIN nodes |-> WriteOne(nodes[k], IF k < Len(nodes) THEN nodes[k + 1].tag ELSE last, then)])

(* The nodes of a tree in document order, under a parent.                  *)
RECURSIVE Listed(_, _, _)
Listed(nodes, parent, sofar) ==
  IF nodes = <<>> THEN sofar
  ELSE LET n == nodes[1]
           here == Append(sofar, IF n.tag = "#text" THEN Text(n.means, parent)
                                 ELSE Element(n.tag, [k \in DOMAIN n.attrs |-> [name |-> n.attrs[k].name, value |-> n.attrs[k].value]], parent))
           below == IF n.tag = "#text" THEN here ELSE Listed(n.kids, Len(here), here)
       IN Listed(Tail(nodes), parent, below)
Kept(nodes, tag) == SelectSeq(nodes, LAMBDA n : n.tag = tag)
ContentOf(n) == IF n.kids = <<>> THEN <<>> ELSE n.kids[1].means

(* A document becomes the tree it is written from, whichever of the end    *)
(* tags that may be left out are left out, and its scripts and style       *)
(* sheets are collected in document order.                                 *)
DocumentsParseAsWritten(grown) ==
  grown.of = "html" =>
    LET b == ParseHtml(grown.before \o Write(grown.nodes, "end", "end"), grown.context)
        plain(n) == [k \in DOMAIN n.attrs |-> [name |-> n.attrs[k].name, value |-> n.attrs[k].value]]
    IN /\ b.nodes = Listed(grown.nodes, 0, <<>>)
       /\ b.result.scripts = [k \in DOMAIN Kept(grown.nodes, "script") |->
                                LET n == Kept(grown.nodes, "script")[k] IN ScriptItem(plain(n), ContentOf(n))]
       /\ b.result.stylesheets = [k \in DOMAIN Kept(grown.nodes, "style") |-> ContentOf(Kept(grown.nodes, "style")[k])]
       /\ Len(b.result.externalStyles) = Len(Kept(grown.nodes, "link"))

Preamble == <<"<!", "x", ">", "<!--", "<", "p", ">", "-->">>
HtmlBegin == subject.of = "nothing" /\ \E c \in {"", "p", "td"} :
              subject' = [of |-> "html", nodes |-> <<>>, context |-> c, before |-> IF c = "td" THEN Preamble ELSE <<>>]
HtmlGrow == /\ subject.of = "html" /\ Len(subject.nodes) < MaxNodes
            /\ \E n \in IF Len(subject.nodes) = 0 THEN Nodes ELSE Small :
                 /\ n.tag = "#text" => "#text" \notin {subject.nodes[k].tag : k \in DOMAIN subject.nodes \cap {Len(subject.nodes)}}
                 /\ subject' = [subject EXCEPT !.nodes = Append(@, n)]
HtmlNext == HtmlBegin \/ HtmlGrow

-----------------------------------------------------------------------------
(* A peer sends messages in fragments, with control frames between them;   *)
(* the stream is cut anywhere before it is fed to the receiver.  A subject *)
(* of frames is the stream on its way, the receiver and the messages.      *)

Key == <<1, 0, 1, 1>>
Payloads == {<<>>, <<1>>, <<1, 0>>, [i \in 1..MaxLength |-> i % 2]}

FramesInit == subject = [of |-> "frames", count |-> 0, open |-> <<>>, sent |-> <<>>, wire |-> <<>>,
                         receiver |-> NewReceiver, got |-> <<>>]

Wrote(bytes, open, sent) ==
  subject' = [subject EXCEPT !.count = @ + 1, !.open = open, !.sent = @ \o sent, !.wire = @ \o bytes]

FramesNext ==
  /\ subject.of = "frames"
  /\ \/ /\ subject.count < MaxFrames
        /\ \E p \in Payloads, mask \in {<<>>, Key}, fin \in BOOLEAN :
             \/ /\ subject.open = <<>>
                /\ Wrote(EncodeFrame("text", p, fin, mask), IF fin THEN <<>> ELSE <<p>>, IF fin THEN <<Message("text", p)>> ELSE <<>>)
             \/ /\ subject.open # <<>>
                /\ LET whole == subject.open[1] \o p
                   IN  Wrote(EncodeFrame("continuation", p, fin, mask), IF fin THEN <<>> ELSE <<whole>>,
                             IF fin THEN <<Message("text", whole)>> ELSE <<>>)
             \/ fin /\ p = <<1>> /\ Wrote(WholeFrame("ping", p, mask), subject.open, <<Message("ping", p)>>)
             \/ fin /\ p = <<1>> /\ Wrote(CloseFrame(3, p, mask), subject.open, <<Message("close", <<1, 1>> \o p)>>)
     \/ \E n \in 1..Len(subject.wire) :
          /\ n \in {1, 3, Len(subject.wire)}
          /\ LET fed == Feed(subject.receiver, SubSeq(subject.wire, 1, n))
             IN  subject' = [subject EXCEPT !.wire = SubSeq(@, n + 1, Len(@)), !.receiver = fed.r, !.got = @ \o fed.out]

-----------------------------------------------------------------------------

Init == subject = [of |-> "nothing"] \/ FramesInit \/ Services!FetchInit \/ Services!StorageInit \/ Services!HostsInit
Next ==
  \/ HtmlNext \/ Css!CssNext \/ Boxes!LayoutNext
  \/ FramesNext \/ Services!FetchNext \/ Services!StorageNext \/ Services!HostsNext
Spec == Init /\ [][Next]_subject

\* A document becomes the tree it was written from, end tags or not (HtmlParser::parse),
\* and a sheet the rules it was written from, whatever stands in its strings, blocks and
\* conditions (CssParser::parse).
TextsParseAsWritten ==
  [][\A grown \in {subject'} : DocumentsParseAsWritten(grown) /\ Css!SheetsParseAsWritten(grown)]_subject
\* A selector matches the elements that its definition names (selector::matches).
SelectorsMatchAsDefined == [][\A grown \in {subject'} : Css!SelectorsMatchAsDefined(grown)]_subject
\* Every element has the values of the declarations the cascade puts first, in whichever
\* of the spellings that mean the same they are written (StyleResolver).
StylesFollowTheCascade ==
  [][\A grown \in {subject'} : Css!SpellingsAgree(grown) /\ Css!StylesFollowTheCascade(grown)]_subject
\* Boxes are where their kind of layout says, and what is in a box that was moved has
\* moved with it (LayoutEngine).
BoxesAreInPlace ==
  [][\A grown \in {subject'} : Boxes!BoxesAreInPlace(grown) /\ Boxes!ContentsFollowTheirBox(grown)]_subject

\* However the stream is cut, the messages that come out are those that went in,
\* in their order, as soon as their last byte is there; nothing is left over.
\* ws_encode_frame, ws_decode_frame, WebSocket::feed.
MessagesArriveWhole ==
  subject.of = "frames" =>
    /\ IsPrefix(subject.got, subject.sent)
    /\ subject.wire = <<>> => subject.got = subject.sent /\ subject.receiver.rx = <<>>
                              /\ (subject.open # <<>> <=> subject.receiver.fragmenting)

\* A page gets what the server holds, or what it may use unasked (FetchEngine::fetch).
FetchesAreCurrent == Services!FetchesAreCurrent
\* Each store holds the last write of each key (CookieStore, StorageEngine).
StoresAreLastWrites == Services!StoresAreLastWrites
\* A message goes once to every handler of its channel, in order (ElectronRuntime), and
\* a fetch of a worker's page is answered by the last promise given (ServiceWorkerHost).
HandlersAnswer == Services!MessagesReachHandlers /\ Services!FetchesAreAnswered
=============================================================================
