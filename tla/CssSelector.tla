---------------------------- MODULE CssSelector ----------------------------
(***************************************************************************)
(* Selectors: how they are parsed, how specific they are and what they     *)
(* match (css/selector/selector.cpp), and the questions that               *)
(* CSS.supports() asks about them and about declarations                   *)
(* (css/parser/css_parser.cpp).  A document is a record: type, tag, parent *)
(* and kids of every node, the attributes (sequences of lexemes) and the   *)
(* set of interaction states; node 0 is its root.                          *)
(***************************************************************************)
EXTENDS CssParser, Integers

Combinators == {">", "+", "~"}
Ends == Combinators \cup {"ws", ","}
Symbols == Ends \cup {"*", ".", "#", "[", "]", "=", "^", "$", ":", "(", ")", "&"} \cup Quotes
IsName(l) == l \notin Symbols
Digits == [d \in {"1", "2", "3"} |-> CASE d = "1" -> 1 [] d = "2" -> 2 [] d = "3" -> 3]

NoCompound == [tag |-> "", universal |-> FALSE, id |-> "", classes |-> {}, attrs |-> {}, pseudos |-> {}]
(* A parse in progress: what is read so far, where, and the counts of ids, *)
(* classes and tags.                                                       *)
Begun(t, i, spec, element) ==
  [t |-> t, i |-> i, comp |-> NoCompound, spec |-> spec, element |-> element, ok |-> FALSE]
Read(p, n, part) == [p EXCEPT !.i = @ + n, !.ok = TRUE, !.spec[part] = @ + 1]
NameAt(t, i) == IF i <= Len(t) /\ IsName(t[i]) THEN t[i] ELSE ""
NameLength(t, i) == IF NameAt(t, i) = "" THEN 0 ELSE 1

(* [name], [name op value]: of the operators, "~", "^", "$" and "*" are    *)
(* taken to be followed by the equals sign; any other operator is read as  *)
(* part of the value, and the attribute has to exist.                      *)
ParseAttr(p) ==
  LET t == p.t
      j == p.i + 1 + NameLength(t, p.i + 1)
      op == IF j <= Len(t) /\ t[j] \in {"~", "^", "$", "*", "="} THEN t[j] ELSE ""
      v == j + (CASE op = "" -> 0 [] op = "=" -> 1 [] OTHER -> 2)
      quoted == v <= Len(t) /\ t[v] \in Quotes
      end == IF j > Len(t) \/ t[j] = "]" THEN j
             ELSE IF quoted THEN Until(t, v + 1, {t[v]}) ELSE Until(t, v, {"]"})
      value == IF j > Len(t) \/ t[j] = "]" THEN <<>>
               ELSE Upto(t, IF quoted THEN v + 1 ELSE v, end)
      past == IF quoted /\ end <= Len(t) THEN end + 1 ELSE end
      next == IF At(t, past, "]") THEN past + 1 ELSE past
  IN [Read(p, next - p.i, "b") EXCEPT
        !.comp.attrs = @ \cup {[name |-> Lower(NameAt(t, p.i + 1)), op |-> op, value |-> value]}]

(* ":name", ":name(argument)", "::name"; before and after are pseudo-      *)
(* elements with one colon too.                                            *)
Element(name) == IF name \in {"before", "after"} THEN name ELSE "unsupported"
ParsePseudo(p) ==
  LET t == p.t
      two == At(t, p.i + 1, ":")
      at == p.i + (IF two THEN 2 ELSE 1)
      name == Lower(NameAt(t, at))
      j == at + NameLength(t, at)
      close == Pos({k \in (j + 1)..Len(t) : Depth(t, j, k, {"("}, {")"}) = 0} \cup {Len(t) + 1})
      next == IF At(t, j, "(") THEN IF close <= Len(t) THEN close + 1 ELSE close ELSE j
      arg == IF At(t, j, "(") THEN Upto(t, j + 1, close) ELSE <<>>
  IN IF two \/ name \in {"before", "after"}
     THEN [Read(p, j - p.i, "c") EXCEPT !.element = Element(name)]
     ELSE [Read(p, next - p.i, "b") EXCEPT
             !.comp.pseudos = @ \cup {[name |-> name, arg |-> arg]}]

RECURSIVE ParseCompound(_)
ParseCompound(p) ==
  LET l == p.t[p.i]
      name == NameAt(p.t, p.i + 1)
      n == 1 + NameLength(p.t, p.i + 1)
  IN IF p.i > Len(p.t) \/ l \in Ends THEN p
     ELSE ParseCompound(
       CASE l = "*" -> [p EXCEPT !.i = @ + 1, !.ok = TRUE, !.comp.universal = TRUE]
         [] l = "." -> [Read(p, n, "b") EXCEPT !.comp.classes = @ \cup {name}]
         [] l = "#" -> [Read(p, n, "a") EXCEPT !.comp.id = name]
         [] l = "[" -> ParseAttr(p)
         [] l = ":" -> ParsePseudo(p)
         [] IsName(l) -> [Read(p, 1, "c") EXCEPT !.comp.tag = Lower(l)]
         [] OTHER -> [p EXCEPT !.i = @ + 1])

RECURSIVE SkipBlanks(_, _)
SkipBlanks(t, i) == IF At(t, i, "ws") THEN SkipBlanks(t, i + 1) ELSE i
(* s: the steps so far, the counts, the pseudo-element and the combinator  *)
(* that the next step has to its predecessor.                              *)
RECURSIVE ParseSteps(_, _, _)
ParseSteps(t, from, s) ==
  LET i == SkipBlanks(t, from)
      combines == i <= Len(t) /\ t[i] \in Combinators
      pending == IF combines THEN t[i] ELSE s.pending
      p == ParseCompound(Begun(t, IF combines THEN SkipBlanks(t, i + 1) ELSE i, s.spec, s.element))
      step == [comb |-> IF s.steps = <<>> THEN "ws" ELSE pending, comp |-> p.comp]
  IN IF i > Len(t) THEN s
     ELSE ParseSteps(t, IF p.ok \/ p.i > Len(t) THEN p.i ELSE p.i + 1,
                     [steps |-> IF p.ok THEN Append(s.steps, step) ELSE s.steps,
                      pending |-> IF p.ok THEN "ws" ELSE pending,
                      spec |-> p.spec, element |-> p.element])
NoCounts == [a |-> 0, b |-> 0, c |-> 0]
ParseSelector(t) ==
  LET s == ParseSteps(t, 1, [steps |-> <<>>, pending |-> "ws", spec |-> NoCounts, element |-> "none"])
  IN [steps |-> s.steps, spec |-> s.spec, element |-> s.element,
      valid |-> s.steps /= <<>> /\ s.element /= "unsupported"]

(********************************* Matching ********************************)
HasAttr(doc, n, name) == name \in DOMAIN doc.attrs[n]
Elements(doc, kids) == SelectSeq(kids, LAMBDA k : doc.type[k] = "element")
Siblings(doc, n) == Elements(doc, doc.kids[doc.parent[n]])
(* Of an element among all its element siblings, from either end.          *)
FromStart(doc, n, fromEnd) == CHOOSE j \in DOMAIN Siblings(doc, n) : Siblings(doc, n)[j] = n  \* mutant
IndexAmongSiblings(doc, n, fromEnd) ==
  LET all == Siblings(doc, n)
      k == CHOOSE j \in DOMAIN all : all[j] = n
  IN IF fromEnd THEN Len(all) + 1 - k ELSE k

IsInteger(s) == LET k == IF s /= <<>> /\ s[1] \in {"+", "-"} THEN 2 ELSE 1
                IN Len(s) >= k /\ s[k] \in DOMAIN Digits
IntegerOf(s) == IF s[1] = "-" THEN -Digits[s[2]] ELSE IF s[1] = "+" THEN Digits[s[2]] ELSE Digits[s[1]]
(* An+B; the remainder is that of C++, which is zero for the same numbers. *)
NthMatches(arg, idx) ==
  LET s == SelectSeq(arg, LAMBDA l : l /= "ws")
      n == Until(s, 1, {"n"})
      as == Upto(s, 1, n)
      bs == SubSeq(s, n + 1, Len(s))
      a == CASE as = <<>> \/ as = <<"+">> -> 1 [] as = <<"-">> -> -1
             [] OTHER -> IF IsInteger(as) THEN IntegerOf(as) ELSE 0
      b == IF IsInteger(bs) THEN IntegerOf(bs) ELSE 0
      steps == IF a > 0 THEN idx - b ELSE b - idx
      width == IF a > 0 THEN a ELSE -a
  IN CASE s = <<"odd">> -> idx % 2 = 1
       [] s = <<"even">> -> idx % 2 = 0
       [] n > Len(s) /\ s \notin {<<"odd">>, <<"even">>} -> IsInteger(s) /\ idx = IntegerOf(s)
       [] n <= Len(s) /\ a = 0 -> idx = b
       [] OTHER -> steps >= 0 /\ steps % width = 0

(* The compounds of an argument list; commas in parentheses cut it too.    *)
ArgCompounds(arg) ==
  {p.comp : p \in {q \in {ParseCompound(Begun(part, 1, NoCounts, "none"))
                            : part \in ToSet(Split(arg, ",", {}, {}))} : q.ok}}

MatchesAttr(have, attr) ==
  LET v == attr.value
      n == Len(v)
  IN CASE attr.op = "" -> TRUE
       [] attr.op = "=" -> have = v
       [] attr.op = "~" -> \E part \in ToSet(Split(have, "ws", {}, {})) : part = v /\ part /= <<>>
       [] attr.op = "^" -> IsPrefix(v, have)
       [] attr.op = "$" -> IsSuffix(v, have)
       [] attr.op = "*" -> \E i \in 0..(Len(have) - n) : SubSeq(have, i + 1, i + n) = v

RECURSIVE Ancestry(_, _)
Ancestry(doc, n) == IF n = 0 THEN {0} ELSE {n} \cup Ancestry(doc, doc.parent[n])

RECURSIVE MatchesCompound(_, _, _)
MatchesPseudo(doc, n, pc) ==
  LET index(fromEnd) == IndexAmongSiblings(doc, n, fromEnd)
      listed == \E comp \in ArgCompounds(pc.arg) : MatchesCompound(doc, n, comp)
  IN CASE pc.name = "first-child" -> index(FALSE) = 1
       [] pc.name = "last-child" -> index(TRUE) = 1
       [] pc.name = "only-child" -> index(FALSE) = 1 /\ index(TRUE) = 1
       [] pc.name = "root" -> doc.parent[n] = 0
       [] pc.name \in {"nth-child", "nth-of-type"} -> NthMatches(pc.arg, index(FALSE))
       [] pc.name \in {"nth-last-child", "nth-last-of-type"} -> NthMatches(pc.arg, index(TRUE))
       [] pc.name = "not" -> ~listed
       [] pc.name \in {"is", "where", "matches"} -> listed
       [] pc.name \in {"checked", "disabled"} -> HasAttr(doc, n, pc.name)
       [] pc.name = "enabled" -> ~HasAttr(doc, n, "disabled") /\ doc.tag[n] = "input"
       [] pc.name = "empty" -> doc.kids[n] = <<>>
       [] pc.name \in {"hover", "focus", "active"} -> pc.name \in doc.state[n]
       [] pc.name = "focus-within" ->
            \E m \in Ancestry(doc, n) : "focus" \in doc.state[m]
       [] pc.name \in {"link", "any-link"} -> doc.tag[n] = "a" /\ HasAttr(doc, n, "href")
       [] OTHER -> FALSE
MatchesCompound(doc, n, comp) ==
  /\ doc.type[n] = "element"
  /\ comp.universal \/ comp.tag \in {"", doc.tag[n]}
  /\ comp.id = "" \/ (HasAttr(doc, n, "id") /\ doc.attrs[n]["id"] = <<comp.id>>)
  /\ \A c \in comp.classes : HasAttr(doc, n, "class") /\ c \in ToSet(doc.attrs[n]["class"]) \ {"ws"}
  /\ \A a \in comp.attrs : HasAttr(doc, n, a.name) /\ MatchesAttr(doc.attrs[n][a.name], a)
  /\ \A pc \in comp.pseudos : MatchesPseudo(doc, n, pc)

(* The preceding element siblings, nearest first, and the ancestors.       *)
Preceding(doc, n) == LET all == Siblings(doc, n)
                     IN Reverse(Upto(all, 1, IndexAmongSiblings(doc, n, FALSE)))
RECURSIVE Ancestors(_, _)
Ancestors(doc, n) == IF n = 0 THEN <<>> ELSE <<doc.parent[n]>> \o Ancestors(doc, doc.parent[n])
(* Where a combinator may lead from a node, in the order it is tried.      *)
Candidates(doc, n, comb) ==
  CASE comb = ">" -> IF n = 0 THEN <<>> ELSE <<doc.parent[n]>>
    [] comb = "ws" -> Ancestors(doc, n)
    [] comb = "+" -> IF Len(Preceding(doc, n)) = 0 THEN <<>> ELSE <<Preceding(doc, n)[1]>>
    [] comb = "~" -> Preceding(doc, n)

(* Leftwards from node n, which matches step k: the first candidate that   *)
(* matches is taken, and never given up again.                             *)
RECURSIVE MatchesFrom(_, _, _, _)
MatchesFrom(doc, n, steps, k) ==
  LET fits == SelectSeq(Candidates(doc, n, steps[k].comb),
                        LAMBDA m : MatchesCompound(doc, m, steps[k - 1].comp))
  IN k = 1 \/ (fits /= <<>> /\ MatchesFrom(doc, fits[1], steps, k - 1))
Matches(doc, n, sel) ==
  /\ sel.valid
  /\ MatchesCompound(doc, n, sel.steps[Len(sel.steps)].comp)
  /\ MatchesFrom(doc, n, sel.steps, Len(sel.steps))

SupportedPseudos == {"active", "any-link", "checked", "disabled", "empty", "enabled", "first-child", "focus",
  "focus-within", "hover", "is", "last-child", "link", "matches", "not", "nth-child", "nth-last-child",
  "nth-last-of-type", "nth-of-type", "only-child", "root", "where"}
SupportsSelector(t) ==
  LET sel == ParseSelector(Trim(t))
  IN sel.valid /\ \A k \in DOMAIN sel.steps : \A pc \in sel.steps[k].comp.pseudos : pc.name \in SupportedPseudos

(*********************** What CSS.supports() answers ***********************)
(* A string swallows brackets and semicolons, and a backslash the lexeme   *)
(* behind it.                                                              *)
RECURSIVE Balanced(_, _, _)
Balanced(t, stack, quote) ==
  IF t = <<>> THEN stack = <<>> /\ quote = ""
  ELSE LET l == Head(t)
       IN IF quote /= ""
          THEN IF l = "escape" THEN Balanced(SubSeq(t, 3, Len(t)), stack, quote)
               ELSE Balanced(Tail(t), stack, IF l = quote THEN "" ELSE quote)
          ELSE IF l \in Quotes THEN Balanced(Tail(t), stack, l)
          ELSE IF l \in {"(", "[", "{"} THEN Balanced(Tail(t), <<l>> \o stack, quote)
          ELSE IF l \in DOMAIN Closers
          THEN stack /= <<>> /\ Head(stack) = Closers[l] /\ Balanced(Tail(t), Tail(stack), quote)
          ELSE l /= ";" /\ Balanced(Tail(t), stack, quote)

(* Of the properties, one with keywords, one with any value; of their      *)
(* words, those that the models write.                                     *)
Keywords == [float |-> {"none", "left", "right"}, clear |-> {"none", "left", "right", "both"}]
IsSupportedProperty(p) == p \in DOMAIN Keywords \cup {"color", "width"}
SupportedKeywordValue(p, v) ==
  v = <<"inherit">> \/ p \notin DOMAIN Keywords \/ (Len(v) = 1 /\ v[1] \in Keywords[p])
SupportsPropertyValue(rawProperty, rawValue) ==
  LET p == Lowered(Trim(rawProperty))
      v == Lowered(Trim(rawValue))
  IN /\ p /= <<>> /\ v /= <<>> /\ Balanced(v, <<>>, "")
     /\ \/ p[1] = "--" /\ Len(p) > 1
        \/ Len(p) = 1 /\ IsSupportedProperty(p[1]) /\ SupportedKeywordValue(p[1], v)

(* The first place outside parentheses that holds the operator, with a     *)
(* blank on either side, or 0.                                             *)
TopLevel(t, operator) ==
  LET places == {i \in 2..(Len(t) - 1) : /\ t[i] = operator /\ t[i - 1] = "ws" /\ t[i + 1] = "ws"
                                         /\ Depth(t, 1, i, {"("}, {")"}) = 0}
  IN IF places = {} THEN 0 ELSE Pos(places)
(* The whole of an "and" condition is cut before an "or" is looked for.    *)
RECURSIVE SupportsCondition(_)
SupportsCondition(raw) ==
  LET c == Lowered(Trim(raw))
      n == Len(c)
      and == TopLevel(c, "and")
      or == TopLevel(c, "or")
      inner == Trim(SubSeq(c, 2, n - 1))
      colon == Until(inner, 1, {":"})
  IN IF n = 0 THEN FALSE
     ELSE IF c[1] = "not" /\ At(c, 2, "ws") THEN ~SupportsCondition(SubSeq(c, 3, n))
     ELSE IF and /= 0
     THEN SupportsCondition(Upto(c, 1, and)) /\ SupportsCondition(SubSeq(c, and + 1, n))
     ELSE IF or /= 0
     THEN SupportsCondition(Upto(c, 1, or)) \/ SupportsCondition(SubSeq(c, or + 1, n))
     ELSE IF c[1] = "selector" /\ At(c, 2, "(") /\ c[n] = ")"
     THEN SupportsSelector(SubSeq(c, 3, n - 1))
     ELSE /\ c[1] = "(" /\ c[n] = ")"
          /\ IF colon <= Len(inner)
             THEN SupportsPropertyValue(Upto(inner, 1, colon), SubSeq(inner, colon + 1, Len(inner)))
             ELSE SupportsCondition(inner)
=============================================================================
