------------------------------ MODULE CssParser ------------------------------
(***************************************************************************)
(* The parser of style sheets, css/parser/css_parser.cpp.  A text is a     *)
(* sequence of lexemes: "ws" is white space, a slash and a star delimit    *)
(* comments, a quote opens and closes a string, "!important" and the       *)
(* at-keywords are lexemes of their own, and any other is a word.          *)
(***************************************************************************)
EXTENDS Naturals, Sequences, FiniteSets, SequencesExt

Quotes == {"'", "dquote"}
Closers == [b \in {")", "]", "}"} |-> CASE b = ")" -> "(" [] b = "]" -> "[" [] b = "}" -> "{"]
(* The one word that the models write in two cases.                        *)
Lower(w) == IF w = "COLOR" THEN "color" ELSE w

Pos(set) == CHOOSE i \in set : \A j \in set : i <= j
(* The first place from i on that holds one of the lexemes, or the end.    *)
Until(t, i, stops) == Pos({j \in i..Len(t) : t[j] \in stops} \cup {Len(t) + 1})
Upto(t, i, j) == SubSeq(t, i, j - 1)
At(t, i, l) == i <= Len(t) /\ t[i] = l

Trim(t) ==
  LET words == {i \in DOMAIN t : t[i] /= "ws"}
  IN IF words = {} THEN <<>>
     ELSE SubSeq(t, Pos(words), CHOOSE i \in words : \A j \in words : j <= i)
Lowered(t) == [i \in DOMAIN t |-> Lower(t[i])]

(* How deep position j is in brackets of the given kinds that open at or   *)
(* after i.                                                                *)
Depth(t, i, j, open, close) ==
  Cardinality({k \in i..j : t[k] \in open}) - Cardinality({k \in i..j : t[k] \in close})

RECURSIVE SplitAt(_, _)
SplitAt(t, cuts) ==
  IF cuts = {} THEN <<t>>
  ELSE LET c == Pos(cuts)
       IN <<Upto(t, 1, c)>> \o SplitAt(SubSeq(t, c + 1, Len(t)), {k - c : k \in cuts \ {c}})
(* The parts of a text between the separators that no bracket encloses.    *)
Split(t, separator, open, close) ==
  SplitAt(t, {i \in DOMAIN t : t[i] = separator /\ Depth(t, 1, i, open, close) = 0})
SplitAnywhere(t) == Split(t, ",", {}, {})                              \* mutant
SplitSelectors(t) == Split(t, ",", {"(", "["}, {")", "]"})

RECURSIVE SkipSpace(_, _)
SkipSpace(t, i) ==
  IF At(t, i, "ws") THEN SkipSpace(t, i + 1)
  ELSE IF At(t, i, "/*") THEN SkipSpace(t, Until(t, i + 1, {"*/"}) + 1)
  ELSE i

(* An at-rule ends with its semicolon or with the brace that closes its    *)
(* block; braces in strings and comments count.                            *)
SkipAtRule(t, i) ==
  LET j == Until(t, i, {"{", ";"})
  IN IF At(t, j, "{")
     THEN Pos({k \in (j + 1)..Len(t) : Depth(t, j, k, {"{"}, {"}"}) = 0} \cup {Len(t)}) + 1
     ELSE j + 1

RECURSIVE Prelude(_, _)
Prelude(t, i) ==
  IF i > Len(t) \/ t[i] \in {"{", "}"} THEN [text |-> <<>>, i |-> i]
  ELSE LET skips == t[i] = "/*"
           rest == Prelude(t, IF skips THEN SkipSpace(t, i) ELSE i + 1)
       IN IF skips THEN rest ELSE [rest EXCEPT !.text = <<t[i]>> \o @]

(* A value ends at a semicolon or brace outside a string.                  *)
RECURSIVE ValueEnd(_, _, _)
ValueEnd(t, i, quote) ==
  IF i > Len(t) THEN i
  ELSE IF quote /= "" THEN ValueEnd(t, i + 1, IF t[i] = quote THEN "" ELSE quote)
  ELSE IF t[i] \in Quotes THEN ValueEnd(t, i + 1, t[i])
  ELSE IF t[i] \in {";", "}"} THEN i
  ELSE ValueEnd(t, i + 1, "")
PastSemicolon(t, i) == IF At(t, i, ";") THEN i + 1 ELSE i

(* One declaration: its property, its value and whether it is important;   *)
(* one without a colon, a name or a value is dropped.                      *)
ParseOneDeclaration(t, i) ==
  LET colon == Until(t, i, {":", ";", "}"})
      end == IF At(t, colon, ":") THEN ValueEnd(t, colon + 1, "") ELSE colon
      name == Lowered(Trim(Upto(t, i, colon)))
      raw == Trim(Upto(t, colon + 1, end))
      bangs == {k \in DOMAIN raw : raw[k] = "!important"}
      value == IF bangs = {} THEN raw
               ELSE Trim(Upto(raw, 1, CHOOSE k \in bangs : \A j \in bangs : j <= k))
      ok == At(t, colon, ":") /\ name /= <<>> /\ value /= <<>>
  IN [i |-> PastSemicolon(t, end),
      decls |-> IF ok THEN <<[property |-> name, value |-> value, important |-> bangs /= {}]>>
                ELSE <<>>]

RECURSIVE ParseDeclarations(_, _)
ParseDeclarations(t, i) ==
  LET j == SkipSpace(t, i)
  IN IF j > Len(t) \/ t[j] = "}" THEN [i |-> j + 1, decls |-> <<>>]
     ELSE LET one == ParseOneDeclaration(t, j)
              rest == ParseDeclarations(t, one.i)
          IN [rest EXCEPT !.decls = one.decls \o @]

(* A rule without a block is dropped with the brace that ends it; one      *)
(* without selectors is dropped after its block.                           *)
ParseRule(t, i, media) ==
  LET prelude == Prelude(t, i)
      selectors == SelectSeq([k \in DOMAIN SplitSelectors(prelude.text) |->
                                Trim(SplitSelectors(prelude.text)[k])], LAMBDA s : s /= <<>>)
      block == ParseDeclarations(t, prelude.i + 1)
  IN IF ~At(t, prelude.i, "{")
     THEN [i |-> prelude.i + 1, rules |-> <<>>]
     ELSE [i |-> block.i,
           rules |-> IF selectors = <<>> THEN <<>>
                     ELSE <<[selectors |-> selectors, decls |-> block.decls, media |-> media]>>]

(* The rules up to the end, or inside @media up to the closing brace.      *)
RECURSIVE ParseRules(_, _, _, _)
ParseRules(t, from, media, nested) ==
  LET i == SkipSpace(t, from)
      j == Until(t, i, {"{", ";"})
      here == IF At(t, i, "@media") /\ At(t, j, "{") /\ ~nested
              THEN LET inner == ParseRules(t, j + 1, Trim(Upto(t, i + 1, j)), TRUE)
                   IN [inner EXCEPT !.i = @ + 1]
              ELSE IF i <= Len(t) /\ t[i] \in {"@media", "@import", "@font-face"}
              THEN [i |-> SkipAtRule(t, i), rules |-> <<>>]
              ELSE ParseRule(t, i, media)
      rest == ParseRules(t, here.i, media, nested)
  IN IF i > Len(t) \/ (nested /\ t[i] = "}") THEN [i |-> i, rules |-> <<>>]
     ELSE [rest EXCEPT !.rules = here.rules \o @]
Parse(t) == ParseRules(t, 1, <<>>, FALSE).rules
=============================================================================
