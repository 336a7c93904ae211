------------------------------- MODULE JsLexer -------------------------------
(***************************************************************************)
(* The tokenizer of MalibuJS (js/parser/parser.cpp, class Lexer) and the   *)
(* splitting of template texts by the parser. The source is a sequence of  *)
(* characters; a scanner is a function from an index to the index after    *)
(* what it accepts, and 0 where it reports an error.                       *)
(*                                                                         *)
(* Characters stand for their class: "a" a letter, "s" a keyword of        *)
(* statements when alone, "v" one that is a value (this, null, ...), "e"   *)
(* and "n" the letters of numbers, "1" a digit, "nl" a line end, "sp" a    *)
(* space, "bs" the backslash, "bq" the backtick, "qu" a quote. Contents of *)
(* strings and escapes in names are left out.                              *)
(***************************************************************************)
EXTENDS Naturals, Sequences, FiniteSets

At(s, i) == IF i >= 1 /\ i <= Len(s) THEN s[i] ELSE "end"

Letter == {"a", "s", "v", "e", "n"}
IdPart == Letter \cup {"1"}
Space  == {"sp", "nl"}

RECURSIVE While(_, _, _), SkipTrivia(_, _), SkipLine(_, _), SkipComment(_, _), RegexEnd(_, _, _),
          NumberEnd(_, _, _, _), StringEnd(_, _, _), TemplateEnd(_, _), InterpEnd(_, _, _, _),
          CopyRegex(_, _, _), CopyString(_, _, _), Tokens(_, _, _), SkipInterp(_, _, _, _),
          SkipTemplate(_, _), SkipRegex(_, _, _), SkipString(_, _, _), Parts(_, _, _)

\* The first index from i on whose character is not in set.
While(s, i, set) == IF At(s, i) \in set THEN While(s, i + 1, set) ELSE i

SkipLine(s, i) == IF At(s, i) \in {"nl", "end"} THEN i ELSE SkipLine(s, i + 1)

SkipComment(s, i) ==
  IF i > Len(s) THEN i ELSE IF At(s, i) = "*" /\ At(s, i + 1) = "/" THEN i + 2 ELSE SkipComment(s, i + 1)

SkipTrivia(s, i) ==
  CASE At(s, i) \in Space -> SkipTrivia(s, i + 1)
    [] At(s, i) = "/" /\ At(s, i + 1) = "/" -> SkipTrivia(s, SkipLine(s, i))
    [] At(s, i) = "/" /\ At(s, i + 1) = "*" -> SkipTrivia(s, SkipComment(s, i + 2))
    [] OTHER -> i

\* regex_allowed: by the last token.
RegexAllowed(out) ==
  IF out = <<>> THEN TRUE
  ELSE LET last == out[Len(out)]
       IN  CASE last.t \in {"id", "number", "bigint", "string", "template", "regex"} -> FALSE
             [] last.t = "kw" -> last.v # <<"v">>
             [] OTHER -> last.v \notin {<<")">>, <<"]">>}

\* lex_regex from after the slash: the end of the pattern and of its flags.
RegexEnd(s, i, class) ==
  CASE At(s, i) \in {"nl", "end"} -> 0
    [] At(s, i) = "bs" -> RegexEnd(s, IF i + 1 > Len(s) THEN i + 1 ELSE i + 2, class)
    [] At(s, i) = "/" /\ ~class -> While(s, i + 1, IdPart)
    [] OTHER -> RegexEnd(s, i + 1, CASE At(s, i) = "[" -> TRUE [] At(s, i) = "]" -> FALSE
                                     [] OTHER -> class)

\* lex_number of a decimal number: at most one dot, at most one exponent.
NumberEnd(s, i, dot, exp) ==
  CASE At(s, i) = "1" -> NumberEnd(s, i + 1, dot, exp)
    [] At(s, i) = "." /\ ~dot /\ ~exp -> NumberEnd(s, i + 1, TRUE, exp)
    [] At(s, i) = "e" /\ ~exp ->
         NumberEnd(s, IF At(s, i + 1) \in {"+", "-"} THEN i + 2 ELSE i + 1, dot, TRUE)
    [] OTHER -> i

\* lex_string from after the quote.
StringEnd(s, i, q) ==
  CASE At(s, i) \in {"nl", "end"} -> 0
    [] At(s, i) = q -> i + 1
    [] At(s, i) = "bs" -> IF i + 1 > Len(s) THEN 0 ELSE StringEnd(s, i + 2, q)
    [] OTHER -> StringEnd(s, i + 1, q)

(***************************************************************************)
(* Templates: lex_template finds the end of one, copying interpolations    *)
(* through tmpl_copy_interp. What is copied is what is passed, so the      *)
(* copying functions are scanners too. A slash begins a regular expression *)
(* by what was seen before it.                                             *)
(***************************************************************************)
RegexAfter(last) == last \notin IdPart \cup {")", "]", ".", "qu", "bq"}

Over(s, i) == IF i + 1 > Len(s) THEN i + 1 ELSE i + 2

CopyString(s, i, q) ==
  CASE i > Len(s) -> i
    [] At(s, i) = "bs" -> CopyString(s, Over(s, i), q)
    [] At(s, i) = q -> i + 1
    [] OTHER -> CopyString(s, i + 1, q)

CopyRegex(s, i, class) ==
  CASE At(s, i) = "nl" -> i
    [] At(s, i) = "end" -> i
    [] At(s, i) = "bs" -> CopyRegex(s, Over(s, i), class)
    [] At(s, i) = "/" /\ ~class -> While(s, i + 1, IdPart)
    [] OTHER -> CopyRegex(s, i + 1, CASE At(s, i) = "[" -> TRUE [] At(s, i) = "]" -> FALSE
                                      [] OTHER -> class)

\* Braces in the strings of an interpolation count.
InterpEndInStrings(s, i, depth, last) ==                           \* mutant
  CASE i > Len(s) \/ depth = 0 -> i
    [] At(s, i) = "bs" -> InterpEnd(s, Over(s, i), depth, "a")
    [] At(s, i) = "bq" -> LET e == TemplateEnd(s, i + 1)
                          IN  InterpEnd(s, IF e = 0 THEN Len(s) + 1 ELSE e, depth, "bq")
    [] At(s, i) = "/" /\ At(s, i + 1) \notin {"/", "*"} /\ RegexAfter(last) ->
         InterpEnd(s, CopyRegex(s, i + 1, FALSE), depth, "/")
    [] At(s, i) = "{" -> InterpEnd(s, i + 1, depth + 1, "{")
    [] At(s, i) = "}" -> InterpEnd(s, i + 1, depth - 1, "}")
    [] OTHER -> InterpEnd(s, i + 1, depth, IF At(s, i) \in Space THEN last ELSE At(s, i))

InterpEnd(s, i, depth, last) ==
  CASE i > Len(s) \/ depth = 0 -> i
    [] At(s, i) = "bs" -> InterpEnd(s, Over(s, i), depth, "a")
    [] At(s, i) = "bq" -> LET e == TemplateEnd(s, i + 1)
                          IN  InterpEnd(s, IF e = 0 THEN Len(s) + 1 ELSE e, depth, "bq")
    [] At(s, i) = "qu" -> InterpEnd(s, CopyString(s, i + 1, "qu"), depth, "qu")
    [] At(s, i) = "/" /\ At(s, i + 1) \notin {"/", "*"} /\ RegexAfter(last) ->
         InterpEnd(s, CopyRegex(s, i + 1, FALSE), depth, "/")
    [] At(s, i) = "{" -> InterpEnd(s, i + 1, depth + 1, "{")
    [] At(s, i) = "}" -> InterpEnd(s, i + 1, depth - 1, "}")
    [] OTHER -> InterpEnd(s, i + 1, depth, IF At(s, i) \in Space THEN last ELSE At(s, i))

\* lex_template, and tmpl_copy_nested for one in an interpolation; after the backtick.
TemplateEnd(s, i) ==
  CASE i > Len(s) -> 0
    [] At(s, i) = "bq" -> i + 1
    [] At(s, i) = "bs" -> TemplateEnd(s, Over(s, i))
    [] At(s, i) = "$" /\ At(s, i + 1) = "{" -> TemplateEnd(s, InterpEnd(s, i + 2, 1, "("))
    [] OTHER -> TemplateEnd(s, i + 1)

(***************************************************************************)
(* The loop of tokenize.                                                   *)
(***************************************************************************)
Multis == {<<"?", ".">>, <<"?", "?">>, <<"+", "+">>, <<"+", "=">>, <<"/", "=">>, <<"=", "=">>, <<"=", ">">>,
           <<"=", "=", "=">>, <<".", ".", ".">>, <<"?", "?", "=">>}

\* The longest one first; ?. is none before a digit.
PunctuatorEnd(s, i) ==
  LET fits == {m \in Multis : /\ i + Len(m) - 1 <= Len(s) /\ SubSeq(s, i, i + Len(m) - 1) = m
                              /\ m = <<"?", ".">> => At(s, i + 2) # "1"}
  IN  IF fits = {} THEN i + 1
      ELSE i + Len(CHOOSE m \in fits : \A o \in fits : Len(o) <= Len(m))

Text(s, from, to) == SubSeq(s, from, to - 1)
Keywords == {<<"s">>, <<"v">>}

Number(s, i) ==
  LET end    == NumberEnd(s, i, FALSE, FALSE)
      bigint == At(s, end) = "n"
      whole  == \A j \in i..(end - 1) : s[j] = "1"
  IN  [t |-> IF bigint THEN "bigint" ELSE "number",
       to |-> IF ~bigint THEN end ELSE IF whole THEN end + 1 ELSE 0]

TokenAt(s, i, out) ==
  LET c == At(s, i)
  IN  CASE c \in Letter -> LET to == While(s, i, IdPart)
                           IN  [t |-> IF Text(s, i, to) \in Keywords THEN "kw" ELSE "id", to |-> to]
        [] c = "1" \/ (c = "." /\ At(s, i + 1) = "1") -> Number(s, i)
        [] c = "qu" -> [t |-> "string", to |-> StringEnd(s, i + 1, "qu")]
        [] c = "bq" -> [t |-> "template", to |-> TemplateEnd(s, i + 1)]
        [] c = "/" /\ RegexAllowed(out) -> [t |-> "regex", to |-> RegexEnd(s, i + 1, FALSE)]
        [] OTHER -> [t |-> "punct", to |-> PunctuatorEnd(s, i)]

\* The tokens from index at on, put behind out, or an error.
Tokens(s, at, out) ==
  LET i   == SkipTrivia(s, at)
      tok == TokenAt(s, i, out)
  IN  IF i > Len(s) THEN out
      ELSE IF tok.to = 0 THEN <<[t |-> "error", v |-> <<>>]>>
      ELSE Tokens(s, tok.to, Append(out, [t |-> tok.t, v |-> Text(s, i, tok.to)]))

Tokenize(s) == Tokens(s, 1, <<>>)

(***************************************************************************)
(* The parser splits the text of a template again, with scanners of its    *)
(* own (skip_interp, skip_template, skip_string, skip_regex_lit).          *)
(***************************************************************************)
SkipString(r, i, q) ==
  CASE i > Len(r) -> i
    [] At(r, i) = "bs" -> SkipString(r, i + 2, q)
    [] At(r, i) = q -> i + 1
    [] OTHER -> SkipString(r, i + 1, q)

SkipRegex(r, i, class) ==
  CASE i > Len(r) -> i
    [] At(r, i) = "bs" -> SkipRegex(r, i + 2, class)
    [] At(r, i) = "/" /\ ~class -> While(r, i + 1, IdPart)
    [] OTHER -> SkipRegex(r, i + 1, CASE At(r, i) = "[" -> TRUE [] At(r, i) = "]" -> FALSE
                                      [] OTHER -> class)

SkipTemplate(r, i) ==
  CASE i > Len(r) -> i
    [] At(r, i) = "bs" -> SkipTemplate(r, i + 2)
    [] At(r, i) = "bq" -> i + 1
    [] At(r, i) = "$" /\ At(r, i + 1) = "{" -> SkipTemplate(r, SkipInterp(r, i + 2, 1, "("))
    [] OTHER -> SkipTemplate(r, i + 1)

SkipInterp(r, i, depth, last) ==
  CASE i > Len(r) \/ depth = 0 -> i
    [] At(r, i) = "bs" -> SkipInterp(r, i + 2, depth, "a")
    [] At(r, i) = "bq" -> SkipInterp(r, SkipTemplate(r, i + 1), depth, "bq")
    [] At(r, i) = "qu" -> SkipInterp(r, SkipString(r, i + 1, "qu"), depth, "qu")
    [] At(r, i) = "/" /\ i + 1 <= Len(r) /\ At(r, i + 1) \notin {"/", "*"} /\ RegexAfter(last) ->
         SkipInterp(r, SkipRegex(r, i + 1, FALSE), depth, "/")
    [] At(r, i) = "{" -> SkipInterp(r, i + 1, depth + 1, "{")
    [] At(r, i) = "}" -> SkipInterp(r, i + 1, depth - 1, "}")
    [] OTHER -> SkipInterp(r, i + 1, depth, IF At(r, i) \in Space THEN last ELSE At(r, i))

\* build_template_expr: the texts of the interpolations of the raw text r from i on.
Parts(r, i, sofar) ==
  CASE i > Len(r) -> sofar
    [] At(r, i) = "bs" -> Parts(r, i + 2, sofar)
    [] At(r, i) = "$" /\ At(r, i + 1) = "{" ->
         LET end == SkipInterp(r, i + 2, 1, "(")
         IN  Parts(r, end, Append(sofar, IF end > i + 3 THEN SubSeq(r, i + 2, end - 2) ELSE <<>>))
    [] OTHER -> Parts(r, i + 1, sofar)

Interpolations(template) == Parts(SubSeq(template, 2, Len(template) - 1), 1, <<>>)
=============================================================================
