------------------------------ MODULE MCJsLexer ------------------------------
(***************************************************************************)
(* Bounded source texts for JsLexer, written lexeme by lexeme from the     *)
(* grammar: what a slash begins follows from whether an operand is wanted, *)
(* and two lexemes may touch when they do not grow together.               *)
(***************************************************************************)
EXTENDS JsLexer

CONSTANT MaxLexemes   \* in a source text

VARIABLE subject      \* a text, the lexemes written, and what may follow

Values == {<<"id", <<"a">>>>, <<"kw", <<"v">>>>, <<"string", <<"qu", "}", "qu">>>>, <<"string", <<"qu", "bs", "qu", "bq", "qu">>>>,
           <<"number", <<"1">>>>, <<"number", <<".", "1">>>>, <<"number", <<"1", ".", "1", "e", "+", "1">>>>,
           <<"number", <<"1", ".">>>>, <<"bigint", <<"1", "1", "n">>>>, <<"template", <<"bq", "/", "bs", "bq", "bq">>>>,
           <<"template", <<"bq", "$", "{", "{", "}", "}", "bq">>>>, <<"regex", <<"/", "[", "/", "}", "]", "/", "a">>>>,
           <<"regex", <<"/", "bs", "/", "bq", "/">>>>}
Prefixes == {<<"kw", <<"s">>>>, <<"punct", <<"(">>>>, <<"punct", <<"+", "+">>>>}
Closers  == {<<"punct", <<")">>>>, <<"punct", <<"]">>>>}
Infixes  == {<<"punct", <<"/">>>>, <<"punct", <<"/", "=">>>>, <<"punct", <<"?">>>>, <<"punct", <<"+">>>>,
             <<"punct", <<"=", ">">>>>, <<"punct", <<"?", "?">>>>, <<"punct", <<"{">>>>}
Separators == {<<>>, <<"sp">>, <<"/", "*", "qu", "*", "/">>, <<"/", "/", "bq", "nl">>}

Lexeme(x) == [t |-> x[1], v |-> x[2]]

\* l and r read as two lexemes when written without a space between them.
MayTouch(l, r) ==
  LET both == l.v \o r.v
      seam == Len(l.v)
  IN  /\ ~(l.v[seam] \in IdPart /\ r.v[1] \in IdPart)
      /\ ~(l.t = "number" /\ r.v[1] \in IdPart \cup {"."})
      /\ ~(l.v[seam] = "/" /\ r.v[1] \in {"/", "="})
      /\ (l.t = "punct" /\ r.v # <<".", "1">>) =>
           ~\E m \in Multis : \E k \in 1..seam : /\ k + Len(m) - 1 > seam
                                                 /\ k + Len(m) - 1 <= Len(both)
                                                 /\ SubSeq(both, k, k + Len(m) - 1) = m

TextsBegin == subject.of = "nothing" /\ subject' = [of |-> "lexer", text |-> <<>>, lexemes |-> <<>>, wants |-> "operand", plain |-> TRUE]

Put(x, sep, wants) ==
  LET lex == Lexeme(x)
      n   == Len(subject.lexemes)
  IN  /\ IF n = 0 THEN sep = <<>>
         ELSE IF sep = <<>> THEN MayTouch(subject.lexemes[n], lex)
         ELSE sep[1] = "/" => subject.lexemes[n].v[Len(subject.lexemes[n].v)] # "/"
      /\ subject' = [subject EXCEPT !.text = @ \o sep \o lex.v, !.lexemes = Append(@, lex), !.wants = wants,
                                    !.plain = @ /\ sep \in {<<>>, <<"sp">>}]

TextsGrow ==
  /\ subject.of = "lexer" /\ Len(subject.lexemes) < MaxLexemes
  /\ \E sep \in Separators :
       \/ subject.wants = "operand" /\ \E x \in Values : Put(x, sep, "operator")
       \/ subject.wants = "operand" /\ \E x \in Prefixes : Put(x, sep, "operand")
       \/ subject.wants = "operator" /\ \E x \in Closers : Put(x, sep, "operator")
       \/ subject.wants = "operator" /\ \E x \in Infixes : Put(x, sep, "operand")

TextsNext == TextsBegin \/ TextsGrow

(***************************************************************************)
(* In an interpolation the scanners decide a slash by the character before *)
(* it and do not know comments. They go wrong at a regular expression      *)
(* behind a keyword, at a division of one, and at comments with quotes.    *)
(***************************************************************************)
Splits(s) ==
  /\ s.plain
  /\ \A i \in 2..Len(s.lexemes) :
       LET before == s.lexemes[i - 1]
       IN  /\ s.lexemes[i].t = "regex" => before.t = "punct"
           /\ s.lexemes[i].v[1] = "/" => before.t # "regex"

Balanced(s) == \A i \in 1..Len(s.lexemes) : s.lexemes[i].v # <<"{">>

Wrapped(text) == <<"bq", "a", "bs", "$", "$", "{">> \o text \o <<"}", "/", "bq">>

\* A text is read as the lexemes it was written with: comments and spaces vanish,
\* a slash divides behind an operand and begins a regular expression elsewhere,
\* the longest punctuator wins. As an interpolation, also of a template in
\* another one, it stays in one piece in the lexer's and in the parser's scanners.
\* Lexer::tokenize, regex_allowed, lex_template, TokenParser::skip_interp.
LexesAsWritten(grown) ==
  grown.of = "lexer" =>
    /\ Tokenize(grown.text) = grown.lexemes
    /\ Splits(grown) /\ Balanced(grown) =>
         LET inner == Wrapped(grown.text)
             outer == Wrapped(inner)
         IN  /\ Tokenize(outer \o <<"/", "a">>) = <<Lexeme(<<"template", outer>>), Lexeme(<<"punct", <<"/">>>>), Lexeme(<<"id", <<"a">>>>)>>
             /\ Interpolations(outer) = <<inner>>
             /\ Interpolations(inner) = <<grown.text>>
=============================================================================
