----------------------------- MODULE SourceText -----------------------------
(***************************************************************************)
(* Source text as the two pretty printers write it and the two lexers of   *)
(* fathom/src/lang/core/lexer.rs and fathom/src/lang/surface/lexer.rs read *)
(* it.  A text is a sequence of pieces: words, symbols and number          *)
(* literals.  Layout is left out: between two pieces the printers write    *)
(* white space, or nothing where nothing can be glued together.  The one   *)
(* exception is the `.` of a projection, which follows its head directly   *)
(* and is a character of a number literal too.                             *)
(***************************************************************************)
EXTENDS Integers, Sequences, SequencesExt

Word(w) == <<"word", w>>
Sym(s) == <<"symbol", s>>
Number(source) == <<"number", source>>

\* Tokens.
Keyword(w) == <<"keyword", w>>
Name(w) == <<"name", w>>

CommonKeywords ==
  {"bool_elim", "const", "f32", "f64", "Format", "global", "int", "int_elim", "item", "Kind",
   "repr", "struct", "Type"}
CoreKeywords == CommonKeywords \cup {"array", "local"}
SurfaceKeywords == CommonKeywords \cup {"else", "if", "match"}

\* The token of a piece.
Classify(keywords, piece) ==
  IF piece[1] # "word" THEN piece
  ELSE IF piece[2] \in keywords THEN Keyword(piece[2]) ELSE Name(piece[2])

\* Mutant of Lex: a number literal ends before a `.`.
LexShort(keywords, text) == [i \in DOMAIN text |-> Classify(keywords, text[i])]

\* tokens.  The longest match of NumericLiteral runs on through a `.` and the
\* label behind it.
Lex(keywords, text) ==
  FoldLeft(LAMBDA st, piece :
             LET last == st.tokens[Len(st.tokens)]
             IN  IF st.tokens # <<>> /\ last[1] = "number" /\ (piece = Sym(".") \/ st.glue)
                   THEN [tokens |-> [st.tokens EXCEPT ![Len(st.tokens)] =
                                       Number(Append(last[2], piece[2]))],
                         glue |-> piece = Sym(".")]
                   ELSE [tokens |-> Append(st.tokens, Classify(keywords, piece)),
                         glue |-> FALSE],
           [tokens |-> <<>>, glue |-> FALSE], text).tokens

-----------------------------------------------------------------------------
\* Pretty printing: paren and intersperse.
Paren(b, text) == IF b THEN <<Sym("(")>> \o text \o <<Sym(")")>> ELSE text
Intersperse(texts, separator) ==
  FlattenSeq([i \in DOMAIN texts |->
                IF i < Len(texts) THEN Append(texts[i], separator) ELSE texts[i]])

\* Prec
Prec == [Term |-> 0, Arrow |-> 1, App |-> 2, Atomic |-> 3]

-----------------------------------------------------------------------------
\* The result of a nonterminal: a value and the place behind it, or a parse
\* error.
Got(value, at) == [ok |-> TRUE, value |-> value, at |-> at]
ParseError == [ok |-> FALSE]
Then(result, Rest(_, _)) == IF result.ok THEN Rest(result.value, result.at) ELSE ParseError

IsToken(ts, i, token) == i <= Len(ts) /\ ts[i] = token
IsKind(ts, i, kind) == i <= Len(ts) /\ ts[i][1] = kind

\* A token that must be there, and one of a kind, with its text.
Expect(ts, i, token) == IF IsToken(ts, i, token) THEN Got(token[2], i + 1) ELSE ParseError
ExpectKind(ts, i, kind) == IF IsKind(ts, i, kind) THEN Got(ts[i][2], i + 1) ELSE ParseError

=============================================================================
