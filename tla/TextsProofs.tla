---------------------------- MODULE TextsProofs ----------------------------
(***************************************************************************)
(* The lexer and parser of directives, for every source: what the labelled *)
(* loops yield is what the grammar says of each line, except behind empty  *)
(* comments, and each token is acted on or reported.  And the generator of *)
(* documents, for all terms and any number of documents: where the links   *)
(* lead that it writes.                                                    *)
(***************************************************************************)
EXTENDS Directives, SurfaceToDoc, DataInduction, FiniteSetTheorems

-----------------------------------------------------------------------------
(* Types.  The characters of a source are those that occur in it. *)

Chars == {source[i] : i \in DOMAIN source}

Token == [line : Nat, error : {TRUE}] \cup [line : Nat, key : Seq(Chars), value : Seq(Chars)]
Complaints ==
  {"MissingReason", "DuplicateDirective", "InvalidRegex", "UnknownDirective",
   "UnexpectedEndOfLine", "UnexpectedEndOfFile"}
SeverityNames == {"bug", "error", "warning", "note", "help"}
Expected ==
  [line : Nat, severity : {Severities[s] : s \in SeverityNames}, pattern : Seq(Chars)]
Modes ==
  {"top", "slash", "slashes", "comment", "space0", "key", "space1", "value", "done"}

LexerType ==
  /\ source \in Seq(Chars)
  /\ pos \in 0 .. Len(source) /\ start \in 0 .. Len(source) /\ mode \in Modes
  /\ key \in Seq(Chars) /\ value \in Seq(Chars)
ParserType ==
  /\ directives \in [skip : Seq(Chars), expected : Seq(Expected)]
  /\ diagnostics \in Seq(Complaints) /\ found \in Seq(Token)
TypeOK == LexerType /\ ParserType

-----------------------------------------------------------------------------
(* The inductive invariant: what the lexer knows of the line it is in, by  *)
(* mode, and that all is well with the lines behind it.                    *)

NoEnd(a, b) == \A i \in a .. b : source[i] # "nl"
NoColon(a, b) == \A i \in a .. b : source[i] # ":"
Spaces(a, b) == \A i \in a .. b : source[i] = "sp"
NoSlashes(a, b) == \A i \in a .. b - 1 : ~(source[i] = "/" /\ source[i + 1] = "/")

\* The lexer is in the line that starts behind o.
InLine(o) == o \in 0 .. pos /\ (o = 0 \/ source[o] = "nl") /\ NoEnd(o + 1, pos)

\* The first two slashes of that line are behind f.
Slashed(o, f) ==
  /\ f \in o .. pos - 2 /\ source[f + 1] = "/" /\ source[f + 2] = "/"
  /\ NoSlashes(o + 1, f + 1)
Tilde(o) == Slashed(o, start) /\ start + 3 <= pos /\ source[start + 3] = "~"

\* A key starts at k and has no colon behind its start up to e.
KeyFrom(k, e) ==
  /\ k \in start + 4 .. e /\ Spaces(start + 4, k - 1) /\ source[k] # "sp"
  /\ NoColon(k + 1, e) /\ key = SubSeq(source, k, e)

\* The colon behind it is at c.
ColonAt(k, c) == c > k /\ KeyFrom(k, c - 1) /\ source[c] = ":"

\* Where the lexer is in its line, mode by mode.
Within(o) ==
  /\ mode = "top" => NoSlashes(o + 1, pos) /\ (pos > o => source[pos] # "/")
  /\ mode = "slash" =>
       pos > o /\ start = pos - 1 /\ source[pos] = "/" /\ NoSlashes(o + 1, pos)
  /\ mode = "slashes" => Slashed(o, start) /\ pos = start + 2
  /\ mode = "comment" =>
       IsHidden(o) \/ (Slashed(o, start) /\ start + 3 <= pos /\ source[start + 3] # "~")
  /\ mode = "space0" => Tilde(o) /\ Spaces(start + 4, pos)
  /\ mode = "key" => Tilde(o) /\ \E k \in 1 .. pos : KeyFrom(k, pos)
  /\ mode = "space1" =>
       Tilde(o) /\ \E k, c \in 1 .. pos : ColonAt(k, c) /\ Spaces(c + 1, pos)
  /\ mode = "value" =>
       Tilde(o) /\ \E k, c, v \in 1 .. pos :
         /\ ColonAt(k, c) /\ v > c /\ Spaces(c + 1, v - 1)
         /\ source[v] # "sp" /\ value = SubSeq(source, v, pos)

LineInv == mode # "done" => \E o \in 0 .. pos : InLine(o) /\ Within(o)

\* What was yielded is about lines behind the lexer.
FoundInv == mode # "done" => \A i \in DOMAIN found : found[i].line < LineIndex(pos)

BehindInv ==
  \A open, close \in 0 .. pos :
    IsLine(open, close) /\ ~IsHidden(open) =>
      ReadsLine(found, LineIndex(open), Text(open, close))

EndInv == mode = "done" => pos = Len(source)

IInv == TypeOK /\ LineInv /\ FoundInv /\ BehindInv /\ EndInv /\ DirectivesAreKept

-----------------------------------------------------------------------------
(* Pieces of sequences. *)

\* What a piece of a sequence is.
LEMMA Piece ==
  ASSUME NEW C, NEW s \in Seq(C), NEW a \in Nat \ {0}, NEW b \in Nat, b <= Len(s)
  PROVE  /\ SubSeq(s, a, b) \in Seq(C)
         /\ a <= b => Len(SubSeq(s, a, b)) = b - a + 1
         /\ b < a => SubSeq(s, a, b) = <<>> /\ Len(SubSeq(s, a, b)) = 0
         /\ \A i \in 1 .. b - a + 1 : SubSeq(s, a, b)[i] = s[a + i - 1]
<1>1. \A i \in a .. b : s[i] \in C
  OBVIOUS
<1>2. a \in Int /\ b \in Int
  OBVIOUS
<1>3. /\ SubSeq(s, a, b) \in Seq(C)
      /\ Len(SubSeq(s, a, b)) = IF a <= b THEN b - a + 1 ELSE 0
      /\ \A i \in 1 .. b - a + 1 : SubSeq(s, a, b)[i] = s[a + i - 1]
  BY <1>1, <1>2, SubSeqProperties
<1>4. b < a => SubSeq(s, a, b) = <<>>
  BY <1>2, SubSeqEmpty
<1> QED BY <1>2, <1>3, <1>4

\* A piece of a piece is a piece.
LEMMA PieceOfPiece ==
  ASSUME NEW C, NEW s \in Seq(C), NEW a \in Nat \ {0}, NEW b \in Nat, b <= Len(s), a <= b + 1,
         NEW i \in Nat \ {0}, NEW j \in Nat, j <= b - a + 1
  PROVE  SubSeq(SubSeq(s, a, b), i, j) = SubSeq(s, a + i - 1, a + j - 1)
<1> DEFINE t == SubSeq(s, a, b)
           u == SubSeq(t, i, j)
           w == SubSeq(s, a + i - 1, a + j - 1)
<1>1. t \in Seq(C) /\ Len(t) = b - a + 1 /\ \A k \in 1 .. b - a + 1 : t[k] = s[a + k - 1]
  <2>1. CASE a <= b
    BY <2>1, Piece
  <2>2. CASE a = b + 1
    BY <2>2, Piece
  <2> QED BY <2>1, <2>2
<1> HIDE DEF t
<1>2. /\ u \in Seq(C) /\ (i <= j => Len(u) = j - i + 1) /\ (j < i => Len(u) = 0)
      /\ \A k \in 1 .. j - i + 1 : u[k] = t[i + k - 1]
  BY <1>1, Piece
<1>3. a + i - 1 \in Nat \ {0} /\ a + j - 1 \in Nat /\ a + j - 1 <= Len(s)
  OBVIOUS
<1> DEFINE x == a + i - 1
           y == a + j - 1
<1>4. /\ w \in Seq(C) /\ (x <= y => Len(w) = y - x + 1) /\ (y < x => Len(w) = 0)
      /\ \A k \in 1 .. y - x + 1 : w[k] = s[x + k - 1]
  <2>1. x \in Nat \ {0} /\ y \in Nat /\ y <= Len(s) /\ w = SubSeq(s, x, y)
    BY <1>3
  <2> HIDE DEF x, y, w
  <2> QED BY <2>1, Piece
<1>5. Len(u) = Len(w)
  BY <1>2, <1>4
<1>6. ASSUME NEW k \in 1 .. Len(u) PROVE u[k] = w[k]
  <2>1. k \in 1 .. j - i + 1 /\ k \in 1 .. y - x + 1 /\ i + k - 1 \in 1 .. b - a + 1
    BY <1>2
  <2>2. u[k] = t[i + k - 1] /\ w[k] = s[x + k - 1]
    BY <1>2, <1>4, <2>1
  <2>3. t[i + k - 1] = s[a + (i + k - 1) - 1]
    BY <1>1, <2>1
  <2> QED BY <2>2, <2>3
<1> HIDE DEF u, w
<1>7. u = w
  BY <1>2, <1>4, <1>5, <1>6, SeqEqual
<1> QED BY <1>7 DEF u, w, t

\* The last character that is not a space, of those from x to b.
LEMMA LastSolid ==
  ASSUME NEW s, NEW b \in Nat, NEW x \in 1 .. b, s[x] # "sp"
  PROVE  \E y \in x .. b : s[y] # "sp" /\ \A i \in y + 1 .. b : s[i] = "sp"
<1> DEFINE T == {d \in 0 .. b - x : s[b - d] # "sp"}
<1>1. T \subseteq Nat /\ b - x \in T
  OBVIOUS
<1>2. PICK d \in T : \A e \in T : d <= e
  <2> HIDE DEF T
  <2> QED BY <1>1, LeastNatural
<1>3. b - d \in x .. b /\ s[b - d] # "sp"
  OBVIOUS
<1>4. ASSUME NEW i \in (b - d) + 1 .. b PROVE s[i] = "sp"
  <2>1. b - i \in 0 .. b - x /\ ~(d <= b - i) /\ b - (b - i) = i
    OBVIOUS
  <2> QED BY <1>2, <2>1
<1> QED BY <1>3, <1>4

-----------------------------------------------------------------------------
(* str::trim. *)

\* Of spaces nothing is left.
LEMMA TrimSpaces ==
  ASSUME NEW C, NEW t \in Seq(C), \A i \in 1 .. Len(t) : t[i] = "sp"
  PROVE  Trim(t) = <<>>
<1>1. {i \in DOMAIN t : t[i] # "sp"} = {}
  OBVIOUS
<1> QED BY <1>1 DEF Trim

\* Otherwise what is left starts and ends with the first and the last character that
\* is not a space.
LEMMA TrimSolid ==
  ASSUME NEW C, NEW t \in Seq(C), NEW x \in 1 .. Len(t), NEW y \in x .. Len(t),
         t[x] # "sp", t[y] # "sp",
         \A i \in 1 .. x - 1 : t[i] = "sp", \A i \in y + 1 .. Len(t) : t[i] = "sp"
  PROVE  Trim(t) = SubSeq(t, x, y)
<1> DEFINE solid == {i \in DOMAIN t : t[i] # "sp"}
           first == CHOOSE i \in solid : \A j \in solid : i <= j
           last == CHOOSE i \in solid : \A j \in solid : j <= i
<1>1. x \in solid /\ y \in solid /\ solid \subseteq Nat
  OBVIOUS
<1>2. \A j \in solid : x <= j /\ j <= y
  OBVIOUS
<1> HIDE DEF solid
<1>3. first \in solid /\ \A j \in solid : first <= j
  BY <1>1, <1>2
<1>4. last \in solid /\ \A j \in solid : j <= last
  BY <1>1, <1>2
<1> HIDE DEF first, last
<1>5. first = x /\ last = y
  <2>1. first <= x /\ x <= first /\ last <= y /\ y <= last
    BY <1>1, <1>2, <1>3, <1>4
  <2>2. first \in Nat /\ last \in Nat
    BY <1>1, <1>3, <1>4
  <2> QED BY <2>1, <2>2
<1>6. Trim(t) = IF solid = {} THEN <<>> ELSE SubSeq(t, first, last)
  BY DEF Trim, solid, first, last
<1> QED BY <1>1, <1>5, <1>6

\* Trimming a piece of a sequence.
LEMMA TrimPiece ==
  ASSUME NEW C, NEW s \in Seq(C), NEW b \in 0 .. Len(s), NEW a \in 1 .. b,
         NEW x \in a .. b, NEW y \in x .. b, s[x] # "sp", s[y] # "sp",
         \A i \in a .. x - 1 : s[i] = "sp", \A i \in y + 1 .. b : s[i] = "sp"
  PROVE  Trim(SubSeq(s, a, b)) = SubSeq(s, x, y)
<1> DEFINE t == SubSeq(s, a, b)
           p == x - a + 1
           q == y - a + 1
<1>1. t \in Seq(C) /\ Len(t) = b - a + 1 /\ \A i \in 1 .. b - a + 1 : t[i] = s[a + i - 1]
  BY Piece
<1> HIDE DEF t
<1>2. p \in 1 .. Len(t) /\ q \in p .. Len(t)
  BY <1>1
<1>3. t[p] = s[x] /\ t[q] = s[y]
  <2>1. p \in 1 .. b - a + 1 /\ q \in 1 .. b - a + 1 /\ a + p - 1 = x /\ a + q - 1 = y
    OBVIOUS
  <2> HIDE DEF p, q
  <2> QED BY <1>1, <2>1
<1>4. ASSUME NEW i \in 1 .. p - 1 PROVE t[i] = "sp"
  <2>1. i \in 1 .. b - a + 1 /\ a + i - 1 \in a .. x - 1
    OBVIOUS
  <2> QED BY <1>1, <2>1
<1>5. ASSUME NEW i \in q + 1 .. Len(t) PROVE t[i] = "sp"
  <2>1. i \in 1 .. b - a + 1 /\ a + i - 1 \in y + 1 .. b
    BY <1>1
  <2> QED BY <1>1, <2>1
<1>6. Trim(t) = SubSeq(t, p, q)
  <2> HIDE DEF p, q
  <2> QED BY <1>1, <1>2, <1>3, <1>4, <1>5, TrimSolid
<1>7. SubSeq(t, p, q) = SubSeq(s, a + p - 1, a + q - 1)
  <2>1. /\ a \in Nat \ {0} /\ b \in Nat /\ b <= Len(s) /\ a <= b + 1
        /\ p \in Nat \ {0} /\ q \in Nat /\ q <= b - a + 1
    OBVIOUS
  <2> HIDE DEF p, q
  <2> QED BY <2>1, PieceOfPiece DEF t
<1>8. a + p - 1 = x /\ a + q - 1 = y
  OBVIOUS
<1> QED BY <1>6, <1>7, <1>8 DEF t

\* Trimming a piece that ends with a character that is not a space.
LEMMA TrimFront ==
  ASSUME NEW C, NEW s \in Seq(C), NEW b \in 0 .. Len(s), NEW a \in 1 .. b,
         NEW x \in a .. b, s[x] # "sp", s[b] # "sp", \A i \in a .. x - 1 : s[i] = "sp"
  PROVE  Trim(SubSeq(s, a, b)) = SubSeq(s, x, b)
<1>1. b \in x .. b /\ \A i \in b + 1 .. b : s[i] = "sp"
  OBVIOUS
<1> QED BY <1>1, TrimPiece

\* Trimming keeps the characters.
LEMMA TrimType ==
  ASSUME NEW C, NEW t \in Seq(C)
  PROVE  Trim(t) \in Seq(C)
<1>1. CASE \A i \in 1 .. Len(t) : t[i] = "sp"
  <2>1. Trim(t) = <<>>
    BY <1>1, TrimSpaces
  <2> QED BY <2>1
<1>2. CASE ~(\A i \in 1 .. Len(t) : t[i] = "sp")
  <2> DEFINE T == {i \in 1 .. Len(t) : t[i] # "sp"}
  <2>1. T \subseteq Nat /\ T # {}
    BY <1>2
  <2>2. PICK x \in T : \A i \in T : x <= i
    <3> HIDE DEF T
    <3> QED BY <2>1, LeastNatural
  <2>3. PICK y \in x .. Len(t) : t[y] # "sp" /\ \A i \in y + 1 .. Len(t) : t[i] = "sp"
    <3>1. Len(t) \in Nat /\ x \in 1 .. Len(t) /\ t[x] # "sp"
      OBVIOUS
    <3> QED BY <3>1, LastSolid
  <2>4. \A i \in 1 .. x - 1 : t[i] = "sp"
    BY <2>2
  <2>5. Trim(t) = SubSeq(t, x, y)
    BY <2>3, <2>4, TrimSolid
  <2> QED BY <2>5, Piece
<1> QED BY <1>1, <1>2

-----------------------------------------------------------------------------
(* What the grammar says of the rest of a line behind its tilde, from a to b. *)

\* The first of a set of naturals.
LEMMA FirstIs ==
  ASSUME NEW S, S \subseteq Nat, NEW x \in S, \A j \in S : x <= j
  PROVE  FirstOf(S) = x
<1>1. FirstOf(S) \in S /\ \A j \in S : FirstOf(S) <= j
  BY DEF FirstOf
<1>2. FirstOf(S) <= x /\ x <= FirstOf(S) /\ FirstOf(S) \in Nat /\ x \in Nat
  BY <1>1
<1> QED BY <1>2

\* Spaces only: an error.
LEMMA ReadingOfSpaces ==
  ASSUME NEW C, NEW s \in Seq(C), NEW b \in 0 .. Len(s), NEW a \in 1 .. b + 1, NEW n,
         \A i \in a .. b : s[i] = "sp"
  PROVE  Reading(n, SubSeq(s, a, b)) = [line |-> n, error |-> TRUE]
<1>1. Trim(SubSeq(s, a, b)) = <<>>
  <2> DEFINE t == SubSeq(s, a, b)
  <2>1. t \in Seq(C) /\ Len(t) = b - a + 1 /\ \A i \in 1 .. b - a + 1 : t[i] = s[a + i - 1]
    <3>1. CASE a <= b
      BY <3>1, Piece
    <3>2. CASE a = b + 1
      BY <3>2, Piece
    <3> QED BY <3>1, <3>2
  <2> HIDE DEF t
  <2>2. ASSUME NEW i \in 1 .. Len(t) PROVE t[i] = "sp"
    <3>1. i \in 1 .. b - a + 1 /\ a + i - 1 \in a .. b
      BY <2>1
    <3> QED BY <2>1, <3>1
  <2>3. Trim(t) = <<>>
    BY <2>1, <2>2, TrimSpaces
  <2> QED BY <2>3 DEF t
<1> QED BY <1>1 DEF Reading

\* No colon behind the start of the key: a key without a value.
LEMMA ReadingOfKey ==
  ASSUME NEW C, NEW s \in Seq(C), NEW b \in 0 .. Len(s), NEW a \in 1 .. b, NEW n,
         NEW k \in a .. b, \A i \in a .. k - 1 : s[i] = "sp", s[k] # "sp",
         \A i \in k + 1 .. b : s[i] # ":"
  PROVE  Reading(n, SubSeq(s, a, b))
           = [line |-> n, key |-> Trim(SubSeq(s, k, b)), value |-> NoValue]
<1>1. PICK y \in k .. b : s[y] # "sp" /\ \A i \in y + 1 .. b : s[i] = "sp"
  <2>1. k \in 1 .. b /\ b \in Nat
    OBVIOUS
  <2> QED BY <2>1, LastSolid
<1> DEFINE body == SubSeq(s, k, y)
           colons == {i \in DOMAIN body : i > 1 /\ body[i] = ":"}
<1>2. Trim(SubSeq(s, a, b)) = body
  BY <1>1, TrimPiece
<1>3. Trim(SubSeq(s, k, b)) = body
  BY <1>1, TrimPiece
<1>4. Trim(body) = body
  BY <1>1, TrimPiece
<1>5. body \in Seq(C) /\ Len(body) = y - k + 1 /\ \A i \in 1 .. y - k + 1 : body[i] = s[k + i - 1]
  BY <1>1, Piece
<1> HIDE DEF body
<1>6. body # <<>>
  BY <1>5
<1>7. colons = {}
  <2>1. ASSUME NEW i \in DOMAIN body, i > 1 PROVE body[i] # ":"
    <3>1. i \in 1 .. y - k + 1 /\ k + i - 1 \in k + 1 .. b
      BY <1>5, <2>1
    <3> QED BY <1>5, <3>1
  <2> QED BY <2>1
<1> QED BY <1>2, <1>3, <1>4, <1>6, <1>7 DEF Reading

\* A colon and nothing but spaces behind it: an error.
LEMMA ReadingOfNoValue ==
  ASSUME NEW C, NEW s \in Seq(C), NEW b \in 0 .. Len(s), NEW a \in 1 .. b, NEW n,
         NEW k \in a .. b, \A i \in a .. k - 1 : s[i] = "sp", s[k] # "sp",
         NEW c \in k + 1 .. b, \A i \in k + 1 .. c - 1 : s[i] # ":", s[c] = ":",
         \A i \in c + 1 .. b : s[i] = "sp"
  PROVE  Reading(n, SubSeq(s, a, b)) = [line |-> n, error |-> TRUE]
<1> DEFINE body == SubSeq(s, k, c)
           colons == {i \in DOMAIN body : i > 1 /\ body[i] = ":"}
           v == SubSeq(body, FirstOf(colons) + 1, Len(body))
<1>1. Trim(SubSeq(s, a, b)) = body
  <2>1. c \in k .. b /\ s[c] # "sp"
    OBVIOUS
  <2> QED BY <2>1, TrimPiece
<1>2. body \in Seq(C) /\ Len(body) = c - k + 1 /\ \A i \in 1 .. c - k + 1 : body[i] = s[k + i - 1]
  BY Piece
<1> HIDE DEF body
<1>3. c - k + 1 \in colons
  BY <1>2
<1>4. ASSUME NEW i \in colons PROVE c - k + 1 <= i
  <2>1. i \in 1 .. c - k + 1 /\ i > 1 /\ s[k + i - 1] = ":"
    BY <1>2
  <2>2. k + i - 1 \notin k + 1 .. c - 1
    BY <2>1
  <2> QED BY <2>1, <2>2
<1>5. FirstOf(colons) = c - k + 1
  <2>1. colons \subseteq Nat
    BY <1>2
  <2> HIDE DEF colons
  <2> QED BY <1>3, <1>4, <2>1, FirstIs
<1>6. v = <<>>
  <2>1. FirstOf(colons) + 1 = Len(body) + 1 /\ Len(body) \in Nat
    BY <1>2, <1>5
  <2>2. SubSeq(body, Len(body) + 1, Len(body)) = <<>>
    BY <1>2, <2>1, Piece
  <2> QED BY <2>1, <2>2
<1>7. Trim(v) = <<>>
  <2>1. <<>> \in Seq(C) /\ Len(<<>>) = 0 /\ 1 .. 0 = {}
    OBVIOUS
  <2>2. Trim(<<>>) = <<>>
    BY <2>1, TrimSpaces
  <2> QED BY <1>6, <2>2
<1>8. colons # {}
  BY <1>3
<1>9. Reading(n, SubSeq(s, a, b)) =
        IF body = <<>> \/ (colons # {} /\ Trim(v) = <<>>) THEN [line |-> n, error |-> TRUE]
        ELSE [line |-> n,
              key |-> Trim(IF colons = {} THEN body ELSE SubSeq(body, 1, FirstOf(colons) - 1)),
              value |-> IF colons = {} THEN NoValue ELSE Trim(v)]
  BY <1>1 DEF Reading
<1> HIDE DEF colons, v
<1> QED BY <1>7, <1>8, <1>9

\* A value: it starts behind the first colon and the spaces there.
LEMMA ReadingOfValue ==
  ASSUME NEW C, NEW s \in Seq(C), NEW b \in 0 .. Len(s), NEW a \in 1 .. b, NEW n,
         NEW k \in a .. b, \A i \in a .. k - 1 : s[i] = "sp", s[k] # "sp",
         NEW c \in k + 1 .. b, \A i \in k + 1 .. c - 1 : s[i] # ":", s[c] = ":",
         NEW w \in c + 1 .. b, \A i \in c + 1 .. w - 1 : s[i] = "sp", s[w] # "sp"
  PROVE  Reading(n, SubSeq(s, a, b))
           = [line |-> n, key |-> Trim(SubSeq(s, k, c - 1)), value |-> Trim(SubSeq(s, w, b))]
<1>1. PICK y \in w .. b : s[y] # "sp" /\ \A i \in y + 1 .. b : s[i] = "sp"
  <2>1. w \in 1 .. b /\ b \in Nat
    OBVIOUS
  <2> QED BY <2>1, LastSolid
<1> DEFINE body == SubSeq(s, k, y)
           colons == {i \in DOMAIN body : i > 1 /\ body[i] = ":"}
           v == SubSeq(body, FirstOf(colons) + 1, Len(body))
<1>2. Trim(SubSeq(s, a, b)) = body
  <2>1. y \in k .. b /\ s[y] # "sp" /\ \A i \in y + 1 .. b : s[i] = "sp"
    BY <1>1
  <2> QED BY <2>1, TrimPiece, ZenonT(30)
<1>3. body \in Seq(C) /\ Len(body) = y - k + 1 /\ \A i \in 1 .. y - k + 1 : body[i] = s[k + i - 1]
  BY Piece
<1>4. body # <<>>
  BY <1>3
<1>5. SubSeq(body, 1, c - k) = SubSeq(s, k, c - 1)
  <2>1. /\ k \in Nat \ {0} /\ y \in Nat /\ y <= Len(s) /\ k <= y + 1
        /\ 1 \in Nat \ {0} /\ c - k \in Nat /\ c - k <= y - k + 1
    OBVIOUS
  <2>2. SubSeq(body, 1, c - k) = SubSeq(s, k + 1 - 1, k + (c - k) - 1)
    BY <2>1, PieceOfPiece
  <2>3. k + 1 - 1 = k /\ k + (c - k) - 1 = c - 1
    OBVIOUS
  <2> HIDE DEF body
  <2> QED BY <2>2, <2>3
<1>6. SubSeq(body, c - k + 2, y - k + 1) = SubSeq(s, c + 1, y)
  <2>1. /\ k \in Nat \ {0} /\ y \in Nat /\ y <= Len(s) /\ k <= y + 1
        /\ c - k + 2 \in Nat \ {0} /\ y - k + 1 \in Nat /\ y - k + 1 <= y - k + 1
    OBVIOUS
  <2>2. SubSeq(body, c - k + 2, y - k + 1) = SubSeq(s, k + (c - k + 2) - 1, k + (y - k + 1) - 1)
    BY <2>1, PieceOfPiece
  <2>3. k + (c - k + 2) - 1 = c + 1 /\ k + (y - k + 1) - 1 = y
    OBVIOUS
  <2> HIDE DEF body
  <2> QED BY <2>2, <2>3
<1> HIDE DEF body
<1>7. FirstOf(colons) = c - k + 1 /\ colons # {}
  <2>1. c - k + 1 \in colons
    <3>1. c - k + 1 \in 1 .. y - k + 1 /\ k + (c - k + 1) - 1 = c /\ c - k + 1 > 1
      OBVIOUS
    <3> QED BY <1>3, <3>1
  <2>2. ASSUME NEW i \in colons PROVE c - k + 1 <= i
    <3>1. i \in 1 .. y - k + 1 /\ i > 1 /\ s[k + i - 1] = ":"
      BY <1>3
    <3>2. k + i - 1 \notin k + 1 .. c - 1
      BY <3>1
    <3> QED BY <3>1, <3>2
  <2>3. colons \subseteq Nat
    BY <1>3
  <2> HIDE DEF colons
  <2> QED BY <2>1, <2>2, <2>3, FirstIs
<1>8. v = SubSeq(s, c + 1, y) /\ FirstOf(colons) - 1 = c - k
  <2>1. FirstOf(colons) + 1 = c - k + 2 /\ FirstOf(colons) - 1 = c - k /\ Len(body) = y - k + 1
    BY <1>3, <1>7
  <2> QED BY <1>6, <2>1
<1>9. Trim(v) = SubSeq(s, w, y)
  <2>1. Trim(SubSeq(s, c + 1, y)) = SubSeq(s, w, y)
    <3> DEFINE d == c + 1
    <3>1. y \in 0 .. Len(s) /\ d \in 1 .. y /\ w \in d .. y /\ y \in w .. y
      OBVIOUS
    <3>2. s[w] # "sp" /\ s[y] # "sp" /\ \A i \in d .. w - 1 : s[i] = "sp"
      BY <1>1
    <3> HIDE DEF d
    <3>3. Trim(SubSeq(s, d, y)) = SubSeq(s, w, y)
      BY <3>1, <3>2, TrimFront, Zenon
    <3> QED BY <3>3 DEF d
  <2> QED BY <1>8, <2>1
<1>10. Trim(SubSeq(s, w, b)) = SubSeq(s, w, y)
  <2>1. w \in 1 .. b /\ w \in w .. b /\ \A i \in w .. w - 1 : s[i] = "sp"
    OBVIOUS
  <2> QED BY <1>1, <2>1, TrimPiece
<1>11. SubSeq(s, w, y) # <<>>
  <2>1. Len(SubSeq(s, w, y)) = y - w + 1
    BY Piece
  <2> QED BY <2>1
<1>12. Reading(n, SubSeq(s, a, b)) =
        IF body = <<>> \/ (colons # {} /\ Trim(v) = <<>>) THEN [line |-> n, error |-> TRUE]
        ELSE [line |-> n,
              key |-> Trim(IF colons = {} THEN body ELSE SubSeq(body, 1, FirstOf(colons) - 1)),
              value |-> IF colons = {} THEN NoValue ELSE Trim(v)]
  BY <1>2 DEF Reading
<1> HIDE DEF colons, v
<1>13. SubSeq(body, 1, FirstOf(colons) - 1) = SubSeq(s, k, c - 1)
  BY <1>5, <1>8
<1> QED BY <1>4, <1>7, <1>9, <1>10, <1>11, <1>12, <1>13

-----------------------------------------------------------------------------
(* Line numbers. *)

\* There are finitely many line ends up to p.
LEMMA LineIndexType ==
  ASSUME NEW p \in Nat
  PROVE  IsFiniteSet({i \in 1 .. p : source[i] = "nl"}) /\ LineIndex(p) \in Nat
<1>1. IsFiniteSet(1 .. p)
  BY FS_Interval
<1>2. IsFiniteSet({i \in 1 .. p : source[i] = "nl"})
  <2>1. {i \in 1 .. p : source[i] = "nl"} \subseteq 1 .. p
    OBVIOUS
  <2> QED BY <1>1, <2>1, FS_Subset
<1> QED BY <1>2, FS_CardinalityType DEF LineIndex

\* A character that ends a line adds one to them.
LEMMA LineIndexStep ==
  ASSUME NEW p \in Nat
  PROVE  LineIndex(p + 1) = IF source[p + 1] = "nl" THEN LineIndex(p) + 1 ELSE LineIndex(p)
<1> DEFINE S == {i \in 1 .. p : source[i] = "nl"}
           T == {i \in 1 .. p + 1 : source[i] = "nl"}
<1>1. IsFiniteSet(S)
  BY LineIndexType
<1>2. CASE source[p + 1] = "nl"
  <2>1. T = S \cup {p + 1} /\ p + 1 \notin S
    BY <1>2
  <2> HIDE DEF S, T
  <2>2. Cardinality(T) = Cardinality(S) + 1
    BY <1>1, <2>1, FS_AddElement
  <2> QED BY <1>2, <2>2 DEF LineIndex, S, T
<1>3. CASE source[p + 1] # "nl"
  <2>1. T = S
    BY <1>3
  <2> QED BY <1>3, <2>1 DEF LineIndex
<1> QED BY <1>2, <1>3

\* A line number grows along the file.
LEMMA LineIndexMonotone ==
  ASSUME NEW p \in Nat, NEW q \in Nat, p <= q
  PROVE  LineIndex(p) <= LineIndex(q)
<1> DEFINE S == {i \in 1 .. p : source[i] = "nl"}
           T == {i \in 1 .. q : source[i] = "nl"}
<1>1. S \subseteq T
  OBVIOUS
<1>2. IsFiniteSet(T)
  BY LineIndexType
<1> HIDE DEF S, T
<1>3. Cardinality(S) <= Cardinality(T)
  BY <1>1, <1>2, FS_Subset
<1> QED BY <1>3 DEF LineIndex, S, T

\* It stays within a line.
LEMMA LineIndexWithin ==
  ASSUME NEW p \in Nat, NEW q \in Nat, p <= q, NoEnd(p + 1, q)
  PROVE  LineIndex(p) = LineIndex(q)
<1>1. {i \in 1 .. p : source[i] = "nl"} = {i \in 1 .. q : source[i] = "nl"}
  BY DEF NoEnd
<1> QED BY <1>1 DEF LineIndex

\* It is larger behind the line.
LEMMA LineIndexBehind ==
  ASSUME source \in Seq(Chars), NEW o, NEW c, IsLine(o, c)
  PROVE  LineIndex(o) < LineIndex(c)
<1>1. o \in Nat /\ c - 1 \in Nat /\ o <= c - 1 /\ source[(c - 1) + 1] = "nl" /\ (c - 1) + 1 = c
  BY DEF IsLine
<1>2. LineIndex(o) <= LineIndex(c - 1)
  BY <1>1, LineIndexMonotone
<1>3. LineIndex(c) = LineIndex(c - 1) + 1
  BY <1>1, LineIndexStep
<1>4. LineIndex(o) \in Nat /\ LineIndex(c - 1) \in Nat
  BY <1>1, LineIndexType
<1> QED BY <1>2, <1>3, <1>4

-----------------------------------------------------------------------------
(* The text of a line. *)

\* A line starts in one place.
LEMMA LineIsUnique ==
  ASSUME source \in Seq(Chars), NEW o, NEW p, NEW c, IsLine(o, c), IsLine(p, c)
  PROVE  o = p
<1>1. /\ o \in 0 .. c - 1 /\ (o = 0 \/ source[o] = "nl") /\ c \in Nat
      /\ \A i \in o + 1 .. c - 1 : source[i] # "nl"
  BY DEF IsLine
<1>2. /\ p \in 0 .. c - 1 /\ (p = 0 \/ source[p] = "nl")
      /\ \A i \in p + 1 .. c - 1 : source[i] # "nl"
  BY DEF IsLine
<1>3. ~(o < p)
  BY <1>1, <1>2
<1>4. ~(p < o)
  BY <1>1, <1>2
<1> QED BY <1>1, <1>2, <1>3, <1>4

\* The characters of its text.
LEMMA TextOfLine ==
  ASSUME source \in Seq(Chars), NEW o, NEW c, IsLine(o, c)
  PROVE  /\ Text(o, c) \in Seq(Chars) /\ Len(Text(o, c)) = c - 1 - o
         /\ \A i \in 1 .. c - 1 - o : Text(o, c)[i] = source[o + i]
         /\ o \in Nat /\ c \in Nat /\ o < c /\ c <= Len(source)
<1> DEFINE a == o + 1
           b == c - 1
<1>1. /\ o \in Nat /\ c \in Nat /\ o < c /\ c <= Len(source)
      /\ a \in Nat \ {0} /\ b \in Nat /\ b <= Len(source) /\ a <= b + 1
  BY DEF IsLine
<1>2. Text(o, c) = SubSeq(source, a, b)
  BY DEF Text
<1> HIDE DEF a, b
<1>3. /\ SubSeq(source, a, b) \in Seq(Chars) /\ Len(SubSeq(source, a, b)) = b - a + 1
      /\ \A i \in 1 .. b - a + 1 : SubSeq(source, a, b)[i] = source[a + i - 1]
  <2>1. CASE a <= b
    BY <1>1, <2>1, Piece
  <2>2. CASE a = b + 1
    BY <1>1, <2>2, Piece
  <2> QED BY <1>1, <2>1, <2>2
<1>4. b - a + 1 = c - 1 - o /\ \A i \in 1 .. c - 1 - o : a + i - 1 = o + i
  BY <1>1 DEF a, b
<1> QED BY <1>1, <1>2, <1>3, <1>4

\* A line without two slashes has no directive.
LEMMA PlainLine ==
  ASSUME source \in Seq(Chars), NEW o, NEW c, IsLine(o, c), NoSlashes(o + 1, c - 1)
  PROVE  ~IsDirective(Text(o, c))
<1> DEFINE l == Text(o, c)
<1>1. /\ l \in Seq(Chars) /\ Len(l) = c - 1 - o /\ o \in Nat /\ c \in Nat
      /\ \A i \in 1 .. c - 1 - o : l[i] = source[o + i]
  BY TextOfLine
<1> HIDE DEF l
<1>2. Slashes(l) = {}
  <2>1. ASSUME NEW i \in 1 .. Len(l) - 1 PROVE ~(l[i] = "/" /\ l[i + 1] = "/")
    <3>1. /\ i \in 1 .. c - 1 - o /\ i + 1 \in 1 .. c - 1 - o
          /\ o + i \in o + 1 .. (c - 1) - 1 /\ o + (i + 1) = (o + i) + 1
      BY <1>1
    <3>2. l[i] = source[o + i] /\ l[i + 1] = source[(o + i) + 1]
      BY <1>1, <3>1
    <3> QED BY <3>1, <3>2 DEF NoSlashes
  <2> QED BY <2>1 DEF Slashes
<1> QED BY <1>2 DEF IsDirective, l

\* The first two slashes of a line are behind f.
LEMMA SlashedLine ==
  ASSUME source \in Seq(Chars), NEW o, NEW c, IsLine(o, c), NEW f \in o .. c - 3,
         source[f + 1] = "/", source[f + 2] = "/", NoSlashes(o + 1, f + 1)
  PROVE  /\ Slashes(Text(o, c)) # {} /\ Behind(Text(o, c)) = SubSeq(source, f + 3, c - 1)
         /\ SubSeq(source, f + 3, c - 1) \in Seq(Chars)
         /\ f + 3 = c => SubSeq(source, f + 3, c - 1) = <<>>
         /\ f + 3 < c => /\ SubSeq(source, f + 3, c - 1) # <<>>
                         /\ SubSeq(source, f + 3, c - 1)[1] = source[f + 3]
                         /\ Tail(SubSeq(source, f + 3, c - 1)) = SubSeq(source, f + 4, c - 1)
<1> DEFINE l == Text(o, c)
           g == f - o + 1
           h == f + 3
           b == c - 1
           r == SubSeq(source, h, b)
<1>1. /\ l \in Seq(Chars) /\ Len(l) = c - 1 - o /\ o \in Nat /\ c \in Nat /\ c <= Len(source)
      /\ \A i \in 1 .. c - 1 - o : l[i] = source[o + i]
  BY TextOfLine
<1> HIDE DEF l
<1>2. g \in Slashes(l)
  <2>1. /\ g \in 1 .. Len(l) - 1 /\ g \in 1 .. c - 1 - o /\ g + 1 \in 1 .. c - 1 - o
        /\ o + g = f + 1 /\ o + (g + 1) = f + 2
    BY <1>1
  <2> HIDE DEF g
  <2>2. l[g] = source[f + 1] /\ l[g + 1] = source[f + 2]
    BY <1>1, <2>1
  <2> QED BY <2>1, <2>2 DEF Slashes
<1>3. ASSUME NEW i \in Slashes(l) PROVE g <= i
  <2>1. i \in 1 .. Len(l) - 1 /\ l[i] = "/" /\ l[i + 1] = "/"
    BY DEF Slashes
  <2>2. i \in 1 .. c - 1 - o /\ i + 1 \in 1 .. c - 1 - o /\ o + (i + 1) = (o + i) + 1
    BY <1>1, <2>1
  <2>3. source[o + i] = "/" /\ source[(o + i) + 1] = "/"
    BY <1>1, <2>1, <2>2
  <2>4. o + i \notin o + 1 .. (f + 1) - 1
    BY <2>3 DEF NoSlashes
  <2> QED BY <1>1, <2>2, <2>4
<1>4. FirstOf(Slashes(l)) = g
  <2>1. Slashes(l) \subseteq Nat
    BY DEF Slashes
  <2> HIDE DEF g
  <2> QED BY <1>2, <1>3, <2>1, FirstIs
<1>5. Behind(l) = r
  <2>1. /\ o + 1 \in Nat \ {0} /\ b \in Nat /\ b <= Len(source) /\ o + 1 <= b + 1
        /\ g + 2 \in Nat \ {0} /\ Len(l) \in Nat /\ Len(l) <= b - (o + 1) + 1
        /\ (o + 1) + (g + 2) - 1 = h /\ (o + 1) + Len(l) - 1 = b
    BY <1>1
  <2>2. l = SubSeq(source, o + 1, b)
    BY DEF l, Text
  <2>3. Behind(l) = SubSeq(l, g + 2, Len(l))
    BY <1>4 DEF Behind
  <2> HIDE DEF g, h, b, r
  <2>4. SubSeq(SubSeq(source, o + 1, b), g + 2, Len(l))
          = SubSeq(source, (o + 1) + (g + 2) - 1, (o + 1) + Len(l) - 1)
    <3> DEFINE a == o + 1
               i == g + 2
               j == Len(l)
    <3>1. /\ a \in Nat \ {0} /\ a <= b + 1
          /\ i \in Nat \ {0} /\ j \in Nat /\ j <= b - a + 1
      BY <2>1
    <3> HIDE DEF a, i, j
    <3>2. SubSeq(SubSeq(source, a, b), i, j) = SubSeq(source, a + i - 1, a + j - 1)
      BY <2>1, <3>1, PieceOfPiece
    <3> QED BY <3>2 DEF a, i, j
  <2> QED BY <2>1, <2>2, <2>3, <2>4 DEF r
<1>6. h \in Nat \ {0} /\ b \in Nat /\ b <= Len(source)
  BY <1>1
<1>7. /\ r \in Seq(Chars) /\ (h <= b => Len(r) = b - h + 1) /\ (b < h => r = <<>>)
      /\ \A i \in 1 .. b - h + 1 : r[i] = source[h + i - 1]
  <2> HIDE DEF h, b
  <2> QED BY <1>6, Piece
<1>8. f + 3 = c => r = <<>>
  <2>1. f + 3 = c => b < h
    BY <1>1
  <2> HIDE DEF h, b, r
  <2> QED BY <1>7, <2>1
<1>9. ASSUME f + 3 < c
      PROVE  r # <<>> /\ r[1] = source[h] /\ Tail(r) = SubSeq(source, h + 1, b)
  <2>1. h <= b /\ 1 \in 1 .. b - h + 1 /\ h + 1 - 1 = h
    BY <1>1, <1>9
  <2> HIDE DEF h, b
  <2>2. Len(r) = b - h + 1 /\ r[1] = source[h] /\ r # <<>>
    <3> HIDE DEF r
    <3> QED BY <1>6, <1>7, <2>1
  <2>3. Tail(r) = SubSeq(r, 2, Len(r))
    <3> HIDE DEF r
    <3> QED BY <1>7, <2>2, TailIsSubSeq
  <2>4. SubSeq(SubSeq(source, h, b), 2, b - h + 1) = SubSeq(source, h + 2 - 1, h + (b - h + 1) - 1)
    <3>1. h <= b + 1 /\ 2 \in Nat \ {0} /\ b - h + 1 \in Nat /\ b - h + 1 <= b - h + 1
      BY <1>6, <2>1
    <3> QED BY <1>6, <3>1, PieceOfPiece
  <2>5. h + 2 - 1 = h + 1 /\ h + (b - h + 1) - 1 = b
    BY <1>6
  <2> QED BY <2>2, <2>3, <2>4, <2>5
<1>10. h + 1 = f + 4
  BY <1>1
<1> QED BY <1>2, <1>5, <1>7, <1>8, <1>9, <1>10 DEF l

-----------------------------------------------------------------------------
(* The expectations that the tokens of a file stand for. *)

\* The expectations of the first i tokens.
IsUpto(upto, tokens) ==
  /\ upto[0] = <<>>
  /\ \A i \in 1 .. Len(tokens) :
       upto[i] = IF IsExpectation(tokens[i]) THEN Append(upto[i - 1], Expectation(tokens[i]))
                 ELSE upto[i - 1]

\* The expectations of a file are those of all its tokens.
LEMMA ExpectationsDef ==
  ASSUME NEW S, NEW tokens \in Seq(S)
  PROVE  \E upto : IsUpto(upto, tokens) /\ Expectations(tokens) = upto[Len(tokens)]
<1> DEFINE n == Len(tokens)
           E == {Expectation(tokens[i]) : i \in 1 .. n}
           add(b, i) == IF IsExpectation(tokens[i]) THEN Append(b, Expectation(tokens[i])) ELSE b
           step == [x \in Seq(E) \X Nat |-> IF x[2] \in 1 .. n THEN add(x[1], x[2]) ELSE <<>>]
           body(g) == [i \in 0 .. n |-> IF i = 0 THEN <<>> ELSE add(g[i - 1], i)]
           upto == CHOOSE g : g = body(g)
<1>1. n \in Nat
  OBVIOUS
<1>2. \A b \in Seq(E), i \in 1 .. n : add(b, i) \in Seq(E)
  <2> SUFFICES ASSUME NEW b \in Seq(E), NEW i \in 1 .. n PROVE add(b, i) \in Seq(E)
    OBVIOUS
  <2>1. Expectation(tokens[i]) \in E
    OBVIOUS
  <2> HIDE DEF E
  <2>2. Append(b, Expectation(tokens[i])) \in Seq(E)
    BY <2>1, AppendProperties
  <2> QED BY <2>2
<1>3. step \in [Seq(E) \X Nat -> Seq(E)]
  <2> HIDE DEF add, n, E
  <2> QED BY <1>2
<1>4. PICK g : IsIteration(g, Seq(E), <<>>, n, step)
  <2> HIDE DEF step, n, E
  <2>1. <<>> \in Seq(E) /\ n \in Nat
    BY <1>1
  <2> QED BY <1>3, <2>1, Iteration
<1>5. g = body(g)
  <2>1. g \in [0 .. n -> Seq(E)] /\ g[0] = <<>> /\ \A i \in 1 .. n : g[i] = step[<<g[i - 1], i>>]
    BY <1>4 DEF IsIteration
  <2>2. \A i \in 1 .. n : g[i] = add(g[i - 1], i)
    <3> SUFFICES ASSUME NEW i \in 1 .. n PROVE g[i] = add(g[i - 1], i)
      OBVIOUS
    <3> HIDE DEF n, add, E
    <3>1. g[i - 1] \in Seq(E) /\ i \in Nat
      BY <1>1, <2>1
    <3> QED BY <2>1, <3>1
  <2> HIDE DEF add, E
  <2> QED BY <1>1, <2>1, <2>2
<1>6. upto = body(upto)
  <2> HIDE DEF body
  <2> QED BY <1>5
<1>7. Expectations(tokens) = upto[n]
  BY DEF Expectations
<1> HIDE DEF upto
<1>8. upto[0] = <<>> /\ \A i \in 1 .. n : upto[i] = add(upto[i - 1], i)
  <2> HIDE DEF add
  <2> QED BY <1>1, <1>6
<1>9. IsUpto(upto, tokens)
  BY <1>8 DEF IsUpto
<1> QED BY <1>7, <1>9

\* One more token.
LEMMA ExpectationsAppend ==
  ASSUME NEW S, NEW a \in Seq(S), NEW f \in S
  PROVE  Expectations(Append(a, f)) =
           IF IsExpectation(f) THEN Append(Expectations(a), Expectation(f)) ELSE Expectations(a)
<1> DEFINE b == Append(a, f)
           n == Len(a)
<1>1. b \in Seq(S) /\ Len(b) = n + 1 /\ n \in Nat /\ b[n + 1] = f /\ \A i \in 1 .. n : a[i] = b[i]
  BY AppendProperties
<1> HIDE DEF b
<1>2. PICK p : IsUpto(p, a) /\ Expectations(a) = p[n]
  BY ExpectationsDef
<1>3. PICK q : IsUpto(q, b) /\ Expectations(b) = q[n + 1]
  BY <1>1, ExpectationsDef
<1>4. p[n] = q[n]
  <2> DEFINE T == {i \in Nat : i \in 0 .. n => p[i] = q[i]}
  <2>1. 0 \in T
    BY <1>2, <1>3 DEF IsUpto
  <2>2. ASSUME NEW i \in Nat, i \in T PROVE i + 1 \in T
    <3>1. CASE i + 1 \in 0 .. n
      <4>1. i \in 0 .. n /\ i + 1 \in 1 .. n /\ (i + 1) - 1 = i /\ i + 1 \in 1 .. n + 1
        BY <1>1, <3>1
      <4>2. p[i] = q[i] /\ a[i + 1] = b[i + 1]
        BY <1>1, <2>2, <4>1
      <4>3. p[i + 1] = q[i + 1]
        BY <1>1, <1>2, <1>3, <4>1, <4>2 DEF IsUpto
      <4> QED BY <4>3
    <3> QED BY <3>1
  <2>3. Nat \subseteq T
    <3> HIDE DEF T
    <3> QED BY <2>1, <2>2, SetInduction
  <2> QED BY <1>1, <2>3
<1>5. q[n + 1] = IF IsExpectation(f) THEN Append(q[n], Expectation(f)) ELSE q[n]
  <2>1. n + 1 \in 1 .. Len(b) /\ (n + 1) - 1 = n
    BY <1>1
  <2> QED BY <1>1, <1>3, <2>1 DEF IsUpto
<1> QED BY <1>2, <1>3, <1>4, <1>5 DEF b

-----------------------------------------------------------------------------
(* The parser: a token is acted on or reported. *)

\* A complaint about a token.
LEMMA ComplainKeeps ==
  ASSUME ParserType, DirectivesAreKept, NEW kind \in Complaints, Complain(kind),
         NEW f \in Token, found' = Append(found, f), source' = source
  PROVE  ParserType' /\ DirectivesAreKept'
<1>1. /\ diagnostics \in Seq(Complaints) /\ diagnostics' = Append(diagnostics, kind)
      /\ found \in Seq(Token) /\ directives' = directives
      /\ directives \in [skip : Seq(Chars), expected : Seq(Expected)]
  BY DEF Complain, ParserType
<1>2. /\ diagnostics' \in Seq(Complaints) /\ Len(diagnostics') = Len(diagnostics) + 1
      /\ Len(diagnostics) \in Nat
  BY <1>1, AppendProperties
<1>3. found' \in Seq(Token) /\ Len(found') = Len(found) + 1 /\ Len(found) \in Nat
  BY <1>1, AppendProperties
<1>4. Token' = Token /\ Chars' = Chars /\ Expected' = Expected
  BY DEF Token, Chars, Expected
<1>5. ParserType'
  BY <1>1, <1>2, <1>3, <1>4 DEF ParserType
<1>6. diagnostics' # <<>>
  BY <1>2
<1>7. Len(directives.expected) \in Nat
  BY <1>1
<1> DEFINE skips == IF directives.skip = NoSkip THEN 0 ELSE 1
<1>8. skips \in Nat /\ Len(found) = Len(directives.expected) + Len(diagnostics) + skips
  BY DEF DirectivesAreKept
<1>9. Len(found') = Len(directives'.expected) + Len(diagnostics') + skips'
  <2>1. skips' = skips
    BY <1>1
  <2> HIDE DEF skips
  <2> QED BY <1>1, <1>2, <1>3, <1>7, <1>8, <2>1
<1> QED BY <1>5, <1>6, <1>9 DEF DirectivesAreKept

\* The parser takes a token or complains of it.
LEMMA EmitKeeps ==
  ASSUME LexerType, ParserType, DirectivesAreKept, source' = source,
         NEW k \in Seq(Chars), NEW v \in Seq(Chars), Emit(k, v)
  PROVE  ParserType' /\ DirectivesAreKept'
<1> DEFINE n == LineIndex(start)
           f == [line |-> n, key |-> k, value |-> v]
<1>1. n \in Nat
  <2>1. start \in Nat
    BY DEF LexerType
  <2> QED BY <2>1, LineIndexType
<1>2. f \in Token
  BY <1>1 DEF Token
<1>3. found' = Append(found, f)
  BY DEF Emit
<1>4. /\ diagnostics \in Seq(Complaints) /\ found \in Seq(Token)
      /\ directives \in [skip : Seq(Chars), expected : Seq(Expected)]
  BY DEF ParserType
<1>5. found' \in Seq(Token) /\ Len(found') = Len(found) + 1 /\ Len(found) \in Nat
  <2> HIDE DEF f
  <2> QED BY <1>2, <1>3, <1>4, AppendProperties
<1>6. Expectations(found') =
        IF IsExpectation(f) THEN Append(Expectations(found), Expectation(f)) ELSE Expectations(found)
  <2> HIDE DEF f
  <2> QED BY <1>2, <1>3, <1>4, ExpectationsAppend
<1>7. Token' = Token /\ Chars' = Chars /\ Expected' = Expected
  BY DEF Token, Chars, Expected
<1>8. f.key = k /\ f.line = n /\ f.value = v /\ "key" \in DOMAIN f
  OBVIOUS
<1>9. Len(diagnostics) \in Nat /\ Len(directives.expected) \in Nat
  BY <1>4
<1>10. ASSUME NEW kind \in Complaints, Complain(kind)
       PROVE  ParserType' /\ DirectivesAreKept'
  <2> HIDE DEF f
  <2> QED BY <1>2, <1>3, <1>10, ComplainKeeps
<1> HIDE DEF f, n
<1>11. CASE k = <<"SKIP">>
  <2>1. Skip(v)
    BY <1>11 DEF Emit, ExpectDirective
  <2>2. CASE v = NoValue \/ directives.skip # NoSkip
    <3>1. Complain("MissingReason") \/ Complain("DuplicateDirective")
      BY <2>1, <2>2 DEF Skip
    <3> QED BY <1>10, <3>1 DEF Complaints
  <2>3. CASE v # NoValue /\ directives.skip = NoSkip
    <3>1. directives' = [directives EXCEPT !.skip = v] /\ diagnostics' = diagnostics
      BY <2>1, <2>3 DEF Skip
    <3>2. /\ directives' \in [skip : Seq(Chars), expected : Seq(Expected)]
          /\ directives'.expected = directives.expected /\ directives'.skip = v
      BY <1>4, <3>1
    <3>3. v # NoSkip
      BY <2>3 DEF NoSkip, NoValue
    <3>4. ParserType'
      BY <1>4, <1>5, <1>7, <3>1, <3>2 DEF ParserType
    <3>5. Len(found') = Len(directives'.expected) + Len(diagnostics')
                        + (IF directives'.skip = NoSkip THEN 0 ELSE 1)
      BY <1>5, <1>9, <2>3, <3>1, <3>2, <3>3 DEF DirectivesAreKept
    <3>6. ~IsExpectation(f)
      BY <1>8, <1>11 DEF IsExpectation
    <3>7. diagnostics' = <<>> => directives'.expected = Expectations(found')
      BY <1>6, <3>1, <3>2, <3>6 DEF DirectivesAreKept
    <3> QED BY <3>4, <3>5, <3>7 DEF DirectivesAreKept, NoSkip
  <2> QED BY <2>2, <2>3
<1>12. CASE k # <<"SKIP">> /\ Len(k) = 1 /\ k[1] \in DOMAIN Severities
  <2>1. ExpectDiagnostic(Severities[k[1]], v)
    BY <1>12 DEF Emit, ExpectDirective
  <2>2. CASE v # NoValue /\ ~IsRegex(v)
    <3>1. Complain("InvalidRegex")
      BY <2>1, <2>2 DEF ExpectDiagnostic
    <3> QED BY <1>10, <3>1 DEF Complaints
  <2>3. CASE ~(v # NoValue /\ ~IsRegex(v))
    <3> DEFINE e == [line |-> n, severity |-> Severities[k[1]], pattern |-> v]
    <3>1. /\ directives' = [directives EXCEPT !.expected = Append(@, e)]
          /\ diagnostics' = diagnostics
      BY <2>1, <2>3 DEF ExpectDiagnostic, n
    <3>2. e \in Expected
      <4>1. DOMAIN Severities = SeverityNames
        BY DEF Severities, SeverityNames
      <4>2. Severities[k[1]] \in {Severities[s] : s \in SeverityNames}
        BY <1>12, <4>1
      <4> QED BY <1>1, <4>2 DEF Expected
    <3>3. Expectation(f) = e /\ IsExpectation(f)
      BY <1>8, <1>12 DEF Expectation, IsExpectation
    <3> HIDE DEF e
    <3>4. /\ Append(directives.expected, e) \in Seq(Expected)
          /\ Len(Append(directives.expected, e)) = Len(directives.expected) + 1
      BY <1>4, <3>2, AppendProperties
    <3>5. /\ directives' \in [skip : Seq(Chars), expected : Seq(Expected)]
          /\ directives'.expected = Append(directives.expected, e)
          /\ directives'.skip = directives.skip
      BY <1>4, <3>1, <3>4
    <3>6. ParserType'
      BY <1>4, <1>5, <1>7, <3>1, <3>5 DEF ParserType
    <3>7. Len(found') = Len(directives'.expected) + Len(diagnostics')
                        + (IF directives'.skip = NoSkip THEN 0 ELSE 1)
      BY <1>5, <1>9, <3>1, <3>4, <3>5 DEF DirectivesAreKept
    <3>8. diagnostics' = <<>> => directives'.expected = Expectations(found')
      BY <1>6, <3>1, <3>3, <3>5 DEF DirectivesAreKept
    <3> QED BY <3>6, <3>7, <3>8 DEF DirectivesAreKept, NoSkip
  <2> QED BY <2>2, <2>3
<1>13. CASE k # <<"SKIP">> /\ ~(Len(k) = 1 /\ k[1] \in DOMAIN Severities)
  <2>1. Complain("UnknownDirective")
    BY <1>13 DEF Emit, ExpectDirective
  <2> QED BY <1>10, <2>1 DEF Complaints
<1> QED BY <1>11, <1>12, <1>13

\* What the lexer does not expect is reported.
LEMMA UnexpectedKeeps ==
  ASSUME LexerType, ParserType, DirectivesAreKept, source' = source,
         NEW kind \in Complaints, Unexpected(kind)
  PROVE  ParserType' /\ DirectivesAreKept'
<1>1. LineIndex(start) \in Nat
  <2>1. start \in Nat
    BY DEF LexerType
  <2> QED BY <2>1, LineIndexType
<1> DEFINE f == [line |-> LineIndex(start), error |-> TRUE]
<1>2. f \in Token
  BY <1>1 DEF Token
<1>3. found' = Append(found, f) /\ Complain(kind)
  BY DEF Unexpected
<1> HIDE DEF f
<1> QED BY <1>2, <1>3, ComplainKeeps

\* Nothing is yielded and nothing is done.
LEMMA QuietKeeps ==
  ASSUME ParserType, DirectivesAreKept, source' = source,
         UNCHANGED <<directives, diagnostics, found>>
  PROVE  ParserType' /\ DirectivesAreKept'
<1>1. Token' = Token /\ Chars' = Chars /\ Expected' = Expected
  BY DEF Token, Chars, Expected
<1>2. ParserType'
  BY <1>1 DEF ParserType
<1>3. DirectivesAreKept'
  BY DEF DirectivesAreKept, NoSkip
<1> QED BY <1>2, <1>3

-----------------------------------------------------------------------------
(* The tokens of the lines behind the lexer. *)

\* A token of another line changes nothing for line n.
LEMMA OtherLine ==
  ASSUME NEW S, NEW tokens \in Seq(S), NEW f \in S, NEW n, NEW l, f.line # n,
         ReadsLine(tokens, n, l)
  PROVE  ReadsLine(Append(tokens, f), n, l)
<1> DEFINE more == Append(tokens, f)
           m == Len(tokens)
           on == {i \in DOMAIN tokens : tokens[i].line = n}
           onMore == {i \in DOMAIN more : more[i].line = n}
<1>1. /\ m \in Nat /\ DOMAIN tokens = 1 .. m /\ DOMAIN more = 1 .. m + 1
      /\ more[m + 1] = f /\ \A i \in 1 .. m : more[i] = tokens[i]
  BY AppendProperties
<1> HIDE DEF more
<1>2. onMore = on
  BY <1>1
<1>3. \A i \in on : more[i] = tokens[i]
  BY <1>1
<1>4. IF IsDirective(l) THEN \E i \in on : on = {i} /\ tokens[i] = Reading(n, Tail(Behind(l)))
      ELSE on = {}
  BY DEF ReadsLine
<1>5. IF IsDirective(l)
      THEN \E i \in onMore : onMore = {i} /\ more[i] = Reading(n, Tail(Behind(l)))
      ELSE onMore = {}
  <2> HIDE DEF on, onMore
  <2> QED BY <1>2, <1>3, <1>4
<1> QED BY <1>5 DEF ReadsLine, more

\* The first token of line n, its directive.
LEMMA DirectiveLine ==
  ASSUME NEW S, NEW tokens \in Seq(S), NEW f \in S, NEW n, NEW l,
         \A i \in DOMAIN tokens : tokens[i].line # n,
         IsDirective(l), f.line = n, f = Reading(n, Tail(Behind(l)))
  PROVE  ReadsLine(Append(tokens, f), n, l)
<1> DEFINE more == Append(tokens, f)
           m == Len(tokens)
           onMore == {i \in DOMAIN more : more[i].line = n}
<1>1. /\ m \in Nat /\ DOMAIN tokens = 1 .. m /\ DOMAIN more = 1 .. m + 1
      /\ more[m + 1] = f /\ \A i \in 1 .. m : more[i] = tokens[i]
  BY AppendProperties
<1> HIDE DEF more
<1>2. onMore = {m + 1}
  BY <1>1
<1>3. \E i \in onMore : onMore = {i} /\ more[i] = Reading(n, Tail(Behind(l)))
  <2> HIDE DEF onMore
  <2> QED BY <1>1, <1>2
<1> QED BY <1>3 DEF ReadsLine, more

\* A line without a directive and without a token.
LEMMA OtherwiseNone ==
  ASSUME NEW tokens, NEW n, NEW l, \A i \in DOMAIN tokens : tokens[i].line # n, ~IsDirective(l)
  PROVE  ReadsLine(tokens, n, l)
BY DEF ReadsLine

\* What the primed lines are when the source stays.
LEMMA LinesStay ==
  ASSUME source' = source
  PROVE  /\ \A p : LineIndex(p)' = LineIndex(p)
         /\ \A o, c : (IsLine(o, c)' <=> IsLine(o, c)) /\ Text(o, c)' = Text(o, c)
         /\ \A o : IsHidden(o)' <=> IsHidden(o)
<1>1. \A p : LineIndex(p)' = LineIndex(p)
  BY DEF LineIndex
<1>2. \A o, c : (IsLine(o, c)' <=> IsLine(o, c)) /\ Text(o, c)' = Text(o, c)
  BY DEF IsLine, Text
<1>3. \A o : IsHidden(o)' <=> IsHidden(o)
  BY DEF IsHidden, IsLine, Text
<1> QED BY <1>1, <1>2, <1>3

\* The invariants of the lines behind the lexer, after a step.
LEMMA BehindNext ==
  ASSUME source' = source,
         mode' # "done" => \A i \in DOMAIN found' : found'[i].line < LineIndex(pos'),
         \A open, close \in 0 .. pos' :
           IsLine(open, close) /\ ~IsHidden(open) =>
             ReadsLine(found', LineIndex(open), Text(open, close))
  PROVE  FoundInv' /\ BehindInv'
<1>1. FoundInv'
  BY DEF FoundInv, LineIndex
<1>2. BehindInv'
  BY DEF BehindInv, LineIndex, IsLine, IsHidden, Text
<1> QED BY <1>1, <1>2

\* The line the lexer is in.
LEMMA CurrentLine ==
  ASSUME LexerType, NEW o, InLine(o)
  PROVE  /\ o \in Nat /\ o <= pos /\ LineIndex(o) = LineIndex(pos)
         /\ \A p \in o .. pos : LineIndex(p) = LineIndex(o)
         /\ pos < Len(source) /\ source[pos + 1] = "nl" => IsLine(o, pos + 1)
<1>1. o \in Nat /\ o <= pos /\ pos \in Nat /\ pos <= Len(source) /\ Len(source) \in Nat
  BY DEF LexerType, InLine
<1>2. ASSUME NEW p \in o .. pos PROVE LineIndex(p) = LineIndex(o)
  <2>1. p \in Nat /\ o <= p /\ NoEnd(o + 1, p)
    BY <1>1 DEF InLine, NoEnd
  <2> QED BY <1>1, <2>1, LineIndexWithin
<1>3. LineIndex(o) = LineIndex(pos)
  BY <1>1, <1>2
<1>4. pos < Len(source) /\ source[pos + 1] = "nl" => IsLine(o, pos + 1)
  BY <1>1 DEF IsLine, InLine, NoEnd, LexerType
<1> QED BY <1>1, <1>2, <1>3, <1>4

\* A token of the line the lexer is in changes nothing for the lines behind it.
LEMMA LinesBehind ==
  ASSUME LexerType, ParserType, BehindInv, NEW f \in Token, f.line = LineIndex(pos),
         NEW open \in 0 .. pos, NEW close \in 0 .. pos, IsLine(open, close), ~IsHidden(open)
  PROVE  ReadsLine(Append(found, f), LineIndex(open), Text(open, close))
<1>1. ReadsLine(found, LineIndex(open), Text(open, close))
  BY DEF BehindInv
<1>2. pos \in Nat /\ open \in Nat /\ close \in Nat /\ close <= pos
  BY DEF LexerType
<1>3. LineIndex(open) < LineIndex(close) /\ LineIndex(close) <= LineIndex(pos)
  BY <1>2, LineIndexBehind, LineIndexMonotone DEF LexerType
<1>4. LineIndex(open) \in Nat /\ LineIndex(close) \in Nat /\ LineIndex(pos) \in Nat
  BY <1>2, LineIndexType
<1>5. f.line # LineIndex(open)
  BY <1>3, <1>4
<1>6. found \in Seq(Token)
  BY DEF ParserType
<1> QED BY <1>1, <1>5, <1>6, OtherLine

\* The lexer goes on in its line.
LEMMA WithinLine ==
  ASSUME LexerType, FoundInv, BehindInv, mode # "done", pos < Len(source),
         source[pos + 1] # "nl", pos' = pos + 1, source' = source, found' = found
  PROVE  FoundInv' /\ BehindInv'
<1>1. pos \in Nat
  BY DEF LexerType
<1>2. LineIndex(pos') = LineIndex(pos)
  BY <1>1, LineIndexStep
<1>3. \A i \in DOMAIN found' : found'[i].line < LineIndex(pos')
  BY <1>2 DEF FoundInv
<1>4. ASSUME NEW open \in 0 .. pos', NEW close \in 0 .. pos', IsLine(open, close), ~IsHidden(open)
      PROVE  ReadsLine(found', LineIndex(open), Text(open, close))
  <2>1. close # pos + 1
    BY <1>4 DEF IsLine
  <2>2. close \in 0 .. pos /\ open \in 0 .. pos
    BY <1>1, <1>4, <2>1 DEF IsLine
  <2> QED BY <1>4, <2>2 DEF BehindInv
<1> QED BY <1>3, <1>4, BehindNext

\* The line number behind the end of a line.
LEMMA NextLine ==
  ASSUME LexerType, ParserType, FoundInv, mode # "done", pos < Len(source), source[pos + 1] = "nl"
  PROVE  /\ LineIndex(pos + 1) = LineIndex(pos) + 1 /\ LineIndex(pos) \in Nat
         /\ \A i \in DOMAIN found :
              found[i].line < LineIndex(pos + 1) /\ found[i].line # LineIndex(pos)
<1>1. pos \in Nat
  BY DEF LexerType
<1>2. LineIndex(pos + 1) = LineIndex(pos) + 1 /\ LineIndex(pos) \in Nat
  BY <1>1, LineIndexStep, LineIndexType
<1>3. ASSUME NEW i \in DOMAIN found
      PROVE  found[i].line < LineIndex(pos + 1) /\ found[i].line # LineIndex(pos)
  <2>1. found[i] \in Token
    BY DEF ParserType
  <2>2. found[i].line \in Nat
    BY <2>1 DEF Token
  <2>3. found[i].line < LineIndex(pos)
    BY DEF FoundInv
  <2> QED BY <1>2, <2>2, <2>3
<1> QED BY <1>2, <1>3

\* The line ends, and nothing is yielded.
LEMMA EndsQuietly ==
  ASSUME LexerType, ParserType, FoundInv, BehindInv, mode # "done", pos < Len(source),
         source[pos + 1] = "nl", pos' = pos + 1, source' = source, found' = found,
         NEW o, InLine(o), IsHidden(o) \/ ~IsDirective(Text(o, pos + 1))
  PROVE  FoundInv' /\ BehindInv'
<1>1. pos \in Nat
  BY DEF LexerType
<1>2. /\ \A i \in DOMAIN found :
           found[i].line < LineIndex(pos + 1) /\ found[i].line # LineIndex(pos)
  BY NextLine
<1>3. IsLine(o, pos + 1) /\ LineIndex(o) = LineIndex(pos)
  BY CurrentLine
<1>4. \A i \in DOMAIN found' : found'[i].line < LineIndex(pos')
  BY <1>2
<1>5. ASSUME NEW open \in 0 .. pos', NEW close \in 0 .. pos', IsLine(open, close), ~IsHidden(open)
      PROVE  ReadsLine(found', LineIndex(open), Text(open, close))
  <2>1. CASE close = pos + 1
    <3>1. open = o
      BY <1>3, <1>5, <2>1, LineIsUnique DEF LexerType
    <3>2. ~IsDirective(Text(open, close)) /\ \A i \in DOMAIN found : found[i].line # LineIndex(open)
      BY <1>2, <1>3, <1>5, <2>1, <3>1
    <3>3. ReadsLine(found, LineIndex(open), Text(open, close))
      BY <3>2, OtherwiseNone
    <3> QED BY <3>3
  <2>2. CASE close # pos + 1
    <3>1. close \in 0 .. pos /\ open \in 0 .. pos
      BY <1>1, <1>5, <2>2 DEF IsLine
    <3> QED BY <1>5, <3>1 DEF BehindInv
  <2> QED BY <2>1, <2>2
<1> QED BY <1>4, <1>5, BehindNext

\* The line ends, and its directive is yielded.
LEMMA EndsWithToken ==
  ASSUME LexerType, ParserType, FoundInv, BehindInv, mode # "done", pos < Len(source),
         source[pos + 1] = "nl", pos' = pos + 1, source' = source,
         NEW o, InLine(o), IsDirective(Text(o, pos + 1)),
         NEW f \in Token, found' = Append(found, f), f.line = LineIndex(o),
         f = Reading(LineIndex(o), Tail(Behind(Text(o, pos + 1))))
  PROVE  FoundInv' /\ BehindInv'
<1>1. pos \in Nat /\ found \in Seq(Token)
  BY DEF LexerType, ParserType
<1>2. /\ LineIndex(pos + 1) = LineIndex(pos) + 1 /\ LineIndex(pos) \in Nat
      /\ \A i \in DOMAIN found :
           found[i].line < LineIndex(pos + 1) /\ found[i].line # LineIndex(pos)
  BY NextLine
<1>3. IsLine(o, pos + 1) /\ LineIndex(o) = LineIndex(pos)
  BY CurrentLine
<1>4. ASSUME NEW i \in DOMAIN found' PROVE found'[i].line < LineIndex(pos')
  <2>1. /\ Len(found) \in Nat /\ DOMAIN found = 1 .. Len(found)
        /\ DOMAIN found' = 1 .. Len(found) + 1
        /\ found'[Len(found) + 1] = f /\ \A j \in 1 .. Len(found) : found'[j] = found[j]
    BY <1>1, AppendProperties
  <2>2. CASE i = Len(found) + 1
    BY <1>2, <1>3, <2>1, <2>2
  <2>3. CASE i \in DOMAIN found
    BY <1>2, <2>1, <2>3
  <2> QED BY <2>1, <2>2, <2>3
<1>5. ASSUME NEW open \in 0 .. pos', NEW close \in 0 .. pos', IsLine(open, close), ~IsHidden(open)
      PROVE  ReadsLine(found', LineIndex(open), Text(open, close))
  <2>1. CASE close = pos + 1
    <3>1. open = o
      BY <1>3, <1>5, <2>1, LineIsUnique DEF LexerType
    <3>2. \A i \in DOMAIN found : found[i].line # LineIndex(o)
      BY <1>2, <1>3
    <3>3. ReadsLine(Append(found, f), LineIndex(o), Text(o, pos + 1))
      BY <1>1, <3>2, DirectiveLine
    <3> QED BY <2>1, <3>1, <3>3
  <2>2. CASE close # pos + 1
    <3>1. close \in 0 .. pos /\ open \in 0 .. pos
      BY <1>1, <1>5, <2>2 DEF IsLine
    <3>2. f.line = LineIndex(pos)
      BY <1>3
    <3> QED BY <1>5, <3>1, <3>2, LinesBehind
  <2> QED BY <2>1, <2>2
<1> QED BY <1>4, <1>5, BehindNext

\* The file ends.
LEMMA EndsFile ==
  ASSUME LexerType, ParserType, BehindInv, pos' = pos, source' = source, mode' = "done",
         \/ found' = found
         \/ \E f \in Token : f.line = LineIndex(pos) /\ found' = Append(found, f)
  PROVE  FoundInv' /\ BehindInv'
<1>1. ASSUME NEW open \in 0 .. pos', NEW close \in 0 .. pos', IsLine(open, close), ~IsHidden(open)
      PROVE  ReadsLine(found', LineIndex(open), Text(open, close))
  <2>1. CASE found' = found
    BY <1>1, <2>1 DEF BehindInv
  <2>2. CASE \E f \in Token : f.line = LineIndex(pos) /\ found' = Append(found, f)
    <3>1. PICK f \in Token : f.line = LineIndex(pos) /\ found' = Append(found, f)
      BY <2>2
    <3>2. open \in 0 .. pos /\ close \in 0 .. pos
      OBVIOUS
    <3> QED BY <1>1, <3>1, <3>2, LinesBehind
  <2> QED BY <2>1, <2>2
<1> QED BY <1>1, BehindNext

\* A piece grows by the next character.
LEMMA PieceGrows ==
  ASSUME NEW C, NEW s \in Seq(C), NEW a \in Nat \ {0}, NEW b \in Nat, b < Len(s), a <= b + 1
  PROVE  Append(SubSeq(s, a, b), s[b + 1]) = SubSeq(s, a, b + 1)
<1> DEFINE t == SubSeq(s, a, b)
           u == Append(t, s[b + 1])
           w == SubSeq(s, a, b + 1)
           m == b - a + 1
<1>1. t \in Seq(C) /\ Len(t) = m /\ m \in Nat /\ \A i \in 1 .. m : t[i] = s[a + i - 1]
  <2>1. CASE a <= b
    BY <2>1, Piece
  <2>2. CASE a = b + 1
    BY <2>2, Piece
  <2> QED BY <2>1, <2>2
<1>2. w \in Seq(C) /\ Len(w) = m + 1 /\ \A i \in 1 .. m + 1 : w[i] = s[a + i - 1]
  <2> DEFINE d == b + 1
  <2>1. d \in Nat /\ d <= Len(s) /\ a <= d /\ d - a + 1 = m + 1
    OBVIOUS
  <2> HIDE DEF d
  <2>2. /\ SubSeq(s, a, d) \in Seq(C) /\ Len(SubSeq(s, a, d)) = d - a + 1
        /\ \A i \in 1 .. d - a + 1 : SubSeq(s, a, d)[i] = s[a + i - 1]
    BY <2>1, Piece
  <2> QED BY <2>1, <2>2 DEF d
<1>3. s[b + 1] \in C
  OBVIOUS
<1> HIDE DEF t, w
<1>4. u \in Seq(C) /\ Len(u) = m + 1 /\ u[m + 1] = s[b + 1] /\ \A i \in 1 .. m : u[i] = t[i]
  <2> HIDE DEF m
  <2> QED BY <1>1, <1>3, AppendProperties
<1> HIDE DEF u
<1>5. \A i \in 1 .. m + 1 : u[i] = w[i]
  <2> SUFFICES ASSUME NEW i \in 1 .. m + 1 PROVE u[i] = w[i]
    OBVIOUS
  <2>1. CASE i = m + 1
    <3>1. a + (m + 1) - 1 = b + 1
      OBVIOUS
    <3> QED BY <1>2, <1>4, <2>1, <3>1
  <2>2. CASE i \in 1 .. m
    BY <1>1, <1>2, <1>4, <2>2
  <2> QED BY <1>1, <2>1, <2>2
<1>6. u = w
  BY <1>2, <1>4, <1>5, SeqEqual
<1> QED BY <1>6 DEF u, w, t

-----------------------------------------------------------------------------
(* Steps of the lexer. *)

\* A step that takes a character.
LEMMA TakesCharacter ==
  ASSUME LexerType, More, NEW m \in Modes, m # "done", Advance(m)
  PROVE  /\ mode # "done" /\ pos \in Nat /\ pos < Len(source) /\ Len(source) \in Nat
         /\ pos' = pos + 1 /\ source' = source /\ mode' = m
         /\ Ch = source[pos + 1] /\ Ch \in Chars /\ Chars' = Chars /\ EndInv'
         /\ (start' \in 0 .. Len(source) /\ key' \in Seq(Chars) /\ value' \in Seq(Chars)
               => LexerType')
<1>1. /\ mode # "done" /\ pos \in Nat /\ pos < Len(source) /\ Len(source) \in Nat
      /\ pos' = pos + 1 /\ source' = source /\ mode' = m /\ Ch = source[pos + 1]
  BY DEF LexerType, More, Advance, Ch
<1>2. Ch \in Chars /\ Chars' = Chars
  <2>1. pos + 1 \in DOMAIN source
    BY <1>1 DEF LexerType
  <2> QED BY <1>1, <2>1 DEF Chars
<1>3. EndInv'
  BY <1>1 DEF EndInv
<1>4. start' \in 0 .. Len(source) /\ key' \in Seq(Chars) /\ value' \in Seq(Chars) => LexerType'
  BY <1>1, <1>2 DEF LexerType
<1> QED BY <1>1, <1>2, <1>3, <1>4

\* The lexer stays in its line.
LEMMA SameLine ==
  ASSUME LexerType, NEW o, InLine(o), source[pos + 1] # "nl", pos' = pos + 1, source' = source
  PROVE  InLine(o)' /\ o \in 0 .. pos'
<1>1. pos \in Nat /\ o \in 0 .. pos
  BY DEF LexerType, InLine
<1>2. NoEnd(o + 1, pos + 1)
  BY <1>1 DEF InLine, NoEnd
<1> QED BY <1>1, <1>2 DEF InLine, NoEnd

\* The lexer goes to the next line.
LEMMA OnNewLine ==
  ASSUME LexerType, source[pos + 1] = "nl", NEW e \in Nat, e = pos + 1, pos' = e, source' = source
  PROVE  InLine(e)' /\ e \in 0 .. pos'
<1>1. pos \in Nat
  BY DEF LexerType
<1> QED BY <1>1 DEF InLine, NoEnd

\* There it looks for a comment.
LEMMA FreshLine ==
  ASSUME LexerType, source[pos + 1] = "nl", pos' = pos + 1, source' = source, mode' = "top"
  PROVE  LineInv'
<1>1. PICK e \in Nat : e = pos + 1
  BY DEF LexerType
<1>2. InLine(e)' /\ e \in 0 .. pos'
  BY <1>1, OnNewLine
<1>3. Within(e)'
  BY <1>1 DEF Within, NoSlashes
<1> QED BY <1>2, <1>3 DEF LineInv

\* The slashes of the line stay where they are, and the tilde behind them.
LEMMA SlashedStays ==
  ASSUME LexerType, NEW o, Slashed(o, start), pos' = pos + 1, source' = source, start' = start
  PROVE  Slashed(o, start)' /\ (Tilde(o) => Tilde(o)')
<1>1. pos \in Nat
  BY DEF LexerType
<1>2. NoSlashes(o + 1, start + 1)'
  BY DEF Slashed, NoSlashes
<1>3. start' \in o .. pos' - 2
  BY <1>1 DEF Slashed
<1>4. Slashed(o, start)'
  BY <1>2, <1>3 DEF Slashed
<1>5. Tilde(o) => Tilde(o)'
  BY <1>1, <1>4 DEF Tilde, LexerType
<1> QED BY <1>4, <1>5

\* Between tokens.
LEMMA TopInv ==
  ASSUME IInv, Top
  PROVE  IInv'
<1>1. /\ LexerType /\ ParserType /\ LineInv /\ FoundInv /\ BehindInv /\ DirectivesAreKept
      /\ start \in 0 .. Len(source) /\ key \in Seq(Chars) /\ value \in Seq(Chars)
  BY DEF IInv, TypeOK, LexerType
<1>2. More /\ mode = "top" /\ UNCHANGED <<key, value, directives, diagnostics, found>>
  BY DEF Top, Quiet
<1>3. PICK o \in 0 .. pos : InLine(o) /\ Within(o)
  BY <1>1, <1>2 DEF LineInv
<1>4. NoSlashes(o + 1, pos) /\ (pos > o => source[pos] # "/")
  BY <1>2, <1>3 DEF Within
<1>5. CASE Ch = "/"
  <2>1. Advance("slash") /\ start' = pos
    BY <1>5 DEF Top
  <2>2. /\ mode # "done" /\ pos \in Nat /\ pos < Len(source) /\ Len(source) \in Nat
        /\ pos' = pos + 1 /\ source' = source /\ mode' = "slash"
        /\ Ch = source[pos + 1] /\ EndInv' /\ Chars' = Chars
    BY <1>1, <1>2, <2>1, TakesCharacter DEF Modes
  <2>3. LexerType'
    BY <1>1, <1>2, <2>1, <2>2 DEF LexerType, Modes
  <2>4. InLine(o)' /\ o \in 0 .. pos'
    BY <1>1, <1>3, <1>5, <2>2, SameLine
  <2>5. Within(o)'
    BY <1>4, <1>5, <2>1, <2>2 DEF Within, NoSlashes
  <2>6. LineInv'
    BY <2>4, <2>5 DEF LineInv
  <2>7. FoundInv' /\ BehindInv'
    BY <1>1, <1>2, <1>5, <2>2, WithinLine
  <2>8. ParserType' /\ DirectivesAreKept'
    BY <1>1, <1>2, <2>2, QuietKeeps
  <2> QED BY <2>2, <2>3, <2>6, <2>7, <2>8 DEF IInv, TypeOK
<1>6. CASE Ch # "/"
  <2>1. Advance("top") /\ start' = start
    BY <1>6 DEF Top, Quiet
  <2>2. /\ mode # "done" /\ pos \in Nat /\ pos < Len(source) /\ Len(source) \in Nat
        /\ pos' = pos + 1 /\ source' = source /\ mode' = "top"
        /\ Ch = source[pos + 1] /\ EndInv' /\ Chars' = Chars
    BY <1>1, <1>2, <2>1, TakesCharacter DEF Modes
  <2>3. LexerType'
    BY <1>1, <1>2, <2>1, <2>2 DEF LexerType, Modes
  <2>4. ParserType' /\ DirectivesAreKept'
    BY <1>1, <1>2, <2>2, QuietKeeps
  <2>5. CASE Ch = "nl"
    <3>1. LineInv'
      BY <1>1, <2>2, <2>5, FreshLine
    <3>2. ~IsDirective(Text(o, pos + 1))
      <4>1. IsLine(o, pos + 1)
        BY <1>1, <1>3, <2>2, <2>5, CurrentLine
      <4>2. NoSlashes(o + 1, (pos + 1) - 1)
        BY <1>4, <2>2
      <4> QED BY <1>1, <4>1, <4>2, PlainLine DEF LexerType
    <3>3. FoundInv' /\ BehindInv'
      BY <1>1, <1>2, <1>3, <2>2, <2>5, <3>2, EndsQuietly
    <3> QED BY <2>2, <2>3, <2>4, <3>1, <3>3 DEF IInv, TypeOK
  <2>6. CASE Ch # "nl"
    <3>1. InLine(o)' /\ o \in 0 .. pos'
      BY <1>1, <1>3, <2>2, <2>6, SameLine
    <3>2. Within(o)'
      BY <1>4, <1>6, <2>2 DEF Within, NoSlashes
    <3>3. LineInv'
      BY <3>1, <3>2 DEF LineInv
    <3>4. FoundInv' /\ BehindInv'
      BY <1>1, <1>2, <2>2, <2>6, WithinLine
    <3> QED BY <2>2, <2>3, <2>4, <3>3, <3>4 DEF IInv, TypeOK
  <2> QED BY <2>5, <2>6
<1> QED BY <1>5, <1>6

\* Behind one slash.
LEMMA SecondSlashInv ==
  ASSUME IInv, SecondSlash
  PROVE  IInv'
<1>1. /\ LexerType /\ ParserType /\ LineInv /\ FoundInv /\ BehindInv /\ DirectivesAreKept
      /\ start \in 0 .. Len(source) /\ key \in Seq(Chars) /\ value \in Seq(Chars)
  BY DEF IInv, TypeOK, LexerType
<1>2. More /\ mode = "slash" /\ UNCHANGED <<start, key, value, directives, diagnostics, found>>
  BY DEF SecondSlash, Quiet
<1>3. PICK o \in 0 .. pos : InLine(o) /\ Within(o)
  BY <1>1, <1>2 DEF LineInv
<1>4. pos > o /\ start = pos - 1 /\ source[pos] = "/" /\ NoSlashes(o + 1, pos)
  BY <1>2, <1>3 DEF Within
<1> DEFINE m == IF Ch = "/" THEN "slashes" ELSE "top"
<1>5. Advance(m)
  BY DEF SecondSlash
<1>6. /\ mode # "done" /\ pos \in Nat /\ pos < Len(source) /\ Len(source) \in Nat
      /\ pos' = pos + 1 /\ source' = source /\ mode' = m
      /\ Ch = source[pos + 1] /\ EndInv' /\ LexerType'
  BY <1>1, <1>2, <1>5, TakesCharacter DEF Modes
<1>7. ParserType' /\ DirectivesAreKept'
  BY <1>1, <1>2, <1>6, QuietKeeps
<1>8. CASE Ch = "nl"
  <2>1. LineInv'
    BY <1>1, <1>6, <1>8, FreshLine
  <2>2. ~IsDirective(Text(o, pos + 1))
    <3>1. IsLine(o, pos + 1)
      BY <1>1, <1>3, <1>6, <1>8, CurrentLine
    <3>2. NoSlashes(o + 1, (pos + 1) - 1)
      BY <1>4, <1>6
    <3> QED BY <1>1, <3>1, <3>2, PlainLine DEF LexerType
  <2>3. FoundInv' /\ BehindInv'
    BY <1>1, <1>2, <1>3, <1>6, <1>8, <2>2, EndsQuietly
  <2> QED BY <1>6, <1>7, <2>1, <2>3 DEF IInv, TypeOK
<1>9. CASE Ch # "nl"
  <2>1. InLine(o)' /\ o \in 0 .. pos'
    BY <1>1, <1>3, <1>6, <1>9, SameLine
  <2>2. Within(o)'
    <3>1. CASE Ch = "/"
      <4>1. /\ start' \in o .. pos' - 2 /\ start' + 1 = pos /\ start' + 2 = pos + 1
            /\ pos' = start' + 2
        BY <1>1, <1>2, <1>4, <1>6
      <4>2. source'[start' + 1] = "/" /\ source'[start' + 2] = "/"
        BY <1>4, <1>6, <3>1, <4>1
      <4>3. NoSlashes(o + 1, start + 1)'
        BY <1>4, <1>6, <4>1 DEF NoSlashes
      <4>4. Slashed(o, start)'
        BY <4>1, <4>2, <4>3 DEF Slashed
      <4>5. mode' = "slashes"
        BY <1>6, <3>1
      <4> QED BY <4>1, <4>4, <4>5 DEF Within
    <3>2. CASE Ch # "/"
      BY <1>2, <1>4, <1>6, <3>2 DEF Within, NoSlashes
    <3> QED BY <3>1, <3>2
  <2>3. LineInv'
    BY <2>1, <2>2 DEF LineInv
  <2>4. FoundInv' /\ BehindInv'
    BY <1>1, <1>2, <1>6, <1>9, WithinLine
  <2> QED BY <1>6, <1>7, <2>3, <2>4 DEF IInv, TypeOK
<1> QED BY <1>8, <1>9

\* Behind two slashes.
LEMMA CommentOrDirectiveInv ==
  ASSUME IInv, CommentOrDirective
  PROVE  IInv'
<1>1. /\ LexerType /\ ParserType /\ LineInv /\ FoundInv /\ BehindInv /\ DirectivesAreKept
      /\ start \in 0 .. Len(source) /\ key \in Seq(Chars) /\ value \in Seq(Chars)
  BY DEF IInv, TypeOK, LexerType
<1>2. More /\ mode = "slashes" /\ UNCHANGED <<start, key, value, directives, diagnostics, found>>
  BY DEF CommentOrDirective, Quiet
<1>3. PICK o \in 0 .. pos : InLine(o) /\ Within(o)
  BY <1>1, <1>2 DEF LineInv
<1>4. Slashed(o, start) /\ pos = start + 2
  BY <1>2, <1>3 DEF Within
<1> DEFINE m == IF Ch = "~" THEN "space0" ELSE "comment"
<1>5. Advance(m)
  BY DEF CommentOrDirective
<1>6. /\ mode # "done" /\ pos \in Nat /\ pos < Len(source) /\ Len(source) \in Nat
      /\ pos' = pos + 1 /\ source' = source /\ mode' = m
      /\ Ch = source[pos + 1] /\ EndInv' /\ LexerType'
  BY <1>1, <1>2, <1>5, TakesCharacter DEF Modes
<1>7. ParserType' /\ DirectivesAreKept'
  BY <1>1, <1>2, <1>6, QuietKeeps
<1>8. CASE Ch = "nl"
  <2>1. PICK c \in Nat : c = pos + 1
    BY <1>6
  <2>2. IsLine(o, c)
    BY <1>1, <1>3, <1>6, <1>8, <2>1, CurrentLine
  <2>3. start \in o .. c - 3 /\ start + 3 = c /\ c \in Nat
    BY <1>1, <1>4, <1>6, <2>1 DEF Slashed
  <2>4. Slashes(Text(o, c)) # {} /\ Behind(Text(o, c)) = <<>>
    BY <1>1, <1>4, <2>2, <2>3, SlashedLine DEF LexerType, Slashed
  <2>5. ~IsDirective(Text(o, c)) /\ IsEmptyComment(Text(o, c))
    BY <2>4 DEF IsDirective, IsEmptyComment
  <2>6. FoundInv' /\ BehindInv'
    BY <1>1, <1>2, <1>3, <1>6, <1>8, <2>1, <2>5, EndsQuietly
  <2>7. IsHidden(c)
    <3>1. o \in 0 .. c
      BY <1>6, <2>1
    <3> QED BY <2>2, <2>5, <3>1 DEF IsHidden
  <2>8. IsHidden(c)'
    BY <1>6, <2>7, LinesStay
  <2>9. InLine(c)' /\ c \in 0 .. pos'
    BY <1>1, <1>6, <1>8, <2>1, OnNewLine
  <2>10. Within(c)'
    BY <1>6, <1>8, <2>8 DEF Within
  <2>11. LineInv'
    BY <2>9, <2>10 DEF LineInv
  <2> QED BY <1>6, <1>7, <2>6, <2>11 DEF IInv, TypeOK
<1>9. CASE Ch # "nl"
  <2>1. InLine(o)' /\ o \in 0 .. pos'
    BY <1>1, <1>3, <1>6, <1>9, SameLine
  <2>2. Within(o)'
    <3>1. Slashed(o, start)' /\ start' + 3 = pos' /\ source'[start' + 3] = Ch /\ start' \in Nat
      BY <1>1, <1>2, <1>4, <1>6, SlashedStays
    <3>2. CASE Ch = "~"
      <4>1. mode' = "space0"
        BY <1>6, <3>2
      <4>2. Tilde(o)'
        BY <3>1, <3>2 DEF Tilde
      <4>3. start' + 4 .. pos' = {}
        BY <3>1
      <4>4. Spaces(start + 4, pos)'
        BY <4>3 DEF Spaces
      <4> QED BY <4>1, <4>2, <4>4 DEF Within
    <3>3. CASE Ch # "~"
      <4>1. mode' = "comment"
        BY <1>6, <3>3
      <4> QED BY <3>1, <3>3, <4>1 DEF Within
    <3> QED BY <3>2, <3>3
  <2>3. LineInv'
    BY <2>1, <2>2 DEF LineInv
  <2>4. FoundInv' /\ BehindInv'
    BY <1>1, <1>2, <1>6, <1>9, WithinLine
  <2> QED BY <1>6, <1>7, <2>3, <2>4 DEF IInv, TypeOK
<1> QED BY <1>8, <1>9

\* In a comment.
LEMMA CommentInv ==
  ASSUME IInv, Comment
  PROVE  IInv'
<1>1. /\ LexerType /\ ParserType /\ LineInv /\ FoundInv /\ BehindInv /\ DirectivesAreKept
      /\ start \in 0 .. Len(source) /\ key \in Seq(Chars) /\ value \in Seq(Chars)
  BY DEF IInv, TypeOK, LexerType
<1>2. More /\ mode = "comment" /\ UNCHANGED <<start, key, value, directives, diagnostics, found>>
  BY DEF Comment, Quiet
<1>3. PICK o \in 0 .. pos : InLine(o) /\ Within(o)
  BY <1>1, <1>2 DEF LineInv
<1>4. IsHidden(o) \/ (Slashed(o, start) /\ start + 3 <= pos /\ source[start + 3] # "~")
  BY <1>2, <1>3 DEF Within
<1> DEFINE m == IF Ch = "nl" THEN "top" ELSE "comment"
<1>5. Advance(m)
  BY DEF Comment
<1>6. /\ mode # "done" /\ pos \in Nat /\ pos < Len(source) /\ Len(source) \in Nat
      /\ pos' = pos + 1 /\ source' = source /\ mode' = m
      /\ Ch = source[pos + 1] /\ EndInv' /\ LexerType'
  BY <1>1, <1>2, <1>5, TakesCharacter DEF Modes
<1>7. ParserType' /\ DirectivesAreKept'
  BY <1>1, <1>2, <1>6, QuietKeeps
<1>8. CASE Ch = "nl"
  <2>1. LineInv'
    BY <1>1, <1>6, <1>8, FreshLine
  <2>2. IsHidden(o) \/ ~IsDirective(Text(o, pos + 1))
    <3> SUFFICES ASSUME ~IsHidden(o) PROVE ~IsDirective(Text(o, pos + 1))
      OBVIOUS
    <3> DEFINE c == pos + 1
    <3>1. IsLine(o, c)
      BY <1>1, <1>3, <1>6, <1>8, CurrentLine
    <3>2. start \in o .. c - 3 /\ start + 3 < c
      BY <1>1, <1>4, <1>6 DEF Slashed
    <3> HIDE DEF c
    <3>3. Behind(Text(o, c))[1] = source[start + 3]
      BY <1>1, <1>4, <3>1, <3>2, SlashedLine DEF LexerType, Slashed
    <3>4. ~IsDirective(Text(o, c))
      BY <1>4, <3>3 DEF IsDirective
    <3> QED BY <3>4 DEF c
  <2>3. FoundInv' /\ BehindInv'
    BY <1>1, <1>2, <1>3, <1>6, <1>8, <2>2, EndsQuietly
  <2> QED BY <1>6, <1>7, <2>1, <2>3 DEF IInv, TypeOK
<1>9. CASE Ch # "nl"
  <2>1. InLine(o)' /\ o \in 0 .. pos'
    BY <1>1, <1>3, <1>6, <1>9, SameLine
  <2>2. Within(o)'
    <3>1. CASE IsHidden(o)
      <4>1. IsHidden(o)'
        BY <1>6, <3>1, LinesStay
      <4> QED BY <1>6, <1>9, <4>1 DEF Within
    <3>2. CASE Slashed(o, start) /\ start + 3 <= pos /\ source[start + 3] # "~"
      BY <1>1, <1>2, <1>6, <1>9, <3>2 DEF Within, NoSlashes, Slashed
    <3> QED BY <1>4, <3>1, <3>2
  <2>3. LineInv'
    BY <2>1, <2>2 DEF LineInv
  <2>4. FoundInv' /\ BehindInv'
    BY <1>1, <1>2, <1>6, <1>9, WithinLine
  <2> QED BY <1>6, <1>7, <2>3, <2>4 DEF IInv, TypeOK
<1> QED BY <1>8, <1>9

\* A line with a tilde behind its slashes ends: what the grammar reads of it.
LEMMA DirectiveEnds ==
  ASSUME LexerType, NEW o, InLine(o), Tilde(o), pos < Len(source), source[pos + 1] = "nl"
  PROVE  /\ IsDirective(Text(o, pos + 1)) /\ LineIndex(start) = LineIndex(o)
         /\ Tail(Behind(Text(o, pos + 1))) = SubSeq(source, start + 4, pos)
<1>1. PICK c \in Nat : c = pos + 1
  BY DEF LexerType
<1>2. IsLine(o, c) /\ \A p \in o .. pos : LineIndex(p) = LineIndex(o)
  BY <1>1, CurrentLine
<1>3. /\ start \in o .. c - 3 /\ start + 3 < c /\ start \in o .. pos /\ c - 1 = pos
      /\ source[start + 1] = "/" /\ source[start + 2] = "/" /\ source[start + 3] = "~"
      /\ NoSlashes(o + 1, start + 1)
  BY <1>1 DEF Tilde, Slashed, LexerType
<1>4. /\ Slashes(Text(o, c)) # {} /\ Behind(Text(o, c)) # <<>>
      /\ Behind(Text(o, c))[1] = source[start + 3]
      /\ Tail(Behind(Text(o, c))) = SubSeq(source, start + 4, c - 1)
  BY <1>2, <1>3, SlashedLine DEF LexerType
<1>5. IsDirective(Text(o, c))
  BY <1>3, <1>4 DEF IsDirective
<1>6. LineIndex(start) = LineIndex(o)
  BY <1>2, <1>3
<1> QED BY <1>1, <1>3, <1>4, <1>5, <1>6

\* The tokens the lexer may yield.
LEMMA TokenType ==
  ASSUME LexerType
  PROVE  /\ [line |-> LineIndex(start), error |-> TRUE] \in Token
         /\ \A k, v \in Seq(Chars) : [line |-> LineIndex(start), key |-> k, value |-> v] \in Token
<1>1. start \in Nat
  BY DEF LexerType
<1>2. LineIndex(start) \in Nat
  BY <1>1, LineIndexType
<1> QED BY <1>2 DEF Token

\* The line ends where the lexer does not expect it.
LEMMA UnexpectedEnd ==
  ASSUME IInv, More, Advance("top"), Ch = "nl", Unexpected("UnexpectedEndOfLine"),
         NEW o, InLine(o), Tilde(o),
         Reading(LineIndex(o), SubSeq(source, start + 4, pos))
           = [line |-> LineIndex(o), error |-> TRUE]
  PROVE  IInv'
<1>1. /\ LexerType /\ ParserType /\ FoundInv /\ BehindInv /\ DirectivesAreKept
      /\ start \in 0 .. Len(source) /\ key \in Seq(Chars) /\ value \in Seq(Chars)
  BY DEF IInv, TypeOK, LexerType
<1>2. UNCHANGED <<start, key, value>>
  BY DEF Unexpected
<1>3. /\ mode # "done" /\ pos \in Nat /\ pos < Len(source) /\ Len(source) \in Nat
      /\ pos' = pos + 1 /\ source' = source /\ mode' = "top"
      /\ Ch = source[pos + 1] /\ EndInv' /\ LexerType'
  BY <1>1, <1>2, TakesCharacter DEF Modes
<1>4. ParserType' /\ DirectivesAreKept'
  BY <1>1, <1>3, UnexpectedKeeps DEF Complaints
<1>5. LineInv'
  BY <1>1, <1>3, FreshLine
<1> DEFINE f == [line |-> LineIndex(start), error |-> TRUE]
<1>6. f \in Token /\ f.line = LineIndex(start) /\ found' = Append(found, f)
  BY <1>1, TokenType DEF Unexpected
<1>7. /\ IsDirective(Text(o, pos + 1)) /\ LineIndex(start) = LineIndex(o)
      /\ Tail(Behind(Text(o, pos + 1))) = SubSeq(source, start + 4, pos)
  BY <1>1, <1>3, DirectiveEnds
<1>8. f = Reading(LineIndex(o), Tail(Behind(Text(o, pos + 1))))
  BY <1>7
<1> HIDE DEF f
<1>9. FoundInv' /\ BehindInv'
  BY <1>1, <1>3, <1>6, <1>7, <1>8, EndsWithToken
<1> QED BY <1>3, <1>4, <1>5, <1>9 DEF IInv, TypeOK

\* The line ends with its directive.
LEMMA ExpectedEnd ==
  ASSUME IInv, More, Advance("top"), Ch = "nl",
         NEW k \in Seq(Chars), NEW v \in Seq(Chars), Emit(k, v), NEW o, InLine(o), Tilde(o),
         Reading(LineIndex(o), SubSeq(source, start + 4, pos))
           = [line |-> LineIndex(o), key |-> k, value |-> v]
  PROVE  IInv'
<1>1. /\ LexerType /\ ParserType /\ FoundInv /\ BehindInv /\ DirectivesAreKept
      /\ start \in 0 .. Len(source) /\ key \in Seq(Chars) /\ value \in Seq(Chars)
  BY DEF IInv, TypeOK, LexerType
<1>2. UNCHANGED <<start, key, value>>
  BY DEF Emit
<1>3. /\ mode # "done" /\ pos \in Nat /\ pos < Len(source) /\ Len(source) \in Nat
      /\ pos' = pos + 1 /\ source' = source /\ mode' = "top"
      /\ Ch = source[pos + 1] /\ EndInv' /\ LexerType'
  BY <1>1, <1>2, TakesCharacter DEF Modes
<1>4. ParserType' /\ DirectivesAreKept'
  BY <1>1, <1>3, EmitKeeps
<1>5. LineInv'
  BY <1>1, <1>3, FreshLine
<1> DEFINE f == [line |-> LineIndex(start), key |-> k, value |-> v]
<1>6. f \in Token /\ f.line = LineIndex(start) /\ found' = Append(found, f)
  BY <1>1, TokenType DEF Emit
<1>7. /\ IsDirective(Text(o, pos + 1)) /\ LineIndex(start) = LineIndex(o)
      /\ Tail(Behind(Text(o, pos + 1))) = SubSeq(source, start + 4, pos)
  BY <1>1, <1>3, DirectiveEnds
<1>8. f = Reading(LineIndex(o), Tail(Behind(Text(o, pos + 1))))
  BY <1>7
<1> HIDE DEF f
<1>9. FoundInv' /\ BehindInv'
  BY <1>1, <1>3, <1>6, <1>7, <1>8, EndsWithToken
<1> QED BY <1>3, <1>4, <1>5, <1>9 DEF IInv, TypeOK

\* The lexer goes on in a directive.
LEMMA GoesOn ==
  ASSUME IInv, More, NEW m \in Modes, m # "done", Advance(m), Ch # "nl",
         UNCHANGED <<start, directives, diagnostics, found>>,
         key' \in Seq(Chars), value' \in Seq(Chars), NEW o, InLine(o), Tilde(o)
  PROVE  /\ pos \in Nat /\ pos < Len(source) /\ pos' = pos + 1 /\ source' = source /\ mode' = m
         /\ Ch = source[pos + 1] /\ Tilde(o)' /\ start \in Nat /\ start + 3 <= pos
         /\ (Within(o)' => IInv')
<1>1. /\ LexerType /\ ParserType /\ FoundInv /\ BehindInv /\ DirectivesAreKept
      /\ start \in 0 .. Len(source)
  BY DEF IInv, TypeOK, LexerType
<1>2. /\ mode # "done" /\ pos \in Nat /\ pos < Len(source) /\ Len(source) \in Nat
      /\ pos' = pos + 1 /\ source' = source /\ mode' = m
      /\ Ch = source[pos + 1] /\ EndInv' /\ LexerType'
  BY <1>1, TakesCharacter
<1>3. ParserType' /\ DirectivesAreKept'
  BY <1>1, <1>2, QuietKeeps
<1>4. InLine(o)' /\ o \in 0 .. pos'
  BY <1>1, <1>2, SameLine
<1>5. Tilde(o)'
  BY <1>1, <1>2, SlashedStays DEF Tilde
<1>6. FoundInv' /\ BehindInv'
  BY <1>1, <1>2, WithinLine
<1>7. Within(o)' => IInv'
  BY <1>2, <1>3, <1>4, <1>6 DEF IInv, TypeOK, LineInv
<1>8. start \in Nat /\ start + 3 <= pos
  BY <1>1 DEF Tilde
<1> QED BY <1>2, <1>5, <1>7, <1>8

\* Before a key.
LEMMA SpaceBeforeKeyInv ==
  ASSUME IInv, SpaceBeforeKey
  PROVE  IInv'
<1>1. /\ LexerType /\ LineInv /\ key \in Seq(Chars) /\ value \in Seq(Chars)
      /\ source \in Seq(Chars) /\ pos \in 0 .. Len(source) /\ start \in 0 .. Len(source)
  BY DEF IInv, TypeOK, LexerType
<1>2. More /\ mode = "space0"
  BY DEF SpaceBeforeKey
<1>3. PICK o \in 0 .. pos : InLine(o) /\ Within(o)
  BY <1>1, <1>2 DEF LineInv
<1>4. Tilde(o) /\ Spaces(start + 4, pos)
  BY <1>2, <1>3 DEF Within
<1>5. CASE Ch = "nl"
  <2>1. Advance("top") /\ Unexpected("UnexpectedEndOfLine")
    BY <1>5 DEF SpaceBeforeKey
  <2>2. Reading(LineIndex(o), SubSeq(source, start + 4, pos))
          = [line |-> LineIndex(o), error |-> TRUE]
    <3> DEFINE a == start + 4
    <3>1. a \in 1 .. pos + 1
      BY <1>1, <1>4 DEF Tilde
    <3>2. \A i \in a .. pos : source[i] = "sp"
      BY <1>4 DEF Spaces
    <3> HIDE DEF a
    <3>3. Reading(LineIndex(o), SubSeq(source, a, pos)) = [line |-> LineIndex(o), error |-> TRUE]
      BY <1>1, <3>1, <3>2, ReadingOfSpaces
    <3> QED BY <3>3 DEF a
  <2> QED BY <1>2, <1>3, <1>4, <1>5, <2>1, <2>2, UnexpectedEnd
<1>6. CASE Ch = "sp"
  <2>1. Advance("space0") /\ UNCHANGED <<start, key, value, directives, diagnostics, found>>
    BY <1>6 DEF SpaceBeforeKey, Quiet
  <2>2. /\ pos \in Nat /\ pos' = pos + 1 /\ source' = source /\ mode' = "space0"
        /\ Ch = source[pos + 1] /\ Tilde(o)' /\ start \in Nat /\ (Within(o)' => IInv')
    BY <1>1, <1>2, <1>3, <1>4, <1>6, <2>1, GoesOn DEF Modes
  <2>3. Spaces(start + 4, pos)'
    BY <1>4, <1>6, <2>1, <2>2 DEF Spaces
  <2>4. Within(o)'
    BY <2>2, <2>3 DEF Within
  <2> QED BY <2>2, <2>4
<1>7. CASE Ch \notin {"nl", "sp"}
  <2>1. /\ Advance("key") /\ key' = <<Ch>>
        /\ UNCHANGED <<start, value, directives, diagnostics, found>>
    BY <1>7 DEF SpaceBeforeKey
  <2>2. key' \in Seq(Chars)
    <3>1. Ch \in Chars
      BY <1>1, <1>2, <2>1, TakesCharacter DEF Modes
    <3> QED BY <2>1, <3>1
  <2>3. /\ pos \in Nat /\ pos < Len(source) /\ pos' = pos + 1 /\ source' = source /\ mode' = "key"
        /\ Ch = source[pos + 1] /\ Tilde(o)' /\ start \in Nat /\ start + 3 <= pos
        /\ (Within(o)' => IInv')
    BY <1>1, <1>2, <1>3, <1>4, <1>7, <2>1, <2>2, GoesOn DEF Modes
  <2>4. PICK k \in Nat : k = pos + 1
    BY <2>3
  <2>5. SubSeq(source, k, k) = <<source[k]>>
    <3>1. /\ SubSeq(source, k, pos) = <<>>
          /\ Append(SubSeq(source, k, pos), source[pos + 1]) = SubSeq(source, k, pos + 1)
      BY <1>1, <2>3, <2>4, Piece, PieceGrows
    <3>2. Append(<<>>, source[k]) = <<source[k]>>
      OBVIOUS
    <3> QED BY <2>4, <3>1, <3>2
  <2>6. KeyFrom(k, pos)'
    <3>1. k \in start + 4 .. k /\ k + 1 .. k = {}
      BY <2>3, <2>4
    <3>2. \A i \in start + 4 .. k - 1 : source[i] = "sp"
      BY <1>4, <2>3, <2>4 DEF Spaces
    <3>3. source[k] # "sp"
      BY <1>7, <2>3, <2>4
    <3>4. key' = SubSeq(source, k, k)
      BY <2>1, <2>3, <2>4, <2>5
    <3> QED BY <2>1, <2>3, <2>4, <3>1, <3>2, <3>3, <3>4 DEF KeyFrom, Spaces, NoColon
  <2>7. k \in 1 .. pos'
    BY <2>3, <2>4
  <2>8. Within(o)'
    BY <2>3, <2>6, <2>7 DEF Within
  <2> QED BY <2>3, <2>8
<1> QED BY <1>5, <1>6, <1>7

\* A key stays what it is while the lexer goes on behind it.
LEMMA KeyStays ==
  ASSUME NEW k, NEW e, KeyFrom(k, e), source' = source, start' = start, key' = key
  PROVE  KeyFrom(k, e)'
BY DEF KeyFrom, Spaces, NoColon

\* In a key.
LEMMA KeyInv ==
  ASSUME IInv, Key
  PROVE  IInv'
<1>1. /\ LexerType /\ LineInv /\ key \in Seq(Chars) /\ value \in Seq(Chars)
      /\ source \in Seq(Chars) /\ pos \in 0 .. Len(source) /\ start \in 0 .. Len(source)
  BY DEF IInv, TypeOK, LexerType
<1>2. More /\ mode = "key"
  BY DEF Key
<1>3. PICK o \in 0 .. pos : InLine(o) /\ Within(o)
  BY <1>1, <1>2 DEF LineInv
<1>4. Tilde(o)
  BY <1>2, <1>3 DEF Within
<1>5. PICK k \in 1 .. pos : KeyFrom(k, pos)
  BY <1>2, <1>3 DEF Within
<1>6. CASE Ch = ":"
  <2>1. Advance("space1") /\ UNCHANGED <<start, key, value, directives, diagnostics, found>>
    BY <1>6 DEF Key, Quiet
  <2>2. /\ pos \in Nat /\ pos' = pos + 1 /\ source' = source /\ mode' = "space1"
        /\ Ch = source[pos + 1] /\ Tilde(o)' /\ (Within(o)' => IInv')
    BY <1>1, <1>2, <1>3, <1>4, <1>6, <2>1, GoesOn DEF Modes
  <2>3. PICK c \in Nat : c = pos + 1
    BY <2>2
  <2>4. KeyFrom(k, c - 1)
    <3>1. c - 1 = pos
      BY <2>2, <2>3
    <3> QED BY <1>5, <3>1
  <2>5. ColonAt(k, c)'
    <3>1. KeyFrom(k, c - 1)'
      BY <2>1, <2>2, <2>4, KeyStays
    <3>2. c > k /\ source'[c] = ":"
      BY <1>6, <2>2, <2>3
    <3> QED BY <3>1, <3>2 DEF ColonAt
  <2>6. Spaces(c + 1, pos)'
    <3>1. c + 1 .. pos' = {}
      BY <2>2, <2>3
    <3> QED BY <3>1 DEF Spaces
  <2>7. k \in 1 .. pos' /\ c \in 1 .. pos'
    BY <2>2, <2>3
  <2>8. Within(o)'
    BY <2>2, <2>5, <2>6, <2>7 DEF Within
  <2> QED BY <2>2, <2>8
<1>7. CASE Ch = "nl"
  <2>1. Advance("top") /\ Emit(Trim(key), NoValue)
    BY <1>7 DEF Key
  <2>2. Reading(LineIndex(o), SubSeq(source, start + 4, pos))
          = [line |-> LineIndex(o), key |-> Trim(key), value |-> NoValue]
    <3> DEFINE a == start + 4
    <3>1. /\ k \in a .. pos /\ source[k] # "sp" /\ key = SubSeq(source, k, pos)
          /\ \A i \in a .. k - 1 : source[i] = "sp"
          /\ \A i \in k + 1 .. pos : source[i] # ":"
      BY <1>5 DEF KeyFrom, Spaces, NoColon
    <3>2. a \in 1 .. pos
      BY <1>1, <3>1
    <3> HIDE DEF a
    <3>3. Reading(LineIndex(o), SubSeq(source, a, pos))
            = [line |-> LineIndex(o), key |-> Trim(SubSeq(source, k, pos)), value |-> NoValue]
      BY <1>1, <3>1, <3>2, ReadingOfKey
    <3> QED BY <3>1, <3>3 DEF a
  <2>3. Trim(key) \in Seq(Chars) /\ NoValue \in Seq(Chars)
    BY <1>1, TrimType DEF NoValue
  <2> QED BY <1>2, <1>3, <1>4, <1>7, <2>1, <2>2, <2>3, ExpectedEnd
<1>8. CASE Ch \notin {":", "nl"}
  <2>1. /\ Advance("key") /\ key' = Append(key, Ch)
        /\ UNCHANGED <<start, value, directives, diagnostics, found>>
    BY <1>8 DEF Key
  <2>2. key' \in Seq(Chars)
    <3>1. Ch \in Chars
      BY <1>1, <1>2, <2>1, TakesCharacter DEF Modes
    <3> QED BY <1>1, <2>1, <3>1, AppendProperties
  <2>3. /\ pos \in Nat /\ pos < Len(source) /\ pos' = pos + 1 /\ source' = source /\ mode' = "key"
        /\ Ch = source[pos + 1] /\ Tilde(o)' /\ (Within(o)' => IInv')
    BY <1>1, <1>2, <1>3, <1>4, <1>8, <2>1, <2>2, GoesOn DEF Modes
  <2>4. PICK e \in Nat : e = pos + 1
    BY <2>3
  <2>5. key' = SubSeq(source, k, e)
    <3>1. k \in Nat \ {0} /\ k <= pos + 1
      BY <2>3
    <3>2. Append(SubSeq(source, k, pos), source[pos + 1]) = SubSeq(source, k, pos + 1)
      BY <1>1, <2>3, <3>1, PieceGrows
    <3>3. key = SubSeq(source, k, pos)
      BY <1>5 DEF KeyFrom
    <3> QED BY <2>1, <2>3, <2>4, <3>2, <3>3
  <2>6. KeyFrom(k, pos)'
    <3>1. /\ k \in start + 4 .. e /\ source[k] # "sp"
          /\ \A i \in start + 4 .. k - 1 : source[i] = "sp"
      BY <1>1, <1>5, <2>3, <2>4 DEF KeyFrom, Spaces
    <3>2. \A i \in k + 1 .. e : source[i] # ":"
      BY <1>5, <1>8, <2>3, <2>4 DEF KeyFrom, NoColon
    <3> QED BY <2>1, <2>3, <2>4, <2>5, <3>1, <3>2 DEF KeyFrom, Spaces, NoColon
  <2>7. k \in 1 .. pos'
    BY <2>3
  <2>8. Within(o)'
    BY <2>3, <2>6, <2>7 DEF Within
  <2> QED BY <2>3, <2>8
<1> QED BY <1>6, <1>7, <1>8

\* Before a value.
LEMMA SpaceBeforeValueInv ==
  ASSUME IInv, SpaceBeforeValue
  PROVE  IInv'
<1>1. /\ LexerType /\ LineInv /\ key \in Seq(Chars) /\ value \in Seq(Chars)
      /\ source \in Seq(Chars) /\ pos \in 0 .. Len(source) /\ start \in 0 .. Len(source)
  BY DEF IInv, TypeOK, LexerType
<1>2. More /\ mode = "space1"
  BY DEF SpaceBeforeValue
<1>3. PICK o \in 0 .. pos : InLine(o) /\ Within(o)
  BY <1>1, <1>2 DEF LineInv
<1>4. Tilde(o)
  BY <1>2, <1>3 DEF Within
<1>5. PICK k \in 1 .. pos, c \in 1 .. pos : ColonAt(k, c) /\ Spaces(c + 1, pos)
  BY <1>2, <1>3 DEF Within
<1>6. CASE Ch = "nl"
  <2>1. Advance("top") /\ Unexpected("UnexpectedEndOfLine")
    BY <1>6 DEF SpaceBeforeValue
  <2>2. Reading(LineIndex(o), SubSeq(source, start + 4, pos))
          = [line |-> LineIndex(o), error |-> TRUE]
    <3> DEFINE a == start + 4
    <3>1. /\ k \in a .. pos /\ source[k] # "sp" /\ c \in k + 1 .. pos /\ source[c] = ":"
          /\ \A i \in a .. k - 1 : source[i] = "sp"
          /\ \A i \in k + 1 .. c - 1 : source[i] # ":"
          /\ \A i \in c + 1 .. pos : source[i] = "sp"
      BY <1>1, <1>5 DEF ColonAt, KeyFrom, Spaces, NoColon
    <3>2. a \in 1 .. pos
      BY <1>1, <3>1
    <3> HIDE DEF a
    <3>3. Reading(LineIndex(o), SubSeq(source, a, pos)) = [line |-> LineIndex(o), error |-> TRUE]
      BY <1>1, <3>1, <3>2, ReadingOfNoValue
    <3> QED BY <3>3 DEF a
  <2> QED BY <1>2, <1>3, <1>4, <1>6, <2>1, <2>2, UnexpectedEnd
<1>7. CASE Ch = "sp"
  <2>1. Advance("space1") /\ UNCHANGED <<start, key, value, directives, diagnostics, found>>
    BY <1>7 DEF SpaceBeforeValue, Quiet
  <2>2. /\ pos \in Nat /\ pos' = pos + 1 /\ source' = source /\ mode' = "space1"
        /\ Ch = source[pos + 1] /\ Tilde(o)' /\ (Within(o)' => IInv')
    BY <1>1, <1>2, <1>3, <1>4, <1>7, <2>1, GoesOn DEF Modes
  <2>3. Spaces(c + 1, pos)'
    BY <1>5, <1>7, <2>2 DEF Spaces
  <2>4. ColonAt(k, c)'
    BY <1>5, <2>1, <2>2, KeyStays DEF ColonAt
  <2>5. k \in 1 .. pos' /\ c \in 1 .. pos'
    BY <2>2
  <2>6. Within(o)'
    BY <2>2, <2>3, <2>4, <2>5 DEF Within
  <2> QED BY <2>2, <2>6
<1>8. CASE Ch \notin {"nl", "sp"}
  <2>1. /\ Advance("value") /\ value' = <<Ch>>
        /\ UNCHANGED <<start, key, directives, diagnostics, found>>
    BY <1>8 DEF SpaceBeforeValue
  <2>2. value' \in Seq(Chars)
    <3>1. Ch \in Chars
      BY <1>1, <1>2, <2>1, TakesCharacter DEF Modes
    <3> QED BY <2>1, <3>1
  <2>3. /\ pos \in Nat /\ pos < Len(source) /\ pos' = pos + 1 /\ source' = source /\ mode' = "value"
        /\ Ch = source[pos + 1] /\ Tilde(o)' /\ (Within(o)' => IInv')
    BY <1>1, <1>2, <1>3, <1>4, <1>8, <2>1, <2>2, GoesOn DEF Modes
  <2>4. PICK v \in Nat : v = pos + 1
    BY <2>3
  <2>5. SubSeq(source, v, v) = <<source[v]>>
    <3>1. /\ SubSeq(source, v, pos) = <<>>
          /\ Append(SubSeq(source, v, pos), source[pos + 1]) = SubSeq(source, v, pos + 1)
      BY <1>1, <2>3, <2>4, Piece, PieceGrows
    <3>2. Append(<<>>, source[v]) = <<source[v]>>
      OBVIOUS
    <3> QED BY <2>4, <3>1, <3>2
  <2>6. ColonAt(k, c)'
    BY <1>5, <2>1, <2>3, KeyStays DEF ColonAt
  <2>7. Spaces(c + 1, v - 1)'
    <3>1. v - 1 = pos
      BY <2>3, <2>4
    <3> QED BY <1>5, <2>3, <3>1 DEF Spaces
  <2>8. /\ source'[v] # "sp" /\ value' = SubSeq(source', v, pos') /\ v > c
        /\ k \in 1 .. pos' /\ c \in 1 .. pos' /\ v \in 1 .. pos'
    BY <1>8, <2>1, <2>3, <2>4, <2>5
  <2>9. Within(o)'
    BY <2>3, <2>6, <2>7, <2>8 DEF Within
  <2> QED BY <2>3, <2>9
<1> QED BY <1>6, <1>7, <1>8

\* In a value.
LEMMA ValueInv ==
  ASSUME IInv, Value
  PROVE  IInv'
<1>1. /\ LexerType /\ LineInv /\ key \in Seq(Chars) /\ value \in Seq(Chars)
      /\ source \in Seq(Chars) /\ pos \in 0 .. Len(source) /\ start \in 0 .. Len(source)
  BY DEF IInv, TypeOK, LexerType
<1>2. More /\ mode = "value"
  BY DEF Value
<1>3. PICK o \in 0 .. pos : InLine(o) /\ Within(o)
  BY <1>1, <1>2 DEF LineInv
<1>4. Tilde(o)
  BY <1>2, <1>3 DEF Within
<1>5. PICK k \in 1 .. pos, c \in 1 .. pos, v \in 1 .. pos :
        /\ ColonAt(k, c) /\ v > c /\ Spaces(c + 1, v - 1)
        /\ source[v] # "sp" /\ value = SubSeq(source, v, pos)
  BY <1>2, <1>3 DEF Within
<1>6. CASE Ch = "nl"
  <2>1. Advance("top") /\ Emit(Trim(key), Trim(value))
    BY <1>6 DEF Value
  <2>2. Reading(LineIndex(o), SubSeq(source, start + 4, pos))
          = [line |-> LineIndex(o), key |-> Trim(key), value |-> Trim(value)]
    <3> DEFINE a == start + 4
    <3>1. /\ k \in a .. pos /\ source[k] # "sp" /\ c \in k + 1 .. pos /\ source[c] = ":"
          /\ \A i \in a .. k - 1 : source[i] = "sp"
          /\ \A i \in k + 1 .. c - 1 : source[i] # ":"
          /\ v \in c + 1 .. pos /\ \A i \in c + 1 .. v - 1 : source[i] = "sp"
          /\ key = SubSeq(source, k, c - 1)
      BY <1>1, <1>5 DEF ColonAt, KeyFrom, Spaces, NoColon
    <3>2. a \in 1 .. pos
      BY <1>1, <3>1
    <3> HIDE DEF a
    <3>3. Reading(LineIndex(o), SubSeq(source, a, pos))
            = [line |-> LineIndex(o), key |-> Trim(SubSeq(source, k, c - 1)),
               value |-> Trim(SubSeq(source, v, pos))]
      BY <1>1, <1>5, <3>1, <3>2, ReadingOfValue
    <3> QED BY <1>5, <3>1, <3>3 DEF a
  <2>3. Trim(key) \in Seq(Chars) /\ Trim(value) \in Seq(Chars)
    BY <1>1, TrimType
  <2> QED BY <1>2, <1>3, <1>4, <1>6, <2>1, <2>2, <2>3, ExpectedEnd
<1>7. CASE Ch # "nl"
  <2>1. /\ Advance("value") /\ value' = Append(value, Ch)
        /\ UNCHANGED <<start, key, directives, diagnostics, found>>
    BY <1>7 DEF Value
  <2>2. value' \in Seq(Chars)
    <3>1. Ch \in Chars
      BY <1>1, <1>2, <2>1, TakesCharacter DEF Modes
    <3> QED BY <1>1, <2>1, <3>1, AppendProperties
  <2>3. /\ pos \in Nat /\ pos < Len(source) /\ pos' = pos + 1 /\ source' = source /\ mode' = "value"
        /\ Ch = source[pos + 1] /\ Tilde(o)' /\ (Within(o)' => IInv')
    BY <1>1, <1>2, <1>3, <1>4, <1>7, <2>1, <2>2, GoesOn DEF Modes
  <2>4. value' = SubSeq(source', v, pos')
    <3>1. v \in Nat \ {0} /\ v <= pos + 1
      BY <2>3
    <3>2. Append(SubSeq(source, v, pos), source[pos + 1]) = SubSeq(source, v, pos + 1)
      BY <1>1, <2>3, <3>1, PieceGrows
    <3> QED BY <1>5, <2>1, <2>3, <3>2
  <2>5. ColonAt(k, c)'
    BY <1>5, <2>1, <2>3, KeyStays DEF ColonAt
  <2>6. Spaces(c + 1, v - 1)'
    BY <1>5, <2>3 DEF Spaces
  <2>7. source'[v] # "sp" /\ v > c /\ k \in 1 .. pos' /\ c \in 1 .. pos' /\ v \in 1 .. pos'
    BY <1>5, <2>3
  <2>8. Within(o)'
    BY <2>3, <2>4, <2>5, <2>6, <2>7 DEF Within
  <2> QED BY <2>3, <2>8
<1> QED BY <1>6, <1>7

\* At the end of the file.
LEMMA EndOfFileInv ==
  ASSUME IInv, EndOfFile
  PROVE  IInv'
<1>1. /\ LexerType /\ ParserType /\ LineInv /\ BehindInv /\ DirectivesAreKept
      /\ key \in Seq(Chars) /\ value \in Seq(Chars)
  BY DEF IInv, TypeOK, LexerType
<1>2. /\ mode # "done" /\ mode' = "done" /\ pos' = pos /\ source' = source /\ pos = Len(source)
      /\ UNCHANGED <<start, key, value>>
  BY DEF EndOfFile, Emit, Unexpected, Quiet
<1>3. LexerType' /\ EndInv' /\ LineInv'
  BY <1>1, <1>2 DEF LexerType, EndInv, LineInv, Modes, Chars
<1>4. PICK o \in 0 .. pos : InLine(o) /\ Within(o)
  BY <1>1, <1>2 DEF LineInv
<1>5. Tilde(o) => LineIndex(start) = LineIndex(pos)
  <2> SUFFICES ASSUME Tilde(o) PROVE LineIndex(start) = LineIndex(pos)
    OBVIOUS
  <2>1. start \in o .. pos
    BY <1>1 DEF Tilde, Slashed, LexerType
  <2> QED BY <1>1, <1>4, <2>1, CurrentLine
<1>6. CASE mode = "value"
  <2>1. Emit(Trim(key), Trim(value)) /\ Tilde(o)
    BY <1>4, <1>6 DEF EndOfFile, Within
  <2>2. Trim(key) \in Seq(Chars) /\ Trim(value) \in Seq(Chars)
    BY <1>1, TrimType
  <2>3. ParserType' /\ DirectivesAreKept'
    BY <1>1, <1>2, <2>1, <2>2, EmitKeeps
  <2> DEFINE f == [line |-> LineIndex(start), key |-> Trim(key), value |-> Trim(value)]
  <2>4. f \in Token /\ f.line = LineIndex(start) /\ found' = Append(found, f)
    BY <1>1, <2>1, <2>2, TokenType DEF Emit
  <2> HIDE DEF f
  <2>5. FoundInv' /\ BehindInv'
    BY <1>1, <1>2, <1>5, <2>1, <2>4, EndsFile
  <2> QED BY <1>3, <2>3, <2>5 DEF IInv, TypeOK
<1>7. CASE mode \in {"space0", "space1"}
  <2>1. Unexpected("UnexpectedEndOfFile") /\ Tilde(o)
    BY <1>4, <1>7 DEF EndOfFile, Within
  <2>2. ParserType' /\ DirectivesAreKept'
    BY <1>1, <1>2, <2>1, UnexpectedKeeps DEF Complaints
  <2> DEFINE f == [line |-> LineIndex(start), error |-> TRUE]
  <2>3. f \in Token /\ f.line = LineIndex(start) /\ found' = Append(found, f)
    BY <1>1, <2>1, TokenType DEF Unexpected
  <2> HIDE DEF f
  <2>4. FoundInv' /\ BehindInv'
    BY <1>1, <1>2, <1>5, <2>1, <2>3, EndsFile
  <2> QED BY <1>3, <2>2, <2>4 DEF IInv, TypeOK
<1>8. CASE mode \notin {"value", "space0", "space1"}
  <2>1. UNCHANGED <<directives, diagnostics, found>>
    BY <1>8 DEF EndOfFile, Quiet
  <2>2. ParserType' /\ DirectivesAreKept'
    BY <1>1, <1>2, <2>1, QuietKeeps
  <2>3. FoundInv' /\ BehindInv'
    BY <1>1, <1>2, <2>1, EndsFile
  <2> QED BY <1>3, <2>2, <2>3 DEF IInv, TypeOK
<1> QED BY <1>6, <1>7, <1>8

\* Nothing happens.
LEMMA StutterInv ==
  ASSUME IInv, UNCHANGED vars
  PROVE  IInv'
<1>1. /\ UNCHANGED <<source, pos, mode, start, key, value>>
      /\ UNCHANGED <<directives, diagnostics, found>>
  BY DEF vars
<1>2. ParserType' /\ DirectivesAreKept'
  BY <1>1, QuietKeeps DEF IInv, TypeOK
<1>3. LexerType' /\ EndInv'
  BY <1>1 DEF IInv, TypeOK, LexerType, EndInv, Chars
<1>4. LineInv'
  <2> SUFFICES ASSUME mode' # "done" PROVE \E o \in 0 .. pos' : InLine(o)' /\ Within(o)'
    BY DEF LineInv
  <2>1. PICK o \in 0 .. pos : InLine(o) /\ Within(o)
    BY <1>1 DEF IInv, LineInv
  <2>2. InLine(o)'
    BY <1>1, <2>1 DEF InLine, NoEnd
  <2>3. (NoSlashes(o + 1, pos)' <=> NoSlashes(o + 1, pos)) /\ (IsHidden(o)' <=> IsHidden(o))
    BY <1>1, LinesStay DEF NoSlashes
  <2>4. (Slashed(o, start)' <=> Slashed(o, start)) /\ (Tilde(o)' <=> Tilde(o))
    BY <1>1 DEF Slashed, Tilde, NoSlashes
  <2>5. /\ Spaces(start + 4, pos)' <=> Spaces(start + 4, pos)
        /\ \A a, b : (Spaces(a, b)' <=> Spaces(a, b)) /\ (KeyFrom(a, b)' <=> KeyFrom(a, b))
        /\ \A a : (Spaces(a, pos)' <=> Spaces(a, pos)) /\ (KeyFrom(a, pos)' <=> KeyFrom(a, pos))
    BY <1>1 DEF Spaces, KeyFrom, NoColon
  <2>6. \A a, b : ColonAt(a, b)' <=> ColonAt(a, b)
    BY <1>1, <2>5 DEF ColonAt
  <2>7. Within(o)'
    BY <1>1, <2>1, <2>3, <2>4, <2>5, <2>6 DEF Within
  <2> QED BY <1>1, <2>2, <2>7
<1>5. FoundInv' /\ BehindInv'
  BY <1>1 DEF IInv, FoundInv, BehindInv, LineIndex, IsLine, IsHidden, Text
<1> QED BY <1>2, <1>3, <1>4, <1>5 DEF IInv, TypeOK

-----------------------------------------------------------------------------
\* In every file, of any length and over any characters, the lexer yields for each
\* line exactly the directive the grammar finds in it, if it has one, except for
\* the lines directly behind an empty comment; and each token becomes an
\* expectation for its line, the reason to skip the test, or a diagnostic.
THEOREM DirectivesReadRight ==
  ASSUME NEW C, Sources \subseteq Seq(C)
  PROVE  Spec => []DirectivesAreRead
<1>1. Init => IInv
  <2> SUFFICES ASSUME Init PROVE IInv
    OBVIOUS
  <2>1. /\ source \in Seq(C) /\ pos = 0 /\ mode = "top" /\ start = 0 /\ key = <<>> /\ value = <<>>
        /\ directives = [skip |-> NoSkip, expected |-> <<>>] /\ diagnostics = <<>> /\ found = <<>>
    BY DEF Init
  <2>2. source \in Seq(Chars)
    <3>1. source \in [1 .. Len(source) -> Chars] /\ Len(source) \in Nat
      BY <2>1 DEF Chars
    <3> QED BY <3>1, SegmentIsSeq
  <2>3. LexerType
    BY <2>1, <2>2 DEF LexerType, Modes
  <2>4. ParserType
    BY <2>1 DEF ParserType, NoSkip
  <2>5. LineInv
    <3>1. InLine(0) /\ Within(0) /\ 0 \in 0 .. pos
      BY <2>1 DEF InLine, NoEnd, Within, NoSlashes
    <3> QED BY <3>1 DEF LineInv
  <2>6. FoundInv /\ EndInv
    BY <2>1 DEF FoundInv, EndInv
  <2>7. BehindInv
    <3>1. \A open, close \in 0 .. pos : ~IsLine(open, close)
      BY <2>1 DEF IsLine
    <3> QED BY <3>1 DEF BehindInv
  <2>8. DirectivesAreKept
    <3>1. PICK upto : IsUpto(upto, <<>>) /\ Expectations(<<>>) = upto[Len(<<>>)]
      <4>1. <<>> \in Seq(Token)
        OBVIOUS
      <4> QED BY <4>1, ExpectationsDef
    <3>2. Expectations(<<>>) = <<>>
      BY <3>1 DEF IsUpto
    <3> QED BY <2>1, <3>2 DEF DirectivesAreKept
  <2> QED BY <2>3, <2>4, <2>5, <2>6, <2>7, <2>8 DEF IInv, TypeOK
<1>2. IInv /\ [Next]_vars => IInv'
  <2> SUFFICES ASSUME IInv, [Next]_vars PROVE IInv'
    OBVIOUS
  <2>1. ASSUME Next PROVE IInv'
    BY <2>1, TopInv, SecondSlashInv, CommentOrDirectiveInv, CommentInv, SpaceBeforeKeyInv, KeyInv,
      SpaceBeforeValueInv, ValueInv, EndOfFileInv DEF Next
  <2>2. ASSUME UNCHANGED vars PROVE IInv'
    BY <2>2, StutterInv
  <2> QED BY <2>1, <2>2
<1>3. IInv => DirectivesAreRead
  <2> SUFFICES ASSUME IInv PROVE DirectivesAreRead
    OBVIOUS
  <2>1. OnlyEmptyCommentsHideDirectives
    BY DEF IInv, BehindInv, EndInv, OnlyEmptyCommentsHideDirectives
  <2> QED BY <2>1 DEF IInv, DirectivesAreRead
<1> QED BY <1>1, <1>2, <1>3, PTL DEF Spec

-----------------------------------------------------------------------------
(* The documentation generator. *)

\* A set of places has a last one.
LEMMA LastPlace ==
  ASSUME NEW n \in Nat, NEW S, S \subseteq 1..n, S # {}
  PROVE  Max(S) \in S /\ \A i \in S : Max(S) >= i
<1> DEFINE T == {n - i : i \in S}
<1>1. T \subseteq Nat /\ T # {}
  <2>1. \A i \in S : n - i \in Nat
    OBVIOUS
  <2> QED BY <2>1
<1>2. PICK k \in T : \A j \in T : k <= j
  <2> HIDE DEF T
  <2> QED BY <1>1, LeastNatural
<1>3. PICK m \in S : k = n - m
  BY <1>2
<1>4. ASSUME NEW i \in S
      PROVE  m >= i
  <2>1. n - i \in T
    OBVIOUS
  <2>2. i \in Int /\ m \in Int
    OBVIOUS
  <2>3. n - m <= n - i
    BY <1>2, <1>3, <2>1
  <2> QED BY <2>2, <2>3
<1> QED BY <1>4 DEF Max

\* What a local of the context is: a label, and the id of a field.
DocLocal == FieldNames \X (ItemNames \X FieldNames)

DocTypes ==
  /\ phase \in {"idle", "items", "fields"}
  /\ phase = "fields" => item \in ItemNames
  /\ labels \in Seq(FieldNames) /\ written \in Seq(ItemNames) /\ locals \in Seq(DocLocal)
  /\ failed \in BOOLEAN

\* The last locals are the fields of the current struct that are behind us.
OwnFieldsLast ==
  phase = "fields" =>
    /\ Len(labels) <= Len(locals)
    /\ \A i \in 1..Len(labels) :
         locals[Len(locals) - Len(labels) + i] = <<labels[i], <<item, labels[i]>> >>

\* Without a failed write the context has nothing else.
NothingIsStale ==
  ~failed =>
    /\ Len(locals) = (IF phase = "fields" THEN Len(labels) ELSE 0)
    /\ DOMAIN known = (IF phase = "idle" THEN {} ELSE Range(written))
    /\ \A n \in DOMAIN known : known[n] = <<n>>

DocInv == DocTypes /\ OwnFieldsLast /\ NothingIsStale

\* A new context knows nothing.
LEMMA DocInitInv == DocInit => DocInv
<1> SUFFICES ASSUME DocInit PROVE DocInv
  OBVIOUS
<1>1. /\ <<>> \in Seq(FieldNames) /\ <<>> \in Seq(ItemNames) /\ <<>> \in Seq(DocLocal)
      /\ Len(<<>>) = 0 /\ DOMAIN <<>> = {}
  OBVIOUS
<1>2. DocTypes
  BY <1>1 DEF DocInit, NewDocContext, DocTypes
<1>3. OwnFieldsLast
  BY DEF DocInit, OwnFieldsLast
<1>4. NothingIsStale
  <2>1. Len(locals) = 0 /\ DOMAIN known = {} /\ phase = "idle"
    BY <1>1 DEF DocInit, NewDocContext
  <2> QED BY <2>1 DEF NothingIsStale
<1> QED BY <1>2, <1>3, <1>4 DEF DocInv

\* A sequence that has grown by one has one more element in its range.
LEMMA RangeAppend ==
  ASSUME NEW S, NEW s \in Seq(S), NEW x \in S
  PROVE  Range(Append(s, x)) = Range(s) \cup {x}
<1>1. /\ Append(s, x) \in Seq(S) /\ Len(Append(s, x)) = Len(s) + 1 /\ Len(s) \in Nat
      /\ DOMAIN s = 1..Len(s) /\ DOMAIN Append(s, x) = 1..(Len(s) + 1)
      /\ \A i \in 1..Len(s) : Append(s, x)[i] = s[i]
      /\ Append(s, x)[Len(s) + 1] = x
  OBVIOUS
<1>2. 1..(Len(s) + 1) = 1..Len(s) \cup {Len(s) + 1}
  BY <1>1
<1> QED BY <1>1, <1>2 DEF Range

\* The table of items and the items written so far, when one is written.
LEMMA ItemWritten ==
  ASSUME NEW name \in ItemNames, DocInv, phase # "idle", ~failed,
         known' = Insert(known, name, <<name>>), written' = Append(written, name)
  PROVE  DOMAIN known' = Range(written') /\ \A n \in DOMAIN known' : known'[n] = <<n>>
<1>1. DOMAIN known = Range(written) /\ \A n \in DOMAIN known : known[n] = <<n>>
  BY DEF DocInv, NothingIsStale
<1>2. Range(written') = Range(written) \cup {name}
  BY RangeAppend DEF DocInv, DocTypes
<1>3. /\ DOMAIN known' = DOMAIN known \cup {name} /\ known'[name] = <<name>>
      /\ \A n \in DOMAIN known : n # name => known'[n] = known[n]
  BY DEF Insert
<1>4. ASSUME NEW n \in DOMAIN known'
      PROVE  known'[n] = <<n>>
  BY <1>1, <1>3
<1> QED BY <1>1, <1>2, <1>3, <1>4

\* Whatever fails, the fields of the current struct are the last locals; and if
\* nothing fails, the context has them and the items of the document only.
LEMMA DocNextInv == DocInv /\ [DocNext]_docVars => DocInv'
<1> SUFFICES ASSUME DocInv, [DocNext]_docVars PROVE DocInv'
  OBVIOUS
<1>1. CASE StartDocument
  <2>1. /\ phase = "idle" /\ phase' = "items" /\ written' = <<>>
        /\ UNCHANGED <<known, locals, item, labels, failed>>
    BY <1>1 DEF StartDocument
  <2>2. Range(<<>>) = {} /\ <<>> \in Seq(ItemNames)
    BY DEF Range
  <2>3. DocTypes'
    BY <2>1, <2>2 DEF DocInv, DocTypes
  <2>4. OwnFieldsLast' /\ NothingIsStale'
    BY <2>1, <2>2 DEF DocInv, OwnFieldsLast, NothingIsStale
  <2> QED BY <2>3, <2>4 DEF DocInv
<1>2. ASSUME NEW name \in ItemNames, NEW type \in Terms \cup {NoType}, NEW term \in Terms,
             FromConstant(name, type, term)
      PROVE  DocInv'
  <2>1. /\ phase = "items" /\ known' = Insert(known, name, <<name>>)
        /\ written' = Append(written, name) /\ UNCHANGED <<locals, phase, item, labels, failed>>
    BY <1>2 DEF FromConstant
  <2>2. DocTypes'
    BY <2>1 DEF DocInv, DocTypes
  <2>3. OwnFieldsLast'
    BY <2>1 DEF OwnFieldsLast
  <2>4. NothingIsStale'
    BY <2>1, ItemWritten DEF DocInv, NothingIsStale
  <2> QED BY <2>2, <2>3, <2>4 DEF DocInv
<1>3. ASSUME NEW name \in ItemNames, NEW type \in Terms \cup {NoType}, StartStruct(name, type)
      PROVE  DocInv'
  <2>1. /\ phase = "items" /\ phase' = "fields" /\ item' = name /\ labels' = <<>>
        /\ UNCHANGED <<known, locals, written, failed>>
    BY <1>3 DEF StartStruct
  <2>2. <<>> \in Seq(FieldNames) /\ Len(<<>>) = 0 /\ Len(locals) \in Nat
    BY DEF DocInv, DocTypes
  <2>3. DocTypes'
    BY <2>1, <2>2 DEF DocInv, DocTypes
  <2>4. OwnFieldsLast'
    BY <2>1, <2>2 DEF OwnFieldsLast
  <2>5. NothingIsStale'
    BY <2>1, <2>2 DEF DocInv, NothingIsStale
  <2> QED BY <2>3, <2>4, <2>5 DEF DocInv
<1>4. ASSUME NEW label \in FieldNames, NEW type \in Terms, FromField(label, type)
      PROVE  DocInv'
  <2> DEFINE local == <<label, <<item, label>> >>
  <2>1. /\ phase = "fields" /\ locals' = Append(locals, local) /\ labels' = Append(labels, label)
        /\ UNCHANGED <<known, phase, item, written, failed>>
    BY <1>4 DEF FromField
  <2>2. local \in DocLocal /\ locals \in Seq(DocLocal) /\ labels \in Seq(FieldNames)
    BY <2>1 DEF DocInv, DocTypes, DocLocal
  <2> HIDE DEF local
  <2>3. /\ locals' \in Seq(DocLocal) /\ Len(locals') = Len(locals) + 1 /\ Len(locals) \in Nat
        /\ \A i \in 1..Len(locals) : locals'[i] = locals[i]
        /\ locals'[Len(locals) + 1] = local
    BY <2>1, <2>2
  <2>4. /\ labels' \in Seq(FieldNames) /\ Len(labels') = Len(labels) + 1 /\ Len(labels) \in Nat
        /\ \A i \in 1..Len(labels) : labels'[i] = labels[i]
        /\ labels'[Len(labels) + 1] = label
    BY <2>1, <2>2
  <2>5. DocTypes'
    BY <2>1, <2>3, <2>4 DEF DocInv, DocTypes
  <2>6. OwnFieldsLast'
    <3>1. /\ Len(labels) <= Len(locals)
          /\ \A i \in 1..Len(labels) :
               locals[Len(locals) - Len(labels) + i] = <<labels[i], <<item, labels[i]>> >>
      BY <2>1 DEF DocInv, OwnFieldsLast
    <3>2. Len(labels') <= Len(locals') /\ Len(locals') - Len(labels') = Len(locals) - Len(labels)
      BY <2>3, <2>4, <3>1
    <3>3. ASSUME NEW i \in 1..Len(labels')
          PROVE  locals'[Len(locals) - Len(labels) + i] = <<labels'[i], <<item, labels'[i]>> >>
      <4>1. CASE i \in 1..Len(labels)
        <5>1. Len(locals) - Len(labels) + i \in 1..Len(locals)
          BY <2>3, <2>4, <3>1, <4>1
        <5> QED BY <2>3, <2>4, <3>1, <4>1, <5>1
      <4>2. CASE i = Len(labels) + 1
        BY <2>3, <2>4, <4>2 DEF local
      <4> QED BY <2>4, <4>1, <4>2
    <3> QED BY <2>1, <3>2, <3>3 DEF OwnFieldsLast
  <2>7. NothingIsStale'
    BY <2>1, <2>3, <2>4 DEF DocInv, NothingIsStale
  <2> QED BY <2>5, <2>6, <2>7 DEF DocInv
<1>5. \* Truncation drops the fields of the current struct.
      ASSUME phase = "fields"
      PROVE  /\ TruncatedLocals \in Seq(DocLocal)
             /\ ~failed => Len(TruncatedLocals) = 0
  <2>1. /\ locals \in Seq(DocLocal) /\ labels \in Seq(FieldNames) /\ Len(labels) <= Len(locals)
        /\ ~failed => Len(locals) = Len(labels)
    BY <1>5 DEF DocInv, DocTypes, OwnFieldsLast, NothingIsStale
  <2>2. Len(locals) - Len(labels) \in 0..Len(locals)
    BY <2>1
  <2> DEFINE size == Len(locals) - Len(labels)
  <2>3. size \in 0..Len(locals) /\ (~failed => size = 0)
    BY <2>1, <2>2
  <2> HIDE DEF size
  <2>4. SubSeq(locals, 1, size) \in Seq(DocLocal) /\ Len(SubSeq(locals, 1, size)) = size
    BY <2>1, <2>3
  <2> QED BY <2>3, <2>4 DEF TruncatedLocals, size
<1>6. CASE FinishStruct
  <2>1. /\ phase = "fields" /\ phase' = "items" /\ locals' = TruncatedLocals
        /\ known' = Insert(known, item, <<item>>)
        /\ written' = Append(written, item) /\ UNCHANGED <<item, labels, failed>>
    BY <1>6 DEF FinishStruct
  <2>2. item \in ItemNames
    BY <2>1 DEF DocInv, DocTypes
  <2>3. DocTypes'
    BY <1>5, <2>1, <2>2 DEF DocInv, DocTypes
  <2>4. OwnFieldsLast'
    BY <2>1 DEF OwnFieldsLast
  <2>5. NothingIsStale'
    BY <1>5, <2>1, <2>2, ItemWritten DEF NothingIsStale
  <2> QED BY <2>3, <2>4, <2>5 DEF DocInv
<1>7. CASE FinishModule
  <2>1. /\ phase = "items" /\ phase' = "idle" /\ known' = <<>>
        /\ UNCHANGED <<locals, item, labels, written, failed>>
    BY <1>7 DEF FinishModule
  <2>2. DocTypes'
    BY <2>1 DEF DocInv, DocTypes
  <2>3. OwnFieldsLast' /\ NothingIsStale'
    BY <2>1 DEF DocInv, OwnFieldsLast, NothingIsStale
  <2> QED BY <2>2, <2>3 DEF DocInv
<1>8. CASE WriteFails
  <2>1. /\ phase' = "idle" /\ failed' = TRUE /\ UNCHANGED <<labels, written>>
        /\ locals' = locals \/ (phase = "fields" /\ locals' = TruncatedLocals)
    BY <1>8 DEF WriteFails
  <2>2. DocTypes'
    BY <1>5, <2>1 DEF DocInv, DocTypes
  <2>3. OwnFieldsLast' /\ NothingIsStale'
    BY <2>1 DEF OwnFieldsLast, NothingIsStale
  <2> QED BY <2>2, <2>3 DEF DocInv
<1>9. CASE UNCHANGED docVars
  BY <1>9 DEF docVars, DocInv, DocTypes, OwnFieldsLast, NothingIsStale
<1> QED BY <1>1, <1>2, <1>3, <1>4, <1>6, <1>7, <1>8, <1>9 DEF DocNext

-----------------------------------------------------------------------------
\* The links of a term are those of the names in it.
LEMMA LinksOfTerm ==
  ASSUME NEW term \in Terms \cup {NoType}
  PROVE  FromTerm(term) \in Seq({Link(u) : u \in Use})
<1>1. NamesIn(term) \in Seq(Use)
  BY NamesAssumption
<1>2. DOMAIN NamesIn(term) = 1..Len(NamesIn(term)) /\ Len(NamesIn(term)) \in Nat
  BY <1>1
<1>3. \A i \in 1..Len(NamesIn(term)) : NamesIn(term)[i] \in Use
  BY <1>1
<1>4. FromTerm(term) \in [1..Len(NamesIn(term)) -> {Link(u) : u \in Use}]
  BY <1>2, <1>3 DEF FromTerm
<1> QED BY <1>2, <1>4, SegmentIsSeq

\* Whatever a step writes, its links are those of names, in the context before it.
LEMMA LinksOfStep ==
  ASSUME DocNext, NEW i \in DOMAIN links'
  PROVE  phase \in {"items", "fields"} /\ \E u \in Use : links'[i] = Link(u)
<1> DEFINE L == {Link(u) : u \in Use}
<1>1. SUFFICES /\ links' \in Seq(L)
               /\ links' # <<>> => phase \in {"items", "fields"}
  BY <1>1
<1>2. <<>> \in Seq(L)
  OBVIOUS
<1>3. ASSUME NEW name \in ItemNames, NEW type \in Terms \cup {NoType}, NEW term \in Terms,
             FromConstant(name, type, term)
      PROVE  links' \in Seq(L) /\ phase = "items"
  <2>1. links' = FromTerm(type) \o FromTerm(term) /\ phase = "items"
    BY <1>3 DEF FromConstant
  <2>2. FromTerm(type) \in Seq(L) /\ FromTerm(term) \in Seq(L)
    BY LinksOfTerm
  <2> HIDE DEF L
  <2> QED BY <2>1, <2>2
<1>4. ASSUME NEW name \in ItemNames, NEW type \in Terms \cup {NoType}, StartStruct(name, type)
      PROVE  links' \in Seq(L) /\ phase = "items"
  BY <1>4, LinksOfTerm DEF StartStruct
<1>5. ASSUME NEW label \in FieldNames, NEW type \in Terms, FromField(label, type)
      PROVE  links' \in Seq(L) /\ phase = "fields"
  BY <1>5, LinksOfTerm DEF FromField
<1>6. CASE StartDocument \/ FinishStruct \/ FinishModule \/ WriteFails
  <2>1. links' = <<>>
    BY <1>6 DEF StartDocument, FinishStruct, FinishModule, WriteFails
  <2> QED BY <1>2, <2>1
<1> HIDE DEF L
<1> QED BY <1>3, <1>4, <1>5, <1>6 DEF DocNext

\* In a struct, get_id finds the own fields first.
LEMMA OwnFieldFound ==
  ASSUME DocInv, phase = "fields", NEW name \in Range(labels)
  PROVE  GetId(name) = <<item, name>>
<1> DEFINE places == {i \in DOMAIN locals : locals[i][1] = name}
           base == Len(locals) - Len(labels)
<1>1. /\ labels \in Seq(FieldNames) /\ locals \in Seq(DocLocal) /\ Len(labels) <= Len(locals)
      /\ \A i \in 1..Len(labels) : locals[base + i] = <<labels[i], <<item, labels[i]>> >>
  BY DEF DocInv, DocTypes, OwnFieldsLast
<1>2. /\ DOMAIN locals = 1..Len(locals) /\ DOMAIN labels = 1..Len(labels)
      /\ Len(locals) \in Nat /\ Len(labels) \in Nat /\ base \in Nat /\ base + Len(labels) = Len(locals)
  BY <1>1
<1> HIDE DEF base
<1>3. PICK k \in 1..Len(labels) : labels[k] = name
  BY <1>2 DEF Range
<1>4. base + k \in places
  <2>1. base + k \in DOMAIN locals
    BY <1>2
  <2>2. locals[base + k][1] = name
    BY <1>1, <1>3
  <2> QED BY <2>1, <2>2
<1>5. places \subseteq 1..Len(locals) /\ places # {}
  BY <1>2, <1>4
<1> DEFINE m == Max(places)
<1>6. m \in places /\ m >= base + k
  <2> HIDE DEF places
  <2> QED BY <1>2, <1>4, <1>5, LastPlace
<1>7. GetId(name) = locals[m][2]
  BY <1>5 DEF GetId
<1>8. m \in 1..Len(locals) /\ locals[m][1] = name
  BY <1>2, <1>6
<1> HIDE DEF m, places
<1>9. PICK j \in 1..Len(labels) : m = base + j
  <2>1. m - base \in 1..Len(labels) /\ m = base + (m - base)
    BY <1>2, <1>6, <1>8
  <2> QED BY <2>1
<1>10. locals[m] = <<labels[j], <<item, labels[j]>> >>
  BY <1>1, <1>9
<1>11. labels[j] = name
  BY <1>8, <1>10
<1> QED BY <1>7, <1>10, <1>11

\* As long as no write has failed, get_id finds what the name refers to.
LEMMA ScopeFound ==
  ASSUME DocInv, ~failed, phase \in {"items", "fields"}, NEW name
  PROVE  GetId(name) = ScopeOf(name)
<1>1. /\ labels \in Seq(FieldNames) /\ locals \in Seq(DocLocal)
      /\ DOMAIN known = Range(written) /\ \A n \in DOMAIN known : known[n] = <<n>>
      /\ Len(locals) = (IF phase = "fields" THEN Len(labels) ELSE 0)
  BY DEF DocInv, DocTypes, NothingIsStale
<1>2. CASE phase = "fields" /\ name \in Range(labels)
  BY <1>2, OwnFieldFound DEF ScopeOf
<1>3. CASE ~(phase = "fields" /\ name \in Range(labels))
  <2>1. {i \in DOMAIN locals : locals[i][1] = name} = {}
    <3>1. CASE phase = "fields"
      <4>1. \A i \in 1..Len(labels) : locals[i] = <<labels[i], <<item, labels[i]>> >>
        BY <1>1, <3>1 DEF DocInv, OwnFieldsLast
      <4>2. DOMAIN locals = 1..Len(labels) /\ DOMAIN labels = 1..Len(labels)
        BY <1>1, <3>1
      <4> QED BY <1>3, <3>1, <4>1, <4>2 DEF Range
    <3>2. CASE phase # "fields"
      BY <1>1, <3>2
    <3> QED BY <3>1, <3>2
  <2>2. GetId(name) = IF name \in DOMAIN known THEN known[name] ELSE Nowhere
    BY <2>1 DEF GetId
  <2>3. ScopeOf(name) = IF name \in Range(written) THEN <<name>> ELSE Nowhere
    BY <1>3 DEF ScopeOf
  <2> QED BY <1>1, <2>2, <2>3
<1> QED BY <1>2, <1>3

\* The invariant holds in every state of the generator.
LEMMA DocInvariant == DocSpec => []DocInv
BY DocInitInv, DocNextInv, PTL DEF DocSpec

\* A link that surface_to_doc.rs writes leads to what its name refers to for the
\* elaborator, parameters excepted, as long as no write has failed: for any terms,
\* and any number of documents, items and fields.
THEOREM LinksAreRight == DocSpec => LinksFollowScope
<1>1. ASSUME DocInv, DocNext, ~failed, NEW i \in DOMAIN links', ~links'[i].binds
      PROVE  links'[i].id = ScopeOf(links'[i].name)
  <2>1. PICK u \in Use : links'[i] = Link(u)
    BY <1>1, LinksOfStep
  <2>2. links'[i].name = u.name /\ links'[i].binds = u.binds
    BY <2>1 DEF Link
  <2>3. links'[i].id = GetId(u.name)
    BY <1>1, <2>1, <2>2 DEF Link
  <2>4. GetId(u.name) = ScopeOf(u.name)
    BY <1>1, LinksOfStep, ScopeFound
  <2> QED BY <2>2, <2>3, <2>4
<1>2. DocInv /\ [DocNext]_docVars =>
        [~failed =>
           \A i \in DOMAIN links' :
             (~links'[i].binds /\ (phase # "fields" \/ links'[i].name \notin params)) =>
               links'[i].id = ScopeOf(links'[i].name)]_docVars
  BY <1>1
<1> QED BY <1>2, DocInvariant, PTL DEF DocSpec, LinksFollowScope

\* Inside a struct the own fields win in surface_to_doc.rs, whatever failed writes
\* have left in the context.
THEOREM OwnFieldsWinAlways == DocSpec => OwnFieldsWin
<1>1. ASSUME DocInv, DocNext, phase = "fields", NEW i \in DOMAIN links', ~links'[i].binds,
             links'[i].name \in Range(labels)
      PROVE  links'[i].id = <<item, links'[i].name>>
  <2>1. PICK u \in Use : links'[i] = Link(u)
    BY <1>1, LinksOfStep
  <2>2. links'[i].name = u.name /\ links'[i].binds = u.binds
    BY <2>1 DEF Link
  <2>3. links'[i].id = GetId(u.name)
    BY <1>1, <2>1, <2>2 DEF Link
  <2>4. GetId(u.name) = <<item, u.name>>
    BY <1>1, <2>2, OwnFieldFound
  <2> QED BY <2>2, <2>3, <2>4
<1>2. DocInv /\ [DocNext]_docVars =>
        [phase = "fields" =>
           \A i \in DOMAIN links' :
             (~links'[i].binds /\ links'[i].name \in Range(labels)) =>
               links'[i].id = <<item, links'[i].name>>]_docVars
  BY <1>1
<1> QED BY <1>2, DocInvariant, PTL DEF DocSpec, OwnFieldsWin

=============================================================================
