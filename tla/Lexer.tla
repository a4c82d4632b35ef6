------------------------------- MODULE Lexer -------------------------------
(***************************************************************************)
(* The scanner of the compiler, cmd/goxdr/lex.go, as operators on the      *)
(* state of a Lexer:                                                       *)
(*                                                                         *)
(*   text, pos  the file and how much of it is consumed: the code's input  *)
(*              is the rest, and At(l, i) is its character i               *)
(*   col, mid   colno and midline                                          *)
(*   block      blockComment: the comment waiting for the next token       *)
(*   failed     output.Failed                                              *)
(*                                                                         *)
(* A file is a sequence of one-character strings.  A comment is the        *)
(* sequence of the pieces of the file it is made of, each <<from, to>>, so *)
(* that what stripToColumn does to the indentation inside a comment is     *)
(* left out.  The line numbers are used in messages only.                  *)
(*                                                                         *)
(* An operator that moves the lexer returns a record with the new lexer in *)
(* l and the function's result beside it.                                  *)
(***************************************************************************)
EXTENDS Integers, Sequences, SequencesExt

WhiteSpace == {" ", "\t"}
Digit      == {"0", "1"}
HexDigit   == Digit \cup {"a", "c", "d", "e", "f", "b"}
IdStart    == {"a", "b", "c", "d", "e", "f", "g", "i", "k", "s", "t", "u",
               "v", "x", "y", "z", "_", "T", "F"}
IdRest     == IdStart \cup Digit
Punctuation == {"=", ";", "{", "}", ",", ":", "(", ")", "<", ">", "[", "]", "*"}

(* The keywords, one letter each: const, union, enum, switch, case,
   default, void, int and bool *)
Keyword == [k |-> "T_CONST", u |-> "T_UNION", e |-> "T_ENUM", s |-> "T_SWITCH",
            c |-> "T_CASE", d |-> "T_DEFAULT", v |-> "T_VOID", i |-> "T_INT",
            b |-> "T_BOOL"]

NoComment == <<>>

NewLexer(text) == [text |-> text, pos |-> 0, col |-> 0, mid |-> FALSE,
                   block |-> NoComment, failed |-> FALSE]

Left(l) == Len(l.text) - l.pos

At(l, i) == IF i \in 0 .. Left(l) - 1 THEN l.text[l.pos + i + 1] ELSE "EOF"

(* The first place from k on that has a character of S, or of no S, or is
   past the end *)
FindIn(l, k, S)  == CHOOSE i \in k .. Left(l) :
    (i = Left(l) \/ At(l, i) \in S) /\ \A j \in k .. i - 1 : At(l, j) \notin S
RunEnd(l, k, S)  == CHOOSE i \in k .. Left(l) :
    At(l, i) \notin S /\ \A j \in k .. i - 1 : At(l, j) \in S

(* strings.IndexFunc(l.input[k:], isNotWS), with its -1 for "none" *)
IndexNotWS(l, k) ==
    LET i == RunEnd(l, k, WhiteSpace) IN IF i = Left(l) THEN -1 ELSE i - k

(* strings.IndexByte(l.input, '\n') *)
IndexNL(l) ==
    LET i == FindIn(l, 0, {"\n"}) IN IF i = Left(l) THEN -1 ELSE i

(* Faulty: the end of a comment is looked for one character early. *)
ClosesEarly(l, i) == At(l, i + 1) = "*" /\ At(l, i + 2) = "/"

(* strings.Index(l.input[2:], "*/") *)
Closes(l, i) == At(l, i + 2) = "*" /\ At(l, i + 3) = "/"
IndexClose(l) ==
    IF \E i \in 0 .. Left(l) - 4 : Closes(l, i)
    THEN CHOOSE i \in 0 .. Left(l) - 4 : Closes(l, i) /\ \A j \in 0 .. i - 1 : ~Closes(l, j)
    ELSE -1

-----------------------------------------------------------------------------
(* Faulty: a new line does not end the middle of a line. *)
StaysMid(l, c) ==
    CASE c = "\n" -> [l EXCEPT !.col = 0]
      [] c = "\t" -> [l EXCEPT !.col = @ + (8 - (@ % 8))]
      [] c = " "  -> [l EXCEPT !.col = @ + 1]
      [] OTHER    -> [l EXCEPT !.col = @ + 1, !.mid = TRUE]

Move(l, c) ==
    CASE c = "\n" -> [l EXCEPT !.col = 0, !.mid = FALSE]
      [] c = "\t" -> [l EXCEPT !.col = @ + (8 - (@ % 8))]
      [] c = " "  -> [l EXCEPT !.col = @ + 1]
      [] OTHER    -> [l EXCEPT !.col = @ + 1, !.mid = TRUE]

Advance(l, n) ==
    FoldLeft(Move, [l EXCEPT !.pos = @ + n], SubSeq(l.text, l.pos + 1, l.pos + n))

ClearComment(l) == [l EXCEPT !.block = NoComment]

FindEOL(l) ==
    LET n == IndexNL(l)
    IN  IF n > 0 /\ At(l, n - 1) = "\r" THEN n - 1
        ELSE IF n >= 0 THEN n ELSE Left(l)

SkipLine(l) == Advance(l, IF IndexNL(l) >= 0 THEN IndexNL(l) + 1 ELSE Left(l))

RestOfLine(l) ==
    [l       |-> SkipLine(Advance(l, FindEOL(l))),
     comment |-> <<<<l.pos, l.pos + FindEOL(l)>>>>]

(* IndexFunc finds nothing when only white space is left: it stays *)
SkipWS(l) == IF IndexNotWS(l, 0) > 0 THEN Advance(l, IndexNotWS(l, 0)) ELSE l

(* isEOL(l.input[k:]) *)
IsEOL(l, k) ==
    CASE At(l, k) = "\n" -> 1
      [] At(l, k) = "\r" /\ At(l, k + 1) = "\n" -> 2
      [] OTHER -> 0

SkipWSNL(l) ==
    LET m == SkipWS(l)
    IN  [l |-> Advance(m, IsEOL(m, 0)), did |-> IsEOL(m, 0) > 0]

FindCommentStart(l, tp) ==
    LET i == IndexNotWS(l, 0)
    IN  IF i >= 0 /\ At(l, i) = "/" /\ At(l, i + 1) = tp
        THEN [l |-> Advance(l, i), did |-> TRUE]
        ELSE [l |-> l, did |-> FALSE]

(* get1LineBlockComment: a comment on one line and at its end is the
   result, one that something else follows on its line is skipped, and one
   that spans lines stays where it is.  The comment, if there is one,
   starts at f and ends j characters after its first two *)
TakeBlockComment(f, j) ==
    LET l == f.l
        multiline == \E i \in 0 .. j + 3 : At(l, i) = "\n"
        nskip == j + 4 + IndexNotWS(l, j + 4)
    IN  CASE ~f.did \/ j < 0 -> [l |-> l, comment |-> NoComment]
          [] f.did /\ j >= 0 /\ ~multiline /\ (IsEOL(l, nskip) > 0 \/ nskip = Left(l)) ->
               [l |-> Advance(l, nskip + IsEOL(l, nskip)),
                comment |-> <<<<l.pos, l.pos + j + 4>>>>]
          [] f.did /\ j >= 0 /\ IsEOL(l, nskip) = 0 ->
               [l |-> Advance(l, nskip), comment |-> NoComment]
          [] OTHER -> [l |-> l, comment |-> NoComment]

OneLineBlockComment(l) ==
    LET f == FindCommentStart(l, "*") IN TakeBlockComment(f, IndexClose(f.l))

(* The loop of getLineComment: lines of "//" in one column are one comment *)
RECURSIVE GluedLines(_, _, _)
GluedLines(l, column, out) ==
    LET f == FindCommentStart(l, "/")
        r == RestOfLine(f.l)
    IN  IF ~f.did THEN [l |-> l, comment |-> out]
        ELSE GluedLines(r.l, f.l.col,
                        IF f.l.col # column THEN r.comment ELSE out \o r.comment)

LineComment(l) ==
    LET f == FindCommentStart(l, "/")
    IN  IF ~f.did THEN OneLineBlockComment(l)
        ELSE IF f.l.mid THEN RestOfLine(f.l)
        ELSE GluedLines(f.l, -1, NoComment)

(* The end of skipComment: a block comment that getLineComment left, true
   also for one that is never closed, which stays where it is *)
SkipBlockComment(l, mid) ==
    LET f == FindCommentStart(l, "*")
        j == IndexClose(f.l)
        end == ClearComment(Advance(f.l, j + 4))
        nl == SkipWSNL(end)
    IN  CASE ~f.did -> [l |-> f.l, did |-> FALSE]
          [] f.did /\ j < 0 -> [l |-> ClearComment(f.l), did |-> TRUE]
          [] OTHER ->
               [l |-> IF mid THEN end
                      ELSE IF ~nl.did THEN nl.l
                      ELSE [nl.l EXCEPT !.block = <<<<f.l.pos, f.l.pos + j + 4>>>>],
                did |-> TRUE]

(* skipComment, with what getLineComment found *)
PlaceComment(l, c) ==
    IF c.comment = NoComment THEN SkipBlockComment(c.l, l.mid)
    ELSE [l |-> [c.l EXCEPT !.block = IF l.mid THEN NoComment ELSE c.comment],
          did |-> TRUE]
SkipComment(l) == PlaceComment(l, LineComment(l))

(* The loop of skipSpace; a pass that changes nothing is repeated for ever *)
RECURSIVE SkipSpace(_)
SpaceAfter(l, c) ==
    LET w == SkipWSNL(c.l)
        m == IF w.did THEN ClearComment(w.l) ELSE w.l
    IN  IF ~w.did /\ ~c.did THEN [l |-> m, hang |-> FALSE]
        ELSE IF m = l THEN [l |-> m, hang |-> TRUE]
        ELSE SkipSpace(m)
SkipSpace(l) == SpaceAfter(l, SkipComment(l))

-----------------------------------------------------------------------------
Token(l, typ, n, c) ==
    [l   |-> c.l,
     tok |-> [type |-> typ, at |-> l.pos, value |-> SubSeq(l.text, l.pos + 1, l.pos + n),
              block |-> l.block, line |-> c.comment]]

MakeToken(l, typ, n) == Token(l, typ, n, LineComment(Advance(ClearComment(l), n)))

Identifier(l) ==
    LET n == RunEnd(l, 1, IdRest)
        first == At(l, 0)
    IN  MakeToken(l, IF n = 1 /\ first \in DOMAIN Keyword THEN Keyword[first] ELSE "T_ID", n)

EOFToken == [type |-> "EOF", at |-> -1, value |-> <<>>, block |-> <<>>, line |-> <<>>]

(* integer(): a sign without a digit is no token, which next() returns as
   the end of the file *)
Integer(l) ==
    LET i == IF At(l, 0) \in {"+", "-"} THEN 1 ELSE 0
        hex == At(l, i) = "0" /\ At(l, i + 1) = "x" /\ At(l, i + 2) \in HexDigit
    IN  IF At(l, i) \notin Digit THEN [l |-> l, tok |-> EOFToken]
        ELSE MakeToken(l, "T_NUM", IF hex THEN RunEnd(l, i + 2, HexDigit)
                                   ELSE RunEnd(l, i + 1, Digit))

(* next(): the next token, or its type is "EOF", or "hang" when the lexer
   never returns *)
RECURSIVE NextToken(_)
TokenAt(l, hang) ==
    LET c == At(l, 0)
    IN  CASE hang -> [l |-> l, tok |-> [EOFToken EXCEPT !.type = "hang"]]
          [] ~hang /\ c = "EOF" -> [l |-> l, tok |-> EOFToken]
          [] ~hang /\ c \in Punctuation -> MakeToken(l, c, 1)
          [] ~hang /\ c \in IdStart -> Identifier(l)
          [] ~hang /\ c \in Digit \cup {"+", "-"} -> Integer(l)
          [] ~hang /\ c = "%" /\ l.col = 0 -> NextToken(SkipLine(l))
          [] OTHER -> NextToken([MakeToken(l, "bad", 1).l EXCEPT !.failed = TRUE])
NextToken(l) == LET s == SkipSpace(l) IN TokenAt(s.l, s.hang)
=============================================================================
