------------------------------ MODULE Compiler ------------------------------
(***************************************************************************)
(* goxdr on one file: the scanner (Lexer), the parser and the emitter      *)
(* (UnionDecl), one after the other.  A file is written by its author as   *)
(* pieces: tokens, white space and comments, each a record with the kind   *)
(* of the piece and its characters.  Some files are a declaration printed  *)
(* token by token, and decl is what its author meant; the others are only  *)
(* scanned, since what they hold is seldom a definition.                   *)
(*                                                                         *)
(* The parser asks the scanner for a token when it needs one; here the     *)
(* file is scanned first, which differs only in that errors after a syntax *)
(* error are reported too.                                                 *)
(***************************************************************************)
EXTENDS Lexer, UnionDecl

CONSTANTS
    Layouts,   \* the files that are only scanned, as sequences of pieces
    Decls      \* the declarations that are compiled

VARIABLES
    file,      \* the pieces
    decl,      \* what was meant, or Nothing
    phase,     \* "written", "scanned" or "compiled"
    scan,      \* the result of the scanner: tokens, whether it hangs or failed
    code       \* the parser's state at the end, which the emitter works from

vars == <<file, decl, phase, scan, code>>

Nothing == [arms |-> <<>>]

-----------------------------------------------------------------------------
(* Printing a declaration.  A declaration has constants (name and value),
   an enum (its tags, names with a value or none) or none, the type of the
   discriminant and the arms: their labels, their name, "" for void, and
   the piece that is their comment, if any, with its place. *)
Tok(chars) == [kind |-> "tok", chars |-> chars]
Space == [kind |-> "space", chars |-> <<" ">>]
NewLine == [kind |-> "nl", chars |-> <<"\n">>]

Spaced(toks) == FlattenSeq([k \in DOMAIN toks |-> <<Tok(toks[k]), Space>>])

Default == <<"d">>
WrittenLabel(label) ==
    IF label = Default THEN Spaced(<<Default, <<":">>>>)
    ELSE Spaced(<<<<"c">>, label, <<":">>>>)

WrittenArm(arm) ==
    LET body == IF arm.name = <<>> THEN <<<<"v">>, <<";">>>>
                ELSE <<<<"i">>, arm.name, <<";">>>>
        above == IF arm.place = "above" THEN <<NewLine, arm.comment, NewLine>> ELSE <<>>
        after == IF arm.place = "after" THEN <<arm.comment, NewLine>> ELSE <<>>
    IN  FlattenSeq([k \in DOMAIN arm.labels |-> WrittenLabel(arm.labels[k])])
          \o above \o Spaced(body) \o after

WrittenTag(tag) ==
    IF tag.val = <<>> THEN Spaced(<<tag.name, <<",">>>>)
    ELSE Spaced(<<tag.name, <<"=">>, tag.val, <<",">>>>)

Written(d) ==
    FlattenSeq([k \in DOMAIN d.consts |->
        Spaced(<<<<"k">>, d.consts[k].name, <<"=">>, d.consts[k].val, <<";">>>>)])
    \o (IF d.tags = <<>> THEN <<>>
        ELSE Spaced(<<<<"e">>, <<"t">>, <<"{">>>>)
               \o FlattenSeq([k \in DOMAIN d.tags |-> WrittenTag(d.tags[k])])
               \o Spaced(<<<<"}">>, <<";">>>>))
    \o Spaced(<<<<"u">>, <<"x">>, <<"s">>, <<"(">>, d.tagtype, <<"g">>, <<")">>, <<"{">>>>)
    \o FlattenSeq([k \in DOMAIN d.arms |-> WrittenArm(d.arms[k])])
    \o Spaced(<<<<"}">>, <<";">>>>) \o <<NewLine>>

Text(pieces) == FlattenSeq([k \in DOMAIN pieces |-> pieces[k].chars])

-----------------------------------------------------------------------------
NotScanned == [toks |-> <<>>, hang |-> FALSE, failed |-> FALSE]
NotParsed  == NewParser(<<>>, FALSE)

Init == /\ \/ file \in Layouts /\ decl = Nothing
           \/ decl \in Decls /\ file = Written(decl)
        /\ phase = "written"
        /\ scan = NotScanned
        /\ code = NotParsed

(* The calls of Lex until it returns 0 *)
RECURSIVE LexAll(_, _)
LexOn(t, toks) ==
    IF t.tok.type \in {"EOF", "hang"}
    THEN [toks |-> toks, hang |-> t.tok.type = "hang", failed |-> t.l.failed]
    ELSE LexAll(t.l, Append(toks, t.tok))
LexAll(l, toks) == LexOn(NextToken(l), toks)

Scan == /\ phase = "written"
        /\ scan' = LexAll(NewLexer(Text(file)), <<>>)
        /\ phase' = "scanned"
        /\ UNCHANGED <<file, decl, code>>

(* main: nothing is emitted when there was an error *)
Compile == /\ phase = "scanned"
           /\ decl # Nothing
           /\ ~scan.hang
           /\ code' = Parse(NewParser(scan.toks, scan.failed))
           /\ phase' = "compiled"
           /\ UNCHANGED <<file, decl, scan>>

Next == Scan \/ Compile

Spec == Init /\ [][Next]_vars

-----------------------------------------------------------------------------
(* The pieces as their author sees them *)

(* The place in the text where piece k begins *)
Start(k) == Len(Text(SubSeq(file, 1, k - 1)))
Span(k)  == <<Start(k), Start(k) + Len(SelectSeq(file[k].chars,
                    LAMBDA c : file[k].kind # "line" \/ c # "\n"))>>

Tokens == SelectSeq([k \in DOMAIN file |-> k], LAMBDA k : file[k].kind = "tok")
EndsLine(k) == file[k].kind \in {"nl", "line", "raw"}
IsComment(k) == file[k].kind \in {"line", "block", "multi"}

(* Nothing but the kinds of piece in S stands strictly between j and k *)
Between(j, k, S) == \A m \in (j + 1) .. (k - 1) : file[m].kind \in S

(* Only pieces of the kinds in S stand before piece k on its line *)
First(k, S) == \E j \in 0 .. (k - 1) : /\ j = 0 \/ EndsLine(j)
                                       /\ Between(j, k, S)

(* Two comments on one line: how the scanner takes them depends on which
   of its functions meets them *)
Crowded == \E j, k \in DOMAIN file : /\ j < k
                                     /\ IsComment(j) /\ IsComment(k)
                                     /\ Between(j, k, {"space"})
                                     /\ file[j].kind # "line"

(* The tokens as they were written, each with its place in the text *)
Places ==
    FoldLeft(LAMBDA p, piece :
               [at |-> p.at + Len(piece.chars),
                toks |-> IF piece.kind = "tok" THEN Append(p.toks, <<p.at, piece.chars>>) ELSE p.toks],
             [at |-> 0, toks |-> <<>>], file).toks

(* Every character of a file is accounted for: the scanner finds exactly
   the tokens its author wrote, in order, or else it complains, and it
   complains only about a line comment that follows a block comment on its
   line and about a blank or a block comment at the very end.  It fails to return only for a comment that is not closed.
   (lex.go:238-276, 301-311, 373-396: the functions that skip comments hand
   over to each other in the middle of a line.) *)
TokensAsWritten ==
    phase # "written" =>
      LET open == \E k \in DOMAIN file : file[k].kind = "open"
      IN  /\ scan.hang = open
          /\ scan.failed => Crowded \/ file[Len(file)].kind \in {"space", "block", "multi"}
          /\ ~scan.hang /\ ~scan.failed =>
               [k \in DOMAIN scan.toks |-> <<scan.toks[k].at, scan.toks[k].value>>] = Places

(* The comment that belongs after token k: the rest of its line is that
   comment and white space *)
After(k) ==
    {j \in DOMAIN file :
       /\ j > k /\ Between(k, j, {"space"})
       /\ \/ file[j].kind = "line"
          \/ /\ file[j].kind = "block"
             /\ \E m \in DOMAIN file : m > j /\ file[m].kind = "nl" /\ Between(j, m, {"space"})}

(* Comment j ends the line before the line of piece k: only that line's
   end, white space, a comment inside a line and lines for Go's use lie
   between *)
JustAbove(j, k) ==
    /\ j < k /\ IsComment(j) /\ First(j, {"space"})
    /\ \E m \in j .. (k - 1) :
         /\ IF file[j].kind = "line" THEN m = j
            ELSE m > j /\ file[m].kind = "nl" /\ Between(j, m, {"space"})
         /\ \E n \in m .. (k - 1) : /\ n = m \/ file[n].kind = "raw"
                                    /\ \A r \in (m + 1) .. n : file[r].kind = "raw"
                                    /\ Between(n, k, {"space", "block", "multi"})

Column(k) ==
    LET begin == Max({j \in 0 .. (k - 1) : j = 0 \/ EndsLine(j)})
    IN  FoldLeft(LAMBDA n, c : IF c = "\t" THEN n + 8 - (n % 8) ELSE n + 1, 0,
                 Text(SubSeq(file, begin + 1, k - 1)))

(* The run of line comments that ends with j: in one column, each on the
   line after the other *)
RunOf(j) ==
    {i \in 1 .. j : \A m \in i .. j :
        /\ file[m].kind \in {"line", "space"}
        /\ file[m].kind = "line" => First(m, {"space"}) /\ Column(m) = Column(j)
        /\ file[i].kind = "line"}
Spans(S) == SetToSortSeq({Span(k) : k \in S}, LAMBDA a, b : a[1] < b[1])

(* A comment goes to the token it is about: a token's LineComment is the
   comment that follows it on its line, and its BlockComment is the comment
   on the lines just above it, lines of "//" in one column counting as one.
   No other token of the file gets it.  (lex.go:197-215, 238-276, 278-295,
   301-311: a comment waits in blockComment until a token takes it or
   something clears it.)  Not said of lines with two comments;
   for declarations see CompilesAsMeant. *)
CommentsAttach ==
    (phase # "written" /\ decl = Nothing /\ ~scan.hang /\ ~Crowded) =>
      \A k \in DOMAIN Tokens :
            LET w == Tokens[k]
                above == {j \in DOMAIN file :
                            First(w, {"space", "block", "multi"}) /\ JustAbove(j, w)}
            IN  /\ scan.toks[k].line = Spans(After(w))
                /\ scan.toks[k].block =
                     CASE above = {} -> <<>>
                       [] above # {} /\ file[Max(above)].kind = "line" -> Spans(RunOf(Max(above)))
                       [] OTHER -> Spans({Max(above)})

-----------------------------------------------------------------------------
(* What the declaration means *)
MeantConsts == decl.consts \o [k \in DOMAIN decl.tags |->
                  [name |-> decl.tags[k].name,
                   val |-> IF decl.tags[k].val = <<>> THEN <<"iota", k - 1>> ELSE decl.tags[k].val]]
Named(n) == {i \in DOMAIN decl.arms :
               \E k \in DOMAIN decl.arms[i].labels :
                  /\ decl.arms[i].labels[k] # Default
                  /\ GoValue(MeantConsts, decl.arms[i].labels[k], {}) = n}
Defaults == {i \in DOMAIN decl.arms : \E k \in DOMAIN decl.arms[i].labels :
                                         decl.arms[i].labels[k] = Default}
Meant(n) == IF Named(n) # {} THEN Named(n) ELSE Defaults

Occurrences(label) == {<<i, k>> \in (DOMAIN decl.arms) \X (1 .. 2) :
                          k <= Len(decl.arms[i].labels) /\ decl.arms[i].labels[k] = label}
Discriminants == -1 .. 2

Accepted == phase = "compiled" /\ ~code.failed /\ ~code.crash /\ GoAccepts(code)
Union == code.unions[1]
Generated == Compiled(code.consts, Union)

(* A generated union keeps to its declaration, and its methods agree: for
   every discriminant exactly the arm declared for it can be accessed, is
   what XdrUnionBody, XdrUnionBodyName and XdrRecurse use, and XdrValid and
   XdrValidTags tell the discriminants for which there is one; an arm has
   the comment written for it.  The methods disagree in one case, and always
   then: a truth value stands in the cases of two arms, which neither goxdr
   nor Go refuses, and an arm after the first, the one that is named and
   marshalled, can be accessed too.  The parser runs off its slice exactly
   when an arm that is no default follows the default, and otherwise refuses
   exactly a second default and a name defined twice.  (parse.y:176-240;
   goxdr.go:807-968: eight pieces of generated code choose the arm, each in
   its own way.) *)
CompilesAsMeant ==
    phase = "compiled" =>
      /\ code.crash <=> \E i \in Defaults : \E j \in DOMAIN decl.arms \ Defaults : i < j
      /\ ~code.crash => (code.failed <=>
           \/ Cardinality(Occurrences(Default)) > 1
           \/ \E j, k \in DOMAIN MeantConsts :
                j # k /\ MeantConsts[j].name = MeantConsts[k].name)
      /\ Accepted =>
           /\ Len(code.unions) = 1
           /\ WellBuilt(Generated)
           /\ \A i \in DOMAIN Union.fields : \E j \in DOMAIN decl.arms :
                /\ decl.arms[j].name = Union.fields[i].decl.id
                /\ decl.arms[j].name # <<>> =>
                     Union.fields[i].decl.comment =
                       Spans({k \in DOMAIN file : file[k] = decl.arms[j].comment})
           /\ \A n \in Discriminants :
                /\ SwitchesAgree(Generated, n)
                /\ MethodsAgree(Generated, n) <=>
                     \A i \in Shadowed(Generated, n) : IsVoid(Generated.fields[i])
                /\ Shadowed(Generated, n) # {} => decl.tagtype = <<"b">>
                /\ Valid(Generated, n) <=> Meant(n) # {}
                /\ Valid(Generated, n) =>
                     BodyName(Generated, n) = decl.arms[Min(Meant(n))].name

(* A variable fresh from its constructor is a value of its type: after
   XdrInitialize the discriminant of a union selects an arm and an enum has
   one of its tags, whether or not zero is among them and however many
   constants stand between a label and its number.  (goxdr.go:259-284,
   640-657, 970-993: the method is left out when the compiler, following
   names as text, finds a zero.) *)
InitializedValid ==
    Accepted =>
      /\ Valid(Generated, Initialize(Generated, SeesZero(code, Union)))
      /\ \A k \in DOMAIN code.enums :
           InitializeEnum(code, code.enums[k]) \in
             {GoValue(code.consts, code.enums[k].tags[j], {}) : j \in DOMAIN code.enums[k].tags}
=============================================================================
