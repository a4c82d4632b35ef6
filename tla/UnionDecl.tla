------------------------------ MODULE UnionDecl -----------------------------
(***************************************************************************)
(* From the tokens of a file to the methods of a generated union: the      *)
(* actions of cmd/goxdr/parse.y for constants, enums and unions, and what  *)
(* the emitter in cmd/goxdr/goxdr.go makes of them.                        *)
(*                                                                         *)
(* A parser state p has the tokens not yet used (toks), the tables         *)
(* newsymbols (names) and SymbolMap (map), the definitions met (consts,    *)
(* enums, unions), and whether an error was reported (failed) or the       *)
(* parser ran off a slice (crash).  A file that is not of the grammar is   *)
(* failed and its remaining tokens are dropped, as yyParse returns.  Arms  *)
(* are of type int or bool, without array or pointer: the shape of an      *)
(* arm's type does not matter to the selection of arms.                    *)
(*                                                                         *)
(* The arms and the methods that choose among them are in UnionMethods.    *)
(* What the Go compiler accepts and computes is external: GoValue and      *)
(* GoAccepts.                                                              *)
(***************************************************************************)
EXTENDS UnionMethods, SequencesExt

NoDecl == [id |-> <<>>, comment |-> <<>>]

NonEmpty(a, b) == IF a # <<>> THEN a ELSE b

NewParser(tokens, bad) ==
    [toks |-> tokens, names |-> {}, map |-> <<>>, consts |-> <<>>,
     enums |-> <<>>, unions |-> <<>>, failed |-> bad, crash |-> FALSE]

(* The type and the value of token k, counted from 1 *)
Type(p, k)  == IF k <= Len(p.toks) THEN p.toks[k].type ELSE "EOF"
Value(p, k) == p.toks[k].value

Shift(p, k) == [p EXCEPT !.toks = SubSeq(@, k + 1, Len(@))]
SyntaxError(p) == [Error(p) EXCEPT !.toks = <<>>]

Sees(p, types) == \A k \in DOMAIN types : Type(p, k) \in types[k]

Known(p, name) == \E k \in DOMAIN p.map : p.map[k].name = name

(* newid: Checkdup *)
Checkdup(p, name) ==
    IF name \in p.names THEN Error(p) ELSE [p EXCEPT !.names = @ \cup {name}]

(* SymbolMap[name] = sym; a type has no value there *)
Enter(p, name, isconst, value) ==
    [p EXCEPT !.map = <<[name |-> name, const |-> isconst, val |-> value]>> \o
                      SelectSeq(@, LAMBDA e : e.name # name)]

Constants(p, name, value) ==
    [p EXCEPT !.consts = Append(@, [name |-> name, val |-> value])]

-----------------------------------------------------------------------------
(* union_case_list: the labels of an arm, field so far *)
RECURSIVE CaseList(_, _)
CaseList(p, field) ==
    CASE Sees(p, <<{"T_CASE"}, {"T_ID", "T_NUM"}, {":"}>>) ->
           CaseList(Shift(p, 3), [field EXCEPT !.cases = Append(@, Value(p, 2))])
      [] Sees(p, <<{"T_DEFAULT"}, {":"}>>) ->
           CaseList(IF field.hasdefault THEN Error(Shift(p, 2)) ELSE Shift(p, 2),
                    [field EXCEPT !.hasdefault = TRUE])
      [] OTHER -> [p |-> p, field |-> field]

(* union_decl: void, or a declaration with its comment *)
UnionDeclaration(p) ==
    CASE Sees(p, <<{"T_VOID"}, {";"}>>) -> [p |-> Shift(p, 2), decl |-> NoDecl]
      [] Sees(p, <<{"T_INT", "T_BOOL"}, {"T_ID"}, {";"}>>) ->
           [p |-> Shift(p, 3),
            decl |-> [id |-> Value(p, 2),
                      comment |-> NonEmpty(p.toks[1].block, p.toks[3].line)]]
      [] OTHER -> [p |-> SyntaxError(p), decl |-> NoDecl]

RECURSIVE CaseSpecs(_, _)
CaseSpecs(p, u) ==
    LET c == CaseList(p, [cases |-> <<>>, hasdefault |-> FALSE, decl |-> NoDecl])
        d == UnionDeclaration(c.p)
        r == AddField(d.p, u, [c.field EXCEPT !.decl = d.decl])
    IN  IF Type(p, 1) \notin {"T_CASE", "T_DEFAULT"} THEN [p |-> p, union |-> u]
        ELSE CaseSpecs(r.p, r.union)

(* def_union *)
UnionHead == <<{"T_UNION"}, {"T_ID"}, {"T_SWITCH"}, {"("}, {"T_INT", "T_BOOL", "T_ID"},
               {"T_ID"}, {")"}, {"{"}, {"T_CASE", "T_DEFAULT"}>>
DefUnion(p) ==
    LET s == CaseSpecs(Shift(Checkdup(p, Value(p, 2)), 8), EmptyUnion)
        u == [id |-> Value(p, 2), tagtype |-> Type(p, 5), tagname |-> Value(p, 5),
              fields |-> s.union.fields, hasdefault |-> s.union.hasdefault]
    IN  CASE s.p.crash -> s.p
          [] ~s.p.crash /\ Sees(s.p, <<{"}"}, {";"}>>) ->
               Enter([Shift(s.p, 2) EXCEPT !.unions = Append(@, u)], u.id, FALSE, <<>>)
          [] OTHER -> SyntaxError(s.p)

(* enum_tag_list.  A tag without a value is numbered by its place, "iota",
   and is not entered into SymbolMap *)
RECURSIVE EnumTags(_, _)
EnumTags(p, tags) ==
    LET name == Value(p, 1)
        valued == Sees(p, <<{"T_ID"}, {"="}, {"T_ID", "T_NUM"}>>)
        value == IF valued THEN Value(p, 3) ELSE <<"iota", Len(tags)>>
        q == Constants(Checkdup(p, name), name, value)
        r == IF valued THEN Shift(Enter(q, name, TRUE, value), 3) ELSE Shift(q, 1)
    IN  CASE Type(p, 1) # "T_ID" -> [p |-> SyntaxError(p), tags |-> tags]
          [] Type(p, 1) = "T_ID" /\ Sees(r, <<{","}, {"T_ID"}>>) ->
               EnumTags(Shift(r, 1), Append(tags, name))
          [] OTHER -> [p |-> IF Type(r, 1) = "," THEN Shift(r, 1) ELSE r,
                       tags |-> Append(tags, name)]

DefEnum(p) ==
    LET t == EnumTags(Shift(Checkdup(p, Value(p, 2)), 3), <<>>)
    IN  IF ~Sees(t.p, <<{"}"}, {";"}>>) THEN SyntaxError(t.p)
        ELSE Enter([Shift(t.p, 2) EXCEPT !.enums = Append(@, [id |-> Value(p, 2), tags |-> t.tags])],
                   Value(p, 2), FALSE, <<>>)

ConstDef == <<{"T_CONST"}, {"T_ID"}, {"="}, {"T_ID", "T_NUM"}, {";"}>>
DefConst(p) ==
    Enter(Constants(Checkdup(Shift(p, 5), Value(p, 2)), Value(p, 2), Value(p, 4)),
          Value(p, 2), TRUE, Value(p, 4))

(* yyParse *)
RECURSIVE Parse(_)
Parse(p) ==
    CASE p.toks = <<>> -> p
      [] p.toks # <<>> /\ Sees(p, ConstDef) -> Parse(DefConst(p))
      [] p.toks # <<>> /\ Sees(p, <<{"T_ENUM"}, {"T_ID"}, {"{"}>>) -> Parse(DefEnum(p))
      [] p.toks # <<>> /\ Sees(p, UnionHead) -> Parse(DefUnion(p))
      [] OTHER -> SyntaxError(p)

-----------------------------------------------------------------------------
(* strconv.ParseUint and the Go compiler on the numerals of the model *)
Numeral == [n0 |-> <<"0">>, n1 |-> <<"1">>, h0 |-> <<"0", "x", "0">>, m1 |-> <<"-", "1">>]
NumeralValue(v) == CASE v = Numeral.n0 -> 0 [] v = Numeral.n1 -> 1
                     [] v = Numeral.h0 -> 0 [] v = Numeral.m1 -> -1
                     [] v = <<"T">> -> 1 [] v = <<"F">> -> 0
                     [] OTHER -> -99

Unknown == -99

(* The value Go gives to a name or a numeral: Unknown if it is not defined
   or defined by itself *)
RECURSIVE GoValue(_, _, _)
GoValue(consts, v, seen) ==
    LET def == {k \in DOMAIN consts : consts[k].name = v}
        val == consts[CHOOSE k \in def : TRUE].val
    IN  IF def = {} THEN NumeralValue(v)
        ELSE IF v \in seen THEN Unknown
        ELSE IF val[1] = "iota" THEN val[2]
        ELSE GoValue(consts, val, seen \cup {v})

(* get_bound: follows the constants of SymbolMap until a name comes back,
   and returns what it stopped at, 0 when that is a numeral for it *)
RECURSIVE Follow(_, _, _)
Follow(map, v, loop) ==
    LET def == {k \in DOMAIN map : map[k].name = v /\ map[k].const}
    IN  IF v \in loop \/ def = {} THEN v
        ELSE Follow(map, map[CHOOSE k \in def : TRUE].val, loop \cup {v})

(* Faulty: the error of ParseUint, which comes with a zero, is ignored. *)
ErrorIsZero(map, v) == Follow(map, v, {}) # Numeral.n1

IsZero(map, v) == Follow(map, v, {}) \in {Numeral.n0, Numeral.h0}

IsFalse(map, v) == Follow(map, v, {}) = <<"F">>

-----------------------------------------------------------------------------
(* The union with the numbers Go gives to its labels, as its methods have it *)
Compiled(consts, u) ==
    [u EXCEPT !.fields =
       [i \in DOMAIN @ |-> [@[i] EXCEPT !.cases =
          [k \in DOMAIN @ |-> GoValue(consts, @[k], {})]]]]

(* Go refuses a constant without a value, a label it does not know, a label
   twice unless it is a truth value, and two tags of an enum with one value *)
GoAccepts(p) ==
    /\ \A k \in DOMAIN p.consts : GoValue(p.consts, p.consts[k].name, {}) # Unknown
    /\ \A e \in DOMAIN p.enums : \A j, k \in DOMAIN p.enums[e].tags :
         j # k => GoValue(p.consts, p.enums[e].tags[j], {}) # GoValue(p.consts, p.enums[e].tags[k], {})
    /\ \A k \in DOMAIN p.unions :
         LET u == Compiled(p.consts, p.unions[k])
         IN  /\ GoTakesLabels(u, u.tagtype = "T_BOOL")
             /\ \A i \in DOMAIN u.fields :
                  Unknown \in Cases(u.fields[i]) => u.fields[i].hasdefault

(* A label of the union that the compiler, following names as text, takes
   for zero: XdrInitialize is left out *)
SeesZero(p, u) ==
    \E i \in DOMAIN u.fields : \E k \in DOMAIN u.fields[i].cases :
       LET label == u.fields[i].cases[k] IN IsZero(p.map, label) \/ IsFalse(p.map, label)

(* XdrInitialize of an enum *)
InitializeEnum(p, e) ==
    IF \E k \in DOMAIN e.tags :
         IsZero(p.map, e.tags[k]) \/ GoValue(p.consts, e.tags[k], {}) = 0
    THEN 0 ELSE GoValue(p.consts, e.tags[1], {})
=============================================================================
