----------------------------- MODULE MCCompiler -----------------------------
(* Files of up to MaxPieces pieces, and unions of up to three arms. *)
EXTENDS Compiler

CONSTANT MaxPieces

Piece == {Tok(<<"a">>), Tok(<<";">>), Tok(<<"-", "1">>), Space, NewLine,
          [kind |-> "space", chars |-> <<"\t">>],
          [kind |-> "line",  chars |-> <<"/", "/", "y", "\n">>],
          [kind |-> "block", chars |-> <<"/", "*", "y", "*", "/">>],
          [kind |-> "multi", chars |-> <<"/", "*", "\n", "*", "/">>],
          [kind |-> "open",  chars |-> <<"/", "*">>],
          [kind |-> "raw",   chars |-> <<"%", "a", "\n">>]}

(* Two words in a row are one word, a line for Go begins in column 0, and
   nothing is known after a comment that is not closed *)
WellFormed(s) ==
    /\ \A k \in 1 .. Len(s) - 1 :
         /\ s[k].chars \in {<<"-", "1">>, <<"a">>} => s[k+1].kind # "tok" \/ s[k+1].chars = <<";">>
         /\ s[k].kind # "open"
         /\ s[k+1].kind = "raw" => s[k].kind \in {"nl", "line", "raw"}

Quiet == {p \in Piece : p.kind \notin {"open", "raw"} /\ p.chars \notin {<<"-", "1">>, <<";">>}}
Texts == UNION {[1 .. n -> Piece] : n \in 1 .. MaxPieces} \cup [1 .. MaxPieces + 1 -> Quiet]
MCLayouts == LET T == {t \in Texts : WellFormed(t)}
             IN  {t \o <<NewLine>> : t \in T} \cup {t \in T : Len(t) <= 3}

A == <<"a">>
Z == <<"z">>
Const(n, v) == [name |-> n, val |-> v]
Environments ==
    {<<Const(A, Numeral.h0)>>, <<Const(A, Numeral.m1)>>,
     <<Const(Z, Numeral.n1), Const(A, Z)>>, <<Const(A, Z), Const(Z, Numeral.n0)>>,
     <<Const(A, Z), Const(Z, A)>>, <<Const(A, Numeral.n1), Const(A, Numeral.n0)>>}
Enums == {<<Const(A, <<>>), Const(Z, <<>>)>>, <<Const(A, Numeral.n1), Const(Z, <<>>)>>,
          <<Const(Z, Numeral.n1)>>, <<Const(A, Numeral.m1), Const(Z, A)>>,
          <<Const(A, Numeral.n1), Const(Z, Numeral.n0)>>}

Label == {A, Numeral.n0, Numeral.n1, Default}
Comment(i) == [kind |-> "block", chars |-> <<"/", "*", <<"x", "y", "z">>[i], "*", "/">>]
AnArm(i, labels, void, place) ==
    [labels |-> labels, place |-> place, comment |-> Comment(i),
     name |-> IF void THEN <<>> ELSE <<"f", <<"x", "y", "z">>[i]>>]
ArmsAt(i, most, places) ==
    {AnArm(i, ls, v, pl) : ls \in UNION {[1 .. n -> Label] : n \in 1 .. most},
                     v \in BOOLEAN, pl \in places}

OneArm   == {<<x>> : x \in ArmsAt(1, 2, {"above", "after"})}
TwoArms  == {<<x, y>> : x \in ArmsAt(1, 2, {"above"}), y \in ArmsAt(2, 1, {"after"})}
ThreeArms == {<<x, y, z>> : x \in ArmsAt(1, 1, {"after"}), y \in ArmsAt(2, 1, {"above"}),
                            z \in ArmsAt(3, 1, {"above"})}

Declaration(c, t, type, arms) == [consts |-> c, tags |-> t, tagtype |-> type, arms |-> arms]
BoolArms == {<<AnArm(1, <<x>>, FALSE, "after"), AnArm(2, <<y>>, v, "above")>> :
               x, y \in {<<"T">>, <<"F">>, Default}, v \in BOOLEAN}
       \cup {<<AnArm(1, <<x>>, v, "after")>> : x \in {<<"T">>, <<"F">>, Default}, v \in BOOLEAN}
MCDecls == {Declaration(c, <<>>, <<"i">>, a) : c \in Environments, a \in OneArm}
      \cup {Declaration(<<Const(A, Numeral.m1)>>, <<>>, <<"i">>, a) : a \in TwoArms \cup ThreeArms}
      \cup {Declaration(<<Const(Z, Numeral.n1), Const(A, Z)>>, <<>>, <<"i">>, a) : a \in TwoArms}
      \cup {Declaration(<<>>, t, <<"t">>, a) : t \in Enums,
              a \in {b \in OneArm \cup TwoArms : Len(b[1].labels) = 1}}
      \cup {Declaration(<<>>, <<>>, <<"b">>, a) : a \in BoolArms}
=============================================================================
