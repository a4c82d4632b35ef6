------------------------------- MODULE MCXdrCodec -------------------------------
(***************************************************************************)
(* XdrCodec for five types, with values at and over their bounds.          *)
(***************************************************************************)
EXTENDS XdrJson

U32 == [kind |-> "u32"]
Boolean == [kind |-> "bool"]
U64 == [kind |-> "u64"]
String(n) == [kind |-> "string", bound |-> n]
Vec(T, n) == [kind |-> "vec", elem |-> T, bound |-> n]
ArmOf(tags, T) == [cases |-> tags, type |-> T]

\* union switch (unsigned) { case 0: string s<1>; case 1, 2: string t<2>; }
Strings ==
  [kind |-> "union", tag |-> U32, default |-> None,
   arms |-> {ArmOf({0}, String(1)), ArmOf({1, 2}, String(2))}]

\* union switch (bool) { case TRUE: string s<2>; case FALSE: void; } v<2>
Options ==
  Vec([kind |-> "union", tag |-> Boolean, default |-> None,
       arms |-> {ArmOf({1}, String(2)), ArmOf({0}, Void)}], 2)

\* struct { opaque o[3]; union switch (unsigned) { case 0: void;
\*          default: bool *p; } }
Record ==
  [kind |-> "struct", hidden |-> FALSE,
   fields |-> <<[kind |-> "opaque", size |-> 3],
                [kind |-> "union", tag |-> U32,
                 default |-> [kind |-> "ptr", elem |-> Boolean],
                 arms |-> {ArmOf({0}, Void)}]>>]

\* unsigned hyper *p[2]
Array == [kind |-> "array", size |-> 2, elem |-> [kind |-> "ptr", elem |-> U64]]

\* union switch (unsigned) { case 1: TransactionV1Envelope v1; } where the
\* envelope is a struct { unsigned n<2>; bool b; }
Version ==
  [kind |-> "union", tag |-> U32, default |-> None,
   arms |-> {ArmOf({1}, [kind |-> "struct", hidden |-> TRUE, fields |-> <<Vec(U32, 2), Boolean>>])}]

MCTypes == {Strings, Options, Record, Array, Version}

All(s) == [len |-> Len(s), back |-> s]
Str(tag, s) == [tag |-> tag, u |-> <<GoType(String(0)), s>>]
NoArm(tag) == [tag |-> tag, u |-> <<>>]

\* What a program may set them to: the third tag has no arm.
MCValues(T) ==
  CASE T = Strings -> {Str(0, <<1>>), Str(1, <<1, 34>>), Str(0, <<34, 65>>), Str(2, <<34, 65>>),
                       NoArm(2), NoArm(3)}
    [] T = Options -> {All(<<>>),
                       All(<<Str(1, <<1, 3>>)>>),
                       All(<<NoArm(0), Str(1, <<34>>)>>),
                       All(<<NoArm(0), NoArm(0), NoArm(0)>>)}
    [] T = Record  -> {<<<<1, 2, 3>>, NoArm(0)>>,
                       <<<<0, 0, 1>>, NoArm(1)>>,
                       <<<<3, 0, 0>>, [tag |-> 3, u |-> <<[kind |-> "ptr", elem |-> Boolean],
                                                        <<1>>>>]>>}
    [] T = Version -> {[tag |-> 1, u |-> <<GoType(Arm(T, 1)), <<All(ns), 1>>>>] :
                         ns \in {<<>>, <<999999>>, <<1000000>>}}
    [] T = Array   -> {All(<<<<>>, <<>>>>), All(<<<<>>, <<<<0, 1>>>>>>), All(<<<<<<1, 0>>>>, <<>>>>)}

MCBytes == {0, 1, 3}
=============================================================================
