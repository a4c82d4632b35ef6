----------------------------- MODULE UnionProofs ----------------------------
(***************************************************************************)
(* Why the methods of a generated union agree, for every union the parser  *)
(* can build and the Go compiler accepts, whatever the number of its arms  *)
(* and labels, and for every discriminant.                                 *)
(*                                                                         *)
(* The argument: only the last arm is ever the default (AddFieldBuilds),   *)
(* so a union without default has only arms with labels.  Of the arms with *)
(* a label one comes first, and every switch over all fields selects it    *)
(* (SelectedArm); labels that Go lets stand only once name one arm each    *)
(* (NoneShadowed), so that no other can be accessed.                       *)
(*                                                                         *)
(* The parser adds the arms one by one.  Seen as a behaviour (Parsing),    *)
(* what holds after each of them is an invariant (MethodsFollowParsing).   *)
(***************************************************************************)
EXTENDS UnionMethods, TLAPS

CONSTANT Decl     \* what an arm can declare: its name and its comment

(* A field of a union, its labels numbers, and the part of a union that the
   methods depend on *)
Field == [cases : Seq(Int), hasdefault : BOOLEAN, decl : Decl]
IsUnion(u) == u.fields \in Seq(Field) /\ u.hasdefault \in BOOLEAN

(* Of the fields with a case for n one comes first.  It is kept as the parser
   appends a field, so that no induction over the fields is needed *)
HasFirst(u) ==
    \A n : Labelled(u, n) # {} => \E i \in Labelled(u, n) : \A j \in Labelled(u, n) : i <= j

(* A union as the parser builds it *)
IsBuilt(u) == IsUnion(u) /\ WellBuilt(u) /\ HasFirst(u)

(* The fields of a union are counted from one, and each is a field. *)
LEMMA FieldsTyped ==
    ASSUME NEW u, IsUnion(u)
    PROVE  /\ u.fields \in Seq(Field)
           /\ u.hasdefault \in BOOLEAN
           /\ DOMAIN u.fields = 1 .. Len(u.fields)
           /\ Len(u.fields) \in Nat
           /\ \A i \in DOMAIN u.fields :
                /\ u.fields[i] \in Field
                /\ u.fields[i].hasdefault \in BOOLEAN
                /\ u.fields[i].cases \in Seq(Int)
                /\ i \in Nat /\ i > 0
<1>1. u.fields \in Seq(Field) /\ u.hasdefault \in BOOLEAN
  BY DEF IsUnion
<1>2. DOMAIN u.fields = 1 .. Len(u.fields) /\ Len(u.fields) \in Nat
  BY <1>1
<1>3. ASSUME NEW i \in DOMAIN u.fields
      PROVE  u.fields[i] \in Field /\ i \in Nat /\ i > 0
  BY <1>1, <1>2
<1>4. \A f \in Field : f.hasdefault \in BOOLEAN /\ f.cases \in Seq(Int)
  BY DEF Field
<1> QED
  BY <1>1, <1>2, <1>3, <1>4

(* parse.y:183-203.  The union the parser starts from is well built. *)
THEOREM EmptyUnionWellBuilt == IsBuilt(EmptyUnion)
<1>1. <<>> \in Seq(Field) /\ DOMAIN <<>> = {}
  OBVIOUS
<1>2. EmptyUnion.fields = <<>> /\ EmptyUnion.hasdefault = FALSE
  BY DEF EmptyUnion
<1>3. IsUnion(EmptyUnion) /\ WellBuilt(EmptyUnion)
  BY <1>1, <1>2 DEF IsUnion, WellBuilt
<1>4. \A n : Labelled(EmptyUnion, n) = {}
  BY <1>1, <1>2 DEF Labelled
<1> QED
  BY <1>3, <1>4 DEF IsBuilt, HasFirst

(* parse.y:183-203.  Adding an arm to a well built union either leaves the
   parser as it was and the union well built with that arm at its end, or
   stops the compilation, with an error or out of the slice's range: the
   latter exactly when the union has its default already. *)
THEOREM AddFieldBuilds ==
    ASSUME NEW p, NEW u, IsBuilt(u),
           NEW field \in Field, field.hasdefault \/ field.cases # <<>>
    PROVE  LET r == AddField(p, u, field)
           IN  /\ IsBuilt(r.union)
               /\ ~u.hasdefault => /\ r.p = p
                                   /\ r.union.fields = Append(u.fields, field)
               /\ u.hasdefault => r.union = u
               /\ u.hasdefault /\ {"crash", "failed"} \subseteq DOMAIN p =>
                    r.p.crash = TRUE \/ r.p.failed = TRUE
<1> DEFINE r == AddField(p, u, field)
<1>0. field.hasdefault \in BOOLEAN /\ IsUnion(u) /\ WellBuilt(u) /\ HasFirst(u)
  BY DEF Field, IsBuilt
<1>1. CASE ~u.hasdefault
  <2> DEFINE w == [fields |-> Append(u.fields, field), hasdefault |-> field.hasdefault]
  <2>1. r = [p |-> p, union |-> w]
    BY <1>1 DEF AddField
  <2>2. u.fields \in Seq(Field) /\ Len(u.fields) \in Nat /\ DOMAIN u.fields = 1 .. Len(u.fields)
    BY <1>0, FieldsTyped
  <2>3. /\ w.fields \in Seq(Field)
        /\ Len(w.fields) = Len(u.fields) + 1
        /\ DOMAIN w.fields = 1 .. (Len(u.fields) + 1)
        /\ w.fields[Len(u.fields) + 1] = field
        /\ \A i \in 1 .. Len(u.fields) : w.fields[i] = u.fields[i]
    BY <2>2
  <2>4. IsUnion(w)
    BY <1>0, <2>3 DEF IsUnion
  <2>5. ASSUME NEW i \in DOMAIN w.fields
        PROVE  /\ w.fields[i].hasdefault = (w.hasdefault /\ i = Len(w.fields))
               /\ w.fields[i].hasdefault \/ w.fields[i].cases # <<>>
    <3>1. CASE i = Len(u.fields) + 1
      <4>1. w.fields[i] = field /\ i = Len(w.fields) /\ w.hasdefault = field.hasdefault
        BY <2>3, <3>1
      <4> QED
        BY <1>0, <4>1
    <3>2. CASE i # Len(u.fields) + 1
      <4>1. i \in DOMAIN u.fields /\ i # Len(w.fields)
        BY <2>2, <2>3, <2>5, <3>2
      <4>2. w.fields[i] = u.fields[i]
        BY <2>2, <2>3, <4>1
      <4>3. /\ u.fields[i].hasdefault = FALSE
            /\ u.fields[i].hasdefault \/ u.fields[i].cases # <<>>
        BY <1>0, <1>1, <4>1 DEF WellBuilt
      <4> QED
        BY <4>1, <4>2, <4>3
    <3> QED
      BY <3>1, <3>2
  <2>6. w.fields # <<>>
    <3>1. 1 \in DOMAIN w.fields
      BY <2>2, <2>3
    <3>2. DOMAIN <<>> = {}
      OBVIOUS
    <3> QED
      BY <3>1, <3>2, Zenon
  <2>7. WellBuilt(w)
    BY <2>5, <2>6 DEF WellBuilt
  <2>8. ASSUME NEW n, Labelled(w, n) # {}
        PROVE  \E i \in Labelled(w, n) : \A j \in Labelled(w, n) : i <= j
    <3> DEFINE new == Labelled(w, n)
               old == Labelled(u, n)
    <3>1. ASSUME NEW i \in 1 .. Len(u.fields)
          PROVE  i \in new <=> i \in old
      BY <2>2, <2>3 DEF Labelled
    <3>2. old \subseteq 1 .. Len(u.fields)
      BY <2>2 DEF Labelled
    <3>3. \A j \in new : j \in 1 .. Len(u.fields) \/ j = Len(u.fields) + 1
      BY <2>2, <2>3 DEF Labelled
    <3>4. old # {} => \E i \in old : \A j \in old : i <= j
      BY <1>0 DEF HasFirst
    <3>5. new # {}
      BY <2>8
    <3> HIDE DEF new, old
    <3>6. CASE old # {}
      <4>1. PICK i \in old : \A j \in old : i <= j
        BY <3>4, <3>6
      <4>2. i \in new /\ i \in 1 .. Len(u.fields)
        BY <3>1, <3>2
      <4>3. \A j \in new : i <= j
        BY <2>2, <3>1, <3>3, <4>1, <4>2
      <4> QED
        BY <4>2, <4>3 DEF new
    <3>7. CASE old = {}
      <4>1. \A j \in new : j = Len(u.fields) + 1
        BY <3>1, <3>3, <3>7
      <4>2. \E i \in new : \A j \in new : i <= j
        BY <2>2, <3>5, <4>1
      <4> QED
        BY <4>2 DEF new
    <3> QED
      BY <3>6, <3>7
  <2> HIDE DEF w
  <2>9. IsBuilt(w)
    BY <2>4, <2>7, <2>8 DEF IsBuilt, HasFirst
  <2> QED
    BY <1>1, <2>1, <2>3, <2>9
<1>2. CASE u.hasdefault
  <2>1. CASE field.hasdefault
    <3>1. r = [p |-> Error(p), union |-> u]
      BY <1>2, <2>1 DEF AddField
    <3>2. "failed" \in DOMAIN p => Error(p).failed = TRUE
      BY DEF Error
    <3> QED
      BY <1>2, <3>1, <3>2
  <2>2. CASE ~field.hasdefault
    <3> DEFINE q == [p EXCEPT !.crash = TRUE, !.toks = <<>>]
    <3>1. r = [p |-> q, union |-> u]
      BY <1>2, <2>2 DEF AddField
    <3>2. "crash" \in DOMAIN p => q.crash = TRUE
      OBVIOUS
    <3> HIDE DEF q
    <3> QED
      BY <1>2, <3>1, <3>2
  <2> QED
    BY <1>0, <2>1, <2>2
<1> QED
  BY <1>0, <1>1, <1>2 DEF IsUnion

-----------------------------------------------------------------------------
(* The arm declared for the discriminant n *)
Declared(u, i, n) ==
    IF u.fields[i].hasdefault
    THEN \A j \in DOMAIN u.fields : u.fields[j].hasdefault \/ n \notin Cases(u.fields[j])
    ELSE n \in Cases(u.fields[i])

(* goxdr.go:886-963.  The Go switch selects an arm declared for the
   discriminant, the first of them, and none when there is none. *)
THEOREM SelectedArm ==
    ASSUME NEW u, IsBuilt(u), NEW n
    PROVE  /\ GoSwitch(u, n) \in DOMAIN u.fields \cup {0}
           /\ GoSwitch(u, n) # 0 => Declared(u, GoSwitch(u, n), n)
           /\ \A i \in DOMAIN u.fields :
                Declared(u, i, n) => \/ GoSwitch(u, n) = i
                                     \/ /\ i \in Shadowed(u, n)
                                        /\ GoSwitch(u, n) # 0 /\ GoSwitch(u, n) < i
<1> DEFINE hit == Labelled(u, n)
           dflt == {i \in DOMAIN u.fields : u.fields[i].hasdefault}
<1>0. IsUnion(u) /\ WellBuilt(u) /\ HasFirst(u)
  BY DEF IsBuilt
<1>1. \A i \in DOMAIN u.fields : u.fields[i].hasdefault \in BOOLEAN /\ i \in Nat /\ i > 0
  BY <1>0, FieldsTyped
<1>2. CASE hit # {}
  <2> DEFINE a == CHOOSE i \in hit : \A j \in hit : i <= j
  <2>1. GoSwitch(u, n) = a
    BY <1>2 DEF GoSwitch
  <2>2. a \in hit /\ \A j \in hit : a <= j
    BY <1>0, <1>2 DEF HasFirst
  <2> HIDE DEF a
  <2>3. a \in DOMAIN u.fields /\ Declared(u, a, n)
    BY <2>2 DEF Declared, Labelled
  <2>4. ASSUME NEW i \in DOMAIN u.fields, Declared(u, i, n), a # i
        PROVE  i \in Shadowed(u, n) /\ a < i
    <3>1. ~u.fields[i].hasdefault
      BY <1>1, <1>2, <2>4 DEF Declared, Labelled
    <3>2. i \in hit
      BY <2>4, <3>1 DEF Declared, Labelled
    <3> QED
      BY <1>1, <2>1, <2>2, <2>3, <2>4, <3>2 DEF Shadowed
  <2> QED
    BY <1>1, <2>1, <2>3, <2>4
<1>3. CASE hit = {} /\ dflt # {}
  <2> DEFINE a == CHOOSE i \in dflt : TRUE
  <2>1. GoSwitch(u, n) = a
    BY <1>3 DEF GoSwitch
  <2>2. a \in dflt
    BY <1>3
  <2> HIDE DEF a
  <2>3. a \in DOMAIN u.fields /\ Declared(u, a, n)
    BY <1>1, <1>3, <2>2 DEF Declared, Labelled
  <2>4. ASSUME NEW i \in DOMAIN u.fields, Declared(u, i, n)
        PROVE  a = i
    <3>1. u.fields[i].hasdefault
      BY <1>1, <1>3, <2>4 DEF Declared, Labelled
    <3> QED
      BY <1>0, <2>2, <3>1 DEF WellBuilt
  <2> QED
    BY <2>1, <2>3, <2>4
<1>4. CASE hit = {} /\ dflt = {}
  <2>1. GoSwitch(u, n) = 0
    BY <1>4 DEF GoSwitch
  <2>2. \A i \in DOMAIN u.fields : ~Declared(u, i, n)
    BY <1>1, <1>4 DEF Declared, Labelled
  <2> QED
    BY <2>1, <2>2
<1> QED
  BY <1>2, <1>3, <1>4

(* An arm that is shadowed is declared for the discriminant all the same. *)
LEMMA ShadowedDeclared ==
    ASSUME NEW u, NEW n, NEW i \in Shadowed(u, n)
    PROVE  i \in DOMAIN u.fields /\ Declared(u, i, n) /\ GoSwitch(u, n) # i
BY DEF Shadowed, Labelled, Declared

(* When no label is repeated no arm is shadowed: two arms with a case for
   one discriminant are one. *)
LEMMA NoneShadowed ==
    ASSUME NEW u, IsBuilt(u), NoLabelTwice(u), NEW n
    PROVE  Shadowed(u, n) = {}
<1>1. SUFFICES ASSUME NEW i \in Shadowed(u, n) PROVE FALSE
  OBVIOUS
<1>2. i \in Labelled(u, n) /\ GoSwitch(u, n) # i
  BY DEF Shadowed
<1>3. GoSwitch(u, n) \in Labelled(u, n)
  <2>1. PICK a \in Labelled(u, n) : \A j \in Labelled(u, n) : a <= j
    BY <1>2 DEF IsBuilt, HasFirst
  <2> QED
    BY <1>2, <2>1 DEF GoSwitch
<1> DEFINE a == GoSwitch(u, n)
<1> HIDE DEF a
<1>4. PICK k \in DOMAIN u.fields[i].cases : u.fields[i].cases[k] = n
  BY <1>2 DEF Labelled, Cases
<1>5. PICK m \in DOMAIN u.fields[a].cases : u.fields[a].cases[m] = n
  BY <1>3 DEF Labelled, Cases, a
<1>6. /\ i \in DOMAIN u.fields /\ ~u.fields[i].hasdefault
      /\ a \in DOMAIN u.fields /\ ~u.fields[a].hasdefault
  BY <1>2, <1>3 DEF Labelled, a
<1>7. i = a
  BY <1>4, <1>5, <1>6 DEF NoLabelTwice
<1> QED
  BY <1>2, <1>7 DEF a

(* XdrValid and XdrValidTags are asked of the labels of all fields: a well
   built union without default has no others than those its switch has. *)
LEMMA ValidMeansSelected ==
    ASSUME NEW u, IsBuilt(u), NEW n
    PROVE  /\ Valid(u, n) <=> GoSwitch(u, n) # 0
           /\ ValidTag(u, n) <=> Valid(u, n)
<1>0. /\ IsUnion(u) /\ WellBuilt(u)
      /\ DOMAIN u.fields = 1 .. Len(u.fields) /\ Len(u.fields) \in Nat
      /\ u.fields \in Seq(Field)
      /\ u.hasdefault \in BOOLEAN
      /\ \A i \in DOMAIN u.fields : u.fields[i].hasdefault \in BOOLEAN /\ i # 0
  BY FieldsTyped DEF IsBuilt
<1>1. ValidTag(u, n) <=> Valid(u, n)
  BY DEF ValidTag, Valid, AllLabels
<1>2. CASE u.hasdefault
  <2>1. Len(u.fields) \in DOMAIN u.fields
    BY <1>0, <1>2 DEF WellBuilt
  <2>2. u.fields[Len(u.fields)].hasdefault
    BY <1>0, <1>2, <2>1 DEF WellBuilt
  <2>3. \E i \in DOMAIN u.fields : Declared(u, i, n)
    BY <1>0, <2>1, <2>2 DEF Declared
  <2>4. GoSwitch(u, n) # 0
    BY <1>0, <2>3, SelectedArm
  <2> QED
    BY <1>1, <1>2, <2>4 DEF Valid
<1>3. CASE ~u.hasdefault
  <2>1. \A i \in DOMAIN u.fields : ~u.fields[i].hasdefault
    BY <1>0, <1>3 DEF WellBuilt
  <2>2. Valid(u, n) <=> \E i \in DOMAIN u.fields : Declared(u, i, n)
    BY <1>3, <2>1 DEF Valid, Declared
  <2>3. (\E i \in DOMAIN u.fields : Declared(u, i, n)) <=> GoSwitch(u, n) # 0
    BY <1>0, SelectedArm
  <2> QED
    BY <1>1, <2>2, <2>3
<1> QED
  BY <1>0, <1>2, <1>3

(* goxdr.go:781-963.  XdrValid, XdrValidTags, XdrUnionBody, XdrUnionBodyName
   and XdrRecurse of a generated union choose the same arm for every
   discriminant, one that its accessor returns, or agree that there is none.
   The accessors of other arms refuse the discriminant too, unless a label
   stands twice: then, and only then, an arm with a name is accessed that is
   not the one marshalled. *)
THEOREM MethodsAlwaysAgree ==
    ASSUME NEW u, IsBuilt(u), NEW n
    PROVE  /\ SwitchesAgree(u, n)
           /\ MethodsAgree(u, n) <=> \A i \in Shadowed(u, n) : IsVoid(u.fields[i])
           /\ NoLabelTwice(u) => MethodsAgree(u, n)
<1> DEFINE arm == GoSwitch(u, n)
<1>0. \A i \in DOMAIN u.fields : i \in Nat /\ i > 0
  BY FieldsTyped DEF IsBuilt
<1>1. /\ arm \in DOMAIN u.fields \cup {0}
      /\ arm # 0 => Declared(u, arm, n)
      /\ \A i \in DOMAIN u.fields : Declared(u, i, n) => arm = i \/ i \in Shadowed(u, n)
  BY SelectedArm
<1>2. (Valid(u, n) <=> arm # 0) /\ (ValidTag(u, n) <=> Valid(u, n))
  BY ValidMeansSelected
<1>3. Recurse(u, n) = IF arm = 0 THEN <<"panic">> ELSE BodyName(u, n)
  <2>1. arm = 0 => ~u.hasdefault
    BY <1>2 DEF Valid
  <2>2. CASE arm = 0
    BY <2>1, <2>2 DEF Recurse
  <2>3. CASE arm # 0
    <3>1. arm > 0
      BY <1>0, <1>1, <2>3
    <3> QED
      BY <2>3, <3>1 DEF Recurse, BodyName
  <2> QED
    BY <2>2, <2>3
<1>4. arm = 0 => BodyName(u, n) = <<>>
  BY DEF BodyName
<1>5. \A i \in DOMAIN u.fields : Accessible(u, i, n) <=> Declared(u, i, n)
  BY DEF Accessible, Declared
<1>6. \A i \in DOMAIN u.fields : arm = i => Accessible(u, i, n)
  BY <1>0, <1>1, <1>5
<1>7. SwitchesAgree(u, n)
  BY <1>2, <1>3, <1>4, <1>6 DEF SwitchesAgree
<1>8. ASSUME \A i \in Shadowed(u, n) : IsVoid(u.fields[i])
      PROVE  MethodsAgree(u, n)
  BY <1>1, <1>5, <1>7, <1>8 DEF MethodsAgree
<1>9. ASSUME MethodsAgree(u, n), NEW i \in Shadowed(u, n)
      PROVE  IsVoid(u.fields[i])
  <2>1. i \in DOMAIN u.fields /\ Accessible(u, i, n) /\ arm # i
    BY <1>5, ShadowedDeclared
  <2> QED
    BY <1>9, <2>1 DEF MethodsAgree
<1>10. NoLabelTwice(u) => Shadowed(u, n) = {}
  BY NoneShadowed
<1> QED
  BY <1>7, <1>8, <1>9, <1>10

-----------------------------------------------------------------------------
(* The parser's state and the union it is at work on, through the reductions
   of union_case_spec_list *)
VARIABLES parser, union

ReadArm(field) ==
    LET r == AddField(parser, union, field) IN parser' = r.p /\ union' = r.union

Parsing == /\ union = EmptyUnion
           /\ [][\E field \in Field : /\ field.hasdefault \/ field.cases # <<>>
                                      /\ ReadArm(field)]_<<parser, union>>

(* If Go takes the labels of the union read so far, its methods agree for
   every n when the discriminant is a number; when it is a truth value they
   agree about the arm, and no other arm with a name can be accessed unless
   its label stands in an earlier arm too *)
MethodsFit ==
    \A isbool \in BOOLEAN : GoTakesLabels(union, isbool) =>
      \A n : IF ~isbool THEN MethodsAgree(union, n)
            ELSE /\ SwitchesAgree(union, n)
                 /\ MethodsAgree(union, n) <=>
                      \A i \in Shadowed(union, n) : IsVoid(union.fields[i])

(* parse.y:183-203, goxdr.go:781-963.  Whatever arms the parser has read, and
   whether or not it complained, the methods of the union it has then fit
   each other as far as what Go accepts lets them: always for numbers, and
   for truth values just when no label is repeated for an arm with a name. *)
THEOREM MethodsFollowParsing == Parsing => []MethodsFit
<1> DEFINE Inv == IsBuilt(union)
<1>1. union = EmptyUnion => Inv
  BY EmptyUnionWellBuilt
<1>2. ASSUME Inv, [\E field \in Field : /\ field.hasdefault \/ field.cases # <<>>
                                        /\ ReadArm(field)]_<<parser, union>>
      PROVE  Inv'
  <2>1. CASE UNCHANGED <<parser, union>>
    BY <1>2, <2>1
  <2>2. ASSUME NEW field \in Field, field.hasdefault \/ field.cases # <<>>, ReadArm(field)
        PROVE  Inv'
    <3> DEFINE r == AddField(parser, union, field)
    <3>1. union' = r.union
      BY <2>2 DEF ReadArm
    <3>2. IsBuilt(r.union)
      BY <1>2, <2>2, AddFieldBuilds
    <3> HIDE DEF r
    <3> QED
      BY <3>1, <3>2
  <2> QED
    BY <1>2, <2>1, <2>2
<1>3. Inv => MethodsFit
  BY MethodsAlwaysAgree DEF MethodsFit, GoTakesLabels
<1> QED
  BY <1>1, <1>2, <1>3, PTL DEF Parsing

(* goxdr.go:965-993.  The discriminant of a new union selects an arm, as
   long as the compiler takes no label for zero that is not. *)
THEOREM FreshUnionValid ==
    ASSUME NEW u, IsUnion(u), WellBuilt(u), u.fields # <<>>,
           NEW seeszero \in BOOLEAN, seeszero => 0 \in AllLabels(u)
    PROVE  Valid(u, Initialize(u, seeszero))
<1>1. CASE u.hasdefault
  BY <1>1 DEF Valid
<1>2. CASE ~u.hasdefault /\ 0 \in AllLabels(u)
  BY <1>2 DEF Valid, Initialize, AllLabels
<1>3. CASE ~u.hasdefault /\ 0 \notin AllLabels(u)
  <2>1. 1 \in DOMAIN u.fields /\ u.fields[1].cases \in Seq(Int)
    BY FieldsTyped
  <2>2. u.fields[1].cases # <<>>
    BY <1>3, <2>1 DEF WellBuilt
  <2>3. 1 \in DOMAIN u.fields[1].cases
    BY <2>1, <2>2
  <2>4. u.fields[1].cases[1] \in Cases(u.fields[1])
    BY <2>3 DEF Cases
  <2>5. Initialize(u, seeszero) = u.fields[1].cases[1]
    BY <1>3 DEF Initialize
  <2> QED
    BY <2>1, <2>4, <2>5 DEF Valid
<1> QED
  BY <1>1, <1>2, <1>3
=============================================================================
