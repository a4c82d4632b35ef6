---------------------------- MODULE UnionMethods ----------------------------
(***************************************************************************)
(* The arms of a union as cmd/goxdr/parse.y collects them, and the methods *)
(* cmd/goxdr/goxdr.go generates to choose among them for a discriminant n. *)
(* The generated code is modelled by what it does.  By then Go has made a  *)
(* number of every label, so the cases of a field are numbers here; the    *)
(* names they come from are in UnionDecl.                                  *)
(***************************************************************************)
EXTENDS Integers, Sequences

Error(p) == [p EXCEPT !.failed = TRUE]

EmptyUnion == [fields |-> <<>>, hasdefault |-> FALSE]

(* Faulty: the union forgets that an arm it met is the default. *)
ForgetDefault(p, u, field) ==
    IF ~u.hasdefault
    THEN [p |-> p, union |-> [u EXCEPT !.fields = Append(@, field)]]
    ELSE [p |-> Error(p), union |-> u]

(* union_case_spec_list: adding an arm.  When the default came before, the
   code reads the slice at its length, which is out of range *)
AddField(p, u, field) ==
    IF ~u.hasdefault
    THEN [p |-> p, union |-> [fields |-> Append(u.fields, field),
                              hasdefault |-> field.hasdefault]]
    ELSE IF ~field.hasdefault
    THEN [p |-> [p EXCEPT !.crash = TRUE, !.toks = <<>>], union |-> u]
    ELSE [p |-> Error(p), union |-> u]

(* Only the last arm can be the default, the union knows whether it is, and
   every other arm has a label *)
WellBuilt(u) ==
    /\ \A i \in DOMAIN u.fields :
         /\ u.fields[i].hasdefault = (u.hasdefault /\ i = Len(u.fields))
         /\ u.fields[i].hasdefault \/ u.fields[i].cases # <<>>
    /\ u.hasdefault => u.fields # <<>>

-----------------------------------------------------------------------------
(* join: the constants in the cases of a field *)
Cases(f) == {f.cases[k] : k \in DOMAIN f.cases}

(* The fields with a case for n.  A field written "default:" puts none of
   its labels into the switches *)
Labelled(u, n) ==
    {i \in DOMAIN u.fields : ~u.fields[i].hasdefault /\ n \in Cases(u.fields[i])}

(* No label stands twice in the union *)
NoLabelTwice(u) ==
    \A i, j \in DOMAIN u.fields :
      ~u.fields[i].hasdefault /\ ~u.fields[j].hasdefault =>
        \A k \in DOMAIN u.fields[i].cases, m \in DOMAIN u.fields[j].cases :
          u.fields[i].cases[k] = u.fields[j].cases[m] => i = j /\ k = m

(* Go refuses two equal constants in a switch over numbers, but lets TRUE
   and FALSE stand in as many cases as there are.  _XdrTags, whose keys are
   calls, it always takes *)
GoTakesLabels(u, isbool) == isbool \/ NoLabelTwice(u)

(* Go: the field that a switch over the fields selects, the first with a
   case for n, or the default; 0 when none *)
GoSwitch(u, n) ==
    LET hit == Labelled(u, n)
        dflt == {i \in DOMAIN u.fields : u.fields[i].hasdefault}
    IN  CASE hit # {} -> CHOOSE i \in hit : \A j \in hit : i <= j
          [] hit = {} /\ dflt # {} -> CHOOSE i \in dflt : TRUE
          [] OTHER -> 0

(* isVoid *)
IsVoid(f) == f.decl.id = <<>>

(* The accessor of arm i returns the arm instead of panicking *)
Accessible(u, i, n) ==
    IF u.fields[i].hasdefault
    THEN \A j \in DOMAIN u.fields : u.fields[j].hasdefault \/ n \notin Cases(u.fields[j])
    ELSE n \in Cases(u.fields[i])

(* XdrValid *)
Valid(u, n) == u.hasdefault \/ \E i \in DOMAIN u.fields : n \in Cases(u.fields[i])

(* XdrValidTags: nil, here every n, when there is a default *)
AllLabels(u) == UNION {Cases(u.fields[i]) : i \in DOMAIN u.fields}
ValidTag(u, n) == u.hasdefault \/ n \in AllLabels(u)

(* XdrUnionBody and XdrUnionBodyName: the name of the arm, none if void *)
BodyName(u, n) ==
    LET i == GoSwitch(u, n) IN IF i = 0 THEN <<>> ELSE u.fields[i].decl.id

(* XdrRecurse: the arm it marshals after the discriminant, or a panic *)
Recurse(u, n) ==
    LET i == GoSwitch(u, n)
    IN  IF i > 0 THEN u.fields[i].decl.id
        ELSE IF u.hasdefault THEN <<>> ELSE <<"panic">>

(* XdrInitialize of a union: the discriminant of a new one.  The method is
   left out, and the discriminant zero, when the compiler takes a label for
   zero *)
Initialize(u, seeszero) ==
    IF u.hasdefault \/ seeszero \/ 0 \in AllLabels(u) THEN 0 ELSE u.fields[1].cases[1]

-----------------------------------------------------------------------------
(* What the methods that switch over all fields owe each other: for the
   discriminant n all of them mean the arm that the switch selects, and its
   accessor returns it, or all of them that there is none *)
SwitchesAgree(u, n) ==
    LET arm == GoSwitch(u, n)
    IN  /\ Valid(u, n) <=> arm # 0
        /\ ValidTag(u, n) <=> arm # 0
        /\ Recurse(u, n) = IF arm = 0 THEN <<"panic">> ELSE BodyName(u, n)
        /\ arm = 0 => BodyName(u, n) = <<>>
        /\ \A i \in DOMAIN u.fields : arm = i /\ ~IsVoid(u.fields[i]) => Accessible(u, i, n)

(* ... and what the accessors, each with a switch of its own, owe them: no
   other arm can be accessed *)
MethodsAgree(u, n) ==
    /\ SwitchesAgree(u, n)
    /\ \A i \in DOMAIN u.fields :
         ~IsVoid(u.fields[i]) /\ Accessible(u, i, n) => GoSwitch(u, n) = i

(* The arms with a case for n that the switch over all fields does not
   reach, since an arm before them has one too *)
Shadowed(u, n) == Labelled(u, n) \ {GoSwitch(u, n)}
=============================================================================
