------------------------------- MODULE XdrJson -------------------------------
(***************************************************************************)
(* cmd/gorpc/jsonxdr.go: a value of XdrCodec written as JSON and read back *)
(* into a new variable of its type.                                        *)
(*                                                                         *)
(* A JSON text is modelled by what json.Unmarshal makes of it: a record    *)
(* with the kind of value in j and its contents in v.  An object is a      *)
(* sequence of members <<name, JSON>>, and an array the same with no       *)
(* names.  The layout of the text is left out.                             *)
(*                                                                         *)
(* A struct type whose field hidden is TRUE stands for those whose names   *)
(* HideFieldName hides; a union's arm is named "arm", so it is the arm of  *)
(* a union that is hidden.                                                 *)
(***************************************************************************)
EXTENDS XdrCodec, SequencesExt

Null       == [j |-> "null", v |-> 0]
Num(n)     == [j |-> "number", v |-> n]
Truth(b)   == [j |-> "truth", v |-> b]
Quoted(x)  == [j |-> "string", v |-> x]
Arr(ms)    == [j |-> "array", v |-> ms]
Obj(ms)    == [j |-> "object", v |-> ms]

Hidden(T) == T.kind = "struct" /\ T.hidden

FieldName(k) == <<"a", "b", "c">>[k]

(* Bytes that %q writes as JSON does: it has no \x, \a and \v *)
JsonBytes == {8, 9, 10, 12, 13} \cup 32 .. 126

-----------------------------------------------------------------------------
(* XdrToJson.  The result is the members that Marshal prints, and err, or
   whether the text is JSON at all. *)
Prints(ms) == [err |-> "none", json |-> TRUE, ms |-> ms]
Join(a, b) == IF a.err # "none" THEN a
              ELSE [err |-> b.err, json |-> a.json /\ b.json, ms |-> a.ms \o b.ms]
Wrap(name, r, Con(_)) == [r EXCEPT !.ms = <<<<name, Con(r.ms)>>>>]

RECURSIVE Members(_, _, _)
Members(T, name, v) ==
  LET Each(n, Of(_)) == FoldLeftDomain(LAMBDA r, k : Join(r, Of(k)), Prints(<<>>), [k \in 1 .. n |-> k])
      Elems  == Each(v.len, LAMBDA k : Members(T.elem, "[", v.back[k]))
      Fields == Each(Len(v), LAMBDA k : Members(T.fields[k], FieldName(k), v[k]))
      arm    == Arm(T, v.tag)
      Body   == Join(Members(T.tag, "tag", v.tag),
                     CASE arm.kind = "none" -> [err |-> "XdrError", json |-> TRUE, ms |-> <<>>]
                       [] arm.kind = "void" -> Prints(<<>>)
                       [] OTHER -> Members(arm, "arm", Access(T, arm, v)))
  IN CASE T.kind = "u32"    -> Prints(<<<<name, Num(v)>>>>)
       [] T.kind = "bool"   -> Prints(<<<<name, Truth(v)>>>>)
       [] T.kind = "u64"    -> Prints(<<<<name, Quoted(v)>>>>)
       [] T.kind = "string" ->
            [Prints(<<<<name, Quoted(v)>>>>) EXCEPT !.json = \A k \in 1 .. Len(v) : v[k] \in JsonBytes]
       [] T.kind = "opaque" -> Prints(<<<<name, Quoted(v)>>>>)
       [] T.kind = "ptr"    -> IF v = <<>> THEN Prints(<<<<name, Null>>>>)
                               ELSE Members(T.elem, name, v[1])
       [] T.kind = "vec"    ->
            IF v.len > T.bound THEN [err |-> "XdrError", json |-> TRUE, ms |-> <<>>]
            ELSE Wrap(name, Elems, Arr)
       [] T.kind = "array"  -> Wrap(name, Elems, Arr)
       [] T.kind = "struct" -> IF Hidden(T) THEN Fields ELSE Wrap(name, Fields, Obj)
       [] T.kind = "union"  -> Wrap(name, Body, Obj)

(* What XdrToJson and then json.Unmarshal, whose error is ignored, return *)
ToJson(T, v) ==
  LET r == Members(T, "", v)
  IN [err |-> r.err, obj |-> IF r.err = "none" /\ r.json THEN r.ms[1][2] ELSE Null]

-----------------------------------------------------------------------------
(* Faulty: an element of an array is not taken from it. *)
Peek(obj, name) ==
  CASE name = "" -> [err |-> "none", val |-> obj, obj |-> obj]
    [] name = "[" -> IF obj.v = <<>> THEN [err |-> "XdrError", val |-> Null, obj |-> obj]
                     ELSE [err |-> "none", val |-> obj.v[1][2], obj |-> obj]
    [] OTHER ->
       LET found == {k \in DOMAIN obj.v : obj.v[k][1] = name}
       IN [err |-> "none", obj |-> obj,
           val |-> IF found = {} THEN Null ELSE obj.v[CHOOSE k \in found : TRUE][2]]

(* jsonIn.get: the value, and what j.obj is afterwards.  The type assertions
   hold for what ToJson wrote *)
Get(obj, name) ==
  CASE name = "" -> [err |-> "none", val |-> obj, obj |-> obj]
    [] name = "[" -> IF obj.v = <<>> THEN [err |-> "XdrError", val |-> Null, obj |-> obj]
                     ELSE [err |-> "none", val |-> obj.v[1][2], obj |-> [obj EXCEPT !.v = Tail(@)]]
    [] OTHER ->
       LET found == {k \in DOMAIN obj.v : obj.v[k][1] = name}
       IN [err |-> "none", obj |-> obj,
           val |-> IF found = {} THEN Null ELSE obj.v[CHOOSE k \in found : TRUE][2]]

(* A number is read as a float64, and printed with %v for Sscan to read:
   from a million on it has an exponent, and Sscan stops before that *)
RECURSIVE FirstDigit(_)
FirstDigit(n) == IF n < 10 THEN n ELSE FirstDigit(n \div 10)
Sscan(n) == IF n < 1000000 THEN n ELSE FirstDigit(n)

Read(e, v, obj) == [err |-> e, val |-> v, obj |-> obj]

RECURSIVE FromJson(_, _, _, _), FromElems(_, _, _, _), FromFields(_, _, _, _)

(* Elements k to n of a vector or array *)
FromElems(T, v, obj, k) ==
  IF k > T.n THEN Read("none", v, obj)
  ELSE LET w == IF k > v.len THEN Grow(T, v) ELSE v
           r == FromJson(T.elem, "[", w.back[k], obj)
       IN IF r.err # "none" THEN Read(r.err, v, obj)
          ELSE FromElems(T, [w EXCEPT !.back[k] = r.val], r.obj, k + 1)

FromFields(T, v, obj, k) ==
  IF k > Len(T.fields) THEN Read("none", v, obj)
  ELSE LET r == FromJson(T.fields[k], FieldName(k), v[k], obj)
       IN IF r.err # "none" THEN Read(r.err, v, obj)
          ELSE FromFields(T, [v EXCEPT ![k] = r.val], r.obj, k + 1)

FromUnion(T, old, obj) ==
  LET tag == FromJson(T.tag, "tag", old.tag, obj)
      v == [old EXCEPT !.tag = tag.val]
      arm == Arm(T, tag.val)
      body == FromJson(arm, "arm", Access(T, arm, v), tag.obj)
  IN CASE tag.err # "none" -> Read(tag.err, v, obj)
       [] tag.err = "none" /\ arm.kind = "none" -> Read("XdrError", v, obj)
       [] tag.err = "none" /\ arm.kind = "void" -> Read("none", v, obj)
       [] OTHER -> Read(body.err, [v EXCEPT !.u = <<GoType(arm), body.val>>], obj)

(* jsonIn.Marshal: obj is j.obj.  A pointer that is present looks its name
   up a second time for what it points to *)
FromJson(T, name, old, obj) ==
  LET g == Get(obj, name)
      jval == IF Hidden(T) THEN obj ELSE g.val
      target == FromJson(T.elem, name, IF old = <<>> THEN Zero(T.elem) ELSE old[1], g.obj)
      elems(n) == FromElems([elem |-> T.elem, bound |-> n, n |-> IF T.kind = "vec" THEN Len(jval.v) ELSE T.size],
                            old, jval, 1)
      inside(r) == Read(r.err, r.val, g.obj)
  IN CASE g.err # "none" -> Read(g.err, old, obj)
       [] g.err = "none" /\ jval.j = "null" -> Read("none", old, g.obj)
       [] OTHER ->
          CASE T.kind = "u32" -> Read("none", Sscan(jval.v), g.obj)
            [] T.kind = "string" ->
                 IF SetByteSlice(T, jval.v) = {} THEN Read("XdrError", old, g.obj)
                 ELSE Read("none", jval.v, g.obj)
            [] T.kind = "opaque" ->
                 IF Len(jval.v) # T.size THEN Read("XdrError", old, g.obj)
                 ELSE Read("none", jval.v, g.obj)
            [] T.kind = "ptr" -> Read(target.err, <<target.val>>, target.obj)
            [] T.kind = "vec" -> IF Len(jval.v) > T.bound THEN Read("XdrError", old, g.obj)
                                 ELSE inside(elems(T.bound))
            [] T.kind = "array"  -> inside(elems(T.size))
            [] T.kind = "struct" -> inside(FromFields(T, old, jval, 1))
            [] T.kind = "union"  -> inside(FromUnion(T, old, jval))
            [] OTHER -> Read("none", jval.v, g.obj)

(* JsonToXdr(dst, XdrToJson(v)), for a dst that is pristine, as it asks *)
ViaJson(v) ==
  /\ step = "none"
  /\ LET out == ToJson(typ, v)
         in == FromJson(typ, "", Zero(typ), out.obj)
     IN IF out.err # "none" THEN val' = Zero(typ) /\ err' = out.err
        ELSE val' = in.val /\ err' = in.err
  /\ sent' = v
  /\ step' = "json"
  /\ UNCHANGED <<typ, wire, rest>>

JsonNext == XdrNext \/ \E v \in Values(typ) : ViaJson(v)

JsonSpec == XdrInit /\ [][JsonNext]_xdrVars

-----------------------------------------------------------------------------
(* The values that JSON can carry here: strings without control characters,
   numbers of 32 bits below a million, and no pointer that is present as an
   element of a vector or array *)
RECURSIVE Carried(_, _)
Carried(T, v) ==
  CASE T.kind = "u32"    -> v < 1000000
    [] T.kind = "string" -> \A k \in 1 .. Len(v) : v[k] \in JsonBytes
    [] T.kind = "ptr"    -> v # <<>> => Carried(T.elem, v[1])
    [] T.kind \in {"vec", "array"} ->
         \A k \in 1 .. v.len : /\ Carried(T.elem, v.back[k])
                               /\ T.elem.kind = "ptr" => v.back[k] = <<>>
    [] T.kind = "struct" -> \A k \in 1 .. Len(v) : Carried(T.fields[k], v[k])
    [] T.kind = "union"  ->
         LET arm == Arm(T, v.tag) IN
           arm.kind # "none" /\ (arm.kind # "void" => Carried(arm, Access(T, arm, v)))
    [] OTHER -> TRUE

(* What XdrToJson writes of a value, JsonToXdr reads back as that value, for
   every value JSON can carry here; a value over its bounds is refused on
   the way.  (jsonxdr.go:27-85 and 150-186: jsonIn consumes the elements of
   an array as its Marshal asks for them, so that the two directions must
   ask in the same order and as often.) *)
JsonRoundTrip ==
  step = "json" /\ Carried(typ, sent) =>
    IF Bounded(typ, sent) THEN err = "none" /\ View(typ, val) = View(typ, sent)
    ELSE err # "none"
=============================================================================
