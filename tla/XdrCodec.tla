-------------------------------- MODULE XdrCodec --------------------------------
(***************************************************************************)
(* XDR values marshalled by XdrOut and unmarshalled by XdrIn: the runtime  *)
(* of cmd/goxdr/header.go.in with the methods that cmd/goxdr/goxdr.go      *)
(* emits for pointers, vectors, arrays, structs and unions.                *)
(*                                                                         *)
(* A type is a record.  A Go value of it is modelled with the storage it   *)
(* keeps: a vector's array beyond its length and the arm a union last      *)
(* had stay there, and unmarshalling writes into them.                     *)
(*                                                                         *)
(*   u32           a number; enums, ints and floats are u32 too            *)
(*   bool          0 or 1                                                  *)
(*   u64           the two words of the number                             *)
(*   string        a sequence of bytes; also opaque<>                      *)
(*   opaque        the same, of the type's length                          *)
(*   array, vec    [len, back]: the first len of back; an array is full    *)
(*   ptr           <<>> or <<v>>                                           *)
(*   struct        the sequence of the fields                              *)
(*   union         [tag, u]: u is <<>> or <<Go type of the arm, value>>    *)
(***************************************************************************)
EXTENDS Integers, Sequences

CONSTANTS Types,     \* the types marshalled
          Values(_), \* the values of a type a program may have
          Bytes      \* what a damaged byte may become

Void == [kind |-> "void"]
None == [kind |-> "none"]  \* no default arm

\* The arm of a union for a discriminant.
Arm(T, tag) ==
  IF \E a \in T.arms : tag \in a.cases
  THEN (CHOOSE a \in T.arms : tag \in a.cases).type
  ELSE T.default

\* The Go type, which has no bounds.
RECURSIVE GoType(_)
GoType(T) ==
  CASE T.kind = "string"         -> [T EXCEPT !.bound = 0]
    [] T.kind = "vec"            -> [T EXCEPT !.bound = 0, !.elem = GoType(@)]
    [] T.kind \in {"array", "ptr"} -> [T EXCEPT !.elem = GoType(@)]
    [] OTHER                     -> T

RECURSIVE Zero(_)
Zero(T) ==
  CASE T.kind \in {"u32", "bool"} -> 0
    [] T.kind = "u64"    -> <<0, 0>>
    [] T.kind = "string" -> <<>>
    [] T.kind = "opaque" -> [k \in 1 .. T.size |-> 0]
    [] T.kind = "array"  -> [len |-> T.size, back |-> [k \in 1 .. T.size |-> Zero(T.elem)]]
    [] T.kind = "vec"    -> [len |-> 0, back |-> <<>>]
    [] T.kind = "ptr"    -> <<>>
    [] T.kind = "struct" -> [k \in 1 .. Len(T.fields) |-> Zero(T.fields[k])]
    [] T.kind = "union"  -> [tag |-> Zero(T.tag), u |-> <<>>]

\* The method of an arm: its value, or a new one if u has another Go type.
Access(T, arm, v) ==
  IF v.u # <<>> /\ v.u[1] = GoType(arm) THEN v.u[2] ELSE Zero(arm)

-----------------------------------------------------------------------------
(***************************************************************************)
(* XdrOut.  The result is what was written, and err.                       *)
(***************************************************************************)
Word(n) == <<n \div 16777216, (n \div 65536) % 256, (n \div 256) % 256, n % 256>>

Zerofill(n) == [k \in 1 .. (4 - (n % 4)) % 4 |-> 0]

Wrote(bytes) == [err |-> "none", bytes |-> bytes]

Then(first, second) ==
  IF first.err # "none" THEN first
  ELSE [err |-> second.err, bytes |-> first.bytes \o second.bytes]

RECURSIVE Marshal(_, _), MarshalAll(_, _, _)

\* The values of vs, one after the other, the k-th of type Ts[k].
MarshalAll(Ts, vs, k) ==
  IF k > Len(Ts) THEN Wrote(<<>>)
  ELSE Then(Marshal(Ts[k], vs[k]), MarshalAll(Ts, vs, k + 1))

Marshal(T, v) ==
  CASE T.kind = "void"   -> Wrote(<<>>)
    [] T.kind = "none"   -> [err |-> "XdrError", bytes |-> <<>>]
    [] T.kind \in {"u32", "bool"} -> Wrote(Word(v))
    [] T.kind = "u64"    -> Wrote(Word(v[1]) \o Word(v[2]))
    [] T.kind = "string" -> Wrote(Word(Len(v)) \o v \o Zerofill(Len(v)))
    [] T.kind = "opaque" -> Wrote(v \o Zerofill(Len(v)))
    [] T.kind = "array"  -> MarshalAll([k \in 1 .. v.len |-> T.elem], v.back, 1)
    [] T.kind = "vec"    ->
         Then(Wrote(Word(v.len)),
              IF v.len > T.bound THEN [err |-> "XdrError", bytes |-> <<>>]
              ELSE MarshalAll([k \in 1 .. v.len |-> T.elem], v.back, 1))
    [] T.kind = "ptr"    ->
         IF v = <<>> THEN Wrote(Word(0)) ELSE Then(Wrote(Word(1)), Marshal(T.elem, v[1]))
    [] T.kind = "struct" -> MarshalAll(T.fields, v, 1)
    [] T.kind = "union"  ->
         LET arm == Arm(T, v.tag) IN
           Then(Marshal(T.tag, v.tag),
                Marshal(arm, IF arm.kind \in {"void", "none"} THEN 0 ELSE Access(T, arm, v)))

-----------------------------------------------------------------------------
(***************************************************************************)
(* XdrIn.  The result is the value as unmarshalling leaves it, the rest of *)
(* the input, and err: an XdrError, or a panic that is not one.            *)
(***************************************************************************)
Got(v, in) == [err |-> "none", val |-> v, in |-> in]

Failed(err, v) == [err |-> err, val |-> v, in |-> <<>>]

Take(in, n) == SubSeq(in, 1, n)

Drop(in, n) == SubSeq(in, n + 1, Len(in))

\* xdrReadInto: one Read, which reports EOF only when nothing is left; after a
\* short one err.Error() is called on nil.
ReadInto(in, n) ==
  IF Len(in) = 0 THEN "XdrError" ELSE IF Len(in) < n THEN "panic" ELSE "none"

ToNumber(b) == ((b[1] * 256 + b[2]) * 256 + b[3]) * 256 + b[4]

\* What the SetU32 methods of truth values and of present flags accept.
Flags == {0, 1}

\* xdrGet32, then SetU32, which stores what it accepts and panics otherwise.
Get32(old, in, accepted) ==
  LET err == ReadInto(in, 4) IN
    IF err # "none" THEN Failed(err, old)
    ELSE IF ToNumber(in) \notin accepted THEN Failed("XdrError", old)
    ELSE Got(ToNumber(in), Drop(in, 4))

\* Faulty: padding is skipped unread.
SkipPad(r, n) ==
  IF n % 4 = 0 THEN r ELSE [r EXCEPT !.in = Drop(@, 4 - (n % 4))]

\* Faulty: what there is of the padding is read.
ReadSomePad(r, n) ==
  LET w == (4 - (n % 4)) % 4
      pad == Take(r.in, IF w > Len(r.in) THEN Len(r.in) ELSE w) IN
    IF r.err # "none" THEN r
    ELSE IF \E k \in 1 .. Len(pad) : pad[k] # 0 THEN Failed("XdrError", r.val)
    ELSE Got(r.val, Drop(r.in, Len(pad)))

\* xdrReadPad, after n bytes were read into r.
ReadPad(r, n) ==
  LET pad == 4 - (n % 4) err == ReadInto(r.in, pad) IN
    IF r.err # "none" \/ n % 4 = 0 THEN r
    ELSE IF err # "none" THEN Failed(err, r.val)
    ELSE IF \E k \in 1 .. pad : r.in[k] # 0 THEN Failed("XdrError", r.val)
    ELSE Got(r.val, Drop(r.in, pad))

\* Faulty: one byte over the bound is stored.
SetBytesOff(T, bs) == IF Len(bs) > T.bound + 1 THEN {} ELSE {bs}

\* SetByteSlice refuses what is over the bound.
SetByteSlice(T, bs) == IF Len(bs) > T.bound THEN {} ELSE {bs}

\* xdrReadN, SetByteSlice and the padding.
GetVarBytes(T, old, in) ==
  LET size == Get32(0, in, Nat)
      n == size.val
      bytes == Take(size.in, n)
  IN IF size.err # "none" THEN Failed(size.err, old)
     ELSE IF Len(size.in) < n THEN Failed("XdrError", old)
     ELSE IF SetByteSlice(T, bytes) = {} THEN Failed("XdrError", old)
     ELSE ReadPad(Got(bytes, Drop(size.in, n)), n)

\* SetVecLen to one more than the length: the next element of the array if
\* there is one, else of a larger array.
Grow(T, v) ==
  LET cap == Len(v.back)
      newcap == IF 2 * cap < v.len + 1 THEN v.len + 1
                ELSE IF 2 * cap > T.bound THEN T.bound ELSE 2 * cap
  IN IF v.len < cap THEN [v EXCEPT !.len = @ + 1]
     ELSE [len |-> v.len + 1,
           back |-> v.back \o [k \in 1 .. newcap - cap |-> Zero(T.elem)]]

\* Faulty: a shorter vector leaves the length as it was.
KeepLen(v, n) == v

\* The end of XdrMarshalN.
CutLen(v, n) == IF n < v.len THEN [v EXCEPT !.len = n] ELSE v

RECURSIVE Unmarshal(_, _, _), UnmarshalN(_, _, _, _), UnmarshalFields(_, _, _, _)

\* Elements k to n of a vector or array.
UnmarshalN(T, v, in, k) ==
  IF k > T.n THEN Got(CutLen(v, T.n), in)
  ELSE LET w == IF k > v.len THEN Grow(T, v) ELSE v
           r == Unmarshal(T.elem, w.back[k], in)
           x == [w EXCEPT !.back[k] = r.val]
       IN IF r.err # "none" THEN Failed(r.err, x) ELSE UnmarshalN(T, x, r.in, k + 1)

\* Fields k and up of a struct.
UnmarshalFields(Ts, v, in, k) ==
  IF k > Len(Ts) THEN Got(v, in)
  ELSE LET r == Unmarshal(Ts[k], v[k], in)
           x == [v EXCEPT ![k] = r.val]
       IN IF r.err # "none" THEN Failed(r.err, x) ELSE UnmarshalFields(Ts, x, r.in, k + 1)

UnmarshalVec(T, old, in) ==
  LET size == Get32(0, in, 0 .. T.bound) IN
    IF size.err # "none" THEN Failed(size.err, old)
    ELSE UnmarshalN([elem |-> T.elem, bound |-> T.bound, n |-> size.val], old, size.in, 1)

UnmarshalPtr(T, old, in) ==
  LET present == Get32(0, in, Flags)
      target == Unmarshal(T.elem, IF old = <<>> THEN Zero(T.elem) ELSE old[1], present.in)
  IN IF present.err # "none" THEN Failed(present.err, old)
     ELSE IF present.val = 0 THEN Got(<<>>, present.in)
     ELSE [target EXCEPT !.val = <<target.val>>]

UnmarshalUnion(T, old, in) ==
  LET tag == Unmarshal(T.tag, old.tag, in)
      v == [old EXCEPT !.tag = tag.val]
      arm == Arm(T, tag.val)
      body == Unmarshal(arm, Access(T, arm, v), tag.in)
  IN IF tag.err # "none" THEN Failed(tag.err, v)
     ELSE IF arm.kind = "none" THEN Failed("XdrError", v)
     ELSE IF arm.kind = "void" THEN Got(v, tag.in)
     ELSE [body EXCEPT !.val = [v EXCEPT !.u = <<GoType(arm), body.val>>]]

\* old is the value unmarshalled into.
Unmarshal(T, old, in) ==
  CASE T.kind = "u32"    -> Get32(old, in, Nat)
    [] T.kind = "bool"   -> Get32(old, in, Flags)
    [] T.kind = "u64"    ->
         LET err == ReadInto(in, 8) IN
           IF err # "none" THEN Failed(err, old)
           ELSE Got(<<ToNumber(in), ToNumber(Drop(in, 4))>>, Drop(in, 8))
    [] T.kind = "string" -> GetVarBytes(T, old, in)
    [] T.kind = "opaque" ->
         IF Len(in) < T.size
         THEN Failed("panic", in \o SubSeq(old, Len(in) + 1, T.size))
         ELSE ReadPad(Got(Take(in, T.size), Drop(in, T.size)), T.size)
    [] T.kind = "array"  ->
         UnmarshalN([elem |-> T.elem, bound |-> T.size, n |-> T.size], old, in, 1)
    [] T.kind = "vec"    -> UnmarshalVec(T, old, in)
    [] T.kind = "ptr"    -> UnmarshalPtr(T, old, in)
    [] T.kind = "struct" -> UnmarshalFields(T.fields, old, in, 1)
    [] T.kind = "union"  -> UnmarshalUnion(T, old, in)

-----------------------------------------------------------------------------
(***************************************************************************)
(* A program that marshals values of one type, and unmarshals what arrives *)
(* into a variable it uses again and again.                                *)
(***************************************************************************)
VARIABLES typ,   \* the type
          val,   \* the variable
          step,  \* the latest step
          sent,  \* the value marshalled
          wire,  \* what was written, then damaged
          rest,  \* what unmarshalling has left of it
          err    \* how the latest step ended

xdrVars == <<typ, val, step, sent, wire, rest, err>>

XdrInit ==
  /\ typ \in Types
  /\ val = Zero(typ)
  /\ sent = Zero(typ)
  /\ step = "none"
  /\ wire = <<>> /\ rest = <<>>
  /\ err = "none"

Serialize(v) ==
  /\ step = "none"
  /\ sent' = v
  /\ wire' = Marshal(typ, v).bytes
  /\ err' = Marshal(typ, v).err
  /\ step' = "out"
  /\ rest' = <<>>
  /\ UNCHANGED <<typ, val>>

\* What arrives is cut off, or one byte of it differs.
Damage ==
  /\ step = "out" /\ err = "none"
  /\ \/ \E n \in 0 .. Len(wire) - 1 : wire' = Take(wire, n)
     \/ \E n \in 1 .. Len(wire) : \E b \in Bytes \ {wire[n]} :
          wire' = [wire EXCEPT ![n] = b]
  /\ step' = "damaged"
  /\ UNCHANGED <<typ, val, sent, rest, err>>

Deserialize ==
  /\ step \in {"out", "damaged"} /\ err = "none"
  /\ LET r == Unmarshal(typ, val, wire) IN
       /\ val' = r.val
       /\ err' = r.err
       /\ rest' = r.in
  /\ step' = IF step = "out" THEN "in" ELSE "damaged in"
  /\ UNCHANGED <<typ, sent, wire>>

\* The program goes on with the variable as it is.
GoOn ==
  /\ step \in {"in", "damaged in", "json"} \/ (step = "out" /\ err # "none")
  /\ step' = "none"
  /\ sent' = Zero(typ) /\ wire' = <<>> /\ rest' = <<>> /\ err' = "none"
  /\ UNCHANGED <<typ, val>>

XdrNext ==
  \/ \E v \in Values(typ) : Serialize(v)
  \/ Damage
  \/ Deserialize
  \/ GoOn

XdrSpec == XdrInit /\ [][XdrNext]_xdrVars

-----------------------------------------------------------------------------
\* What a program sees of a value: what is in use, and the current arm.
RECURSIVE View(_, _)
View(T, v) ==
  CASE T.kind \in {"array", "vec"} -> [k \in 1 .. v.len |-> View(T.elem, v.back[k])]
    [] T.kind = "ptr"    -> IF v = <<>> THEN <<>> ELSE <<View(T.elem, v[1])>>
    [] T.kind = "struct" -> [k \in 1 .. Len(v) |-> View(T.fields[k], v[k])]
    [] T.kind = "union"  ->
         LET arm == Arm(T, v.tag) IN
           IF arm.kind \in {"void", "none"} THEN <<v.tag>>
           ELSE <<v.tag, View(arm, Access(T, arm, v))>>
    [] OTHER -> v

\* What a program sees is within the bounds of the type, and every
\* discriminant has an arm.
RECURSIVE Bounded(_, _)
Bounded(T, v) ==
  CASE T.kind = "string" -> Len(v) <= T.bound
    [] T.kind = "opaque" -> Len(v) = T.size
    [] T.kind = "vec"    -> /\ v.len <= T.bound
                            /\ \A k \in 1 .. v.len : Bounded(T.elem, v.back[k])
    [] T.kind = "array"  -> /\ v.len = T.size
                            /\ \A k \in 1 .. T.size : Bounded(T.elem, v.back[k])
    [] T.kind = "ptr"    -> v # <<>> => Bounded(T.elem, v[1])
    [] T.kind = "struct" -> \A k \in 1 .. Len(v) : Bounded(T.fields[k], v[k])
    [] T.kind = "union"  ->
         LET arm == Arm(T, v.tag) IN
           arm.kind # "none" /\ (arm.kind # "void" => Bounded(arm, Access(T, arm, v)))
    [] OTHER -> TRUE

(***************************************************************************)
(* A value within its bounds is marshalled, and unmarshalling that gives   *)
(* the same value, whatever the variable held before: longer vectors,      *)
(* other arms, targets of pointers (header.go.in:644-665, 718-736).        *)
(* What marshalling does to other values: BoundsEnforced.                  *)
(***************************************************************************)
RoundTrip ==
  Bounded(typ, sent) =>
    /\ step = "out" => err = "none"
    /\ step = "in" => err = "none" /\ rest = <<>> /\ View(typ, val) = View(typ, sent)

(***************************************************************************)
(* "[...] length limits are enforced during both marshaling and            *)
(* unmarshaling" (goxdr.1.md:38-40): XdrOut writes no value that is over a *)
(* bound.  It does: header.go.in:648-657 compares no length of a string    *)
(* or opaque with its bound.                                               *)
(***************************************************************************)
BoundsEnforced == step = "out" /\ err = "none" => Bounded(typ, sent)

(***************************************************************************)
(* XdrIn accepts only the bytes XdrOut would write for the value it read:  *)
(* padding, truth values and flags have one encoding.                      *)
(***************************************************************************)
Canonical ==
  step \in {"in", "damaged in"} /\ err = "none" =>
    Marshal(typ, val) = Wrote(Take(wire, Len(wire) - Len(rest)))

(***************************************************************************)
(* Input that is accepted leaves the variable within its bounds, whatever  *)
(* refused input left there: the arm of a union that now has another       *)
(* bound, elements a vector grows over.                                    *)
(***************************************************************************)
InputBounded == step \in {"in", "damaged in"} /\ err = "none" => Bounded(typ, val)

-----------------------------------------------------------------------------
\* The reads of which the encoding of a value consists, each of its length: a
\* word, the bytes of a string, an opaque of fixed length, or padding.
Padded(kind, n) ==
  IF n % 4 = 0 THEN <<[kind |-> kind, len |-> n]>>
  ELSE <<[kind |-> kind, len |-> n], [kind |-> "pad", len |-> 4 - (n % 4)]>>

OneWord == <<[kind |-> "word", len |-> 4]>>

RECURSIVE Reads(_, _), ReadsAll(_, _, _)
ReadsAll(Ts, vs, k) ==
  IF k > Len(Ts) THEN <<>> ELSE Reads(Ts[k], vs[k]) \o ReadsAll(Ts, vs, k + 1)

Reads(T, v) ==
  CASE T.kind = "void"   -> <<>>
    [] T.kind \in {"u32", "bool"} -> OneWord
    [] T.kind = "u64"    -> <<[kind |-> "word", len |-> 8]>>
    [] T.kind = "string" -> OneWord \o Padded("bytes", Len(v))
    [] T.kind = "opaque" -> Padded("opaque", T.size)
    [] T.kind = "array"  -> ReadsAll([k \in 1 .. v.len |-> T.elem], v.back, 1)
    [] T.kind = "vec"    -> OneWord \o ReadsAll([k \in 1 .. v.len |-> T.elem], v.back, 1)
    [] T.kind = "ptr"    -> OneWord \o (IF v = <<>> THEN <<>> ELSE Reads(T.elem, v[1]))
    [] T.kind = "struct" -> ReadsAll(T.fields, v, 1)
    [] T.kind = "union"  ->
         LET arm == Arm(T, v.tag) IN
           Reads(T.tag, v.tag) \o Reads(arm, IF arm.kind = "void" THEN 0 ELSE Access(T, arm, v))

\* The end of an input of n bytes, fewer than the reads ask for: where it falls.
RECURSIVE EndsIn(_, _)
EndsIn(reads, n) ==
  IF n >= reads[1].len THEN EndsIn(Tail(reads), n - reads[1].len)
  ELSE [kind |-> reads[1].kind, before |-> n = 0]

(***************************************************************************)
(* Input that ends early is never taken for a value: no encoding is the    *)
(* beginning of another of its type.  How it is refused depends on where   *)
(* it ends (header.go.in:667-695, 728-730): inside a string, or before a   *)
(* word or padding, by an XdrError; inside a word or padding, or before or *)
(* inside a fixed opaque, by a panic that is none, which safeMarshal       *)
(* (rpc/util.go:38-51) passes on.  What the manual has instead:            *)
(* RefusedWithXdrError.                                                    *)
(***************************************************************************)
CutOffRefused ==
  step = "damaged in" /\ Len(wire) < Len(Marshal(typ, sent).bytes) =>
    /\ err # "none"
    /\ Bounded(typ, sent) =>
         LET end == EndsIn(Reads(typ, sent), Len(wire)) IN
           err = "XdrError" <=>
             end.kind = "bytes" \/ (end.kind \in {"word", "pad"} /\ end.before)

(***************************************************************************)
(* "`XdrMarshal` methods panic with type `XdrError` [...] if the input is  *)
(* invalid" (goxdr.1.md:386-387), and GetMsg returns "an error instead of  *)
(* throwing an exception if the bytes are garbage" (rpc/util.go:68-69):    *)
(* unmarshalling ends in no other panic.  It does, see CutOffRefused.      *)
(***************************************************************************)
RefusedWithXdrError == step \in {"in", "damaged in"} => err \in {"none", "XdrError"}
=============================================================================
