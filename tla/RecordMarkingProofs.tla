--------------------------- MODULE RecordMarkingProofs ---------------------------
(***************************************************************************)
(* Proofs about RecordMarking, for messages of any length and number, any  *)
(* length of fragments and any limit on the length of a message.           *)
(*                                                                         *)
(* The receiver can make sense of the stream because each byte left on it  *)
(* stands where the receiver expects it.  The invariant labels every byte  *)
(* with its message and its place in the encoding of that message: the     *)
(* labels start at the one the receiver is about to read, run on without a *)
(* gap and, while no Send has failed, end at the end of the last message.  *)
(***************************************************************************)
EXTENDS RecordMarking, SequenceTheorems, TLAPS

\* The length of a full fragment with its header.
Full == HeaderLen + MaxSegment

\* The bytes of a message of this size in the fragment that starts at from.
Piece(size, from) == IF size - from > MaxSegment THEN MaxSegment ELSE size - from

\* The message has a fragment with this number, counted from 0.
HasFragment(size, q) == q = 0 \/ q * MaxSegment < size

Header(i, size, from) ==
  [msg |-> i, at |-> 0, len |-> Piece(size, from), last |-> size - from <= MaxSegment]

-----------------------------------------------------------------------------
(***************************************************************************)
(* How a message is cut.                                                   *)
(***************************************************************************)
\* Products keep the order of the numbers multiplied.
LEMMA TimesOrder ==
  ASSUME NEW a \in Nat, NEW b \in Nat, NEW d \in Nat, a < b
  PROVE  a * d + d <= b * d /\ a * d \in Nat /\ b * d \in Nat
<1>1. PICK c \in Nat : b = a + 1 + c
  <2>1. b - a - 1 \in Nat /\ b = a + 1 + (b - a - 1)
    OBVIOUS
  <2>2. QED
    BY <2>1
<1>2. b * d = a * d + d + c * d
  BY <1>1
<1>3. c * d \in Nat /\ a * d \in Nat /\ b * d \in Nat
  OBVIOUS
<1>4. QED
  BY <1>2, <1>3

\* Division by the length of the parts finds the part and the place in it.
LEMMA DivMod ==
  ASSUME NEW d \in Nat \ {0}, NEW q \in Nat, NEW r \in Nat, r < d
  PROVE  (q * d + r) \div d = q /\ (q * d + r) % d = r
OBVIOUS

\* The last fragment ends the encoding; the others are followed by one more.
LEMMA FragmentsFit ==
  ASSUME NEW size \in Nat, NEW q \in Nat, HasFragment(size, q)
  PROVE  /\ Piece(size, q * MaxSegment) \in 0 .. MaxSegment
         /\ q * MaxSegment \in Nat /\ q * Full \in Nat
         /\ EncodedLen(size) \in Nat
         /\ size - q * MaxSegment <= MaxSegment =>
              /\ Piece(size, q * MaxSegment) = size - q * MaxSegment
              /\ EncodedLen(size) = q * Full + HeaderLen + Piece(size, q * MaxSegment)
         /\ size - q * MaxSegment > MaxSegment =>
              /\ Piece(size, q * MaxSegment) = MaxSegment
              /\ HasFragment(size, q + 1)
              /\ (q + 1) * Full = q * Full + HeaderLen + MaxSegment
              /\ EncodedLen(size) > (q + 1) * Full + HeaderLen
         /\ Piece(size, q * MaxSegment) = 0 => size = 0 /\ q = 0
<1> USE RecordMarkingAssumption DEF HeaderLen
<1>1. /\ MaxSegment \in Nat /\ MaxSegment > 0 /\ Full = 4 + MaxSegment
      /\ q * MaxSegment \in Nat /\ q * Full \in Nat
      /\ q * Full = 4 * q + q * MaxSegment
  BY DEF Full
<1>2. q * MaxSegment < size \/ q = 0
  BY DEF HasFragment
<1>3. q = 0 => q * MaxSegment = 0
  OBVIOUS
<1>4. Piece(size, q * MaxSegment) \in 0 .. MaxSegment
  BY <1>1, <1>2, <1>3 DEF Piece
<1>5. EncodedLen(size) \in Nat
  BY <1>1 DEF EncodedLen
<1>6. ASSUME size - q * MaxSegment <= MaxSegment
      PROVE  /\ Piece(size, q * MaxSegment) = size - q * MaxSegment
             /\ EncodedLen(size) = q * Full + HeaderLen + Piece(size, q * MaxSegment)
  <2>1. Piece(size, q * MaxSegment) = size - q * MaxSegment
    BY <1>1, <1>6 DEF Piece
  <2>2. CASE size = 0
    <3>1. q = 0 /\ q * MaxSegment = 0 /\ q * Full = 0
      BY <1>1, <1>2, <1>3, <2>2
    <3>2. EncodedLen(size) = 4
      BY <2>2 DEF EncodedLen
    <3>3. QED
      BY <2>1, <2>2, <3>1, <3>2
  <2>3. CASE size # 0
    <3>1. PICK r \in Nat : r = size - 1 - q * MaxSegment
      BY <1>1, <1>2, <1>3, <2>3
    <3>2. r < MaxSegment /\ size - 1 = q * MaxSegment + r
      BY <1>1, <1>6, <3>1
    <3>3. (size - 1) \div MaxSegment = q
      BY <1>1, <3>2, DivMod
    <3>4. EncodedLen(size) = size + 4 * (q + 1)
      BY <2>3, <3>3 DEF EncodedLen
    <3>5. QED
      BY <1>1, <2>1, <3>4
  <2>4. QED
    BY <2>1, <2>2, <2>3
<1>7. ASSUME size - q * MaxSegment > MaxSegment
      PROVE  /\ Piece(size, q * MaxSegment) = MaxSegment
             /\ HasFragment(size, q + 1)
             /\ (q + 1) * Full = q * Full + HeaderLen + MaxSegment
             /\ EncodedLen(size) > (q + 1) * Full + HeaderLen
  <2>1. /\ (q + 1) * MaxSegment = q * MaxSegment + MaxSegment
        /\ (q + 1) * Full = q * Full + 4 + MaxSegment
    BY <1>1
  <2>2. Piece(size, q * MaxSegment) = MaxSegment /\ HasFragment(size, q + 1) /\ size # 0
    BY <1>1, <1>7, <2>1 DEF Piece, HasFragment
  <2>3. PICK p \in Nat : p = (size - 1) \div MaxSegment
    BY <1>1, <2>2
  <2>4. size - 1 < p * MaxSegment + MaxSegment
    BY <1>1, <2>2, <2>3
  <2>5. p >= q + 1
    <3>1. CASE p <= q
      <4>1. p * MaxSegment <= q * MaxSegment
        <5>1. CASE p = q
          BY <1>1, <5>1
        <5>2. CASE p < q
          BY <1>1, <5>2, TimesOrder
        <5>3. QED
          BY <3>1, <5>1, <5>2
      <4>2. p * MaxSegment \in Nat
        BY <1>1
      <4>3. QED
        BY <1>1, <1>7, <2>4, <4>1, <4>2
    <3>2. QED
      BY <3>1
  <2>6. EncodedLen(size) = size + 4 * (p + 1)
    BY <2>2, <2>3 DEF EncodedLen
  <2>7. QED
    BY <1>1, <1>7, <2>1, <2>2, <2>5, <2>6
<1>8. Piece(size, q * MaxSegment) = 0 => size = 0 /\ q = 0
  BY <1>1, <1>2, <1>3 DEF Piece
<1>9. QED
  BY <1>1, <1>4, <1>5, <1>6, <1>7, <1>8

\* The bytes of a fragment, where it stands in the encoding.
LEMMA FragmentBytes ==
  ASSUME NEW i \in Nat, NEW size \in Nat, NEW q \in Nat, HasFragment(size, q)
  PROVE  /\ \A o \in 1 .. HeaderLen :
              Encoding(i, size)[q * Full + o] = Header(i, size, q * MaxSegment)
         /\ \A p \in 1 .. Piece(size, q * MaxSegment) :
              Encoding(i, size)[q * Full + HeaderLen + p]
                = [msg |-> i, at |-> q * MaxSegment + p, len |-> 0, last |-> FALSE]
<1> USE RecordMarkingAssumption
<1>1. /\ MaxSegment \in Nat \ {0} /\ HeaderLen = 4 /\ Full = 4 + MaxSegment /\ Full \in Nat \ {0}
  BY DEF HeaderLen, Full
<1>2. PICK n \in 0 .. MaxSegment : n = Piece(size, q * MaxSegment)
  BY FragmentsFit
<1>3. PICK f \in Nat : f = q * MaxSegment
  BY FragmentsFit
<1>4. q * Full \in Nat /\ EncodedLen(size) \in Nat /\ q * Full + 4 + n <= EncodedLen(size)
  BY <1>1, <1>2, FragmentsFit
<1>5. ASSUME NEW o \in 1 .. 4 + n
      PROVE  Encoding(i, size)[q * Full + o] = Fragment(i, size, f)[o]
  <2>1. PICK k \in 1 .. EncodedLen(size) : k = q * Full + o
    BY <1>2, <1>4
  <2>2. o - 1 \in Nat /\ o - 1 < Full /\ k - 1 = q * Full + (o - 1)
    BY <1>1, <1>2, <1>4, <2>1
  <2>3. (k - 1) \div Full = q /\ 1 + ((k - 1) % Full) = o
    <3>1. PICK r \in Nat : r = o - 1 /\ r < Full
      BY <2>2
    <3>2. (q * Full + r) \div Full = q /\ (q * Full + r) % Full = r
      BY <1>1, <3>1, DivMod
    <3>3. k - 1 = q * Full + r /\ 1 + r = o
      BY <2>2, <3>1
    <3>4. QED
      BY <3>2, <3>3
  <2>4. Encoding(i, size)[k] = Fragment(i, size, ((k - 1) \div Full) * MaxSegment)[1 + ((k - 1) % Full)]
    BY DEF Encoding, Full
  <2>5. QED
    BY <1>3, <2>1, <2>3, <2>4
<1>6. PICK hs : hs = [k \in 1 .. 4 |-> Header(i, size, f)]
  OBVIOUS
<1>7. PICK ps : ps = Payload(i, f, f + n)
  OBVIOUS
<1>8. Fragment(i, size, f) = hs \o ps
  BY <1>1, <1>2, <1>3, <1>6, <1>7 DEF Fragment, Header, Piece
<1>9. PICK S : S = {Header(i, size, f)} \cup {[msg |-> i, at |-> f + k, len |-> 0, last |-> FALSE] : k \in 1 .. n}
  OBVIOUS
<1>10. /\ hs \in Seq(S) /\ Len(hs) = 4 /\ \A k \in 1 .. 4 : hs[k] = Header(i, size, f)
  BY <1>6, <1>9
<1>11. /\ ps \in Seq(S) /\ Len(ps) = n
       /\ \A k \in 1 .. n : ps[k] = [msg |-> i, at |-> f + k, len |-> 0, last |-> FALSE]
  <2>1. ps = [k \in 1 .. n |-> [msg |-> i, at |-> f + k, len |-> 0, last |-> FALSE]]
    <3>1. f + n - f = n
      BY <1>2, <1>3
    <3>2. QED
      BY <1>7, <3>1 DEF Payload
  <2>2. QED
    BY <1>2, <1>9, <2>1
<1>12. \A o \in 1 .. 4 + n : (hs \o ps)[o] = IF o <= 4 THEN hs[o] ELSE ps[o - 4]
  <2>1. \A o \in 1 .. Len(hs) + Len(ps) :
          (hs \o ps)[o] = IF o <= Len(hs) THEN hs[o] ELSE ps[o - Len(hs)]
    BY <1>10, <1>11, ConcatProperties
  <2>2. Len(hs) = 4 /\ Len(ps) = n
    BY <1>10, <1>11
  <2>3. QED
    BY <2>1, <2>2
<1>13. ASSUME NEW o \in 1 .. HeaderLen
       PROVE  Encoding(i, size)[q * Full + o] = Header(i, size, q * MaxSegment)
  <2>1. o \in 1 .. 4 /\ o \in 1 .. 4 + n /\ o <= 4
    BY <1>1
  <2>2. Fragment(i, size, f)[o] = hs[o]
    <3>1. (hs \o ps)[o] = hs[o]
      BY <1>12, <2>1
    <3>2. QED
      BY <1>8, <3>1, Zenon
  <2>3. QED
    BY <1>3, <1>5, <1>10, <2>1, <2>2
<1>14. ASSUME NEW p \in 1 .. Piece(size, q * MaxSegment)
       PROVE  Encoding(i, size)[q * Full + HeaderLen + p]
                = [msg |-> i, at |-> q * MaxSegment + p, len |-> 0, last |-> FALSE]
  <2>1. 4 + p \in 1 .. 4 + n /\ p \in 1 .. n /\ 4 + p - 4 = p /\ ~(4 + p <= 4)
    BY <1>2
  <2>2. q * Full + HeaderLen + p = q * Full + (4 + p)
    BY <1>1, <1>4, <2>1
  <2>3. Fragment(i, size, f)[4 + p] = ps[p]
    <3>1. (hs \o ps)[4 + p] = ps[p]
      <4>1. PICK o \in 1 .. 4 + n : o = 4 + p
        BY <2>1
      <4>2. (hs \o ps)[o] = ps[o - 4]
        BY <1>12, <2>1, <4>1
      <4>3. o - 4 = p
        BY <2>1, <4>1
      <4>4. QED
        BY <4>1, <4>2, <4>3, Zenon
    <3>2. QED
      BY <1>8, <3>1, Zenon
  <2>4. QED
    BY <1>3, <1>5, <1>11, <2>1, <2>2, <2>3
<1>15. QED
  BY <1>13, <1>14

\* A fragment starts with its header.
LEMMA FirstOfHeader ==
  \A i, size, q \in Nat :
    HasFragment(size, q) => Encoding(i, size)[q * Full + 1] = Header(i, size, q * MaxSegment)
<1>1. \A i, size, q \in Nat : HasFragment(size, q) =>
        \A o \in 1 .. HeaderLen : Encoding(i, size)[q * Full + o] = Header(i, size, q * MaxSegment)
  BY FragmentBytes
<1>2. 1 \in 1 .. HeaderLen
  BY DEF HeaderLen
<1>3. QED
  BY <1>1, <1>2

\* After it come the bytes of the payload.
LEMMA RestOfFragment ==
  \A i, size, q \in Nat :
    HasFragment(size, q) =>
      \A p \in 1 .. Piece(size, q * MaxSegment) :
        Encoding(i, size)[q * Full + HeaderLen + p]
          = [msg |-> i, at |-> q * MaxSegment + p, len |-> 0, last |-> FALSE]
BY FragmentBytes

-----------------------------------------------------------------------------
(***************************************************************************)
(* The inductive invariant.  Every byte of the stream has a label, the     *)
(* message it is of and its place in that message's encoding; the labels   *)
(* run on from where the receiver is to where the sender is.               *)
(***************************************************************************)
BytesOf(i, size) == {Encoding(i, size)[k] : k \in 1 .. EncodedLen(size)}

Bytes == UNION {BytesOf(i, size) : i \in Nat, size \in Sizes}

Payloads == {Payload(i, 0, size) : i \in Nat, size \in Nat}

\* The message the receiver is reading.
Index == Len(received) + 1

\* It has q full fragments of it, and may be inside the next one.
Reading(q) ==
  /\ got = Payload(Index, 0, q * MaxSegment)
  /\ q # 0 => Index <= Len(sent) /\ q * MaxSegment < sent[Index]
  /\ phase = "header" => need = 0
  /\ phase = "body" =>
       /\ Index <= Len(sent)
       /\ need = Piece(sent[Index], q * MaxSegment)
       /\ last <=> sent[Index] - q * MaxSegment <= MaxSegment

\* The label of the next byte it reads.
NextMsg == IF phase = "body" /\ need = 0 THEN Index + 1 ELSE Index

NextPlace(q) ==
  IF phase = "header" THEN q * Full + 1
  ELSE IF need = 0 THEN 1 ELSE q * Full + HeaderLen + 1

\* Labels are those of the bytes, run through each message, and go on with the
\* next one.
Chain(msgOf, placeOf) ==
  /\ \A j \in 1 .. Len(stream) :
       /\ msgOf[j] \in 1 .. Len(sent)
       /\ placeOf[j] \in 1 .. EncodedLen(sent[msgOf[j]])
       /\ stream[j] = Encoding(msgOf[j], sent[msgOf[j]])[placeOf[j]]
  /\ \A j, k \in 1 .. Len(stream) :
       j <= k /\ placeOf[j] + (k - j) <= EncodedLen(sent[msgOf[j]]) =>
         msgOf[k] = msgOf[j] /\ placeOf[k] = placeOf[j] + (k - j)
  /\ \A j \in 1 .. Len(stream) - 1 :
       placeOf[j] = EncodedLen(sent[msgOf[j]]) => msgOf[j + 1] = msgOf[j] + 1 /\ placeOf[j + 1] = 1

Starts(q, msgOf, placeOf) ==
  stream # <<>> => msgOf[1] = NextMsg /\ placeOf[1] = NextPlace(q)

\* While no Send has failed, the last message has been written to its end.
Ends(q, msgOf, placeOf) ==
  sender = "ok" =>
    IF stream = <<>>
    THEN NextMsg = Len(sent) + 1 /\ NextPlace(q) = 1
    ELSE /\ msgOf[Len(stream)] = Len(sent)
         /\ placeOf[Len(stream)] = EncodedLen(sent[Len(sent)])

StreamInv ==
  \E q \in Nat : \E msgOf, placeOf \in [1 .. Len(stream) -> Nat] :
    Reading(q) /\ Chain(msgOf, placeOf) /\ Starts(q, msgOf, placeOf) /\ Ends(q, msgOf, placeOf)

TypeInv ==
  /\ sent \in Seq(Sizes)
  /\ sender \in {"ok", "failed"}
  /\ stream \in Seq(Bytes)
  /\ phase \in {"header", "body", "failed"}
  /\ need \in Nat
  /\ last \in BOOLEAN
  /\ why \in {"none", "short", "size", "end", "error"}
  /\ received \in Seq(Payloads)

SizeInv == why = "size" => phase = "failed" /\ Index <= Len(sent) /\ sent[Index] > MaxMsgSize

IInv ==
  /\ TypeInv /\ DeliveredIntact /\ MemoryBounded /\ SizeInv
  /\ phase # "failed" => StreamInv

-----------------------------------------------------------------------------
\* An encoding is never empty.
LEMMA EncodingIs ==
  ASSUME NEW i \in Nat, NEW size \in Sizes
  PROVE  /\ size \in Nat /\ EncodedLen(size) \in Nat /\ EncodedLen(size) >= HeaderLen
         /\ Encoding(i, size) \in Seq(Bytes) /\ Len(Encoding(i, size)) = EncodedLen(size)
<1>1. size \in Nat
  BY RecordMarkingAssumption
<1>2. HasFragment(size, 0) /\ 0 * Full = 0 /\ 0 * MaxSegment = 0
  BY RecordMarkingAssumption DEF HasFragment, Full, HeaderLen
<1>3. EncodedLen(size) \in Nat /\ EncodedLen(size) >= HeaderLen
  BY <1>1, RecordMarkingAssumption DEF EncodedLen, HeaderLen
<1>4. \A k \in 1 .. EncodedLen(size) : Encoding(i, size)[k] \in Bytes
  <2>1. BytesOf(i, size) \subseteq Bytes
    BY DEF Bytes
  <2>2. QED
    BY <2>1, Zenon DEF BytesOf
<1>5. DOMAIN Encoding(i, size) = 1 .. EncodedLen(size)
      /\ Encoding(i, size) = [k \in 1 .. EncodedLen(size) |-> Encoding(i, size)[k]]
  BY DEF Encoding
<1>6. Encoding(i, size) \in [1 .. EncodedLen(size) -> Bytes]
  BY <1>4, <1>5
<1>7. Encoding(i, size) \in Seq(Bytes)
  BY <1>3, <1>6
<1>8. Len(Encoding(i, size)) = EncodedLen(size)
  BY <1>3, <1>5, <1>7
<1>9. QED
  BY <1>1, <1>3, <1>7, <1>8

\* The first bytes of a message.
LEMMA PayloadIs ==
  ASSUME NEW i, NEW n \in Nat
  PROVE  /\ Len(Payload(i, 0, n)) = n
         /\ \A S : (\A k \in 1 .. n : [msg |-> i, at |-> k, len |-> 0, last |-> FALSE] \in S)
                     => Payload(i, 0, n) \in Seq(S)
         /\ \A k \in 1 .. n :
              Payload(i, 0, n)[k] = [msg |-> i, at |-> k, len |-> 0, last |-> FALSE]
<1>1. Payload(i, 0, n) = [k \in 1 .. n |-> [msg |-> i, at |-> k, len |-> 0, last |-> FALSE]]
  <2>1. n - 0 = n /\ \A k \in 1 .. n : 0 + k = k
    OBVIOUS
  <2>2. QED
    BY <2>1 DEF Payload
<1>2. Len(Payload(i, 0, n)) = n
  BY <1>1
<1>3. \A k \in 1 .. n :
        Payload(i, 0, n)[k] = [msg |-> i, at |-> k, len |-> 0, last |-> FALSE]
  BY <1>1, Zenon
<1>4. ASSUME NEW S, \A k \in 1 .. n : [msg |-> i, at |-> k, len |-> 0, last |-> FALSE] \in S
      PROVE  Payload(i, 0, n) \in Seq(S)
  <2>1. Payload(i, 0, n) \in [1 .. n -> S]
    BY <1>1, <1>4, Zenon
  <2>2. QED
    BY <2>1
<1>5. QED
  BY <1>2, <1>3, <1>4, Zenon

\* A message of no bytes.
LEMMA EmptyPayload == ASSUME NEW i \in Nat PROVE Payload(i, 0, 0) = <<>>
<1>1. PICK s : s = Payload(i, 0, 0)
  OBVIOUS
<1>2. s \in Seq(Nat) /\ Len(s) = 0
  <2>1. \A k \in 1 .. 0 : [msg |-> i, at |-> k, len |-> 0, last |-> FALSE] \in Nat
    OBVIOUS
  <2>2. QED
    BY <1>1, <2>1, PayloadIs
<1>3. s = <<>>
  BY <1>2, EmptySeq
<1>4. QED
  BY <1>1, <1>3

\* The payload so far and the bytes after it.
LEMMA PayloadGrows ==
  ASSUME NEW i, NEW a \in Nat, NEW n \in Nat, NEW s \in Seq(Bytes), Len(s) = n,
         \A p \in 1 .. n : s[p] = [msg |-> i, at |-> a + p, len |-> 0, last |-> FALSE]
  PROVE  Payload(i, 0, a) \o s = Payload(i, 0, a + n)
<1>1. PICK B : B = {[msg |-> i, at |-> k, len |-> 0, last |-> FALSE] : k \in 1 .. a + n}
  OBVIOUS
<1>2. PICK g : g = Payload(i, 0, a)
  OBVIOUS
<1>3. PICK h : h = Payload(i, 0, a + n)
  OBVIOUS
<1>4. /\ g \in Seq(B) /\ Len(g) = a
      /\ \A k \in 1 .. a : g[k] = [msg |-> i, at |-> k, len |-> 0, last |-> FALSE]
  <2>1. \A k \in 1 .. a : [msg |-> i, at |-> k, len |-> 0, last |-> FALSE] \in B
    <3>1. 1 .. a \subseteq 1 .. a + n
      OBVIOUS
    <3>2. QED
      BY <1>1, <3>1, Zenon
  <2>2. QED
    BY <1>2, <2>1, PayloadIs
<1>5. /\ h \in Seq(B) /\ Len(h) = a + n
      /\ \A k \in 1 .. a + n : h[k] = [msg |-> i, at |-> k, len |-> 0, last |-> FALSE]
  <2>1. \A k \in 1 .. a + n : [msg |-> i, at |-> k, len |-> 0, last |-> FALSE] \in B
    BY <1>1
  <2>2. a + n \in Nat
    OBVIOUS
  <2>3. QED
    BY <1>3, <2>1, <2>2, PayloadIs
<1>6. s \in Seq(B)
  <2>1. \A p \in 1 .. n : s[p] \in B
    BY <1>1
  <2>2. s \in [1 .. n -> B]
    BY <2>1, LenProperties
  <2>3. QED
    BY <2>2
<1>7. /\ g \o s \in Seq(B) /\ Len(g \o s) = a + n
      /\ \A k \in 1 .. a + n : (g \o s)[k] = IF k <= a THEN g[k] ELSE s[k - a]
  <2>1. /\ g \o s \in Seq(B) /\ Len(g \o s) = Len(g) + Len(s)
        /\ \A k \in 1 .. Len(g) + Len(s) : (g \o s)[k] = IF k <= Len(g) THEN g[k] ELSE s[k - Len(g)]
    BY <1>4, <1>6, ConcatProperties
  <2>2. QED
    BY <1>4, <2>1
<1>8. ASSUME NEW k \in 1 .. a + n
      PROVE  (g \o s)[k] = h[k]
  <2>1. CASE k <= a
    <3>1. k \in 1 .. a
      BY <2>1
    <3>2. (g \o s)[k] = g[k]
      BY <1>7, <2>1
    <3>3. QED
      BY <1>4, <1>5, <3>1, <3>2, Zenon
  <2>2. CASE k > a
    <3>1. PICK p \in 1 .. n : p = k - a
      BY <2>2
    <3>2. s[p] = [msg |-> i, at |-> k, len |-> 0, last |-> FALSE]
      <4>1. a + p = k
        BY <3>1
      <4>2. QED
        BY <4>1
    <3>3. (g \o s)[k] = s[p]
      BY <1>7, <2>2, <3>1
    <3>4. QED
      BY <1>5, <3>2, <3>3, Zenon
  <2>3. k <= a \/ k > a
    OBVIOUS
  <2>4. QED
    BY <2>1, <2>2, <2>3
<1>9. g \o s = h
  BY <1>5, <1>7, <1>8, SeqEqual
<1>10. QED
  BY <1>2, <1>3, <1>9, Zenon

-----------------------------------------------------------------------------
\* All or the first bytes of a message are written.
LEMMA WriteInv ==
  ASSUME IInv, NEW size \in Sizes, NEW k \in 0 .. EncodedLen(size),
         sender = "ok", sender' \in {"ok", "failed"},
         sender' = "ok" => k = EncodedLen(size),
         stream' = stream \o SubSeq(Encoding(Len(sent) + 1, size), 1, k),
         sent' = Append(sent, size),
         UNCHANGED <<phase, got, need, last, why, received>>
  PROVE  IInv'
<1> USE DEF IInv
<1>1. PICK n \in Nat : n = Len(sent)
  BY DEF TypeInv
<1>2. PICK L \in Nat : L = Len(stream)
  BY DEF TypeInv
<1>3. /\ sent' \in Seq(Sizes) /\ Len(sent') = n + 1 /\ sent'[n + 1] = size
      /\ \A i \in 1 .. n : sent'[i] = sent[i]
  BY <1>1 DEF TypeInv
<1>4. /\ EncodedLen(size) \in Nat /\ EncodedLen(size) >= 4
      /\ Encoding(n + 1, size) \in Seq(Bytes) /\ Len(Encoding(n + 1, size)) = EncodedLen(size)
      /\ k \in Nat
  BY <1>1, EncodingIs DEF HeaderLen
<1>5. /\ stream' \in Seq(Bytes) /\ Len(stream') = L + k
      /\ \A j \in 1 .. L : stream'[j] = stream[j]
      /\ \A j \in 1 .. L + k : j > L => stream'[j] = Encoding(n + 1, size)[j - L]
  <2>1. PICK e : e = SubSeq(Encoding(n + 1, size), 1, k)
    OBVIOUS
  <2>2. /\ e \in Seq(Bytes) /\ Len(e) = k
        /\ \A j \in 1 .. k : e[j] = Encoding(n + 1, size)[j]
    BY <1>4, <2>1
  <2>3. stream' = stream \o e /\ stream \in Seq(Bytes)
    BY <1>1, <2>1 DEF TypeInv
  <2>4. /\ stream \o e \in Seq(Bytes) /\ Len(stream \o e) = Len(stream) + Len(e)
        /\ \A j \in 1 .. Len(stream) + Len(e) :
             (stream \o e)[j] = IF j <= Len(stream) THEN stream[j] ELSE e[j - Len(stream)]
    BY <2>2, <2>3, ConcatProperties
  <2>5. \A j \in 1 .. L + k : stream'[j] = IF j <= L THEN stream[j] ELSE e[j - L]
    BY <1>2, <2>2, <2>3, <2>4
  <2>6. \A j \in 1 .. L + k : j > L => j - L \in 1 .. k
    OBVIOUS
  <2>7. \A j \in 1 .. L : stream'[j] = stream[j]
    <3>1. \A j \in 1 .. L : j \in 1 .. L + k /\ j <= L
      BY <1>4
    <3>2. QED
      BY <2>5, <3>1
  <2>8. \A j \in 1 .. L + k : j > L => stream'[j] = Encoding(n + 1, size)[j - L]
    <3>1. SUFFICES ASSUME NEW j \in 1 .. L + k, j > L
                   PROVE  stream'[j] = Encoding(n + 1, size)[j - L]
      OBVIOUS
    <3>2. ~(j <= L)
      BY <1>4, <3>1
    <3>3. stream'[j] = e[j - L]
      BY <2>5, <3>2
    <3>4. j - L \in 1 .. k
      BY <2>6, <3>1
    <3>5. QED
      BY <2>2, <3>3, <3>4
  <2>9. stream' \in Seq(Bytes) /\ Len(stream') = L + k
    BY <1>2, <2>2, <2>3, <2>4
  <2>10. QED
    BY <2>7, <2>8, <2>9
<1>6. TypeInv'
  BY <1>3, <1>5 DEF TypeInv
<1>7. DeliveredIntact' /\ MemoryBounded'
  BY <1>1, <1>3 DEF DeliveredIntact, MemoryBounded, TypeInv
<1>8. SizeInv'
  BY <1>1, <1>3 DEF SizeInv, Index, TypeInv
<1>9. ASSUME phase # "failed"
      PROVE  StreamInv'
  <2>1. PICK q \in Nat, msgOf \in [1 .. Len(stream) -> Nat],
             placeOf \in [1 .. Len(stream) -> Nat] :
          Reading(q) /\ Chain(msgOf, placeOf) /\ Starts(q, msgOf, placeOf) /\ Ends(q, msgOf, placeOf)
    BY <1>9 DEF StreamInv
  <2>2. PICK msg2 : msg2 = [j \in 1 .. L + k |-> IF j <= L THEN msgOf[j] ELSE n + 1]
    OBVIOUS
  <2>3. PICK place2 : place2 = [j \in 1 .. L + k |-> IF j <= L THEN placeOf[j] ELSE j - L]
    OBVIOUS
  <2>4. /\ msg2 \in [1 .. Len(stream') -> Nat] /\ place2 \in [1 .. Len(stream') -> Nat]
        /\ \A j \in 1 .. L : msg2[j] = msgOf[j] /\ place2[j] = placeOf[j]
        /\ \A j \in 1 .. L + k : j > L => msg2[j] = n + 1 /\ place2[j] = j - L
    BY <1>2, <1>5, <2>1, <2>2, <2>3
  <2>5. Reading(q)'
    BY <1>1, <1>3, <2>1 DEF Reading, Index, TypeInv
  \* The labels of the bytes that were there end with the last message.
  <2>6. L > 0 => msgOf[L] = n /\ placeOf[L] = EncodedLen(sent[n])
    BY <1>1, <1>2, <2>1 DEF Ends
  <2>7. \A j \in 1 .. L : /\ msgOf[j] \in 1 .. n /\ sent'[msgOf[j]] = sent[msgOf[j]]
                         /\ placeOf[j] \in 1 .. EncodedLen(sent[msgOf[j]])
                         /\ EncodedLen(sent[msgOf[j]]) \in Nat
    <3>1. \A j \in 1 .. L : msgOf[j] \in 1 .. n /\ placeOf[j] \in 1 .. EncodedLen(sent[msgOf[j]])
      BY <1>1, <1>2, <2>1 DEF Chain
    <3>2. \A i \in 1 .. n : sent[i] \in Sizes
      BY <1>1 DEF TypeInv
    <3>3. \A i \in 1 .. n : EncodedLen(sent[i]) \in Nat
      BY <3>2, EncodingIs
    <3>4. QED
      BY <1>3, <3>1, <3>3
  <2>8. ASSUME NEW j \in 1 .. L + k
        PROVE  /\ msg2[j] \in 1 .. n + 1
               /\ place2[j] \in 1 .. EncodedLen(sent'[msg2[j]])
               /\ stream'[j] = Encoding(msg2[j], sent'[msg2[j]])[place2[j]]
    <3>1. CASE j <= L
      <4>1. stream[j] = Encoding(msgOf[j], sent[msgOf[j]])[placeOf[j]]
        BY <1>2, <2>1, <3>1 DEF Chain
      <4>2. j \in 1 .. L
        BY <3>1
      <4>3. stream'[j] = stream[j] /\ msg2[j] = msgOf[j] /\ place2[j] = placeOf[j]
        BY <1>5, <2>4, <4>2
      <4>4. msgOf[j] \in 1 .. n + 1 /\ sent'[msgOf[j]] = sent[msgOf[j]]
        <5>1. msgOf[j] \in 1 .. n /\ sent'[msgOf[j]] = sent[msgOf[j]]
          BY <2>7, <4>2
        <5>2. 1 .. n \subseteq 1 .. n + 1
          OBVIOUS
        <5>3. QED
          BY <5>1, <5>2
      <4>5. placeOf[j] \in 1 .. EncodedLen(sent[msgOf[j]])
        BY <2>7, <4>2
      <4>6. QED
        BY <4>1, <4>3, <4>4, <4>5, Zenon
    <3>2. CASE j > L
      BY <1>3, <1>4, <1>5, <2>4, <3>2
    <3>3. j <= L \/ j > L
      OBVIOUS
    <3>4. QED
      BY <3>1, <3>2, <3>3
  <2>9. ASSUME NEW j \in 1 .. L + k, NEW h \in 1 .. L + k, j <= h,
               place2[j] + (h - j) <= EncodedLen(sent'[msg2[j]])
        PROVE  msg2[h] = msg2[j] /\ place2[h] = place2[j] + (h - j)
    <3>1. CASE h <= L
      <4>1. j \in 1 .. L /\ h \in 1 .. L
        BY <2>9, <3>1
      <4>2. placeOf[j] + (h - j) <= EncodedLen(sent[msgOf[j]])
        BY <2>4, <2>7, <2>9, <4>1
      <4>3. msgOf[h] = msgOf[j] /\ placeOf[h] = placeOf[j] + (h - j)
        BY <1>2, <2>1, <2>9, <4>1, <4>2 DEF Chain
      <4>4. QED
        BY <2>4, <4>1, <4>3
    <3>2. CASE j > L
      BY <2>4, <2>9, <3>2
    <3>3. CASE j <= L /\ h > L
      <4>1. j \in 1 .. L /\ L \in 1 .. L /\ L > 0
        BY <3>3
      <4>2. placeOf[j] \in Nat /\ EncodedLen(sent[msgOf[j]]) \in Nat
        BY <2>7, <4>1
      <4>3. placeOf[j] + (h - j) <= EncodedLen(sent[msgOf[j]])
        BY <2>4, <2>7, <2>9, <4>1
      <4>4. placeOf[j] + (L - j) < EncodedLen(sent[msgOf[j]])
        BY <3>3, <4>2, <4>3
      <4>5. msgOf[L] = msgOf[j] /\ placeOf[L] = placeOf[j] + (L - j)
        <5>1. j <= L /\ placeOf[j] + (L - j) <= EncodedLen(sent[msgOf[j]])
          BY <3>3, <4>2, <4>4
        <5>2. Chain(msgOf, placeOf)
          BY <2>1
        <5>3. QED
          BY <1>2, <4>1, <5>1, <5>2, Zenon DEF Chain
      <4>6. placeOf[L] = EncodedLen(sent[msgOf[j]])
        BY <2>6, <4>1, <4>5
      <4>7. QED
        BY <4>2, <4>4, <4>5, <4>6
    <3>4. QED
      BY <3>1, <3>2, <3>3
  <2>10. ASSUME NEW j \in 1 .. L + k - 1, place2[j] = EncodedLen(sent'[msg2[j]])
         PROVE  msg2[j + 1] = msg2[j] + 1 /\ place2[j + 1] = 1
    <3>1. CASE j < L
      <4>1. j \in 1 .. L - 1 /\ j \in 1 .. L /\ j + 1 \in 1 .. L
        BY <3>1
      <4>2. placeOf[j] = EncodedLen(sent[msgOf[j]])
        BY <2>4, <2>7, <2>10, <4>1
      <4>3. msgOf[j + 1] = msgOf[j] + 1 /\ placeOf[j + 1] = 1
        BY <1>2, <2>1, <4>1, <4>2 DEF Chain
      <4>4. QED
        BY <2>4, <4>1, <4>3
    <3>2. CASE j = L
      BY <2>4, <2>6, <3>2
    <3>3. CASE j > L
      <4>1. j \in 1 .. L + k /\ j - L < k
        BY <1>4, <3>3
      <4>2. msg2[j] = n + 1 /\ place2[j] = j - L
        BY <2>4, <3>3, <4>1
      <4>3. place2[j] = EncodedLen(size)
        BY <1>3, <2>10, <4>2
      <4>4. QED
        BY <1>4, <4>1, <4>2, <4>3
    <3>4. QED
      BY <3>1, <3>2, <3>3
  <2>11. Chain(msg2, place2)'
    <3>1. Len(stream') = L + k /\ Len(sent') = n + 1
      BY <1>3, <1>5
    <3>2. \A j \in 1 .. Len(stream') :
            /\ msg2[j] \in 1 .. Len(sent')
            /\ place2[j] \in 1 .. EncodedLen(sent'[msg2[j]])
            /\ stream'[j] = Encoding(msg2[j], sent'[msg2[j]])[place2[j]]
      BY <2>8, <3>1, Zenon
    <3>3. \A j, h \in 1 .. Len(stream') :
            j <= h /\ place2[j] + (h - j) <= EncodedLen(sent'[msg2[j]]) =>
              msg2[h] = msg2[j] /\ place2[h] = place2[j] + (h - j)
      BY <2>9, <3>1, Zenon
    <3>4. \A j \in 1 .. Len(stream') - 1 :
            place2[j] = EncodedLen(sent'[msg2[j]]) => msg2[j + 1] = msg2[j] + 1 /\ place2[j + 1] = 1
      <4>1. Len(stream') - 1 = L + k - 1
        BY <3>1
      <4>2. QED
        BY <2>10, <4>1, Zenon
    <3>5. QED
      BY <3>2, <3>3, <3>4 DEF Chain
  <2>12. Starts(q, msg2, place2)'
    <3>1. NextMsg' = NextMsg /\ NextPlace(q)' = NextPlace(q)
      BY DEF NextMsg, NextPlace, Index
    <3>2. CASE L > 0
      <4>1. stream # <<>> /\ 1 \in 1 .. L
        BY <1>2, <3>2
      <4>2. QED
        BY <2>1, <2>4, <3>1, <4>1 DEF Starts
    <3>3. CASE L = 0
      <4>1. stream = <<>>
        BY <1>2, <3>3, EmptySeq DEF TypeInv
      <4>2. NextMsg = n + 1 /\ NextPlace(q) = 1
        BY <1>1, <2>1, <4>1 DEF Ends
      <4>3. stream' # <<>> => 1 \in 1 .. L + k /\ 1 > L /\ 1 - L = 1
        BY <1>5, <3>3
      <4>4. QED
        BY <2>4, <3>1, <4>2, <4>3 DEF Starts
    <3>4. QED
      BY <3>2, <3>3
  <2>13. Ends(q, msg2, place2)'
    <3>1. SUFFICES ASSUME k = EncodedLen(size)
                   PROVE  /\ stream' # <<>>
                          /\ msg2[L + k] = n + 1 /\ place2[L + k] = k
      BY <1>3, <1>5 DEF Ends
    <3>2. L + k \in 1 .. L + k /\ L + k > L /\ L + k - L = k
      BY <1>4, <3>1
    <3>3. stream' # <<>>
      <4>1. Len(stream') # 0
        BY <1>4, <1>5, <3>1
      <4>2. QED
        BY <4>1, EmptySeq
    <3>4. msg2[L + k] = n + 1 /\ place2[L + k] = L + k - L
      BY <2>4, <3>2
    <3>5. QED
      BY <3>2, <3>3, <3>4
  <2>14. QED
    BY <2>4, <2>5, <2>11, <2>12, <2>13 DEF StreamInv
<1>10. QED
  BY <1>6, <1>7, <1>8, <1>9

\* Taking bytes off the stream leaves the labels of the others.
LEMMA Drop ==
  ASSUME IInv, NEW m \in 0 .. Len(stream), sent' = sent,
         stream' = SubSeq(stream, m + 1, Len(stream)),
         NEW msgOf \in [1 .. Len(stream) -> Nat], NEW placeOf \in [1 .. Len(stream) -> Nat],
         Chain(msgOf, placeOf)
  PROVE  /\ stream' \in Seq(Bytes) /\ Len(stream') = Len(stream) - m
         /\ \E msg2, place2 \in [1 .. Len(stream') -> Nat] :
              /\ Chain(msg2, place2)'
              /\ \A j \in 1 .. Len(stream') : msg2[j] = msgOf[j + m] /\ place2[j] = placeOf[j + m]
<1> USE DEF IInv
<1>1. PICK L \in Nat : L = Len(stream)
  BY DEF TypeInv
<1>2. m \in Nat /\ m <= L
  BY <1>1
<1>3. PICK K \in Nat : K = L - m
  BY <1>2
<1>4. /\ stream' \in Seq(Bytes) /\ Len(stream') = K
      /\ \A j \in 1 .. K : stream'[j] = stream[j + m]
  <2>1. stream \in Seq(Bytes) /\ \A j \in m + 1 .. L : stream[j] \in Bytes
    BY <1>1, <1>2 DEF TypeInv
  <2>2. /\ SubSeq(stream, m + 1, L) \in Seq(Bytes)
        /\ Len(SubSeq(stream, m + 1, L)) = IF m + 1 <= L THEN L - (m + 1) + 1 ELSE 0
        /\ \A j \in 1 .. L - (m + 1) + 1 : SubSeq(stream, m + 1, L)[j] = stream[m + 1 + j - 1]
    BY <1>1, <1>2, <2>1, SubSeqProperties
  <2>3. L - (m + 1) + 1 = K /\ (m + 1 <= L \/ K = 0)
    BY <1>1, <1>2, <1>3
  <2>4. stream' = SubSeq(stream, m + 1, L)
    BY <1>1
  <2>5. \A j \in 1 .. K : m + 1 + j - 1 = j + m
    BY <1>2
  <2>6. stream' \in Seq(Bytes) /\ Len(stream') = K
    BY <1>1, <1>2, <1>3, <2>2, <2>3, <2>4
  <2>7. ASSUME NEW j \in 1 .. K
        PROVE  stream'[j] = stream[j + m]
    BY <2>2, <2>3, <2>4, <2>5
  <2>8. QED
    BY <2>6, <2>7
<1>5. PICK msg2 : msg2 = [j \in 1 .. K |-> msgOf[j + m]]
  OBVIOUS
<1>6. PICK place2 : place2 = [j \in 1 .. K |-> placeOf[j + m]]
  OBVIOUS
<1>7. \A j \in 1 .. K : j + m \in 1 .. L
  BY <1>1, <1>2, <1>3
<1>8. /\ msg2 \in [1 .. K -> Nat] /\ place2 \in [1 .. K -> Nat]
      /\ \A j \in 1 .. K : msg2[j] = msgOf[j + m] /\ place2[j] = placeOf[j + m]
  BY <1>1, <1>5, <1>6, <1>7
<1>9. ASSUME NEW j \in 1 .. K
      PROVE  /\ msg2[j] \in 1 .. Len(sent)
             /\ place2[j] \in 1 .. EncodedLen(sent[msg2[j]])
             /\ stream'[j] = Encoding(msg2[j], sent[msg2[j]])[place2[j]]
  <2>1. PICK i \in 1 .. L : i = j + m
    BY <1>7
  <2>2. stream'[j] = stream[i] /\ msg2[j] = msgOf[i] /\ place2[j] = placeOf[i]
    BY <1>4, <1>8, <2>1
  <2>3. /\ msgOf[i] \in 1 .. Len(sent)
        /\ placeOf[i] \in 1 .. EncodedLen(sent[msgOf[i]])
        /\ stream[i] = Encoding(msgOf[i], sent[msgOf[i]])[placeOf[i]]
    BY <1>1 DEF Chain
  <2>4. QED
    BY <2>2, <2>3, Zenon
<1>10. ASSUME NEW j \in 1 .. K, NEW h \in 1 .. K, j <= h,
              place2[j] + (h - j) <= EncodedLen(sent[msg2[j]])
       PROVE  msg2[h] = msg2[j] /\ place2[h] = place2[j] + (h - j)
  <2>1. PICK j2 \in 1 .. L : j2 = j + m
    BY <1>7
  <2>2. PICK h2 \in 1 .. L : h2 = h + m
    BY <1>7
  <2>3. j2 <= h2 /\ h2 - j2 = h - j
    BY <1>2, <1>10, <2>1, <2>2
  <2>4. /\ msg2[j] = msgOf[j2] /\ place2[j] = placeOf[j2]
        /\ msg2[h] = msgOf[h2] /\ place2[h] = placeOf[h2]
    BY <1>8, <2>1, <2>2
  <2>5. placeOf[j2] + (h2 - j2) <= EncodedLen(sent[msgOf[j2]])
    BY <1>10, <2>3, <2>4, Zenon
  <2>6. msgOf[h2] = msgOf[j2] /\ placeOf[h2] = placeOf[j2] + (h2 - j2)
    BY <1>1, <2>3, <2>5, Zenon DEF Chain
  <2>7. QED
    BY <2>3, <2>4, <2>6, Zenon
<1>11. ASSUME NEW j \in 1 .. K - 1, place2[j] = EncodedLen(sent[msg2[j]])
       PROVE  msg2[j + 1] = msg2[j] + 1 /\ place2[j + 1] = 1
  <2>1. PICK i \in 1 .. L - 1 : i = j + m
    BY <1>1, <1>2, <1>3
  <2>2. j \in 1 .. K /\ j + 1 \in 1 .. K /\ j + 1 + m = i + 1
    BY <1>2, <1>3, <2>1
  <2>3. /\ msg2[j] = msgOf[i] /\ place2[j] = placeOf[i]
        /\ msg2[j + 1] = msgOf[i + 1] /\ place2[j + 1] = placeOf[i + 1]
    BY <1>8, <2>1, <2>2
  <2>4. placeOf[i] = EncodedLen(sent[msgOf[i]])
    BY <1>11, <2>3, Zenon
  <2>5. msgOf[i + 1] = msgOf[i] + 1 /\ placeOf[i + 1] = 1
    BY <1>1, <2>4, Zenon DEF Chain
  <2>6. QED
    BY <2>3, <2>5, Zenon
<1>12. Chain(msg2, place2)'
  <2>1. \A j \in 1 .. Len(stream') :
          /\ msg2[j] \in 1 .. Len(sent')
          /\ place2[j] \in 1 .. EncodedLen(sent'[msg2[j]])
          /\ stream'[j] = Encoding(msg2[j], sent'[msg2[j]])[place2[j]]
    BY <1>4, <1>9, Zenon
  <2>2. \A j, h \in 1 .. Len(stream') :
          j <= h /\ place2[j] + (h - j) <= EncodedLen(sent'[msg2[j]]) =>
            msg2[h] = msg2[j] /\ place2[h] = place2[j] + (h - j)
    BY <1>4, <1>10, Zenon
  <2>3. \A j \in 1 .. Len(stream') - 1 :
          place2[j] = EncodedLen(sent'[msg2[j]]) => msg2[j + 1] = msg2[j] + 1 /\ place2[j + 1] = 1
    BY <1>4, <1>11, Zenon
  <2>4. QED
    BY <2>1, <2>2, <2>3 DEF Chain
<1>13. stream' \in Seq(Bytes) /\ Len(stream') = Len(stream) - m
  BY <1>1, <1>3, <1>4
<1>14. /\ msg2 \in [1 .. Len(stream') -> Nat] /\ place2 \in [1 .. Len(stream') -> Nat]
       /\ \A j \in 1 .. Len(stream') : msg2[j] = msgOf[j + m] /\ place2[j] = placeOf[j + m]
  BY <1>4, <1>8, Zenon
<1>15. QED
  BY <1>12, <1>13, <1>14, Zenon

\* The label of the byte after the next m bytes, which are of one message.
FollowMsg(msgOf, placeOf, m) ==
  IF placeOf[1] + m <= EncodedLen(sent[msgOf[1]]) THEN msgOf[1] ELSE msgOf[1] + 1

FollowPlace(msgOf, placeOf, m) ==
  IF placeOf[1] + m <= EncodedLen(sent[msgOf[1]]) THEN placeOf[1] + m ELSE 1

\* m bytes of a message are taken off; the next ones are of the same message,
\* or of the next one when these were the last.
LEMMA Advance ==
  ASSUME IInv, NEW msgOf \in [1 .. Len(stream) -> Nat], NEW placeOf \in [1 .. Len(stream) -> Nat],
         Chain(msgOf, placeOf), NEW m \in 1 .. Len(stream),
         placeOf[1] + m <= EncodedLen(sent[msgOf[1]]) + 1,
         sender = "ok" => /\ msgOf[Len(stream)] = Len(sent)
                          /\ placeOf[Len(stream)] = EncodedLen(sent[Len(sent)]),
         sent' = sent, sender' = sender, stream' = SubSeq(stream, m + 1, Len(stream))
  PROVE  /\ \A j \in 1 .. m :
              stream[j] = Encoding(msgOf[1], sent[msgOf[1]])[placeOf[1] + (j - 1)]
         /\ stream' \in Seq(Bytes)
         /\ \E msg2, place2 \in [1 .. Len(stream') -> Nat] :
              /\ Chain(msg2, place2)'
              /\ stream' # <<>> => /\ msg2[1] = FollowMsg(msgOf, placeOf, m)
                                  /\ place2[1] = FollowPlace(msgOf, placeOf, m)
              /\ sender' = "ok" =>
                   IF stream' = <<>>
                   THEN /\ FollowMsg(msgOf, placeOf, m) = Len(sent') + 1
                        /\ FollowPlace(msgOf, placeOf, m) = 1
                   ELSE /\ msg2[Len(stream')] = Len(sent')
                        /\ place2[Len(stream')] = EncodedLen(sent'[Len(sent')])
<1> USE DEF IInv
<1>1. PICK L \in Nat : L = Len(stream) /\ L # 0
  BY DEF TypeInv
<1>2. m \in Nat /\ m # 0 /\ m <= L /\ m \in 0 .. Len(stream)
  BY <1>1
<1>3. 1 \in 1 .. Len(stream)
  BY <1>1
<1>4. PICK i \in 1 .. Len(sent) : i = msgOf[1]
  BY <1>3, Zenon DEF Chain
<1>5. PICK p \in Nat : p = placeOf[1]
  BY <1>3
<1>6. PICK ni \in Nat : ni = FollowMsg(msgOf, placeOf, m)
  BY <1>4 DEF FollowMsg, TypeInv
<1>7. PICK np \in Nat : np = FollowPlace(msgOf, placeOf, m)
  BY <1>2, <1>5 DEF FollowPlace
<1>8. PICK e \in Nat : e = EncodedLen(sent[i])
  <2>1. sent[i] \in Sizes /\ i \in Nat
    BY DEF TypeInv
  <2>2. EncodedLen(sent[i]) \in Nat
    BY <2>1, EncodingIs
  <2>3. QED
    BY <2>2
<1>9. /\ p + m <= EncodedLen(sent[i]) + 1
      /\ \/ p + m <= EncodedLen(sent[i]) /\ ni = i /\ np = p + m
         \/ p + m = EncodedLen(sent[i]) + 1 /\ ni = i + 1 /\ np = 1
  <2>1. p + m <= EncodedLen(sent[i]) + 1
    BY <1>4, <1>5
  <2>2. CASE p + m <= EncodedLen(sent[i])
    BY <1>4, <1>5, <1>6, <1>7, <2>2 DEF FollowMsg, FollowPlace
  <2>3. CASE ~(p + m <= EncodedLen(sent[i]))
    <3>1. p + m = EncodedLen(sent[i]) + 1
      <4>1. p + m <= e + 1 /\ ~(p + m <= e)
        BY <1>8, <2>1, <2>3
      <4>2. p + m = e + 1
        BY <1>2, <4>1
      <4>3. QED
        BY <1>8, <4>2
    <3>2. ni = i + 1 /\ np = 1
      BY <1>4, <1>5, <1>6, <1>7, <2>3 DEF FollowMsg, FollowPlace
    <3>3. QED
      BY <3>1, <3>2
  <2>4. QED
    BY <2>1, <2>2, <2>3
<1>10. \A h \in Nat : p + h <= EncodedLen(sent[i]) + 1 =>
        /\ \A j \in 1 .. Len(stream) : j <= h =>
             /\ msgOf[j] = i /\ placeOf[j] = p + (j - 1)
             /\ stream[j] = Encoding(i, sent[i])[p + (j - 1)]
        /\ h # 0 /\ p + h = EncodedLen(sent[i]) + 1 /\ h < Len(stream) =>
             msgOf[h + 1] = i + 1 /\ placeOf[h + 1] = 1
  <2> SUFFICES ASSUME NEW h \in Nat, p + h <= EncodedLen(sent[i]) + 1
               PROVE  /\ \A j \in 1 .. Len(stream) : j <= h =>
                           /\ msgOf[j] = i /\ placeOf[j] = p + (j - 1)
                           /\ stream[j] = Encoding(i, sent[i])[p + (j - 1)]
                      /\ h # 0 /\ p + h = EncodedLen(sent[i]) + 1 /\ h < Len(stream) =>
                           msgOf[h + 1] = i + 1 /\ placeOf[h + 1] = 1
    OBVIOUS
  <2>1. ASSUME NEW j \in 1 .. Len(stream), j <= h
        PROVE  /\ msgOf[j] = i /\ placeOf[j] = p + (j - 1)
               /\ stream[j] = Encoding(i, sent[i])[p + (j - 1)]
    <3>1. 1 \in 1 .. Len(stream) /\ 1 <= j /\ p + (j - 1) <= EncodedLen(sent[i])
      BY <1>1, <1>8, <2>1
    <3>2. placeOf[1] + (j - 1) <= EncodedLen(sent[msgOf[1]])
      BY <1>4, <1>5, <3>1
    <3>3. msgOf[j] = msgOf[1] /\ placeOf[j] = placeOf[1] + (j - 1)
      BY <3>1, <3>2, Zenon DEF Chain
    <3>4. stream[j] = Encoding(msgOf[j], sent[msgOf[j]])[placeOf[j]]
      BY Zenon DEF Chain
    <3>5. QED
      BY <1>4, <1>5, <3>3, <3>4
  <2>2. ASSUME h # 0, p + h = EncodedLen(sent[i]) + 1, h < Len(stream)
        PROVE  msgOf[h + 1] = i + 1 /\ placeOf[h + 1] = 1
    <3>1. h \in 1 .. Len(stream) /\ h \in 1 .. Len(stream) - 1 /\ h <= h
      BY <1>1, <2>2
    <3>2. msgOf[h] = i /\ placeOf[h] = p + (h - 1)
      BY <2>1, <3>1
    <3>3. placeOf[h] = EncodedLen(sent[i])
      BY <1>8, <2>2, <3>2
    <3>4. QED
      BY <3>1, <3>2, <3>3, Zenon DEF Chain
  <2>3. QED
    BY <2>1, <2>2
<1>11. /\ stream' \in Seq(Bytes) /\ Len(stream') = Len(stream) - m
      /\ \E msg2, place2 \in [1 .. Len(stream') -> Nat] :
           /\ Chain(msg2, place2)'
           /\ \A j \in 1 .. Len(stream') : msg2[j] = msgOf[j + m] /\ place2[j] = placeOf[j + m]
  BY <1>2, Drop
<1>12. PICK msg2 \in [1 .. Len(stream') -> Nat], place2 \in [1 .. Len(stream') -> Nat] :
        /\ Chain(msg2, place2)'
        /\ \A j \in 1 .. Len(stream') : msg2[j] = msgOf[j + m] /\ place2[j] = placeOf[j + m]
  BY <1>11
<1>13. PICK K \in Nat : K = Len(stream') /\ K = L - m
  <2>1. Len(stream') = Len(stream) - m
    BY <1>11, Zenon
  <2>2. L - m \in Nat
    BY <1>1, <1>2
  <2>3. L - m = Len(stream')
    BY <1>1, <2>1, Zenon
  <2>4. QED
    BY <2>2, <2>3, Zenon
<1>14. ASSUME stream' # <<>>
      PROVE  /\ msg2[1] = ni /\ place2[1] = np
             /\ msg2[K] = msgOf[L] /\ place2[K] = placeOf[L]
  <2>1. K # 0
    BY <1>11, <1>13, <1>14, EmptySeq
  <2>2. 1 \in 1 .. K /\ K \in 1 .. K /\ K + m = L /\ m < L /\ 1 + m = m + 1
    BY <1>2, <1>13, <2>1
  <2>3. /\ msg2[1] = msgOf[m + 1] /\ place2[1] = placeOf[m + 1]
        /\ msg2[K] = msgOf[L] /\ place2[K] = placeOf[L]
    <3>1. msg2[1] = msgOf[1 + m] /\ place2[1] = placeOf[1 + m]
      BY <1>12, <1>13, <2>2, Zenon
    <3>2. msg2[K] = msgOf[K + m] /\ place2[K] = placeOf[K + m]
      BY <1>12, <1>13, <2>2, Zenon
    <3>3. QED
      BY <2>2, <3>1, <3>2, Zenon
  <2>4. CASE p + m <= EncodedLen(sent[i]) /\ ni = i /\ np = p + m
    <3>1. PICK m1 \in Nat : m1 = m + 1
      BY <1>2
    <3>2. p + m1 <= EncodedLen(sent[i]) + 1 /\ m1 \in 1 .. Len(stream) /\ m1 <= m1 /\ m1 - 1 = m
      BY <1>1, <1>2, <1>8, <2>2, <2>4, <3>1
    <3>3. msgOf[m1] = i /\ placeOf[m1] = p + (m1 - 1)
      BY <1>10, <3>2
    <3>4. QED
      BY <1>9, <2>3, <2>4, <3>1, <3>2, <3>3
  <2>5. CASE p + m = EncodedLen(sent[i]) + 1 /\ ni = i + 1 /\ np = 1
    <3>1. msgOf[m + 1] = i + 1 /\ placeOf[m + 1] = 1
      BY <1>1, <1>2, <1>9, <1>10, <2>2, <2>5
    <3>2. QED
      BY <2>3, <2>5, <3>1
  <2>6. QED
    BY <1>9, <2>3, <2>4, <2>5
<1>15. ASSUME stream' = <<>>, sender = "ok"
      PROVE  ni = Len(sent) + 1 /\ np = 1
  <2>1. K = 0
    BY <1>13, <1>15
  <2>2. m = L /\ m \in 1 .. Len(stream) /\ m <= m
    BY <1>1, <1>2, <1>13, <2>1
  <2>3. msgOf[m] = i /\ placeOf[m] = p + (m - 1)
    BY <1>2, <1>9, <1>10, <2>2
  <2>4. i = Len(sent) /\ e = p + (m - 1)
    BY <1>1, <1>8, <1>15, <2>2, <2>3
  <2>5. QED
    BY <1>2, <1>8, <1>9, <2>4
<1>16. sender' = "ok" =>
         IF stream' = <<>>
         THEN ni = Len(sent') + 1 /\ np = 1
         ELSE /\ msg2[Len(stream')] = Len(sent')
              /\ place2[Len(stream')] = EncodedLen(sent'[Len(sent')])
  <2>1. CASE stream' = <<>>
    BY <1>15, <2>1
  <2>2. CASE stream' # <<>>
    BY <1>1, <1>13, <1>14, <2>2, Zenon
  <2>3. QED
    BY <2>1, <2>2
<1>17. stream' # <<>> => msg2[1] = ni /\ place2[1] = np
  BY <1>14
<1>18. \A j \in 1 .. m : stream[j] = Encoding(i, sent[i])[p + (j - 1)]
  <2>1. \A j \in 1 .. m : j \in 1 .. Len(stream) /\ j <= m
    BY <1>1, <1>2
  <2>2. QED
    BY <1>2, <1>9, <1>10, <1>4, <1>5, <2>1, Zenon
<1>19. \A j \in 1 .. m :
         stream[j] = Encoding(msgOf[1], sent[msgOf[1]])[placeOf[1] + (j - 1)]
  BY <1>18, <1>4, <1>5, Zenon
<1>20. stream' \in Seq(Bytes)
  BY <1>11
<1>21. QED
  BY <1>12, <1>16, <1>17, <1>19, <1>20, <1>6, <1>7, Zenon

-----------------------------------------------------------------------------
\* Initially nothing has been sent or read.
LEMMA InitInv == Init => IInv
<1> SUFFICES ASSUME Init PROVE IInv
  OBVIOUS
<1>1. /\ sent = <<>> /\ stream = <<>> /\ received = <<>> /\ got = <<>>
      /\ Len(sent) = 0 /\ Len(stream) = 0 /\ Len(received) = 0 /\ Len(got) = 0
      /\ sender = "ok" /\ phase = "header" /\ need = 0 /\ last = FALSE /\ why = "none"
  BY DEF Init
<1>2. TypeInv
  <2>1. sent \in Seq(Sizes) /\ stream \in Seq(Bytes) /\ received \in Seq(Payloads)
    <3>1. \A S : <<>> \in Seq(S)
      OBVIOUS
    <3>2. QED
      BY <1>1, <3>1, Zenon
  <2>2. QED
    BY <1>1, <2>1 DEF TypeInv
<1>3. DeliveredIntact /\ MemoryBounded /\ SizeInv
  BY <1>1, RecordMarkingAssumption DEF DeliveredIntact, MemoryBounded, SizeInv
<1>4. Index = 1 /\ 0 * MaxSegment = 0 /\ 0 * Full = 0
  BY <1>1, RecordMarkingAssumption DEF Index, Full, HeaderLen
<1>5. Payload(1, 0, 0) = <<>>
  BY EmptyPayload
<1>6. Reading(0)
  BY <1>1, <1>4, <1>5 DEF Reading
<1>7. PICK none : none = [j \in 1 .. Len(stream) |-> 1]
  OBVIOUS
<1>8. none \in [1 .. Len(stream) -> Nat]
  BY <1>7
<1>9. Chain(none, none)
  BY <1>1 DEF Chain
<1>10. Starts(0, none, none)
  BY <1>1 DEF Starts
<1>11. Ends(0, none, none)
  BY <1>1, <1>4 DEF Ends, NextMsg, NextPlace
<1>12. StreamInv
  BY <1>6, <1>8, <1>9, <1>10, <1>11 DEF StreamInv
<1>13. QED
  BY <1>2, <1>3, <1>12 DEF IInv

\* Send writes all of the message.
LEMMA SendInv ==
  ASSUME IInv, NEW size \in Sizes, Send(size)
  PROVE  IInv'
<1>1. PICK n \in Nat : n = Len(sent)
  BY DEF IInv, TypeInv
<1>2. /\ Encoding(n + 1, size) \in Seq(Bytes) /\ Len(Encoding(n + 1, size)) = EncodedLen(size)
      /\ EncodedLen(size) \in Nat
  BY <1>1, EncodingIs
<1>3. SubSeq(Encoding(n + 1, size), 1, EncodedLen(size)) = Encoding(n + 1, size)
  <2>1. PICK e : e = Encoding(n + 1, size)
    OBVIOUS
  <2>2. e \in Seq(Bytes) /\ Len(e) = EncodedLen(size)
    BY <1>2, <2>1
  <2>3. SubSeq(e, 1, Len(e)) = e
    BY <2>2, SubSeqFull
  <2>4. QED
    BY <2>1, <2>2, <2>3
<1>4. /\ sender = "ok" /\ sender' = "ok" /\ sent' = Append(sent, size)
      /\ UNCHANGED <<phase, got, need, last, why, received>>
  BY DEF Send
<1>5. stream' = stream \o SubSeq(Encoding(Len(sent) + 1, size), 1, EncodedLen(size))
  BY <1>1, <1>3 DEF Send
<1>6. EncodedLen(size) \in 0 .. EncodedLen(size)
  BY <1>2
<1>7. QED
  BY <1>4, <1>5, <1>6, WriteInv

\* A Send that fails has written the first bytes of the message, or none.
LEMMA SendFailsInv ==
  ASSUME IInv, NEW size \in Sizes, NEW k \in 0 .. Len(Encoding(1, size)), SendFails(size, k)
  PROVE  IInv'
<1>1. PICK n \in Nat : n = Len(sent)
  BY DEF IInv, TypeInv
<1>2. /\ Len(Encoding(n + 1, size)) = EncodedLen(size) /\ EncodedLen(size) \in Nat
      /\ Len(Encoding(1, size)) = EncodedLen(size)
  BY <1>1, EncodingIs
<1>3. k \in 0 .. EncodedLen(size)
  BY <1>2
<1>4. /\ sender = "ok" /\ sender' = "failed" /\ sent' = Append(sent, size)
      /\ UNCHANGED <<phase, got, need, last, why, received>>
      /\ stream' = stream \o SubSeq(Encoding(Len(sent) + 1, size), 1, k)
  BY DEF SendFails
<1>5. QED
  BY <1>3, <1>4, WriteInv

\* A Receive that fails keeps nothing of the message it was reading.
LEMMA FailInv ==
  ASSUME IInv, NEW reason \in {"short", "size", "end", "error"}, Fail(reason),
         sent' = sent, sender' = sender, received' = received, stream' \in Seq(Bytes),
         reason = "size" => Index <= Len(sent) /\ sent[Index] > MaxMsgSize
  PROVE  IInv'
<1>1. /\ phase' = "failed" /\ why' = reason /\ got' = <<>> /\ Len(got') = 0 /\ need' = 0
      /\ last' = FALSE
  BY DEF Fail
<1>2. TypeInv'
  BY <1>1 DEF IInv, TypeInv
<1>3. DeliveredIntact'
  BY DEF IInv, DeliveredIntact
<1>4. MemoryBounded'
  BY <1>1, RecordMarkingAssumption DEF IInv, MemoryBounded
<1>5. SizeInv'
  BY <1>1 DEF SizeInv, Index
<1>6. QED
  BY <1>1, <1>2, <1>3, <1>4, <1>5 DEF IInv

\* A short read, the end of the connection, an error: Receive fails.
LEMMA ReadPartHeaderInv ==
  ASSUME IInv, NEW k \in 1 .. HeaderLen - 1, ReadPartHeader(k)
  PROVE  IInv'
<1>1. stream \in Seq(Bytes) /\ k \in 1 .. 3 /\ k <= Len(stream)
  BY DEF IInv, TypeInv, ReadPartHeader, HeaderLen
<1>2. SubSeq(stream, k + 1, Len(stream)) \in Seq(Bytes)
  <2>1. \A j \in k + 1 .. Len(stream) : stream[j] \in Bytes
    BY <1>1
  <2>2. QED
    BY <1>1, <2>1, SubSeqProperties
<1>3. QED
  BY <1>2, FailInv DEF ReadPartHeader

\* The connection has ended.
LEMMA ReadEndsInv ==
  ASSUME IInv, ReadEnds
  PROVE  IInv'
<1>1. stream' \in Seq(Bytes)
  BY DEF IInv, TypeInv, ReadEnds
<1>2. QED
  BY <1>1, FailInv DEF ReadEnds

\* A read error, or Close.
LEMMA ReadFailsInv ==
  ASSUME IInv, ReadFails
  PROVE  IInv'
<1>1. stream' \in Seq(Bytes)
  BY DEF IInv, TypeInv, ReadFails
<1>2. QED
  BY <1>1, FailInv DEF ReadFails

\* Closing the sender leaves what it has written to be read.
LEMMA SenderClosesInv ==
  ASSUME IInv, SenderCloses
  PROVE  IInv'
<1>1. /\ sender' = "failed"
      /\ UNCHANGED <<sent, stream, phase, got, need, last, why, received>>
  BY DEF SenderCloses
<1>2. TypeInv' /\ DeliveredIntact' /\ MemoryBounded' /\ SizeInv'
  BY <1>1 DEF IInv, TypeInv, DeliveredIntact, MemoryBounded, SizeInv, Index
<1>3. ASSUME phase # "failed"
      PROVE  StreamInv'
  <2>1. PICK q \in Nat, msgOf \in [1 .. Len(stream) -> Nat],
             placeOf \in [1 .. Len(stream) -> Nat] :
          Reading(q) /\ Chain(msgOf, placeOf) /\ Starts(q, msgOf, placeOf)
    BY <1>3 DEF IInv, StreamInv
  <2>2. Reading(q)'
    BY <1>1, <2>1 DEF Reading, Index
  <2>3. Chain(msgOf, placeOf)'
    BY <1>1, <2>1 DEF Chain
  <2>4. Starts(q, msgOf, placeOf)'
    BY <1>1, <2>1 DEF Starts, NextMsg, NextPlace, Index
  <2>5. Ends(q, msgOf, placeOf)'
    BY <1>1 DEF Ends
  <2>6. QED
    BY <1>1, <2>2, <2>3, <2>4, <2>5 DEF StreamInv
<1>4. QED
  BY <1>1, <1>2, <1>3 DEF IInv

\* Steps that change nothing.
LEMMA StutterInv ==
  ASSUME IInv, UNCHANGED vars
  PROVE  IInv'
<1>1. TypeInv' /\ DeliveredIntact' /\ MemoryBounded' /\ SizeInv'
  BY DEF IInv, TypeInv, DeliveredIntact, MemoryBounded, SizeInv, Index, vars
<1>2. ASSUME phase # "failed"
      PROVE  StreamInv'
  <2>1. PICK q \in Nat, msgOf \in [1 .. Len(stream) -> Nat],
             placeOf \in [1 .. Len(stream) -> Nat] :
          Reading(q) /\ Chain(msgOf, placeOf) /\ Starts(q, msgOf, placeOf) /\ Ends(q, msgOf, placeOf)
    BY <1>2 DEF IInv, StreamInv
  <2>2. UNCHANGED <<sent, sender, stream, phase, got, need, last, received>>
    BY DEF vars
  <2>3. Reading(q)'
    BY <2>1, <2>2 DEF Reading, Index
  <2>4. Chain(msgOf, placeOf)'
    BY <2>1, <2>2 DEF Chain
  <2>5. Starts(q, msgOf, placeOf)' /\ Ends(q, msgOf, placeOf)'
    BY <2>1, <2>2 DEF Starts, Ends, NextMsg, NextPlace, Index
  <2>6. QED
    BY <2>2, <2>3, <2>4, <2>5 DEF StreamInv
<1>3. QED
  BY <1>1, <1>2 DEF IInv, vars

\* A header is read: it is the header of the next fragment of the message
\* being read, whose length is then held against the limit.
LEMMA ReadHeaderInv ==
  ASSUME IInv, ReadHeader
  PROVE  IInv'
<1>1. /\ phase = "header" /\ Len(stream) >= 4
      /\ stream' = SubSeq(stream, 4 + 1, Len(stream))
      /\ sent' = sent /\ sender' = sender /\ received' = received
  BY DEF ReadHeader, HeaderLen
<1>2. TypeInv /\ StreamInv
  BY <1>1 DEF IInv
<1>3. PICK q \in Nat, msgOf \in [1 .. Len(stream) -> Nat],
           placeOf \in [1 .. Len(stream) -> Nat] :
        Reading(q) /\ Chain(msgOf, placeOf) /\ Starts(q, msgOf, placeOf) /\ Ends(q, msgOf, placeOf)
  BY <1>2 DEF StreamInv
<1>4. Len(stream) \in Nat /\ stream # <<>> /\ 1 \in 1 .. Len(stream) /\ 4 \in 1 .. Len(stream)
  BY <1>1, <1>2, EmptySeq DEF TypeInv
<1>5. msgOf[1] = Index /\ placeOf[1] = q * Full + 1
  BY <1>1, <1>3, <1>4 DEF Starts, NextMsg, NextPlace
<1>6. Index \in 1 .. Len(sent) /\ stream[1] = Encoding(Index, sent[Index])[q * Full + 1]
  <2>1. msgOf[1] \in 1 .. Len(sent) /\ stream[1] = Encoding(msgOf[1], sent[msgOf[1]])[placeOf[1]]
    BY <1>3, <1>4, Zenon DEF Chain
  <2>2. QED
    BY <1>5, <2>1
<1>7. PICK i \in 1 .. Len(sent) : i = Index
  BY <1>6
<1>8. PICK size \in Nat : size = sent[i]
  BY <1>2, <1>7, EncodingIs DEF TypeInv
<1>9. size \in Sizes /\ i \in Nat
  BY <1>2, <1>7, <1>8 DEF TypeInv
<1>10. HasFragment(size, q)
  BY <1>3, <1>7, <1>8 DEF Reading, HasFragment
<1>11. PICK n \in Nat : n = Piece(size, q * MaxSegment)
  BY <1>8, <1>10, FragmentsFit
<1>12. PICK f \in Nat : f = q * MaxSegment
  BY <1>8, <1>10, FragmentsFit
<1>13. PICK g \in Nat : g = q * Full
  BY <1>8, <1>10, FragmentsFit
<1>14. PICK e \in Nat : e = EncodedLen(size)
  BY <1>8, <1>10, FragmentsFit
<1>15. /\ n + f <= size
       /\ size - f <= MaxSegment => e = g + 4 + n
       /\ size - f > MaxSegment => e > g + 4 + n + 4 /\ n > 0
       /\ n = 0 => size = 0 /\ q = 0
  <2>1. /\ size - f <= MaxSegment => n = size - f /\ e = g + 4 + n
        /\ size - f > MaxSegment => n = MaxSegment /\ e > (g + 4 + MaxSegment) + 4
        /\ n = 0 => size = 0 /\ q = 0
    <3>1. HeaderLen = 4
      BY DEF HeaderLen
    <3>2. QED
      BY <1>8, <1>10, <1>11, <1>12, <1>13, <1>14, <3>1, FragmentsFit
  <2>2. /\ MaxSegment \in Nat /\ MaxSegment > 0
        /\ n \in Nat /\ f \in Nat /\ size \in Nat /\ e \in Nat /\ g \in Nat
    BY RecordMarkingAssumption
  <2>3. n + f <= size
    BY <2>1, <2>2
  <2>4. size - f > MaxSegment => e > g + 4 + n + 4 /\ n > 0
    BY <2>1, <2>2
  <2>5. QED
    BY <2>1, <2>3, <2>4
<1>16. Head(stream) = Header(i, size, f)
  <2>1. Encoding(i, size)[q * Full + 1] = Header(i, size, q * MaxSegment)
    BY <1>9, <1>10, FirstOfHeader, Zenon
  <2>2. stream[1] = Header(i, size, f)
    BY <1>6, <1>7, <1>8, <1>12, <2>1
  <2>3. Head(stream) = stream[1]
    BY <1>2, <1>4 DEF TypeInv
  <2>4. QED
    BY <2>2, <2>3
<1>17. Head(stream).len = n /\ Head(stream).last = (size - f <= MaxSegment)
  BY <1>11, <1>12, <1>16 DEF Header
<1>18. got = Payload(i, 0, f) /\ Len(got) = f
  <2>1. got = Payload(i, 0, f)
    BY <1>3, <1>7, <1>12 DEF Reading
  <2>2. QED
    BY <1>12, <2>1, PayloadIs
<1>19. PICK ni \in Nat : ni = IF n = 0 THEN i + 1 ELSE i
  BY <1>9
<1>20. PICK np \in Nat : np = IF n = 0 THEN 1 ELSE g + 5
  BY <1>13
<1>21. /\ placeOf[1] + 4 <= EncodedLen(sent[msgOf[1]]) + 1
       /\ FollowMsg(msgOf, placeOf, 4) = ni /\ FollowPlace(msgOf, placeOf, 4) = np
  <2>1. EncodedLen(sent[msgOf[1]]) = e /\ msgOf[1] = i /\ placeOf[1] = g + 1
    BY <1>5, <1>7, <1>8, <1>13, <1>14
  <2>2. placeOf[1] + 4 = g + 5
    BY <1>13, <2>1
  <2>3. CASE n = 0
    <3>1. e = g + 4
      <4>1. size - f <= MaxSegment
        BY <1>15, <2>3, RecordMarkingAssumption
      <4>2. e = g + 4 + n
        BY <1>15, <4>1
      <4>3. QED
        BY <2>3, <4>2
    <3>2. ~(g + 5 <= e) /\ g + 5 <= e + 1
      BY <1>13, <3>1
    <3>3. QED
      BY <1>19, <1>20, <2>1, <2>2, <2>3, <3>2, Zenon DEF FollowMsg, FollowPlace
  <2>4. CASE n # 0
    <3>1. e >= g + 5
      <4>1. /\ MaxSegment \in Nat /\ n > 0
            /\ n \in Nat /\ f \in Nat /\ size \in Nat /\ e \in Nat /\ g \in Nat
        BY <2>4, RecordMarkingAssumption
      <4>2. size - f <= MaxSegment \/ size - f > MaxSegment
        BY <4>1
      <4>3. e >= g + 4 + n
        BY <1>15, <4>1, <4>2
      <4>4. QED
        BY <4>1, <4>3
    <3>2. g + 5 <= e /\ g + 5 <= e + 1
      BY <1>13, <1>14, <3>1
    <3>3. QED
      BY <1>19, <1>20, <2>1, <2>2, <2>4, <3>2, Zenon DEF FollowMsg, FollowPlace
  <2>5. QED
    BY <2>3, <2>4
<1>22. sender = "ok" => /\ msgOf[Len(stream)] = Len(sent)
                        /\ placeOf[Len(stream)] = EncodedLen(sent[Len(sent)])
  BY <1>3, <1>4 DEF Ends
<1>23. /\ stream' \in Seq(Bytes)
       /\ \E msg2, place2 \in [1 .. Len(stream') -> Nat] :
            /\ Chain(msg2, place2)'
            /\ stream' # <<>> => msg2[1] = ni /\ place2[1] = np
            /\ sender' = "ok" =>
                 IF stream' = <<>>
                 THEN ni = Len(sent') + 1 /\ np = 1
                 ELSE /\ msg2[Len(stream')] = Len(sent')
                      /\ place2[Len(stream')] = EncodedLen(sent'[Len(sent')])
  <2>1. /\ Chain(msgOf, placeOf) /\ 4 \in 1 .. Len(stream)
        /\ sent' = sent /\ sender' = sender /\ stream' = SubSeq(stream, 4 + 1, Len(stream))
    BY <1>1, <1>3, <1>4
  <2>2. placeOf[1] + 4 <= EncodedLen(sent[msgOf[1]]) + 1
    BY <1>21
  <2>3. /\ stream' \in Seq(Bytes)
        /\ \E msg2, place2 \in [1 .. Len(stream') -> Nat] :
              /\ Chain(msg2, place2)'
              /\ stream' # <<>> => /\ msg2[1] = FollowMsg(msgOf, placeOf, 4)
                                  /\ place2[1] = FollowPlace(msgOf, placeOf, 4)
              /\ sender' = "ok" =>
                   IF stream' = <<>>
                   THEN /\ FollowMsg(msgOf, placeOf, 4) = Len(sent') + 1
                        /\ FollowPlace(msgOf, placeOf, 4) = 1
                   ELSE /\ msg2[Len(stream')] = Len(sent')
                        /\ place2[Len(stream')] = EncodedLen(sent'[Len(sent')])
    BY <1>22, <2>1, <2>2, Advance
  <2>4. QED
    BY <1>21, <2>3, Zenon
<1>24. CASE TooLong(Head(stream).len)
  <2>1. Fail("size")
    BY <1>24 DEF ReadHeader
  <2>2. n > MaxMsgSize - f
    BY <1>17, <1>18, <1>24 DEF TooLong
  <2>3. Index <= Len(sent) /\ sent[Index] > MaxMsgSize
    <3>1. size > MaxMsgSize
      BY <1>8, <1>11, <1>12, <1>15, <2>2, RecordMarkingAssumption
    <3>2. QED
      BY <1>2, <1>7, <1>8, <3>1 DEF TypeInv
  <2>4. QED
    BY <1>1, <1>23, <2>1, <2>3, FailInv
<1>25. CASE ~TooLong(Head(stream).len)
  <2>1. /\ phase' = "body" /\ need' = n /\ last' = (size - f <= MaxSegment)
        /\ got' = got /\ why' = why
    BY <1>17, <1>25 DEF ReadHeader
  <2>2. ~(n > MaxMsgSize - f)
    BY <1>17, <1>18, <1>25 DEF TooLong
  <2>3. TypeInv'
    BY <1>1, <1>2, <1>11, <1>23, <2>1 DEF TypeInv
  <2>4. DeliveredIntact'
    BY <1>1 DEF IInv, DeliveredIntact
  <2>5. MemoryBounded'
    <3>1. Len(got') + need' <= MaxMsgSize
      BY <1>11, <1>12, <1>18, <2>1, <2>2, RecordMarkingAssumption
    <3>2. QED
      BY <1>1, <3>1 DEF IInv, MemoryBounded
  <2>6. SizeInv'
    BY <1>1, <2>1 DEF IInv, SizeInv
  <2>7. PICK msg2 \in [1 .. Len(stream') -> Nat], place2 \in [1 .. Len(stream') -> Nat] :
          /\ Chain(msg2, place2)'
          /\ stream' # <<>> => msg2[1] = ni /\ place2[1] = np
          /\ sender' = "ok" =>
               IF stream' = <<>>
               THEN ni = Len(sent') + 1 /\ np = 1
               ELSE /\ msg2[Len(stream')] = Len(sent')
                    /\ place2[Len(stream')] = EncodedLen(sent'[Len(sent')])
    BY <1>23
  <2>8. Index' = i
    BY <1>1, <1>7 DEF Index
  <2>9. Reading(q)'
    <3>1. got' = Payload(Index', 0, q * MaxSegment)
      BY <1>12, <1>18, <2>1, <2>8
    <3>2. q # 0 => Index' <= Len(sent') /\ q * MaxSegment < sent'[Index']
      BY <1>1, <1>3, <1>7, <2>8 DEF Reading
    <3>3. /\ Index' <= Len(sent') /\ need' = Piece(sent'[Index'], q * MaxSegment)
          /\ last' <=> sent'[Index'] - q * MaxSegment <= MaxSegment
      <4>1. sent'[Index'] = size /\ sent' = sent
        BY <1>1, <1>8, <2>8, Zenon
      <4>2. i <= Len(sent)
        BY <1>2 DEF TypeInv
      <4>3. QED
        BY <1>11, <1>12, <2>1, <2>8, <4>1, <4>2, Zenon
    <3>4. QED
      BY <2>1, <3>1, <3>2, <3>3 DEF Reading
  <2>10. NextMsg' = ni
    BY <1>19, <2>1, <2>8 DEF NextMsg
  <2>11. NextPlace(q)' = np
    <3>1. HeaderLen = 4
      BY DEF HeaderLen
    <3>2. QED
      BY <1>13, <1>20, <2>1, <3>1 DEF NextPlace
  <2>12. Starts(q, msg2, place2)'
    BY <2>7, <2>10, <2>11 DEF Starts
  <2>13. Ends(q, msg2, place2)'
    BY <2>7, <2>10, <2>11 DEF Ends
  <2>14. StreamInv'
    BY <2>7, <2>9, <2>12, <2>13 DEF StreamInv
  <2>15. QED
    BY <2>3, <2>4, <2>5, <2>6, <2>14 DEF IInv
<1>26. QED
  BY <1>24, <1>25

\* The rest of a fragment is read: after the last one the message is whole.
LEMMA ReadBodyInv ==
  ASSUME IInv, ReadBody
  PROVE  IInv'
<1>1. /\ phase = "body" /\ need <= Len(stream)
      /\ stream' = SubSeq(stream, need + 1, Len(stream))
      /\ phase' = "header" /\ need' = 0 /\ last' = FALSE
      /\ sent' = sent /\ sender' = sender /\ why' = why
  BY DEF ReadBody, IInv, TypeInv
<1>2. TypeInv /\ StreamInv /\ DeliveredIntact /\ MemoryBounded /\ SizeInv
  BY <1>1 DEF IInv
<1>3. PICK q \in Nat, msgOf \in [1 .. Len(stream) -> Nat],
           placeOf \in [1 .. Len(stream) -> Nat] :
        Reading(q) /\ Chain(msgOf, placeOf) /\ Starts(q, msgOf, placeOf) /\ Ends(q, msgOf, placeOf)
  BY <1>2 DEF StreamInv
<1>4. Index \in 1 .. Len(sent) /\ Index \in Nat
  BY <1>1, <1>2, <1>3 DEF Reading, Index, TypeInv
<1>5. PICK i \in 1 .. Len(sent) : i = Index
  BY <1>4
<1>6. sent[i] \in Sizes /\ sent[i] \in Nat /\ i \in Nat
  <2>1. sent[i] \in Sizes /\ i \in Nat
    BY <1>2 DEF TypeInv
  <2>2. QED
    BY <2>1, RecordMarkingAssumption
<1>7. \A t \in Seq(Bytes) : \A a, m \in Nat :
            /\ Len(t) = m
            /\ \A p \in 1 .. m : t[p] = [msg |-> i, at |-> a + p, len |-> 0, last |-> FALSE]
            => Payload(i, 0, a) \o t = Payload(i, 0, a + m)
  BY <1>6, PayloadGrows
<1>8. PICK size \in Nat : size = sent[i]
  BY <1>6
<1>9. HasFragment(size, q)
  BY <1>3, <1>5, <1>8 DEF Reading, HasFragment
<1>10. \A p \in 1 .. Piece(size, q * MaxSegment) :
            Encoding(i, size)[q * Full + HeaderLen + p]
              = [msg |-> i, at |-> q * MaxSegment + p, len |-> 0, last |-> FALSE]
  BY <1>6, <1>9, RestOfFragment, Zenon
<1>11. PICK n \in Nat : n = Piece(size, q * MaxSegment)
  BY <1>8, <1>9, FragmentsFit
<1>12. PICK f \in Nat : f = q * MaxSegment
  BY <1>8, <1>9, FragmentsFit
<1>13. PICK g \in Nat : g = q * Full
  BY <1>8, <1>9, FragmentsFit
<1>14. PICK e \in Nat : e = EncodedLen(size)
  BY <1>8, <1>9, FragmentsFit
<1>15. PICK M \in Nat : M = MaxSegment /\ M > 0
  BY RecordMarkingAssumption
<1>16. /\ size - f <= M => n = size - f /\ e = g + 4 + n
       /\ size - f > M => n = M /\ HasFragment(size, q + 1) /\ (q + 1) * Full = g + 4 + M
                          /\ e > (g + 4 + M) + 4
       /\ n = 0 => size = 0 /\ q = 0
  <2>1. HeaderLen = 4
    BY DEF HeaderLen
  <2>2. QED
    BY <1>8, <1>9, <1>11, <1>12, <1>13, <1>14, <1>15, <2>1, FragmentsFit
<1>17. need = n /\ (last <=> size - f <= M)
  BY <1>1, <1>3, <1>5, <1>8, <1>11, <1>12, <1>15 DEF Reading
<1>18. got = Payload(i, 0, f)
  BY <1>3, <1>5, <1>12 DEF Reading
<1>19. Len(stream) \in Nat /\ n <= Len(stream) /\ stream \in Seq(Bytes)
  BY <1>1, <1>2, <1>17 DEF TypeInv
<1>20. sender = "ok" /\ stream # <<>> =>
         /\ msgOf[Len(stream)] = Len(sent)
         /\ placeOf[Len(stream)] = EncodedLen(sent[Len(sent)])
  BY <1>3 DEF Ends
<1>21. PICK q2 \in Nat : q2 = IF last THEN 0 ELSE q + 1
  OBVIOUS
<1>22. PICK ni \in Nat : ni = IF last THEN i + 1 ELSE i
  BY <1>6
<1>23. PICK np \in Nat : np = IF last THEN 1 ELSE g + 4 + M + 1
  OBVIOUS
\* The bytes read, and the labels of those that are left.
<1>24. /\ \A j \in 1 .. n : stream[j] = [msg |-> i, at |-> f + j, len |-> 0, last |-> FALSE]
       /\ stream' \in Seq(Bytes)
       /\ \E msg2, place2 \in [1 .. Len(stream') -> Nat] :
            /\ Chain(msg2, place2)'
            /\ stream' # <<>> => msg2[1] = ni /\ place2[1] = np
            /\ sender' = "ok" =>
                 IF stream' = <<>>
                 THEN ni = Len(sent') + 1 /\ np = 1
                 ELSE /\ msg2[Len(stream')] = Len(sent')
                      /\ place2[Len(stream')] = EncodedLen(sent'[Len(sent')])
  <2>1. CASE n = 0
    <3>1. \A j \in 1 .. n : stream[j] = [msg |-> i, at |-> f + j, len |-> 0, last |-> FALSE]
      BY <2>1
    <3>2. stream' = stream
      <4>1. need + 1 = 1
        BY <1>17, <2>1
      <4>2. SubSeq(stream, 1, Len(stream)) = stream
        BY <1>19, SubSeqFull
      <4>3. QED
        BY <1>1, <4>1, <4>2
    <3>3. last /\ ni = i + 1 /\ np = 1
      <4>1. size = 0 /\ q = 0 /\ f = 0
        BY <1>12, <1>15, <1>16, <2>1
      <4>2. size - f <= M
        BY <1>15, <4>1
      <4>3. QED
        BY <1>17, <1>22, <1>23, <4>2
    <3>4. NextMsg = ni /\ NextPlace(q) = np
      BY <1>1, <1>5, <1>17, <2>1, <3>3 DEF NextMsg, NextPlace
    <3>5. Chain(msgOf, placeOf)'
      BY <1>1, <1>3, <3>2 DEF Chain
    <3>6. stream' # <<>> => msgOf[1] = ni /\ placeOf[1] = np
      BY <1>3, <3>2, <3>4 DEF Starts
    <3>7. sender' = "ok" =>
            IF stream' = <<>>
            THEN ni = Len(sent') + 1 /\ np = 1
            ELSE /\ msgOf[Len(stream')] = Len(sent')
                 /\ placeOf[Len(stream')] = EncodedLen(sent'[Len(sent')])
      BY <1>1, <1>3, <3>2, <3>4 DEF Ends
    <3>8. /\ msgOf \in [1 .. Len(stream') -> Nat] /\ placeOf \in [1 .. Len(stream') -> Nat]
          /\ stream' \in Seq(Bytes)
      BY <1>19, <3>2
    <3>9. QED
      BY <3>1, <3>5, <3>6, <3>7, <3>8, Zenon
  <2>2. CASE n # 0
    <3>1. n \in 1 .. Len(stream) /\ stream # <<>>
      BY <1>19, <2>2, EmptySeq
    <3>2. msgOf[1] = i /\ placeOf[1] = g + 5
      <4>1. NextMsg = i /\ NextPlace(q) = g + 5
        <5>1. HeaderLen = 4
          BY DEF HeaderLen
        <5>2. QED
          BY <1>1, <1>5, <1>13, <1>17, <2>2, <5>1 DEF NextMsg, NextPlace
      <4>2. QED
        BY <1>3, <3>1, <4>1 DEF Starts
    <3>3. EncodedLen(sent[msgOf[1]]) = e
      BY <1>8, <1>14, <3>2
    <3>4. /\ placeOf[1] + n <= EncodedLen(sent[msgOf[1]]) + 1
          /\ FollowMsg(msgOf, placeOf, n) = ni /\ FollowPlace(msgOf, placeOf, n) = np
      <4>1. placeOf[1] + n = g + 5 + n
        BY <3>2
      <4>2. CASE last
        <5>1. ~(g + 5 + n <= e) /\ g + 5 + n <= e + 1
          BY <1>16, <1>17, <4>2
        <5>2. QED
          BY <1>22, <1>23, <3>2, <3>3, <4>1, <4>2, <5>1, Zenon DEF FollowMsg, FollowPlace
      <4>3. CASE ~last
        <5>1. size - f > M
          BY <1>17, <4>3
        <5>2. g + 5 + n <= e /\ g + 5 + n <= e + 1 /\ g + 5 + n = g + 4 + M + 1
          BY <1>16, <5>1
        <5>3. QED
          BY <1>22, <1>23, <3>2, <3>3, <4>1, <4>3, <5>2, Zenon DEF FollowMsg, FollowPlace
      <4>4. QED
        BY <4>2, <4>3
    <3>5. /\ \A j \in 1 .. n :
               stream[j] = Encoding(msgOf[1], sent[msgOf[1]])[placeOf[1] + (j - 1)]
          /\ stream' \in Seq(Bytes)
          /\ \E msg2, place2 \in [1 .. Len(stream') -> Nat] :
               /\ Chain(msg2, place2)'
               /\ stream' # <<>> => /\ msg2[1] = FollowMsg(msgOf, placeOf, n)
                                   /\ place2[1] = FollowPlace(msgOf, placeOf, n)
               /\ sender' = "ok" =>
                    IF stream' = <<>>
                    THEN /\ FollowMsg(msgOf, placeOf, n) = Len(sent') + 1
                         /\ FollowPlace(msgOf, placeOf, n) = 1
                    ELSE /\ msg2[Len(stream')] = Len(sent')
                         /\ place2[Len(stream')] = EncodedLen(sent'[Len(sent')])
      <4>1. sender = "ok" => /\ msgOf[Len(stream)] = Len(sent)
                             /\ placeOf[Len(stream)] = EncodedLen(sent[Len(sent)])
        BY <1>20, <3>1
      <4>2. /\ Chain(msgOf, placeOf) /\ placeOf[1] + n <= EncodedLen(sent[msgOf[1]]) + 1
            /\ sent' = sent /\ sender' = sender /\ stream' = SubSeq(stream, n + 1, Len(stream))
        BY <1>1, <1>3, <1>17, <3>4
      <4>3. QED
        BY <3>1, <4>1, <4>2, Advance
    <3>6. ASSUME NEW j \in 1 .. n
          PROVE  stream[j] = [msg |-> i, at |-> f + j, len |-> 0, last |-> FALSE]
      <4>1. stream[j] = Encoding(i, size)[placeOf[1] + (j - 1)]
        BY <1>8, <3>2, <3>5, Zenon
      <4>2. placeOf[1] + (j - 1) = q * Full + HeaderLen + j
        BY <1>13, <3>2 DEF HeaderLen
      <4>3. Encoding(i, size)[q * Full + HeaderLen + j]
              = [msg |-> i, at |-> q * MaxSegment + j, len |-> 0, last |-> FALSE]
        BY <1>11, <1>10, Zenon
      <4>4. QED
        BY <1>12, <4>1, <4>2, <4>3
    <3>7. QED
      BY <3>4, <3>5, <3>6, Zenon
  <2>3. QED
    BY <2>1, <2>2
<1>25. PICK msg : msg = got \o SubSeq(stream, 1, need)
  OBVIOUS
<1>26. msg = Payload(i, 0, f + n) /\ Len(msg) = f + n
  <2>1. PICK s : s = SubSeq(stream, 1, n)
    OBVIOUS
  <2>2. s \in Seq(Bytes) /\ Len(s) = n /\ \A j \in 1 .. n : s[j] = stream[j]
    <3>1. 1 <= n + 1 /\ \A j \in 1 .. n : stream[j] \in Bytes
      BY <1>19
    <3>2. QED
      BY <1>19, <2>1, <3>1
  <2>3. \A j \in 1 .. n : s[j] = [msg |-> i, at |-> f + j, len |-> 0, last |-> FALSE]
    BY <1>24, <2>2
  <2>4. Payload(i, 0, f) \o s = Payload(i, 0, f + n)
    BY <1>7, <2>2, <2>3
  <2>5. msg = Payload(i, 0, f + n)
    BY <1>17, <1>18, <1>25, <2>1, <2>4, Zenon
  <2>6. f + n \in Nat
    OBVIOUS
  <2>7. QED
    BY <2>5, <2>6, PayloadIs
<1>27. f + n <= MaxMsgSize
  <2>1. Len(got) = f
    BY <1>18, PayloadIs
  <2>2. QED
    BY <1>2, <1>17, <2>1 DEF MemoryBounded
<1>28. IF last THEN received' = Append(received, msg) /\ got' = <<>>
               ELSE got' = msg /\ received' = received
  BY <1>25 DEF ReadBody
<1>29. SizeInv'
  BY <1>1, <1>2 DEF SizeInv
<1>30. /\ TypeInv' /\ DeliveredIntact' /\ MemoryBounded'
       /\ Index' = ni /\ got' = Payload(ni, 0, q2 * MaxSegment)
       /\ q2 * Full + 1 = np
       /\ q2 # 0 => ni <= Len(sent') /\ q2 * MaxSegment < sent'[ni]
  <2>1. CASE last
    <3>1. f + n = size /\ ni = i + 1 /\ np = 1 /\ q2 = 0
      BY <1>16, <1>17, <1>21, <1>22, <1>23, <2>1
    <3>2. /\ received' = Append(received, msg) /\ got' = <<>> /\ Len(got') = 0
          /\ received \in Seq(Payloads) /\ Len(received) + 1 = i /\ Len(received) \in Nat
      BY <1>2, <1>5, <1>28, <2>1 DEF TypeInv, Index
    <3>3. msg = Payload(i, 0, sent[i]) /\ msg \in Payloads
      <4>1. msg = Payload(i, 0, size)
        BY <1>26, <3>1
      <4>2. QED
        BY <1>6, <1>8, <4>1 DEF Payloads
    <3>4. /\ received' \in Seq(Payloads) /\ Len(received') = i /\ received'[i] = msg
          /\ \A k \in 1 .. i - 1 : received'[k] = received[k]
      BY <3>2, <3>3
    <3>5. TypeInv'
      BY <1>1, <1>2, <1>24, <3>4 DEF TypeInv
    <3>6. DeliveredIntact'
      <4>1. ASSUME NEW k \in 1 .. i
            PROVE  received'[k] = Payload(k, 0, sent[k])
        <5>1. CASE k = i
          BY <3>3, <3>4, <5>1
        <5>2. CASE k # i
          <6>1. k \in 1 .. i - 1 /\ k \in 1 .. Len(received)
            BY <1>6, <3>2, <5>2
          <6>2. QED
            BY <1>2, <3>4, <6>1 DEF DeliveredIntact
        <5>3. QED
          BY <5>1, <5>2
      <4>2. i <= Len(sent)
        BY <1>2 DEF TypeInv
      <4>3. QED
        BY <1>1, <3>4, <4>1, <4>2, Zenon DEF DeliveredIntact
    <3>7. MemoryBounded'
      <4>1. ASSUME NEW k \in 1 .. i
            PROVE  Len(received'[k]) <= MaxMsgSize
        <5>1. CASE k = i
          BY <1>26, <1>27, <3>4, <5>1
        <5>2. CASE k # i
          <6>1. k \in 1 .. i - 1 /\ k \in 1 .. Len(received)
            BY <1>6, <3>2, <5>2
          <6>2. QED
            BY <1>2, <3>4, <6>1 DEF MemoryBounded
        <5>3. QED
          BY <5>1, <5>2
      <4>2. Len(got') + need' <= MaxMsgSize
        BY <1>1, <3>2, RecordMarkingAssumption
      <4>3. QED
        BY <3>4, <4>1, <4>2 DEF MemoryBounded
    <3>8. Index' = ni
      BY <3>1, <3>4 DEF Index
    <3>9. q2 * MaxSegment = 0 /\ q2 * Full + 1 = np
      <4>1. Full \in Nat
        BY RecordMarkingAssumption DEF Full, HeaderLen
      <4>2. QED
        BY <3>1, <4>1, RecordMarkingAssumption
    <3>10. got' = Payload(ni, 0, q2 * MaxSegment)
      BY <3>2, <3>9, EmptyPayload
    <3>11. QED
      BY <3>1, <3>5, <3>6, <3>7, <3>8, <3>9, <3>10
  <2>2. CASE ~last
    <3>1. /\ size - f > M /\ n = M /\ ni = i /\ np = g + 4 + M + 1 /\ q2 = q + 1
          /\ HasFragment(size, q + 1) /\ (q + 1) * Full = g + 4 + M
      BY <1>16, <1>17, <1>21, <1>22, <1>23, <2>2
    <3>2. (q + 1) * MaxSegment = f + n /\ q + 1 # 0
      BY <1>12, <1>15, <3>1
    <3>3. /\ got' = msg /\ received' = received
      BY <1>28, <2>2
    <3>4. TypeInv'
      BY <1>1, <1>2, <1>24, <3>3 DEF TypeInv
    <3>5. DeliveredIntact'
      BY <1>1, <1>2, <3>3 DEF DeliveredIntact
    <3>6. MemoryBounded'
      <4>1. Len(got') + need' <= MaxMsgSize
        BY <1>1, <1>26, <1>27, <3>3
      <4>2. QED
        BY <1>2, <3>3, <4>1 DEF MemoryBounded
    <3>7. Index' = ni
      BY <1>5, <3>1, <3>3 DEF Index
    <3>8. got' = Payload(ni, 0, q2 * MaxSegment) /\ q2 * Full + 1 = np
      BY <1>26, <3>1, <3>2, <3>3
    <3>9. ni <= Len(sent') /\ q2 * MaxSegment < sent'[ni]
      <4>1. (q + 1) * MaxSegment < size
        BY <3>1, <3>2 DEF HasFragment
      <4>2. i <= Len(sent)
        BY <1>2 DEF TypeInv
      <4>3. QED
        BY <1>1, <1>8, <3>1, <4>1, <4>2
    <3>10. QED
      BY <3>4, <3>5, <3>6, <3>7, <3>8, <3>9
  <2>3. QED
    BY <2>1, <2>2
<1>31. StreamInv'
  <2>1. PICK msg2 \in [1 .. Len(stream') -> Nat], place2 \in [1 .. Len(stream') -> Nat] :
          /\ Chain(msg2, place2)'
          /\ stream' # <<>> => msg2[1] = ni /\ place2[1] = np
          /\ sender' = "ok" =>
               IF stream' = <<>>
               THEN ni = Len(sent') + 1 /\ np = 1
               ELSE /\ msg2[Len(stream')] = Len(sent')
                    /\ place2[Len(stream')] = EncodedLen(sent'[Len(sent')])
    BY <1>24
  <2>2. Reading(q2)'
    <3>1. phase' # "body"
      BY <1>1
    <3>2. QED
      BY <1>1, <1>30, <3>1 DEF Reading
  <2>3. NextMsg' = ni /\ NextPlace(q2)' = np
    BY <1>1, <1>30 DEF NextMsg, NextPlace
  <2>4. Starts(q2, msg2, place2)'
    BY <2>1, <2>3 DEF Starts
  <2>5. Ends(q2, msg2, place2)'
    BY <2>1, <2>3 DEF Ends
  <2>6. QED
    BY <2>1, <2>2, <2>4, <2>5 DEF StreamInv
<1>32. QED
  BY <1>29, <1>30, <1>31 DEF IInv

\* Every step keeps the invariant.
LEMMA NextInv == IInv /\ [Next]_vars => IInv'
<1> SUFFICES ASSUME IInv, [Next]_vars PROVE IInv'
  OBVIOUS
<1>1. ASSUME NEW size \in Sizes, Send(size) PROVE IInv'
  BY <1>1, SendInv
<1>2. ASSUME NEW size \in Sizes, NEW k \in 0 .. Len(Encoding(1, size)), SendFails(size, k)
      PROVE  IInv'
  BY <1>2, SendFailsInv
<1>3. CASE SenderCloses
  BY <1>3, SenderClosesInv
<1>4. CASE ReadHeader
  BY <1>4, ReadHeaderInv
<1>5. ASSUME NEW k \in 1 .. HeaderLen - 1, ReadPartHeader(k) PROVE IInv'
  BY <1>5, ReadPartHeaderInv
<1>6. CASE ReadBody
  BY <1>6, ReadBodyInv
<1>7. CASE ReadEnds
  BY <1>7, ReadEndsInv
<1>8. CASE ReadFails
  BY <1>8, ReadFailsInv
<1>9. CASE UNCHANGED vars
  BY <1>9, StutterInv
<1>10. QED
  BY <1>1, <1>2, <1>3, <1>4, <1>5, <1>6, <1>7, <1>8, <1>9, Zenon DEF Next

\* The invariant holds always.
LEMMA Invariance == Spec => []IInv
<1>1. Init => IInv
  BY InitInv
<1>2. IInv /\ [Next]_vars => IInv'
  BY NextInv
<1>3. QED
  BY <1>1, <1>2, PTL DEF Spec

-----------------------------------------------------------------------------
(***************************************************************************)
(* What a Receive reads as a header was written as one, and what it reads  *)
(* as payload is the next byte of the message it is reading.               *)
(***************************************************************************)
THEOREM TypeCorrect == Spec => []TypeOK
<1>1. IInv => TypeOK
  <2> SUFFICES ASSUME IInv PROVE TypeOK
    OBVIOUS
  <2>1. TypeInv
    BY DEF IInv
  <2>2. ASSUME phase # "failed", stream # <<>>
        PROVE  /\ phase = "header" => Head(stream).at = 0
               /\ phase = "body" /\ need > 0 => Head(stream).at = Len(got) + 1
    <3>1. PICK q \in Nat, msgOf \in [1 .. Len(stream) -> Nat],
               placeOf \in [1 .. Len(stream) -> Nat] :
            Reading(q) /\ Chain(msgOf, placeOf) /\ Starts(q, msgOf, placeOf)
      BY <2>2 DEF IInv, StreamInv
    <3>2. 1 \in 1 .. Len(stream) /\ Head(stream) = stream[1]
      BY <2>1, <2>2, EmptySeq DEF TypeInv
    <3>3. /\ msgOf[1] \in 1 .. Len(sent)
          /\ stream[1] = Encoding(msgOf[1], sent[msgOf[1]])[placeOf[1]]
      BY <3>1, <3>2, Zenon DEF Chain
    <3>4. PICK i \in 1 .. Len(sent) : i = msgOf[1]
      BY <3>3
    <3>5. i \in Nat /\ sent[i] \in Sizes /\ sent[i] \in Nat
      <4>1. i \in Nat /\ sent[i] \in Sizes
        BY <2>1 DEF TypeInv
      <4>2. QED
        BY <4>1, RecordMarkingAssumption
    <3>6. Head(stream) = Encoding(i, sent[i])[placeOf[1]]
      BY <3>2, <3>3, <3>4
    <3>7. msgOf[1] = NextMsg /\ placeOf[1] = NextPlace(q)
      BY <2>2, <3>1 DEF Starts
    <3>8. CASE phase = "header"
      <4>1. i = Index /\ placeOf[1] = q * Full + 1
        BY <3>4, <3>7, <3>8 DEF NextMsg, NextPlace
      <4>2. HasFragment(sent[i], q)
        BY <3>1, <4>1 DEF Reading, HasFragment
      <4>3. Head(stream) = Header(i, sent[i], q * MaxSegment)
        <5>1. Encoding(i, sent[i])[q * Full + 1] = Header(i, sent[i], q * MaxSegment)
          BY <3>5, <4>2, FirstOfHeader, Zenon
        <5>2. QED
          BY <3>6, <4>1, <5>1, Zenon
      <4>4. QED
        BY <3>8, <4>3 DEF Header
    <3>9. CASE phase = "body" /\ need > 0
      <4>1. i = Index /\ placeOf[1] = q * Full + HeaderLen + 1
        BY <2>1, <3>4, <3>7, <3>9 DEF NextMsg, NextPlace, TypeInv
      <4>2. HasFragment(sent[i], q) /\ need = Piece(sent[i], q * MaxSegment)
        BY <3>1, <3>9, <4>1 DEF Reading, HasFragment
      <4>3. 1 \in 1 .. Piece(sent[i], q * MaxSegment)
        BY <2>1, <3>9, <4>2 DEF TypeInv
      <4>4. Head(stream) = [msg |-> i, at |-> q * MaxSegment + 1, len |-> 0, last |-> FALSE]
        <5>1. \A p \in 1 .. Piece(sent[i], q * MaxSegment) :
                Encoding(i, sent[i])[q * Full + HeaderLen + p]
                  = [msg |-> i, at |-> q * MaxSegment + p, len |-> 0, last |-> FALSE]
          BY <3>5, <4>2, RestOfFragment, Zenon
        <5>2. QED
          BY <3>6, <4>1, <4>3, <5>1, Zenon
      <4>5. q * MaxSegment \in Nat
        BY RecordMarkingAssumption
      <4>6. Len(got) = q * MaxSegment
        BY <3>1, <4>5, PayloadIs DEF Reading
      <4>7. QED
        BY <3>9, <4>4, <4>6
    <3>10. QED
      BY <3>8, <3>9
  <2>3. QED
    BY <2>1, <2>2, Zenon DEF TypeInv, TypeOK
<1>2. QED
  BY <1>1, Invariance, PTL

(***************************************************************************)
(* The messages Receive returns are those Send was given, whole, unmixed   *)
(* and in order.                                                           *)
(***************************************************************************)
THEOREM MessagesArriveIntact == Spec => []DeliveredIntact
<1>1. IInv => DeliveredIntact
  BY DEF IInv
<1>2. QED
  BY <1>1, Invariance, PTL

(***************************************************************************)
(* Receive never holds, and never returns, more than MaxMsgSize bytes of a *)
(* message.                                                                *)
(***************************************************************************)
THEOREM MemoryStaysBounded == Spec => []MemoryBounded
<1>1. IInv => MemoryBounded
  BY DEF IInv
<1>2. QED
  BY <1>1, Invariance, PTL

(***************************************************************************)
(* A message Receive refuses for its size is longer than MaxMsgSize.       *)
(***************************************************************************)
THEOREM OnlyTooLongRefused == Spec => []RefusesOnlyTooLong
<1>1. IInv => RefusesOnlyTooLong
  BY DEF IInv, SizeInv, Index, RefusesOnlyTooLong
<1>2. QED
  BY <1>1, Invariance, PTL
=============================================================================
