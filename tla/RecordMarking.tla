----------------------------- MODULE RecordMarking -----------------------------
(***************************************************************************)
(* rpc/transport.go: messages on a byte stream, as a StreamTransport's     *)
(* Send (lines 133-162) writes them and the Receive (164-200) of the one   *)
(* at the other end of the connection reads them.                          *)
(*                                                                         *)
(* A message is cut into fragments of at most MaxSegment bytes, each after *)
(* a header of four bytes with its length and whether it is the last.  A   *)
(* byte is a record: the message it belongs to, its place in the payload   *)
(* (0 in a header), and the length and last bit the header gives.          *)
(*                                                                         *)
(* Read returns any number of the bytes asked for, as net.Conn does;       *)
(* io.CopyN reads until it has them all.                                   *)
(***************************************************************************)
EXTENDS Integers, Sequences

CONSTANTS MaxSegment,  \* maxSegment, 2^31 - 1 in the code
          MaxMsgSize,  \* tx.MaxMsgSize of the receiver
          Sizes,       \* lengths of the messages sent
          MaxMsgs      \* bound on how many are sent

ASSUME RecordMarkingAssumption ==
  /\ MaxSegment \in Nat \ {0}
  /\ MaxMsgSize \in Nat
  /\ Sizes \subseteq Nat
  /\ MaxMsgs \in Nat

HeaderLen == 4

VARIABLES
  sent,     \* the lengths of the messages Send has been given
  sender,   \* "ok", or "failed" once a write failed or the sender was closed
  stream,   \* the bytes written and not yet read
  phase,    \* the receiver is about to read a "header" or a "body", or "failed"
  got,      \* ret: the payload of the current message so far
  need,     \* n: the length of the current fragment
  last,     \* b[0] & 0x80
  why,      \* what made Receive fail
  received  \* the payloads Receive has returned

vars == <<sent, sender, stream, phase, got, need, last, why, received>>

-----------------------------------------------------------------------------
Payload(i, from, to) ==
  [k \in 1 .. to - from |-> [msg |-> i, at |-> from + k, len |-> 0, last |-> FALSE]]

\* Faulty: a fragment of exactly MaxSegment bytes is never the last.
FullNeverLast(i, size, from) ==
  LET n == IF size - from > MaxSegment THEN MaxSegment ELSE size - from
      header == [msg |-> i, at |-> 0, len |-> n, last |-> size - from < MaxSegment]
  IN [k \in 1 .. HeaderLen |-> header] \o Payload(i, from, from + n)

\* One turn of Send's loop: from bytes of message i are in earlier fragments.
Fragment(i, size, from) ==
  LET n == IF size - from > MaxSegment THEN MaxSegment ELSE size - from
      header == [msg |-> i, at |-> 0, len |-> n, last |-> size - from <= MaxSegment]
  IN [k \in 1 .. HeaderLen |-> header] \o Payload(i, from, from + n)

\* All turns: the loop ends when no byte is left, and every fragment but the
\* last is a full one.
EncodedLen(size) ==
  size + HeaderLen * (IF size = 0 THEN 1 ELSE (size - 1) \div MaxSegment + 1)

Encoding(i, size) ==
  LET full == HeaderLen + MaxSegment IN
    [k \in 1 .. EncodedLen(size) |->
       Fragment(i, size, ((k - 1) \div full) * MaxSegment)[1 + ((k - 1) % full)]]

Init ==
  /\ sent = <<>>
  /\ sender = "ok"
  /\ stream = <<>>
  /\ phase = "header"
  /\ got = <<>>
  /\ need = 0
  /\ last = FALSE
  /\ why = "none"
  /\ received = <<>>

-----------------------------------------------------------------------------
\* Faulty: a failed Send leaves the transport up, and the next one writes on.
SendFailsOpen(size, k) ==
  /\ sender = "ok" /\ Len(sent) < MaxMsgs
  /\ k < Len(Encoding(Len(sent) + 1, size))
  /\ stream' = stream \o SubSeq(Encoding(Len(sent) + 1, size), 1, k)
  /\ sent' = Append(sent, size)
  /\ UNCHANGED <<sender, phase, got, need, last, why, received>>

Send(size) ==
  /\ sender = "ok" /\ Len(sent) < MaxMsgs
  /\ stream' = stream \o Encoding(Len(sent) + 1, size)
  /\ sent' = Append(sent, size)
  /\ UNCHANGED <<sender, phase, got, need, last, why, received>>

\* The write fails after some of the bytes: fail() closes the connection.
SendFails(size, k) ==
  /\ sender = "ok" /\ Len(sent) < MaxMsgs
  /\ k < Len(Encoding(Len(sent) + 1, size))
  /\ stream' = stream \o SubSeq(Encoding(Len(sent) + 1, size), 1, k)
  /\ sent' = Append(sent, size)
  /\ sender' = "failed"
  /\ UNCHANGED <<phase, got, need, last, why, received>>

SenderCloses ==
  /\ sender = "ok"
  /\ sender' = "failed"
  /\ UNCHANGED <<sent, stream, phase, got, need, last, why, received>>

\* Receive fails: the partial message is recycled.
Fail(reason) ==
  /\ phase' = "failed"
  /\ why' = reason
  /\ got' = <<>> /\ need' = 0 /\ last' = FALSE

\* Faulty: the fragment alone is held against the limit.
FragmentTooLong(n) == n > MaxMsgSize

\* Faulty: off by one at the limit.
TooLongAtLimit(n) == n >= MaxMsgSize - Len(got)

TooLong(n) == n > MaxMsgSize - Len(got)

\* Conn.Read(b) has returned four bytes.
ReadHeader ==
  /\ phase = "header"
  /\ Len(stream) >= HeaderLen
  /\ stream' = SubSeq(stream, HeaderLen + 1, Len(stream))
  /\ IF TooLong(Head(stream).len)
     THEN Fail("size")
     ELSE /\ phase' = "body"
          /\ need' = Head(stream).len
          /\ last' = Head(stream).last
          /\ UNCHANGED <<got, why>>
  /\ UNCHANGED <<sent, sender, received>>

\* Conn.Read(b) has returned fewer.
ReadPartHeader(k) ==
  /\ phase = "header"
  /\ k \in 1 .. HeaderLen - 1 /\ k <= Len(stream)
  /\ stream' = SubSeq(stream, k + 1, Len(stream))
  /\ Fail("short")
  /\ UNCHANGED <<sent, sender, received>>

\* io.CopyN; after the last fragment Receive returns and is called again.
ReadBody ==
  /\ phase = "body"
  /\ Len(stream) >= need
  /\ stream' = SubSeq(stream, need + 1, Len(stream))
  /\ LET msg == got \o SubSeq(stream, 1, need) IN
       IF last THEN received' = Append(received, msg) /\ got' = <<>>
               ELSE got' = msg /\ UNCHANGED received
  /\ phase' = "header"
  /\ need' = 0 /\ last' = FALSE
  /\ UNCHANGED <<sent, sender, why>>

\* The connection has ended, and what is left of it is not enough.
ReadEnds ==
  /\ sender = "failed"
  /\ \/ phase = "header" /\ stream = <<>>
     \/ phase = "body" /\ Len(stream) < need
  /\ Fail("end")
  /\ UNCHANGED <<sent, sender, stream, received>>

\* A read error, or Close.
ReadFails ==
  /\ phase # "failed"
  /\ Fail("error")
  /\ UNCHANGED <<sent, sender, stream, received>>

Next ==
  \/ \E size \in Sizes : Send(size)
  \/ \E size \in Sizes : \E k \in 0 .. Len(Encoding(1, size)) : SendFails(size, k)
  \/ SenderCloses
  \/ ReadHeader
  \/ \E k \in 1 .. HeaderLen - 1 : ReadPartHeader(k)
  \/ ReadBody
  \/ ReadEnds
  \/ ReadFails

Spec == Init /\ [][Next]_vars

\* A Read returns when there are bytes to return or the connection has ended.
FairSpec ==
  /\ Spec
  /\ WF_vars(ReadHeader \/ \E k \in 1 .. HeaderLen - 1 : ReadPartHeader(k))
  /\ WF_vars(ReadBody)
  /\ WF_vars(ReadEnds)

-----------------------------------------------------------------------------
(***************************************************************************)
(* Types; a header is only ever read where one was written: the bytes left *)
(* of the stream start with a header between fragments, and with payload   *)
(* inside one.                                                             *)
(***************************************************************************)
TypeOK ==
  /\ sent \in Seq(Sizes)
  /\ sender \in {"ok", "failed"}
  /\ phase \in {"header", "body", "failed"}
  /\ need \in Nat
  /\ last \in BOOLEAN
  /\ why \in {"none", "short", "size", "end", "error"}
  /\ phase = "header" /\ stream # <<>> => Head(stream).at = 0
  /\ phase = "body" /\ need > 0 /\ stream # <<>> => Head(stream).at = Len(got) + 1

(***************************************************************************)
(* Messages arrive whole, unmixed and in order, however they were cut and  *)
(* whatever a Send that failed half-way has left on the stream.            *)
(***************************************************************************)
DeliveredIntact ==
  /\ Len(received) <= Len(sent)
  /\ \A i \in 1 .. Len(received) : received[i] = Payload(i, 0, sent[i])

(***************************************************************************)
(* A message of many fragments never makes Receive hold more than          *)
(* MaxMsgSize bytes (transport.go:185).                                    *)
(***************************************************************************)
MemoryBounded ==
  /\ Len(got) + need <= MaxMsgSize
  /\ \A i \in 1 .. Len(received) : Len(received[i]) <= MaxMsgSize

(***************************************************************************)
(* Receive refuses a message for its size only when it is too long: one of *)
(* exactly MaxMsgSize bytes is received.                                   *)
(***************************************************************************)
RefusesOnlyTooLong == why = "size" => sent[Len(received) + 1] > MaxMsgSize

(***************************************************************************)
(* A message that was sent is received unless Receive fails: a receiver    *)
(* does not wait for the fragment after the last one.                      *)
(***************************************************************************)
MessagesArrive ==
  \A i \in 1 .. MaxMsgs :
    Len(sent) >= i ~> Len(received) >= i \/ phase = "failed"
=============================================================================
