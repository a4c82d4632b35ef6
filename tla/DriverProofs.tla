------------------------------ MODULE DriverProofs ------------------------------
(***************************************************************************)
(* Proofs about Driver, for any number of calls, requests and messages,    *)
(* any queue lengths and as many XIDs as there are calls.                  *)
(***************************************************************************)
EXTENDS Driver, FiniteSetTheorems, TLAPS

Elems(s) == {s[k] : k \in 1 .. Len(s)}

Distinct(s) == \A j, k \in 1 .. Len(s) : s[j] = s[k] => j = k

\* XIDs are given out in order, so that no two calls have the same.
Begun == {c \in Calls : caller[c] # "idle"}

XidInv ==
  /\ lastXid = Cardinality(Begun)
  /\ \A c \in Calls : /\ xidOf[c] \in 0 .. lastXid
                      /\ xidOf[c] = 0 <=> caller[c] = "idle"
  /\ \A c, d \in Calls : xidOf[c] = xidOf[d] /\ xidOf[c] # 0 => c = d

\* An entry of the table is at its call's XID, and its call has not returned.
TableInv ==
  \A x \in Xids : table[x] # nil =>
    /\ xidOf[table[x]] = x
    /\ caller[table[x]] \in {"send", "wait", "delete", "panicked"}

\* The answer to a call is in one of three places.
AnswerInv ==
  \A c \in Calls :
    /\ Len(box[c]) <= 1
    /\ InTable(c) => box[c] = <<>> /\ handler[c] # "callback"
    /\ handler[c] = "callback" => box[c] = <<>>
    /\ caller[c] \in {"send", "wait"} =>
         InTable(c) \/ handler[c] = "callback" \/ box[c] # <<>>
    /\ caller[c] = "idle" => box[c] = <<>>

\* What ResultTruthful says of one result.
Truthful(c, r) ==
  /\ r = "REPLIED" => c \in received
  /\ r = "SEND_ERR" => ~up
  /\ r = "CANCELED" => loop = "exited"
  /\ r = "ErrTransportClosed" => done
  /\ r = "ContextError" => c \in callDone

\* It holds already of the answers still in a channel.
TruthInv ==
  /\ \A c \in Calls : /\ Truthful(c, result[c])
                      /\ \A r \in Elems(box[c]) : Truthful(c, r)
  /\ sender = "onErr" => ~up
  /\ started <=> loop # "idle"

-----------------------------------------------------------------------------
(***************************************************************************)
(* What a Message holds tells who has it, and how far its call or request  *)
(* has come.                                                               *)
(***************************************************************************)
\* A call of our own, or the reply to a request, that has left its goroutine.
OutBody(b) ==
  \/ /\ b.kind = "call" /\ b.of \in Calls /\ b.xid = xidOf[b.of]
     /\ caller[b.of] \in {"wait", "delete", "returned"}
  \/ b.kind = "reply" /\ b.of \in Reqs /\ handler[b.of] = "exited"

\* What the peer sends: a reply to a call of ours, or a request.
FromPeer(b) ==
  \/ b.kind = "reply" /\ b.of \in Calls /\ b.xid = xidOf[b.of]
  \/ b.kind \in {"call", "unavail", "garbage"} /\ b.of \in Reqs

\* One that no handler has taken yet.
InBody(b) == FromPeer(b) /\ b.of \in received /\ handler[b.of] = "none"

Incoming == Elems(in) \cup ({recvMsg} \ {nil})

PoolInv == \A m \in pool : body[m] = EmptyBody

CallerInv ==
  \A c \in Calls :
    IF caller[c] = "send"
    THEN /\ callMsg[c] \in Msgs
         /\ body[callMsg[c]].kind = "call" /\ body[callMsg[c]].of = c
         /\ body[callMsg[c]].xid = xidOf[c]
    ELSE callMsg[c] = nil

OutInv ==
  /\ Distinct(out)
  /\ IF sender = "send" THEN sendMsg \in Msgs \ Elems(out) ELSE sendMsg = nil
  /\ sender = "onErr" => sendXid \in Xids
  /\ sender = "send" => sendXid \in Xids
  /\ \A m \in Outgoing : OutBody(body[m])

InInv ==
  /\ Distinct(in)
  /\ IF receiver = "queue" THEN recvMsg \in Msgs \ Elems(in) ELSE recvMsg = nil
  /\ \A m \in Incoming : InBody(body[m])
  /\ \A m, n \in Incoming : body[m].of = body[n].of => m = n

HandlerInv ==
  \A i \in Inputs :
    /\ IF handler[i] \in {"start", "do", "detached"}
       THEN handMsg[i] \in Msgs /\ FromPeer(body[handMsg[i]]) /\ body[handMsg[i]].of = i
       ELSE handMsg[i] = nil
    /\ IF handler[i] = "send"
       THEN /\ i \in Reqs /\ replyMsg[i] \in Msgs
            /\ body[replyMsg[i]].kind = "reply" /\ body[replyMsg[i]].of = i
       ELSE replyMsg[i] = nil
    /\ handler[i] \in {"do", "detached"} =>
         i \in Reqs /\ reply[i] \in Bodies /\ reply[i].kind = "reply" /\ reply[i].of = i
    /\ handler[i] = "callback" => i \in Calls /\ reply[i].of = i
    /\ handler[i] # "none" => i \in received

\* What has been written, and what the peer has sent in answer to it.
WireInv ==
  /\ \A b \in wire : OutBody(b)
  /\ \A c \in Calls \cap received : caller[c] \in {"wait", "delete", "returned"}

\* The messages that are in some hand.
Held == {m \in Msgs :
  \/ \E c \in Calls : callMsg[c] = m
  \/ m \in Elems(out) \cup Elems(in)
  \/ \E i \in Inputs : handMsg[i] = m \/ replyMsg[i] = m
  \/ m \in {sendMsg, recvMsg}}

Lost == Msgs \ (pool \cup Held)

Panicked == {c \in Calls : caller[c] = "panicked"}

\* Only a call that panics loses a message.
LostInv == IsFiniteSet(Lost) /\ Cardinality(Lost) = Cardinality(Panicked)

IInv ==
  /\ TypeOK /\ XidInv /\ TableInv /\ AnswerInv /\ TruthInv /\ OneRoutineAtATime
  /\ PoolInv /\ CallerInv /\ OutInv /\ InInv /\ HandlerInv /\ WireInv /\ LostInv
  /\ RequestAnswered

-----------------------------------------------------------------------------
(***************************************************************************)
(* Queues.                                                                 *)
(***************************************************************************)
LEMMA ElemsEmpty == Elems(<<>>) = {} /\ Distinct(<<>>)
BY DEF Elems, Distinct

\* A queue after an element is put in.
LEMMA ElemsAppend ==
  ASSUME NEW S, NEW s \in Seq(S), NEW m \in S
  PROVE  /\ Elems(Append(s, m)) = Elems(s) \cup {m}
         /\ Distinct(s) /\ m \notin Elems(s) => Distinct(Append(s, m))
<1>1. Len(Append(s, m)) = Len(s) + 1 /\ Len(s) \in Nat
  OBVIOUS
<1>2. \A i \in 1 .. Len(s) : Append(s, m)[i] = s[i]
  OBVIOUS
<1>3. Append(s, m)[Len(s) + 1] = m
  OBVIOUS
<1>4. 1 .. (Len(s) + 1) = (1 .. Len(s)) \cup {Len(s) + 1}
  BY <1>1
<1>5. Elems(Append(s, m)) = Elems(s) \cup {m}
  BY <1>1, <1>2, <1>3, <1>4, Zenon DEF Elems
<1>6. ASSUME Distinct(s), m \notin Elems(s)
      PROVE  Distinct(Append(s, m))
  BY <1>1, <1>2, <1>3, <1>6 DEF Elems, Distinct
<1>7. QED
  BY <1>5, <1>6

\* A queue after its head is taken.
LEMMA ElemsTail ==
  ASSUME NEW S, NEW s \in Seq(S), s # <<>>
  PROVE  /\ Head(s) \in S /\ Tail(s) \in Seq(S)
         /\ Elems(s) = Elems(Tail(s)) \cup {Head(s)}
         /\ Distinct(s) => Distinct(Tail(s)) /\ Head(s) \notin Elems(Tail(s))
<1>1. /\ Len(s) \in Nat \ {0} /\ Len(Tail(s)) = Len(s) - 1
      /\ Head(s) = s[1] /\ Head(s) \in S /\ Tail(s) \in Seq(S)
  OBVIOUS
<1>2. \A i \in 1 .. Len(s) - 1 : Tail(s)[i] = s[i + 1]
  OBVIOUS
<1>3. Elems(s) \subseteq Elems(Tail(s)) \cup {Head(s)}
  <2> SUFFICES ASSUME NEW i \in 1 .. Len(s), i # 1
               PROVE  s[i] \in Elems(Tail(s))
    BY <1>1 DEF Elems
  <2>1. i - 1 \in 1 .. Len(Tail(s)) /\ Tail(s)[i - 1] = s[i]
    BY <1>1, <1>2
  <2>2. QED
    BY <2>1 DEF Elems
<1>4. \A i \in 1 .. Len(Tail(s)) : i + 1 \in 1 .. Len(s) /\ Tail(s)[i] = s[i + 1]
  BY <1>1, <1>2
<1>5. Elems(Tail(s)) \cup {Head(s)} \subseteq Elems(s)
  BY <1>1, <1>4 DEF Elems
<1>6. ASSUME Distinct(s)
      PROVE  Distinct(Tail(s)) /\ Head(s) \notin Elems(Tail(s))
  BY <1>1, <1>4, <1>6 DEF Elems, Distinct
<1>7. QED
  BY <1>1, <1>3, <1>5, <1>6

\* A queue's elements have its type.
LEMMA ElemsIn ==
  ASSUME NEW S, NEW s \in Seq(S)
  PROVE  Elems(s) \subseteq S
BY DEF Elems
-----------------------------------------------------------------------------
\* The invariant holds at first.
LEMMA InitInv == Init => IInv
<1> SUFFICES ASSUME Init PROVE IInv
  OBVIOUS
<1> USE DriverAssumption DEF Init
<1>1. Begun = {} /\ Held = {} /\ Panicked = {} /\ Outgoing = {} /\ Incoming = {}
  BY ElemsEmpty DEF Begun, Held, Panicked, Outgoing, Incoming, Elems, Inputs
<1>2. TypeOK
  <2>1. <<>> \in Seq(Msgs) /\ <<>> \in Seq(Results) /\ Len(<<>>) = 0
    OBVIOUS
  <2>2. 0 \in 0 .. MaxXid
    OBVIOUS
  <2>3. Len(out) <= SendQueueLen /\ Len(in) <= RecvQueueLen
    BY <2>1
  <2>4. QED
    BY <2>1, <2>2, <2>3 DEF TypeOK, CallerStates, HandlerStates
<1>3. XidInv /\ TableInv
  BY <1>1, FS_EmptySet DEF XidInv, TableInv
<1>4. AnswerInv
  BY DEF AnswerInv, InTable, Inputs
<1>5. TruthInv
  BY DEF TruthInv, Truthful, Results, Elems
<1>6. OneRoutineAtATime
  BY DEF OneRoutineAtATime, Inputs
<1>7. PoolInv /\ CallerInv /\ HandlerInv /\ WireInv
  BY DEF PoolInv, CallerInv, HandlerInv, WireInv
<1>8. OutInv /\ InInv
  BY <1>1, ElemsEmpty DEF OutInv, InInv
<1>9. LostInv
  BY <1>1, FS_EmptySet DEF LostInv, Lost
<1>10. RequestAnswered
  BY DEF RequestAnswered, Inputs
<1>11. QED
  BY <1>2, <1>3, <1>4, <1>5, <1>6, <1>7, <1>8, <1>9, <1>10 DEF IInv

-----------------------------------------------------------------------------
\* While a call has not begun there is an XID for it.
LEMMA XidLeft ==
  ASSUME IInv, NEW c \in Calls, caller[c] = "idle"
  PROVE  /\ lastXid \in Nat /\ lastXid + 1 \in Xids
         /\ lastXid + 1 = Cardinality(Begun \cup {c})
<1> USE DriverAssumption DEF IInv
<1>1. Begun \cup {c} \in SUBSET Calls /\ Begun \in SUBSET Calls /\ c \notin Begun
  BY DEF Begun
<1>2. IsFiniteSet(Begun)
  BY <1>1, FS_Subset
<1>3. Cardinality(Begun \cup {c}) = lastXid + 1
  BY <1>1, <1>2, FS_AddElement DEF XidInv
<1>4. Cardinality(Begun \cup {c}) <= Cardinality(Calls) /\ Cardinality(Calls) \in Nat
  BY <1>1, FS_Subset, FS_CardinalityType
<1>5. QED
  BY <1>3, <1>4 DEF TypeOK, Xids

\* No Message has two owners.
LEMMA Apart ==
  ASSUME IInv
  PROVE  /\ \A c \in Calls : callMsg[c] # nil =>
              /\ callMsg[c] \in Msgs \ (pool \cup Outgoing \cup Incoming)
              /\ \A d \in Calls : callMsg[d] = callMsg[c] => c = d
              /\ \A i \in Inputs : handMsg[i] # callMsg[c] /\ replyMsg[i] # callMsg[c]
         /\ \A m \in Outgoing :
              /\ m \in Msgs \ (pool \cup Incoming)
              /\ \A i \in Inputs : handMsg[i] # m /\ replyMsg[i] # m
         /\ \A m \in Incoming :
              /\ m \in Msgs \ pool
              /\ \A i \in Inputs : handMsg[i] # m /\ replyMsg[i] # m
         /\ \A i \in Inputs : handMsg[i] # nil =>
              /\ handMsg[i] \in Msgs \ pool
              /\ \A j \in Inputs : /\ handMsg[j] = handMsg[i] => i = j
                                   /\ replyMsg[j] # handMsg[i]
         /\ \A i \in Inputs : replyMsg[i] # nil =>
              /\ replyMsg[i] \in Msgs \ pool
              /\ \A j \in Inputs : replyMsg[j] = replyMsg[i] => i = j
<1> USE DriverAssumption DEF IInv, Inputs
<1>1. \A m \in pool : m \in Msgs /\ body[m].of = nil
  BY DEF PoolInv, EmptyBody, TypeOK
<1>2. ASSUME NEW c \in Calls, callMsg[c] # nil
      PROVE  /\ callMsg[c] \in Msgs /\ caller[c] = "send"
             /\ body[callMsg[c]].kind = "call" /\ body[callMsg[c]].of = c
  BY <1>2 DEF CallerInv
<1>3. ASSUME NEW m \in Outgoing
      PROVE  m \in Msgs /\ OutBody(body[m])
  <2>1. m \in Msgs
    BY DEF Outgoing, TypeOK
  <2>2. QED
    BY <2>1 DEF OutInv
<1>4. ASSUME NEW m \in Incoming
      PROVE  m \in Msgs /\ InBody(body[m])
  <2>1. m \in Msgs
    BY ElemsIn DEF Incoming, TypeOK
  <2>2. QED
    BY <2>1 DEF InInv
<1>5. ASSUME NEW i \in Inputs, handMsg[i] # nil
      PROVE  /\ handMsg[i] \in Msgs /\ FromPeer(body[handMsg[i]])
             /\ body[handMsg[i]].of = i /\ handler[i] \in {"start", "do", "detached"}
  BY <1>5 DEF HandlerInv
<1>6. ASSUME NEW i \in Inputs, replyMsg[i] # nil
      PROVE  /\ replyMsg[i] \in Msgs /\ handler[i] = "send" /\ i \in Reqs
             /\ body[replyMsg[i]].kind = "reply" /\ body[replyMsg[i]].of = i
  BY <1>6 DEF HandlerInv
<1>7. \A m \in Msgs :
        /\ OutBody(body[m]) => body[m].of # nil /\ ~FromPeer(body[m])
        /\ FromPeer(body[m]) => body[m].of # nil
  BY DEF OutBody, FromPeer
<1>8. ASSUME NEW c \in Calls, callMsg[c] # nil
      PROVE  ~OutBody(body[callMsg[c]]) /\ ~FromPeer(body[callMsg[c]])
  BY <1>2, <1>8 DEF OutBody, FromPeer
<1>9. ASSUME NEW i \in Inputs, replyMsg[i] # nil
      PROVE  ~OutBody(body[replyMsg[i]]) /\ ~FromPeer(body[replyMsg[i]])
  BY <1>6, <1>9 DEF OutBody, FromPeer
<1>10. \A c \in Calls : callMsg[c] # nil =>
         /\ callMsg[c] \in Msgs \ (pool \cup Outgoing \cup Incoming)
         /\ \A d \in Calls : callMsg[d] = callMsg[c] => c = d
         /\ \A i \in Inputs : handMsg[i] # callMsg[c] /\ replyMsg[i] # callMsg[c]
  BY <1>1, <1>2, <1>3, <1>4, <1>5, <1>6, <1>8 DEF InBody
<1>11. \A m \in Outgoing :
         /\ m \in Msgs \ (pool \cup Incoming)
         /\ \A i \in Inputs : handMsg[i] # m /\ replyMsg[i] # m
  BY <1>1, <1>3, <1>4, <1>5, <1>7, <1>9 DEF InBody
<1>12. \A m \in Incoming :
         /\ m \in Msgs \ pool
         /\ \A i \in Inputs : handMsg[i] # m /\ replyMsg[i] # m
  BY <1>1, <1>4, <1>5, <1>7, <1>9 DEF InBody
<1>13. \A i \in Inputs : handMsg[i] # nil =>
         /\ handMsg[i] \in Msgs \ pool
         /\ \A j \in Inputs : /\ handMsg[j] = handMsg[i] => i = j
                              /\ replyMsg[j] # handMsg[i]
  BY <1>1, <1>5, <1>6, <1>7, <1>9
<1>14. \A i \in Inputs : replyMsg[i] # nil =>
         /\ replyMsg[i] \in Msgs \ pool
         /\ \A j \in Inputs : replyMsg[j] = replyMsg[i] => i = j
  BY <1>1, <1>6
<1>15. QED
  BY <1>10, <1>11, <1>12, <1>13, <1>14

\* A free Message is in nobody's hands.
LEMMA FreeIsApart ==
  ASSUME IInv, NEW m \in pool
  PROVE  /\ m \in Msgs /\ m \notin Outgoing /\ m \notin Incoming
         /\ \A c \in Calls : callMsg[c] # m
         /\ \A i \in Inputs : handMsg[i] # m /\ replyMsg[i] # m
<1>1. m \in Msgs /\ nil \notin Msgs
  BY DriverAssumption DEF IInv, TypeOK
<1>2. QED
  BY <1>1, Apart

-----------------------------------------------------------------------------
\* A call gets the next XID, an entry in the table and a Message.
LEMMA SendCallInv ==
  ASSUME IInv, NEW c \in Calls, SendCall(c)
  PROVE  IInv'
<1> USE DriverAssumption DEF IInv, driverVars, tableVars, msgVars, chanVars, sendVars, recvVars, handVars
<1>1. PICK m \in pool :
        /\ body' = [body EXCEPT ![m] = [kind |-> "call", xid |-> lastXid + 1, of |-> c]]
        /\ pool' = pool \ {m}
        /\ callMsg' = [callMsg EXCEPT ![c] = m]
  BY DEF SendCall, NewMessage
<1>2. /\ caller[c] = "idle"
      /\ lastXid' = lastXid + 1
      /\ xidOf' = [xidOf EXCEPT ![c] = lastXid + 1]
      /\ table' = [table EXCEPT ![lastXid + 1] = c]
      /\ caller' = [caller EXCEPT ![c] = "send"]
      /\ UNCHANGED <<done, up, started, out, outClosed, in, inClosed, callDone, result, box,
                     sender, sendMsg, sendXid, receiver, recvMsg, received, closer, loop,
                     handler, handMsg, replyMsg, reply, lockedBy, wire>>
  BY DEF SendCall
<1>3. /\ lastXid \in Nat /\ lastXid + 1 \in Xids
      /\ lastXid + 1 = Cardinality(Begun \cup {c})
  BY <1>2, XidLeft
<1>4. /\ m \in Msgs /\ m \notin Outgoing /\ m \notin Incoming
      /\ \A d \in Calls : callMsg[d] # m
      /\ \A i \in Inputs : handMsg[i] # m /\ replyMsg[i] # m
  BY FreeIsApart
<1>5. \A q \in Msgs : q # m => body'[q] = body[q]
  BY <1>1 DEF TypeOK
<1>6. body'[m] = [kind |-> "call", xid |-> lastXid + 1, of |-> c]
  BY <1>1, <1>4 DEF TypeOK
<1>7. c \notin received /\ handler[c] = "none" /\ callMsg[c] = nil
  BY <1>2 DEF WireInv, HandlerInv, CallerInv, Inputs
<1>8. table[lastXid + 1] = nil
  <2>1. table[lastXid + 1] \in Calls \cup {nil}
    BY <1>3 DEF TypeOK
  <2>2. \A d \in Calls : xidOf[d] # lastXid + 1
    BY <1>3 DEF XidInv
  <2>3. QED
    BY <1>3, <2>1, <2>2 DEF TableInv
<1>9. TypeOK'
  <2>1. body'[m] \in Bodies
    BY <1>3, <1>6 DEF Bodies, Inputs
  <2>2. body' \in [Msgs -> Bodies \cup {EmptyBody}]
    BY <1>1, <2>1, <1>6 DEF TypeOK
  <2>3. lastXid' \in 0 .. MaxXid /\ xidOf' \in [Calls -> 0 .. MaxXid]
    BY <1>2, <1>3 DEF TypeOK, Xids
  <2>4. caller' \in [Calls -> CallerStates] /\ callMsg' \in [Calls -> Msgs \cup {nil}]
    BY <1>1, <1>2, <1>4 DEF TypeOK, CallerStates
  <2>5. table' \in [Xids -> Calls \cup {nil}]
    BY <1>2, <1>3 DEF TypeOK
  <2>6. QED
    BY <1>1, <1>2, <2>2, <2>3, <2>4, <2>5 DEF TypeOK
<1>10. XidInv'
  <2>1. Begun' = Begun \cup {c}
    BY <1>2 DEF Begun, TypeOK
  <2>2. QED
    <3>1. \A d \in Calls : xidOf'[d] = IF d = c THEN lastXid + 1 ELSE xidOf[d]
      BY <1>2 DEF TypeOK
    <3>2. \A d \in Calls : caller'[d] = IF d = c THEN "send" ELSE caller[d]
      BY <1>2 DEF TypeOK
    <3>3. QED
      BY <1>2, <1>3, <2>1, <3>1, <3>2 DEF XidInv
<1>11. TableInv'
  BY <1>2, <1>3 DEF TableInv, TypeOK
<1>12. AnswerInv'
  <2>1. InTable(c)'
    BY <1>2, <1>3 DEF InTable, TypeOK
  <2>2. \A d \in Calls \ {c} : InTable(d)' <=> InTable(d)
    BY <1>2, <1>3, <1>8 DEF InTable, TypeOK
  <2>3. QED
    BY <1>2, <1>7, <2>1, <2>2 DEF AnswerInv, TypeOK
<1>13. TruthInv' /\ OneRoutineAtATime'
  BY <1>2 DEF TruthInv, Truthful, OneRoutineAtATime
<1>14. PoolInv' /\ CallerInv'
  BY <1>1, <1>2, <1>4, <1>5, <1>6 DEF PoolInv, CallerInv, TypeOK
<1>15. Outgoing' = Outgoing /\ Incoming' = Incoming
  BY <1>2 DEF Outgoing, Incoming
<1>16. /\ \A q \in Outgoing : body'[q] = body[q]
       /\ \A q \in Incoming : body'[q] = body[q]
       /\ \A i \in Inputs : handMsg[i] # nil => body'[handMsg[i]] = body[handMsg[i]]
       /\ \A i \in Inputs : replyMsg[i] # nil => body'[replyMsg[i]] = body[replyMsg[i]]
  BY <1>4, <1>5, Apart
<1>17. OutInv'
  <2>1. \A b : OutBody(b) => OutBody(b)'
    BY <1>2 DEF OutBody, TypeOK
  <2>2. \A q \in Outgoing' : OutBody(body[q])'
    BY <1>15, <1>16, <2>1 DEF OutInv, OutBody
  <2>3. QED
    BY <1>2, <2>2 DEF OutInv
<1>18. InInv'
  <2>1. \A b : InBody(b) => InBody(b)'
    BY <1>2, <1>7 DEF InBody, FromPeer, TypeOK
  <2>2. \A q \in Incoming' : InBody(body[q])'
    BY <1>15, <1>16, <2>1 DEF InInv, InBody, FromPeer
  <2>3. QED
    BY <1>2, <1>15, <1>16, <2>2 DEF InInv
<1>19. HandlerInv'
  BY <1>2, <1>7, <1>16 DEF HandlerInv, FromPeer, TypeOK
<1>20. WireInv'
  BY <1>2 DEF WireInv, OutBody, TypeOK
<1>21. LostInv'
  <2>1. Held' = Held \cup {m}
    BY <1>1, <1>2, <1>4, <1>7 DEF Held, TypeOK
  <2>2. Lost' = Lost /\ Panicked' = Panicked
    BY <1>1, <1>2, <2>1 DEF Lost, Panicked, TypeOK
  <2>3. QED
    BY <2>2 DEF LostInv
<1>22. RequestAnswered'
  BY <1>2, <1>15, <1>16 DEF RequestAnswered
<1>23. QED
  BY <1>9, <1>10, <1>11, <1>12, <1>13, <1>14, <1>17, <1>18, <1>19, <1>20, <1>21, <1>22

\* The entry stays, and a message is lost.
LEMMA SendCallPanicsInv ==
  ASSUME IInv, NEW c \in Calls, SendCallPanics(c)
  PROVE  IInv'
<1> USE DriverAssumption DEF IInv, driverVars, tableVars, msgVars, chanVars, sendVars, recvVars, handVars
<1>1. PICK m \in pool : pool' = pool \ {m}
  BY DEF SendCallPanics
<1>2. /\ caller[c] = "idle"
      /\ lastXid' = lastXid + 1
      /\ xidOf' = [xidOf EXCEPT ![c] = lastXid + 1]
      /\ table' = [table EXCEPT ![lastXid + 1] = c]
      /\ caller' = [caller EXCEPT ![c] = "panicked"]
      /\ UNCHANGED <<done, up, started, body, out, outClosed, in, inClosed, callDone, callMsg,
                     result, box, sender, sendMsg, sendXid, receiver, recvMsg, received,
                     closer, loop, handler, handMsg, replyMsg, reply, lockedBy, wire>>
  BY DEF SendCallPanics
<1>3. /\ lastXid \in Nat /\ lastXid + 1 \in Xids
      /\ lastXid + 1 = Cardinality(Begun \cup {c})
  BY <1>2, XidLeft
<1>4. /\ m \in Msgs /\ m \notin Outgoing /\ m \notin Incoming
      /\ \A d \in Calls : callMsg[d] # m
      /\ \A i \in Inputs : handMsg[i] # m /\ replyMsg[i] # m
  BY FreeIsApart
<1>5. c \notin received /\ handler[c] = "none" /\ callMsg[c] = nil
  BY <1>2 DEF WireInv, HandlerInv, CallerInv, Inputs
<1>6. table[lastXid + 1] = nil
  <2>1. table[lastXid + 1] \in Calls \cup {nil}
    BY <1>3 DEF TypeOK
  <2>2. \A d \in Calls : xidOf[d] # lastXid + 1
    BY <1>3 DEF XidInv
  <2>3. QED
    BY <1>3, <2>1, <2>2 DEF TableInv
<1>7. TypeOK'
  <2>1. lastXid' \in 0 .. MaxXid /\ xidOf' \in [Calls -> 0 .. MaxXid]
    BY <1>2, <1>3 DEF TypeOK, Xids
  <2>2. caller' \in [Calls -> CallerStates] /\ table' \in [Xids -> Calls \cup {nil}]
    BY <1>2, <1>3 DEF TypeOK, CallerStates
  <2>3. QED
    BY <1>1, <1>2, <2>1, <2>2 DEF TypeOK
<1>8. XidInv'
  <2>1. Begun' = Begun \cup {c}
    BY <1>2 DEF Begun, TypeOK
  <2>2. \A d \in Calls : xidOf'[d] = IF d = c THEN lastXid + 1 ELSE xidOf[d]
    BY <1>2 DEF TypeOK
  <2>3. \A d \in Calls : caller'[d] = IF d = c THEN "panicked" ELSE caller[d]
    BY <1>2 DEF TypeOK
  <2>4. QED
    BY <1>2, <1>3, <2>1, <2>2, <2>3 DEF XidInv
<1>9. TableInv'
  BY <1>2, <1>3 DEF TableInv, TypeOK
<1>10. AnswerInv'
  <2>1. \A d \in Calls \ {c} : InTable(d)' <=> InTable(d)
    BY <1>2, <1>3, <1>6 DEF InTable, TypeOK
  <2>2. QED
    BY <1>2, <1>5, <2>1 DEF AnswerInv, TypeOK
<1>11. TruthInv' /\ OneRoutineAtATime'
  BY <1>2 DEF TruthInv, Truthful, OneRoutineAtATime
<1>12. PoolInv' /\ CallerInv'
  BY <1>1, <1>2, <1>5 DEF PoolInv, CallerInv, TypeOK
<1>13. OutInv' /\ WireInv'
  <2>1. \A b : OutBody(b) => OutBody(b)'
    BY <1>2 DEF OutBody, TypeOK
  <2>2. Outgoing' = Outgoing
    BY <1>2 DEF Outgoing
  <2>3. OutInv'
    BY <1>2, <2>1, <2>2 DEF OutInv, OutBody
  <2>4. WireInv'
    BY <1>2, <1>5, <2>1 DEF WireInv, OutBody, TypeOK
  <2>5. QED
    BY <2>3, <2>4
<1>14. InInv'
  <2>1. \A b : InBody(b) => InBody(b)'
    BY <1>2, <1>5 DEF InBody, FromPeer, TypeOK
  <2>2. QED
    BY <1>2, <2>1 DEF InInv, InBody, FromPeer, Incoming
<1>15. HandlerInv'
  BY <1>2, <1>5 DEF HandlerInv, FromPeer, TypeOK
<1>16. LostInv'
  <2>1. Held' = Held /\ m \notin Held
    BY <1>2, <1>4 DEF Held, Outgoing, Incoming, Elems
  <2>2. Lost' = Lost \cup {m} /\ m \notin Lost
    BY <1>1, <1>4, <2>1 DEF Lost
  <2>3. Panicked' = Panicked \cup {c} /\ c \notin Panicked
    BY <1>2 DEF Panicked, TypeOK
  <2>4. IsFiniteSet(Panicked)
    BY FS_Subset DEF Panicked
  <2>5. Cardinality(Panicked \cup {c}) = Cardinality(Panicked) + 1
    BY <2>3, <2>4, FS_AddElement
  <2>6. /\ IsFiniteSet(Lost \cup {m})
        /\ Cardinality(Lost \cup {m}) = Cardinality(Lost) + 1
    BY <2>2, FS_AddElement DEF LostInv
  <2>7. QED
    BY <2>2, <2>3, <2>5, <2>6 DEF LostInv
<1>17. RequestAnswered'
  BY <1>2 DEF RequestAnswered, Outgoing
<1>18. QED
  BY <1>7, <1>8, <1>9, <1>10, <1>11, <1>12, <1>13, <1>14, <1>15, <1>16, <1>17

-----------------------------------------------------------------------------
\* Steps that only tell others to stop: contexts are done, the transport is
\* down, channels are closed, and the goroutine that told them ends.
SignalStep ==
  /\ done' \in BOOLEAN /\ (done => done')
  /\ up' \in BOOLEAN /\ (up' => up)
  /\ outClosed' \in BOOLEAN /\ inClosed' \in BOOLEAN
  /\ callDone \subseteq callDone' /\ callDone' \subseteq Calls
  /\ closer' \in {"wait", "exited"}
  /\ sender' = sender \/ (sender = "select" /\ sender' = "exited")
  /\ receiver' = receiver \/ (receiver = "receive" /\ receiver' = "exited")
  /\ UNCHANGED <<started, tableVars, msgVars, out, in, caller, callMsg, result, box, sendMsg,
                 sendXid, recvMsg, received, loop, handVars, wire>>

\* Such a step keeps the invariant.
LEMMA SignalInv ==
  ASSUME IInv, SignalStep
  PROVE  IInv'
<1> USE DEF IInv, SignalStep, tableVars, msgVars, handVars
<1>1. TypeOK'
  BY DEF TypeOK
<1>2. TruthInv'
  BY DEF TruthInv, Truthful, TypeOK
<1>3. XidInv' /\ TableInv' /\ AnswerInv' /\ OneRoutineAtATime'
  BY DEF XidInv, Begun, TableInv, AnswerInv, InTable, OneRoutineAtATime
<1>4. PoolInv' /\ CallerInv' /\ HandlerInv' /\ WireInv'
  BY DEF PoolInv, CallerInv, HandlerInv, WireInv, OutBody, FromPeer
<1>5. OutInv' /\ InInv'
  BY DEF OutInv, InInv, Outgoing, Incoming, OutBody, InBody, FromPeer
<1>6. LostInv'
  BY DEF LostInv, Lost, Held, Panicked
<1>7. RequestAnswered'
  <2>1. Outgoing' = Outgoing /\ UNCHANGED <<body, wire, handler>>
    BY DEF Outgoing
  <2>2. done \/ ~up => done' \/ ~up'
    OBVIOUS
  <2>3. QED
    BY <2>1, <2>2, Zenon DEF RequestAnswered
<1>8. QED
  BY <1>1, <1>2, <1>3, <1>4, <1>5, <1>6, <1>7

\* The steps of this kind.
LEMMA SignalSteps ==
  ASSUME IInv,
         \/ Close \/ (\E c \in Calls : CallContextDone(c)) \/ CloserRuns
         \/ LoopSeesEnd \/ SenderCancelled \/ ReceiveFails
  PROVE  IInv'
<1> USE DEF driverVars, tableVars, msgVars, chanVars, callVars, sendVars, recvVars, handVars
<1>1. TypeOK
  BY DEF IInv
<1>2. SignalStep
  <2>1. CASE Close
    BY <1>1, <2>1 DEF TypeOK, SignalStep, Close
  <2>2. ASSUME NEW c \in Calls, CallContextDone(c)
        PROVE  SignalStep
    BY <1>1, <2>2 DEF TypeOK, SignalStep, CallContextDone
  <2>3. CASE CloserRuns
    BY <1>1, <2>3 DEF TypeOK, SignalStep, CloserRuns
  <2>4. CASE LoopSeesEnd
    BY <1>1, <2>4 DEF TypeOK, SignalStep, LoopSeesEnd
  <2>5. CASE SenderCancelled
    BY <1>1, <2>5 DEF TypeOK, SignalStep, SenderCancelled
  <2>6. CASE ReceiveFails
    BY <1>1, <2>6 DEF TypeOK, SignalStep, ReceiveFails
  <2>7. QED
    BY <2>1, <2>2, <2>3, <2>4, <2>5, <2>6
<1>3. QED
  BY <1>2, SignalInv

\* The driver is started once.
LEMMA GoInv ==
  ASSUME IInv, Go
  PROVE  IInv'
<1> USE DEF IInv, Go, tableVars, msgVars, chanVars, callVars, sendVars, recvVars, handVars
<1>1. TypeOK'
  BY DEF TypeOK
<1>2. TruthInv'
  BY DEF TruthInv, Truthful
<1>3. XidInv' /\ TableInv' /\ AnswerInv' /\ OneRoutineAtATime'
  BY DEF XidInv, Begun, TableInv, AnswerInv, InTable, OneRoutineAtATime
<1>4. PoolInv' /\ CallerInv' /\ HandlerInv' /\ WireInv'
  BY DEF PoolInv, CallerInv, HandlerInv, WireInv, OutBody, FromPeer
<1>5. OutInv' /\ InInv'
  BY DEF OutInv, InInv, Outgoing, Incoming, OutBody, InBody, FromPeer
<1>6. LostInv' /\ RequestAnswered'
  BY DEF LostInv, Lost, Held, Panicked, RequestAnswered, Outgoing
<1>7. QED
  BY <1>1, <1>2, <1>3, <1>4, <1>5, <1>6

-----------------------------------------------------------------------------
\* The call's message goes into the queue.
LEMMA CallEnqueuesInv ==
  ASSUME IInv, NEW c \in Calls, CallEnqueues(c)
  PROVE  IInv'
<1> USE DriverAssumption DEF IInv
<1>0. PICK m : m = callMsg[c]
  OBVIOUS
<1>1. /\ caller[c] = "send" /\ Len(out) < SendQueueLen
      /\ out' = Append(out, m)
      /\ callMsg' = [callMsg EXCEPT ![c] = nil]
      /\ caller' = [caller EXCEPT ![c] = "wait"]
      /\ UNCHANGED <<done, up, started, lastXid, table, xidOf, body, pool, outClosed, in,
                     inClosed, callDone, result, box, sender, sendMsg, sendXid, receiver,
                     recvMsg, received, closer, loop, handler, handMsg, replyMsg, reply,
                     lockedBy, wire>>
  BY <1>0 DEF CallEnqueues, driverVars, tableVars, msgVars, sendVars, recvVars, handVars
<1>2. /\ m \in Msgs /\ m # nil
      /\ body[m].kind = "call" /\ body[m].of = c /\ body[m].xid = xidOf[c]
  BY <1>0, <1>1 DEF CallerInv, TypeOK
<1>3. /\ m \notin Outgoing
      /\ \A d \in Calls : callMsg[d] = m => c = d
  BY <1>0, <1>2, Apart
<1>4. /\ Elems(out') = Elems(out) \cup {m} /\ Distinct(out')
      /\ m \notin Elems(out) /\ m # sendMsg
  <2>1. m \notin Elems(out) /\ m # sendMsg
    BY <1>2, <1>3 DEF Outgoing, Elems
  <2>2. out \in Seq(Msgs) /\ Distinct(out)
    BY DEF TypeOK, OutInv
  <2>3. QED
    BY <1>1, <1>2, <2>1, <2>2, ElemsAppend
<1>5. Outgoing' = Outgoing \cup {m}
  BY <1>1, <1>4 DEF Outgoing, Elems
<1>6. TypeOK'
  <2>1. out' \in Seq(Msgs) /\ Len(out') <= SendQueueLen
    BY <1>1, <1>2 DEF TypeOK
  <2>2. caller' \in [Calls -> CallerStates] /\ callMsg' \in [Calls -> Msgs \cup {nil}]
    BY <1>1 DEF TypeOK, CallerStates
  <2>3. QED
    BY <1>1, <2>1, <2>2 DEF TypeOK
<1>7. XidInv' /\ TableInv'
  <2>1. Begun' = Begun
    BY <1>1 DEF Begun, TypeOK
  <2>2. QED
    BY <1>1, <2>1 DEF XidInv, TableInv, TypeOK
<1>8. AnswerInv'
  BY <1>1 DEF AnswerInv, InTable, TypeOK
<1>9. TruthInv' /\ OneRoutineAtATime' /\ PoolInv'
  BY <1>1 DEF TruthInv, Truthful, OneRoutineAtATime, PoolInv
<1>10. CallerInv'
  BY <1>1 DEF CallerInv, TypeOK
<1>11. \A b : OutBody(b) => OutBody(b)'
  BY <1>1 DEF OutBody, TypeOK
<1>12. OutInv'
  <2>1. OutBody(body[m])'
    BY <1>1, <1>2 DEF OutBody, TypeOK
  <2>2. \A q \in Outgoing' : OutBody(body[q])'
    BY <1>1, <1>5, <1>11, <2>1 DEF OutInv, OutBody
  <2>3. QED
    BY <1>1, <1>4, <2>2 DEF OutInv
<1>13. InInv' /\ HandlerInv'
  BY <1>1 DEF InInv, Incoming, InBody, FromPeer, HandlerInv
<1>14. WireInv'
  BY <1>1, <1>11 DEF WireInv, OutBody, TypeOK
<1>15. LostInv'
  <2>1. Held' = Held
    BY <1>0, <1>1, <1>2, <1>3, <1>4 DEF Held, TypeOK
  <2>2. Lost' = Lost /\ Panicked' = Panicked
    BY <1>1, <2>1 DEF Lost, Panicked, TypeOK
  <2>3. QED
    BY <2>2 DEF LostInv
<1>16. RequestAnswered'
  BY <1>1, <1>5 DEF RequestAnswered
<1>17. QED
  BY <1>6, <1>7, <1>8, <1>9, <1>10, <1>12, <1>13, <1>14, <1>15, <1>16

\* safeSend gives up: the message goes back to the pool.
LEMMA CallSendAbortedInv ==
  ASSUME IInv, NEW c \in Calls, NEW err \in {"ErrTransportClosed", "ContextError"},
         CallSendAborted(c, err)
  PROVE  IInv'
<1> USE DriverAssumption DEF IInv
<1>0. PICK m : m = callMsg[c]
  OBVIOUS
<1>1. /\ caller[c] = "send"
      /\ body' = [body EXCEPT ![m] = EmptyBody] /\ pool' = pool \cup {m}
      /\ callMsg' = [callMsg EXCEPT ![c] = nil]
      /\ result' = [result EXCEPT ![c] = err]
      /\ caller' = [caller EXCEPT ![c] = "delete"]
      /\ UNCHANGED <<done, up, started, lastXid, table, xidOf, out, outClosed, in, inClosed,
                     callDone, box, sender, sendMsg, sendXid, receiver, recvMsg, received,
                     closer, loop, handler, handMsg, replyMsg, reply, lockedBy, wire>>
  BY <1>0 DEF CallSendAborted, Recycle, driverVars, tableVars, chanVars, sendVars, recvVars, handVars
<1>2. m \in Msgs /\ m # nil
  BY <1>0, <1>1 DEF CallerInv, TypeOK
<1>3. /\ m \notin Outgoing /\ m \notin Incoming
      /\ \A d \in Calls : callMsg[d] = m => c = d
      /\ \A i \in Inputs : handMsg[i] # m /\ replyMsg[i] # m
  BY <1>0, <1>2, Apart
<1>4. (err = "ErrTransportClosed" /\ done) \/ (err = "ContextError" /\ c \in callDone)
  BY DEF CallSendAborted
<1>5. \A q \in Msgs : q # m => body'[q] = body[q]
  BY <1>1 DEF TypeOK
<1>6. TypeOK'
  <2>1. body' \in [Msgs -> Bodies \cup {EmptyBody}] /\ pool' \subseteq Msgs
    BY <1>1, <1>2 DEF TypeOK
  <2>2. /\ caller' \in [Calls -> CallerStates] /\ callMsg' \in [Calls -> Msgs \cup {nil}]
        /\ result' \in [Calls -> Results \cup {nil}]
    BY <1>1 DEF TypeOK, CallerStates, Results
  <2>3. QED
    BY <1>1, <2>1, <2>2 DEF TypeOK
<1>7. XidInv' /\ TableInv'
  <2>1. Begun' = Begun
    BY <1>1 DEF Begun, TypeOK
  <2>2. QED
    BY <1>1, <2>1 DEF XidInv, TableInv, TypeOK
<1>8. AnswerInv' /\ OneRoutineAtATime'
  BY <1>1 DEF AnswerInv, InTable, OneRoutineAtATime, TypeOK
<1>9. TruthInv'
  BY <1>1, <1>4 DEF TruthInv, Truthful, TypeOK
<1>10. PoolInv' /\ CallerInv'
  BY <1>0, <1>1, <1>2, <1>3, <1>5 DEF PoolInv, CallerInv, TypeOK
<1>11. Outgoing' = Outgoing /\ Incoming' = Incoming
  BY <1>1 DEF Outgoing, Incoming
<1>12. /\ \A q \in Outgoing : body'[q] = body[q]
       /\ \A q \in Incoming : body'[q] = body[q]
       /\ \A i \in Inputs : handMsg[i] # nil => body'[handMsg[i]] = body[handMsg[i]]
       /\ \A i \in Inputs : replyMsg[i] # nil => body'[replyMsg[i]] = body[replyMsg[i]]
  BY <1>3, <1>5, Apart
<1>13. \A b : OutBody(b) => OutBody(b)'
  BY <1>1 DEF OutBody, TypeOK
<1>14. OutInv'
  <2>1. \A q \in Outgoing' : OutBody(body[q])'
    BY <1>11, <1>12, <1>13 DEF OutInv, OutBody
  <2>2. QED
    BY <1>1, <2>1 DEF OutInv
<1>15. InInv' /\ HandlerInv'
  BY <1>1, <1>11, <1>12 DEF InInv, InBody, FromPeer, HandlerInv
<1>16. WireInv'
  BY <1>1, <1>13 DEF WireInv, OutBody, TypeOK
<1>17. LostInv'
  <2>1. Held' \cup {m} = Held
    BY <1>0, <1>1, <1>2, <1>3 DEF Held, TypeOK
  <2>2. Lost' = Lost /\ Panicked' = Panicked
    BY <1>1, <2>1 DEF Lost, Panicked, TypeOK
  <2>3. QED
    BY <2>2 DEF LostInv
<1>18. RequestAnswered'
  BY <1>1, <1>11, <1>12 DEF RequestAnswered
<1>19. QED
  BY <1>6, <1>7, <1>8, <1>9, <1>10, <1>14, <1>15, <1>16, <1>17, <1>18

\* A call in the table is at its own XID.
LEMMA EntryXid ==
  ASSUME IInv, NEW c \in Calls
  PROVE  /\ caller[c] # "idle" => xidOf[c] \in Xids
         /\ \A x \in Xids : table[x] = c => x = xidOf[c]
<1>1. nil # c
  BY DriverAssumption
<1>2. QED
  BY <1>1 DEF IInv, TypeOK, XidInv, TableInv, Xids

\* The callback's status is taken from the channel.
LEMMA CallAnsweredInv ==
  ASSUME IInv, NEW c \in Calls, CallAnswered(c)
  PROVE  IInv'
<1> USE DriverAssumption DEF IInv
<1>1. /\ caller[c] = "wait" /\ box[c] # <<>>
      /\ result' = [result EXCEPT ![c] = Head(box[c])]
      /\ caller' = [caller EXCEPT ![c] = "returned"]
      /\ UNCHANGED <<done, up, started, lastXid, table, xidOf, body, pool, out, outClosed, in,
                     inClosed, callDone, callMsg, box, sender, sendMsg, sendXid, receiver,
                     recvMsg, received, closer, loop, handler, handMsg, replyMsg, reply,
                     lockedBy, wire>>
  BY DEF CallAnswered, driverVars, tableVars, msgVars, chanVars, sendVars, recvVars, handVars
<1>2. Head(box[c]) \in Results /\ Head(box[c]) \in Elems(box[c])
  <2>1. box[c] \in Seq(Results)
    BY DEF TypeOK
  <2>2. QED
    BY <1>1, <2>1, ElemsTail
<1>3. ~InTable(c)
  BY <1>1 DEF AnswerInv
<1>4. TypeOK'
  BY <1>1, <1>2 DEF TypeOK, CallerStates
<1>5. XidInv' /\ TableInv'
  <2>1. Begun' = Begun
    BY <1>1 DEF Begun, TypeOK
  <2>2. QED
    BY <1>1, <1>3, <2>1 DEF XidInv, TableInv, InTable, TypeOK
<1>6. AnswerInv' /\ OneRoutineAtATime'
  BY <1>1 DEF AnswerInv, InTable, OneRoutineAtATime, TypeOK
<1>7. TruthInv'
  BY <1>1, <1>2 DEF TruthInv, Truthful, TypeOK
<1>8. PoolInv' /\ CallerInv'
  BY <1>1 DEF PoolInv, CallerInv, TypeOK
<1>9. \A b : OutBody(b) => OutBody(b)'
  BY <1>1 DEF OutBody, TypeOK
<1>10. OutInv' /\ WireInv'
  BY <1>1, <1>9 DEF OutInv, Outgoing, OutBody, WireInv, TypeOK
<1>11. InInv' /\ HandlerInv'
  BY <1>1 DEF InInv, Incoming, InBody, FromPeer, HandlerInv
<1>12. LostInv' /\ RequestAnswered'
  <2>1. Panicked' = Panicked
    BY <1>1 DEF Panicked, TypeOK
  <2>2. QED
    BY <1>1, <2>1 DEF LostInv, Lost, Held, RequestAnswered, Outgoing
<1>13. QED
  BY <1>4, <1>5, <1>6, <1>7, <1>8, <1>10, <1>11, <1>12

\* SendCall gives up.
LEMMA CallAbandonedInv ==
  ASSUME IInv, NEW c \in Calls, NEW err \in {"ErrTransportClosed", "ContextError"},
         CallAbandoned(c, err)
  PROVE  IInv'
<1> USE DriverAssumption DEF IInv
<1>1. /\ caller[c] = "wait"
      /\ result' = [result EXCEPT ![c] = err]
      /\ caller' = [caller EXCEPT ![c] = "delete"]
      /\ UNCHANGED <<done, up, started, lastXid, table, xidOf, body, pool, out, outClosed, in,
                     inClosed, callDone, callMsg, box, sender, sendMsg, sendXid, receiver,
                     recvMsg, received, closer, loop, handler, handMsg, replyMsg, reply,
                     lockedBy, wire>>
  BY DEF CallAbandoned, driverVars, tableVars, msgVars, chanVars, sendVars, recvVars, handVars
<1>2. (err = "ErrTransportClosed" /\ done) \/ (err = "ContextError" /\ c \in callDone)
  BY DEF CallAbandoned
<1>3. TypeOK'
  BY <1>1 DEF TypeOK, CallerStates, Results
<1>4. XidInv' /\ TableInv'
  <2>1. Begun' = Begun
    BY <1>1 DEF Begun, TypeOK
  <2>2. QED
    BY <1>1, <2>1 DEF XidInv, TableInv, TypeOK
<1>5. AnswerInv' /\ OneRoutineAtATime'
  BY <1>1 DEF AnswerInv, InTable, OneRoutineAtATime, TypeOK
<1>6. TruthInv'
  BY <1>1, <1>2 DEF TruthInv, Truthful, TypeOK
<1>7. PoolInv' /\ CallerInv'
  BY <1>1 DEF PoolInv, CallerInv, TypeOK
<1>8. \A b : OutBody(b) => OutBody(b)'
  BY <1>1 DEF OutBody, TypeOK
<1>9. OutInv' /\ WireInv'
  BY <1>1, <1>8 DEF OutInv, Outgoing, OutBody, WireInv, TypeOK
<1>10. InInv' /\ HandlerInv'
  BY <1>1 DEF InInv, Incoming, InBody, FromPeer, HandlerInv
<1>11. LostInv' /\ RequestAnswered'
  <2>1. Panicked' = Panicked
    BY <1>1 DEF Panicked, TypeOK
  <2>2. QED
    BY <1>1, <2>1 DEF LostInv, Lost, Held, RequestAnswered, Outgoing
<1>12. QED
  BY <1>3, <1>4, <1>5, <1>6, <1>7, <1>9, <1>10, <1>11

\* Delete takes out this call's entry and no other.
LEMMA CallDeletesInv ==
  ASSUME IInv, NEW c \in Calls, CallDeletes(c)
  PROVE  IInv'
<1> USE DriverAssumption DEF IInv
<1>1. /\ caller[c] = "delete"
      /\ table' = [table EXCEPT ![xidOf[c]] = nil]
      /\ caller' = [caller EXCEPT ![c] = "returned"]
      /\ UNCHANGED <<done, up, started, lastXid, xidOf, body, pool, out, outClosed, in, inClosed,
                     callDone, callMsg, result, box, sender, sendMsg, sendXid, receiver,
                     recvMsg, received, closer, loop, handler, handMsg, replyMsg, reply,
                     lockedBy, wire>>
  BY DEF CallDeletes, driverVars, msgVars, chanVars, sendVars, recvVars, handVars
<1>2. xidOf[c] \in Xids
  BY <1>1, EntryXid
<1>3. ~InTable(c)' /\ \A d \in Calls \ {c} : InTable(d)' <=> InTable(d)
  <2>1. \A d \in Calls : \A x \in Xids : table[x] = d => x = xidOf[d]
    BY EntryXid
  <2>2. \A d \in Calls \ {c} : xidOf[d] # xidOf[c]
    BY <1>2 DEF XidInv, Xids
  <2>3. QED
    BY <1>1, <1>2, <2>1, <2>2 DEF InTable, TypeOK
<1>4. TypeOK'
  <2>1. caller' \in [Calls -> CallerStates] /\ table' \in [Xids -> Calls \cup {nil}]
    BY <1>1 DEF TypeOK, CallerStates
  <2>2. QED
    BY <1>1, <2>1 DEF TypeOK
<1>5. XidInv' /\ TableInv'
  <2>1. Begun' = Begun
    BY <1>1 DEF Begun, TypeOK
  <2>2. XidInv'
    BY <1>1, <2>1 DEF XidInv, TypeOK
  <2>3. TableInv'
    BY <1>1, <1>3 DEF TableInv, InTable, TypeOK
  <2>4. QED
    BY <2>2, <2>3
<1>6. AnswerInv' /\ OneRoutineAtATime'
  BY <1>1, <1>3 DEF AnswerInv, OneRoutineAtATime, TypeOK
<1>7. TruthInv' /\ PoolInv' /\ CallerInv'
  BY <1>1 DEF TruthInv, Truthful, PoolInv, CallerInv, TypeOK
<1>8. \A b : OutBody(b) => OutBody(b)'
  BY <1>1 DEF OutBody, TypeOK
<1>9. OutInv' /\ WireInv'
  BY <1>1, <1>8 DEF OutInv, Outgoing, OutBody, WireInv, TypeOK
<1>10. InInv' /\ HandlerInv'
  BY <1>1 DEF InInv, Incoming, InBody, FromPeer, HandlerInv
<1>11. LostInv' /\ RequestAnswered'
  <2>1. Panicked' = Panicked
    BY <1>1 DEF Panicked, TypeOK
  <2>2. QED
    BY <1>1, <2>1 DEF LostInv, Lost, Held, RequestAnswered, Outgoing
<1>12. QED
  BY <1>4, <1>5, <1>6, <1>7, <1>9, <1>10, <1>11

-----------------------------------------------------------------------------
\* The sender takes over the first message of the queue.
LEMMA SenderTakesInv ==
  ASSUME IInv, SenderTakes
  PROVE  IInv'
<1> USE DriverAssumption DEF IInv
<1>0. PICK m : m = Head(out)
  OBVIOUS
<1>1. /\ sender = "select" /\ sendMsg = nil /\ out # <<>>
      /\ sender' = "send" /\ sendMsg' = m /\ sendXid' = body[m].xid
      /\ out' = Tail(out)
      /\ UNCHANGED <<done, up, started, lastXid, table, xidOf, body, pool, outClosed, in,
                     inClosed, caller, callDone, callMsg, result, box, receiver, recvMsg,
                     received, closer, loop, handler, handMsg, replyMsg, reply, lockedBy, wire>>
  BY <1>0 DEF SenderTakes, OutInv, driverVars, tableVars, msgVars, callVars, recvVars, handVars
<1>2. /\ m \in Msgs /\ out' \in Seq(Msgs) /\ Elems(out) = Elems(out') \cup {m}
      /\ Distinct(out') /\ m \notin Elems(out')
  <2>1. out \in Seq(Msgs) /\ Distinct(out)
    BY DEF TypeOK, OutInv
  <2>2. QED
    BY <1>0, <1>1, <2>1, ElemsTail
<1>3. m # nil /\ Outgoing = Elems(out) /\ Outgoing' = Outgoing
  BY <1>1, <1>2 DEF Outgoing, Elems
<1>4. body[m].xid \in Xids
  <2>1. OutBody(body[m])
    BY <1>2, <1>3 DEF OutInv
  <2>2. body[m].of # nil
    BY <2>1 DEF OutBody
  <2>3. body[m] \in Bodies
    BY <1>2, <2>2 DEF TypeOK, EmptyBody
  <2>4. QED
    BY <2>3 DEF Bodies
<1>5. TypeOK'
  <2>1. Len(out') <= SendQueueLen
    BY <1>1 DEF TypeOK
  <2>2. sendXid' \in 0 .. MaxXid
    BY <1>1, <1>4 DEF Xids
  <2>3. QED
    BY <1>1, <1>2, <2>1, <2>2 DEF TypeOK
<1>6. XidInv' /\ TableInv' /\ AnswerInv' /\ OneRoutineAtATime'
  BY <1>1 DEF XidInv, Begun, TableInv, AnswerInv, InTable, OneRoutineAtATime
<1>7. TruthInv' /\ PoolInv' /\ CallerInv'
  BY <1>1 DEF TruthInv, Truthful, PoolInv, CallerInv
<1>8. OutInv'
  BY <1>1, <1>2, <1>3, <1>4 DEF OutInv, OutBody
<1>9. InInv' /\ HandlerInv' /\ WireInv'
  BY <1>1 DEF InInv, Incoming, InBody, FromPeer, HandlerInv, WireInv, OutBody
<1>10. LostInv'
  <2>1. Held' = Held
    BY <1>1, <1>2, <1>3 DEF Held, TypeOK
  <2>2. Lost' = Lost /\ Panicked' = Panicked
    BY <1>1, <2>1 DEF Lost, Panicked
  <2>3. QED
    BY <2>2 DEF LostInv
<1>11. RequestAnswered'
  BY <1>1, <1>3 DEF RequestAnswered
<1>12. QED
  BY <1>5, <1>6, <1>7, <1>8, <1>9, <1>10, <1>11

\* Send returns, and the message goes back to the pool: it has been written,
\* or the transport is down.
LEMMA SendEnds ==
  ASSUME IInv, SendSucceeds \/ SendFails
  PROVE  IInv'
<1> USE DriverAssumption DEF IInv
<1>0. PICK m : m = sendMsg
  OBVIOUS
<1>1. /\ sender = "send" /\ sendMsg' = nil
      /\ body' = [body EXCEPT ![m] = EmptyBody] /\ pool' = pool \cup {m}
      /\ UNCHANGED <<done, started, lastXid, table, xidOf, out, outClosed, in, inClosed,
                     caller, callDone, callMsg, result, box, receiver, recvMsg,
                     received, closer, loop, handler, handMsg, replyMsg, reply, lockedBy>>
  BY <1>0 DEF SendSucceeds, SendFails, Recycle, driverVars, tableVars, chanVars, callVars,
          recvVars, handVars
<1>2. \/ /\ sender' = "select" /\ sendXid' = 0 /\ up' = up
         /\ wire' = wire \cup {body[m]}
      \/ /\ sender' = "onErr" /\ sendXid' = sendXid /\ up' = FALSE
         /\ wire' = wire
  BY <1>0 DEF SendSucceeds, SendFails, driverVars
<1>3. m \in Msgs /\ m # nil /\ m \notin Elems(out)
  BY <1>0, <1>1 DEF OutInv
<1>4. m \in Outgoing /\ Outgoing' = Elems(out) /\ Outgoing = Elems(out) \cup {m}
  BY <1>0, <1>1, <1>3 DEF Outgoing, Elems
<1>5. /\ m \notin Incoming /\ m \notin pool
      /\ \A c \in Calls : callMsg[c] # m
      /\ \A i \in Inputs : handMsg[i] # m /\ replyMsg[i] # m
  BY <1>3, <1>4, Apart
<1>6. \A q \in Msgs : q # m => body'[q] = body[q]
  BY <1>1 DEF TypeOK
<1>7. OutBody(body[m]) /\ body[m] \in Bodies
  <2>1. OutBody(body[m])
    BY <1>4 DEF OutInv
  <2>2. body[m].of # nil
    BY <2>1 DEF OutBody
  <2>3. QED
    BY <1>3, <2>1, <2>2 DEF TypeOK, EmptyBody
<1>8. TypeOK'
  <2>1. body' \in [Msgs -> Bodies \cup {EmptyBody}] /\ pool' \subseteq Msgs
    BY <1>1, <1>3 DEF TypeOK
  <2>2. wire' \subseteq Bodies /\ sendXid' \in 0 .. MaxXid
    BY <1>2, <1>7 DEF TypeOK
  <2>3. sender' \in {"select", "send", "onErr", "exited"} /\ up' \in BOOLEAN
    BY <1>2 DEF TypeOK
  <2>4. QED
    BY <1>1, <2>1, <2>2, <2>3 DEF TypeOK
<1>9. XidInv' /\ TableInv' /\ AnswerInv' /\ OneRoutineAtATime'
  BY <1>1 DEF XidInv, Begun, TableInv, AnswerInv, InTable, OneRoutineAtATime
<1>10. TruthInv'
  <2>1. (up' => up) /\ (sender' = "onErr" => ~up')
    BY <1>2
  <2>2. QED
    BY <1>1, <2>1 DEF TruthInv, Truthful
<1>11. PoolInv' /\ CallerInv'
  BY <1>1, <1>3, <1>5, <1>6 DEF PoolInv, CallerInv, TypeOK
<1>12. Incoming' = Incoming
  BY <1>1 DEF Incoming
<1>13. /\ \A q \in Outgoing' : q \in Outgoing /\ body'[q] = body[q]
       /\ \A q \in Incoming : body'[q] = body[q]
       /\ \A i \in Inputs : handMsg[i] # nil => body'[handMsg[i]] = body[handMsg[i]]
       /\ \A i \in Inputs : replyMsg[i] # nil => body'[replyMsg[i]] = body[replyMsg[i]]
  <2>1. \A q \in Outgoing' : q \in Outgoing /\ q # m
    BY <1>3, <1>4
  <2>2. QED
    BY <1>5, <1>6, <2>1, Apart
<1>14. OutInv'
  <2>1. \A q \in Outgoing' : OutBody(body[q])'
    BY <1>1, <1>13 DEF OutInv, OutBody
  <2>2. QED
    BY <1>1, <1>2, <2>1 DEF OutInv
<1>15. InInv' /\ HandlerInv'
  BY <1>1, <1>12, <1>13 DEF InInv, InBody, FromPeer, HandlerInv
<1>16. WireInv'
  <2>1. \A b \in wire' : b \in wire \/ b = body[m]
    BY <1>2
  <2>2. QED
    BY <1>1, <1>7, <2>1 DEF WireInv, OutBody
<1>17. LostInv'
  <2>1. Held' \cup {m} = Held
    BY <1>0, <1>1, <1>3, <1>5 DEF Held, TypeOK
  <2>2. Lost' = Lost /\ Panicked' = Panicked
    BY <1>1, <2>1 DEF Lost, Panicked, TypeOK
  <2>3. QED
    BY <2>2 DEF LostInv
<1>18. RequestAnswered'
  <2>1. CASE up' = FALSE
    BY <2>1 DEF RequestAnswered
  <2>2. CASE wire' = wire \cup {body[m]} /\ up' = up
    <3>1. \A q \in Outgoing : (q \in Outgoing' /\ body'[q] = body[q]) \/ body[q] \in wire'
      BY <1>4, <1>13, <2>2
    <3>2. QED
      BY <1>1, <2>2, <3>1 DEF RequestAnswered
  <2>3. QED
    BY <1>2, <2>1, <2>2
<1>19. QED
  BY <1>8, <1>9, <1>10, <1>11, <1>14, <1>15, <1>16, <1>17, <1>18

\* onErr tells the call whose XID the message had.
LEMMA SendErrInv ==
  ASSUME IInv, SendErr
  PROVE  IInv'
<1> USE DriverAssumption DEF IInv
<1>1. /\ sender = "onErr" /\ sender' = "select" /\ sendXid' = 0
      /\ UNCHANGED <<done, up, started, lastXid, xidOf, body, pool, out, outClosed, in,
                     inClosed, caller, callDone, callMsg, result, sendMsg, receiver, recvMsg,
                     received, closer, loop, handler, handMsg, replyMsg, reply, lockedBy, wire>>
  BY DEF SendErr, driverVars, msgVars, chanVars, callVars, recvVars, handVars
<1>2. sendXid \in Xids /\ ~up
  BY <1>1 DEF OutInv, TruthInv
<1>3. TypeOK' /\ TableInv' /\ AnswerInv' /\ TruthInv'
  <2>1. CASE table[sendXid] = nil
    <3>1. UNCHANGED <<table, box>>
      BY <2>1 DEF SendErr
    <3>2. TypeOK'
      BY <1>1, <3>1 DEF TypeOK
    <3>3. QED
      BY <1>1, <3>1, <3>2 DEF TableInv, AnswerInv, InTable, TruthInv, Truthful
  <2>2. CASE table[sendXid] # nil
    <3>1. PICK d : d = table[sendXid]
      OBVIOUS
    <3>2. /\ d \in Calls
          /\ box' = [box EXCEPT ![d] = Append(@, "SEND_ERR")]
          /\ table' = [table EXCEPT ![sendXid] = nil]
      BY <1>2, <2>2, <3>1 DEF SendErr, Deliver, TypeOK
    <3>3. InTable(d) /\ sendXid = xidOf[d] /\ box[d] = <<>>
      BY <1>2, <3>1, <3>2, EntryXid DEF InTable, AnswerInv
    <3>4. ~InTable(d)' /\ \A c \in Calls \ {d} : InTable(c)' <=> InTable(c)
      <4>1. \A c \in Calls : \A x \in Xids : table[x] = c => x = xidOf[c]
        BY EntryXid
      <4>2. QED
        BY <1>1, <1>2, <3>1, <3>2, <3>3, <4>1 DEF InTable, TypeOK
    <3>5. /\ box'[d] = <<"SEND_ERR">>
          /\ \A c \in Calls \ {d} : box'[c] = box[c]
      BY <3>2, <3>3 DEF TypeOK
    <3>6. TypeOK'
      <4>1. box' \in [Calls -> Seq(Results)]
        BY <3>2, <3>5 DEF TypeOK, Results
      <4>2. table' \in [Xids -> Calls \cup {nil}]
        BY <3>2 DEF TypeOK
      <4>3. QED
        BY <1>1, <4>1, <4>2 DEF TypeOK
    <3>7. TableInv'
      BY <1>1, <1>2, <3>2 DEF TableInv, TypeOK
    <3>8. AnswerInv'
      <4>1. handler[d] # "callback" /\ caller[d] # "idle"
        BY <1>2, <2>2, <3>1, <3>2, <3>3 DEF AnswerInv, TableInv
      <4>2. Len(box'[d]) = 1 /\ box'[d] # <<>>
        BY <3>5
      <4>3. QED
        BY <1>1, <3>2, <3>4, <3>5, <4>1, <4>2 DEF AnswerInv
    <3>9. TruthInv'
      <4>1. Elems(box'[d]) = {"SEND_ERR"}
        BY <3>5 DEF Elems
      <4>2. QED
        BY <1>1, <1>2, <3>5, <4>1 DEF TruthInv, Truthful
    <3>10. QED
      BY <3>6, <3>7, <3>8, <3>9
  <2>3. QED
    BY <2>1, <2>2
<1>4. XidInv' /\ OneRoutineAtATime' /\ PoolInv' /\ CallerInv'
  BY <1>1 DEF XidInv, Begun, OneRoutineAtATime, PoolInv, CallerInv
<1>5. OutInv' /\ InInv'
  BY <1>1 DEF OutInv, Outgoing, OutBody, InInv, Incoming, InBody, FromPeer
<1>6. HandlerInv' /\ WireInv'
  BY <1>1 DEF HandlerInv, FromPeer, WireInv, OutBody
<1>7. LostInv' /\ RequestAnswered'
  BY <1>1 DEF LostInv, Lost, Held, Panicked, RequestAnswered, Outgoing
<1>8. QED
  BY <1>3, <1>4, <1>5, <1>6, <1>7

-----------------------------------------------------------------------------
\* A message of the peer's is read into a new Message.
LEMMA ReceiveInv ==
  ASSUME IInv, NEW i \in Inputs, NEW b \in Bodies, Receive(i, b),
         FromPeer(b), b.of = i,
         i \in Calls => caller[i] \in {"wait", "delete", "returned"}
  PROVE  IInv'
<1> USE DriverAssumption DEF IInv
<1>1. PICK m \in pool :
        /\ body' = [body EXCEPT ![m] = b] /\ pool' = pool \ {m}
        /\ recvMsg' = m
  BY DEF Receive, NewMessage
<1>2. /\ receiver = "receive" /\ receiver' = "queue" /\ recvMsg = nil
      /\ i \notin received /\ received' = received \cup {i}
      /\ UNCHANGED <<done, up, started, lastXid, table, xidOf, out, outClosed, in, inClosed,
                     caller, callDone, callMsg, result, box, sender, sendMsg, sendXid, closer,
                     loop, handler, handMsg, replyMsg, reply, lockedBy, wire>>
  BY DEF Receive, InInv, driverVars, tableVars, chanVars, callVars, sendVars, handVars
<1>3. /\ m \in Msgs /\ m # nil /\ m \notin Outgoing /\ m \notin Incoming
      /\ \A c \in Calls : callMsg[c] # m
      /\ \A j \in Inputs : handMsg[j] # m /\ replyMsg[j] # m
  BY FreeIsApart DEF TypeOK
<1>4. body'[m] = b /\ \A q \in Msgs : q # m => body'[q] = body[q]
  BY <1>1, <1>3 DEF TypeOK
<1>5. /\ Outgoing' = Outgoing /\ Incoming = Elems(in) /\ m \notin Elems(in)
      /\ Incoming' = Incoming \cup {m}
  BY <1>1, <1>2, <1>3 DEF Outgoing, Incoming
<1>6. /\ \A q \in Outgoing : body'[q] = body[q]
      /\ \A q \in Incoming : body'[q] = body[q]
      /\ \A j \in Inputs : handMsg[j] # nil => body'[handMsg[j]] = body[handMsg[j]]
      /\ \A j \in Inputs : replyMsg[j] # nil => body'[replyMsg[j]] = body[replyMsg[j]]
  BY <1>3, <1>4, Apart
<1>7. handler[i] = "none"
  BY <1>2 DEF HandlerInv
<1>8. TypeOK'
  <2>1. body' \in [Msgs -> Bodies \cup {EmptyBody}] /\ pool' \subseteq Msgs
    BY <1>1, <1>3 DEF TypeOK
  <2>2. QED
    BY <1>1, <1>2, <1>3, <2>1 DEF TypeOK
<1>9. XidInv' /\ TableInv' /\ AnswerInv' /\ OneRoutineAtATime'
  BY <1>2 DEF XidInv, Begun, TableInv, AnswerInv, InTable, OneRoutineAtATime
<1>10. TruthInv'
  BY <1>2 DEF TruthInv, Truthful
<1>11. PoolInv' /\ CallerInv'
  BY <1>1, <1>2, <1>3, <1>4 DEF PoolInv, CallerInv, TypeOK
<1>12. OutInv'
  BY <1>2, <1>5, <1>6 DEF OutInv, OutBody
<1>13. InInv'
  <2>1. \A q \in Incoming' : InBody(body[q])'
    BY <1>2, <1>4, <1>5, <1>6, <1>7 DEF InInv, InBody, FromPeer
  <2>2. \A q \in Incoming : body'[q].of = body[q].of /\ body[q].of \in received
    BY <1>6 DEF InInv, InBody
  <2>3. \A q, r \in Incoming' : body'[q].of = body'[r].of => q = r
    BY <1>2, <1>4, <1>5, <2>2 DEF InInv
  <2>4. QED
    BY <1>1, <1>2, <1>3, <1>5, <2>1, <2>3 DEF InInv
<1>14. HandlerInv' /\ WireInv'
  BY <1>2, <1>6 DEF HandlerInv, FromPeer, WireInv, OutBody
<1>15. LostInv'
  <2>1. Held' = Held \cup {m}
    BY <1>1, <1>2, <1>3 DEF Held, TypeOK
  <2>2. Lost' = Lost /\ Panicked' = Panicked
    BY <1>1, <1>2, <2>1 DEF Lost, Panicked
  <2>3. QED
    BY <2>2 DEF LostInv
<1>16. RequestAnswered'
  BY <1>2, <1>5, <1>6 DEF RequestAnswered
<1>17. QED
  BY <1>8, <1>9, <1>10, <1>11, <1>12, <1>13, <1>14, <1>15, <1>16

\* What the peer sends is as ReceiveInv asks: an answer only to what it was sent.
LEMMA PeerStepInv ==
  ASSUME IInv, PeerStep
  PROVE  IInv'
<1>1. ASSUME NEW c \in Calls, ReceiveReply(c)
      PROVE  IInv'
  <2>1. PICK b \in wire : /\ b.kind = "call" /\ b.of = c
                         /\ Receive(c, [b EXCEPT !.kind = "reply"])
    BY <1>1 DEF ReceiveReply
  <2>2. b \in Bodies /\ OutBody(b)
    BY DEF IInv, TypeOK, WireInv
  <2>3. b.xid = xidOf[c] /\ caller[c] \in {"wait", "delete", "returned"}
    BY <2>1, <2>2 DEF OutBody
  <2>4. PICK r : r = [b EXCEPT !.kind = "reply"]
    OBVIOUS
  <2>5. r \in Bodies /\ r.kind = "reply" /\ r.of = c /\ r.xid = b.xid
    BY <2>1, <2>2, <2>4 DEF Bodies
  <2>6. FromPeer(r)
    BY <2>3, <2>5 DEF FromPeer
  <2>7. QED
    BY <2>1, <2>3, <2>4, <2>5, <2>6, ReceiveInv DEF Inputs
<1>2. ASSUME NEW q \in Reqs, NEW kind \in {"call", "unavail", "garbage"}, NEW x \in Xids,
             ReceiveRequest(q, kind, x)
      PROVE  IInv'
  <2>1. PICK r : r = [kind |-> kind, xid |-> x, of |-> q]
    OBVIOUS
  <2>2. r \in Bodies /\ r.of = q /\ FromPeer(r)
    BY <2>1 DEF Bodies, Inputs, FromPeer
  <2>3. q \notin Calls
    BY DriverAssumption
  <2>4. QED
    BY <1>2, <2>1, <2>2, <2>3, ReceiveInv DEF ReceiveRequest, Inputs
<1>3. QED
  BY <1>1, <1>2 DEF PeerStep

\* What has been read goes into the queue.
LEMMA ReceiverQueuesInv ==
  ASSUME IInv, ReceiverQueues
  PROVE  IInv'
<1> USE DriverAssumption DEF IInv
<1>0. PICK m : m = recvMsg
  OBVIOUS
<1>1. /\ receiver = "queue" /\ receiver' = "receive" /\ recvMsg' = nil
      /\ Len(in) < RecvQueueLen /\ in' = Append(in, m)
      /\ UNCHANGED <<done, up, started, lastXid, table, xidOf, body, pool, out, outClosed,
                     inClosed, caller, callDone, callMsg, result, box, sender, sendMsg,
                     sendXid, received, closer, loop, handler, handMsg, replyMsg, reply,
                     lockedBy, wire>>
  BY <1>0 DEF ReceiverQueues, driverVars, tableVars, msgVars, callVars, sendVars, handVars
<1>2. m \in Msgs /\ m # nil /\ m \notin Elems(in) /\ Distinct(in)
  BY <1>0, <1>1 DEF InInv
<1>3. Elems(in') = Elems(in) \cup {m} /\ Distinct(in')
  <2>1. in \in Seq(Msgs)
    BY DEF TypeOK
  <2>2. QED
    BY <1>1, <1>2, <2>1, ElemsAppend
<1>4. Incoming' = Incoming
  BY <1>0, <1>1, <1>2, <1>3 DEF Incoming
<1>5. TypeOK'
  <2>1. in' \in Seq(Msgs) /\ Len(in') <= RecvQueueLen
    BY <1>1, <1>2 DEF TypeOK
  <2>2. QED
    BY <1>1, <2>1 DEF TypeOK
<1>6. XidInv' /\ TableInv' /\ AnswerInv' /\ OneRoutineAtATime'
  BY <1>1 DEF XidInv, Begun, TableInv, AnswerInv, InTable, OneRoutineAtATime
<1>7. TruthInv' /\ PoolInv' /\ CallerInv'
  BY <1>1 DEF TruthInv, Truthful, PoolInv, CallerInv
<1>8. OutInv' /\ HandlerInv' /\ WireInv'
  BY <1>1 DEF OutInv, Outgoing, OutBody, HandlerInv, FromPeer, WireInv
<1>9. InInv'
  BY <1>1, <1>3, <1>4 DEF InInv, InBody, FromPeer
<1>10. LostInv' /\ RequestAnswered'
  <2>1. Held' = Held
    BY <1>0, <1>1, <1>2, <1>3 DEF Held
  <2>2. Lost' = Lost /\ Panicked' = Panicked
    BY <1>1, <2>1 DEF Lost, Panicked
  <2>3. QED
    BY <1>1, <2>2 DEF LostInv, RequestAnswered, Outgoing
<1>11. QED
  BY <1>5, <1>6, <1>7, <1>8, <1>9, <1>10

\* The receiver drops what it has read.
LEMMA ReceiverCancelledInv ==
  ASSUME IInv, ReceiverCancelled
  PROVE  IInv'
<1> USE DriverAssumption DEF IInv
<1>0. PICK m : m = recvMsg
  OBVIOUS
<1>1. /\ receiver = "queue" /\ receiver' = "exited" /\ recvMsg' = nil
      /\ body' = [body EXCEPT ![m] = EmptyBody] /\ pool' = pool \cup {m}
      /\ inClosed' = TRUE /\ up' = FALSE
      /\ UNCHANGED <<done, started, lastXid, table, xidOf, out, outClosed, in, caller, callDone,
                     callMsg, result, box, sender, sendMsg, sendXid, received, closer, loop,
                     handler, handMsg, replyMsg, reply, lockedBy, wire>>
  BY <1>0 DEF ReceiverCancelled, Recycle, tableVars, callVars, sendVars, handVars
<1>2. m \in Msgs /\ m # nil /\ m \notin Elems(in)
  BY <1>0, <1>1 DEF InInv
<1>3. m \in Incoming /\ Incoming' = Elems(in) /\ Incoming = Elems(in) \cup {m}
  BY <1>0, <1>1, <1>2 DEF Incoming
<1>4. /\ m \notin Outgoing /\ m \notin pool
      /\ \A c \in Calls : callMsg[c] # m
      /\ \A i \in Inputs : handMsg[i] # m /\ replyMsg[i] # m
  BY <1>2, <1>3, Apart
<1>5. \A q \in Msgs : q # m => body'[q] = body[q]
  BY <1>1 DEF TypeOK
<1>6. Outgoing' = Outgoing
  BY <1>1 DEF Outgoing
<1>7. /\ \A q \in Outgoing : body'[q] = body[q]
      /\ \A q \in Incoming' : q \in Incoming /\ body'[q] = body[q]
      /\ \A i \in Inputs : handMsg[i] # nil => body'[handMsg[i]] = body[handMsg[i]]
      /\ \A i \in Inputs : replyMsg[i] # nil => body'[replyMsg[i]] = body[replyMsg[i]]
  <2>1. \A q \in Incoming' : q \in Incoming /\ q # m
    BY <1>2, <1>3
  <2>2. QED
    BY <1>4, <1>5, <2>1, Apart
<1>8. TypeOK'
  <2>1. body' \in [Msgs -> Bodies \cup {EmptyBody}] /\ pool' \subseteq Msgs
    BY <1>1, <1>2 DEF TypeOK
  <2>2. QED
    BY <1>1, <2>1 DEF TypeOK
<1>9. XidInv' /\ TableInv' /\ AnswerInv' /\ OneRoutineAtATime'
  BY <1>1 DEF XidInv, Begun, TableInv, AnswerInv, InTable, OneRoutineAtATime
<1>10. TruthInv'
  BY <1>1 DEF TruthInv, Truthful
<1>11. PoolInv' /\ CallerInv'
  BY <1>1, <1>2, <1>4, <1>5 DEF PoolInv, CallerInv, TypeOK
<1>12. OutInv' /\ WireInv'
  BY <1>1, <1>6, <1>7 DEF OutInv, OutBody, WireInv
<1>13. InInv'
  BY <1>1, <1>7 DEF InInv, InBody, FromPeer
<1>14. HandlerInv'
  BY <1>1, <1>7 DEF HandlerInv, FromPeer
<1>15. LostInv'
  <2>1. Held' \cup {m} = Held
    BY <1>0, <1>1, <1>2, <1>4 DEF Held, Outgoing, Elems
  <2>2. Lost' = Lost /\ Panicked' = Panicked
    BY <1>1, <2>1 DEF Lost, Panicked
  <2>3. QED
    BY <2>2 DEF LostInv
<1>16. RequestAnswered'
  BY <1>1 DEF RequestAnswered
<1>17. QED
  BY <1>8, <1>9, <1>10, <1>11, <1>12, <1>13, <1>14, <1>15, <1>16

-----------------------------------------------------------------------------
\* The loop starts a handler for the first message received.
LEMMA LoopTakesInv ==
  ASSUME IInv, LoopTakes
  PROVE  IInv'
<1> USE DriverAssumption DEF IInv
<1>0. PICK m, i : m = Head(in) /\ i = body[m].of
  OBVIOUS
<1>1. /\ in # <<>> /\ in' = Tail(in)
      /\ handler' = [handler EXCEPT ![i] = "start"]
      /\ handMsg' = [handMsg EXCEPT ![i] = m]
      /\ UNCHANGED <<done, up, started, lastXid, table, xidOf, body, pool, out, outClosed,
                     inClosed, caller, callDone, callMsg, result, box, sender, sendMsg,
                     sendXid, receiver, recvMsg, received, closer, loop, replyMsg, reply,
                     lockedBy, wire>>
  BY <1>0 DEF LoopTakes, driverVars, tableVars, msgVars, callVars, sendVars, recvVars
<1>2. /\ m \in Msgs /\ in' \in Seq(Msgs) /\ Elems(in) = Elems(in') \cup {m}
      /\ Distinct(in') /\ m \notin Elems(in')
  <2>1. in \in Seq(Msgs) /\ Distinct(in)
    BY DEF TypeOK, InInv
  <2>2. QED
    BY <1>0, <1>1, <2>1, ElemsTail
<1>3. m \in Incoming /\ m # recvMsg /\ Incoming = Incoming' \cup {m} /\ m \notin Incoming'
  BY <1>1, <1>2 DEF Incoming, InInv
<1>4. FromPeer(body[m]) /\ i \in received /\ handler[i] = "none" /\ i \in Inputs
  BY <1>0, <1>3 DEF InInv, InBody, TypeOK
<1>5. handMsg[i] = nil /\ replyMsg[i] = nil
  BY <1>4 DEF HandlerInv
<1>6. TypeOK'
  <2>1. Len(in') <= RecvQueueLen
    BY <1>1 DEF TypeOK
  <2>2. /\ handler' \in [Inputs -> HandlerStates]
        /\ handMsg' \in [Inputs -> Msgs \cup {nil}]
    BY <1>1, <1>2 DEF TypeOK, HandlerStates
  <2>3. QED
    BY <1>1, <1>2, <2>1, <2>2 DEF TypeOK
<1>7. XidInv' /\ TableInv' /\ TruthInv' /\ PoolInv' /\ CallerInv'
  BY <1>1 DEF XidInv, Begun, TableInv, TruthInv, Truthful, PoolInv, CallerInv
<1>8. AnswerInv' /\ OneRoutineAtATime'
  BY <1>1, <1>4 DEF AnswerInv, InTable, OneRoutineAtATime, TypeOK, Inputs
<1>9. OutInv' /\ WireInv'
  <2>1. \A b : OutBody(b) => OutBody(b)'
    BY <1>1, <1>4 DEF OutBody, TypeOK
  <2>2. QED
    BY <1>1, <2>1 DEF OutInv, Outgoing, OutBody, WireInv
<1>10. InInv'
  <2>1. \A q \in Incoming' : q \in Incoming /\ q # m
    BY <1>3
  <2>2. \A q \in Incoming' : body[q].of # i
    BY <1>0, <1>3, <2>1 DEF InInv
  <2>3. \A q \in Incoming' : InBody(body[q])'
    BY <1>1, <1>4, <2>1, <2>2 DEF InInv, InBody, FromPeer, TypeOK
  <2>4. QED
    BY <1>1, <1>2, <2>1, <2>3 DEF InInv
<1>11. HandlerInv'
  BY <1>0, <1>1, <1>2, <1>4 DEF HandlerInv, FromPeer, TypeOK
<1>12. LostInv'
  <2>1. Held' = Held
    BY <1>1, <1>2, <1>4, <1>5 DEF Held, TypeOK
  <2>2. Lost' = Lost /\ Panicked' = Panicked
    BY <1>1, <2>1 DEF Lost, Panicked
  <2>3. QED
    BY <2>2 DEF LostInv
<1>13. RequestAnswered'
  <2>1. \A q \in Inputs : handler'[q] = "exited" => handler[q] = "exited"
    BY <1>1 DEF TypeOK
  <2>2. Reqs \subseteq Inputs /\ Outgoing' = Outgoing /\ body' = body /\ wire' = wire
    BY <1>1 DEF Outgoing, Inputs
  <2>3. (done => done') /\ (~up => ~up')
    BY <1>1
  <2>4. QED
    BY <2>1, <2>2, <2>3, Zenon DEF RequestAnswered
<1>14. QED
  BY <1>6, <1>7, <1>8, <1>9, <1>10, <1>11, <1>12, <1>13

\* CancelAll answers every call in the table, and empties it.
LEMMA LoopReturnsInv ==
  ASSUME IInv, LoopReturns
  PROVE  IInv'
<1> USE DriverAssumption DEF IInv
<1>1. /\ loop = "select" /\ loop' = "exited"
      /\ box' = [c \in Calls |-> IF InTable(c) THEN Append(box[c], "CANCELED") ELSE box[c]]
      /\ table' = [x \in Xids |-> nil]
      /\ UNCHANGED <<done, up, started, lastXid, xidOf, body, pool, out, outClosed, in,
                     inClosed, caller, callDone, callMsg, result, sender, sendMsg, sendXid,
                     receiver, recvMsg, received, closer, handler, handMsg, replyMsg, reply,
                     lockedBy, wire>>
  BY DEF LoopReturns, driverVars, msgVars, chanVars, callVars, sendVars, recvVars, handVars
<1>2. \A c \in Calls : /\ ~InTable(c)'
                       /\ InTable(c) => box[c] = <<>> /\ box'[c] = <<"CANCELED">>
                       /\ ~InTable(c) => box'[c] = box[c]
  <2>1. \A c \in Calls : ~InTable(c)'
    BY <1>1 DEF InTable
  <2>2. \A c \in Calls : InTable(c) => box[c] = <<>>
    BY DEF AnswerInv
  <2>3. Append(<<>>, "CANCELED") = <<"CANCELED">>
    OBVIOUS
  <2>4. \A c \in Calls : box'[c] = IF InTable(c) THEN Append(box[c], "CANCELED") ELSE box[c]
    BY <1>1
  <2>5. QED
    BY <2>1, <2>2, <2>3, <2>4
<1>3. TypeOK'
  <2>1. box' \in [Calls -> Seq(Results)]
    BY <1>1, <1>2 DEF TypeOK, Results
  <2>2. table' \in [Xids -> Calls \cup {nil}]
    BY <1>1
  <2>3. QED
    BY <1>1, <2>1, <2>2 DEF TypeOK
<1>4. XidInv' /\ TableInv' /\ OneRoutineAtATime' /\ PoolInv' /\ CallerInv'
  BY <1>1 DEF XidInv, Begun, TableInv, OneRoutineAtATime, PoolInv, CallerInv
<1>5. AnswerInv'
  <2>1. \A c \in Calls : InTable(c) => caller[c] # "idle" /\ handler[c] # "callback"
    BY DEF InTable, TableInv, AnswerInv
  <2>2. Len(<<"CANCELED">>) = 1 /\ <<"CANCELED">> # <<>>
    OBVIOUS
  <2>3. QED
    BY <1>1, <1>2, <2>1, <2>2 DEF AnswerInv
<1>6. TruthInv'
  <2>1. Elems(<<"CANCELED">>) = {"CANCELED"}
    BY DEF Elems
  <2>2. QED
    BY <1>1, <1>2, <2>1 DEF TruthInv, Truthful
<1>7. OutInv' /\ InInv'
  BY <1>1 DEF OutInv, Outgoing, OutBody, InInv, Incoming, InBody, FromPeer
<1>8. HandlerInv' /\ WireInv'
  BY <1>1 DEF HandlerInv, FromPeer, WireInv, OutBody
<1>9. LostInv' /\ RequestAnswered'
  BY <1>1 DEF LostInv, Lost, Held, Panicked, RequestAnswered, Outgoing
<1>10. QED
  BY <1>3, <1>4, <1>5, <1>6, <1>7, <1>8, <1>9

-----------------------------------------------------------------------------
\* What holds of a handler that has a request or a reply to look at.
LEMMA HolderFacts ==
  ASSUME IInv, NEW i \in Inputs, handler[i] \in {"start", "do", "detached"}
  PROVE  /\ handMsg[i] \in Msgs /\ handMsg[i] # nil /\ handMsg[i] \notin pool
         /\ handMsg[i] \notin Outgoing \cup Incoming
         /\ FromPeer(body[handMsg[i]]) /\ body[handMsg[i]] \in Bodies
         /\ body[handMsg[i]].of = i /\ i \in received /\ replyMsg[i] = nil
         /\ \A c \in Calls : callMsg[c] # handMsg[i]
         /\ \A j \in Inputs : /\ handMsg[j] = handMsg[i] => i = j
                              /\ replyMsg[j] # handMsg[i]
<1> USE DriverAssumption DEF IInv
<1>1. /\ handMsg[i] \in Msgs /\ handMsg[i] # nil
      /\ FromPeer(body[handMsg[i]]) /\ body[handMsg[i]].of = i
      /\ i \in received /\ replyMsg[i] = nil
  BY DEF HandlerInv
<1>2. body[handMsg[i]] \in Bodies
  BY <1>1 DEF TypeOK, EmptyBody, FromPeer
<1>3. \A c \in Calls : callMsg[c] # handMsg[i]
  BY <1>1, Apart
<1>4. QED
  BY <1>1, <1>2, <1>3, Apart

\* Dropping the message one holds disturbs nobody else's.
LEMMA HandlerDropsKeeps ==
  ASSUME IInv, NEW i \in Inputs, handler[i] = "start",
         NEW h \in {"exited", "callback"}, h = "callback" => i \in Calls,
         Recycle(handMsg[i]),
         handMsg' = [handMsg EXCEPT ![i] = nil],
         handler' = [handler EXCEPT ![i] = h],
         UNCHANGED <<chanVars, callVars, sendVars, recvVars, xidOf, replyMsg, lockedBy, wire>>
  PROVE  /\ body' \in [Msgs -> Bodies \cup {EmptyBody}] /\ pool' \subseteq Msgs
         /\ handMsg' \in [Inputs -> Msgs \cup {nil}]
         /\ handler' \in [Inputs -> HandlerStates]
         /\ OneRoutineAtATime' /\ PoolInv' /\ CallerInv' /\ OutInv' /\ InInv' /\ WireInv'
         /\ LostInv'
         /\ Outgoing' = Outgoing
         /\ \A q \in Outgoing : body'[q] = body[q]
         /\ \A j \in Inputs : handMsg'[j] # nil => body'[handMsg[j]] = body[handMsg[j]]
         /\ \A j \in Inputs : replyMsg[j] # nil => body'[replyMsg[j]] = body[replyMsg[j]]
<1> USE DriverAssumption DEF IInv
<1>0. PICK m : m = handMsg[i]
  OBVIOUS
<1>1. /\ body' = [body EXCEPT ![m] = EmptyBody] /\ pool' = pool \cup {m}
      /\ UNCHANGED <<out, outClosed, in, inClosed, caller, callDone, callMsg, result, sender,
                     sendMsg, sendXid, receiver, recvMsg, received, xidOf, replyMsg, lockedBy,
                     wire>>
  BY <1>0 DEF Recycle, chanVars, callVars, sendVars, recvVars
<1>2. /\ m \in Msgs /\ m # nil /\ m \notin pool /\ m \notin Outgoing /\ m \notin Incoming
      /\ \A c \in Calls : callMsg[c] # m
      /\ \A j \in Inputs : (handMsg[j] = m => i = j) /\ replyMsg[j] # m
  BY <1>0, HolderFacts
<1>3. \A q \in Msgs : q # m => body'[q] = body[q]
  BY <1>1 DEF TypeOK
<1>4. Outgoing' = Outgoing /\ Incoming' = Incoming
  BY <1>1 DEF Outgoing, Incoming
<1>5. /\ handMsg'[i] = nil
      /\ \A j \in Inputs : j # i => handMsg'[j] = handMsg[j] /\ handler'[j] = handler[j]
  BY DEF TypeOK
<1>6. /\ \A q \in Outgoing : body'[q] = body[q]
      /\ \A q \in Incoming : body'[q] = body[q]
      /\ \A j \in Inputs : handMsg'[j] # nil => body'[handMsg[j]] = body[handMsg[j]]
      /\ \A j \in Inputs : replyMsg[j] # nil => body'[replyMsg[j]] = body[replyMsg[j]]
  BY <1>0, <1>2, <1>3, <1>5, Apart
<1>7. /\ body' \in [Msgs -> Bodies \cup {EmptyBody}] /\ pool' \subseteq Msgs
      /\ handMsg' \in [Inputs -> Msgs \cup {nil}]
      /\ handler' \in [Inputs -> HandlerStates]
  BY <1>1, <1>2 DEF TypeOK, HandlerStates
<1>8. OneRoutineAtATime'
  BY <1>1 DEF OneRoutineAtATime, TypeOK
<1>9. PoolInv' /\ CallerInv'
  BY <1>1, <1>2, <1>3 DEF PoolInv, CallerInv, TypeOK
<1>10. OutInv' /\ WireInv'
  <2>1. \A b : OutBody(b) => OutBody(b)'
    BY <1>1 DEF OutBody, TypeOK
  <2>2. QED
    BY <1>1, <1>4, <1>6, <2>1 DEF OutInv, WireInv, OutBody
<1>11. InInv'
  <2>1. \A q \in Incoming : handler[body[q].of] = "none" /\ body[q].of \in Inputs
    BY DEF InInv, InBody, TypeOK
  <2>2. \A q \in Incoming : InBody(body[q])'
    BY <1>1, <1>5, <1>6, <2>1 DEF InInv, InBody, FromPeer
  <2>3. QED
    BY <1>1, <1>4, <1>6, <2>2 DEF InInv
<1>12. LostInv'
  <2>1. Held' \cup {m} = Held
    BY <1>0, <1>1, <1>2, <1>5 DEF Held, Outgoing, Incoming
  <2>2. Lost' = Lost /\ Panicked' = Panicked
    BY <1>1, <2>1 DEF Lost, Panicked
  <2>3. QED
    BY <2>2 DEF LostInv
<1>13. QED
  BY <1>4, <1>6, <1>7, <1>8, <1>9, <1>10, <1>11, <1>12

\* Garbage ends the driver; a late reply is dropped.
LEMMA HandlerDropsInv ==
  ASSUME IInv, NEW i \in Inputs, HandleGarbage(i) \/ HandleLateReply(i)
  PROVE  IInv'
<1> USE DriverAssumption DEF IInv
<1>1. /\ handler[i] = "start" /\ handler' = [handler EXCEPT ![i] = "exited"]
      /\ handMsg' = [handMsg EXCEPT ![i] = nil]
      /\ Recycle(handMsg[i])
      /\ UNCHANGED <<up, started, tableVars, chanVars, callVars, box, sendVars, recvVars,
                     closer, loop, replyMsg, reply, lockedBy, wire>>
  BY DEF HandleGarbage, HandleLateReply, HandlerDrops, Holds, driverVars
<1>2. /\ body' \in [Msgs -> Bodies \cup {EmptyBody}] /\ pool' \subseteq Msgs
      /\ handMsg' \in [Inputs -> Msgs \cup {nil}]
      /\ handler' \in [Inputs -> HandlerStates]
      /\ OneRoutineAtATime' /\ PoolInv' /\ CallerInv' /\ OutInv' /\ InInv' /\ WireInv'
      /\ LostInv'
      /\ Outgoing' = Outgoing
      /\ \A q \in Outgoing : body'[q] = body[q]
      /\ \A j \in Inputs : handMsg'[j] # nil => body'[handMsg[j]] = body[handMsg[j]]
      /\ \A j \in Inputs : replyMsg[j] # nil => body'[replyMsg[j]] = body[replyMsg[j]]
  BY <1>1, HandlerDropsKeeps DEF tableVars
<1>3. /\ UNCHANGED <<up, started, lastXid, table, xidOf, out, outClosed, in, inClosed, caller,
                     callDone, callMsg, result, box, sender, sendMsg, sendXid, receiver, recvMsg,
                     received, closer, loop, replyMsg, reply, lockedBy, wire>>
  BY <1>1 DEF tableVars, chanVars, callVars, sendVars, recvVars
<1>4. done' \in BOOLEAN /\ (done => done')
  BY DEF HandleGarbage, HandleLateReply, driverVars, TypeOK
<1>5. TypeOK'
  BY <1>2, <1>3, <1>4 DEF TypeOK
<1>6. XidInv' /\ TableInv' /\ AnswerInv'
  BY <1>1, <1>3 DEF XidInv, Begun, TableInv, AnswerInv, InTable, TypeOK, Inputs
<1>7. TruthInv'
  BY <1>3, <1>4 DEF TruthInv, Truthful
<1>8. HandlerInv'
  <2>1. i \in received
    BY <1>1, HolderFacts
  <2>2. replyMsg[i] = nil
    BY <1>1, HolderFacts
  <2>3. /\ handMsg'[i] = nil /\ handler'[i] = "exited"
        /\ \A j \in Inputs : j # i => handMsg'[j] = handMsg[j] /\ handler'[j] = handler[j]
    BY <1>1 DEF TypeOK
  <2>4. QED
    BY <1>2, <1>3, <2>1, <2>2, <2>3 DEF HandlerInv, FromPeer
<1>9. RequestAnswered'
  <2>1. CASE HandleGarbage(i)
    BY <2>1 DEF RequestAnswered, HandleGarbage
  <2>2. CASE HandleLateReply(i)
    <3>1. i \notin Reqs
      <4>1. body[handMsg[i]].kind = "reply"
        BY <2>2 DEF HandleLateReply, Holds
      <4>2. FromPeer(body[handMsg[i]]) /\ body[handMsg[i]].of = i
        BY <1>1, HolderFacts
      <4>3. QED
        BY <4>1, <4>2 DEF FromPeer
    <3>2. \A q \in Reqs : handler'[q] = handler[q]
      BY <1>1, <3>1 DEF TypeOK, Inputs
    <3>3. (done => done') /\ (~up => ~up') /\ wire' = wire
      BY <1>3, <1>4
    <3>4. \A q \in Outgoing : q \in Outgoing' /\ body'[q] = body[q]
      BY <1>2
    <3>5. QED
      BY <3>2, <3>3, <3>4, Zenon DEF RequestAnswered
  <2>3. QED
    BY <2>1, <2>2
<1>10. QED
  BY <1>2, <1>5, <1>6, <1>7, <1>8, <1>9

\* The reply to a call takes its entry out of the table.
LEMMA HandleReplyInv ==
  ASSUME IInv, NEW i \in Inputs, HandleReply(i)
  PROVE  IInv'
<1> USE DriverAssumption DEF IInv
<1>0. PICK b : b = body[handMsg[i]]
  OBVIOUS
<1>1. /\ handler[i] = "start" /\ handler' = [handler EXCEPT ![i] = "callback"]
      /\ handMsg' = [handMsg EXCEPT ![i] = nil]
      /\ Recycle(handMsg[i])
      /\ b.kind = "reply" /\ table[b.xid] # nil
      /\ table' = [table EXCEPT ![b.xid] = nil]
      /\ reply' = [reply EXCEPT ![i] = [b EXCEPT !.of = table[b.xid]]]
      /\ UNCHANGED <<driverVars, lastXid, xidOf, chanVars, callVars, box, sendVars, recvVars,
                     closer, loop, replyMsg, lockedBy, wire>>
  BY <1>0 DEF HandleReply, Holds
\* The entry is the call's own.
<1>2. /\ i \in Calls /\ b.xid = xidOf[i] /\ b.xid \in Xids /\ table[b.xid] = i
      /\ b \in Bodies /\ b.of = i /\ i \in received /\ replyMsg[i] = nil
  <2>1. FromPeer(b) /\ b \in Bodies /\ b.of = i /\ i \in received /\ replyMsg[i] = nil
    BY <1>0, <1>1, HolderFacts
  <2>2. i \in Calls /\ b.xid = xidOf[i] /\ b.xid \in Xids
    BY <1>1, <2>1 DEF FromPeer, Bodies
  <2>3. table[b.xid] \in Calls /\ xidOf[table[b.xid]] = b.xid
    BY <1>1, <2>2 DEF TableInv, TypeOK
  <2>4. table[b.xid] = i
    BY <2>2, <2>3 DEF XidInv, Xids
  <2>5. QED
    BY <2>1, <2>2, <2>4
<1>3. /\ body' \in [Msgs -> Bodies \cup {EmptyBody}] /\ pool' \subseteq Msgs
      /\ handMsg' \in [Inputs -> Msgs \cup {nil}]
      /\ handler' \in [Inputs -> HandlerStates]
      /\ OneRoutineAtATime' /\ PoolInv' /\ CallerInv' /\ OutInv' /\ InInv' /\ WireInv'
      /\ LostInv'
      /\ Outgoing' = Outgoing
      /\ \A q \in Outgoing : body'[q] = body[q]
      /\ \A j \in Inputs : handMsg'[j] # nil => body'[handMsg[j]] = body[handMsg[j]]
      /\ \A j \in Inputs : replyMsg[j] # nil => body'[replyMsg[j]] = body[replyMsg[j]]
  BY <1>1, <1>2, HandlerDropsKeeps
<1>4. UNCHANGED <<done, up, started, lastXid, xidOf, out, outClosed, in, inClosed, caller,
                  callDone, callMsg, result, box, sender, sendMsg, sendXid, receiver, recvMsg,
                  received, closer, loop, replyMsg, lockedBy, wire>>
  BY <1>1 DEF driverVars, chanVars, callVars, sendVars, recvVars
<1>5. reply'[i] = b /\ \A j \in Inputs \ {i} : reply'[j] = reply[j] /\ handler'[j] = handler[j]
  <2>1. [b EXCEPT !.of = table[b.xid]] = b
    BY <1>2 DEF Bodies
  <2>2. QED
    BY <1>1, <2>1 DEF TypeOK
<1>6. TypeOK'
  <2>1. table' \in [Xids -> Calls \cup {nil}]
    BY <1>1 DEF TypeOK
  <2>2. reply' \in [Inputs -> Bodies \cup {EmptyBody}]
    <3>1. reply' = [reply EXCEPT ![i] = b]
      <4>1. [b EXCEPT !.of = table[b.xid]] = b
        BY <1>2 DEF Bodies
      <4>2. QED
        BY <1>1, <4>1
    <3>2. QED
      BY <1>2, <3>1 DEF TypeOK
  <2>3. QED
    BY <1>3, <1>4, <2>1, <2>2 DEF TypeOK
<1>7. XidInv' /\ TableInv'
  BY <1>1, <1>2, <1>4 DEF XidInv, Begun, TableInv, TypeOK
<1>8. AnswerInv'
  <2>1. InTable(i)
    BY <1>2 DEF InTable
  <2>2. ~InTable(i)' /\ \A c \in Calls \ {i} : InTable(c)' <=> InTable(c)
    <3>1. \A c \in Calls : \A x \in Xids : table[x] = c => x = xidOf[c]
      BY EntryXid
    <3>2. QED
      BY <1>1, <1>2, <3>1 DEF InTable, TypeOK
  <2>3. box[i] = <<>> /\ caller[i] # "idle"
    BY <1>2, <2>1 DEF AnswerInv, TableInv
  <2>4. handler'[i] = "callback"
    BY <1>1 DEF TypeOK
  <2>5. Calls \subseteq Inputs
    BY DEF Inputs
  <2>6. QED
    BY <1>4, <1>5, <2>2, <2>3, <2>4, <2>5 DEF AnswerInv
<1>9. TruthInv'
  BY <1>4 DEF TruthInv, Truthful
<1>10. HandlerInv'
  <2>1. /\ handMsg'[i] = nil /\ handler'[i] = "callback"
        /\ \A j \in Inputs : j # i => handMsg'[j] = handMsg[j] /\ handler'[j] = handler[j]
    BY <1>1 DEF TypeOK
  <2>2. QED
    BY <1>2, <1>3, <1>4, <1>5, <2>1 DEF HandlerInv, FromPeer
<1>11. RequestAnswered'
  <2>1. \A q \in Reqs : handler'[q] = handler[q]
    BY <1>2, <1>5 DEF Inputs
  <2>2. \A q \in Outgoing : q \in Outgoing' /\ body'[q] = body[q]
    BY <1>3
  <2>3. QED
    BY <1>4, <2>1, <2>2 DEF RequestAnswered
<1>12. QED
  BY <1>3, <1>6, <1>7, <1>8, <1>9, <1>10, <1>11

\* The callback puts the reply in the channel of the call.
LEMMA HandlerCallsBackInv ==
  ASSUME IInv, NEW i \in Inputs, HandlerCallsBack(i)
  PROVE  IInv'
<1> USE DriverAssumption DEF IInv
<1>1. /\ handler[i] = "callback" /\ handler' = [handler EXCEPT ![i] = "exited"]
      /\ Deliver(reply[i].of, "REPLIED")
      /\ reply' = [reply EXCEPT ![i] = EmptyBody]
      /\ UNCHANGED <<done, up, started, lastXid, table, xidOf, body, pool, out, outClosed, in,
                     inClosed, caller, callDone, callMsg, result, sender, sendMsg, sendXid,
                     receiver, recvMsg, received, closer, loop, handMsg, replyMsg, lockedBy,
                     wire>>
  BY DEF HandlerCallsBack, driverVars, tableVars, msgVars, chanVars, callVars, sendVars, recvVars
<1>2. /\ i \in Calls /\ i \notin Reqs /\ reply[i].of = i /\ i \in received
      /\ ~InTable(i) /\ box[i] = <<>> /\ caller[i] # "idle"
  <2>1. i \in Calls /\ reply[i].of = i /\ i \in received
    BY <1>1 DEF HandlerInv
  <2>2. QED
    BY <1>1, <2>1 DEF AnswerInv, WireInv
<1>3. /\ box' = [box EXCEPT ![i] = Append(@, "REPLIED")]
      /\ box'[i] = <<"REPLIED">>
      /\ \A c \in Calls \ {i} : box'[c] = box[c]
  BY <1>1, <1>2 DEF Deliver, TypeOK
<1>4. /\ handler'[i] = "exited"
      /\ \A j \in Inputs \ {i} : handler'[j] = handler[j] /\ reply'[j] = reply[j]
  BY <1>1 DEF TypeOK
<1>5. TypeOK'
  <2>1. box' \in [Calls -> Seq(Results)]
    <3>1. <<"REPLIED">> \in Seq(Results)
      BY DEF Results
    <3>2. \A c \in Calls : box'[c] \in Seq(Results)
      BY <1>2, <1>3, <3>1 DEF TypeOK
    <3>3. DOMAIN box' = Calls /\ box' = [c \in Calls |-> box'[c]]
      BY <1>3 DEF TypeOK
    <3>4. QED
      BY <3>2, <3>3
  <2>2. handler' \in [Inputs -> HandlerStates] /\ reply' \in [Inputs -> Bodies \cup {EmptyBody}]
    BY <1>1 DEF TypeOK, HandlerStates
  <2>3. QED
    BY <1>1, <2>1, <2>2 DEF TypeOK
<1>6. XidInv' /\ TableInv' /\ PoolInv' /\ CallerInv'
  BY <1>1 DEF XidInv, Begun, TableInv, PoolInv, CallerInv
<1>7. AnswerInv'
  <2>1. \A c \in Calls : InTable(c)' <=> InTable(c)
    BY <1>1 DEF InTable
  <2>2. Len(box'[i]) = 1 /\ box'[i] # <<>>
    <3>1. Len(<<"REPLIED">>) = 1 /\ <<"REPLIED">> # <<>>
      OBVIOUS
    <3>2. QED
      BY <1>3, <3>1, Zenon
  <2>3. Calls \subseteq Inputs
    BY DEF Inputs
  <2>4. QED
    BY <1>1, <1>2, <1>3, <1>4, <2>1, <2>2, <2>3 DEF AnswerInv
<1>8. TruthInv'
  <2>1. Elems(box'[i]) = {"REPLIED"}
    BY <1>3 DEF Elems
  <2>2. QED
    BY <1>1, <1>2, <1>3, <2>1 DEF TruthInv, Truthful
<1>9. OneRoutineAtATime'
  BY <1>1, <1>4 DEF OneRoutineAtATime
<1>10. OutInv' /\ WireInv'
  <2>1. \A b : OutBody(b) => OutBody(b)'
    BY <1>1 DEF OutBody, TypeOK
  <2>2. QED
    BY <1>1, <2>1 DEF OutInv, Outgoing, WireInv, OutBody
<1>11. InInv'
  <2>1. \A b : InBody(b) => InBody(b)'
    BY <1>1 DEF InBody, FromPeer, TypeOK
  <2>2. QED
    BY <1>1, <2>1 DEF InInv, Incoming
<1>12. HandlerInv'
  BY <1>1, <1>2, <1>4 DEF HandlerInv, FromPeer
<1>13. LostInv' /\ RequestAnswered'
  <2>1. \A q \in Reqs : handler'[q] = handler[q]
    BY <1>2, <1>4 DEF Inputs
  <2>2. QED
    BY <1>1, <2>1 DEF LostInv, Lost, Held, Panicked, RequestAnswered, Outgoing
<1>14. QED
  BY <1>5, <1>6, <1>7, <1>8, <1>9, <1>10, <1>11, <1>12, <1>13

\* A service routine begins, or detaches: only Lock changes hands.
LEMMA LockInv ==
  ASSUME IInv, NEW i \in Inputs, HandleRequest(i) \/ HandlerDetaches(i)
  PROVE  IInv'
<1> USE DriverAssumption DEF IInv
<1>1. UNCHANGED <<done, up, started, lastXid, table, xidOf, body, pool, out, outClosed, in,
                  inClosed, caller, callDone, callMsg, result, box, sender, sendMsg, sendXid,
                  receiver, recvMsg, received, closer, loop, handMsg, replyMsg, wire>>
  BY DEF HandleRequest, HandlerDetaches, driverVars, tableVars, msgVars, chanVars, callVars,
         sendVars, recvVars
<1>2. /\ handler[i] \in {"start", "do"}
      /\ \E h \in {"do", "detached"} : handler' = [handler EXCEPT ![i] = h]
      /\ \A j \in Inputs \ {i} : handler'[j] = handler[j] /\ reply'[j] = reply[j]
  BY DEF HandleRequest, HandlerDetaches, Holds, TypeOK
<1>3. handler'[i] \in {"do", "detached"}
  BY <1>2 DEF TypeOK
<1>4. /\ handMsg[i] \in Msgs /\ FromPeer(body[handMsg[i]]) /\ body[handMsg[i]] \in Bodies
      /\ body[handMsg[i]].of = i /\ i \in received /\ replyMsg[i] = nil
  BY <1>2, HolderFacts
<1>5. /\ i \in Reqs /\ i \notin Calls
      /\ reply'[i] \in Bodies /\ reply'[i].kind = "reply" /\ reply'[i].of = i
  <2>1. CASE HandleRequest(i)
    <3>1. reply'[i] = ReplyTo(body[handMsg[i]]) /\ body[handMsg[i]].kind = "call"
      BY <2>1 DEF HandleRequest, Holds, TypeOK
    <3>2. QED
      BY <1>4, <3>1 DEF ReplyTo, FromPeer, Bodies
  <2>2. CASE HandlerDetaches(i)
    BY <2>2 DEF HandlerDetaches, HandlerInv
  <2>3. QED
    BY <2>1, <2>2
<1>6. TypeOK'
  <2>1. handler' \in [Inputs -> HandlerStates] /\ lockedBy' \in Inputs \cup {nil}
    BY <1>2 DEF TypeOK, HandlerStates, HandleRequest, HandlerDetaches
  <2>2. reply' \in [Inputs -> Bodies \cup {EmptyBody}]
    <3>1. DOMAIN reply' = Inputs /\ reply' = [j \in Inputs |-> reply'[j]]
      BY DEF TypeOK, HandleRequest, HandlerDetaches
    <3>2. \A j \in Inputs : reply'[j] \in Bodies \cup {EmptyBody}
      BY <1>2, <1>5 DEF TypeOK
    <3>3. QED
      BY <3>1, <3>2
  <2>3. QED
    BY <1>1, <2>1, <2>2 DEF TypeOK
<1>7. XidInv' /\ TableInv' /\ TruthInv' /\ PoolInv' /\ CallerInv'
  BY <1>1 DEF XidInv, Begun, TableInv, TruthInv, Truthful, PoolInv, CallerInv
<1>8. AnswerInv'
  <2>1. \A c \in Calls : c \in Inputs /\ c # i
    BY <1>5 DEF Inputs
  <2>2. QED
    BY <1>1, <1>2, <2>1 DEF AnswerInv, InTable
<1>9. OneRoutineAtATime'
  <2>1. CASE HandleRequest(i)
    BY <2>1 DEF HandleRequest, Holds, OneRoutineAtATime, TypeOK, Inputs
  <2>2. CASE HandlerDetaches(i)
    BY <2>2 DEF HandlerDetaches, OneRoutineAtATime, TypeOK, Inputs
  <2>3. QED
    BY <2>1, <2>2
<1>10. OutInv' /\ WireInv'
  <2>1. \A b : OutBody(b) => OutBody(b)'
    BY <1>1, <1>2 DEF OutBody, Inputs
  <2>2. QED
    BY <1>1, <2>1 DEF OutInv, Outgoing, WireInv, OutBody
<1>11. InInv'
  <2>1. \A b : InBody(b) => InBody(b)'
    BY <1>1, <1>2 DEF InBody, FromPeer, Inputs
  <2>2. QED
    BY <1>1, <2>1 DEF InInv, Incoming
<1>12. HandlerInv'
  <2>1. handler[i] \in {"start", "do", "detached"}
    BY <1>2
  <2>2. QED
    BY <1>1, <1>2, <1>3, <1>4, <1>5 DEF HandlerInv, FromPeer
<1>13. LostInv' /\ RequestAnswered'
  <2>1. \A q \in Reqs : handler'[q] = "exited" => handler[q] = "exited"
    BY <1>2, <1>3 DEF Inputs
  <2>2. QED
    BY <1>1, <2>1 DEF LostInv, Lost, Held, Panicked, RequestAnswered, Outgoing
<1>14. QED
  BY <1>6, <1>7, <1>8, <1>9, <1>10, <1>11, <1>12, <1>13

\* The request is dropped, and a Message taken for the reply.
LEMMA HandlerSwapsInv ==
  ASSUME IInv, NEW i \in Inputs, HandleUnavailable(i) \/ HandlerReplies(i)
  PROVE  IInv'
<1> USE DriverAssumption DEF IInv
<1>0. PICK m : m = handMsg[i]
  OBVIOUS
<1>1. /\ handler[i] \in {"start", "do", "detached"}
      /\ handler' = [handler EXCEPT ![i] = "send"]
      /\ handMsg' = [handMsg EXCEPT ![i] = nil]
      /\ \A j \in Inputs \ {i} : reply'[j] = reply[j]
      /\ reply' \in [Inputs -> Bodies \cup {EmptyBody}]
      /\ lockedBy' = IF handler[i] = "do" THEN nil ELSE lockedBy
      /\ UNCHANGED <<done, up, started, lastXid, table, xidOf, out, outClosed, in, inClosed,
                     caller, callDone, callMsg, result, box, sender, sendMsg, sendXid, receiver,
                     recvMsg, received, closer, loop, wire>>
  BY DEF HandleUnavailable, HandlerReplies, Holds, TypeOK, driverVars, tableVars, chanVars,
         callVars, sendVars, recvVars
<1>2. /\ m \in Msgs /\ m # nil /\ m \notin pool /\ m \notin Outgoing /\ m \notin Incoming
      /\ FromPeer(body[m]) /\ body[m] \in Bodies
      /\ body[m].of = i /\ i \in received /\ replyMsg[i] = nil
      /\ \A c \in Calls : callMsg[c] # m
      /\ \A j \in Inputs : (handMsg[j] = m => i = j) /\ replyMsg[j] # m
  BY <1>0, <1>1, HolderFacts
<1>3. \E r \in pool, b \in Bodies :
        /\ body' = [body EXCEPT ![m] = EmptyBody, ![r] = b]
        /\ pool' = (pool \ {r}) \cup {m}
        /\ replyMsg' = [replyMsg EXCEPT ![i] = r]
        /\ b.kind = "reply" /\ b.of = i /\ i \in Reqs
  <2>1. CASE HandleUnavailable(i)
    <3>1. PICK r \in pool : /\ SwapForReply(m, r, ReplyTo(body[m]))
                            /\ replyMsg' = [replyMsg EXCEPT ![i] = r]
      BY <1>0, <2>1 DEF HandleUnavailable
    <3>2. body[m].kind = "unavail"
      BY <1>0, <2>1 DEF HandleUnavailable, Holds
    <3>3. PICK b : b = ReplyTo(body[m])
      OBVIOUS
    <3>4. b \in Bodies /\ b.kind = "reply" /\ b.of = i /\ i \in Reqs
      BY <1>2, <3>2, <3>3 DEF ReplyTo, FromPeer, Bodies
    <3>5. QED
      BY <3>1, <3>3, <3>4 DEF SwapForReply
  <2>2. CASE HandlerReplies(i)
    <3>1. PICK r \in pool : /\ SwapForReply(m, r, reply[i])
                            /\ replyMsg' = [replyMsg EXCEPT ![i] = r]
      BY <1>0, <2>2 DEF HandlerReplies
    <3>2. reply[i] \in Bodies /\ reply[i].kind = "reply" /\ reply[i].of = i /\ i \in Reqs
      BY <2>2 DEF HandlerReplies, HandlerInv
    <3>3. QED
      BY <3>1, <3>2 DEF SwapForReply
  <2>3. QED
    BY <2>1, <2>2
<1>4. PICK r \in pool, b \in Bodies :
        /\ body' = [body EXCEPT ![m] = EmptyBody, ![r] = b]
        /\ pool' = (pool \ {r}) \cup {m}
        /\ replyMsg' = [replyMsg EXCEPT ![i] = r]
        /\ b.kind = "reply" /\ b.of = i /\ i \in Reqs
  BY <1>3
<1>5. /\ r \in Msgs /\ r # nil /\ r # m /\ r \notin Outgoing /\ r \notin Incoming
      /\ \A c \in Calls : callMsg[c] # r
      /\ \A j \in Inputs : handMsg[j] # r /\ replyMsg[j] # r
  BY <1>2, FreeIsApart
<1>6. /\ body'[m] = EmptyBody /\ body'[r] = b
      /\ \A q \in Msgs : q # m /\ q # r => body'[q] = body[q]
  BY <1>2, <1>4, <1>5 DEF TypeOK
<1>7. Outgoing' = Outgoing /\ Incoming' = Incoming
  BY <1>1 DEF Outgoing, Incoming
<1>8. /\ handler'[i] = "send" /\ handMsg'[i] = nil /\ replyMsg'[i] = r
      /\ \A j \in Inputs : j # i => /\ handMsg'[j] = handMsg[j] /\ handler'[j] = handler[j]
                                    /\ replyMsg'[j] = replyMsg[j]
  BY <1>1, <1>4 DEF TypeOK
<1>9. /\ \A q \in Outgoing : body'[q] = body[q]
      /\ \A q \in Incoming : body'[q] = body[q]
      /\ \A j \in Inputs : handMsg'[j] # nil => body'[handMsg[j]] = body[handMsg[j]]
      /\ \A j \in Inputs : replyMsg[j] # nil => body'[replyMsg[j]] = body[replyMsg[j]]
  <2>1. \A j \in Inputs : handMsg'[j] # nil =>
          handMsg[j] \in Msgs /\ handMsg[j] # m /\ handMsg[j] # r
    BY <1>2, <1>5, <1>8, Apart
  <2>2. QED
    BY <1>2, <1>5, <1>6, <2>1, Apart
<1>10. TypeOK'
  <2>1. body' \in [Msgs -> Bodies \cup {EmptyBody}] /\ pool' \subseteq Msgs
    BY <1>2, <1>4, <1>5 DEF TypeOK
  <2>2. /\ handMsg' \in [Inputs -> Msgs \cup {nil}]
        /\ replyMsg' \in [Inputs -> Msgs \cup {nil}]
        /\ handler' \in [Inputs -> HandlerStates]
        /\ lockedBy' \in Inputs \cup {nil}
    BY <1>1, <1>4, <1>5 DEF TypeOK, HandlerStates
  <2>3. QED
    BY <1>1, <2>1, <2>2 DEF TypeOK
<1>11. XidInv' /\ TableInv' /\ TruthInv'
  BY <1>1 DEF XidInv, Begun, TableInv, TruthInv, Truthful
<1>12. AnswerInv'
  <2>1. \A c \in Calls : c \in Inputs /\ c # i
    BY <1>4 DEF Inputs
  <2>2. QED
    BY <1>1, <1>8, <2>1 DEF AnswerInv, InTable
<1>13. OneRoutineAtATime'
  <2>1. \A j \in Inputs : j # nil
    BY DEF Inputs
  <2>2. QED
    BY <1>1, <1>8, <2>1 DEF OneRoutineAtATime
<1>14. PoolInv' /\ CallerInv'
  BY <1>1, <1>2, <1>4, <1>5, <1>6 DEF PoolInv, CallerInv, TypeOK
<1>15. OutInv' /\ WireInv'
  <2>1. \A d : OutBody(d) => OutBody(d)'
    BY <1>1, <1>8 DEF OutBody, Inputs
  <2>2. QED
    BY <1>1, <1>7, <1>9, <2>1 DEF OutInv, WireInv, OutBody
<1>16. InInv'
  <2>1. \A q \in Incoming : handler[body[q].of] = "none" /\ body[q].of \in Inputs
    BY DEF InInv, InBody, FromPeer, Inputs
  <2>2. \A q \in Incoming : InBody(body[q])'
    BY <1>1, <1>8, <1>9, <2>1 DEF InInv, InBody, FromPeer
  <2>3. QED
    BY <1>1, <1>7, <1>9, <2>2 DEF InInv
<1>17. HandlerInv'
  <2>1. \A d : FromPeer(d)' <=> FromPeer(d)
    BY <1>1 DEF FromPeer
  <2>2. \A j \in Inputs : j # i =>
          /\ handler'[j] = handler[j] /\ handMsg'[j] = handMsg[j]
          /\ replyMsg'[j] = replyMsg[j] /\ reply'[j] = reply[j]
          /\ handMsg[j] # nil => body'[handMsg[j]] = body[handMsg[j]]
          /\ replyMsg[j] # nil => body'[replyMsg[j]] = body[replyMsg[j]]
    BY <1>1, <1>8, <1>9
  <2>3. /\ handler'[i] = "send" /\ handMsg'[i] = nil /\ replyMsg'[i] = r
        /\ r \in Msgs /\ body'[r].kind = "reply" /\ body'[r].of = i
        /\ i \in Reqs /\ i \in received' /\ received' = received
    BY <1>1, <1>2, <1>4, <1>5, <1>6, <1>8
  <2>4. QED
    BY <2>1, <2>2, <2>3 DEF HandlerInv
<1>18. LostInv'
  <2>1. Held' \cup {m} = Held \cup {r}
    BY <1>0, <1>1, <1>2, <1>5, <1>8 DEF Held, Outgoing, Incoming
  <2>2. m \notin Held' /\ r \notin Held
    <3>1. \A j \in Inputs : handMsg'[j] # m /\ replyMsg'[j] # m
      BY <1>2, <1>5, <1>8
    <3>2. \A q \in {m, r} : q \notin Elems(out) \cup Elems(in) /\ q \notin {sendMsg, recvMsg}
      BY <1>2, <1>5 DEF Outgoing, Incoming, Elems
    <3>3. QED
      BY <1>1, <1>2, <1>5, <3>1, <3>2 DEF Held
  <2>3. Lost' = Lost /\ Panicked' = Panicked
    BY <1>1, <1>2, <1>4, <1>5, <2>1, <2>2 DEF Lost, Panicked, Held
  <2>4. QED
    BY <2>3 DEF LostInv
<1>19. RequestAnswered'
  <2>1. \A q \in Reqs : handler'[q] = "exited" => handler[q] = "exited"
    BY <1>8 DEF Inputs
  <2>2. QED
    BY <1>1, <1>7, <1>9, <2>1 DEF RequestAnswered
<1>20. QED
  BY <1>10, <1>11, <1>12, <1>13, <1>14, <1>15, <1>16, <1>17, <1>18, <1>19

\* The reply goes into the queue, or is dropped because the driver is closing.
LEMMA HandlerSendsInv ==
  ASSUME IInv, NEW i \in Inputs, HandlerEnqueues(i) \/ HandlerSendAborted(i)
  PROVE  IInv'
<1> USE DriverAssumption DEF IInv
<1>0. PICK m : m = replyMsg[i]
  OBVIOUS
<1>1. /\ handler[i] = "send" /\ handler' = [handler EXCEPT ![i] = "exited"]
      /\ replyMsg' = [replyMsg EXCEPT ![i] = nil]
      /\ UNCHANGED <<done, up, started, lastXid, table, xidOf, outClosed, in, inClosed, caller,
                     callDone, callMsg, result, box, sender, sendMsg, sendXid, receiver,
                     recvMsg, received, closer, loop, handMsg, reply, lockedBy, wire>>
  BY DEF HandlerEnqueues, HandlerSendAborted, driverVars, tableVars, msgVars, chanVars, callVars,
         sendVars, recvVars
<1>2. \/ /\ HandlerEnqueues(i) /\ Len(out) < SendQueueLen
         /\ out' = Append(out, m) /\ UNCHANGED <<body, pool>>
      \/ /\ HandlerSendAborted(i) /\ done
         /\ body' = [body EXCEPT ![m] = EmptyBody] /\ pool' = pool \cup {m} /\ out' = out
  BY <1>0 DEF HandlerEnqueues, HandlerSendAborted, Recycle, msgVars, chanVars
<1>3. /\ m \in Msgs /\ m # nil /\ i \in Reqs /\ i \notin Calls /\ i \in received
      /\ body[m].kind = "reply" /\ body[m].of = i /\ handMsg[i] = nil
  BY <1>0, <1>1 DEF HandlerInv
<1>4. /\ m \notin pool /\ m \notin Outgoing /\ m \notin Incoming
      /\ \A c \in Calls : callMsg[c] # m
      /\ \A j \in Inputs : (replyMsg[j] = m => i = j) /\ handMsg[j] # m
  BY <1>0, <1>3, Apart
<1>5. /\ handler'[i] = "exited" /\ replyMsg'[i] = nil
      /\ \A j \in Inputs : j # i => replyMsg'[j] = replyMsg[j] /\ handler'[j] = handler[j]
  BY <1>1 DEF TypeOK
<1>6. /\ m \notin Elems(out) /\ m \notin Elems(in) /\ m # sendMsg /\ m # recvMsg
  BY <1>3, <1>4 DEF Outgoing, Incoming, Elems
<1>7. \/ /\ Outgoing' = Outgoing \cup {m} /\ Elems(out') = Elems(out) \cup {m} /\ Distinct(out')
         /\ body' = body /\ pool' = pool /\ out' = Append(out, m) /\ Len(out) < SendQueueLen
      \/ /\ Outgoing' = Outgoing /\ out' = out /\ done
         /\ body' = [body EXCEPT ![m] = EmptyBody] /\ pool' = pool \cup {m}
  <2>1. CASE HandlerEnqueues(i) /\ Len(out) < SendQueueLen
             /\ out' = Append(out, m) /\ UNCHANGED <<body, pool>>
    <3>1. out \in Seq(Msgs) /\ Distinct(out)
      BY DEF TypeOK, OutInv
    <3>2. Elems(out') = Elems(out) \cup {m} /\ Distinct(out')
      BY <1>3, <1>6, <2>1, <3>1, ElemsAppend
    <3>3. Outgoing' = Outgoing \cup {m}
      BY <1>1, <3>2 DEF Outgoing, Elems
    <3>4. QED
      BY <2>1, <3>2, <3>3
  <2>2. CASE HandlerSendAborted(i) /\ done /\ body' = [body EXCEPT ![m] = EmptyBody]
             /\ pool' = pool \cup {m} /\ out' = out
    BY <1>1, <2>2 DEF Outgoing
  <2>3. QED
    BY <1>2, <2>1, <2>2
<1>8. \A q \in Msgs : q # m => body'[q] = body[q]
  BY <1>7 DEF TypeOK
<1>9. Incoming' = Incoming
  BY <1>1 DEF Incoming
<1>10. /\ \A q \in Outgoing : body'[q] = body[q]
       /\ \A q \in Incoming : body'[q] = body[q]
       /\ \A j \in Inputs : handMsg[j] # nil => body'[handMsg[j]] = body[handMsg[j]]
       /\ \A j \in Inputs : replyMsg'[j] # nil => body'[replyMsg[j]] = body[replyMsg[j]]
  BY <1>4, <1>5, <1>8, Apart
<1>11. TypeOK'
  <2>1. body' \in [Msgs -> Bodies \cup {EmptyBody}] /\ pool' \subseteq Msgs
    BY <1>3, <1>7 DEF TypeOK
  <2>2. out' \in Seq(Msgs) /\ Len(out') <= SendQueueLen
    <3>1. out \in Seq(Msgs) /\ Len(out) <= SendQueueLen
      BY DEF TypeOK
    <3>2. CASE out' = Append(out, m) /\ Len(out) < SendQueueLen
      BY <1>3, <3>1, <3>2
    <3>3. CASE out' = out
      BY <3>1, <3>3
    <3>4. QED
      BY <1>7, <3>2, <3>3
  <2>3. handler' \in [Inputs -> HandlerStates] /\ replyMsg' \in [Inputs -> Msgs \cup {nil}]
    BY <1>1 DEF TypeOK, HandlerStates
  <2>4. QED
    BY <1>1, <2>1, <2>2, <2>3 DEF TypeOK
<1>12. XidInv' /\ TableInv' /\ TruthInv'
  BY <1>1 DEF XidInv, Begun, TableInv, TruthInv, Truthful
<1>13. AnswerInv'
  <2>1. \A c \in Calls : c \in Inputs /\ c # i
    BY <1>3 DEF Inputs
  <2>2. QED
    BY <1>1, <1>5, <2>1 DEF AnswerInv, InTable
<1>14. OneRoutineAtATime'
  BY <1>1, <1>5 DEF OneRoutineAtATime
<1>15. PoolInv'
  <2>1. CASE body' = body /\ pool' = pool
    BY <2>1 DEF PoolInv
  <2>2. CASE body' = [body EXCEPT ![m] = EmptyBody] /\ pool' = pool \cup {m}
    BY <1>3, <2>2 DEF PoolInv, TypeOK
  <2>3. QED
    BY <1>7, <2>1, <2>2
<1>16. CallerInv'
  BY <1>1, <1>4, <1>8 DEF CallerInv, TypeOK
<1>17. \A b : OutBody(b) => OutBody(b)'
  BY <1>1, <1>5 DEF OutBody, Inputs
<1>18. OutInv'
  <2>1. \A q \in Outgoing : OutBody(body[q])'
    BY <1>10, <1>17 DEF OutInv, OutBody
  <2>2. CASE /\ Outgoing' = Outgoing \cup {m} /\ Elems(out') = Elems(out) \cup {m}
             /\ Distinct(out') /\ body' = body
    <3>1. OutBody(body[m])'
      BY <1>3, <1>5, <2>2 DEF OutBody
    <3>2. QED
      BY <1>1, <1>6, <2>1, <2>2, <3>1 DEF OutInv
  <2>3. CASE Outgoing' = Outgoing /\ out' = out
    BY <1>1, <2>1, <2>3 DEF OutInv
  <2>4. QED
    BY <1>7, <2>2, <2>3
<1>19. WireInv'
  BY <1>1, <1>17 DEF WireInv, OutBody
<1>20. InInv'
  <2>1. \A q \in Incoming : handler[body[q].of] = "none" /\ body[q].of \in Inputs
    BY DEF InInv, InBody, FromPeer, Inputs
  <2>2. \A q \in Incoming : InBody(body[q])'
    BY <1>1, <1>5, <1>10, <2>1 DEF InInv, InBody, FromPeer
  <2>3. QED
    BY <1>1, <1>9, <1>10, <2>2 DEF InInv
<1>21. HandlerInv'
  <2>1. \A d : FromPeer(d)' <=> FromPeer(d)
    BY <1>1 DEF FromPeer
  <2>2. QED
    BY <1>1, <1>3, <1>5, <1>10, <2>1 DEF HandlerInv
<1>22. LostInv'
  <2>1. \/ Held' = Held /\ pool' = pool
        \/ Held' \cup {m} = Held /\ pool' = pool \cup {m}
    <3>1. CASE /\ Elems(out') = Elems(out) \cup {m} /\ pool' = pool
      BY <1>0, <1>1, <1>3, <1>5, <3>1 DEF Held
    <3>2. CASE out' = out /\ pool' = pool \cup {m}
      BY <1>0, <1>1, <1>3, <1>5, <3>2 DEF Held
    <3>3. QED
      BY <1>7, <3>1, <3>2
  <2>2. Lost' = Lost /\ Panicked' = Panicked
    BY <1>1, <2>1 DEF Lost, Panicked
  <2>3. QED
    BY <2>2 DEF LostInv
<1>23. RequestAnswered'
  <2>1. CASE done
    BY <1>1, <2>1 DEF RequestAnswered
  <2>2. CASE Outgoing' = Outgoing \cup {m} /\ body' = body
    <3>1. \A q \in Reqs : q # i => handler'[q] = handler[q]
      BY <1>5 DEF Inputs
    <3>2. m \in Outgoing' /\ body'[m].kind = "reply" /\ body'[m].of = i
      BY <1>3, <2>2
    <3>3. QED
      BY <1>1, <2>2, <3>1, <3>2 DEF RequestAnswered
  <2>3. QED
    BY <1>7, <2>1, <2>2
<1>24. QED
  BY <1>11, <1>12, <1>13, <1>14, <1>15, <1>16, <1>18, <1>19, <1>20, <1>21, <1>22, <1>23

-----------------------------------------------------------------------------
\* Nothing happens.
LEMMA StutterInv ==
  ASSUME IInv, UNCHANGED vars
  PROVE  IInv'
<1>1. UNCHANGED <<done, up, started, lastXid, table, xidOf, body, pool, out, outClosed, in,
                  inClosed, caller, callDone, callMsg, result, box, sender, sendMsg, sendXid,
                  receiver, recvMsg, received, closer, loop, handler, handMsg, replyMsg, reply,
                  lockedBy, wire>>
  BY DEF vars, driverVars, tableVars, msgVars, chanVars, callVars, sendVars, recvVars, handVars
<1> USE DEF IInv
<1>2. TypeOK' /\ TruthInv'
  BY <1>1 DEF TypeOK, TruthInv, Truthful
<1>3. XidInv' /\ TableInv' /\ AnswerInv' /\ OneRoutineAtATime'
  BY <1>1 DEF XidInv, Begun, TableInv, AnswerInv, InTable, OneRoutineAtATime
<1>4. PoolInv' /\ CallerInv' /\ HandlerInv' /\ WireInv'
  BY <1>1 DEF PoolInv, CallerInv, HandlerInv, WireInv, OutBody, FromPeer
<1>5. OutInv' /\ InInv'
  BY <1>1 DEF OutInv, InInv, Outgoing, Incoming, OutBody, InBody, FromPeer
<1>6. LostInv' /\ RequestAnswered'
  BY <1>1 DEF LostInv, Lost, Held, Panicked, RequestAnswered, Outgoing
<1>7. QED
  BY <1>2, <1>3, <1>4, <1>5, <1>6

\* Every step keeps the invariant.
LEMMA NextInv ==
  ASSUME IInv, [Next]_vars
  PROVE  IInv'
<1>1. ASSUME NEW c \in Calls, CallerStep(c)
      PROVE  IInv'
  BY <1>1, CallEnqueuesInv, CallSendAbortedInv, CallAbandonedInv, CallAnsweredInv,
     CallDeletesInv DEF CallerStep
<1>2. ASSUME NEW c \in Calls, CallContextDone(c) \/ SendCall(c) \/ SendCallPanics(c)
      PROVE  IInv'
  BY <1>2, SignalSteps, SendCallInv, SendCallPanicsInv
<1>3. ASSUME NEW i \in Inputs, HandlerStep(i) \/ HandlerDetaches(i)
      PROVE  IInv'
  BY <1>3, HandlerDropsInv, HandleReplyInv, HandlerCallsBackInv, LockInv, HandlerSwapsInv,
     HandlerSendsInv DEF HandlerStep
<1>4. CASE SenderTakes \/ SenderCancelled \/ SendSucceeds \/ SendFails \/ SendErr
  BY <1>4, SenderTakesInv, SignalSteps, SendEnds, SendErrInv
<1>5. CASE PeerStep \/ ReceiveFails \/ ReceiverQueues \/ ReceiverCancelled
  BY <1>5, PeerStepInv, SignalSteps, ReceiverQueuesInv, ReceiverCancelledInv
<1>6. CASE Close \/ Go \/ CloserRuns \/ LoopStep
  BY <1>6, SignalSteps, GoInv, LoopTakesInv, LoopReturnsInv DEF LoopStep
<1>7. CASE Stopped \/ UNCHANGED vars
  BY <1>7, StutterInv DEF Stopped
<1>8. QED
  BY <1>1, <1>2, <1>3, <1>4, <1>5, <1>6, <1>7 DEF Next

\* By induction, the invariant always holds.
LEMMA DriverInvariant == Spec => []IInv
<1>1. Init => IInv
  BY InitInv
<1>2. IInv /\ [Next]_vars => IInv'
  BY NextInv
<1>3. QED
  BY <1>1, <1>2, PTL DEF Spec

-----------------------------------------------------------------------------
(***************************************************************************)
(* What the invariant implies.                                             *)
(***************************************************************************)
\* The places the answer to a call can be in, counted.
LEMMA AnswersCounted ==
  ASSUME IInv, NEW c \in Calls
  PROVE  Answers(c) = Len(box[c]) + (IF InTable(c) THEN 1 ELSE 0)
                        + (IF handler[c] = "callback" THEN 1 ELSE 0)
<1> USE DriverAssumption DEF IInv
<1>1. {x \in Xids : table[x] = c} = IF InTable(c) THEN {xidOf[c]} ELSE {}
  <2>1. \A x \in Xids : table[x] = c => x = xidOf[c]
    BY EntryXid
  <2>2. QED
    BY <2>1 DEF InTable
<1>2. {i \in Inputs : handler[i] = "callback" /\ reply[i].of = c}
        = IF handler[c] = "callback" THEN {c} ELSE {}
  <2>1. \A i \in Inputs : handler[i] = "callback" => reply[i].of = i
    BY DEF HandlerInv
  <2>2. c \in Inputs
    BY DEF Inputs
  <2>3. QED
    BY <2>1, <2>2
<1>3. Cardinality({}) = 0 /\ Cardinality({xidOf[c]}) = 1 /\ Cardinality({c}) = 1
  BY FS_EmptySet, FS_Singleton
<1>4. QED
  BY <1>1, <1>2, <1>3 DEF Answers

\* No answer is counted twice.
LEMMA AnswerOnce == IInv => OneAnswer
<1> SUFFICES ASSUME IInv, NEW c \in Calls
             PROVE  /\ Answers(c) <= 1
                    /\ caller[c] \in {"send", "wait"} => Answers(c) = 1
  BY DEF OneAnswer
<1>1. box[c] \in Seq(Results) /\ Len(box[c]) \in Nat /\ (box[c] # <<>> => Len(box[c]) # 0)
  BY DEF IInv, TypeOK
<1>2. /\ Len(box[c]) <= 1
      /\ InTable(c) => Len(box[c]) = 0 /\ handler[c] # "callback"
      /\ handler[c] = "callback" => Len(box[c]) = 0
      /\ caller[c] \in {"send", "wait"} =>
           InTable(c) \/ handler[c] = "callback" \/ Len(box[c]) # 0
  BY <1>1 DEF IInv, AnswerInv
<1>3. PICK n \in Nat : n = Len(box[c])
  BY <1>1
<1>4. Answers(c) = n + (IF InTable(c) THEN 1 ELSE 0)
                     + (IF handler[c] = "callback" THEN 1 ELSE 0)
  BY <1>3, AnswersCounted
<1>5. CASE InTable(c)
  BY <1>2, <1>3, <1>4, <1>5
<1>6. CASE ~InTable(c) /\ handler[c] = "callback"
  BY <1>2, <1>3, <1>4, <1>6
<1>7. CASE ~InTable(c) /\ handler[c] # "callback"
  <2>1. Answers(c) = n
    BY <1>4, <1>7
  <2>2. n <= 1
    BY <1>2, <1>3
  <2>3. caller[c] \in {"send", "wait"} => n # 0
    BY <1>2, <1>3, <1>7, Zenon
  <2>4. n = 0 \/ n = 1
    <3>1. n \in Nat
      OBVIOUS
    <3>2. QED
      BY <2>2, <3>1
  <2>5. CASE n = 0
    BY <2>1, <2>3, <2>5
  <2>6. CASE n = 1
    BY <2>1, <2>6
  <2>7. QED
    BY <2>4, <2>5, <2>6
<1>8. QED
  BY <1>5, <1>6, <1>7

\* The places of a Message, one by one.
LEMMA PlacesAre ==
  ASSUME NEW m, NEW p
  PROVE  p \in Places(m) <=>
           \/ \E c \in Calls : callMsg[c] = m /\ p = <<"caller", c>>
           \/ \E k \in 1 .. Len(out) : out[k] = m /\ p = <<"out", k>>
           \/ \E k \in 1 .. Len(in) : in[k] = m /\ p = <<"in", k>>
           \/ \E i \in Inputs : handMsg[i] = m /\ p = <<"request", i>>
           \/ \E i \in Inputs : replyMsg[i] = m /\ p = <<"reply", i>>
           \/ sendMsg = m /\ p = <<"sender", nil>>
           \/ recvMsg = m /\ p = <<"receiver", nil>>
BY DEF Places

\* A Message in use is in one place, is not free, and has something in it.
LEMMA OnePlace ==
  ASSUME IInv, NEW m \in Msgs
  PROVE  /\ \A p, q \in Places(m) : p = q
         /\ Places(m) # {} <=> m \in Held
         /\ Places(m) # {} => m \notin pool /\ body[m] # EmptyBody
<1> USE DriverAssumption DEF IInv
<1>1. m # nil
  OBVIOUS
<1>2. Places(m) # {} <=> m \in Held
  <2>1. m \in Held =>
          \/ \E c \in Calls : callMsg[c] = m
          \/ \E k \in 1 .. Len(out) : out[k] = m
          \/ \E k \in 1 .. Len(in) : in[k] = m
          \/ \E i \in Inputs : handMsg[i] = m \/ replyMsg[i] = m
          \/ sendMsg = m \/ recvMsg = m
    BY DEF Held, Elems
  <2>2. m \in Held => Places(m) # {}
    <3>1. /\ \A c \in Calls : callMsg[c] = m => <<"caller", c>> \in Places(m)
          /\ \A k \in 1 .. Len(out) : out[k] = m => <<"out", k>> \in Places(m)
          /\ \A k \in 1 .. Len(in) : in[k] = m => <<"in", k>> \in Places(m)
          /\ \A i \in Inputs : handMsg[i] = m => <<"request", i>> \in Places(m)
          /\ \A i \in Inputs : replyMsg[i] = m => <<"reply", i>> \in Places(m)
          /\ sendMsg = m => <<"sender", nil>> \in Places(m)
          /\ recvMsg = m => <<"receiver", nil>> \in Places(m)
      BY DEF Places
    <3>2. \A p : p \in Places(m) => Places(m) # {}
      OBVIOUS
    <3>3. SUFFICES ASSUME m \in Held PROVE Places(m) # {}
      OBVIOUS
    <3>4. CASE \E i \in Inputs : handMsg[i] = m \/ replyMsg[i] = m
      BY <3>1, <3>2, <3>4, Zenon
    <3>5. CASE \E c \in Calls : callMsg[c] = m
      BY <3>1, <3>2, <3>5, Zenon
    <3>6. CASE \E k \in 1 .. Len(out) : out[k] = m
      BY <3>1, <3>2, <3>6, Zenon
    <3>7. CASE \E k \in 1 .. Len(in) : in[k] = m
      BY <3>1, <3>2, <3>7, Zenon
    <3>8. QED
      BY <2>1, <3>1, <3>2, <3>3, <3>4, <3>5, <3>6, <3>7, Zenon
  <2>3. \A p \in Places(m) : m \in Held
    BY PlacesAre DEF Held, Elems
  <2>4. QED
    BY <2>2, <2>3
<1>3. m \in Elems(out) \/ m = sendMsg <=> m \in Outgoing
  BY <1>1 DEF Outgoing, Elems
<1>4. m \in Elems(in) \/ m = recvMsg <=> m \in Incoming
  BY <1>1 DEF Incoming
<1>5. m \in Held => m \notin pool
  BY <1>1, <1>3, <1>4, Apart DEF Held
<1>6. m \in Held => body[m].of # nil
  <2>1. \A c \in Calls : callMsg[c] = m => body[m].of = c
    BY <1>1 DEF CallerInv
  <2>2. m \in Outgoing => body[m].of # nil
    BY DEF OutInv, OutBody
  <2>3. m \in Incoming => body[m].of # nil
    BY DEF InInv, InBody, FromPeer
  <2>4. \A i \in Inputs : handMsg[i] = m \/ replyMsg[i] = m => body[m].of = i
    BY <1>1 DEF HandlerInv
  <2>5. QED
    BY <1>3, <1>4, <2>1, <2>2, <2>3, <2>4 DEF Held, Inputs
<1>7. /\ \A c, d \in Calls : callMsg[c] = m /\ callMsg[d] = m => c = d
      /\ \A i, j \in Inputs : handMsg[i] = m /\ handMsg[j] = m => i = j
      /\ \A i, j \in Inputs : replyMsg[i] = m /\ replyMsg[j] = m => i = j
  BY <1>1, Apart
<1>8. /\ \A j, k \in 1 .. Len(out) : out[j] = m /\ out[k] = m => j = k
      /\ \A j, k \in 1 .. Len(in) : in[j] = m /\ in[k] = m => j = k
  BY DEF OutInv, InInv, Distinct
<1>9. /\ \A k \in 1 .. Len(out) : out[k] = m => m # sendMsg /\ m \in Outgoing
      /\ \A k \in 1 .. Len(in) : in[k] = m => m # recvMsg /\ m \in Incoming
  BY <1>1, <1>3, <1>4 DEF OutInv, InInv, Elems
<1>10. /\ \A c \in Calls : callMsg[c] = m => m \notin Outgoing \cup Incoming
       /\ \A i \in Inputs : handMsg[i] = m => m \notin Outgoing \cup Incoming
       /\ \A i \in Inputs : replyMsg[i] = m => m \notin Outgoing \cup Incoming
       /\ m \in Outgoing => m \notin Incoming
       /\ \A c \in Calls, i \in Inputs : callMsg[c] = m => handMsg[i] # m /\ replyMsg[i] # m
       /\ \A i, j \in Inputs : handMsg[i] = m => replyMsg[j] # m
  BY <1>1, Apart
<1>11. ASSUME NEW p \in Places(m), NEW q \in Places(m)
       PROVE  p = q
  <2>1. CASE \E c \in Calls : callMsg[c] = m /\ p = <<"caller", c>>
    BY <1>3, <1>4, <1>7, <1>9, <1>10, <2>1, PlacesAre
  <2>2. CASE \E k \in 1 .. Len(out) : out[k] = m /\ p = <<"out", k>>
    BY <1>3, <1>4, <1>8, <1>9, <1>10, <2>2, PlacesAre
  <2>3. CASE \E k \in 1 .. Len(in) : in[k] = m /\ p = <<"in", k>>
    BY <1>3, <1>4, <1>8, <1>9, <1>10, <2>3, PlacesAre
  <2>4. CASE \E i \in Inputs : handMsg[i] = m /\ p = <<"request", i>>
    BY <1>3, <1>4, <1>7, <1>9, <1>10, <2>4, PlacesAre
  <2>5. CASE \E i \in Inputs : replyMsg[i] = m /\ p = <<"reply", i>>
    BY <1>3, <1>4, <1>7, <1>9, <1>10, <2>5, PlacesAre
  <2>6. CASE sendMsg = m /\ p = <<"sender", nil>>
    BY <1>3, <1>4, <1>9, <1>10, <2>6, PlacesAre
  <2>7. CASE recvMsg = m /\ p = <<"receiver", nil>>
    BY <1>3, <1>4, <1>9, <1>10, <2>7, PlacesAre
  <2>8. QED
    BY <2>1, <2>2, <2>3, <2>4, <2>5, <2>6, <2>7, PlacesAre
<1>12. QED
  BY <1>2, <1>5, <1>6, <1>11 DEF EmptyBody

\* No Message is in two places.
LEMMA OneOwner == IInv => MessageOwnership
<1> SUFFICES ASSUME IInv
             PROVE  MessageOwnership
  OBVIOUS
<1>1. ASSUME NEW m \in Msgs
      PROVE  /\ m \in pool => Places(m) = {} /\ body[m] = EmptyBody
             /\ Cardinality(Places(m)) <= 1
             /\ Places(m) # {} => body[m] # EmptyBody
  <2>1. \A p \in Places(m) : Places(m) = {p}
    BY OnePlace
  <2>2. Cardinality(Places(m)) <= 1
    <3>1. CASE Places(m) = {}
      BY <3>1, FS_EmptySet
    <3>2. ASSUME NEW p \in Places(m)
          PROVE  Cardinality(Places(m)) <= 1
      <4>1. Cardinality({p}) = 1 /\ Places(m) = {p}
        BY <2>1, FS_Singleton
      <4>2. QED
        BY <4>1
    <3>3. QED
      BY <3>1, <3>2
  <2>3. m \in pool => body[m] = EmptyBody
    BY DEF IInv, PoolInv
  <2>4. QED
    BY <2>2, <2>3, OnePlace
<1>2. {m \in Msgs : m \notin pool /\ Places(m) = {}} = Lost
  BY OnePlace DEF Lost
<1>3. QED
  BY <1>1, <1>2 DEF MessageOwnership, IInv, LostInv, Panicked

-----------------------------------------------------------------------------
(***************************************************************************)
(* Only the values and states that Driver's comments name occur.           *)
(***************************************************************************)
THEOREM TypeCorrect == Spec => []TypeOK
BY DriverInvariant, PTL DEF IInv

(***************************************************************************)
(* A SendCall that waits has one answer, in its channel, on its way there  *)
(* or still due from the table; no call ever has two.                      *)
(***************************************************************************)
THEOREM OneAnswerEach == Spec => []OneAnswer
BY DriverInvariant, AnswerOnce, PTL

(***************************************************************************)
(* SendCall returns a reply only if the peer has answered this call, and   *)
(* an error only for the reason it names.                                  *)
(***************************************************************************)
THEOREM ResultsAreTruthful == Spec => []ResultTruthful
<1>1. IInv => ResultTruthful
  BY DEF IInv, TruthInv, Truthful, ResultTruthful
<1>2. QED
  BY <1>1, DriverInvariant, PTL

(***************************************************************************)
(* A call that has returned, whichever way it did, has no entry in the     *)
(* table of pending calls.                                                 *)
(***************************************************************************)
THEOREM NoEntryOutlivesItsCall == Spec => []NoOrphanEntry
<1>1. IInv => NoOrphanEntry
  <2> SUFFICES ASSUME IInv, NEW c \in Calls, InTable(c)
               PROVE  caller[c] \in {"send", "wait", "delete", "panicked"}
    BY DEF NoOrphanEntry
  <2>1. c # nil
    BY DriverAssumption
  <2>2. QED
    BY <2>1 DEF IInv, TableInv, InTable
<1>2. QED
  BY <1>1, DriverInvariant, PTL

(***************************************************************************)
(* Every Message has exactly one owner, none is used after it is recycled, *)
(* and the only ones lost to the pool are those of the calls that panicked.*)
(***************************************************************************)
THEOREM MessagesAreOwned == Spec => []MessageOwnership
BY DriverInvariant, OneOwner, PTL

(***************************************************************************)
(* Service routines run one at a time under Lock, and no unlock releases   *)
(* the lock of another call.                                               *)
(***************************************************************************)
THEOREM RoutinesExclude == Spec => []OneRoutineAtATime
BY DriverInvariant, PTL DEF IInv

(***************************************************************************)
(* A request that has been handled has its reply on its way or sent, as    *)
(* long as the driver and its transport are up.                            *)
(***************************************************************************)
THEOREM RequestsAreAnswered == Spec => []RequestAnswered
BY DriverInvariant, PTL DEF IInv
=============================================================================
