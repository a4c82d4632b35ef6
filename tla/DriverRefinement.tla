---------------------------- MODULE DriverRefinement ----------------------------
(***************************************************************************)
(* Driver keeps the promise of RemoteCalls, for any number of calls,       *)
(* requests and messages and any queue lengths.                            *)
(***************************************************************************)
EXTENDS DriverProofs

Posted(i) == \E m \in Outgoing : IsMailOf(body[m], i)

Written(i) == \E b \in wire : IsMailOf(b, i)

(***************************************************************************)
(* What IInv does not say: the same thing is never sent by two messages,   *)
(* nor queued once it has been written.                                    *)
(***************************************************************************)
SentOnce ==
  \A i \in Inputs :
    /\ \A m, n \in Outgoing : IsMailOf(body[m], i) /\ IsMailOf(body[n], i) => m = n
    /\ ~(Posted(i) /\ Written(i))

\* The peer answers only what it has been sent.
AnswersSent == \A c \in Calls \cap received : Written(c)

\* The loop ends only once it is told to.
LoopStopped == loop = "exited" => done

\* The invariant of the refinement.
RInv == IInv /\ SentOnce /\ AnswersSent /\ LoopStopped

stages == [c \in Calls |-> Stage(c)]

mails == [i \in Inputs |-> Mail(i)]

-----------------------------------------------------------------------------
(***************************************************************************)
(* Where a message is, read off the goroutine that is to send it.          *)
(***************************************************************************)
\* The message of a call is with its SendCall, or has been handed over; the
\* reply to a request is with its handler, or has been handed over.
MailInv ==
  /\ \A c \in Calls :
       /\ caller[c] \in {"idle", "send", "panicked"} => ~Posted(c) /\ ~Written(c)
       /\ Mail(c) = IF Posted(c) THEN "posted"
                    ELSE IF Written(c) THEN "sent"
                    ELSE IF caller[c] = "send" THEN "kept"
                    ELSE IF caller[c] \in {"idle", "panicked"} THEN "none"
                    ELSE "dropped"
  /\ \A q \in Reqs :
       /\ handler[q] # "exited" => ~Posted(q) /\ ~Written(q)
       /\ handler[q] # "none" => q \in received
       /\ Mail(q) = IF Posted(q) THEN "posted"
                    ELSE IF Written(q) THEN "sent"
                    ELSE IF q \notin received THEN "none"
                    ELSE IF handler[q] = "exited" THEN "dropped"
                    ELSE "kept"

\* The goroutine that is to send a message knows where it is.
LEMMA MailPlaced == IInv => MailInv
<1> SUFFICES ASSUME IInv PROVE MailInv
  OBVIOUS
<1> USE DEF IInv
<1>1. ASSUME NEW c \in Calls
      PROVE  Posted(c) \/ Written(c) => caller[c] \in {"wait", "delete", "returned"}
  <2>1. ASSUME NEW b, OutBody(b), IsMailOf(b, c)
        PROVE  caller[c] \in {"wait", "delete", "returned"}
    BY <2>1, DriverAssumption DEF OutBody, IsMailOf
  <2>2. QED
    BY <2>1 DEF Posted, Written, OutInv, WireInv
<1>2. ASSUME NEW c \in Calls
      PROVE  callMsg[c] # nil <=> caller[c] = "send"
  BY DriverAssumption DEF CallerInv
<1>3. ASSUME NEW q \in Reqs
      PROVE  /\ q \in Inputs /\ q \notin Calls
             /\ Posted(q) \/ Written(q) => handler[q] = "exited"
             /\ handler[q] # "none" => q \in received
  <2>1. q \in Inputs /\ q \notin Calls
    BY DriverAssumption DEF Inputs
  <2>2. ASSUME NEW b, OutBody(b), IsMailOf(b, q)
        PROVE  handler[q] = "exited"
    BY <2>1, <2>2 DEF OutBody, IsMailOf
  <2>3. Posted(q) \/ Written(q) => handler[q] = "exited"
    BY <2>2 DEF Posted, Written, OutInv, WireInv
  <2>4. handler[q] # "none" => q \in received
    BY <2>1 DEF HandlerInv
  <2>5. QED
    BY <2>1, <2>3, <2>4
<1>4. \A c \in Calls : Mail(c) = IF Posted(c) THEN "posted"
                               ELSE IF Written(c) THEN "sent"
                               ELSE IF caller[c] = "send" THEN "kept"
                               ELSE IF caller[c] \in {"idle", "panicked"} THEN "none"
                               ELSE "dropped"
  BY <1>2 DEF Mail, Posted, Written
<1>5. \A q \in Reqs : Mail(q) = IF Posted(q) THEN "posted"
                              ELSE IF Written(q) THEN "sent"
                              ELSE IF q \notin received THEN "none"
                              ELSE IF handler[q] = "exited" THEN "dropped"
                              ELSE "kept"
  BY <1>3 DEF Mail, Posted, Written
<1>6. QED
  BY <1>1, <1>3, <1>4, <1>5 DEF MailInv

\* Nothing is handed over or written in this step.
SameTraffic ==
  /\ Outgoing' = Outgoing
  /\ \A m \in Outgoing : body'[m] = body[m]
  /\ wire' = wire

\* Then every message that has been handed over is where it was.
LEMMA TrafficKept ==
  ASSUME RInv, IInv', SameTraffic
  PROVE  /\ MailInv /\ MailInv' /\ SentOnce'
         /\ \A i \in Inputs : (Posted(i)' <=> Posted(i)) /\ (Written(i)' <=> Written(i))
<1>1. \A i \in Inputs : (Posted(i)' <=> Posted(i)) /\ (Written(i)' <=> Written(i))
  BY DEF SameTraffic, Posted, Written, IsMailOf
<1>2. SentOnce'
  BY <1>1 DEF RInv, SentOnce, SameTraffic, IsMailOf
<1>3. (IInv => MailInv) /\ (IInv => MailInv)'
  BY MailPlaced, PTL
<1>4. QED
  BY <1>1, <1>2, <1>3 DEF RInv

\* Nor do the callers or the peer see anything.
SameParties ==
  /\ UNCHANGED <<result, callDone, received>>
  /\ \A c \in Calls : \/ caller'[c] = caller[c]
                      \/ caller[c] = "delete" /\ caller'[c] = "returned"
  /\ \A q \in Reqs : handler'[q] = "exited" <=> handler[q] = "exited"

\* Such a step is one that RemoteCalls does not tell, or the driver is told to
\* stop, or its transport fails.
LEMMA Unseen ==
  ASSUME RInv, IInv', SameTraffic, SameParties,
         done \in BOOLEAN, done' = done \/ done', up \in BOOLEAN, up' = up \/ ~up',
         done' = done \/ up' = up
  PROVE  SentOnce' /\ AnswersSent' /\ [Promise!Next]_Promise!vars
<1> USE DEF RInv
<1>1. /\ MailInv /\ MailInv' /\ SentOnce'
      /\ \A i \in Inputs : (Posted(i)' <=> Posted(i)) /\ (Written(i)' <=> Written(i))
  BY TrafficKept
<1>2. stages' = stages
  BY DEF stages, Stage, SameParties
<1>3. \A c \in Calls : Mail(c)' = Mail(c)
  BY <1>1 DEF MailInv, SameParties, Inputs
<1>4. \A q \in Reqs : Mail(q)' = Mail(q)
  BY <1>1 DEF MailInv, SameParties, Inputs
<1>5. mails' = mails
  BY <1>3, <1>4 DEF mails, Inputs
<1>6. AnswersSent'
  BY <1>1 DEF AnswersSent, SameParties, Inputs
<1>7. QED
  BY <1>1, <1>2, <1>5, <1>6 DEF SameParties, stages, mails, Promise!Next, Promise!vars, Promise!Close, Promise!GoDown

\* What a step of the driver is to RemoteCalls.
Promised == SentOnce' /\ AnswersSent' /\ LoopStopped' /\ [Promise!Next]_Promise!vars

\* The steps that leave the contents of the Messages alone.
LEMMA QuietSteps ==
  ASSUME RInv, IInv',
         \/ Close \/ Go \/ CloserRuns \/ LoopSeesEnd \/ LoopReturns \/ SenderCancelled
         \/ SendErr \/ ReceiveFails \/ ReceiverQueues \/ UNCHANGED vars
         \/ \E c \in Calls : CallDeletes(c)
  PROVE  Promised
<1> USE DEF driverVars, tableVars, msgVars, chanVars, callVars, sendVars, recvVars, handVars
<1>1. IInv /\ TypeOK /\ LoopStopped
  BY DEF RInv, IInv, LoopStopped
<1> DEFINE Same == /\ SameTraffic /\ SameParties /\ LoopStopped'
                   /\ (done' = done \/ done') /\ (up' = up \/ ~up') /\ (done' = done \/ up' = up)
<1>2. ASSUME Close PROVE Same
  BY <1>1, <1>2 DEF Close, SameTraffic, SameParties, Outgoing, LoopStopped
<1>3. ASSUME Go PROVE Same
  BY <1>1, <1>3 DEF Go, SameTraffic, SameParties, Outgoing, LoopStopped
<1>4. ASSUME CloserRuns PROVE Same
  BY <1>1, <1>4 DEF CloserRuns, SameTraffic, SameParties, Outgoing, LoopStopped
<1>5. ASSUME LoopSeesEnd PROVE Same
  BY <1>1, <1>5 DEF LoopSeesEnd, SameTraffic, SameParties, Outgoing, LoopStopped
<1>6. ASSUME LoopReturns PROVE Same
  BY <1>1, <1>6 DEF LoopReturns, SameTraffic, SameParties, Outgoing, LoopStopped
<1>7. ASSUME SenderCancelled PROVE Same
  BY <1>1, <1>7 DEF SenderCancelled, SameTraffic, SameParties, Outgoing, LoopStopped
<1>8. ASSUME SendErr PROVE Same
  BY <1>1, <1>8 DEF SendErr, SameTraffic, SameParties, Outgoing, LoopStopped
<1>9. ASSUME ReceiveFails PROVE Same
  BY <1>1, <1>9 DEF ReceiveFails, SameTraffic, SameParties, Outgoing, LoopStopped
<1>10. ASSUME ReceiverQueues PROVE Same
  BY <1>1, <1>10 DEF ReceiverQueues, SameTraffic, SameParties, Outgoing, LoopStopped
<1>11. ASSUME UNCHANGED vars PROVE Same
  BY <1>1, <1>11 DEF vars, SameTraffic, SameParties, Outgoing, LoopStopped
<1>12. ASSUME NEW c \in Calls, CallDeletes(c) PROVE Same
  BY <1>1, <1>12 DEF CallDeletes, SameTraffic, SameParties, Outgoing, LoopStopped, TypeOK
<1>13. QED
  BY <1>1, <1>2, <1>3, <1>4, <1>5, <1>6, <1>7, <1>8, <1>9, <1>10, <1>11, <1>12, Unseen
     DEF Promised, TypeOK

\* The sender takes the message over from the queue.
LEMMA SenderTakesQuietly ==
  ASSUME RInv, IInv', SenderTakes
  PROVE  Promised
<1>1. IInv /\ TypeOK /\ LoopStopped
  BY DEF RInv, IInv, LoopStopped
<1>2. /\ out # <<>> /\ sendMsg = nil /\ sendMsg' = Head(out) /\ out' = Tail(out)
      /\ UNCHANGED <<done, up, body, caller, callDone, result, received, loop, handler, wire>>
  BY <1>1 DEF SenderTakes, IInv, OutInv, driverVars, msgVars, callVars, recvVars, handVars
<1>3. out \in Seq(Msgs) /\ nil \notin Msgs
  BY <1>1, DriverAssumption DEF TypeOK
<1>4. Elems(out) = Elems(Tail(out)) \cup {Head(out)} /\ Head(out) \in Msgs
  BY <1>2, <1>3, ElemsTail
<1>5. Outgoing' = Outgoing
  BY <1>2, <1>3, <1>4 DEF Outgoing, Elems
<1>6. SameTraffic /\ SameParties /\ LoopStopped'
  BY <1>1, <1>2, <1>5 DEF SameTraffic, SameParties, LoopStopped
<1>7. QED
  BY <1>1, <1>2, <1>6, Unseen DEF Promised, TypeOK

\* A message taken from the queue starts a handler of its own.
LEMMA LoopTakesQuietly ==
  ASSUME RInv, IInv', LoopTakes
  PROVE  Promised
<1>1. IInv /\ TypeOK /\ LoopStopped
  BY DEF RInv, IInv, LoopStopped
<1>2. PICK m, i : m = Head(in) /\ i = body[m].of
  OBVIOUS
<1>3. /\ in # <<>> /\ handler' = [handler EXCEPT ![i] = "start"]
      /\ UNCHANGED <<done, up, body, out, sendMsg, caller, callDone, result, received, loop, wire>>
  BY <1>2 DEF LoopTakes, driverVars, msgVars, callVars, sendVars, recvVars
<1>4. m \in Incoming
  <2>1. in \in Seq(Msgs)
    BY <1>1 DEF TypeOK
  <2>2. m \in Elems(in)
    BY <1>2, <1>3, <2>1, ElemsTail
  <2>3. QED
    BY <2>2 DEF Incoming
<1>5. handler[i] = "none"
  BY <1>1, <1>2, <1>4 DEF IInv, InInv, InBody
<1>6. \A q \in Reqs : handler'[q] = "exited" <=> handler[q] = "exited"
  BY <1>1, <1>3, <1>5 DEF TypeOK, Inputs
<1>7. SameTraffic /\ SameParties /\ LoopStopped'
  BY <1>1, <1>3, <1>6 DEF SameTraffic, SameParties, LoopStopped, Outgoing
<1>8. QED
  BY <1>1, <1>3, <1>7, Unseen DEF Promised, TypeOK

\* The receiver drops what it has read, and with it the transport.
LEMMA ReceiverCancelledQuietly ==
  ASSUME RInv, IInv', ReceiverCancelled
  PROVE  Promised
<1>1. IInv /\ TypeOK /\ LoopStopped
  BY DEF RInv, IInv, LoopStopped
<1>2. PICK m : m = recvMsg
  OBVIOUS
<1>3. /\ receiver = "queue" /\ up' = FALSE /\ body' = [body EXCEPT ![m] = EmptyBody]
      /\ UNCHANGED <<done, out, sendMsg, caller, callDone, result, received, loop, handler, wire>>
  BY <1>2 DEF ReceiverCancelled, Recycle, callVars, sendVars, handVars
<1>4. m \in Incoming
  BY <1>1, <1>2, <1>3, DriverAssumption DEF IInv, InInv, Incoming
<1>5. m \notin Outgoing
  BY <1>1, <1>4, Apart
<1>6. \A q \in Outgoing : body'[q] = body[q]
  BY <1>1, <1>3, <1>5, Apart DEF TypeOK
<1>7. SameTraffic /\ SameParties /\ LoopStopped'
  BY <1>1, <1>3, <1>6 DEF SameTraffic, SameParties, LoopStopped, Outgoing
<1>8. QED
  BY <1>1, <1>3, <1>7, Unseen DEF Promised, TypeOK

\* A reply finds its call or comes too late, and its callback is run: the
\* handler is that of a call.
LEMMA ReplyHandledQuietly ==
  ASSUME RInv, IInv', NEW i \in Inputs,
         HandleReply(i) \/ HandleLateReply(i) \/ HandlerCallsBack(i)
  PROVE  Promised
<1>1. IInv /\ TypeOK /\ LoopStopped
  BY DEF RInv, IInv, LoopStopped
<1>2. PICK m : m = handMsg[i]
  OBVIOUS
<1>3. /\ UNCHANGED <<done, up, out, sendMsg, caller, callDone, result, received, loop, wire>>
      /\ \/ body' = body
         \/ m # nil /\ body' = [body EXCEPT ![m] = EmptyBody]
      /\ i \in Calls
      /\ \E h \in {"callback", "exited"} : handler' = [handler EXCEPT ![i] = h]
  <2>1. CASE HandleReply(i) \/ HandleLateReply(i)
    <3>1. handler[i] = "start" /\ body[m].kind = "reply"
      BY <1>2, <2>1 DEF HandleReply, HandleLateReply, Holds
    <3>2. m \in Msgs /\ FromPeer(body[m]) /\ body[m].of = i
      BY <1>1, <1>2, <3>1 DEF IInv, HandlerInv
    <3>3. i \in Calls /\ m # nil
      BY <3>1, <3>2, DriverAssumption DEF FromPeer
    <3>4. QED
      BY <1>2, <2>1, <3>3 DEF HandleReply, HandleLateReply, HandlerDrops, Recycle, driverVars, tableVars,
         chanVars, callVars, sendVars, recvVars
  <2>2. CASE HandlerCallsBack(i)
    BY <1>1, <2>2 DEF HandlerCallsBack, IInv, HandlerInv, driverVars, tableVars, msgVars, chanVars,
       callVars, sendVars, recvVars
  <2>3. QED
    BY <2>1, <2>2
<1>4. \A q \in Outgoing : body'[q] = body[q]
  BY <1>1, <1>2, <1>3, Apart DEF TypeOK
<1>5. \A q \in Reqs : handler'[q] = handler[q]
  BY <1>1, <1>3, DriverAssumption DEF TypeOK, Inputs
<1>6. SameTraffic /\ SameParties /\ LoopStopped'
  BY <1>1, <1>3, <1>4, <1>5 DEF SameTraffic, SameParties, LoopStopped, Outgoing
<1>7. QED
  BY <1>1, <1>3, <1>6, Unseen DEF Promised, TypeOK

\* A request is being served, up to the reply in its handler's hands.
LEMMA RequestServedQuietly ==
  ASSUME RInv, IInv', NEW i \in Inputs,
         HandleUnavailable(i) \/ HandleRequest(i) \/ HandlerDetaches(i) \/ HandlerReplies(i)
  PROVE  Promised
<1>1. IInv /\ TypeOK /\ LoopStopped
  BY DEF RInv, IInv, LoopStopped
<1>2. PICK m : m = handMsg[i]
  OBVIOUS
<1>3. /\ UNCHANGED <<done, up, out, sendMsg, caller, callDone, result, received, loop, wire>>
      /\ handler[i] \in {"start", "do", "detached"}
      /\ \E h \in {"do", "detached", "send"} : handler' = [handler EXCEPT ![i] = h]
      /\ \/ body' = body
         \/ \E r \in pool : \E b : body' = [body EXCEPT ![m] = EmptyBody, ![r] = b]
  <2>1. CASE HandleUnavailable(i)
    BY <1>2, <2>1 DEF HandleUnavailable, Holds, SwapForReply, driverVars, chanVars, callVars, sendVars, recvVars
  <2>2. CASE HandlerReplies(i)
    BY <1>2, <2>2 DEF HandlerReplies, SwapForReply, driverVars, chanVars, callVars, sendVars, recvVars
  <2>3. CASE HandleRequest(i)
    BY <2>3 DEF HandleRequest, Holds, driverVars, msgVars, chanVars, callVars, sendVars, recvVars
  <2>4. CASE HandlerDetaches(i)
    BY <2>4 DEF HandlerDetaches, driverVars, msgVars, chanVars, callVars, sendVars, recvVars
  <2>5. QED
    BY <2>1, <2>2, <2>3, <2>4
<1>4. m \in Msgs \ Outgoing
  BY <1>1, <1>2, <1>3, Apart, DriverAssumption DEF IInv, HandlerInv
<1>5. \A q \in Outgoing : body'[q] = body[q]
  <2>1. \A q \in Outgoing : q \in Msgs /\ q \notin pool
    BY <1>1, Apart
  <2>2. QED
    BY <1>1, <1>3, <1>4, <2>1 DEF TypeOK
<1>6. \A q \in Reqs : handler'[q] = "exited" <=> handler[q] = "exited"
  BY <1>1, <1>3 DEF TypeOK, Inputs
<1>7. SameTraffic /\ SameParties /\ LoopStopped'
  BY <1>1, <1>3, <1>5, <1>6 DEF SameTraffic, SameParties, LoopStopped, Outgoing
<1>8. QED
  BY <1>1, <1>3, <1>7, Unseen DEF Promised, TypeOK

-----------------------------------------------------------------------------
(***************************************************************************)
(* The steps that RemoteCalls does tell.                                   *)
(***************************************************************************)
\* One call takes a step, and no message is handed over or written.
LEMMA CallerAlone ==
  ASSUME RInv, IInv', SameTraffic, NEW c \in Calls,
         UNCHANGED <<received, handler, done, up, loop>>,
         \A d \in Calls \ {c} : caller'[d] = caller[d]
  PROVE  /\ SentOnce' /\ AnswersSent' /\ LoopStopped'
         /\ MailInv /\ MailInv'
         /\ Posted(c)' <=> Posted(c)
         /\ Written(c)' <=> Written(c)
         /\ stages' = [stages EXCEPT ![c] = Stage(c)']
         /\ mails' = [mails EXCEPT ![c] = Mail(c)']
<1>1. /\ MailInv /\ MailInv' /\ SentOnce'
      /\ \A i \in Inputs : (Posted(i)' <=> Posted(i)) /\ (Written(i)' <=> Written(i))
  BY TrafficKept
<1>2. AnswersSent' /\ LoopStopped'
  BY <1>1 DEF RInv, AnswersSent, LoopStopped, Inputs
<1>3. \A d \in Calls \ {c} : Stage(d)' = Stage(d) /\ Mail(d)' = Mail(d)
  BY <1>1 DEF MailInv, Inputs, Stage
<1>4. \A q \in Reqs : Mail(q)' = Mail(q)
  BY <1>1 DEF MailInv, Inputs
<1>5. stages' = [stages EXCEPT ![c] = Stage(c)']
  BY <1>3 DEF stages
<1>6. mails' = [mails EXCEPT ![c] = Mail(c)']
  BY <1>3, <1>4 DEF mails, Inputs
<1>7. QED
  BY <1>1, <1>2, <1>5, <1>6 DEF Inputs

\* A SendCall begins, or panics over its argument.
LEMMA CallBegins ==
  ASSUME RInv, IInv', NEW c \in Calls, SendCall(c) \/ SendCallPanics(c)
  PROVE  Promised
<1>1. IInv /\ TypeOK /\ AnswersSent
  BY DEF RInv, IInv
<1>2. /\ UNCHANGED <<done, up, out, sendMsg, callDone, result, received, loop, handler, wire>>
      /\ caller[c] = "idle"
      /\ \/ SendCall(c) /\ caller' = [caller EXCEPT ![c] = "send"]
         \/ SendCallPanics(c) /\ caller' = [caller EXCEPT ![c] = "panicked"]
      /\ \/ body' = body
         \/ \E m \in pool : \E b : body' = [body EXCEPT ![m] = b]
  BY DEF SendCall, SendCallPanics, NewMessage, driverVars, chanVars, sendVars, recvVars, handVars
<1>3. SameTraffic
  <2>1. \A q \in Outgoing : q \in Msgs /\ q \notin pool
    BY <1>1, Apart
  <2>2. \A q \in Outgoing : body'[q] = body[q]
    <3>1. CASE body' = body
      BY <3>1
    <3>2. CASE \E m \in pool : \E b : body' = [body EXCEPT ![m] = b]
      BY <1>1, <2>1, <3>2 DEF TypeOK
    <3>3. QED
      BY <1>2, <3>1, <3>2
  <2>3. QED
    BY <1>2, <2>2 DEF SameTraffic, Outgoing
<1>4. /\ caller'[c] = "send" \/ caller'[c] = "panicked"
      /\ \A d \in Calls \ {c} : caller'[d] = caller[d]
  BY <1>1, <1>2 DEF TypeOK
<1>5. /\ SentOnce' /\ AnswersSent' /\ LoopStopped' /\ MailInv /\ MailInv'
      /\ stages' = [stages EXCEPT ![c] = Stage(c)'] /\ mails' = [mails EXCEPT ![c] = Mail(c)']
  BY <1>2, <1>3, <1>4, CallerAlone
<1>6. Mail(c) = "none" /\ stages[c] = "idle" /\ mails[c] = "none"
  BY <1>2, <1>5 DEF MailInv, stages, Stage, mails, Inputs
<1>7. CASE caller'[c] = "send"
  <2>1. Mail(c)' = "kept" /\ Stage(c)' = "open"
    BY <1>5, <1>7 DEF MailInv, Stage
  <2>2. Promise!Begin(c)
    BY <1>2, <1>5, <1>6, <2>1 DEF Promise!Begin, stages, mails
  <2>3. QED
    BY <1>5, <2>2 DEF Promised, Promise!Next
<1>8. CASE caller'[c] = "panicked"
  <2>1. Mail(c)' = "none" /\ Stage(c)' = "panicked"
    BY <1>5, <1>8 DEF MailInv, Stage
  <2>2. mails' = mails
    BY <1>5, <1>6, <2>1 DEF mails
  <2>3. Promise!Panic(c)
    BY <1>2, <1>5, <1>6, <2>1, <2>2 DEF Promise!Panic, stages, mails
  <2>4. QED
    BY <1>5, <2>3 DEF Promised, Promise!Next
<1>9. QED
  BY <1>4, <1>7, <1>8

\* The context of a call ends.
LEMMA CallContextEnds ==
  ASSUME RInv, IInv', NEW c \in Calls, CallContextDone(c)
  PROVE  Promised
<1>1. /\ UNCHANGED <<done, up, out, sendMsg, body, caller, result, received, loop, handler, wire>>
      /\ callDone' = callDone \cup {c} /\ c \notin callDone /\ caller[c] \in {"send", "wait"}
  BY DEF CallContextDone, driverVars, msgVars, chanVars, sendVars, recvVars, handVars
<1>2. SameTraffic
  BY <1>1 DEF SameTraffic, Outgoing
<1>3. /\ SentOnce' /\ AnswersSent' /\ LoopStopped' /\ MailInv /\ MailInv'
      /\ Posted(c)' <=> Posted(c)
      /\ Written(c)' <=> Written(c)
      /\ stages' = [stages EXCEPT ![c] = Stage(c)'] /\ mails' = [mails EXCEPT ![c] = Mail(c)']
  BY <1>1, <1>2, CallerAlone
<1>4. Stage(c)' = Stage(c) /\ Mail(c)' = Mail(c) /\ Stage(c) = "open"
  BY <1>1, <1>3 DEF MailInv, Stage
<1>5. stages' = stages /\ mails' = mails /\ stages[c] = "open"
  BY <1>3, <1>4 DEF stages, mails, Inputs
<1>6. Promise!ContextEnds(c)
  BY <1>1, <1>5 DEF Promise!ContextEnds, stages, mails
<1>7. QED
  BY <1>3, <1>6 DEF Promised, Promise!Next

\* A call returns, or has still to take its entry out of the table.
LEMMA CallReturns ==
  ASSUME RInv, IInv', NEW c \in Calls,
         \/ CallAnswered(c)
         \/ \E err \in {"ErrTransportClosed", "ContextError"} :
              CallSendAborted(c, err) \/ CallAbandoned(c, err)
  PROVE  Promised
<1>1. IInv /\ TypeOK /\ AnswersSent /\ SentOnce /\ LoopStopped
  BY DEF RInv, IInv
<1>2. PICK r \in Results :
        /\ UNCHANGED <<done, up, out, sendMsg, callDone, received, loop, handler, wire>>
        /\ caller[c] \in {"send", "wait"} /\ caller'[c] \in {"delete", "returned"}
        /\ \A d \in Calls \ {c} : caller'[d] = caller[d]
        /\ result' = [result EXCEPT ![c] = r]
        /\ \/ body' = body
           \/ callMsg[c] # nil /\ body' = [body EXCEPT ![callMsg[c]] = EmptyBody]
        /\ \/ caller[c] = "wait"
           \/ r \in {"ErrTransportClosed", "ContextError"}
        /\ Truthful(c, r)
  <2>1. CASE CallAnswered(c)
    <3>1. PICK r : r = Head(box[c])
      OBVIOUS
    <3>2. box[c] \in Seq(Results) /\ box[c] # <<>>
      BY <1>1, <2>1 DEF TypeOK, CallAnswered
    <3>3. r \in Results /\ r \in Elems(box[c])
      BY <3>1, <3>2, ElemsTail
    <3>4. Truthful(c, r)
      BY <1>1, <3>3 DEF IInv, TruthInv
    <3>5. QED
      BY <1>1, <2>1, <3>1, <3>3, <3>4 DEF CallAnswered, TypeOK, driverVars, msgVars, chanVars,
         sendVars, recvVars, handVars
  <2>2. CASE \E err \in {"ErrTransportClosed", "ContextError"} : CallSendAborted(c, err)
    <3>1. PICK r \in {"ErrTransportClosed", "ContextError"} : CallSendAborted(c, r)
      BY <2>2
    <3>2. r \in Results /\ Truthful(c, r)
      BY <3>1 DEF CallSendAborted, Results, Truthful
    <3>3. callMsg[c] # nil
      BY <1>1, <3>1, DriverAssumption DEF CallSendAborted, IInv, CallerInv
    <3>4. QED
      BY <1>1, <3>1, <3>2, <3>3 DEF CallSendAborted, Recycle, TypeOK, driverVars, chanVars,
         sendVars, recvVars, handVars
  <2>3. CASE \E err \in {"ErrTransportClosed", "ContextError"} : CallAbandoned(c, err)
    <3>1. PICK r \in {"ErrTransportClosed", "ContextError"} : CallAbandoned(c, r)
      BY <2>3
    <3>2. r \in Results /\ Truthful(c, r)
      BY <3>1 DEF CallAbandoned, Results, Truthful
    <3>3. QED
      BY <1>1, <3>1, <3>2 DEF CallAbandoned, TypeOK, driverVars, msgVars, chanVars,
         sendVars, recvVars, handVars
  <2>4. QED
    BY <2>1, <2>2, <2>3
<1>3. SameTraffic
  <2>1. callMsg[c] # nil => callMsg[c] \notin Outgoing
    BY <1>1, Apart
  <2>2. \A q \in Outgoing : q \in Msgs
    BY <1>1, Apart
  <2>3. QED
    BY <1>1, <1>2, <2>1, <2>2 DEF SameTraffic, Outgoing, TypeOK
<1>4. /\ SentOnce' /\ AnswersSent' /\ LoopStopped' /\ MailInv /\ MailInv'
      /\ Posted(c)' <=> Posted(c)
      /\ Written(c)' <=> Written(c)
      /\ stages' = [stages EXCEPT ![c] = Stage(c)'] /\ mails' = [mails EXCEPT ![c] = Mail(c)']
  BY <1>2, <1>3, CallerAlone
<1>5. /\ stages[c] = "open" /\ Stage(c)' = "returned" /\ mails[c] = Mail(c)
      /\ caller[c] = "send" <=> mails[c] = "kept"
      /\ Mail(c)' = IF mails[c] = "kept" THEN "dropped" ELSE mails[c]
  BY <1>2, <1>4 DEF MailInv, stages, mails, Stage, Inputs
<1>6. mails' = IF mails[c] = "kept" THEN [mails EXCEPT ![c] = "dropped"] ELSE mails
  BY <1>4, <1>5 DEF mails
<1>7. Promise!Entitled(c, r)
  <2>1. r = "REPLIED" => c \in received /\ mails[c] = "sent"
    <3>1. c \in received => Written(c) /\ ~Posted(c)
      BY <1>1 DEF AnswersSent, SentOnce, Inputs
    <3>2. QED
      BY <1>2, <1>4, <1>5, <3>1 DEF MailInv, Truthful
  <2>2. r = "CANCELED" => done
    BY <1>1, <1>2 DEF Truthful, LoopStopped
  <2>3. QED
    BY <1>2, <1>5, <2>1, <2>2 DEF Promise!Entitled, Truthful, Results, mails
<1>8. Promise!Return(c, r)
  BY <1>2, <1>4, <1>5, <1>6, <1>7 DEF Promise!Return, stages, mails
<1>9. QED
  BY <1>2, <1>4, <1>8 DEF Promised, Promise!Next, Promise!Results, Results

\* A call's message, or the reply to a request, goes into the queue.
LEMMA MailPosted ==
  ASSUME RInv, IInv', NEW i \in Inputs,
         \/ i \in Calls /\ CallEnqueues(i)
         \/ HandlerEnqueues(i)
  PROVE  Promised
<1>1. IInv /\ TypeOK /\ AnswersSent /\ SentOnce /\ LoopStopped
  BY DEF RInv, IInv
<1>2. PICK m \in Msgs :
        /\ m \notin Outgoing /\ IsMailOf(body[m], i) /\ out' = Append(out, m)
        /\ UNCHANGED <<done, up, body, sendMsg, callDone, result, received, loop, wire>>
        /\ \/ /\ i \in Calls /\ caller[i] = "send" /\ caller'[i] = "wait" /\ handler' = handler
              /\ \A d \in Calls \ {i} : caller'[d] = caller[d]
           \/ /\ i \in Reqs /\ handler[i] = "send" /\ handler'[i] = "exited" /\ caller' = caller
              /\ \A j \in Inputs \ {i} : handler'[j] = handler[j]
  <2>1. CASE i \in Calls /\ CallEnqueues(i)
    <3>1. PICK m : m = callMsg[i]
      OBVIOUS
    <3>2. caller[i] = "send"
      BY <2>1 DEF CallEnqueues
    <3>3. m \in Msgs /\ m # nil /\ IsMailOf(body[m], i)
      BY <1>1, <2>1, <3>1, <3>2, DriverAssumption DEF IInv, CallerInv, IsMailOf
    <3>4. m \notin Outgoing
      BY <1>1, <2>1, <3>1, <3>3, Apart
    <3>5. QED
      BY <1>1, <2>1, <3>1, <3>3, <3>4 DEF CallEnqueues, TypeOK, driverVars, msgVars, sendVars,
         recvVars, handVars
  <2>2. CASE HandlerEnqueues(i)
    <3>1. PICK m : m = replyMsg[i]
      OBVIOUS
    <3>2. handler[i] = "send"
      BY <2>2 DEF HandlerEnqueues
    <3>3. m \in Msgs /\ m # nil /\ IsMailOf(body[m], i) /\ i \in Reqs
      BY <1>1, <3>1, <3>2, DriverAssumption DEF IInv, HandlerInv, IsMailOf
    <3>4. m \notin Outgoing
      BY <1>1, <3>1, <3>3, Apart
    <3>5. QED
      BY <1>1, <2>2, <3>1, <3>3, <3>4 DEF HandlerEnqueues, TypeOK, driverVars, msgVars, callVars,
         sendVars, recvVars
  <2>3. QED
    BY <2>1, <2>2
<1>3. Outgoing' = Outgoing \cup {m}
  <2>1. out \in Seq(Msgs)
    BY <1>1 DEF TypeOK
  <2>2. Elems(out') = Elems(out) \cup {m}
    BY <1>2, <2>1, ElemsAppend
  <2>3. QED
    BY <1>2, <2>2 DEF Outgoing, Elems
<1>4. MailInv /\ MailInv'
  <2>1. (IInv => MailInv) /\ (IInv => MailInv)'
    BY MailPlaced, PTL
  <2>2. QED
    BY <1>1, <2>1
<1>5. ~Posted(i) /\ ~Written(i)
  BY <1>2, <1>4 DEF MailInv
<1>6. \A j \in Inputs : Written(j)' <=> Written(j)
  BY <1>2 DEF Written, IsMailOf
<1>7. Posted(i)' /\ \A j \in Inputs \ {i} : Posted(j)' <=> Posted(j)
  BY <1>2, <1>3 DEF Posted, IsMailOf
<1>8. SentOnce'
  <2>1. \A j \in Inputs : ~(Posted(j)' /\ Written(j)')
    BY <1>1, <1>5, <1>6, <1>7 DEF SentOnce
  <2>2. ASSUME NEW j \in Inputs, NEW n \in Outgoing', NEW o \in Outgoing',
               IsMailOf(body[n], j), IsMailOf(body[o], j)
        PROVE  n = o
    <3>1. CASE j = i
      BY <1>3, <1>5, <2>2, <3>1 DEF Posted
    <3>2. CASE j # i
      BY <1>1, <1>2, <1>3, <2>2, <3>2 DEF SentOnce, IsMailOf
    <3>3. QED
      BY <3>1, <3>2
  <2>3. QED
    BY <1>2, <2>1, <2>2 DEF SentOnce, IsMailOf
<1>9. AnswersSent' /\ LoopStopped'
  BY <1>1, <1>2, <1>6 DEF AnswersSent, LoopStopped, Inputs
<1>10. stages' = stages
  BY <1>2 DEF stages, Stage
<1>11. mails[i] = "kept" /\ Mail(i)' = "posted" /\ \A j \in Inputs \ {i} : Mail(j)' = Mail(j)
  <2>1. mails[i] = "kept"
    BY <1>2, <1>4, <1>5 DEF MailInv, mails
  <2>2. Mail(i)' = "posted"
    BY <1>2, <1>4, <1>7 DEF MailInv
  <2>3. ASSUME NEW c \in Calls, c # i PROVE Mail(c)' = Mail(c)
    BY <1>2, <1>4, <1>6, <1>7, <2>3 DEF MailInv, Inputs
  <2>4. ASSUME NEW q \in Reqs, q # i PROVE Mail(q)' = Mail(q)
    BY <1>2, <1>4, <1>6, <1>7, <2>4 DEF MailInv, Inputs
  <2>5. QED
    BY <2>1, <2>2, <2>3, <2>4 DEF Inputs
<1>12. mails' = [mails EXCEPT ![i] = "posted"]
  BY <1>11 DEF mails
<1>13. Promise!Post(i)
  BY <1>2, <1>10, <1>11, <1>12 DEF Promise!Post, stages, mails
<1>14. QED
  BY <1>8, <1>9, <1>13 DEF Promised, Promise!Next, Promise!Parcels, Inputs

\* The message at the head of the line is written, or the transport fails.
LEMMA MailSent ==
  ASSUME RInv, IInv', SendSucceeds \/ SendFails
  PROVE  Promised
<1>1. IInv /\ TypeOK /\ AnswersSent /\ SentOnce /\ LoopStopped
  BY DEF RInv, IInv
<1>2. PICK m : m = sendMsg
  OBVIOUS
<1>3. /\ sender = "send" /\ sendMsg' = nil /\ body' = [body EXCEPT ![m] = EmptyBody]
      /\ UNCHANGED <<done, out, caller, callDone, result, received, loop, handler>>
      /\ \/ SendSucceeds /\ up /\ up' = up /\ wire' = wire \cup {body[m]}
         \/ SendFails /\ up' = FALSE /\ wire' = wire
  BY <1>2 DEF SendSucceeds, SendFails, Recycle, driverVars, chanVars, callVars, recvVars, handVars
<1>4. m \in Msgs /\ m # nil /\ m \notin Elems(out)
  BY <1>1, <1>2, <1>3, DriverAssumption DEF IInv, OutInv
<1>5. /\ Outgoing = Outgoing' \cup {m} /\ m \notin Outgoing'
      /\ \A q \in Outgoing' : q \in Msgs /\ body'[q] = body[q]
  <2>1. Outgoing = Elems(out) \cup {m} /\ Outgoing' = Elems(out)
    BY <1>2, <1>3, <1>4 DEF Outgoing, Elems
  <2>2. Elems(out) \subseteq Msgs
    BY <1>1, ElemsIn DEF TypeOK
  <2>3. QED
    BY <1>1, <1>3, <1>4, <2>1, <2>2 DEF TypeOK
<1>6. PICK i \in Inputs : IsMailOf(body[m], i)
  <2>1. OutBody(body[m])
    BY <1>1, <1>5 DEF IInv, OutInv
  <2>2. QED
    BY <2>1, DriverAssumption DEF OutBody, IsMailOf, Inputs
<1>7. MailInv /\ MailInv'
  <2>1. (IInv => MailInv) /\ (IInv => MailInv)'
    BY MailPlaced, PTL
  <2>2. QED
    BY <1>1, <2>1
<1>8. /\ Posted(i) /\ ~Written(i) /\ ~Posted(i)'
      /\ \A j \in Inputs \ {i} : Posted(j)' <=> Posted(j)
  <2>1. Posted(i) /\ ~Written(i)
    BY <1>1, <1>5, <1>6 DEF SentOnce, Posted
  <2>2. ~Posted(i)'
    <3>1. \A q \in Outgoing' : ~IsMailOf(body'[q], i)
      BY <1>1, <1>5, <1>6 DEF SentOnce
    <3>2. QED
      BY <3>1 DEF Posted, IsMailOf
  <2>3. \A j \in Inputs \ {i} : Posted(j)' <=> Posted(j)
    BY <1>5, <1>6 DEF Posted, IsMailOf
  <2>4. QED
    BY <2>1, <2>2, <2>3
<1>9. /\ \A j \in Inputs \ {i} : Written(j)' <=> Written(j)
      /\ Written(i)' <=> SendSucceeds
  <2>1. CASE SendSucceeds /\ wire' = wire \cup {body[m]}
    BY <1>6, <2>1 DEF Written, IsMailOf
  <2>2. CASE SendFails /\ wire' = wire
    <3>1. ~SendSucceeds
      BY <2>2 DEF SendSucceeds, SendFails
    <3>2. QED
      BY <1>8, <2>2, <3>1 DEF Written, IsMailOf
  <2>3. QED
    BY <1>3, <2>1, <2>2
<1>10. SentOnce'
  <2>1. \A j \in Inputs : ~(Posted(j)' /\ Written(j)')
    BY <1>1, <1>8, <1>9 DEF SentOnce
  <2>2. \A j \in Inputs : \A n, o \in Outgoing' :
          IsMailOf(body'[n], j) /\ IsMailOf(body'[o], j) => n = o
    BY <1>1, <1>5 DEF SentOnce
  <2>3. QED
    BY <2>1, <2>2 DEF SentOnce, IsMailOf
<1>11. AnswersSent' /\ LoopStopped'
  BY <1>1, <1>3, <1>8, <1>9 DEF AnswersSent, LoopStopped, Inputs
<1>12. stages' = stages
  BY <1>3 DEF stages, Stage
<1>13. /\ mails[i] = "posted" /\ Mail(i)' = IF SendSucceeds THEN "sent" ELSE "dropped"
       /\ \A j \in Inputs \ {i} : Mail(j)' = Mail(j)
  <2>1. mails[i] = "posted"
    BY <1>7, <1>8 DEF MailInv, mails, Inputs
  <2>2. Mail(i)' = IF SendSucceeds THEN "sent" ELSE "dropped"
    BY <1>3, <1>7, <1>8, <1>9 DEF MailInv, Inputs
  <2>3. ASSUME NEW c \in Calls, c # i PROVE Mail(c)' = Mail(c)
    BY <1>3, <1>7, <1>8, <1>9, <2>3 DEF MailInv, Inputs
  <2>4. ASSUME NEW q \in Reqs, q # i PROVE Mail(q)' = Mail(q)
    BY <1>3, <1>7, <1>8, <1>9, <2>4 DEF MailInv, Inputs
  <2>5. QED
    BY <2>1, <2>2, <2>3, <2>4 DEF Inputs
<1>14. mails' = [mails EXCEPT ![i] = Mail(i)']
  BY <1>13 DEF mails
<1>15. CASE SendSucceeds
  <2>1. up /\ up' = up
    BY <1>15 DEF SendSucceeds, driverVars
  <2>2. Promise!Transmit(i)
    BY <1>3, <1>12, <1>13, <1>14, <1>15, <2>1 DEF Promise!Transmit, stages, mails
  <2>3. QED
    BY <1>10, <1>11, <2>2 DEF Promised, Promise!Next, Promise!Parcels, Inputs
<1>16. CASE ~SendSucceeds
  <2>1. Promise!Lose(i)
    BY <1>3, <1>12, <1>13, <1>14, <1>16 DEF Promise!Lose, stages, mails
  <2>2. QED
    BY <1>10, <1>11, <2>1 DEF Promised, Promise!Next, Promise!Parcels, Inputs
<1>17. QED
  BY <1>15, <1>16

\* The peer's answer to a call, or a request of its own, is read.
LEMMA InputArrives ==
  ASSUME RInv, IInv', PeerStep
  PROVE  Promised
<1>1. IInv /\ TypeOK /\ AnswersSent /\ SentOnce /\ LoopStopped
  BY DEF RInv, IInv
<1>2. PICK i, b :
        /\ i \in Inputs
        /\ Receive(i, b)
        /\ i \in Calls => Written(i)
  <2>1. ASSUME NEW c \in Calls, ReceiveReply(c)
        PROVE  c \in Inputs /\ Written(c) /\ \E b : Receive(c, b)
    BY <2>1 DEF ReceiveReply, Written, IsMailOf, Inputs
  <2>2. ASSUME NEW q \in Reqs, NEW kind \in {"call", "unavail", "garbage"}, NEW x \in Xids,
               ReceiveRequest(q, kind, x)
        PROVE  q \in Inputs /\ q \notin Calls /\ \E b : Receive(q, b)
    BY <2>2, DriverAssumption DEF ReceiveRequest, Inputs
  <2>3. QED
    BY <2>1, <2>2 DEF PeerStep
<1>3. PICK m \in pool : body' = [body EXCEPT ![m] = b]
  BY <1>2 DEF Receive, NewMessage
<1>4. /\ up /\ i \notin received /\ received' = received \cup {i}
      /\ UNCHANGED <<done, up, out, sendMsg, caller, callDone, result, loop, handler, wire>>
  BY <1>2 DEF Receive, driverVars, chanVars, callVars, sendVars, handVars
<1>5. SameTraffic
  <2>1. \A q \in Outgoing : q \in Msgs /\ q \notin pool
    BY <1>1, Apart
  <2>2. \A q \in Outgoing : body'[q] = body[q]
    BY <1>1, <1>3, <2>1 DEF TypeOK
  <2>3. QED
    BY <1>4, <2>2 DEF SameTraffic, Outgoing
<1>6. /\ MailInv /\ MailInv' /\ SentOnce'
      /\ \A j \in Inputs : (Posted(j)' <=> Posted(j)) /\ (Written(j)' <=> Written(j))
  BY <1>5, TrafficKept
<1>7. AnswersSent' /\ LoopStopped'
  BY <1>1, <1>2, <1>4, <1>6 DEF AnswersSent, LoopStopped, Inputs
<1>8. stages' = stages
  BY <1>4 DEF stages, Stage
<1>9. \A c \in Calls : Mail(c)' = Mail(c)
  BY <1>4, <1>6 DEF MailInv, Inputs
<1>10. \A q \in Reqs \ {i} : Mail(q)' = Mail(q)
  BY <1>4, <1>6 DEF MailInv, Inputs
<1>11. CASE i \in Calls
  <2>1. mails' = mails
    BY <1>9, <1>10, <1>11, DriverAssumption DEF mails, Inputs
  <2>2. mails[i] = "sent"
    BY <1>1, <1>2, <1>6, <1>11 DEF MailInv, SentOnce, mails, Inputs
  <2>3. Promise!Answer(i)
    BY <1>4, <1>8, <2>1, <2>2 DEF Promise!Answer, stages, mails
  <2>4. QED
    BY <1>6, <1>7, <1>11, <2>3 DEF Promised, Promise!Next
<1>12. CASE i \in Reqs
  <2>1. Mail(i)' = "kept"
    BY <1>1, <1>4, <1>6, <1>12 DEF MailInv, Inputs
  <2>2. mails' = [mails EXCEPT ![i] = "kept"]
    BY <1>9, <1>10, <1>12, <2>1, DriverAssumption DEF mails, Inputs
  <2>3. Promise!Request(i)
    BY <1>4, <1>8, <2>2 DEF Promise!Request, stages, mails
  <2>4. QED
    BY <1>6, <1>7, <1>12, <2>3 DEF Promised, Promise!Next
<1>13. QED
  BY <1>2, <1>11, <1>12 DEF Inputs

\* A request is garbage, or its reply is given up as the driver stops.
LEMMA RequestRefused ==
  ASSUME RInv, IInv', NEW i \in Inputs, HandleGarbage(i) \/ HandlerSendAborted(i)
  PROVE  Promised
<1>1. IInv /\ TypeOK /\ AnswersSent /\ SentOnce /\ LoopStopped
  BY DEF RInv, IInv
<1>2. PICK m \in Msgs \ Outgoing :
        /\ body' = [body EXCEPT ![m] = EmptyBody]
        /\ i \in Reqs /\ handler[i] \in {"start", "send"}
        /\ handler' = [handler EXCEPT ![i] = "exited"]
        /\ done' = TRUE
        /\ UNCHANGED <<up, out, sendMsg, caller, callDone, result, received, loop, wire>>
  <2>1. CASE HandleGarbage(i)
    <3>1. PICK m : m = handMsg[i]
      OBVIOUS
    <3>2. handler[i] = "start" /\ body[m].kind = "garbage"
      BY <2>1, <3>1 DEF HandleGarbage, Holds
    <3>3. m \in Msgs /\ FromPeer(body[m]) /\ body[m].of = i
      BY <1>1, <3>1, <3>2 DEF IInv, HandlerInv
    <3>4. i \in Reqs /\ m # nil
      BY <3>2, <3>3, DriverAssumption DEF FromPeer
    <3>5. m \notin Outgoing
      BY <1>1, <3>1, <3>4, Apart
    <3>6. QED
      BY <2>1, <3>1, <3>2, <3>3, <3>4, <3>5 DEF HandleGarbage, HandlerDrops, Recycle, chanVars,
         callVars, sendVars, recvVars
  <2>2. CASE HandlerSendAborted(i)
    <3>1. PICK m : m = replyMsg[i]
      OBVIOUS
    <3>2. handler[i] = "send" /\ done = TRUE
      BY <1>1, <2>2 DEF HandlerSendAborted, TypeOK
    <3>3. m \in Msgs /\ m # nil /\ i \in Reqs
      BY <1>1, <3>1, <3>2, DriverAssumption DEF IInv, HandlerInv
    <3>4. m \notin Outgoing
      BY <1>1, <3>1, <3>3, Apart
    <3>5. QED
      BY <2>2, <3>1, <3>2, <3>3, <3>4 DEF HandlerSendAborted, Recycle, driverVars, chanVars,
         callVars, sendVars, recvVars
  <2>3. QED
    BY <2>1, <2>2
<1>3. SameTraffic
  <2>1. \A q \in Outgoing : q \in Msgs
    BY <1>1, Apart
  <2>2. QED
    BY <1>1, <1>2, <2>1 DEF SameTraffic, Outgoing, TypeOK
<1>4. /\ MailInv /\ MailInv' /\ SentOnce'
      /\ \A j \in Inputs : (Posted(j)' <=> Posted(j)) /\ (Written(j)' <=> Written(j))
  BY <1>3, TrafficKept
<1>5. AnswersSent' /\ LoopStopped'
  BY <1>1, <1>2, <1>4 DEF AnswersSent, LoopStopped, Inputs
<1>6. stages' = stages
  BY <1>2 DEF stages, Stage
<1>7. \A c \in Calls : Mail(c)' = Mail(c)
  BY <1>2, <1>4 DEF MailInv, Inputs
<1>8. \A q \in Reqs \ {i} : Mail(q)' = Mail(q)
  <2>1. \A q \in Reqs \ {i} : handler'[q] = handler[q]
    BY <1>1, <1>2 DEF TypeOK, Inputs
  <2>2. QED
    BY <1>2, <1>4, <2>1 DEF MailInv, Inputs
<1>9. Mail(i) = "kept" /\ Mail(i)' = "dropped"
  <2>1. handler'[i] = "exited"
    BY <1>1, <1>2 DEF TypeOK, Inputs
  <2>2. QED
    BY <1>2, <1>4, <2>1 DEF MailInv, Inputs
<1>10. mails' = [mails EXCEPT ![i] = "dropped"] /\ mails[i] = "kept"
  BY <1>2, <1>7, <1>8, <1>9, DriverAssumption DEF mails, Inputs
<1>11. Promise!Refuse(i)
  BY <1>2, <1>6, <1>10 DEF Promise!Refuse, stages, mails
<1>12. QED
  BY <1>2, <1>4, <1>5, <1>11 DEF Promised, Promise!Next

-----------------------------------------------------------------------------
\* The initial states are initial states of RemoteCalls.
LEMMA InitPromise == Init => RInv /\ Promise!Init
<1> SUFFICES ASSUME Init PROVE RInv /\ Promise!Init
  OBVIOUS
<1>1. IInv
  BY InitInv
<1>2. Outgoing = {} /\ wire = {}
  BY DEF Init, Outgoing
<1>3. SentOnce /\ AnswersSent /\ LoopStopped
  BY <1>2 DEF Init, SentOnce, AnswersSent, LoopStopped, Posted, Written
<1>4. MailInv
  BY <1>1, MailPlaced
<1>5. \A i \in Inputs : Mail(i) = "none"
  BY <1>2, <1>4 DEF Init, MailInv, Posted, Written, Inputs
<1>6. Promise!Init
  BY <1>5 DEF Init, Promise!Init, Promise!Parcels, Inputs, Stage
<1>7. QED
  BY <1>1, <1>3, <1>6 DEF RInv

\* Every step keeps RInv, and is a step of RemoteCalls or a stutter.
LEMMA StepPromise ==
  ASSUME RInv, [Next]_vars
  PROVE  RInv' /\ [Promise!Next]_Promise!vars
<1>1. IInv'
  BY NextInv DEF RInv
<1>2. ASSUME NEW c \in Calls,
             CallContextDone(c) \/ SendCall(c) \/ SendCallPanics(c) \/ CallerStep(c)
      PROVE  Promised
  <2>1. c \in Inputs
    BY DEF Inputs
  <2>2. QED
    BY <1>1, <1>2, <2>1, CallContextEnds, CallBegins, MailPosted, CallReturns, QuietSteps
       DEF CallerStep
<1>3. ASSUME NEW i \in Inputs, HandlerStep(i) \/ HandlerDetaches(i)
      PROVE  Promised
  BY <1>1, <1>3, RequestRefused, ReplyHandledQuietly, RequestServedQuietly, MailPosted
     DEF HandlerStep
<1>4. ASSUME SenderTakes \/ SenderCancelled \/ SendSucceeds \/ SendFails \/ SendErr
      PROVE  Promised
  BY <1>1, <1>4, SenderTakesQuietly, MailSent, QuietSteps
<1>5. ASSUME PeerStep \/ ReceiveFails \/ ReceiverQueues \/ ReceiverCancelled
      PROVE  Promised
  BY <1>1, <1>5, InputArrives, ReceiverCancelledQuietly, QuietSteps
<1>6. ASSUME Close \/ Go \/ CloserRuns \/ LoopStep
      PROVE  Promised
  BY <1>1, <1>6, LoopTakesQuietly, QuietSteps DEF LoopStep
<1>7. ASSUME Stopped \/ UNCHANGED vars
      PROVE  Promised
  BY <1>1, <1>7, QuietSteps DEF Stopped
<1>8. Promised
  <2>1. CASE Next
    BY <2>1, <1>2, <1>3, <1>4, <1>5, <1>6, <1>7 DEF Next
  <2>2. CASE UNCHANGED vars
    BY <2>2, <1>7
  <2>3. QED
    BY <2>1, <2>2
<1>9. QED
  BY <1>1, <1>8 DEF Promised, RInv

(***************************************************************************)
(* Driver's goroutines together do no more than RemoteCalls says: what is  *)
(* given to the driver to send is written once or dropped for a reason,    *)
(* and each call returns once and truthfully.                              *)
(***************************************************************************)
THEOREM Refinement == Spec => ImplementsCalls
<1>1. Init => RInv /\ Promise!Init
  BY InitPromise
<1>2. RInv /\ [Next]_vars => RInv' /\ [Promise!Next]_Promise!vars
  BY StepPromise
<1>3. QED
  BY <1>1, <1>2, PTL DEF Spec, ImplementsCalls, Promise!Spec

(***************************************************************************)
(* A reply is returned only to a call whose message was written and        *)
(* answered, and a request goes without a reply only if the driver is      *)
(* stopping or its transport has failed.                                   *)
(***************************************************************************)
THEOREM PromiseHonoured == Spec => []Promise!Honoured
<1>1. Init => RInv
  BY InitPromise
<1>2. RInv /\ [Next]_vars => RInv'
  BY StepPromise
<1>3. RInv => Promise!Honoured
  <2> SUFFICES ASSUME RInv PROVE Promise!Honoured
    OBVIOUS
  <2>1. IInv /\ SentOnce /\ AnswersSent /\ MailInv
    BY MailPlaced DEF RInv
  <2>2. ASSUME NEW c \in Calls, result[c] = "REPLIED"
        PROVE  Mail(c) = "sent" /\ c \in received
    <3>1. c \in received
      BY <2>1, <2>2 DEF IInv, TruthInv, Truthful
    <3>2. Written(c) /\ ~Posted(c)
      BY <2>1, <3>1 DEF AnswersSent, SentOnce, Inputs
    <3>3. QED
      BY <2>1, <3>1, <3>2 DEF MailInv
  <2>3. ASSUME NEW c \in Calls, Stage(c) = "returned"
        PROVE  Mail(c) \notin {"none", "kept"}
    BY <2>1, <2>3 DEF MailInv, Stage
  <2>4. ASSUME NEW q \in Reqs, Mail(q) = "dropped"
        PROVE  done \/ ~up
    <3>1. ~Posted(q) /\ ~Written(q) /\ handler[q] = "exited"
      BY <2>1, <2>4 DEF MailInv
    <3>2. QED
      BY <2>1, <3>1, DriverAssumption DEF IInv, RequestAnswered, Posted, Written, IsMailOf
  <2>5. QED
    BY <2>2, <2>3, <2>4 DEF Promise!Honoured, Inputs
<1>4. QED
  BY <1>1, <1>2, <1>3, PTL DEF Spec

(***************************************************************************)
(* Nothing is sent twice, nor sent once it has been dropped; and a call    *)
(* that has returned does not return again.                                *)
(***************************************************************************)
THEOREM SettledForGood == Spec => Promise!Settled
<1>1. Init => RInv
  BY InitPromise
<1>2. RInv /\ [Next]_vars => RInv' /\ [Promise!Settle]_Promise!vars
  <2> SUFFICES ASSUME RInv, [Next]_vars, Promise!Next
               PROVE  Promise!Settle
    BY StepPromise
  <2>1. MailInv /\ result \in [Calls -> Results \cup {nil}]
    BY MailPlaced DEF RInv, IInv, TypeOK
  <2>2. ASSUME NEW i \in Inputs, mails[i] \in {"sent", "dropped"}, mails'[i] # mails[i]
        PROVE  FALSE
    <3>1. \A j \in Inputs : \A v : mails' = [mails EXCEPT ![j] = v] => i = j
      BY <2>2 DEF mails
    <3>2. i \in Calls => stages[i] # "idle"
      BY <2>1, <2>2 DEF MailInv, mails, stages, Stage
    <3>3. i \in Reqs => i \in received
      BY <2>1, <2>2 DEF MailInv, mails
    <3>4. \A c \in Calls : ~Promise!Begin(c)
      BY <3>1, <3>2 DEF Promise!Begin, mails, stages, Inputs
    <3>5. \A q \in Reqs : ~Promise!Request(q)
      BY <3>1, <3>3 DEF Promise!Request, mails, Inputs
    <3>6. \A q \in Reqs : ~Promise!Refuse(q)
      BY <2>2, <3>1 DEF Promise!Refuse, mails, Inputs
    <3>7. \A j \in Inputs : ~(Promise!Post(j) \/ Promise!Transmit(j) \/ Promise!Lose(j))
      BY <2>2, <3>1 DEF Promise!Post, Promise!Transmit, Promise!Lose, mails
    <3>8. \A c \in Calls : \A r : ~Promise!Return(c, r)
      BY <2>2, <3>1 DEF Promise!Return, mails, Inputs
    <3>9. \A c \in Calls : ~(Promise!Panic(c) \/ Promise!ContextEnds(c) \/ Promise!Answer(c))
      BY <2>2 DEF Promise!Panic, Promise!ContextEnds, Promise!Answer, mails
    <3>10. ~(Promise!Close \/ Promise!GoDown)
      BY <2>2 DEF Promise!Close, Promise!GoDown, mails
    <3>11. QED
      BY <3>4, <3>5, <3>6, <3>7, <3>8, <3>9, <3>10 DEF Promise!Next, Promise!Parcels, Inputs
  <2>3. ASSUME NEW c \in Calls, stages[c] = "returned"
        PROVE  stages'[c] = stages[c] /\ result'[c] = result[c]
    <3>1. \/ stages' = stages /\ result' = result
          \/ \E d \in Calls : \E t, r :
               /\ stages[d] # "returned" /\ stages' = [stages EXCEPT ![d] = t]
               /\ result' = result \/ result' = [result EXCEPT ![d] = r]
      BY DEF Promise!Next, Promise!Begin, Promise!Panic, Promise!Return, Promise!ContextEnds,
         Promise!Post, Promise!Transmit, Promise!Lose, Promise!Answer, Promise!Request,
         Promise!Refuse, Promise!Close, Promise!GoDown, stages
    <3>2. CASE stages' = stages /\ result' = result
      BY <3>2
    <3>3. ASSUME NEW d \in Calls, NEW t, NEW r, stages[d] # "returned",
                 stages' = [stages EXCEPT ![d] = t],
                 result' = result \/ result' = [result EXCEPT ![d] = r]
          PROVE  stages'[c] = stages[c] /\ result'[c] = result[c]
      BY <2>1, <2>3, <3>3 DEF stages
    <3>4. QED
      BY <3>1, <3>2, <3>3
  <2>4. QED
    BY <2>2, <2>3 DEF Promise!Settle, Promise!Parcels, Inputs, mails, stages
<1>3. QED
  BY <1>1, <1>2, PTL DEF Spec, Promise!Settled
=============================================================================
