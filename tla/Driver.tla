--------------------------------- MODULE Driver ---------------------------------
(***************************************************************************)
(* rpc/driver.go: one Driver with its goroutines, between the callers of   *)
(* SendCall and a peer at the other end of a stream transport.             *)
(*                                                                         *)
(*   caller      one SendCall (lines 327-387)                              *)
(*   sender      the goroutine of SendChan (129-155), fed by out           *)
(*   receiver    the goroutine of ReceiveChan (99-124), feeding in         *)
(*   closer      the goroutine of NewDriverTuned (306-310)                 *)
(*   loop        Go and doMsgs (403-428)                                   *)
(*   handler     one doMsg (430-496) per message received                  *)
(*                                                                         *)
(* They share the context (done), the transport, the table of pending      *)
(* calls (one lock per operation: see CallSet), the pool of Message        *)
(* objects and the mutex Lock.  A Message is passed on, never copied; what *)
(* it holds is in body, and recycling it empties that.  A select is one    *)
(* step per branch that is ready.                                          *)
(*                                                                         *)
(* The peer answers a call it has received at most once and sends each of  *)
(* its own requests at most once.  Its requests carry XIDs of its own      *)
(* counter, which starts at 1 like ours.                                   *)
(***************************************************************************)
EXTENDS Integers, Sequences, FiniteSets

CONSTANTS Calls,         \* the uses of SendCall
          Reqs,          \* the messages the peer sends unasked
          Msgs,          \* Message objects
          SendQueueLen,  \* capacity of out
          RecvQueueLen,  \* capacity of in
          MaxXid,        \* bound on XIDs, enough for every call to have one
          nil

\* What SendCall returns: the status of the reply, or an error.
Results == {"REPLIED", "SEND_ERR", "CANCELED", "ErrTransportClosed", "ContextError"}

ASSUME DriverAssumption ==
  /\ IsFiniteSet(Calls)
  /\ SendQueueLen \in Nat \ {0}
  /\ RecvQueueLen \in Nat \ {0}
  /\ MaxXid \in Nat /\ MaxXid >= Cardinality(Calls)
  /\ Calls \cap Reqs = {}
  /\ nil \notin Calls \cup Reqs \cup Msgs \cup Results

Xids == 1 .. MaxXid

\* Each message received is one input, handled by one doMsg goroutine.
Inputs == Calls \cup Reqs

\* What is in a Message: a call or a reply, its XID, and the call or request
\* it belongs to.  An incoming call may name a procedure that is not
\* registered or not there ("unavail"), or be garbage.
Bodies == [kind : {"call", "reply", "unavail", "garbage"}, xid : Xids, of : Inputs]

EmptyBody == [kind |-> nil, xid |-> 0, of |-> nil]

VARIABLES
  done,      \* r.ctx has been cancelled
  up,        \* the transport has not failed
  started,   \* r.started: Go has been called
  lastXid, table, \* the CallSet: XID -> call
  body, pool,     \* contents of the Messages, and those free
  out, outClosed, \* r.out, and whether r.outClose is closed
  in, inClosed,   \* r.in
  caller,    \* where each SendCall is
  callDone,  \* the calls whose own context is done
  xidOf,     \* the XID of each call
  callMsg,   \* the Message each SendCall holds
  box,       \* what the callback has put in each SendCall's channel
  result,    \* what each SendCall has returned
  sender, sendMsg, sendXid,
  receiver, recvMsg,
  closer,
  loop,
  handler, handMsg, replyMsg, reply, \* each doMsg, what it holds, its answer
  lockedBy,  \* the handler that holds Lock
  wire,      \* the messages Send has written to the connection
  received   \* the inputs Receive has taken from the connection

driverVars == <<done, up, started>>
tableVars == <<lastXid, table, xidOf>>
msgVars == <<body, pool>>
chanVars == <<out, outClosed, in, inClosed>>
callVars == <<caller, callDone, callMsg, result>>
sendVars == <<sender, sendMsg, sendXid>>
recvVars == <<receiver, recvMsg, received>>
handVars == <<handler, handMsg, replyMsg, reply, lockedBy>>
vars == <<driverVars, tableVars, msgVars, chanVars, callVars, box, sendVars,
          recvVars, closer, loop, handVars, wire>>

-----------------------------------------------------------------------------
Init ==
  /\ done = FALSE /\ up = TRUE /\ started = FALSE
  /\ lastXid = 0
  /\ table = [x \in Xids |-> nil]
  /\ xidOf = [c \in Calls |-> 0]
  /\ body = [m \in Msgs |-> EmptyBody]
  /\ pool = Msgs
  /\ out = <<>> /\ outClosed = FALSE
  /\ in = <<>> /\ inClosed = FALSE
  /\ caller = [c \in Calls |-> "idle"]
  /\ callDone = {}
  /\ callMsg = [c \in Calls |-> nil]
  /\ box = [c \in Calls |-> <<>>]
  /\ result = [c \in Calls |-> nil]
  /\ sender = "select" /\ sendMsg = nil /\ sendXid = 0
  /\ receiver = "receive" /\ recvMsg = nil /\ received = {}
  /\ closer = "wait"
  /\ loop = "idle"
  /\ handler = [i \in Inputs |-> "none"]
  /\ handMsg = [i \in Inputs |-> nil]
  /\ replyMsg = [i \in Inputs |-> nil]
  /\ reply = [i \in Inputs |-> EmptyBody]
  /\ lockedBy = nil
  /\ wire = {}

\* Message.Recycle, and NewMessage followed by Serialize.
Recycle(m) ==
  /\ body' = [body EXCEPT ![m] = EmptyBody]
  /\ pool' = pool \cup {m}

NewMessage(m, b) ==
  /\ m \in pool
  /\ body' = [body EXCEPT ![m] = b]
  /\ pool' = pool \ {m}

\* A handler drops the request it holds and takes a message for the reply.
SwapForReply(m, r, b) ==
  /\ r \in pool
  /\ body' = [body EXCEPT ![m] = EmptyBody, ![r] = b]
  /\ pool' = (pool \ {r}) \cup {m}

\* The callback of SendCall: send on c, then close it.
Deliver(c, stat) == box' = [box EXCEPT ![c] = Append(@, stat)]

-----------------------------------------------------------------------------
(***************************************************************************)
(* The user: Close, Go, and the contexts of the calls.                     *)
(***************************************************************************)
Close ==
  /\ ~done
  /\ done' = TRUE
  /\ UNCHANGED <<up, started, tableVars, msgVars, chanVars, callVars, box, sendVars,
                 recvVars, closer, loop, handVars, wire>>

Go ==
  /\ ~started
  /\ started' = TRUE
  /\ loop' = "select"
  /\ UNCHANGED <<done, up, tableVars, msgVars, chanVars, callVars, box, sendVars,
                 recvVars, closer, handVars, wire>>

CallContextDone(c) ==
  /\ caller[c] \in {"send", "wait"}
  /\ c \notin callDone
  /\ callDone' = callDone \cup {c}
  /\ UNCHANGED <<driverVars, tableVars, msgVars, chanVars, caller, callMsg, result, box,
                 sendVars, recvVars, closer, loop, handVars, wire>>

-----------------------------------------------------------------------------
(***************************************************************************)
(* SendCall.                                                               *)
(***************************************************************************)
\* cs.NewCall, NewMessage and Serialize, up to the select of safeSend.
SendCall(c) ==
  /\ caller[c] = "idle"
  /\ lastXid' = lastXid + 1
  /\ xidOf' = [xidOf EXCEPT ![c] = lastXid + 1]
  /\ table' = [table EXCEPT ![lastXid + 1] = c]
  /\ \E m \in pool :
       /\ NewMessage(m, [kind |-> "call", xid |-> lastXid + 1, of |-> c])
       /\ callMsg' = [callMsg EXCEPT ![c] = m]
  /\ caller' = [caller EXCEPT ![c] = "send"]
  /\ UNCHANGED <<driverVars, chanVars, callDone, result, box, sendVars, recvVars,
                 closer, loop, handVars, wire>>

\* Serialize panics on an argument that cannot be written, with a vector over its
\* bound or a union without an arm: the entry stays in the table and the message
\* is lost to its pool.
SendCallPanics(c) ==
  /\ caller[c] = "idle"
  /\ lastXid' = lastXid + 1
  /\ xidOf' = [xidOf EXCEPT ![c] = lastXid + 1]
  /\ table' = [table EXCEPT ![lastXid + 1] = c]
  /\ \E m \in pool : pool' = pool \ {m}
  /\ caller' = [caller EXCEPT ![c] = "panicked"]
  /\ UNCHANGED <<driverVars, body, chanVars, callDone, callMsg, result, box, sendVars,
                 recvVars, closer, loop, handVars, wire>>

\* The three branches of safeSend's select, as SendCall takes them.
CallEnqueues(c) ==
  /\ caller[c] = "send"
  /\ Len(out) < SendQueueLen
  /\ out' = Append(out, callMsg[c])
  /\ callMsg' = [callMsg EXCEPT ![c] = nil]
  /\ caller' = [caller EXCEPT ![c] = "wait"]
  /\ UNCHANGED <<driverVars, tableVars, msgVars, outClosed, in, inClosed, callDone,
                 result, box, sendVars, recvVars, closer, loop, handVars, wire>>

\* Faulty: safeSend does not recycle on the way out.
CallSendLeaks(c, err) ==
  /\ caller[c] = "send"
  /\ \/ err = "ErrTransportClosed" /\ done
     \/ err = "ContextError" /\ c \in callDone
  /\ callMsg' = [callMsg EXCEPT ![c] = nil]
  /\ result' = [result EXCEPT ![c] = err]
  /\ caller' = [caller EXCEPT ![c] = "delete"]
  /\ UNCHANGED <<driverVars, tableVars, msgVars, chanVars, callDone, box, sendVars,
                 recvVars, closer, loop, handVars, wire>>

CallSendAborted(c, err) ==
  /\ caller[c] = "send"
  /\ \/ err = "ErrTransportClosed" /\ done
     \/ err = "ContextError" /\ c \in callDone
  /\ Recycle(callMsg[c])
  /\ callMsg' = [callMsg EXCEPT ![c] = nil]
  /\ result' = [result EXCEPT ![c] = err]
  /\ caller' = [caller EXCEPT ![c] = "delete"]
  /\ UNCHANGED <<driverVars, tableVars, chanVars, callDone, box, sendVars, recvVars,
                 closer, loop, handVars, wire>>

\* The three branches of SendCall's own select.
CallAnswered(c) ==
  /\ caller[c] = "wait"
  /\ box[c] # <<>>
  /\ result' = [result EXCEPT ![c] = Head(box[c])]
  /\ caller' = [caller EXCEPT ![c] = "returned"]
  /\ UNCHANGED <<driverVars, tableVars, msgVars, chanVars, callDone, callMsg, box,
                 sendVars, recvVars, closer, loop, handVars, wire>>

\* Faulty: SendCall returns without cs.Delete.
CallAbandonedEntry(c, err) ==
  /\ caller[c] = "wait"
  /\ \/ err = "ErrTransportClosed" /\ done
     \/ err = "ContextError" /\ c \in callDone
  /\ result' = [result EXCEPT ![c] = err]
  /\ caller' = [caller EXCEPT ![c] = "returned"]
  /\ UNCHANGED <<driverVars, tableVars, msgVars, chanVars, callDone, callMsg, box,
                 sendVars, recvVars, closer, loop, handVars, wire>>

\* Faulty: the select of SendCall without its branch on ctx.Done.
CallIgnoresContext(c, err) ==
  /\ err = "ErrTransportClosed"
  /\ caller[c] = "wait"
  /\ done
  /\ result' = [result EXCEPT ![c] = err]
  /\ caller' = [caller EXCEPT ![c] = "delete"]
  /\ UNCHANGED <<driverVars, tableVars, msgVars, chanVars, callDone, callMsg, box,
                 sendVars, recvVars, closer, loop, handVars, wire>>

CallAbandoned(c, err) ==
  /\ caller[c] = "wait"
  /\ \/ err = "ErrTransportClosed" /\ done
     \/ err = "ContextError" /\ c \in callDone
  /\ result' = [result EXCEPT ![c] = err]
  /\ caller' = [caller EXCEPT ![c] = "delete"]
  /\ UNCHANGED <<driverVars, tableVars, msgVars, chanVars, callDone, callMsg, box,
                 sendVars, recvVars, closer, loop, handVars, wire>>

\* cs.Delete on the way out.
CallDeletes(c) ==
  /\ caller[c] = "delete"
  /\ table' = [table EXCEPT ![xidOf[c]] = nil]
  /\ caller' = [caller EXCEPT ![c] = "returned"]
  /\ UNCHANGED <<driverVars, lastXid, xidOf, msgVars, chanVars, callDone, callMsg, result,
                 box, sendVars, recvVars, closer, loop, handVars, wire>>

-----------------------------------------------------------------------------
(***************************************************************************)
(* The sender.                                                             *)
(***************************************************************************)
SenderTakes ==
  /\ sender = "select"
  /\ out # <<>>
  /\ sendMsg' = Head(out)
  /\ sendXid' = body[Head(out)].xid
  /\ out' = Tail(out)
  /\ sender' = "send"
  /\ UNCHANGED <<driverVars, tableVars, msgVars, outClosed, in, inClosed, callVars, box,
                 recvVars, closer, loop, handVars, wire>>

SenderCancelled ==
  /\ sender = "select"
  /\ outClosed
  /\ up' = FALSE
  /\ sender' = "exited"
  /\ UNCHANGED <<done, started, tableVars, msgVars, chanVars, callVars, box, sendMsg,
                 sendXid, recvVars, closer, loop, handVars, wire>>

\* Faulty: the message is recycled before it is written.
SendAfterRecycle ==
  /\ sender = "send"
  /\ up
  /\ wire' = wire \cup {EmptyBody}
  /\ Recycle(sendMsg)
  /\ sendMsg' = nil
  /\ sendXid' = 0
  /\ sender' = "select"
  /\ UNCHANGED <<driverVars, tableVars, chanVars, callVars, box, recvVars, closer, loop,
                 handVars>>

\* t.Send writes the message; it recycles it whatever happens.
SendSucceeds ==
  /\ sender = "send"
  /\ up
  /\ wire' = wire \cup {body[sendMsg]}
  /\ Recycle(sendMsg)
  /\ sendMsg' = nil
  /\ sendXid' = 0
  /\ sender' = "select"
  /\ UNCHANGED <<driverVars, tableVars, chanVars, callVars, box, recvVars, closer, loop,
                 handVars>>

\* A write error, or the transport had failed already.
SendFails ==
  /\ sender = "send"
  /\ up' = FALSE
  /\ Recycle(sendMsg)
  /\ sendMsg' = nil
  /\ sender' = "onErr"
  /\ UNCHANGED <<done, started, tableVars, chanVars, callVars, box, sendXid, recvVars,
                 closer, loop, handVars, wire>>

\* onErr: cs.Cancel(xid, SEND_ERR), for the XID of the message, call or reply.
SendErr ==
  /\ sender = "onErr"
  /\ IF table[sendXid] # nil
     THEN /\ Deliver(table[sendXid], "SEND_ERR")
          /\ table' = [table EXCEPT ![sendXid] = nil]
     ELSE UNCHANGED <<box, table>>
  /\ sendXid' = 0
  /\ sender' = "select"
  /\ UNCHANGED <<driverVars, lastXid, xidOf, msgVars, chanVars, callVars, sendMsg,
                 recvVars, closer, loop, handVars, wire>>

-----------------------------------------------------------------------------
(***************************************************************************)
(* The receiver, and the peer it reads from.                               *)
(***************************************************************************)
Receive(i, b) ==
  /\ receiver = "receive"
  /\ up
  /\ i \notin received
  /\ \E m \in pool :
       /\ NewMessage(m, b)
       /\ recvMsg' = m
  /\ received' = received \cup {i}
  /\ receiver' = "queue"
  /\ UNCHANGED <<driverVars, tableVars, chanVars, callVars, box, sendVars, closer, loop,
                 handVars, wire>>

\* The peer's answer to a call it has been sent.
ReceiveReply(c) ==
  \E b \in wire : /\ b.kind = "call" /\ b.of = c
                 /\ Receive(c, [b EXCEPT !.kind = "reply"])

\* A request of the peer's, with an XID of the peer's counter.
ReceiveRequest(q, kind, x) ==
  Receive(q, [kind |-> kind, xid |-> x, of |-> q])

\* Faulty: the receiver ends without closing its channel.
ReceiveFailsSilently ==
  /\ receiver = "receive"
  /\ up' = FALSE
  /\ receiver' = "exited"
  /\ UNCHANGED <<done, started, tableVars, msgVars, chanVars, callVars, box, sendVars,
                 recvMsg, received, closer, loop, handVars, wire>>

\* Receive returns an error: the connection ended or failed, or was closed.
ReceiveFails ==
  /\ receiver = "receive"
  /\ up' = FALSE
  /\ inClosed' = TRUE
  /\ receiver' = "exited"
  /\ UNCHANGED <<done, started, tableVars, msgVars, out, outClosed, in, callVars, box,
                 sendVars, recvMsg, received, closer, loop, handVars, wire>>

ReceiverQueues ==
  /\ receiver = "queue"
  /\ Len(in) < RecvQueueLen
  /\ in' = Append(in, recvMsg)
  /\ recvMsg' = nil
  /\ receiver' = "receive"
  /\ UNCHANGED <<driverVars, tableVars, msgVars, out, outClosed, inClosed, callVars, box,
                 sendVars, received, closer, loop, handVars, wire>>

ReceiverCancelled ==
  /\ receiver = "queue"
  /\ done
  /\ Recycle(recvMsg)
  /\ recvMsg' = nil
  /\ inClosed' = TRUE
  /\ up' = FALSE
  /\ receiver' = "exited"
  /\ UNCHANGED <<done, started, tableVars, out, outClosed, in, callVars, box, sendVars,
                 received, closer, loop, handVars, wire>>

-----------------------------------------------------------------------------
(***************************************************************************)
(* The closer and the loop.                                                *)
(***************************************************************************)
CloserRuns ==
  /\ closer = "wait"
  /\ done
  /\ up' = FALSE
  /\ outClosed' = TRUE
  /\ closer' = "exited"
  /\ UNCHANGED <<done, started, tableVars, msgVars, out, in, inClosed, callVars, box,
                 sendVars, recvVars, loop, handVars, wire>>

\* A message: go doMsg.
LoopTakes ==
  /\ loop = "select"
  /\ in # <<>>
  /\ LET m == Head(in) i == body[m].of IN
       /\ handler' = [handler EXCEPT ![i] = "start"]
       /\ handMsg' = [handMsg EXCEPT ![i] = m]
  /\ in' = Tail(in)
  /\ UNCHANGED <<driverVars, tableVars, msgVars, out, outClosed, inClosed, callVars, box,
                 sendVars, recvVars, closer, loop, replyMsg, reply, lockedBy, wire>>

\* A nil message from the closed channel: r.cancel(), and round again.
LoopSeesEnd ==
  /\ loop = "select"
  /\ in = <<>> /\ inClosed
  /\ ~done
  /\ done' = TRUE
  /\ UNCHANGED <<up, started, tableVars, msgVars, chanVars, callVars, box, sendVars,
                 recvVars, closer, loop, handVars, wire>>

InTable(c) == \E x \in Xids : table[x] = c

\* The context is done: return, with the deferred Close and CancelAll.
LoopReturns ==
  /\ loop = "select"
  /\ done
  /\ loop' = "exited"
  /\ box' = [c \in Calls |-> IF InTable(c) THEN Append(box[c], "CANCELED") ELSE box[c]]
  /\ table' = [x \in Xids |-> nil]
  /\ UNCHANGED <<driverVars, lastXid, xidOf, msgVars, chanVars, callVars, sendVars,
                 recvVars, closer, handVars, wire>>

-----------------------------------------------------------------------------
(***************************************************************************)
(* A handler: doMsg.                                                       *)
(***************************************************************************)
Holds(i, kinds) == handler[i] = "start" /\ body[handMsg[i]].kind \in kinds

\* The handler ends here, dropping its message.
HandlerDrops(i) ==
  /\ Recycle(handMsg[i])
  /\ handMsg' = [handMsg EXCEPT ![i] = nil]
  /\ handler' = [handler EXCEPT ![i] = "exited"]
  /\ UNCHANGED <<replyMsg, reply, lockedBy>>

\* GetMsg fails: r.cancel().
HandleGarbage(i) ==
  /\ Holds(i, {"garbage"})
  /\ HandlerDrops(i)
  /\ done' = TRUE
  /\ UNCHANGED <<up, started, tableVars, chanVars, callVars, box, sendVars, recvVars,
                 closer, loop, wire>>

\* Faulty: GetReply leaves the call in the table.
HandleReplyPeeks(i) ==
  /\ Holds(i, {"reply"})
  /\ LET b == body[handMsg[i]] IN
       /\ table[b.xid] # nil
       /\ reply' = [reply EXCEPT ![i] = [b EXCEPT !.of = table[b.xid]]]
  /\ Recycle(handMsg[i])
  /\ handMsg' = [handMsg EXCEPT ![i] = nil]
  /\ handler' = [handler EXCEPT ![i] = "callback"]
  /\ UNCHANGED <<driverVars, tableVars, chanVars, callVars, box, sendVars, recvVars,
                 closer, loop, replyMsg, lockedBy, wire>>

\* Faulty: the callback is not run.
HandleReplySilently(i) ==
  /\ Holds(i, {"reply"})
  /\ LET b == body[handMsg[i]] IN
       /\ table[b.xid] # nil
       /\ table' = [table EXCEPT ![b.xid] = nil]
  /\ HandlerDrops(i)
  /\ UNCHANGED <<driverVars, lastXid, xidOf, chanVars, callVars, box, sendVars, recvVars,
                 closer, loop, wire>>

\* GetReply finds the call and takes it out of the table; the message is
\* recycled before the callback is run.
HandleReply(i) ==
  /\ Holds(i, {"reply"})
  /\ LET b == body[handMsg[i]] IN
       /\ table[b.xid] # nil
       /\ table' = [table EXCEPT ![b.xid] = nil]
       /\ reply' = [reply EXCEPT ![i] = [b EXCEPT !.of = table[b.xid]]]
  /\ Recycle(handMsg[i])
  /\ handMsg' = [handMsg EXCEPT ![i] = nil]
  /\ handler' = [handler EXCEPT ![i] = "callback"]
  /\ UNCHANGED <<driverVars, lastXid, xidOf, chanVars, callVars, box, sendVars, recvVars,
                 closer, loop, replyMsg, lockedBy, wire>>

HandlerCallsBack(i) ==
  /\ handler[i] = "callback"
  /\ Deliver(reply[i].of, "REPLIED")
  /\ reply' = [reply EXCEPT ![i] = EmptyBody]
  /\ handler' = [handler EXCEPT ![i] = "exited"]
  /\ UNCHANGED <<driverVars, tableVars, msgVars, chanVars, callVars, sendVars, recvVars,
                 closer, loop, handMsg, replyMsg, lockedBy, wire>>

\* GetReply does not find the call, and GetProc has nothing to do with a reply.
HandleLateReply(i) ==
  /\ Holds(i, {"reply"})
  /\ table[body[handMsg[i]].xid] = nil
  /\ HandlerDrops(i)
  /\ UNCHANGED <<driverVars, tableVars, chanVars, callVars, box, sendVars, recvVars,
                 closer, loop, wire>>

\* The reply a handler sends: to its request, with its request's XID.
ReplyTo(b) == [kind |-> "reply", xid |-> b.xid, of |-> b.of]

\* GetProc answers for the server: no such program, version or procedure.
HandleUnavailable(i) ==
  /\ Holds(i, {"unavail"})
  /\ \E r \in pool :
       /\ SwapForReply(handMsg[i], r, ReplyTo(body[handMsg[i]]))
       /\ replyMsg' = [replyMsg EXCEPT ![i] = r]
  /\ handMsg' = [handMsg EXCEPT ![i] = nil]
  /\ handler' = [handler EXCEPT ![i] = "send"]
  /\ UNCHANGED <<driverVars, tableVars, chanVars, callVars, box, sendVars, recvVars,
                 closer, loop, reply, lockedBy, wire>>

\* mkUnlocker, then proc.Do.
HandleRequest(i) ==
  /\ Holds(i, {"call"})
  /\ lockedBy = nil
  /\ lockedBy' = i
  /\ reply' = [reply EXCEPT ![i] = ReplyTo(body[handMsg[i]])]
  /\ handler' = [handler EXCEPT ![i] = "do"]
  /\ UNCHANGED <<driverVars, tableVars, msgVars, chanVars, callVars, box, sendVars,
                 recvVars, closer, loop, handMsg, replyMsg, wire>>

\* The service routine calls Detach: the lock is released early, and only once.
HandlerDetaches(i) ==
  /\ handler[i] = "do"
  /\ lockedBy' = nil
  /\ handler' = [handler EXCEPT ![i] = "detached"]
  /\ UNCHANGED <<driverVars, tableVars, msgVars, chanVars, callVars, box, sendVars,
                 recvVars, closer, loop, handMsg, replyMsg, reply, wire>>

\* Faulty: the unlock function unlocks each time it is called.
HandlerUnlocksAgain(i) ==
  /\ handler[i] \in {"do", "detached"}
  /\ lockedBy' = nil
  /\ \E r \in pool :
       /\ SwapForReply(handMsg[i], r, reply[i])
       /\ replyMsg' = [replyMsg EXCEPT ![i] = r]
  /\ reply' = [reply EXCEPT ![i] = EmptyBody]
  /\ handMsg' = [handMsg EXCEPT ![i] = nil]
  /\ handler' = [handler EXCEPT ![i] = "send"]
  /\ UNCHANGED <<driverVars, tableVars, chanVars, callVars, box, sendVars, recvVars,
                 closer, loop, wire>>

\* proc.Do has returned or panicked: unlock if not detached, build the reply,
\* drop the request.
HandlerReplies(i) ==
  /\ handler[i] \in {"do", "detached"}
  /\ lockedBy' = IF handler[i] = "do" THEN nil ELSE lockedBy
  /\ \E r \in pool :
       /\ SwapForReply(handMsg[i], r, reply[i])
       /\ replyMsg' = [replyMsg EXCEPT ![i] = r]
  /\ reply' = [reply EXCEPT ![i] = EmptyBody]
  /\ handMsg' = [handMsg EXCEPT ![i] = nil]
  /\ handler' = [handler EXCEPT ![i] = "send"]
  /\ UNCHANGED <<driverVars, tableVars, chanVars, callVars, box, sendVars, recvVars,
                 closer, loop, wire>>

\* safeSend without a call context.
HandlerEnqueues(i) ==
  /\ handler[i] = "send"
  /\ Len(out) < SendQueueLen
  /\ out' = Append(out, replyMsg[i])
  /\ replyMsg' = [replyMsg EXCEPT ![i] = nil]
  /\ handler' = [handler EXCEPT ![i] = "exited"]
  /\ UNCHANGED <<driverVars, tableVars, msgVars, outClosed, in, inClosed, callVars, box,
                 sendVars, recvVars, closer, loop, handMsg, reply, lockedBy, wire>>

\* Faulty: a reply that finds the queue full is dropped.
HandlerDropsReply(i) ==
  /\ handler[i] = "send"
  /\ done \/ Len(out) = SendQueueLen
  /\ Recycle(replyMsg[i])
  /\ replyMsg' = [replyMsg EXCEPT ![i] = nil]
  /\ handler' = [handler EXCEPT ![i] = "exited"]
  /\ UNCHANGED <<driverVars, tableVars, chanVars, callVars, box, sendVars, recvVars,
                 closer, loop, handMsg, reply, lockedBy, wire>>

HandlerSendAborted(i) ==
  /\ handler[i] = "send"
  /\ done
  /\ Recycle(replyMsg[i])
  /\ replyMsg' = [replyMsg EXCEPT ![i] = nil]
  /\ handler' = [handler EXCEPT ![i] = "exited"]
  /\ UNCHANGED <<driverVars, tableVars, chanVars, callVars, box, sendVars, recvVars,
                 closer, loop, handMsg, reply, lockedBy, wire>>

-----------------------------------------------------------------------------
CallerStep(c) ==
  \/ CallEnqueues(c)
  \/ \E err \in {"ErrTransportClosed", "ContextError"} :
       CallSendAborted(c, err) \/ CallAbandoned(c, err)
  \/ CallAnswered(c)
  \/ CallDeletes(c)

HandlerStep(i) ==
  \/ HandleGarbage(i) \/ HandleReply(i) \/ HandleLateReply(i)
  \/ HandleUnavailable(i) \/ HandleRequest(i)
  \/ HandlerCallsBack(i) \/ HandlerReplies(i)
  \/ HandlerEnqueues(i) \/ HandlerSendAborted(i)

LoopStep == LoopTakes \/ LoopSeesEnd \/ LoopReturns

PeerStep ==
  \/ \E c \in Calls : ReceiveReply(c)
  \/ \E q \in Reqs, kind \in {"call", "unavail", "garbage"}, x \in Xids :
       ReceiveRequest(q, kind, x)

\* Every goroutine has ended, and nobody is in SendCall.
Quiet ==
  /\ sender = "exited" /\ receiver = "exited" /\ closer = "exited"
  /\ loop \in {"idle", "exited"}
  /\ \A c \in Calls : caller[c] \in {"idle", "returned", "panicked"}
  /\ \A i \in Inputs : handler[i] \in {"none", "exited"}

\* A driver that has stopped may stay so.
Stopped == Quiet /\ UNCHANGED vars

Next ==
  \/ Close \/ Go
  \/ \E c \in Calls : CallContextDone(c) \/ SendCall(c) \/ SendCallPanics(c) \/ CallerStep(c)
  \/ SenderTakes \/ SenderCancelled \/ SendSucceeds \/ SendFails \/ SendErr
  \/ PeerStep
  \/ ReceiveFails \/ ReceiverQueues \/ ReceiverCancelled
  \/ CloserRuns
  \/ LoopStep
  \/ \E i \in Inputs : HandlerStep(i) \/ HandlerDetaches(i)
  \/ Stopped

\* Goroutines are scheduled; service routines return; I/O on a failed
\* transport returns.  Nothing is assumed of the peer or of I/O while the
\* connection is up: a Send may block for ever, and no message need come.
Fairness ==
  /\ WF_vars(Go)
  /\ \A c \in Calls : WF_vars(CallerStep(c))
  /\ WF_vars(SenderTakes \/ SenderCancelled \/ SendErr \/ (~up /\ SendFails))
  /\ WF_vars(ReceiverQueues \/ ReceiverCancelled \/ (~up /\ ReceiveFails))
  /\ WF_vars(CloserRuns)
  /\ WF_vars(LoopStep)
  /\ \A i \in Inputs : WF_vars(HandlerStep(i))

Spec == Init /\ [][Next]_vars

FairSpec == Spec /\ Fairness
-----------------------------------------------------------------------------
(***************************************************************************)
(* Properties                                                              *)
(***************************************************************************)
CallerStates == {"idle", "send", "wait", "delete", "panicked", "returned"}
HandlerStates == {"none", "start", "callback", "do", "detached", "send", "exited"}

(***************************************************************************)
(* Types; the two queues stay within their capacity, and only whole        *)
(* messages are ever written: Send writes before it recycles.              *)
(***************************************************************************)
TypeOK ==
  /\ done \in BOOLEAN /\ up \in BOOLEAN /\ started \in BOOLEAN
  /\ outClosed \in BOOLEAN /\ inClosed \in BOOLEAN
  /\ lastXid \in 0 .. MaxXid
  /\ table \in [Xids -> Calls \cup {nil}]
  /\ xidOf \in [Calls -> 0 .. MaxXid]
  /\ body \in [Msgs -> Bodies \cup {EmptyBody}]
  /\ pool \subseteq Msgs
  /\ out \in Seq(Msgs) /\ Len(out) <= SendQueueLen
  /\ in \in Seq(Msgs) /\ Len(in) <= RecvQueueLen
  /\ caller \in [Calls -> CallerStates]
  /\ callDone \subseteq Calls
  /\ callMsg \in [Calls -> Msgs \cup {nil}]
  /\ box \in [Calls -> Seq(Results)]
  /\ result \in [Calls -> Results \cup {nil}]
  /\ sender \in {"select", "send", "onErr", "exited"}
  /\ sendMsg \in Msgs \cup {nil}
  /\ sendXid \in 0 .. MaxXid
  /\ receiver \in {"receive", "queue", "exited"}
  /\ recvMsg \in Msgs \cup {nil}
  /\ received \subseteq Inputs
  /\ closer \in {"wait", "exited"}
  /\ loop \in {"idle", "select", "exited"}
  /\ handler \in [Inputs -> HandlerStates]
  /\ handMsg \in [Inputs -> Msgs \cup {nil}]
  /\ replyMsg \in [Inputs -> Msgs \cup {nil}]
  /\ reply \in [Inputs -> Bodies \cup {EmptyBody}]
  /\ lockedBy \in Inputs \cup {nil}
  /\ wire \subseteq Bodies

\* Where a Message is in use: each place counts once.
Places(m) ==
  {<<"caller", c>> : c \in {d \in Calls : callMsg[d] = m}}
    \cup {<<"out", k>> : k \in {j \in 1 .. Len(out) : out[j] = m}}
    \cup {<<"in", k>> : k \in {j \in 1 .. Len(in) : in[j] = m}}
    \cup {<<"request", i>> : i \in {j \in Inputs : handMsg[j] = m}}
    \cup {<<"reply", i>> : i \in {j \in Inputs : replyMsg[j] = m}}
    \cup {<<w, nil>> : w \in {v \in {"sender", "receiver"} :
                               IF v = "sender" THEN sendMsg = m ELSE recvMsg = m}}

(***************************************************************************)
(* Every Message has exactly one owner: nobody uses one after recycling    *)
(* it, none is recycled twice, none is in two hands (the Recycle calls of  *)
(* SendChan, ReceiveChan, safeSend and doMsg), and the only ones lost to   *)
(* the pool are those of the SendCalls that panicked.                      *)
(***************************************************************************)
MessageOwnership ==
  /\ \A m \in Msgs :
       /\ m \in pool => Places(m) = {} /\ body[m] = EmptyBody
       /\ Cardinality(Places(m)) <= 1
       /\ Places(m) # {} => body[m] # EmptyBody
  /\ Cardinality({m \in Msgs : m \notin pool /\ Places(m) = {}})
       = Cardinality({c \in Calls : caller[c] = "panicked"})

\* The answers a call has had or can still get.
Answers(c) ==
  Len(box[c]) + Cardinality({x \in Xids : table[x] = c})
    + Cardinality({i \in Inputs : handler[i] = "callback" /\ reply[i].of = c})

(***************************************************************************)
(* A SendCall that waits has one answer, in its channel, on its way there, *)
(* or still due from the table: never none, and never two, which would     *)
(* send on the closed channel of its callback (driver.go:358-361).  The    *)
(* reply, the send error and CancelAll compete for it.                     *)
(***************************************************************************)
OneAnswer ==
  \A c \in Calls :
    /\ Answers(c) <= 1
    /\ caller[c] \in {"send", "wait"} => Answers(c) = 1

(***************************************************************************)
(* What SendCall returns is true: a reply only if the peer has answered    *)
(* this call, an error only for the reason it names (driver.go:367-386).   *)
(***************************************************************************)
ResultTruthful ==
  \A c \in Calls :
    /\ result[c] = "REPLIED" => c \in received
    /\ result[c] = "SEND_ERR" => ~up
    /\ result[c] = "CANCELED" => loop = "exited"
    /\ result[c] = "ErrTransportClosed" => done
    /\ result[c] = "ContextError" => c \in callDone

(***************************************************************************)
(* The table keeps no entry of a call that has returned, whichever way it  *)
(* did: its XID is free again.                                             *)
(***************************************************************************)
NoOrphanEntry ==
  \A c \in Calls : InTable(c) => caller[c] \in {"send", "wait", "delete", "panicked"}

(***************************************************************************)
(* Service routines run one at a time under Lock, Detach or panic or not:  *)
(* no unlock releases the lock of another call (mkUnlocker, driver.go:390).*)
(***************************************************************************)
OneRoutineAtATime ==
  \A i \in Inputs : handler[i] = "do" <=> lockedBy = i

\* The messages queued or being sent.
Outgoing == {out[k] : k \in 1 .. Len(out)} \cup ({sendMsg} \ {nil})

(***************************************************************************)
(* A request that has been handled has its reply on its way or sent, as    *)
(* long as the driver and its transport are up (doMsg, driver.go:475-494). *)
(***************************************************************************)
RequestAnswered ==
  \A q \in Reqs :
    handler[q] = "exited" =>
      \/ done \/ ~up
      \/ \E m \in Outgoing : body[m].kind = "reply" /\ body[m].of = q
      \/ \E b \in wire : b.kind = "reply" /\ b.of = q

\* Body b is what is to be sent for a call, or in reply to a request.
IsMailOf(b, i) == b.of = i /\ b.kind = IF i \in Calls THEN "call" ELSE "reply"

\* Where that message is.  One that were queued again would count as posted.
Mail(i) ==
  IF \E m \in Outgoing : IsMailOf(body[m], i) THEN "posted"
  ELSE IF \E b \in wire : IsMailOf(b, i) THEN "sent"
  ELSE IF i \in Calls
       THEN IF callMsg[i] # nil THEN "kept"
            ELSE IF caller[i] \in {"idle", "panicked"} THEN "none" ELSE "dropped"
       ELSE IF i \notin received THEN "none"
            ELSE IF handler[i] = "exited" THEN "dropped" ELSE "kept"

Stage(c) ==
  IF caller[c] \in {"send", "wait"} THEN "open"
  ELSE IF caller[c] \in {"delete", "returned"} THEN "returned"
  ELSE caller[c]

Promise == INSTANCE RemoteCalls WITH
  stage <- [c \in Calls |-> Stage(c)],
  mail <- [i \in Inputs |-> Mail(i)],
  arrived <- received,
  ended <- callDone,
  closed <- done,
  down <- ~up

(***************************************************************************)
(* All the goroutines together do no more than RemoteCalls says: each      *)
(* message is sent once or dropped for a reason, each call returns once    *)
(* and truthfully.                                                         *)
(***************************************************************************)
ImplementsCalls == Promise!Spec

(***************************************************************************)
(* util.go:27: SEND_ERR is a "Transport-level error when sending call": a  *)
(* call told so has not been sent.                                         *)
(***************************************************************************)
SendErrMeansNotSent ==
  \A c \in Calls :
    result[c] = "SEND_ERR" => ~ \E b \in wire : b.kind = "call" /\ b.of = c

(***************************************************************************)
(* Closing the driver, or losing its transport, ends every goroutine it    *)
(* started and every call in progress.                                     *)
(***************************************************************************)
ShutdownCompletes == (done \/ ~up) ~> Quiet

(***************************************************************************)
(* A call whose own context ends returns, even while its message waits for *)
(* a sender that is stuck in Send.                                         *)
(***************************************************************************)
ContextEndsCall ==
  \A c \in Calls : c \in callDone ~> caller[c] = "returned"

(***************************************************************************)
(* A reply that has been received reaches its caller.                      *)
(***************************************************************************)
ReplyReturns ==
  \A c \in Calls : c \in received ~> caller[c] = "returned"
=============================================================================
