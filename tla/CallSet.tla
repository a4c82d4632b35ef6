-------------------------------- MODULE CallSet --------------------------------
(***************************************************************************)
(* rpc/util.go: the table of pending RPC calls that a Driver keeps, with   *)
(* the pool its PendingCall objects come from (rpc/callpool.go).           *)
(*                                                                         *)
(* Every operation holds cs.lock from beginning to end, so each is one     *)
(* action.  The exception is the callback that GetReply hands back: the    *)
(* caller (Driver.doMsg) runs it after the lock is released, with any      *)
(* other operation in between.                                             *)
(*                                                                         *)
(* A call stands for one use of the table: its callback is named by the    *)
(* call itself.  XIDs are uint32 in the code; XidSpace is 2^32 there and   *)
(* small here, so that the counter wraps.                                  *)
(***************************************************************************)
EXTENDS Integers, Sequences

CONSTANTS Calls,     \* one member per call of NewCall
          Servers,   \* peer names (the "server" strings)
          Objects,   \* PendingCall objects, allocated or not
          XidSpace,  \* number of XIDs
          nil

Xids == 0 .. XidSpace - 1

ASSUME CallSetAssumption ==
  /\ XidSpace \in Nat \ {0}
  /\ nil \notin Calls \cup Servers \cup Objects

\* What a call can complete with.  REMOTE_ERR is any reply of the peer that
\* is not an accepted SUCCESS; the last three are the local pseudo-states.
Stats == {"SUCCESS", "REMOTE_ERR", "SEND_ERR", "CANCELED", "GARBAGE_RET"}

Completions == [stat : Stats, answers : Calls \cup {nil}, from : Servers \cup {nil}]

EmptyObject == [cb |-> nil, server |-> nil]

VARIABLES
  lastXid,   \* cs.lastXid
  calls,     \* cs.calls: XID -> PendingCall, nil where the map has no key
  object,    \* fields Cb and Server of each PendingCall
  pool,      \* objects that cs.pool may hand out
  held,      \* callbacks GetReply returned that have not been run
  fired,     \* callbacks that have been run, with what they were told
  order,     \* the calls made so far, oldest first
  xidOf,     \* the XID NewCall put in the call's header
  serverOf,  \* the server string the call was made with
  deleted,   \* calls whose maker has called Delete
  busy       \* for each call the XIDs in the table when it was made

vars ==
  <<lastXid, calls, object, pool, held, fired, order, xidOf, serverOf, deleted, busy>>

Made == {order[i] : i \in 1 .. Len(order)}

Pending(c) == \E x \in Xids : calls[x] # nil /\ object[calls[x]].cb = c

-----------------------------------------------------------------------------
Init ==
  /\ lastXid = 0
  /\ calls = [x \in Xids |-> nil]
  /\ object = [o \in Objects |-> EmptyObject]
  /\ pool = Objects
  /\ held = [c \in Calls |-> <<>>]
  /\ fired = [c \in Calls |-> <<>>]
  /\ order = <<>>
  /\ xidOf = [c \in Calls |-> nil]
  /\ serverOf = [c \in Calls |-> nil]
  /\ deleted = {}
  /\ busy = [c \in Calls |-> {}]

\* Faulty: the search for a free XID starts from zero.
XidFromZero(x) == calls[x] = nil /\ \A y \in 0 .. x - 1 : calls[y] # nil

\* Faulty: the next XID, in use or not.
XidUnchecked(x) == x = (lastXid + 1) % XidSpace

\* The loop of NewCall: the first XID after lastXid that is not in the table.
\* With every XID in the table the code loops forever, holding the lock.
IsNextXid(x) ==
  \E k \in 1 .. XidSpace :
    /\ x = (lastXid + k) % XidSpace
    /\ calls[x] = nil
    /\ \A j \in 1 .. k - 1 : calls[(lastXid + j) % XidSpace] # nil

\* CallPool.Recycle: the object is reset and may be handed out again.
Recycle(objs) ==
  /\ object' = [o \in Objects |-> IF o \in objs THEN EmptyObject ELSE object[o]]
  /\ pool' = pool \cup objs

NewCall(c, s) ==
  /\ c \notin Made
  /\ \E x \in Xids, o \in pool :
       /\ IsNextXid(x)
       /\ lastXid' = x
       /\ calls' = [calls EXCEPT ![x] = o]
       /\ object' = [object EXCEPT ![o] = [cb |-> c, server |-> s]]
       /\ pool' = pool \ {o}
       /\ xidOf' = [xidOf EXCEPT ![c] = x]
  /\ serverOf' = [serverOf EXCEPT ![c] = s]
  /\ order' = Append(order, c)
  /\ busy' = [busy EXCEPT ![c] = {x \in Xids : calls[x] # nil}]
  /\ UNCHANGED <<held, fired, deleted>>

\* Faulty: the object is recycled but its entry stays.
DeleteKeepsEntry(c) ==
  /\ c \in Made \ deleted
  /\ deleted' = deleted \cup {c}
  /\ IF calls[xidOf[c]] # nil
     THEN Recycle({calls[xidOf[c]]})
     ELSE UNCHANGED <<object, pool>>
  /\ UNCHANGED <<calls, lastXid, held, fired, order, xidOf, serverOf, busy>>

\* Faulty: a caller that returns without deleting its call.
DeleteForgotten(c) ==
  /\ c \in Made \ deleted
  /\ deleted' = deleted \cup {c}
  /\ UNCHANGED <<object, pool, calls, lastXid, held, fired, order, xidOf, serverOf, busy>>

\* The maker of a call gives up on it, whatever became of it meanwhile.
Delete(c) ==
  /\ c \in Made \ deleted
  /\ deleted' = deleted \cup {c}
  /\ IF calls[xidOf[c]] # nil
     THEN /\ Recycle({calls[xidOf[c]]})
          /\ calls' = [calls EXCEPT ![xidOf[c]] = nil]
     ELSE UNCHANGED <<object, pool, calls>>
  /\ UNCHANGED <<lastXid, held, fired, order, xidOf, serverOf, busy>>

CancelStat(reason) == IF reason \in {"none", "SUCCESS"} THEN "CANCELED" ELSE reason

\* Cancel makes the callback itself, under the lock.
Cancel(x, reason) ==
  /\ calls[x] # nil
  /\ fired' = [fired EXCEPT ![object[calls[x]].cb] =
                 Append(@, [stat |-> CancelStat(reason), answers |-> nil, from |-> nil])]
  /\ calls' = [calls EXCEPT ![x] = nil]
  /\ Recycle({calls[x]})
  /\ UNCHANGED <<lastXid, held, order, xidOf, serverOf, deleted, busy>>

\* Faulty: the table is dropped without a word to those who wait.
CancelAllSilent ==
  /\ calls' = [x \in Xids |-> nil]
  /\ Recycle({calls[x] : x \in Xids} \ {nil})
  /\ UNCHANGED <<fired, lastXid, held, order, xidOf, serverOf, deleted, busy>>

CancelAll ==
  /\ fired' = [c \in Calls |->
                 IF Pending(c)
                 THEN Append(fired[c], [stat |-> "CANCELED", answers |-> nil, from |-> nil])
                 ELSE fired[c]]
  /\ calls' = [x \in Xids |-> nil]
  /\ Recycle({calls[x] : x \in Xids} \ {nil})
  /\ UNCHANGED <<lastXid, held, order, xidOf, serverOf, deleted, busy>>

\* A REPLY message as it reaches GetReply.  "answers" is the call its sender
\* answered, nil when the sender invented it.
ReplyMsgs ==
  {[xid |-> xidOf[c], server |-> serverOf[c], answers |-> c] : c \in Made}
    \cup [xid : Xids, server : Servers, answers : {nil}]

\* The status GetReply leaves in the message: a SUCCESS whose results do not
\* unmarshal becomes GARBAGE_RET, every other status is the peer's.
ReplyStats == {"SUCCESS", "GARBAGE_RET", "REMOTE_ERR"}

\* Faulty: a reply from any server is taken.
GetReplyAnyServer(m, stat) ==
  /\ calls[m.xid] # nil
  /\ calls' = [calls EXCEPT ![m.xid] = nil]
  /\ held' = [held EXCEPT ![object[calls[m.xid]].cb] =
                Append(@, [stat |-> stat, answers |-> m.answers, from |-> m.server])]
  /\ Recycle({calls[m.xid]})
  /\ UNCHANGED <<lastXid, fired, order, xidOf, serverOf, deleted, busy>>

\* Faulty: the call is looked up and stays in the table.
GetReplyPeeks(m, stat) ==
  /\ calls[m.xid] # nil
  /\ object[calls[m.xid]].server = m.server
  /\ held' = [held EXCEPT ![object[calls[m.xid]].cb] =
                Append(@, [stat |-> stat, answers |-> m.answers, from |-> m.server])]
  /\ UNCHANGED <<calls, object, pool, lastXid, fired, order, xidOf, serverOf, deleted, busy>>

\* A reply is accepted only from the server the call was made to.
GetReply(m, stat) ==
  /\ calls[m.xid] # nil
  /\ object[calls[m.xid]].server = m.server
  /\ calls' = [calls EXCEPT ![m.xid] = nil]
  /\ held' = [held EXCEPT ![object[calls[m.xid]].cb] =
                Append(@, [stat |-> stat, answers |-> m.answers, from |-> m.server])]
  /\ Recycle({calls[m.xid]})
  /\ UNCHANGED <<lastXid, fired, order, xidOf, serverOf, deleted, busy>>

\* cb(msg) in Driver.doMsg, after the lock has been released.
RunCallback(c) ==
  /\ held[c] # <<>>
  /\ fired' = [fired EXCEPT ![c] = Append(@, Head(held[c]))]
  /\ held' = [held EXCEPT ![c] = Tail(@)]
  /\ UNCHANGED <<lastXid, calls, object, pool, order, xidOf, serverOf, deleted, busy>>

Next ==
  \/ \E c \in Calls, s \in Servers : NewCall(c, s)
  \/ \E c \in Calls : Delete(c)
  \/ \E x \in Xids, reason \in {"none", "SUCCESS", "SEND_ERR"} : Cancel(x, reason)
  \/ CancelAll
  \/ \E m \in ReplyMsgs, stat \in ReplyStats : GetReply(m, stat)
  \/ \E c \in Calls : RunCallback(c)

Spec == Init /\ [][Next]_vars

-----------------------------------------------------------------------------
\* Every variable keeps its type.
TypeOK ==
  /\ lastXid \in Xids
  /\ calls \in [Xids -> Objects \cup {nil}]
  /\ object \in [Objects -> [cb : Calls \cup {nil}, server : Servers \cup {nil}]]
  /\ pool \in SUBSET Objects
  /\ held \in [Calls -> Seq(Completions)]
  /\ fired \in [Calls -> Seq(Completions)]
  /\ order \in Seq(Calls)
  /\ xidOf \in [Calls -> Xids \cup {nil}]
  /\ serverOf \in [Calls -> Servers \cup {nil}]
  /\ deleted \in SUBSET Calls
  /\ busy \in [Calls -> SUBSET Xids]

\* A PendingCall is in the pool or in one table entry, never in both and
\* never in two entries: every path that removes an entry (delete, Cancel,
\* CancelAll, GetReply) recycles its object, and exactly once.
ObjectOwnership ==
  /\ \A x \in Xids : calls[x] # nil => calls[x] \notin pool
  /\ \A x, y \in Xids : calls[x] # nil /\ calls[x] = calls[y] => x = y
  /\ \A o \in Objects : o \in pool \/ \E x \in Xids : calls[x] = o

\* The entry at an XID is that of the call whose header carries the XID, with
\* that call's server, and its maker has not deleted it.
TableEntriesMatch ==
  \A x \in Xids : calls[x] # nil =>
    LET c == object[calls[x]].cb IN
      /\ c \in Made \ deleted
      /\ xidOf[c] = x
      /\ object[calls[x]].server = serverOf[c]

\* A callback is made at most once, however GetReply, Cancel, CancelAll and
\* Delete race: SendCall's callback sends on a channel and closes it
\* (driver.go:358-361), and a second run would panic.
CallbackAtMostOnce ==
  \A c \in Calls :
    /\ Len(fired[c]) + Len(held[c]) <= 1
    /\ Pending(c) => held[c] = <<>> /\ fired[c] = <<>>

\* Another call was given the same XID.
SharesXid(c) == \E d \in Made : d # c /\ xidOf[d] = xidOf[c]

\* A call whose maker still waits for it is in the table, or its callback has
\* been made or is about to be.  Only the reuse of its XID by another call can
\* lose it: that call's maker may delete the entry (driver.go:381 and 384).
NoCallLost ==
  \A c \in Made \ deleted :
    Pending(c) \/ held[c] # <<>> \/ fired[c] # <<>> \/ SharesXid(c)

\* What the caller is told came from the server it called, and answers that
\* very call unless another call shares its XID; a pseudo-state never reads
\* as SUCCESS (util.go:144-158, 186-190).
ReplyMatchesCall ==
  \A c \in Calls : \A i \in 1 .. Len(fired[c]) :
    LET r == fired[c][i] IN
      /\ r.stat \in ReplyStats => r.from = serverOf[c]
      /\ r.answers \notin {c, nil} => SharesXid(c)

\* "Delete a pending call without making its callback" (util.go:125): after
\* Delete only a callback that GetReply had already handed out can still run.
NoCallbackAfterDelete ==
  [][\A c \in deleted : held[c] = <<>> => fired'[c] = fired[c]]_vars

\* An XID comes back only after every other XID has been given to a later
\* call, or was in the table when its call was made and so passed over: the
\* search goes on from the last XID given out and does not jump
\* (util.go:105-108).
MadeAfter(c) == {order[j] : j \in {k \in 1 .. Len(order) :
                                     \E i \in 1 .. k - 1 : order[i] = c}}

XidReusedLast ==
  [][\A d \in Made' \ Made : \A c \in Made :
       xidOf'[d] = xidOf[c] =>
         Xids \ {xidOf[c]} \subseteq {xidOf[e] : e \in MadeAfter(c)} \cup busy[c]]_vars
=============================================================================
