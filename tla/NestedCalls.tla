----------------------------- MODULE NestedCalls -----------------------------
(***************************************************************************)
(* Service routines that make calls of their own: drivers joined in pairs, *)
(* at both ends of which calls are served (rpc/driver.go).  A routine runs *)
(* under the Lock of its driver unless that is nil, and waits in SendCall  *)
(* for the routine of its nested call.  Drivers may share a Lock.          *)
(*                                                                         *)
(* Queues, XIDs and messages are left to Driver: a call that was made, and *)
(* a reply, arrives as long as neither end is closed.                      *)
(***************************************************************************)
EXTENDS Integers, FiniteSets

CONSTANTS Calls,
          Drivers,
          Peer,        \* the driver at the other end
          Server,      \* for each call, the driver that serves it
          Parent,      \* the call whose routine makes it, or nil: a user does
          LockChoices, \* functions from drivers to their Lock, or nil
          nil

Locks == UNION {{l[d] : d \in Drivers} : l \in LockChoices} \ {nil}

ASSUME NestedAssumption ==
  /\ Peer \in [Drivers -> Drivers]
  /\ \A d \in Drivers : Peer[d] # d /\ Peer[Peer[d]] = d
  /\ Server \in [Calls -> Drivers]
  /\ Parent \in [Calls -> Calls \cup {nil}]
  /\ \A l \in LockChoices : DOMAIN l = Drivers
  /\ nil \notin Calls

VARIABLES
  lock,     \* the field Lock of each driver
  holder,   \* the call whose routine holds each of them
  caller,   \* SendCall: "idle", "wait" or "returned"
  routine,  \* doMsg: "none", "lock" (in mkUnlocker), "do" or "exited"
  replied,  \* the calls with a reply on its way
  closed    \* the drivers whose context is done

vars == <<lock, holder, caller, routine, replied, closed>>

Init ==
  /\ lock \in LockChoices
  /\ holder = [l \in Locks |-> nil]
  /\ caller = [c \in Calls |-> "idle"]
  /\ routine = [c \in Calls |-> "none"]
  /\ replied = {}
  /\ closed = {}

\* The driver that a call is made through.
Client(c) == Peer[Server[c]]

\* The calls that the routine of p waits for.
Nested(p) == {c \in Calls : Parent[c] = p /\ caller[c] = "wait"}

Holds(c) == lock[Server[c]] # nil /\ holder[lock[Server[c]]] = c

\* The unlock function of mkUnlocker, which works once.
Unlock(c) == holder' = [l \in Locks |-> IF holder[l] = c THEN nil ELSE holder[l]]

-----------------------------------------------------------------------------
\* SendCall, up to its second select.  A routine makes one call at a time.
SendCall(c) ==
  /\ caller[c] = "idle"
  /\ Parent[c] # nil => routine[Parent[c]] = "do" /\ Nested(Parent[c]) = {}
  /\ caller' = [caller EXCEPT ![c] = "wait"]
  /\ UNCHANGED <<lock, holder, routine, replied, closed>>

\* The loop starts doMsg, which finds a call and a procedure for it.
Arrive(c) ==
  /\ caller[c] # "idle" /\ routine[c] = "none"
  /\ Server[c] \notin closed
  /\ routine' = [routine EXCEPT ![c] = "lock"]
  /\ UNCHANGED <<lock, holder, caller, replied, closed>>

\* mkUnlocker, then proc.Do.
TakeLock(c) ==
  /\ routine[c] = "lock"
  /\ \/ lock[Server[c]] = nil /\ UNCHANGED holder
     \/ /\ lock[Server[c]] # nil /\ holder[lock[Server[c]]] = nil
        /\ holder' = [holder EXCEPT ![lock[Server[c]]] = c]
  /\ routine' = [routine EXCEPT ![c] = "do"]
  /\ UNCHANGED <<lock, caller, replied, closed>>

\* The routine calls Detach on its context.
Detach(c) ==
  /\ routine[c] = "do" /\ Nested(c) = {}
  /\ Holds(c)
  /\ Unlock(c)
  /\ UNCHANGED <<lock, caller, routine, replied, closed>>

\* proc.Do returns or panics: unlock, then safeSend, which may also find
\* the driver closed.
Reply(c) ==
  /\ routine[c] = "do" /\ Nested(c) = {}
  /\ Unlock(c)
  /\ routine' = [routine EXCEPT ![c] = "exited"]
  /\ \/ replied' = replied \cup {c}
     \/ Server[c] \in closed /\ UNCHANGED replied
  /\ UNCHANGED <<lock, caller, closed>>

\* Faulty: doMsg takes the lock for a reply, too.
AnsweredUnderLock(c) ==
  /\ caller[c] = "wait" /\ c \in replied
  /\ lock[Client(c)] # nil => holder[lock[Client(c)]] = nil
  /\ caller' = [caller EXCEPT ![c] = "returned"]
  /\ replied' = replied \ {c}
  /\ UNCHANGED <<lock, holder, routine, closed>>

\* doMsg finds the call of a reply and runs its callback, without the Lock.
Answered(c) ==
  /\ caller[c] = "wait" /\ c \in replied
  /\ caller' = [caller EXCEPT ![c] = "returned"]
  /\ replied' = replied \ {c}
  /\ UNCHANGED <<lock, holder, routine, closed>>

\* The select of SendCall sees the driver closed.
Abandoned(c) ==
  /\ caller[c] = "wait"
  /\ Client(c) \in closed
  /\ caller' = [caller EXCEPT ![c] = "returned"]
  /\ UNCHANGED <<lock, holder, routine, replied, closed>>

\* The user closes a driver, or its context ends.
Close(d) ==
  /\ d \notin closed
  /\ closed' = closed \cup {d}
  /\ UNCHANGED <<lock, holder, caller, routine, replied>>

\* The closer has closed the transport; Receive fails at the other end, and
\* its loop cancels the driver.
SeesEnd(d) ==
  /\ d \notin closed /\ Peer[d] \in closed
  /\ closed' = closed \cup {d}
  /\ UNCHANGED <<lock, holder, caller, routine, replied>>

DriverStep(c) ==
  \/ Arrive(c) \/ TakeLock(c) \/ Reply(c) \/ Answered(c) \/ Abandoned(c)

Next ==
  \/ \E c \in Calls : SendCall(c) \/ Detach(c) \/ DriverStep(c)
  \/ \E d \in Drivers : Close(d) \/ SeesEnd(d)

\* Goroutines are scheduled, routines return unless they wait for a call,
\* and the connection delivers.  A call is made once, so that a Mutex that is
\* taken again and again comes free in the end.
Fairness ==
  /\ \A c \in Calls : /\ WF_vars(Arrive(c)) /\ WF_vars(TakeLock(c)) /\ WF_vars(Reply(c))
                      /\ WF_vars(Answered(c) \/ Abandoned(c))
  /\ \A d \in Drivers : WF_vars(SeesEnd(d))

Spec == Init /\ [][Next]_vars /\ Fairness
-----------------------------------------------------------------------------
\* Call p cannot go on before q does: its routine waits for the answer to q,
\* or it waits for the lock that q's routine holds.
BlockedBy(p, q) ==
  \/ routine[p] = "do" /\ q \in Nested(p) /\ Client(q) \notin closed
  \/ routine[p] = "lock" /\ Holds(q) /\ lock[Server[p]] = lock[Server[q]]

Knot == \E S \in SUBSET Calls \ {{}} : \A p \in S : \E q \in S : BlockedBy(p, q)

(***************************************************************************)
(* A call returns, however deep routines call back and forth, unless       *)
(* routines that did not Detach wait for one another's locks; it takes     *)
(* such a knot, since replies are handled without the lock                 *)
(* (driver.go:440-447, 463).  Closing a driver unties it: every routine at *)
(* both ends returns and frees its lock (driver.go:375-382, 474-494).      *)
(***************************************************************************)
CallbacksReturn ==
  /\ \A c \in Calls : caller[c] = "wait" ~> (caller[c] = "returned" \/ Knot)
  /\ \A d \in Drivers : d \in closed ~>
       /\ \A l \in Locks : holder[l] = nil
       /\ \A c \in Calls : caller[c] # "wait" /\ routine[c] \in {"none", "exited"}
=============================================================================
