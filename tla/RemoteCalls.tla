------------------------------ MODULE RemoteCalls ------------------------------
(***************************************************************************)
(* What rpc/driver.go promises to the two sides that use a Driver: those   *)
(* who make calls with SendCall, and the peer whose requests it serves.    *)
(*                                                                         *)
(* A call returns once, for a reason that is true when it returns.  What   *)
(* is to be sent for it, and for each request the reply, is written to the *)
(* connection once or not at all; an answer is taken in only for a call    *)
(* that has been written, and only once; and the driver drops something it *)
(* has been given to send only as it, its transport or the call ends.      *)
(***************************************************************************)
CONSTANTS Calls,  \* the uses of SendCall
          Reqs,   \* the messages the peer sends unasked
          nil

Parcels == Calls \cup Reqs

VARIABLES stage,    \* where each SendCall is: "idle", "open", "returned" or "panicked"
          result,   \* what it has returned
          mail,     \* the message to be sent for each call, or in reply to each request
          arrived,  \* the calls whose answer, and the requests that, have been read
          ended,    \* the calls whose own context is done
          closed,   \* the driver has been told to stop
          down      \* the transport has failed

vars == <<stage, result, mail, arrived, ended, closed, down>>

Init ==
  /\ stage = [c \in Calls |-> "idle"]
  /\ result = [c \in Calls |-> nil]
  /\ mail = [i \in Parcels |-> "none"]
  /\ arrived = {}
  /\ ended = {}
  /\ closed = FALSE
  /\ down = FALSE

-----------------------------------------------------------------------------
Begin(c) ==
  /\ stage[c] = "idle"
  /\ stage' = [stage EXCEPT ![c] = "open"]
  /\ mail' = [mail EXCEPT ![c] = "kept"]
  /\ UNCHANGED <<result, arrived, ended, closed, down>>

Panic(c) ==
  /\ stage[c] = "idle"
  /\ stage' = [stage EXCEPT ![c] = "panicked"]
  /\ UNCHANGED <<result, mail, arrived, ended, closed, down>>

\* What entitles a call to return r.  One that has not yet handed its message
\* over can only give up.
Entitled(c, r) ==
  \/ r = "REPLIED" /\ mail[c] = "sent" /\ c \in arrived
  \/ r = "SEND_ERR" /\ mail[c] # "kept" /\ down
  \/ r = "CANCELED" /\ mail[c] # "kept" /\ closed
  \/ r = "ErrTransportClosed" /\ closed
  \/ r = "ContextError" /\ c \in ended

\* The call takes back a message it has not handed over.
Return(c, r) ==
  /\ stage[c] = "open"
  /\ Entitled(c, r)
  /\ stage' = [stage EXCEPT ![c] = "returned"]
  /\ result' = [result EXCEPT ![c] = r]
  /\ mail' = IF mail[c] = "kept" THEN [mail EXCEPT ![c] = "dropped"] ELSE mail
  /\ UNCHANGED <<arrived, ended, closed, down>>

ContextEnds(c) ==
  /\ stage[c] = "open"
  /\ c \notin ended
  /\ ended' = ended \cup {c}
  /\ UNCHANGED <<stage, result, mail, arrived, closed, down>>

-----------------------------------------------------------------------------
\* A message is handed over to be sent.
Post(i) ==
  /\ mail[i] = "kept"
  /\ mail' = [mail EXCEPT ![i] = "posted"]
  /\ UNCHANGED <<stage, result, arrived, ended, closed, down>>

Transmit(i) ==
  /\ mail[i] = "posted"
  /\ ~down
  /\ mail' = [mail EXCEPT ![i] = "sent"]
  /\ UNCHANGED <<stage, result, arrived, ended, closed, down>>

\* A message that cannot be written brings the transport down.
Lose(i) ==
  /\ mail[i] = "posted"
  /\ mail' = [mail EXCEPT ![i] = "dropped"]
  /\ down' = TRUE
  /\ UNCHANGED <<stage, result, arrived, ended, closed>>

\* The peer's answer to a call it has been sent.
Answer(c) ==
  /\ mail[c] = "sent"
  /\ ~down
  /\ c \notin arrived
  /\ arrived' = arrived \cup {c}
  /\ UNCHANGED <<stage, result, mail, ended, closed, down>>

\* A request of the peer's: a reply to it is to be sent.
Request(q) ==
  /\ q \notin arrived
  /\ ~down
  /\ arrived' = arrived \cup {q}
  /\ mail' = [mail EXCEPT ![q] = "kept"]
  /\ UNCHANGED <<stage, result, ended, closed, down>>

\* A request goes without a reply only if the driver is stopping, or stops
\* because it cannot read it.
Refuse(q) ==
  /\ mail[q] = "kept"
  /\ mail' = [mail EXCEPT ![q] = "dropped"]
  /\ closed' = TRUE
  /\ UNCHANGED <<stage, result, arrived, ended, down>>

-----------------------------------------------------------------------------
Close ==
  /\ closed' = TRUE
  /\ UNCHANGED <<stage, result, mail, arrived, ended, down>>

GoDown ==
  /\ down' = TRUE
  /\ UNCHANGED <<stage, result, mail, arrived, ended, closed>>

Results == {"REPLIED", "SEND_ERR", "CANCELED", "ErrTransportClosed", "ContextError"}

Next ==
  \/ \E c \in Calls :
       \/ Begin(c) \/ Panic(c) \/ ContextEnds(c) \/ Answer(c)
       \/ \E r \in Results : Return(c, r)
  \/ \E q \in Reqs : Request(q) \/ Refuse(q)
  \/ \E i \in Parcels : Post(i) \/ Transmit(i) \/ Lose(i)
  \/ Close \/ GoDown

Spec == Init /\ [][Next]_vars

-----------------------------------------------------------------------------
(***************************************************************************)
(* What follows: a reply is returned only to a call whose message was      *)
(* written and answered, a call that has returned keeps no message that    *)
(* could still be sent for it behind its back, and a request goes without  *)
(* a reply only if the driver is stopping or its transport has failed.     *)
(***************************************************************************)
Honoured ==
  /\ \A c \in Calls :
       /\ result[c] = "REPLIED" => mail[c] = "sent" /\ c \in arrived
       /\ stage[c] = "returned" => mail[c] \notin {"none", "kept"}
  /\ \A q \in Reqs : mail[q] = "dropped" => closed \/ down

(***************************************************************************)
(* What is sent or dropped is settled, nothing is sent or dropped again;   *)
(* and so is what a call has returned.                                     *)
(***************************************************************************)
Settle ==
  /\ \A i \in Parcels : mail[i] \in {"sent", "dropped"} => mail'[i] = mail[i]
  /\ \A c \in Calls : stage[c] = "returned" =>
       stage'[c] = stage[c] /\ result'[c] = result[c]

Settled == [][Settle]_vars
=============================================================================
