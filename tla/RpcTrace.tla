------------------------------- MODULE RpcTrace -------------------------------
(***************************************************************************)
(* rpc/decode.go and rpc/filerpc.go: an RpcDecoder that is shown the       *)
(* messages between some peers and a server, and ReceiveFile, which reads  *)
(* such messages from a file.                                              *)
(*                                                                         *)
(* A peer has at most one call with an XID under way, and may use the XID  *)
(* again after the reply.  What is recorded may leave messages out, have a *)
(* message twice, or hold one with a damaged header.  A program that uses  *)
(* the decoder leaves its Calls alone, as it is told that the decoder      *)
(* keeps track of them.                                                    *)
(***************************************************************************)
EXTENDS Naturals, FiniteSets

CONSTANTS Peers, Xids,
          Procs,    \* the procedures called
          Catalog,  \* those XdrCatalog knows
          none

VARIABLES
  underway,  \* the calls without a reply: CallKey to procedure
  Calls,     \* the decoder's map from CallKey
  decoded,   \* history: the calls under way that Decode has returned
  last,      \* the latest message decoded and what Decode returned
  panicked,  \* Decode has panicked
  reading    \* ReceiveFile has not returned

vars == <<underway, Calls, decoded, last, panicked, reading>>

CallKey == Peers \X Xids

Init ==
  /\ underway = [k \in CallKey |-> none]
  /\ Calls = [k \in {} |-> none]
  /\ decoded = {}
  /\ last = [kind |-> none, key |-> none, of |-> none, proc |-> none]
  /\ panicked = FALSE
  /\ reading = TRUE

Without(f, k) == [j \in DOMAIN f \ {k} |-> f[j]]

\* Decode of a reply: the type is looked up in Calls, and what is not there is
\* taken for a call, whose body a reply does not have.
DecodeReply(k, readable) ==
  IF k \in DOMAIN Calls
  THEN /\ Calls' = Without(Calls, k)
       /\ last' = [kind |-> "reply", key |-> k, of |-> underway[k],
                   proc |-> IF readable THEN Calls[k] ELSE none]
       /\ UNCHANGED panicked
  ELSE /\ panicked' = TRUE
       /\ last' = [kind |-> "reply", key |-> k, of |-> underway[k], proc |-> none]
       /\ UNCHANGED Calls

\* Decode of a call: its type is that of the catalog, and Calls stays.
DecodeCall(k, p, readable) ==
  /\ last' = [kind |-> "call", key |-> k, of |-> p,
              proc |-> IF p \in Catalog /\ readable THEN p ELSE none]
  /\ UNCHANGED <<Calls, panicked>>

\* A message with a damaged header: Decode returns nothing, and ReceiveFile
\* returns, reporting no error.
Damaged ==
  /\ ~panicked
  /\ last' = [kind |-> "bad", key |-> none, of |-> none, proc |-> none]
  /\ reading' = FALSE
  /\ UNCHANGED <<underway, Calls, decoded, panicked>>

\* A peer calls, and the call is recorded or not.
Call(k, p) ==
  /\ ~panicked
  /\ underway[k] = none
  /\ underway' = [underway EXCEPT ![k] = p]
  /\ \/ UNCHANGED <<Calls, decoded, last, panicked>>
     \/ \E readable \in BOOLEAN :
          /\ DecodeCall(k, p, readable)
          /\ decoded' = IF last'.proc = none THEN decoded ELSE decoded \cup {k}
  /\ UNCHANGED reading

\* A call is sent and recorded once more.
Again(k) ==
  /\ ~panicked
  /\ underway[k] # none
  /\ DecodeCall(k, underway[k], TRUE)
  /\ decoded' = IF last'.proc = none THEN decoded ELSE decoded \cup {k}
  /\ UNCHANGED <<underway, reading>>

\* The server replies, and the reply is recorded or not.
Reply(k) ==
  /\ ~panicked
  /\ underway[k] # none
  /\ underway' = [underway EXCEPT ![k] = none]
  /\ \/ UNCHANGED <<Calls, last, panicked>>
     \/ \E readable \in BOOLEAN : DecodeReply(k, readable)
  /\ decoded' = decoded \ {k}
  /\ UNCHANGED reading

Next ==
  \/ Damaged
  \/ \E k \in CallKey : (\E p \in Procs : Call(k, p)) \/ Again(k) \/ Reply(k)

Spec == Init /\ [][Next]_vars

-----------------------------------------------------------------------------
(***************************************************************************)
(* decode.go:21-26: "Reply types are taken from a cache based on the       *)
(* calls."  When the reply to a call that was decoded is decoded, the      *)
(* result is of the procedure called, or nil if it cannot be unmarshalled, *)
(* and Decode returns.                                                     *)
(***************************************************************************)
ReplyTypesCached ==
  [][\A k \in decoded : last' # last /\ last'.kind = "reply" /\ last'.key = k =>
        ~panicked' /\ last'.proc \in {underway[k], none}]_vars
=============================================================================
