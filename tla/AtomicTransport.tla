---------------------------- MODULE AtomicTransport ----------------------------
(***************************************************************************)
(* What rpc/transport.go promises of a Transport whose Send, Receive and   *)
(* Close are called by several threads (transport.go:13-31): it is up or   *)
(* down; it goes down once, at one instant, for one reason; an operation   *)
(* that starts when it is down returns that reason.                        *)
(***************************************************************************)
CONSTANTS Threads, Errors, nil

VARIABLES down,   \* why the transport is down, nil while it is up
          busy,   \* the threads inside an operation
          entry,  \* what each thread's latest operation found down to be
          ret     \* what each thread's latest operation returned, nil for no error

vars == <<down, busy, entry, ret>>

Init ==
  /\ down = nil
  /\ busy = {}
  /\ entry = [t \in Threads |-> nil]
  /\ ret = [t \in Threads |-> nil]

Start(t) ==
  /\ t \notin busy
  /\ busy' = busy \cup {t}
  /\ entry' = [entry EXCEPT ![t] = down]
  /\ UNCHANGED <<down, ret>>

GoDown(t, e) ==
  /\ t \in busy
  /\ down = nil
  /\ down' = e
  /\ UNCHANGED <<busy, entry, ret>>

\* A Send or Receive returns.  One that fails leaves the transport down.
ReturnIO(t, r) ==
  /\ t \in busy
  /\ entry[t] # nil => r = entry[t]
  /\ r # nil => down # nil
  /\ busy' = busy \ {t}
  /\ ret' = [ret EXCEPT ![t] = r]
  /\ UNCHANGED <<down, entry>>

ReturnClose(t) ==
  /\ t \in busy
  /\ down # nil
  /\ busy' = busy \ {t}
  /\ UNCHANGED <<down, entry, ret>>

Next ==
  \E t \in Threads :
    \/ Start(t)
    \/ \E e \in Errors : GoDown(t, e)
    \/ \E r \in Errors \cup {nil} : ReturnIO(t, r)
    \/ ReturnClose(t)

Spec == Init /\ [][Next]_vars
=============================================================================
