---------------------------- MODULE StreamTransport ----------------------------
(***************************************************************************)
(* rpc/transport.go: how a StreamTransport fails.  Its threads (a Driver's *)
(* sender, receiver, closer and request handlers) call Send, Receive,      *)
(* Close and CloseBecause concurrently and share the fields okay and err   *)
(* and the Conn.  okay is accessed with atomic operations, err is not.     *)
(*                                                                         *)
(* One action is one atomic operation or one access to err or to the Conn. *)
(* Send and Receive differ here only in the direction of their I/O, so     *)
(* both are the operation "io"; what they move is in RecordMarking.        *)
(***************************************************************************)
EXTENDS Integers

CONSTANTS Threads, Errors, nil

ASSUME TransportAssumption == nil \notin Errors

VARIABLES okay,      \* tx.okay: 1 = okay, 0 = failed, -1 = failing
          err,       \* tx.err
          connOpen,  \* whether tx.Conn has not been closed
          closes,    \* how many times tx.Conn.Close has been called
          pc,        \* where each thread is
          op,        \* the operation it is in, "io" or "close"
          arg,       \* the error it passes to fail()
          entry,     \* why the transport was down when the operation started
          ret        \* what its latest Send or Receive returned

vars == <<okay, err, connOpen, closes, pc, op, arg, entry, ret>>

\* The thread that won the compare-and-swap is in one of these.
Failing == {"write", "close", "store"}

\* The transport goes down with the compare-and-swap: from there on the reason
\* is the winner's argument, even before the winner has stored it.
Down ==
  IF okay = 1 THEN nil
  ELSE IF \E t \in Threads : pc[t] = "write"
       THEN arg[CHOOSE t \in Threads : pc[t] = "write"]
       ELSE err

Init ==
  /\ okay = 1
  /\ err = nil
  /\ connOpen = TRUE
  /\ closes = 0
  /\ pc = [t \in Threads |-> "idle"]
  /\ op = [t \in Threads |-> "io"]
  /\ arg = [t \in Threads |-> nil]
  /\ entry = [t \in Threads |-> nil]
  /\ ret = [t \in Threads |-> nil]

CallIO(t) ==
  /\ pc[t] = "idle"
  /\ pc' = [pc EXCEPT ![t] = "load"]
  /\ op' = [op EXCEPT ![t] = "io"]
  /\ entry' = [entry EXCEPT ![t] = Down]
  /\ UNCHANGED <<okay, err, connOpen, closes, arg, ret>>

\* Close() and CloseBecause(e) are fail(e).
CallClose(t, e) ==
  /\ pc[t] = "idle"
  /\ pc' = [pc EXCEPT ![t] = "cas"]
  /\ op' = [op EXCEPT ![t] = "close"]
  /\ arg' = [arg EXCEPT ![t] = e]
  /\ entry' = [entry EXCEPT ![t] = Down]
  /\ UNCHANGED <<okay, err, connOpen, closes, ret>>

\* Faulty: -1 is taken for failed.
LoadNoSpin(t) ==
  /\ pc[t] = "load"
  /\ pc' = [pc EXCEPT ![t] = IF okay # 1 THEN "read" ELSE "io"]
  /\ UNCHANGED <<okay, err, connOpen, closes, op, arg, entry, ret>>

\* failed(): spins while another thread is failing the transport.
Load(t) ==
  /\ pc[t] = "load"
  /\ okay # -1
  /\ pc' = [pc EXCEPT ![t] = IF okay = 0 THEN "read" ELSE "io"]
  /\ UNCHANGED <<okay, err, connOpen, closes, op, arg, entry, ret>>

\* "return tx.err" once failed() has returned true.
ReadErr(t) ==
  /\ pc[t] = "read"
  /\ pc' = [pc EXCEPT ![t] = "idle"]
  /\ ret' = [ret EXCEPT ![t] = err]
  /\ UNCHANGED <<okay, err, connOpen, closes, op, arg, entry>>

IOSucceeds(t) ==
  /\ pc[t] = "io"
  /\ connOpen
  /\ pc' = [pc EXCEPT ![t] = "idle"]
  /\ ret' = [ret EXCEPT ![t] = nil]
  /\ UNCHANGED <<okay, err, connOpen, closes, op, arg, entry>>

\* The Conn reports an error, or the bytes are not a record; a closed Conn
\* gives no other outcome.
IOFails(t, e) ==
  /\ pc[t] = "io"
  /\ pc' = [pc EXCEPT ![t] = "cas"]
  /\ arg' = [arg EXCEPT ![t] = e]
  /\ UNCHANGED <<okay, err, connOpen, closes, op, entry, ret>>

\* The end of an operation that ran fail(): Send and Receive return the error
\* they passed to it, whoever won the compare-and-swap; Close returns nothing.
Finish(t) ==
  /\ pc' = [pc EXCEPT ![t] = "idle"]
  /\ ret' = IF op[t] = "io" THEN [ret EXCEPT ![t] = arg[t]] ELSE ret

\* Faulty: a store instead of the compare-and-swap.
CasUnconditional(t) ==
  /\ pc[t] = "cas"
  /\ okay' = -1
  /\ pc' = [pc EXCEPT ![t] = "write"]
  /\ UNCHANGED <<err, connOpen, closes, op, arg, entry, ret>>

\* Faulty: the transport is marked failed before err is stored.
CasMarksFailed(t) ==
  /\ pc[t] = "cas"
  /\ IF okay = 1
     THEN /\ okay' = 0
          /\ pc' = [pc EXCEPT ![t] = "write"]
          /\ UNCHANGED ret
     ELSE Finish(t) /\ UNCHANGED okay
  /\ UNCHANGED <<err, connOpen, closes, op, arg, entry>>

Cas(t) ==
  /\ pc[t] = "cas"
  /\ IF okay = 1
     THEN /\ okay' = -1
          /\ pc' = [pc EXCEPT ![t] = "write"]
          /\ UNCHANGED ret
     ELSE /\ Finish(t)
          /\ UNCHANGED okay
  /\ UNCHANGED <<err, connOpen, closes, op, arg, entry>>

WriteErr(t) ==
  /\ pc[t] = "write"
  /\ err' = arg[t]
  /\ pc' = [pc EXCEPT ![t] = "close"]
  /\ UNCHANGED <<okay, connOpen, closes, op, arg, entry, ret>>

CloseConn(t) ==
  /\ pc[t] = "close"
  /\ connOpen' = FALSE
  /\ closes' = closes + 1
  /\ pc' = [pc EXCEPT ![t] = "store"]
  /\ UNCHANGED <<okay, err, op, arg, entry, ret>>

\* Faulty: fail() returns without the last store.
StoreForgotten(t) ==
  /\ pc[t] = "store"
  /\ Finish(t)
  /\ UNCHANGED <<okay, err, connOpen, closes, op, arg, entry>>

Store(t) ==
  /\ pc[t] = "store"
  /\ okay' = 0
  /\ Finish(t)
  /\ UNCHANGED <<err, connOpen, closes, op, arg, entry>>

Next ==
  \E t \in Threads :
    \/ CallIO(t)
    \/ \E e \in Errors : CallClose(t, e)
    \/ Load(t)
    \/ ReadErr(t)
    \/ IOSucceeds(t)
    \/ \E e \in Errors : IOFails(t, e)
    \/ Cas(t)
    \/ WriteErr(t)
    \/ CloseConn(t)
    \/ Store(t)

\* A running thread is scheduled again and again; I/O on a closed Conn returns.
\* Nothing is assumed of I/O on an open one, which may block for ever.
Fairness ==
  \A t \in Threads :
    /\ WF_vars(Load(t) \/ ReadErr(t) \/ Cas(t) \/ WriteErr(t) \/ CloseConn(t) \/ Store(t))
    /\ WF_vars(~connOpen /\ \E e \in Errors : IOFails(t, e))

Spec == Init /\ [][Next]_vars

FairSpec == Spec /\ Fairness

-----------------------------------------------------------------------------
\* Every variable keeps its type.
TypeOK ==
  /\ okay \in {1, 0, -1}
  /\ err \in Errors \cup {nil}
  /\ connOpen \in BOOLEAN
  /\ closes \in Nat
  /\ pc \in [Threads -> {"idle", "load", "read", "io", "cas"} \cup Failing]
  /\ op \in [Threads -> {"io", "close"}]
  /\ arg \in [Threads -> Errors \cup {nil}]
  /\ entry \in [Threads -> Errors \cup {nil}]
  /\ ret \in [Threads -> Errors \cup {nil}]

\* err is read only when no thread can write it, and is written by one thread:
\* the claim of the comment at transport.go:54-58.
NoRaceOnErr ==
  \A t \in Threads :
    /\ pc[t] = "read" => \A u \in Threads : pc[u] # "write"
    /\ pc[t] \in Failing => okay = -1 /\ \A u \in Threads \ {t} : pc[u] \notin Failing

\* The Conn is closed once, and is closed whenever the transport says it has
\* failed: "Subsequent calls to Close() have no effect" (transport.go:121-122).
ClosedOnce ==
  /\ closes <= 1
  /\ okay = 0 => closes = 1 /\ ~connOpen

\* The threads together behave like an atomic transport: in particular an
\* operation that starts after the transport went down returns the reason and
\* never a nil error, which Send's caller would take for a message sent.
Atomic == INSTANCE AtomicTransport WITH
  down <- Down,
  busy <- {t \in Threads : pc[t] # "idle"}

ImplementsAtomic == Atomic!Spec

\* Once the transport is failing, every thread in an operation comes out of it:
\* nobody spins in failed() or waits on the Conn for ever.
EveryoneReturns ==
  \A t \in Threads : okay # 1 /\ pc[t] # "idle" ~> pc[t] = "idle"
=============================================================================
