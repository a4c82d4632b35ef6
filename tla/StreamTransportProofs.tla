------------------------- MODULE StreamTransportProofs -------------------------
(***************************************************************************)
(* Proofs about StreamTransport for any set of threads and of errors: the  *)
(* protocol on okay keeps err free of races, closes the Conn once and      *)
(* makes the threads' operations an AtomicTransport.                       *)
(***************************************************************************)
EXTENDS StreamTransport, TLAPS

\* Who may be where for each value of okay.
OkayInv ==
  /\ \A t \in Threads : pc[t] = "read" => okay = 0
  /\ \A t \in Threads : pc[t] \in Failing => okay = -1
  /\ \A t, u \in Threads : pc[t] \in Failing /\ pc[u] \in Failing => t = u
  /\ okay = -1 => \E t \in Threads : pc[t] \in Failing

\* The Conn is closed by the step that leads to "store".
ConnInv ==
  /\ okay = 1 => closes = 0 /\ connOpen
  /\ okay = 0 => closes = 1 /\ ~connOpen
  /\ \A t \in Threads : pc[t] \in {"write", "close"} => closes = 0 /\ connOpen
  /\ \A t \in Threads : pc[t] = "store" => closes = 1 /\ ~connOpen

\* There is a reason from the compare-and-swap on, stored when "write" is done.
ErrInv ==
  /\ \A t \in Threads : pc[t] \in {"cas"} \cup Failing => arg[t] \in Errors
  /\ okay = 0 => err \in Errors
  /\ \A t \in Threads : pc[t] \in {"close", "store"} => err = arg[t]

IInv == TypeOK /\ OkayInv /\ ConnInv /\ ErrInv

-----------------------------------------------------------------------------
\* At first the transport is up and no thread is in it.
LEMMA InitInv == Init => IInv
  BY DEF Init, IInv, TypeOK, OkayInv, ConnInv, ErrInv, Failing

\* Every action keeps the types; one step per action.
LEMMA TypeStep == TypeOK /\ [Next]_vars => TypeOK'
<1> USE DEF TypeOK, Failing
<1>1. ASSUME TypeOK, NEW t \in Threads, CallIO(t) PROVE TypeOK'
  <2>1. Down \in Errors \cup {nil}
    BY <1>1 DEF Down
  <2>2. QED
    BY <1>1, <2>1 DEF CallIO
<1>2. ASSUME TypeOK, NEW t \in Threads, NEW e \in Errors, CallClose(t, e) PROVE TypeOK'
  <2>1. Down \in Errors \cup {nil}
    BY <1>2 DEF Down
  <2>2. QED
    BY <1>2, <2>1 DEF CallClose
<1>3. ASSUME TypeOK, NEW t \in Threads, Load(t) PROVE TypeOK'
  BY <1>3 DEF Load
<1>4. ASSUME TypeOK, NEW t \in Threads, ReadErr(t) PROVE TypeOK'
  BY <1>4 DEF ReadErr
<1>5. ASSUME TypeOK, NEW t \in Threads, IOSucceeds(t) PROVE TypeOK'
  BY <1>5 DEF IOSucceeds
<1>6. ASSUME TypeOK, NEW t \in Threads, NEW e \in Errors, IOFails(t, e) PROVE TypeOK'
  BY <1>6 DEF IOFails
<1>7. ASSUME TypeOK, NEW t \in Threads, Cas(t) PROVE TypeOK'
  <2>1. CASE okay = 1
    BY <1>7, <2>1 DEF Cas
  <2>2. CASE okay # 1
    BY <1>7, <2>2 DEF Cas, Finish
  <2>3. QED
    BY <2>1, <2>2
<1>8. ASSUME TypeOK, NEW t \in Threads, WriteErr(t) PROVE TypeOK'
  BY <1>8 DEF WriteErr
<1>9. ASSUME TypeOK, NEW t \in Threads, CloseConn(t) PROVE TypeOK'
  <2>1. closes' \in Nat
    BY <1>9 DEF CloseConn
  <2>2. QED
    BY <1>9, <2>1 DEF CloseConn
<1>10. ASSUME TypeOK, NEW t \in Threads, Store(t) PROVE TypeOK'
  BY <1>10 DEF Store, Finish
<1>11. ASSUME TypeOK, UNCHANGED vars PROVE TypeOK'
  BY <1>11 DEF vars
<1>12. QED
  BY <1>1, <1>2, <1>3, <1>4, <1>5, <1>6, <1>7, <1>8, <1>9, <1>10, <1>11 DEF Next

\* The steps outside fail(): okay, err and the Conn stay as they are, and no
\* thread enters or leaves the part of fail() that only the winner runs.
LEMMA OutsideStep ==
  ASSUME IInv, TypeOK', NEW t \in Threads, pc[t] \notin Failing, pc'[t] \notin Failing,
         UNCHANGED <<okay, err, connOpen, closes>>,
         \A u \in Threads \ {t} : pc'[u] = pc[u] /\ arg'[u] = arg[u],
         pc'[t] = "read" => okay = 0,
         pc'[t] = "cas" => arg'[t] \in Errors
  PROVE  IInv'
<1> USE DEF IInv
<1>1. OkayInv'
  BY DEF OkayInv
<1>2. ConnInv'
  BY DEF ConnInv, Failing
<1>3. ErrInv'
  BY DEF ErrInv, Failing
<1>4. QED
  BY <1>1, <1>2, <1>3

\* A won compare-and-swap makes its thread the one in Failing; a lost one changes
\* nothing but where the thread is.
LEMMA CasStep ==
  ASSUME IInv, TypeOK', NEW t \in Threads, Cas(t)
  PROVE  IInv'
<1> USE DEF IInv
<1>1. /\ pc[t] = "cas" /\ UNCHANGED <<err, connOpen, closes, op, arg, entry>>
      /\ pc \in [Threads -> {"idle", "load", "read", "io", "cas"} \cup Failing]
      /\ arg[t] \in Errors /\ okay \in {1, 0, -1}
  BY DEF Cas, TypeOK, ErrInv
<1>2. CASE okay = 1
  <2>1. okay' = -1 /\ pc' = [pc EXCEPT ![t] = "write"]
    BY <1>2 DEF Cas
  <2>2. \A u \in Threads : pc[u] \notin Failing /\ pc[u] # "read"
    BY <1>2 DEF OkayInv
  <2>3. pc'[t] = "write" /\ \A u \in Threads \ {t} : pc'[u] = pc[u]
    BY <2>1, <1>1
  <2>4. OkayInv'
    BY <2>1, <2>2, <2>3 DEF OkayInv, Failing
  <2>5. ConnInv'
    BY <1>1, <1>2, <2>1, <2>2, <2>3 DEF ConnInv, Failing
  <2>6. ErrInv'
    BY <1>1, <1>2, <2>1, <2>2, <2>3 DEF ErrInv, Failing
  <2>7. QED
    BY <2>4, <2>5, <2>6
<1>3. CASE okay # 1
  <2>1. okay' = okay /\ pc' = [pc EXCEPT ![t] = "idle"]
    BY <1>3 DEF Cas, Finish
  <2>2. QED
    BY <1>1, <2>1, OutsideStep DEF Failing
<1>4. QED
  BY <1>2, <1>3

\* The winner's own steps: it is the only thread in Failing.
LEMMA WinnerStep ==
  ASSUME IInv, TypeOK', NEW t \in Threads, WriteErr(t) \/ CloseConn(t) \/ Store(t)
  PROVE  IInv'
<1> USE DEF IInv
<1>1. /\ pc[t] \in Failing /\ okay = -1
      /\ pc \in [Threads -> {"idle", "load", "read", "io", "cas"} \cup Failing]
      /\ closes \in Nat
      /\ arg[t] \in Errors
  BY DEF WriteErr, CloseConn, Store, Failing, OkayInv, ErrInv, TypeOK
<1>2. \A u \in Threads \ {t} : pc[u] \notin Failing /\ pc[u] # "read"
  BY <1>1 DEF OkayInv
<1>3. CASE WriteErr(t)
  <2>1. /\ pc'[t] = "close" /\ err' = arg[t] /\ \A u \in Threads \ {t} : pc'[u] = pc[u]
        /\ pc[t] = "write" /\ UNCHANGED <<okay, connOpen, closes, arg>>
    BY <1>1, <1>3 DEF WriteErr
  <2>2. OkayInv'
    BY <1>1, <1>2, <2>1 DEF OkayInv, Failing
  <2>3. ConnInv'
    BY <1>1, <1>2, <2>1 DEF ConnInv, Failing
  <2>4. ErrInv'
    BY <1>1, <1>2, <2>1 DEF ErrInv, Failing
  <2>5. QED
    BY <2>2, <2>3, <2>4
<1>4. CASE CloseConn(t)
  <2>1. /\ pc'[t] = "store" /\ ~connOpen' /\ closes' = closes + 1
        /\ \A u \in Threads \ {t} : pc'[u] = pc[u]
        /\ pc[t] = "close" /\ UNCHANGED <<okay, err, arg>>
    BY <1>1, <1>4 DEF CloseConn
  <2>2. OkayInv'
    BY <1>1, <1>2, <2>1 DEF OkayInv, Failing
  <2>3. ConnInv'
    BY <1>1, <1>2, <2>1 DEF ConnInv, Failing
  <2>4. ErrInv'
    BY <1>1, <1>2, <2>1 DEF ErrInv, Failing
  <2>5. QED
    BY <2>2, <2>3, <2>4
<1>5. CASE Store(t)
  <2>1. /\ pc'[t] = "idle" /\ okay' = 0
        /\ \A u \in Threads \ {t} : pc'[u] = pc[u]
        /\ pc[t] = "store" /\ UNCHANGED <<err, connOpen, closes, arg>>
    BY <1>1, <1>5 DEF Store, Finish
  <2>2. OkayInv'
    BY <1>1, <1>2, <2>1 DEF OkayInv, Failing
  <2>3. ConnInv'
    BY <1>1, <1>2, <2>1 DEF ConnInv, Failing
  <2>4. ErrInv'
    BY <1>1, <1>2, <2>1 DEF ErrInv, Failing
  <2>5. QED
    BY <2>2, <2>3, <2>4
<1>6. QED
  BY <1>3, <1>4, <1>5

\* IInv is inductive.
LEMMA StepInv == IInv /\ [Next]_vars => IInv'
<1> SUFFICES ASSUME IInv, [Next]_vars PROVE IInv'
  OBVIOUS
<1>1. TypeOK /\ TypeOK'
  BY TypeStep DEF IInv
<1> USE DEF TypeOK
<1>2. ASSUME NEW t \in Threads, CallIO(t) PROVE IInv'
  BY <1>1, <1>2, OutsideStep DEF CallIO, Failing
<1>3. ASSUME NEW t \in Threads, NEW e \in Errors, CallClose(t, e) PROVE IInv'
  BY <1>1, <1>3, OutsideStep DEF CallClose, Failing
<1>4. ASSUME NEW t \in Threads, Load(t) PROVE IInv'
  BY <1>1, <1>4, OutsideStep DEF Load, Failing
<1>5. ASSUME NEW t \in Threads, ReadErr(t) PROVE IInv'
  BY <1>1, <1>5, OutsideStep DEF ReadErr, Failing
<1>6. ASSUME NEW t \in Threads, IOSucceeds(t) PROVE IInv'
  BY <1>1, <1>6, OutsideStep DEF IOSucceeds, Failing
<1>7. ASSUME NEW t \in Threads, NEW e \in Errors, IOFails(t, e) PROVE IInv'
  BY <1>1, <1>7, OutsideStep DEF IOFails, Failing
<1>8. ASSUME NEW t \in Threads, Cas(t) PROVE IInv'
  BY <1>1, <1>8, CasStep
<1>9. ASSUME NEW t \in Threads, WriteErr(t) \/ CloseConn(t) \/ Store(t) PROVE IInv'
  BY <1>1, <1>9, WinnerStep
<1>10. CASE UNCHANGED vars
  BY <1>10 DEF vars, IInv, OkayInv, ConnInv, ErrInv
<1>11. QED
  BY <1>2, <1>3, <1>4, <1>5, <1>6, <1>7, <1>8, <1>9, <1>10 DEF Next

\* The inductive invariant holds of every behaviour of the transport (transport.go:102-129).
THEOREM Invariance == Spec => []IInv
<1>1. QED
  BY InitInv, StepInv, PTL DEF Spec
-----------------------------------------------------------------------------
\* Type correctness.
THEOREM TypeCorrect == Spec => []TypeOK
<1>1. IInv => TypeOK
  BY DEF IInv
<1>2. QED
  BY <1>1, Invariance, PTL

\* err is never read while it can be written (transport.go:54-58).
THEOREM ErrRaceFree == Spec => []NoRaceOnErr
<1>1. IInv => NoRaceOnErr
  <2> SUFFICES ASSUME IInv, NEW t \in Threads
               PROVE  /\ pc[t] = "read" => \A u \in Threads : pc[u] # "write"
                      /\ pc[t] \in Failing =>
                           okay = -1 /\ \A u \in Threads \ {t} : pc[u] \notin Failing
    BY DEF NoRaceOnErr
  <2>1. "write" \in Failing
    BY DEF Failing
  <2>2. QED
    BY <2>1 DEF IInv, OkayInv
<1>2. QED
  BY <1>1, Invariance, PTL

\* The Conn is closed exactly once on the way to okay = 0 (transport.go:102-108).
THEOREM ConnClosedOnce == Spec => []ClosedOnce
<1>1. IInv => ClosedOnce
  <2> SUFFICES ASSUME IInv PROVE closes <= 1
    BY DEF IInv, ConnInv, ClosedOnce
  <2>1. CASE okay = -1
    <3>1. PICK t \in Threads : pc[t] \in Failing
      BY <2>1 DEF IInv, OkayInv
    <3>2. closes = 0 \/ closes = 1
      BY <3>1 DEF IInv, ConnInv, Failing
    <3>3. QED
      BY <3>2
  <2>2. CASE okay # -1
    BY <2>2 DEF IInv, TypeOK, ConnInv
  <2>3. QED
    BY <2>1, <2>2
<1>2. QED
  BY <1>1, Invariance, PTL

-----------------------------------------------------------------------------
(***************************************************************************)
(* The refinement of AtomicTransport.                                      *)
(***************************************************************************)

\* What an operation may still do, given why the transport was down at its start:
\* one that found it down does no I/O and will return that very reason.
EntryInv ==
  \A t \in Threads :
    /\ pc[t] # "idle" /\ entry[t] # nil => Down = entry[t]
    /\ pc[t] = "io" => entry[t] = nil /\ op[t] = "io"
    /\ pc[t] \in {"cas"} \cup Failing /\ op[t] = "io" => entry[t] = nil
    /\ pc[t] \in {"load", "read"} => op[t] = "io"

\* The value of Down in each phase of a failure.
LEMMA DownValue ==
  ASSUME IInv
  PROVE  /\ okay = 1 <=> Down = nil
         /\ okay = 0 => Down = err
         /\ \A t \in Threads : pc[t] = "write" => Down = arg[t]
         /\ \A t \in Threads : pc[t] \in {"close", "store"} => Down = err
         /\ okay # 1 => Down \in Errors
<1> USE TransportAssumption DEF IInv
<1>1. ASSUME NEW t \in Threads, pc[t] = "write" PROVE Down = arg[t] /\ arg[t] \in Errors
  <2>1. okay # 1 /\ \A u \in Threads : pc[u] = "write" => u = t
    BY <1>1 DEF OkayInv, Failing
  <2>2. (CHOOSE u \in Threads : pc[u] = "write") = t
    BY <1>1, <2>1
  <2>3. QED
    BY <1>1, <2>1, <2>2 DEF Down, ErrInv, Failing
<1>2. ASSUME NEW t \in Threads, pc[t] \in {"close", "store"} PROVE Down = err /\ err \in Errors
  <2>1. okay # 1 /\ \A u \in Threads : pc[u] # "write"
    BY <1>2 DEF OkayInv, Failing
  <2>2. QED
    BY <1>2, <2>1 DEF Down, ErrInv, Failing
<1>3. ASSUME okay = 0 PROVE Down = err /\ err \in Errors
  BY <1>3 DEF Down, OkayInv, ErrInv, Failing
<1>4. ASSUME okay # 1 PROVE Down \in Errors
  <2>1. CASE okay = 0
    BY <2>1, <1>3
  <2>2. CASE okay = -1
    <3>1. PICK t \in Threads : pc[t] \in Failing
      BY <2>2 DEF OkayInv
    <3>2. QED
      BY <3>1, <1>1, <1>2 DEF Failing
  <2>3. QED
    BY <1>4, <2>1, <2>2 DEF TypeOK
<1>5. okay = 1 => Down = nil
  BY DEF Down
<1>6. QED
  BY <1>1, <1>2, <1>3, <1>4, <1>5
\* A step that is not a won compare-and-swap leaves Down as it is.
LEMMA DownStep ==
  ASSUME IInv, IInv', NEW t \in Threads,
         \/ UNCHANGED <<okay, err>> /\ pc[t] \notin Failing /\ pc'[t] \notin Failing
         \/ WriteErr(t) \/ CloseConn(t) \/ Store(t),
         \A u \in Threads \ {t} : pc'[u] = pc[u] /\ arg'[u] = arg[u]
  PROVE  Down' = Down
<1> USE DEF IInv
<1>1. ASSUME WriteErr(t) PROVE Down' = Down
  <2>1. pc[t] = "write" /\ pc'[t] = "close" /\ err' = arg[t] /\ okay' = okay /\ okay # 1
    BY <1>1 DEF WriteErr, TypeOK, OkayInv, Failing
  <2>2. Down = arg[t]
    BY <2>1, DownValue
  <2>3. Down' = err'
    <3>1. \A u \in Threads : pc'[u] # "write"
      BY <2>1 DEF OkayInv, Failing
    <3>2. QED
      BY <2>1, <3>1 DEF Down
  <2>4. QED
    BY <2>1, <2>2, <2>3
<1>2. ASSUME CloseConn(t) PROVE Down' = Down
  <2>1. pc[t] = "close" /\ okay # 1 /\ UNCHANGED <<okay, err>> /\ pc'[t] = "store"
    BY <1>2 DEF CloseConn, TypeOK, OkayInv, Failing
  <2>2. \A u \in Threads : pc[u] # "write" /\ pc'[u] # "write"
    BY <2>1 DEF OkayInv, Failing
  <2>3. QED
    BY <2>1, <2>2 DEF Down
<1>3. ASSUME Store(t) PROVE Down' = Down
  <2>1. pc[t] = "store" /\ okay # 1 /\ okay' = 0 /\ err' = err /\ pc'[t] = "idle"
    BY <1>3 DEF Store, Finish, TypeOK, OkayInv, Failing
  <2>2. \A u \in Threads : pc[u] # "write" /\ pc'[u] # "write"
    BY <2>1 DEF OkayInv, Failing
  <2>3. QED
    BY <2>1, <2>2 DEF Down
<1>4. ASSUME UNCHANGED <<okay, err>>, pc[t] \notin Failing, pc'[t] \notin Failing
      PROVE  Down' = Down
  <2>1. CASE \E u \in Threads : pc[u] = "write"
    <3>1. PICK u \in Threads : pc[u] = "write"
      BY <2>1
    <3>2. u # t /\ pc'[u] = "write" /\ arg'[u] = arg[u] /\ okay # 1
      BY <3>1, <1>4 DEF Failing, OkayInv
    <3>3. (CHOOSE v \in Threads : pc[v] = "write") = u
      BY <3>1 DEF OkayInv, Failing
    <3>4. (CHOOSE v \in Threads : pc'[v] = "write") = u
      BY <3>2 DEF OkayInv, Failing
    <3>5. QED
      BY <1>4, <3>1, <3>2, <3>3, <3>4 DEF Down
  <2>2. CASE \A u \in Threads : pc[u] # "write"
    <3>1. \A u \in Threads : pc'[u] # "write"
      BY <2>2, <1>4 DEF Failing
    <3>2. QED
      BY <1>4, <2>2, <3>1 DEF Down
  <2>3. QED
    BY <2>1, <2>2
<1>5. QED
  BY <1>1, <1>2, <1>3, <1>4

\* The invariant of the refinement, and with it the steps of AtomicTransport.
RInv == IInv /\ EntryInv

\* The initial states are initial states of the atomic transport.
LEMMA InitRInv == Init => RInv /\ Atomic!Init
<1> SUFFICES ASSUME Init PROVE RInv /\ Atomic!Init
  OBVIOUS
<1>1. IInv
  BY InitInv
<1>2. Down = nil
  BY DEF Init, Down
<1>3. EntryInv
  BY DEF Init, EntryInv, Failing
<1>4. Atomic!Init
  BY <1>2 DEF Init, Atomic!Init
<1>5. QED
  BY <1>1, <1>3, <1>4 DEF RInv

\* Every step keeps RInv, and is a step of the atomic transport or a stutter.
LEMMA StepRInv ==
  ASSUME RInv, [Next]_vars
  PROVE  RInv' /\ [Atomic!Next]_Atomic!vars
<1> DEFINE busy == {t \in Threads : pc[t] # "idle"}
<1> USE DEF RInv
<1>1. IInv' /\ TypeOK /\ TypeOK'
  BY StepInv DEF IInv
<1>2. ASSUME NEW t \in Threads, CallIO(t) \/ \E e \in Errors : CallClose(t, e)
      PROVE  EntryInv' /\ Atomic!Start(t)
  <2>1. /\ pc[t] = "idle" /\ UNCHANGED <<okay, err, ret>>
        /\ entry' = [entry EXCEPT ![t] = Down]
        /\ \/ pc'[t] = "load" /\ op'[t] = "io"
           \/ pc'[t] = "cas" /\ op'[t] = "close"
        /\ \A u \in Threads \ {t} : pc'[u] = pc[u] /\ op'[u] = op[u] /\ arg'[u] = arg[u]
    <3>1. CASE CallIO(t)
      BY <1>1, <3>1 DEF CallIO, TypeOK
    <3>2. CASE \E e \in Errors : CallClose(t, e)
      BY <1>1, <3>2 DEF CallClose, TypeOK
    <3>3. QED
      BY <1>2, <3>1, <3>2
  <2>2. Down' = Down
    BY <1>1, <2>1, DownStep DEF Failing
  <2>3. EntryInv'
    BY <1>1, <2>1, <2>2 DEF EntryInv, TypeOK, Failing
  <2>4. busy' = busy \cup {t} /\ t \notin busy
    BY <2>1
  <2>5. QED
    BY <2>1, <2>2, <2>3, <2>4 DEF Atomic!Start
<1>3. ASSUME NEW t \in Threads, Load(t) \/ \E e \in Errors : IOFails(t, e)
      PROVE  EntryInv' /\ UNCHANGED Atomic!vars
  <2>1. /\ pc[t] # "idle" /\ pc'[t] # "idle" /\ UNCHANGED <<okay, err, ret, entry, op>>
        /\ \/ pc[t] = "load" /\ pc'[t] = "read" /\ okay = 0
           \/ pc[t] = "load" /\ pc'[t] = "io" /\ okay = 1
           \/ pc[t] = "io" /\ pc'[t] = "cas"
        /\ \A u \in Threads \ {t} : pc'[u] = pc[u] /\ arg'[u] = arg[u]
    BY <1>1, <1>3 DEF Load, IOFails, TypeOK
  <2>2. Down' = Down
    BY <1>1, <2>1, DownStep DEF Failing
  <2>3. okay = 1 => Down = nil
    BY DownValue
  <2>4. EntryInv'
    BY <2>1, <2>2, <2>3 DEF EntryInv, Failing
  <2>5. busy' = busy
    BY <2>1
  <2>6. QED
    BY <2>1, <2>2, <2>4, <2>5 DEF Atomic!vars
<1>4. ASSUME NEW t \in Threads, ReadErr(t)
      PROVE  EntryInv' /\ \E r \in Errors : Atomic!ReturnIO(t, r)
  <2>1. /\ pc[t] = "read" /\ pc'[t] = "idle" /\ UNCHANGED <<okay, err, arg, entry, op>>
        /\ ret' = [ret EXCEPT ![t] = err] /\ okay = 0
        /\ \A u \in Threads \ {t} : pc'[u] = pc[u]
    BY <1>1, <1>4 DEF ReadErr, TypeOK, IInv, OkayInv
  <2>2. Down' = Down
    BY <1>1, <2>1, DownStep DEF Failing
  <2>3. Down = err /\ err \in Errors
    BY <2>1, DownValue
  <2>4. EntryInv'
    BY <2>1, <2>2 DEF EntryInv, Failing
  <2>5. busy' = busy \ {t} /\ t \in busy
    BY <2>1
  <2>6. entry[t] # nil => err = entry[t]
    BY <2>1, <2>3 DEF EntryInv
  <2>7. PICK r \in Errors : r = err
    BY <2>3
  <2>8. Atomic!ReturnIO(t, r)
    BY <2>1, <2>2, <2>3, <2>5, <2>6, <2>7, TransportAssumption DEF Atomic!ReturnIO
  <2>9. QED
    BY <2>4, <2>8
<1>5. ASSUME NEW t \in Threads, IOSucceeds(t)
      PROVE  EntryInv' /\ Atomic!ReturnIO(t, nil)
  <2>1. /\ pc[t] = "io" /\ pc'[t] = "idle" /\ UNCHANGED <<okay, err, arg, entry, op>>
        /\ ret' = [ret EXCEPT ![t] = nil]
        /\ \A u \in Threads \ {t} : pc'[u] = pc[u]
    BY <1>1, <1>5 DEF IOSucceeds, TypeOK
  <2>2. Down' = Down
    BY <1>1, <2>1, DownStep DEF Failing
  <2>3. EntryInv' /\ entry[t] = nil
    BY <2>1, <2>2 DEF EntryInv, Failing
  <2>4. busy' = busy \ {t} /\ t \in busy
    BY <2>1
  <2>5. QED
    BY <2>1, <2>2, <2>3, <2>4 DEF Atomic!ReturnIO
\* fail() returns: with the transport down, whoever brought it down.
<1>6. ASSUME NEW t \in Threads, pc[t] \in {"cas"} \cup Failing, okay # 1, Finish(t),
             Down' = Down, UNCHANGED <<op, arg, entry>>
      PROVE  EntryInv' /\ (Atomic!ReturnClose(t) \/ \E r \in Errors : Atomic!ReturnIO(t, r))
  <2>1. /\ pc[t] # "idle" /\ pc'[t] = "idle" /\ \A u \in Threads \ {t} : pc'[u] = pc[u]
    BY <1>1, <1>6 DEF Finish, TypeOK, Failing
  <2>2. EntryInv'
    BY <1>6, <2>1 DEF EntryInv, Failing
  <2>3. busy' = busy \ {t} /\ t \in busy
    BY <2>1
  <2>4. arg[t] \in Errors /\ Down \in Errors
    BY <1>6, DownValue DEF IInv, ErrInv
  <2>5. CASE op[t] = "io"
    <3>1. PICK r \in Errors : r = arg[t]
      BY <2>4
    <3>2. ret' = [ret EXCEPT ![t] = r] /\ entry[t] = nil
      BY <1>6, <2>5, <3>1 DEF Finish, EntryInv
    <3>3. Atomic!ReturnIO(t, r)
      BY <1>6, <2>3, <2>4, <3>2, TransportAssumption DEF Atomic!ReturnIO
    <3>4. QED
      BY <2>2, <3>3
  <2>6. CASE op[t] # "io"
    <3>1. ret' = ret
      BY <1>6, <2>6 DEF Finish
    <3>2. Atomic!ReturnClose(t)
      BY <1>6, <2>3, <2>4, <3>1, TransportAssumption DEF Atomic!ReturnClose
    <3>3. QED
      BY <2>2, <2>4, <3>2
  <2>7. QED
    BY <2>5, <2>6
<1>7. ASSUME NEW t \in Threads, Cas(t), okay = 1
      PROVE  EntryInv' /\ \E e \in Errors : Atomic!GoDown(t, e)
  <2>1. /\ pc[t] = "cas" /\ pc'[t] = "write" /\ okay' = -1
        /\ UNCHANGED <<ret, arg, entry, op>>
        /\ \A u \in Threads \ {t} : pc'[u] = pc[u]
    BY <1>1, <1>7 DEF Cas, TypeOK
  <2>2. \A u \in Threads : pc[u] # "write"
    BY <1>7 DEF IInv, OkayInv, Failing
  <2>3. (CHOOSE u \in Threads : pc'[u] = "write") = t
    BY <2>1, <2>2
  <2>4. Down' = arg[t] /\ Down = nil /\ arg[t] \in Errors
    <3>1. Down' = arg'[CHOOSE u \in Threads : pc'[u] = "write"]
      BY <2>1 DEF Down
    <3>2. QED
      BY <1>7, <2>1, <2>3, <3>1, DownValue DEF IInv, ErrInv
  <2>5. EntryInv'
    BY <2>1, <2>4 DEF EntryInv, Failing
  <2>6. busy' = busy /\ t \in busy
    BY <2>1
  <2>7. PICK e \in Errors : e = arg[t]
    BY <2>4
  <2>8. Atomic!GoDown(t, e)
    BY <2>1, <2>4, <2>6, <2>7 DEF Atomic!GoDown
  <2>9. QED
    BY <2>5, <2>8
<1>8. ASSUME NEW t \in Threads, Cas(t), okay # 1
      PROVE  EntryInv' /\ (Atomic!ReturnClose(t) \/ \E r \in Errors : Atomic!ReturnIO(t, r))
  <2>1. /\ pc[t] = "cas" /\ Finish(t) /\ UNCHANGED <<okay, err, arg, entry, op>>
    BY <1>8 DEF Cas
  <2>2. pc'[t] = "idle" /\ \A u \in Threads \ {t} : pc'[u] = pc[u]
    BY <1>1, <2>1 DEF Finish, TypeOK
  <2>3. Down' = Down
    BY <1>1, <2>1, <2>2, DownStep DEF Failing
  <2>4. QED
    BY <1>6, <1>8, <2>1, <2>3
<1>9. ASSUME NEW t \in Threads, WriteErr(t) \/ CloseConn(t)
      PROVE  EntryInv' /\ UNCHANGED Atomic!vars
  <2>1. /\ pc[t] \in Failing /\ pc'[t] \in Failing /\ UNCHANGED <<okay, ret, arg, entry, op>>
        /\ \A u \in Threads \ {t} : pc'[u] = pc[u]
    BY <1>1, <1>9 DEF WriteErr, CloseConn, TypeOK, Failing
  <2>2. Down' = Down
    BY <1>1, <1>9, <2>1, DownStep
  <2>3. EntryInv'
    BY <2>1, <2>2 DEF EntryInv, Failing
  <2>4. busy' = busy
    BY <2>1 DEF Failing
  <2>5. QED
    BY <2>1, <2>2, <2>3, <2>4 DEF Atomic!vars
<1>10. ASSUME NEW t \in Threads, Store(t)
       PROVE  EntryInv' /\ (Atomic!ReturnClose(t) \/ \E r \in Errors : Atomic!ReturnIO(t, r))
  <2>1. /\ pc[t] \in Failing /\ Finish(t) /\ UNCHANGED <<arg, entry, op>> /\ okay # 1
    BY <1>10 DEF Store, Failing, IInv, OkayInv
  <2>2. \A u \in Threads \ {t} : pc'[u] = pc[u]
    BY <1>1, <2>1 DEF Finish, TypeOK
  <2>3. Down' = Down
    BY <1>1, <1>10, <2>1, <2>2, DownStep
  <2>4. QED
    BY <1>6, <2>1, <2>3
<1>11. ASSUME UNCHANGED vars PROVE EntryInv' /\ UNCHANGED Atomic!vars
  <2>1. Down' = Down
    BY <1>11 DEF vars, Down
  <2>2. QED
    BY <1>11, <2>1 DEF vars, EntryInv, Atomic!vars
<1>12. CASE Next
  <2>1. PICK t \in Threads :
          \/ CallIO(t) \/ \E e \in Errors : CallClose(t, e)
          \/ Load(t) \/ \E e \in Errors : IOFails(t, e)
          \/ ReadErr(t)
          \/ IOSucceeds(t)
          \/ Cas(t)
          \/ WriteErr(t) \/ CloseConn(t)
          \/ Store(t)
    BY <1>12 DEF Next
  <2>2. /\ EntryInv'
        /\ \/ UNCHANGED Atomic!vars
           \/ Atomic!Start(t)
           \/ \E e \in Errors : Atomic!GoDown(t, e)
           \/ \E r \in Errors \cup {nil} : Atomic!ReturnIO(t, r)
           \/ Atomic!ReturnClose(t)
    BY <2>1, <1>2, <1>3, <1>4, <1>5, <1>7, <1>8, <1>9, <1>10
  <2>3. Atomic!Next \/ UNCHANGED Atomic!vars
    BY <2>2 DEF Atomic!Next
  <2>4. QED
    BY <1>1, <2>2, <2>3
<1>13. QED
  BY <1>1, <1>11, <1>12

\* The threads' operations are those of an atomic transport.
THEOREM Refinement == Spec => ImplementsAtomic
<1>1. QED
  BY InitRInv, StepRInv, PTL DEF Spec, ImplementsAtomic, Atomic!Spec
=============================================================================
