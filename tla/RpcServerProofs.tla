---------------------------- MODULE RpcServerProofs ----------------------------
(***************************************************************************)
(* Theorems about RpcServer, for any number of calls, programs, versions   *)
(* and procedures.                                                         *)
(***************************************************************************)
EXTENDS RpcServer, TLAPS

\* How far the procedure of a call has come, by its phase and header.
Progress(c) ==
  /\ phase[c] \in {"idle", "sent", "running"} => ran[c] = 0 /\ returned[c] = 0
  /\ phase[c] = "running" => header[c].stat = "SUCCESS"
  /\ phase[c] \in {"replied", "done"} =>
       \/ header[c].stat \in Refusals /\ ran[c] = 0 /\ returned[c] = 0
       \/ header[c].stat = "SYSTEM_ERR" /\ ran[c] = 1 /\ returned[c] = 0
       \/ header[c].stat = "SUCCESS" /\ ran[c] = 1 /\ returned[c] = 1
       \/ header[c].stat = "GARBAGE_RET" /\ phase[c] = "done" /\ returned[c] = 1
  /\ phase[c] = "done" /\ header[c].stat = "SUCCESS" => result[c]

\* A version of the program of the call that is registered.
Registered(c, v) == v \in DOMAIN srvs[request[c].prog]

\* Both ends of a reported range are registered, and stay so.
RangeHolds(c) ==
  phase[c] \in {"replied", "done"} /\ header[c].stat = "PROG_MISMATCH" =>
    /\ request[c].rpcvers = 2
    /\ Registered(c, header[c].low)
    /\ Registered(c, header[c].high)

\* A repeated call asks for a registered version and is not refused for it.
Settled(c) ==
  negotiated[c] =>
    /\ phase[c] # "idle"
    /\ request[c].rpcvers = 2
    /\ Registered(c, request[c].vers)
    /\ phase[c] # "sent" =>
         header[c].stat \notin {"RPC_MISMATCH", "PROG_UNAVAIL", "PROG_MISMATCH"}

CallInv(c) == Progress(c) /\ RangeHolds(c) /\ Settled(c)

IInv == TypeOK /\ \A c \in Calls : CallInv(c)

-----------------------------------------------------------------------------
\* Nothing is registered and nothing called at first.
LEMMA InitInv == SrvInit => IInv
<1> SUFFICES ASSUME SrvInit PROVE IInv
  OBVIOUS
<1>1. TypeOK
  <2>1. [v \in {} |-> {}] \in [{} -> SUBSET Procs]
    OBVIOUS
  <2>2. srvs \in [Progs -> Services]
    BY <2>1 DEF SrvInit, Services
  <2> QED
    BY <2>2 DEF SrvInit, TypeOK, Headers, Ends, Stat
<1>2. \A c \in Calls : CallInv(c)
  BY DEF SrvInit, CallInv, Progress, RangeHolds, Settled
<1> QED
  BY <1>1, <1>2 DEF IInv

\* Registering a version keeps those that are registered.
LEMMA RegisterInv ==
  ASSUME IInv, NEW p \in Progs, NEW v \in Versions, NEW procs \in SUBSET Procs,
         Register(p, v, procs)
  PROVE  IInv'
<1> DEFINE new == [w \in DOMAIN srvs[p] \cup {v} |-> IF w = v THEN procs ELSE srvs[p][w]]
<1>1. srvs[p] \in Services
  BY DEF IInv, TypeOK
<1>2. PICK V \in SUBSET Versions : srvs[p] \in [V -> SUBSET Procs]
  BY <1>1 DEF Services
<1>3. new \in [V \cup {v} -> SUBSET Procs]
  BY <1>2
<1>4. new \in Services
  BY <1>3 DEF Services
<1>5. srvs' = [srvs EXCEPT ![p] = new]
  BY DEF Register
<1>6. \A q \in Progs : DOMAIN srvs[q] \subseteq DOMAIN srvs'[q]
  BY <1>5 DEF IInv, TypeOK
<1>7. TypeOK'
  BY <1>4, <1>5 DEF IInv, TypeOK, Register
<1>8. ASSUME NEW c \in Calls PROVE CallInv(c)'
  <2>1. Progress(c)'
    BY DEF IInv, CallInv, Register, Progress
  <2>2. request[c].prog \in Progs
    BY DEF IInv, TypeOK, Requests
  <2>3. RangeHolds(c)'
    BY <1>6, <2>2 DEF IInv, CallInv, Register, RangeHolds, Registered
  <2>4. Settled(c)'
    BY <1>6, <2>2 DEF IInv, CallInv, Register, Settled, Registered
  <2> QED
    BY <2>1, <2>3, <2>4 DEF CallInv
<1> QED
  BY <1>7, <1>8 DEF IInv

\* What GetProc answers is a header; a range has registered ends.
LEMMA AnswersOK ==
  ASSUME TypeOK, NEW req \in Requests, NEW h \in Answers(req)
  PROVE  /\ h \in Headers
         /\ h.stat \in Refusals \cup {"SUCCESS"}
         /\ h.stat = "PROG_MISMATCH" =>
              /\ req.rpcvers = 2
              /\ h.low \in DOMAIN srvs[req.prog]
              /\ h.high \in DOMAIN srvs[req.prog]
         /\ req.rpcvers = 2 /\ req.vers \in DOMAIN srvs[req.prog] =>
              h.stat \notin {"RPC_MISMATCH", "PROG_UNAVAIL", "PROG_MISMATCH"}
<1> DEFINE V == DOMAIN srvs[req.prog]
<1>1. srvs[req.prog] \in Services
  BY DEF TypeOK, Requests
<1>2. V \subseteq Ends
  BY <1>1 DEF Services, Ends
<1>3. CASE h \in Ranges(V)
  <2>1. PICK low \in V, high \in V :
          h = [stat |-> "PROG_MISMATCH", low |-> low, high |-> high]
    BY <1>3 DEF Ranges
  <2>2. h \in Headers /\ h.stat = "PROG_MISMATCH" /\ h.low \in V /\ h.high \in V
    BY <1>2, <2>1 DEF Headers, Refusals
  <2>3. req.rpcvers = 2 /\ req.vers \notin V
    BY <2>1 DEF Answers, Stat
  <2> QED
    BY <2>2, <2>3 DEF Refusals
<1>4. CASE h \notin Ranges(V)
  <2>1. \/ h = [stat |-> "RPC_MISMATCH", low |-> 2, high |-> 2] /\ req.rpcvers # 2
        \/ h = Stat("PROG_UNAVAIL") /\ V = {}
        \/ h \in {Stat("PROC_UNAVAIL"), Stat("GARBAGE_ARGS"), Stat("SUCCESS")}
    BY <1>4 DEF Answers
  <2> QED
    BY <2>1 DEF Headers, Ends, Refusals, Stat
<1> QED
  BY <1>3, <1>4

\* A step of one call changes no other call, and no registration.
LEMMA OthersKept ==
  ASSUME NEW c \in Calls, NEW d \in Calls, d # c, TypeOK, CallInv(d),
         Call(c) \/ GetProc(c) \/ Do(c) \/ DoPanics(c) \/ GetReply(c) \/ Negotiate(c)
  PROVE  CallInv(d)'
<1>1. srvs' = srvs
  BY DEF Call, GetProc, Do, DoPanics, GetReply, Negotiate
<1>2. /\ phase'[d] = phase[d] /\ request'[d] = request[d] /\ header'[d] = header[d]
      /\ result'[d] = result[d] /\ ran'[d] = ran[d] /\ returned'[d] = returned[d]
      /\ negotiated'[d] = negotiated[d]
  BY DEF TypeOK, Call, GetProc, Do, DoPanics, GetReply, Negotiate
<1> QED
  BY <1>1, <1>2 DEF CallInv, Progress, RangeHolds, Settled, Registered

\* The call leaves for the server.
LEMMA CallStep ==
  ASSUME IInv, NEW c \in Calls, Call(c)
  PROVE  TypeOK' /\ CallInv(c)'
<1>1. TypeOK'
  BY DEF IInv, TypeOK, Call
<1>2. CallInv(c)'
  BY DEF IInv, TypeOK, Call, CallInv, Progress, RangeHolds, Settled, Registered
<1> QED
  BY <1>1, <1>2

\* The server answers, or starts the procedure.
LEMMA GetProcStep ==
  ASSUME IInv, NEW c \in Calls, GetProc(c)
  PROVE  TypeOK' /\ CallInv(c)'
<1>1. PICK h \in Answers(request[c]) :
        /\ header' = [header EXCEPT ![c] = h]
        /\ phase' = [phase EXCEPT ![c] = IF GivesProc(h) THEN "running" ELSE "replied"]
  BY DEF GetProc
<1>2. /\ phase[c] = "sent" /\ srvs' = srvs /\ request' = request /\ result' = result
      /\ ran' = ran /\ returned' = returned /\ negotiated' = negotiated
  BY DEF GetProc
<1>3. request[c] \in Requests /\ TypeOK /\ CallInv(c)
  BY DEF IInv, TypeOK
<1>4. /\ h \in Headers
      /\ h.stat \in Refusals \cup {"SUCCESS"}
      /\ h.stat = "PROG_MISMATCH" =>
           request[c].rpcvers = 2 /\ Registered(c, h.low) /\ Registered(c, h.high)
      /\ request[c].rpcvers = 2 /\ Registered(c, request[c].vers) =>
           h.stat \notin {"RPC_MISMATCH", "PROG_UNAVAIL", "PROG_MISMATCH"}
  BY <1>3, AnswersOK DEF Registered
<1>5. TypeOK'
  BY <1>1, <1>2, <1>3, <1>4 DEF TypeOK
<1>6. header'[c] = h /\ phase'[c] = IF h.stat = "SUCCESS" THEN "running" ELSE "replied"
  BY <1>1, <1>3 DEF TypeOK, GivesProc
<1>7. Progress(c)'
  BY <1>2, <1>3, <1>4, <1>6 DEF CallInv, Progress
<1>8. RangeHolds(c)'
  BY <1>2, <1>4, <1>6 DEF RangeHolds, Registered
<1>9. Settled(c)'
  BY <1>2, <1>3, <1>4, <1>6 DEF CallInv, Settled, Registered
<1> QED
  BY <1>5, <1>7, <1>8, <1>9 DEF CallInv

\* The procedure returns.
LEMMA DoStep ==
  ASSUME IInv, NEW c \in Calls, Do(c)
  PROVE  TypeOK' /\ CallInv(c)'
<1>1. ran[c] = 0 /\ returned[c] = 0 /\ header[c].stat = "SUCCESS"
  BY DEF IInv, CallInv, Progress, Do
<1>2. TypeOK'
  BY <1>1 DEF IInv, TypeOK, Do
<1>3. CallInv(c)'
  BY <1>1 DEF IInv, TypeOK, Do, CallInv, Progress, RangeHolds, Settled, Registered
<1> QED
  BY <1>2, <1>3

\* The procedure panics: its success becomes SYSTEM_ERR.
LEMMA DoPanicsStep ==
  ASSUME IInv, NEW c \in Calls, DoPanics(c)
  PROVE  TypeOK' /\ CallInv(c)'
<1>1. ran[c] = 0 /\ returned[c] = 0 /\ header[c].stat = "SUCCESS"
  BY DEF IInv, CallInv, Progress, DoPanics
<1>2. header' = [header EXCEPT ![c] = Stat("SYSTEM_ERR")]
  BY <1>1 DEF DoPanics, PanicStat
<1>3. TypeOK'
  BY <1>1, <1>2 DEF IInv, TypeOK, DoPanics, Headers, Ends, Stat
<1>4. CallInv(c)'
  BY <1>1, <1>2
     DEF IInv, TypeOK, DoPanics, CallInv, Progress, RangeHolds, Settled, Registered, Stat
<1> QED
  BY <1>3, <1>4

\* The caller takes the reply.
LEMMA GetReplyStep ==
  ASSUME IInv, NEW c \in Calls, GetReply(c)
  PROVE  TypeOK' /\ CallInv(c)'
<1> DEFINE h == IF header[c].stat = "SUCCESS" /\ ~result[c] THEN Stat("GARBAGE_RET")
                ELSE header[c]
<1>1. /\ phase[c] = "replied" /\ phase' = [phase EXCEPT ![c] = "done"]
      /\ header' = [header EXCEPT ![c] = h]
      /\ srvs' = srvs /\ request' = request /\ result' = result
      /\ ran' = ran /\ returned' = returned /\ negotiated' = negotiated
  BY DEF GetReply
<1>2. h \in Headers
  BY DEF IInv, TypeOK, Headers, Ends, Stat
<1>3. TypeOK'
  BY <1>1, <1>2 DEF IInv, TypeOK
<1>4. header'[c] = h /\ phase'[c] = "done"
  BY <1>1 DEF IInv, TypeOK
<1>5. CallInv(c)'
  BY <1>1, <1>4 DEF IInv, CallInv, Progress, RangeHolds, Settled, Registered, Stat, Refusals
<1> QED
  BY <1>3, <1>5

\* The caller repeats a call whose procedure has not run.
LEMMA NegotiateStep ==
  ASSUME IInv, NEW c \in Calls, Negotiate(c)
  PROVE  TypeOK' /\ CallInv(c)'
<1>1. PICK v \in Versions \cap {header[c].low, header[c].high} :
        request' = [request EXCEPT ![c].vers = v]
  BY DEF Negotiate
<1>2. /\ phase[c] = "done" /\ header[c].stat = "PROG_MISMATCH"
      /\ phase' = [phase EXCEPT ![c] = "sent"]
      /\ negotiated' = [negotiated EXCEPT ![c] = TRUE]
      /\ srvs' = srvs /\ header' = header /\ result' = result
      /\ ran' = ran /\ returned' = returned
  BY DEF Negotiate
<1>3. ran[c] = 0 /\ returned[c] = 0
  BY <1>2 DEF IInv, CallInv, Progress
<1>4. request[c].rpcvers = 2 /\ Registered(c, v)
  BY <1>2 DEF IInv, CallInv, RangeHolds
<1>5. TypeOK'
  BY <1>1, <1>2 DEF IInv, TypeOK, Requests
<1>6. /\ request'[c].vers = v /\ request'[c].rpcvers = 2
      /\ request'[c].prog = request[c].prog
  BY <1>1, <1>4 DEF IInv, TypeOK, Requests
<1>7. phase'[c] = "sent"
  BY <1>2 DEF IInv, TypeOK
<1>8. CallInv(c)'
  BY <1>2, <1>3, <1>4, <1>6, <1>7 DEF CallInv, Progress, RangeHolds, Settled, Registered
<1> QED
  BY <1>5, <1>8

\* IInv is inductive.
LEMMA StepInv == IInv /\ [SrvNext]_srvVars => IInv'
<1> SUFFICES ASSUME IInv, [SrvNext]_srvVars PROVE IInv'
  OBVIOUS
<1>1. ASSUME NEW p \in Progs, NEW v \in Versions, NEW procs \in SUBSET Procs,
             Register(p, v, procs)
      PROVE  IInv'
  BY <1>1, RegisterInv
<1>2. ASSUME NEW c \in Calls,
             Call(c) \/ GetProc(c) \/ Do(c) \/ DoPanics(c) \/ GetReply(c) \/ Negotiate(c)
      PROVE  IInv'
  <2>1. TypeOK' /\ CallInv(c)'
    BY <1>2, CallStep, GetProcStep, DoStep, DoPanicsStep, GetReplyStep, NegotiateStep
  <2>2. ASSUME NEW d \in Calls PROVE CallInv(d)'
    <3>1. CASE d = c
      BY <2>1, <3>1
    <3>2. CASE d # c
      BY <1>2, <3>2, OthersKept DEF IInv
    <3> QED
      BY <3>1, <3>2
  <2> QED
    BY <2>1, <2>2 DEF IInv
<1>3. CASE UNCHANGED srvVars
  BY <1>3 DEF srvVars, IInv, TypeOK, CallInv, Progress, RangeHolds, Settled, Registered
<1> QED
  BY <1>1, <1>2, <1>3 DEF SrvNext

\* The inductive invariant holds of every behaviour of the server and its callers.
THEOREM Invariance == SrvSpec => []IInv
<1>1. IInv /\ [SrvNext]_srvVars => IInv'
  BY StepInv
<1> QED
  BY InitInv, <1>1, PTL DEF SrvSpec

\* Type correctness; no procedure is started twice for a call (driver.go:463-495).
THEOREM TypeCorrect == SrvSpec => []TypeOK
<1>1. IInv => TypeOK
  BY DEF IInv
<1> QED
  BY <1>1, Invariance, PTL

\* What a caller is told is what happened (util.go:175-266).
THEOREM StatusIsTruthful == SrvSpec => []StatusTruthful
<1>1. IInv => StatusTruthful
  BY DEF IInv, CallInv, Progress, StatusTruthful, Refusals
<1> QED
  BY <1>1, Invariance, PTL

\* A reported range of versions can be relied on (util.go:245-255).
THEOREM RangesReliable == SrvSpec => []NegotiationSettles
<1>1. IInv => NegotiationSettles
  BY DEF IInv, CallInv, Settled, NegotiationSettles
<1> QED
  BY <1>1, Invariance, PTL
=============================================================================
