------------------------------- MODULE RpcServer -------------------------------
(***************************************************************************)
(* Which procedure a call reaches, and what its caller is told: Register   *)
(* and GetProc of RpcSrv and GetReply of CallSet (rpc/util.go), with what  *)
(* Driver.doMsg does between them.                                         *)
(*                                                                         *)
(* A call is followed from one end to the other.  Delivery, XIDs and       *)
(* ordering are those of Driver and CallSet and are left out.  Register    *)
(* and GetProc are not synchronized with each other in the code: a program *)
(* must keep them apart, and each is one step here.                        *)
(***************************************************************************)
EXTENDS Integers

CONSTANTS Calls, Progs, Versions, Procs

VARIABLES srvs,       \* program to version to the procedures of its service
          phase,      \* where each call is
          request,    \* what it asks for
          header,     \* its reply: a status, and the range of a mismatch
          result,     \* whether its caller can unmarshal the result
          ran,        \* history: how often its procedure was started
          returned,   \* history: how often its procedure returned
          negotiated  \* history: whether it was repeated after a mismatch

srvVars == <<srvs, phase, request, header, result, ran, returned, negotiated>>

\* The version of the RPC protocol, and another.
RpcVersions == {2, 3}

\* good: the arguments can be unmarshalled as those of the procedure.
Requests ==
  [rpcvers : RpcVersions, prog : Progs, vers : Versions, proc : Procs, good : BOOLEAN]

Refusals ==
  {"RPC_MISMATCH", "PROG_UNAVAIL", "PROG_MISMATCH", "PROC_UNAVAIL", "GARBAGE_ARGS"}

\* The numbers in a range: 2 for that of the protocol, 0 where there is none.
Ends == Versions \cup {0, 2}

Headers ==
  [stat : Refusals \cup {"SUCCESS", "SYSTEM_ERR", "GARBAGE_RET"}, low : Ends, high : Ends]

\* A header without a range.
Stat(stat) == [stat |-> stat, low |-> 0, high |-> 0]

\* A program is in the map when some version of it is.
Services == UNION {[V -> SUBSET Procs] : V \in SUBSET Versions}

-----------------------------------------------------------------------------
SrvInit ==
  /\ srvs = [p \in Progs |-> [v \in {} |-> {}]]
  /\ phase = [c \in Calls |-> "idle"]
  /\ request \in [Calls -> Requests]
  /\ header = [c \in Calls |-> Stat("SUCCESS")]
  /\ result = [c \in Calls |-> TRUE]
  /\ ran = [c \in Calls |-> 0]
  /\ returned = [c \in Calls |-> 0]
  /\ negotiated = [c \in Calls |-> FALSE]

\* Faulty: a new map for every version.
RegisterAlone(p, v, procs) ==
  /\ srvs' = [srvs EXCEPT ![p] = [w \in {v} |-> procs]]
  /\ UNCHANGED <<phase, request, header, result, ran, returned, negotiated>>

\* Another service at the same version is replaced.
Register(p, v, procs) ==
  /\ srvs' = [srvs EXCEPT ![p] =
                [w \in DOMAIN srvs[p] \cup {v} |-> IF w = v THEN procs ELSE srvs[p][w]]]
  /\ UNCHANGED <<phase, request, header, result, ran, returned, negotiated>>

\* The call is on its way to the server.
Call(c) ==
  /\ phase[c] = "idle"
  /\ phase' = [phase EXCEPT ![c] = "sent"]
  /\ UNCHANGED <<srvs, request, header, result, ran, returned, negotiated>>

\* The loop over the versions of a program: the range from lowest to highest.
Ranges(V) ==
  {[stat |-> "PROG_MISMATCH", low |-> low, high |-> high] :
     low \in {v \in V : \A w \in V : v <= w}, high \in {v \in V : \A w \in V : w <= v}}

\* The header GetProc makes: the conditions in the order in which it tests them.
Answers(req) ==
  LET prog == srvs[req.prog] IN
    IF req.rpcvers # 2 THEN {[stat |-> "RPC_MISMATCH", low |-> 2, high |-> 2]}
    ELSE IF DOMAIN prog = {} THEN {Stat("PROG_UNAVAIL")}
    ELSE IF req.vers \notin DOMAIN prog THEN Ranges(DOMAIN prog)
    ELSE IF req.proc \notin prog[req.vers] THEN {Stat("PROC_UNAVAIL")}
    ELSE IF ~req.good THEN {Stat("GARBAGE_ARGS")}
    ELSE {Stat("SUCCESS")}

\* Faulty: the procedure is kept when its arguments were garbage.
GivesProcAnyway(h) == h.stat \in {"SUCCESS", "GARBAGE_ARGS"}

\* Whether GetProc returns a procedure beside the header.
GivesProc(h) == h.stat = "SUCCESS"

GetProc(c) ==
  /\ phase[c] = "sent"
  /\ \E h \in Answers(request[c]) :
       /\ header' = [header EXCEPT ![c] = h]
       /\ phase' = [phase EXCEPT ![c] = IF GivesProc(h) THEN "running" ELSE "replied"]
  /\ UNCHANGED <<srvs, request, result, ran, returned, negotiated>>

\* Do returns; whether the caller can read the result depends on both ends.
Do(c) ==
  /\ phase[c] = "running"
  /\ phase' = [phase EXCEPT ![c] = "replied"]
  /\ \E r \in BOOLEAN : result' = [result EXCEPT ![c] = r]
  /\ ran' = [ran EXCEPT ![c] = @ + 1]
  /\ returned' = [returned EXCEPT ![c] = @ + 1]
  /\ UNCHANGED <<srvs, request, header, negotiated>>

\* A success becomes an error after a panic.
PanicStat(h) == IF h.stat = "SUCCESS" THEN Stat("SYSTEM_ERR") ELSE h

\* Do panics, and the deferred function recovers.
DoPanics(c) ==
  /\ phase[c] = "running"
  /\ phase' = [phase EXCEPT ![c] = "replied"]
  /\ header' = [header EXCEPT ![c] = PanicStat(@)]
  /\ ran' = [ran EXCEPT ![c] = @ + 1]
  /\ UNCHANGED <<srvs, request, result, returned, negotiated>>

\* The caller's end: a success whose result cannot be unmarshalled is none.
GetReply(c) ==
  /\ phase[c] = "replied"
  /\ header' = [header EXCEPT ![c] =
                  IF @.stat = "SUCCESS" /\ ~result[c] THEN Stat("GARBAGE_RET") ELSE @]
  /\ phase' = [phase EXCEPT ![c] = "done"]
  /\ UNCHANGED <<srvs, request, result, ran, returned, negotiated>>

\* A caller that was told a range asks again for one of its ends.
Negotiate(c) ==
  /\ phase[c] = "done" /\ header[c].stat = "PROG_MISMATCH"
  /\ \E v \in Versions \cap {header[c].low, header[c].high} :
       request' = [request EXCEPT ![c].vers = v]
  /\ phase' = [phase EXCEPT ![c] = "sent"]
  /\ negotiated' = [negotiated EXCEPT ![c] = TRUE]
  /\ UNCHANGED <<srvs, header, result, ran, returned>>

SrvNext ==
  \/ \E p \in Progs, v \in Versions, procs \in SUBSET Procs : Register(p, v, procs)
  \/ \E c \in Calls : \/ Call(c) \/ GetProc(c) \/ Do(c) \/ DoPanics(c)
                      \/ GetReply(c) \/ Negotiate(c)

SrvSpec == SrvInit /\ [][SrvNext]_srvVars

-----------------------------------------------------------------------------
(***************************************************************************)
(* The types; no procedure is started twice for a call.                    *)
(***************************************************************************)
TypeOK ==
  /\ srvs \in [Progs -> Services]
  /\ phase \in [Calls -> {"idle", "sent", "running", "replied", "done"}]
  /\ request \in [Calls -> Requests]
  /\ header \in [Calls -> Headers]
  /\ result \in [Calls -> BOOLEAN]
  /\ ran \in [Calls -> {0, 1}]
  /\ returned \in [Calls -> {0, 1}]
  /\ negotiated \in [Calls -> BOOLEAN]

(***************************************************************************)
(* What the caller is told is what happened (util.go:175-266, driver.go:   *)
(* 450-493).  After a refusal the procedure has not run, so repeating the  *)
(* call is safe; after SYSTEM_ERR it was started and has not returned;     *)
(* after GARBAGE_RET and success it has returned.                          *)
(***************************************************************************)
StatusTruthful ==
  \A c \in Calls : phase[c] = "done" =>
    CASE header[c].stat \in Refusals     -> ran[c] = 0
      [] header[c].stat = "SYSTEM_ERR"   -> ran[c] = 1 /\ returned[c] = 0
      [] header[c].stat = "GARBAGE_RET"  -> returned[c] = 1
      [] header[c].stat = "SUCCESS"      -> returned[c] = 1 /\ result[c]

(***************************************************************************)
(* A range that was reported can be relied on (util.go:245-255): a call    *)
(* repeated for one of its ends meets that version, whatever is registered *)
(* in between.                                                             *)
(***************************************************************************)
NegotiationSettles ==
  \A c \in Calls : negotiated[c] /\ phase[c] = "done" =>
    header[c].stat \notin {"RPC_MISMATCH", "PROG_UNAVAIL", "PROG_MISMATCH"}
=============================================================================
