------------------------------- MODULE MCRpcUtil -------------------------------
(***************************************************************************)
(* What package rpc keeps outside of the driver: the pools of MessagePool, *)
(* with two goroutines and a reader of the meter, and the services of      *)
(* RpcServer.  They share no state, so that a behaviour is one of the      *)
(* pools or one of the services, and the other half stays as it begins.    *)
(***************************************************************************)
EXTENDS MessagePool, RpcServer, TLC

CONSTANTS t1, t2, a1, h1, h2

MCThreads == {t1, t2}
MCArena == {a1}
MCHeap == {h1, h2}

\* They leave a gap: versions below a call's, and above it, may be registered
\* before and after it is made.
MCVersions == {0, 2, 3}

VARIABLE half \* "pools" or "services"

UtilInit ==
  /\ Init /\ SrvInit
  /\ \/ half = "services" /\ kind = "pool"
     \/ half = "pools" /\ request = CHOOSE r \in [Calls -> Requests] : TRUE

OfPools == half = "pools" /\ UNCHANGED <<half, srvVars>>

OfServices == half = "services" /\ UNCHANGED <<half, vars>>

\* The actions of MessagePool!Next.
PoolsNext ==
  \/ \E t \in Threads :
       \/ OfPools /\ ArenaGet(t)
       \/ OfPools /\ PoolGet(t)
       \/ OfPools /\ PoolCount(t)
       \/ OfPools /\ Fill(t)
       \/ OfPools /\ SetReport(t)
       \/ OfPools /\ CancelReport(t)
       \/ \E l \in Latencies : OfPools /\ SetIOLatency(t, l)
       \/ \E u \in Threads : OfPools /\ Pass(t, u)
       \/ OfPools /\ Report(t)
       \/ OfPools /\ Discard(t)
       \/ OfPools /\ ResetOld(t)
       \/ OfPools /\ Put(t)
  \/ OfPools /\ Collect
  \/ OfPools /\ ReadNext
  \/ OfPools /\ Stats
  \/ OfPools /\ Forget

\* The actions of RpcServer!SrvNext.
ServicesNext ==
  \/ \E p \in Progs, v \in Versions, procs \in SUBSET Procs :
       OfServices /\ Register(p, v, procs)
  \/ \E c \in Calls :
       \/ OfServices /\ Call(c)
       \/ OfServices /\ GetProc(c)
       \/ OfServices /\ Do(c)
       \/ OfServices /\ DoPanics(c)
       \/ OfServices /\ GetReply(c)
       \/ OfServices /\ Negotiate(c)

UtilNext == PoolsNext \/ ServicesNext

UtilSpec == UtilInit /\ [][UtilNext]_<<vars, half, srvVars>>

Symmetry == Permutations(MCThreads) \cup Permutations(MCHeap)
=============================================================================
