------------------------------ MODULE MessagePool ------------------------------
(***************************************************************************)
(* The pools of rpc/msgpool.go, on xdr.Arena and on xdr.Pool, shared by    *)
(* goroutines that take a Message, stamp and pass it on, and recycle it,   *)
(* and the stat.LatencyMeter that a program's report function feeds.       *)
(*                                                                         *)
(* The fields of a Message that matter here hold the number of the use in  *)
(* which they were written, so that what an earlier use left shows.        *)
(***************************************************************************)
EXTENDS Integers, Sequences, FiniteSets

CONSTANTS Threads,
          ArenaObjects, HeapObjects,  \* of the arena's slice; of the heap
          Latencies,
          MaxUses,                    \* NewMessage is called that often
          nil

Objects == ArenaObjects \cup HeapObjects

ASSUME PoolAssumption ==
  /\ IsFiniteSet(ArenaObjects)
  /\ ArenaObjects \cap HeapObjects = {}
  /\ nil \notin Objects
  /\ Latencies \subseteq Nat
  /\ MaxUses \in Nat

VARIABLES
  kind,    \* "arena" or "pool"
  free,    \* Arena.free, or what sync.Pool holds
  numGet, numMiss,
  fields,  \* of each object
  at,      \* where each thread is
  msg,     \* the object it has, or nil
  uses,    \* calls of NewMessage so far
  useOf,   \* for each object, its latest use
  meter,   \* the Counter of the LatencyMeter
  reader,  \* how many of its numbers LatencyMeter.String has read
  seen     \* what it read

poolVars == <<kind, free, numGet, numMiss>>
msgVars == <<fields, at, msg, uses, useOf>>
meterVars == <<meter, reader, seen>>
vars == <<poolVars, msgVars, meterVars>>

Blank == [peer |-> 0, data |-> 0, io |-> 0, stamped |-> 0, report |-> 0]

NoSamples == [first |-> TRUE, min |-> 0, max |-> 0, sum |-> 0, count |-> 0]

IsSeqOf(s, S) ==
  Len(s) = Cardinality(S) /\ {s[i] : i \in 1 .. Len(s)} = S

\* NewMsgArena or NewMsgPool.
Init ==
  /\ \/ kind = "arena" /\ free \in {s \in [1 .. Cardinality(ArenaObjects) -> ArenaObjects] :
                                      IsSeqOf(s, ArenaObjects)}
     \/ kind = "pool" /\ free = <<>>
  /\ numGet = 0 /\ numMiss = 0
  /\ fields = [o \in Objects |-> Blank]
  /\ at = [t \in Threads |-> "idle"]
  /\ msg = [t \in Threads |-> nil]
  /\ uses = 0
  /\ useOf = [o \in Objects |-> 0]
  /\ meter = NoSamples
  /\ reader = 0
  /\ seen = NoSamples

-----------------------------------------------------------------------------
\* Faulty: the latencies stay.
ResetSome(m) == [Blank EXCEPT !.io = m.io, !.stamped = m.stamped]

\* The reset function of both pools.
Reset(m) == Blank

\* An object that neither a goroutine nor the pool has: a new one.
Unused(o) ==
  /\ \A t \in Threads : msg[t] # o
  /\ \A i \in 1 .. Len(free) : free[i] # o

Without(s, i) == SubSeq(s, 1, i - 1) \o SubSeq(s, i + 1, Len(s))

\* Thread t has the object o and writes its Peer, after the reset.
Takes(t, o, place) ==
  /\ uses < MaxUses
  /\ uses' = uses + 1
  /\ msg' = [msg EXCEPT ![t] = o]
  /\ at' = [at EXCEPT ![t] = place]
  /\ useOf' = [useOf EXCEPT ![o] = uses + 1]
  /\ fields' = [fields EXCEPT ![o] = [Reset(@) EXCEPT !.peer = uses + 1]]

\* Arena.Get, which holds the lock throughout.
ArenaGet(t) ==
  /\ kind = "arena" /\ at[t] = "idle"
  /\ \/ /\ free = <<>>
        /\ \E o \in HeapObjects : Unused(o) /\ Takes(t, o, "use")
        /\ numMiss' = numMiss + 1
        /\ UNCHANGED <<free, numGet>>
     \/ /\ free # <<>>
        /\ Takes(t, free[Len(free)], "use")
        /\ free' = Without(free, Len(free))
        /\ numGet' = numGet + 1
        /\ UNCHANGED numMiss
  /\ UNCHANGED <<kind, meterVars>>

\* Pool.Get: sync.Pool may call New even if it holds objects.
PoolGet(t) ==
  /\ kind = "pool" /\ at[t] = "idle"
  /\ \/ /\ \E o \in HeapObjects : Unused(o) /\ Takes(t, o, "count")
        /\ numMiss' = numMiss + 1
        /\ UNCHANGED free
     \/ /\ \E i \in 1 .. Len(free) :
             Takes(t, free[i], "count") /\ free' = Without(free, i)
        /\ UNCHANGED numMiss
  /\ UNCHANGED <<kind, numGet, meterVars>>

\* The end of Pool.Get.
PoolCount(t) ==
  /\ at[t] = "count"
  /\ numGet' = numGet + 1
  /\ at' = [at EXCEPT ![t] = "use"]
  /\ UNCHANGED <<kind, free, numMiss, fields, msg, uses, useOf, meterVars>>

\* The garbage collector empties a sync.Pool as it likes.
Collect ==
  /\ kind = "pool"
  /\ \E i \in 1 .. Len(free) : free' = Without(free, i)
  /\ UNCHANGED <<kind, numGet, numMiss, msgVars, meterVars>>

-----------------------------------------------------------------------------
Write(t, field, value) ==
  /\ at[t] = "use"
  /\ fields' = [fields EXCEPT ![msg[t]] = [@ EXCEPT ![field] = value]]
  /\ UNCHANGED <<poolVars, at, msg, uses, useOf, meterVars>>

\* Serialize, or a Receive that fills the buffer.
Fill(t) == Write(t, "data", useOf[msg[t]])

SetReport(t) == Write(t, "report", useOf[msg[t]])

CancelReport(t) == Write(t, "report", 0)

\* A transport stamps only what it has sent or received whole.
SetIOLatency(t, l) ==
  /\ at[t] = "use"
  /\ fields' = [fields EXCEPT ![msg[t]] = [@ EXCEPT !.io = l, !.stamped = useOf[msg[t]]]]
  /\ UNCHANGED <<poolVars, at, msg, uses, useOf, meterVars>>

\* A queue between two goroutines.
Pass(t, u) ==
  /\ at[t] = "use" /\ at[u] = "idle"
  /\ at' = [at EXCEPT ![t] = "idle", ![u] = "use"]
  /\ msg' = [msg EXCEPT ![t] = nil, ![u] = msg[t]]
  /\ UNCHANGED <<poolVars, fields, uses, useOf, meterVars>>

-----------------------------------------------------------------------------
Smaller(a, b) == IF a < b THEN a ELSE b
Larger(a, b) == IF a < b THEN b ELSE a

\* Counter.Add, under its lock.  The first sample is not summed up.
Add(c, v) ==
  IF c.first
  THEN [first |-> FALSE, min |-> v, max |-> v, sum |-> c.sum, count |-> c.count]
  ELSE [first |-> FALSE, min |-> Smaller(c.min, v), max |-> Larger(c.max, v),
        sum |-> c.sum + v, count |-> c.count + 1]

\* Message.Recycle: first the report, if any.
Report(t) ==
  /\ at[t] = "use"
  /\ at' = [at EXCEPT ![t] = "recycle"]
  /\ meter' = IF fields[msg[t]].report = 0 THEN meter ELSE Add(meter, fields[msg[t]].io)
  /\ UNCHANGED <<poolVars, fields, msg, uses, useOf, reader, seen>>

Leave(t) ==
  /\ at' = [at EXCEPT ![t] = "idle"]
  /\ msg' = [msg EXCEPT ![t] = nil]

\* Faulty: what was made on a miss goes to the free list.
ContainsAny(o) == TRUE

\* The arena knows its objects by their address.
Contains(o) == kind = "pool" \/ o \in ArenaObjects

\* Recycle leaves alone what is not of the arena.
Discard(t) ==
  /\ at[t] = "recycle" /\ ~Contains(msg[t])
  /\ Leave(t)
  /\ UNCHANGED <<poolVars, fields, uses, useOf, meterVars>>

\* Faulty: the object is recycled twice.
PutTwice(t) ==
  /\ at[t] = "recycle" /\ Contains(msg[t])
  /\ free' = Append(free, msg[t])
  /\ at' = [at EXCEPT ![t] = "put"]
  /\ UNCHANGED <<kind, numGet, numMiss, fields, msg, uses, useOf, meterVars>>

\* The reset, before the lock is taken.
ResetOld(t) ==
  /\ at[t] = "recycle" /\ Contains(msg[t])
  /\ fields' = [fields EXCEPT ![msg[t]] = Reset(@)]
  /\ at' = [at EXCEPT ![t] = "put"]
  /\ UNCHANGED <<poolVars, msg, uses, useOf, meterVars>>

Put(t) ==
  /\ at[t] = "put"
  /\ free' = Append(free, msg[t])
  /\ Leave(t)
  /\ UNCHANGED <<kind, numGet, numMiss, fields, uses, useOf, meterVars>>

-----------------------------------------------------------------------------
\* Faulty: the range is read first.
RangeFirst == <<"min", "max", "average">>

\* The order in which String takes the lock of the Counter.
StringOrder == <<"average", "min", "max">>

\* LatencyMeter.String, one number each time; min and max are those at that moment.
ReadNext ==
  /\ reader < Len(StringOrder)
  /\ seen' = CASE StringOrder[reader + 1] = "average" ->
                    [seen EXCEPT !.sum = meter.sum, !.count = meter.count]
               [] StringOrder[reader + 1] = "min" -> [seen EXCEPT !.min = meter.min]
               [] StringOrder[reader + 1] = "max" -> [seen EXCEPT !.max = meter.max]
  /\ reader' = reader + 1
  /\ UNCHANGED <<poolVars, msgVars, meter>>

\* LatencyMeter.Stats, under one lock.
Stats ==
  /\ reader = 0
  /\ seen' = meter
  /\ reader' = Len(StringOrder)
  /\ UNCHANGED <<poolVars, msgVars, meter>>

Forget ==
  /\ reader = Len(StringOrder)
  /\ reader' = 0 /\ seen' = NoSamples
  /\ UNCHANGED <<poolVars, msgVars, meter>>

Next ==
  \/ \E t \in Threads :
       \/ ArenaGet(t) \/ PoolGet(t) \/ PoolCount(t)
       \/ Fill(t) \/ SetReport(t) \/ CancelReport(t)
       \/ \E l \in Latencies : SetIOLatency(t, l)
       \/ \E u \in Threads : Pass(t, u)
       \/ Report(t) \/ Discard(t) \/ ResetOld(t) \/ Put(t)
  \/ Collect
  \/ ReadNext \/ Stats \/ Forget

Spec == Init /\ [][Next]_vars

-----------------------------------------------------------------------------
(***************************************************************************)
(* Both pools give an object to one goroutine at a time, whatever the      *)
(* order of Get, Recycle, misses and the collector (arena.go:32-63,        *)
(* pool.go:26-38).                                                         *)
(***************************************************************************)
Abstract == INSTANCE ObjectPool
  WITH uses <- {<<t, msg[t]>> : t \in {u \in Threads : msg[u] # nil}}

ImplementsPool == Abstract!Spec

(***************************************************************************)
(* What a message holds was written in its present use: its contents, its  *)
(* latencies and its report function are never those of an earlier user    *)
(* (msgpool.go:26-34), although Recycle resets outside of the lock.        *)
(***************************************************************************)
OwnContents ==
  /\ \A t \in Threads :
       at[t] \in {"use", "recycle"} =>
         LET m == fields[msg[t]] use == useOf[msg[t]] IN
           /\ m.peer = use
           /\ {m.data, m.stamped, m.report} \subseteq {0, use}
           /\ m.stamped = 0 => m.io = 0
  /\ \A i \in 1 .. Len(free) : fields[free[i]] = Blank

(***************************************************************************)
(* The arena loses none of its objects and never takes one in twice, so    *)
(* that it misses only when all of them are in use.                        *)
(***************************************************************************)
NothingLost ==
  kind = "arena" =>
    /\ {free[i] : i \in 1 .. Len(free)} =
         ArenaObjects \ {msg[t] : t \in Threads}
    /\ Len(free) = Cardinality({free[i] : i \in 1 .. Len(free)})

(***************************************************************************)
(* The line String prints is consistent: the average lies in the range,    *)
(* although its numbers are read one by one while samples arrive           *)
(* (latency.go:55-58), and although the first sample counts for the range  *)
(* only (counter.go:24-29).  With fewer than two samples there is no       *)
(* average.                                                                *)
(***************************************************************************)
SummaryConsistent ==
  reader = Len(StringOrder) /\ seen.count > 0 =>
    seen.min * seen.count <= seen.sum /\ seen.sum <= seen.max * seen.count
=============================================================================
