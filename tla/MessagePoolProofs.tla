--------------------------- MODULE MessagePoolProofs ---------------------------
(***************************************************************************)
(* Theorems about MessagePool, for any number of goroutines and objects,   *)
(* any latencies and any number of uses.                                   *)
(***************************************************************************)
EXTENDS MessagePool, FiniteSetTheorems, SequenceTheorems, TLAPS

\* A Message, each field with the number of the use that wrote it.
Fields == [peer : Nat, data : Nat, io : Nat, stamped : Nat, report : Nat]

\* The types; a goroutine has an object unless it is idle.
Types ==
  /\ kind \in {"arena", "pool"}
  /\ free \in Seq(Objects)
  /\ at \in [Threads -> {"idle", "count", "use", "recycle", "put"}]
  /\ msg \in [Threads -> Objects \cup {nil}]
  /\ uses \in Nat
  /\ useOf \in [Objects -> Nat]
  /\ fields \in [Objects -> Fields]
  /\ \A t \in Threads : at[t] = "idle" <=> msg[t] = nil

\* An object is with one goroutine, or once in the pool.
Owned ==
  /\ \A t, u \in Threads : msg[t] = msg[u] /\ msg[t] # nil => t = u
  /\ \A t \in Threads : \A i \in 1 .. Len(free) : free[i] # msg[t]
  /\ \A i, j \in 1 .. Len(free) : free[i] = free[j] => i = j

\* Object o holds what its latest use wrote.
Current(o) ==
  /\ useOf[o] # 0
  /\ fields[o].peer = useOf[o]
  /\ fields[o].data \in {0, useOf[o]}
  /\ fields[o].stamped \in {0, useOf[o]}
  /\ fields[o].report \in {0, useOf[o]}
  /\ fields[o].stamped = 0 => fields[o].io = 0

\* From the reset on, until it is used again, an object is blank.
Contents ==
  /\ \A t \in Threads : at[t] \in {"count", "use", "recycle"} => Current(msg[t])
  /\ \A t \in Threads : at[t] = "put" => fields[msg[t]] = Blank
  /\ \A i \in 1 .. Len(free) : fields[free[i]] = Blank

\* The arena holds all of its objects that no goroutine has, and no other.
Complete ==
  /\ \A t \in Threads : at[t] = "put" => Contains(msg[t])
  /\ kind = "arena" =>
       /\ \A i \in 1 .. Len(free) : free[i] \in ArenaObjects
       /\ \A o \in ArenaObjects :
            \/ \E i \in 1 .. Len(free) : free[i] = o
            \/ \E t \in Threads : msg[t] = o

PoolInv == Types /\ Owned /\ Contents /\ Complete

-----------------------------------------------------------------------------
\* Without(s, i) has the elements of s but the i-th, in order.
LEMMA WithoutElements ==
  ASSUME NEW s \in Seq(Objects), NEW i \in 1 .. Len(s)
  PROVE  /\ Without(s, i) \in Seq(Objects)
         /\ Len(Without(s, i)) = Len(s) - 1
         /\ \A j \in 1 .. Len(s) - 1 :
              Without(s, i)[j] = IF j < i THEN s[j] ELSE s[j + 1]
<1> DEFINE a == SubSeq(s, 1, i - 1)
           b == SubSeq(s, i + 1, Len(s))
<1>1. /\ Len(s) \in Nat
      /\ i \in Nat /\ i >= 1 /\ i <= Len(s)
      /\ \A j \in 1 .. Len(s) : s[j] \in Objects
  BY ElementOfSeq, LenProperties
<1>2. /\ a \in Seq(Objects)
      /\ Len(a) = i - 1
      /\ \A j \in 1 .. i - 1 : a[j] = s[j]
  <2>1. \A j \in 1 .. i - 1 : s[j] \in Objects
    BY <1>1
  <2>2. /\ SubSeq(s, 1, i - 1) \in Seq(Objects)
        /\ Len(SubSeq(s, 1, i - 1)) = IF 1 <= i - 1 THEN (i - 1) - 1 + 1 ELSE 0
        /\ \A j \in 1 .. (i - 1) - 1 + 1 : SubSeq(s, 1, i - 1)[j] = s[1 + j - 1]
    <3>1. 1 \in Int /\ i - 1 \in Int
      BY <1>1
    <3> QED
      BY <2>1, <3>1, SubSeqProperties
  <2> QED
    BY <1>1, <2>2
<1>3. /\ b \in Seq(Objects)
      /\ Len(b) = Len(s) - i
      /\ \A j \in 1 .. Len(s) - i : b[j] = s[i + j]
  <2>1. \A j \in i + 1 .. Len(s) : s[j] \in Objects
    BY <1>1
  <2>2. /\ SubSeq(s, i + 1, Len(s)) \in Seq(Objects)
        /\ Len(SubSeq(s, i + 1, Len(s))) = IF i + 1 <= Len(s) THEN Len(s) - (i + 1) + 1 ELSE 0
        /\ \A j \in 1 .. Len(s) - (i + 1) + 1 : SubSeq(s, i + 1, Len(s))[j] = s[(i + 1) + j - 1]
    <3>1. i + 1 \in Int /\ Len(s) \in Int
      BY <1>1
    <3> QED
      BY <2>1, <3>1, SubSeqProperties
  <2> QED
    BY <1>1, <2>2
<1>4. /\ a \o b \in Seq(Objects)
      /\ Len(a \o b) = Len(a) + Len(b)
      /\ \A j \in 1 .. Len(a) + Len(b) :
           (a \o b)[j] = IF j <= Len(a) THEN a[j] ELSE b[j - Len(a)]
  BY <1>2, <1>3, ConcatProperties
<1>5. Without(s, i) = a \o b
  BY DEF Without
<1> HIDE DEF a, b
<1>6. ASSUME NEW j \in 1 .. Len(s) - 1
      PROVE  (a \o b)[j] = IF j < i THEN s[j] ELSE s[j + 1]
  <2>1. CASE j < i
    BY <1>1, <1>2, <1>3, <1>4, <2>1
  <2>2. CASE ~(j < i)
    <3>1. (a \o b)[j] = b[j - (i - 1)]
      BY <1>1, <1>2, <1>3, <1>4, <2>2
    <3>2. j - (i - 1) \in 1 .. Len(s) - i
      BY <1>1, <2>2
    <3>3. b[j - (i - 1)] = s[i + (j - (i - 1))]
      BY <1>3, <3>2
    <3> QED
      BY <1>1, <2>2, <3>1, <3>3
  <2> QED
    BY <2>1, <2>2
<1>7. Len(a \o b) = Len(s) - 1
  BY <1>1, <1>2, <1>3, <1>4
<1> QED
  BY <1>4, <1>5, <1>6, <1>7, Zenon

\* Taking one element out of a sequence without repetitions leaves the
\* others, each once.
LEMMA WithoutOne ==
  ASSUME NEW s \in Seq(Objects), NEW i \in 1 .. Len(s),
         \A j, k \in 1 .. Len(s) : s[j] = s[k] => j = k
  PROVE  /\ Without(s, i) \in Seq(Objects)
         /\ \A j \in 1 .. Len(Without(s, i)) :
              \E k \in 1 .. Len(s) : k # i /\ Without(s, i)[j] = s[k]
         /\ \A j, k \in 1 .. Len(Without(s, i)) :
              Without(s, i)[j] = Without(s, i)[k] => j = k
         /\ \A k \in 1 .. Len(s) :
              k # i => \E j \in 1 .. Len(Without(s, i)) : Without(s, i)[j] = s[k]
<1> DEFINE w == Without(s, i)
<1>1. /\ w \in Seq(Objects)
      /\ Len(w) = Len(s) - 1
      /\ \A j \in 1 .. Len(s) - 1 : w[j] = IF j < i THEN s[j] ELSE s[j + 1]
  BY WithoutElements
<1>2. Len(s) \in Nat /\ i \in Nat /\ i >= 1 /\ i <= Len(s)
  BY LenProperties
<1> HIDE DEF w
<1>3. \A j \in 1 .. Len(w) : \E k \in 1 .. Len(s) : k # i /\ w[j] = s[k]
  <2> TAKE j \in 1 .. Len(w)
  <2>1. CASE j < i
    BY <1>1, <1>2, <2>1
  <2>2. CASE ~(j < i)
    <3>1. j + 1 \in 1 .. Len(s) /\ j + 1 # i /\ w[j] = s[j + 1]
      BY <1>1, <1>2, <2>2
    <3> QED
      BY <3>1
  <2> QED
    BY <2>1, <2>2
<1>4. \A j, k \in 1 .. Len(w) : w[j] = w[k] => j = k
  <2> SUFFICES ASSUME NEW j \in 1 .. Len(w), NEW k \in 1 .. Len(w), w[j] = w[k]
               PROVE  j = k
    OBVIOUS
  <2> DEFINE p == IF j < i THEN j ELSE j + 1
             q == IF k < i THEN k ELSE k + 1
  <2>1. p \in 1 .. Len(s) /\ q \in 1 .. Len(s) /\ w[j] = s[p] /\ w[k] = s[q]
    BY <1>1, <1>2
  <2>2. p = q
    BY <2>1
  <2> QED
    BY <1>1, <1>2, <2>2
<1>5. \A k \in 1 .. Len(s) : k # i => \E j \in 1 .. Len(w) : w[j] = s[k]
  <2> SUFFICES ASSUME NEW k \in 1 .. Len(s), k # i
               PROVE  \E j \in 1 .. Len(w) : w[j] = s[k]
    OBVIOUS
  <2>1. CASE k < i
    BY <1>1, <1>2, <2>1
  <2>2. CASE k > i
    <3>1. k - 1 \in 1 .. Len(w) /\ w[k - 1] = s[(k - 1) + 1] /\ (k - 1) + 1 = k
      BY <1>1, <1>2, <2>2
    <3> QED
      BY <3>1
  <2> QED
    BY <1>2, <2>1, <2>2
<1> QED
  BY <1>1, <1>3, <1>4, <1>5 DEF w

\* A new arena has its objects, each once, since there are as many places.
LEMMA InitPool == Init => PoolInv
<1> SUFFICES ASSUME Init PROVE PoolInv
  OBVIOUS
<1>1. Blank \in Fields
  BY DEF Blank, Fields
<1>2. /\ free \in Seq(Objects)
      /\ \A i, j \in 1 .. Len(free) : free[i] = free[j] => i = j
      /\ kind = "arena" =>
           /\ \A i \in 1 .. Len(free) : free[i] \in ArenaObjects
           /\ \A o \in ArenaObjects : \E i \in 1 .. Len(free) : free[i] = o
  <2>1. CASE kind = "pool" /\ free = <<>>
    BY <2>1, EmptySeq
  <2>2. CASE /\ kind = "arena"
             /\ free \in {s \in [1 .. Cardinality(ArenaObjects) -> ArenaObjects] :
                            IsSeqOf(s, ArenaObjects)}
    <3> DEFINE n == Cardinality(ArenaObjects)
    <3>1. n \in Nat
      BY PoolAssumption, FS_CardinalityType
    <3>2. free \in [1 .. n -> ArenaObjects] /\ IsSeqOf(free, ArenaObjects)
      BY <2>2
    <3>3. Len(free) = n /\ {free[i] : i \in 1 .. Len(free)} = ArenaObjects
      BY <3>2 DEF IsSeqOf
    <3>4. free \in Surjection(1 .. n, ArenaObjects)
      <4>1. \A o \in ArenaObjects : \E i \in 1 .. n : free[i] = o
        BY <3>3
      <4> QED
        BY <3>2, <4>1 DEF Surjection
    <3>5. IsFiniteSet(1 .. n) /\ Cardinality(1 .. n) = n
      BY <3>1, FS_Interval
    <3>6. free \in Injection(1 .. n, ArenaObjects)
      BY <3>4, <3>5, FS_SurjSameCardinalityImpliesInj
    <3>7. \A i, j \in 1 .. n : free[i] = free[j] => i = j
      BY <3>2, <3>6 DEF Injection, IsInjective
    <3>8. free \in Seq(Objects)
      <4>1. free \in [1 .. n -> Objects]
        BY <3>2 DEF Objects
      <4> QED
        BY <3>1, <4>1
    <3>9. \A o \in ArenaObjects : \E i \in 1 .. Len(free) : free[i] = o
      BY <3>3
    <3> HIDE DEF n
    <3> QED
      BY <3>2, <3>3, <3>7, <3>8, <3>9
  <2> QED
    BY <2>1, <2>2 DEF Init
<1>3. /\ at = [t \in Threads |-> "idle"]
      /\ msg = [t \in Threads |-> nil]
      /\ fields = [o \in Objects |-> Blank]
      /\ useOf = [o \in Objects |-> 0]
      /\ uses = 0
      /\ kind \in {"arena", "pool"}
  BY DEF Init
<1>4. \A i \in 1 .. Len(free) : free[i] \in Objects
  BY <1>2, ElementOfSeq
<1>5. Types
  BY <1>1, <1>2, <1>3 DEF Types
<1>6. Owned
  BY <1>2, <1>3, <1>4, PoolAssumption DEF Owned
<1>7. Contents
  BY <1>3, <1>4 DEF Contents
<1>8. Complete
  BY <1>2, <1>3 DEF Complete
<1> QED
  BY <1>5, <1>6, <1>7, <1>8 DEF PoolInv

-----------------------------------------------------------------------------
\* A goroutine takes an object that is in no other hands and no longer in
\* the pool, which keeps the others.
LEMMA TakeStep ==
  ASSUME PoolInv, NEW t \in Threads, NEW o \in Objects, NEW place \in {"count", "use"},
         at[t] = "idle", Takes(t, o, place), kind' = kind,
         \A u \in Threads : msg[u] # o,
         free' \in Seq(Objects),
         \A j \in 1 .. Len(free') : \E k \in 1 .. Len(free) : free'[j] = free[k] /\ free[k] # o,
         \A j, k \in 1 .. Len(free') : free'[j] = free'[k] => j = k,
         kind = "arena" => \A k \in 1 .. Len(free) :
                             free[k] # o => \E j \in 1 .. Len(free') : free'[j] = free[k]
  PROVE  PoolInv'
<1> USE DEF PoolInv
<1>1. /\ uses' = uses + 1 /\ uses \in Nat
      /\ msg' = [msg EXCEPT ![t] = o] /\ msg \in [Threads -> Objects \cup {nil}]
      /\ at' = [at EXCEPT ![t] = place]
      /\ at \in [Threads -> {"idle", "count", "use", "recycle", "put"}]
      /\ useOf' = [useOf EXCEPT ![o] = uses + 1] /\ useOf \in [Objects -> Nat]
      /\ fields \in [Objects -> Fields]
      /\ fields' = [fields EXCEPT ![o] = [Blank EXCEPT !.peer = uses + 1]]
  BY DEF Takes, Types, Reset
<1>2. [Blank EXCEPT !.peer = uses + 1] \in Fields
  <2>1. [Blank EXCEPT !.peer = uses + 1] =
          [peer |-> uses + 1, data |-> 0, io |-> 0, stamped |-> 0, report |-> 0]
    BY DEF Blank
  <2> QED
    BY <1>1, <2>1 DEF Fields
<1>3. o # nil /\ msg[t] = nil
  BY PoolAssumption DEF Types
<1>4. Types'
  BY <1>1, <1>2, <1>3 DEF Types
<1>5. Owned'
  <2>1. ASSUME NEW u \in Threads, NEW i \in 1 .. Len(free') PROVE free'[i] # msg'[u]
    <3>1. PICK k \in 1 .. Len(free) : free'[i] = free[k] /\ free[k] # o
      OBVIOUS
    <3> QED
      BY <1>1, <3>1 DEF Owned
  <2>2. ASSUME NEW u \in Threads, NEW v \in Threads, msg'[u] = msg'[v], msg'[u] # nil
        PROVE  u = v
    BY <1>1, <2>2 DEF Owned
  <2> QED
    BY <2>1, <2>2 DEF Owned
<1>6. Contents'
  <2>1. Current(o)'
    BY <1>1 DEF Current, Blank
  <2>2. ASSUME NEW u \in Threads, u # t, msg[u] # nil
        PROVE  /\ msg'[u] = msg[u] /\ at'[u] = at[u] /\ msg[u] \in Objects
               /\ fields'[msg[u]] = fields[msg[u]] /\ useOf'[msg[u]] = useOf[msg[u]]
    BY <1>1, <2>2
  <2>3. ASSUME NEW u \in Threads, at'[u] \in {"count", "use", "recycle"}
        PROVE  Current(msg[u])'
    <3>1. CASE u = t
      BY <1>1, <2>1, <3>1
    <3>2. CASE u # t
      <4>1. at[u] \in {"count", "use", "recycle"} /\ msg[u] # nil
        BY <1>1, <2>3, <3>2 DEF Types
      <4> QED
        BY <2>2, <3>2, <4>1 DEF Contents, Current
    <3> QED
      BY <3>1, <3>2
  <2>4. ASSUME NEW u \in Threads, at'[u] = "put"
        PROVE  fields'[msg'[u]] = Blank
    <3>1. u # t /\ at[u] = "put" /\ msg[u] # nil
      BY <1>1, <2>4 DEF Types
    <3> QED
      BY <2>2, <3>1 DEF Contents
  <2>5. ASSUME NEW j \in 1 .. Len(free') PROVE fields'[free'[j]] = Blank
    <3>1. PICK k \in 1 .. Len(free) : free'[j] = free[k] /\ free[k] # o
      OBVIOUS
    <3>2. free[k] \in Objects
      BY ElementOfSeq DEF Types
    <3> QED
      BY <1>1, <3>1, <3>2 DEF Contents
  <2> QED
    BY <2>3, <2>4, <2>5 DEF Contents
<1>7. Complete'
  <2>1. ASSUME NEW u \in Threads, at'[u] = "put"
        PROVE  Contains(msg[u])'
    <3>1. u # t /\ at[u] = "put" /\ msg'[u] = msg[u]
      BY <1>1, <2>1
    <3> QED
      BY <3>1 DEF Complete, Contains
  <2>2. ASSUME kind' = "arena", NEW j \in 1 .. Len(free') PROVE free'[j] \in ArenaObjects
    BY <2>2 DEF Complete
  <2>3. ASSUME kind' = "arena", NEW a \in ArenaObjects,
               ~ \E j \in 1 .. Len(free') : free'[j] = a
        PROVE  \E u \in Threads : msg'[u] = a
    <3>1. CASE a = o
      BY <1>1, <3>1
    <3>2. CASE a # o /\ \E k \in 1 .. Len(free) : free[k] = a
      <4>1. PICK k \in 1 .. Len(free) : free[k] = a
        BY <3>2
      <4>2. \E j \in 1 .. Len(free') : free'[j] = free[k]
        BY <2>3, <3>2, <4>1
      <4> QED
        BY <2>3, <4>1, <4>2
    <3>3. CASE a # o /\ \E u \in Threads : msg[u] = a
      <4>1. PICK u \in Threads : msg[u] = a
        BY <3>3
      <4>2. a # nil
        BY PoolAssumption DEF Objects
      <4> QED
        BY <1>1, <1>3, <4>1, <4>2
    <3> QED
      BY <2>3, <3>1, <3>2, <3>3 DEF Complete
  <2> QED
    BY <2>1, <2>2, <2>3 DEF Complete
<1> QED
  BY <1>4, <1>5, <1>6, <1>7

\* The same, of an object of the pool.
LEMMA TakeFreeStep ==
  ASSUME PoolInv, NEW t \in Threads, NEW place \in {"count", "use"}, NEW i \in 1 .. Len(free),
         at[t] = "idle", Takes(t, free[i], place), kind' = kind, free' = Without(free, i)
  PROVE  PoolInv'
<1>1. free \in Seq(Objects)
  BY DEF PoolInv, Types
<1>2. \A j, k \in 1 .. Len(free) : free[j] = free[k] => j = k
  BY DEF PoolInv, Owned
<1>3. /\ free' \in Seq(Objects)
      /\ \A j \in 1 .. Len(free') : \E k \in 1 .. Len(free) : k # i /\ free'[j] = free[k]
      /\ \A j, k \in 1 .. Len(free') : free'[j] = free'[k] => j = k
      /\ \A k \in 1 .. Len(free) :
           k # i => \E j \in 1 .. Len(free') : free'[j] = free[k]
  <2>1. /\ Without(free, i) \in Seq(Objects)
        /\ \A j \in 1 .. Len(Without(free, i)) :
             \E k \in 1 .. Len(free) : k # i /\ Without(free, i)[j] = free[k]
        /\ \A j, k \in 1 .. Len(Without(free, i)) :
             Without(free, i)[j] = Without(free, i)[k] => j = k
        /\ \A k \in 1 .. Len(free) :
             k # i => \E j \in 1 .. Len(Without(free, i)) : Without(free, i)[j] = free[k]
    BY <1>1, <1>2, WithoutOne, Zenon
  <2> QED
    BY <2>1, Zenon
<1>4. free[i] \in Objects
  BY <1>1, ElementOfSeq
<1>5. \A u \in Threads : msg[u] # free[i]
  BY DEF PoolInv, Owned
<1>6. \A k \in 1 .. Len(free) : k # i <=> free[k] # free[i]
  BY <1>2
<1> QED
  BY <1>3, <1>4, <1>5, <1>6, TakeStep

\* Arena.Get: the last of the free objects, or a new one on a miss.
LEMMA ArenaGetStep ==
  ASSUME PoolInv, NEW t \in Threads, ArenaGet(t)
  PROVE  PoolInv'
<1>1. kind' = kind /\ at[t] = "idle" /\ free \in Seq(Objects)
  BY DEF ArenaGet, PoolInv, Types
<1>2. ASSUME NEW o \in HeapObjects, Unused(o), Takes(t, o, "use"), free' = free
      PROVE  PoolInv'
  <2>1. /\ o \in Objects
        /\ \A u \in Threads : msg[u] # o
        /\ \A k \in 1 .. Len(free) : free[k] # o
    BY <1>2 DEF Objects, Unused
  <2>2. \A j, k \in 1 .. Len(free) : free[j] = free[k] => j = k
    BY DEF PoolInv, Owned
  <2> QED
    BY <1>1, <1>2, <2>1, <2>2, TakeStep
<1>3. ASSUME free # <<>>, Takes(t, free[Len(free)], "use"), free' = Without(free, Len(free))
      PROVE  PoolInv'
  <2>1. Len(free) \in 1 .. Len(free)
    BY <1>1, <1>3, EmptySeq, LenProperties
  <2> QED
    BY <1>1, <1>3, <2>1, TakeFreeStep
<1> QED
  BY <1>2, <1>3 DEF ArenaGet

\* Pool.Get: any of the objects, or a new one.
LEMMA PoolGetStep ==
  ASSUME PoolInv, NEW t \in Threads, PoolGet(t)
  PROVE  PoolInv'
<1>1. kind' = kind /\ at[t] = "idle" /\ free \in Seq(Objects)
  BY DEF PoolGet, PoolInv, Types
<1>2. ASSUME NEW o \in HeapObjects, Unused(o), Takes(t, o, "count"), free' = free
      PROVE  PoolInv'
  <2>1. /\ o \in Objects
        /\ \A u \in Threads : msg[u] # o
        /\ \A k \in 1 .. Len(free) : free[k] # o
    BY <1>2 DEF Objects, Unused
  <2>2. \A j, k \in 1 .. Len(free) : free[j] = free[k] => j = k
    BY DEF PoolInv, Owned
  <2> QED
    BY <1>1, <1>2, <2>1, <2>2, TakeStep
<1>3. ASSUME NEW i \in 1 .. Len(free), Takes(t, free[i], "count"), free' = Without(free, i)
      PROVE  PoolInv'
  BY <1>1, <1>3, TakeFreeStep
<1> QED
  BY <1>2, <1>3 DEF PoolGet

-----------------------------------------------------------------------------
\* A goroutine writes the message it has, and nothing else happens.
LEMMA WriteStep ==
  ASSUME PoolInv, NEW t \in Threads, at[t] = "use", NEW m \in Fields,
         fields' = [fields EXCEPT ![msg[t]] = m],
         UNCHANGED <<poolVars, at, msg, uses, useOf>>,
         m.peer = useOf[msg[t]],
         m.data \in {0, useOf[msg[t]]},
         m.stamped \in {0, useOf[msg[t]]},
         m.report \in {0, useOf[msg[t]]},
         m.stamped = 0 => m.io = 0
  PROVE  PoolInv'
<1> USE DEF PoolInv, poolVars
<1>1. /\ msg[t] \in Objects /\ msg[t] # nil
      /\ fields \in [Objects -> Fields]
      /\ Current(msg[t])
  BY DEF Types, Contents
<1>2. Types'
  BY <1>1 DEF Types
<1>3. Owned'
  BY DEF Owned
<1>4. \A o \in Objects : o # msg[t] => fields'[o] = fields[o]
  BY <1>1
<1>5. Contents'
  <2>1. ASSUME NEW u \in Threads, at'[u] \in {"count", "use", "recycle"}
        PROVE  Current(msg[u])'
    <3>1. CASE msg[u] = msg[t]
      <4>1. fields'[msg[u]] = m
        BY <1>1, <3>1
      <4>2. useOf[msg[t]] # 0
        BY <1>1 DEF Current
      <4> QED
        BY <3>1, <4>1, <4>2 DEF Current
    <3>2. CASE msg[u] # msg[t]
      <4>1. msg[u] \in Objects
        BY <2>1 DEF Types
      <4> QED
        BY <1>4, <2>1, <3>2, <4>1 DEF Contents, Current
    <3> QED
      BY <3>1, <3>2
  <2>2. ASSUME NEW u \in Threads, at'[u] = "put" PROVE fields'[msg'[u]] = Blank
    <3>1. u # t /\ msg[u] \in Objects /\ msg[u] # nil
      BY <2>2 DEF Types
    <3>2. msg[u] # msg[t]
      BY <3>1 DEF Owned
    <3> QED
      BY <1>4, <2>2, <3>1, <3>2 DEF Contents
  <2>3. ASSUME NEW j \in 1 .. Len(free') PROVE fields'[free'[j]] = Blank
    <3>1. free[j] \in Objects /\ free[j] # msg[t]
      BY ElementOfSeq DEF Types, Owned
    <3> QED
      BY <1>4, <3>1 DEF Contents
  <2> QED
    BY <2>1, <2>2, <2>3 DEF Contents
<1>6. Complete'
  BY DEF Complete, Contains
<1> QED
  BY <1>2, <1>3, <1>5, <1>6

\* Serialize, SetReport and CancelReport.
LEMMA FieldStep ==
  ASSUME PoolInv, NEW t \in Threads, Fill(t) \/ SetReport(t) \/ CancelReport(t)
  PROVE  PoolInv'
<1> DEFINE f == fields[msg[t]]
           n == useOf[msg[t]]
<1>1. at[t] = "use" /\ UNCHANGED <<poolVars, at, msg, uses, useOf>>
  BY DEF Fill, SetReport, CancelReport, Write
<1>2. f \in Fields /\ n \in Nat /\ msg[t] \in Objects
  BY <1>1 DEF PoolInv, Types
<1>3. Current(msg[t])
  BY <1>1 DEF PoolInv, Contents
<1>4. CASE Fill(t)
  <2> DEFINE m == [peer |-> f.peer, data |-> n, io |-> f.io, stamped |-> f.stamped,
                   report |-> f.report]
  <2>1. [f EXCEPT !["data"] = n] = m
    BY <1>2 DEF Fields
  <2>2. m \in Fields
    BY <1>2 DEF Fields
  <2>3. fields' = [fields EXCEPT ![msg[t]] = m]
    BY <1>2, <1>4, <2>1 DEF Fill, Write, PoolInv, Types
  <2>4. /\ m.peer = n /\ m.data \in {0, n} /\ m.stamped \in {0, n}
        /\ m.report \in {0, n} /\ (m.stamped = 0 => m.io = 0)
    BY <1>3 DEF Current
  <2> HIDE DEF m
  <2> QED
    BY <1>1, <2>2, <2>3, <2>4, WriteStep
<1>5. CASE SetReport(t)
  <2> DEFINE m == [peer |-> f.peer, data |-> f.data, io |-> f.io, stamped |-> f.stamped,
                   report |-> n]
  <2>1. [f EXCEPT !["report"] = n] = m
    BY <1>2 DEF Fields
  <2>2. m \in Fields
    BY <1>2 DEF Fields
  <2>3. fields' = [fields EXCEPT ![msg[t]] = m]
    BY <1>2, <1>5, <2>1 DEF SetReport, Write, PoolInv, Types
  <2>4. /\ m.peer = n /\ m.data \in {0, n} /\ m.stamped \in {0, n}
        /\ m.report \in {0, n} /\ (m.stamped = 0 => m.io = 0)
    BY <1>3 DEF Current
  <2> HIDE DEF m
  <2> QED
    BY <1>1, <2>2, <2>3, <2>4, WriteStep
<1>6. CASE CancelReport(t)
  <2> DEFINE m == [peer |-> f.peer, data |-> f.data, io |-> f.io, stamped |-> f.stamped,
                   report |-> 0]
  <2>1. [f EXCEPT !["report"] = 0] = m
    BY <1>2 DEF Fields
  <2>2. m \in Fields
    BY <1>2 DEF Fields
  <2>3. fields' = [fields EXCEPT ![msg[t]] = m]
    BY <1>2, <1>6, <2>1 DEF CancelReport, Write, PoolInv, Types
  <2>4. /\ m.peer = n /\ m.data \in {0, n} /\ m.stamped \in {0, n}
        /\ m.report \in {0, n} /\ (m.stamped = 0 => m.io = 0)
    BY <1>3 DEF Current
  <2> HIDE DEF m
  <2> QED
    BY <1>1, <2>2, <2>3, <2>4, WriteStep
<1> QED
  BY <1>4, <1>5, <1>6

\* A transport stamps its latencies into the message it was given.
LEMMA LatencyStep ==
  ASSUME PoolInv, NEW t \in Threads, NEW l \in Latencies, SetIOLatency(t, l)
  PROVE  PoolInv'
<1> DEFINE f == fields[msg[t]]
           n == useOf[msg[t]]
           m == [peer |-> f.peer, data |-> f.data, io |-> l, stamped |-> n,
                 report |-> f.report]
<1>1. at[t] = "use" /\ UNCHANGED <<poolVars, at, msg, uses, useOf>>
  BY DEF SetIOLatency
<1>2. f \in Fields /\ n \in Nat /\ msg[t] \in Objects /\ l \in Nat
  BY <1>1, PoolAssumption DEF PoolInv, Types
<1>3. Current(msg[t])
  BY <1>1 DEF PoolInv, Contents
<1>4. [f EXCEPT !.io = l, !.stamped = n] = m
  <2> DEFINE g == [peer |-> f.peer, data |-> f.data, io |-> l, stamped |-> f.stamped,
                   report |-> f.report]
  <2>1. [f EXCEPT !.io = l] = g
    BY <1>2 DEF Fields
  <2>2. [g EXCEPT !.stamped = n] = m
    OBVIOUS
  <2> HIDE DEF f, g, m, n
  <2> QED
    BY <2>1, <2>2, Zenon
<1>5. m \in Fields
  BY <1>2 DEF Fields
<1>6. fields' = [fields EXCEPT ![msg[t]] = m]
  BY <1>2, <1>4 DEF SetIOLatency, PoolInv, Types
<1>7. /\ m.peer = n /\ m.data \in {0, n} /\ m.stamped \in {0, n}
      /\ m.report \in {0, n} /\ (m.stamped = 0 => m.io = 0)
  BY <1>3 DEF Current
<1> HIDE DEF m
<1> QED
  BY <1>1, <1>5, <1>6, <1>7, WriteStep

-----------------------------------------------------------------------------
\* Where a goroutine is says no more than whether it has an object, how
\* far that is filled, and whether it may be put back.
LEMMA MoveStep ==
  ASSUME PoolInv, NEW t \in Threads, NEW place \in {"use", "recycle"},
         at[t] \in {"count", "use"}, at' = [at EXCEPT ![t] = place],
         UNCHANGED <<kind, free, fields, msg, uses, useOf>>
  PROVE  PoolInv'
<1> USE DEF PoolInv
<1>1. at \in [Threads -> {"idle", "count", "use", "recycle", "put"}]
  BY DEF Types
<1>2. Types'
  BY <1>1 DEF Types
<1>3. Owned'
  BY DEF Owned
<1>4. Contents'
  <2>1. ASSUME NEW u \in Threads, at'[u] \in {"count", "use", "recycle"}
        PROVE  Current(msg[u])'
    <3>1. at[u] \in {"count", "use", "recycle"}
      BY <1>1, <2>1
    <3> QED
      BY <3>1 DEF Contents, Current
  <2>2. ASSUME NEW u \in Threads, at'[u] = "put" PROVE fields'[msg'[u]] = Blank
    BY <1>1, <2>2 DEF Contents
  <2> QED
    BY <2>1, <2>2 DEF Contents
<1>5. Complete'
  BY <1>1 DEF Complete, Contains
<1> QED
  BY <1>2, <1>3, <1>4, <1>5

\* A queue hands the object on: the one goroutine lost it, the other has it.
LEMMA PassStep ==
  ASSUME PoolInv, NEW t \in Threads, NEW u \in Threads, Pass(t, u)
  PROVE  PoolInv'
<1> USE DEF PoolInv
<1>1. /\ at \in [Threads -> {"idle", "count", "use", "recycle", "put"}]
      /\ msg \in [Threads -> Objects \cup {nil}]
      /\ at[t] = "use" /\ at[u] = "idle" /\ t # u
      /\ at' = [at EXCEPT ![t] = "idle", ![u] = "use"]
      /\ msg' = [msg EXCEPT ![t] = nil, ![u] = msg[t]]
      /\ UNCHANGED <<kind, free, fields, uses, useOf>>
      /\ msg[t] # nil /\ msg[u] = nil
  BY DEF Types, Pass, poolVars
<1>2. \A v \in Threads : /\ at'[v] = IF v = u THEN "use" ELSE IF v = t THEN "idle" ELSE at[v]
                         /\ msg'[v] = IF v = u THEN msg[t] ELSE IF v = t THEN nil ELSE msg[v]
  BY <1>1
<1>3. Types'
  <2>1. /\ at' \in [Threads -> {"idle", "count", "use", "recycle", "put"}]
        /\ msg' \in [Threads -> Objects \cup {nil}]
    BY <1>1
  <2> QED
    BY <1>1, <1>2, <2>1 DEF Types
<1>4. Owned'
  <2>1. ASSUME NEW v \in Threads, NEW w \in Threads, msg'[v] = msg'[w], msg'[v] # nil
        PROVE  v = w
    BY <1>1, <1>2, <2>1 DEF Owned
  <2>2. ASSUME NEW v \in Threads, NEW i \in 1 .. Len(free') PROVE free'[i] # msg'[v]
    <3>1. free[i] \in Objects
      BY <1>1, ElementOfSeq DEF Types
    <3> QED
      BY <1>1, <1>2, <3>1, PoolAssumption DEF Owned
  <2>3. \A i, j \in 1 .. Len(free') : free'[i] = free'[j] => i = j
    BY <1>1 DEF Owned
  <2> QED
    BY <2>1, <2>2, <2>3 DEF Owned
<1>5. Contents'
  <2>1. ASSUME NEW v \in Threads, at'[v] \in {"count", "use", "recycle"}
        PROVE  Current(msg[v])'
    <3>1. \E w \in Threads : at[w] \in {"count", "use", "recycle"} /\ msg'[v] = msg[w]
      BY <1>1, <1>2, <2>1
    <3> QED
      BY <1>1, <3>1 DEF Contents, Current
  <2>2. ASSUME NEW v \in Threads, at'[v] = "put" PROVE fields'[msg'[v]] = Blank
    <3>1. at[v] = "put" /\ msg'[v] = msg[v]
      BY <1>1, <1>2, <2>2
    <3> QED
      BY <1>1, <3>1 DEF Contents
  <2>3. \A i \in 1 .. Len(free') : fields'[free'[i]] = Blank
    BY <1>1 DEF Contents
  <2> QED
    BY <2>1, <2>2, <2>3 DEF Contents
<1>6. Complete'
  <2>1. ASSUME NEW v \in Threads, at'[v] = "put" PROVE Contains(msg[v])'
    <3>1. at[v] = "put" /\ msg'[v] = msg[v]
      BY <1>1, <1>2, <2>1
    <3> QED
      BY <1>1, <3>1 DEF Complete, Contains
  <2>2. ASSUME kind' = "arena", NEW o \in ArenaObjects, NEW v \in Threads, msg[v] = o
        PROVE  \E w \in Threads : msg'[w] = o
    <3>1. o # nil
      BY PoolAssumption DEF Objects
    <3> QED
      BY <1>1, <1>2, <2>2, <3>1
  <2>3. kind' = "arena" =>
          /\ \A i \in 1 .. Len(free') : free'[i] \in ArenaObjects
          /\ \A o \in ArenaObjects :
               \/ \E i \in 1 .. Len(free') : free'[i] = o
               \/ \E w \in Threads : msg'[w] = o
    BY <1>1, <2>2 DEF Complete
  <2> QED
    BY <2>1, <2>3 DEF Complete
<1> QED
  BY <1>3, <1>4, <1>5, <1>6

\* The reset of Recycle, before the lock of the pool is taken.
LEMMA ResetOldStep ==
  ASSUME PoolInv, NEW t \in Threads, ResetOld(t)
  PROVE  PoolInv'
<1> USE DEF PoolInv
<1>1. /\ at \in [Threads -> {"idle", "count", "use", "recycle", "put"}]
      /\ at[t] = "recycle" /\ Contains(msg[t])
      /\ at' = [at EXCEPT ![t] = "put"]
      /\ fields \in [Objects -> Fields]
      /\ fields' = [fields EXCEPT ![msg[t]] = Blank]
      /\ UNCHANGED <<kind, free, msg, uses, useOf>>
      /\ msg[t] # nil /\ msg[t] \in Objects
  BY DEF Types, ResetOld, Reset, poolVars
<1>2. \A v \in Threads : at'[v] = IF v = t THEN "put" ELSE at[v]
  BY <1>1
<1>3. \A o \in Objects : fields'[o] = IF o = msg[t] THEN Blank ELSE fields[o]
  BY <1>1
<1>4. Types'
  <2>1. fields' \in [Objects -> Fields]
    BY <1>1 DEF Blank, Fields
  <2> QED
    BY <1>1, <2>1 DEF Types
<1>5. Owned'
  BY <1>1 DEF Owned
<1>6. Contents'
  <2>1. ASSUME NEW v \in Threads, at'[v] \in {"count", "use", "recycle"}
        PROVE  Current(msg[v])'
    <3>1. v # t /\ at[v] = at'[v] /\ msg[v] \in Objects /\ msg[v] # nil
      BY <1>1, <1>2, <2>1 DEF Types
    <3>2. msg[v] # msg[t]
      BY <1>1, <3>1 DEF Owned
    <3> QED
      BY <1>1, <1>3, <2>1, <3>1, <3>2 DEF Contents, Current
  <2>2. ASSUME NEW v \in Threads, at'[v] = "put" PROVE fields'[msg'[v]] = Blank
    <3>1. CASE v = t
      BY <1>1, <1>3, <3>1
    <3>2. CASE v # t
      <4>1. at[v] = "put" /\ msg[v] \in Objects
        BY <1>1, <1>2, <2>2, <3>2 DEF Types
      <4> QED
        BY <1>1, <1>3, <4>1 DEF Contents
    <3> QED
      BY <3>1, <3>2
  <2>3. ASSUME NEW i \in 1 .. Len(free') PROVE fields'[free'[i]] = Blank
    <3>1. free[i] \in Objects
      BY <1>1, ElementOfSeq DEF Types
    <3> QED
      BY <1>1, <1>3, <3>1 DEF Contents
  <2> QED
    BY <2>1, <2>2, <2>3 DEF Contents
<1>7. Complete'
  BY <1>1, <1>2 DEF Complete, Contains
<1> QED
  BY <1>4, <1>5, <1>6, <1>7

\* The goroutine lets its object go; what the pool has afterwards is what
\* it had, and the object as well if it is one of the arena's.
LEMMA LeaveStep ==
  ASSUME PoolInv, NEW t \in Threads, at[t] \in {"recycle", "put"}, Leave(t),
         UNCHANGED <<kind, fields, uses, useOf>>,
         free' \in Seq(Objects),
         \A j \in 1 .. Len(free') :
           \/ \E k \in 1 .. Len(free) : free'[j] = free[k]
           \/ free'[j] = msg[t] /\ at[t] = "put",
         \A j, k \in 1 .. Len(free') : free'[j] = free'[k] => j = k,
         \A k \in 1 .. Len(free) : \E j \in 1 .. Len(free') : free'[j] = free[k],
         kind = "arena" /\ msg[t] \in ArenaObjects =>
           \E j \in 1 .. Len(free') : free'[j] = msg[t]
  PROVE  PoolInv'
<1> USE DEF PoolInv
<1>1. /\ at \in [Threads -> {"idle", "count", "use", "recycle", "put"}]
      /\ msg \in [Threads -> Objects \cup {nil}]
      /\ at' = [at EXCEPT ![t] = "idle"]
      /\ msg' = [msg EXCEPT ![t] = nil]
      /\ msg[t] \in Objects /\ msg[t] # nil
  BY DEF Types, Leave
<1>2. \A v \in Threads : /\ at'[v] = IF v = t THEN "idle" ELSE at[v]
                         /\ msg'[v] = IF v = t THEN nil ELSE msg[v]
  BY <1>1
<1>3. Types'
  BY <1>1, <1>2 DEF Types
<1>4. Owned'
  <2>1. ASSUME NEW v \in Threads, NEW i \in 1 .. Len(free') PROVE free'[i] # msg'[v]
    <3>1. free'[i] \in Objects
      BY ElementOfSeq
    <3>2. CASE v = t
      BY <1>2, <3>1, <3>2, PoolAssumption
    <3>3. CASE v # t
      <4>1. CASE free'[i] = msg[t]
        BY <1>1, <1>2, <3>3, <4>1 DEF Owned
      <4>2. CASE \E k \in 1 .. Len(free) : free'[i] = free[k]
        BY <1>2, <3>3, <4>2 DEF Owned
      <4> QED
        BY <4>1, <4>2
    <3> QED
      BY <3>2, <3>3
  <2>2. \A v, w \in Threads : msg'[v] = msg'[w] /\ msg'[v] # nil => v = w
    BY <1>2 DEF Owned
  <2> QED
    BY <2>1, <2>2 DEF Owned
<1>5. Contents'
  <2>1. ASSUME NEW v \in Threads, at'[v] \in {"count", "use", "recycle"}
        PROVE  Current(msg[v])'
    <3>1. v # t /\ at[v] = at'[v] /\ msg'[v] = msg[v]
      BY <1>2, <2>1
    <3> QED
      BY <2>1, <3>1 DEF Contents, Current
  <2>2. ASSUME NEW v \in Threads, at'[v] = "put" PROVE fields'[msg'[v]] = Blank
    <3>1. at[v] = "put" /\ msg'[v] = msg[v]
      BY <1>2, <2>2
    <3> QED
      BY <3>1 DEF Contents
  <2>3. \A j \in 1 .. Len(free') : fields'[free'[j]] = Blank
    BY DEF Contents
  <2> QED
    BY <2>1, <2>2, <2>3 DEF Contents
<1>6. Complete'
  <2>1. ASSUME NEW v \in Threads, at'[v] = "put" PROVE Contains(msg[v])'
    <3>1. at[v] = "put" /\ msg'[v] = msg[v]
      BY <1>2, <2>1
    <3> QED
      BY <3>1 DEF Complete, Contains
  <2>2. ASSUME kind' = "arena", NEW j \in 1 .. Len(free') PROVE free'[j] \in ArenaObjects
    <3>1. CASE \E k \in 1 .. Len(free) : free'[j] = free[k]
      BY <2>2, <3>1 DEF Complete
    <3>2. CASE free'[j] = msg[t] /\ at[t] = "put"
      BY <2>2, <3>2 DEF Complete, Contains
    <3> QED
      BY <3>1, <3>2
  <2>3. ASSUME kind' = "arena", NEW o \in ArenaObjects,
               ~ \E j \in 1 .. Len(free') : free'[j] = o
        PROVE  \E v \in Threads : msg'[v] = o
    <3>1. ~ \E k \in 1 .. Len(free) : free[k] = o
      BY <2>3
    <3>2. PICK v \in Threads : msg[v] = o
      BY <2>3, <3>1 DEF Complete
    <3>3. v # t
      BY <2>3, <3>2
    <3> QED
      BY <1>2, <3>2, <3>3
  <2> QED
    BY <2>1, <2>2, <2>3 DEF Complete
<1> QED
  BY <1>3, <1>4, <1>5, <1>6

\* What was made on a miss is left to the garbage collector.
LEMMA DiscardStep ==
  ASSUME PoolInv, NEW t \in Threads, Discard(t)
  PROVE  PoolInv'
<1>1. /\ at[t] = "recycle" /\ Leave(t)
      /\ UNCHANGED <<kind, fields, uses, useOf>> /\ free' = free
      /\ ~ Contains(msg[t])
  BY DEF Discard, poolVars
<1>2. ~ (kind = "arena" /\ msg[t] \in ArenaObjects)
  BY <1>1 DEF Contains
<1>3. /\ free \in Seq(Objects)
      /\ \A j, k \in 1 .. Len(free) : free[j] = free[k] => j = k
  BY DEF PoolInv, Types, Owned
<1> QED
  BY <1>1, <1>2, <1>3, LeaveStep

\* The object goes to the end of the free list, which has it no second time.
LEMMA PutStep ==
  ASSUME PoolInv, NEW t \in Threads, Put(t)
  PROVE  PoolInv'
<1>1. /\ at[t] = "put" /\ Leave(t)
      /\ UNCHANGED <<kind, fields, uses, useOf>> /\ free' = Append(free, msg[t])
  BY DEF Put
<1>2. /\ free \in Seq(Objects) /\ msg[t] \in Objects
      /\ \A j, k \in 1 .. Len(free) : free[j] = free[k] => j = k
      /\ \A k \in 1 .. Len(free) : free[k] # msg[t]
  BY <1>1 DEF PoolInv, Types, Owned
<1>3. /\ free' \in Seq(Objects) /\ Len(free) \in Nat
      /\ Len(free') = Len(free) + 1
      /\ \A k \in 1 .. Len(free) : free'[k] = free[k]
      /\ free'[Len(free) + 1] = msg[t]
  BY <1>1, <1>2, AppendProperties, LenProperties
<1>4. \A j \in 1 .. Len(free') : j \in 1 .. Len(free) \/ j = Len(free) + 1
  BY <1>3
<1>5. \A k \in 1 .. Len(free) : k \in 1 .. Len(free')
  BY <1>3
<1>6. Len(free) + 1 \in 1 .. Len(free')
  BY <1>3
<1>7. \A j \in 1 .. Len(free') :
        \/ \E k \in 1 .. Len(free) : free'[j] = free[k]
        \/ free'[j] = msg[t] /\ at[t] = "put"
  BY <1>1, <1>3, <1>4
<1>8. \A j, k \in 1 .. Len(free') : free'[j] = free'[k] => j = k
  BY <1>2, <1>3, <1>4
<1>9. \A k \in 1 .. Len(free) : \E j \in 1 .. Len(free') : free'[j] = free[k]
  BY <1>3, <1>5
<1>10. \E j \in 1 .. Len(free') : free'[j] = msg[t]
  BY <1>3, <1>6
<1> QED
  BY <1>1, <1>3, <1>7, <1>8, <1>9, <1>10, LeaveStep

\* The collector only takes objects out of a sync.Pool.
LEMMA CollectStep ==
  ASSUME PoolInv, Collect
  PROVE  PoolInv'
<1> USE DEF PoolInv
<1>1. PICK i \in 1 .. Len(free) : free' = Without(free, i)
  BY DEF Collect
<1>2. /\ kind = "pool" /\ kind' = kind
      /\ UNCHANGED <<fields, at, msg, uses, useOf>>
  BY DEF Collect, msgVars
<1>3. /\ free \in Seq(Objects)
      /\ \A j, k \in 1 .. Len(free) : free[j] = free[k] => j = k
  BY DEF Types, Owned
<1>4. /\ free' \in Seq(Objects)
      /\ \A j \in 1 .. Len(free') : \E k \in 1 .. Len(free) : k # i /\ free'[j] = free[k]
      /\ \A j, k \in 1 .. Len(free') : free'[j] = free'[k] => j = k
  <2>1. /\ Without(free, i) \in Seq(Objects)
        /\ \A j \in 1 .. Len(Without(free, i)) :
             \E k \in 1 .. Len(free) : k # i /\ Without(free, i)[j] = free[k]
        /\ \A j, k \in 1 .. Len(Without(free, i)) :
             Without(free, i)[j] = Without(free, i)[k] => j = k
    BY <1>3, WithoutOne, Zenon
  <2> QED
    BY <1>1, <2>1, Zenon
<1>5. Types'
  BY <1>2, <1>4 DEF Types
<1>6. Owned'
  BY <1>2, <1>4 DEF Owned
<1>7. Contents'
  BY <1>2, <1>4 DEF Contents, Current
<1>8. Complete'
  BY <1>2 DEF Complete, Contains
<1> QED
  BY <1>5, <1>6, <1>7, <1>8

\* What is invariant of the pools, through every step of theirs, of the
\* meter, and of those that leave them alone.
LEMMA StepPool == PoolInv /\ [Next]_vars => PoolInv'
<1> SUFFICES ASSUME PoolInv, [Next]_vars PROVE PoolInv'
  OBVIOUS
<1>1. ASSUME UNCHANGED <<poolVars, msgVars>> PROVE PoolInv'
  <2>1. UNCHANGED <<kind, free, fields, at, msg, uses, useOf>>
    BY <1>1 DEF poolVars, msgVars
  <2> QED
    BY <2>1 DEF PoolInv, Types, Owned, Contents, Current, Complete, Contains
<1>2. ASSUME NEW t \in Threads, ArenaGet(t) PROVE PoolInv'
  BY <1>2, ArenaGetStep
<1>3. ASSUME NEW t \in Threads, PoolGet(t) PROVE PoolInv'
  BY <1>3, PoolGetStep
<1>4. ASSUME NEW t \in Threads, PoolCount(t) PROVE PoolInv'
  BY <1>4, MoveStep DEF PoolCount
<1>5. ASSUME NEW t \in Threads, Fill(t) \/ SetReport(t) \/ CancelReport(t) PROVE PoolInv'
  BY <1>5, FieldStep
<1>6. ASSUME NEW t \in Threads, NEW l \in Latencies, SetIOLatency(t, l) PROVE PoolInv'
  BY <1>6, LatencyStep
<1>7. ASSUME NEW t \in Threads, NEW u \in Threads, Pass(t, u) PROVE PoolInv'
  BY <1>7, PassStep
<1>8. ASSUME NEW t \in Threads, Report(t) PROVE PoolInv'
  BY <1>8, MoveStep DEF Report, poolVars
<1>9. ASSUME NEW t \in Threads, Discard(t) PROVE PoolInv'
  BY <1>9, DiscardStep
<1>10. ASSUME NEW t \in Threads, ResetOld(t) PROVE PoolInv'
  BY <1>10, ResetOldStep
<1>11. ASSUME NEW t \in Threads, Put(t) PROVE PoolInv'
  BY <1>11, PutStep
<1>12. CASE Collect
  BY <1>12, CollectStep
<1>13. CASE ReadNext \/ Stats \/ Forget
  BY <1>1, <1>13 DEF ReadNext, Stats, Forget
<1>14. CASE UNCHANGED vars
  BY <1>1, <1>14 DEF vars
<1> QED
  BY <1>2, <1>3, <1>4, <1>5, <1>6, <1>7, <1>8, <1>9, <1>10, <1>11, <1>12, <1>13, <1>14
  DEF Next

\* PoolInv holds throughout: of the arena and of sync.Pool alike.
THEOREM PoolInvariant == Spec => []PoolInv
  BY InitPool, StepPool, PTL DEF Spec

-----------------------------------------------------------------------------
\* A message holds what was written in its present use, and one that waits
\* in a pool holds nothing (msgpool.go:26-34).
THEOREM ContentsAreOwn == Spec => []OwnContents
<1>1. PoolInv => OwnContents
  <2> SUFFICES ASSUME PoolInv PROVE OwnContents
    OBVIOUS
  <2>1. ASSUME NEW t \in Threads, at[t] \in {"use", "recycle"}
        PROVE  LET m == fields[msg[t]] use == useOf[msg[t]] IN
                 /\ m.peer = use
                 /\ {m.data, m.stamped, m.report} \subseteq {0, use}
                 /\ m.stamped = 0 => m.io = 0
    BY <2>1 DEF PoolInv, Contents, Current
  <2>2. \A i \in 1 .. Len(free) : fields[free[i]] = Blank
    BY DEF PoolInv, Contents
  <2> QED
    BY <2>1, <2>2 DEF OwnContents
<1> QED
  BY <1>1, PoolInvariant, PTL

\* The arena has each object that is not in use, and has it once
\* (arena.go:32-63).
THEOREM ArenaLosesNothing == Spec => []NothingLost
<1>1. PoolInv => NothingLost
  <2> SUFFICES ASSUME PoolInv, kind = "arena"
               PROVE  /\ {free[i] : i \in 1 .. Len(free)} =
                           ArenaObjects \ {msg[t] : t \in Threads}
                      /\ Len(free) = Cardinality({free[i] : i \in 1 .. Len(free)})
    BY DEF NothingLost
  <2> DEFINE S == {free[i] : i \in 1 .. Len(free)}
  <2>1. S = ArenaObjects \ {msg[t] : t \in Threads}
    BY DEF PoolInv, Complete, Owned
  <2>2. Len(free) = Cardinality(S)
    <3>1. /\ free \in Seq(Objects) /\ Len(free) \in Nat
          /\ \A i, j \in 1 .. Len(free) : free[i] = free[j] => i = j
      BY LenProperties DEF PoolInv, Types, Owned
    <3>2. free \in [1 .. Len(free) -> S]
      <4>1. free = [i \in 1 .. Len(free) |-> free[i]]
        BY <3>1, LenProperties
      <4> QED
        BY <4>1
    <3>3. PICK n \in Nat : n = Len(free)
      BY <3>1
    <3>4. free \in Bijection(1 .. n, S)
      BY <3>1, <3>2, <3>3 DEF Bijection, Injection, IsInjective, Surjection
    <3>5. IsFiniteSet(1 .. n) /\ Cardinality(1 .. n) = n
      BY FS_Interval
    <3> HIDE DEF S
    <3>6. ExistsBijection(1 .. n, S)
      BY <3>4 DEF ExistsBijection
    <3>7. Cardinality(S) = Cardinality(1 .. n)
      BY <3>5, <3>6, FS_Bijection, Zenon
    <3> QED
      BY <3>3, <3>5, <3>7
  <2> QED
    BY <2>1, <2>2
<1> QED
  BY <1>1, PoolInvariant, PTL

-----------------------------------------------------------------------------
\* What the abstract pool calls its uses.
Held == {<<t, msg[t]>> : t \in {u \in Threads : msg[u] # nil}}

\* Taking an object is the abstract Get: nobody has it.
LEMMA GetMaps ==
  ASSUME PoolInv, NEW t \in Threads, NEW o \in Objects,
         msg[t] = nil, msg' = [msg EXCEPT ![t] = o], \A u \in Threads : msg[u] # o
  PROVE  Abstract!Next
<1>1. msg \in [Threads -> Objects \cup {nil}] /\ o # nil
  BY PoolAssumption DEF PoolInv, Types
<1>2. \A u \in Held : u[2] # o
  BY DEF Held
<1>3. Held' = Held \cup {<<t, o>>}
  <2>1. \A u \in Threads : msg'[u] = IF u = t THEN o ELSE msg[u]
    BY <1>1
  <2> QED
    BY <1>1, <2>1 DEF Held
<1>4. Abstract!Get(t, o)
  BY <1>2, <1>3 DEF Abstract!Get, Held
<1> QED
  BY <1>4 DEF Abstract!Next

\* A goroutine that leaves gives its object back.
LEMMA GiveBackMaps ==
  ASSUME PoolInv, NEW t \in Threads, msg[t] # nil, msg' = [msg EXCEPT ![t] = nil]
  PROVE  Abstract!Next
<1>1. msg \in [Threads -> Objects \cup {nil}] /\ msg[t] \in Objects
  BY DEF PoolInv, Types
<1>2. \A u \in Threads : msg'[u] = IF u = t THEN nil ELSE msg[u]
  BY <1>1
<1>3. <<t, msg[t]>> \in Held
  BY DEF Held
<1>4. Held' = Held \ {<<t, msg[t]>>}
  BY <1>1, <1>2 DEF Held
<1>5. PICK o \in Objects : o = msg[t]
  BY <1>1
<1>6. Abstract!GiveBack(t, o)
  BY <1>3, <1>4, <1>5 DEF Abstract!GiveBack, Held
<1> QED
  BY <1>6 DEF Abstract!Next

\* A queue passes it on.
LEMMA PassMaps ==
  ASSUME PoolInv, NEW t \in Threads, NEW u \in Threads, Pass(t, u)
  PROVE  Abstract!Next
<1>1. /\ msg \in [Threads -> Objects \cup {nil}]
      /\ msg[t] # nil /\ msg[t] \in Objects /\ msg[u] = nil /\ t # u
      /\ msg' = [msg EXCEPT ![t] = nil, ![u] = msg[t]]
  BY DEF PoolInv, Types, Pass
<1>2. \A v \in Threads : msg'[v] = IF v = u THEN msg[t] ELSE IF v = t THEN nil ELSE msg[v]
  BY <1>1
<1>3. <<t, msg[t]>> \in Held
  BY <1>1 DEF Held
<1>4. Held' = (Held \ {<<t, msg[t]>>}) \cup {<<u, msg[t]>>}
  BY <1>1, <1>2 DEF Held
<1>5. PICK o \in Objects : o = msg[t]
  BY <1>1
<1>6. Abstract!Pass(t, u, o)
  BY <1>3, <1>4, <1>5 DEF Abstract!Pass, Held
<1> QED
  BY <1>6 DEF Abstract!Next

\* Both pools implement the abstract one: an object has one user at a time
\* (arena.go:32-63, pool.go:26-38).
THEOREM PoolsImplement == Spec => ImplementsPool
<1>1. Init => Abstract!Init
  <2> SUFFICES ASSUME Init PROVE Held = {}
    BY DEF Abstract!Init, Held
  <2> QED
    BY DEF Init, Held
<1>2. PoolInv /\ [Next]_vars => [Abstract!Next]_Held
  <2> SUFFICES ASSUME PoolInv, [Next]_vars PROVE Abstract!Next \/ Held' = Held
    BY DEF Held
  <2>1. ASSUME msg' = msg PROVE Held' = Held
    BY <2>1 DEF Held
  <2>2. ASSUME NEW t \in Threads, ArenaGet(t) PROVE Abstract!Next
    <3>1. msg[t] = nil /\ free \in Seq(Objects)
      BY <2>2 DEF ArenaGet, PoolInv, Types
    <3>2. ASSUME NEW o \in HeapObjects, Unused(o), Takes(t, o, "use") PROVE Abstract!Next
      BY <3>1, <3>2, GetMaps DEF Unused, Takes, Objects
    <3>3. ASSUME free # <<>>, Takes(t, free[Len(free)], "use") PROVE Abstract!Next
      <4>1. Len(free) \in 1 .. Len(free)
        BY <3>1, <3>3, EmptySeq, LenProperties
      <4>2. free[Len(free)] \in Objects /\ \A u \in Threads : msg[u] # free[Len(free)]
        BY <3>1, <4>1, ElementOfSeq DEF PoolInv, Owned
      <4> QED
        BY <3>1, <3>3, <4>2, GetMaps DEF Takes
    <3> QED
      BY <2>2, <3>2, <3>3 DEF ArenaGet
  <2>3. ASSUME NEW t \in Threads, PoolGet(t) PROVE Abstract!Next
    <3>1. msg[t] = nil /\ free \in Seq(Objects)
      BY <2>3 DEF PoolGet, PoolInv, Types
    <3>2. ASSUME NEW o \in HeapObjects, Unused(o), Takes(t, o, "count") PROVE Abstract!Next
      BY <3>1, <3>2, GetMaps DEF Unused, Takes, Objects
    <3>3. ASSUME NEW i \in 1 .. Len(free), Takes(t, free[i], "count") PROVE Abstract!Next
      <4>1. free[i] \in Objects /\ \A u \in Threads : msg[u] # free[i]
        BY <3>1, ElementOfSeq DEF PoolInv, Owned
      <4> QED
        BY <3>1, <3>3, <4>1, GetMaps DEF Takes
    <3> QED
      BY <2>3, <3>2, <3>3 DEF PoolGet
  <2>4. ASSUME NEW t \in Threads, NEW u \in Threads, Pass(t, u) PROVE Abstract!Next
    BY <2>4, PassMaps
  <2>5. ASSUME NEW t \in Threads, Discard(t) \/ Put(t) PROVE Abstract!Next
    <3>1. msg[t] # nil /\ msg' = [msg EXCEPT ![t] = nil]
      BY <2>5 DEF Discard, Put, Leave, PoolInv, Types
    <3> QED
      BY <3>1, GiveBackMaps
  <2>6. ASSUME NEW t \in Threads,
               \/ PoolCount(t) \/ Fill(t) \/ SetReport(t) \/ CancelReport(t)
               \/ \E l \in Latencies : SetIOLatency(t, l)
               \/ Report(t) \/ ResetOld(t)
        PROVE  msg' = msg
    BY <2>6 DEF PoolCount, Fill, SetReport, CancelReport, Write, SetIOLatency, Report, ResetOld
  <2>7. ASSUME Collect \/ ReadNext \/ Stats \/ Forget \/ UNCHANGED vars PROVE msg' = msg
    BY <2>7 DEF Collect, ReadNext, Stats, Forget, vars, msgVars
  <2> QED
    BY <2>1, <2>2, <2>3, <2>4, <2>5, <2>6, <2>7 DEF Next
<1> QED
  BY <1>1, <1>2, PoolInvariant, PTL DEF Spec, ImplementsPool, Abstract!Spec, Held

-----------------------------------------------------------------------------
\* A Counter.
Meters == [first : BOOLEAN, min : Nat, max : Nat, sum : Nat, count : Nat]

\* The samples counted and summed up lie between low and high.
Between(low, count, sum, high) == low * count <= sum /\ sum <= high * count

\* The meter is consistent at every moment; its range only grows, so that
\* what String has read of it so far stays consistent with what it has yet
\* to read.
MeterInv ==
  /\ meter \in Meters /\ seen \in Meters
  /\ reader \in 0 .. 3
  /\ meter.first => meter.count = 0
  /\ meter.count > 0 => Between(meter.min, meter.count, meter.sum, meter.max)
  /\ meter.count = 0 => meter.sum = 0
  /\ reader > 0 => seen.count <= meter.count
  /\ reader > 0 /\ seen.count > 0 =>
       Between(IF reader = 1 THEN meter.min ELSE seen.min, seen.count, seen.sum,
               IF reader < 3 THEN meter.max ELSE seen.max)

\* A larger factor, a larger product.
LEMMA Growing ==
  ASSUME NEW a \in Nat, NEW b \in Nat, NEW c \in Nat, a <= b
  PROVE  a * c <= b * c /\ c * 1 = c
  OBVIOUS

\* A wider range still has the samples.
LEMMA Wider ==
  ASSUME NEW low \in Nat, NEW count \in Nat, NEW sum \in Nat, NEW high \in Nat,
         NEW l \in Nat, NEW h \in Nat, l <= low, high <= h, Between(low, count, sum, high)
  PROVE  Between(l, count, sum, h)
<1>1. low * count <= sum /\ sum <= high * count
  BY DEF Between
<1>2. l * count <= low * count /\ high * count <= h * count
  BY Growing
<1>3. /\ l * count \in Nat /\ low * count \in Nat
      /\ h * count \in Nat /\ high * count \in Nat
  OBVIOUS
<1> QED
  BY <1>1, <1>2, <1>3 DEF Between

\* One more sample within the range.
LEMMA OneMore ==
  ASSUME NEW low \in Nat, NEW count \in Nat, NEW sum \in Nat, NEW high \in Nat, NEW v \in Nat,
         low <= v, v <= high, Between(low, count, sum, high)
  PROVE  Between(low, count + 1, sum + v, high)
<1>1. low * (count + 1) = low * count + low /\ high * (count + 1) = high * count + high
  OBVIOUS
<1>2. low * count \in Nat /\ high * count \in Nat
  OBVIOUS
<1> QED
  BY <1>1, <1>2 DEF Between

\* Counter.Add keeps the meter consistent, and neither forgets a sample nor
\* narrows the range.
LEMMA AddSample ==
  ASSUME NEW c \in Meters, NEW v \in Nat,
         c.first => c.count = 0,
         c.count > 0 => Between(c.min, c.count, c.sum, c.max),
         c.count = 0 => c.sum = 0
  PROVE  /\ Add(c, v) \in Meters
         /\ ~ Add(c, v).first
         /\ Add(c, v).count > 0 =>
              Between(Add(c, v).min, Add(c, v).count, Add(c, v).sum, Add(c, v).max)
         /\ Add(c, v).count = 0 => Add(c, v).sum = 0
         /\ c.count <= Add(c, v).count
         /\ c.count > 0 => Add(c, v).min <= c.min /\ c.max <= Add(c, v).max
<1>1. c.first \in BOOLEAN /\ c.min \in Nat /\ c.max \in Nat /\ c.sum \in Nat /\ c.count \in Nat
  BY DEF Meters
<1>2. CASE c.first
  <2> DEFINE a == [first |-> FALSE, min |-> v, max |-> v, sum |-> c.sum, count |-> c.count]
  <2>1. Add(c, v) = a
    BY <1>2 DEF Add
  <2>2. /\ a \in Meters /\ ~ a.first /\ a.count = 0 /\ a.sum = 0 /\ c.count = 0
    BY <1>1, <1>2 DEF Meters
  <2> QED
    BY <2>1, <2>2
<1>3. CASE ~ c.first
  <2> DEFINE lo == Smaller(c.min, v)
             hi == Larger(c.max, v)
             a == [first |-> FALSE, min |-> lo, max |-> hi, sum |-> c.sum + v,
                   count |-> c.count + 1]
  <2>1. Add(c, v) = a
    BY <1>3 DEF Add
  <2>2. lo \in Nat /\ hi \in Nat /\ lo <= c.min /\ lo <= v /\ c.max <= hi /\ v <= hi
    BY <1>1 DEF Smaller, Larger
  <2> HIDE DEF lo, hi
  <2>3. Between(lo, c.count, c.sum, hi)
    <3>1. CASE c.count > 0
      BY <1>1, <2>2, <3>1, Wider
    <3>2. CASE c.count = 0
      BY <1>1, <2>2, <3>2 DEF Between
    <3> QED
      BY <1>1, <3>1, <3>2
  <2>4. Between(lo, c.count + 1, c.sum + v, hi)
    BY <1>1, <2>2, <2>3, OneMore
  <2>5. /\ a \in Meters /\ ~ a.first /\ a.count > 0 /\ a.count # 0
        /\ Between(a.min, a.count, a.sum, a.max)
        /\ c.count <= a.count /\ a.min <= c.min /\ c.max <= a.max
    BY <1>1, <2>2, <2>4 DEF Meters
  <2> HIDE DEF a
  <2> QED
    BY <2>1, <2>5
<1> QED
  BY <1>1, <1>2, <1>3

\* A report, whatever String has read so far: the numbers it read stay
\* within the range the meter has afterwards.
LEMMA SampleStep ==
  ASSUME MeterInv, NEW v \in Nat, meter' = Add(meter, v), UNCHANGED <<reader, seen>>
  PROVE  MeterInv'
<1> DEFINE m == Add(meter, v)
<1>1. /\ meter \in Meters /\ seen \in Meters /\ reader \in 0 .. 3
      /\ seen.min \in Nat /\ seen.max \in Nat /\ seen.sum \in Nat /\ seen.count \in Nat
      /\ meter.min \in Nat /\ meter.max \in Nat /\ meter.count \in Nat
  BY DEF MeterInv, Meters
<1>2. /\ m \in Meters
      /\ ~ m.first
      /\ m.count > 0 => Between(m.min, m.count, m.sum, m.max)
      /\ m.count = 0 => m.sum = 0
      /\ meter.count <= m.count
      /\ meter.count > 0 => m.min <= meter.min /\ meter.max <= m.max
  BY <1>1, AddSample DEF MeterInv
<1> HIDE DEF m
<1>3. m.min \in Nat /\ m.max \in Nat /\ m.count \in Nat
  BY <1>2 DEF Meters
<1>4. meter' = m
  BY DEF m
<1>5. ASSUME reader > 0 PROVE seen.count <= m.count
  BY <1>1, <1>2, <1>3, <1>5 DEF MeterInv
<1>6. ASSUME reader > 0, seen.count > 0
      PROVE  Between(IF reader = 1 THEN m.min ELSE seen.min, seen.count, seen.sum,
                     IF reader < 3 THEN m.max ELSE seen.max)
  <2>1. meter.count > 0
    BY <1>1, <1>6 DEF MeterInv
  <2>2. PICK low \in Nat : low = IF reader = 1 THEN meter.min ELSE seen.min
    BY <1>1
  <2>3. PICK high \in Nat : high = IF reader < 3 THEN meter.max ELSE seen.max
    BY <1>1
  <2>4. PICK l \in Nat : l = IF reader = 1 THEN m.min ELSE seen.min
    BY <1>1, <1>3
  <2>5. PICK h \in Nat : h = IF reader < 3 THEN m.max ELSE seen.max
    BY <1>1, <1>3
  <2>6. Between(low, seen.count, seen.sum, high)
    BY <1>6, <2>2, <2>3 DEF MeterInv, Between
  <2>7. l <= low /\ high <= h
    BY <1>1, <1>2, <2>1, <2>2, <2>3, <2>4, <2>5
  <2>8. Between(l, seen.count, seen.sum, h)
    BY <1>1, <2>6, <2>7, Wider
  <2> QED
    BY <2>4, <2>5, <2>8, Zenon
<1> QED
  BY <1>1, <1>2, <1>4, <1>5, <1>6 DEF MeterInv, Between

\* String reads one number more, under the lock of the Counter.
LEMMA ReadStep ==
  ASSUME MeterInv, ReadNext
  PROVE  MeterInv'
<1>1. /\ meter \in Meters /\ seen \in Meters /\ reader \in 0 .. 3
      /\ meter' = meter /\ reader' = reader + 1 /\ reader < 3
  BY DEF MeterInv, ReadNext, StringOrder
<1>2. CASE reader = 0
  <2> DEFINE s == [first |-> seen.first, min |-> seen.min, max |-> seen.max,
                   sum |-> meter.sum, count |-> meter.count]
  <2>1. seen' = [seen EXCEPT !.sum = meter.sum, !.count = meter.count]
    BY <1>2 DEF ReadNext, StringOrder
  <2>2. [seen EXCEPT !.sum = meter.sum, !.count = meter.count] = s
    <3> DEFINE r == [first |-> seen.first, min |-> seen.min, max |-> seen.max,
                     sum |-> meter.sum, count |-> seen.count]
    <3>1. [seen EXCEPT !.sum = meter.sum] = r
      BY <1>1 DEF Meters
    <3>2. [r EXCEPT !.count = meter.count] = s
      OBVIOUS
    <3> HIDE DEF r, s
    <3> QED
      BY <3>1, <3>2, Zenon
  <2>3. s \in Meters
    BY <1>1 DEF Meters
  <2> QED
    BY <1>1, <1>2, <2>1, <2>2, <2>3 DEF MeterInv, Meters
<1>3. CASE reader = 1
  <2>1. seen' = [seen EXCEPT !.min = meter.min]
    BY <1>3 DEF ReadNext, StringOrder
  <2>2. [seen EXCEPT !.min = meter.min] =
          [first |-> seen.first, min |-> meter.min, max |-> seen.max,
           sum |-> seen.sum, count |-> seen.count]
    BY <1>1 DEF Meters
  <2> QED
    BY <1>1, <1>3, <2>1, <2>2 DEF MeterInv, Meters
<1>4. CASE reader = 2
  <2>1. seen' = [seen EXCEPT !.max = meter.max]
    BY <1>4 DEF ReadNext, StringOrder
  <2>2. [seen EXCEPT !.max = meter.max] =
          [first |-> seen.first, min |-> seen.min, max |-> meter.max,
           sum |-> seen.sum, count |-> seen.count]
    BY <1>1 DEF Meters
  <2> QED
    BY <1>1, <1>4, <2>1, <2>2 DEF MeterInv, Meters
<1> QED
  BY <1>1, <1>2, <1>3, <1>4

\* What String prints lies within the range it prints, whenever the
\* reports come between its three reads (latency.go:55-58).
THEOREM SummaryIsConsistent == Spec => []SummaryConsistent
<1>1. Init => MeterInv
  BY DEF Init, MeterInv, NoSamples, Meters
<1>2. PoolInv /\ MeterInv /\ [Next]_vars => MeterInv'
  <2> SUFFICES ASSUME PoolInv, MeterInv, [Next]_vars PROVE MeterInv'
    OBVIOUS
  <2>1. ASSUME UNCHANGED meterVars PROVE MeterInv'
    BY <2>1 DEF meterVars, MeterInv
  <2>2. ASSUME NEW t \in Threads, Report(t) PROVE MeterInv'
    <3>1. UNCHANGED <<reader, seen>>
      BY <2>2 DEF Report
    <3>2. CASE meter' = meter
      BY <2>1, <3>1, <3>2 DEF meterVars
    <3>3. CASE meter' = Add(meter, fields[msg[t]].io)
      <4>1. PICK v \in Nat : v = fields[msg[t]].io
        BY <2>2 DEF Report, PoolInv, Types, Fields
      <4> QED
        BY <3>1, <3>3, <4>1, SampleStep
    <3> QED
      BY <2>2, <3>2, <3>3 DEF Report
  <2>3. CASE ReadNext
    BY <2>3, ReadStep
  <2>4. CASE Stats
    <3>1. seen' = meter /\ meter' = meter /\ reader' = 3
      BY <2>4 DEF Stats, StringOrder
    <3>2. meter.count \in Nat /\ meter \in Meters
      BY DEF MeterInv, Meters
    <3>3. Between(meter.min, meter.count, meter.sum, meter.max) \/ ~ meter.count > 0
      BY DEF MeterInv
    <3>4. Between(meter.min, meter.count, meter.sum, meter.max)' <=>
            Between(meter.min, meter.count, meter.sum, meter.max)
      BY <3>1 DEF Between
    <3> QED
      BY <3>1, <3>2, <3>3, <3>4 DEF MeterInv, Between
  <2>5. CASE Forget
    BY <2>5 DEF Forget, MeterInv, NoSamples, Meters
  <2>6. ASSUME NEW t \in Threads,
               \/ ArenaGet(t) \/ PoolGet(t) \/ PoolCount(t)
               \/ Fill(t) \/ SetReport(t) \/ CancelReport(t)
               \/ \E l \in Latencies : SetIOLatency(t, l)
               \/ \E u \in Threads : Pass(t, u)
               \/ Discard(t) \/ ResetOld(t) \/ Put(t)
        PROVE  UNCHANGED meterVars
    BY <2>6 DEF ArenaGet, PoolGet, PoolCount, Fill, SetReport, CancelReport, Write,
                SetIOLatency, Pass, Discard, ResetOld, Put
  <2>7. ASSUME Collect \/ UNCHANGED vars PROVE UNCHANGED meterVars
    BY <2>7 DEF Collect, vars
  <2> QED
    BY <2>1, <2>2, <2>3, <2>4, <2>5, <2>6, <2>7 DEF Next
<1>3. MeterInv => SummaryConsistent
  BY DEF MeterInv, Between, SummaryConsistent, StringOrder
<1> QED
  BY <1>1, <1>2, <1>3, PoolInvariant, PTL DEF Spec
=============================================================================
