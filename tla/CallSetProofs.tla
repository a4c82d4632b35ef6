----------------------------- MODULE CallSetProofs -----------------------------
(***************************************************************************)
(* Proofs about CallSet, for any sets of calls, servers and objects and    *)
(* any number of XIDs.                                                     *)
(***************************************************************************)
EXTENDS CallSet, TLAPS

\* The ghosts agree with the list of calls made.
MadeOK ==
  /\ \A c \in Made : xidOf[c] \in Xids /\ serverOf[c] \in Servers
  /\ deleted \subseteq Made
  /\ \A c \in Calls \ Made : fired[c] = <<>> /\ held[c] = <<>>

\* What ReplyMatchesCall says of one completion of c.
Matches(c, r) ==
  /\ r.stat \in ReplyStats => r.from = serverOf[c]
  /\ r.answers \notin {c, nil} => SharesXid(c)

\* ReplyMatchesCall holds already of the callbacks still to be run.
CompletionsMatch ==
  \A c \in Calls :
    /\ \A i \in 1 .. Len(fired[c]) : Matches(c, fired[c][i])
    /\ \A i \in 1 .. Len(held[c]) : Matches(c, held[c][i])

TableInv == TypeOK /\ MadeOK /\ ObjectOwnership /\ TableEntriesMatch

IInv == TableInv /\ CallbackAtMostOnce /\ NoCallLost /\ CompletionsMatch

-----------------------------------------------------------------------------
\* Making a call adds it to the calls made.
LEMMA MadeAppend ==
  ASSUME NEW s \in Seq(Calls), NEW c \in Calls
  PROVE  {Append(s, c)[i] : i \in 1 .. Len(Append(s, c))}
           = {s[i] : i \in 1 .. Len(s)} \cup {c}
<1>1. Len(Append(s, c)) = Len(s) + 1 /\ Len(s) \in Nat
  OBVIOUS
<1>2. \A i \in 1 .. Len(s) : Append(s, c)[i] = s[i]
  OBVIOUS
<1>3. Append(s, c)[Len(s) + 1] = c
  OBVIOUS
<1>4. 1 .. (Len(s) + 1) = (1 .. Len(s)) \cup {Len(s) + 1}
  BY <1>1
<1>5. QED
  BY <1>1, <1>2, <1>3, <1>4, Zenon

\* The maker of a table entry is one of the calls, and is made.
LEMMA EntryOwner ==
  ASSUME TypeOK, TableEntriesMatch, NEW x \in Xids, calls[x] # nil
  PROVE  /\ calls[x] \in Objects
         /\ object[calls[x]].cb \in Calls
         /\ object[calls[x]].cb \in Made \ deleted
         /\ xidOf[object[calls[x]].cb] = x
         /\ object[calls[x]].server = serverOf[object[calls[x]].cb]
<1>1. calls[x] \in Objects
  BY DEF TypeOK
<1>2. Made \subseteq Calls
  BY DEF TypeOK, Made
<1>3. QED
  BY <1>1, <1>2 DEF TableEntriesMatch

-----------------------------------------------------------------------------
\* The table and its pool start empty and full.
LEMMA InitInv == Init => IInv
<1> SUFFICES ASSUME Init PROVE IInv
  OBVIOUS
<1>1. 0 \in Xids
  BY CallSetAssumption DEF Xids
<1>2. Made = {}
  BY DEF Init, Made
<1>3. TypeOK
  BY <1>1 DEF Init, TypeOK, EmptyObject
<1>4. MadeOK /\ ObjectOwnership /\ TableEntriesMatch
  BY <1>2 DEF Init, MadeOK, ObjectOwnership, TableEntriesMatch
<1>5. \A c \in Calls : fired[c] = <<>> /\ held[c] = <<>> /\ ~Pending(c)
  BY DEF Init, Pending
<1>6. Len(<<>>) = 0 /\ 1 .. 0 = {}
  OBVIOUS
<1>7. CallbackAtMostOnce
  <2>1. \A c \in Calls : Len(fired[c]) = 0 /\ Len(held[c]) = 0
    BY <1>5, <1>6
  <2>2. \A c \in Calls : Len(fired[c]) + Len(held[c]) <= 1
    <3>1. 0 + 0 <= 1
      OBVIOUS
    <3>2. QED
      BY <2>1, <3>1, Zenon
  <2>3. QED
    BY <1>5, <2>2, Zenon DEF CallbackAtMostOnce
<1>8. NoCallLost
  BY <1>2 DEF NoCallLost
<1>9. CompletionsMatch
  <2>1. \A c \in Calls : 1 .. Len(fired[c]) = {} /\ 1 .. Len(held[c]) = {}
    BY <1>5, <1>6
  <2>2. QED
    BY <2>1 DEF CompletionsMatch
<1>10. QED
  BY <1>3, <1>4, <1>7, <1>8, <1>9 DEF IInv, TableInv

-----------------------------------------------------------------------------
\* NewCall takes an object out of the pool, puts it at a free XID, and names
\* the call after both.
LEMMA NewCallInv ==
  ASSUME IInv, NEW c \in Calls, NEW s \in Servers, NewCall(c, s)
  PROVE  IInv'
<1> USE DEF IInv, TableInv
<1>1. PICK x \in Xids, o \in pool :
         /\ calls[x] = nil
         /\ lastXid' = x
         /\ calls' = [calls EXCEPT ![x] = o]
         /\ object' = [object EXCEPT ![o] = [cb |-> c, server |-> s]]
         /\ pool' = pool \ {o}
         /\ xidOf' = [xidOf EXCEPT ![c] = x]
  BY DEF NewCall, IsNextXid
<1>2. /\ c \notin Made
      /\ serverOf' = [serverOf EXCEPT ![c] = s]
      /\ order' = Append(order, c)
      /\ busy' = [busy EXCEPT ![c] = {y \in Xids : calls[y] # nil}]
      /\ UNCHANGED <<held, fired, deleted>>
  BY DEF NewCall
<1>3. Made' = Made \cup {c}
  <2>1. order \in Seq(Calls)
    BY DEF TypeOK
  <2>2. Made' = {Append(order, c)[i] : i \in 1 .. Len(Append(order, c))}
    BY <1>2, Zenon DEF Made
  <2>3. QED
    BY <2>1, <2>2, MadeAppend, Zenon DEF Made
<1>4. o \in Objects /\ nil \notin Objects /\ Made \subseteq Calls
  BY CallSetAssumption DEF TypeOK, Made
<1>5. TypeOK'
  BY <1>1, <1>2, <1>4 DEF TypeOK
<1>6. MadeOK'
  BY <1>1, <1>2, <1>3, <1>4 DEF MadeOK, TypeOK
<1>7. ObjectOwnership'
  BY <1>1, <1>4 DEF ObjectOwnership, TypeOK
<1>8. \A y \in Xids : calls[y] # nil =>
          /\ calls[y] \in Objects
          /\ object'[calls[y]] = object[calls[y]]
          /\ object[calls[y]].cb \in Made
  BY <1>1, EntryOwner DEF ObjectOwnership, TypeOK
<1>9. TableEntriesMatch'
  <2> SUFFICES ASSUME NEW y \in Xids, calls'[y] # nil
               PROVE  /\ object'[calls'[y]].cb \in (Made \ deleted)'
                      /\ xidOf'[object'[calls'[y]].cb] = y
                      /\ object'[calls'[y]].server = serverOf'[object'[calls'[y]].cb]
    BY DEF TableEntriesMatch
  <2>1. CASE y = x
    BY <2>1, <1>1, <1>2, <1>3, <1>4 DEF TypeOK, MadeOK
  <2>2. CASE y # x
    BY <2>2, <1>1, <1>2, <1>3, <1>4, <1>8 DEF TypeOK, TableEntriesMatch
  <2>3. QED
    BY <2>1, <2>2
<1>10. \A d \in Calls \ {c} : Pending(d)' <=> Pending(d)
  BY <1>1, <1>4, <1>8 DEF Pending, TypeOK
<1>11. Pending(c)'
  BY <1>1, <1>4 DEF Pending, TypeOK
<1>12. CallbackAtMostOnce'
  <2> SUFFICES ASSUME NEW d \in Calls
               PROVE  /\ Len(fired'[d]) + Len(held'[d]) <= 1
                      /\ Pending(d)' => held'[d] = <<>> /\ fired'[d] = <<>>
    BY DEF CallbackAtMostOnce
  <2>1. CASE d = c
    <3>1. fired'[d] = <<>> /\ held'[d] = <<>>
      BY <2>1, <1>2 DEF MadeOK
    <3>2. QED
      BY <3>1
  <2>2. CASE d # c
    BY <2>2, <1>2, <1>10 DEF CallbackAtMostOnce
  <2>3. QED
    BY <2>1, <2>2
<1>13. \A d \in Made : SharesXid(d) => SharesXid(d)'
  BY <1>1, <1>2, <1>3, <1>4 DEF SharesXid, TypeOK
<1>14. NoCallLost'
  BY <1>2, <1>3, <1>4, <1>10, <1>11, <1>13 DEF NoCallLost
<1>15. CompletionsMatch'
  <2> SUFFICES ASSUME NEW d \in Calls
               PROVE  /\ \A i \in 1 .. Len(fired'[d]) : Matches(d, fired[d][i])'
                      /\ \A i \in 1 .. Len(held'[d]) : Matches(d, held[d][i])'
    BY DEF CompletionsMatch
  <2>1. CASE d \in Made
    <3>1. serverOf'[d] = serverOf[d] /\ d # c
      BY <2>1, <1>2 DEF TypeOK
    <3>2. QED
      BY <2>1, <3>1, <1>2, <1>13 DEF CompletionsMatch, Matches
  <2>2. CASE d \notin Made
    BY <2>2, <1>2 DEF MadeOK
  <2>3. QED
    BY <2>1, <2>2
<1>16. QED
  BY <1>5, <1>6, <1>7, <1>9, <1>12, <1>14, <1>15

-----------------------------------------------------------------------------
(***************************************************************************)
(* Delete, Cancel, CancelAll and GetReply all take entries out of the      *)
(* table and recycle their objects.                                        *)
(***************************************************************************)
Removes(S) ==
  /\ calls' = [x \in Xids |-> IF x \in S THEN nil ELSE calls[x]]
  /\ Recycle({calls[x] : x \in S} \ {nil})
  /\ UNCHANGED <<lastXid, order, xidOf, serverOf, busy>>

\* What is left of the table after a removal is sound, and a call is pending
\* if its entry was not among those removed.
LEMMA RemovesTable ==
  ASSUME TableInv, NEW S \in SUBSET Xids, Removes(S),
         deleted' \in SUBSET Made, deleted \subseteq deleted',
         \A x \in Xids \ S : calls[x] # nil => object[calls[x]].cb \notin deleted'
  PROVE  /\ Made' = Made
         /\ calls' \in [Xids -> Objects \cup {nil}]
         /\ object' \in [Objects -> [cb : Calls \cup {nil}, server : Servers \cup {nil}]]
         /\ pool' \in SUBSET Objects
         /\ ObjectOwnership'
         /\ TableEntriesMatch'
         /\ \A c \in Calls : Pending(c)' <=>
              \E x \in Xids \ S : calls[x] # nil /\ object[calls[x]].cb = c
<1> USE CallSetAssumption DEF TableInv
<1> DEFINE gone == {calls[x] : x \in S} \ {nil}
<1>1. /\ calls' = [x \in Xids |-> IF x \in S THEN nil ELSE calls[x]]
      /\ object' = [o \in Objects |-> IF o \in gone THEN EmptyObject ELSE object[o]]
      /\ pool' = pool \cup gone
      /\ order' = order /\ xidOf' = xidOf /\ serverOf' = serverOf
  BY DEF Removes, Recycle
<1>2. Made' = Made
  BY <1>1, Zenon DEF Made
<1>3. gone \subseteq Objects
  BY DEF TypeOK
<1>4. \A x \in Xids \ S : calls[x] # nil => calls[x] \notin gone
  BY DEF ObjectOwnership
<1>5. EmptyObject \in [cb : Calls \cup {nil}, server : Servers \cup {nil}]
  BY DEF EmptyObject
<1>6. /\ calls' \in [Xids -> Objects \cup {nil}]
      /\ object' \in [Objects -> [cb : Calls \cup {nil}, server : Servers \cup {nil}]]
      /\ pool' \in SUBSET Objects
  BY <1>1, <1>3, <1>5 DEF TypeOK
<1> HIDE DEF gone
<1>7. \A x \in Xids : calls'[x] # nil =>
        x \notin S /\ calls'[x] = calls[x] /\ calls[x] # nil /\ calls[x] \notin gone
  BY <1>1, <1>4
<1>8. \A x \in Xids : calls'[x] # nil => object'[calls'[x]] = object[calls[x]]
  BY <1>1, <1>7 DEF TypeOK
<1>9. ObjectOwnership'
  <2>1. \A x \in Xids : calls'[x] # nil => calls'[x] \notin pool'
    BY <1>1, <1>7 DEF ObjectOwnership
  <2>2. \A x, y \in Xids : calls'[x] # nil /\ calls'[x] = calls'[y] => x = y
    BY <1>7 DEF ObjectOwnership
  <2>3. ASSUME NEW o \in Objects
        PROVE  o \in pool' \/ \E x \in Xids : calls'[x] = o
    <3>1. CASE o \in pool \cup gone
      BY <3>1, <1>1
    <3>2. CASE o \notin pool \cup gone
      <4>1. PICK x \in Xids : calls[x] = o
        BY <3>2 DEF ObjectOwnership
      <4>2. x \notin S
        BY <4>1, <3>2 DEF gone
      <4>3. QED
        BY <4>1, <4>2, <1>1
    <3>3. QED
      BY <3>1, <3>2
  <2>4. QED
    BY <2>1, <2>2, <2>3 DEF ObjectOwnership
<1>10. TableEntriesMatch'
  <2> SUFFICES ASSUME NEW x \in Xids, calls'[x] # nil
               PROVE  /\ object'[calls'[x]].cb \in Made \ deleted'
                      /\ xidOf[object'[calls'[x]].cb] = x
                      /\ object'[calls'[x]].server = serverOf[object'[calls'[x]].cb]
    BY <1>1, <1>2 DEF TableEntriesMatch
  <2>1. x \notin S /\ calls[x] # nil /\ object'[calls'[x]] = object[calls[x]]
    BY <1>7, <1>8
  <2>2. object[calls[x]].cb \notin deleted'
    BY <2>1
  <2>3. QED
    BY <2>1, <2>2 DEF TableEntriesMatch
<1>11. ASSUME NEW c \in Calls
       PROVE  Pending(c)' <=>
                \E x \in Xids \ S : calls[x] # nil /\ object[calls[x]].cb = c
  <2>1. Pending(c)' <=> \E x \in Xids : calls'[x] # nil /\ object'[calls'[x]].cb = c
    BY DEF Pending
  <2>2. \A x \in Xids \ S : calls'[x] = calls[x]
    BY <1>1
  <2>3. QED
    BY <2>1, <2>2, <1>7, <1>8
<1>12. QED
  BY <1>2, <1>6, <1>9, <1>10, <1>11

\* Removing the entry at x is the removal of one call: that of the entry.
LEMMA RemovesOne ==
  ASSUME TableInv, NEW x \in Xids, calls[x] # nil,
         calls' = [calls EXCEPT ![x] = nil], Recycle({calls[x]}),
         UNCHANGED <<lastXid, order, xidOf, serverOf, busy>>
  PROVE  /\ Removes({x})
         /\ \A c \in Calls :
              (\E y \in Xids \ {x} : calls[y] # nil /\ object[calls[y]].cb = c)
                <=> Pending(c) /\ c # object[calls[x]].cb
<1> USE DEF TableInv
<1>1. calls' = [y \in Xids |-> IF y \in {x} THEN nil ELSE calls[y]]
  BY DEF TypeOK
<1>2. {calls[y] : y \in {x}} \ {nil} = {calls[x]}
  OBVIOUS
<1>3. Removes({x})
  BY <1>1, <1>2 DEF Removes
<1>4. \A y \in Xids : calls[y] # nil => xidOf[object[calls[y]].cb] = y
  BY EntryOwner
<1>5. QED
  BY <1>3, <1>4 DEF Pending

\* A call keeps what it had: the ghosts it is judged by do not change.
LEMMA SameGhosts ==
  ASSUME Made' = Made, UNCHANGED <<xidOf, serverOf>>, NEW c
  PROVE  (SharesXid(c)' <=> SharesXid(c)) /\ \A r : Matches(c, r)' <=> Matches(c, r)
<1>1. SharesXid(c)' <=> SharesXid(c)
  BY DEF SharesXid
<1>2. QED
  BY <1>1 DEF Matches

\* Delete removes the entry, if there is one, and completes nothing.
LEMMA DeleteInv ==
  ASSUME IInv, NEW c \in Calls, Delete(c)
  PROVE  IInv'
<1> USE DEF IInv, TableInv
<1>1. /\ c \in Made \ deleted /\ deleted' = deleted \cup {c}
      /\ UNCHANGED <<lastXid, held, fired, order, xidOf, serverOf, busy>>
  BY DEF Delete
<1> DEFINE x == xidOf[c]
<1>2. x \in Xids /\ Made \subseteq Calls
  BY <1>1 DEF MadeOK, TypeOK, Made
<1>3. \A y \in Xids \ {x} : calls[y] # nil => object[calls[y]].cb # c
  BY <1>1, EntryOwner
<1>4. /\ Made' = Made
      /\ calls' \in [Xids -> Objects \cup {nil}]
      /\ object' \in [Objects -> [cb : Calls \cup {nil}, server : Servers \cup {nil}]]
      /\ pool' \in SUBSET Objects
      /\ ObjectOwnership'
      /\ TableEntriesMatch'
      /\ \A d \in Calls : Pending(d)' => Pending(d)
      /\ \A d \in Calls : Pending(d) /\ d # c => Pending(d)' \/ SharesXid(d)
  <2>1. CASE calls[x] = nil
    <3>1. UNCHANGED <<object, pool, calls>>
      BY <2>1 DEF Delete
    <3>2. Made' = Made
      BY <1>1, Zenon DEF Made
    <3>3. TableEntriesMatch'
      BY <1>1, <1>3, <2>1, <3>1, <3>2 DEF TableEntriesMatch
    <3>4. \A d \in Calls : Pending(d)' <=> Pending(d)
      BY <3>1 DEF Pending
    <3>5. QED
      BY <3>1, <3>2, <3>3, <3>4 DEF TypeOK, ObjectOwnership
  <2>2. CASE calls[x] # nil
    <3>1. calls' = [calls EXCEPT ![x] = nil] /\ Recycle({calls[x]})
      BY <2>2 DEF Delete
    <3>2. /\ Removes({x})
          /\ \A d \in Calls :
               (\E y \in Xids \ {x} : calls[y] # nil /\ object[calls[y]].cb = d)
                 <=> Pending(d) /\ d # object[calls[x]].cb
      BY <1>1, <1>2, <2>2, <3>1, RemovesOne
    <3>3. /\ {x} \in SUBSET Xids
          /\ deleted' \in SUBSET Made
          /\ deleted \subseteq deleted'
          /\ \A y \in Xids \ {x} : calls[y] # nil => object[calls[y]].cb \notin deleted'
      BY <1>1, <1>2, <1>3, EntryOwner DEF MadeOK
    <3>4. /\ Made' = Made
          /\ calls' \in [Xids -> Objects \cup {nil}]
          /\ object' \in [Objects -> [cb : Calls \cup {nil}, server : Servers \cup {nil}]]
          /\ pool' \in SUBSET Objects
          /\ ObjectOwnership'
          /\ TableEntriesMatch'
          /\ \A d \in Calls : Pending(d)' <=>
               \E y \in Xids \ {x} : calls[y] # nil /\ object[calls[y]].cb = d
      BY <3>2, <3>3, RemovesTable
    <3>5. object[calls[x]].cb \in Made /\ xidOf[object[calls[x]].cb] = x
      BY <1>2, <2>2, EntryOwner
    <3>6. ASSUME NEW d \in Calls, Pending(d), d # c
          PROVE  Pending(d)' \/ SharesXid(d)
      BY <1>1, <3>2, <3>4, <3>5, <3>6 DEF SharesXid
    <3>7. QED
      BY <3>2, <3>4, <3>6
  <2>3. QED
    BY <2>1, <2>2
<1>5. TypeOK'
  BY <1>1, <1>2, <1>4 DEF TypeOK
<1>6. MadeOK'
  BY <1>1, <1>4 DEF MadeOK
<1>7. CallbackAtMostOnce'
  BY <1>1, <1>4 DEF CallbackAtMostOnce
<1>8. \A d \in Calls : (SharesXid(d)' <=> SharesXid(d)) /\ \A r : Matches(d, r)' <=> Matches(d, r)
  BY <1>1, <1>4, SameGhosts
<1>9. NoCallLost'
  BY <1>1, <1>2, <1>3, <1>4, <1>8 DEF NoCallLost
<1>10. CompletionsMatch'
  BY <1>1, <1>8 DEF CompletionsMatch
<1>11. QED
  BY <1>4, <1>5, <1>6, <1>7, <1>9, <1>10

-----------------------------------------------------------------------------
\* The removals that complete the calls they remove: what is appended to the
\* completions of each must be well typed and match the call.
LEMMA CompletesInv ==
  ASSUME IInv, NEW S \in SUBSET Xids, Removes(S), deleted' = deleted,
         \A c \in Calls :
           \/ /\ fired'[c] = fired[c] /\ held'[c] = held[c]
              /\ \A x \in S : calls[x] # nil => object[calls[x]].cb # c
           \/ \E r \in Completions :
                /\ \E x \in S : calls[x] # nil /\ object[calls[x]].cb = c
                /\ Matches(c, r)
                /\ \/ fired'[c] = Append(fired[c], r) /\ held'[c] = held[c]
                   \/ held'[c] = Append(held[c], r) /\ fired'[c] = fired[c],
         fired' \in [Calls -> Seq(Completions)],
         held' \in [Calls -> Seq(Completions)]
  PROVE  IInv'
<1> USE DEF IInv, TableInv
<1> DEFINE Left(c) == \E x \in Xids \ S : calls[x] # nil /\ object[calls[x]].cb = c
           Gone(c) == \E x \in S : calls[x] # nil /\ object[calls[x]].cb = c
<1>1. /\ Made' = Made
      /\ calls' \in [Xids -> Objects \cup {nil}]
      /\ object' \in [Objects -> [cb : Calls \cup {nil}, server : Servers \cup {nil}]]
      /\ pool' \in SUBSET Objects
      /\ ObjectOwnership'
      /\ TableEntriesMatch'
      /\ \A c \in Calls : Pending(c)' <=> Left(c)
  <2>1. \A x \in Xids \ S : calls[x] # nil => object[calls[x]].cb \notin deleted'
    BY EntryOwner
  <2>2. deleted' \in SUBSET Made /\ deleted \subseteq deleted'
    BY DEF MadeOK
  <2>3. QED
    BY <2>1, <2>2, RemovesTable
<1>2. /\ UNCHANGED <<lastXid, order, xidOf, serverOf, busy>>
  BY DEF Removes
<1>3. TypeOK'
  BY <1>1, <1>2 DEF TypeOK
<1>4. \A c \in Calls : Pending(c) <=> Left(c) \/ Gone(c)
  BY DEF Pending
<1>5. \A c \in Calls : Gone(c) => c \in Made \ deleted
  BY EntryOwner
<1>6. \A c \in Calls : ~(Left(c) /\ Gone(c))
  <2>1. \A x \in Xids : calls[x] # nil => xidOf[object[calls[x]].cb] = x
    BY EntryOwner
  <2>2. QED
    BY <2>1
<1>7. \A c \in Calls :
        \/ ~Gone(c) /\ fired'[c] = fired[c] /\ held'[c] = held[c]
        \/ /\ Gone(c)
           /\ \E r \in Completions :
                /\ Matches(c, r)
                /\ \/ fired'[c] = Append(fired[c], r) /\ held'[c] = held[c]
                   \/ held'[c] = Append(held[c], r) /\ fired'[c] = fired[c]
  OBVIOUS
<1> HIDE DEF Left, Gone
<1>8. MadeOK'
  BY <1>1, <1>2, <1>5, <1>7 DEF MadeOK
<1>9. \A c \in Calls : fired[c] \in Seq(Completions) /\ held[c] \in Seq(Completions)
  BY DEF TypeOK
<1>10. CallbackAtMostOnce'
  <2> SUFFICES ASSUME NEW c \in Calls
               PROVE  /\ Len(fired'[c]) + Len(held'[c]) <= 1
                      /\ Pending(c)' => held'[c] = <<>> /\ fired'[c] = <<>>
    BY DEF CallbackAtMostOnce
  <2>1. CASE ~Gone(c)
    BY <2>1, <1>1, <1>4, <1>7 DEF CallbackAtMostOnce
  <2>2. CASE Gone(c)
    <3>1. fired[c] = <<>> /\ held[c] = <<>>
      BY <2>2, <1>4 DEF CallbackAtMostOnce
    <3>2. ~Pending(c)'
      BY <2>2, <1>1, <1>6
    <3>3. Len(fired'[c]) + Len(held'[c]) = 1
      <4>1. PICK r \in Completions :
              \/ fired'[c] = Append(fired[c], r) /\ held'[c] = held[c]
              \/ held'[c] = Append(held[c], r) /\ fired'[c] = fired[c]
        BY <2>2, <1>7
      <4>2. Append(<<>>, r) = <<r>> /\ Len(<<r>>) = 1 /\ Len(<<>>) = 0
        OBVIOUS
      <4>3. \/ fired'[c] = <<r>> /\ held'[c] = <<>>
            \/ held'[c] = <<r>> /\ fired'[c] = <<>>
        BY <4>1, <4>2, <3>1
      <4>4. CASE fired'[c] = <<r>> /\ held'[c] = <<>>
        <5>1. Len(fired'[c]) = 1 /\ Len(held'[c]) = 0
          BY <4>2, <4>4, Zenon
        <5>2. QED
          BY <5>1
      <4>5. CASE held'[c] = <<r>> /\ fired'[c] = <<>>
        <5>1. Len(held'[c]) = 1 /\ Len(fired'[c]) = 0
          BY <4>2, <4>5, Zenon
        <5>2. QED
          BY <5>1
      <4>6. QED
        BY <4>3, <4>4, <4>5
    <3>4. QED
      BY <3>2, <3>3
  <2>3. QED
    BY <2>1, <2>2
<1>11. \A c \in Calls : (SharesXid(c)' <=> SharesXid(c)) /\ \A r : Matches(c, r)' <=> Matches(c, r)
  BY <1>1, <1>2, SameGhosts
<1>12. \A c \in Calls : Gone(c) => fired'[c] # <<>> \/ held'[c] # <<>>
  BY <1>7, <1>9
<1>13. NoCallLost'
  <2> SUFFICES ASSUME NEW c \in Made \ deleted
               PROVE  Pending(c)' \/ held'[c] # <<>> \/ fired'[c] # <<>> \/ SharesXid(c)
    <3>1. Made \subseteq Calls
      BY DEF TypeOK, Made
    <3>2. QED
      BY <1>1, <1>11, <3>1 DEF NoCallLost
  <2>1. c \in Calls
    BY DEF TypeOK, Made
  <2>2. CASE Gone(c)
    BY <2>1, <2>2, <1>12
  <2>3. CASE ~Gone(c)
    BY <2>1, <2>3, <1>1, <1>4, <1>7 DEF NoCallLost
  <2>4. QED
    BY <2>2, <2>3
<1>14. CompletionsMatch'
  <2> SUFFICES ASSUME NEW c \in Calls
               PROVE  /\ \A i \in 1 .. Len(fired'[c]) : Matches(c, fired'[c][i])
                      /\ \A i \in 1 .. Len(held'[c]) : Matches(c, held'[c][i])
    BY <1>11 DEF CompletionsMatch
  <2>1. CASE ~Gone(c)
    BY <2>1, <1>7 DEF CompletionsMatch
  <2>2. CASE Gone(c)
    <3>1. PICK r \in Completions :
            /\ Matches(c, r)
            /\ \/ fired'[c] = Append(fired[c], r) /\ held'[c] = held[c]
               \/ held'[c] = Append(held[c], r) /\ fired'[c] = fired[c]
      BY <2>2, <1>7
    <3>2. fired[c] = <<>> /\ held[c] = <<>>
      BY <2>2, <1>4 DEF CallbackAtMostOnce
    <3>3. Append(<<>>, r) = <<r>>
      OBVIOUS
    <3>4. \/ fired'[c] = <<r>> /\ held'[c] = <<>>
          \/ held'[c] = <<r>> /\ fired'[c] = <<>>
      BY <3>1, <3>2, <3>3
    <3>5. \A i \in 1 .. Len(<<r>>) : <<r>>[i] = r
      OBVIOUS
    <3>6. \A i \in 1 .. Len(<<>>) : FALSE
      OBVIOUS
    <3>7. QED
      BY <3>1, <3>4, <3>5, <3>6
  <2>3. QED
    BY <2>1, <2>2
<1>15. QED
  BY <1>1, <1>3, <1>8, <1>10, <1>13, <1>14

\* Cancel completes the entry's call with the status given.
LEMMA CancelInv ==
  ASSUME IInv, NEW x \in Xids, NEW reason \in {"none", "SUCCESS", "SEND_ERR"},
         Cancel(x, reason)
  PROVE  IInv'
<1> USE DEF IInv, TableInv
<1> DEFINE c0 == object[calls[x]].cb
           r == [stat |-> CancelStat(reason), answers |-> nil, from |-> nil]
<1>1. /\ calls[x] # nil
      /\ fired' = [fired EXCEPT ![c0] = Append(@, r)]
      /\ calls' = [calls EXCEPT ![x] = nil]
      /\ Recycle({calls[x]})
      /\ UNCHANGED <<lastXid, held, order, xidOf, serverOf, deleted, busy>>
  BY DEF Cancel
<1>2. Removes({x})
  BY <1>1, RemovesOne
<1>3. r \in Completions /\ r.stat \notin ReplyStats /\ r.answers = nil
  BY DEF CancelStat, Completions, Stats, ReplyStats
<1>4. c0 \in Calls
  BY <1>1, EntryOwner
<1>5. \A c \in Calls : Matches(c, r)
  BY <1>3 DEF Matches
<1>6. fired' \in [Calls -> Seq(Completions)] /\ held' \in [Calls -> Seq(Completions)]
  BY <1>1, <1>3, <1>4 DEF TypeOK
<1>7. fired'[c0] = Append(fired[c0], r) /\ \A c \in Calls \ {c0} : fired'[c] = fired[c]
  BY <1>1, <1>4 DEF TypeOK
<1> HIDE DEF r
<1>8. \A c \in Calls :
        \/ /\ fired'[c] = fired[c] /\ held'[c] = held[c]
           /\ \A y \in {x} : calls[y] # nil => object[calls[y]].cb # c
        \/ \E q \in Completions :
             /\ \E y \in {x} : calls[y] # nil /\ object[calls[y]].cb = c
             /\ Matches(c, q)
             /\ \/ fired'[c] = Append(fired[c], q) /\ held'[c] = held[c]
                \/ held'[c] = Append(held[c], q) /\ fired'[c] = fired[c]
  BY <1>1, <1>3, <1>5, <1>7
<1>9. {x} \in SUBSET Xids
  OBVIOUS
<1>10. QED
  BY <1>1, <1>2, <1>6, <1>8, <1>9, CompletesInv

\* CancelAll completes every call of the table with CANCELED.
LEMMA CancelAllInv ==
  ASSUME IInv, CancelAll
  PROVE  IInv'
<1> USE DEF IInv, TableInv
<1> DEFINE r == [stat |-> "CANCELED", answers |-> nil, from |-> nil]
<1>1. /\ fired' = [c \in Calls |-> IF Pending(c) THEN Append(fired[c], r) ELSE fired[c]]
      /\ calls' = [x \in Xids |-> nil]
      /\ Recycle({calls[x] : x \in Xids} \ {nil})
      /\ UNCHANGED <<lastXid, held, order, xidOf, serverOf, deleted, busy>>
  BY DEF CancelAll
<1>2. Removes(Xids)
  BY <1>1 DEF Removes
<1>3. r \in Completions /\ r.stat \notin ReplyStats /\ r.answers = nil
  BY DEF Completions, Stats, ReplyStats
<1>4. \A c \in Calls : Matches(c, r)
  BY <1>3 DEF Matches
<1> HIDE DEF r
<1>5. fired' \in [Calls -> Seq(Completions)] /\ held' \in [Calls -> Seq(Completions)]
  BY <1>1, <1>3 DEF TypeOK
<1>6. \A c \in Calls :
        \/ /\ fired'[c] = fired[c] /\ held'[c] = held[c]
           /\ \A y \in Xids : calls[y] # nil => object[calls[y]].cb # c
        \/ \E q \in Completions :
             /\ \E y \in Xids : calls[y] # nil /\ object[calls[y]].cb = c
             /\ Matches(c, q)
             /\ \/ fired'[c] = Append(fired[c], q) /\ held'[c] = held[c]
                \/ held'[c] = Append(held[c], q) /\ fired'[c] = fired[c]
  BY <1>1, <1>3, <1>4 DEF Pending
<1>7. Xids \in SUBSET Xids
  OBVIOUS
<1>8. QED
  BY <1>1, <1>2, <1>5, <1>6, <1>7, CompletesInv

\* A reply taken for c comes from c's server, and carries the XID of c.
LEMMA GetReplyInv ==
  ASSUME IInv, NEW m \in ReplyMsgs, NEW stat \in ReplyStats, GetReply(m, stat)
  PROVE  IInv'
<1> USE DEF IInv, TableInv
<1> DEFINE x == m.xid
           c0 == object[calls[x]].cb
           r == [stat |-> stat, answers |-> m.answers, from |-> m.server]
<1>1. /\ calls[x] # nil
      /\ object[calls[x]].server = m.server
      /\ calls' = [calls EXCEPT ![x] = nil]
      /\ held' = [held EXCEPT ![c0] = Append(@, r)]
      /\ Recycle({calls[x]})
      /\ UNCHANGED <<lastXid, fired, order, xidOf, serverOf, deleted, busy>>
  BY DEF GetReply
<1>2. Made \subseteq Calls
  BY DEF TypeOK, Made
<1>3. /\ x \in Xids
      /\ m.server \in Servers
      /\ m.answers \in Made \cup {nil}
      /\ m.answers # nil => xidOf[m.answers] = x
  <2>1. CASE m \in [xid : Xids, server : Servers, answers : {nil}]
    BY <2>1
  <2>2. CASE \E c \in Made : m = [xid |-> xidOf[c], server |-> serverOf[c], answers |-> c]
    BY <2>2 DEF MadeOK
  <2>3. QED
    BY <2>1, <2>2 DEF ReplyMsgs
<1>4. /\ c0 \in Calls /\ c0 \in Made
      /\ xidOf[c0] = x
      /\ serverOf[c0] = m.server
  BY <1>1, <1>3, EntryOwner
<1>5. r \in Completions
  BY <1>2, <1>3 DEF Completions, Stats, ReplyStats
<1>6. Matches(c0, r)
  BY <1>3, <1>4 DEF Matches, SharesXid
<1>7. Removes({x})
  BY <1>1, <1>3, RemovesOne
<1>8. fired' \in [Calls -> Seq(Completions)] /\ held' \in [Calls -> Seq(Completions)]
  BY <1>1, <1>4, <1>5 DEF TypeOK
<1>9. held'[c0] = Append(held[c0], r) /\ \A c \in Calls \ {c0} : held'[c] = held[c]
  BY <1>1, <1>4 DEF TypeOK
<1> HIDE DEF r
<1>10. \A c \in Calls :
         \/ /\ fired'[c] = fired[c] /\ held'[c] = held[c]
            /\ \A y \in {x} : calls[y] # nil => object[calls[y]].cb # c
         \/ \E q \in Completions :
              /\ \E y \in {x} : calls[y] # nil /\ object[calls[y]].cb = c
              /\ Matches(c, q)
              /\ \/ fired'[c] = Append(fired[c], q) /\ held'[c] = held[c]
                 \/ held'[c] = Append(held[c], q) /\ fired'[c] = fired[c]
  BY <1>1, <1>5, <1>6, <1>9
<1>11. {x} \in SUBSET Xids
  BY <1>3
<1>12. QED
  BY <1>1, <1>7, <1>8, <1>10, <1>11, CompletesInv

\* The callback moves from held to fired with what it was told.
LEMMA RunCallbackInv ==
  ASSUME IInv, NEW c \in Calls, RunCallback(c)
  PROVE  IInv'
<1> USE DEF IInv, TableInv
<1>1. /\ held[c] # <<>>
      /\ fired' = [fired EXCEPT ![c] = Append(@, Head(held[c]))]
      /\ held' = [held EXCEPT ![c] = Tail(@)]
      /\ UNCHANGED <<lastXid, calls, object, pool, order, xidOf, serverOf, deleted, busy>>
  BY DEF RunCallback
<1>2. /\ fired[c] \in Seq(Completions) /\ held[c] \in Seq(Completions)
      /\ Len(held[c]) >= 1
  BY <1>1 DEF TypeOK
<1>3. Len(held[c]) = 1 /\ Len(fired[c]) = 0 /\ ~Pending(c)
  <2>1. Len(fired[c]) \in Nat /\ Len(held[c]) \in Nat
    BY <1>2
  <2>2. Len(fired[c]) + Len(held[c]) <= 1 /\ ~Pending(c)
    BY <1>1 DEF CallbackAtMostOnce
  <2>3. \A m, n \in Nat : m >= 1 /\ n + m <= 1 => m = 1 /\ n = 0
    OBVIOUS
  <2>4. QED
    BY <2>1, <2>2, <2>3, <1>2, Zenon
<1>4. fired[c] = <<>> /\ held[c] = <<held[c][1]>>
  BY <1>2, <1>3
<1>5. fired'[c] = <<held[c][1]>> /\ held'[c] = <<>>
  <2>1. Head(held[c]) = held[c][1] /\ Tail(<<held[c][1]>>) = <<>>
    BY <1>2
  <2>2. Append(<<>>, held[c][1]) = <<held[c][1]>>
    OBVIOUS
  <2>3. QED
    BY <2>1, <2>2, <1>1, <1>4 DEF TypeOK
<1>6. \A d \in Calls \ {c} : fired'[d] = fired[d] /\ held'[d] = held[d]
  BY <1>1 DEF TypeOK
<1>7. held[c][1] \in Completions /\ Matches(c, held[c][1])
  BY <1>2, <1>3 DEF CompletionsMatch
<1>8. Made' = Made
  BY <1>1, Zenon DEF Made
<1>9. \A d \in Calls : /\ SharesXid(d)' <=> SharesXid(d)
                       /\ \A r : Matches(d, r)' <=> Matches(d, r)
                       /\ Pending(d)' <=> Pending(d)
  BY <1>1, <1>8, SameGhosts DEF Pending
<1>10. TypeOK'
  <2>1. fired' \in [Calls -> Seq(Completions)] /\ held' \in [Calls -> Seq(Completions)]
    <3>1. Head(held[c]) \in Completions /\ Tail(held[c]) \in Seq(Completions)
      BY <1>1, <1>2
    <3>2. Append(fired[c], Head(held[c])) \in Seq(Completions)
      BY <1>2, <3>1
    <3>3. QED
      BY <1>1, <3>1, <3>2 DEF TypeOK
  <2>2. QED
    BY <2>1, <1>1 DEF TypeOK
<1>11. MadeOK'
  BY <1>1, <1>5, <1>6, <1>8 DEF MadeOK
<1>12. ObjectOwnership' /\ TableEntriesMatch'
  BY <1>1, <1>8 DEF ObjectOwnership, TableEntriesMatch
<1>13. CallbackAtMostOnce'
  <2> SUFFICES ASSUME NEW d \in Calls
               PROVE  /\ Len(fired'[d]) + Len(held'[d]) <= 1
                      /\ Pending(d)' => held'[d] = <<>> /\ fired'[d] = <<>>
    BY DEF CallbackAtMostOnce
  <2>1. CASE d = c
    BY <2>1, <1>3, <1>5, <1>9
  <2>2. CASE d # c
    BY <2>2, <1>6, <1>9 DEF CallbackAtMostOnce
  <2>3. QED
    BY <2>1, <2>2
<1>14. NoCallLost'
  <2> SUFFICES ASSUME NEW d \in Made \ deleted
               PROVE  Pending(d)' \/ held'[d] # <<>> \/ fired'[d] # <<>> \/ SharesXid(d)'
    BY <1>1, <1>8 DEF NoCallLost
  <2>1. d \in Calls
    BY DEF TypeOK, Made
  <2>2. CASE d = c
    BY <1>5, <2>2
  <2>3. CASE d # c
    BY <1>6, <1>9, <2>1, <2>3 DEF NoCallLost
  <2>4. QED
    BY <2>2, <2>3
<1>15. CompletionsMatch'
  <2> SUFFICES ASSUME NEW d \in Calls
               PROVE  /\ \A i \in 1 .. Len(fired'[d]) : Matches(d, fired'[d][i])
                      /\ \A i \in 1 .. Len(held'[d]) : Matches(d, held'[d][i])
    BY <1>9 DEF CompletionsMatch
  <2>1. CASE d = c
    BY <2>1, <1>5, <1>7
  <2>2. CASE d # c
    BY <2>2, <1>6 DEF CompletionsMatch
  <2>3. QED
    BY <2>1, <2>2
<1>16. QED
  BY <1>10, <1>11, <1>12, <1>13, <1>14, <1>15

-----------------------------------------------------------------------------
\* IInv is inductive.
LEMMA StepInv == IInv /\ [Next]_vars => IInv'
<1> SUFFICES ASSUME IInv, [Next]_vars PROVE IInv'
  OBVIOUS
<1>1. ASSUME NEW c \in Calls, NEW s \in Servers, NewCall(c, s) PROVE IInv'
  BY <1>1, NewCallInv
<1>2. ASSUME NEW c \in Calls, Delete(c) PROVE IInv'
  BY <1>2, DeleteInv
<1>3. ASSUME NEW x \in Xids, NEW reason \in {"none", "SUCCESS", "SEND_ERR"}, Cancel(x, reason)
      PROVE  IInv'
  BY <1>3, CancelInv
<1>4. CASE CancelAll
  BY <1>4, CancelAllInv
<1>5. ASSUME NEW m \in ReplyMsgs, NEW stat \in ReplyStats, GetReply(m, stat) PROVE IInv'
  BY <1>5, GetReplyInv
<1>6. ASSUME NEW c \in Calls, RunCallback(c) PROVE IInv'
  BY <1>6, RunCallbackInv
<1>7. CASE UNCHANGED vars
  <2>1. Made' = Made
    BY <1>7, Zenon DEF Made, vars
  <2>2. /\ UNCHANGED <<lastXid, calls, object, pool, held, fired, order>>
        /\ UNCHANGED <<xidOf, serverOf, deleted, busy>>
    BY <1>7 DEF vars
  <2>3. TypeOK' /\ MadeOK' /\ ObjectOwnership' /\ TableEntriesMatch'
    BY <2>1, <2>2 DEF IInv, TableInv, TypeOK, MadeOK, ObjectOwnership, TableEntriesMatch
  <2>4. \A c : Pending(c)' <=> Pending(c)
    BY <2>2 DEF Pending
  <2>5. \A c \in Calls : (SharesXid(c)' <=> SharesXid(c)) /\ \A r : Matches(c, r)' <=> Matches(c, r)
    BY <2>1, <2>2, SameGhosts
  <2>6. Made \subseteq Calls
    BY DEF IInv, TableInv, TypeOK, Made
  <2>7. CallbackAtMostOnce' /\ NoCallLost' /\ CompletionsMatch'
    BY <2>1, <2>2, <2>4, <2>5, <2>6
       DEF IInv, CallbackAtMostOnce, NoCallLost, CompletionsMatch
  <2>8. QED
    BY <2>3, <2>7 DEF IInv, TableInv
<1>8. QED
  BY <1>1, <1>2, <1>3, <1>4, <1>5, <1>6, <1>7 DEF Next

\* The inductive invariant holds of every behaviour of the table.
THEOREM Invariance == Spec => []IInv
<1>1. QED
  BY InitInv, StepInv, PTL DEF Spec

\* Type correctness of the table, whatever is done to it concurrently.
THEOREM TypeCorrect == Spec => []TypeOK
<1>1. IInv => TypeOK
  BY DEF IInv, TableInv
<1>2. QED
  BY <1>1, Invariance, PTL

\* A PendingCall is owned by the pool or by one table entry (util.go:126-199).
THEOREM ObjectsOwned == Spec => []ObjectOwnership
<1>1. IInv => ObjectOwnership
  BY DEF IInv, TableInv
<1>2. QED
  BY <1>1, Invariance, PTL

\* The table maps an XID to the call that carries it (util.go:98-123).
THEOREM TableMatches == Spec => []TableEntriesMatch
<1>1. IInv => TableEntriesMatch
  BY DEF IInv, TableInv
<1>2. QED
  BY <1>1, Invariance, PTL

\* SendCall's callback, which closes a channel, never runs twice.
THEOREM CallbackOnce == Spec => []CallbackAtMostOnce
<1>1. IInv => CallbackAtMostOnce
  BY DEF IInv
<1>2. QED
  BY <1>1, Invariance, PTL

\* A call still waited for can only be lost to another with the same XID.
THEOREM CallsNotLost == Spec => []NoCallLost
<1>1. IInv => NoCallLost
  BY DEF IInv
<1>2. QED
  BY <1>1, Invariance, PTL

\* A completion comes from the server called and answers the call.
THEOREM RepliesMatch == Spec => []ReplyMatchesCall
<1>1. IInv => ReplyMatchesCall
  BY DEF IInv, CompletionsMatch, Matches, ReplyMatchesCall
<1>2. QED
  BY <1>1, Invariance, PTL

\* Delete makes no callback and lets none start later.
THEOREM DeleteIsQuiet == Spec => NoCallbackAfterDelete
<1>1. IInv /\ [Next]_vars =>
        [\A c \in deleted : held[c] = <<>> => fired'[c] = fired[c]]_vars
  <2> SUFFICES ASSUME IInv, Next, NEW c \in deleted, held[c] = <<>>
               PROVE  fired'[c] = fired[c]
    OBVIOUS
  <2>1. TypeOK /\ TableEntriesMatch /\ c \in Calls
    BY DEF IInv, TableInv, TypeOK
  <2>2. ~Pending(c)
    BY <2>1, EntryOwner DEF Pending
  <2>3. ASSUME NEW d \in Calls, NEW s \in Servers, NewCall(d, s) PROVE fired' = fired
    BY <2>3 DEF NewCall
  <2>4. ASSUME NEW d \in Calls, Delete(d) PROVE fired' = fired
    BY <2>4 DEF Delete
  <2>5. ASSUME NEW x \in Xids, NEW reason \in {"none", "SUCCESS", "SEND_ERR"}, Cancel(x, reason)
        PROVE  fired'[c] = fired[c]
    <3>1. object[calls[x]].cb # c
      BY <2>2, <2>5 DEF Cancel, Pending
    <3>2. QED
      BY <2>1, <2>5, <3>1 DEF Cancel, TypeOK
  <2>6. CASE CancelAll
    BY <2>1, <2>2, <2>6 DEF CancelAll
  <2>7. ASSUME NEW m \in ReplyMsgs, NEW stat \in ReplyStats, GetReply(m, stat)
        PROVE  fired' = fired
    BY <2>7 DEF GetReply
  <2>8. ASSUME NEW d \in Calls, RunCallback(d) PROVE fired'[c] = fired[c]
    BY <2>1, <2>8 DEF RunCallback, TypeOK
  <2>9. QED
    BY <2>3, <2>4, <2>5, <2>6, <2>7, <2>8 DEF Next
<1>2. QED
  BY <1>1, Invariance, PTL DEF Spec, NoCallbackAfterDelete

-----------------------------------------------------------------------------
(***************************************************************************)
(* The search for a free XID.  It goes round the XIDs: those between the   *)
(* XID of a call and the last one given out have been given to later       *)
(* calls, or were in the table and so passed over.                         *)
(***************************************************************************)
After(x, k) == (x + k) % XidSpace

\* The XIDs that the search need not come to before that of c again.
Covered(c) == {xidOf[e] : e \in MadeAfter(c)} \cup busy[c]

\* The calls in the table are c, those there when c was made, and later ones.
PassedInv ==
  \A c \in Made, x \in Xids :
    calls[x] # nil => object[calls[x]].cb = c \/ x \in Covered(c)

SearchInv ==
  \A c \in Made :
    \/ Xids \ {xidOf[c]} \subseteq Covered(c)
    \/ \E k \in 0 .. XidSpace - 1 :
         /\ lastXid = After(xidOf[c], k)
         /\ \A j \in 1 .. k : After(xidOf[c], j) \in Covered(c)

XidInv == PassedInv /\ SearchInv

\* The counter wraps at most once in a search.
LEMMA AfterIs ==
  ASSUME NEW x \in Xids, NEW k \in 0 .. XidSpace
  PROVE  /\ After(x, k) = IF x + k < XidSpace THEN x + k ELSE x + k - XidSpace
         /\ After(x, k) \in Xids
<1>1. PICK N \in Nat : N = XidSpace /\ N > 0
  BY CallSetAssumption
<1>2. x \in 0 .. N - 1 /\ k \in 0 .. N
  BY <1>1 DEF Xids
<1>3. \A q, r \in Nat : r < N => (q * N + r) % N = r
  BY <1>1
<1>4. CASE x + k < N
  <2>1. (0 * N + (x + k)) % N = x + k
    BY <1>2, <1>3, <1>4
  <2>2. 0 * N + (x + k) = x + k
    BY <1>1, <1>2
  <2>3. QED
    BY <1>1, <1>2, <1>4, <2>1, <2>2 DEF After, Xids
<1>5. CASE ~(x + k < N)
  <2>1. (1 * N + (x + k - N)) % N = x + k - N
    <3>1. x + k - N \in Nat /\ x + k - N < N
      BY <1>1, <1>2, <1>5
    <3>2. QED
      BY <1>3, <3>1
  <2>2. 1 * N + (x + k - N) = x + k
    BY <1>1, <1>2
  <2>3. QED
    BY <1>1, <1>2, <1>5, <2>1, <2>2 DEF After, Xids
<1>6. QED
  BY <1>4, <1>5

\* Going on from where one got is going further; all the way round, it is
\* the whole circle but the start.
LEMMA AfterAdds ==
  ASSUME NEW x \in Xids, NEW k \in 0 .. XidSpace - 1
  PROVE  /\ \A j \in 1 .. XidSpace - 1 : j > k => After(x, j) = After(After(x, k), j - k)
         /\ \A j \in 1 .. XidSpace - 1 : After(x, j) # x
         /\ \A y \in Xids \ {x} : \E j \in 1 .. XidSpace - 1 : y = After(x, j)
<1>1. PICK N \in Nat : N = XidSpace /\ N > 0
  BY CallSetAssumption
<1>2. x \in 0 .. N - 1 /\ k \in 0 .. N - 1
  BY <1>1 DEF Xids
<1>3. \A u \in Xids, j \in 0 .. N :
        After(u, j) = (IF u + j < N THEN u + j ELSE u + j - N) /\ After(u, j) \in Xids
  BY <1>1, AfterIs
<1>4. ASSUME NEW j \in 1 .. XidSpace - 1, j > k
      PROVE  After(x, j) = After(After(x, k), j - k)
  <2>1. PICK u \in Xids : u = After(x, k)
    BY <1>1, <1>2, <1>3
  <2>2. u = IF x + k < N THEN x + k ELSE x + k - N
    BY <1>1, <1>2, <1>3, <2>1
  <2>3. j \in 0 .. N /\ j - k \in 0 .. N
    BY <1>1, <1>2, <1>4
  <2>4. After(u, j - k) = IF u + (j - k) < N THEN u + (j - k) ELSE u + (j - k) - N
    BY <1>3, <2>3
  <2>5. After(x, j) = IF x + j < N THEN x + j ELSE x + j - N
    BY <1>3, <2>3
  <2>6. u \in 0 .. N - 1
    BY <1>1 DEF Xids
  <2>7. After(x, j) = After(u, j - k)
    BY <1>1, <1>2, <1>4, <2>2, <2>4, <2>5, <2>6
  <2>8. QED
    BY <2>1, <2>7
<1>5. ASSUME NEW j \in 1 .. XidSpace - 1
      PROVE  After(x, j) # x
  <2>1. j \in 0 .. N
    BY <1>1
  <2>2. After(x, j) = IF x + j < N THEN x + j ELSE x + j - N
    BY <1>3, <2>1
  <2>3. QED
    BY <1>1, <1>2, <2>2
<1>6. ASSUME NEW y \in Xids \ {x}
      PROVE  \E j \in 1 .. XidSpace - 1 : y = After(x, j)
  <2>1. y \in 0 .. N - 1 /\ y # x
    BY <1>1, <1>6 DEF Xids
  <2>2. CASE y > x
    <3>1. PICK j \in 1 .. XidSpace - 1 : j = y - x
      BY <1>1, <1>2, <2>1, <2>2
    <3>2. After(x, j) = y
      BY <1>1, <1>2, <1>3, <2>1, <3>1
    <3>3. QED
      BY <3>2
  <2>3. CASE y < x
    <3>1. PICK j \in 1 .. XidSpace - 1 : j = y - x + N
      BY <1>1, <1>2, <2>1, <2>3
    <3>2. After(x, j) = y
      BY <1>1, <1>2, <1>3, <2>1, <2>3, <3>1
    <3>3. QED
      BY <3>2
  <2>4. QED
    BY <1>2, <2>1, <2>2, <2>3
<1>7. QED
  BY <1>4, <1>5, <1>6

\* The XIDs a search passes over are in the table, and covered unless c has them.
LEMMA SearchStep ==
  ASSUME IInv, XidInv, NEW c \in Made, NEW y \in Xids, IsNextXid(y)
  PROVE  \/ Xids \ {xidOf[c]} \subseteq Covered(c)
         \/ \E k \in 1 .. XidSpace - 1 :
              /\ y = After(xidOf[c], k)
              /\ \A j \in 1 .. k - 1 : After(xidOf[c], j) \in Covered(c)
<1>1. PICK N \in Nat : N = XidSpace /\ N > 0
  BY CallSetAssumption
<1>2. PICK x \in Xids : x = xidOf[c]
  BY DEF IInv, TableInv, MadeOK
<1>3. lastXid \in Xids
  BY DEF IInv, TableInv, TypeOK
<1>4. CASE Xids \ {xidOf[c]} \subseteq Covered(c)
  BY <1>4
<1>5. CASE ~(Xids \ {xidOf[c]} \subseteq Covered(c))
  <2>1. PICK k \in 0 .. XidSpace - 1 :
          /\ lastXid = After(x, k)
          /\ \A j \in 1 .. k : After(x, j) \in Covered(c)
    BY <1>2, <1>5 DEF XidInv, SearchInv
  <2>2. PICK m \in 1 .. XidSpace :
          /\ y = (lastXid + m) % XidSpace
          /\ \A j \in 1 .. m - 1 : calls[(lastXid + j) % XidSpace] # nil
    BY DEF IsNextXid
  <2>3. y = After(lastXid, m) /\ \A j \in 1 .. m - 1 : calls[After(lastXid, j)] # nil
    BY <2>2 DEF After
  \* Those passed over.
  <2>4. ASSUME NEW j \in 1 .. XidSpace - 1, j < k + m
        PROVE  After(x, j) \in Covered(c)
    <3>1. CASE j <= k
      BY <1>1, <2>1, <3>1
    <3>2. CASE j > k
      <4>1. After(x, j) = After(lastXid, j - k) /\ After(x, j) # x
        BY <2>1, <3>2, AfterAdds
      <4>2. j - k \in 1 .. m - 1
        BY <1>1, <2>4, <3>2
      <4>3. calls[After(x, j)] # nil
        BY <2>3, <4>1, <4>2
      <4>4. After(x, j) \in Xids
        <5>1. j \in 0 .. XidSpace
          BY <1>1
        <5>2. QED
          BY <5>1, AfterIs
      <4>5. xidOf[object[calls[After(x, j)]].cb] = After(x, j)
        BY <4>3, <4>4, EntryOwner DEF IInv, TableInv
      <4>6. object[calls[After(x, j)]].cb # c
        BY <1>2, <4>1, <4>5
      <4>7. QED
        BY <4>3, <4>4, <4>6 DEF XidInv, PassedInv
    <3>3. QED
      BY <1>1, <3>1, <3>2
  <2>5. CASE k + m < N
    <3>1. PICK h \in 1 .. XidSpace - 1 : h = k + m
      BY <1>1, <2>5
    <3>2. y = After(x, h)
      <4>1. h > k /\ h - k = m
        BY <1>1, <3>1
      <4>2. After(x, h) = After(After(x, k), h - k)
        BY <4>1, AfterAdds
      <4>3. QED
        BY <2>1, <2>3, <4>1, <4>2
    <3>3. \A j \in 1 .. h - 1 : After(x, j) \in Covered(c)
      <4>1. \A j \in 1 .. h - 1 : j \in 1 .. XidSpace - 1 /\ j < k + m
        BY <1>1, <3>1
      <4>2. QED
        BY <2>4, <4>1
    <3>4. QED
      BY <1>2, <3>2, <3>3
  <2>6. CASE ~(k + m < N)
    <3>1. \A j \in 1 .. XidSpace - 1 : j < k + m
      BY <1>1, <2>6
    <3>2. \A j \in 1 .. XidSpace - 1 : After(x, j) \in Covered(c)
      BY <2>4, <3>1
    <3>3. \A z \in Xids \ {x} : \E j \in 1 .. XidSpace - 1 : z = After(x, j)
      BY <2>1, AfterAdds
    <3>4. Xids \ {x} \subseteq Covered(c)
      BY <3>2, <3>3
    <3>5. QED
      BY <1>2, <3>4
  <2>7. QED
    BY <2>5, <2>6
<1>6. QED
  BY <1>4, <1>5

\* A new call is after all others.
LEMMA MadeAfterGrows ==
  ASSUME TypeOK, NEW d \in Calls, d \notin Made, order' = Append(order, d), NEW c \in Made
  PROVE  MadeAfter(c) \subseteq Made /\ MadeAfter(c)' = MadeAfter(c) \cup {d}
<1>1. PICK n \in Nat : n = Len(order)
  BY DEF TypeOK
<1>2. /\ Len(order') = n + 1 /\ order'[n + 1] = d
      /\ \A i \in 1 .. n : order'[i] = order[i]
  BY <1>1 DEF TypeOK
<1>3. MadeAfter(c) \subseteq Made
  BY <1>1 DEF MadeAfter, Made
<1>4. \A e : e \in MadeAfter(c) <=>
               \E j \in 1 .. n : e = order[j] /\ \E i \in 1 .. j - 1 : order[i] = c
  BY <1>1 DEF MadeAfter
<1>5. \A e : e \in MadeAfter(c)' <=>
               \E j \in 1 .. n + 1 : e = order'[j] /\ \E i \in 1 .. j - 1 : order'[i] = c
  BY <1>2 DEF MadeAfter
<1>6. PICK h \in 1 .. n : order[h] = c
  BY <1>1 DEF Made
<1>7. ASSUME NEW e \in MadeAfter(c) PROVE e \in MadeAfter(c)'
  <2>1. PICK j \in 1 .. n : e = order[j] /\ \E i \in 1 .. j - 1 : order[i] = c
    BY <1>4
  <2>2. PICK i \in 1 .. j - 1 : order[i] = c
    BY <2>1
  <2>3. /\ j \in 1 .. n + 1 /\ i \in 1 .. n
        /\ e = order'[j] /\ order'[i] = c
    BY <1>2, <2>1, <2>2
  <2>4. QED
    BY <1>5, <2>3
<1>8. d \in MadeAfter(c)'
  <2>1. n + 1 \in 1 .. n + 1 /\ h \in 1 .. n + 1 - 1 /\ order'[h] = c
    BY <1>2, <1>6
  <2>2. QED
    BY <1>2, <1>5, <2>1
<1>9. ASSUME NEW e \in MadeAfter(c)', e # d PROVE e \in MadeAfter(c)
  <2>1. PICK j \in 1 .. n + 1 : e = order'[j] /\ \E i \in 1 .. j - 1 : order'[i] = c
    BY <1>5
  <2>2. PICK i \in 1 .. j - 1 : order'[i] = c
    BY <2>1
  <2>3. j \in 1 .. n
    BY <1>2, <1>9, <2>1
  <2>4. i \in 1 .. n
    BY <2>3
  <2>5. e = order[j] /\ order[i] = c
    BY <1>2, <2>1, <2>2, <2>3, <2>4
  <2>6. QED
    BY <1>4, <2>2, <2>3, <2>5
<1>10. QED
  BY <1>3, <1>7, <1>8, <1>9

\* NewCall gives the XID its search ends at.
LEMMA NewCallXids ==
  ASSUME IInv, XidInv, NEW d \in Calls, NEW s \in Servers, NewCall(d, s)
  PROVE  XidInv'
<1>1. PICK x \in Xids, o \in pool :
         /\ IsNextXid(x)
         /\ lastXid' = x
         /\ calls' = [calls EXCEPT ![x] = o]
         /\ object' = [object EXCEPT ![o] = [cb |-> d, server |-> s]]
         /\ xidOf' = [xidOf EXCEPT ![d] = x]
  BY DEF NewCall
<1>2. /\ d \notin Made /\ order' = Append(order, d)
      /\ busy' = [busy EXCEPT ![d] = {y \in Xids : calls[y] # nil}]
  BY DEF NewCall
<1>3. TypeOK /\ MadeOK /\ ObjectOwnership /\ Made \subseteq Calls /\ o \in Objects
  BY DEF IInv, TableInv, TypeOK, Made
<1>4. Made' = Made \cup {d}
  <2>1. order \in Seq(Calls)
    BY <1>3 DEF TypeOK
  <2>2. Made' = {Append(order, d)[i] : i \in 1 .. Len(Append(order, d))}
    BY <1>2, Zenon DEF Made
  <2>3. QED
    BY <2>1, <2>2, MadeAppend, Zenon DEF Made
<1>5. /\ xidOf'[d] = x /\ \A c \in Made : xidOf'[c] = xidOf[c] /\ busy'[c] = busy[c]
      /\ busy'[d] = {y \in Xids : calls[y] # nil}
  BY <1>1, <1>2, <1>3 DEF TypeOK
<1>6. /\ calls'[x] = o /\ object'[o].cb = d
      /\ \A y \in Xids \ {x} : calls'[y] = calls[y]
      /\ \A y \in Xids \ {x} : calls[y] # nil => object'[calls[y]] = object[calls[y]]
  BY <1>1, <1>3 DEF TypeOK, ObjectOwnership
<1>7. ASSUME NEW c \in Made
      PROVE  Covered(c) \subseteq Covered(c)' /\ x \in Covered(c)'
  <2>1. MadeAfter(c) \subseteq Made /\ MadeAfter(c)' = MadeAfter(c) \cup {d}
    BY <1>2, <1>3, MadeAfterGrows
  <2>2. \A e \in MadeAfter(c) : xidOf'[e] = xidOf[e]
    BY <1>5, <2>1
  <2>3. busy'[c] = busy[c]
    BY <1>5
  <2>4. QED
    BY <1>5, <2>1, <2>2, <2>3 DEF Covered
<1>8. PassedInv'
  <2> SUFFICES ASSUME NEW c \in Made', NEW z \in Xids, calls'[z] # nil
               PROVE  object'[calls'[z]].cb = c \/ z \in Covered(c)'
    BY DEF PassedInv
  <2>1. CASE z = x /\ c = d
    BY <1>6, <2>1
  <2>2. CASE z = x /\ c # d
    BY <1>4, <1>7, <2>2
  <2>3. CASE z # x /\ c = d
    <3>1. z \in busy'[d]
      BY <1>5, <1>6, <2>3
    <3>2. QED
      BY <2>3, <3>1 DEF Covered
  <2>4. CASE z # x /\ c # d
    <3>1. c \in Made /\ calls'[z] = calls[z] /\ calls[z] # nil
      BY <1>4, <1>6, <2>4
    <3>2. object[calls[z]].cb = c \/ z \in Covered(c)
      BY <3>1 DEF XidInv, PassedInv
    <3>3. QED
      BY <1>6, <1>7, <2>4, <3>1, <3>2
  <2>5. QED
    BY <2>1, <2>2, <2>3, <2>4
<1>9. SearchInv'
  <2> SUFFICES ASSUME NEW c \in Made'
               PROVE  \/ Xids \ {xidOf'[c]} \subseteq Covered(c)'
                      \/ \E k \in 0 .. XidSpace - 1 :
                           /\ lastXid' = After(xidOf'[c], k)
                           /\ \A j \in 1 .. k : After(xidOf'[c], j) \in Covered(c)'
    BY DEF SearchInv, After
  <2>1. CASE c = d
    <3>1. XidSpace \in Nat /\ XidSpace > 0 /\ 0 \in 0 .. XidSpace /\ 0 \in 0 .. XidSpace - 1
      BY CallSetAssumption
    <3>2. After(x, 0) = x
      BY <3>1, AfterIs DEF Xids
    <3>3. lastXid' = After(xidOf'[c], 0) /\ \A j \in 1 .. 0 : After(xidOf'[c], j) \in Covered(c)'
      BY <1>1, <1>5, <2>1, <3>2
    <3>4. QED
      BY <3>1, <3>3
  <2>2. CASE c # d
    <3>1. c \in Made /\ xidOf'[c] = xidOf[c]
      BY <1>4, <1>5, <2>2
    <3>2. \/ Xids \ {xidOf[c]} \subseteq Covered(c)
          \/ \E k \in 1 .. XidSpace - 1 :
               /\ x = After(xidOf[c], k)
               /\ \A j \in 1 .. k - 1 : After(xidOf[c], j) \in Covered(c)
      BY <1>1, <3>1, SearchStep
    <3>3. CASE Xids \ {xidOf[c]} \subseteq Covered(c)
      BY <1>7, <3>1, <3>3
    <3>4. ASSUME NEW k \in 1 .. XidSpace - 1, x = After(xidOf[c], k),
                 \A j \in 1 .. k - 1 : After(xidOf[c], j) \in Covered(c)
          PROVE  /\ k \in 0 .. XidSpace - 1 /\ lastXid' = After(xidOf'[c], k)
                 /\ \A j \in 1 .. k : After(xidOf'[c], j) \in Covered(c)'
      <4>1. \A j \in 1 .. k : j = k \/ j \in 1 .. k - 1
        OBVIOUS
      <4>2. After(xidOf[c], k) \in Covered(c)'
        BY <1>7, <3>1, <3>4
      <4>3. \A j \in 1 .. k - 1 : After(xidOf[c], j) \in Covered(c)'
        BY <1>7, <3>1, <3>4
      <4>4. \A j \in 1 .. k : After(xidOf[c], j) \in Covered(c)'
        BY <4>1, <4>2, <4>3
      <4>5. QED
        BY <1>1, <3>1, <3>4, <4>4
    <3>5. QED
      BY <3>2, <3>3, <3>4
  <2>3. QED
    BY <2>1, <2>2
<1>10. QED
  BY <1>8, <1>9 DEF XidInv

\* Taking entries out of the table makes no difference to the search.
LEMMA FewerEntries ==
  ASSUME XidInv, UNCHANGED <<lastXid, order, xidOf, busy>>,
         \A x \in Xids : calls'[x] # nil =>
           calls[x] # nil /\ object'[calls'[x]].cb = object[calls[x]].cb
  PROVE  XidInv'
<1>1. Made' = Made /\ \A c : MadeAfter(c)' = MadeAfter(c)
  BY DEF Made, MadeAfter
<1>2. \A c : Covered(c)' = Covered(c)
  BY <1>1 DEF Covered
<1>3. PassedInv'
  BY <1>1, <1>2 DEF XidInv, PassedInv
<1>4. SearchInv'
  BY <1>1, <1>2 DEF XidInv, SearchInv, After
<1>5. QED
  BY <1>3, <1>4 DEF XidInv

\* The same for each operation that does.
LEMMA RemovesXids ==
  ASSUME IInv, XidInv, NEW S \in SUBSET Xids, Removes(S)
  PROVE  XidInv'
<1>1. /\ calls' = [x \in Xids |-> IF x \in S THEN nil ELSE calls[x]]
      /\ Recycle({calls[x] : x \in S} \ {nil})
      /\ UNCHANGED <<lastXid, order, xidOf, busy>>
  BY DEF Removes
<1>2. TypeOK /\ ObjectOwnership
  BY DEF IInv, TableInv
<1>3. ASSUME NEW x \in Xids, calls'[x] # nil
      PROVE  calls[x] # nil /\ object'[calls'[x]].cb = object[calls[x]].cb
  <2>1. x \notin S /\ calls'[x] = calls[x] /\ calls[x] \in Objects
    BY <1>1, <1>2, <1>3 DEF TypeOK
  <2>2. calls[x] \notin {calls[y] : y \in S} \ {nil}
    BY <1>2, <1>3, <2>1 DEF ObjectOwnership
  <2>3. object'[calls[x]] = object[calls[x]]
    BY <1>1, <2>1, <2>2 DEF Recycle
  <2>4. QED
    BY <1>3, <2>1, <2>3
<1>4. QED
  BY <1>1, <1>3, FewerEntries

\* Every operation keeps what is known of the search.
LEMMA StepXids == IInv /\ XidInv /\ [Next]_vars => XidInv'
<1> SUFFICES ASSUME IInv, XidInv, [Next]_vars PROVE XidInv'
  OBVIOUS
<1>1. ASSUME NEW d \in Calls, NEW s \in Servers, NewCall(d, s) PROVE XidInv'
  BY <1>1, NewCallXids
<1>2. ASSUME NEW d \in Calls, Delete(d) PROVE XidInv'
  <2>1. UNCHANGED <<lastXid, order, xidOf, serverOf, busy>> /\ d \in Made
    BY <1>2 DEF Delete
  <2>2. PICK x \in Xids : x = xidOf[d]
    BY <2>1 DEF IInv, TableInv, MadeOK
  <2>3. CASE calls[x] = nil
    <3>1. UNCHANGED <<calls, object>>
      BY <1>2, <2>2, <2>3 DEF Delete
    <3>2. QED
      BY <2>1, <3>1, FewerEntries
  <2>4. CASE calls[x] # nil
    <3>1. calls' = [calls EXCEPT ![x] = nil] /\ Recycle({calls[x]})
      BY <1>2, <2>2, <2>4 DEF Delete
    <3>2. Removes({x})
      BY <2>1, <2>4, <3>1, RemovesOne DEF IInv
    <3>3. QED
      BY <3>2, RemovesXids
  <2>5. QED
    BY <2>3, <2>4
<1>3. ASSUME NEW x \in Xids, NEW reason \in {"none", "SUCCESS", "SEND_ERR"}, Cancel(x, reason)
      PROVE  XidInv'
  <2>1. /\ calls[x] # nil /\ calls' = [calls EXCEPT ![x] = nil] /\ Recycle({calls[x]})
        /\ UNCHANGED <<lastXid, order, xidOf, serverOf, busy>>
    BY <1>3 DEF Cancel
  <2>2. Removes({x})
    BY <2>1, RemovesOne DEF IInv
  <2>3. QED
    BY <2>2, RemovesXids
<1>4. CASE CancelAll
  <2>1. Removes(Xids)
    BY <1>4 DEF CancelAll, Removes
  <2>2. QED
    BY <2>1, RemovesXids
<1>5. ASSUME NEW m \in ReplyMsgs, NEW stat \in ReplyStats, GetReply(m, stat) PROVE XidInv'
  <2>1. PICK x \in Xids : x = m.xid
    BY DEF ReplyMsgs, IInv, TableInv, MadeOK
  <2>2. /\ calls[x] # nil /\ calls' = [calls EXCEPT ![x] = nil] /\ Recycle({calls[x]})
        /\ UNCHANGED <<lastXid, order, xidOf, serverOf, busy>>
    BY <1>5, <2>1 DEF GetReply
  <2>3. Removes({x})
    BY <2>2, RemovesOne DEF IInv
  <2>4. QED
    BY <2>3, RemovesXids
<1>6. ASSUME NEW d \in Calls, RunCallback(d) PROVE XidInv'
  <2>1. UNCHANGED <<lastXid, calls, object, order, xidOf, busy>>
    BY <1>6 DEF RunCallback
  <2>2. QED
    BY <2>1, FewerEntries
<1>7. CASE UNCHANGED vars
  <2>1. UNCHANGED <<lastXid, calls, object, order, xidOf, busy>>
    BY <1>7 DEF vars
  <2>2. QED
    BY <2>1, FewerEntries
<1>8. QED
  BY <1>1, <1>2, <1>3, <1>4, <1>5, <1>6, <1>7 DEF Next

\* An XID comes back as late as the search can make it: after every other XID
\* was given to a later call or passed over because it was in use.
THEOREM XidsReusedLast == Spec => XidReusedLast
<1>1. Init => XidInv
  <2>1. Init => Made = {}
    BY DEF Init, Made
  <2>2. QED
    BY <2>1 DEF XidInv, PassedInv, SearchInv
<1>2. IInv /\ XidInv /\ [Next]_vars =>
        [\A d \in Made' \ Made : \A c \in Made :
           xidOf'[d] = xidOf[c] =>
             Xids \ {xidOf[c]} \subseteq {xidOf[e] : e \in MadeAfter(c)} \cup busy[c]]_vars
  <2> SUFFICES ASSUME IInv, XidInv, Next, NEW d \in Made' \ Made, NEW c \in Made,
                      xidOf'[d] = xidOf[c]
               PROVE  Xids \ {xidOf[c]} \subseteq Covered(c)
    BY DEF Covered
  <2>1. order' # order
    BY DEF Made
  <2>2. PICK b \in Calls, s \in Servers : NewCall(b, s)
    BY <2>1 DEF Next, Delete, Cancel, CancelAll, GetReply, RunCallback
  <2>3. PICK x \in Xids : IsNextXid(x) /\ xidOf' = [xidOf EXCEPT ![b] = x]
    BY <2>2 DEF NewCall
  <2>4. d = b
    <3>1. order \in Seq(Calls) /\ order' = Append(order, b)
      BY <2>2 DEF NewCall, IInv, TableInv, TypeOK
    <3>2. Made' = {Append(order, b)[i] : i \in 1 .. Len(Append(order, b))}
      BY <3>1, Zenon DEF Made
    <3>3. Made' = Made \cup {b}
      BY <3>1, <3>2, MadeAppend, Zenon DEF Made
    <3>4. QED
      BY <3>3
  <2>5. xidOf[c] = x /\ x \in Xids
    BY <2>3, <2>4 DEF IInv, TableInv, TypeOK
  <2>6. \A k \in 1 .. XidSpace - 1 : After(x, k) # x
    <3>1. 0 \in 0 .. XidSpace - 1
      BY CallSetAssumption
    <3>2. QED
      BY <3>1, AfterAdds
  <2>7. QED
    BY <2>3, <2>5, <2>6, SearchStep
<1>3. QED
  BY <1>1, <1>2, StepXids, Invariance, PTL DEF Spec, XidReusedLast
=============================================================================
