------------------------------ MODULE ObjectPool ------------------------------
(***************************************************************************)
(* What a pool of objects promises the goroutines that share it: an object *)
(* has one user, from the moment it is handed out until that user, or      *)
(* another goroutine it was passed to, gives it back.                      *)
(***************************************************************************)
CONSTANTS Threads, Objects

VARIABLE uses  \* the pairs <<thread, object>> of objects in use

Init == uses = {}

Get(t, o) ==
  /\ \A u \in uses : u[2] # o
  /\ uses' = uses \cup {<<t, o>>}

Pass(t, u, o) ==
  /\ <<t, o>> \in uses
  /\ uses' = (uses \ {<<t, o>>}) \cup {<<u, o>>}

GiveBack(t, o) ==
  /\ <<t, o>> \in uses
  /\ uses' = uses \ {<<t, o>>}

Next ==
  \E t \in Threads, o \in Objects :
    \/ Get(t, o)
    \/ \E u \in Threads : Pass(t, u, o)
    \/ GiveBack(t, o)

Spec == Init /\ [][Next]_uses
=============================================================================
