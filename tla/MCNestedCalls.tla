--------------------------- MODULE MCNestedCalls ---------------------------
(* Two ends, and a call from each to the other that is called back. *)
EXTENDS NestedCalls, TLC

CONSTANTS a, b, la, lb, r1, c1, r2, d1

MCPeer   == (a :> b) @@ (b :> a)
MCServer == (r1 :> b) @@ (c1 :> a) @@ (r2 :> a) @@ (d1 :> b)
MCParent == (r1 :> nil) @@ (c1 :> r1) @@ (r2 :> nil) @@ (d1 :> r2)

(* The default, one end without a lock, and one lock for both ends *)
MCLockChoices == {(a :> la) @@ (b :> lb), (a :> nil) @@ (b :> lb), (a :> la) @@ (b :> la)}
=============================================================================
