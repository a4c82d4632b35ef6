-------------------------------- MODULE MCDriver --------------------------------
(***************************************************************************)
(* Instances of Driver for TLC.  Requests are interchangeable, and so are  *)
(* messages, where no temporal property is checked.                        *)
(***************************************************************************)
EXTENDS Driver, TLC

Symmetry == Permutations(Reqs) \cup Permutations(Msgs)

FirstCall == CHOOSE c \in Calls : TRUE

\* Bound of the run driver: two calls of our own, begun in a fixed order, without a
\* request of the peer's, or one call with every request, whose XIDs are then
\* that call's, and whose context ends only beside one request.
TrafficBound ==
  \/ /\ received \cap Reqs = {}
     /\ caller[FirstCall] = "idle" => \A c \in Calls : caller[c] = "idle"
  \/ /\ \A c \in Calls \ {FirstCall} : caller[c] = "idle"
     /\ \A m \in Msgs : body[m].of \in Reqs => body[m].xid = 1
     /\ Reqs \subseteq received => callDone = {}
=============================================================================
