------------------------------ MODULE MCRpcTrace ------------------------------
(***************************************************************************)
(* Instance of RpcTrace for TLC: two peers with one XID each, which they   *)
(* use again for another procedure; one of the two is in the catalog.      *)
(***************************************************************************)
EXTENDS RpcTrace
=============================================================================
