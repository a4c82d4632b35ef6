---------------------------- MODULE MCRecordMarking ----------------------------
(***************************************************************************)
(* Instances of RecordMarking for TLC: messages that are empty, fill one   *)
(* fragment exactly, spill over by a byte, reach the size limit, pass it.  *)
(***************************************************************************)
EXTENDS RecordMarking
=============================================================================
