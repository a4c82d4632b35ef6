-------------------------------- MODULE MCGoxdr --------------------------------
(***************************************************************************)
(* The command goxdr: the compiler (MCCompiler) and the runtime it writes  *)
(* into its output (MCXdrCodec).  They share no state, so that a behaviour *)
(* is one of the compiler or one of a compiled program, and the other half *)
(* stays as it begins.                                                     *)
(***************************************************************************)
EXTENDS MCCompiler, MCXdrCodec

VARIABLE half \* "compiler" or "program"

GoxdrInit ==
  \/ half = "compiler" /\ Init /\ XdrInit /\ typ = Array
  \/ /\ half = "program" /\ XdrInit
     /\ file = <<>> /\ decl = Nothing /\ phase = "written"
     /\ scan = NotScanned /\ code = NotParsed

OfCompiler == half = "compiler" /\ UNCHANGED <<half, xdrVars>>

OfProgram == half = "program" /\ UNCHANGED <<half, vars>>

\* The actions of Compiler!Next, and those of JsonNext.
GoxdrNext ==
  \/ OfCompiler /\ Scan
  \/ OfCompiler /\ Compile
  \/ \E v \in Values(typ) : OfProgram /\ Serialize(v)
  \/ OfProgram /\ Damage
  \/ OfProgram /\ Deserialize
  \/ OfProgram /\ GoOn
  \/ \E v \in Values(typ) : OfProgram /\ ViaJson(v)

GoxdrSpec == GoxdrInit /\ [][GoxdrNext]_<<vars, half, xdrVars>>
=============================================================================
