---------------------------- MODULE MCStreamExec ----------------------------
(***************************************************************************)
(* StreamExec for TLC.  Three keys over two rules: two safe calls that     *)
(* share a rule the host is asked about, and a sequential call the rules   *)
(* allow.                                                                  *)
(***************************************************************************)
EXTENDS StreamExec

MCKeys   == {"read1", "read2", "edit"}
MCRules  == {"read", "edit"}
MCRuleOf == [k \in MCKeys |-> IF k = "edit" THEN "edit" ELSE "read"]
MCSafe   == {"read1", "read2"}
MCAllowed == {"edit"}
=============================================================================
