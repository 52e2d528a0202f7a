--------------------------- MODULE MCVmirExecution ---------------------------
(***************************************************************************)
(* The programs of MCVmirPrograms, executed.                               *)
(***************************************************************************)
EXTENDS MCVmirPrograms, VmirExecution

MCCode == LET lowered == CompiledCode IN lowered
=============================================================================
