------------------------------ MODULE MCProgress ------------------------------
(***************************************************************************)
(* Small instances of Progress for TLC, over the graphs of MCExecutor.     *)
(***************************************************************************)
EXTENDS Progress, MCExecutor
===============================================================================
