------------------------------ MODULE MCPaths -------------------------------
(* The executor alone on the functions of MCContract.                      *)
EXTENDS SymExec, MCContract
=============================================================================
