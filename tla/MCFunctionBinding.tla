-------------------------- MODULE MCFunctionBinding --------------------------
(* A worker bound to an echo function, a failing function, a name the      *)
(* function table does not hold and the empty name, which nothing in the   *)
(* constructor refuses.                                                    *)
EXTENDS FunctionBinding

MCFunctionNames == {"echo", "fail", "missing", ""}
MCStrings == {"", "a"}
=============================================================================
