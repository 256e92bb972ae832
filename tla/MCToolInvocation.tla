-------------------------- MODULE MCToolInvocation --------------------------
(* Instances of ToolInvocation: a file read and a coding tool.              *)
EXTENDS ToolInvocation

CONSTANTS f, b
=============================================================================
