--------------------------- MODULE MCCompileCache ---------------------------
(* CompileCache with three builds of one plugin.                           *)
EXTENDS CompileCache
=============================================================================
