------------------------------ MODULE MCDevLoop ------------------------------
(* DevLoop: two crates to serve, the second save of a crate's code broken, *)
(* three builds to cache, and a guest that is replaced twice.              *)
EXTENDS DevLoop

MCPaths == <<"widget", "clock">>
=============================================================================
