---------------------------- MODULE MCHotReload -----------------------------
(* HotReload of one plugin, twice.                                         *)
EXTENDS HotReload
=============================================================================
