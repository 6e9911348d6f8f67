-------------------------- MODULE MCPluginManager --------------------------
(* PluginManager on two directories, two plugin ids and two builds each.   *)
EXTENDS PluginManager

CONSTANTS p, q, d1, d2, w1, w2

\* d1 is the directory id p sanitizes to, d2 that of q; a directory may all the same
\* hold a manifest of the other id (a static install).
MCManifests == {p, q}
MCIdOf == [m \in {p, q} |-> m]
MCSafeDir == [i \in {p, q} |-> IF i = p THEN d1 ELSE d2]
\* Build w2 of q does not load.
MCLoadable == ({p, q} \X {w1, w2}) \ {<<q, w2>>}
=============================================================================
