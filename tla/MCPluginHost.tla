---------------------------- MODULE MCPluginHost ----------------------------
(* PluginHost with plugins p and q: m is a second manifest of p.  Each cfg *)
(* says which of them, and how many builds, it has.                        *)
EXTENDS PluginHost

CONSTANTS p, m, q, d1, d2, w1, w2

MCIdOf == [x \in Manifests |-> IF x = q THEN q ELSE p]
MCSafeDir == [i \in Ids |-> IF i = q THEN d2 ELSE d1]
MCLoadable == Manifests \X Wasms
=============================================================================
