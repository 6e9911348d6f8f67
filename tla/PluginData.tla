----------------------------- MODULE PluginData -----------------------------
(***************************************************************************)
(* The values that plugin pushes, files and instances are made of.  A      *)
(* manifest.toml and a plugin.wasm are opaque: of a manifest only its id   *)
(* matters, and a wasm module is identified with its fnv1a64 hash.         *)
(***************************************************************************)
CONSTANTS
  Ids,        (* manifest ids                                              *)
  Manifests,  (* manifest.toml texts                                       *)
  Wasms,      (* plugin.wasm contents                                      *)
  IdOf,       (* [Manifests -> Ids] : PluginManifest.id                    *)
  None        (* the absent value                                          *)

ASSUME DataAssumption ==
  /\ IdOf \in [Manifests -> Ids]
  /\ None \notin Ids \cup Manifests \cup Wasms

\* The (id, hash) of a dev-sync push, or None for work the user asked for.
Tag == (Ids \X Wasms) \cup {None}
=============================================================================
