---------------------------- MODULE CompileCache ----------------------------
(***************************************************************************)
(* compile_cached (crates/plugin-host, plugin.rs): the artifact compiled   *)
(* from plugin.wasm is kept beside it as plugin.cwasm, and the hash of the *)
(* wasm it came from in plugin.cwasm.key.  They are two files, written one *)
(* after the other; the process can be killed, and a write can fail, at    *)
(* any point, leaving a file torn.  One loader thread uses the directory.  *)
(*                                                                         *)
(* Module::deserialize (external) refuses an artifact that is torn or was  *)
(* made by another version of the engine; it cannot tell which wasm an     *)
(* artifact was compiled from.                                             *)
(***************************************************************************)
EXTENDS Naturals

CONSTANTS
  Wasms,       (* plugin.wasm contents, identified with their hash         *)
  None,        (* the absent value                                         *)
  Torn,        (* content of a file whose write was cut short              *)
  MaxVersion,  (* bound: engine versions, one per update of the app        *)
  MaxFaults    (* bound: failed writes and kills of the app                *)

Artifact == [wasm : Wasms, version : 0..MaxVersion]
Call == [at : {"lookup", "compile", "artifact", "key"}, wasm : Wasms]
Loaded == [asked : Wasms, runs : Wasms]

\* The absent value and a torn content are none of the others.
CacheAssumption ==
  /\ None \notin Wasms \cup Artifact \cup Call \cup Loaded
  /\ Torn \notin Wasms \cup Artifact \cup {None}
  /\ MaxVersion \in Nat /\ MaxFaults \in Nat

VARIABLES
  artifact,   (* plugin.cwasm                                              *)
  key,        (* plugin.cwasm.key                                          *)
  version,    (* the engine's version in this app                          *)
  call,       (* compile_cached in progress: its step and wasm, or None    *)
  loaded,     (* what the last call returned: asked for and running        *)
  split,      (* history: an artifact was replaced and its key then was not *)
  faults      (* counter of its bound                                      *)

cacheVars == <<artifact, key, version, call, loaded, split, faults>>

\* Every variable has its type: what runs was compiled from some plugin.wasm, never taken
\* from a torn file (compile_cached).
TypeOK ==
  /\ artifact \in Artifact \cup {None, Torn}
  /\ key \in Wasms \cup {None, Torn}
  /\ version \in 0..MaxVersion
  /\ call \in Call \cup {None}
  /\ loaded \in Loaded \cup {None}
  /\ split \in BOOLEAN
  /\ faults \in 0..MaxFaults

Init ==
  /\ artifact = None /\ key = None /\ version = 0
  /\ call = None /\ loaded = None /\ split = FALSE /\ faults = 0

Load(w) ==
  /\ call = None
  /\ call' = [at |-> "lookup", wasm |-> w]
  /\ loaded' = None
  /\ UNCHANGED <<artifact, key, version, split, faults>>

Return(runs) == call' = None /\ loaded' = [asked |-> call.wasm, runs |-> runs]

Deserializes == artifact \in Artifact /\ artifact.version = version

\* Mutant: the key alone is trusted, the artifact runs whatever it holds.
HitByKey ==
  /\ call # None /\ call.at = "lookup"
  /\ key = call.wasm /\ artifact # None
  /\ Return(IF artifact = Torn THEN Torn ELSE artifact.wasm)
  /\ UNCHANGED <<artifact, key, version, split, faults>>

Hit ==
  /\ call # None /\ call.at = "lookup"
  /\ key = call.wasm /\ Deserializes
  /\ Return(artifact.wasm)
  /\ UNCHANGED <<artifact, key, version, split, faults>>

Miss ==
  /\ call # None /\ call.at = "lookup"
  /\ ~(key = call.wasm /\ Deserializes)
  /\ call' = [call EXCEPT !.at = "compile"]
  /\ UNCHANGED <<artifact, key, version, loaded, split, faults>>

\* Module::new; without serialize the module is just not cached.
Compile ==
  /\ call # None /\ call.at = "compile"
  /\ \/ call' = [call EXCEPT !.at = "artifact"] /\ UNCHANGED loaded
     \/ Return(call.wasm)
  /\ UNCHANGED <<artifact, key, version, split, faults>>

Replaced == [wasm |-> call.wasm, version |-> version]

WriteArtifact ==
  /\ call # None /\ call.at = "artifact"
  /\ artifact' = Replaced
  /\ call' = [call EXCEPT !.at = "key"]
  /\ UNCHANGED <<key, version, loaded, split, faults>>

\* Mutant: the key is written although the artifact was not.
ArtifactFailsUnseen ==
  /\ call # None /\ call.at = "artifact"
  /\ faults < MaxFaults /\ faults' = faults + 1
  /\ artifact' \in {artifact, Torn}
  /\ key' = call.wasm
  /\ Return(call.wasm)
  /\ UNCHANGED <<version, split>>

\* The failed write may have truncated the file; the key is then left alone.
ArtifactFails ==
  /\ call # None /\ call.at = "artifact"
  /\ faults < MaxFaults /\ faults' = faults + 1
  /\ artifact' \in {artifact, Torn}
  /\ Return(call.wasm)
  /\ UNCHANGED <<key, version, split>>

WriteKey ==
  /\ call # None /\ call.at = "key"
  /\ key' = call.wasm /\ split' = FALSE
  /\ Return(call.wasm)
  /\ UNCHANGED <<artifact, version, faults>>

KeyFails ==
  /\ call # None /\ call.at = "key"
  /\ faults < MaxFaults /\ faults' = faults + 1
  /\ \/ key' = Torn /\ UNCHANGED split
     \/ UNCHANGED key /\ split' = TRUE
  /\ Return(call.wasm)
  /\ UNCHANGED <<artifact, version>>

\* The app is killed, perhaps in the middle of a write.
Kill ==
  /\ faults < MaxFaults /\ faults' = faults + 1
  /\ artifact' \in IF call # None /\ call.at = "artifact" THEN {artifact, Torn} ELSE {artifact}
  /\ \/ /\ call # None /\ call.at = "key"
        /\ key' = Torn /\ UNCHANGED split
     \/ /\ UNCHANGED key
        /\ split' = (split \/ (call # None /\ call.at = "key"))
  /\ call' = None /\ loaded' = None
  /\ UNCHANGED version

\* The app is updated, with another engine.
Update ==
  /\ call = None /\ version < MaxVersion
  /\ version' = version + 1 /\ loaded' = None
  /\ UNCHANGED <<artifact, key, call, split, faults>>

Next ==
  \/ \E w \in Wasms : Load(w)
  \/ Hit \/ Miss \/ Compile \/ WriteArtifact \/ ArtifactFails \/ WriteKey \/ KeyFails
  \/ Kill \/ Update

Spec == Init /\ [][Next]_cacheVars

-----------------------------------------------------------------------------
(* Properties.                                                             *)

RunsWhatWasAsked == loaded # None => loaded.runs = loaded.asked

\* Unless a key write was lost after its artifact had been replaced, the module that
\* runs is the one compiled from the plugin.wasm asked for, across torn files, failed
\* writes, kills and updates of the engine (compile_cached's order of writes).
CacheIsRight == ~split => RunsWhatWasAsked

\* plugin.rs:423, "A stale, corrupt, or version-incompatible artifact silently falls back to a
\* fresh compile": what runs was compiled from the plugin.wasm asked for.
StaleArtifactIsNotRun == RunsWhatWasAsked
=============================================================================
