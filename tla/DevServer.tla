----------------------------- MODULE DevServer ------------------------------
(***************************************************************************)
(* `cargo egui-ios plugin serve` (crates/cargo-egui-ios, plugin_cmd.rs):   *)
(* one builder thread first builds every plugin crate once, in order, then *)
(* watches their trees and rebuilds what changed; the result of each build *)
(* replaces the crate's entry in the served map.  The developer saves      *)
(* files at any moment, during a build too.                                *)
(*                                                                         *)
(* The tree of a crate is its manifest version and its code version, both  *)
(* counted up by saves.  build_plugin reads the manifest first; cargo      *)
(* reads the code some time later.  An entry is named by its crate (crates *)
(* have distinct manifest ids).                                            *)
(***************************************************************************)
EXTENDS Naturals, Sequences, FiniteSets

CONSTANTS
  Paths,      (* the plugin crates, in the order `serve` builds them       *)
  Broken,     (* code versions of any crate that do not compile            *)
  Nothing,    (* the absent value                                          *)
  MaxSaves    (* bound: saves of the developer                             *)

ServerAssumption ==
  /\ Paths \in Seq(STRING) /\ Paths # <<>>   (* serve refuses an empty list *)
  /\ Broken \subseteq Nat \ {0}
  /\ MaxSaves \in Nat

VARIABLES
  tree,       (* what is saved: per crate, its manifest and code version   *)
  served,     (* ServeState: per crate the entry served, or Nothing        *)
  stamps,     (* watch_loop's tree_stamp per crate, Nothing before it runs *)
  phase,      (* "initial" builds or "watch"                               *)
  at,         (* the crate the builder is at: an index into Paths          *)
  building    (* manifest and code read by the build so far, or Nothing    *)

serverVars == <<tree, served, stamps, phase, at, building>>

Crates == {Paths[i] : i \in DOMAIN Paths}
Version == 0..MaxSaves
Tree == [manifest : Version, code : Version]
Reading == [manifest : Version \cup {Nothing}, code : Version \cup {Nothing}]

\* Every variable has its type; the builder is always at a crate of the list (the two loops
\* over `builders` in serve and watch_loop).
ServerTypeOK ==
  /\ tree \in [Crates -> Tree]
  /\ served \in [Crates -> Tree \cup {Nothing}]
  /\ stamps \in [Crates -> Tree \cup {Nothing}]
  /\ phase \in {"initial", "watch"}
  /\ at \in DOMAIN Paths
  /\ building \in Reading \cup {Nothing}

ServerInit ==
  /\ tree = [c \in Crates |-> [manifest |-> 0, code |-> 0]]
  /\ served = [c \in Crates |-> Nothing]
  /\ stamps = [c \in Crates |-> Nothing]
  /\ phase = "initial" /\ at = 1 /\ building = Nothing

-----------------------------------------------------------------------------
(* The developer.                                                          *)

Saves(c) == tree[c].manifest + tree[c].code

Save(c, file) ==
  /\ Saves(c) < MaxSaves
  /\ tree' = [tree EXCEPT ![c][file] = @ + 1]
  /\ UNCHANGED <<served, stamps, phase, at, building>>

-----------------------------------------------------------------------------
(* build_plugin, for the crate the builder is at.                          *)

\* What the build of the crate has read so far.
Begun == [manifest |-> Nothing, code |-> Nothing]

ReadManifest ==
  /\ building = Begun
  /\ building' = [building EXCEPT !.manifest = tree[Paths[at]].manifest]
  /\ UNCHANGED <<tree, served, stamps, phase, at>>

CargoBuild ==
  /\ building # Nothing /\ building.manifest # Nothing /\ building.code = Nothing
  /\ building' = [building EXCEPT !.code = tree[Paths[at]].code]
  /\ UNCHANGED <<tree, served, stamps, phase, at>>

\* The builder goes on to the next crate; after the last initial build watch_loop starts.
NextCrate ==
  /\ at' = IF at < Len(Paths) THEN at + 1 ELSE 1
  /\ phase' = IF at < Len(Paths) THEN phase ELSE "watch"

\* watch_loop starts with the stamps of the trees as they are by then.
FirstStamps == IF phase = "initial" /\ at = Len(Paths) THEN tree ELSE stamps

\* Mutants: a failed build ends the builder; the stamp is taken after the build.
FinishOrDie ==
  /\ building # Nothing /\ building.code \in Version \ Broken
  /\ served' = [served EXCEPT ![Paths[at]] = building]
  /\ building' = Nothing
  /\ NextCrate
  /\ stamps' = FirstStamps
  /\ UNCHANGED tree
StampAfterBuild ==
  /\ building # Nothing /\ building.code # Nothing
  /\ served' = IF building.code \in Broken THEN served
               ELSE [served EXCEPT ![Paths[at]] = building]
  /\ building' = Nothing
  /\ NextCrate
  /\ stamps' = IF phase = "initial" THEN FirstStamps
               ELSE [stamps EXCEPT ![Paths[at]] = tree[Paths[at]]]
  /\ UNCHANGED tree

\* `insert` replaces the entry; a build that failed leaves the old one.
FinishBuild ==
  /\ building # Nothing /\ building.code # Nothing
  /\ served' = IF building.code \in Broken THEN served
               ELSE [served EXCEPT ![Paths[at]] = building]
  /\ building' = Nothing
  /\ NextCrate
  /\ stamps' = FirstStamps
  /\ UNCHANGED tree

-----------------------------------------------------------------------------
(* The builder thread: the initial builds, then the rounds of watch_loop.  *)

InitialBuild ==
  /\ phase = "initial" /\ building = Nothing
  /\ building' = Begun
  /\ UNCHANGED <<tree, served, stamps, phase, at>>

\* The new stamp is kept before the build starts.
WatchChanged ==
  /\ phase = "watch" /\ building = Nothing
  /\ stamps[Paths[at]] # tree[Paths[at]]
  /\ stamps' = [stamps EXCEPT ![Paths[at]] = tree[Paths[at]]]
  /\ building' = Begun
  /\ UNCHANGED <<tree, served, phase, at>>

WatchUnchanged ==
  /\ phase = "watch" /\ building = Nothing
  /\ stamps[Paths[at]] = tree[Paths[at]]
  /\ NextCrate
  /\ UNCHANGED <<tree, served, stamps, building>>

Builder ==
  InitialBuild \/ WatchChanged \/ WatchUnchanged \/ ReadManifest \/ CargoBuild \/ FinishBuild

ServerNext == (\E c \in Crates, file \in {"manifest", "code"} : Save(c, file)) \/ Builder

ServerSpec == ServerInit /\ [][ServerNext]_serverVars /\ WF_serverVars(Builder)

-----------------------------------------------------------------------------
(* Properties.                                                             *)

UpToDate(c) == served[c] = tree[c] \/ tree[c].code \in Broken

\* A save made while watch_loop runs is built and served in the end (or does not
\* compile), whatever is saved during the builds, to whatever crate (watch_loop keeps the
\* new stamp before it builds).
WatchedSaveIsServed ==
  \A c \in Crates : (phase = "watch" /\ stamps[c] # tree[c]) ~> UpToDate(c)

\* A crate that compiles and is left alone gets served, whatever happens to the others
\* (plugin_cmd.rs:306-307, "one broken crate delays nothing", on the server's side).
BrokenCrateDelaysNothing ==
  \A c \in Crates : [](Saves(c) = 0) => <>(served[c] # Nothing)
=============================================================================
