------------------------------ MODULE DevLoop --------------------------------
(***************************************************************************)
(* The stations a saved file passes on its way into a running plugin, on   *)
(* either side of what PluginHost models: the dev server that builds it    *)
(* (DevServer), the compile cache it is loaded through (CompileCache) and  *)
(* the guest it replaces (HotReload).  The stations are a process, the     *)
(* loader thread and the UI thread, and share nothing but the build handed *)
(* on; so a behaviour here is one of a single station.                     *)
(***************************************************************************)
EXTENDS Naturals

CONSTANTS Paths, Broken, MaxSaves,                             (* DevServer    *)
          Wasms, Torn, MaxVersion, MaxCacheFaults,             (* CompileCache *)
          WarmupFrames, MaxUse, MaxPanics, MaxReloads,         (* HotReload    *)
          Nothing

VARIABLES
  station,    (* the one that works *)
  tree, served, stamps, phase, at, building,
  artifact, key, version, cacheCall, loaded, split, cacheFaults,
  guests, call, swap, snapshot, reloads, panics, overrun

serverAll == <<tree, served, stamps, phase, at, building>>
cacheAll  == <<artifact, key, version, cacheCall, loaded, split, cacheFaults>>
reloadAll == <<guests, call, swap, snapshot, reloads, panics, overrun>>
loopVars  == <<station, serverAll, cacheAll, reloadAll>>

Server == INSTANCE DevServer
Cache  == INSTANCE CompileCache WITH
            None <- Nothing, MaxFaults <- MaxCacheFaults, call <- cacheCall,
            faults <- cacheFaults
Reload == INSTANCE HotReload WITH
            NoCall <- Nothing, MaxFaults <- MaxPanics, faults <- panics

ASSUME LoopAssumption ==
  Server!ServerAssumption /\ Cache!CacheAssumption /\ Reload!ReloadAssumption

Init ==
  /\ station \in {"server", "cache", "guest"}
  /\ Server!ServerInit /\ Cache!Init /\ Reload!Init

ServerStep ==
  /\ station = "server" /\ UNCHANGED <<station, cacheAll, reloadAll>>
  /\ Server!ServerNext

CacheStep ==
  /\ station = "cache" /\ UNCHANGED <<station, serverAll, reloadAll>>
  /\ Cache!Next

GuestStep ==
  /\ station = "guest" /\ UNCHANGED <<station, serverAll, cacheAll>>
  /\ Reload!Next

Next == ServerStep \/ CacheStep \/ GuestStep

\* The builder thread of the server runs; nothing is assumed of the other two.
Spec ==
  Init /\ [][Next]_loopVars /\ WF_serverAll(station = "server" /\ Server!Builder)

-----------------------------------------------------------------------------
(* Properties.  Each is that of a station; its module says what it is about. *)

\* Every variable has its type: what is served, loaded or shown was built from one tree, by
\* one compile and one guest (serve, compile_cached, from_parts).
TypeOK ==
  /\ station \in {"server", "cache", "guest"}
  /\ Server!ServerTypeOK /\ Cache!TypeOK /\ Reload!TypeOK

\* A save made while watch_loop runs is built and served in the end, or does not compile.
WatchedSaveIsServed == station = "server" => Server!WatchedSaveIsServed

\* A crate that is left alone gets served, whatever happens to the others (serve).
BrokenCrateDelaysNothing == station = "server" => Server!BrokenCrateDelaysNothing

\* A module that is loaded is the one asked for, unless a pair of writes was split before
\* (compile_cached).
CacheIsRight == Cache!CacheIsRight

\* A frame within its budget is never lost to the deadline of the epoch (run_frame).
FrameKeepsItsBudget == Reload!FrameKeepsItsBudget

\* A replacement has the state of the guest it replaced, unless a guest trapped (pump's swap).
StateIsCarried == Reload!StateIsCarried

\* A plugin shown as Ready that a trap left dead has not been called since (call_u32,
\* send_event, pump's swap).
DeadIsFoundOut == Reload!DeadIsFoundOut
=============================================================================
