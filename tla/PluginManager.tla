--------------------------- MODULE PluginManager ---------------------------
(***************************************************************************)
(* The plugin manager of the host (crates/plugin-host, manager.rs) and its *)
(* loader thread (loader.rs).                                              *)
(*                                                                         *)
(* Two threads take part.  The UI thread queues work (scan, reload_at,     *)
(* queue_install) and, once a frame, runs `pump`, which integrates every   *)
(* finished load.  The loader thread takes one job at a time: it writes    *)
(* the files of an install, then reads, compiles and creates the guest.    *)
(* They share two FIFO channels and the plugins directory.  The operating  *)
(* system may kill the app between any two steps; only files survive.      *)
(*                                                                         *)
(* A manifest and a wasm module are opaque values: only the manifest's id, *)
(* the directory that id is sanitized to, and whether the pair loads       *)
(* matter here.  `plugins` is a Vec kept one entry per directory; it is    *)
(* the function `inst` from directories, so list order is not modelled.    *)
(***************************************************************************)
EXTENDS PluginData, Naturals, Sequences, FiniteSets, SequencesExt

CONSTANTS
  Dirs,       (* directories under the plugins root                        *)
  SafeDir,    (* [Ids -> Dirs \cup {None}] : sanitized id, None if empty   *)
  Loadable,   (* the manifest/wasm pairs LoadedPlugin::load accepts        *)
  Torn,       (* content of a file whose write was cut short               *)
  MaxWork,    (* bound: requests of the user                               *)
  MaxFaults,  (* bound: I/O failures and guest traps in a behaviour        *)
  MaxCrashes, (* bound: kills of the app process                           *)
  MaxUse      (* bound: distinguished values of a guest's state            *)

Package == (Manifests \X Wasms) \cup {None}
PendingLoad == [dir : Dirs, devsync : Tag]
LoadJob == [dir : Dirs, devsync : Tag, install : Package]
LoadDone == [dir : Dirs, devsync : Tag, result : Package]
RunJob == [job : LoadJob, at : {"manifest", "wasm", "load"}]
Instance == [manifest : Manifests, wasm : Wasms, status : {"Ready", "Errored"},
             enabled : BOOLEAN, st : 0..MaxUse]
Files == [manifest : Manifests \cup {None, Torn}, wasm : Wasms \cup {None, Torn}]

\* The absent value and a torn content are none of the others.
ASSUME ConstantsAssumption ==
  /\ IsFiniteSet(Dirs)
  /\ SafeDir \in [Ids -> Dirs \cup {None}]
  /\ Loadable \subseteq Manifests \X Wasms
  /\ None \notin Dirs \cup (Manifests \X Wasms)
  /\ None \notin RunJob /\ None \notin Instance
  /\ Torn \notin Manifests \cup Wasms \cup {None}
  /\ MaxWork \in Nat /\ MaxFaults \in Nat /\ MaxCrashes \in Nat /\ MaxUse \in Nat

VARIABLES
  ui,         (* UI thread: "idle", in "pump", or in "poll" (poll_devsync) *)
  repaint,    (* egui has a repaint outstanding                            *)
  applied,    (* `applied > 0` of the pump in progress                     *)
  pending,    (* PluginManager::pending                                    *)
  jobs,       (* channel of LoadJob, UI thread to loader                   *)
  loading,    (* the job in run_job and its next step, or None             *)
  done,       (* channel of LoadDone, loader to UI thread                  *)
  disk,       (* per directory, manifest.toml and plugin.wasm              *)
  inst,       (* PluginManager::plugins, keyed by directory                *)
  errors,     (* the sources that have an entry in load_errors             *)
  failed,     (* history: directories whose last finished load was refused *)
  owed,       (* history: per directory, the package last installed to it, *)
              (* until the work queued for it ends in a refusal            *)
  work, faults, crashes  (* counters of the bounds                         *)

managerVars == <<ui, repaint, applied, pending, jobs, loading, done, disk,
                 inst, errors, failed, owed, work, faults, crashes>>

\* Every variable has its type; what is finished, running or shown is a pair of a manifest
\* and a wasm, never a torn or a missing file (run_job, pump).
TypeOK ==
  /\ ui \in {"idle", "pump", "poll"}
  /\ repaint \in BOOLEAN /\ applied \in BOOLEAN
  /\ pending \in Seq(PendingLoad)
  /\ jobs \in Seq(LoadJob)
  /\ loading \in RunJob \cup {None}
  /\ done \in Seq(LoadDone)
  /\ disk \in [Dirs -> Files]
  /\ inst \in [Dirs -> Instance \cup {None}]
  /\ errors \subseteq Dirs \cup Ids
  /\ failed \subseteq Dirs
  /\ owed \in [Dirs -> Package]
  /\ work \in Nat /\ faults \in Nat /\ crashes \in Nat

NoFiles == [manifest |-> None, wasm |-> None]
Pair(f) == <<f.manifest, f.wasm>>

Init ==
  /\ ui = "idle" /\ repaint = TRUE /\ applied = FALSE
  /\ pending = <<>> /\ jobs = <<>> /\ loading = None /\ done = <<>>
  /\ disk \in [Dirs -> {NoFiles} \cup {[manifest |-> p[1], wasm |-> p[2]] : p \in Loadable}]
  /\ inst = [d \in Dirs |-> None]
  /\ errors = {} /\ failed = {} /\ owed = [d \in Dirs |-> None]
  /\ work = 0 /\ faults = 0 /\ crashes = 0

-----------------------------------------------------------------------------
(* Queueing work, on the UI thread.                                        *)

IsPending(d) == \E i \in DOMAIN pending : pending[i].dir = d

\* What pending keeps of a job, or of a sequence of them.
WorkOf(j) == [dir |-> j.dir, devsync |-> j.devsync]
WorksOf(js) == [i \in DOMAIN js |-> WorkOf(js[i])]

\* submit for each job of a sequence: one pending entry and one message each.
Submit(js) ==
  /\ pending' = pending \o WorksOf(js)
  /\ jobs' = jobs \o js

\* A request of the user is made between frames, and a frame follows it.
UserAsks ==
  /\ ui = "idle" /\ repaint' = TRUE
  /\ work < MaxWork /\ work' = work + 1

ReloadJob(d) == [dir |-> d, devsync |-> None, install |-> None]

\* `scan` skips a directory that is loaded or loading.
Scan ==
  /\ UserAsks
  /\ errors' = {}
  /\ LET found == {d \in Dirs : disk[d].wasm # None /\ inst[d] = None /\ ~IsPending(d)}
     IN \E order \in SetToSeqs(found) :
          Submit([i \in DOMAIN order |-> ReloadJob(order[i])])
  /\ UNCHANGED <<ui, applied, loading, done, disk, inst, failed, owed, faults, crashes>>

ReloadAt(d) ==
  /\ UserAsks /\ inst[d] # None
  /\ ~IsPending(d)
  /\ Submit(<<ReloadJob(d)>>)
  /\ UNCHANGED <<ui, applied, loading, done, disk, inst, errors, failed, owed, faults, crashes>>

\* queue_install, without its callers' bookkeeping; it does not look at pending.
QueueInstall(m, w, tag) ==
  /\ SafeDir[IdOf[m]] # None
  /\ Submit(<<[dir |-> SafeDir[IdOf[m]], devsync |-> tag, install |-> <<m, w>>]>>)
  /\ owed' = [owed EXCEPT ![SafeDir[IdOf[m]]] = <<m, w>>]

InstallBytes(m, w) ==
  /\ UserAsks
  /\ QueueInstall(m, w, None)
  /\ UNCHANGED <<ui, applied, loading, done, disk, inst, errors, failed, faults, crashes>>

-----------------------------------------------------------------------------
(* The loader thread.                                                      *)

TakeJob ==
  /\ loading = None /\ jobs # <<>>
  /\ loading' = [job |-> Head(jobs),
                 at |-> IF Head(jobs).install = None THEN "load" ELSE "manifest"]
  /\ jobs' = Tail(jobs)
  /\ UNCHANGED <<ui, repaint, applied, pending, done, disk, inst, errors, failed, owed,
                 work, faults, crashes>>

\* run_job returned: the loader sends the LoadDone and waits for another job.
Finish(result) ==
  /\ done' = Append(done, [dir |-> loading.job.dir, devsync |-> loading.job.devsync,
                           result |-> result])
  /\ loading' = None

WriteManifest ==
  /\ loading # None /\ loading.at = "manifest"
  /\ disk' = [disk EXCEPT ![loading.job.dir].manifest = loading.job.install[1]]
  /\ loading' = [loading EXCEPT !.at = "wasm"]
  /\ UNCHANGED <<ui, repaint, applied, pending, jobs, done, inst, errors, failed, owed,
                 work, faults, crashes>>

WriteWasm ==
  /\ loading # None /\ loading.at = "wasm"
  /\ disk' = [disk EXCEPT ![loading.job.dir].wasm = loading.job.install[2]]
  /\ loading' = [loading EXCEPT !.at = "load"]
  /\ UNCHANGED <<ui, repaint, applied, pending, jobs, done, inst, errors, failed, owed,
                 work, faults, crashes>>

\* Mutant: the loader goes on after a failed write, with the file as it was.
WriteFailsUnnoticed ==
  /\ loading # None /\ loading.at \in {"manifest", "wasm"}
  /\ faults < MaxFaults /\ faults' = faults + 1
  /\ loading' = [loading EXCEPT !.at = IF @ = "manifest" THEN "wasm" ELSE "load"]
  /\ UNCHANGED <<ui, repaint, applied, pending, jobs, done, disk, inst, errors, failed, owed,
                 work, crashes>>

\* A failed create_dir_all leaves the file alone, a failed write may leave it torn.
WriteFails ==
  /\ loading # None /\ loading.at \in {"manifest", "wasm"}
  /\ faults < MaxFaults /\ faults' = faults + 1
  /\ \/ UNCHANGED disk
     \/ disk' = [disk EXCEPT ![loading.job.dir][loading.at] = Torn]
  /\ Finish(None)
  /\ UNCHANGED <<ui, repaint, applied, pending, jobs, inst, errors, failed, owed, work, crashes>>

\* Mutant: what is on disk is not validated.
LoadAnything ==
  /\ loading # None /\ loading.at = "load"
  /\ Finish(Pair(disk[loading.job.dir]))
  /\ UNCHANGED <<ui, repaint, applied, pending, jobs, disk, inst, errors, failed, owed,
                 work, faults, crashes>>

\* LoadedPlugin::load: the pair on disk is refused, or it is compiled and created.
Load ==
  /\ loading # None /\ loading.at = "load"
  /\ LET files == Pair(disk[loading.job.dir])
     IN Finish(IF files \in Loadable THEN files ELSE None)
  /\ UNCHANGED <<ui, repaint, applied, pending, jobs, disk, inst, errors, failed, owed,
                 work, faults, crashes>>

\* A load may also fail for want of memory, of time (the cold deadline) or by I/O.
LoadFails ==
  /\ loading # None /\ loading.at = "load"
  /\ faults < MaxFaults /\ faults' = faults + 1
  /\ Finish(None)
  /\ UNCHANGED <<ui, repaint, applied, pending, jobs, disk, inst, errors, failed, owed,
                 work, crashes>>

-----------------------------------------------------------------------------
(* The frame: PluginManagerUi::tick runs pump, which drains `done`.        *)

\* A frame runs only when a repaint is outstanding.
Tick ==
  /\ ui = "idle" /\ repaint
  /\ ui' = "pump" /\ repaint' = FALSE /\ applied' = FALSE
  /\ UNCHANGED <<pending, jobs, loading, done, disk, inst, errors, failed, owed,
                 work, faults, crashes>>

\* Mutant: every entry of the directory goes.
ForgetAll(d) == SelectSeq(pending, LAMBDA p : p.dir # d)

\* pump drops the oldest entry of the directory the load was for.
Forget(d) == RemoveFirstMatch(pending, LAMBDA p : p.dir = d)

Fresh(p) == [manifest |-> p[1], wasm |-> p[2], status |-> "Ready", enabled |-> TRUE, st |-> 0]

\* The duplicate check of pump: another directory already runs this manifest id.
Duplicate(d, p) ==
  /\ inst[d] = None
  /\ \E e \in Dirs : inst[e] # None /\ IdOf[inst[e].manifest] = IdOf[p[1]]

\* The load at the head of `done` succeeds and is put to use.
Applies(r) == r.result # None /\ ~Duplicate(r.dir, r.result)

\* What replaces the instance of d: the old guest's state is carried unless the old
\* guest had trapped, or save_state or restore_state traps now (then it starts fresh).
Swap(d, p) ==
  IF inst[d] = None \/ inst[d].status # "Ready" \/ inst[d].st = 0
  THEN inst' = [inst EXCEPT ![d] = Fresh(p)] /\ UNCHANGED faults
  ELSE \/ /\ inst' = [inst EXCEPT ![d] = [Fresh(p) EXCEPT !.st = inst[d].st]]
          /\ UNCHANGED faults
       \/ /\ faults < MaxFaults /\ faults' = faults + 1
          /\ inst' = [inst EXCEPT ![d] = Fresh(p)]

PumpDone ==
  /\ ui = "pump" /\ done # <<>>
  /\ done' = Tail(done)
  /\ LET r == Head(done)
     IN /\ pending' = Forget(r.dir)
        /\ failed' = IF Applies(r) THEN failed \ {r.dir} ELSE failed \cup {r.dir}
        /\ errors' = IF Applies(r) THEN errors \ {r.dir} ELSE errors \cup {r.dir}
        /\ owed' = IF Applies(r) \/ \E i \in DOMAIN pending' : pending'[i].dir = r.dir
                   THEN owed ELSE [owed EXCEPT ![r.dir] = None]
        /\ IF Applies(r) THEN Swap(r.dir, r.result) ELSE UNCHANGED <<inst, faults>>
        /\ applied' = (applied \/ Applies(r))
  /\ UNCHANGED <<ui, repaint, jobs, loading, disk, work, crashes>>

\* Mutant: only an applied load asks for another frame.
PumpEndQuiet(next) ==
  /\ ui = "pump" /\ done = <<>>
  /\ ui' = next
  /\ repaint' = (repaint \/ applied)
  /\ UNCHANGED <<applied, pending, jobs, loading, done, disk, inst, errors, failed, owed,
                 work, faults, crashes>>

\* The end of pump: keep frames coming while work is queued; then the caller goes on.
PumpEnd(next) ==
  /\ ui = "pump" /\ done = <<>>
  /\ ui' = next
  /\ repaint' = (repaint \/ applied \/ pending # <<>>)
  /\ UNCHANGED <<applied, pending, jobs, loading, done, disk, inst, errors, failed, owed,
                 work, faults, crashes>>

-----------------------------------------------------------------------------
(* The rest of the frame, and the environment.                             *)

\* A guest frame: the user's input may change the guest's state, or the guest traps.
GuestFrame(d) ==
  /\ ui = "idle" /\ inst[d] # None
  /\ inst[d].enabled /\ inst[d].status = "Ready"
  /\ \/ /\ inst[d].st < MaxUse
        /\ inst' = [inst EXCEPT ![d].st = @ + 1]
        /\ UNCHANGED faults
     \/ /\ faults < MaxFaults /\ faults' = faults + 1
        /\ inst' = [inst EXCEPT ![d].status = "Errored"]
  /\ UNCHANGED <<ui, repaint, applied, pending, jobs, loading, done, disk, errors, failed, owed,
                 work, crashes>>

\* The checkbox of the manager panel.
ToggleEnabled(d) ==
  /\ UserAsks /\ inst[d] # None
  /\ inst' = [inst EXCEPT ![d].enabled = ~@]
  /\ UNCHANGED <<ui, applied, pending, jobs, loading, done, disk, errors, failed, owed,
                 faults, crashes>>

\* The process is killed and the app started again: only the files are left, the one
\* being written perhaps torn.
Restart ==
  /\ crashes < MaxCrashes /\ crashes' = crashes + 1
  /\ \/ UNCHANGED disk
     \/ /\ loading # None /\ loading.at \in {"manifest", "wasm"}
        /\ disk' = [disk EXCEPT ![loading.job.dir][loading.at] = Torn]
  /\ ui' = "idle" /\ repaint' = TRUE /\ applied' = FALSE
  /\ pending' = <<>> /\ jobs' = <<>> /\ loading' = None /\ done' = <<>>
  /\ inst' = [d \in Dirs |-> None]
  /\ errors' = {} /\ failed' = {} /\ owed' = [d \in Dirs |-> None]
  /\ UNCHANGED <<work, faults>>

LoaderStep == TakeJob \/ WriteManifest \/ WriteWasm \/ WriteFails \/ Load \/ LoadFails

UserStep ==
  \/ Scan
  \/ \E d \in Dirs : ReloadAt(d) \/ GuestFrame(d) \/ ToggleEnabled(d)
  \/ \E m \in Manifests, w \in Wasms : InstallBytes(m, w)

Next ==
  \/ UserStep
  \/ LoaderStep
  \/ Tick \/ PumpDone \/ PumpEnd("idle")
  \/ Restart

Spec == Init /\ [][Next]_managerVars

\* The loader thread runs, and egui runs a frame once a repaint is outstanding.
FairSpec ==
  /\ Spec
  /\ WF_managerVars(LoaderStep)
  /\ WF_managerVars(Tick) /\ WF_managerVars(PumpDone) /\ WF_managerVars(PumpEnd("idle"))

-----------------------------------------------------------------------------
(* Properties.                                                             *)

\* The work in the pipeline, oldest first: finished, in the loader, queued.
InLoader == IF loading = None THEN <<>> ELSE <<WorkOf(loading.job)>>
Pipeline == WorksOf(done) \o InLoader \o WorksOf(jobs)

\* `pending` is exactly the work in flight between the two threads, in order: what
\* is_pending answers, and the entry pump drops for a finished load (the first of its
\* directory), are always right.
PendingIsPipeline == pending = Pipeline

\* Once no work is in flight for a directory, the plugin running from it is the one on
\* disk, unless the last load of the directory was refused: no interleaving of installs
\* and reloads leaves an older build running after a newer one was written (run_job, pump).
RunsWhatIsOnDisk ==
  \A d \in Dirs :
    inst[d] # None /\ ~IsPending(d) /\ d \notin failed =>
      Pair(inst[d]) = Pair(disk[d])

\* Once no work is in flight for a directory, its plugin is the package last installed to it,
\* manifest and wasm of that one package and of no other, unless the work ended in a refusal:
\* however installs, reloads, failed writes and refused loads are interleaved, no two packages
\* are mixed and none is overtaken by an older one (queue_install, run_job, pump).
NewestInstallRuns ==
  \A d \in Dirs :
    owed[d] # None /\ ~IsPending(d) => inst[d] # None /\ Pair(inst[d]) = owed[d]

\* Every queued load is integrated in the end, without waiting for the user: while work is
\* pending, pump keeps frames coming (its two repaint requests).
PendingDrains == (pending # <<>>) ~> (pending = <<>>)
=============================================================================
