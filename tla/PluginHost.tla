----------------------------- MODULE PluginHost -----------------------------
(***************************************************************************)
(* The plugin host of an app: PluginManager and DevSync, put together by   *)
(* the frame (PluginManagerUi::tick): first `pump`, which confirms every   *)
(* dev-sync push it integrates, then, while connected, `poll_devsync`,     *)
(* which queues the updates that have come in.                             *)
(***************************************************************************)
EXTENDS PluginManager, DevSync

VARIABLE connected   (* PluginManagerUi::devsync is Some *)

hostVars == <<managerVars, syncVars, connected>>

\* The app starts; with a remembered server and autoconnect, tick connects at once.
HostInit == Init /\ SyncInit /\ connected \in BOOLEAN

-----------------------------------------------------------------------------
(* The frame.                                                              *)

HostTick == Tick /\ UNCHANGED <<syncVars, connected>>

\* Mutant: a push is confirmed whether or not it could be put to use.
ConfirmAlways ==
  /\ PumpDone
  /\ IF connected /\ Head(done).devsync # None
     THEN MarkInstalled(Head(done).devsync)
     ELSE UNCHANGED installed
  /\ UNCHANGED <<served, builds, step, index, sent, channel, connected>>

HostPumpDone ==
  /\ PumpDone
  /\ IF connected /\ Applies(Head(done)) /\ Head(done).devsync # None
     THEN MarkInstalled(Head(done).devsync)
     ELSE UNCHANGED installed
  /\ UNCHANGED <<served, builds, step, index, sent, channel, connected>>

HostPumpEnd ==
  /\ PumpEnd(IF connected THEN "poll" ELSE "idle")
  /\ UNCHANGED <<syncVars, connected>>

\* Mutant: the oldest load in flight only is looked at.
InFlightFirst(tag) == pending # <<>> /\ Head(pending).devsync = tag

InFlight(tag) == \E i \in DOMAIN pending : pending[i].devsync = tag

\* One update of poll_devsync.
PollDevsync ==
  /\ ui = "poll" /\ Receive
  /\ LET u == Head(channel)
         tag == <<u.id, u.hash>>
     IN IF InFlight(tag) THEN UNCHANGED <<pending, jobs, owed, errors>>
        ELSE IF SafeDir[IdOf[u.manifest]] # None
        THEN QueueInstall(u.manifest, u.hash, tag) /\ UNCHANGED errors
        ELSE errors' = errors \cup {u.id} /\ UNCHANGED <<pending, jobs, owed>>
  /\ UNCHANGED <<ui, repaint, applied, loading, done, disk, inst, failed, work, faults,
                 crashes, served, builds, step, index, sent, installed, connected>>

\* While connected, tick asks for another frame within a second.
PollEnd ==
  /\ ui = "poll" /\ channel = <<>>
  /\ ui' = "idle" /\ repaint' = TRUE
  /\ UNCHANGED <<applied, pending, jobs, loading, done, disk, inst, errors, failed, owed, work,
                 faults, crashes, syncVars, connected>>

-----------------------------------------------------------------------------
(* The user, and the environment.                                          *)

\* A new DevSync; what is in flight for the last one stays in flight.
Connect ==
  /\ UserAsks /\ ~connected
  /\ connected' = TRUE /\ Start
  /\ UNCHANGED <<ui, applied, pending, jobs, loading, done, disk, inst, errors, failed, owed,
                 faults, crashes>>

\* The DevSync is dropped: its thread ends, and what it sends until then is lost.
Disconnect ==
  /\ UserAsks /\ connected
  /\ connected' = FALSE /\ Start
  /\ UNCHANGED <<ui, applied, pending, jobs, loading, done, disk, inst, errors, failed, owed,
                 faults, crashes>>

HostUserStep == UserStep /\ UNCHANGED <<syncVars, connected>>

HostLoaderStep == LoaderStep /\ UNCHANGED <<syncVars, connected>>

HostPoll(A) == connected /\ A /\ UNCHANGED <<managerVars, connected>>

HostRestart == Restart /\ Start /\ connected' \in BOOLEAN

HostNext ==
  \/ HostTick \/ HostPumpDone \/ HostPumpEnd \/ PollDevsync \/ PollEnd
  \/ Connect \/ Disconnect \/ HostUserStep
  \/ HostLoaderStep
  \/ HostPoll(PollStep)
  \/ \E m \in Manifests, w \in Wasms : Build(m, w) /\ UNCHANGED <<managerVars, connected>>
  \/ HostRestart

HostSpec == HostInit /\ [][HostNext]_hostVars

\* The threads run, frames are drawn, and the network does not fail for ever.  Strong
\* fairness of PollEnd: the poller sleeps for a second between two polls, so the UI
\* thread does find the channel empty.
HostFairSpec ==
  /\ HostSpec
  /\ WF_hostVars(HostLoaderStep)
  /\ WF_hostVars(HostTick \/ HostPumpDone \/ HostPumpEnd \/ PollDevsync)
  /\ SF_hostVars(PollEnd)
  /\ WF_hostVars(HostPoll(PollOwn))
  /\ SF_hostVars(HostPoll(FetchWasm))
  /\ SF_hostVars(HostPoll(FetchManifest))

-----------------------------------------------------------------------------
(* Properties.                                                             *)

\* A push is in flight at most once: the poller's resends pile up no work (poll_devsync's
\* comparison with `pending`).
NoPushTwiceInFlight ==
  \A i, j \in DOMAIN pending :
    pending[i].devsync # None /\ pending[i].devsync = pending[j].devsync => i = j

\* What the poller is told is installed runs at that moment, from the directory of its id
\* (pump's mark_installed).
ConfirmIsTrue ==
  [][\A i \in Ids :
       installed'[i] # installed[i] /\ installed'[i] # None =>
         LET plugin == inst'[SafeDir[i]]
         IN plugin # None /\ IdOf[plugin.manifest] = i /\ plugin.wasm = installed'[i]]_hostVars

\* A push that can be loaded, and whose id no other directory holds.
Installable(i) ==
  /\ served[i] # None /\ SafeDir[i] # None
  /\ <<served[i].manifest, served[i].wasm>> \in Loadable
  /\ ~Duplicate(SafeDir[i], <<served[i].manifest, served[i].wasm>>)

\* While the app stays connected, what the server serves is installed and confirmed in
\* the end, however the pushes, failed writes and loads, lost requests and restarts fall
\* together.
DevSyncConverges ==
  \A i \in Ids :
    <>[]connected => <>[](Installable(i) => installed[i] = served[i].wasm)
=============================================================================
