------------------------- MODULE PluginHost_proofs --------------------------
(***************************************************************************)
(* Proofs about PluginHost, for any directories, pushes, builds, requests, *)
(* faults and kills.                                                       *)
(*                                                                         *)
(* ConfirmIsTrue speaks of the step that confirms a push.  That what is    *)
(* installed then is the push follows the push on its way: the update the  *)
(* poller sends carries the manifest of its id (SyncOK), the job it        *)
(* becomes has the directory of its id and the module of its hash, the     *)
(* files the loader has written so far are those of its job, and what it   *)
(* loads is what it has written (PushesAreWhole).                          *)
(***************************************************************************)
EXTENDS PluginHost, PluginManager_proofs

-----------------------------------------------------------------------------
(* The inductive invariant.                                                *)

\* What is served for i is of i.
ServedRight(i) == served[i] \in Entry /\ IdOf[served[i].manifest] = i

\* What the poller works on is served, and what it has sent is of its id.
SyncOK ==
  /\ served \in [Ids -> Entry \cup {None}]
  /\ \A i \in Ids : served[i] = None \/ ServedRight(i)
  /\ index \in Seq(Ids \X Wasms)
  /\ \A n \in DOMAIN index : ServedRight(index[n][1])
  /\ step \in {"wasm", "manifest"} => index # <<>>
  /\ channel \in Seq(Update)
  /\ \A n \in DOMAIN channel : IdOf[channel[n].manifest] = channel[n].id
  /\ installed \in [Ids -> Wasms \cup {None}]

\* <<m, w>> in directory d is the push of the tag.
IsPush(tag, d, m, w) == d = SafeDir[tag[1]] /\ IdOf[m] = tag[1] /\ w = tag[2]

JobIsPush(j) ==
  j.devsync # None =>
    j.install # None /\ IsPush(j.devsync, j.dir, j.install[1], j.install[2])

DoneIsPush(r) ==
  r.devsync # None /\ r.result # None => IsPush(r.devsync, r.dir, r.result[1], r.result[2])

\* A push stays whole from the queue to its integration.
PushesAreWhole ==
  /\ \A n \in DOMAIN jobs : JobIsPush(jobs[n])
  /\ loading # None => JobIsPush(loading.job)
  /\ WrittenSoFar
  /\ \A n \in DOMAIN done : DoneIsPush(done[n])

ManagerOK == TypeOK /\ InstallInHand /\ PendingIsPipeline

HostIInv == ManagerOK /\ SyncOK /\ PushesAreWhole /\ NoPushTwiceInFlight

-----------------------------------------------------------------------------
(* The steps of the host.                                                  *)

\* Steps that leave the work of the manager alone.
OnlyFrame ==
  /\ UNCHANGED <<applied, pending, jobs, loading, done, disk, inst, errors, failed, owed, faults,
                 crashes>>
  /\ ui' \in {"idle", "pump", "poll"} /\ repaint' \in BOOLEAN /\ work' \in Nat

\* To the manager, a step of the host is one of its own, an update that comes in, or one
\* that leaves its work alone.
LEMMA ManagerSteps ==
  TypeOK /\ [HostNext]_hostVars => [Next]_managerVars \/ PollDevsync \/ OnlyFrame
<1> SUFFICES ASSUME TypeOK, [HostNext]_hostVars
             PROVE  [Next]_managerVars \/ PollDevsync \/ OnlyFrame
  OBVIOUS
<1>1. CASE HostTick \/ HostPumpDone \/ HostUserStep \/ HostLoaderStep \/ HostRestart
  BY <1>1 DEF HostTick, HostPumpDone, HostUserStep, HostLoaderStep, HostRestart, Next
<1>2. CASE HostPumpEnd
  <2>1. CASE connected
    <3>1. repaint' \in BOOLEAN
      BY <1>2, Zenon DEF HostPumpEnd, PumpEnd
    <3>2. QED
      BY <1>2, <2>1, <3>1 DEF HostPumpEnd, PumpEnd, OnlyFrame, TypeOK
  <2>2. CASE ~connected
    BY <1>2, <2>2 DEF HostPumpEnd, Next
  <2>3. QED
    BY <2>1, <2>2
<1>3. CASE PollEnd
  <2>1. repaint' \in BOOLEAN
    BY <1>3, Zenon DEF PollEnd
  <2>2. QED
    BY <1>3, <2>1 DEF PollEnd, OnlyFrame, TypeOK
<1>4. CASE Connect \/ Disconnect
  <2>1. repaint' \in BOOLEAN
    BY <1>4, Zenon DEF Connect, Disconnect, UserAsks
  <2>2. QED
    BY <1>4, <2>1 DEF Connect, Disconnect, UserAsks, OnlyFrame, TypeOK
<1>5. CASE \/ HostPoll(PollStep) \/ UNCHANGED hostVars
           \/ \E m \in Manifests, w \in Wasms :
                Build(m, w) /\ UNCHANGED <<managerVars, connected>>
  BY <1>5 DEF HostPoll, hostVars
<1>6. QED
  BY <1>1, <1>2, <1>3, <1>4, <1>5 DEF HostNext

\* An update that comes in and is not in flight is one job more.
UpdateJob ==
  LET u == Head(channel)
  IN [dir |-> SafeDir[IdOf[u.manifest]], devsync |-> <<u.id, u.hash>>,
      install |-> <<u.manifest, u.hash>>]

\* poll_devsync either skips the update or queues exactly that job.
LEMMA UpdateQueued ==
  ASSUME TypeOK, SyncOK, PollDevsync
  PROVE  \/ UNCHANGED <<pending, jobs, owed>>
         \/ /\ UpdateJob \in LoadJob /\ Submit(<<UpdateJob>>) /\ JobIsPush(UpdateJob)
            /\ ~InFlight(UpdateJob.devsync)
            /\ owed' = [owed EXCEPT ![UpdateJob.dir] = UpdateJob.install]
<1> DEFINE u == Head(channel)
<1>1. channel # <<>> /\ channel \in Seq(Update)
  BY DEF PollDevsync, Receive, SyncOK
<1>2. u \in Update /\ u = channel[1] /\ 1 \in DOMAIN channel
  BY <1>1, HeadTailProperties, EmptySeq, LenProperties
<1>3. IdOf[u.manifest] = u.id /\ u.manifest \in Manifests /\ u.hash \in Wasms /\ u.id \in Ids
  BY <1>2 DEF SyncOK, Update
<1>4. CASE InFlight(<<u.id, u.hash>>) \/ SafeDir[IdOf[u.manifest]] = None
  BY <1>4 DEF PollDevsync
<1>5. CASE ~InFlight(<<u.id, u.hash>>) /\ SafeDir[IdOf[u.manifest]] # None
  <2>1. QueueInstall(u.manifest, u.hash, <<u.id, u.hash>>)
    BY <1>5 DEF PollDevsync
  <2>2. SafeDir[u.id] \in Dirs
    BY <1>3, <1>5, ConstantsAssumption
  <2>3. UpdateJob \in LoadJob
    BY <1>3, <2>2 DEF UpdateJob, LoadJob, Tag, Package
  <2>4. <<u.manifest, u.hash>> \in Manifests \X Wasms
    BY <1>3
  <2>5. <<u.manifest, u.hash>> # None
    BY <2>4, ConstantsAssumption
  <2>6. JobIsPush(UpdateJob)
    BY <1>3, <2>5 DEF JobIsPush, IsPush, UpdateJob
  <2>7. Submit(<<UpdateJob>>)
    BY <2>1 DEF QueueInstall, UpdateJob
  <2>8. UpdateJob.devsync = <<u.id, u.hash>>
    BY DEF UpdateJob
  <2>9. owed' = [owed EXCEPT ![UpdateJob.dir] = UpdateJob.install]
    BY <2>1 DEF QueueInstall, UpdateJob
  <2>10. QED
    BY <1>5, <2>3, <2>6, <2>7, <2>8, <2>9
<1>6. QED
  BY <1>4, <1>5

\* The manager's invariant is the host's.
LEMMA HostKeepsManager ==
  ManagerOK /\ SyncOK /\ [HostNext]_hostVars => ManagerOK'
<1> SUFFICES ASSUME ManagerOK, SyncOK, [HostNext]_hostVars
             PROVE  ManagerOK'
  OBVIOUS
<1>1. TypeOK /\ InstallInHand /\ PendingIsPipeline
  BY DEF ManagerOK
<1>2. CASE [Next]_managerVars
  BY <1>1, <1>2, NextType, NextPipeline DEF ManagerOK
<1>3. CASE OnlyFrame
  <2>1. PendingIsPipeline'
    BY <1>1, <1>3, RestKeeps DEF OnlyFrame, InLoader
  <2>2. TypeOK' /\ InstallInHand'
    BY <1>1, <1>3 DEF OnlyFrame, TypeOK, InstallInHand
  <2>3. QED
    BY <2>1, <2>2 DEF ManagerOK
<1>4. CASE PollDevsync
  <2>1. /\ UNCHANGED <<ui, repaint, applied, loading, done, disk, inst, failed, work, faults,
                       crashes>>
        /\ errors' \subseteq errors \cup {Head(channel).id}
    BY <1>4 DEF PollDevsync
  <2>2. Head(channel).id \in Ids
    <3>1. channel # <<>> /\ channel \in Seq(Update)
      BY <1>4 DEF PollDevsync, Receive, SyncOK
    <3>2. Head(channel) \in Update
      BY <3>1, HeadTailProperties
    <3>3. QED
      BY <3>2 DEF Update
  <2>3. CASE UNCHANGED <<pending, jobs, owed>>
    <3>1. PendingIsPipeline'
      BY <1>1, <2>1, <2>3, RestKeeps DEF InLoader
    <3>2. QED
      BY <1>1, <2>1, <2>2, <2>3, <3>1 DEF TypeOK, InstallInHand, ManagerOK
  <2>4. CASE /\ UpdateJob \in LoadJob /\ Submit(<<UpdateJob>>)
             /\ owed' = [owed EXCEPT ![UpdateJob.dir] = UpdateJob.install]
    <3>1. <<UpdateJob>> \in Seq(LoadJob)
      BY <2>4
    <3>2. pending' \in Seq(PendingLoad) /\ jobs' \in Seq(LoadJob)
      BY <1>1, <2>4, <3>1, SubmitType
    <3>3. PendingIsPipeline'
      BY <1>1, <2>1, <2>4, <3>1, SubmitKeeps
    <3>4. owed' \in [Dirs -> Package]
      BY <1>1, <2>4 DEF TypeOK, LoadJob
    <3>5. QED
      BY <1>1, <2>1, <2>2, <3>2, <3>3, <3>4 DEF TypeOK, InstallInHand, ManagerOK
  <2>5. QED
    BY <1>1, <1>4, <2>3, <2>4, UpdateQueued
<1>5. QED
  BY <1>1, <1>2, <1>3, <1>4, ManagerSteps

-----------------------------------------------------------------------------
(* The poller.                                                             *)

\* To the poller, a step of the host is a build, one of its own, a new start, or one that
\* takes an update or confirms one.
LEMMA SyncSteps ==
  [HostNext]_hostVars =>
    \/ PollStep \/ Start \/ UNCHANGED syncVars
    \/ \E m \in Manifests, w \in Wasms : Build(m, w)
    \/ Receive /\ UNCHANGED <<served, index, step, installed>>
    \/ HostPumpDone
BY DEF HostNext, HostTick, HostPumpEnd, PollEnd, Connect, Disconnect, HostUserStep,
       HostLoaderStep, HostPoll, HostRestart, PollDevsync, hostVars, syncVars

\* The tag of a finished load is a tag.
LEMMA DoneTag ==
  ASSUME TypeOK, PumpDone, Head(done).devsync # None
  PROVE  Head(done).devsync \in Ids \X Wasms
<1>1. Head(done) \in LoadDone
  BY HeadTailProperties DEF PumpDone, TypeOK
<1>2. QED
  BY <1>1 DEF LoadDone, Tag

\* What the poller knows stays right.
LEMMA HostKeepsSync ==
  TypeOK /\ SyncOK /\ [HostNext]_hostVars => SyncOK'
<1> SUFFICES ASSUME TypeOK, SyncOK, [HostNext]_hostVars
             PROVE  SyncOK'
  OBVIOUS
<1> USE DataAssumption
<1>1. /\ served \in [Ids -> Entry \cup {None}]
      /\ \A i \in Ids : served[i] = None \/ ServedRight(i)
      /\ index \in Seq(Ids \X Wasms)
      /\ \A n \in DOMAIN index : ServedRight(index[n][1])
      /\ step \in {"wasm", "manifest"} => index # <<>>
      /\ channel \in Seq(Update)
      /\ \A n \in DOMAIN channel : IdOf[channel[n].manifest] = channel[n].id
      /\ installed \in [Ids -> Wasms \cup {None}]
  BY DEF SyncOK
<1>2. CASE PollIndex
  <2> DEFINE Have == {i \in Ids : served[i] # None}
  <2>1. PICK order \in SetToSeqs(Have) :
          index' = [n \in DOMAIN order |-> <<order[n], served[order[n]].wasm>>]
    BY <1>2 DEF PollIndex
  <2>2. step' = "entry" /\ UNCHANGED <<served, channel, installed>>
    BY <1>2 DEF PollIndex
  <2>3. Cardinality(Have) \in Nat
    BY SyncAssumption, FS_Subset, FS_CardinalityType
  <2>4. order \in [1..Cardinality(Have) -> Have]
    BY DEF SetToSeqs
  <2> HIDE DEF Have
  <2>5. \A i \in Have : i \in Ids /\ ServedRight(i) /\ served[i].wasm \in Wasms
    BY <1>1 DEF Have, ServedRight, Entry
  <2>6. index' \in [1..Cardinality(Have) -> Ids \X Wasms]
    BY <2>1, <2>4, <2>5
  <2>7. index' \in Seq(Ids \X Wasms)
    BY <2>3, <2>6, ArrayIsSeq
  <2>8. \A n \in DOMAIN index' : ServedRight(index'[n][1])
    BY <2>1, <2>4, <2>5
  <2>9. QED
    BY <1>1, <2>2, <2>7, <2>8 DEF SyncOK, ServedRight
<1>3. CASE SkipConfirmed \/ HoldOff \/ (FetchWasm /\ NextEntry) \/ FetchManifest
  <2>1. index # <<>>
    BY <1>1, <1>3 DEF SkipConfirmed, HoldOff, FetchWasm, FetchManifest
  <2>2. index' = Tail(index) /\ step' = "entry" /\ UNCHANGED <<served, installed>>
    BY <1>3 DEF SkipConfirmed, HoldOff, FetchWasm, FetchManifest, NextEntry
  <2>3. /\ Tail(index) \in Seq(Ids \X Wasms)
        /\ \A n \in DOMAIN Tail(index) : ServedRight(Tail(index)[n][1])
    BY <1>1, <2>1, TailKeeps
  <2>4. channel' \in Seq(Update) /\ \A n \in DOMAIN channel' :
          IdOf[channel'[n].manifest] = channel'[n].id
    <3>1. CASE UNCHANGED channel
      BY <1>1, <3>1
    <3>2. CASE FetchManifest
      <4> DEFINE u == [id |-> EntryId, hash |-> EntryHash, manifest |-> served[EntryId].manifest]
      <4>1. channel' = Append(channel, u)
        BY <3>2 DEF FetchManifest
      <4>2. Head(index) \in Ids \X Wasms /\ ServedRight(Head(index)[1])
        BY <1>1, <2>1, TailKeeps
      <4>3. EntryId \in Ids /\ EntryHash \in Wasms /\ ServedRight(EntryId)
        BY <4>2 DEF EntryId, EntryHash
      <4>4. u \in Update /\ IdOf[u.manifest] = u.id
        BY <4>3 DEF ServedRight, Entry, Update
      <4> HIDE DEF u
      <4>5. /\ channel' \in Seq(Update) /\ Len(channel) \in Nat
            /\ DOMAIN channel = 1..Len(channel) /\ DOMAIN channel' = 1..(Len(channel) + 1)
            /\ channel'[Len(channel) + 1] = u
            /\ \A n \in 1..Len(channel) : channel'[n] = channel[n]
        BY <1>1, <4>1, <4>4, AppendProperties, LenProperties
      <4>6. QED
        BY <1>1, <4>4, <4>5
    <3>3. QED
      BY <1>3, <3>1, <3>2 DEF SkipConfirmed, HoldOff, FetchWasm
  <2>5. QED
    BY <1>1, <2>2, <2>3, <2>4 DEF SyncOK, ServedRight
<1>4. CASE BeginFetch \/ (FetchWasm /\ ~NextEntry) \/ EndPoll
  BY <1>1, <1>4 DEF BeginFetch, FetchWasm, EndPoll, SyncOK, ServedRight
<1>5. CASE FetchFails
  <2>1. step' = "sleep" /\ index' = <<>> /\ UNCHANGED <<served, channel, installed>>
    BY <1>5 DEF FetchFails
  <2>2. <<>> \in Seq(Ids \X Wasms) /\ DOMAIN <<>> = {}
    BY EmptySeq
  <2>3. QED
    BY <1>1, <2>1, <2>2 DEF SyncOK, ServedRight
<1>6. CASE Start
  <2>1. /\ step' = "sleep" /\ index' = <<>> /\ channel' = <<>> /\ installed' = NoHash
        /\ UNCHANGED served
    BY <1>6 DEF Start
  <2>2. /\ <<>> \in Seq(Ids \X Wasms) /\ <<>> \in Seq(Update) /\ DOMAIN <<>> = {}
        /\ NoHash \in [Ids -> Wasms \cup {None}]
    BY EmptySeq DEF NoHash
  <2>3. QED
    BY <1>1, <2>1, <2>2 DEF SyncOK, ServedRight
<1>7. ASSUME NEW m \in Manifests, NEW w \in Wasms, Build(m, w)
      PROVE  SyncOK'
  <2> DEFINE e == [manifest |-> m, wasm |-> w]
  <2>1. IdOf[m] \in Ids /\ e \in Entry /\ e.manifest = m
    BY DEF Entry
  <2>2. served' = [served EXCEPT ![IdOf[m]] = e]
        /\ UNCHANGED <<step, index, channel, installed>>
    BY <1>7 DEF Build
  <2> HIDE DEF e
  <2>3. /\ served'[IdOf[m]] = e
        /\ \A i \in Ids : i # IdOf[m] => served'[i] = served[i]
        /\ served' \in [Ids -> Entry \cup {None}]
    BY <1>1, <2>1, <2>2
  <2>4. \A i \in Ids : served'[i] = None \/ ServedRight(i)'
    BY <1>1, <2>1, <2>3 DEF ServedRight
  <2>5. \A i \in Ids : ServedRight(i) => ServedRight(i)'
    BY <2>1, <2>3 DEF ServedRight
  <2>6. \A n \in DOMAIN index : index[n][1] \in Ids
    BY <1>1, ElementOfSeq, LenProperties
  <2>7. \A n \in DOMAIN index' : ServedRight(index[n][1])'
    BY <1>1, <2>2, <2>5, <2>6
  <2>8. QED
    BY <1>1, <2>2, <2>3, <2>4, <2>7 DEF SyncOK
<1>8. CASE Receive /\ UNCHANGED <<served, index, step, installed>>
  <2>1. Tail(channel) \in Seq(Update)
        /\ \A n \in DOMAIN Tail(channel) : IdOf[Tail(channel)[n].manifest] = Tail(channel)[n].id
    BY <1>1, <1>8, TailKeeps DEF Receive
  <2>2. QED
    BY <1>1, <1>8, <2>1 DEF SyncOK, ServedRight, Receive
<1>9. CASE HostPumpDone
  <2>1. UNCHANGED <<served, step, index, channel>>
    BY <1>9 DEF HostPumpDone
  <2>2. installed' \in [Ids -> Wasms \cup {None}]
    <3>1. CASE UNCHANGED installed
      BY <1>1, <3>1
    <3>2. CASE Head(done).devsync # None /\ MarkInstalled(Head(done).devsync)
      <4>1. Head(done).devsync \in Ids \X Wasms
        BY <1>9, <3>2, DoneTag DEF HostPumpDone
      <4>2. QED
        BY <1>1, <3>2, <4>1 DEF MarkInstalled
    <3>3. QED
      BY <1>9, <3>1, <3>2 DEF HostPumpDone
  <2>3. QED
    BY <1>1, <2>1, <2>2 DEF SyncOK, ServedRight
<1>10. CASE UNCHANGED syncVars
  BY <1>1, <1>10 DEF syncVars, SyncOK, ServedRight
<1>11. QED
  BY <1>2, <1>3, <1>4, <1>5, <1>6, <1>7, <1>8, <1>9, <1>10, SyncSteps
     DEF PollStep, PollOwn

-----------------------------------------------------------------------------
(* Pushes on their way.                                                    *)

\* The work that a step queues: the user's, or an update that is not in flight.
QueuedRight(js) ==
  \/ \A n \in DOMAIN js : js[n].devsync = None
  \/ Len(js) = 1 /\ JobIsPush(js[1]) /\ ~InFlight(js[1].devsync)

\* What the user asks for is no push.
LEMMA UserQueues ==
  ASSUME TypeOK, UserStep
  PROVE  \/ UNCHANGED <<pending, jobs, loading, done, disk>>
         \/ \E js \in Seq(LoadJob) :
              Submit(js) /\ QueuedRight(js) /\ UNCHANGED <<loading, done, disk>>
<1> USE DataAssumption, ConstantsAssumption
<1>1. CASE Scan
  <2> DEFINE found == {d \in Dirs : disk[d].wasm # None /\ inst[d] = None /\ ~IsPending(d)}
  <2>1. PICK order \in SetToSeqs(found) : Submit([i \in DOMAIN order |-> ReloadJob(order[i])])
    BY <1>1 DEF Scan
  <2>2. found \in SUBSET Dirs /\ UNCHANGED <<loading, done, disk>>
    BY <1>1 DEF Scan
  <2> HIDE DEF found
  <2> DEFINE js == [i \in DOMAIN order |-> ReloadJob(order[i])]
  <2>3. js \in Seq(LoadJob)
    BY <2>2, ScanJobs
  <2>4. \A n \in DOMAIN js : js[n].devsync = None
    BY DEF ReloadJob
  <2>5. QED
    BY <2>1, <2>2, <2>3, <2>4 DEF QueuedRight
<1>2. ASSUME NEW d \in Dirs, ReloadAt(d)
      PROVE  \E js \in Seq(LoadJob) :
               Submit(js) /\ QueuedRight(js) /\ UNCHANGED <<loading, done, disk>>
  <2> DEFINE js == <<ReloadJob(d)>>
  <2>1. js \in Seq(LoadJob) /\ \A n \in DOMAIN js : js[n].devsync = None
    BY DEF ReloadJob, LoadJob, Tag, Package
  <2>2. Submit(js) /\ UNCHANGED <<loading, done, disk>>
    BY <1>2 DEF ReloadAt
  <2>3. QED
    BY <2>1, <2>2 DEF QueuedRight
<1>3. ASSUME NEW m \in Manifests, NEW w \in Wasms, InstallBytes(m, w)
      PROVE  \E js \in Seq(LoadJob) :
               Submit(js) /\ QueuedRight(js) /\ UNCHANGED <<loading, done, disk>>
  <2> DEFINE js == <<[dir |-> SafeDir[IdOf[m]], devsync |-> None, install |-> <<m, w>>]>>
  <2>1. js \in Seq(LoadJob) /\ \A n \in DOMAIN js : js[n].devsync = None
    BY <1>3 DEF InstallBytes, QueueInstall, LoadJob, Tag, Package
  <2>2. Submit(js) /\ UNCHANGED <<loading, done, disk>>
    BY <1>3 DEF InstallBytes, QueueInstall
  <2>3. QED
    BY <2>1, <2>2 DEF QueuedRight
<1>4. ASSUME NEW d \in Dirs, GuestFrame(d) \/ ToggleEnabled(d)
      PROVE  UNCHANGED <<pending, jobs, loading, done, disk>>
  BY <1>4 DEF GuestFrame, ToggleEnabled
<1>5. QED
  BY <1>1, <1>2, <1>3, <1>4 DEF UserStep

\* An element of a sequence with more put behind it is one of the sequence, or one of more.
LEMMA ElementsOfConcat ==
  ASSUME NEW S, NEW s \in Seq(S), NEW t \in Seq(S), NEW n \in DOMAIN (s \o t)
  PROVE  \/ n \in DOMAIN s /\ (s \o t)[n] = s[n]
         \/ n - Len(s) \in DOMAIN t /\ (s \o t)[n] = t[n - Len(s)]
<1>1. /\ Len(s) \in Nat /\ Len(t) \in Nat /\ DOMAIN s = 1..Len(s) /\ DOMAIN t = 1..Len(t)
      /\ s \o t \in Seq(S) /\ Len(s \o t) = Len(s) + Len(t)
      /\ \A i \in 1..(Len(s) + Len(t)) : (s \o t)[i] = IF i <= Len(s) THEN s[i] ELSE t[i - Len(s)]
  BY ConcatProperties, LenProperties
<1>2. n \in 1..(Len(s) + Len(t))
  BY <1>1, LenProperties
<1>3. QED
  BY <1>1, <1>2

\* What is queued is whole.
LEMMA QueueKeepsWhole ==
  ASSUME TypeOK, PushesAreWhole, NEW js \in Seq(LoadJob), Submit(js), QueuedRight(js),
         UNCHANGED <<loading, done, disk>>
  PROVE  PushesAreWhole'
<1>1. \A n \in DOMAIN js : JobIsPush(js[n])
  <2>1. Len(js) = 1 => \A n \in DOMAIN js : n = 1
    BY LenProperties
  <2>2. QED
    BY <2>1 DEF QueuedRight, JobIsPush
<1>2. \A n \in DOMAIN (jobs \o js) : JobIsPush((jobs \o js)[n])
  BY <1>1, ElementsOfConcat DEF PushesAreWhole, TypeOK
<1>3. QED
  BY <1>2 DEF PushesAreWhole, Submit, WrittenSoFar, JobIsPush, DoneIsPush

\* A finished load is the push that was written.
LEMMA FinishKeepsWhole ==
  ASSUME TypeOK, PushesAreWhole, loading # None, NEW result \in Package, Finish(result),
         UNCHANGED jobs,
         loading.job.devsync # None /\ result # None =>
           result = <<loading.job.install[1], loading.job.install[2]>>
  PROVE  PushesAreWhole'
<1> DEFINE r == [dir |-> loading.job.dir, devsync |-> loading.job.devsync, result |-> result]
<1>1. r \in LoadDone
  BY DEF TypeOK, RunJob, LoadJob, LoadDone
<1>2. DoneIsPush(r)
  BY DEF PushesAreWhole, JobIsPush, DoneIsPush, IsPush
<1>3. done' = Append(done, r)
  BY DEF Finish
<1> HIDE DEF r
<1>4. \A n \in DOMAIN done' : DoneIsPush(done'[n])
  <2>1. /\ Len(done) \in Nat
        /\ DOMAIN done = 1..Len(done) /\ DOMAIN done' = 1..(Len(done) + 1)
        /\ done'[Len(done) + 1] = r
        /\ \A n \in 1..Len(done) : done'[n] = done[n]
    BY <1>1, <1>3, AppendProperties, LenProperties DEF TypeOK
  <2>2. QED
    BY <1>2, <2>1 DEF PushesAreWhole
<1>5. QED
  BY <1>4 DEF PushesAreWhole, Finish, WrittenSoFar, JobIsPush, DoneIsPush

\* The loader keeps a push whole.
LEMMA LoaderKeepsWhole ==
  ASSUME TypeOK, InstallInHand, PushesAreWhole, LoaderStep
  PROVE  PushesAreWhole'
<1> USE ConstantsAssumption
<1>1. CASE TakeJob
  <2>1. /\ Head(jobs) \in LoadJob /\ Tail(jobs) \in Seq(LoadJob) /\ 1 \in DOMAIN jobs
        /\ Head(jobs) = jobs[1]
        /\ \A n \in DOMAIN Tail(jobs) : n + 1 \in DOMAIN jobs /\ Tail(jobs)[n] = jobs[n + 1]
    BY <1>1, TailKeeps DEF TakeJob, TypeOK
  <2>2. JobIsPush(Head(jobs)) /\ \A n \in DOMAIN jobs' : JobIsPush(jobs'[n])
    BY <1>1, <2>1 DEF TakeJob, PushesAreWhole
  <2>3. /\ loading'.job = Head(jobs) /\ UNCHANGED <<done, disk>>
        /\ Head(jobs).install # None => loading'.at = "manifest"
    BY <1>1 DEF TakeJob
  <2>4. QED
    BY <2>2, <2>3 DEF PushesAreWhole, WrittenSoFar, JobIsPush, DoneIsPush
<1>2. CASE WriteManifest
  <2>1. loading \in RunJob /\ loading # None /\ loading.job.dir \in Dirs /\ disk \in [Dirs -> Files]
    BY <1>2 DEF WriteManifest, TypeOK, RunJob, LoadJob
  <2>2. /\ loading'.job = loading.job /\ loading'.at = "wasm" /\ UNCHANGED <<jobs, done>>
        /\ disk'[loading.job.dir].manifest = loading.job.install[1]
    BY <1>2, <2>1 DEF WriteManifest, RunJob, Files
  <2>3. QED
    BY <2>1, <2>2 DEF PushesAreWhole, WrittenSoFar, JobIsPush, DoneIsPush
<1>3. CASE WriteWasm
  <2>1. loading \in RunJob /\ loading # None /\ loading.job.dir \in Dirs /\ disk \in [Dirs -> Files]
    BY <1>3 DEF WriteWasm, TypeOK, RunJob, LoadJob
  <2>2. /\ loading.at = "wasm" /\ loading'.job = loading.job /\ UNCHANGED <<jobs, done>>
        /\ disk'[loading.job.dir].manifest = disk[loading.job.dir].manifest
        /\ disk'[loading.job.dir].wasm = loading.job.install[2]
    BY <1>3, <2>1 DEF WriteWasm, RunJob, Files
  <2>3. QED
    BY <2>1, <2>2 DEF PushesAreWhole, WrittenSoFar, JobIsPush, DoneIsPush
<1>4. CASE WriteFails \/ LoadFails
  <2>1. /\ None \in Package /\ loading # None /\ Finish(None) /\ UNCHANGED jobs
    BY <1>4 DEF WriteFails, LoadFails, Package
  <2>2. QED
    BY <2>1, FinishKeepsWhole
<1>5. CASE Load
  <2> DEFINE files == Pair(disk[loading.job.dir])
             result == IF files \in Loadable THEN files ELSE None
  <2>1. result \in Package /\ (result = None \/ result = files)
    BY DEF Package
  <2>2. loading # None /\ loading.at = "load" /\ Finish(result) /\ UNCHANGED jobs
    BY <1>5 DEF Load
  <2>3. loading.job.devsync # None =>
          files = <<loading.job.install[1], loading.job.install[2]>>
    BY <2>2 DEF PushesAreWhole, JobIsPush, WrittenSoFar, Pair
  <2> HIDE DEF result, files
  <2>4. QED
    BY <2>1, <2>2, <2>3, FinishKeepsWhole
<1>6. QED
  BY <1>1, <1>2, <1>3, <1>4, <1>5 DEF LoaderStep

\* Every step of the host keeps pushes whole.
LEMMA HostKeepsWhole ==
  ManagerOK /\ SyncOK /\ PushesAreWhole /\ [HostNext]_hostVars => PushesAreWhole'
<1> SUFFICES ASSUME ManagerOK, SyncOK, PushesAreWhole, [HostNext]_hostVars
             PROVE  PushesAreWhole'
  OBVIOUS
<1>1. TypeOK /\ InstallInHand
  BY DEF ManagerOK
<1>2. CASE UNCHANGED <<jobs, loading, done, disk>>
  BY <1>2 DEF PushesAreWhole, WrittenSoFar, JobIsPush, DoneIsPush
<1>3. CASE UserStep
  BY <1>1, <1>2, <1>3, UserQueues, QueueKeepsWhole
<1>4. CASE LoaderStep
  BY <1>1, <1>4, LoaderKeepsWhole
<1>5. CASE PumpDone
  <2>1. /\ Tail(done) \in Seq(LoadDone)
        /\ \A n \in DOMAIN Tail(done) : n + 1 \in DOMAIN done /\ Tail(done)[n] = done[n + 1]
    BY <1>1, <1>5, TailKeeps DEF PumpDone, TypeOK
  <2>2. done' = Tail(done) /\ UNCHANGED <<jobs, loading, disk>>
    BY <1>5 DEF PumpDone
  <2>3. \A n \in DOMAIN done' : DoneIsPush(done'[n])
    BY <2>1, <2>2 DEF PushesAreWhole
  <2>4. QED
    BY <2>2, <2>3 DEF PushesAreWhole, WrittenSoFar, JobIsPush, DoneIsPush
<1>6. CASE Restart
  <2>1. jobs' = <<>> /\ loading' = None /\ done' = <<>>
    BY <1>6 DEF Restart
  <2>2. DOMAIN jobs' = {} /\ DOMAIN done' = {}
    BY <2>1
  <2>3. QED
    BY <2>1, <2>2 DEF PushesAreWhole, WrittenSoFar
<1>7. CASE Tick \/ PumpEnd("idle") \/ UNCHANGED managerVars \/ OnlyFrame
  BY <1>2, <1>7 DEF Tick, PumpEnd, managerVars, OnlyFrame
<1>8. CASE PollDevsync
  <2>1. UNCHANGED <<loading, done, disk>>
    BY <1>8 DEF PollDevsync
  <2>2. CASE UNCHANGED <<pending, jobs>>
    BY <1>2, <2>1, <2>2
  <2>3. CASE /\ UpdateJob \in LoadJob /\ Submit(<<UpdateJob>>) /\ JobIsPush(UpdateJob)
             /\ ~InFlight(UpdateJob.devsync)
    <3>1. <<UpdateJob>> \in Seq(LoadJob) /\ QueuedRight(<<UpdateJob>>)
      BY <2>3 DEF QueuedRight
    <3>2. QED
      BY <1>1, <2>1, <2>3, <3>1, QueueKeepsWhole
  <2>4. QED
    BY <1>1, <1>8, <2>2, <2>3, UpdateQueued
<1>9. QED
  BY <1>1, <1>3, <1>4, <1>5, <1>6, <1>7, <1>8, ManagerSteps DEF Next

-----------------------------------------------------------------------------
(* Pushes in flight.                                                       *)

\* What is queued is in flight once.
LEMMA QueueKeepsOnce ==
  ASSUME TypeOK, NoPushTwiceInFlight, NEW js \in Seq(LoadJob), Submit(js), QueuedRight(js)
  PROVE  NoPushTwiceInFlight'
<1> DEFINE more == WorksOf(js)
<1>1. /\ more \in Seq(PendingLoad) /\ Len(more) = Len(js) /\ DOMAIN js = DOMAIN more
      /\ \A n \in DOMAIN more : more[n].devsync = js[n].devsync
  <2>1. DOMAIN js = 1..Len(js)
    BY LenProperties
  <2>2. /\ more \in Seq(PendingLoad) /\ Len(more) = Len(js)
        /\ \A n \in 1..Len(js) : more[n] = WorkOf(js[n])
    BY WorksOfType, WorkOfType
  <2>3. DOMAIN more = 1..Len(more)
    BY <2>2, LenProperties
  <2>4. QED
    BY <2>1, <2>2, <2>3 DEF WorkOf
<1>2. pending' = pending \o more /\ pending \in Seq(PendingLoad)
  BY DEF Submit, TypeOK
<1> HIDE DEF more
<1>3. \A n \in DOMAIN more : more[n].devsync = None \/ (Len(more) = 1 /\ ~InFlight(more[n].devsync))
  <2>1. Len(more) = 1 => \A n \in DOMAIN more : n = 1
    BY <1>1, LenProperties
  <2>2. QED
    BY <1>1, <2>1 DEF QueuedRight
<1>4. SUFFICES ASSUME NEW i \in DOMAIN pending', NEW j \in DOMAIN pending',
                      pending'[i].devsync # None, pending'[i].devsync = pending'[j].devsync
               PROVE  i = j
  BY DEF NoPushTwiceInFlight
<1>5. /\ \/ i \in DOMAIN pending /\ pending'[i] = pending[i]
         \/ i - Len(pending) \in DOMAIN more /\ pending'[i] = more[i - Len(pending)]
      /\ \/ j \in DOMAIN pending /\ pending'[j] = pending[j]
         \/ j - Len(pending) \in DOMAIN more /\ pending'[j] = more[j - Len(pending)]
  BY <1>1, <1>2, ElementsOfConcat
<1>6. /\ Len(pending) \in Nat /\ DOMAIN more = 1..Len(more)
      /\ i \in Int /\ j \in Int
  BY <1>1, <1>2, LenProperties, ConcatProperties
<1>7. CASE i \in DOMAIN pending /\ pending'[i] = pending[i]
  <2>1. InFlight(pending[i].devsync)
    BY <1>7 DEF InFlight
  <2>2. ~(j - Len(pending) \in DOMAIN more /\ pending'[j] = more[j - Len(pending)])
    BY <1>3, <1>4, <1>7, <2>1
  <2>3. QED
    BY <1>4, <1>5, <1>7, <2>2 DEF NoPushTwiceInFlight
<1>8. CASE i - Len(pending) \in DOMAIN more /\ pending'[i] = more[i - Len(pending)]
  <2>1. Len(more) = 1 /\ ~InFlight(pending'[i].devsync)
    BY <1>3, <1>4, <1>8
  <2>2. ~(j \in DOMAIN pending /\ pending'[j] = pending[j])
    BY <1>4, <2>1 DEF InFlight
  <2>3. QED
    BY <1>5, <1>6, <1>8, <2>1, <2>2
<1>9. QED
  BY <1>5, <1>7, <1>8

\* Every step of the host keeps a push in flight at most once.
LEMMA HostKeepsOnce ==
  ManagerOK /\ SyncOK /\ NoPushTwiceInFlight /\ [HostNext]_hostVars => NoPushTwiceInFlight'
<1> SUFFICES ASSUME ManagerOK, SyncOK, NoPushTwiceInFlight, [HostNext]_hostVars
             PROVE  NoPushTwiceInFlight'
  OBVIOUS
<1>1. TypeOK /\ PendingIsPipeline
  BY DEF ManagerOK
<1>2. CASE UNCHANGED pending
  BY <1>2 DEF NoPushTwiceInFlight
<1>3. CASE UserStep
  BY <1>1, <1>2, <1>3, UserQueues, QueueKeepsOnce
<1>4. CASE PumpDone
  <2>1. pending' = Tail(pending) /\ pending # <<>>
    BY <1>1, <1>4, PumpTakesHead
  <2>2. \A n \in DOMAIN pending' :
          n \in Int /\ n + 1 \in DOMAIN pending /\ pending'[n] = pending[n + 1]
    <3>1. /\ Tail(pending) \in Seq(PendingLoad)
          /\ \A n \in DOMAIN Tail(pending) :
               n + 1 \in DOMAIN pending /\ Tail(pending)[n] = pending[n + 1]
      BY <1>1, <2>1, TailKeeps DEF TypeOK
    <3>2. DOMAIN Tail(pending) = 1..Len(Tail(pending)) /\ Len(Tail(pending)) \in Nat
      BY <3>1, LenProperties
    <3>3. QED
      BY <2>1, <3>1, <3>2
  <2>3. QED
    BY <2>2 DEF NoPushTwiceInFlight
<1>5. CASE Restart
  <2>1. DOMAIN pending' = {}
    BY <1>5 DEF Restart
  <2>2. QED
    BY <2>1 DEF NoPushTwiceInFlight
<1>6. CASE LoaderStep \/ Tick \/ PumpEnd("idle") \/ UNCHANGED managerVars \/ OnlyFrame
  BY <1>2, <1>6 DEF LoaderStep, TakeJob, WriteManifest, WriteWasm, WriteFails, Load, LoadFails,
                    Tick, PumpEnd, managerVars, OnlyFrame
<1>7. CASE PollDevsync
  <2>1. CASE UNCHANGED <<pending, jobs>>
    BY <1>2, <2>1
  <2>2. CASE /\ UpdateJob \in LoadJob /\ Submit(<<UpdateJob>>) /\ JobIsPush(UpdateJob)
             /\ ~InFlight(UpdateJob.devsync)
    <3>1. <<UpdateJob>> \in Seq(LoadJob) /\ QueuedRight(<<UpdateJob>>)
      BY <2>2 DEF QueuedRight
    <3>2. QED
      BY <1>1, <2>2, <3>1, QueueKeepsOnce
  <2>3. QED
    BY <1>1, <1>7, <2>1, <2>2, UpdateQueued
<1>8. QED
  BY <1>1, <1>3, <1>4, <1>5, <1>6, <1>7, ManagerSteps DEF Next

-----------------------------------------------------------------------------
(* The invariant, and what follows from it.                                *)

\* When the app starts nothing is in flight, served or confirmed.
LEMMA HostInitInv == HostInit => HostIInv
<1> SUFFICES ASSUME HostInit
             PROVE  HostIInv
  OBVIOUS
<1>1. ManagerOK
  BY InitInv DEF HostInit, IInv, ManagerOK
<1>2. SyncOK
  <2>1. /\ served = NoHash /\ step = "sleep" /\ index = <<>> /\ channel = <<>>
        /\ installed = NoHash
    BY DEF HostInit, SyncInit
  <2>2. /\ <<>> \in Seq(Ids \X Wasms) /\ <<>> \in Seq(Update) /\ DOMAIN <<>> = {}
        /\ NoHash \in [Ids -> {None}]
    BY EmptySeq DEF NoHash
  <2>3. QED
    BY <2>1, <2>2 DEF SyncOK
<1>3. PushesAreWhole /\ NoPushTwiceInFlight
  <2>1. pending = <<>> /\ jobs = <<>> /\ loading = None /\ done = <<>>
    BY DEF HostInit, Init
  <2>2. DOMAIN <<>> = {}
    OBVIOUS
  <2>3. QED
    BY <2>1, <2>2 DEF PushesAreWhole, WrittenSoFar, NoPushTwiceInFlight
<1>4. QED
  BY <1>1, <1>2, <1>3 DEF HostIInv

\* The four parts together are inductive: every step of the host keeps them.
LEMMA HostInvariant == HostSpec => []HostIInv
<1>1. HostIInv /\ [HostNext]_hostVars => HostIInv'
  BY HostKeepsManager, HostKeepsSync, HostKeepsWhole, HostKeepsOnce DEF HostIInv, ManagerOK
<1>2. QED
  BY <1>1, HostInitInv, PTL DEF HostSpec

\* However the poller resends, the loader lags and the user asks: a push is in flight at
\* most once (poll_devsync).
THEOREM PushesAreNotRepeated == HostSpec => []NoPushTwiceInFlight
BY HostInvariant, PTL DEF HostIInv

\* The load that confirms a push puts it to use.
LEMMA ConfirmedRuns ==
  ASSUME HostIInv, HostPumpDone, NEW i \in Ids,
         installed'[i] # installed[i], installed'[i] # None
  PROVE  LET plugin == inst'[SafeDir[i]]
         IN plugin # None /\ IdOf[plugin.manifest] = i /\ plugin.wasm = installed'[i]
<1> DEFINE r == Head(done)
<1>1. TypeOK /\ SyncOK /\ PushesAreWhole
  BY DEF HostIInv, ManagerOK
<1>2. r \in LoadDone /\ r = done[1] /\ 1 \in DOMAIN done
  BY <1>1, TailKeeps DEF HostPumpDone, PumpDone, TypeOK
<1>3. Applies(r) /\ r.devsync # None /\ MarkInstalled(r.devsync) /\ Swap(r.dir, r.result)
  BY DEF HostPumpDone, PumpDone
<1>4. DoneIsPush(r)
  BY <1>1, <1>2 DEF PushesAreWhole
<1> HIDE DEF r
<1>5. r.devsync \in Ids \X Wasms /\ r.dir \in Dirs /\ r.result \in Manifests \X Wasms
  BY <1>2, <1>3 DEF LoadDone, Tag, Package, Applies
<1>6. i = r.devsync[1] /\ installed'[i] = r.devsync[2]
  BY <1>1, <1>3, <1>5 DEF MarkInstalled, SyncOK
<1>7. r.dir = SafeDir[i] /\ IdOf[r.result[1]] = i /\ r.result[2] = installed'[i]
  BY <1>3, <1>4, <1>6 DEF DoneIsPush, IsPush, Applies
<1>8. /\ inst'[r.dir] \in Instance
      /\ inst'[r.dir].manifest = r.result[1] /\ inst'[r.dir].wasm = r.result[2]
  <2> DEFINE f == Fresh(r.result)
  <2>1. f \in Instance /\ f.manifest = r.result[1] /\ f.wasm = r.result[2]
    <3>1. TRUE \in BOOLEAN
      BY Zenon
    <3>2. QED
      BY <1>5, <3>1, ConstantsAssumption DEF Fresh, Instance
  <2>2. inst[r.dir] # None => inst[r.dir].st \in 0..MaxUse
    BY <1>1, <1>5 DEF TypeOK, Instance
  <2>3. \/ inst' = [inst EXCEPT ![r.dir] = f]
        \/ inst[r.dir] # None /\ inst' = [inst EXCEPT ![r.dir] = [f EXCEPT !.st = inst[r.dir].st]]
    BY <1>3 DEF Swap
  <2>4. inst \in [Dirs -> Instance \cup {None}]
    BY <1>1 DEF TypeOK
  <2> HIDE DEF f
  <2>5. \A st \in 0..MaxUse :
          LET g == [f EXCEPT !.st = st]
          IN g \in Instance /\ g.manifest = r.result[1] /\ g.wasm = r.result[2]
    BY <2>1 DEF Instance
  <2>6. QED
    BY <1>5, <2>1, <2>2, <2>3, <2>4, <2>5
<1>9. inst'[r.dir] # None
  BY <1>8, ConstantsAssumption
<1>10. QED
  BY <1>7, <1>8, <1>9

\* Whatever else is queued, written, refused or killed: what the poller is told is installed
\* is the module it sent, running from the directory of its id (pump, mark_installed).
THEOREM ConfirmedPushesRun == HostSpec => ConfirmIsTrue
<1> DEFINE Step == \A i \in Ids :
       installed'[i] # installed[i] /\ installed'[i] # None =>
         LET plugin == inst'[SafeDir[i]]
         IN plugin # None /\ IdOf[plugin.manifest] = i /\ plugin.wasm = installed'[i]
<1>1. HostIInv /\ [HostNext]_hostVars => Step
  <2> SUFFICES ASSUME HostIInv, [HostNext]_hostVars, NEW i \in Ids,
                      installed'[i] # installed[i], installed'[i] # None
               PROVE  LET plugin == inst'[SafeDir[i]]
                      IN plugin # None /\ IdOf[plugin.manifest] = i /\ plugin.wasm = installed'[i]
    OBVIOUS
  <2>1. CASE HostPumpDone
    BY <2>1, ConfirmedRuns
  <2>2. CASE Start
    BY <2>2 DEF Start, NoHash
  <2>3. CASE ~HostPumpDone /\ ~Start
    BY <2>3, SyncSteps
       DEF PollStep, PollOwn, PollIndex, SkipConfirmed, HoldOff, BeginFetch, EndPoll, FetchWasm,
           FetchManifest, FetchFails, Build, syncVars
  <2>4. QED
    BY <2>1, <2>2, <2>3
<1>2. QED
  BY <1>1, HostInvariant, PTL DEF HostSpec, ConfirmIsTrue
=============================================================================
