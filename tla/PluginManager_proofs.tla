----------------------- MODULE PluginManager_proofs -------------------------
(***************************************************************************)
(* Proofs about PluginManager, for any directories, plugins, requests of   *)
(* the user, faults and kills of the app.                                  *)
(*                                                                         *)
(* TypeOK is not inductive by itself: the types hold because a job that    *)
(* still has a file to write carries an install (InstallInHand), and       *)
(* because pump's removal takes the head of pending, which follows from    *)
(* PendingIsPipeline.  RunsWhatIsOnDisk is not inductive either: what pump *)
(* applies next must already be known to be what the files hold, for the   *)
(* last finished load of every directory whose files nobody will still     *)
(* read (Settled).                                                         *)
(* NewestInstallRuns follows the newest package of a directory on its way: *)
(* the last queued job has it, or the loader, or the last finished load,   *)
(* or what runs and the files (Owing).                                     *)
(***************************************************************************)
EXTENDS PluginManager, SequenceTheorems, FiniteSetTheorems, TLAPS

-----------------------------------------------------------------------------
(* Facts about the helpers.                                                *)

\* pump's removal takes the head of pending when the head is for that directory.
LEMMA ForgetHead ==
  ASSUME NEW d, pending \in Seq(PendingLoad), pending # <<>>, pending[1].dir = d
  PROVE  Forget(d) = Tail(pending)
<1> DEFINE I == {i \in 1..Len(pending) : pending[i].dir = d}
<1>1. Len(pending) \in Nat /\ Len(pending) >= 1
  BY EmptySeq, LenProperties
<1>2. 1 \in I /\ \A i \in I : 1 <= i /\ i \in Int
  BY <1>1
<1>3. Min(I) = 1
  <2>1. \A x \in I : (\A y \in I : x <= y) => x = 1
    BY <1>2
  <2> HIDE DEF I
  <2>2. QED
    BY <1>2, <2>1 DEF Min
<1>4. Forget(d) = IF \E i \in 1..Len(pending) : pending[i].dir = d
                  THEN RemoveAt(pending, IF I # {} THEN Min(I) ELSE 0) ELSE pending
  BY DEF Forget, RemoveFirstMatch, SelectInSeq
<1>5. RemoveAt(pending, 1) = Tail(pending)
  <2>1. SubSeq(pending, 1, 1 - 1) = <<>>
    BY SubSeqEmpty
  <2>2. SubSeq(pending, 1 + 1, Len(pending)) = Tail(pending)
    BY TailIsSubSeq
  <2>3. Tail(pending) \in Seq(PendingLoad)
    BY HeadTailProperties
  <2>4. QED
    BY <2>1, <2>2, <2>3, ConcatEmptySeq DEF RemoveAt
<1>6. QED
  BY <1>2, <1>3, <1>4, <1>5

\* What pending keeps of a sequence of jobs, or of finished loads.
LEMMA WorksOfType ==
  ASSUME NEW S, \A j \in S : WorkOf(j) \in PendingLoad, NEW s \in Seq(S)
  PROVE  /\ WorksOf(s) \in Seq(PendingLoad)
         /\ Len(WorksOf(s)) = Len(s)
         /\ \A i \in 1..Len(s) : WorksOf(s)[i] = WorkOf(s[i])
<1>1. DOMAIN s = 1..Len(s) /\ Len(s) \in Nat /\ \A i \in 1..Len(s) : s[i] \in S
  BY LenProperties, ElementOfSeq
<1>2. QED
  BY <1>1 DEF WorksOf

\* ... of two of them, one after the other.
LEMMA WorksOfConcat ==
  ASSUME NEW S, \A j \in S : WorkOf(j) \in PendingLoad, NEW s \in Seq(S), NEW t \in Seq(S)
  PROVE  WorksOf(s \o t) = WorksOf(s) \o WorksOf(t)
<1> DEFINE u == s \o t
           v == WorksOf(s) \o WorksOf(t)
           m == Len(s)
           n == Len(t)
<1>1. /\ u \in Seq(S) /\ Len(u) = m + n /\ m \in Nat /\ n \in Nat
      /\ \A i \in 1..(m + n) : u[i] = IF i <= m THEN s[i] ELSE t[i - m]
  BY ConcatProperties, LenProperties
<1>2. /\ WorksOf(s) \in Seq(PendingLoad) /\ Len(WorksOf(s)) = m
      /\ \A i \in 1..m : WorksOf(s)[i] = WorkOf(s[i])
  BY WorksOfType
<1>3. /\ WorksOf(t) \in Seq(PendingLoad) /\ Len(WorksOf(t)) = n
      /\ \A i \in 1..n : WorksOf(t)[i] = WorkOf(t[i])
  BY WorksOfType
<1>4. /\ WorksOf(u) \in Seq(PendingLoad) /\ Len(WorksOf(u)) = m + n
      /\ \A i \in 1..(m + n) : WorksOf(u)[i] = WorkOf(u[i])
  <2> HIDE DEF u
  <2>1. QED
    BY <1>1, WorksOfType
<1>5. /\ v \in Seq(PendingLoad) /\ Len(v) = m + n
      /\ \A i \in 1..(m + n) : v[i] = IF i <= m THEN WorksOf(s)[i] ELSE WorksOf(t)[i - m]
  <2> DEFINE a == WorksOf(s)
             b == WorksOf(t)
  <2>1. a \in Seq(PendingLoad) /\ Len(a) = m /\ b \in Seq(PendingLoad) /\ Len(b) = n
    BY <1>2, <1>3
  <2>2. /\ a \o b \in Seq(PendingLoad) /\ Len(a \o b) = m + n
        /\ \A i \in 1..(m + n) : (a \o b)[i] = IF i <= m THEN a[i] ELSE b[i - m]
    <3> HIDE DEF a, b, m, n
    <3>1. QED
      BY <2>1, ConcatProperties
  <2>3. QED
    BY <2>2
<1> HIDE DEF u, v, m, n
<1>6. ASSUME NEW i \in 1..(m + n)
      PROVE  WorksOf(u)[i] = v[i]
  <2>1. CASE i <= m
    BY <1>1, <1>2, <1>4, <1>5, <2>1
  <2>2. CASE ~(i <= m)
    <3>1. i - m \in 1..n
      BY <1>1, <2>2
    <3>2. QED
      BY <1>1, <1>3, <1>4, <1>5, <2>2, <3>1
  <2>3. QED
    BY <2>1, <2>2
<1>7. WorksOf(u) = v
  BY <1>4, <1>5, <1>6, SeqEqual
<1>8. QED
  BY <1>7 DEF u, v

\* ... of one of them and no more.
LEMMA WorksOfOne ==
  ASSUME NEW S, \A j \in S : WorkOf(j) \in PendingLoad, NEW j \in S
  PROVE  WorksOf(<<j>>) = <<WorkOf(j)>>
BY DEF WorksOf

\* A job, or a finished load, leaves a well-formed entry.
LEMMA WorkOfType ==
  /\ \A j \in LoadJob : WorkOf(j) \in PendingLoad
  /\ \A r \in LoadDone : WorkOf(r) \in PendingLoad
BY DEF WorkOf, LoadJob, LoadDone, PendingLoad

-----------------------------------------------------------------------------
(* The pipeline.                                                           *)

\* An item put before a sequence.
LEMMA ConsIsSeq ==
  ASSUME NEW S, NEW e \in S, NEW s \in Seq(S)
  PROVE  /\ <<e>> \o s \in Seq(S) /\ <<e>> \o s # <<>>
         /\ (<<e>> \o s)[1] = e /\ Tail(<<e>> \o s) = s
<1> DEFINE c == <<e>> \o s
<1>1. <<e>> \in Seq(S) /\ Len(<<e>>) = 1 /\ <<e>>[1] = e /\ Len(s) \in Nat
  BY LenProperties
<1>2. /\ c \in Seq(S) /\ Len(c) = 1 + Len(s)
      /\ \A i \in 1..(1 + Len(s)) : c[i] = IF i <= 1 THEN e ELSE s[i - 1]
  BY <1>1, ConcatProperties
<1>3. c # <<>> /\ c[1] = e
  BY <1>1, <1>2
<1>4. Tail(c) = s
  <2> HIDE DEF c
  <2>1. Tail(c) \in Seq(S) /\ Len(Tail(c)) = Len(s)
    BY <1>1, <1>2, <1>3, HeadTailProperties
  <2>2. \A i \in 1..Len(s) : Tail(c)[i] = s[i]
    <3>1. \A i \in 1..Len(s) : Tail(c)[i] = c[i + 1]
      BY <1>2, <1>3, <2>1, HeadTailProperties
    <3>2. QED
      BY <1>1, <1>2, <3>1
  <2>3. QED
    BY <2>1, <2>2, SeqEqual
<1>5. QED
  BY <1>2, <1>3, <1>4

\* A sequence is its head followed by its tail.
LEMMA HeadAndTail ==
  ASSUME NEW S, NEW s \in Seq(S), s # <<>>
  PROVE  s = <<Head(s)>> \o Tail(s)
<1>1. Len(s) \in Nat /\ 1 \in 1..Len(s) /\ Len(s) \in 1..Len(s) /\ Head(s) = s[1]
  BY EmptySeq, LenProperties
<1>2. SubSeq(s, 1, Len(s)) = <<s[1]>> \o SubSeq(s, 1 + 1, Len(s))
  BY <1>1, SubSeqRecursiveFirst
<1>3. QED
  BY <1>1, <1>2, SubSeqFull, TailIsSubSeq

\* The head and the rest of a sequence whose elements have a property.
LEMMA TailKeeps ==
  ASSUME NEW S, NEW s \in Seq(S), s # <<>>
  PROVE  /\ Head(s) \in S /\ 1 \in DOMAIN s /\ Head(s) = s[1]
         /\ Tail(s) \in Seq(S)
         /\ \A n \in DOMAIN Tail(s) : n + 1 \in DOMAIN s /\ Tail(s)[n] = s[n + 1]
<1>1. /\ Len(s) \in Nat \ {0} /\ DOMAIN s = 1..Len(s)
      /\ Head(s) \in S /\ Head(s) = s[1]
      /\ Tail(s) \in Seq(S) /\ Len(Tail(s)) = Len(s) - 1
      /\ \A n \in 1..Len(Tail(s)) : Tail(s)[n] = s[n + 1]
  BY EmptySeq, LenProperties, HeadTailProperties
<1>2. DOMAIN Tail(s) = 1..(Len(s) - 1)
  BY <1>1, LenProperties
<1>3. QED
  BY <1>1, <1>2

\* The parts of the pipeline are sequences of entries.
LEMMA PipelineType ==
  ASSUME TypeOK
  PROVE  /\ WorksOf(done) \in Seq(PendingLoad) /\ InLoader \in Seq(PendingLoad)
         /\ WorksOf(jobs) \in Seq(PendingLoad)
<1>1. loading # None => WorkOf(loading.job) \in PendingLoad
  BY WorkOfType DEF TypeOK, RunJob
<1>2. InLoader \in Seq(PendingLoad)
  BY <1>1 DEF InLoader
<1>3. QED
  BY <1>2, WorksOfType, WorkOfType DEF TypeOK

\* The head of pending is the load at the head of done.
LEMMA HeadOfPending ==
  ASSUME TypeOK, PendingIsPipeline, done # <<>>
  PROVE  /\ pending # <<>> /\ pending[1] = WorkOf(Head(done))
         /\ Tail(pending) = WorksOf(Tail(done)) \o InLoader \o WorksOf(jobs)
<1> DEFINE w == WorkOf(Head(done))
           a == WorksOf(Tail(done))
           b == InLoader
           c == WorksOf(jobs)
<1>1. Head(done) \in LoadDone /\ Tail(done) \in Seq(LoadDone)
  BY HeadTailProperties DEF TypeOK
<1>2. w \in PendingLoad /\ a \in Seq(PendingLoad)
  BY <1>1, WorkOfType, WorksOfType
<1>3. WorksOf(done) = <<w>> \o a
  <2>1. <<Head(done)>> \in Seq(LoadDone)
    BY <1>1
  <2>2. WorksOf(<<Head(done)>> \o Tail(done)) = WorksOf(<<Head(done)>>) \o a
    BY <1>1, <2>1, WorkOfType, WorksOfConcat
  <2>3. WorksOf(<<Head(done)>>) = <<w>>
    BY <1>1, WorkOfType, WorksOfOne
  <2>4. QED
    BY <2>2, <2>3, HeadAndTail DEF TypeOK
<1>4. b \in Seq(PendingLoad) /\ c \in Seq(PendingLoad)
  BY PipelineType
<1>5. pending = <<w>> \o (a \o b \o c)
  <2>1. pending = (<<w>> \o a) \o b \o c
    BY <1>3 DEF PendingIsPipeline, Pipeline
  <2> HIDE DEF w, a, b, c
  <2>2. <<w>> \in Seq(PendingLoad) /\ a \o b \in Seq(PendingLoad)
    BY <1>2, <1>4, ConcatProperties
  <2>3. (<<w>> \o a) \o b = <<w>> \o (a \o b)
    BY <1>2, <1>4, <2>2, ConcatAssociative
  <2>4. (<<w>> \o (a \o b)) \o c = <<w>> \o ((a \o b) \o c)
    BY <1>4, <2>2, ConcatAssociative
  <2>5. QED
    BY <2>1, <2>3, <2>4
<1>6. a \o b \o c \in Seq(PendingLoad)
  BY <1>2, <1>4, ConcatProperties
<1>7. QED
  <2> HIDE DEF w, a, b, c
  <2>1. pending # <<>> /\ pending[1] = w /\ Tail(pending) = a \o b \o c
    BY <1>2, <1>5, <1>6, ConsIsSeq
  <2>2. QED
    BY <2>1 DEF w, a, b, c

\* pump takes the head of pending for the load at the head of done.
LEMMA PumpTakesHead ==
  ASSUME TypeOK, PendingIsPipeline, PumpDone
  PROVE  pending' = Tail(pending) /\ pending # <<>>
<1>1. pending # <<>> /\ pending[1] = WorkOf(Head(done))
  BY HeadOfPending DEF PumpDone
<1>2. pending[1].dir = Head(done).dir
  BY <1>1 DEF WorkOf
<1>3. pending' = Forget(Head(done).dir)
  BY DEF PumpDone
<1>4. QED
  BY <1>1, <1>2, <1>3, ForgetHead DEF TypeOK

-----------------------------------------------------------------------------
(* Types.                                                                  *)

\* The loader has an install in hand while it writes files.
InstallInHand ==
  loading # None /\ loading.at # "load" => loading.job.install # None

\* A function on 1..n into a set is a sequence over the set.
LEMMA ArrayIsSeq ==
  ASSUME NEW S, NEW n \in Nat, NEW f \in [1..n -> S]
  PROVE  f \in Seq(S)
BY SeqDef

\* submit leaves well-formed entries and messages.
LEMMA SubmitType ==
  ASSUME TypeOK, NEW js \in Seq(LoadJob), Submit(js)
  PROVE  pending' \in Seq(PendingLoad) /\ jobs' \in Seq(LoadJob)
<1>1. WorksOf(js) \in Seq(PendingLoad)
  BY WorksOfType, WorkOfType
<1>2. QED
  BY <1>1, ConcatProperties DEF Submit, TypeOK

\* What scan submits is a sequence of jobs.
LEMMA ScanJobs ==
  ASSUME NEW found \in SUBSET Dirs, NEW order \in SetToSeqs(found)
  PROVE  [i \in DOMAIN order |-> ReloadJob(order[i])] \in Seq(LoadJob)
<1>1. Cardinality(found) \in Nat
  BY ConstantsAssumption, FS_Subset, FS_CardinalityType
<1>2. order \in [1..Cardinality(found) -> Dirs]
  BY DEF SetToSeqs
<1>3. \A d \in Dirs : ReloadJob(d) \in LoadJob
  BY DEF ReloadJob, LoadJob, Tag, Package
<1>4. [i \in 1..Cardinality(found) |-> ReloadJob(order[i])] \in
        [1..Cardinality(found) -> LoadJob]
  BY <1>2, <1>3
<1>5. DOMAIN order = 1..Cardinality(found)
  BY <1>2
<1>6. QED
  BY <1>1, <1>4, <1>5, ArrayIsSeq

\* A file of a directory may be torn.
LEMMA TornType ==
  ASSUME NEW f \in Files, NEW a \in {"manifest", "wasm"}
  PROVE  [f EXCEPT ![a] = Torn] \in Files
BY DEF Files

\* A new instance, with or without the old one's state, is well formed.
LEMMA SwapType ==
  ASSUME TypeOK, NEW d \in Dirs, NEW p \in Manifests \X Wasms, Swap(d, p)
  PROVE  /\ inst' \in [Dirs -> Instance \cup {None}] /\ inst'[d] \in Instance
         /\ faults' \in Nat
<1>1. Fresh(p) \in Instance
  <2>1. TRUE \in BOOLEAN
    BY Zenon
  <2>2. QED
    BY <2>1, ConstantsAssumption DEF Fresh, Instance
<1>2. inst[d] # None => [Fresh(p) EXCEPT !.st = inst[d].st] \in Instance
  <2>1. inst[d] # None => inst[d].st \in 0..MaxUse
    BY DEF TypeOK, Instance
  <2>2. QED
    BY <1>1, <2>1 DEF Instance
<1>3. \/ inst' = [inst EXCEPT ![d] = Fresh(p)]
      \/ inst[d] # None /\ inst' = [inst EXCEPT ![d] = [Fresh(p) EXCEPT !.st = inst[d].st]]
  BY DEF Swap
<1>4. faults' \in Nat
  BY DEF Swap, TypeOK
<1>5. QED
  BY <1>1, <1>2, <1>3, <1>4 DEF TypeOK

\* A guest frame and the checkbox leave a well-formed instance of the same package.
LEMMA GuestStays ==
  ASSUME TypeOK, NEW d \in Dirs, GuestFrame(d) \/ ToggleEnabled(d)
  PROVE  /\ inst' \in [Dirs -> Instance \cup {None}] /\ inst'[d] \in Instance
         /\ inst[d] # None /\ Pair(inst'[d]) = Pair(inst[d])
         /\ \A e \in Dirs : e # d => inst'[e] = inst[e]
<1> DEFINE b == ~inst[d].enabled
<1>1. b \in BOOLEAN
  BY Zenon
<1>2. inst[d] \in Instance /\ inst[d] # None
  BY DEF GuestFrame, ToggleEnabled, TypeOK
<1>3. \/ inst[d].st < MaxUse /\ inst' = [inst EXCEPT ![d] = [inst[d] EXCEPT !.st = @ + 1]]
      \/ inst' = [inst EXCEPT ![d] = [inst[d] EXCEPT !.status = "Errored"]]
      \/ inst' = [inst EXCEPT ![d] = [inst[d] EXCEPT !.enabled = b]]
  BY Zenon DEF GuestFrame, ToggleEnabled
<1> HIDE DEF b
<1>4. /\ inst[d].st < MaxUse => [inst[d] EXCEPT !.st = @ + 1] \in Instance
      /\ [inst[d] EXCEPT !.status = "Errored"] \in Instance
      /\ [inst[d] EXCEPT !.enabled = b] \in Instance
  BY <1>1, <1>2, ConstantsAssumption DEF Instance
<1>5. PICK g \in Instance : inst' = [inst EXCEPT ![d] = g]
        /\ g.manifest = inst[d].manifest /\ g.wasm = inst[d].wasm
  BY <1>2, <1>3, <1>4 DEF Instance
<1>6. QED
  BY <1>2, <1>5 DEF TypeOK, Pair

\* The state the app starts in has its types.
LEMMA InitType == Init => TypeOK /\ InstallInHand
<1> SUFFICES ASSUME Init PROVE TypeOK /\ InstallInHand
  OBVIOUS
<1> USE ConstantsAssumption DEF Init
<1>1. repaint \in BOOLEAN /\ applied \in BOOLEAN
  BY Zenon
<1>2. disk \in [Dirs -> Files]
  BY DEF Files, NoFiles
<1>3. <<>> \in Seq(PendingLoad) /\ <<>> \in Seq(LoadJob) /\ <<>> \in Seq(LoadDone)
  BY EmptySeq
<1>4. owed \in [Dirs -> Package]
  BY DEF Package
<1>5. QED
  BY <1>1, <1>2, <1>3, <1>4 DEF TypeOK, InstallInHand

\* Every step keeps the types, and the loader its install.
LEMMA NextType ==
  TypeOK /\ InstallInHand /\ PendingIsPipeline /\ [Next]_managerVars => (TypeOK /\ InstallInHand)'
<1> SUFFICES ASSUME TypeOK, InstallInHand, PendingIsPipeline, [Next]_managerVars
             PROVE  TypeOK' /\ InstallInHand'
  OBVIOUS
<1> USE ConstantsAssumption
<1>1. CASE Scan
  <2> DEFINE found == {d \in Dirs : disk[d].wasm # None /\ inst[d] = None /\ ~IsPending(d)}
  <2>1. PICK order \in SetToSeqs(found) : Submit([i \in DOMAIN order |-> ReloadJob(order[i])])
    BY <1>1 DEF Scan
  <2>2. pending' \in Seq(PendingLoad) /\ jobs' \in Seq(LoadJob)
    <3>1. found \in SUBSET Dirs
      OBVIOUS
    <3> HIDE DEF found
    <3>2. QED
      BY <2>1, <3>1, ScanJobs, SubmitType
  <2>3. repaint' \in BOOLEAN
    BY <1>1, Zenon DEF Scan, UserAsks
  <2>4. QED
    BY <1>1, <2>2, <2>3 DEF Scan, UserAsks, TypeOK, InstallInHand
<1>2. ASSUME NEW d \in Dirs, ReloadAt(d)
      PROVE  TypeOK' /\ InstallInHand'
  <2>1. <<ReloadJob(d)>> \in Seq(LoadJob)
    BY DEF ReloadJob, LoadJob, Tag, Package
  <2>2. pending' \in Seq(PendingLoad) /\ jobs' \in Seq(LoadJob)
    BY <1>2, <2>1, SubmitType DEF ReloadAt
  <2>3. repaint' \in BOOLEAN
    BY <1>2, Zenon DEF ReloadAt, UserAsks
  <2>4. QED
    BY <1>2, <2>2, <2>3 DEF ReloadAt, UserAsks, TypeOK, InstallInHand
<1>3. ASSUME NEW m \in Manifests, NEW w \in Wasms, InstallBytes(m, w)
      PROVE  TypeOK' /\ InstallInHand'
  <2> DEFINE job == [dir |-> SafeDir[IdOf[m]], devsync |-> None, install |-> <<m, w>>]
  <2>1. job \in LoadJob
    BY <1>3, DataAssumption DEF InstallBytes, QueueInstall, LoadJob, Tag, Package
  <2>2. pending' \in Seq(PendingLoad) /\ jobs' \in Seq(LoadJob)
    <3>1. <<job>> \in Seq(LoadJob) /\ Submit(<<job>>)
      BY <1>3, <2>1 DEF InstallBytes, QueueInstall
    <3>2. QED
      BY <3>1, SubmitType
  <2>3. repaint' \in BOOLEAN
    BY <1>3, Zenon DEF InstallBytes, UserAsks
  <2>4. owed' \in [Dirs -> Package]
    BY <1>3 DEF InstallBytes, QueueInstall, Package, TypeOK
  <2>5. QED
    BY <1>3, <2>2, <2>3, <2>4 DEF InstallBytes, UserAsks, TypeOK, InstallInHand
<1>4. CASE TakeJob
  <2>1. Head(jobs) \in LoadJob /\ Tail(jobs) \in Seq(LoadJob)
    BY <1>4, HeadTailProperties DEF TakeJob, TypeOK
  <2>2. loading' \in RunJob
    BY <1>4, <2>1 DEF TakeJob, RunJob
  <2>3. InstallInHand'
    BY <1>4 DEF TakeJob, InstallInHand
  <2>4. QED
    BY <1>4, <2>1, <2>2, <2>3 DEF TakeJob, TypeOK
<1>5. CASE WriteManifest
  <2>1. loading \in RunJob /\ loading.job.install \in Manifests \X Wasms
    BY <1>5 DEF WriteManifest, TypeOK, InstallInHand, RunJob, LoadJob, Package
  <2>2. loading' \in RunJob /\ InstallInHand'
    BY <1>5, <2>1 DEF WriteManifest, RunJob, InstallInHand
  <2>3. loading.job.dir \in Dirs
    BY <2>1 DEF RunJob, LoadJob
  <2>4. disk' \in [Dirs -> Files]
    BY <1>5, <2>1, <2>3, ZenonT(40) DEF WriteManifest, TypeOK, Files
  <2>5. QED
    BY <1>5, <2>2, <2>4 DEF WriteManifest, TypeOK
<1>6. CASE WriteWasm
  <2>1. loading \in RunJob /\ loading.job.install \in Manifests \X Wasms
    BY <1>6 DEF WriteWasm, TypeOK, InstallInHand, RunJob, LoadJob, Package
  <2>2. loading' \in RunJob /\ InstallInHand'
    BY <1>6, <2>1 DEF WriteWasm, RunJob, InstallInHand
  <2>3. loading.job.dir \in Dirs
    BY <2>1 DEF RunJob, LoadJob
  <2>4. disk' \in [Dirs -> Files]
    BY <1>6, <2>1, <2>3, ZenonT(40) DEF WriteWasm, TypeOK, Files
  <2>5. QED
    BY <1>6, <2>2, <2>4 DEF WriteWasm, TypeOK
<1>7. ASSUME NEW result \in Package, loading # None, Finish(result)
      PROVE  /\ done' \in Seq(LoadDone)
             /\ loading' \in RunJob \cup {None} /\ InstallInHand'
  <2>1. loading \in RunJob
    BY <1>7 DEF TypeOK
  <2>2. [dir |-> loading.job.dir, devsync |-> loading.job.devsync, result |-> result] \in LoadDone
    BY <1>7, <2>1 DEF RunJob, LoadJob, LoadDone
  <2>3. QED
    BY <1>7, <2>2, AppendProperties DEF Finish, TypeOK, InstallInHand
<1>8. CASE WriteFails
  <2>1. loading \in RunJob /\ None \in Package
    BY <1>8 DEF WriteFails, TypeOK, Package
  <2>2. disk' \in [Dirs -> Files]
    <3>1. loading.job.dir \in Dirs /\ loading.at \in {"manifest", "wasm"}
      BY <1>8, <2>1 DEF WriteFails, RunJob, LoadJob
    <3>2. [disk[loading.job.dir] EXCEPT ![loading.at] = Torn] \in Files
      BY <3>1, TornType DEF TypeOK
    <3>3. QED
      BY <1>8, <3>1, <3>2, ZenonT(40) DEF WriteFails, TypeOK
  <2>3. QED
    BY <1>7, <1>8, <2>1, <2>2, SMTT(30) DEF WriteFails, TypeOK
<1>9. CASE Load
  <2> DEFINE files == Pair(disk[loading.job.dir])
  <2>1. (IF files \in Loadable THEN files ELSE None) \in Package
    BY DEF Package
  <2>2. QED
    BY <1>7, <1>9, <2>1 DEF Load, TypeOK
<1>10. CASE LoadFails
  <2>1. None \in Package
    BY DEF Package
  <2>2. QED
    BY <1>7, <1>10, <2>1 DEF LoadFails, TypeOK
<1>11. CASE Tick
  <2>1. repaint' \in BOOLEAN /\ applied' \in BOOLEAN
    BY <1>11, Zenon DEF Tick
  <2>2. QED
    BY <1>11, <2>1 DEF Tick, TypeOK, InstallInHand
<1>12. CASE PumpDone
  <2> DEFINE r == Head(done)
  <2>1. r \in LoadDone /\ Tail(done) \in Seq(LoadDone)
    BY <1>12, HeadTailProperties DEF PumpDone, TypeOK
  <2>2. pending' \in Seq(PendingLoad)
    <3>1. pending' = Tail(pending) /\ pending # <<>>
      BY <1>12, PumpTakesHead
    <3>2. QED
      BY <3>1, HeadTailProperties DEF TypeOK
  <2>3. errors' \subseteq Dirs \cup Ids /\ failed' \subseteq Dirs
    BY <1>12, <2>1 DEF PumpDone, TypeOK, LoadDone
  <2>4. inst' \in [Dirs -> Instance \cup {None}] /\ faults' \in Nat
    <3>1. CASE Applies(r)
      <4>1. r.dir \in Dirs /\ r.result \in Manifests \X Wasms /\ Swap(r.dir, r.result)
        BY <1>12, <2>1, <3>1 DEF PumpDone, Applies, LoadDone, Package
      <4>2. QED
        BY <4>1, SwapType
    <3>2. CASE ~Applies(r)
      BY <1>12, <3>2 DEF PumpDone, TypeOK
    <3>3. QED
      BY <3>1, <3>2
  <2>5. applied' \in BOOLEAN
    BY <1>12, Zenon DEF PumpDone, TypeOK, Applies
  <2>6. owed' \in [Dirs -> Package]
    <3>1. owed' \in {owed, [owed EXCEPT ![r.dir] = None]}
      BY <1>12 DEF PumpDone
    <3>2. QED
      BY <3>1 DEF Package, TypeOK
  <2>7. QED
    BY <1>12, <2>1, <2>2, <2>3, <2>4, <2>5, <2>6 DEF PumpDone, TypeOK, InstallInHand
<1>13. CASE PumpEnd("idle")
  <2>1. repaint' \in BOOLEAN
    BY <1>13, Zenon DEF PumpEnd, TypeOK
  <2>2. QED
    BY <1>13, <2>1 DEF PumpEnd, TypeOK, InstallInHand
<1>14. ASSUME NEW d \in Dirs, GuestFrame(d)
       PROVE  TypeOK' /\ InstallInHand'
  <2>1. inst' \in [Dirs -> Instance \cup {None}]
    BY <1>14, GuestStays
  <2>2. QED
    BY <1>14, <2>1 DEF GuestFrame, TypeOK, InstallInHand
<1>15. ASSUME NEW d \in Dirs, ToggleEnabled(d)
       PROVE  TypeOK' /\ InstallInHand'
  <2>1. repaint' \in BOOLEAN
    BY <1>15, Zenon DEF ToggleEnabled, UserAsks
  <2>2. inst' \in [Dirs -> Instance \cup {None}]
    BY <1>15, GuestStays
  <2>3. QED
    BY <1>15, <2>1, <2>2 DEF ToggleEnabled, UserAsks, TypeOK, InstallInHand
<1>16. CASE Restart
  <2>1. repaint' \in BOOLEAN /\ applied' \in BOOLEAN
    BY <1>16, Zenon DEF Restart
  <2>2. disk' \in [Dirs -> Files]
    <3>1. CASE UNCHANGED disk
      BY <3>1 DEF TypeOK
    <3>2. CASE ~UNCHANGED disk
      <4>1. loading.job.dir \in Dirs /\ loading.at \in {"manifest", "wasm"}
        BY <1>16, <3>2 DEF Restart, TypeOK, RunJob, LoadJob
      <4>2. [disk[loading.job.dir] EXCEPT ![loading.at] = Torn] \in Files
        BY <4>1, TornType DEF TypeOK
      <4>3. QED
        BY <1>16, <3>2, <4>1, <4>2, ZenonT(40) DEF Restart, TypeOK
    <3>3. QED
      BY <3>1, <3>2
  <2>3. <<>> \in Seq(PendingLoad) /\ <<>> \in Seq(LoadJob) /\ <<>> \in Seq(LoadDone)
    BY EmptySeq
  <2>4. owed' \in [Dirs -> Package]
    BY <1>16 DEF Restart, Package
  <2>5. QED
    BY <1>16, <2>1, <2>2, <2>3, <2>4 DEF Restart, TypeOK, InstallInHand
<1>17. CASE UNCHANGED managerVars
  BY <1>17 DEF managerVars, TypeOK, InstallInHand
<1>18. QED
  BY <1>1, <1>2, <1>3, <1>4, <1>5, <1>6, <1>8, <1>9, <1>10, <1>11, <1>12, <1>13, <1>14,
     <1>15, <1>16, <1>17 DEF Next, UserStep, LoaderStep

-----------------------------------------------------------------------------
(* pending is the pipeline.                                                *)

\* A queued job goes to the end of both.
LEMMA SubmitKeeps ==
  ASSUME TypeOK, PendingIsPipeline, NEW js \in Seq(LoadJob), Submit(js),
         UNCHANGED <<loading, done>>
  PROVE  PendingIsPipeline'
<1> DEFINE a == WorksOf(done) \o InLoader
           b == WorksOf(jobs)
           c == WorksOf(js)
<1>1. a \in Seq(PendingLoad) /\ b \in Seq(PendingLoad) /\ c \in Seq(PendingLoad)
  BY PipelineType, ConcatProperties, WorksOfType, WorkOfType
<1>2. WorksOf(jobs \o js) = b \o c
  BY WorksOfConcat, WorkOfType DEF TypeOK
<1>3. pending' = (a \o b) \o c
  BY DEF Submit, PendingIsPipeline, Pipeline
<1>4. (a \o b) \o c = a \o (b \o c)
  <2> HIDE DEF a, b, c
  <2>1. QED
    BY <1>1, ConcatAssociative, SMTT(30)
<1>5. Pipeline' = a \o (b \o c)
  BY <1>2 DEF Pipeline, InLoader, Submit
<1>6. QED
  BY <1>3, <1>4, <1>5 DEF PendingIsPipeline

\* A job that is done moves from the loader to the end of done.
LEMMA FinishKeeps ==
  ASSUME TypeOK, PendingIsPipeline, loading # None, NEW result \in Package, Finish(result),
         UNCHANGED <<pending, jobs>>
  PROVE  PendingIsPipeline'
<1> DEFINE r == [dir |-> loading.job.dir, devsync |-> loading.job.devsync, result |-> result]
           a == WorksOf(done)
           w == WorkOf(loading.job)
<1>1. r \in LoadDone
  BY DEF TypeOK, RunJob, LoadJob, LoadDone
<1>2. WorkOf(r) = w
  BY DEF WorkOf
<1>3. WorksOf(done') = a \o <<w>>
  <2>1. done' = done \o <<r>> /\ <<r>> \in Seq(LoadDone)
    BY <1>1, AppendIsConcat DEF Finish, TypeOK
  <2>2. WorksOf(<<r>>) = <<w>>
    BY <1>1, <1>2, WorksOfOne, WorkOfType
  <2>3. WorksOf(done \o <<r>>) = a \o WorksOf(<<r>>)
    BY <2>1, WorksOfConcat, WorkOfType DEF TypeOK
  <2>4. QED
    BY <2>1, <2>2, <2>3
<1>4. InLoader = <<w>> /\ InLoader' = <<>>
  BY DEF InLoader, Finish
<1>5. a \o <<w>> \in Seq(PendingLoad)
  BY <1>4, PipelineType, ConcatProperties
<1>6. Pipeline' = a \o <<w>> \o WorksOf(jobs)
  <2>1. Pipeline' = ((a \o <<w>>) \o <<>>) \o WorksOf(jobs)
    BY <1>3, <1>4 DEF Pipeline
  <2>2. (a \o <<w>>) \o <<>> = a \o <<w>>
    BY <1>5, ConcatEmptySeq
  <2>3. QED
    BY <2>1, <2>2
<1>7. QED
  BY <1>4, <1>6 DEF PendingIsPipeline, Pipeline

\* A job that the loader takes moves from the head of jobs to the loader.
LEMMA TakeKeeps ==
  ASSUME TypeOK, PendingIsPipeline, TakeJob
  PROVE  PendingIsPipeline'
<1> DEFINE a == WorksOf(done)
           w == WorkOf(Head(jobs))
           c == WorksOf(Tail(jobs))
<1>1. Head(jobs) \in LoadJob /\ Tail(jobs) \in Seq(LoadJob)
  BY HeadTailProperties DEF TakeJob, TypeOK
<1>2. WorksOf(jobs) = <<w>> \o c
  <2>1. <<Head(jobs)>> \in Seq(LoadJob) /\ jobs = <<Head(jobs)>> \o Tail(jobs)
    BY <1>1, HeadAndTail DEF TakeJob, TypeOK
  <2>2. WorksOf(<<Head(jobs)>> \o Tail(jobs)) = WorksOf(<<Head(jobs)>>) \o c
    BY <1>1, <2>1, WorksOfConcat, WorkOfType
  <2>3. WorksOf(<<Head(jobs)>>) = <<w>>
    BY <1>1, WorksOfOne, WorkOfType
  <2>4. QED
    BY <2>1, <2>2, <2>3
<1>3. a \in Seq(PendingLoad) /\ c \in Seq(PendingLoad) /\ <<w>> \in Seq(PendingLoad)
  <2>1. w \in PendingLoad
    BY <1>1, WorkOfType
  <2>2. c \in Seq(PendingLoad)
    BY <1>1, WorksOfType, WorkOfType
  <2>3. QED
    BY <2>1, <2>2, PipelineType
<1>4. InLoader = <<>> /\ InLoader' = <<w>>
  <2>1. loading' # None /\ loading'.job = Head(jobs) /\ loading = None
    BY <1>1, ConstantsAssumption DEF TakeJob, RunJob
  <2>2. QED
    BY <2>1 DEF InLoader
<1>5. Pipeline' = (a \o <<w>>) \o c
  BY <1>4 DEF Pipeline, TakeJob
<1>6. pending = a \o (<<w>> \o c)
  <2>1. pending = (a \o <<>>) \o (<<w>> \o c)
    BY <1>2, <1>4 DEF PendingIsPipeline, Pipeline
  <2>2. a \o <<>> = a
    BY <1>3, ConcatEmptySeq
  <2>3. QED
    BY <2>1, <2>2
<1>7. (a \o <<w>>) \o c = a \o (<<w>> \o c)
  <2> HIDE DEF a, w, c
  <2>1. QED
    BY <1>3, ConcatAssociative
<1>8. QED
  BY <1>5, <1>6, <1>7 DEF PendingIsPipeline, TakeJob

\* Nothing else moves work.
LEMMA RestKeeps ==
  ASSUME PendingIsPipeline, UNCHANGED <<pending, jobs, done>>, InLoader' = InLoader
  PROVE  PendingIsPipeline'
BY DEF PendingIsPipeline, Pipeline

\* Every step keeps pending equal to the work in flight.
LEMMA NextPipeline ==
  TypeOK /\ InstallInHand /\ PendingIsPipeline /\ [Next]_managerVars => PendingIsPipeline'
<1> SUFFICES ASSUME TypeOK, PendingIsPipeline, [Next]_managerVars
             PROVE  PendingIsPipeline'
  OBVIOUS
<1> USE ConstantsAssumption
<1>1. CASE Scan
  <2> DEFINE found == {d \in Dirs : disk[d].wasm # None /\ inst[d] = None /\ ~IsPending(d)}
  <2>1. PICK order \in SetToSeqs(found) : Submit([i \in DOMAIN order |-> ReloadJob(order[i])])
    BY <1>1 DEF Scan
  <2>2. found \in SUBSET Dirs /\ UNCHANGED <<loading, done>>
    BY <1>1 DEF Scan
  <2> HIDE DEF found
  <2>3. [i \in DOMAIN order |-> ReloadJob(order[i])] \in Seq(LoadJob)
    BY <2>2, ScanJobs
  <2>4. QED
    BY <2>1, <2>2, <2>3, SubmitKeeps
<1>2. ASSUME NEW d \in Dirs, ReloadAt(d)
      PROVE  PendingIsPipeline'
  <2>1. <<ReloadJob(d)>> \in Seq(LoadJob)
    BY DEF ReloadJob, LoadJob, Tag, Package
  <2>2. QED
    BY <1>2, <2>1, SubmitKeeps DEF ReloadAt
<1>3. ASSUME NEW m \in Manifests, NEW w \in Wasms, InstallBytes(m, w)
      PROVE  PendingIsPipeline'
  <2> DEFINE job == [dir |-> SafeDir[IdOf[m]], devsync |-> None, install |-> <<m, w>>]
  <2>1. <<job>> \in Seq(LoadJob) /\ Submit(<<job>>)
    BY <1>3, DataAssumption DEF InstallBytes, QueueInstall, LoadJob, Tag, Package
  <2>2. QED
    BY <1>3, <2>1, SubmitKeeps DEF InstallBytes
<1>4. CASE TakeJob
  BY <1>4, TakeKeeps
<1>5. CASE WriteManifest \/ WriteWasm
  <2>1. loading \in RunJob
    BY <1>5 DEF WriteManifest, WriteWasm, TypeOK
  <2>2. loading' \in RunJob /\ loading'.job = loading.job
    BY <1>5, <2>1 DEF WriteManifest, WriteWasm, RunJob
  <2>3. InLoader' = InLoader
    BY <2>1, <2>2 DEF InLoader
  <2>4. QED
    BY <1>5, <2>3, RestKeeps DEF WriteManifest, WriteWasm
<1>6. CASE WriteFails \/ LoadFails
  <2>1. None \in Package
    BY DEF Package
  <2>2. QED
    BY <1>6, <2>1, FinishKeeps DEF WriteFails, LoadFails
<1>7. CASE Load
  <2> DEFINE files == Pair(disk[loading.job.dir])
  <2>1. (IF files \in Loadable THEN files ELSE None) \in Package
    BY DEF Package
  <2>2. QED
    BY <1>7, <2>1, FinishKeeps DEF Load
<1>8. CASE PumpDone
  <2>1. pending' = WorksOf(Tail(done)) \o InLoader \o WorksOf(jobs)
    BY <1>8, PumpTakesHead, HeadOfPending DEF PumpDone
  <2>2. QED
    BY <1>8, <2>1 DEF PumpDone, PendingIsPipeline, Pipeline, InLoader
<1>9. CASE Tick \/ PumpEnd("idle") \/ UNCHANGED managerVars
  BY <1>9, RestKeeps DEF Tick, PumpEnd, managerVars, InLoader
<1>10. ASSUME NEW d \in Dirs, GuestFrame(d) \/ ToggleEnabled(d)
       PROVE  PendingIsPipeline'
  BY <1>10, RestKeeps DEF GuestFrame, ToggleEnabled, InLoader
<1>11. CASE Restart
  <2>1. pending' = <<>> /\ jobs' = <<>> /\ loading' = None /\ done' = <<>>
    BY <1>11 DEF Restart
  <2>2. WorksOf(<<>>) = <<>> /\ InLoader' = <<>>
    BY <2>1 DEF WorksOf, InLoader
  <2>3. QED
    BY <2>1, <2>2, EmptySeq, ConcatEmptySeq DEF PendingIsPipeline, Pipeline
<1>12. QED
  BY <1>1, <1>2, <1>3, <1>4, <1>5, <1>6, <1>7, <1>8, <1>9, <1>10, <1>11
     DEF Next, UserStep, LoaderStep

-----------------------------------------------------------------------------
(* What runs is what is on disk.                                           *)

\* A load of d is queued or in the loader: the files of d are not yet read for it.
Unread(d) ==
  \/ \E i \in DOMAIN jobs : jobs[i].dir = d
  \/ loading # None /\ loading.job.dir = d

\* The finished load at i is the last one of d.
LastOf(d, i) ==
  /\ i \in DOMAIN done /\ done[i].dir = d
  /\ \A j \in DOMAIN done : j > i => done[j].dir # d

\* Once the last load of d has read its files nobody writes them: its result is what they
\* hold, and so is what runs when pump has applied it.
Settled(d) ==
  ~Unread(d) =>
    /\ \A i \in DOMAIN done :
         LastOf(d, i) => done[i].result = None \/ done[i].result = Pair(disk[d])
    /\ (\A i \in DOMAIN done : done[i].dir # d) /\ inst[d] # None /\ d \notin failed =>
         Pair(inst[d]) = Pair(disk[d])

AllSettled == \A d \in Dirs : Settled(d)

\* A finished load goes to the end of done, and its directory's files are as it says.
LEMMA FinishSettles ==
  ASSUME TypeOK, AllSettled, loading # None, NEW result \in Package, Finish(result),
         UNCHANGED <<jobs, inst, failed>>,
         result = None \/ result = Pair(disk'[loading.job.dir]),
         \A d \in Dirs : d # loading.job.dir => disk'[d] = disk[d],
         NEW d \in Dirs
  PROVE  Settled(d)'
<1> DEFINE r == [dir |-> loading.job.dir, devsync |-> loading.job.devsync, result |-> result]
           n == Len(done)
<1>1. r \in LoadDone
  BY DEF TypeOK, RunJob, LoadJob, LoadDone
<1>2. /\ n \in Nat /\ DOMAIN done = 1..n /\ DOMAIN done' = 1..(n + 1)
      /\ done'[n + 1] = r /\ \A i \in 1..n : done'[i] = done[i]
  <2>1. done' = Append(done, r)
    BY DEF Finish
  <2>2. Append(done, r) \in Seq(LoadDone) /\ Len(Append(done, r)) = n + 1
    BY <1>1, AppendProperties DEF TypeOK
  <2>3. QED
    BY <1>1, <2>1, <2>2, AppendProperties, LenProperties DEF TypeOK
<1> HIDE DEF n
<1>3. CASE d = loading.job.dir
  <2>1. r.dir = d /\ r.result = result
    BY <1>3
  <2> HIDE DEF r
  <2>2. \A i \in 1..n : ~LastOf(d, i)'
    BY <1>2, <2>1 DEF LastOf
  <2>3. \A i \in DOMAIN done' : LastOf(d, i)' => done'[i].result = result
    BY <1>2, <2>1, <2>2
  <2>4. n + 1 \in DOMAIN done' /\ done'[n + 1].dir = d
    BY <1>2, <2>1
  <2>5. QED
    BY <1>3, <2>3, <2>4 DEF Settled
<1>4. CASE d # loading.job.dir
  <2>1. r.dir # d
    BY <1>4
  <2> HIDE DEF r
  <2>2. ~Unread(d)' => ~Unread(d)
    BY <1>4 DEF Unread
  <2>3. \A i \in DOMAIN done' :
          LastOf(d, i)' => i \in DOMAIN done /\ LastOf(d, i) /\ done'[i] = done[i]
    BY <1>2, <2>1 DEF LastOf
  <2>4. (\A i \in DOMAIN done' : done'[i].dir # d) => \A i \in DOMAIN done : done[i].dir # d
    BY <1>2
  <2>5. disk'[d] = disk[d]
    BY <1>4
  <2>6. QED
    BY <2>2, <2>3, <2>4, <2>5 DEF Settled, AllSettled
<1>5. QED
  BY <1>3, <1>4

\* Jobs that are added are not read yet.
LEMMA SubmitSettled ==
  ASSUME TypeOK, AllSettled, NEW js \in Seq(LoadJob), Submit(js),
         UNCHANGED <<loading, done, disk, inst, failed>>, NEW d \in Dirs
  PROVE  Settled(d)'
<1>1. \A i \in DOMAIN jobs : i \in DOMAIN jobs' /\ jobs'[i] = jobs[i]
  <2>1. jobs' = jobs \o js
    BY DEF Submit
  <2>2. /\ jobs \o js \in Seq(LoadJob) /\ Len(jobs) \in Nat /\ Len(js) \in Nat
        /\ Len(jobs \o js) = Len(jobs) + Len(js)
        /\ \A i \in 1..(Len(jobs) + Len(js)) :
             (jobs \o js)[i] = IF i <= Len(jobs) THEN jobs[i] ELSE js[i - Len(jobs)]
    BY ConcatProperties, LenProperties DEF TypeOK
  <2>3. DOMAIN jobs = 1..Len(jobs) /\ DOMAIN jobs' = 1..(Len(jobs) + Len(js))
    BY <2>1, <2>2, LenProperties DEF TypeOK
  <2>4. QED
    BY <2>1, <2>2, <2>3
<1>2. ~Unread(d)' => ~Unread(d)
  BY <1>1 DEF Unread
<1>3. QED
  BY <1>2 DEF Settled, AllSettled, LastOf

\* pump applies, or refuses, the oldest finished load.
LEMMA PumpSettled ==
  ASSUME TypeOK, AllSettled, PumpDone, NEW d \in Dirs
  PROVE  Settled(d)'
<1> DEFINE r == Head(done)
<1>1. /\ done # <<>> /\ done' = Tail(done)
      /\ UNCHANGED <<jobs, loading, disk>>
      /\ failed' = IF Applies(r) THEN failed \ {r.dir} ELSE failed \cup {r.dir}
      /\ Applies(r) => Swap(r.dir, r.result)
      /\ ~Applies(r) => UNCHANGED inst
  BY DEF PumpDone
<1>2. /\ DOMAIN done = 1..Len(done) /\ Len(done) \in Nat /\ 1 \in DOMAIN done /\ done[1] = r
      /\ DOMAIN done' = 1..(Len(done) - 1) /\ \A i \in DOMAIN done' : done'[i] = done[i + 1]
  <2>1. Tail(done) \in Seq(LoadDone) /\ Len(Tail(done)) = Len(done) - 1
    BY <1>1, HeadTailProperties DEF TypeOK
  <2>2. DOMAIN Tail(done) = 1..(Len(done) - 1)
    BY <2>1, LenProperties
  <2>3. Len(done) \in Nat \ {0} /\ DOMAIN done = 1..Len(done)
    BY <1>1, EmptySeq, LenProperties DEF TypeOK
  <2>4. QED
    BY <1>1, <2>1, <2>2, <2>3, HeadTailProperties DEF TypeOK
<1>3. r \in LoadDone
  BY <1>1, HeadTailProperties DEF TypeOK
<1> HIDE DEF r
<1>4. \A i \in DOMAIN done : i = 1 \/ (i - 1 \in DOMAIN done' /\ done[i] = done'[i - 1])
  BY <1>2
<1>5. \A i \in DOMAIN done' : LastOf(d, i)' => LastOf(d, i + 1)
  BY <1>2, <1>4 DEF LastOf
<1>6. (\A i \in DOMAIN done' : done'[i].dir # d) =>
        IF r.dir = d THEN LastOf(d, 1) ELSE \A i \in DOMAIN done : done[i].dir # d
  BY <1>2, <1>4 DEF LastOf
<1>7. Unread(d)' = Unread(d)
  BY <1>1 DEF Unread
<1>8. ASSUME ~Unread(d)
      PROVE  \A i \in DOMAIN done' :
               LastOf(d, i)' => done'[i].result = None \/ done'[i].result = Pair(disk'[d])
  BY <1>1, <1>2, <1>5, <1>8 DEF Settled, AllSettled, LastOf
<1>9. ASSUME ~Unread(d), \A i \in DOMAIN done' : done'[i].dir # d,
             inst'[d] # None, d \notin failed'
      PROVE  Pair(inst'[d]) = Pair(disk'[d])
  <2>1. CASE r.dir = d
    <3>1. Applies(r) /\ r.result # None
      BY <1>1, <1>9, <2>1 DEF Applies
    <3>2. r.result = Pair(disk[d])
      BY <1>2, <1>6, <1>9, <2>1, <3>1 DEF Settled, AllSettled
    <3>3. r.result \in Manifests \X Wasms
      BY <1>3, <3>1 DEF LoadDone, Package
    <3>4. \/ inst'[d] = Fresh(r.result)
          \/ inst'[d] = [Fresh(r.result) EXCEPT !.st = inst[d].st]
      BY <1>1, <2>1, <3>1 DEF Swap, TypeOK
    <3>5. Pair(inst'[d]) = r.result
      BY <3>3, <3>4 DEF Fresh, Pair
    <3>6. QED
      BY <1>1, <3>2, <3>5
  <2>2. CASE r.dir # d
    <3>1. inst'[d] = inst[d]
      BY <1>1, <2>2 DEF Swap, TypeOK
    <3>2. d \notin failed
      BY <1>1, <1>9, <2>2
    <3>3. QED
      BY <1>1, <1>6, <1>9, <2>2, <3>1, <3>2 DEF Settled, AllSettled
  <2>3. QED
    BY <2>1, <2>2
<1>10. QED
  BY <1>7, <1>8, <1>9 DEF Settled

\* What an instance runs does not change under a guest frame or the checkbox.
LEMMA SameInstance ==
  ASSUME TypeOK, AllSettled, UNCHANGED <<jobs, loading, done, disk, failed>>, NEW d \in Dirs,
         inst'[d] # None => inst[d] # None /\ Pair(inst'[d]) = Pair(inst[d])
  PROVE  Settled(d)'
BY DEF Settled, AllSettled, Unread, LastOf

\* No step unsettles a directory.
LEMMA NextSettled ==
  TypeOK /\ InstallInHand /\ AllSettled /\ [Next]_managerVars => AllSettled'
<1> SUFFICES ASSUME TypeOK, InstallInHand, AllSettled, [Next]_managerVars, NEW d \in Dirs
             PROVE  Settled(d)'
  BY DEF AllSettled
<1> USE ConstantsAssumption
<1>1. CASE Scan
  <2> DEFINE found == {e \in Dirs : disk[e].wasm # None /\ inst[e] = None /\ ~IsPending(e)}
  <2>1. PICK order \in SetToSeqs(found) : Submit([i \in DOMAIN order |-> ReloadJob(order[i])])
    BY <1>1 DEF Scan
  <2>2. found \in SUBSET Dirs /\ UNCHANGED <<loading, done, disk, inst, failed>>
    BY <1>1 DEF Scan
  <2> HIDE DEF found
  <2>3. [i \in DOMAIN order |-> ReloadJob(order[i])] \in Seq(LoadJob)
    BY <2>2, ScanJobs
  <2>4. QED
    BY <2>1, <2>2, <2>3, SubmitSettled
<1>2. ASSUME NEW e \in Dirs, ReloadAt(e)
      PROVE  Settled(d)'
  <2>1. <<ReloadJob(e)>> \in Seq(LoadJob)
    BY DEF ReloadJob, LoadJob, Tag, Package
  <2>2. QED
    BY <1>2, <2>1, SubmitSettled DEF ReloadAt
<1>3. ASSUME NEW m \in Manifests, NEW w \in Wasms, InstallBytes(m, w)
      PROVE  Settled(d)'
  <2> DEFINE job == [dir |-> SafeDir[IdOf[m]], devsync |-> None, install |-> <<m, w>>]
  <2>1. <<job>> \in Seq(LoadJob) /\ Submit(<<job>>)
    BY <1>3, DataAssumption DEF InstallBytes, QueueInstall, LoadJob, Tag, Package
  <2>2. QED
    BY <1>3, <2>1, SubmitSettled DEF InstallBytes
<1>4. CASE TakeJob
  <2>1. Head(jobs) \in LoadJob /\ Tail(jobs) \in Seq(LoadJob)
    BY <1>4, HeadTailProperties DEF TakeJob, TypeOK
  <2>2. \A i \in DOMAIN jobs : jobs[i] = Head(jobs) \/ \E k \in DOMAIN jobs' : jobs[i] = jobs'[k]
    <3>1. /\ Len(jobs) \in Nat /\ DOMAIN jobs = 1..Len(jobs) /\ Head(jobs) = jobs[1]
          /\ Len(Tail(jobs)) = Len(jobs) - 1
          /\ \A k \in 1..Len(Tail(jobs)) : Tail(jobs)[k] = jobs[k + 1]
      BY <1>4, HeadTailProperties, LenProperties DEF TakeJob, TypeOK
    <3>2. DOMAIN jobs' = 1..(Len(jobs) - 1)
      BY <1>4, <2>1, <3>1, LenProperties DEF TakeJob
    <3>3. ASSUME NEW i \in DOMAIN jobs, i # 1
          PROVE  i - 1 \in DOMAIN jobs' /\ jobs[i] = jobs'[i - 1]
      BY <1>4, <3>1, <3>2, <3>3 DEF TakeJob
    <3>4. QED
      BY <3>1, <3>3
  <2>3. loading' # None /\ loading'.job = Head(jobs) /\ loading = None
    BY <1>4, <2>1 DEF TakeJob, RunJob
  <2>4. ~Unread(d)' => ~Unread(d)
    BY <2>2, <2>3 DEF Unread
  <2>5. QED
    BY <1>4, <2>4 DEF TakeJob, Settled, AllSettled, LastOf
<1>5. CASE WriteManifest \/ WriteWasm
  <2>1. loading \in RunJob /\ loading # None
    BY <1>5 DEF WriteManifest, WriteWasm, TypeOK
  <2>2. loading' \in RunJob /\ loading'.job = loading.job
    BY <1>5, <2>1 DEF WriteManifest, WriteWasm, RunJob
  <2>3. UNCHANGED <<jobs, done, inst, failed>>
    BY <1>5 DEF WriteManifest, WriteWasm
  <2>4. CASE loading.job.dir = d
    BY <2>2, <2>4 DEF Settled, Unread
  <2>5. CASE loading.job.dir # d
    <3>1. disk'[d] = disk[d]
      BY <1>5, <2>5 DEF WriteManifest, WriteWasm, TypeOK
    <3>2. ~Unread(d)' => ~Unread(d)
      BY <2>2, <2>3, <2>5 DEF Unread
    <3>3. QED
      BY <2>3, <3>1, <3>2 DEF Settled, AllSettled, LastOf
  <2>6. QED
    BY <2>4, <2>5
<1>6. CASE WriteFails
  <2>1. None \in Package /\ loading # None /\ Finish(None) /\ UNCHANGED <<jobs, inst, failed>>
    BY <1>6 DEF WriteFails, Package
  <2>2. \A e \in Dirs : e # loading.job.dir => disk'[e] = disk[e]
    BY <1>6 DEF WriteFails, TypeOK
  <2>3. QED
    BY <2>1, <2>2, FinishSettles
<1>7. CASE LoadFails
  <2>1. None \in Package /\ loading # None /\ Finish(None) /\ UNCHANGED <<jobs, inst, failed, disk>>
    BY <1>7 DEF LoadFails, Package
  <2>2. QED
    BY <2>1, FinishSettles
<1>8. CASE Load
  <2> DEFINE files == Pair(disk[loading.job.dir])
             result == IF files \in Loadable THEN files ELSE None
  <2>1. result \in Package /\ (result = None \/ result = files)
    BY DEF Package
  <2>2. loading # None /\ Finish(result) /\ UNCHANGED <<jobs, inst, failed, disk>>
    BY <1>8 DEF Load
  <2>3. files = Pair(disk'[loading.job.dir])
    BY <2>2
  <2> HIDE DEF result, files
  <2>4. QED
    BY <2>1, <2>2, <2>3, FinishSettles
<1>9. CASE PumpDone
  BY <1>9, PumpSettled
<1>10. ASSUME NEW e \in Dirs, GuestFrame(e) \/ ToggleEnabled(e)
       PROVE  Settled(d)'
  <2>1. inst'[d] # None => inst[d] # None /\ Pair(inst'[d]) = Pair(inst[d])
    BY <1>10, GuestStays
  <2>2. QED
    BY <1>10, <2>1, SameInstance DEF GuestFrame, ToggleEnabled
<1>11. CASE Tick \/ PumpEnd("idle") \/ UNCHANGED managerVars
  BY <1>11, SameInstance DEF Tick, PumpEnd, managerVars
<1>12. CASE Restart
  <2>1. done' = <<>> /\ inst'[d] = None
    BY <1>12 DEF Restart
  <2>2. DOMAIN done' = {}
    BY <2>1
  <2>3. QED
    BY <2>1, <2>2 DEF Settled, LastOf
<1>13. QED
  BY <1>1, <1>2, <1>3, <1>4, <1>5, <1>6, <1>7, <1>8, <1>9, <1>10, <1>11, <1>12
     DEF Next, UserStep, LoaderStep

-----------------------------------------------------------------------------
(* What runs is the newest package.                                        *)

\* The entries of the two parts of a concatenation are entries of the whole.
LEMMA PartsOfConcat ==
  ASSUME NEW s \in Seq(PendingLoad), NEW t \in Seq(PendingLoad)
  PROVE  /\ \A i \in DOMAIN s : i \in DOMAIN (s \o t) /\ (s \o t)[i] = s[i]
         /\ \A i \in DOMAIN t : Len(s) + i \in DOMAIN (s \o t) /\ (s \o t)[Len(s) + i] = t[i]
<1>1. /\ Len(s) \in Nat /\ Len(t) \in Nat /\ DOMAIN s = 1..Len(s) /\ DOMAIN t = 1..Len(t)
      /\ s \o t \in Seq(PendingLoad) /\ Len(s \o t) = Len(s) + Len(t)
      /\ \A i \in 1..(Len(s) + Len(t)) : (s \o t)[i] = IF i <= Len(s) THEN s[i] ELSE t[i - Len(s)]
  BY ConcatProperties, LenProperties
<1>2. DOMAIN (s \o t) = 1..(Len(s) + Len(t))
  BY <1>1, LenProperties
<1>3. QED
  BY <1>1, <1>2

\* A directory without work in finished loads, loader and queue, if none is in their sequence.
LEMMA NoWorkLeft ==
  ASSUME TypeOK, NEW s \in Seq(LoadDone), NEW d \in Dirs,
         \A i \in DOMAIN (WorksOf(s) \o InLoader \o WorksOf(jobs)) :
           (WorksOf(s) \o InLoader \o WorksOf(jobs))[i].dir # d
  PROVE  ~Unread(d) /\ \A i \in DOMAIN s : s[i].dir # d
<1> DEFINE a == WorksOf(s)
           b == InLoader
           c == WorksOf(jobs)
           ab == a \o b
<1>1. a \in Seq(PendingLoad) /\ b \in Seq(PendingLoad) /\ c \in Seq(PendingLoad)
  BY PipelineType, WorksOfType, WorkOfType
<1>2. ab \in Seq(PendingLoad)
  BY <1>1, ConcatProperties
<1>3. (\A i \in DOMAIN ab : ab[i].dir # d) /\ (\A i \in DOMAIN c : c[i].dir # d)
  <2>1. \A i \in DOMAIN (ab \o c) : (ab \o c)[i].dir # d
    OBVIOUS
  <2> HIDE DEF a, b, ab, c
  <2>2. ab \in Seq(PendingLoad) /\ c \in Seq(PendingLoad)
    BY <1>1, <1>2
  <2>3. \A i \in DOMAIN ab : i \in DOMAIN (ab \o c) /\ (ab \o c)[i] = ab[i]
    BY <2>2, PartsOfConcat
  <2>4. \A i \in DOMAIN c : /\ Len(ab) + i \in DOMAIN (ab \o c)
                             /\ (ab \o c)[Len(ab) + i] = c[i]
    BY <2>2, PartsOfConcat
  <2>5. QED
    BY <2>1, <2>3, <2>4
<1>4. (\A i \in DOMAIN a : a[i].dir # d) /\ (\A i \in DOMAIN b : b[i].dir # d)
  <2>1. \A i \in DOMAIN (a \o b) : (a \o b)[i].dir # d
    BY <1>3
  <2> HIDE DEF a, b, ab, c
  <2>2. a \in Seq(PendingLoad) /\ b \in Seq(PendingLoad)
    BY <1>1, <1>2
  <2>3. \A i \in DOMAIN a : i \in DOMAIN (a \o b) /\ (a \o b)[i] = a[i]
    BY <2>2, PartsOfConcat
  <2>4. \A i \in DOMAIN b : /\ Len(a) + i \in DOMAIN (a \o b)
                             /\ (a \o b)[Len(a) + i] = b[i]
    BY <2>2, PartsOfConcat
  <2>5. QED
    BY <2>1, <2>3, <2>4
<1>5. \A i \in DOMAIN s : s[i].dir # d
  BY <1>4 DEF WorksOf, WorkOf
<1>6. \A i \in DOMAIN jobs : jobs[i].dir # d
  BY <1>3 DEF WorksOf, WorkOf
<1>7. loading # None => loading.job.dir # d
  <2> SUFFICES ASSUME loading # None
               PROVE  loading.job.dir # d
    OBVIOUS
  <2>1. b = <<WorkOf(loading.job)>>
    BY DEF InLoader
  <2>2. 1 \in DOMAIN b /\ b[1] = WorkOf(loading.job)
    BY <2>1
  <2>3. b[1].dir # d
    BY <1>4, <2>2
  <2>4. QED
    BY <2>2, <2>3 DEF WorkOf
<1>8. QED
  BY <1>5, <1>6, <1>7 DEF Unread

\* A directory with work anywhere is pending.
LEMMA NotPendingNoWork ==
  ASSUME TypeOK, PendingIsPipeline, NEW d \in Dirs, ~IsPending(d)
  PROVE  ~Unread(d) /\ \A i \in DOMAIN done : done[i].dir # d
BY NoWorkLeft DEF TypeOK, PendingIsPipeline, Pipeline, IsPending

\* The loader has written the files of its job, up to where it is.
WrittenSoFar ==
  loading # None /\ loading.job.install # None =>
    /\ loading.at \in {"wasm", "load"} =>
         disk[loading.job.dir].manifest = loading.job.install[1]
    /\ loading.at = "load" => disk[loading.job.dir].wasm = loading.job.install[2]

\* The step keeps the files as far as the loader has written them.
LEMMA NextWritten ==
  TypeOK /\ InstallInHand /\ WrittenSoFar /\ [Next]_managerVars => WrittenSoFar'
<1> SUFFICES ASSUME TypeOK, InstallInHand, WrittenSoFar, [Next]_managerVars
             PROVE  WrittenSoFar'
  OBVIOUS
<1> USE ConstantsAssumption
<1>1. CASE TakeJob
  <2>1. Head(jobs) \in LoadJob
    BY <1>1, HeadTailProperties DEF TakeJob, TypeOK
  <2>2. loading'.at = IF loading'.job.install = None THEN "load" ELSE "manifest"
    BY <1>1, <2>1 DEF TakeJob
  <2>3. QED
    BY <2>2 DEF WrittenSoFar
<1>2. CASE WriteManifest
  <2>1. loading \in RunJob /\ loading # None /\ loading.job.dir \in Dirs /\ disk \in [Dirs -> Files]
    BY <1>2 DEF WriteManifest, TypeOK, RunJob, LoadJob
  <2>2. /\ loading'.job = loading.job /\ loading'.at = "wasm"
        /\ disk'[loading.job.dir].manifest = loading.job.install[1]
    BY <1>2, <2>1 DEF WriteManifest, RunJob, Files
  <2>3. QED
    BY <2>1, <2>2 DEF WrittenSoFar
<1>3. CASE WriteWasm
  <2>1. loading \in RunJob /\ loading # None /\ loading.job.dir \in Dirs /\ disk \in [Dirs -> Files]
    BY <1>3 DEF WriteWasm, TypeOK, RunJob, LoadJob
  <2>2. /\ loading.at = "wasm" /\ loading'.job = loading.job
        /\ disk'[loading.job.dir].manifest = disk[loading.job.dir].manifest
        /\ disk'[loading.job.dir].wasm = loading.job.install[2]
    BY <1>3, <2>1 DEF WriteWasm, RunJob, Files
  <2>3. QED
    BY <2>1, <2>2 DEF WrittenSoFar
<1>4. CASE WriteFails \/ Load \/ LoadFails \/ Restart
  BY <1>4 DEF WriteFails, Load, LoadFails, Restart, Finish, WrittenSoFar
<1>5. CASE Scan \/ Tick \/ PumpDone \/ PumpEnd("idle") \/ UNCHANGED managerVars
  BY <1>5 DEF Scan, Tick, PumpDone, PumpEnd, managerVars, WrittenSoFar
<1>6. CASE \E d \in Dirs : ReloadAt(d) \/ GuestFrame(d) \/ ToggleEnabled(d)
  BY <1>6 DEF ReloadAt, GuestFrame, ToggleEnabled, WrittenSoFar
<1>7. CASE \E m \in Manifests, w \in Wasms : InstallBytes(m, w)
  BY <1>7 DEF InstallBytes, WrittenSoFar
<1>8. QED
  BY <1>1, <1>2, <1>3, <1>4, <1>5, <1>6, <1>7 DEF Next, UserStep, LoaderStep

\* The loader is at a job of d.
Loading(d) == loading # None /\ loading.job.dir = d

\* The queued job at i is the last one of d.
LastJob(d, i) ==
  /\ i \in DOMAIN jobs /\ jobs[i].dir = d
  /\ \A j \in DOMAIN jobs : j > i => jobs[j].dir # d

\* Where the newest package of d is: in the last job of d that is queued, or else in the loader,
\* or else in the last load finished, if it was not refused, or else in what runs.  Where that
\* job is a reload, which carries no package, it is on disk, and nothing is left to write there.
Owing(d) ==
  owed[d] # None =>
    /\ \A i \in DOMAIN jobs : LastJob(d, i) =>
         \/ jobs[i].install = owed[d]
         \/ /\ jobs[i].install = None /\ Pair(disk[d]) = owed[d] /\ ~Loading(d)
            /\ \A j \in DOMAIN jobs : jobs[j].dir = d => j = i
    /\ (\A i \in DOMAIN jobs : jobs[i].dir # d) /\ Loading(d) =>
         \/ loading.job.install = owed[d]
         \/ loading.job.install = None /\ Pair(disk[d]) = owed[d]
    /\ ~Unread(d) =>
         \A i \in DOMAIN done : LastOf(d, i) => done[i].result \in {None, owed[d]}
    /\ ~IsPending(d) => /\ inst[d] # None
                        /\ Pair(inst[d]) = owed[d] /\ Pair(disk[d]) = owed[d]

AllOwing == \A d \in Dirs : Owing(d)

\* Of the jobs of a directory that is in the loader, the last one queued is no reload.
LEMMA LastIsInstall ==
  ASSUME NEW d \in Dirs, Owing(d), owed[d] # None, Loading(d), NEW i \in DOMAIN jobs, LastJob(d, i)
  PROVE  jobs[i].install = owed[d]
BY DEF Owing

\* What submit does to the two sequences.
LEMMA SubmitAppends ==
  ASSUME TypeOK, NEW js \in Seq(LoadJob), Submit(js)
  PROVE  /\ Len(jobs) \in Nat /\ Len(js) \in Nat
         /\ DOMAIN jobs = 1..Len(jobs) /\ DOMAIN jobs' = 1..(Len(jobs) + Len(js))
         /\ DOMAIN js = 1..Len(js)
         /\ \A i \in DOMAIN jobs' : jobs'[i] = IF i <= Len(jobs) THEN jobs[i] ELSE js[i - Len(jobs)]
         /\ \A d \in Dirs : IsPending(d) => IsPending(d)'
         /\ \A d \in Dirs, k \in DOMAIN js : js[k].dir = d => IsPending(d)'
<1>1. /\ jobs' = jobs \o js /\ jobs' \in Seq(LoadJob)
      /\ Len(jobs) \in Nat /\ Len(js) \in Nat /\ Len(jobs') = Len(jobs) + Len(js)
      /\ \A i \in 1..(Len(jobs) + Len(js)) :
           jobs'[i] = IF i <= Len(jobs) THEN jobs[i] ELSE js[i - Len(jobs)]
  BY ConcatProperties, LenProperties DEF TypeOK, Submit
<1>2. DOMAIN jobs = 1..Len(jobs) /\ DOMAIN js = 1..Len(js) /\ DOMAIN jobs' = 1..(Len(jobs) + Len(js))
  BY <1>1, LenProperties DEF TypeOK
<1> DEFINE w == WorksOf(js)
<1>3. w \in Seq(PendingLoad) /\ DOMAIN w = DOMAIN js /\ \A k \in DOMAIN js : w[k].dir = js[k].dir
  BY WorksOfType, WorkOfType DEF WorksOf, WorkOf
<1>4. pending' = pending \o w /\ pending \in Seq(PendingLoad)
  BY DEF Submit, TypeOK
<1> HIDE DEF w
<1>5. /\ \A i \in DOMAIN pending : i \in DOMAIN pending' /\ pending'[i] = pending[i]
      /\ \A k \in DOMAIN w : Len(pending) + k \in DOMAIN pending' /\ pending'[Len(pending) + k] = w[k]
  BY <1>3, <1>4, PartsOfConcat
<1>6. QED
  BY <1>1, <1>2, <1>3, <1>5 DEF IsPending

\* Work for other directories does not concern d.
LEMMA SubmitElsewhere ==
  ASSUME TypeOK, NEW d \in Dirs, Owing(d), NEW js \in Seq(LoadJob), Submit(js),
         \A k \in DOMAIN js : js[k].dir # d,
         UNCHANGED <<loading, done, disk, inst>>, owed'[d] = owed[d]
  PROVE  Owing(d)'
<1>1. /\ \A i \in DOMAIN jobs : i \in DOMAIN jobs' /\ jobs'[i] = jobs[i]
      /\ \A i \in DOMAIN jobs' : jobs'[i].dir = d => i \in DOMAIN jobs
      /\ IsPending(d) => IsPending(d)'
  BY SubmitAppends
<1>2. \A i \in DOMAIN jobs' : LastJob(d, i)' => LastJob(d, i)
  BY <1>1 DEF LastJob
<1>3. (\A i \in DOMAIN jobs' : jobs'[i].dir # d) => \A i \in DOMAIN jobs : jobs[i].dir # d
  BY <1>1
<1>4. ~Unread(d)' => ~Unread(d)
  BY <1>1 DEF Unread
<1>5. Loading(d)' = Loading(d)
  BY DEF Loading
<1>6. \A i \in DOMAIN jobs :
        (\A j \in DOMAIN jobs : jobs[j].dir = d => j = i) =>
          \A j \in DOMAIN jobs' : jobs'[j].dir = d => j = i
  BY <1>1
<1>7. ASSUME owed[d] # None, NEW i \in DOMAIN jobs', LastJob(d, i)'
      PROVE  \/ jobs'[i].install = owed[d]
             \/ /\ jobs'[i].install = None /\ Pair(disk[d]) = owed[d] /\ ~Loading(d)
                /\ \A j \in DOMAIN jobs' : jobs'[j].dir = d => j = i
  <2>1. i \in DOMAIN jobs /\ jobs'[i] = jobs[i] /\ LastJob(d, i)
    BY <1>1, <1>2, <1>7 DEF LastJob
  <2>2. QED
    BY <1>6, <1>7, <2>1 DEF Owing
<1>8. QED
  BY <1>1, <1>3, <1>4, <1>5, <1>7 DEF Owing, LastOf

\* A job for d is its last, and carries the newest package or loads what is there.
LEMMA SubmitHere ==
  ASSUME TypeOK, PendingIsPipeline, NEW d \in Dirs, Owing(d), NEW job \in LoadJob, job.dir = d,
         Submit(<<job>>), UNCHANGED <<loading, done, disk, inst>>,
         \/ job.install = owed'[d]
         \/ job.install = None /\ ~IsPending(d) /\ owed'[d] = owed[d]
  PROVE  Owing(d)'
<1> DEFINE n == Len(jobs) + 1
<1>1. <<job>> \in Seq(LoadJob) /\ Len(<<job>>) = 1 /\ <<job>>[1] = job /\ DOMAIN <<job>> = {1}
  OBVIOUS
<1>2. /\ Len(jobs) \in Nat /\ DOMAIN jobs = 1..Len(jobs) /\ DOMAIN jobs' = 1..n
      /\ \A i \in DOMAIN jobs' : jobs'[i] = IF i <= Len(jobs) THEN jobs[i] ELSE <<job>>[i - Len(jobs)]
      /\ IsPending(d)'
  BY <1>1, SubmitAppends
<1>3. /\ n \in DOMAIN jobs' /\ jobs'[n] = job
      /\ \A i \in DOMAIN jobs' : i # n => i < n /\ i \in DOMAIN jobs /\ jobs'[i] = jobs[i]
  BY <1>1, <1>2
<1> HIDE DEF n
<1>4. Unread(d)' /\ ~(\A i \in DOMAIN jobs' : jobs'[i].dir # d)
  BY <1>3 DEF Unread
<1>5. \A i \in DOMAIN jobs' : LastJob(d, i)' => i = n
  BY <1>3 DEF LastJob
<1>6. CASE job.install = owed'[d]
  BY <1>2, <1>3, <1>4, <1>5, <1>6 DEF Owing
<1>7. CASE job.install = None /\ ~IsPending(d) /\ owed'[d] = owed[d]
  <2>1. ~Unread(d)
    BY <1>7, NotPendingNoWork
  <2>2. ~Loading(d)' /\ \A i \in DOMAIN jobs : jobs[i].dir # d
    BY <2>1 DEF Unread, Loading
  <2>3. owed[d] # None => Pair(disk'[d]) = owed[d]
    BY <1>7 DEF Owing
  <2>4. \A j \in DOMAIN jobs' : jobs'[j].dir = d => j = n
    BY <1>3, <2>2
  <2>5. QED
    BY <1>2, <1>3, <1>4, <1>5, <1>7, <2>2, <2>3, <2>4 DEF Owing
<1>8. QED
  BY <1>6, <1>7

\* The job that the loader takes is the next.
LEMMA TakeOwes ==
  ASSUME TypeOK, NEW d \in Dirs, Owing(d), TakeJob
  PROVE  Owing(d)'
<1>1. /\ Head(jobs) \in LoadJob /\ 1 \in DOMAIN jobs /\ Head(jobs) = jobs[1]
      /\ \A k \in DOMAIN jobs' : k + 1 \in DOMAIN jobs /\ jobs'[k] = jobs[k + 1]
  BY TailKeeps DEF TakeJob, TypeOK
<1>2. \A i \in DOMAIN jobs : i # 1 => i - 1 \in DOMAIN jobs' /\ jobs[i] = jobs'[i - 1]
  <2>1. Len(jobs) \in Nat /\ DOMAIN jobs = 1..Len(jobs) /\ Len(jobs') = Len(jobs) - 1
          /\ jobs' \in Seq(LoadJob)
    BY HeadTailProperties, LenProperties DEF TakeJob, TypeOK
  <2>2. DOMAIN jobs' = 1..(Len(jobs) - 1)
    BY <2>1, LenProperties
  <2>3. ASSUME NEW i \in DOMAIN jobs, i # 1
        PROVE  i - 1 \in DOMAIN jobs' /\ (i - 1) + 1 = i
    BY <2>1, <2>2, <2>3
  <2>4. QED
    BY <1>1, <2>3
<1>3. DOMAIN jobs \subseteq Nat \ {0} /\ DOMAIN jobs' \subseteq Nat \ {0}
  <2>1. jobs' \in Seq(LoadJob) /\ jobs \in Seq(LoadJob)
    BY HeadTailProperties DEF TakeJob, TypeOK
  <2>2. QED
    BY <2>1, LenProperties
<1>4. /\ loading = None /\ loading' # None /\ loading'.job = Head(jobs)
      /\ UNCHANGED <<pending, done, disk, inst, owed>>
  BY <1>1, ConstantsAssumption DEF TakeJob, RunJob
<1>5. /\ ~Loading(d) /\ (Loading(d)' <=> jobs[1].dir = d)
      /\ ~Unread(d)' => ~Unread(d)
      /\ IsPending(d)' = IsPending(d)
  BY <1>1, <1>2, <1>4 DEF Loading, Unread, IsPending
<1>6. \A k \in DOMAIN jobs' : LastJob(d, k)' => LastJob(d, k + 1)
  <2>1. SUFFICES ASSUME NEW k \in DOMAIN jobs', LastJob(d, k)', NEW j \in DOMAIN jobs, j > k + 1
                 PROVE  jobs[j].dir # d
    BY <1>1 DEF LastJob
  <2>2. j - 1 \in DOMAIN jobs' /\ jobs[j] = jobs'[j - 1] /\ j - 1 > k
    BY <1>2, <1>3, <2>1
  <2>3. QED
    BY <2>1, <2>2 DEF LastJob
<1>7. (\A k \in DOMAIN jobs' : jobs'[k].dir # d) /\ jobs[1].dir = d => LastJob(d, 1)
  BY <1>1, <1>2, <1>3 DEF LastJob
<1>8. ASSUME owed[d] # None, NEW k \in DOMAIN jobs', LastJob(d, k)'
      PROVE  \/ jobs'[k].install = owed[d]
             \/ /\ jobs'[k].install = None /\ Pair(disk[d]) = owed[d] /\ ~Loading(d)'
                /\ \A j \in DOMAIN jobs' : jobs'[j].dir = d => j = k
  <2>1. k + 1 \in DOMAIN jobs /\ LastJob(d, k + 1) /\ jobs'[k] = jobs[k + 1]
    BY <1>1, <1>6, <1>8
  <2>2. CASE \A j \in DOMAIN jobs : jobs[j].dir = d => j = k + 1
    <3>1. ~Loading(d)'
      <4>1. k + 1 # 1
        BY <1>3, <1>8
      <4>2. QED
        BY <1>1, <1>5, <2>2, <4>1
    <3>2. \A j \in DOMAIN jobs' : jobs'[j].dir = d => j = k
      BY <1>1, <1>3, <2>2
    <3>3. QED
      BY <1>8, <2>1, <3>1, <3>2 DEF Owing
  <2>3. QED
    BY <1>8, <2>1, <2>2 DEF Owing
<1>9. QED
  BY <1>1, <1>4, <1>5, <1>7, <1>8 DEF Owing, LastOf

\* A file is written for the newest package, or for one that a job still queued will replace.
LEMMA WriteOwes ==
  ASSUME TypeOK, InstallInHand, PendingIsPipeline, NEW d \in Dirs, Owing(d),
         WriteManifest \/ WriteWasm
  PROVE  Owing(d)'
<1>1. /\ loading \in RunJob /\ loading # None /\ loading' \in RunJob /\ loading'.job = loading.job
      /\ UNCHANGED <<pending, jobs, done, inst, owed>>
  BY DEF WriteManifest, WriteWasm, TypeOK, RunJob
<1>2. /\ loading.job.install # None /\ loading' # None
  BY <1>1, ConstantsAssumption DEF WriteManifest, WriteWasm, InstallInHand
<1>3. Loading(d)' = Loading(d) /\ Unread(d)' = Unread(d) /\ IsPending(d)' = IsPending(d)
  BY <1>1, <1>2 DEF Loading, Unread, IsPending
<1>4. CASE Loading(d)
  <2>1. Unread(d) /\ IsPending(d)
    BY <1>4, NotPendingNoWork DEF Unread, Loading
  <2>2. \A i \in DOMAIN jobs : LastJob(d, i)' /\ owed[d] # None => jobs[i].install = owed[d]
    BY <1>1, <1>4, LastIsInstall DEF LastJob
  <2>3. QED
    BY <1>1, <1>2, <1>3, <2>1, <2>2 DEF Owing
<1>5. CASE ~Loading(d)
  <2>1. disk'[d] = disk[d]
    BY <1>1, <1>5 DEF WriteManifest, WriteWasm, TypeOK, Loading
  <2>2. QED
    BY <1>1, <1>3, <1>5, <2>1 DEF Owing, LastJob, LastOf
<1>6. QED
  BY <1>4, <1>5

\* A finished load of d is refused, or is of the newest package unless a job is queued still.
LEMMA FinishOwes ==
  ASSUME TypeOK, PendingIsPipeline, NEW d \in Dirs, Owing(d), loading # None,
         NEW result \in Package, Finish(result), UNCHANGED <<pending, jobs, inst, owed>>,
         \A e \in Dirs : e # loading.job.dir => disk'[e] = disk[e],
         result # None =>
           /\ result = Pair(disk[loading.job.dir])
           /\ loading.job.install # None => result = loading.job.install
  PROVE  Owing(d)'
<1> DEFINE r == [dir |-> loading.job.dir, devsync |-> loading.job.devsync, result |-> result]
           n == Len(done)
<1>1. r \in LoadDone
  BY DEF TypeOK, RunJob, LoadJob, LoadDone
<1>2. /\ n \in Nat /\ DOMAIN done = 1..n /\ DOMAIN done' = 1..(n + 1)
      /\ done'[n + 1] = r /\ \A i \in 1..n : done'[i] = done[i]
  <2>1. done' = Append(done, r)
    BY DEF Finish
  <2>2. Append(done, r) \in Seq(LoadDone) /\ Len(Append(done, r)) = n + 1
    BY <1>1, AppendProperties DEF TypeOK
  <2>3. QED
    BY <1>1, <2>1, <2>2, AppendProperties, LenProperties DEF TypeOK
<1> HIDE DEF n
<1>3. ~Loading(d)' /\ IsPending(d)' = IsPending(d)
  BY DEF Finish, Loading, IsPending
<1>4. CASE d = loading.job.dir
  <2>1. r.dir = d /\ r.result = result /\ Loading(d) /\ IsPending(d)
    BY <1>4, NotPendingNoWork DEF Loading, Unread
  <2> HIDE DEF r
  <2>2. \A i \in DOMAIN done' : LastOf(d, i)' => done'[i].result = result
    BY <1>2, <2>1 DEF LastOf
  <2>3. \A i \in DOMAIN jobs : LastJob(d, i)' /\ owed[d] # None => jobs[i].install = owed[d]
    BY <2>1, LastIsInstall DEF LastJob
  <2>4. owed[d] # None /\ (\A i \in DOMAIN jobs : jobs[i].dir # d) => result \in {None, owed[d]}
    BY <1>4, <2>1 DEF Owing
  <2>5. ~Unread(d)' => \A i \in DOMAIN jobs : jobs[i].dir # d
    BY DEF Unread
  <2>6. QED
    BY <1>3, <2>1, <2>2, <2>3, <2>4, <2>5 DEF Owing
<1>5. CASE d # loading.job.dir
  <2>1. r.dir # d /\ ~Loading(d) /\ disk'[d] = disk[d]
    BY <1>5 DEF Loading
  <2> HIDE DEF r
  <2>2. ~Unread(d)' => ~Unread(d)
    BY <1>5 DEF Unread
  <2>3. \A i \in DOMAIN done' :
          LastOf(d, i)' => i \in DOMAIN done /\ LastOf(d, i) /\ done'[i] = done[i]
    BY <1>2, <2>1 DEF LastOf
  <2>4. QED
    BY <1>3, <2>1, <2>2, <2>3 DEF Owing, LastJob
<1>6. QED
  BY <1>4, <1>5

\* The last load of d that pump applies is the newest package; after one that it refuses
\* nothing is owed.
LEMMA PumpOwes ==
  ASSUME TypeOK, PendingIsPipeline, AllSettled, NEW d \in Dirs, Owing(d), PumpDone
  PROVE  Owing(d)'
<1> DEFINE r == Head(done)
<1>1. /\ done # <<>> /\ done' = Tail(done)
      /\ UNCHANGED <<jobs, loading, disk>>
      /\ owed' = IF Applies(r) \/ \E i \in DOMAIN pending' : pending'[i].dir = r.dir
                 THEN owed ELSE [owed EXCEPT ![r.dir] = None]
      /\ Applies(r) => Swap(r.dir, r.result)
      /\ ~Applies(r) => UNCHANGED inst
  BY DEF PumpDone
<1>2. /\ r \in LoadDone /\ 1 \in DOMAIN done /\ r = done[1] /\ done' \in Seq(LoadDone)
      /\ \A i \in DOMAIN done' : i + 1 \in DOMAIN done /\ done'[i] = done[i + 1]
  BY <1>1, TailKeeps DEF TypeOK
<1>3. DOMAIN done = 1..Len(done) /\ DOMAIN done' = 1..(Len(done) - 1) /\ Len(done) \in Nat
  BY <1>1, <1>2, EmptySeq, LenProperties, HeadTailProperties DEF TypeOK
<1>4. pending' = Tail(pending) /\ pending # <<>> /\ pending[1] = WorkOf(r)
        /\ pending' = WorksOf(done') \o InLoader \o WorksOf(jobs)
  BY <1>1, PumpTakesHead, HeadOfPending
<1> HIDE DEF r
<1>5. \A i \in DOMAIN done' : LastOf(d, i)' => LastOf(d, i + 1)
  <2>1. SUFFICES ASSUME NEW i \in DOMAIN done', LastOf(d, i)', NEW j \in DOMAIN done, j > i + 1
                 PROVE  done[j].dir # d
    BY <1>2 DEF LastOf
  <2>2. j - 1 \in DOMAIN done' /\ j - 1 > i /\ (j - 1) + 1 = j
    BY <1>3, <2>1
  <2>3. QED
    BY <1>2, <2>1, <2>2 DEF LastOf
<1>6. Unread(d)' = Unread(d) /\ Loading(d)' = Loading(d)
  BY <1>1 DEF Unread, Loading
<1>7. owed'[d] # None => owed'[d] = owed[d]
  BY <1>1, <1>2 DEF TypeOK, LoadDone
<1>8. ASSUME owed'[d] # None, ~IsPending(d)'
      PROVE  inst'[d] # None /\ Pair(inst'[d]) = owed[d] /\ Pair(disk[d]) = owed[d]
  <2>1. owed[d] = owed'[d] /\ owed[d] # None
    BY <1>7, <1>8
  <2>2. CASE r.dir = d
    <3>1. Applies(r) /\ r.result # None
      <4>1. ~(\E i \in DOMAIN pending' : pending'[i].dir = r.dir)
        BY <1>8, <2>2 DEF IsPending
      <4>2. Applies(r)
        BY <1>1, <1>8, <2>2, <4>1 DEF TypeOK
      <4>3. QED
        BY <4>2 DEF Applies
    <3>2. ~Unread(d) /\ \A i \in DOMAIN done' : done'[i].dir # d
      <4> DEFINE rest == WorksOf(done') \o InLoader \o WorksOf(jobs)
      <4>1. \A i \in DOMAIN pending' : pending'[i].dir # d
        BY <1>8 DEF IsPending
      <4>2. \A i \in DOMAIN rest : rest[i].dir # d
        BY <1>4, <4>1
      <4>3. QED
        BY <1>2, <4>2, NoWorkLeft
    <3>3. LastOf(d, 1)
      <4>1. \A j \in DOMAIN done : j > 1 => j - 1 \in DOMAIN done' /\ (j - 1) + 1 = j
        BY <1>3
      <4>2. QED
        BY <1>2, <2>2, <3>2, <4>1 DEF LastOf
    <3>4. r.result = owed[d] /\ r.result = Pair(disk[d])
      BY <1>2, <2>1, <3>1, <3>2, <3>3 DEF Owing, AllSettled, Settled
    <3>5. r.result \in Manifests \X Wasms
      BY <1>2, <3>1 DEF LoadDone, Package
    <3>6. \/ inst'[d] = Fresh(r.result)
          \/ inst'[d] = [Fresh(r.result) EXCEPT !.st = inst[d].st]
      BY <1>1, <2>2, <3>1 DEF Swap, TypeOK
    <3>7. Pair(inst'[d]) = r.result
      BY <3>5, <3>6 DEF Fresh, Pair
    <3>8. inst' \in [Dirs -> Instance \cup {None}] /\ inst'[d] # None
      BY <1>1, <1>2, <2>2, <3>1, <3>5, SwapType, ConstantsAssumption
    <3>9. QED
      BY <3>4, <3>7, <3>8
  <2>3. CASE r.dir # d
    <3>1. inst'[d] = inst[d]
      BY <1>1, <2>3 DEF Swap, TypeOK
    <3>2. ~IsPending(d)
      <4>1. \A i \in DOMAIN pending : i # 1 => i - 1 \in DOMAIN pending' /\ pending[i] = pending'[i - 1]
        <5>1. /\ Len(pending) \in Nat /\ DOMAIN pending = 1..Len(pending)
              /\ pending' \in Seq(PendingLoad) /\ Len(pending') = Len(pending) - 1
              /\ \A i \in 1..Len(pending') : pending'[i] = pending[i + 1]
          BY <1>4, HeadTailProperties, LenProperties DEF TypeOK
        <5>2. DOMAIN pending' = 1..(Len(pending) - 1)
          BY <5>1, LenProperties
        <5>3. ASSUME NEW i \in DOMAIN pending, i # 1
              PROVE  i - 1 \in DOMAIN pending' /\ (i - 1) + 1 = i
          BY <5>1, <5>2, <5>3
        <5>4. QED
          BY <5>1, <5>2, <5>3
      <4>2. pending[1].dir # d
        BY <1>4, <2>3 DEF WorkOf
      <4>3. QED
        BY <1>8, <4>1, <4>2 DEF IsPending
    <3>3. QED
      BY <2>1, <3>1, <3>2 DEF Owing
  <2>4. QED
    BY <2>2, <2>3
<1>9. ASSUME owed'[d] # None
      PROVE  owed[d] # None /\ owed'[d] = owed[d]
  BY <1>7, <1>9
<1>10. QED
  BY <1>1, <1>2, <1>5, <1>6, <1>8, <1>9 DEF Owing, LastJob

\* Nothing moves, and what an instance runs does not change.
LEMMA SameOwing ==
  ASSUME NEW d \in Dirs, Owing(d), UNCHANGED <<pending, jobs, loading, done, disk, owed>>,
         inst[d] # None => inst'[d] # None /\ Pair(inst'[d]) = Pair(inst[d])
  PROVE  Owing(d)'
BY DEF Owing, LastJob, LastOf, Loading, Unread, IsPending

\* No step loses the newest package of a directory.
LEMMA NextOwing ==
  TypeOK /\ InstallInHand /\ WrittenSoFar /\ PendingIsPipeline /\ AllSettled /\ AllOwing
    /\ [Next]_managerVars => AllOwing'
<1> SUFFICES ASSUME TypeOK, InstallInHand, WrittenSoFar, PendingIsPipeline, AllSettled, AllOwing,
                    [Next]_managerVars, NEW d \in Dirs
             PROVE  Owing(d)'
  BY DEF AllOwing
<1> USE ConstantsAssumption
<1>1. Owing(d)
  BY DEF AllOwing
<1>2. CASE Scan
  <2> DEFINE found == {e \in Dirs : disk[e].wasm # None /\ inst[e] = None /\ ~IsPending(e)}
  <2>1. PICK order \in SetToSeqs(found) : Submit([i \in DOMAIN order |-> ReloadJob(order[i])])
    BY <1>2 DEF Scan
  <2> DEFINE js == [i \in DOMAIN order |-> ReloadJob(order[i])]
  <2>2. found \in SUBSET Dirs /\ UNCHANGED <<loading, done, disk, inst, owed>>
    BY <1>2 DEF Scan
  <2>3. \A i \in DOMAIN js : js[i].dir \in found
    <3>1. \A i \in DOMAIN order : order[i] \in found
      BY DEF SetToSeqs
    <3>2. QED
      BY <3>1 DEF ReloadJob
  <2>4. js \in Seq(LoadJob)
    <3> HIDE DEF found
    <3>1. QED
      BY <2>2, ScanJobs
  <2>5. CASE d \in found
    BY <1>1, <2>2, <2>5 DEF Owing
  <2>6. CASE d \notin found
    <3>1. Submit(js) /\ \A i \in DOMAIN js : js[i].dir # d
      BY <2>1, <2>3, <2>6
    <3> HIDE DEF js
    <3>2. QED
      BY <1>1, <2>2, <2>4, <3>1, SubmitElsewhere
  <2>7. QED
    BY <2>5, <2>6
<1>3. ASSUME NEW e \in Dirs, ReloadAt(e)
      PROVE  Owing(d)'
  <2>1. /\ ReloadJob(e) \in LoadJob /\ ReloadJob(e).dir = e /\ ReloadJob(e).install = None
        /\ Submit(<<ReloadJob(e)>>) /\ ~IsPending(e)
        /\ UNCHANGED <<loading, done, disk, inst, owed>>
    BY <1>3 DEF ReloadAt, ReloadJob, LoadJob, Tag, Package
  <2>2. CASE e = d
    BY <1>1, <2>1, <2>2, SubmitHere
  <2>3. CASE e # d
    <3> DEFINE js == <<ReloadJob(e)>>
    <3>1. js \in Seq(LoadJob) /\ Submit(js) /\ \A k \in DOMAIN js : js[k].dir # d
      BY <2>1, <2>3
    <3> HIDE DEF js
    <3>2. QED
      BY <1>1, <2>1, <3>1, SubmitElsewhere
  <2>4. QED
    BY <2>2, <2>3
<1>4. ASSUME NEW m \in Manifests, NEW w \in Wasms, InstallBytes(m, w)
      PROVE  Owing(d)'
  <2> DEFINE job == [dir |-> SafeDir[IdOf[m]], devsync |-> None, install |-> <<m, w>>]
  <2>1. job \in LoadJob /\ Submit(<<job>>) /\ UNCHANGED <<loading, done, disk, inst>>
        /\ owed' = [owed EXCEPT ![job.dir] = job.install]
    BY <1>4, DataAssumption DEF InstallBytes, QueueInstall, LoadJob, Tag, Package
  <2> HIDE DEF job
  <2>2. CASE job.dir = d
    <3>1. job.install = owed'[d]
      BY <2>1, <2>2 DEF TypeOK
    <3>2. QED
      BY <1>1, <2>1, <2>2, <3>1, SubmitHere
  <2>3. CASE job.dir # d
    <3>1. owed'[d] = owed[d] /\ <<job>> \in Seq(LoadJob) /\ \A k \in DOMAIN <<job>> : <<job>>[k].dir # d
      BY <2>1, <2>3 DEF TypeOK
    <3>2. QED
      BY <1>1, <2>1, <3>1, SubmitElsewhere
  <2>4. QED
    BY <2>2, <2>3
<1>5. CASE TakeJob
  BY <1>1, <1>5, TakeOwes
<1>6. CASE WriteManifest \/ WriteWasm
  BY <1>1, <1>6, WriteOwes
<1>7. CASE WriteFails
  <2>1. None \in Package /\ loading # None /\ Finish(None) /\ UNCHANGED <<pending, jobs, inst, owed>>
    BY <1>7 DEF WriteFails, Package
  <2>2. \A e \in Dirs : e # loading.job.dir => disk'[e] = disk[e]
    BY <1>7 DEF WriteFails, TypeOK
  <2>3. QED
    BY <1>1, <2>1, <2>2, FinishOwes
<1>8. CASE LoadFails
  <2>1. /\ None \in Package /\ loading # None /\ Finish(None)
        /\ UNCHANGED <<pending, jobs, inst, owed, disk>>
    BY <1>8 DEF LoadFails, Package
  <2>2. QED
    BY <1>1, <2>1, FinishOwes
<1>9. CASE Load
  <2> DEFINE files == Pair(disk[loading.job.dir])
             result == IF files \in Loadable THEN files ELSE None
  <2>1. result \in Package /\ (result # None => result = files)
    BY DEF Package
  <2>2. /\ loading # None /\ loading.at = "load" /\ Finish(result)
        /\ UNCHANGED <<pending, jobs, inst, owed, disk>>
    BY <1>9 DEF Load
  <2>3. loading.job.install # None => files = loading.job.install
    <3>1. ASSUME loading.job.install # None
          PROVE  loading.job.install \in Manifests \X Wasms
      BY <2>2, <3>1 DEF TypeOK, RunJob, LoadJob, Package
    <3>2. QED
      BY <2>2, <3>1 DEF WrittenSoFar, Pair
  <2> HIDE DEF result
  <2>4. QED
    BY <1>1, <2>1, <2>2, <2>3, FinishOwes
<1>10. CASE PumpDone
  BY <1>1, <1>10, PumpOwes
<1>11. ASSUME NEW e \in Dirs, GuestFrame(e) \/ ToggleEnabled(e)
       PROVE  Owing(d)'
  <2>1. UNCHANGED <<pending, jobs, loading, done, disk, owed>>
    BY <1>11 DEF GuestFrame, ToggleEnabled
  <2>2. inst[d] # None => inst'[d] # None /\ Pair(inst'[d]) = Pair(inst[d])
    BY <1>11, GuestStays
  <2>3. QED
    BY <1>1, <2>1, <2>2, SameOwing
<1>12. CASE Tick \/ PumpEnd("idle") \/ UNCHANGED managerVars
  BY <1>1, <1>12, SameOwing DEF Tick, PumpEnd, managerVars
<1>13. CASE Restart
  BY <1>13 DEF Restart, Owing
<1>14. QED
  BY <1>2, <1>3, <1>4, <1>5, <1>6, <1>7, <1>8, <1>9, <1>10, <1>11, <1>12, <1>13
     DEF Next, UserStep, LoaderStep

-----------------------------------------------------------------------------
(* The inductive invariant, and what follows from it.                      *)

IInv ==
  /\ TypeOK /\ InstallInHand /\ WrittenSoFar
  /\ PendingIsPipeline /\ AllSettled /\ AllOwing

\* Nothing is loaded, loading or queued at first.
LEMMA InitInv == Init => IInv
<1> SUFFICES ASSUME Init
             PROVE  IInv
  OBVIOUS
<1>1. TypeOK /\ InstallInHand
  BY InitType
<1>2. PendingIsPipeline
  <2>1. pending = <<>> /\ done = <<>> /\ jobs = <<>> /\ loading = None
    BY DEF Init
  <2>2. WorksOf(<<>>) = <<>> /\ InLoader = <<>>
    BY <2>1 DEF WorksOf, InLoader
  <2>3. QED
    BY <2>1, <2>2, EmptySeq, ConcatEmptySeq DEF PendingIsPipeline, Pipeline
<1>3. AllSettled
  <2>1. done = <<>> /\ \A d \in Dirs : inst[d] = None
    BY DEF Init
  <2>2. DOMAIN done = {}
    BY <2>1
  <2>3. QED
    BY <2>1, <2>2 DEF AllSettled, Settled, LastOf
<1>4. WrittenSoFar /\ AllOwing
  BY DEF Init, WrittenSoFar, AllOwing, Owing
<1>5. QED
  BY <1>1, <1>2, <1>3, <1>4 DEF IInv

\* Every step of the two threads, the user and the system preserves the invariant.
LEMMA NextInv == IInv /\ [Next]_managerVars => IInv'
BY NextType, NextWritten, NextPipeline, NextSettled, NextOwing DEF IInv

\* The invariant holds in every reachable state.
LEMMA ManagerInvariant == Spec => []IInv
BY InitInv, NextInv, PTL DEF Spec

\* The state of the manager, of its loader and of the directories keeps its types.
THEOREM ManagerTypeCorrect == Spec => []TypeOK
BY ManagerInvariant, PTL DEF IInv

\* For any number of directories, users' requests, faults and kills: `pending` is exactly
\* the work in flight, so a load that finishes always drops its own entry.
THEOREM PendingIsThePipeline == Spec => []PendingIsPipeline
BY ManagerInvariant, PTL DEF IInv

\* A directory with no work in flight, whose last load was not refused, runs what is on disk.
THEOREM RunsTheFilesOnDisk == Spec => []RunsWhatIsOnDisk
<1>1. IInv => RunsWhatIsOnDisk
  BY NotPendingNoWork DEF IInv, AllSettled, Settled, RunsWhatIsOnDisk
<1>2. QED
  BY <1>1, ManagerInvariant, PTL

\* For any directories, packages, faults and kills of the app: once the work queued for a
\* directory is done, and unless it ended in a refusal, the package last installed to it runs
\* from it, its own manifest with its own wasm (queue_install, run_job, pump).
THEOREM NewestInstallIsRun == Spec => []NewestInstallRuns
<1>1. IInv => NewestInstallRuns
  BY DEF IInv, AllOwing, Owing, NewestInstallRuns
<1>2. QED
  BY <1>1, ManagerInvariant, PTL
=============================================================================
