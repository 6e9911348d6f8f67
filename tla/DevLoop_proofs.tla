-------------------------- MODULE DevLoop_proofs ----------------------------
(***************************************************************************)
(* What the stations of a saved file keep, for every list of crates, set   *)
(* of builds and bound.  Each station has an inductive invariant and a     *)
(* section of its own; in the last section the stations are put together:  *)
(* a step of one leaves the other two alone.                               *)
(***************************************************************************)
EXTENDS DevLoop, Sequences, TLAPS

-----------------------------------------------------------------------------
(* The dev server.                                                         *)

\* A build reads the manifest before the code.
ManifestFirst ==
  building # Nothing /\ building.code # Nothing => building.manifest # Nothing

ServerInv == Server!ServerTypeOK /\ ManifestFirst


\* What is assumed of the crates, in the form the steps below use.
LEMMA SomeCrates ==
  /\ Len(Paths) \in Nat \ {0} /\ DOMAIN Paths = 1..Len(Paths)
  /\ \A i \in DOMAIN Paths : Paths[i] \in Server!Crates
  /\ MaxSaves \in Nat
<1>1. Paths \in Seq(STRING) /\ Paths # <<>> /\ MaxSaves \in Nat
  BY LoopAssumption DEF Server!ServerAssumption
<1>2. Len(Paths) \in Nat /\ DOMAIN Paths = 1..Len(Paths)
  BY <1>1
<1>3. Len(Paths) # 0
  BY <1>1
<1>4. \A i \in DOMAIN Paths : Paths[i] \in Server!Crates
  BY DEF Server!Crates
<1>5. QED
  BY <1>1, <1>2, <1>3, <1>4

\* The builder starts at the first crate, with nothing served.
LEMMA ServerInitInv == Server!ServerInit => ServerInv
<1> SUFFICES ASSUME Server!ServerInit PROVE ServerInv
  OBVIOUS
<1>1. [manifest |-> 0, code |-> 0] \in Server!Tree
  BY SomeCrates DEF Server!Tree, Server!Version
<1>2. 1 \in DOMAIN Paths
  BY SomeCrates
<1>3. QED
  BY <1>1, <1>2 DEF Server!ServerInit, ServerInv, Server!ServerTypeOK, ManifestFirst

\* The builder goes to a crate of the list again, or back to the first.
LEMMA NextCrateType ==
  at \in DOMAIN Paths /\ phase \in {"initial", "watch"} /\ Server!NextCrate =>
    at' \in DOMAIN Paths /\ phase' \in {"initial", "watch"}
BY SomeCrates DEF Server!NextCrate

\* No save and no step of the builder breaks the types.
LEMMA ServerNextInv == ServerInv /\ [Server!ServerNext]_serverAll => ServerInv'
<1> SUFFICES ASSUME ServerInv, [Server!ServerNext]_serverAll PROVE ServerInv'
  OBVIOUS
<1> USE DEF ServerInv, Server!ServerTypeOK, ManifestFirst
<1>1. Paths[at] \in Server!Crates /\ tree[Paths[at]] \in Server!Tree
  BY SomeCrates
<1>2. \A c \in Server!Crates, file \in {"manifest", "code"} :
        Server!Save(c, file) => ServerInv'
  <2> SUFFICES ASSUME NEW c \in Server!Crates, NEW file \in {"manifest", "code"},
                      Server!Save(c, file)
               PROVE  ServerInv'
    OBVIOUS
  <2>1. tree[c] \in Server!Tree /\ tree[c].manifest + tree[c].code < MaxSaves
    BY DEF Server!Save, Server!Saves
  <2>2. [tree[c] EXCEPT ![file] = @ + 1] \in Server!Tree
    <3>1. /\ tree[c].manifest + 1 \in Server!Version
          /\ tree[c].code + 1 \in Server!Version
      BY <2>1, SomeCrates DEF Server!Tree, Server!Version
    <3>2. CASE file = "manifest"
      BY <2>1, <3>1, <3>2 DEF Server!Tree
    <3>3. CASE file = "code"
      BY <2>1, <3>1, <3>3 DEF Server!Tree
    <3>4. QED
      BY <3>2, <3>3
  <2>3. tree' = [tree EXCEPT ![c] = [tree[c] EXCEPT ![file] = @ + 1]]
    BY DEF Server!Save
  <2>4. tree' \in [Server!Crates -> Server!Tree]
    BY <2>2, <2>3
  <2>5. QED
    BY <2>4 DEF Server!Save
<1>3. CASE Server!InitialBuild
  BY <1>3 DEF Server!InitialBuild, Server!Begun, Server!Reading
<1>4. CASE Server!WatchChanged
  <2>1. stamps' \in [Server!Crates -> Server!Tree \cup {Nothing}]
    BY <1>1, <1>4 DEF Server!WatchChanged
  <2>2. QED
    BY <1>4, <2>1 DEF Server!WatchChanged, Server!Begun, Server!Reading
<1>5. CASE Server!WatchUnchanged
  BY <1>5, NextCrateType DEF Server!WatchUnchanged
<1>6. CASE Server!ReadManifest
  <2>1. building' = [manifest |-> tree[Paths[at]].manifest, code |-> Nothing]
    BY <1>6 DEF Server!ReadManifest, Server!Begun
  <2>2. tree[Paths[at]].manifest \in Server!Version
    BY <1>1 DEF Server!Tree
  <2>3. building' \in Server!Reading /\ building'.code = Nothing
    BY <2>1, <2>2 DEF Server!Reading
  <2>4. QED
    BY <1>6, <2>3 DEF Server!ReadManifest
<1>7. CASE Server!CargoBuild
  <2>1. building' = [building EXCEPT !.code = tree[Paths[at]].code]
        /\ building # Nothing /\ building.manifest # Nothing
    BY <1>7 DEF Server!CargoBuild
  <2>2. building \in Server!Reading /\ tree[Paths[at]].code \in Server!Version
    BY <1>1, <2>1 DEF Server!Tree
  <2>3. building' = [manifest |-> building.manifest, code |-> tree[Paths[at]].code]
    BY <2>1, <2>2 DEF Server!Reading
  <2>4. building' \in Server!Reading /\ building'.manifest # Nothing
    BY <2>1, <2>2, <2>3 DEF Server!Reading
  <2>5. QED
    BY <1>7, <2>4 DEF Server!CargoBuild
<1>8. CASE Server!FinishBuild
  <2>1. building \in Server!Tree
    BY <1>8 DEF Server!FinishBuild, Server!Reading, Server!Tree
  <2>2. served' \in [Server!Crates -> Server!Tree \cup {Nothing}]
    BY <1>1, <1>8, <2>1 DEF Server!FinishBuild
  <2>3. stamps' \in [Server!Crates -> Server!Tree \cup {Nothing}]
    BY <1>8 DEF Server!FinishBuild, Server!FirstStamps
  <2>4. QED
    BY <1>8, <2>2, <2>3, NextCrateType DEF Server!FinishBuild
<1>9. CASE UNCHANGED serverAll
  BY <1>9 DEF serverAll
<1>10. QED
  BY <1>2, <1>3, <1>4, <1>5, <1>6, <1>7, <1>8, <1>9 DEF Server!ServerNext, Server!Builder

-----------------------------------------------------------------------------
(* The compile cache.                                                      *)

\* CacheIsRight is not inductive: a hit is right because a key that matches vouches for the
\* artifact.  That holds unless the two were split (an artifact replaced and its key not), and it
\* must be known of a call that is between the two writes too.

\* While a call is between its two writes the artifact is the one it wrote.
CacheBetweenWrites ==
  cacheCall # Nothing /\ cacheCall.at = "key" => artifact = Cache!Replaced

\* A key vouches for an intact artifact, but for a split and between the two writes.
CacheKeyVouches ==
  ~split /\ ~(cacheCall # Nothing /\ cacheCall.at = "key") =>
    (artifact \in Cache!Artifact /\ key \in Wasms => artifact.wasm = key)

CacheIInv == Cache!TypeOK /\ CacheBetweenWrites /\ CacheKeyVouches /\ Cache!CacheIsRight

\* The initial directory is empty, or holds nothing that could be wrong.
LEMMA CacheInitInv == ASSUME Cache!CacheAssumption PROVE Cache!Init => CacheIInv
<1> SUFFICES ASSUME Cache!Init PROVE CacheIInv
  OBVIOUS
<1> USE DEF Cache!CacheAssumption, Cache!Init
<1>1. Cache!TypeOK
  <2>1. split \in BOOLEAN
    BY Zenon
  <2>2. QED
    BY <2>1 DEF Cache!TypeOK
<1>2. CacheBetweenWrites /\ CacheKeyVouches /\ Cache!CacheIsRight
  BY DEF CacheBetweenWrites, CacheKeyVouches, Cache!CacheIsRight, Cache!RunsWhatWasAsked
<1>3. QED
  BY <1>1, <1>2 DEF CacheIInv

\* No step of compile_cached, no failed write, kill or update breaks the invariant.
LEMMA CacheNextInv == ASSUME Cache!CacheAssumption PROVE CacheIInv
                        /\ [Cache!Next]_(Cache!cacheVars) => CacheIInv'
<1> SUFFICES ASSUME CacheIInv, [Cache!Next]_(Cache!cacheVars)
             PROVE  CacheIInv'
  OBVIOUS
<1> USE DEF Cache!CacheAssumption, CacheIInv, Cache!TypeOK, Cache!Artifact, Cache!Call,
      Cache!Loaded
<1>1. ASSUME NEW w \in Wasms, Cache!Load(w)
      PROVE  CacheIInv'
  BY <1>1 DEF Cache!Load, CacheBetweenWrites, CacheKeyVouches, Cache!CacheIsRight,
     Cache!RunsWhatWasAsked, Cache!Replaced
<1>2. CASE Cache!Hit
  <2>1. Cache!TypeOK'
    BY <1>2 DEF Cache!Hit, Cache!Return, Cache!Deserializes
  <2>2. CacheBetweenWrites' /\ CacheKeyVouches'
    BY <1>2 DEF Cache!Hit, Cache!Return, CacheBetweenWrites, CacheKeyVouches, Cache!Replaced
  <2>3. Cache!CacheIsRight'
    BY <1>2 DEF Cache!Hit, Cache!Return, Cache!Deserializes, CacheKeyVouches, Cache!CacheIsRight,
       Cache!RunsWhatWasAsked
  <2>4. QED
    BY <2>1, <2>2, <2>3
<1>3. CASE Cache!Miss
  BY <1>3 DEF Cache!Miss, CacheBetweenWrites, CacheKeyVouches, Cache!CacheIsRight,
     Cache!RunsWhatWasAsked, Cache!Replaced
<1>4. CASE Cache!Compile
  BY <1>4 DEF Cache!Compile, Cache!Return, CacheBetweenWrites, CacheKeyVouches,
     Cache!CacheIsRight, Cache!RunsWhatWasAsked, Cache!Replaced
<1>5. CASE Cache!WriteArtifact
  BY <1>5 DEF Cache!WriteArtifact, CacheBetweenWrites, CacheKeyVouches, Cache!CacheIsRight,
     Cache!RunsWhatWasAsked, Cache!Replaced
<1>6. CASE Cache!ArtifactFails
  <2>1. Cache!TypeOK'
    BY <1>6 DEF Cache!ArtifactFails, Cache!Return
  <2>2. CacheBetweenWrites'
    BY <1>6 DEF Cache!ArtifactFails, Cache!Return, CacheBetweenWrites, Cache!Replaced
  <2>3. CacheKeyVouches'
    BY <1>6 DEF Cache!ArtifactFails, Cache!Return, CacheBetweenWrites, CacheKeyVouches,
       Cache!Replaced
  <2>4. Cache!CacheIsRight'
    BY <1>6 DEF Cache!ArtifactFails, Cache!Return, Cache!CacheIsRight, Cache!RunsWhatWasAsked
  <2>5. QED
    BY <2>1, <2>2, <2>3, <2>4
<1>7. CASE Cache!WriteKey
  <2>1. Cache!TypeOK'
    <3>1. split' \in BOOLEAN
      BY <1>7, Zenon DEF Cache!WriteKey
    <3>2. QED
      BY <1>7, <3>1 DEF Cache!WriteKey, Cache!Return
  <2>2. CacheBetweenWrites' /\ CacheKeyVouches' /\ Cache!CacheIsRight'
    BY <1>7 DEF Cache!WriteKey, Cache!Return, CacheBetweenWrites, CacheKeyVouches,
       Cache!CacheIsRight, Cache!RunsWhatWasAsked, Cache!Replaced
  <2>3. QED
    BY <2>1, <2>2
<1>8. CASE Cache!KeyFails
  <2>1. Cache!TypeOK'
    <3>1. split' \in BOOLEAN
      BY <1>8, Zenon DEF Cache!KeyFails
    <3>2. QED
      BY <1>8, <3>1 DEF Cache!KeyFails, Cache!Return
  <2>2. CacheBetweenWrites'
    BY <1>8 DEF Cache!KeyFails, Cache!Return, CacheBetweenWrites, Cache!Replaced
  <2>3. CacheKeyVouches'
    BY <1>8 DEF Cache!KeyFails, Cache!Return, CacheBetweenWrites, CacheKeyVouches, Cache!Replaced
  <2>4. Cache!CacheIsRight'
    BY <1>8 DEF Cache!KeyFails, Cache!Return, Cache!CacheIsRight, Cache!RunsWhatWasAsked
  <2>5. QED
    BY <2>1, <2>2, <2>3, <2>4
<1>9. CASE Cache!Kill
  <2>1. Cache!TypeOK'
    <3>1. split' \in BOOLEAN
      BY <1>9, Zenon DEF Cache!Kill
    <3>2. QED
      BY <1>9, <3>1 DEF Cache!Kill
  <2>2. CacheBetweenWrites'
    BY <1>9 DEF Cache!Kill, CacheBetweenWrites, Cache!Replaced
  <2>3. CacheKeyVouches'
    BY <1>9 DEF Cache!Kill, CacheBetweenWrites, CacheKeyVouches, Cache!Replaced
  <2>4. Cache!CacheIsRight'
    BY <1>9 DEF Cache!Kill, Cache!CacheIsRight, Cache!RunsWhatWasAsked
  <2>5. QED
    BY <2>1, <2>2, <2>3, <2>4
<1>10. CASE Cache!Update
  BY <1>10 DEF Cache!Update, CacheBetweenWrites, CacheKeyVouches, Cache!CacheIsRight,
     Cache!RunsWhatWasAsked, Cache!Replaced
<1>11. CASE UNCHANGED Cache!cacheVars
  BY <1>11 DEF Cache!cacheVars, CacheBetweenWrites, CacheKeyVouches, Cache!CacheIsRight,
     Cache!RunsWhatWasAsked, Cache!Replaced
<1>12. QED
  BY <1>1, <1>2, <1>3, <1>4, <1>5, <1>6, <1>7, <1>8, <1>9, <1>10, <1>11 DEF Cache!Next

-----------------------------------------------------------------------------
(* The guest and its replacement.                                          *)

\* That the state is carried is known only at the end of a swap.  The invariant follows it: into
\* the snapshot, out of it, and to the place of the guest replaced.  It needs to know when a guest
\* can fail at all: a guest is Errored, or left with RUNTIME borrowed, only if one has trapped
\* before.

\* No guest has trapped so far.
GuestClean == panics = 0 /\ overrun = {}

\* The call in progress is one the UI thread makes at this point of the swap.
GuestCallsFit ==
  call # Nothing =>
    CASE call.kind \in {"frame", "event"} -> swap = "no" /\ call.on = "shown"
      [] call.kind = "save"    -> swap = "save" /\ call.on = "shown"
      [] call.kind = "restore" -> swap = "restore" /\ call.on = "fresh"
      [] call.kind = "destroy" -> swap = "destroy" /\ call.on = "old"

\* A call is made with its deadline armed, and host ops arm a frame's own again.
GuestArmed ==
  call # Nothing =>
    /\ Reload!G.deadline # "none"
    /\ call.kind = "frame" => Reload!G.deadline = Reload!FrameBudget(Reload!G)
         /\ Reload!G.frameDeadline = Reload!FrameBudget(Reload!G)

\* Before any trap every guest is Ready, and RUNTIME is borrowed only by the call inside it.
GuestCleanGuests ==
  GuestClean => \A s \in Reload!Slots :
    /\ guests[s].status = "Ready"
    /\ guests[s].runtime = "borrowed" =>
         call # Nothing /\ call.on = s /\ call.at = "body"

\* Where the state of the guest that is being replaced is.
GuestCarrying ==
  /\ swap = "save" =>
       /\ guests["fresh"].status = "Ready" /\ guests["fresh"].st = 0
       /\ call # Nothing => snapshot = 0 /\ guests["shown"].status = "Ready"
       /\ call = Nothing /\ GuestClean => snapshot = guests["shown"].st
       /\ call = Nothing /\ guests["shown"].status = "Errored" => snapshot = 0
  /\ swap = "restore" =>
       /\ GuestClean => snapshot = guests["shown"].st
       /\ call = Nothing /\ GuestClean => guests["fresh"].st = guests["shown"].st
       /\ guests["shown"].status = "Errored" => snapshot = 0 /\ guests["fresh"].st = 0
  /\ swap = "replace" =>
       /\ GuestClean => guests["fresh"].st = guests["shown"].st
       /\ guests["shown"].status = "Errored" => guests["fresh"].st = 0

\* A guest whose restore trapped, as it was left: nothing restored, nothing drawn.
GuestUntouched(g) == snapshot # 0 /\ g.st = 0 /\ g.frames = 0

\* Where a guest that a trap left with RUNTIME borrowed, and that is Ready all the same, is on
\* its way from the failed restore to the call that finds it out.
GuestFindable ==
  /\ swap = "no" /\ (call = Nothing \/ call.at = "alloc") =>
       (guests["shown"].status = "Ready" /\ guests["shown"].runtime # "free" =>
          GuestUntouched(guests["shown"]))
  /\ swap = "save" =>
       guests["fresh"].runtime = "free" /\ guests["fresh"].st = 0 /\ guests["fresh"].frames = 0
  /\ swap = "restore" =>
       /\ guests["fresh"].frames = 0
       /\ call # Nothing \/ guests["fresh"].runtime # "free" => GuestUntouched(guests["fresh"])
  /\ swap = "replace" /\ guests["fresh"].runtime # "free" => GuestUntouched(guests["fresh"])
  /\ swap = "destroy" /\ guests["shown"].runtime # "free" => GuestUntouched(guests["shown"])

GuestIInv ==
  /\ Reload!TypeOK /\ GuestCallsFit /\ GuestArmed /\ GuestCleanGuests /\ GuestCarrying
  /\ GuestFindable /\ Reload!FrameKeepsItsBudget /\ Reload!StateIsCarried

\* What the constants are, one by one.
LEMMA GuestBounds ==
  ASSUME Reload!ReloadAssumption
  PROVE  WarmupFrames \in Nat /\ MaxUse \in Nat /\ MaxPanics \in Nat /\ MaxReloads \in Nat
BY DEF Reload!ReloadAssumption

\* A guest just created is a guest, and so is an empty slot.
LEMMA GuestCreatedIsGuest == ASSUME Reload!ReloadAssumption PROVE Reload!Created
                               \in Reload!Guest /\ Reload!Absent \in Reload!Guest
<1>1. 0 \in 0..WarmupFrames /\ 0 \in 0..MaxUse
  BY GuestBounds
<1>2. Reload!Created \in Reload!Guest
  BY <1>1 DEF Reload!Created, Reload!Guest, Reload!Budget
<1>3. QED
  BY <1>2 DEF Reload!Absent, Reload!Guest

\* Arming changes the deadlines of a guest only, and to armed ones.
LEMMA GuestArmIsGuest ==
  ASSUME NEW g \in Reload!Guest, NEW kind
  PROVE  /\ Reload!Arm(g, kind) \in Reload!Guest
         /\ Reload!Arm(g, kind).status = g.status /\ Reload!Arm(g, kind).st = g.st
         /\ Reload!Arm(g, kind).runtime = g.runtime
         /\ Reload!Arm(g, kind).deadline # "none"
         /\ kind = "frame" =>
              /\ Reload!Arm(g, kind).deadline = Reload!FrameBudget(Reload!Arm(g, kind))
              /\ Reload!Arm(g, kind).frameDeadline = Reload!FrameBudget(Reload!Arm(g, kind))
BY DEF Reload!Arm, Reload!FrameBudget, Reload!Guest, Reload!Budget

\* A trap changes the status of a guest at most.
LEMMA GuestTrapIsGuest ==
  ASSUME NEW g \in Reload!Guest
  PROVE  /\ Reload!TrapIn(g) \in Reload!Guest
         /\ Reload!TrapIn(g).st = g.st /\ Reload!TrapIn(g).runtime = g.runtime
         /\ call.kind = "destroy" => Reload!TrapIn(g) = g
BY DEF Reload!TrapIn, Reload!Guest

\* What a call into a guest does before the guest runs.
LEMMA GuestEnterArms ==
  ASSUME guests \in [Reload!Slots -> Reload!Guest], NEW s \in Reload!Slots, NEW kind,
         call' = [on |-> s, kind |-> kind, at |-> "alloc"],
         guests' = [guests EXCEPT ![s] = Reload!Arm(@, kind)]
  PROVE  /\ \A r \in Reload!Slots : r # s => guests'[r] = guests[r]
         /\ guests'[s].status = guests[s].status /\ guests'[s].st = guests[s].st
         /\ guests'[s].runtime = guests[s].runtime
         /\ guests'[s].deadline # "none"
         /\ kind = "frame" => /\ guests'[s].deadline = Reload!FrameBudget(guests'[s])
                              /\ guests'[s].frameDeadline = Reload!FrameBudget(guests'[s])
<1>1. guests'[s] = Reload!Arm(guests[s], kind) /\ \A r \in Reload!Slots : r # s
        => guests'[r] = guests[r]
  OBVIOUS
<1>2. guests[s] \in Reload!Guest
  OBVIOUS
<1>3. QED
  BY <1>1, <1>2, GuestArmIsGuest

\* What a trap leaves behind.
LEMMA GuestTrapLeaves ==
  ASSUME guests \in [Reload!Slots -> Reload!Guest], call.on \in Reload!Slots, Reload!Trap
  PROVE  /\ call' = Nothing
         /\ \A r \in Reload!Slots : guests'[r].st = guests[r].st
              /\ guests'[r].runtime = guests[r].runtime
         /\ \A r \in Reload!Slots : r # call.on \/ call.kind = "destroy" => guests'[r] = guests[r]
<1>1. call' = Nothing /\ guests' = [guests EXCEPT ![call.on] = Reload!TrapIn(guests[call.on])]
  BY DEF Reload!Trap
<1>2. guests[call.on] \in Reload!Guest
  OBVIOUS
<1>3. QED
  BY <1>1, <1>2, GuestTrapIsGuest

\* A plugin starts with one guest, created and not called yet.
LEMMA GuestInitInv == ASSUME Reload!ReloadAssumption PROVE Reload!Init => GuestIInv
<1> SUFFICES ASSUME Reload!Init PROVE GuestIInv
  OBVIOUS
<1> USE GuestBounds DEF Reload!Init
<1>1. guests \in [Reload!Slots -> Reload!Guest]
  BY GuestCreatedIsGuest
<1>2. Reload!TypeOK
  BY <1>1 DEF Reload!TypeOK, Reload!Kinds
<1>3. GuestCallsFit /\ GuestArmed /\ GuestCarrying /\ Reload!FrameKeepsItsBudget
        /\ Reload!StateIsCarried
  BY DEF GuestCallsFit, GuestArmed, GuestCarrying, Reload!FrameKeepsItsBudget,
    Reload!StateIsCarried
<1>4. GuestCleanGuests
  BY DEF GuestCleanGuests, Reload!Created, Reload!Absent
<1>5. guests["shown"].runtime = "free"
  BY DEF Reload!Slots, Reload!Created
<1>6. GuestFindable
  BY <1>5 DEF GuestFindable
<1>7. QED
  BY <1>2, <1>3, <1>4, <1>6 DEF GuestIInv

\* No step of a guest, of the UI thread or of a swap breaks a type.
LEMMA GuestNextType == ASSUME Reload!ReloadAssumption PROVE Reload!TypeOK /\ GuestCallsFit
                         /\ [Reload!Next]_(Reload!reloadVars) => Reload!TypeOK'
<1> SUFFICES ASSUME Reload!TypeOK, GuestCallsFit, [Reload!Next]_(Reload!reloadVars)
             PROVE  Reload!TypeOK'
  OBVIOUS
<1> USE GuestBounds DEF Reload!TypeOK
<1>1. \A s \in Reload!Slots, g \in Reload!Guest : [guests EXCEPT ![s] = g]
        \in [Reload!Slots -> Reload!Guest]
  OBVIOUS
<1>2. call # Nothing => call.on \in Reload!Slots /\ call.kind \in Reload!Kinds /\ Reload!G
        \in Reload!Guest
  BY DEF Reload!Call, Reload!G
<1>3. \A g \in Reload!Guest : g.st \in 0..MaxUse /\ g.frames \in 0..WarmupFrames
  BY DEF Reload!Guest
<1>4. \A s \in Reload!Slots, k \in Reload!Kinds : [on |-> s, kind |-> k, at |-> "alloc"]
        \in Reload!Call
  BY DEF Reload!Call
<1>5. {"frame", "event", "save", "restore", "destroy"} = Reload!Kinds
      /\ {"shown", "fresh", "old"} = Reload!Slots
  BY DEF Reload!Kinds, Reload!Slots
<1>6. ASSUME NEW s \in Reload!Slots, NEW k \in Reload!Kinds, Reload!Enter(s, k)
      PROVE  guests' \in [Reload!Slots -> Reload!Guest] /\ call' \in Reload!Call
  BY <1>1, <1>4, <1>6, GuestArmIsGuest DEF Reload!Enter
<1>7. ASSUME call # Nothing, Reload!Trap
      PROVE  guests' \in [Reload!Slots -> Reload!Guest] /\ call' = Nothing
  BY <1>1, <1>2, <1>7, GuestTrapIsGuest DEF Reload!Trap, Reload!G
<1>8. CASE Reload!RunFrame \/ Reload!SendEvent
  BY <1>8, <1>5, <1>6 DEF Reload!RunFrame, Reload!SendEvent
<1>9. CASE Reload!Idle
  <2>1. \A s \in Reload!Slots : [guests[s] EXCEPT !.deadline = "none"] \in Reload!Guest
    BY DEF Reload!Guest, Reload!Budget
  <2>2. QED
    BY <1>9, <2>1 DEF Reload!Idle
<1>10. CASE Reload!BeginSwap
  <2>1. [Reload!Created EXCEPT !.deadline = "none"] \in Reload!Guest
    BY GuestCreatedIsGuest DEF Reload!Guest, Reload!Budget
  <2>2. Reload!Arm(guests["shown"], "save") \in Reload!Guest
    BY <1>5, GuestArmIsGuest
  <2>3. guests' \in [Reload!Slots -> Reload!Guest]
    BY <1>1, <1>5, <1>10, <2>1, <2>2 DEF Reload!BeginSwap
  <2>4. call' \in Reload!Call \cup {Nothing}
    BY <1>4, <1>5, <1>10 DEF Reload!BeginSwap
  <2>5. QED
    BY <1>10, <2>3, <2>4 DEF Reload!BeginSwap
<1>11. CASE Reload!SwapRestore
  BY <1>5, <1>6, <1>11 DEF Reload!SwapRestore
<1>12. CASE Reload!SwapClear
  <2>1. [guests["fresh"] EXCEPT !.status = "Ready"] \in Reload!Guest
    BY <1>5 DEF Reload!Guest
  <2>2. QED
    BY <1>1, <1>5, <1>12, <2>1 DEF Reload!SwapClear
<1>13. CASE Reload!SwapReplace
  <2>1. Reload!Arm(guests["shown"], "destroy") \in Reload!Guest
    BY <1>5, GuestArmIsGuest
  <2>2. guests' \in [Reload!Slots -> Reload!Guest]
    BY <1>1, <1>5, <1>13, <2>1, GuestCreatedIsGuest DEF Reload!SwapReplace
  <2>3. QED
    BY <1>4, <1>5, <1>13, <2>2 DEF Reload!SwapReplace
<1>14. CASE Reload!EndSwap
  BY <1>1, <1>5, <1>14, GuestCreatedIsGuest DEF Reload!EndSwap
<1>15. CASE Reload!EnterBody
  <2>1. call # Nothing
    BY <1>15 DEF Reload!EnterBody
  <2>2. CASE Reload!Trap
    BY <1>7, <1>15, <2>1, <2>2 DEF Reload!EnterBody
  <2>3. CASE ~Reload!Trap
    <3>1. [Reload!G EXCEPT !.runtime = "borrowed"] \in Reload!Guest
      BY <1>2, <2>1 DEF Reload!Guest
    <3>2. [call EXCEPT !.at = "body"] \in Reload!Call
      BY <2>1 DEF Reload!Call
    <3>3. QED
      BY <1>1, <1>2, <1>15, <2>1, <2>3, <3>1, <3>2 DEF Reload!EnterBody, Reload!G
  <2>4. QED
    BY <2>2, <2>3
<1>16. CASE Reload!Work
  BY <1>2, <1>7, <1>16 DEF Reload!Work
<1>17. CASE Reload!HostCall
  <2>1. [Reload!G EXCEPT !.deadline = Reload!G.frameDeadline] \in Reload!Guest
    BY <1>2, <1>17 DEF Reload!HostCall, Reload!Guest, Reload!Budget
  <2>2. QED
    BY <1>1, <1>2, <1>17, <2>1 DEF Reload!HostCall, Reload!G
<1>18. CASE Reload!Panic
  BY <1>7, <1>18 DEF Reload!Panic
<1>19. CASE Reload!FrameRejected
  <2> DEFINE g == [Reload!G EXCEPT !.status = "Errored", !.deadline = "cold",
                            !.frames = Reload!Counted(Reload!G.frames)]
  <2>1. call # Nothing /\ Reload!Counted(Reload!G.frames) \in 0..WarmupFrames
    BY <1>2, <1>3, <1>19 DEF Reload!FrameRejected, Reload!Counted
  <2>2. g \in Reload!Guest
    BY <1>2, <2>1 DEF Reload!Guest, Reload!Budget
  <2>3. guests' = [guests EXCEPT ![call.on] = g]
    BY <1>19 DEF Reload!FrameRejected, Reload!G
  <2>4. guests' \in [Reload!Slots -> Reload!Guest]
    BY <1>1, <1>2, <2>1, <2>2, <2>3
  <2>5. QED
    BY <1>19, <2>4 DEF Reload!FrameRejected
<1>20. CASE Reload!FrameReturns
  <2>1. call # Nothing /\ Reload!Counted(Reload!G.frames) \in 0..WarmupFrames
    BY <1>2, <1>3, <1>20 DEF Reload!FrameReturns, Reload!Counted
  <2>2. PICK st \in 0..MaxUse : guests' = [guests EXCEPT ![call.on] =
          [Reload!G EXCEPT !.runtime = "free", !.deadline = "cold", !.st = st,
                    !.frames = Reload!Counted(Reload!G.frames)]]
    BY <1>20 DEF Reload!FrameReturns, Reload!G
  <2> DEFINE g == [Reload!G EXCEPT !.runtime = "free", !.deadline = "cold", !.st = st,
                            !.frames = Reload!Counted(Reload!G.frames)]
  <2>3. g \in Reload!Guest
    BY <1>2, <2>1 DEF Reload!Guest, Reload!Budget
  <2>4. guests' = [guests EXCEPT ![call.on] = g]
    BY <2>2 DEF Reload!G
  <2>5. guests' \in [Reload!Slots -> Reload!Guest]
    BY <1>1, <1>2, <2>1, <2>3, <2>4
  <2>6. QED
    BY <1>20, <2>5 DEF Reload!FrameReturns
<1>21. CASE Reload!EventReturns
  <2>1. PICK st \in 0..MaxUse :
          guests' = [guests EXCEPT ![call.on].runtime = "free", ![call.on].st = st]
    BY <1>21 DEF Reload!EventReturns
  <2>2. [Reload!G EXCEPT !.runtime = "free", !.st = st] \in Reload!Guest
    BY <1>2, <1>21 DEF Reload!EventReturns, Reload!Guest
  <2>3. guests' = [guests EXCEPT ![call.on] = [Reload!G EXCEPT !.runtime = "free", !.st = st]]
    BY <1>2, <1>21, <2>1 DEF Reload!EventReturns, Reload!G
  <2>4. QED
    BY <1>1, <1>2, <1>21, <2>2, <2>3 DEF Reload!EventReturns
<1>22. CASE Reload!SaveReturns
  <2>1. [Reload!G EXCEPT !.runtime = "free"] \in Reload!Guest
    BY <1>2, <1>22 DEF Reload!SaveReturns, Reload!Guest
  <2>2. QED
    BY <1>1, <1>2, <1>3, <1>22, <2>1 DEF Reload!SaveReturns, Reload!G
<1>23. CASE Reload!RestoreReturns
  <2>1. [Reload!G EXCEPT !.runtime = "free", !.st = snapshot] \in Reload!Guest
    BY <1>2, <1>23 DEF Reload!RestoreReturns, Reload!Guest
  <2>2. guests' = [guests EXCEPT ![call.on] = [Reload!G EXCEPT !.runtime = "free",
          !.st = snapshot]]
    BY <1>2, <1>23 DEF Reload!RestoreReturns, Reload!G
  <2>3. QED
    BY <1>1, <1>2, <1>23, <2>1, <2>2 DEF Reload!RestoreReturns
<1>24. CASE Reload!DestroyReturns
  <2>1. [Reload!G EXCEPT !.runtime = "taken"] \in Reload!Guest
    BY <1>2, <1>24 DEF Reload!DestroyReturns, Reload!Guest
  <2>2. QED
    BY <1>1, <1>2, <1>24, <2>1 DEF Reload!DestroyReturns, Reload!G
<1>25. CASE UNCHANGED Reload!reloadVars
  BY <1>25 DEF Reload!reloadVars
<1>26. QED
  BY <1>8, <1>9, <1>10, <1>11, <1>12, <1>13, <1>14, <1>15, <1>16, <1>17, <1>18, <1>19,
     <1>20, <1>21, <1>22, <1>23, <1>24, <1>25 DEF Reload!Next, Reload!Swap, Reload!GuestStep

\* Each call belongs to its point of the swap, and no step leaves the deadline unarmed in one.
LEMMA GuestNextArmed ==
  ASSUME Reload!ReloadAssumption
  PROVE  GuestIInv /\ [Reload!Next]_(Reload!reloadVars) => GuestCallsFit' /\ GuestArmed'
           /\ Reload!FrameKeepsItsBudget'
<1> SUFFICES ASSUME GuestIInv, [Reload!Next]_(Reload!reloadVars)
             PROVE  GuestCallsFit' /\ GuestArmed' /\ Reload!FrameKeepsItsBudget'
  OBVIOUS
<1> USE DEF GuestIInv, GuestCallsFit, GuestArmed, Reload!FrameKeepsItsBudget, Reload!G
<1>1. guests \in [Reload!Slots -> Reload!Guest] /\ call \in Reload!Call \cup {Nothing}
  BY DEF Reload!TypeOK
<1>2. Reload!Slots = {"shown", "fresh", "old"}
  BY DEF Reload!Slots
<1>3. call # Nothing => call.on \in Reload!Slots /\ guests[call.on] \in Reload!Guest
  BY <1>1 DEF Reload!Call
<1>4. CASE Reload!RunFrame \/ Reload!SendEvent
  <2>1. PICK k \in {"frame", "event"} :
          Reload!Enter("shown", k) /\ swap = "no" /\ UNCHANGED <<swap, overrun>>
    BY <1>4 DEF Reload!RunFrame, Reload!SendEvent
  <2>2. /\ call' = [on |-> "shown", kind |-> k, at |-> "alloc"]
        /\ guests'["shown"].deadline # "none"
        /\ k = "frame" => /\ guests'["shown"].deadline = Reload!FrameBudget(guests'["shown"])
                          /\ guests'["shown"].frameDeadline = Reload!FrameBudget(guests'["shown"])
    BY <1>1, <1>2, <2>1, GuestEnterArms DEF Reload!Enter
  <2>3. QED
    BY <2>1, <2>2 DEF Reload!FrameBudget
<1>5. CASE Reload!Idle
  BY <1>5 DEF Reload!Idle
<1>6. CASE Reload!BeginSwap
  <2>1. CASE guests["shown"].status = "Ready"
    <3>1. /\ call' = [on |-> "shown", kind |-> "save", at |-> "alloc"] /\ swap' = "save"
          /\ guests'["shown"] = Reload!Arm(guests["shown"], "save") /\ overrun' = overrun
      BY <1>1, <1>2, <1>6, <2>1 DEF Reload!BeginSwap
    <3>2. guests["shown"] \in Reload!Guest
      BY <1>1, <1>2
    <3>3. QED
      BY <3>1, <3>2, GuestArmIsGuest
  <2>2. CASE guests["shown"].status # "Ready"
    BY <1>6, <2>2 DEF Reload!BeginSwap
  <2>3. QED
    BY <2>1, <2>2
<1>7. CASE Reload!SwapRestore
  <2>1. CASE snapshot = 0
    BY <1>7, <2>1 DEF Reload!SwapRestore
  <2>2. CASE snapshot # 0
    <3>1. Reload!Enter("fresh", "restore") /\ swap' = "restore" /\ UNCHANGED overrun
      BY <1>7, <2>2 DEF Reload!SwapRestore
    <3>2. /\ call' = [on |-> "fresh", kind |-> "restore", at |-> "alloc"]
          /\ guests'["fresh"].deadline # "none"
      BY <1>1, <1>2, <3>1, GuestEnterArms DEF Reload!Enter
    <3>3. QED
      BY <3>1, <3>2
  <2>3. QED
    BY <2>1, <2>2
<1>8. CASE Reload!SwapClear \/ Reload!EndSwap
  BY <1>8 DEF Reload!SwapClear, Reload!EndSwap
<1>9. CASE Reload!SwapReplace
  BY <1>1, <1>2, <1>9, GuestArmIsGuest DEF Reload!SwapReplace
<1>10. CASE Reload!EnterBody
  <2>1. CASE Reload!Trap
    BY <1>10, <2>1 DEF Reload!EnterBody, Reload!Trap
  <2>2. CASE ~Reload!Trap
    <3>1. /\ call # Nothing /\ UNCHANGED <<swap, overrun>>
          /\ guests' = [guests EXCEPT ![call.on] = [guests[call.on] EXCEPT !.runtime = "borrowed"]]
          /\ call' = [call EXCEPT !.at = "body"]
      BY <1>1, <1>3, <1>10, <2>2 DEF Reload!EnterBody
    <3>2. /\ call'.on = call.on /\ call'.kind = call.kind
      BY <1>1, <3>1 DEF Reload!Call
    <3>3. /\ guests'[call.on].deadline = guests[call.on].deadline
          /\ guests'[call.on].frameDeadline = guests[call.on].frameDeadline
          /\ guests'[call.on].frames = guests[call.on].frames
      BY <1>1, <1>3, <3>1 DEF Reload!Guest
    <3>4. QED
      BY <3>1, <3>2, <3>3 DEF Reload!FrameBudget
  <2>3. QED
    BY <2>1, <2>2
<1>11. CASE Reload!Work
  BY <1>1, <1>3, <1>11 DEF Reload!Work, Reload!Trap, Reload!Allowed
<1>12. CASE Reload!HostCall
  BY <1>1, <1>3, <1>12 DEF Reload!HostCall, Reload!FrameBudget, Reload!Guest
<1>13. CASE Reload!Panic
  BY <1>13 DEF Reload!Panic, Reload!Trap
<1>14. CASE Reload!FrameRejected \/ Reload!FrameReturns \/ Reload!EventReturns
  BY <1>14 DEF Reload!FrameRejected, Reload!FrameReturns, Reload!EventReturns
<1>15. CASE Reload!SaveReturns \/ Reload!RestoreReturns \/ Reload!DestroyReturns
  BY <1>15 DEF Reload!SaveReturns, Reload!RestoreReturns, Reload!DestroyReturns
<1>16. CASE UNCHANGED Reload!reloadVars
  BY <1>16 DEF Reload!reloadVars, Reload!FrameBudget
<1>17. QED
  BY <1>4, <1>5, <1>6, <1>7, <1>8, <1>9, <1>10, <1>11, <1>12, <1>13, <1>14, <1>15, <1>16
     DEF Reload!Next, Reload!Swap, Reload!GuestStep

\* A guest fails only by a trap, which is counted, or by a deadline, which is recorded.
LEMMA GuestNextClean ==
  ASSUME Reload!ReloadAssumption
  PROVE  GuestIInv /\ [Reload!Next]_(Reload!reloadVars) => GuestCleanGuests'
<1> SUFFICES ASSUME GuestIInv, [Reload!Next]_(Reload!reloadVars)
             PROVE  GuestCleanGuests'
  OBVIOUS
<1> USE DEF GuestIInv, GuestCleanGuests, GuestClean
<1>1. guests \in [Reload!Slots -> Reload!Guest] /\ call \in Reload!Call \cup {Nothing}
        /\ panics \in Nat
  BY GuestBounds DEF Reload!TypeOK
<1>2. Reload!Slots = {"shown", "fresh", "old"}
  BY DEF Reload!Slots
<1>3. call # Nothing => call.on \in Reload!Slots /\ guests[call.on] \in Reload!Guest
  BY <1>1 DEF Reload!Call
<1>4. CASE Reload!RunFrame \/ Reload!SendEvent
  <2>1. PICK k \in {"frame", "event"} : Reload!Enter("shown", k) /\ call = Nothing
          /\ UNCHANGED <<panics, overrun>>
    BY <1>4 DEF Reload!RunFrame, Reload!SendEvent, Reload!Enter
  <2>2. \A s \in Reload!Slots : guests'[s].status = guests[s].status
          /\ guests'[s].runtime = guests[s].runtime
    BY <1>1, <1>2, <2>1, GuestEnterArms DEF Reload!Enter
  <2>3. QED
    BY <2>1, <2>2
<1>5. CASE Reload!Idle
  BY <1>1, <1>5 DEF Reload!Idle, Reload!Guest
<1>6. CASE Reload!BeginSwap
  BY <1>1, <1>2, <1>6, GuestArmIsGuest DEF Reload!BeginSwap, Reload!Created
<1>7. CASE Reload!SwapRestore
  <2>1. CASE snapshot = 0
    BY <1>7, <2>1 DEF Reload!SwapRestore
  <2>2. CASE snapshot # 0
    <3>1. Reload!Enter("fresh", "restore") /\ call = Nothing /\ UNCHANGED <<panics, overrun>>
      BY <1>7, <2>2 DEF Reload!SwapRestore
    <3>2. \A s \in Reload!Slots : guests'[s].status = guests[s].status
            /\ guests'[s].runtime = guests[s].runtime
      BY <1>1, <1>2, <3>1, GuestEnterArms DEF Reload!Enter
    <3>3. QED
      BY <3>1, <3>2
  <2>3. QED
    BY <2>1, <2>2
<1>8. CASE Reload!SwapClear
  BY <1>1, <1>2, <1>8 DEF Reload!SwapClear, Reload!Guest
<1>9. CASE Reload!SwapReplace
  BY <1>1, <1>2, <1>9, GuestArmIsGuest DEF Reload!SwapReplace, Reload!Absent, Reload!Created
<1>10. CASE Reload!EndSwap
  BY <1>1, <1>2, <1>10 DEF Reload!EndSwap, Reload!Absent, Reload!Created
<1>11. CASE Reload!EnterBody
  <2>1. CASE Reload!G.runtime = "borrowed"
    BY <1>3, <1>11, <2>1 DEF Reload!EnterBody, Reload!G
  <2>2. CASE Reload!G.runtime # "borrowed"
    <3>1. /\ call # Nothing /\ UNCHANGED <<panics, overrun>>
          /\ guests' = [guests EXCEPT ![call.on] = [guests[call.on] EXCEPT !.runtime = "borrowed"]]
          /\ call' = [call EXCEPT !.at = "body"]
      BY <1>3, <1>11, <2>2 DEF Reload!EnterBody, Reload!G
    <3>2. call' # Nothing /\ call'.on = call.on /\ call'.at = "body"
      BY <1>1, <3>1 DEF Reload!Call, Reload!ReloadAssumption
    <3>3. /\ guests'[call.on].status = guests[call.on].status
          /\ \A s \in Reload!Slots : s # call.on => guests'[s] = guests[s]
      BY <1>1, <1>3, <3>1 DEF Reload!Guest
    <3>4. QED
      BY <1>1, <3>1, <3>2, <3>3
  <2>3. QED
    BY <2>1, <2>2
<1>12. CASE Reload!Work
  BY <1>12 DEF Reload!Work
<1>13. CASE Reload!HostCall
  BY <1>1, <1>3, <1>13 DEF Reload!HostCall, Reload!G, Reload!Guest
<1>14. CASE Reload!Panic \/ Reload!FrameRejected
  BY <1>1, <1>14 DEF Reload!Panic, Reload!FrameRejected
<1>15. CASE Reload!FrameReturns
  BY <1>1, <1>3, <1>15 DEF Reload!FrameReturns, Reload!G, Reload!Guest
<1>16. CASE Reload!EventReturns
  BY <1>1, <1>3, <1>16 DEF Reload!EventReturns, Reload!G, Reload!Guest
<1>17. CASE Reload!SaveReturns \/ Reload!RestoreReturns \/ Reload!DestroyReturns
  BY <1>1, <1>3, <1>17 DEF Reload!SaveReturns, Reload!RestoreReturns, Reload!DestroyReturns,
     Reload!G, Reload!Guest
<1>18. CASE UNCHANGED Reload!reloadVars
  BY <1>18 DEF Reload!reloadVars
<1>19. QED
  BY <1>4, <1>5, <1>6, <1>7, <1>8, <1>9, <1>10, <1>11, <1>12, <1>13, <1>14, <1>15, <1>16,
     <1>17, <1>18 DEF Reload!Next, Reload!Swap, Reload!GuestStep

\* The state stays where Carrying says it is, up to the guest that is shown in the end.
LEMMA GuestNextCarries ==
  ASSUME Reload!ReloadAssumption
  PROVE  GuestIInv /\ [Reload!Next]_(Reload!reloadVars) => GuestCarrying' /\ Reload!StateIsCarried'
<1> SUFFICES ASSUME GuestIInv, [Reload!Next]_(Reload!reloadVars)
             PROVE  GuestCarrying' /\ Reload!StateIsCarried'
  OBVIOUS
<1> USE DEF GuestIInv, GuestCarrying, Reload!StateIsCarried, GuestClean
<1>1. guests \in [Reload!Slots -> Reload!Guest] /\ call \in Reload!Call \cup {Nothing}
        /\ panics \in Nat
  BY GuestBounds DEF Reload!TypeOK
<1>2. Reload!Slots = {"shown", "fresh", "old"}
  BY DEF Reload!Slots
<1>3. call # Nothing => call.on \in Reload!Slots /\ guests[call.on] \in Reload!Guest
        /\ call.kind \in Reload!Kinds
  BY <1>1 DEF Reload!Call
<1>4. \A s \in Reload!Slots, k \in Reload!Kinds : [on |-> s, kind |-> k, at |-> "alloc"] # Nothing
  BY DEF Reload!ReloadAssumption, Reload!Call
<1>5. CASE Reload!RunFrame \/ Reload!SendEvent \/ Reload!Idle
  BY <1>5 DEF Reload!RunFrame, Reload!SendEvent, Reload!Idle
<1>6. CASE Reload!BeginSwap
  <2>1. "save" \in Reload!Kinds
    BY DEF Reload!Kinds
  <2>2. CASE guests["shown"].status = "Ready"
    BY <1>1, <1>2, <1>4, <1>6, <2>1, <2>2, GuestArmIsGuest DEF Reload!BeginSwap, Reload!Created
  <2>3. CASE guests["shown"].status # "Ready"
    BY <1>1, <1>2, <1>6, <2>3 DEF Reload!BeginSwap, Reload!Created, GuestCleanGuests
  <2>4. QED
    BY <2>2, <2>3
<1>7. CASE Reload!SwapRestore
  <2>1. "restore" \in Reload!Kinds
    BY DEF Reload!Kinds
  <2>2. CASE snapshot = 0
    BY <1>7, <2>2 DEF Reload!SwapRestore
  <2>3. CASE snapshot # 0
    BY <1>1, <1>2, <1>4, <1>7, <2>1, <2>3, GuestArmIsGuest DEF Reload!SwapRestore, Reload!Enter
  <2>4. QED
    BY <2>2, <2>3
<1>8. CASE Reload!SwapClear
  BY <1>1, <1>2, <1>8 DEF Reload!SwapClear, Reload!Guest
<1>9. CASE Reload!SwapReplace
  BY <1>1, <1>2, <1>9, GuestArmIsGuest DEF Reload!SwapReplace
<1>10. CASE Reload!EndSwap
  BY <1>10 DEF Reload!EndSwap
<1>11. CASE Reload!EnterBody
  <2>1. CASE Reload!G.runtime = "borrowed"
    <3>1. call # Nothing /\ call.at = "alloc" /\ Reload!Trap
          /\ UNCHANGED <<swap, snapshot, panics, overrun>>
      BY <1>11, <2>1 DEF Reload!EnterBody
    <3>2. ~GuestClean
      BY <1>3, <2>1, <3>1 DEF GuestCleanGuests, Reload!G
    <3>3. QED
      BY <1>2, <1>3, <1>1, <3>1, <3>2, GuestTrapLeaves DEF GuestCallsFit, Reload!Kinds
  <2>2. CASE Reload!G.runtime # "borrowed"
    <3>1. /\ call # Nothing /\ UNCHANGED <<swap, snapshot, panics, overrun>>
          /\ guests' = [guests EXCEPT ![call.on] = [guests[call.on] EXCEPT !.runtime = "borrowed"]]
          /\ call' = [call EXCEPT !.at = "body"]
      BY <1>3, <1>11, <2>2 DEF Reload!EnterBody, Reload!G
    <3>2. call' # Nothing
      BY <1>1, <3>1 DEF Reload!Call, Reload!ReloadAssumption
    <3>3. \A s \in Reload!Slots : guests'[s].status = guests[s].status
            /\ guests'[s].st = guests[s].st
      BY <1>1, <1>3, <3>1 DEF Reload!Guest
    <3>4. QED
      BY <1>2, <3>1, <3>2, <3>3
  <2>3. QED
    BY <2>1, <2>2
<1>12. CASE Reload!Work
  <2>1. call # Nothing /\ Reload!Trap /\ overrun' # {} /\ UNCHANGED <<swap, snapshot, panics>>
    BY <1>12 DEF Reload!Work
  <2>2. QED
    BY <1>1, <1>2, <1>3, <2>1, GuestTrapLeaves DEF GuestCallsFit, Reload!Kinds
<1>13. CASE Reload!HostCall
  BY <1>1, <1>2, <1>3, <1>13 DEF Reload!HostCall, Reload!G, Reload!Guest
<1>14. CASE Reload!Panic
  <2>1. call # Nothing /\ Reload!Trap /\ panics' # 0 /\ UNCHANGED <<swap, snapshot, overrun>>
    BY <1>1, <1>14 DEF Reload!Panic
  <2>2. QED
    BY <1>1, <1>2, <1>3, <2>1, GuestTrapLeaves DEF GuestCallsFit, Reload!Kinds
<1>15. CASE Reload!FrameRejected \/ Reload!FrameReturns \/ Reload!EventReturns
  BY <1>15 DEF Reload!FrameRejected, Reload!FrameReturns, Reload!EventReturns, GuestCallsFit
<1>16. CASE Reload!SaveReturns
  BY <1>1, <1>2, <1>3, <1>16 DEF Reload!SaveReturns, Reload!G, Reload!Guest, GuestCallsFit
<1>17. CASE Reload!RestoreReturns
  BY <1>1, <1>2, <1>3, <1>17 DEF Reload!RestoreReturns, Reload!G, Reload!Guest, GuestCallsFit
<1>18. CASE Reload!DestroyReturns
  BY <1>1, <1>2, <1>3, <1>18 DEF Reload!DestroyReturns, Reload!G, Reload!Guest, GuestCallsFit
<1>19. CASE UNCHANGED Reload!reloadVars
  BY <1>19 DEF Reload!reloadVars
<1>20. QED
  BY <1>5, <1>6, <1>7, <1>8, <1>9, <1>10, <1>11, <1>12, <1>13, <1>14, <1>15, <1>16, <1>17,
     <1>18, <1>19 DEF Reload!Next, Reload!Swap, Reload!GuestStep

\* A guest left dead by its restore is called once: that call traps and marks it.
LEMMA GuestNextFinds ==
  ASSUME Reload!ReloadAssumption
  PROVE  GuestIInv /\ [Reload!Next]_(Reload!reloadVars) => GuestFindable'
<1> SUFFICES ASSUME GuestIInv, [Reload!Next]_(Reload!reloadVars)
             PROVE  GuestFindable'
  OBVIOUS
<1> USE DEF GuestIInv, GuestFindable, GuestUntouched
<1>1. guests \in [Reload!Slots -> Reload!Guest] /\ call \in Reload!Call \cup {Nothing}
  BY DEF Reload!TypeOK
<1>2. Reload!Slots = {"shown", "fresh", "old"}
  BY DEF Reload!Slots
<1>3. call # Nothing => call.on \in Reload!Slots /\ guests[call.on] \in Reload!Guest
        /\ call.kind \in Reload!Kinds /\ call.at \in {"alloc", "body"}
  BY <1>1 DEF Reload!Call
<1>4. CASE Reload!RunFrame \/ Reload!SendEvent
  <2>1. PICK k \in {"frame", "event"} :
          Reload!Enter("shown", k) /\ swap = "no" /\ call = Nothing /\ UNCHANGED <<swap, snapshot>>
    BY <1>4 DEF Reload!RunFrame, Reload!SendEvent, Reload!Enter
  <2>2. guests'["shown"] = Reload!Arm(guests["shown"], k)
    BY <1>1, <1>2, <2>1 DEF Reload!Enter
  <2>3. /\ guests'["shown"].status = guests["shown"].status
        /\ guests'["shown"].runtime = guests["shown"].runtime
        /\ guests'["shown"].st = guests["shown"].st
        /\ guests'["shown"].frames = guests["shown"].frames
    BY <1>1, <1>2, <2>2 DEF Reload!Arm, Reload!Guest
  <2>4. QED
    BY <2>1, <2>3
<1>5. CASE Reload!Idle
  BY <1>1, <1>2, <1>5 DEF Reload!Idle, Reload!Guest
<1>6. CASE Reload!BeginSwap
  <2>1. guests'["fresh"] = [Reload!Created EXCEPT !.deadline = "none"]
    BY <1>1, <1>2, <1>6 DEF Reload!BeginSwap
  <2>2. swap' \in {"save", "replace"}
    BY <1>6 DEF Reload!BeginSwap
  <2>3. QED
    BY <2>1, <2>2 DEF Reload!Created
<1>7. CASE Reload!SwapRestore
  <2>1. CASE snapshot = 0
    BY <1>7, <2>1 DEF Reload!SwapRestore
  <2>2. CASE snapshot # 0
    <3>1. guests'["fresh"] = Reload!Arm(guests["fresh"], "restore") /\ swap' = "restore"
            /\ swap = "save" /\ snapshot' = snapshot
      BY <1>1, <1>2, <1>7, <2>2 DEF Reload!SwapRestore, Reload!Enter
    <3>2. QED
      BY <1>1, <1>2, <2>2, <3>1 DEF Reload!Arm, Reload!Guest
  <2>3. QED
    BY <2>1, <2>2
<1>8. CASE Reload!SwapClear
  BY <1>1, <1>2, <1>8 DEF Reload!SwapClear, Reload!Guest
<1>9. CASE Reload!SwapReplace
  BY <1>1, <1>2, <1>9 DEF Reload!SwapReplace
<1>10. CASE Reload!EndSwap
  BY <1>1, <1>2, <1>10 DEF Reload!EndSwap
<1>11. CASE call # Nothing /\ Reload!Trap /\ UNCHANGED <<swap, snapshot>>
  <2>1. /\ call' = Nothing /\ guests'[call.on] = Reload!TrapIn(guests[call.on])
        /\ \A r \in Reload!Slots : r # call.on => guests'[r] = guests[r]
    BY <1>1, <1>3, <1>11 DEF Reload!Trap
  <2>2. CASE call.kind = "destroy"
    BY <1>2, <1>11, <2>1, <2>2 DEF GuestCallsFit
  <2>3. CASE call.kind # "destroy"
    <3>1. /\ guests'[call.on].status = "Errored" /\ guests'[call.on].st = guests[call.on].st
          /\ guests'[call.on].frames = guests[call.on].frames
          /\ guests'[call.on].runtime = guests[call.on].runtime
      BY <1>3, <1>11, <2>1, <2>3 DEF Reload!TrapIn, Reload!Guest
    <3>2. QED
      BY <1>2, <1>3, <1>11, <2>1, <2>3, <3>1 DEF GuestCallsFit, Reload!Kinds
  <2>4. QED
    BY <2>2, <2>3
<1>12. CASE Reload!EnterBody
  <2>1. CASE Reload!Trap
    BY <1>11, <1>12, <2>1 DEF Reload!EnterBody
  <2>2. CASE ~Reload!Trap
    <3>1. /\ call # Nothing /\ UNCHANGED <<swap, snapshot>>
          /\ guests' = [guests EXCEPT ![call.on] = [guests[call.on] EXCEPT !.runtime = "borrowed"]]
          /\ call' = [call EXCEPT !.at = "body"]
      BY <1>1, <1>3, <1>12, <2>2 DEF Reload!EnterBody, Reload!G
    <3>2. call' # Nothing /\ call'.at = "body"
      BY <1>1, <3>1 DEF Reload!Call, Reload!ReloadAssumption
    <3>3. \A s \in Reload!Slots : guests'[s].st = guests[s].st
            /\ guests'[s].frames = guests[s].frames
            /\ (s # call.on => guests'[s] = guests[s])
      BY <1>1, <1>3, <3>1 DEF Reload!Guest
    <3>4. QED
      BY <1>2, <1>3, <3>1, <3>2, <3>3 DEF GuestCallsFit, Reload!Kinds
  <2>3. QED
    BY <2>1, <2>2
<1>13. CASE Reload!Work \/ Reload!Panic
  BY <1>11, <1>13 DEF Reload!Work, Reload!Panic
<1>14. CASE Reload!HostCall
  BY <1>1, <1>2, <1>3, <1>14 DEF Reload!HostCall, Reload!G, Reload!Guest
<1>15. CASE Reload!FrameRejected
  BY <1>1, <1>2, <1>3, <1>15 DEF Reload!FrameRejected, Reload!G, Reload!Guest, GuestCallsFit
<1>16. CASE Reload!FrameReturns
  <2>1. PICK st : guests' = [guests EXCEPT ![call.on] =
          [Reload!G EXCEPT !.runtime = "free", !.deadline = "cold", !.st = st,
                    !.frames = Reload!Counted(Reload!G.frames)]]
    BY <1>16 DEF Reload!FrameReturns
  <2>2. call.on = "shown" /\ swap = "no" /\ UNCHANGED <<swap, snapshot>>
    BY <1>16 DEF Reload!FrameReturns, GuestCallsFit
  <2>3. QED
    BY <1>1, <1>2, <1>16, <2>1, <2>2 DEF Reload!FrameReturns, Reload!G, Reload!Guest
<1>17. CASE Reload!EventReturns
  <2>1. call.on = "shown" /\ swap = "no" /\ UNCHANGED <<swap, snapshot>>
    BY <1>17 DEF Reload!EventReturns, GuestCallsFit
  <2>2. guests'["shown"].runtime = "free"
    BY <1>1, <1>2, <1>17, <2>1 DEF Reload!EventReturns, Reload!Guest
  <2>3. QED
    BY <2>1, <2>2
<1>18. CASE Reload!SaveReturns \/ Reload!RestoreReturns \/ Reload!DestroyReturns
  <2>1. CASE Reload!SaveReturns
    BY <1>1, <1>2, <2>1 DEF Reload!SaveReturns, GuestCallsFit
  <2>2. CASE Reload!RestoreReturns
    <3>1. call.on = "fresh" /\ swap = "restore" /\ UNCHANGED <<swap, snapshot>> /\ call' = Nothing
      BY <2>2 DEF Reload!RestoreReturns, GuestCallsFit
    <3>2. guests'["fresh"].runtime = "free" /\ guests'["fresh"].frames = guests["fresh"].frames
      BY <1>1, <1>2, <2>2, <3>1 DEF Reload!RestoreReturns, Reload!Guest
    <3>3. QED
      BY <3>1, <3>2
  <2>3. CASE Reload!DestroyReturns
    BY <1>1, <1>2, <2>3 DEF Reload!DestroyReturns, GuestCallsFit
  <2>4. QED
    BY <1>18, <2>1, <2>2, <2>3
<1>19. CASE UNCHANGED Reload!reloadVars
  BY <1>19 DEF Reload!reloadVars
<1>20. QED
  BY <1>4, <1>5, <1>6, <1>7, <1>8, <1>9, <1>10, <1>12, <1>13, <1>14, <1>15, <1>16, <1>17,
     <1>18, <1>19 DEF Reload!Next, Reload!Swap, Reload!GuestStep

\* No step breaks the invariant.
LEMMA GuestNextInv == ASSUME Reload!ReloadAssumption PROVE GuestIInv
                        /\ [Reload!Next]_(Reload!reloadVars) => GuestIInv'
BY GuestNextType, GuestNextArmed, GuestNextClean, GuestNextCarries, GuestNextFinds DEF GuestIInv

-----------------------------------------------------------------------------
(* The stations together.                                                  *)

IInv == station \in {"server", "cache", "guest"} /\ ServerInv /\ CacheIInv /\ GuestIInv

\* Every station starts within its invariant.
LEMMA InitInv == Init => IInv
<1> SUFFICES ASSUME Init PROVE IInv
  OBVIOUS
<1>1. CacheIInv
  BY LoopAssumption, CacheInitInv DEF Init
<1>2. GuestIInv
  BY LoopAssumption, GuestInitInv DEF Init
<1>3. QED
  BY <1>1, <1>2, ServerInitInv DEF Init, IInv

\* A step is one of a station, and of the others no variable changes.
LEMMA NextSteps ==
  [Next]_loopVars =>
    /\ [Server!ServerNext]_serverAll
    /\ [Cache!Next]_(Cache!cacheVars) /\ [Reload!Next]_(Reload!reloadVars)
    /\ UNCHANGED station
<1> SUFFICES ASSUME [Next]_loopVars
             PROVE  /\ [Server!ServerNext]_serverAll
                    /\ [Cache!Next]_cacheAll /\ [Reload!Next]_reloadAll
                    /\ UNCHANGED station
  BY DEF cacheAll, Cache!cacheVars, reloadAll, Reload!reloadVars
<1>1. CASE ServerStep
  BY <1>1 DEF ServerStep
<1>2. CASE CacheStep
  BY <1>2 DEF CacheStep
<1>3. CASE GuestStep
  BY <1>3 DEF GuestStep
<1>4. CASE UNCHANGED loopVars
  BY <1>4 DEF loopVars
<1>5. QED
  BY <1>1, <1>2, <1>3, <1>4 DEF Next

\* No step of any station breaks the invariant.
LEMMA NextInv == IInv /\ [Next]_loopVars => IInv'
<1> SUFFICES ASSUME IInv, [Next]_loopVars PROVE IInv'
  OBVIOUS
<1>1. /\ [Server!ServerNext]_serverAll /\ [Cache!Next]_(Cache!cacheVars)
      /\ [Reload!Next]_(Reload!reloadVars) /\ UNCHANGED station
  BY NextSteps
<1>2. ServerInv'
  BY <1>1, ServerNextInv DEF IInv
<1>3. CacheIInv'
  BY <1>1, LoopAssumption, CacheNextInv DEF IInv
<1>4. GuestIInv'
  BY <1>1, LoopAssumption, GuestNextInv DEF IInv
<1>5. QED
  BY <1>1, <1>2, <1>3, <1>4 DEF IInv

\* The invariant holds in every reachable state.
LEMMA LoopInvariant == Spec => []IInv
BY InitInv, NextInv, PTL DEF Spec

\* Of any number of crates, builds, guests, faults and reloads: what is served, cached, loaded
\* and shown has its type, and the builder is always at a crate of its list.
THEOREM LoopTypeCorrect == Spec => []TypeOK
<1>1. IInv => TypeOK
  BY DEF IInv, ServerInv, CacheIInv, GuestIInv, TypeOK
<1>2. QED
  BY <1>1, LoopInvariant, PTL

\* Unless a pair of writes was split before, a module that is loaded is the one asked for
\* (compile_cached).
THEOREM LoopCacheIsRight == Spec => []CacheIsRight
<1>1. IInv => CacheIsRight
  BY DEF IInv, CacheIInv, CacheIsRight
<1>2. QED
  BY <1>1, LoopInvariant, PTL

\* However long a plugin was idle, whatever its warm-up and its host ops, a frame that works
\* no longer than it may is never lost to the deadline (run_frame, write_to_guest, host_call).
THEOREM LoopFramesKeepBudget == Spec => []FrameKeepsItsBudget
<1>1. IInv => FrameKeepsItsBudget
  BY DEF IInv, GuestIInv, FrameKeepsItsBudget
<1>2. QED
  BY <1>1, LoopInvariant, PTL

\* The swap hands the old guest's state on, unless a guest has trapped; what a trapped guest
\* holds is never handed on (pump).
THEOREM LoopCarriesState == Spec => []StateIsCarried
<1>1. IInv => StateIsCarried
  BY DEF IInv, GuestIInv, StateIsCarried
<1>2. QED
  BY <1>1, LoopInvariant, PTL

\* A plugin that a trap left dead is not shown as Ready for longer than until its first call,
\* and only a failed restore can leave one so (call_u32, send_event, clear_error).
THEOREM LoopDeadIsFoundOut == Spec => []DeadIsFoundOut
<1>1. GuestFindable => DeadIsFoundOut
  BY DEF GuestFindable, GuestUntouched, DeadIsFoundOut, Reload!DeadIsFoundOut
<1>2. IInv => DeadIsFoundOut
  BY <1>1 DEF IInv, GuestIInv
<1>3. QED
  BY <1>2, LoopInvariant, PTL
=============================================================================
