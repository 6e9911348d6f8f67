# TLA+ models of EguiMobile

EguiMobile runs egui apps on iOS and Android. These modules model the parts of
it where several threads, processes, a network or a file system meet, or where a
long sequence of legal calls decides what is right: the host of WebAssembly
plugins (loaded, hot-reloaded while they run, pushed from a developer's machine,
given network handles), the Android keyboard bridge, the capture of traffic
through Android's VPN service, and the modal engine of the editor plugin. They
are written from the source, TLC checks them on small instances, and TLAPS
proves what matters most of them for any size.

Paths below are relative to `crates/` unless they say otherwise.

## 1. Inventory

### The parts that are modelled

**Plugin manager** (`plugin-host/src/manager.rs`). Keeps the loaded plugins,
the list `pending` of loads in flight, the errors shown, and the GPU keys of
replaced instances. Operations: `scan`, `reload_at`, `install_bytes`,
`poll_devsync`, `pump`. All run on the UI thread. It hands jobs to the loader
through a channel and takes results back through another one in `pump`, once a
frame. Right when: `pending` mirrors what is in flight, the newest files are
what runs, state survives a reload, and nothing waits for an input that never
comes.

**Loader thread** (`plugin-host/src/loader.rs`). Takes one job at a time;
an install writes `manifest.toml`, then `plugin.wasm`; then the pair on disk is
loaded. Hard: the app can be killed, and a write fail, between any two steps.

**Dev-sync client** (`plugin-host/src/devsync.rs`). A thread that polls the
index of the dev server every second, fetches what is not confirmed, sends it
to the UI thread, and holds off resends for some polls. Right when a push is
confirmed only if it runs, and every build gets there in the end.

**Manager panel** (`plugin-host/src/manager_ui.rs`). `tick` calls `pump`,
then `poll_devsync`; the panel connects, disconnects, rescans, reloads,
enables. It decides when another frame is asked for.

**Dev server** (`cargo-egui-ios/src/plugin_cmd.rs`). A builder thread builds
each crate once, then watches their trees; handlers serve the map of builds.
Hard: saves made during a build.

**Guest calls and hot reload** (`plugin-host/src/plugin.rs`, `engine.rs`,
`plugin-sdk/src/lib.rs`). Each call into a guest runs under an epoch deadline;
a trap does not unwind the guest, so its `RefCell` stays borrowed. A swap saves
the old guest, restores into the new one, replaces and destroys.

**Compile cache** (`plugin-host/src/plugin.rs`, `compile_cached`). An artifact
and its key, in two files.

**Network handles** (`plugin-host/src/net_ops.rs`, `net_ops/tcp.rs`,
`net_ops/ssh.rs`). A plugin opens a handle and polls it; a thread per handle
talks to the peer. They share a state, a buffer, a stop flag or a command
channel. Right when nothing is lost, repeated or reordered up to the end, the
end is told, and threads end when their handle is gone.

**Keyboard bridge** (`egui-android/src/ime_bridge.rs`, `egui-android/src/lib.rs`,
`egui-mobile-core/src/ime.rs`, and `EguiImeBridge.java`,
`EguiNativeActivity.java`). The keyboard edits a hidden `EditText` on Android's UI
thread; events go through a queue to the render thread, which applies them to
egui's field a frame at a time and posts the field's text and caret back. Hard:
the EditText changes before its event is queued, pushes land between calls of
the keyboard, the application edits the field. Right when plain typing comes out
exactly, the two texts come together, and a session ends without leaving
anything to the next field.

**VPN capture** (`egui-android/src/vpn.rs`, `EguiVpnService.java`, and the
controller in `examples/privaxy-android/src/vpn/`, `app.rs`). The app asks for
consent, starts the service, takes the tun's descriptor from a queue of
callbacks, runs a relay on it. Hard: starts, stops, settings, revocations and
deadlines cross the answers. Right when app and service agree whether traffic is
captured, descriptors are closed, and a start ends.

**Editor engine** (`plugins/rvim/src/vim.rs`, `buffer.rs`, `state.rs`, `lib.rs`).
Keys with counts, operators and awaited second keys; insert sessions; undo
groups; dot-repeat and macros, which feed keys back into the engine; a tap
changes the window at any moment. Right when a command is one undo step, an
unmodified buffer is its file, and replays come back.

### The parts that are not

- *Viewport and GPU textures* (`plugin-host/src/viewport.rs`, `paint.rs`):
  textures travel to the GPU in paint callbacks. What matters there, whether a
  frame is painted or thrown away, is decided in egui, wgpu and the system.
- *Host-call dispatch and `state.get`/`state.set`* (`plugin.rs`): HotReload
  models the time of a host op, not its effect; a host op is one synchronous
  read or write of a file of the plugin's own.
- *App host and request queue* (`egui-mobile-core/src/host.rs`): a queue that one
  thread fills and drains. *Keyboard latch, gestures, overflow, magnifier*
  (`egui-mobile-core`): state machines over touches and pixel geometry on one
  thread.
- *Chunked transfers* (`egui-mobile-core/src/chunked.rs`): a small pure
  algorithm with tests at its boundaries.
- *Video* (`egui-android`): the platform's decoder decides what happens.
- *Plugin ABI*: data types and encodings, with round-trip tests. *iOS host,
  EguiKit*: FFI and view code on one thread. *Command-line tools*: sequential
  scripts around cargo, xcrun and adb, but for the dev server. *local-\* crates*:
  numeric pipelines. *The other plugins and examples*: views on one thread.
  `patches` and generated bindings: third-party code, which is most of the
  repository's lines; the models reach a small part of the whole for that reason.

`PROJECT.json` lists them with their sources, and the hazards of the code line
by line.

## 2. Modules

| module | models | composed from |
|---|---|---|
| `PluginData` | ids, manifests, modules, tags | |
| `PluginManager` | manager and loader thread | `PluginData` |
| `DevSync` | the poller, and the server as it answers | `PluginData` |
| `PluginHost` | an app: manager, poller and the frame that ties them | `PluginManager`, `DevSync` |
| `DevServer` | the builder thread of `plugin serve` | |
| `HotReload` | calls into the old and new guest of one plugin | |
| `CompileCache` | `compile_cached` | |
| `NetHandle` | abstract: what every polled handle promises | |
| `TcpConnection`, `UdpListener`, `SshSession` | a handle, its thread, its peer; each implements `NetHandle` | `NetHandle` |
| `HttpRequests` | requests and their slots | |
| `NetHub` | the hub: all four kinds | the four kinds |
| `DevLoop` | what a saved file passes besides the plugin host: server, cache, guest | `DevServer`, `CompileCache`, `HotReload` |
| `ImeBridge` | EditText, event queue, the frame that applies and pushes | |
| `VpnCapture` | controller, consent, service, callbacks, relays | |
| `UndoHistory` | abstract: what the undo of an editor promises | |
| `TextBuffer` | the text of a file with its undo and redo stacks and its group | |
| `VimEngine` | the modal engine over two buffers; its steps are steps of `UndoHistory` | `TextBuffer`, `UndoHistory` |
| `PluginManager_proofs`, `PluginHost_proofs`, `DevLoop_proofs`, `NetHub_proofs`, `VpnCapture_proofs`, `VimEngine_proofs`, `ImeBridge_proofs` | theorems | the modules of these names |
| `ImeExact_proofs` | theorem: plain typing is mirrored exactly | `ImeBridge_proofs` |
| `MC*` | instances for TLC | |

### How state and actions correspond to the code

*PluginManager.* `pending`, `jobs`, `done` are the list and the two channels;
`loading` is the job in `run_job` and its next step; `disk` is the plugins
directory; `inst` is `plugins`, as a function from directories because there is
one entry per directory. `ui` is where the UI thread is: `Tick` begins a frame
if `repaint` is outstanding, `PumpDone` is one round of `pump`'s loop,
`PumpEnd` its end with the repaint requests. `Scan` queues the directories in
any order (`read_dir`). `Restart` is a kill by the system: only `disk` stays,
and a file that was being written may be torn. A manifest and a module are
opaque; `Loadable` says which pairs `LoadedPlugin::load` accepts. `owed` is a
history variable and no part of the code: per directory, the package last
installed to it, for `NewestInstallRuns`.

*DevSync.* `step` says which GET of `poll_once` is next; each GET is a step, so
the server's map can change between the index, the wasm and the manifest.
`sent` is its local `pending` map, `installed` the confirmations. `Start` is a
new `DevSync`.

*PluginHost.* Its actions are those of the two modules, with `mark_installed`
in `HostPumpDone` and `poll_devsync` after `pump` while connected.

*DevServer.* A build reads the manifest first and the code later
(`ReadManifest`, `CargoBuild`, `FinishBuild`); a `Save` may fall anywhere.

*HotReload.* Three guests: the one shown, its fresh replacement, the one
replaced. `Enter` arms the deadline and allocates, `GuestStep` is what the
guest does in the call (work for a short or a long stretch, call the host,
panic, return). Time is the budget left: none, a frame, a cold call.

*CompileCache.* `call` is the step `compile_cached` is at; a write can fail and
leave the file as it was or torn; `Kill` may come anywhere, `Update` brings an
engine that refuses the old artifact.

*Network.* `pc` is where the handle's thread is; the ops are actions of the UI
thread, except a TCP send, which is two steps because it may block. What
arrives is numbered, so order and loss show. Buffers are counted in chunks,
messages or datagrams. In `SshSession`, `cmds` is the command channel and
`handed` what the connection's own task (russh, external) has not sent yet.

*DevLoop.* Server, cache and guest share nothing but the build handed on, so a
behaviour is that of one station; the state space is the sum of the three. The
plugin host itself, which stands between server and cache, is `PluginHost`.

*ImeBridge.* The UI thread's part is two steps per call of the keyboard: the
EditText changes (`edit`), then the event is queued (`late` to `queue`), since
Rust reads the text without a lock in between. `RunPosted` runs what
`runOnUiThread` was given. A frame is two steps: `Drain` takes the queue and
turns it into egui's events as `drain_ime` does, with its preedit, carry, word
and selection bookkeeping, and `Show` is the pass in which egui's TextEdit
applies them (external, as far as the bridge relies on it: text, selection,
undoer), the application edits, and the adapter seeds, pushes and tears down.
`Age` is the `stable_time` of egui's undoer, by which the bridge tells settled
text. A tap is modelled by the caret it sets.

*VpnCapture.* A start is a number and so is its tun, so that a descriptor of an
old start is told from that of a new one. `User` is what the app's buttons and
settings call. A frame is one `poll` with the checks of `app.rs` around it, in
their order: `PollBegins` looks at the proxy and the dialog's answer,
`PollEvent` takes one callback, `PollEnds`, once none is left, looks at the
relay's reason and the deadline. `polling` says that one is under way; the
service, the binder thread and the relays go on meanwhile, the user, who is on
the render thread, does not. `Deliver` is Android delivering the next intent to the service,
which may be refused or lost; `OnRevoke` is the binder thread. A relay is told to
stop (`draining`) and ends later.

*VimEngine.* A key is a step (`Press`). A replay is a frame of `calls` and takes
a step per key, because the code is a recursion of `handle_key`: the stack has
room for `StackSize` replays, and `trapped` is the guest's stack overflow. The
operations that stand for their kind are append (insert session), `x` (edit with
a count), `cc` (operator), `f` (awaited key, may fail), undo and redo, dot,
record, play and `:w`. A buffer is one line.

## 3. Runs

| run | what it asks | bounds |
|---|---|---|
| `manager` | types; `pending` is the pipeline; what runs is what is on disk, and the newest install; pending drains | 2 directories, 2 ids, 2 modules, 2 requests, 1 fault, 1 kill |
| `host` | no push twice in flight; a confirmed push runs | 2 directories, 2 builds, 1 request |
| `host_live` | every build is installed and confirmed | 1 directory, 2 builds, 1 fault, 1 restart |
| `network` | the properties of the four kinds of handle | buffers of 2, 4 chunks, 3 datagrams for 2 listeners, 3 requests, 3 messages of SSH; see `MCNetHub.cfg` |
| `dev_loop` | a watched save is served, a broken crate delays no other; the cache runs what was asked; budgets, state, dead guests | 2 crates, 2 saves; 3 modules, 1 update, 3 faults; 2 reloads, 2 panics |
| `ime` | plain typing is exact; the session follows the keyboard; the texts come together | 2 letters, texts of 2 (3 while typing), 3 calls of the keyboard or moves of others, 1 of these a move |
| `vpn` | app and service agree; tuns are given back; a start ends | 2 starts, 3 acts of user and system, 1 fault |
| `vim` | commands are undo steps; unmodified is saved; macros are bounded | 7 keys, 1 tap, 3 nested replays, lines of 3, 2 undo steps |
| `restore_trap`, `stale_artifact`, `ime_cleared`, `vim_dot` | one sentence of the repository each, which the code does not keep | |

Each passing run takes from seconds to about two minutes; the largest are `vim`
with 1.3 million states and `ime` and `host` with about 700,000.

Why the bounds are enough. Two directories give every relation between a load
and another directory's plugin; two modules tell an old build from a new one;
two requests put two loads of one directory in flight behind each other, and
with a push there are three. Buffers of two items overflow, drop and keep
order. Two listeners compete for a port. With three requests one is cancelled,
one is running and one gets a new id while the first one's result is late. With
two starts an answer of the first can meet the second, and every act that
separates them leaves room for one more; one fault is each refusal at each
place. Seven keys record, end and play a macro that calls itself, or make a
change, repeat it, undo, redo and save; undo stacks of two overflow. Three calls
of the keyboard compose, alter and delete, and with one of them replaced by a
tap or an edit of the application, every pair of calls has one in between.

The kinds of network handle share only the counter of ids and are kept in maps
of their own, so `NetHub` takes one kind per behaviour: the state space is the
sum of the kinds and not their product.

`host` and `host_live` divide the work of one model: the safety properties need
two directories, liveness needs faults and restarts. Liveness with both a
request of the user and a fault (MaxWork = MaxFaults = 1, MaxCrashes = 0) also
holds; that instance has 806,000 states and is not kept as a run.

Four properties carry an exception the code makes true. `NewestInstallRuns` says
nothing of a directory whose work ended in a refusal (a write or a load failed, or
the id runs elsewhere) until the next install: the files may then be a mixed pair,
which a later reload loads. `ServiceAgrees` leaves
out behaviours in which a capture was started while an earlier start was
unanswered (`crossed`, see below). `ImeConverges` allows the case of the
`ime_cleared` run. `UndoStepsAreCommands` leaves out a buffer that a tap has left
in the middle of an insert session (`Strayed`).

### Disagreements the runs show

Four runs each check one sentence of the repository that the code does not
keep; `PROJECT.json` quotes them under "findings".

- `restore_trap`: a restore that traps leaves a plugin that looks ready and
  traps at every frame.
- `stale_artifact`: a kill between the cache's two writes lets another module's
  artifact run.
- `ime_cleared`: a field the application clears before the typed text has
  settled leaves the EditText with that text.
- `vim_dot`: a dot typed after a count becomes the change it repeats, and the
  next one recurses until the guest's stack is gone.

### Seen while modelling

These have no run.

*Plugin host.* An in-place reload skips the duplicate-id check a new directory
gets (`manager.rs:224` against 241-242). A save of the manifest alone is never
pushed, since the poller compares the hash of the wasm (`devsync.rs:137` against
`PLUGINS.md:100-101`). `tcp.send` writes on the UI thread and waits for a peer
that does not read (`tcp.rs:115` against `tcp.rs:5-6`). A push may pair the wasm of
one build with the manifest of the next (`devsync.rs:153-158`); a plugin that
can never be fetched may hold up others (`devsync.rs:152`,
`plugin_cmd.rs:306-307`); a save made during the initial builds is never seen
(`plugin_cmd.rs:370-373`); `index_of` may name a disabled or errored plugin,
unlike its comment (`manager.rs:273`); a failed push overwrites the files of a
plugin that works, which then is gone at the next launch (`PLUGINS.md:229-230`);
a host op arms the last frame's deadline within an event or a restore
(`plugin.rs:550`); the first UDP poll may not yet tell that the port is taken
(`tcp.rs:146`, `PLUGINS.md:208`); when no thread can be spawned, the slot of the
request stays pending (`net_ops.rs:81`); authentication of SSH is bounded by an
hour, not by `CONNECT_TIMEOUT_SECS` (`ssh.rs:24`), and the server's Eof drops
queued writes (`ssh.rs:251`); the selected row is an index into a list that a
load sorts (`manager_ui.rs:152`); texture deltas in a paint callback are lost
with a frame that is not painted (`viewport.rs:120`).

*Keyboard bridge.* `getImeTextIfSettled` answers while a call has changed the
EditText and not yet queued its event; `mirrorDeleteInComposition` accepts a
backspace with the caret behind the composing word (`EguiNativeActivity.java:576`):
it deletes the character behind the word, leaves the span and sends the whole
word again, so that egui's field keeps that character until the resync; a weak selection is dropped in a batch with text;
`region_in_selection` takes egui's own composition for a selection of the user,
and `sync_caret_to_ime` takes commit and compose in one batch for a tap;
`NEEDS_RESEED` is not taken while a push is forced; a caret pushed late may land
in newer text. The texts still come together, which is what `ImeConverges` says.

*VPN.* A restart of the capture while the first start is unanswered: the service's
`stopped` of the restart meets the second session, and app and service disagree
(`vpn/mod.rs:300-302` says that it cannot). A reason left by an old session's
relay can fail a start made in the same frame; a service whose `goForeground` is
always refused loops; a consent given to a dialog nobody waits for stays in its
latch; `fail` leaves the notification when the app does not keep itself in the
foreground; after a revocation whose relay error is polled first, `foreground`
stays set and `keep_alive` does nothing (`app.rs:708`).

*Editor.* A tap during an insert session leaves the other buffer's undo group open
(`lib.rs:235`); `repeat_last` clears `replaying` also when it was called by
another replay (`vim.rs:588`); a replay goes on after a find that failed;
`keybuf_version` is compared across buffers.

## 4. Fairness

- *Frames.* egui runs a pass after each input and each repaint request:
  `WF(Tick)` with `repaint` set where the code asks for one. `pump` asks while
  work is pending, `tick` once a second while connected.
- *Threads.* The loader, the builder and the handles' threads run (`WF`). TCP
  connects and reads, and UDP reads, have timeouts; name resolution is taken to
  end. ureq's timeout bounds an HTTP request.
- *Poller.* It sleeps a second between polls, so the UI thread does find the
  channel empty: `SF(PollEnd)`. The network does not fail for ever:
  `SF(FetchWasm)`, `SF(FetchManifest)`.
- *SSH.* Every await ends or time passes in it. `select!` picks a ready branch
  at random, so a command that waits is taken: `SF(TakeCommand)`. A server that
  keeps talking but never grants window is left out.
- *Keyboard bridge.* Frames go on: a queued event wakes the loop and a 100 ms
  backstop does while the keyboard is up (`egui-android/src/lib.rs`); the UI
  thread finishes its call and runs what is posted to it; and `stable_time`
  passes. Nothing is assumed of the keyboard, the taps and the application.
- *VPN.* A frame at least every 500 ms (`app.rs:854`); Android delivers what it was
  sent, which may be lost by a fault; a relay that is told to stop, or whose
  interface is gone, ends; the deadline of 15 s passes.
- *Editor.* None: one call of the guest at a time, safety only.
- Nothing is assumed of peers, users, saves or faults.

## 5. Proofs

TLAPS checks these for every value of the constants, from the constants'
assumptions (named in the modules; TLC evaluates them on every run) and nothing
else.

*PluginManager* (`PluginManager_proofs`). `ManagerTypeCorrect`,
`PendingIsThePipeline`, `RunsTheFilesOnDisk` and `NewestInstallIsRun` state `TypeOK`,
`PendingIsPipeline`, `RunsWhatIsOnDisk` and `NewestInstallRuns` as theorems of
`Spec`. None is inductive alone:

- `TypeOK` needs that a job with a file still to write carries an install
  (`InstallInHand`), and that what `pump` removes is an entry of the list;
- `PendingIsPipeline` is what makes `pump`'s removal right: channels and loader
  are FIFO, so the first entry of the directory is the head;
- `RunsWhatIsOnDisk` looks at a directory when no work is in flight; the
  invariant `Settled` says of the last finished load of a directory that nobody
  still writes that its result is what the files hold, before `pump` has
  applied it;
- `NewestInstallRuns` speaks of the end of the work; `Owing` says where the
  package last installed to a directory is until then: in the queue with
  no newer one behind it, half or wholly written by the loader (`WrittenSoFar`),
  in the last finished load, or running. `owed` is a history variable, which the
  code does not have: it names that package and is dropped when the work of the
  directory ends in a refusal.

The invariant is the conjunction; each action has its step. Lemmas about
sequences (what `WorksOf` does to a concatenation, what `Forget` removes) carry
most of the weight.

*PluginHost* (`PluginHost_proofs`). `PushesAreNotRepeated` and
`ConfirmedPushesRun`. The invariant `HostIInv` is the manager's invariant, the
types of the poller (`SyncOK`), that a push in the pipeline has its manifest and
module together (`PushesAreWhole`), and `NoPushTwiceInFlight`. A step of the host is
a step of the manager, the queueing of one push, or neither (`ManagerSteps`,
`SyncSteps`), so that the manager's proof is used and not repeated.

*DevLoop* (`DevLoop_proofs`). `LoopTypeCorrect`, `LoopCacheIsRight`,
`LoopFramesKeepBudget`, `LoopCarriesState`, `LoopDeadIsFoundOut`. One station
moves per step, so each has its invariant and its lemma, stated of the module as
`DevLoop` instantiates it. A hit of the cache is right because a matching key
vouches for the artifact (`KeyVouches`), which holds unless a pair of writes was
split, and between the two writes the artifact is the one just written
(`BetweenWrites`). A guest keeps its frame budget because the deadline is armed at
each entry and a host op gives a whole frame again. That a dead guest is found
out needs that the swap is the only place where an error is cleared, and what the
guest that was restored is while the swap goes on (`GuestFindable`).

*NetHub* (`NetHub_proofs`). `HubTypeCorrect`, and of each kind of handle what
the plugin relies on. The same plan: an invariant per kind (`TcpIInv`, `UdpIInv`,
`HttpIInv`, `SshIInv`), and a step of the hub is a step of one of them
(`NextSteps`).

- `ToldReadyCanSend`, `ToldClosedHasAll`, `RequestsGetTheirAnswers`,
  `LateResultsAreDropped`: the thread publishes the clone before the state and the
  last data before the end; a slot that was removed is not made again.
- `TcpIsAHandle`, `UdpListenersAreHandles`, `SshIsAHandle`: each implements
  `NetHandle`. The initial states map to initial states and every step to a step
  or a stutter. There is a mapping per listener, and a step of another listener
  stutters; SSH maps the loss of the oldest output to the one
  `NetHandle` allows.
- `CloseIsBehindWrites`: the writes form one sequence along the session: what was
  taken, what the connection's task holds, the write being sent, and those in the
  channel, in that order, are 1 to `accepted` (`SshIInv`). A close is the
  last command, so nothing is left in the channel when it is taken.

*VpnCapture* (`VpnCapture_proofs`). `VpnTypeCorrect` and `VpnServiceAgrees`, which
speaks of moments when nothing is under way. The invariant says what is under
way when app and service do not agree:

- while Running, the service has the tun or a `stopped` waits in the queue
  (`EndIsTold`);
- a tun that nobody runs a relay on has a stop still to be delivered, or is that of
  the start which is waited for (`OneStart`, for behaviours in which no start
  crossed another);
- an open descriptor is that of the relay, of a relay that drains, or of a
  callback not yet polled (`TunsAreHeld`), and starts have numbers not used before
  (`StartsAreNew`).

The controller's operations are composed of one another (a restart is a stop
and a start, a failure tears down and releases), so the invariant is one of the
controller as a record (`Good`), each operation has its lemma (`FailGood`,
`StartCaptureGood`, ...), and an action is the composition of a few.

*VimEngine* (`VimEngine_proofs`). `VimTypeCorrect`, `UnmodifiedIsSaved`,
`MacrosComeBack` and `CommandsAreUndoSteps`, for every cap of the undo stack and
every count, so undo and redo are written as what the loop of `do_undo` comes to
(`UndoTimes`: through the top k snapshots) and not as the loop. The proof goes
from the buffer to the key to the replay:

- each operation on a buffer keeps `Good` (stacks within the cap, a group that has
  not changed the text has the present text as its snapshot), moves the version only
  on and with the text (`Later`), and makes of the history one of five things
  (`Same`, `Recorded`, `Amended`, `Undone`, `Redone`). The last two say that a jump
  of k steps is a move along the line past, present, future: `UndoTimesIs` and
  `RedoTimesIs` compare the two index by index;
- each operation of the engine is a `Reply`: typed, with a buffer made of those
  operations, the group open exactly in insert mode if it was so before, and a replay
  only if it has room. `KeyReplies` collects them over the modes;
- `IInv` adds what outlives a key: an unmodified buffer is the file (`Shown`), at
  most `MaxReplayDepth` frames are macros while an overflow takes more frames than
  that (`CallsOK`), and before the first tap no group is open in a window that is
  not being typed into. `UndoStepsAreCommands` needs the last: what a tap leaves
  open is no longer a step of a command.

`MacrosComeBack` rests on the assumption that the stack has room for more frames than
`MaxReplayDepth` (`VimAssumption`), which is 16 in the code (`vim.rs:139`).

*ImeBridge* (`ImeBridge_proofs`). `ImeTypeCorrect` and `KeyboardFollowsSession`, for
every alphabet, length of text and number of calls.

- A batch and a frame fold over a queue. Both folds are recursive functions, and what
  holds of them is an induction over the numbers up to the length of one queue,
  which `UpToN` reduces to the least number that fails (`LeastNumber`). `Folded`
  says once what every fold here keeps; `ApplyBatchIs` and `ShownIs` apply it.
- `ImeTypeOK` needs the types of every event, post and input (`TypeInv`), that a DEL
  in a word leaves a span that still lies in the text, and that a batch that ends by a
  resync pushes a settled text and not `None`, which holds because only a
  region that a settled text contradicts ends one.
- `SessionFollowsKeyboard` speaks of moments when nothing is posted. The invariant
  `Session` says what may be on its way at others: without a session the keyboard is
  down and no show is posted; with one it is up or just dismissed and neither show nor
  hide is posted, or it is down and its one show is posted with no hide behind it. A
  keyboard that is down has queued nothing (`Silent`). A frame keeps the session,
  or opens it and posts the show (`Up`, `Down`, `Sends`).

*ImeBridge, the texts* (`ImeExact_proofs`). `TypingIsMirrored` states
`PlainTypingIsExact`, which speaks of moments when nothing is on its way. The
invariant (`Exact`) says what is on its way at others: a run of typing that starts at
the field and ends at the EditText.

- Every ordinary call of the keyboard changes the EditText in one of five ways that its
  event names (`Types`: a word committed or composed, a composition ended, characters
  deleted around the spot, a span deleted), and the EditText keeps its caret at the end
  of what it composes (`Lines`, `TypeTypes`).
- A field is read as a text of the EditText by the bridge's preedit (`Image`), if what
  the preedit says is selected, or nothing is (`Fit`). What egui makes of one input is
  then what the event behind it made of the EditText (`TakeComposed`, `TakeCommitted`,
  `TakeThinned`, `TakeStruck`).
- A batch under way has staged inputs that lead the field to some text, from which the
  events it has put off lead to where the applied ones do (`Along`). Each event goes
  along (`AlongOn`): a deletion is put off once text is staged, because egui's
  selection is then not yet where the deletion is.
- Put together (`Path`): from the field through what is staged, then from its image
  through the carry, the queue and the running call's events. The end is the
  EditText, but for a composition that a posted caret is about to end (`Ends`), and
  a posted push holds what the EditText has already (`Tells`): a settled text is
  pushed only where a call has run ahead of it, which `plain` excludes.

Model-checked only: all liveness, which is out of the prover's reach.

## 6. Left out of the modelled parts

*Plugin host.* The order of the plugin list and the selected row, GPU keys, the
log and settings files; which directory name an id is sanitized to (a function
given by `SafeDir`; two ids may share one); poisoned locks; memory limits of a
guest; the dev server's limit of connections, scaffolding and store publishing;
HTTP bodies and their truncation at 32 MiB.

*Keyboard bridge.* Batch edits and `replaceText`, newlines committed as Enter, a
second field and the switch to it, holding and blurring by the actions bar,
password fields and restarts for another kind of field, pause and resume.

*VPN.* The relay's forwarding of packets, permissions to post notifications, the
certificate pages of the app.

*Editor.* Visual modes, the other operators, motions and text objects, registers
and paste, search, commands other than `:w`, finder and explorer, block insert,
marks, buffers of several lines.

## 7. Plan

1. A second field in `ImeBridge`, with the switch between them and pause and
   resume; then batch edits.
2. Visual modes and registers in `VimEngine`.
3. The state files of plugins, and the viewport's textures against a renderer
   that may skip a frame.
