------------------------------ MODULE DevSync -------------------------------
(***************************************************************************)
(* The dev-sync client (crates/plugin-host, devsync.rs): a thread that     *)
(* polls the index of the dev server once a second, fetches what is not    *)
(* yet confirmed, and sends it to the app over a channel.                  *)
(*                                                                         *)
(* `served` is the dev server's map as its HTTP handlers answer from it    *)
(* (plugin_cmd.rs), here only replaced entry by entry: DevServer models    *)
(* how it comes about.  One GET is one step, since a handler holds the     *)
(* map's lock while it responds; between two GETs anything may change.     *)
(***************************************************************************)
EXTENDS PluginData, Naturals, Sequences, FiniteSets, SequencesExt

CONSTANTS
  RetryPolls,  (* RETRY_POLLS                                              *)
  MaxQueue,    (* bound: updates the app lets wait in the channel          *)
  MaxBuilds    (* bound: times the server replaces an entry                *)

ASSUME SyncAssumption ==
  IsFiniteSet(Ids) /\ RetryPolls \in Nat /\ MaxQueue \in Nat /\ MaxBuilds \in Nat

VARIABLES
  served,     (* dev server: per id, the manifest and wasm served, or None *)
  builds,     (* counter of its bound                                      *)
  step,       (* poll_loop: "sleep", at an "entry", GET "wasm", GET "manifest" *)
  index,      (* entries of plugins.json still to handle: <<id, hash>>     *)
  sent,       (* poll_loop's `pending`: per id, the hash sent and polls waited *)
  channel,    (* the updates on their way to the app                       *)
  installed   (* DevSync::installed: per id, the hash confirmed, or None   *)

syncVars == <<served, builds, step, index, sent, channel, installed>>

Entry == [manifest : Manifests, wasm : Wasms]
Update == [id : Ids, hash : Wasms, manifest : Manifests]

NoHash == [i \in Ids |-> None]

SyncInit ==
  /\ served = NoHash /\ builds = 0
  /\ step = "sleep" /\ index = <<>> /\ sent = NoHash /\ channel = <<>>
  /\ installed = NoHash

\* DevSync::start: a new thread and channel, and nothing confirmed.
Start ==
  /\ step' = "sleep" /\ index' = <<>> /\ sent' = NoHash /\ channel' = <<>>
  /\ installed' = NoHash
  /\ UNCHANGED <<served, builds>>

-----------------------------------------------------------------------------
(* The dev server.                                                         *)

Build(m, w) ==
  /\ builds < MaxBuilds /\ builds' = builds + 1
  /\ served' = [served EXCEPT ![IdOf[m]] = [manifest |-> m, wasm |-> w]]
  /\ UNCHANGED <<step, index, sent, channel, installed>>

-----------------------------------------------------------------------------
(* poll_once.                                                              *)

\* GET /plugins.json.  The server lists a HashMap: the order is arbitrary.
PollIndex ==
  /\ step = "sleep"
  /\ step' = "entry"
  /\ \E order \in SetToSeqs({i \in Ids : served[i] # None}) :
       index' = [n \in DOMAIN order |-> <<order[n], served[order[n]].wasm>>]
  /\ UNCHANGED <<served, builds, sent, channel, installed>>

EntryId == Head(index)[1]
EntryHash == Head(index)[2]

NextEntry == index' = Tail(index) /\ step' = "entry"

SkipConfirmed ==
  /\ step = "entry" /\ index # <<>>
  /\ installed[EntryId] = EntryHash
  /\ sent' = [sent EXCEPT ![EntryId] = None]
  /\ NextEntry
  /\ UNCHANGED <<served, builds, channel, installed>>

\* This hash was sent and the app has still some polls to confirm it.
Awaited(i, hash) == sent[i] # None /\ sent[i].hash = hash /\ sent[i].waited < RetryPolls

\* Mutant: the polls waited are not counted, so nothing is ever sent again.
HoldOffForever ==
  /\ step = "entry" /\ index # <<>>
  /\ installed[EntryId] # EntryHash /\ Awaited(EntryId, EntryHash)
  /\ NextEntry
  /\ UNCHANGED <<served, builds, sent, channel, installed>>

HoldOff ==
  /\ step = "entry" /\ index # <<>>
  /\ installed[EntryId] # EntryHash /\ Awaited(EntryId, EntryHash)
  /\ sent' = [sent EXCEPT ![EntryId].waited = @ + 1]
  /\ NextEntry
  /\ UNCHANGED <<served, builds, channel, installed>>

BeginFetch ==
  /\ step = "entry" /\ index # <<>>
  /\ installed[EntryId] # EntryHash /\ ~Awaited(EntryId, EntryHash)
  /\ step' = "wasm"
  /\ UNCHANGED <<served, builds, index, sent, channel, installed>>

\* What is served by now may not have the hash of the index: then wait for another poll.
FetchWasm ==
  /\ step = "wasm"
  /\ IF served[EntryId].wasm = EntryHash
     THEN step' = "manifest" /\ UNCHANGED index
     ELSE NextEntry
  /\ UNCHANGED <<served, builds, sent, channel, installed>>

FetchManifest ==
  /\ step = "manifest" /\ Len(channel) < MaxQueue
  /\ sent' = [sent EXCEPT ![EntryId] = [hash |-> EntryHash, waited |-> 0]]
  /\ channel' = Append(channel, [id |-> EntryId, hash |-> EntryHash,
                                 manifest |-> served[EntryId].manifest])
  /\ NextEntry
  /\ UNCHANGED <<served, builds, installed>>

\* An error of either GET (`?`) gives up the rest of the index.
FetchFails ==
  /\ step \in {"wasm", "manifest"}
  /\ step' = "sleep" /\ index' = <<>>
  /\ UNCHANGED <<served, builds, sent, channel, installed>>

EndPoll ==
  /\ step = "entry" /\ index = <<>>
  /\ step' = "sleep"
  /\ UNCHANGED <<served, builds, index, sent, channel, installed>>

PollOwn == PollIndex \/ SkipConfirmed \/ HoldOff \/ BeginFetch \/ EndPoll

PollStep == PollOwn \/ FetchWasm \/ FetchManifest \/ FetchFails

-----------------------------------------------------------------------------
(* The app's end, called on its UI thread.                                 *)

Receive == channel # <<>> /\ channel' = Tail(channel)

MarkInstalled(tag) == installed' = [installed EXCEPT ![tag[1]] = tag[2]]
=============================================================================
