----------------------------- MODULE HotReload ------------------------------
(***************************************************************************)
(* The life of a guest and its replacement (crates/plugin-host, plugin.rs  *)
(* and the swap in manager.rs; crates/plugin-sdk, module rt).              *)
(*                                                                         *)
(* The UI thread calls into the guest: a frame, an event, save, restore,   *)
(* destroy.  Every call first arms the epoch deadline, allocates a buffer  *)
(* in the guest and enters it.  The SDK keeps the plugin in a RefCell,     *)
(* RUNTIME, borrowed for the length of the call; a trap does not unwind,   *)
(* so it leaves RUNTIME borrowed.  The guest may call the host, whose time *)
(* is not charged to it: host_call arms the deadline again.                *)
(*                                                                         *)
(* Time is abstract.  A guest may work for a "frame" or a "cold" stretch   *)
(* (FRAME_ and COLD_DEADLINE_TICKS) since the deadline was armed, and      *)
(* "none" stands for a deadline long passed while the guest was idle.      *)
(***************************************************************************)
EXTENDS Naturals

CONSTANTS
  WarmupFrames,  (* WARMUP_FRAMES                                          *)
  MaxUse,        (* bound: changes of a plugin's state by its user         *)
  MaxFaults,     (* bound: panics of a guest                               *)
  MaxReloads,    (* bound: hot reloads                                     *)
  NoCall         (* no call into a guest is in progress                    *)

VARIABLES
  guests,    (* per slot: the plugin shown, its fresh copy, the one replaced *)
  call,      (* the call into a guest in progress                          *)
  swap,      (* where pump is in replacing the plugin                      *)
  snapshot,  (* the bytes save_state returned (0: none)                    *)
  reloads, faults,  (* counters of the bounds                              *)
  overrun    (* history: kinds of calls a guest lost to its deadline       *)

reloadVars == <<guests, call, swap, snapshot, reloads, faults, overrun>>

Slots == {"shown", "fresh", "old"}
Kinds == {"frame", "event", "save", "restore", "destroy"}
Budget == {"none", "frame", "cold"}

Call == [on : Slots, kind : Kinds, at : {"alloc", "body"}]

ReloadAssumption ==
  /\ {WarmupFrames, MaxUse, MaxFaults, MaxReloads} \subseteq Nat
  /\ NoCall \notin Call

Guest == [status : {"Ready", "Errored"}, present : BOOLEAN,
          runtime : {"free", "borrowed", "taken"},
          deadline : Budget, frameDeadline : {"frame", "cold"},
          frames : 0..WarmupFrames, st : 0..MaxUse]

\* Every variable has its type; no more than WARMUP_FRAMES frames are counted (run_frame).
TypeOK ==
  /\ guests \in [Slots -> Guest]
  /\ call \in Call \cup {NoCall}
  /\ swap \in {"no", "save", "restore", "replace", "destroy"}
  /\ snapshot \in 0..MaxUse
  /\ reloads \in 0..MaxReloads /\ faults \in 0..MaxFaults
  /\ overrun \subseteq Kinds

\* A guest that plugin_create has made: from_parts gives it the cold deadline throughout.
Created == [status |-> "Ready", present |-> TRUE, runtime |-> "free", deadline |-> "cold",
            frameDeadline |-> "cold", frames |-> 0, st |-> 0]
Absent == [Created EXCEPT !.present = FALSE]

Init ==
  /\ guests = [s \in Slots |-> IF s = "shown" THEN Created ELSE Absent]
  /\ call = NoCall /\ swap = "no" /\ snapshot = 0
  /\ reloads = 0 /\ faults = 0 /\ overrun = {}

-----------------------------------------------------------------------------
(* Calls into a guest.                                                     *)

FrameBudget(g) == IF g.frames < WarmupFrames THEN "cold" ELSE "frame"

\* What the call may take, by the comments at the constants of engine.rs.
Allowed(g, kind) == IF kind = "frame" THEN FrameBudget(g) ELSE "cold"

\* The deadline is armed before anything runs in the guest, the allocator included.
Arm(g, kind) ==
  IF kind = "frame" THEN [g EXCEPT !.deadline = FrameBudget(g), !.frameDeadline = FrameBudget(g)]
  ELSE [g EXCEPT !.deadline = "cold"]

\* Mutant: the call is made with the deadline that is there.
EnterUnarmed(slot, kind) ==
  /\ call = NoCall /\ guests[slot].present
  /\ UNCHANGED guests
  /\ call' = [on |-> slot, kind |-> kind, at |-> "alloc"]

Enter(slot, kind) ==
  /\ call = NoCall /\ guests[slot].present
  /\ guests' = [guests EXCEPT ![slot] = Arm(@, kind)]
  /\ call' = [on |-> slot, kind |-> kind, at |-> "alloc"]

G == guests[call.on]

\* Mutant: send_event passes the error on and leaves the status.
TrapUnmarked(g) ==
  IF call.kind \in {"event", "destroy"} THEN g ELSE [g EXCEPT !.status = "Errored"]

\* A trap: the status becomes Errored, except that destroy ignores the error.
TrapIn(g) == IF call.kind = "destroy" THEN g ELSE [g EXCEPT !.status = "Errored"]

Trap ==
  /\ guests' = [guests EXCEPT ![call.on] = TrapIn(@)]
  /\ call' = NoCall

\* plugin_alloc, and then the guest's function: it borrows RUNTIME, or panics.
EnterBody ==
  /\ call # NoCall /\ call.at = "alloc" /\ G.deadline # "none"
  /\ IF G.runtime = "borrowed" THEN Trap
     ELSE /\ guests' = [guests EXCEPT ![call.on].runtime = "borrowed"]
          /\ call' = [call EXCEPT !.at = "body"]
  /\ UNCHANGED <<swap, snapshot, reloads, faults, overrun>>

\* The guest works on: for a stretch the kind of call allows, though perhaps not the
\* deadline in force.
Work ==
  /\ call # NoCall
  /\ \/ G.deadline = "none"
     \/ call.at = "body" /\ Allowed(G, call.kind) = "cold" /\ G.deadline = "frame"
  /\ Trap
  /\ overrun' = overrun \cup {call.kind}
  /\ UNCHANGED <<swap, snapshot, reloads, faults>>

\* Mutant: the time of the op is charged to the frame.
HostCallCharged ==
  /\ call # NoCall /\ call.at = "body"
  /\ guests' = [guests EXCEPT ![call.on].deadline = "none"]
  /\ UNCHANGED <<call, swap, snapshot, reloads, faults, overrun>>

\* host_call: after the op, however long it took, the frame's deadline is armed.
HostCall ==
  /\ call # NoCall /\ call.at = "body"
  /\ guests' = [guests EXCEPT ![call.on].deadline = G.frameDeadline]
  /\ UNCHANGED <<call, swap, snapshot, reloads, faults, overrun>>

\* The plugin's own code panics (or loops until its deadline).
Panic ==
  /\ call # NoCall /\ call.at = "body"
  /\ faults < MaxFaults /\ faults' = faults + 1
  /\ Trap
  /\ UNCHANGED <<swap, snapshot, reloads, overrun>>

Counted(frames) == IF frames < WarmupFrames THEN frames + 1 ELSE frames

\* The SDK cannot decode the FrameInput and returns 0 before it borrows RUNTIME: no trap,
\* so the frame is counted and the deadline armed, but the plugin is Errored.
FrameRejected ==
  /\ call # NoCall /\ call.at = "alloc" /\ call.kind = "frame" /\ G.deadline # "none"
  /\ faults < MaxFaults /\ faults' = faults + 1
  /\ guests' = [guests EXCEPT ![call.on] =
       [G EXCEPT !.status = "Errored", !.deadline = "cold", !.frames = Counted(G.frames)]]
  /\ call' = NoCall
  /\ UNCHANGED <<swap, snapshot, reloads, overrun>>

\* The frame's input may change the state; a warm-up frame is counted.
FrameReturns ==
  /\ call # NoCall /\ call.at = "body" /\ call.kind = "frame"
  /\ \E st \in {G.st, G.st + 1} \cap 0..MaxUse :
       guests' = [guests EXCEPT ![call.on] =
         [G EXCEPT !.runtime = "free", !.deadline = "cold", !.st = st,
                   !.frames = Counted(G.frames)]]
  /\ call' = NoCall
  /\ UNCHANGED <<swap, snapshot, reloads, faults, overrun>>

EventReturns ==
  /\ call # NoCall /\ call.at = "body" /\ call.kind = "event"
  /\ \E st \in {G.st, G.st + 1} \cap 0..MaxUse :
       guests' = [guests EXCEPT ![call.on].runtime = "free", ![call.on].st = st]
  /\ call' = NoCall
  /\ UNCHANGED <<swap, snapshot, reloads, faults, overrun>>

SaveReturns ==
  /\ call # NoCall /\ call.at = "body" /\ call.kind = "save"
  /\ guests' = [guests EXCEPT ![call.on].runtime = "free"]
  /\ snapshot' = G.st
  /\ call' = NoCall
  /\ UNCHANGED <<swap, reloads, faults, overrun>>

RestoreReturns ==
  /\ call # NoCall /\ call.at = "body" /\ call.kind = "restore"
  /\ guests' = [guests EXCEPT ![call.on].runtime = "free", ![call.on].st = snapshot]
  /\ call' = NoCall
  /\ UNCHANGED <<swap, snapshot, reloads, faults, overrun>>

DestroyReturns ==
  /\ call # NoCall /\ call.at = "body" /\ call.kind = "destroy"
  /\ guests' = [guests EXCEPT ![call.on].runtime = "taken"]
  /\ call' = NoCall
  /\ UNCHANGED <<swap, snapshot, reloads, faults, overrun>>

-----------------------------------------------------------------------------
(* What the UI thread does between calls.                                  *)

\* run_frame and send_event refuse a plugin that is not Ready.
RunFrame ==
  /\ swap = "no" /\ guests["shown"].status = "Ready"
  /\ Enter("shown", "frame")
  /\ UNCHANGED <<swap, snapshot, reloads, faults, overrun>>

SendEvent ==
  /\ swap = "no" /\ guests["shown"].status = "Ready"
  /\ Enter("shown", "event")
  /\ UNCHANGED <<swap, snapshot, reloads, faults, overrun>>

\* Nothing runs for a while, and the epoch goes on.
Idle ==
  /\ swap = "no" /\ call = NoCall
  /\ guests' = [s \in Slots |-> [guests[s] EXCEPT !.deadline = "none"]]
  /\ UNCHANGED <<call, swap, snapshot, reloads, faults, overrun>>

\* Mutant: the state of a trapped guest is saved too.
BeginSwapAlways ==
  /\ swap = "no" /\ call = NoCall /\ reloads < MaxReloads
  /\ reloads' = reloads + 1
  /\ snapshot' = 0
  /\ swap' = "save"
  /\ guests' = [guests EXCEPT !["fresh"] = [Created EXCEPT !.deadline = "none"],
                              !["shown"] = Arm(@, "save")]
  /\ call' = [on |-> "shown", kind |-> "save", at |-> "alloc"]
  /\ UNCHANGED <<faults, overrun>>

\* pump has a fresh instance for the plugin: save the old one if it is Ready.
BeginSwap ==
  /\ swap = "no" /\ call = NoCall /\ reloads < MaxReloads
  /\ reloads' = reloads + 1
  /\ snapshot' = 0
  /\ IF guests["shown"].status = "Ready"
     THEN /\ swap' = "save"
          /\ guests' = [guests EXCEPT !["fresh"] = [Created EXCEPT !.deadline = "none"],
                                      !["shown"] = Arm(@, "save")]
          /\ call' = [on |-> "shown", kind |-> "save", at |-> "alloc"]
     ELSE /\ swap' = "replace"
          /\ guests' = [guests EXCEPT !["fresh"] = [Created EXCEPT !.deadline = "none"]]
          /\ UNCHANGED call
  /\ UNCHANGED <<faults, overrun>>

\* save_state returned or failed; an empty snapshot is not restored.
SwapRestore ==
  /\ swap = "save" /\ call = NoCall
  /\ swap' = "restore"
  /\ IF snapshot = 0 THEN UNCHANGED <<guests, call>> ELSE Enter("fresh", "restore")
  /\ UNCHANGED <<snapshot, reloads, faults, overrun>>

\* After a restore that failed, clear_error makes the fresh instance Ready again.
SwapClear ==
  /\ swap = "restore" /\ call = NoCall
  /\ swap' = "replace"
  /\ guests' = [guests EXCEPT !["fresh"].status = "Ready"]
  /\ UNCHANGED <<call, snapshot, reloads, faults, overrun>>

SwapReplace ==
  /\ swap = "replace" /\ call = NoCall
  /\ swap' = "destroy"
  /\ guests' = [guests EXCEPT !["shown"] = guests["fresh"],
                              !["fresh"] = Absent,
                              !["old"] = Arm(guests["shown"], "destroy")]
  /\ call' = [on |-> "old", kind |-> "destroy", at |-> "alloc"]
  /\ UNCHANGED <<snapshot, reloads, faults, overrun>>

\* The old store is dropped, whether or not destroy trapped.
EndSwap ==
  /\ swap = "destroy" /\ call = NoCall
  /\ swap' = "no"
  /\ guests' = [guests EXCEPT !["old"] = Absent]
  /\ UNCHANGED <<call, snapshot, reloads, faults, overrun>>

GuestStep ==
  \/ EnterBody \/ Work \/ HostCall \/ Panic \/ FrameRejected
  \/ FrameReturns \/ EventReturns \/ SaveReturns \/ RestoreReturns \/ DestroyReturns

Swap == BeginSwap \/ SwapRestore \/ SwapClear \/ SwapReplace \/ EndSwap

Next == RunFrame \/ SendEvent \/ Idle \/ Swap \/ GuestStep

Spec == Init /\ [][Next]_reloadVars

-----------------------------------------------------------------------------
(* Properties.                                                             *)

\* A frame that keeps its budget is never lost to the deadline: not after a long idle
\* time, not in a warm-up frame, not after slow host ops, in no instance (run_frame,
\* write_to_guest, dispatch_host_call).
FrameKeepsItsBudget == "frame" \notin overrun

\* The replacement has the old guest's state, unless a guest trapped on the way; the
\* state of a guest that had trapped is not carried (pump's swap).
StateIsCarried ==
  swap = "destroy" =>
    /\ faults = 0 /\ overrun = {} => guests["shown"].st = guests["old"].st
    /\ guests["old"].status = "Errored" => guests["shown"].st = 0

\* manager.rs:229, "A restore trap degrades to fresh state, not a dead-on-arrival plugin":
\* a plugin that is Ready, and not inside a call, can run a frame.
ReadyIsAlive ==
  call = NoCall /\ guests["shown"].status = "Ready" => guests["shown"].runtime = "free"

\* A trap does not go unnoticed: a plugin shown as Ready with RUNTIME left borrowed is one
\* whose restore trapped, the swap having cleared that error (manager.rs:228), and it has
\* drawn no frame and taken no input since: the first call finds it out.
DeadIsFoundOut ==
  LET g == guests["shown"] IN
    call = NoCall /\ swap = "no" /\ g.status = "Ready" /\ g.runtime # "free" =>
      snapshot # 0 /\ g.st = 0 /\ g.frames = 0
=============================================================================
