----------------------------- MODULE NetHandle ------------------------------
(***************************************************************************)
(* What every polled network handle of the plugin host promises a plugin   *)
(* (crates/plugin-host, net_ops.rs): the op that opens it returns at once, *)
(* and the plugin then polls until it is told of an end.  The end is told  *)
(* once, with all that arrived before it; what is delivered keeps the      *)
(* order of arrival; a handle that was told its end, or was closed, is     *)
(* forgotten with all it held.                                             *)
(*                                                                         *)
(* What arrives is numbered 1, 2, ... in order.                            *)
(***************************************************************************)
EXTENDS Naturals, Sequences

CONSTANTS
  Causes,     (* the ways a handle can end                                 *)
  NoCause,    (* not ended                                                 *)
  Capacity,   (* how many items wait for a poll                            *)
  DropOldest  (* whether a full queue drops its oldest item for a new one  *)

VARIABLES
  phase,      (* "connecting", "ready", "ended", or "gone" when forgotten  *)
  cause,      (* why it ended                                              *)
  arrived,    (* the number of items that have arrived                     *)
  queue,      (* those not delivered yet                                   *)
  delivered,  (* those delivered                                           *)
  told        (* the cause the plugin was told                             *)

handleVars == <<phase, cause, arrived, queue, delivered, told>>

Init ==
  /\ phase = "connecting" /\ cause = NoCause
  /\ arrived = 0 /\ queue = <<>> /\ delivered = <<>>
  /\ told = NoCause

Open ==
  /\ phase = "connecting" /\ phase' = "ready"
  /\ UNCHANGED <<cause, arrived, queue, delivered, told>>

Arrive ==
  /\ phase = "ready"
  /\ arrived' = arrived + 1
  /\ \/ Len(queue) < Capacity /\ queue' = Append(queue, arrived + 1)
     \/ DropOldest /\ Len(queue) = Capacity /\ queue' = Append(Tail(queue), arrived + 1)
  /\ UNCHANGED <<phase, cause, delivered, told>>

End ==
  /\ phase \in {"connecting", "ready"}
  /\ phase' = "ended" /\ cause' \in Causes
  /\ UNCHANGED <<arrived, queue, delivered, told>>

Forget == phase' = "gone" /\ cause' = NoCause /\ arrived' = 0 /\ queue' = <<>>

Poll ==
  /\ phase \in {"connecting", "ready"}
  /\ delivered' = delivered \o queue /\ queue' = <<>>
  /\ UNCHANGED <<phase, cause, arrived, told>>

LastPoll ==
  /\ phase = "ended"
  /\ delivered' = delivered \o queue /\ told' = cause
  /\ Forget

\* The plugin closes the handle and hears no more of it.
Close ==
  /\ phase # "gone"
  /\ Forget
  /\ UNCHANGED <<delivered, told>>

Next == Open \/ Arrive \/ End \/ Poll \/ LastPoll \/ Close

Spec == Init /\ [][Next]_handleVars
=============================================================================
