---------------------------- MODULE UdpListener -----------------------------
(***************************************************************************)
(* The UDP listeners of the plugins that want one port (crates/plugin-     *)
(* host, net_ops/tcp.rs).  Each has a thread that binds the port and       *)
(* queues datagrams; the UI thread polls and closes.  Datagrams that reach *)
(* a listener are numbered as they arrive.                                 *)
(***************************************************************************)
EXTENDS Naturals, Sequences

CONSTANTS
  Listeners,    (* the calls of udp_listen for this port                   *)
  MaxQueue,     (* MAX_UDP_QUEUE                                           *)
  MaxDatagrams  (* bound: datagrams that reach one listener                *)

\* What the constants are.
UdpAssumption == MaxQueue \in Nat \ {0} /\ MaxDatagrams \in Nat

VARIABLES
  tracked,    (* the listeners in NetHub::udp                              *)
  stop,       (* the stop flags                                            *)
  state,      (* UdpShared::state                                          *)
  packets,    (* UdpShared::packets                                        *)
  pc,         (* where run_udp_thread is; "none" before udp_listen         *)
  arrived,    (* datagrams received                                        *)
  delivered,  (* history: those the polls returned                         *)
  seen,       (* history: the state the last poll told, "none" before one  *)
  foreign     (* a socket outside the app holds the port                   *)

udpVars == <<tracked, stop, state, packets, pc, arrived, delivered, seen, foreign>>

Terminal == {"bind", "recv"}
States == {"Connecting", "Ready"} \cup Terminal

\* Every variable has its type, and no queue passes MAX_UDP_QUEUE (run_udp_thread).
TypeOK ==
  /\ tracked \subseteq Listeners
  /\ stop \in [Listeners -> BOOLEAN]
  /\ state \in [Listeners -> States]
  /\ packets \in [Listeners -> Seq(Nat)]
  /\ \A l \in Listeners : Len(packets[l]) <= MaxQueue
  /\ pc \in [Listeners -> {"none", "bind", "ready", "loop", "recv", "done"}]
  /\ arrived \in [Listeners -> Nat]
  /\ delivered \in [Listeners -> Seq(Nat)]
  /\ seen \in [Listeners -> States \cup {"none"}]
  /\ foreign \in BOOLEAN

Init ==
  /\ tracked = {}
  /\ stop = [l \in Listeners |-> FALSE]
  /\ state = [l \in Listeners |-> "Connecting"]
  /\ packets = [l \in Listeners |-> <<>>]
  /\ pc = [l \in Listeners |-> "none"]
  /\ arrived = [l \in Listeners |-> 0]
  /\ delivered = [l \in Listeners |-> <<>>]
  /\ seen = [l \in Listeners |-> "none"]
  /\ foreign \in BOOLEAN

\* The socket lives as long as the thread that bound it.
Bound(l) == pc[l] \in {"ready", "loop", "recv"}
PortFree == ~foreign /\ \A l \in Listeners : ~Bound(l)

SetState(l, s) == state' = [state EXCEPT ![l] = IF @ \in Terminal THEN @ ELSE s]

GoesTo(l, next) == pc' = [pc EXCEPT ![l] = next]

-----------------------------------------------------------------------------
Bind(l) ==
  /\ pc[l] = "bind"
  /\ IF PortFree THEN GoesTo(l, "ready") /\ UNCHANGED state
     ELSE GoesTo(l, "done") /\ SetState(l, "bind")
  /\ UNCHANGED <<tracked, stop, packets, arrived, delivered, seen, foreign>>

SetReady(l) ==
  /\ pc[l] = "ready" /\ GoesTo(l, "loop") /\ SetState(l, "Ready")
  /\ UNCHANGED <<tracked, stop, packets, arrived, delivered, seen, foreign>>

Loop(l) ==
  /\ pc[l] = "loop" /\ GoesTo(l, IF stop[l] THEN "done" ELSE "recv")
  /\ UNCHANGED <<tracked, stop, state, packets, arrived, delivered, seen, foreign>>

ReceiveStep(l) ==
  /\ pc[l] = "recv" /\ GoesTo(l, "loop")
  /\ arrived[l] < MaxDatagrams
  /\ arrived' = [arrived EXCEPT ![l] = @ + 1]
  /\ UNCHANGED <<tracked, stop, state, delivered, seen, foreign>>

\* Mutant: a full queue makes room from the wrong end.
ReceiveDropNewest(l) ==
  /\ ReceiveStep(l)
  /\ packets' = [packets EXCEPT ![l] =
       IF Len(@) >= MaxQueue THEN Append(SubSeq(@, 1, Len(@) - 1), arrived[l] + 1)
       ELSE Append(@, arrived[l] + 1)]

Receive(l) ==
  /\ ReceiveStep(l)
  /\ packets' = [packets EXCEPT ![l] =
       Append(IF Len(@) >= MaxQueue THEN Tail(@) ELSE @, arrived[l] + 1)]

ReceiveTimeout(l) ==
  /\ pc[l] = "recv" /\ GoesTo(l, "loop")
  /\ UNCHANGED <<tracked, stop, state, packets, arrived, delivered, seen, foreign>>

ReceiveError(l) ==
  /\ pc[l] = "recv" /\ GoesTo(l, "done") /\ SetState(l, "recv")
  /\ UNCHANGED <<tracked, stop, packets, arrived, delivered, seen, foreign>>

Thread(l) ==
  \/ Bind(l) \/ SetReady(l) \/ Loop(l)
  \/ Receive(l) \/ ReceiveTimeout(l) \/ ReceiveError(l)

-----------------------------------------------------------------------------
(* The ops, on the UI thread.                                              *)

Listen(l) ==
  /\ pc[l] = "none" /\ GoesTo(l, "bind")
  /\ tracked' = tracked \cup {l}
  /\ UNCHANGED <<stop, state, packets, arrived, delivered, seen, foreign>>

Poll(l) ==
  /\ l \in tracked
  /\ seen' = [seen EXCEPT ![l] = state[l]]
  /\ delivered' = [delivered EXCEPT ![l] = @ \o packets[l]]
  /\ packets' = [packets EXCEPT ![l] = <<>>]
  /\ IF state[l] \in Terminal
     THEN tracked' = tracked \ {l} /\ stop' = [stop EXCEPT ![l] = TRUE]
     ELSE UNCHANGED <<tracked, stop>>
  /\ UNCHANGED <<state, pc, arrived, foreign>>

\* Mutant: closing forgets the listener and leaves the flag alone.
CloseOnlyForgets(l) ==
  /\ l \in tracked /\ tracked' = tracked \ {l}
  /\ UNCHANGED <<stop, state, packets, pc, arrived, delivered, seen, foreign>>

Close(l) ==
  /\ l \in tracked /\ tracked' = tracked \ {l}
  /\ stop' = [stop EXCEPT ![l] = TRUE]
  /\ UNCHANGED <<state, packets, pc, arrived, delivered, seen, foreign>>

Next == \E l \in Listeners : Thread(l) \/ Listen(l) \/ Poll(l) \/ Close(l)

Spec == Init /\ [][Next]_udpVars

-----------------------------------------------------------------------------
(* Properties.                                                             *)

\* What a poll can see of a listener, as a handle of NetHandle.
AsHandle(l) == INSTANCE NetHandle WITH
  Causes    <- Terminal,
  NoCause   <- "none",
  Capacity  <- MaxQueue,
  DropOldest <- TRUE,
  phase     <- IF l \notin tracked /\ pc[l] # "none" THEN "gone"
               ELSE IF state[l] \in Terminal THEN "ended"
               ELSE IF state[l] = "Ready" THEN "ready" ELSE "connecting",
  cause     <- IF l \in tracked /\ state[l] \in Terminal THEN state[l] ELSE "none",
  arrived   <- IF l \in tracked THEN arrived[l] ELSE 0,
  queue     <- IF l \in tracked THEN packets[l] ELSE <<>>,
  delivered <- delivered[l],
  told      <- IF seen[l] \in Terminal THEN seen[l] ELSE "none"

\* Every listener implements the handle: datagrams are returned once and in order, a full
\* queue loses its oldest and nothing else, and the end comes with the last of them
\* (run_udp_thread against udp_poll).
ImplementsHandle ==
  /\ \A l \in Listeners : AsHandle(l)!Init
  /\ [][\A l \in Listeners :
         AsHandle(l)!Next \/ UNCHANGED AsHandle(l)!handleVars]_udpVars

\* The port of a closed listener comes free again, though not at once: its thread holds the
\* socket until it sees the flag (udp_close, run_udp_thread).
PortComesBack ==
  \A l \in Listeners : (pc[l] # "none" /\ l \notin tracked) ~> ~Bound(l)
=============================================================================
