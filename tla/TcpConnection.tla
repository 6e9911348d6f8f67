--------------------------- MODULE TcpConnection ----------------------------
(***************************************************************************)
(* One TCP connection of a plugin (crates/plugin-host, net_ops/tcp.rs).    *)
(* The UI thread runs the ops: poll, send, close.  A thread of the         *)
(* connection connects, publishes a clone of the stream for sends, and     *)
(* reads into the rx buffer.  They share the state and the buffer under    *)
(* one lock, the stream slot under another, and a stop flag.               *)
(*                                                                         *)
(* A chunk is what one read returns; chunks are numbered as the peer sends *)
(* them, and MAX_RX_BUFFER is counted in chunks.  The kernel's send buffer *)
(* is a number of free places that only the peer's reading gives back.     *)
(***************************************************************************)
EXTENDS Naturals, Sequences

CONSTANTS
  MaxRx,      (* MAX_RX_BUFFER, in chunks                                  *)
  SendRoom,   (* the socket's send buffer, in sends                        *)
  MaxChunks,  (* bound: chunks the peer sends                              *)
  MaxSends    (* bound: sends of the plugin                                *)

\* What the constants are.
TcpAssumption ==
  MaxRx \in Nat /\ SendRoom \in Nat /\ MaxChunks \in Nat /\ MaxSends \in Nat

VARIABLES
  tracked,    (* the connection is in NetHub::tcp                          *)
  stop,       (* the stop flag                                             *)
  state,      (* TcpShared::state                                          *)
  rx,         (* TcpShared::rx                                             *)
  slot,       (* TcpConn::stream holds the clone                           *)
  pc,         (* where run_tcp_thread is                                   *)
  op,         (* what the UI thread does: "idle", or blocked in "send"     *)
  sends,      (* sends so far, for their bound                             *)
  room,       (* free places of the send buffer                            *)
  sent,       (* chunks the peer has sent                                  *)
  peer,       (* the peer is "open", "closed" or "reset"                   *)
  read,       (* chunks read from the socket                               *)
  pushed,     (* history: chunks that went into rx                         *)
  delivered,  (* history: chunks the polls returned                        *)
  seen,       (* history: the state the last poll of the connection told   *)
  refused     (* history: a send was refused as "not connected" after Ready *)

handle  == <<tracked, stop, delivered, seen>>
buffers == <<rx, read, pushed>>
sending == <<op, sends, refused>>
remote  == <<sent, peer>>
tcpVars == <<handle, state, buffers, slot, pc, sending, room, remote>>

Terminal == {"connect", "clone", "overflow", "reset", "Closed"}
States == {"Connecting", "Ready"} \cup Terminal

\* Every variable has its type; the rx buffer never passes its cap, however slowly the
\* plugin polls (push_rx).
TypeOK ==
  /\ tracked \in BOOLEAN /\ slot \in BOOLEAN /\ stop \in BOOLEAN /\ refused \in BOOLEAN
  /\ state \in States /\ seen \in States
  /\ rx \in Seq(Nat) /\ Len(rx) <= MaxRx /\ delivered \in Seq(Nat)
  /\ pc \in {"connect", "clone", "ready", "loop", "recv", "overflow", "done"}
  /\ op \in {"idle", "send"}
  /\ room \in 0..SendRoom
  /\ sent \in Nat /\ peer \in {"open", "closed", "reset"}
  /\ read \in Nat /\ pushed \in Nat /\ sends \in Nat

Init ==
  /\ tracked = TRUE /\ stop = FALSE /\ state = "Connecting" /\ rx = <<>> /\ slot = FALSE
  /\ pc = "connect" /\ op = "idle" /\ sends = 0 /\ room = SendRoom
  /\ sent = 0 /\ peer = "open"
  /\ read = 0 /\ pushed = 0
  /\ delivered = <<>> /\ seen = "Connecting" /\ refused = FALSE

-----------------------------------------------------------------------------
(* The thread of the connection.                                           *)

\* The first terminal state is kept.
SetState(s) == state' = IF state \in Terminal THEN state ELSE s

\* The thread sets a terminal state and returns.
EndsWith(s) ==
  /\ pc' = "done" /\ SetState(s)
  /\ UNCHANGED <<handle, buffers, slot, sending, room, remote>>

GoesTo(next) ==
  /\ pc' = next
  /\ UNCHANGED <<handle, state, buffers, sending, room, remote>>

ConnectFails == pc = "connect" /\ EndsWith("connect")
Connected    == pc = "connect" /\ GoesTo("clone") /\ UNCHANGED slot
CloneFails   == pc = "clone" /\ EndsWith("clone")

\* Mutant: the clone is stored only if the slot is free at that moment (try_lock).
StoreCloneIfFree == pc = "clone" /\ GoesTo("ready") /\ slot' \in BOOLEAN

StoreClone == pc = "clone" /\ GoesTo("ready") /\ slot' = TRUE

SetReady ==
  /\ pc = "ready" /\ pc' = "loop"
  /\ SetState("Ready")
  /\ UNCHANGED <<handle, buffers, slot, sending, room, remote>>

Loop == pc = "loop" /\ GoesTo(IF stop THEN "done" ELSE "recv") /\ UNCHANGED slot

ReadStep ==
  /\ pc = "recv" /\ read < sent
  /\ read' = read + 1
  /\ UNCHANGED <<handle, state, slot, sending, room, remote>>

\* Mutant: a full buffer drops the chunk and reads on.
ReadOrDrop ==
  /\ ReadStep /\ pc' = "loop"
  /\ IF Len(rx) < MaxRx THEN rx' = Append(rx, read + 1) /\ pushed' = pushed + 1
     ELSE UNCHANGED <<rx, pushed>>

\* Mutant: the cap is compared after the chunk is in.
ReadThenCheck ==
  /\ ReadStep
  /\ rx' = Append(rx, read + 1) /\ pushed' = pushed + 1
  /\ pc' = IF Len(rx) > MaxRx THEN "overflow" ELSE "loop"

\* A read returns a chunk; push_rx takes it, or finds the buffer full.
ReadChunk ==
  /\ ReadStep
  /\ IF Len(rx) < MaxRx
     THEN pc' = "loop" /\ rx' = Append(rx, read + 1) /\ pushed' = pushed + 1
     ELSE pc' = "overflow" /\ UNCHANGED <<rx, pushed>>

Overflow == pc = "overflow" /\ EndsWith("overflow")

\* The stream ended, after all the peer sent, or because tcp_close shut it down.
ReadEof ==
  /\ pc = "recv"
  /\ (peer = "closed" /\ read = sent) \/ ~tracked
  /\ EndsWith("Closed")

ReadError == pc = "recv" /\ peer = "reset" /\ EndsWith("reset")

ReadTimeout == pc = "recv" /\ read = sent /\ GoesTo("loop") /\ UNCHANGED slot

Thread ==
  \/ ConnectFails \/ Connected \/ CloneFails \/ StoreClone \/ SetReady
  \/ Loop \/ ReadChunk \/ Overflow \/ ReadEof \/ ReadError \/ ReadTimeout

-----------------------------------------------------------------------------
(* The ops, on the UI thread.                                              *)

\* Mutant: an end is told before the bytes that came with it are taken.
PollEndFirst ==
  /\ op = "idle" /\ tracked
  /\ seen' = state
  /\ IF state \in Terminal THEN tracked' = FALSE /\ stop' = TRUE /\ UNCHANGED <<rx, delivered>>
     ELSE delivered' = delivered \o rx /\ rx' = <<>> /\ UNCHANGED <<tracked, stop>>
  /\ UNCHANGED <<state, read, pushed, slot, pc, sending, room, remote>>

\* tcp_poll: state and bytes are taken together; a terminal state forgets the connection.
Poll ==
  /\ op = "idle" /\ tracked
  /\ seen' = state
  /\ delivered' = delivered \o rx /\ rx' = <<>>
  /\ IF state \in Terminal THEN tracked' = FALSE /\ stop' = TRUE
     ELSE UNCHANGED <<tracked, stop>>
  /\ UNCHANGED <<state, read, pushed, slot, pc, sending, room, remote>>

\* tcp_send: refused until there is a stream, else a blocking write_all.
Send ==
  /\ op = "idle" /\ tracked
  /\ sends < MaxSends /\ sends' = sends + 1
  /\ IF slot THEN op' = "send" /\ UNCHANGED refused
     ELSE refused' = (refused \/ seen = "Ready") /\ UNCHANGED op
  /\ UNCHANGED <<handle, state, buffers, slot, pc, room, remote>>

SendReturns ==
  /\ op = "send" /\ op' = "idle"
  /\ \/ room > 0 /\ room' = room - 1
     \/ peer = "reset" /\ UNCHANGED room
  /\ UNCHANGED <<handle, state, buffers, slot, pc, sends, refused, remote>>

\* Mutant: the connection is forgotten and its thread left to find out by itself.
CloseOnlyForgets ==
  /\ op = "idle" /\ tracked /\ tracked' = FALSE
  /\ UNCHANGED <<stop, delivered, seen, state, buffers, slot, pc, sending, room, remote>>

\* tcp_close: forgets the connection, raises the flag, and shuts the stream down.
Close ==
  /\ op = "idle" /\ tracked
  /\ tracked' = FALSE /\ stop' = TRUE
  /\ UNCHANGED <<delivered, seen, state, buffers, slot, pc, sending, room, remote>>

Ops == Poll \/ Send \/ SendReturns \/ Close

-----------------------------------------------------------------------------
(* The peer, once connected.                                               *)

Linked == pc # "connect" /\ state # "connect" /\ peer = "open"

PeerSends ==
  /\ Linked /\ sent < MaxChunks /\ sent' = sent + 1
  /\ UNCHANGED <<handle, state, buffers, slot, pc, sending, room, peer>>

PeerReads ==
  /\ room < SendRoom /\ room' = room + 1
  /\ UNCHANGED <<handle, state, buffers, slot, pc, sending, remote>>

PeerEnds ==
  /\ Linked /\ peer' \in {"closed", "reset"}
  /\ UNCHANGED <<handle, state, buffers, slot, pc, sending, room, sent>>

Next == Thread \/ Ops \/ PeerSends \/ PeerReads \/ PeerEnds

Spec == Init /\ [][Next]_tcpVars

-----------------------------------------------------------------------------
(* Properties.                                                             *)

\* A handle of NetHandle: what a poll can see of the connection.  What the thread still
\* does to the shared state of a forgotten connection nobody sees.
AsHandle == INSTANCE NetHandle WITH
  Causes    <- Terminal,
  NoCause   <- "none",
  Capacity  <- MaxRx,
  DropOldest <- FALSE,
  phase     <- IF ~tracked THEN "gone" ELSE IF state \in Terminal THEN "ended"
               ELSE IF state = "Ready" THEN "ready" ELSE "connecting",
  cause     <- IF tracked /\ state \in Terminal THEN state ELSE "none",
  arrived   <- IF tracked THEN pushed ELSE 0,
  queue     <- IF tracked THEN rx ELSE <<>>,
  told      <- IF seen \in Terminal THEN seen ELSE "none"

\* The connection implements the handle: no byte is lost, repeated or reordered between the
\* thread and the polls, and the poll that tells the end returns the last of them (tcp_poll
\* against push_rx and set_tcp_state).
ImplementsHandle == AsHandle!Spec

\* A plugin that was told Ready is never answered "not connected": the clone is in the slot
\* before the state is set (run_tcp_thread against tcp_send).
ReadyMeansSendable == ~refused

\* A plugin told that the connection is closed has got everything the peer sent: no chunk
\* was dropped by a full buffer or left in it (run_tcp_thread, push_rx, tcp_poll).
ClosedMeansAll == seen = "Closed" => delivered = [i \in 1..sent |-> i]

\* The thread of a forgotten connection ends, whatever it was doing and whatever the peer
\* does (tcp_close, tcp_poll, the stop flag).
ThreadEnds == ~tracked ~> pc = "done"
=============================================================================
