----------------------------- MODULE SshSession -----------------------------
(***************************************************************************)
(* One SSH session of a plugin (crates/plugin-host, net_ops/ssh.rs).  Its  *)
(* thread connects, authenticates, opens a PTY shell, and then serves, in  *)
(* any order, the commands of the UI thread and the messages of the        *)
(* server.  Commands go through an unbounded channel; output goes to a     *)
(* buffer that drops its oldest bytes when it is full.                     *)
(*                                                                         *)
(* Output messages and writes are numbered in order; MAX_OUT_BUFFER is     *)
(* counted in messages.  Waiting is counted in units of time that pass     *)
(* without an answer of the server.  A server that keeps talking but never *)
(* lets the client write on is left out: the inactivity limit of the       *)
(* session ends a wait for any other one.                                  *)
(***************************************************************************)
EXTENDS Naturals, Sequences

CONSTANTS
  MaxOut,          (* MAX_OUT_BUFFER, in messages                          *)
  ConnectTimeout,  (* CONNECT_TIMEOUT_SECS, in units of waiting            *)
  Inactivity,      (* Config::inactivity_timeout, in the same units        *)
  Window,          (* writes the server takes before it must grant more    *)
  MaxMsgs,         (* bound: messages of the server                        *)
  MaxCmds          (* bound: writes and resizes of the plugin              *)

\* What the constants are.
SshAssumption ==
  /\ MaxOut \in Nat \ {0} /\ Window \in Nat /\ MaxMsgs \in Nat /\ MaxCmds \in Nat
  /\ ConnectTimeout \in Nat /\ Inactivity \in Nat /\ ConnectTimeout < Inactivity

VARIABLES
  tracked,    (* the session is in NetHub::ssh                             *)
  cmds,       (* the command channel                                       *)
  state,      (* Shared::state                                             *)
  out,        (* Shared::out                                               *)
  pc,         (* where run_session is                                      *)
  writing,    (* the write being sent, 0 if none                           *)
  handed,     (* writes handed to the connection and not sent yet          *)
  waited,     (* how long the await it is in has lasted                    *)
  window,     (* writes the server still takes                             *)
  server,     (* the server: "up", or "gone" with its connection           *)
  arrived,    (* messages received                                         *)
  delivered,  (* history: those the polls returned                         *)
  seen,       (* history: the state the last poll told                     *)
  accepted,   (* history: writes ssh_write accepted                        *)
  taken,      (* history: writes the server got                            *)
  closed,     (* history: the plugin closed the session                    *)
  asked       (* writes and resizes asked for, for their bound             *)

handle  == <<tracked, delivered, seen, closed>>
input   == <<cmds, accepted, asked>>
output  == <<out, arrived>>
writes  == <<writing, handed, taken, window>>
sshVars == <<handle, input, state, output, pc, writes, waited, server>>

Errors == {"connect", "auth", "channel"}
Terminal == Errors \cup {"Closed"}
States == {"Connecting", "Ready"} \cup Terminal

\* Every variable has its type; the output buffer never passes its cap (push_out).
TypeOK ==
  /\ tracked \in BOOLEAN /\ closed \in BOOLEAN
  /\ cmds \in Seq([kind : {"write", "resize", "close"}, n : 0..accepted])
  /\ state \in States /\ seen \in States
  /\ out \in Seq(Nat) /\ Len(out) <= MaxOut /\ delivered \in Seq(Nat)
  /\ pc \in {"connect", "auth", "channel", "loop", "write", "done"}
  /\ writing \in Nat /\ handed \in Seq(Nat) /\ taken \in Seq(Nat) /\ window \in 0..Window
  /\ waited \in 0..Inactivity /\ server \in {"up", "gone"}
  /\ arrived \in Nat /\ accepted \in Nat /\ asked \in Nat

Init ==
  /\ tracked = TRUE /\ closed = FALSE /\ cmds = <<>>
  /\ state = "Connecting" /\ seen = "Connecting"
  /\ out = <<>> /\ delivered = <<>> /\ arrived = 0
  /\ pc = "connect" /\ waited = 0 /\ server = "up"
  /\ writing = 0 /\ handed = <<>> /\ taken = <<>> /\ window = Window
  /\ accepted = 0 /\ asked = 0

-----------------------------------------------------------------------------
(* The thread of the session.                                              *)

\* The first terminal state is kept.
SetState(s) == state' = IF state \in Terminal THEN state ELSE s

\* run_session returns, and with it the connection and the command receiver.
EndsWith(s) ==
  /\ pc' = "done" /\ SetState(s) /\ cmds' = <<>> /\ waited' = 0
  /\ UNCHANGED <<handle, accepted, asked, output, writes, server>>

NextAwait == [connect |-> "auth", auth |-> "channel", channel |-> "loop"]

\* An await of the set-up is answered; after the last one the session is ready.
Answered ==
  /\ pc \in DOMAIN NextAwait /\ server = "up"
  /\ pc' = NextAwait[pc] /\ waited' = 0
  /\ IF pc = "channel" THEN SetState("Ready") ELSE UNCHANGED state
  /\ UNCHANGED <<handle, input, output, writes, server>>

\* ... or refused, or its connection is lost.
Refused == pc \in Errors /\ EndsWith(pc)

Limit == IF pc = "connect" THEN ConnectTimeout ELSE Inactivity

\* Time passes in an await of the set-up, or of a write the server does not take.
Waits ==
  /\ pc \in Errors \cup {"write"} /\ waited < Limit
  /\ waited' = waited + 1
  /\ UNCHANGED <<handle, input, state, output, pc, writes, server>>

TimesOut == pc \in Errors /\ waited = Limit /\ EndsWith(pc)

TakeWrite ==
  /\ pc = "loop" /\ cmds # <<>> /\ Head(cmds).kind = "write"
  /\ pc' = "write" /\ writing' = Head(cmds).n /\ cmds' = Tail(cmds)
  /\ UNCHANGED <<handle, accepted, asked, state, output, handed, taken, window, waited, server>>

\* channel.data returns: the write is with the connection, or it failed, because the
\* connection did or after the inactivity limit; run_session does not look which.
WriteEnds ==
  /\ pc = "write" /\ pc' = "loop" /\ writing' = 0 /\ waited' = 0
  /\ \/ /\ server = "up" /\ window > 0
        /\ handed' = Append(handed, writing) /\ window' = window - 1 /\ UNCHANGED server
     \/ (server = "gone" \/ waited = Limit) /\ server' = "gone" /\ UNCHANGED <<handed, window>>
  /\ UNCHANGED <<handle, input, state, output, taken>>

TakeResize ==
  /\ pc = "loop" /\ cmds # <<>> /\ Head(cmds).kind = "resize"
  /\ cmds' = Tail(cmds)
  /\ UNCHANGED <<handle, accepted, asked, state, output, pc, writes, waited, server>>

\* Mutant: the session ends only once its output has been polled.
HangUpWhenPolled ==
  /\ pc = "loop" /\ out = <<>>
  /\ IF cmds = <<>> THEN ~tracked ELSE Head(cmds).kind = "close"
  /\ EndsWith("Closed")

\* Mutant: a close anywhere in the channel is obeyed first.
HangUpAtOnce ==
  /\ pc = "loop"
  /\ (cmds = <<>> /\ ~tracked) \/ \E i \in DOMAIN cmds : cmds[i].kind = "close"
  /\ EndsWith("Closed")

\* A close command, or the end of the channel when the session is forgotten.
HangUp ==
  /\ pc = "loop"
  /\ IF cmds = <<>> THEN ~tracked ELSE Head(cmds).kind = "close"
  /\ EndsWith("Closed")

\* Mutant: a full buffer turns the new message away.
PushOrDrop ==
  /\ pc = "loop" /\ server = "up" /\ arrived < MaxMsgs
  /\ arrived' = arrived + 1
  /\ out' = IF Len(out) = MaxOut THEN out ELSE Append(out, arrived + 1)
  /\ UNCHANGED <<handle, input, state, pc, writes, waited, server>>

\* A message of the server: push_out makes room by dropping the oldest.
Push ==
  /\ pc = "loop" /\ server = "up" /\ arrived < MaxMsgs
  /\ arrived' = arrived + 1
  /\ out' = Append(IF Len(out) = MaxOut THEN Tail(out) ELSE out, arrived + 1)
  /\ UNCHANGED <<handle, input, state, pc, writes, waited, server>>

\* Eof or Close of the server's side, or its connection is gone: queued commands are lost.
RemoteEof == pc = "loop" /\ server = "gone" /\ EndsWith("Closed")

TakeCommand == TakeWrite \/ TakeResize \/ HangUp

\* The connection's own task sends what it was handed, while run_session has not ended:
\* with it the runtime goes, and what is still handed is lost.
Send ==
  /\ pc # "done" /\ server = "up" /\ handed # <<>>
  /\ taken' = Append(taken, Head(handed)) /\ handed' = Tail(handed)
  /\ UNCHANGED <<handle, input, state, output, pc, writing, window, waited, server>>

Await == Answered \/ Refused \/ Waits \/ TimesOut \/ WriteEnds \/ RemoteEof

Thread == Await \/ TakeCommand \/ Push \/ Send

-----------------------------------------------------------------------------
(* The ops, on the UI thread.                                              *)

Cmd(kind) == [kind |-> kind, n |-> 0]

Poll ==
  /\ tracked
  /\ seen' = state
  /\ delivered' = delivered \o out /\ out' = <<>>
  /\ tracked' = (state \notin Terminal)
  /\ UNCHANGED <<closed, input, state, arrived, pc, writes, waited, server>>

\* ssh_write and ssh_resize: refused once the receiver is gone, else queued.
Write ==
  /\ tracked /\ asked < MaxCmds /\ asked' = asked + 1
  /\ IF pc = "done" THEN UNCHANGED <<cmds, accepted>>
     ELSE accepted' = accepted + 1 /\ cmds' = Append(cmds, [kind |-> "write", n |-> accepted + 1])
  /\ UNCHANGED <<handle, state, output, pc, writes, waited, server>>

Resize ==
  /\ tracked /\ asked < MaxCmds /\ asked' = asked + 1
  /\ cmds' = IF pc = "done" THEN cmds ELSE Append(cmds, Cmd("resize"))
  /\ UNCHANGED <<handle, accepted, state, output, pc, writes, waited, server>>

Close ==
  /\ tracked /\ tracked' = FALSE /\ closed' = TRUE
  /\ cmds' = IF pc = "done" THEN cmds ELSE Append(cmds, Cmd("close"))
  /\ UNCHANGED <<delivered, seen, accepted, asked, state, output, pc, writes, waited, server>>

Ops == Poll \/ Write \/ Resize \/ Close

-----------------------------------------------------------------------------
(* The server.  It grants window as it reads; it hangs up, or is lost.     *)

GrantsWindow ==
  /\ server = "up" /\ window < Window /\ window' = window + 1
  /\ UNCHANGED <<handle, input, state, output, pc, writing, handed, taken, waited, server>>

ServerEnds ==
  /\ server = "up" /\ server' = "gone"
  /\ UNCHANGED <<handle, input, state, output, pc, writes, waited>>

Next == Thread \/ Ops \/ GrantsWindow \/ ServerEnds

Spec == Init /\ [][Next]_sshVars

-----------------------------------------------------------------------------
(* Properties.                                                             *)

\* What a poll can see of the session, as a handle of NetHandle.
AsHandle == INSTANCE NetHandle WITH
  Causes    <- Terminal,
  NoCause   <- "none",
  Capacity  <- MaxOut,
  DropOldest <- TRUE,
  phase     <- IF ~tracked THEN "gone" ELSE IF state \in Terminal THEN "ended"
               ELSE IF state = "Ready" THEN "ready" ELSE "connecting",
  cause     <- IF tracked /\ state \in Terminal THEN state ELSE "none",
  arrived   <- IF tracked THEN arrived ELSE 0,
  queue     <- IF tracked THEN out ELSE <<>>,
  told      <- IF seen \in Terminal THEN seen ELSE "none"

\* The session implements the handle: output is returned once and in order, a full buffer
\* loses its oldest output and nothing else, and the end comes with the last of it
\* (push_out and set_state against ssh_poll).
ImplementsHandle == AsHandle!Spec

\* A close does not overtake the writes before it: when a session that its plugin closed
\* has ended, and its server lives, every write was sent or is with the connection, in
\* order (ssh_write, ssh_close, run_session).  What is only handed over is lost.
CloseFollowsWrites ==
  closed /\ pc = "done" /\ state = "Closed" /\ server = "up" =>
    taken \o handed = [i \in 1..accepted |-> i]

\* The thread of a session that was closed ends, wherever it was (ssh_close, run_session).
CloseEndsSession == ~tracked ~> pc = "done"
=============================================================================
