------------------------------- MODULE NetHub --------------------------------
(***************************************************************************)
(* The network handles of the plugins (crates/plugin-host, net_ops.rs):    *)
(* HTTP requests, TCP connections, UDP listeners and SSH sessions.  The    *)
(* hub keeps each kind in a map of its own, under a lock of its own, and   *)
(* the kinds share nothing but the counter of their ids; so a behaviour    *)
(* here is one of handles of one kind, and every property of the hub is    *)
(* one of a kind.                                                          *)
(***************************************************************************)
EXTENDS Naturals

CONSTANTS MaxRx, SendRoom, MaxChunks, MaxSends,           (* TcpConnection  *)
          Listeners, MaxQueue, MaxDatagrams,              (* UdpListener    *)
          Requests, None,                                 (* HttpRequests   *)
          MaxOut, ConnectTimeout, Inactivity, Window,     (* SshSession     *)
          MaxMsgs, MaxCmds

VARIABLES
  kind,       (* the kind of handle the plugin works with                  *)
  tcpTracked, tcpStop, tcpState, tcpRx, tcpSlot, tcpPc, tcpOp, tcpSends, tcpRoom,
  tcpSent, tcpPeer, tcpRead, tcpPushed, tcpDelivered, tcpSeen, tcpRefused,
  udpTracked, udpStop, udpState, udpPackets, udpPc, udpArrived, udpDelivered,
  udpSeen, udpForeign,
  httpNextId, httpSlots, httpIdOf, httpThread, httpTold, httpGiven,
  sshTracked, sshCmds, sshState, sshOut, sshPc, sshWriting, sshHanded, sshWaited,
  sshWindow, sshServer, sshArrived, sshDelivered, sshSeen, sshAccepted, sshTaken,
  sshClosed, sshAsked

tcpAll  == <<tcpTracked, tcpStop, tcpState, tcpRx, tcpSlot, tcpPc, tcpOp, tcpSends, tcpRoom,
             tcpSent, tcpPeer, tcpRead, tcpPushed, tcpDelivered, tcpSeen, tcpRefused>>
udpAll  == <<udpTracked, udpStop, udpState, udpPackets, udpPc, udpArrived, udpDelivered,
             udpSeen, udpForeign>>
httpAll == <<httpNextId, httpSlots, httpIdOf, httpThread, httpTold, httpGiven>>
sshAll  == <<sshTracked, sshCmds, sshState, sshOut, sshPc, sshWriting, sshHanded, sshWaited,
             sshWindow, sshServer, sshArrived, sshDelivered, sshSeen, sshAccepted, sshTaken,
             sshClosed, sshAsked>>
hubVars == <<kind, tcpAll, udpAll, httpAll, sshAll>>

Tcp == INSTANCE TcpConnection WITH
  tracked <- tcpTracked, stop <- tcpStop, state <- tcpState, rx <- tcpRx, slot <- tcpSlot,
  pc <- tcpPc, op <- tcpOp, sends <- tcpSends, room <- tcpRoom, sent <- tcpSent,
  peer <- tcpPeer, read <- tcpRead, pushed <- tcpPushed, delivered <- tcpDelivered,
  seen <- tcpSeen, refused <- tcpRefused

Udp == INSTANCE UdpListener WITH
  tracked <- udpTracked, stop <- udpStop, state <- udpState, packets <- udpPackets,
  pc <- udpPc, arrived <- udpArrived, delivered <- udpDelivered, seen <- udpSeen,
  foreign <- udpForeign

Http == INSTANCE HttpRequests WITH
  nextId <- httpNextId, slots <- httpSlots, idOf <- httpIdOf, thread <- httpThread,
  told <- httpTold, given <- httpGiven

Ssh == INSTANCE SshSession WITH
  tracked <- sshTracked, cmds <- sshCmds, state <- sshState, out <- sshOut, pc <- sshPc,
  writing <- sshWriting, handed <- sshHanded, waited <- sshWaited, window <- sshWindow,
  server <- sshServer, arrived <- sshArrived, delivered <- sshDelivered, seen <- sshSeen,
  accepted <- sshAccepted, taken <- sshTaken, closed <- sshClosed, asked <- sshAsked

ASSUME HubAssumption ==
  Tcp!TcpAssumption /\ Udp!UdpAssumption /\ Http!HttpAssumption /\ Ssh!SshAssumption

Init ==
  /\ kind \in {"tcp", "udp", "http", "ssh"}
  /\ Tcp!Init /\ Udp!Init /\ Http!Init /\ Ssh!Init

TcpStep ==
  /\ kind = "tcp" /\ UNCHANGED <<kind, udpAll, httpAll, sshAll>>
  /\ Tcp!Next

UdpStep ==
  /\ kind = "udp" /\ UNCHANGED <<kind, tcpAll, httpAll, sshAll>>
  /\ Udp!Next

HttpStep ==
  /\ kind = "http" /\ UNCHANGED <<kind, tcpAll, udpAll, sshAll>>
  /\ Http!Next

SshStep ==
  /\ kind = "ssh" /\ UNCHANGED <<kind, tcpAll, udpAll, httpAll>>
  /\ Ssh!Next

Next == TcpStep \/ UdpStep \/ HttpStep \/ SshStep

Spec == Init /\ [][Next]_hubVars

\* The threads run: connect_timeout and the read timeouts bound each of their calls, ureq's
\* timeout an HTTP request, and every await of a session ends or time passes in it.  A TCP
\* send returns as soon as the kernel takes its bytes, and the plugin polls its requests.
\* select! picks a ready branch at random, so a session takes a command that is there in
\* the end, however many messages come before it.  Nothing is assumed of the peers.
FairSpec ==
  /\ Spec
  /\ WF_tcpAll(kind = "tcp" /\ Tcp!Thread)
  /\ WF_tcpAll(kind = "tcp" /\ Tcp!SendReturns)
  /\ \A l \in Listeners : WF_udpAll(kind = "udp" /\ Udp!Thread(l))
  /\ \A r \in Requests : WF_httpAll(kind = "http" /\ Http!Perform(r))
  /\ \A r \in Requests : WF_httpAll(kind = "http" /\ Http!Poll(r))
  /\ WF_sshAll(kind = "ssh" /\ Ssh!Await)
  /\ SF_sshAll(kind = "ssh" /\ Ssh!TakeCommand)

-----------------------------------------------------------------------------
(* Properties.  Each is that of a kind; its module says what it is about.  *)

\* Every variable has its type; no buffer or queue of a handle passes its cap, whatever its
\* peer sends and however slowly the plugin polls (push_rx, run_udp_thread, push_out).
TypeOK ==
  /\ kind \in {"tcp", "udp", "http", "ssh"}
  /\ Tcp!TypeOK /\ Udp!TypeOK /\ Http!TypeOK /\ Ssh!TypeOK

\* A plugin that was told Ready is never answered "not connected" (run_tcp_thread, tcp_send).
ReadyMeansSendable == Tcp!ReadyMeansSendable

\* A plugin told that a connection is closed has got everything the peer sent (push_rx,
\* run_tcp_thread, tcp_poll).
ClosedMeansAll == Tcp!ClosedMeansAll

\* A TCP connection is a handle of NetHandle: nothing read is lost, repeated or reordered,
\* and the poll that tells the end returns the last of it (tcp_poll, push_rx).
TcpImplementsHandle == Tcp!ImplementsHandle

\* So is a UDP listener, whose full queue drops its oldest datagram (udp_poll,
\* run_udp_thread).
UdpImplementsHandle == Udp!ImplementsHandle

\* So is an SSH session, whose full buffer drops its oldest output (ssh_poll, push_out).
SshImplementsHandle == Ssh!ImplementsHandle

\* The thread of a forgotten connection ends, whatever the peer does (tcp_close, tcp_poll).
TcpThreadEnds == Tcp!ThreadEnds

\* The port of a closed listener comes free again (udp_close, run_udp_thread).
PortComesBack == Udp!PortComesBack

\* A request is answered by its own result, never by the late result of a cancelled one
\* (new_id, the thread of http_request, http_cancel).
AnswersItsRequest == Http!AnswersItsRequest

\* A slot nobody can poll any more holds no response (the thread of http_request).
NoResponseIsStranded == Http!NoResponseIsStranded

\* Every request that got an id and is not cancelled is told its end (perform_http,
\* http_poll).
EveryRequestEnds == Http!EveryRequestEnds

\* The close of a session does not overtake the writes before it (ssh_write, ssh_close,
\* run_session).
CloseFollowsWrites == Ssh!CloseFollowsWrites

\* The thread of a session that was closed ends, wherever it was (ssh_close, run_session).
CloseEndsSession == Ssh!CloseEndsSession
=============================================================================
