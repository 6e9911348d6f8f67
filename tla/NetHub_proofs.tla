--------------------------- MODULE NetHub_proofs ----------------------------
(***************************************************************************)
(* What the network handles promise, for any caps, any number of requests, *)
(* listeners, chunks, messages and commands.  Each kind has an inductive   *)
(* invariant and a section of its own: its types, what more must be known  *)
(* of it, that every step of it keeps them, and what follows.  The last    *)
(* section is the hub's: a step of one kind leaves the other kinds alone.  *)
(***************************************************************************)
EXTENDS NetHub, Sequences, Functions, TLAPS

-----------------------------------------------------------------------------
(* TCP connections.                                                        *)

\* The invariant follows the chunks from the socket to the plugin: what was delivered and what
\* waits in rx are, in order, the chunks pushed so far, and all that was read was pushed unless
\* the buffer was full.

\* Where the thread is and what it has published.
TcpStateFitsThread ==
  /\ tcpPc \in {"connect", "clone", "ready"} => tcpState = "Connecting"
  /\ tcpPc \in {"loop", "recv", "overflow"} => tcpState = "Ready"

\* The clone is published before the state is Ready, and stays.
TcpCloneComesFirst ==
  tcpPc \in {"ready", "loop", "recv", "overflow"} \/ tcpState = "Ready" \/ tcpSeen = "Ready"
    => tcpSlot

\* The chunks are in order, between the thread and the plugin.
TcpChunksInOrder ==
  /\ Len(tcpDelivered) + Len(tcpRx) = tcpPushed
  /\ \A i \in 1..Len(tcpDelivered) : tcpDelivered[i] = i
  /\ \A i \in 1..Len(tcpRx) : tcpRx[i] = Len(tcpDelivered) + i

\* A chunk that was read is lost only to a full buffer, and then the thread ends.
TcpReadIsPushed ==
  /\ tcpPushed <= tcpRead /\ tcpRead <= tcpSent
  /\ tcpPc \notin {"overflow", "done"} => tcpPushed = tcpRead

\* A connection that is tracked and ended by its peer has been read to the end.
TcpClosedIsRead ==
  /\ tcpTracked /\ tcpState = "Closed" => tcpPeer = "closed" /\ tcpRead = tcpSent
       /\ tcpPushed = tcpRead
  /\ tcpSeen \in Tcp!Terminal => ~tcpTracked
  /\ tcpSeen = "Closed" => tcpPeer = "closed" /\ Len(tcpDelivered) = tcpSent

TcpIInv ==
  /\ Tcp!TypeOK /\ TcpStateFitsThread /\ TcpCloneComesFirst /\ TcpChunksInOrder /\ TcpReadIsPushed
  /\ TcpClosedIsRead /\ Tcp!ReadyMeansSendable

\* A connection begins with nothing read or sent.
LEMMA TcpInitInv == ASSUME Tcp!TcpAssumption PROVE Tcp!Init => TcpIInv
<1> SUFFICES ASSUME Tcp!TcpAssumption, Tcp!Init PROVE TcpIInv
  OBVIOUS
<1> USE DEF Tcp!Init
<1>1. Tcp!TypeOK
  <2>1. tcpRx \in Seq(Nat) /\ tcpDelivered \in Seq(Nat) /\ Len(tcpRx) = 0 /\ 0 <= MaxRx
        /\ tcpRoom \in 0..SendRoom
    BY DEF Tcp!TcpAssumption
  <2>2. QED
    BY <2>1 DEF Tcp!TypeOK, Tcp!States
<1>2. TcpStateFitsThread /\ TcpCloneComesFirst /\ TcpReadIsPushed /\ TcpClosedIsRead
        /\ Tcp!ReadyMeansSendable
  BY DEF TcpStateFitsThread, TcpCloneComesFirst, TcpReadIsPushed, TcpClosedIsRead,
     Tcp!ReadyMeansSendable, Tcp!Terminal
<1>3. TcpChunksInOrder
  <2>1. Len(tcpRx) = 0 /\ Len(tcpDelivered) = 0 /\ tcpPushed = 0
    OBVIOUS
  <2>2. 1..0 = {}
    OBVIOUS
  <2>3. QED
    BY <2>1, <2>2 DEF TcpChunksInOrder
<1>4. QED
  BY <1>1, <1>2, <1>3 DEF TcpIInv

\* The steps of the thread that end it.
LEMMA TcpEndsInv ==
  ASSUME TcpIInv, NEW s \in Tcp!Terminal, Tcp!EndsWith(s), tcpPc # "done",
         s = "Closed" => tcpPc = "recv" /\ (~tcpTracked \/ (tcpPeer = "closed"
           /\ tcpRead = tcpSent))
  PROVE  TcpIInv'
BY DEF TcpIInv, Tcp!EndsWith, Tcp!SetState, Tcp!handle, Tcp!buffers, Tcp!sending, Tcp!remote,
   Tcp!TypeOK, Tcp!States, Tcp!Terminal, TcpStateFitsThread, TcpCloneComesFirst,
   TcpChunksInOrder, TcpReadIsPushed, TcpClosedIsRead, Tcp!ReadyMeansSendable

\* The steps of the thread that only go on.
LEMMA TcpGoesInv ==
  ASSUME TcpIInv, NEW p \in {"clone", "ready", "loop", "recv", "done"}, Tcp!GoesTo(p),
         \/ tcpPc = "connect" /\ p = "clone" /\ UNCHANGED tcpSlot
         \/ tcpPc = "clone" /\ p = "ready" /\ tcpSlot' = TRUE
         \/ tcpPc \in {"loop", "recv"} /\ p \in {"loop", "recv", "done"} /\ UNCHANGED tcpSlot
  PROVE  TcpIInv'
<1> USE DEF TcpIInv
<1>1. tcpPc' = p /\ UNCHANGED <<tcpTracked, tcpStop, tcpDelivered, tcpSeen, tcpState, tcpRx,
                                tcpRead, tcpPushed, tcpOp, tcpSends,
                             tcpRefused, tcpRoom, tcpSent, tcpPeer>>
  BY DEF Tcp!GoesTo, Tcp!handle, Tcp!buffers, Tcp!sending, Tcp!remote
<1>2. tcpSlot' = tcpSlot \/ tcpSlot' = TRUE
  OBVIOUS
<1>3. Tcp!TypeOK'
  BY <1>1, <1>2 DEF Tcp!TypeOK
<1>4. TcpStateFitsThread' /\ TcpCloneComesFirst' /\ Tcp!ReadyMeansSendable'
  BY <1>1 DEF TcpStateFitsThread, TcpCloneComesFirst, Tcp!ReadyMeansSendable, Tcp!TypeOK
<1>5. TcpChunksInOrder' /\ TcpReadIsPushed' /\ TcpClosedIsRead'
  BY <1>1 DEF TcpChunksInOrder, TcpReadIsPushed, TcpClosedIsRead, TcpStateFitsThread, Tcp!Terminal
<1>6. QED
  BY <1>3, <1>4, <1>5

\* A chunk that is read is the next one, and goes behind those that wait.
LEMMA TcpReadInv == ASSUME Tcp!TcpAssumption, TcpIInv, Tcp!ReadChunk PROVE TcpIInv'
<1> USE DEF TcpIInv, Tcp!ReadChunk, Tcp!ReadStep, Tcp!handle, Tcp!sending, Tcp!remote, Tcp!TypeOK
<1>1. CASE Len(tcpRx) < MaxRx
  <2>1. /\ tcpRx' = Append(tcpRx, tcpRead + 1) /\ tcpPushed' = tcpPushed + 1
             /\ tcpRead' = tcpRead + 1
        /\ tcpPc' = "loop" /\ tcpPc = "recv" /\ tcpRead < tcpSent
        /\ UNCHANGED <<tcpDelivered, tcpSeen, tcpSent, tcpState, tcpSlot, tcpTracked, tcpPeer,
                       tcpRefused>>
    BY <1>1
  <2>2. tcpRx' \in Seq(Nat) /\ Len(tcpRx') = Len(tcpRx) + 1 /\ tcpRx'[Len(tcpRx) + 1] = tcpRead + 1
        /\ \A i \in 1..Len(tcpRx) : tcpRx'[i] = tcpRx[i]
    BY <2>1
  <2>3. TcpChunksInOrder'
    BY <2>1, <2>2 DEF TcpChunksInOrder, TcpReadIsPushed
  <2>4. Tcp!TypeOK'
    BY <1>1, <2>2 DEF Tcp!TcpAssumption
  <2>5. QED
    BY <2>1, <2>3, <2>4 DEF TcpStateFitsThread, TcpCloneComesFirst, TcpReadIsPushed,
       TcpClosedIsRead, Tcp!ReadyMeansSendable, Tcp!Terminal
<1>2. CASE ~(Len(tcpRx) < MaxRx)
  BY <1>2 DEF TcpStateFitsThread, TcpCloneComesFirst, TcpChunksInOrder, TcpReadIsPushed,
     TcpClosedIsRead, Tcp!ReadyMeansSendable, Tcp!Terminal
<1>3. QED
  BY <1>1, <1>2

\* A poll delivers what waits, and an end is told with the last of it.
LEMMA TcpPollInv == ASSUME Tcp!TcpAssumption, TcpIInv, Tcp!Poll PROVE TcpIInv'
<1> USE DEF TcpIInv
<1>1. /\ tcpTracked /\ tcpSeen' = tcpState /\ tcpDelivered' = tcpDelivered \o tcpRx
           /\ tcpRx' = <<>>
      /\ UNCHANGED <<tcpState, tcpRead, tcpPushed, tcpSlot, tcpPc, tcpOp, tcpSends, tcpRefused,
                     tcpRoom, tcpSent, tcpPeer>>
      /\ tcpState \in Tcp!Terminal => tcpTracked' = FALSE /\ tcpStop' = TRUE
      /\ tcpState \notin Tcp!Terminal => UNCHANGED <<tcpTracked, tcpStop>>
  BY DEF Tcp!Poll, Tcp!sending, Tcp!remote
<1>2. /\ tcpDelivered' \in Seq(Nat) /\ Len(tcpDelivered') = Len(tcpDelivered) + Len(tcpRx)
      /\ \A i \in 1..Len(tcpDelivered) : tcpDelivered'[i] = tcpDelivered[i]
      /\ \A i \in 1..Len(tcpRx) : tcpDelivered'[Len(tcpDelivered) + i] = tcpRx[i]
  BY <1>1 DEF Tcp!TypeOK
<1>3. TcpChunksInOrder'
  <2>1. Len(tcpRx') = 0 /\ Len(tcpDelivered') = tcpPushed'
    BY <1>1, <1>2 DEF TcpChunksInOrder
  <2>2. ASSUME NEW i \in 1..Len(tcpDelivered')
        PROVE  tcpDelivered'[i] = i
    <3>1. CASE i \in 1..Len(tcpDelivered)
      BY <1>2, <3>1 DEF TcpChunksInOrder
    <3>2. CASE i \notin 1..Len(tcpDelivered)
      <4>1. i - Len(tcpDelivered) \in 1..Len(tcpRx)
        BY <1>2, <2>2, <3>2 DEF Tcp!TypeOK
      <4>2. tcpDelivered'[Len(tcpDelivered) + (i - Len(tcpDelivered))]
              = tcpRx[i - Len(tcpDelivered)]
        BY <1>2, <4>1
      <4>3. QED
        BY <2>2, <4>1, <4>2 DEF TcpChunksInOrder, Tcp!TypeOK
    <3>3. QED
      BY <3>1, <3>2
  <2>3. QED
    BY <2>1, <2>2, <1>1, <1>2 DEF TcpChunksInOrder, Tcp!TypeOK
<1>4. Tcp!TypeOK'
  <2>1. tcpRx' \in Seq(Nat) /\ Len(tcpRx') <= MaxRx
    BY <1>1 DEF Tcp!TcpAssumption
  <2>2. tcpTracked' \in BOOLEAN /\ tcpStop' \in BOOLEAN
    BY <1>1 DEF Tcp!TypeOK
  <2>3. QED
    BY <1>1, <1>2, <2>1, <2>2 DEF Tcp!TypeOK
<1>5. TcpClosedIsRead'
  BY <1>1, <1>2 DEF TcpClosedIsRead, TcpChunksInOrder, Tcp!TypeOK, Tcp!Terminal
<1>6. QED
  BY <1>1, <1>3, <1>4, <1>5 DEF TcpStateFitsThread, TcpCloneComesFirst, TcpReadIsPushed,
     Tcp!ReadyMeansSendable

\* A send finds the clone once the plugin was told Ready; a close takes nothing away.
LEMMA TcpOpsInv == ASSUME Tcp!TcpAssumption, TcpIInv, Tcp!Send \/ Tcp!SendReturns
                     \/ Tcp!Close PROVE TcpIInv'
<1> USE DEF TcpIInv
<1>1. UNCHANGED <<tcpDelivered, tcpSeen, tcpState, tcpRx, tcpRead, tcpPushed, tcpSlot, tcpPc,
                  tcpSent, tcpPeer>>
  BY DEF Tcp!Send, Tcp!SendReturns, Tcp!Close, Tcp!handle, Tcp!buffers, Tcp!sending, Tcp!remote
<1>2. /\ tcpTracked' \in BOOLEAN /\ tcpStop' \in BOOLEAN /\ (tcpTracked' => tcpTracked)
      /\ tcpOp' \in {"idle", "send"} /\ tcpSends' \in Nat
      /\ tcpRoom' \in 0..SendRoom
  <2>1. CASE Tcp!Send
    BY <2>1 DEF Tcp!Send, Tcp!TypeOK, Tcp!handle
  <2>2. CASE Tcp!SendReturns
    BY <2>2 DEF Tcp!SendReturns, Tcp!TypeOK, Tcp!TcpAssumption, Tcp!handle
  <2>3. CASE Tcp!Close
    BY <2>3 DEF Tcp!Close, Tcp!TypeOK, Tcp!sending
  <2>4. QED
    BY <2>1, <2>2, <2>3
<1>3. tcpRefused' = FALSE
  BY DEF Tcp!Send, Tcp!SendReturns, Tcp!Close, Tcp!sending, TcpCloneComesFirst,
     Tcp!ReadyMeansSendable, Tcp!TypeOK
<1>4. Tcp!TypeOK'
  BY <1>1, <1>2, <1>3 DEF Tcp!TypeOK
<1>5. TcpStateFitsThread' /\ TcpCloneComesFirst' /\ Tcp!ReadyMeansSendable'
  BY <1>1, <1>3 DEF TcpStateFitsThread, TcpCloneComesFirst, Tcp!ReadyMeansSendable
<1>6. TcpChunksInOrder' /\ TcpReadIsPushed' /\ TcpClosedIsRead'
  BY <1>1, <1>2 DEF TcpChunksInOrder, TcpReadIsPushed, TcpClosedIsRead
<1>7. QED
  BY <1>4, <1>5, <1>6

\* A peer that has closed sends nothing any more.
LEMMA TcpPeerInv == ASSUME Tcp!TcpAssumption, TcpIInv, Tcp!PeerSends \/ Tcp!PeerReads
                      \/ Tcp!PeerEnds PROVE TcpIInv'
<1> USE DEF TcpIInv
<1>1. UNCHANGED <<tcpTracked, tcpStop, tcpDelivered, tcpSeen, tcpState, tcpRx, tcpRead,
                  tcpPushed, tcpSlot, tcpPc, tcpOp, tcpSends,
                  tcpRefused>>
  BY DEF Tcp!PeerSends, Tcp!PeerReads, Tcp!PeerEnds, Tcp!handle, Tcp!buffers, Tcp!sending,
     Tcp!remote
<1>2. /\ tcpSent' \in Nat /\ tcpSent' >= tcpSent /\ tcpRoom' \in 0..SendRoom
      /\ tcpPeer' \in {"open", "closed", "reset"}
      /\ tcpPeer = "closed" => UNCHANGED <<tcpSent, tcpPeer>>
  <2>1. CASE Tcp!PeerSends
    BY <2>1 DEF Tcp!PeerSends, Tcp!Linked, Tcp!TypeOK
  <2>2. CASE Tcp!PeerReads
    BY <2>2 DEF Tcp!PeerReads, Tcp!TypeOK, Tcp!TcpAssumption, Tcp!remote
  <2>3. CASE Tcp!PeerEnds
    BY <2>3 DEF Tcp!PeerEnds, Tcp!Linked, Tcp!TypeOK
  <2>4. QED
    BY <2>1, <2>2, <2>3
<1>3. Tcp!TypeOK'
  BY <1>1, <1>2 DEF Tcp!TypeOK
<1>4. TcpStateFitsThread' /\ TcpCloneComesFirst' /\ Tcp!ReadyMeansSendable' /\ TcpChunksInOrder'
  BY <1>1 DEF TcpStateFitsThread, TcpCloneComesFirst, Tcp!ReadyMeansSendable, TcpChunksInOrder
<1>5. TcpReadIsPushed' /\ TcpClosedIsRead'
  BY <1>1, <1>2 DEF TcpReadIsPushed, TcpClosedIsRead, Tcp!TypeOK
<1>6. QED
  BY <1>3, <1>4, <1>5

\* No step of the thread, of an op or of the peer breaks the invariant.
LEMMA TcpNextInv == ASSUME Tcp!TcpAssumption PROVE TcpIInv /\ [Tcp!Next]_(Tcp!tcpVars) => TcpIInv'
<1> SUFFICES ASSUME TcpIInv, [Tcp!Next]_(Tcp!tcpVars) PROVE TcpIInv'
  OBVIOUS
<1>1. CASE Tcp!ConnectFails \/ Tcp!CloneFails \/ Tcp!Overflow \/ Tcp!ReadEof \/ Tcp!ReadError
  BY <1>1, TcpEndsInv DEF Tcp!ConnectFails, Tcp!CloneFails, Tcp!Overflow, Tcp!ReadEof,
     Tcp!ReadError, Tcp!Terminal
<1>2. CASE Tcp!Connected \/ Tcp!StoreClone \/ Tcp!Loop \/ Tcp!ReadTimeout
  BY <1>2, TcpGoesInv DEF Tcp!Connected, Tcp!StoreClone, Tcp!Loop, Tcp!ReadTimeout
<1>3. CASE Tcp!SetReady
  BY <1>3 DEF Tcp!SetReady, Tcp!SetState, TcpIInv, Tcp!handle, Tcp!buffers, Tcp!sending,
     Tcp!remote, Tcp!TypeOK, Tcp!States, Tcp!Terminal, TcpStateFitsThread, TcpCloneComesFirst,
     TcpChunksInOrder, TcpReadIsPushed, TcpClosedIsRead, Tcp!ReadyMeansSendable
<1>4. CASE Tcp!ReadChunk
  BY <1>4, TcpReadInv
<1>5. CASE Tcp!Poll
  BY <1>5, TcpPollInv
<1>6. CASE Tcp!Send \/ Tcp!SendReturns \/ Tcp!Close
  BY <1>6, TcpOpsInv
<1>7. CASE Tcp!PeerSends \/ Tcp!PeerReads \/ Tcp!PeerEnds
  BY <1>7, TcpPeerInv
<1>8. CASE UNCHANGED Tcp!tcpVars
  BY <1>8 DEF Tcp!tcpVars, TcpIInv, Tcp!handle, Tcp!buffers, Tcp!sending, Tcp!remote, Tcp!TypeOK,
     TcpStateFitsThread, TcpCloneComesFirst, TcpChunksInOrder, TcpReadIsPushed, TcpClosedIsRead,
     Tcp!ReadyMeansSendable
<1>9. QED
  BY <1>1, <1>2, <1>3, <1>4, <1>5, <1>6, <1>7, <1>8 DEF Tcp!Next, Tcp!Thread, Tcp!Ops

\* What was delivered by the poll that told Closed is all that the peer has sent.
LEMMA TcpInvClosedMeansAll == TcpIInv => Tcp!ClosedMeansAll
<1> SUFFICES ASSUME TcpIInv, tcpSeen = "Closed" PROVE tcpDelivered = [i \in 1..tcpSent |-> i]
  BY DEF Tcp!ClosedMeansAll
<1>1. Len(tcpDelivered) = tcpSent /\ tcpDelivered \in Seq(Nat)
      /\ \A i \in 1..Len(tcpDelivered) : tcpDelivered[i] = i
  BY DEF TcpIInv, TcpClosedIsRead, TcpChunksInOrder, Tcp!TypeOK
<1>2. QED
  BY <1>1

-----------------------------------------------------------------------------
(* The connection implements NetHandle.                                    *)

\* A new connection is a new handle.
LEMMA TcpInitImplements == Tcp!Init => Tcp!AsHandle!Init
BY DEF Tcp!Init, Tcp!AsHandle!Init, Tcp!Terminal

\* The thread steps that end the connection end the handle, unless it is gone.
LEMMA TcpEndsImplements ==
  ASSUME TcpIInv, NEW s \in Tcp!Terminal, Tcp!EndsWith(s), tcpPc # "done"
  PROVE  [Tcp!AsHandle!Next]_(Tcp!AsHandle!handleVars)
<1>1. UNCHANGED <<tcpTracked, tcpStop, tcpDelivered, tcpSeen, tcpRx, tcpPushed>>
                  /\ tcpState' = s /\ tcpState \notin Tcp!Terminal
  BY DEF Tcp!EndsWith, Tcp!SetState, Tcp!handle, Tcp!buffers, TcpIInv, TcpStateFitsThread,
     Tcp!TypeOK, Tcp!Terminal
<1>2. CASE tcpTracked
  BY <1>1, <1>2 DEF Tcp!AsHandle!Next, Tcp!AsHandle!End, Tcp!Terminal
<1>3. CASE ~tcpTracked
  BY <1>1, <1>3 DEF Tcp!AsHandle!handleVars
<1>4. QED
  BY <1>2, <1>3

\* A chunk that is pushed arrives at the handle.
LEMMA TcpReadImplements ==
  ASSUME TcpIInv, Tcp!ReadChunk
  PROVE  [Tcp!AsHandle!Next]_(Tcp!AsHandle!handleVars)
<1>1. /\ UNCHANGED <<tcpTracked, tcpDelivered, tcpSeen, tcpState>> /\ tcpState = "Ready"
           /\ tcpPushed = tcpRead
      /\ \/ Len(tcpRx) < MaxRx /\ tcpRx' = Append(tcpRx, tcpRead + 1) /\ tcpPushed' = tcpPushed + 1
         \/ UNCHANGED <<tcpRx, tcpPushed>>
  BY DEF Tcp!ReadChunk, Tcp!ReadStep, Tcp!handle, TcpIInv, TcpStateFitsThread, TcpReadIsPushed
<1>2. CASE UNCHANGED <<tcpRx, tcpPushed>> \/ ~tcpTracked
  BY <1>1, <1>2 DEF Tcp!AsHandle!handleVars
<1>3. CASE tcpTracked /\ tcpRx' = Append(tcpRx, tcpRead + 1) /\ tcpPushed' = tcpPushed + 1
             /\ Len(tcpRx) < MaxRx
  BY <1>1, <1>3 DEF Tcp!AsHandle!Next, Tcp!AsHandle!Arrive, Tcp!Terminal
<1>4. QED
  BY <1>1, <1>2, <1>3

\* A poll of the connection is a poll of the handle, the last one if it tells an end.
LEMMA TcpPollImplements ==
  ASSUME TcpIInv, Tcp!Poll
  PROVE  [Tcp!AsHandle!Next]_(Tcp!AsHandle!handleVars)
<1>1. /\ tcpTracked /\ tcpSeen' = tcpState /\ tcpDelivered' = tcpDelivered \o tcpRx
           /\ tcpRx' = <<>>
      /\ UNCHANGED <<tcpState, tcpPushed>> /\ tcpSeen \notin Tcp!Terminal /\ tcpState
           \in Tcp!States
  BY DEF Tcp!Poll, TcpIInv, TcpClosedIsRead, Tcp!TypeOK
<1>2. CASE tcpState \in Tcp!Terminal
  <2>1. ~tcpTracked'
    BY <1>2 DEF Tcp!Poll
  <2>2. QED
    BY <1>1, <1>2, <2>1 DEF Tcp!AsHandle!Next, Tcp!AsHandle!LastPoll, Tcp!AsHandle!Forget,
       Tcp!Terminal
<1>3. CASE tcpState \notin Tcp!Terminal
  <2>1. tcpTracked'
    BY <1>3 DEF Tcp!Poll, TcpIInv, Tcp!TypeOK
  <2>2. QED
    BY <1>1, <1>3, <2>1 DEF Tcp!AsHandle!Next, Tcp!AsHandle!Poll, Tcp!States, Tcp!Terminal
<1>4. QED
  BY <1>2, <1>3

\* Every step of the connection is a step of the handle or none.
LEMMA TcpNextImplements == TcpIInv /\ [Tcp!Next]_(Tcp!tcpVars)
                             => [Tcp!AsHandle!Next]_(Tcp!AsHandle!handleVars)
<1> SUFFICES ASSUME TcpIInv, [Tcp!Next]_(Tcp!tcpVars)
                      PROVE [Tcp!AsHandle!Next]_(Tcp!AsHandle!handleVars)
  OBVIOUS
<1>1. CASE Tcp!ConnectFails \/ Tcp!CloneFails \/ Tcp!Overflow \/ Tcp!ReadEof \/ Tcp!ReadError
  BY <1>1, TcpEndsImplements DEF Tcp!ConnectFails, Tcp!CloneFails, Tcp!Overflow, Tcp!ReadEof,
     Tcp!ReadError, Tcp!Terminal
<1>2. CASE Tcp!Connected \/ Tcp!StoreClone \/ Tcp!Loop \/ Tcp!ReadTimeout
  BY <1>2 DEF Tcp!Connected, Tcp!StoreClone, Tcp!Loop, Tcp!ReadTimeout, Tcp!GoesTo, Tcp!handle,
     Tcp!buffers, Tcp!AsHandle!handleVars
<1>3. CASE Tcp!SetReady
  <2>1. UNCHANGED <<tcpTracked, tcpDelivered, tcpSeen, tcpRx, tcpPushed>>
                    /\ tcpState = "Connecting"
        /\ tcpState' = "Ready"
    BY <1>3 DEF Tcp!SetReady, Tcp!SetState, Tcp!handle, Tcp!buffers, TcpIInv, TcpStateFitsThread,
       Tcp!Terminal
  <2>2. CASE tcpTracked
    BY <2>1, <2>2 DEF Tcp!AsHandle!Next, Tcp!AsHandle!Open, Tcp!Terminal
  <2>3. CASE ~tcpTracked
    BY <2>1, <2>3 DEF Tcp!AsHandle!handleVars
  <2>4. QED
    BY <2>2, <2>3
<1>4. CASE Tcp!ReadChunk
  BY <1>4, TcpReadImplements
<1>5. CASE Tcp!Poll
  BY <1>5, TcpPollImplements
<1>6. CASE Tcp!Send \/ Tcp!SendReturns
  BY <1>6 DEF Tcp!Send, Tcp!SendReturns, Tcp!handle, Tcp!buffers, Tcp!AsHandle!handleVars
<1>7. CASE Tcp!Close
  BY <1>7 DEF Tcp!Close, Tcp!AsHandle!Next, Tcp!AsHandle!Close, Tcp!AsHandle!Forget
<1>8. CASE Tcp!PeerSends \/ Tcp!PeerReads \/ Tcp!PeerEnds
  BY <1>8 DEF Tcp!PeerSends, Tcp!PeerReads, Tcp!PeerEnds, Tcp!handle, Tcp!buffers,
     Tcp!AsHandle!handleVars
<1>9. CASE UNCHANGED Tcp!tcpVars
  BY <1>9 DEF Tcp!tcpVars, Tcp!handle, Tcp!buffers, Tcp!AsHandle!handleVars
<1>10. QED
  BY <1>1, <1>2, <1>3, <1>4, <1>5, <1>6, <1>7, <1>8, <1>9 DEF Tcp!Next, Tcp!Thread, Tcp!Ops

-----------------------------------------------------------------------------
(* UDP listeners.                                                          *)

\* The listeners are independent of one another, so a step is looked at for its own listener and
\* leaves the others alone.

\* A listener is tracked only once it was opened, has nothing before, and its state is what its
\* thread has published; once told its end it is forgotten.
UdpFollows(l) ==
  /\ udpPc[l] = "none" => l \notin udpTracked /\ udpArrived[l] = 0 /\ udpPackets[l] = <<>>
                      /\ udpSeen[l] = "none"
  /\ udpPc[l] \in {"none", "bind", "ready"} => udpState[l] = "Connecting"
  /\ udpPc[l] \in {"loop", "recv"} => udpState[l] = "Ready"
  /\ udpSeen[l] \in Udp!Terminal => l \notin udpTracked

UdpIInv == Udp!TypeOK /\ \A l \in Listeners : UdpFollows(l)

\* No listener is open yet.
LEMMA UdpInitInv == ASSUME Udp!UdpAssumption PROVE Udp!Init => UdpIInv
<1> SUFFICES ASSUME Udp!UdpAssumption, Udp!Init PROVE UdpIInv
  OBVIOUS
<1>1. Udp!TypeOK
  <2>1. ASSUME NEW l \in Listeners PROVE Len(udpPackets[l]) <= MaxQueue
    <3>1. udpPackets[l] = <<>> /\ Len(<<>>) = 0
      BY DEF Udp!Init
    <3>2. QED
      BY <3>1 DEF Udp!UdpAssumption
  <2>2. udpPackets \in [Listeners -> Seq(Nat)] /\ udpDelivered \in [Listeners -> Seq(Nat)]
    BY DEF Udp!Init
  <2>3. udpTracked \subseteq Listeners /\ udpStop \in [Listeners -> BOOLEAN]
        /\ udpState \in [Listeners -> Udp!States] /\ udpArrived \in [Listeners -> Nat]
    BY DEF Udp!Init, Udp!States
  <2>4. udpSeen \in [Listeners -> Udp!States \cup {"none"}]
        /\ udpPc \in [Listeners -> {"none", "bind", "ready", "loop", "recv", "done"}]
        /\ udpForeign \in BOOLEAN
    BY DEF Udp!Init
  <2>5. QED
    BY <2>1, <2>2, <2>3, <2>4 DEF Udp!TypeOK
<1>2. QED
  BY <1>1 DEF Udp!Init, UdpIInv, UdpFollows, Udp!Terminal

\* What a step of listener l leaves alone.
UdpAlone(l) ==
  \A k \in Listeners \ {l} :
    /\ k \in udpTracked' <=> k \in udpTracked
    /\ udpState'[k] = udpState[k] /\ udpPackets'[k] = udpPackets[k] /\ udpPc'[k] = udpPc[k]
    /\ udpArrived'[k] = udpArrived[k] /\ udpDelivered'[k] = udpDelivered[k]
         /\ udpSeen'[k] = udpSeen[k]

\* A step of one listener leaves the others alone.
LEMMA UdpStepsAlone ==
  ASSUME UdpIInv, NEW l \in Listeners, Udp!Thread(l) \/ Udp!Listen(l) \/ Udp!Poll(l)
           \/ Udp!Close(l)
  PROVE  UdpAlone(l)
BY DEF UdpIInv, Udp!TypeOK, Udp!Thread, Udp!Bind, Udp!SetReady, Udp!Loop, Udp!Receive,
   Udp!ReceiveStep, Udp!ReceiveTimeout, Udp!ReceiveError, Udp!Listen, Udp!Poll, Udp!Close,
   Udp!SetState, Udp!GoesTo, UdpAlone

\* A datagram goes behind those that wait, and a full queue loses its oldest.
LEMMA UdpQueued ==
  ASSUME Udp!UdpAssumption, UdpIInv, NEW l \in Listeners, Udp!Receive(l)
  PROVE  /\ udpPackets' \in [Listeners -> Seq(Nat)]
         /\ \A k \in Listeners : Len(udpPackets'[k]) <= MaxQueue
<1> DEFINE q == IF Len(udpPackets[l]) >= MaxQueue THEN Tail(udpPackets[l]) ELSE udpPackets[l]
<1>1. udpPackets[l] \in Seq(Nat) /\ Len(udpPackets[l]) <= MaxQueue /\ udpArrived[l] + 1 \in Nat
      /\ MaxQueue > 0 /\ MaxQueue \in Nat
  BY DEF UdpIInv, Udp!TypeOK, Udp!UdpAssumption
<1>2. q \in Seq(Nat) /\ Len(q) < MaxQueue
  BY <1>1
<1>3. Append(q, udpArrived[l] + 1) \in Seq(Nat) /\ Len(Append(q, udpArrived[l] + 1)) <= MaxQueue
  BY <1>1, <1>2
<1>4. udpPackets' = [udpPackets EXCEPT ![l] = Append(q, udpArrived[l] + 1)]
  BY DEF Udp!Receive
<1>5. QED
  BY <1>3, <1>4 DEF UdpIInv, Udp!TypeOK

\* A step of a listener keeps every type, and the queue within its cap.
LEMMA UdpStepTyped ==
  ASSUME Udp!UdpAssumption, UdpIInv, NEW l \in Listeners, Udp!Thread(l) \/ Udp!Listen(l)
           \/ Udp!Poll(l) \/ Udp!Close(l)
  PROVE  Udp!TypeOK'
<1> USE DEF UdpIInv, Udp!TypeOK
<1>0. Udp!UdpAssumption
  OBVIOUS
<1>1. CASE Udp!Receive(l)
  <2>1. udpArrived' \in [Listeners -> Nat]
    BY <1>1 DEF Udp!Receive, Udp!ReceiveStep
  <2>2. QED
    BY <1>1, <2>1, UdpQueued DEF Udp!Receive, Udp!ReceiveStep, Udp!GoesTo
<1>2. CASE Udp!Poll(l)
  <2>1. udpDelivered' \in [Listeners -> Seq(Nat)] /\ udpPackets' \in [Listeners -> Seq(Nat)]
    BY <1>2 DEF Udp!Poll
  <2>2. \A k \in Listeners : Len(udpPackets'[k]) <= MaxQueue
    BY <1>2 DEF Udp!Poll, Udp!UdpAssumption
  <2>3. udpTracked' \subseteq Listeners /\ udpStop' \in [Listeners -> BOOLEAN]
    BY <1>2 DEF Udp!Poll
  <2>4. QED
    BY <1>2, <2>1, <2>2, <2>3 DEF Udp!Poll
<1>3. CASE Udp!Bind(l) \/ Udp!SetReady(l) \/ Udp!Loop(l) \/ Udp!ReceiveTimeout(l)
             \/ Udp!ReceiveError(l)
  BY <1>3 DEF Udp!Bind, Udp!SetReady, Udp!Loop, Udp!ReceiveTimeout, Udp!ReceiveError,
     Udp!SetState, Udp!GoesTo, Udp!States, Udp!Terminal
<1>4. CASE Udp!Listen(l) \/ Udp!Close(l)
  BY <1>4 DEF Udp!Listen, Udp!Close, Udp!GoesTo
<1>5. QED
  BY <1>1, <1>2, <1>3, <1>4 DEF Udp!Thread

\* No step of any listener breaks the invariant.
LEMMA UdpNextInv == ASSUME Udp!UdpAssumption PROVE UdpIInv /\ [Udp!Next]_(Udp!udpVars) => UdpIInv'
<1> SUFFICES ASSUME UdpIInv, [Udp!Next]_(Udp!udpVars) PROVE UdpIInv'
  OBVIOUS
<1>1. CASE UNCHANGED Udp!udpVars
  BY <1>1 DEF Udp!udpVars, UdpIInv, Udp!TypeOK, UdpFollows
<1>2. ASSUME NEW l \in Listeners, Udp!Thread(l) \/ Udp!Listen(l) \/ Udp!Poll(l) \/ Udp!Close(l)
      PROVE  UdpIInv'
  <2>1. \A k \in Listeners \ {l} : UdpFollows(k)'
    BY <1>2, UdpStepsAlone DEF UdpIInv, UdpAlone, UdpFollows
  <2>2. UdpFollows(l)'
    <3>1. CASE Udp!Bind(l) \/ Udp!SetReady(l) \/ Udp!Loop(l) \/ Udp!ReceiveTimeout(l)
                 \/ Udp!ReceiveError(l)
      BY <3>1 DEF UdpIInv, Udp!TypeOK, UdpFollows, Udp!Bind, Udp!SetReady, Udp!Loop,
         Udp!ReceiveTimeout, Udp!ReceiveError, Udp!SetState, Udp!GoesTo, Udp!Terminal
    <3>2. CASE Udp!Receive(l)
      BY <3>2 DEF UdpIInv, Udp!TypeOK, UdpFollows, Udp!Receive, Udp!ReceiveStep, Udp!GoesTo
    <3>3. CASE Udp!Listen(l) \/ Udp!Close(l)
      BY <3>3 DEF UdpIInv, Udp!TypeOK, UdpFollows, Udp!Listen, Udp!Close, Udp!GoesTo, Udp!Terminal
    <3>4. CASE Udp!Poll(l)
      BY <3>4 DEF UdpIInv, Udp!TypeOK, UdpFollows, Udp!Poll
    <3>5. QED
      BY <1>2, <3>1, <3>2, <3>3, <3>4 DEF Udp!Thread
  <2>3. QED
    BY <1>2, <2>1, <2>2, UdpStepTyped DEF UdpIInv
<1>3. QED
  BY <1>1, <1>2 DEF Udp!Next

\* Before it is opened a listener is a fresh handle.
LEMMA UdpInitImplements == Udp!Init => \A l \in Listeners : Udp!AsHandle(l)!Init
BY DEF Udp!Init, Udp!AsHandle!Init, Udp!Terminal

\* What a step leaves alone is the same handle.
LEMMA UdpOthersImplement ==
  ASSUME NEW l \in Listeners, UdpAlone(l)
  PROVE  \A k \in Listeners \ {l} : UNCHANGED Udp!AsHandle(k)!handleVars
BY DEF UdpAlone, Udp!AsHandle!handleVars

\* A step of a listener is one of its handle, or invisible to it.
LEMMA UdpStepImplements ==
  ASSUME Udp!UdpAssumption, UdpIInv, NEW l \in Listeners, Udp!Thread(l) \/ Udp!Listen(l)
           \/ Udp!Poll(l) \/ Udp!Close(l)
  PROVE  Udp!AsHandle(l)!Next \/ UNCHANGED Udp!AsHandle(l)!handleVars
<1> USE DEF UdpIInv, Udp!TypeOK, UdpFollows
<1>1. CASE Udp!Loop(l) \/ Udp!ReceiveTimeout(l)
  <2>1. UNCHANGED <<udpTracked, udpState, udpPackets, udpArrived, udpDelivered, udpSeen>>
        /\ (udpPc[l] = "none" <=> udpPc'[l] = "none")
    BY <1>1 DEF Udp!Loop, Udp!ReceiveTimeout, Udp!GoesTo
  <2>2. QED
    BY <2>1 DEF Udp!AsHandle!handleVars
<1>2. CASE Udp!Listen(l)
  <2>1. UNCHANGED <<udpState, udpPackets, udpArrived, udpDelivered, udpSeen>>
                    /\ l \notin udpTracked /\ l \in udpTracked'
        /\ udpPc[l] = "none" /\ udpState[l] = "Connecting" /\ udpArrived[l] = 0
             /\ udpPackets[l] = <<>>
    BY <1>2 DEF Udp!Listen
  <2>2. QED
    BY <2>1 DEF Udp!AsHandle!handleVars, Udp!Terminal
<1>3. CASE Udp!Bind(l) /\ UNCHANGED udpState
  <2>1. UNCHANGED <<udpTracked, udpState, udpPackets, udpArrived, udpDelivered, udpSeen>>
                    /\ udpPc[l] = "bind"
        /\ udpPc'[l] # "none"
    BY <1>3 DEF Udp!Bind, Udp!GoesTo
  <2>2. QED
    BY <2>1 DEF Udp!AsHandle!handleVars
<1>4. CASE (Udp!Bind(l) /\ udpState' # udpState) \/ Udp!ReceiveError(l)
  <2>1. UNCHANGED <<udpTracked, udpPackets, udpArrived, udpDelivered, udpSeen>>
                    /\ udpState'[l] \in Udp!Terminal
        /\ udpState[l] \in {"Connecting", "Ready"} /\ udpPc[l] # "none" /\ udpPc'[l] # "none"
    BY <1>4 DEF Udp!Bind, Udp!ReceiveError, Udp!SetState, Udp!GoesTo, Udp!Terminal
  <2>2. CASE l \in udpTracked
    BY <2>1, <2>2 DEF Udp!AsHandle!Next, Udp!AsHandle!End, Udp!Terminal
  <2>3. CASE l \notin udpTracked
    BY <2>1, <2>3 DEF Udp!AsHandle!handleVars
  <2>4. QED
    BY <2>2, <2>3
<1>5. CASE Udp!SetReady(l)
  <2>1. UNCHANGED <<udpTracked, udpPackets, udpArrived, udpDelivered, udpSeen>>
                    /\ udpState'[l] = "Ready"
        /\ udpState[l] = "Connecting" /\ udpPc[l] # "none" /\ udpPc'[l] # "none"
    BY <1>5 DEF Udp!SetReady, Udp!SetState, Udp!GoesTo, Udp!Terminal
  <2>2. CASE l \in udpTracked
    BY <2>1, <2>2 DEF Udp!AsHandle!Next, Udp!AsHandle!Open, Udp!Terminal
  <2>3. CASE l \notin udpTracked
    BY <2>1, <2>3 DEF Udp!AsHandle!handleVars
  <2>4. QED
    BY <2>2, <2>3
<1>6. CASE Udp!Receive(l)
  <2>1. UNCHANGED <<udpTracked, udpState, udpDelivered, udpSeen>> /\ udpState[l] = "Ready"
        /\ udpPc[l] # "none" /\ udpPc'[l] # "none" /\ udpArrived'[l] = udpArrived[l] + 1
        /\ udpPackets'[l] = Append(IF Len(udpPackets[l]) >= MaxQueue
                                   THEN Tail(udpPackets[l]) ELSE udpPackets[l], udpArrived[l] + 1)
        /\ Len(udpPackets[l]) <= MaxQueue /\ Len(udpPackets[l]) \in Nat /\ MaxQueue \in Nat
    BY <1>6 DEF Udp!Receive, Udp!ReceiveStep, Udp!GoesTo, Udp!UdpAssumption
  <2>2. CASE l \in udpTracked
    BY <2>1, <2>2 DEF Udp!AsHandle!Next, Udp!AsHandle!Arrive, Udp!Terminal
  <2>3. CASE l \notin udpTracked
    BY <2>1, <2>3 DEF Udp!AsHandle!handleVars
  <2>4. QED
    BY <2>2, <2>3
<1>7. CASE Udp!Poll(l)
  <2>1. l \in udpTracked /\ udpPc[l] # "none" /\ UNCHANGED <<udpState, udpPc, udpArrived>>
          /\ udpSeen'[l] = udpState[l]
        /\ udpDelivered'[l] = udpDelivered[l] \o udpPackets[l] /\ udpPackets'[l] = <<>>
             /\ udpSeen[l] \notin Udp!Terminal
        /\ udpState[l] \in Udp!States /\ (l \in udpTracked' <=> udpState[l] \notin Udp!Terminal)
    BY <1>7 DEF Udp!Poll
  <2>2. CASE udpState[l] \in Udp!Terminal
    BY <2>1, <2>2 DEF Udp!AsHandle!Next, Udp!AsHandle!LastPoll, Udp!AsHandle!Forget, Udp!Terminal
  <2>3. CASE udpState[l] \notin Udp!Terminal
    BY <2>1, <2>3 DEF Udp!AsHandle!Next, Udp!AsHandle!Poll, Udp!Terminal, Udp!States
  <2>4. QED
    BY <2>2, <2>3
<1>8. CASE Udp!Close(l)
  <2>1. l \in udpTracked /\ l \notin udpTracked' /\ udpPc[l] # "none"
        /\ UNCHANGED <<udpState, udpPc, udpDelivered, udpSeen>>
    BY <1>8 DEF Udp!Close
  <2>2. QED
    BY <2>1 DEF Udp!AsHandle!Next, Udp!AsHandle!Close, Udp!AsHandle!Forget, Udp!Terminal
<1>9. QED
  BY <1>1, <1>2, <1>3, <1>4, <1>5, <1>6, <1>7, <1>8 DEF Udp!Thread

\* So of every listener, whichever steps.
LEMMA UdpNextImplements ==
  ASSUME Udp!UdpAssumption, UdpIInv, Udp!Next
  PROVE  \A k \in Listeners : Udp!AsHandle(k)!Next \/ UNCHANGED Udp!AsHandle(k)!handleVars
<1>1. PICK l \in Listeners : Udp!Thread(l) \/ Udp!Listen(l) \/ Udp!Poll(l) \/ Udp!Close(l)
  BY DEF Udp!Next
<1>2. Udp!AsHandle(l)!Next \/ UNCHANGED Udp!AsHandle(l)!handleVars
  BY <1>1, UdpStepImplements
<1>3. \A k \in Listeners \ {l} : UNCHANGED Udp!AsHandle(k)!handleVars
  BY <1>1, UdpStepsAlone, UdpOthersImplement
<1>4. QED
  BY <1>2, <1>3

-----------------------------------------------------------------------------
(* HTTP requests.                                                          *)

\* That a result reaches its own caller follows from what is known of the slots: an id belongs to
\* one request, a result in a slot is that of the id's holder, and the slot of a request that was
\* told its end, or was cancelled, is gone, so that a late result finds no slot.

\* Ids are handed out once, and a request that runs has one.
HttpIdsAreOnes ==
  /\ \A r \in Requests : httpIdOf[r] # None => httpIdOf[r] \in 1..httpNextId
  /\ \A r, s \in Requests : httpIdOf[r] # None /\ httpIdOf[r] = httpIdOf[s] => r = s
  /\ \A r \in Requests : httpThread[r] = "none" => httpIdOf[r] = None
  /\ \A r \in Requests : httpThread[r] = "running" => httpIdOf[r] # None

\* The slot of an answered or cancelled request is gone.
HttpGivenAreGone == \A r \in httpGiven : httpIdOf[r] # None /\ httpIdOf[r] \notin DOMAIN httpSlots

\* A result is in the slot of the request it answers.
HttpResultsAreOwn ==
  \A id \in DOMAIN httpSlots :
    httpSlots[id] # Http!Pending => \E r \in Requests \ httpGiven : httpIdOf[r] = id
      /\ httpSlots[id].of = r

HttpIInv == Http!TypeOK /\ HttpIdsAreOnes /\ HttpGivenAreGone /\ HttpResultsAreOwn
  /\ Http!AnswersItsRequest

\* A result is never the mark of a pending request.
LEMMA HttpResultIsNotPending == ASSUME Http!HttpAssumption PROVE Http!Pending \notin Http!Results
BY DEF Http!HttpAssumption, Http!Pending, Http!Results

\* No request has been made yet.
LEMMA HttpInitInv == ASSUME Http!HttpAssumption PROVE Http!Init => HttpIInv
<1> SUFFICES ASSUME Http!Init PROVE HttpIInv
  OBVIOUS
<1> USE DEF Http!Init
<1>1. DOMAIN httpSlots = {} /\ httpSlots \in [DOMAIN httpSlots -> Http!Results \cup {Http!Pending}]
  OBVIOUS
<1>2. Http!TypeOK
  BY <1>1 DEF Http!TypeOK
<1>3. QED
  BY <1>1, <1>2 DEF HttpIInv, HttpIdsAreOnes, HttpGivenAreGone, HttpResultsAreOwn,
     Http!AnswersItsRequest

\* A new request gets an id nobody has had.
LEMMA HttpRequestInv ==
  ASSUME Http!HttpAssumption, HttpIInv, NEW r \in Requests, Http!Request(r)
  PROVE  HttpIInv'
<1> USE DEF HttpIInv
<1>1. Http!NewId \in Nat \ {0} /\ Http!NewId = httpNextId + 1 /\ httpNextId' = httpNextId + 1
        /\ Http!NewId # None
      /\ Http!NewId \notin 1..httpNextId
  BY DEF Http!TypeOK, Http!NewId, Http!Request, Http!HttpAssumption
<1>2. /\ DOMAIN httpSlots' = DOMAIN httpSlots \cup {Http!NewId}
      /\ httpSlots'[Http!NewId] = Http!Pending
      /\ \A i \in DOMAIN httpSlots : httpSlots'[i] = httpSlots[i]
  BY <1>1 DEF Http!Request, Http!Insert, Http!TypeOK
<1>3. /\ httpIdOf' \in [Requests -> Http!Ids \cup {None}]
      /\ httpThread' \in [Requests -> {"none", "running", "done"}]
      /\ httpThread[r] = "none" /\ httpIdOf[r] = None /\ httpThread'[r] # "none"
      /\ httpThread'[r] = "running" => httpIdOf'[r] = Http!NewId
      /\ httpIdOf'[r] \in {Http!NewId, None}
      /\ \A s \in Requests \ {r} : httpIdOf'[s] = httpIdOf[s] /\ httpThread'[s] = httpThread[s]
      /\ UNCHANGED <<httpTold, httpGiven>>
  BY <1>1 DEF Http!TypeOK, Http!Request, HttpIdsAreOnes, Http!Ids
<1>4. Http!TypeOK'
  <2>1. httpSlots' \in [DOMAIN httpSlots' -> Http!Results \cup {Http!Pending}]
    BY <1>2 DEF Http!TypeOK, Http!Request, Http!Insert
  <2>2. DOMAIN httpSlots' \subseteq 1..httpNextId'
    BY <1>1, <1>2 DEF Http!TypeOK
  <2>3. QED
    BY <1>1, <1>3, <2>1, <2>2 DEF Http!TypeOK
<1>5. HttpIdsAreOnes'
  BY <1>1, <1>3 DEF HttpIdsAreOnes, Http!TypeOK
<1>6. HttpGivenAreGone'
  BY <1>1, <1>2, <1>3 DEF HttpGivenAreGone, HttpIdsAreOnes, Http!TypeOK
<1>7. HttpResultsAreOwn'
  <2> SUFFICES ASSUME NEW id \in DOMAIN httpSlots, httpSlots[id] # Http!Pending
               PROVE  \E s \in Requests \ httpGiven : httpIdOf'[s] = id /\ httpSlots[id].of = s
    BY <1>2, <1>3 DEF HttpResultsAreOwn
  <2>1. PICK s \in Requests \ httpGiven : httpIdOf[s] = id /\ httpSlots[id].of = s
    BY DEF HttpResultsAreOwn
  <2>2. id # None
    BY DEF Http!TypeOK, Http!HttpAssumption
  <2>3. s # r
    BY <1>3, <2>1, <2>2
  <2>4. QED
    BY <1>3, <2>1, <2>3
<1>8. Http!AnswersItsRequest'
  BY <1>3 DEF Http!AnswersItsRequest
<1>9. QED
  BY <1>4, <1>5, <1>6, <1>7, <1>8

\* A result goes to the slot of its own request, or nowhere.
LEMMA HttpPerformInv ==
  ASSUME Http!HttpAssumption, HttpIInv, NEW r \in Requests, Http!Perform(r)
  PROVE  HttpIInv'
<1> USE DEF HttpIInv
<1>1. /\ httpThread' \in [Requests -> {"none", "running", "done"}]
      /\ \A s \in Requests : httpThread'[s] = httpThread[s] \/ httpThread'[s] = "done"
      /\ UNCHANGED <<httpNextId, httpIdOf, httpTold, httpGiven>>
  BY DEF Http!TypeOK, Http!Perform
<1>2. HttpIdsAreOnes' /\ Http!AnswersItsRequest'
  BY <1>1 DEF HttpIdsAreOnes, Http!AnswersItsRequest
<1>3. CASE httpIdOf[r] \in DOMAIN httpSlots
  <2>1. PICK res \in Http!Results : res.of = r /\ httpSlots' = Http!Insert(httpIdOf[r], res)
    BY <1>3 DEF Http!Perform, Http!Results
  <2>2. /\ DOMAIN httpSlots' = DOMAIN httpSlots
        /\ httpSlots'[httpIdOf[r]] = res
        /\ \A i \in DOMAIN httpSlots : i # httpIdOf[r] => httpSlots'[i] = httpSlots[i]
        /\ httpSlots' \in [DOMAIN httpSlots' -> Http!Results \cup {Http!Pending}]
    BY <1>3, <2>1 DEF Http!Insert, Http!TypeOK
  <2>3. r \notin httpGiven
    BY <1>3 DEF HttpGivenAreGone
  <2>4. Http!TypeOK'
    BY <1>1, <2>2 DEF Http!TypeOK
  <2>5. HttpGivenAreGone'
    BY <1>1, <2>2 DEF HttpGivenAreGone
  <2>6. HttpResultsAreOwn'
    BY <1>1, <2>1, <2>2, <2>3 DEF HttpResultsAreOwn
  <2>7. QED
    BY <1>2, <2>4, <2>5, <2>6
<1>4. CASE httpIdOf[r] \notin DOMAIN httpSlots
  <2>1. httpSlots' = httpSlots
    BY <1>4 DEF Http!Perform
  <2>2. QED
    BY <1>1, <1>2, <2>1 DEF Http!TypeOK, HttpGivenAreGone, HttpResultsAreOwn
<1>5. QED
  BY <1>3, <1>4

\* A slot that is taken away is that of the request alone.
LEMMA HttpRemoveInv ==
  ASSUME Http!HttpAssumption, HttpIInv, NEW r \in Requests,
         httpIdOf[r] # None, r \notin httpGiven, httpSlots' = Http!Remove(httpIdOf[r]),
           httpGiven' = httpGiven \cup {r},
         UNCHANGED <<httpNextId, httpIdOf, httpThread>>
  PROVE  /\ HttpIdsAreOnes' /\ HttpGivenAreGone' /\ HttpResultsAreOwn'
         /\ httpSlots' \in [DOMAIN httpSlots' -> Http!Results \cup {Http!Pending}]
         /\ DOMAIN httpSlots' \subseteq 1..httpNextId
<1> USE DEF HttpIInv
<1>1. /\ DOMAIN httpSlots' = DOMAIN httpSlots \ {httpIdOf[r]}
      /\ \A i \in DOMAIN httpSlots' : httpSlots'[i] = httpSlots[i]
      /\ httpSlots' \in [DOMAIN httpSlots' -> Http!Results \cup {Http!Pending}]
  BY DEF Http!Remove, Http!Restrict, Http!TypeOK
<1>2. HttpIdsAreOnes'
  BY DEF HttpIdsAreOnes
<1>3. HttpGivenAreGone'
  BY <1>1 DEF HttpGivenAreGone
<1>4. HttpResultsAreOwn'
  BY <1>1 DEF HttpResultsAreOwn
<1>5. QED
  BY <1>1, <1>2, <1>3, <1>4 DEF Http!TypeOK

\* A poll tells the request what is in its slot, which is its own result.
LEMMA HttpPollInv ==
  ASSUME Http!HttpAssumption, HttpIInv, NEW r \in Requests, Http!Poll(r)
  PROVE  HttpIInv'
<1> USE DEF HttpIInv
<1>1. httpIdOf[r] # None /\ r \notin httpGiven /\ httpIdOf[r] \in DOMAIN httpSlots
      /\ UNCHANGED <<httpNextId, httpIdOf, httpThread>>
  BY DEF Http!Poll
<1>2. CASE httpSlots[httpIdOf[r]] = Http!Pending
  BY <1>1, <1>2 DEF Http!Poll, Http!TypeOK, HttpIdsAreOnes, HttpGivenAreGone, HttpResultsAreOwn,
     Http!AnswersItsRequest
<1>3. CASE httpSlots[httpIdOf[r]] # Http!Pending
  <2>1. /\ httpTold' = [httpTold EXCEPT ![r] = @ \cup {httpSlots[httpIdOf[r]]}]
        /\ httpSlots' = Http!Remove(httpIdOf[r]) /\ httpGiven' = httpGiven \cup {r}
    BY <1>3 DEF Http!Poll
  <2>2. httpSlots[httpIdOf[r]] \in Http!Results /\ httpSlots[httpIdOf[r]].of = r
    BY <1>1, <1>3 DEF Http!TypeOK, HttpResultsAreOwn, HttpIdsAreOnes
  <2>3. Http!AnswersItsRequest'
    BY <2>1, <2>2 DEF Http!AnswersItsRequest, Http!TypeOK
  <2>4. Http!TypeOK'
    BY <1>1, <2>1, <2>2, HttpRemoveInv DEF Http!TypeOK
  <2>5. QED
    BY <1>1, <2>1, <2>3, <2>4, HttpRemoveInv
<1>4. QED
  BY <1>2, <1>3

\* A cancelled request has no slot any more.
LEMMA HttpCancelInv ==
  ASSUME Http!HttpAssumption, HttpIInv, NEW r \in Requests, Http!Cancel(r)
  PROVE  HttpIInv'
<1> USE DEF HttpIInv
<1>1. /\ httpIdOf[r] # None /\ r \notin httpGiven /\ httpSlots' = Http!Remove(httpIdOf[r])
      /\ httpGiven' = httpGiven \cup {r} /\ UNCHANGED <<httpNextId, httpIdOf, httpThread,
                                                        httpTold>>
  BY DEF Http!Cancel
<1>2. Http!TypeOK'
  BY <1>1, HttpRemoveInv DEF Http!TypeOK
<1>3. Http!AnswersItsRequest'
  BY <1>1 DEF Http!AnswersItsRequest
<1>4. QED
  BY <1>1, <1>2, <1>3, HttpRemoveInv

\* No step of any request breaks the invariant.
LEMMA HttpNextInv == ASSUME Http!HttpAssumption PROVE HttpIInv /\ [Http!Next]_(Http!httpVars)
                       => HttpIInv'
<1> SUFFICES ASSUME HttpIInv, [Http!Next]_(Http!httpVars) PROVE HttpIInv'
  OBVIOUS
<1>1. CASE Http!Next
  BY <1>1, HttpRequestInv, HttpPerformInv, HttpPollInv, HttpCancelInv DEF Http!Next
<1>2. CASE UNCHANGED Http!httpVars
  BY <1>2 DEF Http!httpVars, HttpIInv, Http!TypeOK, HttpIdsAreOnes, HttpGivenAreGone,
     HttpResultsAreOwn, Http!AnswersItsRequest
<1>3. QED
  BY <1>1, <1>2

\* A result in a slot has a caller who can still poll it.
LEMMA HttpInvStrandsNothing == HttpIInv => Http!NoResponseIsStranded
BY DEF HttpIInv, HttpResultsAreOwn, Http!NoResponseIsStranded

-----------------------------------------------------------------------------
(* SSH sessions.                                                           *)

\* The invariant follows the writes from the op to the server: sent, then handed over, then the
\* one being written, then those in the channel make up, in order, all that were accepted; and a
\* close is behind all of them.

\* Taking the first item of a sequence moves the others up by one.
LEMMA TailFacts ==
  ASSUME NEW S, NEW s \in Seq(S), s # <<>>
  PROVE  /\ Len(s) \in Nat /\ Len(s) >= 1 /\ 1 \in 1..Len(s) /\ Head(s) = s[1] /\ s[1] \in S
         /\ Tail(s) \in Seq(S) /\ Len(Tail(s)) = Len(s) - 1
         /\ \A i \in 1..Len(Tail(s)) : Tail(s)[i] = s[i + 1] /\ i + 1 \in 1..Len(s)
<1>1. Len(s) \in Nat /\ Len(s) >= 1 /\ Head(s) = s[1] /\ s[1] \in S
  OBVIOUS
<1>2. Tail(s) \in Seq(S) /\ Len(Tail(s)) = Len(s) - 1
  OBVIOUS
<1>3. ASSUME NEW i \in 1..(Len(s) - 1) PROVE Tail(s)[i] = s[i + 1] /\ i + 1 \in 1..Len(s)
  OBVIOUS
<1>4. QED
  BY <1>1, <1>2, <1>3

\* A sequence over a set is one over a larger set.
LEMMA WiderSeq ==
  ASSUME NEW S, NEW T, S \subseteq T, NEW s \in Seq(S)
  PROVE  s \in Seq(T)
<1>1. s \in [1..Len(s) -> S] /\ Len(s) \in Nat
  OBVIOUS
<1>2. s \in [1..Len(s) -> T]
  BY <1>1
<1>3. QED
  BY <1>1, <1>2

\* What the state tells of where the thread is; a session that is forgotten before its thread has
\* ended was closed.
SshStateFits ==
  /\ sshPc \in Ssh!Errors => sshState = "Connecting"
  /\ sshPc \in {"loop", "write"} => sshState = "Ready"
  /\ sshPc = "done" => sshState \in Ssh!Terminal
  /\ sshSeen \in Ssh!Terminal => ~sshTracked /\ sshPc = "done"
  /\ sshClosed => ~sshTracked
  /\ ~sshTracked /\ sshPc # "done" => sshClosed

\* A close is the last command.
SshCloseIsLast ==
  /\ \A i \in 1..Len(sshCmds) : sshCmds[i].kind = "close" <=> (sshClosed /\ i = Len(sshCmds))
  /\ sshClosed /\ sshPc # "done" => sshCmds # <<>>
  /\ sshPc = "done" => sshCmds = <<>>

\* Writes sent, and handed over, in order.
SshSentInOrder ==
  /\ \A i \in 1..Len(sshTaken) : sshTaken[i] = i
  /\ \A i \in 1..Len(sshHanded) : sshHanded[i] = Len(sshTaken) + i

\* How many writes have left the channel.
SshLeft == Len(sshTaken) + Len(sshHanded) + IF sshPc = "write" THEN 1 ELSE 0

\* While the connection lives: the write being sent comes next, and those behind it are in the
\* channel, in order and all of them.
SshRestInOrder ==
  sshServer = "up" =>
    /\ sshPc = "write" => sshWriting = SshLeft
    /\ sshPc # "done" =>
         /\ SshLeft <= sshAccepted
         /\ \A i \in 1..Len(sshCmds) : sshCmds[i].kind = "write" => sshCmds[i].n
              \in (SshLeft + 1)..sshAccepted
         /\ \A n \in (SshLeft + 1)..sshAccepted :
              \E i \in 1..Len(sshCmds) : sshCmds[i].kind = "write" /\ sshCmds[i].n = n
         /\ \A i, j \in 1..Len(sshCmds) :
              sshCmds[i].kind = "write" /\ sshCmds[j].kind = "write" /\ i < j
                => sshCmds[i].n < sshCmds[j].n
    /\ sshPc = "done" /\ sshState = "Closed" => SshLeft = sshAccepted

SshIInv == Ssh!TypeOK /\ SshStateFits /\ SshCloseIsLast /\ SshSentInOrder /\ SshRestInOrder

\* A session begins with nothing asked and nothing received.
LEMMA SshInitInv == ASSUME Ssh!SshAssumption PROVE Ssh!Init => SshIInv
<1> SUFFICES ASSUME Ssh!SshAssumption, Ssh!Init PROVE SshIInv
  OBVIOUS
<1>1. Len(<<>>) = 0 /\ 1..0 = {}
  OBVIOUS
<1>2. Ssh!TypeOK
  <2>1. /\ sshOut \in Seq(Nat) /\ sshDelivered \in Seq(Nat) /\ sshHanded \in Seq(Nat)
             /\ sshTaken \in Seq(Nat)
        /\ sshCmds \in Seq([kind : {"write", "resize", "close"}, n : 0..sshAccepted])
        /\ Len(sshOut) <= MaxOut /\ sshWindow \in 0..Window /\ sshWaited \in 0..Inactivity
    BY <1>1 DEF Ssh!Init, Ssh!SshAssumption
  <2>2. QED
    BY <2>1 DEF Ssh!Init, Ssh!TypeOK, Ssh!States
<1>3. SshStateFits
  BY DEF Ssh!Init, SshStateFits, Ssh!Errors, Ssh!Terminal
<1>4. SshCloseIsLast /\ SshSentInOrder
  BY <1>1 DEF Ssh!Init, SshCloseIsLast, SshSentInOrder
<1>5. SshRestInOrder
  <2>1. SshLeft = 0 /\ (SshLeft + 1)..sshAccepted = {}
    BY <1>1 DEF Ssh!Init, SshLeft
  <2>2. QED
    BY <1>1, <2>1 DEF Ssh!Init, SshRestInOrder
<1>6. QED
  BY <1>2, <1>3, <1>4, <1>5 DEF SshIInv

\* The steps that end the session: a close comes when no write is left.
LEMMA SshEndsInv ==
  ASSUME Ssh!SshAssumption, SshIInv, NEW s \in Ssh!Terminal, Ssh!EndsWith(s), sshPc # "done",
         s = "Closed" => sshPc = "loop" /\ (sshServer = "gone" \/ Ssh!HangUp)
  PROVE  SshIInv'
<1> USE DEF SshIInv
<1>1. /\ sshPc' = "done" /\ sshState' = s /\ sshCmds' = <<>> /\ sshWaited' = 0
      /\ UNCHANGED <<sshTracked, sshDelivered, sshSeen, sshClosed, sshAccepted, sshAsked,
                     sshOut, sshArrived, sshWriting,
                     sshHanded, sshTaken, sshWindow, sshServer>>
  BY DEF Ssh!EndsWith, Ssh!SetState, Ssh!handle, Ssh!output, Ssh!writes, SshStateFits,
     Ssh!TypeOK, Ssh!Errors, Ssh!Terminal
<1>2. Ssh!TypeOK'
  <2>1. sshCmds' \in Seq([kind : {"write", "resize", "close"}, n : 0..sshAccepted'])
          /\ sshWaited' \in 0..Inactivity
    BY <1>1 DEF Ssh!SshAssumption
  <2>2. QED
    BY <1>1, <2>1 DEF Ssh!TypeOK, Ssh!States
<1>3. SshStateFits'
  BY <1>1 DEF SshStateFits, Ssh!Errors, Ssh!Terminal
<1>4. SshCloseIsLast' /\ SshSentInOrder'
  BY <1>1 DEF SshCloseIsLast, SshSentInOrder
<1>5. SshRestInOrder'
  <2>1. SUFFICES ASSUME sshServer = "up", s = "Closed" PROVE SshLeft' = sshAccepted
    BY <1>1 DEF SshRestInOrder
  <2>2. Ssh!HangUp /\ sshPc = "loop"
    BY <2>1
  <2>3. sshClosed
    <3>1. sshCmds = <<>> => sshClosed
      BY <2>2 DEF Ssh!HangUp, SshStateFits
    <3>2. sshCmds # <<>> => 1 \in 1..Len(sshCmds) /\ sshCmds[1].kind = "close"
      BY <2>2 DEF Ssh!HangUp, Ssh!TypeOK
    <3>3. QED
      BY <3>1, <3>2 DEF SshCloseIsLast
  <2>4. sshCmds # <<>> /\ sshCmds[1].kind = "close" /\ 1 \in 1..Len(sshCmds) /\ Len(sshCmds)
          \in Nat
    BY <2>2, <2>3 DEF Ssh!HangUp, SshCloseIsLast, Ssh!TypeOK
  <2>5. Len(sshCmds) = 1
    BY <2>4 DEF SshCloseIsLast
  <2>6. \A i \in 1..Len(sshCmds) : sshCmds[i].kind # "write"
    BY <2>4, <2>5
  <2>7. SshLeft <= sshAccepted /\ SshLeft \in Nat /\ sshAccepted \in Nat
        /\ \A n \in (SshLeft + 1)..sshAccepted : FALSE
    <3>1. SshLeft \in Nat /\ sshAccepted \in Nat
      BY DEF Ssh!TypeOK, SshLeft
    <3>2. /\ SshLeft <= sshAccepted
          /\ \A n \in (SshLeft + 1)..sshAccepted :
               \E i \in 1..Len(sshCmds) : sshCmds[i].kind = "write" /\ sshCmds[i].n = n
      BY <2>1, <2>2 DEF SshRestInOrder
    <3>3. QED
      BY <2>6, <3>1, <3>2
  <2>8. SshLeft = sshAccepted
    <3>1. sshAccepted \notin (SshLeft + 1)..sshAccepted
      BY <2>7
    <3>2. QED
      BY <2>7, <3>1
  <2>9. SshLeft' = SshLeft
    BY <1>1, <2>2 DEF SshLeft
  <2>10. QED
    BY <2>8, <2>9
<1>6. QED
  BY <1>2, <1>3, <1>4, <1>5

\* The set-up, time, and messages of the server touch neither commands nor writes.
LEMMA SshSetUpInv ==
  ASSUME Ssh!SshAssumption, SshIInv, Ssh!Answered \/ Ssh!Waits \/ Ssh!GrantsWindow
           \/ Ssh!ServerEnds
  PROVE  SshIInv'
<1> USE DEF SshIInv
<1>1. /\ UNCHANGED <<sshTracked, sshDelivered, sshSeen, sshClosed, sshCmds, sshAccepted,
                     sshAsked, sshOut, sshArrived, sshWriting,
                     sshHanded, sshTaken>>
      /\ \/ UNCHANGED <<sshPc, sshState>>
         \/ sshPc = "connect" /\ sshPc' = "auth" /\ UNCHANGED sshState
         \/ sshPc = "auth" /\ sshPc' = "channel" /\ UNCHANGED sshState
         \/ sshPc = "channel" /\ sshPc' = "loop" /\ sshState' = "Ready"
      /\ sshServer' = sshServer \/ sshServer' = "gone"
      /\ sshServer' = "up" => sshServer = "up"
  BY DEF Ssh!Answered, Ssh!Waits, Ssh!GrantsWindow, Ssh!ServerEnds, Ssh!SetState, Ssh!NextAwait,
     Ssh!handle, Ssh!input, Ssh!output, Ssh!writes, SshStateFits, Ssh!Errors, Ssh!Terminal
<1>2. sshWindow' \in 0..Window /\ sshWaited' \in 0..Inactivity
  BY DEF Ssh!Answered, Ssh!Waits, Ssh!GrantsWindow, Ssh!ServerEnds, Ssh!writes, Ssh!Limit,
     Ssh!TypeOK, Ssh!SshAssumption
<1>3. Ssh!TypeOK'
  BY <1>1, <1>2 DEF Ssh!TypeOK, Ssh!States
<1>4. SshStateFits'
  BY <1>1 DEF SshStateFits, Ssh!Errors, Ssh!Terminal
<1>5. SshCloseIsLast' /\ SshSentInOrder'
  BY <1>1 DEF SshCloseIsLast, SshSentInOrder
<1>6. SshRestInOrder'
  <2>1. SshLeft' = SshLeft
    BY <1>1 DEF SshLeft
  <2>2. QED
    BY <1>1, <2>1 DEF SshRestInOrder
<1>7. QED
  BY <1>3, <1>4, <1>5, <1>6

\* A command that is taken is the first: if it is a write, it is the next one.
LEMMA SshTakeInv ==
  ASSUME Ssh!SshAssumption, SshIInv, Ssh!TakeWrite \/ Ssh!TakeResize
  PROVE  SshIInv'
<1> USE DEF SshIInv
<1> DEFINE Command == [kind : {"write", "resize", "close"}, n : 0..sshAccepted]
<1>1. /\ sshPc = "loop" /\ sshCmds # <<>> /\ sshCmds' = Tail(sshCmds)
      /\ UNCHANGED <<sshTracked, sshDelivered, sshSeen, sshClosed, sshAccepted, sshAsked,
                     sshState, sshOut, sshArrived, sshHanded,
                     sshTaken, sshWindow, sshWaited, sshServer>>
      /\ sshCmds[1].kind # "close"
  BY DEF Ssh!TakeWrite, Ssh!TakeResize, Ssh!handle, Ssh!output, Ssh!writes
<1>2. /\ Len(sshCmds) \in Nat /\ Len(sshCmds) >= 1 /\ 1 \in 1..Len(sshCmds) /\ sshCmds[1]
           \in Command
      /\ sshCmds' \in Seq(Command) /\ Len(sshCmds') = Len(sshCmds) - 1
      /\ \A i \in 1..Len(sshCmds') : sshCmds'[i] = sshCmds[i + 1] /\ i + 1 \in 1..Len(sshCmds)
  BY <1>1, TailFacts DEF Ssh!TypeOK
<1>3. \/ Ssh!TakeWrite /\ sshCmds[1].kind = "write" /\ sshPc' = "write"
           /\ sshWriting' = sshCmds[1].n
      \/ Ssh!TakeResize /\ sshCmds[1].kind = "resize" /\ sshPc' = "loop" /\ UNCHANGED sshWriting
  BY <1>1 DEF Ssh!TakeWrite, Ssh!TakeResize, Ssh!writes
<1>4. Ssh!TypeOK'
  <2>1. sshWriting' \in Nat
    BY <1>2, <1>3 DEF Ssh!TypeOK
  <2>2. QED
    BY <1>1, <1>2, <1>3, <2>1 DEF Ssh!TypeOK
<1>5. SshStateFits'
  BY <1>1, <1>3 DEF SshStateFits, Ssh!Errors, Ssh!Terminal
<1>6. SshCloseIsLast'
  <2>1. ASSUME NEW i \in 1..Len(sshCmds')
        PROVE  sshCmds'[i].kind = "close" <=> (sshClosed' /\ i = Len(sshCmds'))
    <3>1. sshCmds'[i] = sshCmds[i + 1] /\ i + 1 \in 1..Len(sshCmds) /\ sshClosed' = sshClosed
      BY <1>1, <1>2
    <3>2. sshCmds[i + 1].kind = "close" <=> (sshClosed /\ i + 1 = Len(sshCmds))
      BY <3>1 DEF SshCloseIsLast
    <3>3. i + 1 = Len(sshCmds) <=> i = Len(sshCmds')
      BY <1>2
    <3>4. QED
      BY <3>1, <3>2, <3>3
  <2>2. sshClosed => Len(sshCmds) > 1
    <3>1. sshCmds[1].kind = "close" <=> (sshClosed /\ 1 = Len(sshCmds))
      BY <1>2 DEF SshCloseIsLast
    <3>2. QED
      BY <1>1, <1>2, <3>1
  <2>3. sshClosed => sshCmds' # <<>>
    BY <1>2, <2>2
  <2>4. QED
    BY <1>1, <1>3, <2>1, <2>3 DEF SshCloseIsLast
<1>7. SshSentInOrder'
  BY <1>1 DEF SshSentInOrder
<1>8. SshRestInOrder'
  <2>1. SUFFICES ASSUME sshServer = "up" PROVE SshRestInOrder'
    BY <1>1 DEF SshRestInOrder
  <2>2. /\ SshLeft \in Nat /\ sshAccepted \in Nat /\ SshLeft <= sshAccepted
        /\ \A i \in 1..Len(sshCmds) : sshCmds[i].kind = "write" => sshCmds[i].n
             \in (SshLeft + 1)..sshAccepted
        /\ \A n \in (SshLeft + 1)..sshAccepted :
             \E i \in 1..Len(sshCmds) : sshCmds[i].kind = "write" /\ sshCmds[i].n = n
        /\ \A i, j \in 1..Len(sshCmds) :
             sshCmds[i].kind = "write" /\ sshCmds[j].kind = "write" /\ i < j
               => sshCmds[i].n < sshCmds[j].n
    BY <1>1, <2>1 DEF SshRestInOrder, Ssh!TypeOK, SshLeft
  <2>3. \A i \in 1..Len(sshCmds) : sshCmds[i].kind = "write" => sshCmds[i].n \in Nat
    BY <2>2
  <2>4. ASSUME NEW i \in 1..Len(sshCmds'), NEW j \in 1..Len(sshCmds'),
               sshCmds'[i].kind = "write", sshCmds'[j].kind = "write", i < j
        PROVE  sshCmds'[i].n < sshCmds'[j].n
    <3>1. /\ sshCmds'[i] = sshCmds[i + 1] /\ i + 1 \in 1..Len(sshCmds)
          /\ sshCmds'[j] = sshCmds[j + 1] /\ j + 1 \in 1..Len(sshCmds)
      BY <1>2
    <3>0. i + 1 < j + 1
      <4>1. Len(sshCmds') \in Nat
        BY <1>2
      <4>2. QED
        BY <2>4, <4>1
    <3>2. QED
      BY <2>2, <2>4, <3>0, <3>1
  <2>5. CASE Ssh!TakeWrite
    <3>1. sshCmds[1].kind = "write" /\ sshPc' = "write" /\ sshWriting' = sshCmds[1].n
      BY <1>3, <2>5 DEF Ssh!TakeWrite
    <3>2. SshLeft' = SshLeft + 1
      BY <1>1, <3>1, <2>2 DEF SshLeft
    <3>3. sshCmds[1].n = SshLeft + 1
      <4>1. sshCmds[1].n \in (SshLeft + 1)..sshAccepted
        BY <1>2, <2>2, <3>1
      <4>2. SshLeft + 1 \in (SshLeft + 1)..sshAccepted
        BY <2>2, <4>1
      <4>3. PICK i \in 1..Len(sshCmds) : sshCmds[i].kind = "write" /\ sshCmds[i].n = SshLeft + 1
        BY <2>2, <4>2
      <4>4. CASE i = 1
        BY <4>3, <4>4
      <4>5. CASE i # 1
        <5>1. sshCmds[1].n < sshCmds[i].n
          BY <1>2, <2>2, <3>1, <4>3, <4>5
        <5>2. QED
          BY <2>2, <4>1, <4>3, <5>1
      <4>6. QED
        BY <4>4, <4>5
    <3>4. \A i \in 1..Len(sshCmds') :
            sshCmds'[i].kind = "write" => sshCmds'[i].n \in (SshLeft' + 1)..sshAccepted'
      <4>1. SUFFICES ASSUME NEW i \in 1..Len(sshCmds'), sshCmds[i + 1].kind = "write"
                     PROVE  sshCmds[i + 1].n \in (SshLeft + 2)..sshAccepted
        BY <1>1, <1>2, <2>2, <3>2
      <4>2. i + 1 \in 1..Len(sshCmds) /\ 1 < i + 1
        BY <1>2
      <4>3. sshCmds[i + 1].n \in (SshLeft + 1)..sshAccepted /\ sshCmds[1].n < sshCmds[i + 1].n
        BY <1>2, <2>2, <3>1, <4>1, <4>2
      <4>4. QED
        BY <2>2, <3>3, <4>3
    <3>5. ASSUME NEW n \in (SshLeft' + 1)..sshAccepted'
          PROVE  \E i \in 1..Len(sshCmds') : sshCmds'[i].kind = "write" /\ sshCmds'[i].n = n
      <4>1. n \in (SshLeft + 1)..sshAccepted /\ n # SshLeft + 1
        BY <1>1, <2>2, <3>2, <3>5
      <4>2. PICK i \in 1..Len(sshCmds) : sshCmds[i].kind = "write" /\ sshCmds[i].n = n
        BY <2>2, <4>1
      <4>3. i # 1
        BY <3>3, <4>1, <4>2
      <4>4. i - 1 \in 1..Len(sshCmds') /\ sshCmds'[i - 1] = sshCmds[i]
        BY <1>2, <4>3
      <4>5. QED
        BY <4>2, <4>4
    <3>6. SshLeft' <= sshAccepted'
      BY <1>1, <1>2, <2>2, <3>1, <3>2, <3>3
    <3>7. QED
      BY <3>1, <3>2, <3>3, <3>4, <3>5, <3>6, <2>4 DEF SshRestInOrder
  <2>6. CASE Ssh!TakeResize
    <3>1. sshCmds[1].kind = "resize" /\ sshPc' = "loop"
      BY <1>3, <2>6 DEF Ssh!TakeResize
    <3>2. SshLeft' = SshLeft
      BY <1>1, <3>1 DEF SshLeft
    <3>3. \A i \in 1..Len(sshCmds') :
            sshCmds'[i].kind = "write" => sshCmds'[i].n \in (SshLeft' + 1)..sshAccepted'
      BY <1>1, <1>2, <2>2, <3>2
    <3>4. ASSUME NEW n \in (SshLeft' + 1)..sshAccepted'
          PROVE  \E i \in 1..Len(sshCmds') : sshCmds'[i].kind = "write" /\ sshCmds'[i].n = n
      <4>1. PICK i \in 1..Len(sshCmds) : sshCmds[i].kind = "write" /\ sshCmds[i].n = n
        BY <1>1, <2>2, <3>2, <3>4
      <4>2. i # 1
        BY <3>1, <4>1
      <4>3. i - 1 \in 1..Len(sshCmds') /\ sshCmds'[i - 1] = sshCmds[i]
        BY <1>2, <4>2
      <4>4. QED
        BY <4>1, <4>3
    <3>5. QED
      BY <1>1, <3>1, <3>2, <3>3, <3>4, <2>2, <2>4 DEF SshRestInOrder
  <2>7. QED
    BY <2>5, <2>6
<1>9. QED
  BY <1>4, <1>5, <1>6, <1>7, <1>8

\* A write that ends is handed over behind the others, or the connection is gone; the connection
\* sends the first it was handed.
LEMMA SshWritesInv ==
  ASSUME Ssh!SshAssumption, SshIInv, Ssh!WriteEnds \/ Ssh!Send
  PROVE  SshIInv'
<1> USE DEF SshIInv
<1>1. /\ UNCHANGED <<sshTracked, sshDelivered, sshSeen, sshClosed, sshCmds, sshAccepted,
                     sshAsked, sshState, sshOut, sshArrived>>
      /\ sshPc # "done" /\ (sshPc' = sshPc \/ (sshPc = "write" /\ sshPc' = "loop"))
      /\ sshServer' = sshServer \/ sshServer' = "gone"
  BY DEF Ssh!WriteEnds, Ssh!Send, Ssh!handle, Ssh!input, Ssh!output
<1>2. SshStateFits' /\ SshCloseIsLast'
  BY <1>1 DEF SshStateFits, SshCloseIsLast, Ssh!Errors, Ssh!Terminal
<1>3. CASE Ssh!WriteEnds /\ sshServer' = "gone"
  <2>1. UNCHANGED <<sshHanded, sshTaken, sshWindow>> /\ sshWriting' = 0 /\ sshWaited' = 0
                    /\ sshPc' = "loop"
    BY <1>3 DEF Ssh!WriteEnds
  <2>2. sshWaited' \in 0..Inactivity
    BY <2>1 DEF Ssh!SshAssumption
  <2>3. Ssh!TypeOK'
    BY <1>1, <1>3, <2>1, <2>2 DEF Ssh!TypeOK
  <2>4. SshSentInOrder' /\ SshRestInOrder'
    BY <1>3, <2>1 DEF SshSentInOrder, SshRestInOrder
  <2>5. QED
    BY <1>2, <2>3, <2>4
<1>4. CASE Ssh!WriteEnds /\ sshServer' # "gone"
  <2>1. /\ sshServer = "up" /\ sshServer' = "up" /\ sshWindow > 0 /\ sshPc = "write"
             /\ sshPc' = "loop"
        /\ sshHanded' = Append(sshHanded, sshWriting) /\ sshWindow' = sshWindow - 1
        /\ sshWriting' = 0 /\ sshWaited' = 0 /\ UNCHANGED sshTaken
    BY <1>4 DEF Ssh!WriteEnds
  <2>2. /\ sshHanded' \in Seq(Nat) /\ Len(sshHanded') = Len(sshHanded) + 1
             /\ sshHanded'[Len(sshHanded) + 1] = sshWriting
        /\ \A i \in 1..Len(sshHanded) : sshHanded'[i] = sshHanded[i]
    BY <2>1 DEF Ssh!TypeOK
  <2>3. sshWriting = Len(sshTaken) + Len(sshHanded) + 1 /\ Len(sshTaken) \in Nat
          /\ Len(sshHanded) \in Nat
    BY <2>1 DEF SshRestInOrder, SshLeft, Ssh!TypeOK
  <2>4. SshLeft' = SshLeft
    BY <2>1, <2>2, <2>3 DEF SshLeft
  <2>5. Ssh!TypeOK'
    <3>1. sshWindow' \in 0..Window /\ sshWaited' \in 0..Inactivity
      BY <2>1 DEF Ssh!TypeOK, Ssh!SshAssumption
    <3>2. QED
      BY <1>1, <2>1, <2>2, <3>1 DEF Ssh!TypeOK
  <2>6. SshSentInOrder'
    <3>1. ASSUME NEW i \in 1..Len(sshHanded') PROVE sshHanded'[i] = Len(sshTaken) + i
      <4>1. i \in 1..Len(sshHanded) \/ i = Len(sshHanded) + 1
        BY <2>2, <2>3
      <4>2. QED
        BY <2>2, <2>3, <4>1 DEF SshSentInOrder
    <3>2. QED
      BY <2>1, <3>1 DEF SshSentInOrder
  <2>7. SshRestInOrder'
    BY <1>1, <2>1, <2>4 DEF SshRestInOrder
  <2>8. QED
    BY <1>2, <2>5, <2>6, <2>7
<1>5. CASE Ssh!Send
  <2>1. /\ sshHanded # <<>> /\ sshTaken' = Append(sshTaken, Head(sshHanded))
             /\ sshHanded' = Tail(sshHanded)
        /\ UNCHANGED <<sshPc, sshWriting, sshWindow, sshWaited, sshServer>>
    BY <1>5 DEF Ssh!Send
  <2>2. /\ Len(sshTaken) \in Nat /\ Len(sshHanded) \in Nat /\ Len(sshHanded) >= 1
        /\ sshTaken' \in Seq(Nat) /\ sshHanded' \in Seq(Nat)
        /\ Len(sshTaken') = Len(sshTaken) + 1 /\ Len(sshHanded') = Len(sshHanded) - 1
        /\ sshTaken'[Len(sshTaken) + 1] = sshHanded[1]
        /\ \A i \in 1..Len(sshTaken) : sshTaken'[i] = sshTaken[i]
        /\ \A i \in 1..Len(sshHanded') : sshHanded'[i] = sshHanded[i + 1] /\ i + 1
             \in 1..Len(sshHanded)
        /\ 1 \in 1..Len(sshHanded)
    BY <2>1, TailFacts DEF Ssh!TypeOK
  <2>3. Ssh!TypeOK'
    BY <1>1, <2>1, <2>2 DEF Ssh!TypeOK
  <2>4. SshSentInOrder'
    <3>1. ASSUME NEW i \in 1..Len(sshTaken') PROVE sshTaken'[i] = i
      <4>1. i \in 1..Len(sshTaken) \/ i = Len(sshTaken) + 1
        BY <2>2
      <4>2. sshHanded[1] = Len(sshTaken) + 1
        BY <2>2 DEF SshSentInOrder
      <4>3. QED
        BY <2>2, <4>1, <4>2 DEF SshSentInOrder
    <3>2. ASSUME NEW i \in 1..Len(sshHanded') PROVE sshHanded'[i] = Len(sshTaken') + i
      <4>1. sshHanded'[i] = sshHanded[i + 1] /\ i + 1 \in 1..Len(sshHanded)
        BY <2>2
      <4>2. sshHanded[i + 1] = Len(sshTaken) + (i + 1)
        BY <4>1 DEF SshSentInOrder
      <4>3. QED
        BY <2>2, <4>1, <4>2
    <3>3. QED
      BY <3>1, <3>2 DEF SshSentInOrder
  <2>5. SshLeft' = SshLeft
    BY <2>1, <2>2 DEF SshLeft
  <2>6. SshRestInOrder'
    BY <1>1, <2>1, <2>5 DEF SshRestInOrder
  <2>7. QED
    BY <1>2, <2>3, <2>4, <2>6
<1>6. QED
  BY <1>3, <1>4, <1>5

\* Output comes in and goes out beside all that.
LEMMA SshOutputInv ==
  ASSUME Ssh!SshAssumption, SshIInv, Ssh!Push \/ Ssh!Poll
  PROVE  SshIInv'
<1> USE DEF SshIInv
<1>1. UNCHANGED <<sshClosed, sshCmds, sshAccepted, sshAsked, sshState, sshPc, sshWriting,
                  sshHanded, sshTaken, sshWindow, sshWaited,
                  sshServer>>
  BY DEF Ssh!Push, Ssh!Poll, Ssh!input, Ssh!writes, Ssh!handle
<1>2. /\ sshOut' \in Seq(Nat) /\ Len(sshOut') <= MaxOut /\ sshDelivered' \in Seq(Nat)
           /\ sshArrived' \in Nat
      /\ sshTracked' \in BOOLEAN /\ sshSeen' \in Ssh!States
  <2>1. CASE Ssh!Push
    <3> DEFINE q == IF Len(sshOut) = MaxOut THEN Tail(sshOut) ELSE sshOut
    <3>1. q \in Seq(Nat) /\ Len(q) < MaxOut /\ MaxOut \in Nat
      BY DEF Ssh!TypeOK, Ssh!SshAssumption
    <3>2. sshOut' = Append(q, sshArrived + 1) /\ UNCHANGED <<sshTracked, sshSeen, sshDelivered>>
          /\ sshArrived' = sshArrived + 1
      BY <2>1 DEF Ssh!Push, Ssh!handle
    <3>3. QED
      BY <3>1, <3>2 DEF Ssh!TypeOK
  <2>2. CASE Ssh!Poll
    <3>1. sshOut' = <<>> /\ sshDelivered' = sshDelivered \o sshOut
      BY <2>2 DEF Ssh!Poll
    <3>2. sshOut' \in Seq(Nat) /\ Len(sshOut') <= MaxOut /\ sshDelivered' \in Seq(Nat)
      BY <3>1 DEF Ssh!TypeOK, Ssh!SshAssumption
    <3>3. QED
      BY <2>2, <3>2 DEF Ssh!Poll, Ssh!TypeOK
  <2>3. QED
    BY <2>1, <2>2
<1>3. Ssh!TypeOK'
  BY <1>1, <1>2 DEF Ssh!TypeOK
<1>4. SshStateFits'
  BY <1>1 DEF Ssh!Push, Ssh!Poll, Ssh!handle, SshStateFits, Ssh!TypeOK, Ssh!Errors, Ssh!Terminal
<1>5. SshCloseIsLast' /\ SshSentInOrder'
  BY <1>1 DEF SshCloseIsLast, SshSentInOrder
<1>6. SshRestInOrder'
  <2>1. SshLeft' = SshLeft
    BY <1>1 DEF SshLeft
  <2>2. QED
    BY <1>1, <2>1 DEF SshRestInOrder
<1>7. QED
  BY <1>3, <1>4, <1>5, <1>6

\* A command goes behind the others, or nowhere once the thread has ended.
LEMMA SshCommandInv ==
  ASSUME Ssh!SshAssumption, SshIInv, Ssh!Write \/ Ssh!Resize \/ Ssh!Close
  PROVE  SshIInv'
<1> USE DEF SshIInv
<1> DEFINE c == sshCmds'[Len(sshCmds) + 1]
<1>1. /\ sshTracked /\ UNCHANGED <<sshDelivered, sshSeen, sshState, sshOut, sshArrived, sshPc,
                                   sshWriting, sshHanded, sshTaken, sshWindow,
                     sshWaited, sshServer>>
      /\ sshAsked' \in Nat /\ sshTracked' \in BOOLEAN /\ sshClosed' \in BOOLEAN
      /\ sshAccepted' \in Nat
      /\ sshAccepted' = sshAccepted \/ sshAccepted' = sshAccepted + 1
      /\ sshTracked' <=> ~sshClosed'
      /\ ~sshClosed
  <2>1. sshTracked = TRUE /\ sshClosed = FALSE /\ sshAsked \in Nat /\ sshAccepted \in Nat
    BY DEF Ssh!Write, Ssh!Resize, Ssh!Close, Ssh!TypeOK, SshStateFits
  <2>2. CASE Ssh!Write
    <3>1. /\ UNCHANGED <<sshTracked, sshDelivered, sshSeen, sshClosed, sshState, sshOut,
                         sshArrived, sshPc, sshWriting, sshHanded,
                         sshTaken, sshWindow, sshWaited, sshServer>>
          /\ sshAsked' = sshAsked + 1
      BY <2>2 DEF Ssh!Write, Ssh!handle, Ssh!output, Ssh!writes
    <3>2. sshAccepted' = sshAccepted \/ sshAccepted' = sshAccepted + 1
      BY <2>2 DEF Ssh!Write
    <3>3. sshAsked' \in Nat /\ sshAccepted' \in Nat
      BY <2>1, <3>1, <3>2
    <3>4. sshTracked' = TRUE /\ sshClosed' = FALSE
      BY <2>1, <3>1
    <3>5. QED
      BY <2>1, <3>1, <3>2, <3>3, <3>4, Zenon
  <2>3. CASE Ssh!Resize
    <3>1. /\ UNCHANGED <<sshTracked, sshDelivered, sshSeen, sshClosed, sshState, sshOut,
                         sshArrived, sshPc, sshWriting, sshHanded,
                         sshTaken, sshWindow, sshWaited, sshServer>>
          /\ sshAsked' = sshAsked + 1
      BY <2>3 DEF Ssh!Resize, Ssh!handle, Ssh!output, Ssh!writes
    <3>2. sshAccepted' = sshAccepted \/ sshAccepted' = sshAccepted + 1
      BY <2>3 DEF Ssh!Resize
    <3>3. sshAsked' \in Nat /\ sshAccepted' \in Nat
      BY <2>1, <3>1, <3>2
    <3>4. sshTracked' = TRUE /\ sshClosed' = FALSE
      BY <2>1, <3>1
    <3>5. QED
      BY <2>1, <3>1, <3>2, <3>3, <3>4, Zenon
  <2>4. CASE Ssh!Close
    BY <2>1, <2>4 DEF Ssh!Close, Ssh!output, Ssh!writes
  <2>5. QED
    BY <2>2, <2>3, <2>4
<1>2. SshLeft' = SshLeft
  BY <1>1 DEF SshLeft
<1>3. SshSentInOrder'
  BY <1>1 DEF SshSentInOrder
<1>4. SshStateFits'
  BY <1>1 DEF SshStateFits, Ssh!Terminal
<1>5. CASE sshPc = "done"
  <2>1. UNCHANGED <<sshCmds, sshAccepted>> /\ sshCmds = <<>>
    BY <1>5 DEF Ssh!Write, Ssh!Resize, Ssh!Close, SshCloseIsLast
  <2>2. Ssh!TypeOK'
    BY <1>1, <2>1 DEF Ssh!TypeOK
  <2>3. SshCloseIsLast'
    BY <1>1, <1>5, <2>1 DEF SshCloseIsLast
  <2>4. SshRestInOrder'
    BY <1>1, <1>2, <1>5, <2>1 DEF SshRestInOrder
  <2>5. QED
    BY <1>3, <1>4, <2>2, <2>3, <2>4
<1>6. CASE sshPc # "done"
  <2>0. \E d \in [kind : {"write", "resize", "close"}, n : 0..sshAccepted'] :
          /\ sshCmds' = Append(sshCmds, d)
          /\ d.kind = "write" => d.n = sshAccepted + 1 /\ sshAccepted' = sshAccepted + 1
          /\ d.kind # "write" => sshAccepted' = sshAccepted
          /\ sshClosed' <=> d.kind = "close"
    <3>1. CASE Ssh!Write
      <4>1. [kind |-> "write", n |-> sshAccepted + 1] \in
              [kind : {"write", "resize", "close"}, n : 0..sshAccepted']
        BY <1>6, <3>1 DEF Ssh!Write, Ssh!TypeOK
      <4>2. sshClosed' = FALSE
        BY <1>1, <3>1 DEF Ssh!Write, Ssh!handle, Ssh!TypeOK
      <4>3. QED
        BY <1>6, <3>1, <4>1, <4>2 DEF Ssh!Write
    <3>2. CASE Ssh!Resize
      <4>1. Ssh!Cmd("resize") \in [kind : {"write", "resize", "close"}, n : 0..sshAccepted']
        BY <1>6, <3>2 DEF Ssh!Resize, Ssh!Cmd, Ssh!TypeOK
      <4>2. sshClosed' = FALSE
        BY <1>1, <3>2 DEF Ssh!Resize, Ssh!handle, Ssh!TypeOK
      <4>3. QED
        BY <1>6, <3>2, <4>1, <4>2 DEF Ssh!Resize, Ssh!Cmd
    <3>3. CASE Ssh!Close
      <4>1. Ssh!Cmd("close") \in [kind : {"write", "resize", "close"}, n : 0..sshAccepted']
        BY <1>6, <3>3 DEF Ssh!Close, Ssh!Cmd, Ssh!TypeOK
      <4>2. QED
        BY <1>6, <3>3, <4>1 DEF Ssh!Close, Ssh!Cmd
    <3>4. QED
      BY <3>1, <3>2, <3>3
  <2>1. PICK d \in [kind : {"write", "resize", "close"}, n : 0..sshAccepted'] :
          /\ sshCmds' = Append(sshCmds, d)
          /\ d.kind = "write" => d.n = sshAccepted + 1 /\ sshAccepted' = sshAccepted + 1
          /\ d.kind # "write" => sshAccepted' = sshAccepted
          /\ sshClosed' <=> d.kind = "close"
    BY <2>0
  <2>2. sshCmds \in Seq([kind : {"write", "resize", "close"}, n : 0..sshAccepted'])
    <3>1. 0..sshAccepted \subseteq 0..sshAccepted'
      BY <1>1 DEF Ssh!TypeOK
    <3> DEFINE S == [kind : {"write", "resize", "close"}, n : 0..sshAccepted]
               T == [kind : {"write", "resize", "close"}, n : 0..sshAccepted']
    <3>2. S \subseteq T
      BY <3>1
    <3>3. sshCmds \in Seq(S)
      BY DEF Ssh!TypeOK
    <3> HIDE DEF S, T
    <3>4. sshCmds \in Seq(T)
      BY <3>2, <3>3, WiderSeq
    <3>5. QED
      BY <3>4 DEF T
  <2>3. /\ sshCmds' \in Seq([kind : {"write", "resize", "close"}, n : 0..sshAccepted'])
        /\ Len(sshCmds) \in Nat /\ Len(sshCmds') = Len(sshCmds) + 1
             /\ sshCmds'[Len(sshCmds) + 1] = d
        /\ \A i \in 1..Len(sshCmds) : sshCmds'[i] = sshCmds[i]
        /\ \A i \in 1..Len(sshCmds') : i \in 1..Len(sshCmds) \/ i = Len(sshCmds) + 1
        /\ Len(sshCmds) + 1 \in 1..Len(sshCmds')
        /\ \A i \in 1..Len(sshCmds) : i \in 1..Len(sshCmds')
    BY <2>1, <2>2
  <2>4. Ssh!TypeOK'
    BY <1>1, <2>3 DEF Ssh!TypeOK
  <2>5. SshCloseIsLast'
    <3>1. \A i \in 1..Len(sshCmds) : sshCmds[i].kind # "close"
      BY <1>1 DEF SshCloseIsLast
    <3>2. \A i \in 1..Len(sshCmds') : sshCmds'[i].kind = "close" <=> (sshClosed'
            /\ i = Len(sshCmds'))
      BY <2>1, <2>3, <3>1
    <3>3. sshCmds' # <<>>
      BY <2>3
    <3>4. QED
      BY <1>1, <1>6, <3>2, <3>3 DEF SshCloseIsLast
  <2>6. SshRestInOrder'
    <3>1. SUFFICES ASSUME sshServer = "up" PROVE SshRestInOrder'
      BY <1>1 DEF SshRestInOrder
    <3>2. /\ SshLeft \in Nat /\ sshAccepted \in Nat /\ SshLeft <= sshAccepted
          /\ \A i \in 1..Len(sshCmds) : sshCmds[i].kind = "write" => sshCmds[i].n
               \in (SshLeft + 1)..sshAccepted
          /\ \A n \in (SshLeft + 1)..sshAccepted :
               \E i \in 1..Len(sshCmds) : sshCmds[i].kind = "write" /\ sshCmds[i].n = n
          /\ \A i, j \in 1..Len(sshCmds) :
               sshCmds[i].kind = "write" /\ sshCmds[j].kind = "write" /\ i < j
                 => sshCmds[i].n < sshCmds[j].n
          /\ sshPc = "write" => sshWriting = SshLeft
      BY <1>6, <3>1 DEF SshRestInOrder, Ssh!TypeOK, SshLeft
    <3>3. \A i \in 1..Len(sshCmds') :
            sshCmds'[i].kind = "write" => sshCmds'[i].n \in (SshLeft + 1)..sshAccepted'
      BY <1>1, <2>1, <2>3, <3>2
    <3>4. ASSUME NEW n \in (SshLeft + 1)..sshAccepted'
          PROVE  \E i \in 1..Len(sshCmds') : sshCmds'[i].kind = "write" /\ sshCmds'[i].n = n
      <4>1. CASE n \in (SshLeft + 1)..sshAccepted
        BY <2>3, <3>2, <4>1
      <4>2. CASE n \notin (SshLeft + 1)..sshAccepted
        <5>1. n = sshAccepted + 1 /\ sshAccepted' = sshAccepted + 1
          BY <1>1, <3>2, <3>4, <4>2
        <5>2. d.kind = "write" /\ d.n = n
          BY <2>1, <3>2, <5>1
        <5>3. QED
          BY <2>3, <5>2
      <4>3. QED
        BY <4>1, <4>2
    <3>5. ASSUME NEW i \in 1..Len(sshCmds'), NEW j \in 1..Len(sshCmds'),
                 sshCmds'[i].kind = "write", sshCmds'[j].kind = "write", i < j
          PROVE  sshCmds'[i].n < sshCmds'[j].n
      <4>1. i \in 1..Len(sshCmds)
        BY <2>3, <3>5
      <4>2. CASE j \in 1..Len(sshCmds)
        BY <2>3, <3>2, <3>5, <4>1, <4>2
      <4>3. CASE j = Len(sshCmds) + 1
        <5>1. sshCmds'[j].n = sshAccepted + 1
          BY <2>1, <2>3, <3>5, <4>3
        <5>2. sshCmds'[i].n \in (SshLeft + 1)..sshAccepted
          BY <2>3, <3>2, <3>5, <4>1
        <5>3. QED
          BY <3>2, <5>1, <5>2
      <4>4. QED
        BY <2>3, <4>2, <4>3
    <3>6. SshLeft' <= sshAccepted'
      BY <1>1, <1>2, <3>2
    <3>7. QED
      BY <1>1, <1>2, <1>6, <3>2, <3>3, <3>4, <3>5, <3>6 DEF SshRestInOrder
  <2>7. QED
    BY <1>3, <1>4, <2>4, <2>5, <2>6
<1>7. QED
  BY <1>5, <1>6

\* No step of a session breaks the invariant.
LEMMA SshNextInv == ASSUME Ssh!SshAssumption PROVE SshIInv /\ [Ssh!Next]_(Ssh!sshVars) => SshIInv'
<1> SUFFICES ASSUME SshIInv, [Ssh!Next]_(Ssh!sshVars) PROVE SshIInv'
  OBVIOUS
<1>1. CASE Ssh!Refused \/ Ssh!TimesOut \/ Ssh!RemoteEof \/ Ssh!HangUp
  <2>1. CASE Ssh!Refused \/ Ssh!TimesOut
    BY <2>1, SshEndsInv DEF Ssh!Refused, Ssh!TimesOut, Ssh!Errors, Ssh!Terminal
  <2>2. CASE Ssh!RemoteEof \/ Ssh!HangUp
    BY <2>2, SshEndsInv DEF Ssh!RemoteEof, Ssh!HangUp, Ssh!Terminal
  <2>3. QED
    BY <1>1, <2>1, <2>2
<1>2. CASE Ssh!Answered \/ Ssh!Waits \/ Ssh!GrantsWindow \/ Ssh!ServerEnds
  BY <1>2, SshSetUpInv
<1>3. CASE Ssh!TakeWrite \/ Ssh!TakeResize
  BY <1>3, SshTakeInv
<1>4. CASE Ssh!WriteEnds \/ Ssh!Send
  BY <1>4, SshWritesInv
<1>5. CASE Ssh!Push \/ Ssh!Poll
  BY <1>5, SshOutputInv
<1>6. CASE Ssh!Write \/ Ssh!Resize \/ Ssh!Close
  BY <1>6, SshCommandInv
<1>7. CASE UNCHANGED Ssh!sshVars
  BY <1>7 DEF Ssh!sshVars, SshIInv, Ssh!handle, Ssh!input, Ssh!output, Ssh!writes, Ssh!TypeOK,
     SshStateFits, SshCloseIsLast, SshSentInOrder, SshRestInOrder, SshLeft
<1>8. QED
  BY <1>1, <1>2, <1>3, <1>4, <1>5, <1>6, <1>7 DEF Ssh!Next, Ssh!Thread, Ssh!Await,
     Ssh!TakeCommand, Ssh!Ops

\* When the end came from the channel, nothing was left in it: what was sent and handed over is
\* all that was accepted.
LEMMA SshInvCloseFollows == SshIInv => Ssh!CloseFollowsWrites
<1> SUFFICES ASSUME SshIInv, sshPc = "done", sshState = "Closed", sshServer = "up"
             PROVE  sshTaken \o sshHanded = [i \in 1..sshAccepted |-> i]
  BY DEF Ssh!CloseFollowsWrites
<1>1. Len(sshTaken) + Len(sshHanded) = sshAccepted /\ sshTaken \in Seq(Nat) /\ sshHanded
        \in Seq(Nat)
      /\ sshAccepted \in Nat
  BY DEF SshIInv, SshRestInOrder, SshLeft, Ssh!TypeOK
<1>2. sshTaken \o sshHanded \in Seq(Nat) /\ Len(sshTaken \o sshHanded) = sshAccepted
  BY <1>1
<1>3. ASSUME NEW i \in 1..sshAccepted PROVE (sshTaken \o sshHanded)[i] = i
  <2>1. CASE i \in 1..Len(sshTaken)
    BY <1>1, <2>1 DEF SshIInv, SshSentInOrder
  <2>2. CASE i \notin 1..Len(sshTaken)
    <3>1. i - Len(sshTaken) \in 1..Len(sshHanded) /\ i = Len(sshTaken) + (i - Len(sshTaken))
      BY <1>1, <2>2
    <3>2. (sshTaken \o sshHanded)[i] = sshHanded[i - Len(sshTaken)]
      BY <1>1, <2>2, <3>1
    <3>3. QED
      BY <3>1, <3>2 DEF SshIInv, SshSentInOrder
  <2>3. QED
    BY <2>1, <2>2
<1> DEFINE s == sshTaken \o sshHanded
<1>4. s \in [1..Len(s) -> Nat]
  <2>1. s \in Seq(Nat)
    BY <1>2
  <2> HIDE DEF s
  <2>2. QED
    BY <2>1
<1>5. s \in [1..sshAccepted -> Nat]
  BY <1>2, <1>4
<1> HIDE DEF s
<1>6. s = [i \in 1..sshAccepted |-> s[i]]
  BY <1>5
<1>7. \A i \in 1..sshAccepted : s[i] = i
  BY <1>3 DEF s
<1>8. s = [i \in 1..sshAccepted |-> i]
  BY <1>6, <1>7
<1>9. QED
  BY <1>8 DEF s

\* What a poll sees at first is a fresh handle.
LEMMA SshInitImplements == Ssh!Init => Ssh!AsHandle!Init
BY DEF Ssh!Init, Ssh!AsHandle!Init, Ssh!Terminal, Ssh!Errors

\* The end of the thread is the end of the handle, unless the session was closed before.
LEMMA SshEndsImplements ==
  ASSUME SshIInv, NEW s \in Ssh!Terminal, Ssh!EndsWith(s), sshPc # "done"
  PROVE  Ssh!AsHandle!Next \/ UNCHANGED Ssh!AsHandle!handleVars
<1>1. /\ UNCHANGED <<sshTracked, sshDelivered, sshSeen, sshOut, sshArrived>>
      /\ sshState' = s /\ sshState \in {"Connecting", "Ready"} /\ sshPc \in {"connect", "auth",
           "channel", "loop", "write"}
  BY DEF Ssh!EndsWith, Ssh!handle, Ssh!output, Ssh!SetState, SshIInv, Ssh!TypeOK, SshStateFits,
     Ssh!Errors, Ssh!Terminal
<1>2. CASE sshTracked
  BY <1>1, <1>2 DEF Ssh!AsHandle!Next, Ssh!AsHandle!End, Ssh!Terminal, Ssh!Errors
<1>3. CASE ~sshTracked
  BY <1>1, <1>3 DEF Ssh!AsHandle!handleVars
<1>4. QED
  BY <1>2, <1>3

\* A message is an arrival, which drops the oldest when the buffer is full.
LEMMA SshPushImplements ==
  ASSUME Ssh!SshAssumption, SshIInv, Ssh!Push
  PROVE  Ssh!AsHandle!Next \/ UNCHANGED Ssh!AsHandle!handleVars
<1>1. /\ UNCHANGED <<sshTracked, sshState, sshDelivered, sshSeen>> /\ sshState = "Ready"
      /\ sshArrived' = sshArrived + 1
      /\ sshOut' = Append(IF Len(sshOut) = MaxOut THEN Tail(sshOut) ELSE sshOut, sshArrived + 1)
      /\ Len(sshOut) <= MaxOut /\ Len(sshOut) \in Nat /\ MaxOut \in Nat
  BY DEF Ssh!Push, Ssh!handle, SshIInv, Ssh!TypeOK, SshStateFits, Ssh!SshAssumption
<1>2. CASE sshTracked
  BY <1>1, <1>2 DEF Ssh!AsHandle!Next, Ssh!AsHandle!Arrive, Ssh!Terminal, Ssh!Errors
<1>3. CASE ~sshTracked
  BY <1>1, <1>3 DEF Ssh!AsHandle!handleVars
<1>4. QED
  BY <1>2, <1>3

\* A poll is a poll, the last one when it tells an end; a close is a close.
LEMMA SshOpsImplement ==
  ASSUME SshIInv, Ssh!Poll \/ Ssh!Close
  PROVE  Ssh!AsHandle!Next
<1>0. sshTracked /\ sshState \in Ssh!States /\ sshSeen \notin Ssh!Terminal
  BY DEF Ssh!Poll, Ssh!Close, SshIInv, Ssh!TypeOK, SshStateFits
<1>1. CASE Ssh!Poll
  <2>1. /\ UNCHANGED <<sshState, sshArrived>> /\ sshSeen' = sshState
        /\ sshDelivered' = sshDelivered \o sshOut /\ sshOut' = <<>>
             /\ sshTracked' = (sshState \notin Ssh!Terminal)
    BY <1>1 DEF Ssh!Poll
  <2>2. CASE sshState \in Ssh!Terminal
    BY <1>0, <2>1, <2>2 DEF Ssh!AsHandle!Next, Ssh!AsHandle!LastPoll, Ssh!AsHandle!Forget
  <2>3. CASE sshState \notin Ssh!Terminal
    BY <1>0, <2>1, <2>3 DEF Ssh!AsHandle!Next, Ssh!AsHandle!Poll, Ssh!States
  <2>4. QED
    BY <2>2, <2>3
<1>2. CASE Ssh!Close
  <2>1. ~sshTracked' /\ UNCHANGED <<sshDelivered, sshSeen, sshState, sshOut, sshArrived>>
    BY <1>2 DEF Ssh!Close, Ssh!output
  <2>2. QED
    BY <1>0, <2>1 DEF Ssh!AsHandle!Next, Ssh!AsHandle!Close, Ssh!AsHandle!Forget
<1>3. QED
  BY <1>1, <1>2

\* Every step of a session is one of its handle, or invisible to it.
LEMMA SshNextImplements ==
  Ssh!SshAssumption /\ SshIInv /\ [Ssh!Next]_(Ssh!sshVars)
    => [Ssh!AsHandle!Next]_(Ssh!AsHandle!handleVars)
<1> SUFFICES ASSUME Ssh!SshAssumption, SshIInv, [Ssh!Next]_(Ssh!sshVars)
             PROVE  Ssh!AsHandle!Next \/ UNCHANGED Ssh!AsHandle!handleVars
  OBVIOUS
<1>1. CASE Ssh!Refused \/ Ssh!TimesOut \/ Ssh!RemoteEof \/ Ssh!HangUp
  <2>1. CASE Ssh!Refused \/ Ssh!TimesOut
    BY <2>1, SshEndsImplements DEF Ssh!Refused, Ssh!TimesOut, Ssh!Errors, Ssh!Terminal
  <2>2. CASE Ssh!RemoteEof \/ Ssh!HangUp
    BY <2>2, SshEndsImplements DEF Ssh!RemoteEof, Ssh!HangUp, Ssh!Terminal
  <2>3. QED
    BY <1>1, <2>1, <2>2
<1>2. CASE Ssh!Answered
  <2>1. UNCHANGED <<sshTracked, sshDelivered, sshSeen, sshOut, sshArrived>>
    BY <1>2 DEF Ssh!Answered, Ssh!handle, Ssh!output
  <2>2. CASE sshPc = "channel"
    <3>1. sshState = "Connecting" /\ sshState' = "Ready"
      BY <1>2, <2>2 DEF Ssh!Answered, Ssh!SetState, SshIInv, SshStateFits, Ssh!Terminal, Ssh!Errors
    <3>2. CASE sshTracked
      BY <2>1, <3>1, <3>2 DEF Ssh!AsHandle!Next, Ssh!AsHandle!Open, Ssh!Terminal, Ssh!Errors
    <3>3. CASE ~sshTracked
      BY <2>1, <3>1, <3>3 DEF Ssh!AsHandle!handleVars
    <3>4. QED
      BY <3>2, <3>3
  <2>3. CASE sshPc # "channel"
    BY <1>2, <2>1, <2>3 DEF Ssh!Answered, Ssh!AsHandle!handleVars
  <2>4. QED
    BY <2>2, <2>3
<1>3. CASE Ssh!Push
  BY <1>3, SshPushImplements
<1>4. CASE Ssh!Poll \/ Ssh!Close
  BY <1>4, SshOpsImplement
<1>5. CASE Ssh!Waits \/ Ssh!GrantsWindow \/ Ssh!ServerEnds \/ Ssh!TakeWrite \/ Ssh!TakeResize
             \/ Ssh!WriteEnds \/ Ssh!Send
           \/ Ssh!Write \/ Ssh!Resize \/ UNCHANGED Ssh!sshVars
  <2>1. UNCHANGED <<sshTracked, sshState, sshDelivered, sshSeen, sshOut, sshArrived>>
    BY <1>5 DEF Ssh!Waits, Ssh!GrantsWindow, Ssh!ServerEnds, Ssh!TakeWrite, Ssh!TakeResize,
       Ssh!WriteEnds, Ssh!Send, Ssh!Write, Ssh!Resize, Ssh!sshVars, Ssh!handle, Ssh!output
  <2>2. QED
    BY <2>1 DEF Ssh!AsHandle!handleVars
<1>6. QED
  BY <1>1, <1>2, <1>3, <1>4, <1>5 DEF Ssh!Next, Ssh!Thread, Ssh!Await, Ssh!TakeCommand, Ssh!Ops

-----------------------------------------------------------------------------
(* The hub.                                                                *)

\* A step of the hub is a step of one kind, and of the others no variable changes.
LEMMA NextSteps ==
  [Next]_hubVars =>
    /\ [Tcp!Next]_(Tcp!tcpVars) /\ [Udp!Next]_(Udp!udpVars)
    /\ [Http!Next]_(Http!httpVars) /\ [Ssh!Next]_(Ssh!sshVars)
    /\ UNCHANGED kind
<1> SUFFICES ASSUME [Next]_hubVars
             PROVE  /\ [Tcp!Next]_tcpAll /\ [Udp!Next]_udpAll
                    /\ [Http!Next]_httpAll /\ [Ssh!Next]_sshAll
                    /\ UNCHANGED kind
  BY DEF tcpAll, Tcp!tcpVars, Tcp!handle, Tcp!buffers, Tcp!sending, Tcp!remote, udpAll,
     Udp!udpVars, httpAll, Http!httpVars, sshAll, Ssh!sshVars, Ssh!handle, Ssh!input,
     Ssh!output, Ssh!writes
<1>1. CASE TcpStep
  BY <1>1 DEF TcpStep
<1>2. CASE UdpStep
  BY <1>2 DEF UdpStep
<1>3. CASE HttpStep
  BY <1>3 DEF HttpStep
<1>4. CASE SshStep
  BY <1>4 DEF SshStep
<1>5. CASE UNCHANGED hubVars
  BY <1>5 DEF hubVars
<1>6. QED
  BY <1>1, <1>2, <1>3, <1>4, <1>5 DEF Next

HubInv == kind \in {"tcp", "udp", "http", "ssh"} /\ TcpIInv /\ UdpIInv /\ HttpIInv /\ SshIInv

\* Every kind keeps its invariant, whatever else the hub does.
LEMMA HubInvariant == Spec => []HubInv
<1>1. Init => HubInv
  BY HubAssumption, TcpInitInv, UdpInitInv, HttpInitInv, SshInitInv DEF Init, HubInv
<1>2. HubInv /\ [Next]_hubVars => HubInv'
  BY HubAssumption, NextSteps, TcpNextInv, UdpNextInv, HttpNextInv, SshNextInv DEF HubInv
<1>3. QED
  BY <1>1, <1>2, PTL DEF Spec

\* Of any number of handles, and whatever their peers and the plugin do: every variable has its
\* type, and no buffer or queue ever passes its cap (push_rx, run_udp_thread, push_out).
THEOREM HubTypeCorrect == Spec => []TypeOK
<1>1. HubInv => TypeOK
  BY DEF HubInv, TcpIInv, UdpIInv, HttpIInv, SshIInv, TypeOK
<1>2. QED
  BY <1>1, HubInvariant, PTL

\* Whatever the thread and the plugin do in between, a plugin that was told Ready finds the
\* stream when it sends (run_tcp_thread, tcp_send).
THEOREM ToldReadyCanSend == Spec => []ReadyMeansSendable
<1>1. HubInv => ReadyMeansSendable
  BY DEF HubInv, TcpIInv, ReadyMeansSendable
<1>2. QED
  BY <1>1, HubInvariant, PTL

\* However large the buffer and however much the peer sends: a plugin that was told Closed
\* has got all of it (push_rx, run_tcp_thread, tcp_poll).
THEOREM ToldClosedHasAll == Spec => []ClosedMeansAll
<1>1. HubInv => ClosedMeansAll
  BY TcpInvClosedMeansAll DEF HubInv, ClosedMeansAll
<1>2. QED
  BY <1>1, HubInvariant, PTL

\* A TCP connection implements the handle of NetHandle, in every behaviour: nothing is lost,
\* repeated or reordered, and the end is told with the last of it (tcp_poll, push_rx).
THEOREM TcpIsAHandle == Spec => TcpImplementsHandle
<1>1. Init => Tcp!AsHandle!Init
  BY TcpInitImplements DEF Init
<1>2. HubInv /\ [Next]_hubVars => [Tcp!AsHandle!Next]_(Tcp!AsHandle!handleVars)
  BY NextSteps, TcpNextImplements DEF HubInv
<1>3. QED
  BY <1>1, <1>2, HubInvariant, PTL
     DEF Spec, TcpImplementsHandle, Tcp!ImplementsHandle, Tcp!AsHandle!Spec

\* So does every UDP listener, however many there are: its full queue loses the oldest datagram
\* and nothing else, whatever the other listeners do (udp_poll, run_udp_thread).
THEOREM UdpListenersAreHandles == Spec => UdpImplementsHandle
<1>1. Init => \A l \in Listeners : Udp!AsHandle(l)!Init
  BY UdpInitImplements DEF Init
<1>2. HubInv /\ [Next]_hubVars =>
        [\A l \in Listeners :
           Udp!AsHandle(l)!Next \/ UNCHANGED Udp!AsHandle(l)!handleVars]_(Udp!udpVars)
  BY HubAssumption, NextSteps, UdpNextImplements DEF HubInv
<1>3. QED
  BY <1>1, <1>2, HubInvariant, PTL DEF Spec, UdpImplementsHandle, Udp!ImplementsHandle

\* So does an SSH session, whatever the server sends and however the session ends (ssh_poll,
\* push_out, set_state).
THEOREM SshIsAHandle == Spec => SshImplementsHandle
<1>1. Init => Ssh!AsHandle!Init
  BY SshInitImplements DEF Init
<1>2. HubInv /\ [Next]_hubVars => [Ssh!AsHandle!Next]_(Ssh!AsHandle!handleVars)
  BY HubAssumption, NextSteps, SshNextImplements DEF HubInv
<1>3. QED
  BY <1>1, <1>2, HubInvariant, PTL
     DEF Spec, SshImplementsHandle, Ssh!ImplementsHandle, Ssh!AsHandle!Spec

\* However many writes are queued when a session is closed: unless its server is gone, all of
\* them were sent or handed over, in order, when it ends (ssh_write, ssh_close, run_session).
THEOREM CloseIsBehindWrites == Spec => []CloseFollowsWrites
<1>1. HubInv => CloseFollowsWrites
  BY SshInvCloseFollows DEF HubInv, CloseFollowsWrites
<1>2. QED
  BY <1>1, HubInvariant, PTL

\* However many requests are made, polled and cancelled: none is told another's result
\* (new_id, the thread of http_request, http_cancel).
THEOREM RequestsGetTheirAnswers == Spec => []AnswersItsRequest
<1>1. HubInv => AnswersItsRequest
  BY DEF HubInv, HttpIInv, AnswersItsRequest
<1>2. QED
  BY <1>1, HubInvariant, PTL

\* No result of a request that was cancelled, or told its end, stays behind (the thread of
\* http_request).
THEOREM LateResultsAreDropped == Spec => []NoResponseIsStranded
<1>1. HubInv => NoResponseIsStranded
  BY HttpInvStrandsNothing DEF HubInv, NoResponseIsStranded
<1>2. QED
  BY <1>1, HubInvariant, PTL
=============================================================================
