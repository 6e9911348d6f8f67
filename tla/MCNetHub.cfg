SPECIFICATION FairSpec
CONSTANTS
  MaxRx = 2
  SendRoom = 1
  MaxChunks = 4
  MaxSends = 2
  Listeners = {l1, l2}
  MaxQueue = 2
  MaxDatagrams = 3
  Requests = {r1, r2, r3}
  None = None
  MaxOut = 2
  ConnectTimeout = 1
  Inactivity = 2
  Window = 1
  MaxMsgs = 3
  MaxCmds = 3
INVARIANTS
  TypeOK
  ReadyMeansSendable
  ClosedMeansAll
  AnswersItsRequest
  NoResponseIsStranded
  CloseFollowsWrites
PROPERTIES
  TcpImplementsHandle
  UdpImplementsHandle
  SshImplementsHandle
  TcpThreadEnds
  PortComesBack
  EveryRequestEnds
  CloseEndsSession
\* Handles that ended, were told and forgotten do nothing more.
CHECK_DEADLOCK FALSE
