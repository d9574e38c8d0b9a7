SPECIFICATION FairSpec
CONSTANTS
  SeqMod = 16
  AckWindow = 6
  IssMe = 14
  IssThem = 15
  PeerBytes = 2
  HelloLen = 2
  ReplyLen = 1
  HelloTimeout = 1
  Timeout = 3
  T1 = 1
  T2 = 1
  T5 = 2
  T10 = 2
  MaxPackets = 5
  Off = Off
INVARIANTS DeliveredInOrder RetransmitInBounds NoCallOnDeadTcb
PROPERTIES AckNeverBack TcbDestroyed
