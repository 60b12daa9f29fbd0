SPECIFICATION GatewaySpec
CONSTANTS
  r1 = r1
  r2 = r2
  allow = allow
  reject = reject
  approval1 = approval1
  runA = runA
  runB = runB
  None = None
  Request <- MCRequest
  Handler = {h1, h2}
  OptionId <- MCOptionId
  NoOption = NoOption
  NoEvent = NoEvent
  NoAnswer = NoAnswer
  Offer <- MCOffer
  Publisher = {p1, p2}
  Sub = {c1}
  RingSize = 2
  QueueSize = 1
  RelaySize = 1
  MaxEvents = 4
  Wanted = {1, 2, 4}
  Envelopes <- MCEnvelopes
  NoText = NoText
  ChannelSize = 1
  MaxPublished = 3
  MaxStarts = 2
  Proc = {1, 2}
  Foreign = {9}
  Ui = {11, 12}
  Stream = {21, 22}
  MaxFailures = 1
  MaxAuth = 1
  MaxAsks = 2
  WindowCall = {1, 2}
  Session = {11, 12}
  Agent = {21, 22}
  MaxCalls = 3
CHECK_DEADLOCK FALSE
INVARIANTS
  Types
  AnswerAgrees
  AnnouncedOnce
  LiveExactlyOnce
  SnapshotMeetsLive
  SeenInOrder
  
  OneLiveStream
  RunFollowsMessages
  RequestsStay
  DeletedIsGone
PROPERTIES
  RequestsReturn
  PromiseSpec
  FeedsKeepPromise
  BrokenLinkReleases
