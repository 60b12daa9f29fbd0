SPECIFICATION AgentSpec
CONSTANTS
  s1 = s1
  p1 = p1
  p2 = p2
  k1 = k1
  plain = plain
  hidden = hidden
  Session = {s1}
  Prompt = {p1, p2}
  Tool = {"shell", "odd"}
  Key = {k1}
  NoKey = NoKey
  Known = {"shell"}
  Capable = {"shell"}
  Calls <- MCCalls
  None = None
  Setups <- MCSetups
  MaxRounds = 1
  MaxSessionEvents = 1
  ToolCall = {1, 2}
  Requests <- MCRequests
  MaxCalls = 2
  Name = {"site", "localhost"}
  Local = {"localhost"}
  Address = {"8.8.8.8", "127.0.0.1"}
  Blocked = {"127.0.0.1"}
  Provider = "site"
  Proxies = {"127.0.0.1", "8.8.8.8"}
  NoProxy = NoProxy
  Redirects = 2
  Attempts = 2
  Path = {plain, hidden}
  Hidden = {hidden}
  Ignored = {}
  Secret = {hidden}
  Text <- MCText
  Piece = {"a", "z"}
  Zero = "z"
  MaxRead = 1
  MaxHits = 1
  Inode = {1, 2, 3}
  NoFile = NoFile
  Sources = 2
  Builtin = 1
  Priority <- MCPriority
  SkillName = {"x"}
  MaxEdits = 1
  Item = {1, 2}
  Pieces = 2
  Shapes <- MCShapes
  ModelAttempts = 2
  NoEvent = NoEvent
  Delegation = {1, 2, 3}
  Concurrency = 1
  QueueSize = 1
  Deltas = 1
  MaxBackups = 3
  Full = 1
  MaxLines = 6
  NoLog = NoLog
  Layer <- MCLayer
  Environ <- MCEnviron
  Server = {"fs"}
  Default <- MCDefault
  Unset = Unset
  NoNumber = NoNumber
CHECK_DEADLOCK FALSE
INVARIANTS
  Types
  AnswerIsEarned
  ApprovedBeforeRun
  RecordedBeforeAnswer
  RunningIsCancellable
  
  OnlyAllowedTargets
  
  SlotsAreReturned
  
  SkillsGuarded
  HighestSourceWins
PROPERTIES
  CancelEndsRun
  
