SPECIFICATION Spec
CONSTANTS
  r1 = r1
  r2 = r2
  allow = allow
  reject = reject
  Request <- MCRequest
  Handler = {h1, h2}
  OptionId <- MCOptionId
  NoOption = NoOption
  NoEvent = NoEvent
  NoAnswer = NoAnswer
  Offer <- MCOffer
CHECK_DEADLOCK FALSE
INVARIANT CancelAndApprovalAgree
