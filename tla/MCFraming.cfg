CONSTANTS
  HeaderSize = 3
  TrailerSize = 1
  MaxPayload = 2
  RequestSizes <- SmallRequests
  ReplySizes <- AnyReplies
  MaxCalls = 3
SPECIFICATION FramingSpec
INVARIANTS RepliesAdvance RepliesMatch
PROPERTIES ImplementsChannel CallsReturn
CHECK_DEADLOCK FALSE
