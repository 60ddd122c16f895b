SPECIFICATION LiveSpec
CONSTANTS
  c1 = c1
  c2 = c2
  Clients <- OneClient
  MaxStreams = 2
  MaxMsgs = 1
  QueueSize = 1
  MaxRetries = 1
CHECK_DEADLOCK FALSE
INVARIANTS ClosingIsOrderly AtMostOnce
PROPERTIES BreakIsNoticed ClosedGoesQuiet
