SPECIFICATION LiveSpec
CONSTANTS
  A = A
  B = B
  Ends <- MCEnds
  Opts <- MCOptsKA
  Ids <- MCIds
  ZeroDraws = {}
  AppAnswers = {"drop", "ack"}
  WpDepth = 8
  MaxRetries = 1
  MaxOutbound = 3
  TxCap = 2
  BufCap = 2
  EmptyAccepted = TRUE
  MaxUnackd = 2
  Prompt = TRUE
  Limit <- OneSend
PROPERTY QueuedIsSent
