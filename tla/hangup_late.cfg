SPECIFICATION Spec
CONSTANTS
  A = A
  B = B
  Ends <- MCEnds
  Opts <- MCOpts
  Ids <- MCIds
  ZeroDraws = {}
  AppAnswers = {"drop", "ack"}
  WpDepth = 8
  MaxRetries = 0
  MaxOutbound = 2
  TxCap = 1
  BufCap = 1
  EmptyAccepted = TRUE
  MaxUnackd = 0
  Prompt = FALSE
  Limit <- SendHangup
PROPERTY HangupLast
