SPECIFICATION FairLiveSpec
CONSTANTS
  A = A
  B = B
  Ends <- MCEnds
  Opts <- MCOpts
  Ids <- MCIds
  ZeroDraws = {}
  AppAnswers = {"drop", "ack"}
  WpDepth = 8
  MaxRetries = 1
  MaxOutbound = 3
  TxCap = 3
  BufCap = 1
  EmptyAccepted = TRUE
  MaxUnackd = 1
  Prompt = FALSE
  Limit <- SendHangups
PROPERTY HangupLast
PROPERTY HangupEnds
