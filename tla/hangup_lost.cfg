SPECIFICATION FairLiveSpec
CONSTANTS
  A = A
  B = B
  Ends <- MCEnds
  Opts <- MCOpts
  Ids <- MCIds
  ZeroDraws = {}
  AppAnswers = {"drop", "ack"}
  WpDepth = 8
  MaxRetries = 3
  MaxOutbound = 3
  TxCap = 3
  BufCap = 2
  EmptyAccepted = TRUE
  MaxUnackd = 2
  Prompt = FALSE
  Limit <- HangupLoss
PROPERTY HangupEnds
