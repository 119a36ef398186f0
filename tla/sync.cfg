SPECIFICATION FairSpec
CONSTANTS
  A = A
  B = B
  Ends <- MCEnds
  Opts <- MCOpts
  Ids <- MCIds
  ZeroDraws = {0}
  AppAnswers = {"drop", "ack"}
  WpDepth = 8
  MaxRetries = 0
  MaxOutbound = 3
  TxCap = 2
  BufCap = 1
  EmptyAccepted = TRUE
  MaxUnackd = 2
  Prompt = TRUE
  Limit <- Named
PROPERTY ResyncEnds
PROPERTY SyncDiesOut
