SPECIFICATION FairSpec
CONSTANTS
  A = A
  B = B
  Ends <- MCEnds
  Opts <- MCOpts
  Ids <- MCIds
  ZeroDraws = {}
  AppAnswers = {"drop", "ack"}
  WpDepth = 8
  MaxRetries = 0
  MaxOutbound = 3
  TxCap = 5
  BufCap = 1
  EmptyAccepted = TRUE
  MaxUnackd = 2
  Prompt = TRUE
  Limit <- Quiet
PROPERTY TentativeEnds
