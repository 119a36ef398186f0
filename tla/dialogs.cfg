SPECIFICATION LiveSpec
CONSTANTS
  A = A
  B = B
  Ends <- MCEnds
  Opts <- MCOpts
  Ids <- MCIds
  ZeroDraws = {}
  AppAnswers = {"drop", "ack"}
  WpDepth = 8
  MaxRetries = 1
  MaxOutbound = 3
  TxCap = 1
  BufCap = 1
  EmptyAccepted = TRUE
  MaxUnackd = 6
  Prompt = FALSE
  Limit <- Dialogs
SYMMETRY EndSymmetry
PROPERTY WaitingNotForgotten
PROPERTY ReplyReleases
