SPECIFICATION Spec
CONSTANTS
  A = A
  B = B
  Ends <- MCEnds
  Opts <- MCOptsMixed
  Ids <- MCIds
  ZeroDraws = {0}
  AppAnswers = {"drop", "ack"}
  WpDepth = 3
  MaxRetries = 0
  MaxOutbound = 1
  TxCap = 1
  BufCap = 1
  EmptyAccepted = TRUE
  MaxUnackd = 1
  Prompt = FALSE
  Limit <- Session
INVARIANT TypeOK
INVARIANT PlanInv
INVARIANT Established
INVARIANT HangupHeard
PROPERTY Lifecycle
