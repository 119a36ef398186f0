SPECIFICATION FairSpec
CONSTANTS
  StepCount = 3
  PartialResets = FALSE
INVARIANT SequencerTypeOK
INVARIANT RunsAfterDeps
INVARIANT Exclusive
INVARIANT RequestClosed
PROPERTY VerdictFinal
PROPERTY ZeroIsStagnant
PROPERTY RequestSettled
