SPECIFICATION Spec
CONSTANTS
  Clients = {lighthouse, prysm}
  Values = {head1, head2}
  MaxTries = 2
  MaxRounds = 2
  MaxRuns = 1
  MaxChanges = 2
  Refused = Refused
  Slow = Slow
  Erroneous = Erroneous
  Garbled = Garbled
  Pending = Pending
CHECK_DEADLOCK FALSE

PROPERTY ConsensusEndsRetries
