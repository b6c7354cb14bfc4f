SPECIFICATION Spec
CONSTANTS
  NumEls = 3
  Attempts = 2
  InfoTries = 3
  PeerTries = 2
  MaxStops = 2
  MaxLost = 3
  Absent = Absent
  Empty = Empty
CHECK_DEADLOCK FALSE
INVARIANTS TypeOK KnowsAll
PROPERTIES PairingEnds RetryRecovers ImplementsPairing
