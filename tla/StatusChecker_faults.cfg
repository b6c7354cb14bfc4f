SPECIFICATION FairSpec
CONSTANTS
  Clients = {c1, c2}
  Roots = {r1, r2}
  Unreachable = Unreachable
  Unparsable = Unparsable
  Pending = Pending
  Phase0 = 0
  Phase1 = 1
  Phase2 = 3
  Phase3 = 5
  MaxRetries = 1
  CheckSlots = 1
  SleepSlots = 1
  MaxChanges = 1
CHECK_DEADLOCK FALSE
PROPERTY FaultsStop
