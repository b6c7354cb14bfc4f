SPECIFICATION Spec
CONSTANTS
  NumClients = 3
  TekuClients = {}
  Window = 2
  MaxBlocks = 5
CHECK_DEADLOCK FALSE
INVARIANTS IInv ForksReported NoFalseForks SyncingIsBehind
