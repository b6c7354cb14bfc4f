SPECIFICATION LSpec
CONSTANTS
  client = client
  Clients <- MCClients
  EagerClients <- MCClients
  AdminClients <- MCClients
  EthClients <- MCClients
  Readers = {watch}
  NumCollections = 1
  CollectionOf <- MCCollectionOf
  GenesisFile <- MCGenesisFile
  PairAttempts = 2
  ElectraMended = {TRUE, FALSE}
  MaxRuns = 3
  MaxFaults = 2
  Absent = Absent
  Empty = Empty
INVARIANTS LIInv ReadyIsClean GenesisAgreement NoStaleGenesis
CHECK_DEADLOCK FALSE
