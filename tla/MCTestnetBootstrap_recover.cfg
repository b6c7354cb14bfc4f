SPECIFICATION FairSpec
CONSTANTS
  lighthouse = lighthouse
  prysm = prysm
  Clients <- MCClients
  EagerClients <- MCEager
  AdminClients <- MCClients
  EthClients <- MCClients
  Readers = {watch}
  NumCollections = 2
  CollectionOf <- MCCollectionOf
  GenesisFile <- MCGenesisFile
  PairAttempts = 2
  ElectraMended = {TRUE, FALSE}
  MaxRuns = 2
  MaxFaults = 1
  Absent = Absent
  Empty = Empty
CHECK_DEADLOCK FALSE
PROPERTIES LayersComeUp ReleasedClientsComeUp
