SPECIFICATION Spec
CONSTANTS
  lighthouse = lighthouse
  prysm = prysm
  Clients <- MCClients
  EagerClients <- MCEager
  AdminClients <- MCClients
  EthClients <- MCClients
  Readers = {watch}
  NumCollections = 2
  CollectionOf <- MCCollectionOf
  GenesisFile <- MCGenesisFile
  PairAttempts = 2
  ElectraMended = {FALSE}
  MaxRuns = 1
  MaxFaults = 0
  Absent = Absent
  Empty = Empty
CHECK_DEADLOCK FALSE
INVARIANT ClHasEnr
