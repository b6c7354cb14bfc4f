SPECIFICATION Spec
CONSTANTS
  lighthouse = lighthouse
  prysm = prysm
  Clients <- MCClients
  EagerClients <- MCEager
  AdminClients <- MCClients
  EthClients <- MCClients
  Readers = {watch}
  NumCollections = 2
  CollectionOf <- MCCollectionOf
  GenesisFile <- MCGenesisFile
  PairAttempts = 2
  ElectraMended = {TRUE, FALSE}
  MaxRuns = 3
  MaxFaults = 2
  Absent = Absent
  Empty = Empty
CHECK_DEADLOCK FALSE
INVARIANTS IInv NoPartialRead GenesisAgreement
PROPERTIES CheckpointSealsFiles ReleasedAfterPairing ImplementsPhasedStartup
