SPECIFICATION FairSpec
CONSTANTS
  c1 = c1
  c2 = c2
  table = table
  index = index
  data = data
  NoClient = NoClient
  Clients <- MCClients
  Objects <- MCObjects
  Chain <- ChainOneWayIndex
  Stages <- StagesOneWayIndex
  MaxOps = 3
  Floors = {0, 1}
  Checkouts = {2, 3}
  Commands = {"apply", "rollback"}
  MaxAborts = 3
  MaxDrifts = 0
INVARIANTS
  TypeOK
  PositionMatchesJournal
  IntentIsFrontier
  JournalMatchesObjects
  AtRestAtRevision
PROPERTIES
  BoundaryFrozen
  IrreversibleStays
  ImplementsLedger
  CommandsEnd
