SPECIFICATION FairSpec
CONSTANTS
  c1 = c1
  c2 = c2
  table = table
  index = index
  data = data
  NoClient = NoClient
  Clients <- MCClients
  Objects <- MCObjects
  Chain <- ChainTwoWayIndex
  Stages <- StagesTwoWayIndex
  MaxOps = 3
  Floors = {0, 1}
  Checkouts = {3}
  Commands = {"apply"}
  MaxAborts = 3
  MaxDrifts = 0
PROPERTIES
  ApplyLands
