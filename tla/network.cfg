SPECIFICATION NetSpec
CONSTANTS
  NodeCount = 4
  MaxEdges = 3
  EdgeWeights = {0, 1}
  Precision = 1
  Topologies <- MCTopologies
  DestinationLists <- MCDestinationLists
  Goals = {0}
  Starts = {0, 2, 3}
  MaxRemoved = 1
  Reweighted <- MCReweighted
INVARIANTS
  RoutesLead
  CostsAreCheapest
  PathAvoidsRemoved
  DetourIsCheapest
PROPERTIES
  NetReturns
