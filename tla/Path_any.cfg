SPECIFICATION Spec
CONSTANTS
  CotLen = 2
  CoaLen = 2
  IoaLen = 3
  LnTypes <- MCLnTypes
  LNodes <- MCLNodes
  MainMap <- MCMainMap
  ProtoMaps <- MCProtoMaps
  Telegrams <- MCTelegrams
  Now <- MCNow
  MaxTelegrams = 2
INVARIANTS CentreKnows NothingElse KeptAtHome CodecKeeps
