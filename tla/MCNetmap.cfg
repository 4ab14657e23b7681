SPECIFICATION Spec
CONSTANTS
  MAX_DEPTH = 6
  MAX_STRING = 6
  MAX_PEERS = 2
  MAX_ADDRESSES = 2
  MAX_ALLOWED_IPS = 2
  MAX_ENDPOINTS = 2
  MAX_DERP_REGIONS = 1
  MAX_DERP_NODES = 2
  NodeKeys <- MCNodeKeys
  DiscoKeys <- MCDiscoKeys
  Cidrs4 <- MCCidrs4
  Cidrs6 <- MCCidrs6
  Endpoints4 <- MCEndpoints4
  Endpoints6 <- MCEndpoints6
  FullMaps <- MCFullMaps
  Deltas <- MCDeltas
  Encode <- MCEncode
  MaxSent = 3
  ChunkSizes = {3}
  Wanted = 3
INVARIANTS Inv  NothingLeftWaiting
 
CHECK_DEADLOCK FALSE
