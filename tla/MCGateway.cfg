SPECIFICATION Spec
CONSTANTS
  BYTE = 8
  MAX_MSS = 20
  Addresses = {home, away}
  NowhereAddr = nowhere
  Protocols = {"udp", "tcp"}
  Scenarios <- MCScenarios
  Slots <- MCSlots
  IDLE_TIMEOUT_MS <- MCTimeouts
  Flows <- MCFlows
  our_ip = 33
  EXT_PORT <- MCPorts
  Contents <- MCContents
  WG_PACKETS = 1
  MaxInFlight = 2
  MaxTime = 3
INVARIANTS Inv PromptRepliesReachTheirFlow TranslatedVerify
PROPERTIES LiveFlowsKept PeerFound
