SPECIFICATION Spec
CONSTANTS
  NStatics = 2
  AppChains <- MCAppChains
  RouteChains <- MCRouteChains
  Hops = {1, 2}
  Forwarded <- MCForwarded
  Peer <- MCPeer
  MaxRequests = 2
INVARIANTS CachesStopped AttributedToClient HeadersReachClient FilesAnswered
