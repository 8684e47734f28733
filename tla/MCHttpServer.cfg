CONSTANTS
  c1 = c1  c2 = c2  b1 = b1 b2 = b2 NoBlock = NoBlock
  Conns <- MCConns
  Blocks <- MCBlocks
  MaxRequests = 2
  HandshakeLimit = TRUE
  ShutdownLimit = TRUE
SPECIFICATION ServerFairSpec
INVARIANTS CloseReaches OneResponseEach RequestsApart
PROPERTIES CloseEnds TlsWaitsEnd
