CONSTANTS
  \* Rate limiter: a rate that divides a second and one that does not; the
  \* largest buckets the constructor accepts, and one it rejects.
  h1 = h1  c1 = c1  c2 = c2
  None = None
  Hashes <- MCHashes
  Callers <- MCCallers
  Points = {0, 1, 2}
  Buckets <- MCBuckets
  MsPerSec = 3
  ExpirySec = 1
  Segments = 3
  ClockMod = 64
  Boot = 62
  MaxStall = 1
  MaxTime = 6
  \* SQL session: one fiber that listens, one that runs commands.
  g1 = g1  g2 = g2  n1 = n1  n2 = n2
  Nobody = Nobody
  DupFails = TRUE
  MaxLate = 1
  Listeners <- MCListeners
  Clients <- MCClients
  Channels <- MCChannels
  Notifs <- MCOneNotif
  Chan <- ChanSame
  \* HTTP client.
  NoConfig = NoConfig  NoCert = NoCert  NoAnswer = NoAnswer  NoAuth = NoAuth
  MaxAttempts = 3
  Calls <- MCCalls
  Configs <- MCConfigs
  Certs <- MCCerts
  Answers <- MCAnswers
  \* Route table.
  MaxRoutes = 3
  Specs <- MCSpecs
  UrlPrefixes <- MCPrefixes
  Methods <- MCMethods
  Targets <- MCTargets
  \* Static files.
  MaxVersion = 3
  NoCopy = NoCopy
  Kind <- MCKind
  Links <- MCLinks
  Root <- MCRoot
  Paths <- MCPaths
  FileSize <- MCFileSize
  RangeHeaders <- MCRangeHeaders
SPECIFICATION ComponentsSpec
SYMMETRY Symmetry
INVARIANTS
  QuotaExact
  ReplyNotStolen RunningWatched  
   SameBody  PartsInOrder Deadlined
  
   
