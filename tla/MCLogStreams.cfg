SPECIFICATION LogFairSpec
CONSTANTS
  r1 = r1
  r2 = r2
  r3 = r3
  ip1 = ip1
  ip2 = ip2
  Requests = {r1, r2, r3}
  Ips = {ip1, ip2}
  Ports = {1, 2, 3}
  RemoteAddr <- MCRemoteAddr
  Forwarded <- MCForwarded
  NoHeader = NoHeader
  MaxPerUser = 1
  MaxGlobal = 2
  LineCap = 1
  MaxEvents = 2
  Live = {r1}
  MaxLines = 3
INVARIANTS
  CountsExact
  OrderKept
PROPERTIES
  ClosedMeansAllShown
  PlacesComeBack
  LeaksOnlyInPipe
CHECK_DEADLOCK FALSE
