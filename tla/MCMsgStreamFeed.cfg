SPECIFICATION FairSpec
CONSTANTS
  ch1 = ch1
  ch2 = ch2
  Channels = {ch1, ch2}
  Global = Global
  Clients = {c1}
  Writers = {w1, w2}
  QCap = 1
  MaxVer <- MCMaxVer
  ReadMayFail = TRUE
INVARIANTS
  
  RegistryExact
  OffersOnlyToRegistered

  
CHECK_DEADLOCK FALSE
