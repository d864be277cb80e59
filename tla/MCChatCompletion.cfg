SPECIFICATION FairSpec
CONSTANTS
  h1 = h1
  h2 = h2
  u1 = u1
  u2 = u2
  k1 = k1
  m1 = m1
  c1 = c1
  Providers <- MCProviders
  AliasesOf <- MCAliasesOf
  Chats = {k1}
  Listers = {m1}
  Configs = {c1}
  Forms <- MCForms
  Hosts = {h1, h2}
  CopilotName = "copilot"
  None = None
  MaxKeys = 2
  MaxLines = 2
  MaxEdits = 2
INVARIANTS
  RetriedOnce
  SentAsStored
  Relayed
PROPERTIES
  EveryChatEnds
CHECK_DEADLOCK FALSE
