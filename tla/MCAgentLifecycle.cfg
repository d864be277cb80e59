SPECIFICATION FairSpec
CONSTANTS
  a1 = a1
  a2 = a2
  w1 = w1
  Agents = {a1, a2}
  Workers = {w1}
  DockerFails = {"create", "start", "stop", "restart", "remove", "discard"}
INVARIANTS
  TypeOK
  
  
  
PROPERTIES
  RunningJustified
  Settles
