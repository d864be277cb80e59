SPECIFICATION Spec
CONSTANTS
  t1 = t1
  a1 = a1
  a2 = a2
  a3 = a3
  ask = ask
  answer = answer
  TaskIds = {t1}
  Agents = {a1, a2, a3}
  ShortNames = {a3}
  Actors <- MCActors
  Messages <- MCMessages
  NoRow = NoRow
  General = General
  Ask = ask
  Answer = answer
  SemCap = 1
  MaxEvents = 1
INVARIANT DirectReachesRecipient
CHECK_DEADLOCK FALSE
