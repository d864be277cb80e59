SPECIFICATION FairSpec
CONSTANTS
  f1 = f1
  h1 = h1
  v1 = v1
  ask = ask
  answer = answer
  note = note
  Flows = {f1}
  Handlers = {h1}
  Viewers = {v1}
  TaskIds <- MCTaskIds
  Actors <- MCActors
  Messages <- MCMessages
  Ask = ask
  AgentMessages = {answer}
  PostedMessages = {note}
  NoRow = NoRow
  NoMessage = NoMessage
  NoTask = NoTask
  BufCap = 1
  MaxEvents = 2
  MaxRestarts = 0
  DbMayFail = FALSE
INVARIANTS
  TypeOK
  NoMissedEnd
PROPERTIES
  EndIsFinal
  EndIsShown
CHECK_DEADLOCK FALSE
