SPECIFICATION Spec
CONSTANTS
  f1 = f1
  h1 = h1
  v1 = v1
  ask = ask
  answer = answer
  note = note
  Flows = {f1}
  Handlers = {}
  Viewers = {v1}
  TaskIds <- MCTaskIds
  Actors = {f1}
  Messages <- MCMessages
  Ask = ask
  AgentMessages = {answer}
  PostedMessages = {note}
  NoRow = NoRow
  NoMessage = NoMessage
  NoTask = NoTask
  BufCap = 1
  MaxEvents = 2
  MaxRestarts = 0
  DbMayFail = FALSE
INVARIANT EndCarriesAnswer
CHECK_DEADLOCK FALSE
