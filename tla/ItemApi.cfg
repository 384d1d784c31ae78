SPECIFICATION Spec
CHECK_DEADLOCK FALSE
CONSTANTS
  NPlugins = 2
  Requests = {r1, r2}
  MailboxCap = 1
  CoreCap = 1
  MaxEvents = 1
  Ids = {1}
  Users = {u1, u2}
  NoUser = NoUser
  Vals = {a, b}
  Handlers <- MCHandlers
  Together <- MCTogether
  u1 = u1
  u2 = u2
  Caller <- MCCaller
  SentVals = {a}
  ClientFilters <- MCFilters
  Documents <- MCDocuments
  MAX_DEPTH = 2
  MAX_SET_OPERANDS = 1
PROPERTY OwnersStay
PROPERTY RequestsAreAnswered
INVARIANT HooksAreHeard
INVARIANT EditsAreTold
INVARIANT ListsShowNoMore
