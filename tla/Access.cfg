SPECIFICATION Spec
CHECK_DEADLOCK FALSE
SYMMETRY Symmetry
CONSTANTS
  Keys <- MCKeys
  Folded <- MCFolded
  Identities <- MCIdentities
  Own <- MCOwn
  Subjects = {"s1", "s2"}
  Clients = {"c1", "c2", "h"}
  Holder = "h"
  Edited = {2}
  Ann = "ann"
  Bob = "bob"
  MaxIds = 3
  MaxClock = 3
  Requests = {r1, r2}
  MAX_FLOWS = 2
  FLOW_TTL = 2
  KEYS_FOR = 1
  MaxStarts = 4
  MaxFlowing = 2
  MaxRotations = 1
  MaxForms = 3
  Calls = {q1, q2}
  TOUCH_INTERVAL = 1
  MaxTokens = 2
  MaxCalls = 3
PROPERTY SubjectsStay
PROPERTY ClosedIsClosed
INVARIANT FlowInv
INVARIANT SignInsGoThrough
INVARIANT AccountInv
INVARIANT TokenInv
