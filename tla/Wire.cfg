CONSTANTS
  Replicas = {"g1", "g2"}
  Limit = 3
  Minute = 3
  Grain = 6
  Calls = {"c1", "c2"}
  Agents = {"agent"}
  Callers = {"agent", "team"}
  Tools = {"t1", "t2"}
  Policies <- ToolPolicies
  MaxParts = 3
  MaxBlocks = 3
  MaxMessages = 5
  Requests = {"r1", "r2"}
  MaxTTL = 2
  Margin = 1
  Lifetime = 4
  Horizon = 4

SPECIFICATION WireSpec
INVARIANTS
  MinuteBound
  SessionsStayWithTheirOwner
  ListedIsCallable
  WellFormedForTheCaller
  NothingLostInTranslation
  TranslatesFaithfully
  RevocationTakesHold
