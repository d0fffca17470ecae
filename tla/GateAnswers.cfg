SPECIFICATION Spec
CONSTANTS
  a1 = a1
  a2 = a2
  a3 = a3
  s1 = s1
  s2 = s2
  i1 = i1
  k1 = k1
  NoCall = NoCall
  Calls = {a1, a2}
  Scopes = {s1, s2}
  Ids = {i1}
  Keys = {k1}
  ScopeOf <- TheScopes
  IdOf <- TheIds
  KeyOf <- TheKeys
  Clients = {c1}
  Answers <- TheAnswers
  MaxMoves = 1
  MaxInbox = 2
SYMMETRY Alike
INVARIANTS
  PromptHasItsCall
  WaitingCanBeAnswered
  SessionAnswerHolds
  ListsCatchUp
  FramesFollowTheirTab
CHECK_DEADLOCK FALSE
