SPECIFICATION Spec
CONSTANTS
  Backends <- TheBackends
  Clients <- TheClients
  Challenge <- TheChallenges
  Password <- ThePasswords
  Empty = 0
  Token <- TheToken
  None = None
CHECK_DEADLOCK FALSE
INVARIANTS
  ConnectedIsAccepted
  NoNeedlessRefusal
  ClientUnderstood
  ChallengeHolds
PROPERTIES
  PacketsInOrder
  DialogueEnds
