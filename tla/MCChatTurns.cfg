CONSTANTS
  Attempts = {a1, a2}
  Messages = {m1, m2}
  Principals = {alice, bob}
  Memories = {r1}
  Candidates = {c1, c2}
  None = None
  KeyOf <- OneKey
  MaxChunks = 2
SPECIFICATION Spec
INVARIANTS
  AnswersAreAccountedFor
  OneProposalPerMessage
  AuditsCiteGrantedMemory
  TerminalIsLast
  FinishedTurnsAreTold
PROPERTY
  TurnsRunOut
CHECK_DEADLOCK FALSE
