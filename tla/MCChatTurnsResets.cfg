CONSTANTS
  Attempts = {a1, a2}
  Messages = {m1}
  Principals = {alice}
  Memories = {r1}
  Candidates = {c1}
  None = None
  KeyOf <- OneKey
  MaxChunks = 1
SPECIFICATION Spec
INVARIANTS
  StayingClientsAreToldTheEnd
CHECK_DEADLOCK FALSE
