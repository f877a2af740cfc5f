CONSTANTS
  a = a
  b = b
  here = here
  there = there
  nowhere = nowhere
  plain = plain
  edited = edited
  Names = {a, b}
  Contexts = {here, there, nowhere}
  Traceable = {here, there}
  Contents = {plain, edited}
  Phases = {"prepare_handoff", "run_provider_adapter"}
  Inputs <- MCInputs
  MaxCalls = 3
SPECIFICATION Spec
INVARIANTS
  IndexAgrees
  CompletedRunsWereEarned
  AgentWorkIsBacked
  CallsCanBeRepeated
PROPERTIES
  StoreIsAppendOnly
CHECK_DEADLOCK FALSE
