SPECIFICATION CooperativeSpec
CONSTANTS
  Cases = {1, 2}
  Capabilities = {"setup", "reset", "next", "mutate", "repair", "observe", "evaluate", "teardown"}
  CapabilitySets = {{}, {"evaluate"}, {"setup", "reset", "next", "mutate", "repair", "observe", "evaluate", "teardown"}}
  Required = {"evaluate"}
  MaxRestarts = 2
  MaxFrames = 1
  Steps = {0, 1}
  MaxSteps = 1
  Mutate = TRUE
  Repair = TRUE
  NoRequest = NoRequest
  NoAnswer = NoAnswer
INVARIANTS
  TypeOK
  AnswersBelongToTheCall
  OnlyTheHeldChildLives
  FindingsFollowCleanSessions
PROPERTIES
  SessionsEnd
