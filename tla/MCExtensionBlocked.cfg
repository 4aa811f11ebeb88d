SPECIFICATION FairSpec
CONSTANTS
  Cases = {1}
  Capabilities = {"setup", "reset", "next", "mutate", "repair", "observe", "evaluate", "teardown"}
  CapabilitySets = {{"reset", "evaluate"}}
  Required = {"evaluate"}
  MaxRestarts = 1
  MaxFrames = 1
  Steps = {0, 1}
  MaxSteps = 1
  Mutate = TRUE
  Repair = TRUE
  NoRequest = NoRequest
  NoAnswer = NoAnswer
PROPERTIES
  CallsReturn
