SPECIFICATION MCSpec
CHECK_DEADLOCK FALSE
CONSTANTS
  Parts = {"agent", "served", "model", "simulated", "early"}
  None = None
  Prompts = 2
  Messages = 1
  Tells = 1
  Room = 1
  Large = TRUE
  Twice = TRUE
  Slow = TRUE
  Stops = TRUE
  NoReply = NoReply
  MaxTurns = 3
  MaxCalls = 3
  Streaming = {TRUE, FALSE}
  MaxMessages = 3
  Early = FALSE
INVARIANT CallsAreWhole
 
PROPERTY AgentServesItsTask
PROPERTY RunsEnd
