\* A deadline one tick away.
SPECIFICATION AgentSpec
CONSTANTS
  Horizon = 1
  MaxRetries = 0
CHECK_DEADLOCK FALSE
INVARIANT NeverLeftRunning
