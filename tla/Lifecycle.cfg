\* Three activations under every configuration; the agent clears its timers.
SPECIFICATION LifecycleSpec
CONSTANTS
  Configs <- AllConfigs
  ClearsTimers = TRUE
  MaxActivations = 3
  MaxAdds = 2
  MaxTicks = 3
INVARIANTS LifecycleTypeOK SurvivesWhileStarted
PROPERTIES ActivationCallsBack ImplementsReports
CHECK_DEADLOCK FALSE
