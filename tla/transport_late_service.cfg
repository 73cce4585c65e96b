SPECIFICATION Spec
CONSTANTS
  None = None
  MaxSubmitted = 1
  MaxRestarts = 1
  MaxServices = 2
  QueueLimit = 1
  AutoStart = TRUE
INVARIANT OwnedServiceIsShutDown
CHECK_DEADLOCK FALSE
