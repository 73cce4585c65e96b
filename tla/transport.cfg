SPECIFICATION Spec
CONSTANTS
  None = None
  MaxSubmitted = 3
  MaxRestarts = 1
  MaxServices = 2
  QueueLimit = 1
  AutoStart = TRUE
INVARIANTS
  TypeOK
  SocketInUseIsOpen
  StopWakesWorker
  StopDrains
PROPERTIES
  ImplementsQueue
  EverybodyIsAnswered
CHECK_DEADLOCK FALSE
