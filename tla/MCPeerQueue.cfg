SPECIFICATION Spec
CONSTANTS
  PoolSize = 4
  MailboxSize = 3
  MaxMessages = 6
INVARIANTS
  TypeOK
  SemaphoreConsistent
  CountsAgree
  ObjectOwnedOnce
  NeverSleepsOnMail
PROPERTIES
  ImplementsChannel
CHECK_DEADLOCK FALSE
