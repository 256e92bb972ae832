SPECIFICATION Spec
CONSTANTS
  t1 = t1
  t2 = t2
  k1 = k1
  m1 = m1
  message = message
  definition = definition
  content = content
  title = title
  Threads = {t1, t2}
  Tasks = {k1}
  Memories = {m1}
  TaskThread <- MCTaskThread
  Payloads = {message, definition, content, title}
  HeldBy <- MCHeldBy
  Titles = {title}
  Retention = 1
  MaxTime = 1
  MaxCommands = 3
  MaxOnline = 2
  MaxFaults = 2
INVARIANTS ContentTracked VerifiedIsGone
PROPERTIES RetentionHonoured
CHECK_DEADLOCK FALSE
