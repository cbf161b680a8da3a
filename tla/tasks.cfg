SPECIFICATION FairSpec
CONSTANTS
  Task = {t1, t2}
  Client = {c1}
  Threaded = TRUE
  Limits = {0, 1}
INVARIANTS TypeOK HandledOnce
PROPERTIES ImplementsOneShotTask TasksEnd
