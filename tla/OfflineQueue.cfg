SPECIFICATION FairSpec
CONSTANTS
  s1 = s1
  t1 = t1
  t2 = t2
  Sales = {s1}
  Inherited = {s1}
  Tasks = {t1, t2}
  ReplyForms = {"list", "object"}
  BatchSize = 2
  MaxTries = 2
  MaxItems = 3
  MaxRecoveries = 2
  MaxCloses = 1
INVARIANTS QueueKeepsSales
PROPERTIES ImplementsDelivery EventuallySettled
CHECK_DEADLOCK FALSE
