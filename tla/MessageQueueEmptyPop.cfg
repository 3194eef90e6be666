SPECIFICATION Spec
CONSTANTS
  t1 = t1  t2 = t2  t3 = t3  t4 = t4
  Work = {t1, t2}
  StopTask = StopTask
  NoTask = NoTask
  SpuriousWakes = FALSE
CHECK_DEADLOCK FALSE
INVARIANTS
  PopFindsATask
