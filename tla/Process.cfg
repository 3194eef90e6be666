\* Stop may wait for ever, and the process ends.
SPECIFICATION MCSpec
CHECK_DEADLOCK FALSE
CONSTANTS
  Event = Event
  Sync = Sync
  Keepalive = Keepalive
  Mainloop = Mainloop
  Main = Main
  Stray = Stray
  Nobody = Nobody
  NoMutex = NoMutex
  m1 = m1
  Media = {m1}
  w1 = w1
  w2 = w2
  w3 = w3
  t1 = t1
  t2 = t2
  PoolWorkers = {w1, w2, w3}
  Tasks = {t1, t2}
  Stopping = Stopping
INVARIANTS
  NoCircularWait
  HeaderIsOwn
  AllStarted
  DrainedWhenStopped
  UndisturbedIsOrderly
