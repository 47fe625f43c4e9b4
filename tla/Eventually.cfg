SPECIFICATION FairSpecs
CONSTANTS
  standard = standard
  suite = suite
  family = family
  couple = couple
  Worker = {c1, c2}
  Sweeper = {}
  Res = {1, 2}
  Key = {family, couple}
  Slot <- MultiSlot
  Lines <- MultiLine
  Capacity <- MultiCapacity
  HoldMinutes = 0
  MaxTime = 0
  Nobody = Nobody
  NoRes = NoRes
  Courier = {k1, k2}
  Dispatcher = {d1}
  Reaper = {p1}
  MAX_RETRIES = 1
  MaxEvent = 1
  MaxMessages = 1
  Nothing = Nothing
  Desk = {q1, q2}
  Room = {1, 2}
  Line = {arrival, return_stay}
  regular = regular
  NoGuest = NoGuest
  NoLine = NoLine
  NoRoom = NoRoom
  NoTask = NoTask
PROPERTIES TransactionsEnd NoneStuck RequestsEnd
CHECK_DEADLOCK FALSE
