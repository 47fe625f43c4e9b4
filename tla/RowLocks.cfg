SPECIFICATION BothSpec
CONSTANTS
  standard = standard
  suite = suite
  family = family
  couple = couple
  Worker = {c1, c2}
  Sweeper = {w1}
  Res = {1, 2}
  Key = {family, couple}
  Slot <- MultiSlot
  Lines <- MultiLine
  Capacity <- MultiCapacity
  WindowSlot <- OneSlot
  WindowLines <- OneLine
  WindowCapacity <- OneCapacity
  HoldMinutes = 1
  MaxTime = 2
  Nobody = Nobody
  NoRes = NoRes
INVARIANTS TypeOK OneReservationPerKey CountersMatchReservations OneWindowNoDeadlock
PROPERTIES LedgerSpec NeverConvertedLate
