SPECIFICATION Spec
CONSTANTS
  standard = standard
  suite = suite
  family = family
  couple = couple
  Worker = {c1, c2}
  Sweeper = {w1}
  Res = {1, 2}
  Key = {family, couple}
  Slot <- MultiSlot
  Lines <- MultiLine
  Capacity <- MultiCapacity
  HoldMinutes = 1
  MaxTime = 2
  Nobody = Nobody
  NoRes = NoRes
INVARIANT NoDeadlock
