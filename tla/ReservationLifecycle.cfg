SPECIFICATION FairSpec
CONSTANTS
  standard = standard
  suite = suite
  family = family
  couple = couple
  desk = desk
  RoomType = {standard, suite}
  Date = {1, 2}
  TotalUnits <- MCTotalUnits
  Horizon = 2
  Res = {family, couple}
  Sale = {desk}
  Unit <- MCUnit
  Owner <- MCOwner
  Nights <- MCNights
  HoldMinutes = 1
  Sweeper = {w1, w2}
  MaxTime = 3
  MaxCrashes = 1
INVARIANTS TypeOK NoOversell LedgerMatches BookedIffConverted
PROPERTIES OverdueHoldSettles SettledIsFinal NeverExpiredEarly LedgerSpec
CHECK_DEADLOCK FALSE
