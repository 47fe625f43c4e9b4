SPECIFICATION Spec
CONSTANTS
  Room = {r1, r2}
  Relay = {p1, p2}
  Projector = {q1}
  total_units = 2
  max_attempts = 2
  Horizon = 1
  MaxDay = 1
  MaxEvent = 3
  MaxFailures = 2
INVARIANTS
  TypeOK
  PublishedIffLogged
  DeadOnlyAfterMax
  SkippedOnlyIfLate
  ExactWhileWindowStands
PROPERTIES
  DeliverySpec
SYMMETRY Symmetry
CHECK_DEADLOCK FALSE
