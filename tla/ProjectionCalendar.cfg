SPECIFICATION Spec
CONSTANTS
  Room = {r1, r2}
  Relay = {p1}
  Projector = {q1}
  total_units = 2
  max_attempts = 2
  Horizon = 1
  MaxDay = 1
  MaxEvent = 2
  MaxFailures = 0
INVARIANTS
  OutOfServiceMatchesRooms
CHECK_DEADLOCK FALSE
