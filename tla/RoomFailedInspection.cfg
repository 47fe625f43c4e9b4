SPECIFICATION Spec
CONSTANTS
  c1 = c1
  c2 = c2
  c3 = c3
  arrival = arrival
  walk_in = walk_in
  return_stay = return_stay
  late_arrival = late_arrival
  regular = regular
  Conn = {c1, c2}
  Room = {1, 2}
  Line = {arrival, return_stay}
  Eligible <- AllEligible
  Guest <- RegularGuest
  StaffOp = {}
  MaxDay = 0
  MaxVersion = 0
  NoGuest = NoGuest
  NoLine = NoLine
  NoRoom = NoRoom
  NoTask = NoTask
  Nobody = Nobody
SYMMETRY ConnSymmetry
INVARIANT CleaningHasTask
