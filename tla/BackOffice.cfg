SPECIFICATION AllSpec
CONSTANTS
  Part = {"folding", "notifications", "guests", "consents", "policies", "calendar", "tenants",
          "team", "prices", "account", "stores", "browser"}
  Worker = {w1, w2}
  Dispatcher = {d1, d2}
  Reaper = {p1}
  MAX_RETRIES = 2
  MaxEvent = 3
  MaxDelivered = 1
  MaxMessages = 1
  Caller = {c1, c2}
  Email = {mail}
  Phone = {phone}
  MaxProfile = 2
  MaxSaves = 2
  Purpose = {marketing}
  Giver = {g1, g2}
  MaxClock = 2
  MaxConsents = 3
  FirstDay = {0, 2}
  AVAILABILITY_HORIZON_DAYS = 1
  Units = 1
  LastDay = 2
  Clerk = {k1, k2}
  Stay = {y1}
  Thread = {h1, h2}
  Code = {a, b}
  MaxTenant = 2
  MaxRow = 3
  MaxDay = 1
  Request = {q1, q2}
  User = {u1, u2}
  Founder = u1
  Invitation = {i1, i2}
  Role = {owner, clerk}
  Owner = owner
  MaxToken = 2
  MaxToday = 1
  Staff = {s1, s2}
  Quoter = {q3}
  BaseRate = {3}
  Percent <- HalfOff
  Amount = {2}
  Bound = {2}
  MaxDate = 1
  MaxOverrides = 2
  MaxModifiers = 1
  MaxPlanSaves = 1
  Browser = {b1, b2}
  Device = {v1, v2}
  AUTH_LOCKOUT_THRESHOLD = 2
  MaxAttempts = 3
  Store = {"reservations", "bookings", "rooms", "notifications", "guests", "housekeeping", "availability", "allocation", "dashboard"}
  Task = {"task 5", "task 6"}
  MaxCalls = 3
  Person = {ann}
  Tenant = {t1, t2}
  Flow = {f1, f2}
  Startup = f1
  Nothing = Nothing
SYMMETRY Symmetry
INVARIANTS AllTypesOK RecordsAgree GuestsStand OfferStands AccountsStand QuotesAddUp ScreenIsCurrent
PROPERTIES PromiseSpec ErasureIsFinal
CHECK_DEADLOCK FALSE
