SPECIFICATION Spec
CONSTANTS
  User = {ann}
  Tenant = {t1, t2}
  Flow = {f1, f2}
  Startup = f1
  Nothing = Nothing
INVARIANT HeaderIsHarmless
CHECK_DEADLOCK FALSE
