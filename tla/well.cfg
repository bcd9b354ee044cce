SPECIFICATION WellSpec
CONSTANTS
  Locs = {l1, l2}
  Doors = {d1, d2}
  WixPlans = {wp1}
  Keys = {k1}
  NoKey = NoKey
  Period = 2
  Day = 4
  Lag = 1
  MaxEdits = 2
  MaxMishaps = 1
  Hubs = {h1, h2}
  Slots = 3
  MaxDays = 2
  MaxChanges = 3
  MaxSlips = 3
INVARIANTS DailyHolds HealthHolds
PROPERTY MarksSettle
CHECK_DEADLOCK FALSE
