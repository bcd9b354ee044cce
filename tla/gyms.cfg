SPECIFICATION GymsSpec
CONSTANTS
  g1 = g1
  s1 = s1
  Gyms = {g1, g2}
  Sites = {s1, s2}
  Handlers = {w1}
  NoGym = NoGym
  NoSite = NoSite
  Ttl = 2
  Lag = 1
  MaxEdits = 1
  MaxEvents = 2
  MaxBlips = 1
  Pages = {p1, p2}
  Watchers = {v1, v2}
  Window = 2
  Cooldown = 4
  Threshold = 3
  MaxSecrets = 3
  MaxHooks = 7
  MaxMishaps = 1
  Places = {"l1", "l2"}
  Patrons = {"m1", "m2"}
  Everyone = "all"
  PlaceRequests = {"q1", "q2"}
  PlaceScenarios <- PlaceCases
INVARIANTS SecretsHold PlacesHold
PROPERTIES LinkHolds
CHECK_DEADLOCK FALSE
