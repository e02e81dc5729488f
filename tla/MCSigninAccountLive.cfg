CONSTANTS
  c1 = c1  c2 = c2  button = button  daemon1 = daemon1  daemon2 = daemon2
  ui = ui  own = own  k1 = k1  k2 = k2
  NoCourse = NoCourse  Nobody = Nobody
  Courses = {c1}
  Callers = {daemon1, ui, own}
  Clients = {k1}
  Buttons = {}
  Admins = {ui, own}
  Reconnector = own
  Kinds = {"login", "switch", "dispose"}
  Pausable = {}
  Listings = {{}, {c1}}
  Lesson <- ShortLesson
  ClientOf <- Clients2
  DaemonOf <- Daemons2
  MaxPosts = 1  Burst = 1  ShortDelay = 0  PreclassDelay = 0  InclassDelay = 0
  MaxSkew = 0  Horizon = 0
  Interval = 0  Margin = 0  Backoff = 0
  MaxEpoch = 2  MaxGeneration = 2
SPECIFICATION FairLife
PROPERTIES RevokedNeverPosts HandlersFinish PassesFinish
CHECK_DEADLOCK FALSE
