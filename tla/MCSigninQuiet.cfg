CONSTANTS
  c1 = c1  c2 = c2  button = button  daemon1 = daemon1  daemon2 = daemon2
  ui = ui  own = own  k1 = k1  k2 = k2
  NoCourse = NoCourse  Nobody = Nobody
  Courses = {c1}
  Callers = {daemon1, own}
  Clients = {k1}
  Buttons = {}
  Admins = {own}
  Reconnector = own
  Kinds = {}
  Pausable = {}
  Listings = {{c1}}
  Lesson <- LaterLesson
  ClientOf <- Clients2
  DaemonOf <- Daemons2
  MaxPosts = 1  Burst = 1  ShortDelay = 0  PreclassDelay = 0  InclassDelay = 0
  MaxSkew = 0  Horizon = 24
  Interval = 5  Margin = 4  Backoff = 0
  MaxEpoch = 1  MaxGeneration = 0
SPECIFICATION QuietSpec
INVARIANT FirstAttemptBeforeStart
CHECK_DEADLOCK FALSE
