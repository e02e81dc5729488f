CONSTANTS
  c1 = c1  c2 = c2  button = button  daemon1 = daemon1  daemon2 = daemon2
  ui = ui  own = own  k1 = k1  k2 = k2
  NoCourse = NoCourse  Nobody = Nobody
  Courses = {c1, c2}
  Callers = {button, daemon1, own}
  Clients = {k1}
  Buttons = {button}
  Admins = {own}
  Reconnector = own
  Kinds = {}
  Pausable = {c1}
  Listings = {{c1}}
  Lesson <- TwoLessons
  ClientOf <- Clients2
  DaemonOf <- Daemons2
  MaxPosts = 1  Burst = 1  ShortDelay = 0  PreclassDelay = 0  InclassDelay = 0
  MaxSkew = 0  Horizon = 0
  Interval = 0  Margin = 0  Backoff = 0
  MaxEpoch = 0  MaxGeneration = 0
SPECIFICATION SystemSpec
INVARIANT GivenUpSpent
PROPERTIES PauseHolds
