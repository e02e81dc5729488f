CONSTANTS
  c1 = c1  button = button  daemon = daemon  k1 = k1  NoCourse = NoCourse  Nobody = Nobody
  Courses = {c1}
  Callers = {button, daemon}
  Clients = {k1}
  Lesson <- OneLesson
  ClientOf <- OneClient
  MaxPosts = 4  Burst = 2  ShortDelay = 1  PreclassDelay = 2  InclassDelay = 4
  MaxSkew = 1  Horizon = 8
SPECIFICATION Spec
INVARIANTS TypeOK PostBudget GroupSpacing
PROPERTIES NoBlindResend ImplementsWrite
