CONSTANTS
  c1 = c1  c2 = c2  button = button  Nobody = Nobody  Worker = worker
  Courses = {c1, c2}
  Exclusive <- Rivals
  Scopes = {any}
  Asked <- TwoLectures
  Elsewhere <- ActsElsewhere
  Buttons = {button}
  Readers = {}
  KeyLimit = 1  QuotaLimit = 1
SPECIFICATION Spec
PROPERTIES NoConflictingHold
