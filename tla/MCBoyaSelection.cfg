CONSTANTS
  c1 = c1  c2 = c2  button = button  Nobody = Nobody  Worker = worker
  Courses = {c1}
  Exclusive <- Rivals
  Scopes = {few, many}
  Asked <- OneLecture
  Elsewhere <- DropsElsewhere
  Buttons = {button}
  Readers = {page}
  KeyLimit = 1  QuotaLimit = 2
SPECIFICATION Spec
INVARIANTS TypeOK SelectBudget
PROPERTIES NoBlindWrite NoRegrab
