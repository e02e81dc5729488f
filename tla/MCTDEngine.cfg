CONSTANTS
  two = two  None = none
  DayLength = 10  Days = {0}  Horizon = 10  DayOf <- ByLength  Windows <- Hours
  Pair = 3  Margin = 4  Gap = {1}  Round = 4  ExitRound = 2  LastExit = 1  Wire = 1
  HardLimit = 3  Limit <- TwoRounds  OpenOn <- OpenTwo
  Groups = {g1}  Expiries = {6, 10}  Removals = 1  Restarts = 1
SPECIFICATION LiveSpec
INVARIANTS TypeOK HonestTally PairFits PhotosKept
PROPERTIES EntryBudget NoReplay QuietStays PairEnds
CHECK_DEADLOCK FALSE
