CONSTANTS
  lesson1 = lesson1  lesson2 = lesson2  Log = log
  Keys = {lesson1, lesson2}  Start <- TwoLessons
  Room = 1  Answers = {"accepted", "session_expired"}
  Bindings = 2  Beginnings = 1  Faults = 1
SPECIFICATION Spec
INVARIANTS TypeOK AtMostOnce MarkedBefore HonestRows OthersKept
PROPERTIES OnlyWhileWanted KeepsReminders
CHECK_DEADLOCK FALSE
