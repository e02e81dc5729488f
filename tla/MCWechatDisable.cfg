CONSTANTS
  lesson1 = lesson1  lesson2 = lesson2  Log = log
  Keys = {lesson2}  Start <- OneLesson
  Room = 1  Answers = {"accepted"}
  Bindings = 1  Beginnings = 0  Faults = 0
SPECIFICATION Spec
INVARIANT NoneLeftQueued
CHECK_DEADLOCK FALSE
