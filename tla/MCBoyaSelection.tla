-------------------------- MODULE MCBoyaSelection --------------------------
(* Small instances of BoyaSelection for TLC. *)
EXTENDS BoyaSelection, TLC

CONSTANTS c1, c2, button

\* Two lectures at the same time.
Rivals == [c \in Courses |-> Courses]

\* One lecture, which both threads want.
OneLecture == [x \in Callers |->
  IF x = Worker THEN {"select"} \X {c1} ELSE {"select", "drop"} \X {c1}]

\* The student wants the first of two lectures, the daemon either.
TwoLectures == [x \in Callers |->
  IF x = Worker THEN ({"select"} \X {c1, c2}) \cup {<<"sync", c1>>} ELSE {<<"select", c1>>}]

\* What the student does on the school's own pages.
DropsElsewhere == {<<"drop", c1>>}
ActsElsewhere == {"select", "drop"} \X {c1}
=============================================================================
