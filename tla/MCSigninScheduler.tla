------------------------- MODULE MCSigninScheduler -------------------------
(* Small instances of SigninScheduler for TLC. *)
EXTENDS SigninScheduler, TLC

CONSTANTS c1, c2, button, daemon1, daemon2, ui, own, k1, k2

ShortLesson == [c \in {c1} |-> [opens |-> 0, starts |-> 1, ends |-> 1]]
\* The window of one lesson opens before the previous lesson has ended.
TwoLessons == [c \in {c1, c2} |-> [opens |-> 0, starts |-> 0, ends |-> 0]]
LaterLesson == [c \in {c1} |-> [opens |-> 3, starts |-> 24, ends |-> 24]]

Clients2 == [x \in Callers |-> IF x = daemon2 THEN k2 ELSE k1]
Daemons2 == [k \in Clients |-> IF k = k2 THEN daemon2 ELSE daemon1]
=============================================================================
