--------------------------- MODULE MCIclassSignin ---------------------------
(* Small instances of IclassSignin for TLC. *)
EXTENDS IclassSignin, TLC

CONSTANTS c1, button, daemon, k1

\* Long enough for both groups before the start (0, 1, 3, 4) and for a group
\* pause that falls inside the lesson (0, 3, 6, 7).
OneLesson == [c \in {c1} |-> [opens |-> 0, starts |-> 4, ends |-> 8]]

OneClient == [x \in Callers |-> k1]
=============================================================================
