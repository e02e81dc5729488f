------------------------- MODULE MCAccountRegistry -------------------------
(* Small instances of AccountRegistry for TLC. *)
EXTENDS AccountRegistry, TLC

Set(s, value) == [Keep EXCEPT ![s] = value]

\* A login brings the regular switch along.
AllOrders ==
  [k \in Kinds |->
     CASE k = "login" -> {Set("regular", "on")}
       [] k = "boya" -> {Set("sign", "off"),
                         [Set("select", "on") EXCEPT !["sign"] = "off"]}
       [] k = "regular" -> {Set("regular", "on"), Set("regular", "off")}
       [] OTHER -> {}]

\* Attendance is automatic, selection is not.
Attending == {[s \in Switches |-> s # "select"]}
=============================================================================
