--------------------------- MODULE RegularPolicy ---------------------------
(***************************************************************************)
(* core/regular_policy.py and the window test of core/domain.py.  The      *)
(* program's values are MaxPosts = 6, Burst = 3 and delays of 30, 60 and   *)
(* 300 seconds; everything is stated for any values in the same order.     *)
(***************************************************************************)
EXTENDS Integers

CONSTANTS
  MaxPosts,      \* MAX_POSTS: requests per account, lesson and day
  Burst,         \* BURST_POSTS: requests per group
  ShortDelay,    \* SHORT_DELAY: spacing inside a group
  PreclassDelay, \* PRECLASS_GROUP_DELAY: between groups, before the lesson
  InclassDelay   \* INCLASS_GROUP_DELAY: between groups, once it has begun

ASSUME PolicyAssumption ==
  /\ MaxPosts \in Nat \ {0} /\ Burst \in Nat \ {0}
  /\ ShortDelay \in Nat /\ PreclassDelay \in Nat /\ InclassDelay \in Nat
  /\ ShortDelay <= PreclassDelay /\ PreclassDelay <= InclassDelay

MinimumRetryDelay(attempts, beforeStart) ==
  CASE attempts = 0                              -> 0
    [] attempts # 0 /\ attempts % Burst = 0      ->
         IF beforeStart THEN PreclassDelay ELSE InclassDelay
    [] OTHER                                     -> ShortDelay

\* regular_allowed(): lesson is the record of one lesson, time a clock value.
\* An unknown end of lesson gives a lesson whose end is its start.
InWindow(lesson, time) == lesson.opens <= time /\ time <= lesson.ends
=============================================================================
