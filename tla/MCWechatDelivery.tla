-------------------------- MODULE MCWechatDelivery --------------------------
(* Small instances of WechatDelivery for TLC. *)
EXTENDS WechatDelivery, TLC

CONSTANTS lesson1, lesson2

TwoLessons == (lesson1 :> 1) @@ (lesson2 :> 2)
OneLesson == (lesson2 :> 2)
=============================================================================
