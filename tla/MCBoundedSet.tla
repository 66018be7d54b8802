---- MODULE MCBoundedSet ----
(* TLC instance: every capacity from 0 to 3, over five items, so that the  *)
(* window is passed several times before MaxLog.                           *)
EXTENDS BoundedSet
CONSTANTS t1, t2, t3, t4, t5
MCItem == {t1, t2, t3, t4, t5}
MCCapacities == 0..3
====
