----------------------------- MODULE MCRetention -----------------------------
(***************************************************************************)
(* Two old tasks that move as often as MaxMoves allows: enough for a task  *)
(* to die, be retried by hand and be claimed again within one sweep.       *)
(***************************************************************************)
EXTENDS Retention

CONSTANTS t1, t2

MCOld == {t1, t2}
=============================================================================
