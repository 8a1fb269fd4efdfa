----------------------------- MODULE MCCrashDemo -----------------------------
(***************************************************************************)
(* Two demos, the second of which may start before the deferred function   *)
(* of the first has run, and a shutdown at any moment.                     *)
(***************************************************************************)
EXTENDS CrashDemo
=============================================================================
