--------------------------- MODULE MCScheduleJobs ---------------------------
(***************************************************************************)
(* ScheduleJobs with resources of one or more types.                       *)
(***************************************************************************)
EXTENDS ScheduleJobs

CONSTANTS es1, es2, kb, ls
=============================================================================
