---------------------------- MODULE MCSchedules ----------------------------
(***************************************************************************)
(* A caller that reads two schedules before it changes them competes with  *)
(* others that do not, while a third pages through both.                   *)
(***************************************************************************)
EXTENDS Schedules

CONSTANT c1

UpsertOf(state, spec, next) == [state |-> state, spec |-> spec, next |-> next]
Change(state, next) == [state |-> state, next |-> next]

(* The last upsert and the last change have an illegal next fire.           *)
MCUpserts ==
  { UpsertOf("ACTIVE", "daily", TRUE), UpsertOf("PAUSED", "hourly", FALSE),
    UpsertOf("PAUSED", "daily", TRUE) }
MCChanges == {Change("ACTIVE", TRUE), Change("ARCHIVED", FALSE), Change("ARCHIVED", TRUE)}
=============================================================================
