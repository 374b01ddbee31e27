------------------------------ MODULE JobRows ------------------------------
(***************************************************************************)
(* One row of pgjobdb.jobs: its route, its alternate route and its lease,  *)
(* and the row updates of pgjobdb.sql as pure operators.                   *)
(***************************************************************************)
EXTENDS DependencyWaits

CONSTANTS
  Worker,       \* worker ids
  JobType,      \* route_job_type / resume_job_type values
  TaskType,     \* task_type values
  Ordinal       \* a task's input and output position and input hash, as one value

ASSUME RouteAssumption ==
  Null \notin JobType /\ Null \notin TaskType /\ Null \notin Ordinal /\ Null \notin Worker

(* task_input_ordinal, task_output_ordinal, task_input_hash (one value) and *)
(* resume_job_type: all present or all absent.                              *)
Coordinates == [resume_job_type : JobType, ordinal : Ordinal]

Route ==
  [job_type : JobType, work_kind : {"JOB", "TASK"},
   task_type : TaskType \cup {Null}, coordinates : Coordinates \cup {Null}]

(* What a poll selector is matched with, and what lease_route_* captures.   *)
RouteKey ==
  [job_type : JobType, work_kind : {"JOB", "TASK"}, task_type : TaskType \cup {Null}]

Alternate == [job_type : JobType, task_type : TaskType \cup {Null}, at : Nat]

JobRow ==
  [dependency_wait_id : WaitId \cup {Null},
   wait_for : SUBSET Job,
   available_at : Nat,
   wait_until_is_deadline : BOOLEAN,
   expires_at : Time,
   lease_id : Nat,                        \* 0 is NULL; ids are issued once
   lease_worker_id : Worker \cup {Null},
   lease_route : RouteKey \cup {Null},
   lease_expires_at : Nat,                \* 0 is '-infinity'
   consecutive_expirations : Nat,
   route : Route,
   alternate : Alternate \cup {Null}]

ASSUME JobRowAssumption ==
  Null \notin JobRow /\ Null \notin Coordinates /\ Null \notin Alternate

-----------------------------------------------------------------------------
(* CHECK constraint jobs_native_route_valid.                                *)
native_route_valid(r) ==
  \/ r.work_kind = "JOB" /\ r.task_type = Null /\ r.coordinates = Null
  \/ r.work_kind = "TASK" /\ r.task_type # Null /\ r.coordinates # Null

(* CHECK constraint jobs_lease_route_valid.                                 *)
lease_route_valid(row) ==
  \/ row.lease_route = Null
  \/ /\ row.lease_id # 0
     /\ row.lease_route.work_kind = "TASK" => row.lease_route.task_type # Null

route_key(r) ==
  [job_type |-> r.job_type, work_kind |-> r.work_kind, task_type |-> r.task_type]

alternate_due(row, t) == row.alternate # Null /\ row.alternate.at <= t

(* effective_native_route: the alternate once it is due, else the route.    *)
effective_native_route(row, t) ==
  IF alternate_due(row, t)
  THEN [job_type |-> row.alternate.job_type,
        work_kind |-> IF row.alternate.task_type = Null THEN "JOB" ELSE "TASK",
        task_type |-> row.alternate.task_type]
  ELSE route_key(row.route)

(* The expiration bookkeeping shared by both ways to take a lease: a lease  *)
(* id still on the row means that its holder let it expire.                 *)
expirations_after_lease(row) ==
  IF row.lease_id # 0 THEN row.consecutive_expirations + 1 ELSE 0

(* Mutant: the coordinates of a task survive its fallback to a job.         *)
promoted_route_keeps_coordinates(row, key) ==
  [job_type |-> key.job_type, work_kind |-> key.work_kind, task_type |-> key.task_type,
   coordinates |-> row.route.coordinates]

(* The route a poll leaves on the row: the matched one, with the row's task *)
(* coordinates only if it is a task.                                        *)
promoted_route(row, key) ==
  [job_type |-> key.job_type, work_kind |-> key.work_kind, task_type |-> key.task_type,
   coordinates |-> IF key.work_kind = "TASK" THEN row.route.coordinates ELSE Null]

(* The UPDATE of get_native_work: lease the row at v_now and promote a due  *)
(* alternate.                                                               *)
poll_lease(row, v_now, lease, worker, seconds) ==
  LET key == effective_native_route(row, v_now)
      due == alternate_due(row, v_now)
  IN [row EXCEPT
        !.lease_id = lease,
        !.lease_worker_id = worker,
        !.lease_route = key,
        !.lease_expires_at = v_now + seconds,
        !.consecutive_expirations = expirations_after_lease(row),
        !.route = promoted_route(row, key),
        !.alternate = IF due THEN Null ELSE row.alternate]

(* The UPDATE of claim_native_task: the waiting task becomes a job lease on *)
(* its resume route, without coordinates and without alternate.             *)
claim_lease(row, v_now, lease, worker, seconds) ==
  LET resumed == [job_type |-> row.route.coordinates.resume_job_type,
                  work_kind |-> "JOB", task_type |-> Null, coordinates |-> Null]
  IN [row EXCEPT
        !.lease_id = lease,
        !.lease_worker_id = worker,
        !.lease_route = route_key(resumed),
        !.lease_expires_at = v_now + seconds,
        !.consecutive_expirations = expirations_after_lease(row),
        !.route = resumed,
        !.alternate = Null]

(* The INSERT of submit_native_job.                                         *)
submitted_row(req, waiting, v_now) ==
  [dependency_wait_id |-> IF req.deps = <<>> THEN Null ELSE "submission",
   wait_for |-> waiting,
   available_at |-> IF req.available_at = Null THEN v_now ELSE req.available_at,
   wait_until_is_deadline |-> FALSE,
   expires_at |-> req.expires_at,
   lease_id |-> 0, lease_worker_id |-> Null, lease_route |-> Null,
   lease_expires_at |-> 0, consecutive_expirations |-> 0,
   route |-> [job_type |-> req.job_type, work_kind |-> "JOB",
              task_type |-> Null, coordinates |-> Null],
   alternate |-> Null]

(* Mutant: available_at without the COALESCE.                               *)
rescheduled_available_at_raw(req, waiting, v_now) == req.available_at

(* When a rescheduled job becomes available: at once unless a time is given *)
(* that still means something.                                              *)
rescheduled_available_at(req, waiting, v_now) ==
  IF req.available_at = Null \/ (req.is_deadline /\ waiting = {})
  THEN v_now ELSE req.available_at

(* The UPDATE of reschedule_native_job; waiting is normalize_wait_for's     *)
(* result.                                                                  *)
rescheduled_row(row, req, waiting, v_now) ==
  [row EXCEPT
     !.dependency_wait_id = IF req.wait = Null THEN Null ELSE req.wait.id,
     !.wait_for = waiting,
     !.available_at = rescheduled_available_at(req, waiting, v_now),
     !.wait_until_is_deadline = req.is_deadline /\ waiting # {},
     !.lease_id = 0, !.lease_worker_id = Null, !.lease_route = Null,
     !.lease_expires_at = 0, !.consecutive_expirations = 0,
     !.route = req.route,
     !.alternate = IF req.alternate = Null THEN Null
                   ELSE [job_type |-> req.alternate.job_type,
                         task_type |-> req.alternate.task_type,
                         at |-> v_now + req.alternate.after_seconds]]

(* Mutant: the deadline flag outlives the last job waited for.              *)
forget_completed_keeps_flag(row, done, v_now) ==
  [row EXCEPT !.wait_for = @ \ {done}]

(* _update_waiters_for_completion_bulk, on one row: forget the completed    *)
(* job; a deadline wait whose last job is gone becomes available at once.   *)
forget_completed(row, done, v_now) ==
  LET rest == row.wait_for \ {done}
      over == row.wait_until_is_deadline /\ rest = {}
  IN IF done \notin row.wait_for THEN row
     ELSE [row EXCEPT !.wait_for = rest,
                      !.available_at = IF over THEN v_now ELSE row.available_at,
                      !.wait_until_is_deadline = row.wait_until_is_deadline /\ rest # {}]

=============================================================================
