----------------------------- MODULE MCLeases ------------------------------
(***************************************************************************)
(* Leases and routes: one job and two competing workers, with delays,      *)
(* tasks and alternate routes.                                             *)
(***************************************************************************)
EXTENDS Scheduler, TLC

CONSTANTS j1, g1, w1, w2

MCJob == {j1}
MCGoal == {g1}
MCWorker == {w1, w2}

Key(type) == [job_type |-> type, work_kind |-> "JOB", task_type |-> Null]
TaskKey == [job_type |-> "main", work_kind |-> "TASK", task_type |-> "fetch"]

(* w1 runs jobs only, w2 runs the task too.                                 *)
MCSelector ==
  (w1 :> {Key("main"), Key("resume")}) @@ (w2 :> {Key("main"), TaskKey})

Submission(a, e) ==
  [job |-> j1, goal |-> Null, share |-> FALSE, deps |-> <<>>, parent |-> Null, wait_for |-> {},
   available_at |-> a, expires_at |-> e, job_type |-> "main"]

MCSubmissions == {Submission(1, Infinity), Submission(1, 2)}

Run == [job |-> j1, route |-> [job_type |-> "main", work_kind |-> "JOB", task_type |-> Null,
                   coordinates |-> Null],
        wait_for |-> {}, available_at |-> 2, is_deadline |-> FALSE,
        alternate |-> Null, wait |-> Null]

Fetch == [Run EXCEPT !.available_at = Null,
                     !.route = [job_type |-> "main", work_kind |-> "TASK", task_type |-> "fetch",
                                coordinates |-> [resume_job_type |-> "resume", ordinal |-> 1]]]

Fallback(task, seconds) == [job_type |-> "main", task_type |-> task, after_seconds |-> seconds]

MCReschedules ==
  { Run,
    [Fetch EXCEPT !.alternate = Fallback(Null, 1)],
    [Fetch EXCEPT !.alternate = Fallback("fetch", 1)] }
=============================================================================
