------------------------------- MODULE MCLive ------------------------------
(***************************************************************************)
(* Progress: two workers poll for a job that suspends itself on a timed    *)
(* wait for the goal of another job, which only one of them polls for.     *)
(***************************************************************************)
EXTENDS Scheduler, TLC

CONSTANTS a, b, ga, gb, w1, w2

MCJob == {a, b}
MCGoal == {ga, gb}
MCWorker == {w1, w2}

Key(type) == [job_type |-> type, work_kind |-> "JOB", task_type |-> Null]

MCSelector == (w1 :> {Key("main"), Key("other")}) @@ (w2 :> {Key("main")})

OnGB == <<[target |-> GoalTarget(gb), condition |-> "success"]>>
MCDescriptors == {OnGB}

Submission(j, g, type) ==
  [job |-> j, goal |-> g, share |-> FALSE, deps |-> <<>>, parent |-> Null, wait_for |-> {},
   available_at |-> Null, expires_at |-> Infinity, job_type |-> type]

MCSubmissions == {Submission(a, ga, "main"), Submission(b, gb, "other")}

MCReschedules ==
  {[job |-> a, route |-> [job_type |-> "main", work_kind |-> "JOB", task_type |-> Null,
                          coordinates |-> Null],
    wait_for |-> {}, available_at |-> Null, is_deadline |-> FALSE,
    alternate |-> Null, wait |-> [id |-> "w", deps |-> OnGB, deadline |-> 1]]}
=============================================================================
