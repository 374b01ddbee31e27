------------------------------ MODULE MCGoals ------------------------------
(***************************************************************************)
(* Goals and structured waits: three jobs that wait for each other and for *)
(* each other's goals, share a goal through a prepared restart and become  *)
(* candidates of each other's goals.                                       *)
(***************************************************************************)
EXTENDS Scheduler, TLC

CONSTANTS a, b, c, ga, gb, w1

MCJob == {a, b, c}
MCGoal == {ga, gb}
MCWorker == {w1}

MCSelector == w1 :> {}

OnJob(j, condition) == [target |-> JobTarget(j), condition |-> condition]
OnGoal(g) == [target |-> GoalTarget(g), condition |-> "success"]

OnGA == <<OnGoal(ga)>>
OnGB == <<OnGoal(gb)>>
OnB == <<OnJob(b, "complete")>>
OnBoth == <<OnJob(a, "success"), OnGoal(gb)>>
MCDescriptors == {OnGA, OnGB, OnB, OnBoth}

Submission(j, g, share, deps) ==
  [job |-> j, goal |-> g, share |-> share, deps |-> deps, parent |-> Null, wait_for |-> {},
   available_at |-> Null, expires_at |-> Infinity, job_type |-> "main"]

MCSubmissions ==
  { Submission(a, ga, FALSE, <<>>), Submission(b, gb, FALSE, <<>>),
    Submission(b, gb, FALSE, OnGA), Submission(c, Null, TRUE, OnBoth) }

MCPreparations ==
  {[job |-> c, request |-> Null, prior |-> a, share |-> TRUE, deps |-> OnBoth]}

Run(j, wait) ==
  [job |-> j, route |-> [job_type |-> "main", work_kind |-> "JOB", task_type |-> Null,
                         coordinates |-> Null],
   wait_for |-> {}, available_at |-> Null, is_deadline |-> FALSE,
   alternate |-> Null, wait |-> wait]

MCReschedules ==
  { Run(a, [id |-> "w", deps |-> OnGB, deadline |-> 1]),
    Run(a, [id |-> "x", deps |-> OnB, deadline |-> Infinity]),
    Run(b, [id |-> "w", deps |-> OnBoth, deadline |-> 1]),
    Run(b, Null) }

MCCandidates == {<<ga, b>>, <<gb, a>>, <<gb, c>>}
=============================================================================
