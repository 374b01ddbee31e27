---------------------------- MODULE MCDiscovery -----------------------------
(***************************************************************************)
(* A job that waits for another one and its goal, on submission or with a  *)
(* deadline, and runs a task with a fallback route; a candidate, a poll,   *)
(* and listings of goals and waits with pages of one row.                  *)
(***************************************************************************)
EXTENDS Discovery, TLC

CONSTANTS a, b, ga, gb, w1

MCJob == {a, b}
MCGoal == {ga, gb}
MCWorker == {w1}

JobKey == [job_type |-> "main", work_kind |-> "JOB", task_type |-> Null]
MCSelector == w1 :> {JobKey}
NoSelector == [w \in {} |-> {}]

OnB == [target |-> JobTarget(b), condition |-> "complete"]
OnGB == [target |-> GoalTarget(gb), condition |-> "success"]
MCDescriptors == {<<OnB, OnGB>>}

Submission(j, g, deps) ==
  [job |-> j, goal |-> g, share |-> FALSE, deps |-> deps, parent |-> Null, wait_for |-> {},
   available_at |-> Null, expires_at |-> Infinity, job_type |-> "main"]

MCSubmissions ==
  {Submission(a, ga, <<>>), Submission(a, ga, <<OnB, OnGB>>), Submission(b, gb, <<>>)}

Run(j, wait) ==
  [job |-> j, route |-> [job_type |-> "main", work_kind |-> "JOB", task_type |-> Null,
                         coordinates |-> Null],
   wait_for |-> {}, available_at |-> Null, is_deadline |-> FALSE,
   alternate |-> Null, wait |-> wait]

Fetch(j) ==
  [Run(j, Null) EXCEPT
     !.route = [job_type |-> "main", work_kind |-> "TASK", task_type |-> "fetch",
                coordinates |-> [resume_job_type |-> "main", ordinal |-> 1]],
     !.alternate = [job_type |-> "main", task_type |-> Null, after_seconds |-> 1]]

MCReschedules ==
  { Run(a, [id |-> "w", deps |-> <<OnB, OnGB>>, deadline |-> 1]),
    Fetch(a) }

MCCandidates == {<<gb, a>>}

MCRank == (a :> 1) @@ (b :> 2) @@ (ga :> 3) @@ (gb :> 4)
            @@ ("submission" :> 5) @@ ("w" :> 6)

MCGoalQueries == {[goals |-> Goal, states |-> {"OPEN"}, candidate |-> {b}]}

MCWaitQueries ==
  { [consumer |-> Null, target |-> Null, states |-> {}],
    [consumer |-> Null, target |-> GoalTarget(gb), states |-> {}] }
=============================================================================
