------------------------------ MODULE MCSubmit -----------------------------
(***************************************************************************)
(* Submission: clients prepare jobs by id, by request or by neither,       *)
(* publish, restart on a shared goal, wait for plain job ids with and      *)
(* without a deadline, and delete families of jobs.                        *)
(***************************************************************************)
EXTENDS GoalPromise, TLC

CONSTANTS a, b, c, ga, gb, w1, r1

MCJob == {a, b, c}
MCGoal == {ga, gb}
MCWorker == {w1}

Main == [job_type |-> "main", work_kind |-> "JOB", task_type |-> Null]
MCSelector == w1 :> {Main}

Preparing(j, r, prior) ==
  [job |-> j, request |-> r, prior |-> prior, share |-> prior # Null, deps |-> <<>>]

MCPreparations ==
  { Preparing(Null, r1, Null), Preparing(b, Null, Null), Preparing(b, r1, Null),
    Preparing(c, r1, a) }

Submission(j, share, parent, wait_for) ==
  [job |-> j, goal |-> Null, share |-> share, deps |-> <<>>, parent |-> parent,
   wait_for |-> wait_for, available_at |-> Null, expires_at |-> Infinity, job_type |-> "main"]

MCSubmissions ==
  { Submission(a, FALSE, Null, {}), Submission(b, FALSE, a, {a}), Submission(c, TRUE, b, {a, b}) }

Run(j, wait_for, available_at, is_deadline) ==
  [job |-> j, route |-> [job_type |-> "main", work_kind |-> "JOB", task_type |-> Null,
                         coordinates |-> Null],
   wait_for |-> wait_for, available_at |-> available_at, is_deadline |-> is_deadline,
   alternate |-> Null, wait |-> Null]

MCReschedules ==
  { Run(a, {b}, Null, FALSE), Run(b, {a, c}, 1, TRUE), Run(c, {b}, 1, FALSE) }

MCCandidates == {<<ga, b>>}
=============================================================================
