----------------------------- MODULE MCRuntime -----------------------------
(***************************************************************************)
(* A worker of the runtime that leases in batches, loses answers and sends *)
(* late calls; and a client that reads what its calls answer.              *)
(***************************************************************************)
EXTENDS RuntimeAdapter, TLC

CONSTANTS j1, j2, g1, g2, w1

Key(type) == [job_type |-> type, work_kind |-> "JOB", task_type |-> Null]

MCSelector == [w \in Worker |-> {Key("main"), Key("resume")}]

MCGoalOf == (j1 :> g1) @@ (j2 :> g2)

Submission(j) ==
  [job |-> j, goal |-> MCGoalOf[j], share |-> FALSE, deps |-> <<>>, parent |-> Null, wait_for |-> {},
   available_at |-> Null, expires_at |-> Infinity, job_type |-> "main"]

(* The job j2 as a child of j1 that would wait for itself: it is never      *)
(* accepted, and refused once its parent is deleted.                        *)
Child == [Submission(j2) EXCEPT !.parent = j1, !.wait_for = {j2}]

MCSubmissions == {Submission(j1), Submission(j2), Child}

(* j1 is of the runtime; the policy of j2 was stored by SubmitJob itself    *)
(* and is longer than a Go duration.                                        *)
MCDuration == (j1 :> 4) @@ (j2 :> 6)

(* A task that waits for j2 before it can be claimed.                       *)
Fetch ==
  [job |-> j1, wait_for |-> {}, available_at |-> Null, is_deadline |-> FALSE,
   alternate |-> Null,
   wait |-> [id |-> "w", deadline |-> Infinity,
             deps |-> <<[target |-> JobTarget(j2), condition |-> "complete"]>>],
   route |-> [job_type |-> "main", work_kind |-> "TASK", task_type |-> "fetch",
              coordinates |-> [resume_job_type |-> "resume", ordinal |-> 1]]]

MCReschedules == {Fetch}
MCDescriptors == {Fetch.wait.deps}
=============================================================================
