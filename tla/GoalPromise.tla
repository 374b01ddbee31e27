---------------------------- MODULE GoalPromise -----------------------------
(***************************************************************************)
(* The scheduler implements JobGoals.                                      *)
(***************************************************************************)
EXTENDS Scheduler

(* A job is over when it has an archive row, hidden or not.                 *)
life_of(j) ==
  IF archive[j] # Null THEN archive[j].status
  ELSE IF facts[j] # Null THEN "live" ELSE "unknown"

(* The lease on a job's row counts as long as it is valid, a renewal that   *)
(* is not committed yet included.                                           *)
holder_of(j) ==
  IF jobs[j] # Null /\ jobs[j].lease_expires_at > now THEN jobs[j].lease_id ELSE 0

goal_of(g) ==
  IF goals[g] = Null THEN Null
  ELSE [state |-> goals[g].state, by |-> goals[g].successful_job_id]

Promise == INSTANCE JobGoals WITH
  Outcome <- Completions \cup {"cancelled"},
  life <- [j \in Job |-> life_of(j)],
  holder <- [j \in Job |-> holder_of(j)],
  issued <- nextLease - 1,
  goal <- [g \in Goal |-> goal_of(g)],
  member <- {p \in Goal \X Job : goal_member(p[1], p[2])}

(* Every transaction of the scheduler is one step of JobGoals, or none: no  *)
(* stale snapshot, late call, interrupted deletion or repeated submission   *)
(* shows a client a job that lives twice, two holders, or a goal that is    *)
(* out of step with the jobs that decide it.                                *)
ImplementsJobGoals == Promise!Spec
=============================================================================
