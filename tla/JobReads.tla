------------------------------ MODULE JobReads ------------------------------
(***************************************************************************)
(* Reads of single jobs, each one query: they compute their answer from    *)
(* the stored rows and the clock and change nothing.                       *)
(***************************************************************************)
EXTENDS Scheduler

(* The wait the jobs row points to, if it still is pending when it is       *)
(* evaluated.                                                               *)
BlockingDependencyWait(j) ==
  IF jobs[j] = Null \/ jobs[j].dependency_wait_id = Null THEN Null
  ELSE LET i == jobs[j].dependency_wait_id
       IN IF dependency_wait_info(j, i).state = "PENDING" THEN i ELSE Null

(* Mutant: the deadline is not looked at.                                   *)
blocking_wait_summary_stored(j) ==
  IF jobs[j] = Null \/ jobs[j].dependency_wait_id = Null THEN Null
  ELSE LET i == jobs[j].dependency_wait_id
       IN IF waits[j][i] # Null /\ waits[j][i].state = "PENDING" THEN i ELSE Null

(* The same in a list of jobs, without evaluating any wait.                 *)
blocking_wait_summary(j) ==
  IF jobs[j] = Null \/ jobs[j].dependency_wait_id = Null THEN Null
  ELSE LET i == jobs[j].dependency_wait_id
       IN IF /\ waits[j][i] # Null
             /\ waits[j][i].state = "PENDING" /\ waits[j][i].deadline > now
          THEN i ELSE Null

(* Mutant: deleted jobs are left out, as in listings.                       *)
get_native_job_visible(j) ==
  IF facts[j] = Null \/ facts[j].hidden THEN Null
  ELSE IF jobs[j] # Null
  THEN [store |-> "ACTIVE", outcome |-> Null, worker |-> jobs[j].lease_worker_id]
  ELSE [store |-> "ARCHIVED", outcome |-> archive[j].status, worker |-> Null]

(* get_native_job and get_native_job_status: the active row, or else the    *)
(* archived one, whose last lease is left out here, as is the status, which *)
(* nothing depends on.  The worker of an expired lease is still shown.      *)
get_native_job(j) ==
  IF facts[j] = Null THEN Null
  ELSE IF jobs[j] # Null
  THEN [store |-> "ACTIVE", outcome |-> Null, worker |-> jobs[j].lease_worker_id]
  ELSE [store |-> "ARCHIVED", outcome |-> archive[j].status, worker |-> Null]

(* Mutant: the row's own route is matched, whether its alternate is due or  *)
(* not.                                                                     *)
available_jobs_own_route(routes) ==
  {j \in Job : jobs[j] # Null /\ status(j) = "READY" /\ route_key(jobs[j].route) \in routes}

(* ListJobs with AvailableRoutes, at the time of the query.                 *)
available_jobs(routes) ==
  {j \in Job : /\ jobs[j] # Null /\ status(j) = "READY"
               /\ effective_native_route(jobs[j], now) \in routes}

=============================================================================
