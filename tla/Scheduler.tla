----------------------------- MODULE Scheduler -----------------------------
(***************************************************************************)
(* The scheduler of pgjobdb for one tenant: the tables of pgjobdb.sql as   *)
(* variables and one action per native function.                           *)
(*                                                                         *)
(* A function that takes the tenant's goal lock (_goal_lock) as its first  *)
(* step is one atomic action, at the instant at which it reads the clock,  *)
(* with two exceptions.                                                    *)
(*  - Completing and rescheduling read the job's status through the view   *)
(*    jobs_with_status (_lock_job_for_status).  The view reads jobs in a   *)
(*    WITH query, to which FOR UPDATE does not apply: no row is locked     *)
(*    before the function locks the base row.  They are two steps, and     *)
(*    whoever needs no goal lock may run between them.                     *)
(*  - get_native_work takes the goal lock only when it finds overdue       *)
(*    waits, keeps it to the end of its transaction, and reads its         *)
(*    candidates in a snapshot before it locks one of them: it is three    *)
(*    steps of a worker, and between them everybody else may run.          *)
(*                                                                         *)
(* Renewing a lease needs only the row lock, and takes two steps: until    *)
(* its transaction commits, whoever reads the row without locking it sees  *)
(* the lease end at its old time, and whoever locks or changes it waits.   *)
(***************************************************************************)
EXTENDS JobRows

CONSTANTS
  Request,               \* request ids of prepare_job
  CrashConcernThreshold, \* crash_concern_threshold()
  LeaseSeconds,          \* p_lease_seconds of every caller
  MaxLeases,             \* bound: lease ids that can be issued
  Selector,              \* [Worker -> SUBSET RouteKey], what a worker polls for
  Preparations,          \* inputs of prepare_job
  Submissions,           \* inputs of submit_native_job
  Reschedules,           \* inputs of reschedule_native_job
  Completions,           \* p_completion_status values the callers send
  Cancellable,           \* jobs that clients cancel
  Deletions,             \* sets of jobs that clients delete
  CandidateRequests,     \* pairs <<goal, job>> of add_goal_candidate
  FailRequests           \* goals that clients fail

PrepareRequest ==
  [job : Job \cup {Null}, request : Request \cup {Null}, prior : Job \cup {Null},
   share : BOOLEAN, deps : Descriptors \cup {<<>>}]

SubmitRequest ==
  [job : Job, goal : Goal \cup {Null}, share : BOOLEAN, deps : Descriptors \cup {<<>>},
   parent : Job \cup {Null}, wait_for : SUBSET Job, available_at : Time \cup {Null},
   expires_at : Time, job_type : JobType]

RescheduleRequest ==
  [job : Job, route : Route, wait_for : SUBSET Job, available_at : Time \cup {Null},
   is_deadline : BOOLEAN,
   alternate : [job_type : JobType, task_type : TaskType \cup {Null},
                after_seconds : Nat] \cup {Null},
   wait : [id : WaitId, deps : Descriptors, deadline : Time] \cup {Null}]

ASSUME InputAssumption ==
  /\ Null \notin Request
  /\ "submission" \in WaitId
  /\ CrashConcernThreshold \in Nat \ {0}
  /\ LeaseSeconds \in Nat \ {0}
  /\ MaxLeases \in Nat
  /\ Selector \in [Worker -> SUBSET RouteKey]
  /\ Preparations \subseteq PrepareRequest
  /\ Submissions \subseteq SubmitRequest
  /\ Reschedules \subseteq RescheduleRequest
  /\ Completions \subseteq {"success", "failed_app", "failed_system",
                            "failed_timeout", "cancelled"}
  /\ Cancellable \subseteq Job
  /\ Deletions \subseteq SUBSET Job
  /\ CandidateRequests \subseteq Goal \X Job
  /\ FailRequests \subseteq Goal
  /\ <<>> \notin Descriptors

VARIABLES
  now,          \* clock_timestamp()
  facts,        \* job_facts: retained identity of every job ever submitted
  jobs,         \* jobs: the active rows
  archive,      \* jobs_archive: the terminal rows
  goals,        \* goals
  candidates,   \* goal_candidates, as <<goal, job>>
  preparations, \* job_preparations
  waits,        \* dependency_waits
  targets,      \* dependency_targets
  nextLease,    \* source of gen_random_uuid() lease ids
  poll,         \* get_native_work calls in progress
  goalLock,     \* the worker whose open poll holds the goal lock, or Null
  call,         \* the completion or rescheduling that holds the goal lock, or Null
  deleting,     \* jobs the open delete_native_jobs transaction has still to delete
  renewal       \* the lease_expires_at that is still read of a job whose lease has
                \* been renewed by a transaction that is not committed; or Null

tables == <<facts, jobs, archive, goals, candidates, preparations, waits, targets, nextLease>>
vars == <<now, tables, poll, goalLock, call, deleting, renewal>>

-----------------------------------------------------------------------------
(* Types *)

Fact ==
  [goal : Goal, deps : Descriptors \cup {<<>>}, parent : Job \cup {Null},
   job_type : JobType, expires_at : Time, hidden : BOOLEAN]

Preparation ==
  [goal : Goal, request : Request \cup {Null}, prior : Job \cup {Null},
   share : BOOLEAN, deps : Descriptors \cup {<<>>}, published : BOOLEAN]

ASSUME FactAssumption == Null \notin Fact /\ Null \notin Preparation

PollState ==
  [phase : {"idle", "expired", "snapshot"}, v_now : 0 .. MaxTime, found : SUBSET Job]

(* A call _lock_job_for_status has let through; lease 0 is a call without a *)
(* lease, and one of outcome and req is there.                              *)
Call ==
  [job : Job, lease : Nat, worker : Worker \cup {Null},
   outcome : Completions \cup {Null}, req : Reschedules \cup {Null}]

IdlePoll == [phase |-> "idle", v_now |-> 0, found |-> {}]

TypeOK ==
  /\ now \in 0 .. MaxTime
  /\ facts \in [Job -> Fact \cup {Null}]
  /\ jobs \in [Job -> JobRow \cup {Null}]
  /\ archive \in [Job -> ArchiveRow \cup {Null}]
  /\ goals \in [Goal -> GoalRow \cup {Null}]
  /\ candidates \subseteq Goal \X Job
  /\ preparations \in [Job -> Preparation \cup {Null}]
  /\ waits \in [Job -> [WaitId -> WaitRow \cup {Null}]]
  /\ targets \subseteq TargetRow
  /\ nextLease \in Nat \ {0}
  /\ poll \in [Worker -> PollState]
  /\ goalLock \in Worker \cup {Null}
  /\ call \in Call \cup {Null}
  /\ deleting \subseteq Job
  /\ renewal \in [Job -> Nat \cup {Null}]

Init ==
  /\ now = 0
  /\ facts = [j \in Job |-> Null]
  /\ jobs = [j \in Job |-> Null]
  /\ archive = [j \in Job |-> Null]
  /\ goals = [g \in Goal |-> Null]
  /\ candidates = {}
  /\ preparations = [j \in Job |-> Null]
  /\ waits = [j \in Job |-> [i \in WaitId |-> Null]]
  /\ targets = {}
  /\ nextLease = 1
  /\ poll = [w \in Worker |-> IdlePoll]
  /\ goalLock = Null
  /\ call = Null
  /\ deleting = {}
  /\ renewal = [j \in Job |-> Null]

-----------------------------------------------------------------------------
(* Reading the tables *)

(* job_status_at of a row whose job has the waits own, in the order of its  *)
(* CASE.  No committed row of jobs has cancel_requested set: the only       *)
(* native function that sets it archives the row in the same transaction.   *)
job_status_at(row, own, t) ==
  LET wait == IF row.dependency_wait_id = Null THEN Null
              ELSE own[row.dependency_wait_id]
  IN IF row.lease_expires_at > t THEN "ACTIVE"
     ELSE IF wait # Null /\ wait.state = "PENDING" /\ wait.deadline > t THEN "PENDING_JOBS"
     ELSE IF ~row.wait_until_is_deadline /\ row.available_at > t THEN "AWAITING_FUTURE"
     ELSE IF /\ \E k \in row.wait_for : archive[k] = Null
             /\ ~(row.wait_until_is_deadline /\ row.available_at <= t)
          THEN "PENDING_JOBS"
     ELSE IF row.consecutive_expirations >= CrashConcernThreshold THEN "CRASH_CONCERN"
     ELSE IF row.expires_at <= t THEN "EXPIRED"
     ELSE "READY"

(* The row of jobs as a query reads it that does not lock it.               *)
read_row(j) ==
  IF jobs[j] # Null /\ renewal[j] # Null
  THEN [jobs[j] EXCEPT !.lease_expires_at = renewal[j]] ELSE jobs[j]

(* The status column of jobs_with_status.                                   *)
status(j) == job_status_at(read_row(j), waits[j], now)

(* Nobody holds the tenant's goal lock.                                     *)
goal_lock_free == goalLock = Null /\ call = Null

(* The row _lock_job_for_status accepts for the requested status READY.     *)
unheld(j) ==
  jobs[j] # Null /\ status(j) \in {"READY", "CRASH_CONCERN", "EXPIRED"}

(* The row carries a valid lease of the worker.                             *)
lease_valid(row, lease, w) ==
  /\ row # Null
  /\ lease # 0
  /\ row.lease_id = lease
  /\ row.lease_worker_id = w
  /\ row.lease_expires_at > now

(* validate_native_lease, and the first check of every operation under a    *)
(* lease: neither locks the row.                                            *)
validate_native_lease(j, lease, w) == lease_valid(read_row(j), lease, w)

(* _goal_members: primary members and candidates.                           *)
goal_member(g, j) ==
  \/ facts[j] # Null /\ facts[j].goal = g
  \/ <<g, j>> \in candidates

goal_open(g) == goals[g] # Null /\ goals[g].state = "OPEN"

(* The edges _check_goal_cycle walks: a live job waits for its targets, an  *)
(* open goal for its live members.                                          *)
edge(n, m) ==
  \/ /\ n.kind = "job"
     /\ archive[n.id] = Null
     /\ \E i \in WaitId : /\ [job |-> n.id, wait |-> i, target |-> m] \in targets
                          /\ waits[n.id][i].deadline > now
  \/ /\ n.kind = "goal" /\ m.kind = "job"
     /\ goal_open(n.id)
     /\ archive[m.id] = Null
     /\ goal_member(n.id, m.id)

(* A set of nodes that each have a successor in the set: on a finite graph, *)
(* the walk from any of them runs into a cycle.                             *)
closed(S) == \A n \in S : \E m \in S : edge(n, m)

(* Mutant: only start's own successors are looked at.                       *)
goal_cycle_direct(start) == \E n \in Target : edge(start, n) /\ edge(n, start)

(* _check_goal_cycle raises: the walk from start meets a node twice.        *)
goal_cycle(start) == \E S \in SUBSET Target : start \in S /\ closed(S)

(* Mutant: a deadline is due only after its instant.                        *)
due_late(j, i) ==
  waits[j][i] # Null /\ waits[j][i].state = "PENDING" /\ waits[j][i].deadline < now

(* The due waits _expire_goal_waits looks for.                              *)
due(j, i) ==
  waits[j][i] # Null /\ waits[j][i].state = "PENDING" /\ waits[j][i].deadline <= now

due_waits == {p \in Job \X WaitId : due(p[1], p[2])}

(* normalize_wait_for: unknown ids are an error, finished ones are dropped. *)
wait_for_known(S) == \A k \in S : jobs[k] # Null \/ archive[k] # Null
normalize_wait_for(S) == {k \in S : jobs[k] # Null}

-----------------------------------------------------------------------------
(* Writing the tables *)

(* Who changes a row waits for its lock, or passes it over (SKIP LOCKED).   *)
row_locks_respected == \A j \in Job : renewal[j] # Null => jobs'[j] = jobs[j]

(* Mutant: _save_wait without its DELETE.                                   *)
save_waits_without_delete(saved) ==
  targets' = targets \cup
    {t \in TargetRow : <<t.job, t.wait>> \in saved /\ pending_target(waits', t)}

(* _save_wait for every wait in saved: rewrite its target rows.             *)
save_waits(saved) ==
  targets' = {t \in TargetRow : IF <<t.job, t.wait>> \in saved
                                THEN pending_target(waits', t) ELSE t \in targets}

(* _settle_target for every target in settled, on the updated tables; the   *)
(* waits in cancelled are closed by _cancel_waits before.                   *)
settle(settled, cancelled) ==
  LET affected == {p \in Job \X WaitId :
                     \E t \in settled : [job |-> p[1], wait |-> p[2], target |-> t] \in targets}
  IN /\ waits' = [j \in Job |-> [i \in WaitId |->
                    IF <<j, i>> \in cancelled THEN close_wait(waits[j][i], "CANCELLED")
                    ELSE IF <<j, i>> \in affected
                    THEN evaluate_wait(waits[j][i], now, goals', archive')
                    ELSE waits[j][i]]]
     /\ save_waits(affected \cup cancelled)

(* Mutant: only waits whose deadline is still ahead are cancelled.          *)
pending_waits_ahead(j) ==
  {p \in {j} \X WaitId : /\ waits[j][p[2]] # Null
                         /\ waits[j][p[2]].state = "PENDING" /\ waits[j][p[2]].deadline > now}

(* The waits of j that _cancel_waits finds.                                 *)
pending_waits(j) ==
  {p \in {j} \X WaitId : waits[j][p[2]] # Null /\ waits[j][p[2]].state = "PENDING"}

(* Mutants: only the job's own goal is closed; closed goals are rewritten.  *)
won_goals_primary(j, outcome) ==
  {g \in Goal : outcome = "success" /\ goal_open(g) /\ facts[j] # Null /\ facts[j].goal = g}
won_goals_closed_too(j, outcome) ==
  {g \in Goal : outcome = "success" /\ goals[g] # Null /\ goal_member(g, j)}

(* The goals a successful job closes: those still open that it is a member  *)
(* of.                                                                      *)
won_goals(j, outcome) ==
  {g \in Goal : outcome = "success" /\ goal_open(g) /\ goal_member(g, j)}

(* Mutant: only the job's own target is settled.                            *)
terminal_targets_job_only(j, won) == {JobTarget(j)}

(* What _terminal_goals settles.                                            *)
terminal_targets(j, won) == {JobTarget(j)} \cup {GoalTarget(g) : g \in won}

(* _archive_and_delete_job with the trigger _terminal_goals: the archive    *)
(* row, the goals it closes and the waits it wakes.                         *)
archive_and_delete_job(j, outcome) ==
  LET won == won_goals(j, outcome)
  IN /\ archive' = [archive EXCEPT ![j] = [status |-> outcome]]
     /\ goals' = [g \in Goal |-> IF g \in won
                                 THEN [state |-> "SUCCEEDED", successful_job_id |-> j]
                                 ELSE goals[g]]
     /\ settle(terminal_targets(j, won), pending_waits(j))

(* _update_waiters_for_completion on what is left of jobs once j is gone.   *)
update_waiters_for_completion(j) ==
  /\ jobs' = [k \in Job |-> IF k = j \/ jobs[k] = Null THEN Null
                            ELSE forget_completed(jobs[k], j, now)]
  /\ row_locks_respected

(* _complete_locked_job; delete_native_jobs does the same inline.           *)
archive_job(j, outcome) ==
  archive_and_delete_job(j, outcome) /\ update_waiters_for_completion(j)

(* _resolve_goal / fail_goal: close g and settle the waits on it.           *)
close_goal(g, state, winner) ==
  /\ goals' = [goals EXCEPT ![g] = [state |-> state, successful_job_id |-> winner]]
  /\ settle({GoalTarget(g)}, {})

(* _expire_goal_waits.                                                      *)
expire_goal_waits ==
  /\ waits' = [j \in Job |-> [i \in WaitId |->
                 IF due(j, i) THEN evaluate_wait(waits[j][i], now, goals, archive)
                 ELSE waits[j][i]]]
  /\ save_waits(due_waits)

(* _register_wait after its checks, on the row of job j: the other pending  *)
(* waits of j have been cancelled, the registered one is evaluated.         *)
store_wait(j, id, deps, deadline) ==
  LET old == waits[j][id]
      cancelled == {p \in pending_waits(j) : p[2] # id}
  IN /\ waits' = [waits EXCEPT ![j] = [i \in WaitId |->
                    IF i = id
                    THEN evaluate_wait(IF old = Null THEN new_wait(deps, deadline) ELSE old,
                                       now, goals', archive)
                    ELSE IF <<j, i>> \in cancelled THEN close_wait(waits[j][i], "CANCELLED")
                    ELSE waits[j][i]]]
     /\ save_waits(cancelled \cup {<<j, id>>})

(* _register_wait's checks of a new wait of job j.                          *)
targets_exist(j, deps) ==
  \A i \in DOMAIN deps :
    /\ deps[i].target # JobTarget(j)
    /\ deps[i].target.kind = "job" => facts'[deps[i].target.id] # Null
    /\ deps[i].target.kind = "goal" => goals'[deps[i].target.id] # Null

-----------------------------------------------------------------------------
(* Submission *)

unreserved(g) ==
  goals[g] = Null /\ \A k \in Job : preparations[k] # Null => preparations[k].goal # g

(* prepare_job without a stored preparation for the job or the request:     *)
(* reserve a job id and a goal; a shared restart takes its source's goal.   *)
prepare_job(req, j, g) ==
  /\ goal_lock_free
  /\ req.share => (req.job # Null \/ req.request # Null)
  /\ \A k \in Job : preparations[k] # Null =>
       k # req.job /\ (req.request # Null => preparations[k].request # req.request)
  /\ IF req.job # Null THEN j = req.job ELSE preparations[j] = Null
  /\ facts[j] = Null
  /\ req.prior # Null => facts[req.prior] # Null
  /\ IF req.share THEN req.prior # Null /\ g = facts[req.prior].goal /\ goal_open(g)
     ELSE unreserved(g)
  /\ preparations' = [preparations EXCEPT ![j] =
       [goal |-> g, request |-> req.request, prior |-> req.prior, share |-> req.share,
        deps |-> req.deps, published |-> FALSE]]
  /\ UNCHANGED <<now, facts, jobs, archive, goals, candidates, waits, targets, nextLease,
                 poll, goalLock, call, deleting, renewal>>

(* Mutant: no unique index on request ids.                                  *)
request_taken_never(r, j) == FALSE

(* The request id r is bound to another job than j.                         *)
request_taken(r, j) ==
  r # Null /\ \E k \in Job \ {j} : preparations[k] # Null /\ preparations[k].request = r

(* prepare_job that finds its preparation: only a missing request id is     *)
(* filled in.                                                               *)
reprepare_job(req, j) ==
  LET p == preparations[j] IN
  /\ goal_lock_free
  /\ p # Null
  /\ j = req.job \/ (req.request # Null /\ p.request = req.request)
  /\ req.job # Null => j = req.job
  /\ p.prior = req.prior /\ p.share = req.share /\ p.deps = req.deps
  /\ req.request # Null => p.request \in {Null, req.request}
  /\ ~request_taken(req.request, j)
  /\ preparations' = [preparations EXCEPT ![j] =
       [p EXCEPT !.request = IF req.request # Null THEN req.request ELSE p.request]]
  /\ UNCHANGED <<now, facts, jobs, archive, goals, candidates, waits, targets, nextLease,
                 poll, goalLock, call, deleting, renewal>>

(* Mutant: only the active row is looked for.                               *)
first_submission_no_active_row(j) == jobs[j] = Null

(* No retained identity: a repeated submission finds the job's facts, is    *)
(* compared with them and changes nothing.                                  *)
first_submission(j) == facts[j] = Null

(* A preparation of the job is published as it was prepared.                *)
as_prepared(req, p_goal) ==
  LET p == preparations[req.job]
  IN p # Null => p.goal = p_goal /\ p.share = req.share /\ p.deps = req.deps

(* The goal g that a new job gets, p_goal or a new one, can be had.         *)
goal_granted(req, p_goal, g) ==
  /\ IF p_goal # Null THEN g = p_goal ELSE unreserved(g)
  /\ IF req.share THEN preparations[req.job] # Null /\ goal_open(g) ELSE goals[g] = Null

parent_deleted(req) ==
  req.parent # Null /\ facts[req.parent] # Null /\ facts[req.parent].hidden

(* submit_native_job of a new job.                                          *)
submit_native_job(req, p_goal, g) ==
  LET j == req.job
      p == preparations[j]
  IN /\ goal_lock_free
     /\ first_submission(j)
     /\ req.wait_for = {} \/ req.deps = <<>>
     /\ as_prepared(req, p_goal)
     /\ goal_granted(req, p_goal, g)
     /\ ~parent_deleted(req)
     /\ wait_for_known(req.wait_for)
     /\ goals' = IF req.share THEN goals
                 ELSE [goals EXCEPT ![g] = [state |-> "OPEN", successful_job_id |-> Null]]
     /\ facts' = [facts EXCEPT ![j] =
          [goal |-> g, deps |-> req.deps, parent |-> req.parent, job_type |-> req.job_type,
           expires_at |-> req.expires_at, hidden |-> FALSE]]
     /\ jobs' = [jobs EXCEPT ![j] = submitted_row(req, normalize_wait_for(req.wait_for), now)]
     /\ preparations' = IF p = Null THEN preparations
                        ELSE [preparations EXCEPT ![j] = [p EXCEPT !.published = TRUE]]
     /\ UNCHANGED <<now, archive, candidates, nextLease, poll, goalLock, call, deleting, renewal>>
     /\ IF req.deps = <<>> THEN UNCHANGED <<waits, targets>>
        ELSE /\ targets_exist(j, req.deps)
             /\ store_wait(j, "submission", req.deps, Infinity)
             /\ ~goal_cycle(JobTarget(j))'
     /\ req.share => ~goal_cycle(GoalTarget(g))'

-----------------------------------------------------------------------------
(* Leases *)

(* get_native_work, first step: expire overdue waits, which takes and keeps *)
(* the goal lock if there are any, and read the clock.                      *)
poll_expire(w) ==
  /\ poll[w].phase = "idle"
  /\ due_waits # {} => goal_lock_free
  /\ goalLock' = IF due_waits # {} THEN w ELSE goalLock
  /\ poll' = [poll EXCEPT ![w] = [phase |-> "expired", v_now |-> now, found |-> {}]]
  /\ expire_goal_waits
  /\ UNCHANGED <<now, facts, jobs, archive, goals, candidates, preparations, nextLease,
                 call, deleting, renewal>>

(* Mutants: the recheck ignores the lease; an expired lease still hides the *)
(* job.                                                                     *)
pollable_leased_too(row, w) ==
  /\ row # Null
  /\ row.expires_at > poll[w].v_now
  /\ effective_native_route(row, poll[w].v_now) \in Selector[w]
pollable_never_leased(row, w) ==
  /\ row # Null
  /\ row.expires_at > poll[w].v_now
  /\ row.lease_id = 0
  /\ effective_native_route(row, poll[w].v_now) \in Selector[w]

(* The conditions of the candidate query on the job's own row, which        *)
(* PostgreSQL evaluates again on the row version that it finally locks.     *)
pollable(row, w) ==
  /\ row # Null
  /\ row.expires_at > poll[w].v_now
  /\ row.lease_expires_at <= poll[w].v_now
  /\ effective_native_route(row, poll[w].v_now) \in Selector[w]

(* get_native_work, the snapshot of its candidate query: the status comes   *)
(* from the view jobs_with_status, computed once, in this snapshot.         *)
poll_snapshot(w) ==
  /\ poll[w].phase = "expired"
  /\ poll' = [poll EXCEPT
       ![w].phase = "snapshot",
       ![w].found = {j \in Job : pollable(read_row(j), w) /\ status(j) = "READY"}]
  /\ UNCHANGED <<now, tables, goalLock, call, deleting, renewal>>

release_poll(w) ==
  /\ poll' = [poll EXCEPT ![w] = IdlePoll]
  /\ goalLock' = IF goalLock = w THEN Null ELSE goalLock

(* get_native_work, FOR UPDATE SKIP LOCKED and the UPDATE: any candidate    *)
(* may be the first one that is neither locked nor dropped by the recheck.  *)
poll_lock(w, j) ==
  /\ poll[w].phase = "snapshot"
  /\ j \in poll[w].found
  /\ pollable(jobs[j], w)
  /\ nextLease <= MaxLeases
  /\ jobs' = [jobs EXCEPT ![j] = poll_lease(jobs[j], poll[w].v_now, nextLease, w, LeaseSeconds)]
  /\ row_locks_respected
  /\ nextLease' = nextLease + 1
  /\ release_poll(w)
  /\ UNCHANGED <<now, facts, archive, goals, candidates, preparations, waits, targets,
                 call, deleting, renewal>>

(* get_native_work that returns no row.                                     *)
poll_none(w) ==
  /\ poll[w].phase = "snapshot"
  /\ release_poll(w)
  /\ UNCHANGED <<now, tables, call, deleting, renewal>>

(* claim_native_task: the row is locked before its status is read.          *)
claim_native_task(w, j, route) ==
  /\ due_waits # {} => goal_lock_free
  /\ jobs[j] # Null
  /\ expire_goal_waits
  /\ job_status_at(jobs[j], waits'[j], now) = "READY"
  /\ route.work_kind = "TASK" /\ jobs[j].route = route
  /\ nextLease <= MaxLeases
  /\ jobs' = [jobs EXCEPT ![j] = claim_lease(jobs[j], now, nextLease, w, LeaseSeconds)]
  /\ row_locks_respected
  /\ nextLease' = nextLease + 1
  /\ UNCHANGED <<now, facts, archive, goals, candidates, preparations,
                 poll, goalLock, call, deleting, renewal>>

(* Mutant: an expired lease can be renewed.                                 *)
extend_allowed_expired(j, lease, w) ==
  /\ jobs[j] # Null
  /\ jobs[j].lease_id = lease
  /\ jobs[j].lease_worker_id = w

(* Mutant: any lease of the worker will do.                                 *)
extend_allowed_any_lease(j, lease, w) ==
  /\ jobs[j] # Null
  /\ jobs[j].lease_worker_id = w
  /\ jobs[j].lease_expires_at > now

(* The checks of _extend_lease, made on the locked row.                     *)
extend_allowed(j, lease, w) ==
  /\ jobs[j] # Null
  /\ jobs[j].lease_id = lease
  /\ jobs[j].lease_worker_id = w
  /\ jobs[j].lease_expires_at > now

(* _extend_lease, on the locked row.                                        *)
extend_lease(j, lease, w) ==
  /\ extend_allowed(j, lease, w)
  /\ jobs' = [jobs EXCEPT ![j].lease_expires_at = now + LeaseSeconds]

(* renew_native_lease: only the row lock, which it keeps until it commits.  *)
renew_native_lease(j, lease, w) ==
  /\ renewal[j] = Null
  /\ extend_lease(j, lease, w)
  /\ renewal' = [renewal EXCEPT ![j] = jobs[j].lease_expires_at]
  /\ UNCHANGED <<now, facts, archive, goals, candidates, preparations, waits, targets,
                 nextLease, poll, goalLock, call, deleting>>

(* The renewal is committed.  A renewal that is rolled back leaves nothing  *)
(* behind: it has held up the others for a while.                           *)
commit_renewal(j) ==
  /\ renewal[j] # Null
  /\ renewal' = [renewal EXCEPT ![j] = Null]
  /\ UNCHANGED <<now, tables, poll, goalLock, call, deleting>>

(* clear_crash_concern: only the row lock.                                  *)
clear_crash_concern(j) ==
  /\ jobs[j] # Null
  /\ jobs' = [jobs EXCEPT ![j].consecutive_expirations = 0]
  /\ row_locks_respected
  /\ UNCHANGED <<now, facts, archive, goals, candidates, preparations, waits, targets,
                 nextLease, poll, goalLock, call, deleting, renewal>>

-----------------------------------------------------------------------------
(* Ending and rescheduling a run *)

(* _lock_job_for_status, and the checks around it: a call under a lease is  *)
(* let through while the lease is valid, one without while the job is       *)
(* unheld.  It has the goal lock from here on.                              *)
lock_job_for_status(c) ==
  /\ goal_lock_free
  /\ IF c.lease = 0 THEN unheld(c.job) ELSE validate_native_lease(c.job, c.lease, c.worker)
  /\ call' = c
  /\ UNCHANGED <<now, tables, poll, goalLock, deleting, renewal>>

(* complete_native_job.                                                     *)
complete_native_job(j, lease, w, outcome) ==
  lock_job_for_status([job |-> j, lease |-> lease, worker |-> w, outcome |-> outcome,
                       req |-> Null])

(* complete_native_unheld_job.                                              *)
complete_native_unheld_job(j, outcome) ==
  lock_job_for_status([job |-> j, lease |-> 0, worker |-> Null, outcome |-> outcome,
                       req |-> Null])

(* _complete_native_locked_job: lock the base row, whatever it is by now.   *)
complete_native_locked_job(c) ==
  /\ c.outcome # Null
  /\ archive_job(c.job, c.outcome)
  /\ call' = Null
  /\ UNCHANGED <<now, facts, candidates, preparations, nextLease, poll, goalLock,
                 deleting, renewal>>

(* _cancel_job accepts j.  The mark it leaves, cancel_requested, goes with  *)
(* the row in the same transaction.                                         *)
cancel_job(j) == jobs[j] # Null

(* cancel_native_job: the request and the archival are one transaction, and *)
(* a valid lease is no obstacle.                                            *)
cancel_native_job(j) ==
  /\ goal_lock_free
  /\ cancel_job(j)
  /\ archive_job(j, "cancelled")
  /\ UNCHANGED <<now, facts, candidates, preparations, nextLease, poll, goalLock, call,
                 deleting, renewal>>

(* The argument checks of reschedule_native_job and _register_wait.         *)
reschedule_valid(req) ==
  /\ req.is_deadline => req.wait_for # {} /\ req.available_at # Null
  /\ native_route_valid(req.route)
  /\ req.alternate # Null /\ req.alternate.task_type # Null => req.route.work_kind = "TASK"
  /\ req.job \notin req.wait_for
  /\ req.wait # Null =>
       /\ req.wait_for = {} /\ req.available_at = Null /\ req.alternate = Null
       /\ req.wait.id # "submission"
  /\ wait_for_known(req.wait_for)

(* reschedule_native_job, under a lease or (lease = 0) of an unheld job.    *)
reschedule_native_job(req, lease, w) ==
  /\ reschedule_valid(req)
  /\ lock_job_for_status([job |-> req.job, lease |-> lease, worker |-> w, outcome |-> Null,
                          req |-> req])

(* Mutant: the locked row is not looked at.                                 *)
still_authorised_unchecked(c) == TRUE

(* What reschedule_native_job checks again on the base row it has locked:   *)
(* the worker and the expiry, and nothing for a call without a lease.       *)
still_authorised(c) ==
  c.lease # 0 =>
    jobs[c.job].lease_worker_id = c.worker /\ jobs[c.job].lease_expires_at > now

(* reschedule_native_job, from the locking of the base row on.  Registering *)
(* a wait id again requires the same descriptor and deadline and only       *)
(* evaluates it again; a new wait must not close a cycle.                   *)
reschedule_locked_job(c) ==
  LET j == c.job
      req == c.req
  IN
  /\ req # Null
  /\ still_authorised(c)
  /\ jobs' = [jobs EXCEPT ![j] =
       rescheduled_row(jobs[j], req, normalize_wait_for(req.wait_for), now)]
  /\ row_locks_respected
  /\ call' = Null
  /\ UNCHANGED <<now, facts, archive, goals, candidates, preparations, nextLease,
                 poll, goalLock, deleting, renewal>>
  /\ IF req.wait = Null THEN settle({}, pending_waits(j))
     ELSE LET old == waits[j][req.wait.id] IN
          /\ IF old = Null THEN targets_exist(j, req.wait.deps)
             ELSE old.descriptor = req.wait.deps /\ old.deadline = req.wait.deadline
          /\ store_wait(j, req.wait.id, req.wait.deps, req.wait.deadline)
          /\ old = Null => ~goal_cycle(JobTarget(j))'

(* A call that raises an exception, or whose connection is lost, has no     *)
(* effect.                                                                  *)
roll_back_call ==
  /\ call' = Null
  /\ UNCHANGED <<now, tables, poll, goalLock, deleting, renewal>>

(* delete_native_jobs hides every selected job and archives the active ones *)
(* as cancelled, one after the other in one transaction under the goal      *)
(* lock: nobody else takes a step until deleting is empty again.            *)
delete_native_jobs(S) ==
  /\ goal_lock_free
  /\ deleting' = {j \in S : facts[j] # Null /\ ~facts[j].hidden}
  /\ UNCHANGED <<now, tables, poll, goalLock, call, renewal>>

(* The completion status of a deleted job that was still active.            *)
deletion_outcome == "cancelled"

delete_one_job(j) ==
  /\ j \in deleting
  /\ deleting' = deleting \ {j}
  /\ facts' = [facts EXCEPT ![j].hidden = TRUE]
  /\ IF jobs[j] # Null THEN archive_job(j, deletion_outcome)
     ELSE UNCHANGED <<jobs, archive, goals, waits, targets>>
  /\ UNCHANGED <<now, candidates, preparations, nextLease, poll, goalLock, call, renewal>>

-----------------------------------------------------------------------------
(* Goals *)

(* add_goal_candidate of a job that is no member yet; a job that already    *)
(* succeeded closes the goal at once.                                       *)
add_goal_candidate(g, j) ==
  /\ goal_lock_free
  /\ goal_open(g)
  /\ facts[j] # Null
  /\ ~goal_member(g, j)
  /\ candidates' = candidates \cup {<<g, j>>}
  /\ UNCHANGED <<now, facts, jobs, archive, preparations, nextLease, poll, goalLock, call,
                 deleting, renewal>>
  /\ IF archive[j] # Null /\ archive[j].status = "success"
     THEN close_goal(g, "SUCCEEDED", j)
     ELSE UNCHANGED <<goals, waits, targets>>
  /\ ~goal_cycle(GoalTarget(g))'

(* fail_goal of an open goal.                                               *)
fail_goal(g) ==
  /\ goal_lock_free
  /\ goal_open(g)
  /\ UNCHANGED <<now, facts, jobs, archive, candidates, preparations, nextLease,
                 poll, goalLock, call, deleting, renewal>>
  /\ close_goal(g, "FAILED", Null)

-----------------------------------------------------------------------------
Tick ==
  /\ now < MaxTime
  /\ now' = now + 1
  /\ UNCHANGED <<tables, poll, goalLock, call, deleting, renewal>>

Lease == 1 .. MaxLeases

Prepare == \E req \in Preparations, j \in Job :
             \/ \E g \in Goal : prepare_job(req, j, g)
             \/ reprepare_job(req, j)

(* A client that has prepared a job publishes it with the goal it was told. *)
Submit == \E req \in Submissions, g \in Goal :
            LET p == preparations[req.job]
            IN submit_native_job(req, IF p # Null THEN p.goal ELSE req.goal, g)

Poll(w) == poll_expire(w) \/ poll_snapshot(w) \/ poll_none(w) \/ \E j \in Job : poll_lock(w, j)

Claim == \E w \in Worker, req \in Reschedules : claim_native_task(w, req.job, req.route)

(* A call under a lease names one that was issued, current or not; a call   *)
(* without a lease has lease 0.                                             *)
Renew == \E lease \in Lease, w \in Worker, j \in Job : renew_native_lease(j, lease, w)

Complete == \E j \in Job, outcome \in Completions :
              \/ \E lease \in Lease, w \in Worker : complete_native_job(j, lease, w, outcome)
              \/ complete_native_unheld_job(j, outcome)

Reschedule == \E req \in Reschedules :
                \/ \E lease \in Lease, w \in Worker : reschedule_native_job(req, lease, w)
                \/ reschedule_native_job(req, 0, Null)

Cancel == \E j \in Cancellable : cancel_native_job(j)

ClearCrashConcern == \E j \in Job : clear_crash_concern(j)

(* The open call's second step.                                             *)
EndCall == \E c \in {call} \ {Null} :
             complete_native_locked_job(c) \/ reschedule_locked_job(c) \/ roll_back_call

Goals == \/ \E c \in CandidateRequests : add_goal_candidate(c[1], c[2])
         \/ \E g \in FailRequests : fail_goal(g)

Delete == \E S \in Deletions : delete_native_jobs(S)

Next ==
  \/ /\ deleting = {}
     /\ \/ Tick \/ Prepare \/ Submit \/ Claim \/ Renew \/ ClearCrashConcern
        \/ Complete \/ Reschedule \/ EndCall \/ Cancel \/ Goals \/ Delete
        \/ \E w \in Worker : Poll(w)
  \/ \E j \in deleting : delete_one_job(j)
  \/ \E j \in Job : commit_renewal(j)

Spec == Init /\ [][Next]_vars

(* Time passes, every worker keeps polling; calls, deletions and the        *)
(* transactions of renewals end.                                            *)
(* PostgreSQL queues the waiters for the goal lock, so that a poll that     *)
(* needs it gets it although others take it again and again.  SKIP LOCKED   *)
(* may pass over a job as long as somebody holds its row lock, but no       *)
(* transaction holds it for ever: a worker that finds a leasable candidate  *)
(* again and again leases one.                                              *)
Fairness ==
  /\ WF_vars(deleting = {} /\ Tick)
  /\ WF_vars(\E j \in deleting : delete_one_job(j))
  /\ WF_vars(deleting = {} /\ EndCall)
  /\ \A j \in Job : WF_vars(commit_renewal(j))
  /\ \A w \in Worker :
       /\ WF_vars(deleting = {} /\ Poll(w))
       /\ SF_vars(deleting = {} /\ poll_expire(w))
       /\ SF_vars(deleting = {} /\ \E j \in Job : poll_lock(w, j))

FairSpec == Spec /\ Fairness

-----------------------------------------------------------------------------
(* Properties *)

(* A job id is used once: every submitted job has its row either in jobs or *)
(* in jobs_archive, never in both and never in neither, whatever mixture of *)
(* completion, cancellation, deletion and repeated submission it has seen.  *)
OneHome ==
  \A j \in Job : /\ facts[j] # Null <=> (jobs[j] # Null \/ archive[j] # Null)
                 /\ jobs[j] = Null \/ archive[j] = Null

(* dependency_targets holds exactly the pending dependencies of pending     *)
(* waits: _settle_target finds every wait it has to look at and no other.   *)
TargetsExact == targets = {t \in TargetRow : pending_target(waits, t)}

(* No lost wake-up: a dependency stored as pending, in a wait stored as     *)
(* pending, really is undecided: its job is not archived, its goal is open. *)
NoLostWakeup ==
  \A j \in Job, i \in WaitId :
    waits[j][i] # Null /\ waits[j][i].state = "PENDING" =>
      \A k \in DOMAIN waits[j][i].deps :
        waits[j][i].deps[k].state = "PENDING" =>
          LET t == waits[j][i].descriptor[k].target IN
          IF t.kind = "job" THEN facts[t.id] # Null /\ archive[t.id] = Null
          ELSE goal_open(t.id)

(* Jobs and goals never wait for each other in a circle, although waits,    *)
(* shared goals and candidates are added by different clients.              *)
Acyclic == \A S \in SUBSET Target : closed(S) => S = {}

(* An open goal has no member that succeeded; a succeeded one names such a  *)
(* member (_resolve_goal, add_goal_candidate, _terminal_goals).             *)
GoalOutcomeJustified ==
  \A g \in Goal :
    /\ goal_open(g) => \A j \in Job : goal_member(g, j) /\ archive[j] # Null =>
                                     archive[j].status # "success"
    /\ goals[g] # Null /\ goals[g].state = "SUCCEEDED" =>
         \E j \in Job : /\ goals[g].successful_job_id = j
                        /\ goal_member(g, j)
                        /\ archive[j] # Null /\ archive[j].status = "success"

(* A pending wait is the one its job is suspended on: reschedule and every  *)
(* way to archive a job leave no forgotten pending wait behind.             *)
PendingWaitCurrent ==
  \A j \in Job, i \in WaitId :
    waits[j][i] # Null /\ waits[j][i].state = "PENDING" =>
      jobs[j] # Null /\ jobs[j].dependency_wait_id = i

(* What is recorded about one dependency is what happened to its target.    *)
DependencyJustified(dep, o) ==
  LET id == dep.target.id IN
  /\ o.state = "SATISFIED" =>
       IF dep.target.kind = "goal"
       THEN goals[id].state = "SUCCEEDED" /\ o.by = goals[id].successful_job_id
       ELSE /\ archive[id] # Null /\ o.by = id
            /\ archive[id].status = "success" \/ dep.condition = "complete"
  /\ o.state = "FAILED" =>
       IF dep.target.kind = "goal" THEN goals[id].state = "FAILED"
       ELSE archive[id] # Null /\ archive[id].status # "success" /\ dep.condition = "success"

(* A wait's outcome is justified: satisfied by all of its dependencies,     *)
(* failed by one of them, timed out only after its deadline; and it is      *)
(* pending exactly as long as one of its dependencies is.                   *)
WaitOutcomeJustified ==
  \A j \in Job, i \in WaitId :
    waits[j][i] # Null =>
      LET w == waits[j][i] IN
      /\ \A k \in DOMAIN w.deps : DependencyJustified(w.descriptor[k], w.deps[k])
      /\ w.state = "SATISFIED" => \A k \in DOMAIN w.deps : w.deps[k].state = "SATISFIED"
      /\ w.state = "FAILED" => \E k \in DOMAIN w.deps : w.deps[k].state = "FAILED"
      /\ w.state = "TIMED_OUT" => w.deadline <= now
      /\ w.state = "PENDING" <=> \E k \in DOMAIN w.deps : w.deps[k].state = "PENDING"

(* A deleted job is out of every worker's reach, and no wait_for list keeps *)
(* a job that is over: nothing is blocked on what can never happen again.   *)
NothingWaitsForFinished ==
  \A j \in Job :
    /\ facts[j] # Null /\ facts[j].hidden => jobs[j] = Null
    /\ jobs[j] # Null =>
         /\ \A k \in jobs[j].wait_for : jobs[k] # Null
         /\ jobs[j].wait_until_is_deadline => jobs[j].wait_for # {}

(* The CHECK constraints jobs_native_route_valid and jobs_lease_route_valid *)
(* can never make a poll or a claim fail, and while a row carries a lease   *)
(* its route is the one that was leased, promoted alternate included.       *)
RoutesValid ==
  \A j \in Job : jobs[j] # Null =>
    /\ native_route_valid(jobs[j].route)
    /\ lease_route_valid(jobs[j])
    /\ jobs[j].lease_id # 0 => jobs[j].lease_route = route_key(jobs[j].route)
    /\ jobs[j].alternate # Null /\ jobs[j].alternate.task_type # Null =>
         jobs[j].route.work_kind = "TASK"

(* A preparation is published exactly when its job exists, with the goal    *)
(* and the dependencies it reserved; only shared restarts share a goal, and *)
(* a request id names one job.                                              *)
PreparationBinding ==
  \A j \in Job : preparations[j] # Null =>
    LET p == preparations[j] IN
    /\ p.published <=> facts[j] # Null
    /\ p.published => facts[j].goal = p.goal /\ facts[j].deps = p.deps
    /\ \A k \in Job \ {j} : preparations[k] # Null =>
         /\ ~p.share /\ ~preparations[k].share => p.goal # preparations[k].goal
         /\ p.request # Null => p.request # preparations[k].request

(* The lease is valid for whoever locks its row.                            *)
LeaseHeld(lease) == \E j \in Job, w \in Worker : lease_valid(jobs[j], lease, w)

(* A lease that has ended, by expiry, completion, rescheduling, cancelling  *)
(* or deletion, is never valid again: its holder stays fenced off.  A       *)
(* renewal counts from its check on the locked row (_extend_lease); those   *)
(* who do not lock the row may read it as expired until it is committed.    *)
LeaseNeverRevives ==
  [][\A lease \in 1 .. nextLease - 1 : LeaseHeld(lease)' => LeaseHeld(lease)]_vars

(* While a lease is valid nobody else gets a lease on the job, not even a   *)
(* poll whose snapshot and clock reading are older than the lease.          *)
LeaseExclusive ==
  [][\A j \in Job :
       jobs[j] # Null /\ jobs[j].lease_expires_at > now /\ jobs'[j] # Null =>
         jobs'[j].lease_id \in {0, jobs[j].lease_id}]_vars

(* A job is rescheduled under a lease only for a worker that holds a lease  *)
(* on it when the row is locked: no other worker that leased the job since  *)
(* the call was let through loses it.  The code does not compare lease_id   *)
(* again, so that the same worker's newer lease will do.                    *)
RescheduleFenced ==
  [][call # Null /\ call.req # Null /\ call.lease # 0 /\ jobs' # jobs /\ call' = Null =>
       \E lease \in 1 .. nextLease - 1 : lease_valid(jobs[call.job], lease, call.worker)]_vars

(* Outcomes are final: an archived job, a closed goal and a decided wait    *)
(* never change, candidates and identities are never withdrawn or rebound.  *)
OutcomesFinal ==
  [][/\ \A j \in Job : archive[j] # Null => archive'[j] = archive[j]
     /\ \A g \in Goal : goals[g] # Null /\ goals[g].state # "OPEN" => goals'[g] = goals[g]
     /\ \A j \in Job, i \in WaitId :
          waits[j][i] # Null =>
            /\ waits'[j][i] # Null
            /\ waits'[j][i].descriptor = waits[j][i].descriptor
            /\ waits'[j][i].deadline = waits[j][i].deadline
            /\ waits[j][i].state # "PENDING" => waits'[j][i] = waits[j][i]
     /\ candidates \subseteq candidates'
     /\ \A j \in Job : facts[j] # Null =>
          facts'[j] \in {facts[j], [facts[j] EXCEPT !.hidden = TRUE]}]_vars

(* A timed wait ends: once its deadline has passed, some poll closes it.    *)
TimedWaitEnds ==
  \A j \in Job, i \in WaitId :
    (waits[j][i] # Null /\ waits[j][i].state = "PENDING" /\ waits[j][i].deadline <= MaxTime)
      ~> (waits[j][i] # Null /\ waits[j][i].state # "PENDING")

(* A ready job that some worker polls for is eventually leased, or stops    *)
(* being ready another way, as long as lease ids last: no lock, stale       *)
(* snapshot or skipped row starves it for ever.                             *)
ReadyIsLeased ==
  \A j \in Job :
    (/\ jobs[j] # Null /\ status(j) = "READY" /\ nextLease <= MaxLeases
     /\ \E w \in Worker : effective_native_route(jobs[j], now) \in Selector[w])
      ~> (jobs[j] = Null \/ status(j) # "READY" \/ nextLease > MaxLeases)

(* README.md, "Crash concern and ready work": a lease is only ever given to *)
(* a job that is READY, now or, since a poll takes its time, a moment ago.  *)
(* get_native_work reads the status in its snapshot and not on the row      *)
(* version it locks, which may never have been READY.                       *)
LeaseRequiresReady ==
  [][\A j \in Job :
       jobs[j] # Null /\ jobs'[j] # Null /\ jobs'[j].lease_id \notin {0, jobs[j].lease_id} =>
         \E t \in 0 .. now : job_status_at(jobs[j], waits[j], t) = "READY"]_vars

(* The comment of _extend_lease: authority and expiry must be checked after *)
(* any lock wait, immediately before the update.  Completing, and every     *)
(* call without a lease, checks them before it locks the row: it can end or *)
(* reschedule a job that another worker holds by then.                      *)
CallsFenced ==
  [][call # Null /\ call' = Null /\ jobs' # jobs =>
       jobs[call.job].lease_expires_at <= now \/ jobs[call.job].lease_id = call.lease]_vars

(* dependency_wait_info: a reader sees the wait evaluated at its own time.  *)
dependency_wait_info(j, i) == evaluate_wait(waits[j][i], now, goals, archive)

=============================================================================
