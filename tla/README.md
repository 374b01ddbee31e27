# A TLA+ model of pgjobdb

pgjobdb is a durable job scheduler that lives in PostgreSQL: its logic is the
PL/pgSQL of `src/pkg/pgjobdb/pgjobdb.sql`, and thin Go wrappers
(`src/pkg/pgjobdb/*.go`) call it, each call in one transaction. Many clients and
workers run these functions at the same time; what keeps them apart is a
per-tenant advisory lock (the *goal lock*, `_goal_lock`), row locks, and rechecks
after a lock wait. This directory models that concurrency, checks it with TLC on
small instances, and proves the core of it with TLAPS for instances of any size.

## 1. Inventory

| Component | State | Operations | Model |
|---|---|---|---|
| Dependency waits | `dependency_waits`, `dependency_targets` | `_register_wait`, `_evaluate_wait`, `_close_wait`, `_save_wait`, `_settle_target`, `_cancel_waits`, `_expire_goal_waits`, `_check_goal_cycle`, `dependency_wait_info` | `DependencyWaits`, `Scheduler` |
| Goals and candidates | `goals`, `goal_candidates` | `add_goal_candidate`, `_resolve_goal`, `fail_goal`, trigger `_terminal_goals` | `Scheduler` |
| Preparation and submission | `job_preparations`, `job_facts`, `jobs` | `prepare_job`, `submit_native_job` | `Scheduler`, `JobRows` |
| Leases and work acquisition | lease, route and alternate columns of `jobs` | `get_native_work`, `claim_native_task`, `renew_native_lease`, `clear_crash_concern`, `job_status_at`, `effective_native_route` | `JobRows`, `Scheduler` |
| Completion, cancellation, rescheduling | `jobs`, `jobs_archive` | `complete_native_job`, `complete_native_unheld_job`, `cancel_native_job`, `reschedule_native_job`, `_archive_and_delete_job`, `_update_waiters_for_completion` | `JobRows`, `Scheduler` |
| Deletion | `job_facts.hidden_at` | `delete_native_jobs` | `Scheduler` |
| Schedules | `schedules` | `upsert_schedule`, `mutate_schedule`, `get_schedule`, `list_schedules` | `Schedules` |
| Schedule runs | occurrence columns of `job_facts` | the unique index over occurrences, `ListScheduleRuns` | `Listings` |
| Job listings | page tokens | `ListJobs`, `ListJobSummaries`, `list_native_jobs`, `compact_job_lists.sql` | `Listings`, `JobReads` |
| Discovery and single reads | page tokens | `ListGoals`, `ListDependencyWaits`, `BlockingDependencyWait`, `GetJob`, `AvailableRoutes` | `JobReads`, `Discovery` |
| Client payload state | `job_client_state`: a JSON document and its revision | `_merge_client_json`, `_client_update_value`, `_update_client_payload` | `ClientPayload` |
| Runtime adapter | what its callers have been told | `AcquireWork`, `AcquireJobLease`, `ClaimTask`, `ValidateLease`, `KeepAliveLease`, `CompleteLease`, `RescheduleLease`, `CreateJob`, `CancelJob`, `DeleteJobs`, `GetJob` | `RuntimeAdapter` |
| Installer | the schema and its marker `pgjobdb.installation` | `Apply`, `Verify`, `validateDatabase` | `Installation` |
| Runtime lifecycle | connection pool, chapter store, a `sync.Once` | `OpenDSN`, `NewSQLDB`, `Close` | `Installation` |
| Command line server | none | flags, environment, serving | not modelled |
| Test support | none | fixtures, a harness, a chapter codec | not modelled |

How they interact. Everything meets in the tables. Archiving a job (completion,
cancellation, deletion) fires the trigger `_terminal_goals`, which closes the open
goals a successful job is a member of and settles every wait on the job and on
those goals; the row update also takes the job out of the plain `wait_for` lists of
other jobs. A settled wait makes its job READY without anyone touching the job's
row, because the status is computed from the tables whenever it is read. A worker's
poll expires overdue waits first, so time enters the tables only through polls and
claims.

What is hard here:

- *Stale reads.* `get_native_work` decides on a snapshot and locks later;
  `_lock_job_for_status` reads through a view whose `FOR UPDATE` locks nothing.
- *Fencing.* A lease ends by the clock, not by an action; its holder may call at
  any later time, and a lock wait may last longer than the lease.
- *Lost wake-ups.* A wait is registered while its target ends; one archival decides
  several targets.
- *Cycles* between jobs and goals that different clients build piece by piece.
- *Time.* A wait is due, a fallback route is due, a job expires or a lease ends at
  the same instant another operation runs.
- *Optimistic updates* of schedules and client payloads, by callers whose read is
  older than their lease.
- *Keyset pages* of schedules, jobs, runs, goals and waits, whose rows change and
  become visible in another order than that of their timestamps.
- *Calls of several transactions* in the runtime adapter: a batch of leases that fails
  half-way, an answer that is read after the mutation it is about, an answer
  that never arrives.
- *Opening and closing* a runtime while other runtimes, releases and programs use
  the database.

What makes each component correct is listed with the runs (section 3); the list of
hazards, each at its line, is in `PROJECT.json`.

## 2. Modules

- **`DependencyWaits`** — pure operators. A wait is a record with its descriptor (a
  sequence of dependencies), deadline, state and one outcome per dependency.
  `evaluate_wait` is `_evaluate_wait`: deadline before dependencies, the first
  failure ends the loop, `close_wait` cancels what was never decided.
- **`JobRows`** — a row of `jobs` and the `UPDATE`s and `INSERT`s made to it as pure operators:
  `poll_lease`, `claim_lease`, `submitted_row`, `rescheduled_row`,
  `forget_completed`, with the route, alternate and lease columns.
- **`Scheduler`** — the tables of one tenant as variables and one action per native
  function.
- **`Schedules`** — the schedule table with transactions that are open until they
  commit, callers that remember what they have read, and a paged listing.
- **`JobGoals`** — the abstract specification of what the scheduler promises to clients: a job
  lives once and ends once, at most one lease holds it, and a goal is decided
  in the very step in which a member of it succeeds. No tables, clocks, polls or waits.
- **`GoalPromise`** — extends `Scheduler` and maps its tables to `JobGoals`
  (`INSTANCE JobGoals WITH`): a job is over when it has an archive row, and a lease
  counts while it has not expired, so a tick of the clock maps to `Release`.
- **`JobReads`** — extends `Scheduler` with the reads of one job, as operators.
- **`Discovery`** — extends `JobReads` with a caller that pages through goals or
  waits between the scheduler's steps.
- **`RuntimeAdapter`** — extends `JobReads`: every step of the adapter is a step of the
  scheduler together with what the adapter makes of it. `batch` is an
  `AcquireWork` between its polls, `known` what a worker was given, `lost` what it
  was told it lost and whether a renewal of it was waiting for its commit at that moment, `reader` the `GetJob`
  that ends a mutation, in up to three queries, of the first of which only store, outcome and worker matter. Every
  delivery may be lost after its commit. `ErrExecutionLeaseLost` comes from the lease calls
  (`translateLeaseError`) and from `CreateJob`, which makes it of the `ErrJobDeleted` of a submission whose parent
  was deleted (`mutations.go:55-57`): `refuse_child`. Run policies are converted between nanoseconds and
  milliseconds, with the bounds of int64 as constants, and a policy that
  `SubmitJob` accepted may be one the adapter cannot read.
- **`Listings`** — jobs as listings see them, in several tenants, with submissions that are open until
  they commit, and one listing of jobs or schedule runs whose token carries the position and the filter's
  fingerprint.
- **`ClientPayload`** — documents as nested records, the merge, the size limit and the revision
  check, between lease holders that read at any time and call late. The functions that the merge and
  the size call on members are parameters of theirs; the constants `Merge` and `Size` are the fixpoints, which
  `MCClientPayload` defines as recursive functions.
- **`Installation`** — the installer query by query, the DDL transaction, the resources of every
  runtime, and other programs that change the database. The DDL transaction is one step, except over a
  schema without marker: there the check at its head (`pgjobdb.sql:7-13`) is `apply` and the statements after it,
  which another release can get ahead of, are `replace`. Other releases are assumed to install themselves at one
  instant.
- **`MCLeases`, `MCGoals`, `MCSubmit`, `MCLive`, `MCSchedules`, `MCListings`, `MCDiscovery`,
  `MCRuntime`, `MCInstallation`, `MCClientPayload`** — instances.
- **`SchedulerProofs`, `DiscoveryProofs`, `RuntimeProofs`, `SchedulesProofs`, `ListingsProofs`,
  `ClientPayloadProofs`, `InstallationProofs`** — theorems and proofs. `SchedulerProofs` also proves that
  `Scheduler` implements `JobGoals`; `DiscoveryProofs` and `RuntimeProofs` build on it.
- **`Pages`** — lemmas about a page of a finite ordered set, which the three proofs about listings share.

`DependencyWaits` and `JobRows` are the vocabulary of `Scheduler`; `GoalPromise`,
`JobReads`, `Discovery` and `RuntimeAdapter` are compositions with it and share its
variables. `Schedules`, `Listings`, `ClientPayload` and `Installation` stand alone: they share no
row that both sides change, except that `Listings` and `ClientPayload` keep of a job's status and lease
what they look at and let it change in every way the scheduler could change it.

Grain of atomicity in `Scheduler`. A function that begins with `_goal_lock` excludes
every other such function of its tenant, and is one action. Three are not:

- *Completing and rescheduling* are two steps. `lock_job_for_status(c)` checks
  status and lease and puts the call into the variable `call` (which stands for the goal
  lock being held); `complete_native_locked_job` or `reschedule_locked_job` then
  locks the base row and acts. Between them polls, claims, renewals and
  `clear_crash_concern`, which need no goal lock, may change the row. `roll_back_call` is an
  exception in the second part, or a lost connection.
- *`get_native_work`* is three steps of a worker: `poll_expire` (overdue waits, the
  clock reading `v_now`; it takes and keeps the goal lock only if something is
  due), `poll_snapshot` (the candidates, with the status in that snapshot), and
  `poll_lock` or `poll_none` (recheck of the row's own conditions, then the lease).
  Any candidate may be the one that is leased, and none may be: this covers
  the ordering, `SKIP LOCKED` and the target and metadata filters.
- *`delete_native_jobs`* is one transaction that archives job after job. The model
  takes one step per job, and nobody else moves while `deleting` is not empty.

A *renewal* takes no goal lock and has two instants: `renew_native_lease` checks the lease and the clock under the
row lock (`_extend_lease`, `pgjobdb.sql:828-849`), and `commit_renewal` makes it visible and gives the lock back. In
between, whoever reads the row without locking it (`validate_native_lease`, the first check of a completion or
rescheduling, a poll's snapshot, the status shown to readers) still sees the old end of the lease: `read_row`, with the
old end in the variable `renewal`. Whoever locks or changes the row waits, or passes it over in `get_native_work`
(`SKIP LOCKED`): `row_locks_respected`. A renewal that is rolled back is, to everybody else, a row lock held for
a while, which a wait of the others covers already.

Only renewals are split like this. Every other step stands at the instant at which it reads the clock and checks its rows, and is
visible from then on, although its transaction commits a little later. For what a worker is told of its lease this makes no
difference: before a new lease is committed nobody knows it, and every other uncommitted write to a lease only takes
validity away, so that a reader who does not see it yet calls a lease valid, not lost. For readers it is a
limit of the model: who reads between a deadline and the commit of a success that was evaluated before
it sees a timed-out wait that is then satisfied. `TooLate` is about successes that are evaluated later than the reading.

Abstractions, with the reason for each:

- One tenant: every table, lock and check is per tenant.
- Payloads, client state, traces, notifications, error text, `final_*` columns and the
  lifetime expiration count are left out: no guard reads them.
- `cancel_requested` is left out: the only native function that sets it
  archives the row in the same transaction.
- The task's ordinals and input hash are one value (`Ordinal`): they are present or absent together.
- The model settles all targets of one archival at once. The code calls
  `_settle_target` one target after the other in one transaction; a wait evaluated
  by the first call already sees all updated rows, and a decided dependency is never
  evaluated again, so the order makes no difference.
- A repeated submission or preparation that finds its row only compares and
  is a stuttering step of `Scheduler` (`resubmit_native_job` in `RuntimeAdapter`, which makes its comparisons in the
  code's order, the deleted parent included); a client that has prepared a job publishes it with the
  goal it was told.
- Finding a due wait and getting the goal lock for it are one step, since both look
  at the same rows again under the lock.
- Lease ids come from a counter instead of random UUIDs: they are never reused.
- Times are `0 .. MaxTime`; `Infinity = MaxTime + 1` is SQL's missing deadline. The
  `v_now` of a rescheduling is the time of the row lock.
- `RuntimeAdapter` leaves out the goal, listing and schedule calls of the adapter: they pass their
  arguments on. One reader is followed at a time.
- In `Listings`, filters on immutable columns are the set of jobs they let through. In all listings a page
  token that is refused is a step that does not happen.
- In `ClientPayload`, the size of a document is counted in members instead of bytes, and canonical number
  and string forms are left out: only the digest of a repeated submission uses them.
- In `Installation`, a DDL transaction that loses against a concurrent one is a query that
  fails; the chapter store's tables are one table.
- In `Schedules`, the first upserts of one id are serialised like later ones, page
  tokens are the cursor itself, and the clock never goes back.

## 3. Runs

State counts are distinct states. All runs check deadlock, except `installation` and
`client_payload`, where everything may be opened, closed and used up.

| Run | Instance | What it shows |
|---|---|---|
| `leases` (664 050) | 1 job, 2 workers with different selectors, 2 leases of 2 s, renewals open until they commit, clock 0..3, crash threshold 1, delays, a task, fallback to a job and to a task | `LeaseNeverRevives`, `LeaseExclusive`: an ended lease stays ended and a valid one cannot be taken, not even by a poll with an older clock reading. `RescheduleFenced`: a rescheduling under a lease is for a worker that holds a lease on the job when the row is locked; the code does not compare the lease id again, so that the same worker's newer lease will do. `RoutesValid`: no `CHECK` constraint can fail. |
| `goals` (431 196) | 3 jobs, 2 goals, 3 wait ids, waits on jobs (success, complete) and goals, timed and untimed, a shared restart, 3 candidate requests, failing, cancelling, deleting | `TargetsExact`, `NoLostWakeup`, `PendingWaitCurrent`: nobody is suspended on what is decided. `Acyclic`. `GoalOutcomeJustified`, `WaitOutcomeJustified`, `OutcomesFinal`: every outcome has its reason and is final, and a wait is pending exactly as long as one of its dependencies is. |
| `submission` (473 726) | 3 jobs, 2 goals, a worker with 1 lease, preparations by id, by request, by both, a shared restart, plain `wait_for` with and without deadline, a candidate, a failing goal, completion, cancellation, deletion of a job and of a family | `OneHome`, `NothingWaitsForFinished`, `PreparationBinding`. `ImplementsJobGoals`: every transaction, each half of a two-step call and each job of a deletion is one step of `JobGoals` or none. |
| `liveness` (33 300) | 2 jobs, 2 workers, one timed wait, 2 leases, under `FairSpec` | `TimedWaitEnds`, `ReadyIsLeased`. |
| `schedules` (2 572 658) | 2 schedules, a caller that reads first and others that do not, up to 3 generations, clock 0..1, pages of 1 | `ReplacesWhatWasRead`, `ArchivedForGood`, `ListingExact`. |
| `listings` (819 748) | 4 job ids of 2 tenants, 3 of them runs of a schedule for one instant and 2 of these for one occurrence; pages of 1 and 2; filters by status, store, goal, hidden and time | `ListingExact`: nothing twice, nothing missed that stayed in the filter, although the caller changes page size and options between pages. `OneJobPerOccurrence`. |
| `discovery` (335 331) | 2 jobs, 2 goals, a wait of the submission and a timed one, a candidate, cancelling, a task with a fallback route, a worker with 1 lease, pages of 1 | `BlockersFound`, `BlockingAgrees`, `CountsAddUp`, `AvailableIsAcquirable`: what is shown is what the evaluated rows say. `DiscoveryExact`: pages of goals and waits. `TooLate`: a wait seen timed out is never satisfied or failed later. |
| `runtime` (1 118 761) | 2 jobs, one with a policy too long for a Go duration, a worker with batches of 2, 2 leases of 2 s, clock 0..2, a task that waits for the other job, repeated submissions, a submission whose parent may be deleted, renewals open until they commit, cancelling, deleting | `LostIsLost`: a worker that is told `ErrExecutionLeaseLost`, by whichever call, while no renewal of that lease is waiting for its commit may stop. `DroppedLeaseRunsOut`, `AnswerHolds`. |
| `installation` (95 465) | 3 runtimes, 2 of them owning their connection, 2 goroutines that close each, a schema without marker, one of format 6, a legacy scheduler, a foreign table | `FormatAgrees`: who got through the installer runs on format 7, and functions are put over those of a schema marked with another format only if the mark is newer than the check of the DDL transaction. `NothingLeaks`, `CloseMeansClosed`. |
| `client_payload` (118 390) | 2 workers, 3 leases, 3 revisions, documents nested once, 5 patches and 2 resets | `UpdateReplacesWhatWasRead`: no update is lost. `PatchExact`: a patch does to the document, and to every object in it that the patch has an object for, what RFC 7396 says. `TypeOK` contains the size limit: no merge of two small documents is stored if its result is too big. |

`TypeOK` is an invariant of one run of `Scheduler`, `Schedules`, `Listings` and `ClientPayload`; that of
`Installation` is proved.

Why the bounds are enough for the interesting cases: two leases are what a takeover
needs (an old holder and a new one); three jobs and two goals give a wait through a goal
to a job and back, two members of one goal, and a bystander; the clock needs
one instant before, one at and one after a lease's end or a deadline; leases of 2 s on a clock of 0..3 let a
renewal be checked before the old end, be read after it and be committed then. Two rows with pages of one
give a first and a last page, a row on each side of the cursor and ties in the time; the
theorem on `Schedules` covers any number of rows, and `listings` has three rows visible at once.
Three generations allow a read, a write that overtakes it and a write on top of that. A batch of
two leases, of which one cannot be converted, is what drops a lease that was given. In
`installation`, two runtimes race and a third one finds the result. `MaxLeases = 0` in `goals`
leaves out leasing: there jobs are completed and rescheduled as unheld jobs.

**Fairness** (`Fairness` in `Scheduler`, used by `liveness`): weak for time, for the end of calls,
deletions and renewals (PostgreSQL ends every transaction, by a rollback if need be) and for each
worker's polling loop; strong for `poll_expire`, because the advisory lock queues its waiters in
order, so a poll gets the goal lock although others take it again and again; strong for `poll_lock`,
because no transaction holds a row lock for ever, so a worker that finds a
leasable candidate again and again gets one. Nothing is assumed of clients. `ReadyIsLeased`
is stated as long as lease ids last (`MaxLeases` is a bound of the model).

### Where the code and its documentation disagree

Each is a run that TLC ends with a counterexample.

- `stale_readiness` / `LeaseRequiresReady`. README and the comment in
  `get_native_work` say that a lease requires the status READY. The status is read in the
  snapshot and not on the row version that is locked: a job put off by an unheld
  rescheduling between the two is leased although it has not been READY since.
  By the same gap a poll can count an expired lease on a row that another poll has
  leased since its snapshot, so that a crash cycle gets one lease more than the
  threshold allows ("an uninterrupted failure cycle stops after the sixth lease expires").
- `stale_completion` / `CallsFenced`. `complete_native_job` checks the lease before it locks the
  row and not again, and the calls without a lease do the same with the job being
  unheld; a call that has to wait for the row lock ends or reschedules
  a job that another worker holds by then. The comment of `_extend_lease`
  demands the opposite order.

Three more disagreements were met while modelling and have no run of their own:

- `_cancel_waits` (`pgjobdb.sql:1507`) does not look at the deadline: a wait that readers see as
  `TIMED_OUT` is stored as `CANCELLED` when its job ends before a poll has expired it. The guide asks for the
  deadline to be checked on every settlement path. `TooLate` therefore allows this one change.
- `validateDatabase` (`installer/installer.go:102-124`) reads in separate queries whether the schema
  exists and which tables there are. A runtime that finds no schema, and whose second query runs after another
  runtime's installation has committed, takes pgjobdb's tables for foreign ones and is refused,
  although the comment of `NewSQLDB` says that it "verifies an existing pgjobdb installation".
  `Installation` has this behaviour: `inspect_tables` sees the tables of pgjobdb too.
- `set_crash_concern_threshold` stores the threshold by replacing the function
  `crash_concern_threshold`, and every opening of a runtime applies the DDL that puts the default of five back
  (`pgjobdb.sql:261`). In the modules the threshold is a constant.

## 4. Proofs

Proved with TLAPS, for every value of the constants that satisfies the named
assumptions (the inputs are of their types; descriptors are what
`_validate_dependencies` accepts; `Null` is none of the values it is distinguished
from, `AnswerAssumption` and the last line of `DiscoveryAssumption` included; keys of one
occurrence are in one tenant). `PayloadAssumption` says that the documents are closed under members and
merges, and that `Merge` is a fixpoint of `merge_client_json`. TLC evaluates the assumptions in
every run.

| Module | Theorem | Statement |
|---|---|---|
| `SchedulerProofs` | `TypeCorrect` | `Spec => []TypeOK` |
| | `RoutesLegal` | `Spec => []RoutesValid` |
| | `TargetsAreExact` | `Spec => []TargetsExact` |
| | `WakeupsAreNotLost` | `Spec => []NoLostWakeup` |
| | `EveryJobHasOneHome` | `Spec => []OneHome` |
| | `OutcomesAreFinal` | `Spec => OutcomesFinal` |
| | `GoalOutcomesAreJustified` | `Spec => []GoalOutcomeJustified` |
| | `NobodyWaitsForFinished` | `Spec => []NothingWaitsForFinished` |
| | `PreparationsAreBinding` | `Spec => []PreparationBinding` |
| | `PendingWaitsAreCurrent` | `Spec => []PendingWaitCurrent` |
| | `WaitOutcomesAreJustified` | `Spec => []WaitOutcomeJustified` |
| | `NobodyWaitsInACircle` | `Spec => []Acyclic` |
| | `LeasesEndForGood` | `Spec => LeaseNeverRevives` |
| | `LeasesAreExclusive` | `Spec => LeaseExclusive` |
| | `ReschedulesAreFenced` | `Spec => RescheduleFenced` |
| | `SchedulerKeepsItsPromise` | `Spec => ImplementsJobGoals` |
| | `NoWaitIsHopeless` | `Spec => []WaitsHaveAnEnd` |
| | `PollsEndOverdueWaits` | `Spec => OverdueWaitsEnd` |
| | `OrphansAreNeverSubmitted` | `Spec => OrphansStay` |
| | `CallsAreOvertakenByLeasesOnly` | `Spec => []OvertakenByLeasesOnly` |
| `DiscoveryProofs` | `DiscoveryImplementsScheduler` | `DiscoverySpec => Spec` |
| | `BlockersAreFound` | `DiscoverySpec => []BlockersFound` |
| | `BlockingIsShownAlike` | `DiscoverySpec => []BlockingAgrees` |
| | `ListedWorkIsAcquirable` | `DiscoverySpec => []AvailableIsAcquirable` |
| | `SuccessCanBeTooLate` | `DiscoverySpec => TooLate` |
| | `CandidateCountsAddUp` | `DiscoverySpec => []CountsAddUp` |
| | `DiscoveryListingIsExact` | `DiscoverySpec => []DiscoveryExact` |
| `RuntimeProofs` | `RuntimeImplementsScheduler` | `RuntimeSpec => Spec` |
| | `LostLeasesAreLost` | `RuntimeSpec => []LostIsLost` |
| | `DroppedLeasesRunOut` | `RuntimeSpec => DroppedLeaseRunsOut` |
| | `AnswersHold` | `RuntimeSpec => []AnswerHolds` |
| `SchedulesProofs` | `TypeCorrect` | `Spec => []TypeOK` |
| | `NoLostUpdate` | `Spec => []ReplacesWhatWasRead` |
| | `ArchivingIsFinal` | `Spec => ArchivedForGood` |
| | `ListingIsExact` | `Spec => []ListingExact` |
| `ListingsProofs` | `TypeCorrect` | `Spec => []TypeOK` |
| | `OccurrencesBecomeOneJob` | `Spec => []OneJobPerOccurrence` |
| | `ListingIsExact` | `Spec => []ListingExact` |
| `ClientPayloadProofs` | `TypeCorrect` | `Spec => []TypeOK` |
| | `NoLostUpdate` | `Spec => []UpdateReplacesWhatWasRead` |
| | `PatchesAreExact` | `Spec => []PatchExact` |
| `InstallationProofs` | `TypeCorrect` | `Spec => []TypeOK` |
| | `FormatsAgree` | `Spec => FormatAgrees` |
| | `NothingIsLeaked` | `Spec => []NothingLeaks` |
| | `ClosedWhenCloseReturns` | `Spec => []CloseMeansClosed` |

*Scheduler.* The invariant is `IInv == TypeOK /\ RoutesValid /\ TargetsExact /\
KnownInv /\ CallInv`; its parts need each other. Claiming a task is well typed only
because a task route has coordinates (`RoutesValid`). Settling is well typed only
because `dependency_targets` names existing waits (`TargetsExact`) and the goals in
their descriptors exist (`KnownInv`). Rescheduling is well typed only because the job
of an open call is still active and its request passed the checks (`CallInv`): the goal lock
keeps everybody who archives away. The lemmas at the head of `SchedulerProofs` say what the
operators of `DependencyWaits` and `JobRows` return. Every way to write the waits (`settle`, `expire_goal_waits`,
`store_wait`) is shown, wait by wait, to be a `WaitStep(settled)`: no wait is lost or reinterpreted, no
decision is revised, `dependency_targets` is exact again, and a dependency that is still pending has just been
evaluated or is on none of the settled targets. There is one lemma per action, which concludes `Preserves`;
`Decides(settled)` says that only settled targets are decided. `NoLostWakeup` follows from the two.

*Outcomes.* `StepKinds` sorts the steps of the scheduler into a few kinds by what they do to the tables: a
row is touched, leased, moved or hidden, a job ends, a job is submitted or prepared, a goal is joined or failed,
or nothing but clock, polls and calls changes. `ControlInv` makes this possible: a call is a completion or a
rescheduling, not both, and no poll's clock reading is ahead. Every further proof has one case per kind.

- `OutcomesFinal` rests on `OneHome`: only a job without a row can be submitted, only an active one can end.
- `GoalOutcomeJustified` needs `MembersKnown`: a goal with a member exists, so a submission can only create a goal
  that nothing is a member of yet.
- `WaitOutcomeJustified` needs `RowsJustified`: not only is every recorded dependency outcome that of its target,
  the wait's own state also follows from those outcomes and its deadline. Outcomes are final, so a justified row
  stays justified.
- `Acyclic` is stated without reachability: no non-empty set of targets is closed under "everything in it
  waits for something in it". New edges start only at the job or goal being written, `_check_goal_cycle` has
  found that this start is in no closed set, and a closed set without it was closed before.
- `LeaseNeverRevives` and `LeaseExclusive` need `LeaseInv`: ids are issued in order, so a new lease is none that
  anybody has heard of; and a poll locks a row only if it is free at the time of the lock.
- `ImplementsJobGoals`: each kind of step is a step of `JobGoals` or changes nothing `JobGoals` speaks of.
  The mapping needs `OpenUndecided` (an open goal names no job), `OneHome`, and that the job of an open call is live.

Four theorems state what no run lists as a property; TLC has agreed with each on the instances of `goals` or `leases`
first. Their formulas are defined beside their proofs.

- `NoWaitIsHopeless`: from every waiting job, the edges of pending dependencies lead to something that is not
  itself stuck: a job that does not wait, or an open goal all of whose members have ended. By `RowsJustified` a pending
  wait has a pending dependency, by `NoLostWakeup` its target is undecided, by `TargetsExact` the edge is in
  `dependency_targets`, and an open goal leads to its active members. If nothing that can be reached were free,
  the waiting part of it would be a closed set, which `Acyclic` excludes. An open goal without active members cannot be
  excluded: it stays open until a client fails it or adds a candidate. Plain `wait_for` lists are no part of this graph.
- `PollsEndOverdueWaits`: whatever poll finds an overdue wait leaves it decided. This is the step that the
  liveness property `TimedWaitEnds` needs besides fairness.
- `OrphansAreNeverSubmitted`: a shared preparation whose goal closes before its publication can never
  be published any more (`pgjobdb.sql:1635`).
- `CallsAreOvertakenByLeasesOnly` bounds the disagreement `stale_completion`: between the check of a call under
  a lease and its row lock, its job is not ended and its lease not taken away, except by a later lease.

*Discovery.* `DiscoverySpec => Spec` carries everything above over. `Readable` gathers what a reader may rely
on: that a stored pending wait still awaits something (`RowsJustified`) and that the wait a row points to is
stored (`PointerKnown`). With `NoLostWakeup`, evaluating a stored wait again changes nothing but its deadline, which is why
index rows and stored rows give the same answers as evaluated ones. `FiniteTables` (a step stores one job,
goal and wait at most) makes counts and pages meaningful for unbounded sets of ids.

*Runtime adapter.* `RuntimeSpec => Spec` needs an invariant of the adapter: what a worker was handed is of the
right type (`AdapterType`), and a call in progress is under a lease its worker was handed (`CallKnown`).
`HandedInv` says that what was handed was issued to that worker, for that job, and that what it was told it lost
either had a renewal under way or is not valid; every answer that calls a lease lost (`Telling`) is `Right` at its
instant, because a row without an open renewal is read as it is, a heartbeat and the second check of a rescheduling
look at the locked row, and a deleted parent has no row. With `LeaseNeverRevives` this stays so, which is `LostIsLost`. `ReaderInv` says that what a caller was told is true of the tables and that what
it has read so far agrees with it; outcomes are final, so it stays true between the queries.

*Listings.* `Pages` shows, for any strict order on a finite set, that a page that leaves something out has a last
member and that what it leaves out comes after it, by the least element of a set of naturals (well-founded
induction without an operator parameter). The three exactness proofs share it, and each has a `ListInv`: what was
returned is not ahead of the cursor, and what matched all along was returned or is ahead of it.
`OneJobPerOccurrence` needs `OpenInv`: the key and the occurrence of an open submission are free, and an occurrence
belongs to one tenant, whose goal lock admits one open submission.

*Schedules.* `SeenInv` (a row a caller has read with the current generation is the
current row: generations only grow) gives the absence of lost updates; `ArchiveInv` adds the
open transaction to the archived rows; `TimeInv` and `ListInv` (everything returned
lies at or above the cursor, everything unchanged and not returned lies below it, and whatever is committed later
moves up) give the exact listing, with lemmas that a
finite non-empty page has a last row.

*Client payload.* `IInv == StateInv /\ LeaseInv /\ CallInv /\ ChangeInv`. A revision stands for one payload among
all that was ever read, so a base whose revision passes the check is the state that is replaced. `PatchExact` rests on
`MergeMembers` and `MergePatches`: what a merge makes of any two documents, member by member. They hold for any two
documents and therefore also for the members that are merged in turn; no induction over documents is needed, since
`PatchExact` speaks of each level by the level above it.

*Installation.* The invariant adds `Lifecycle(r)` to the types and the formats, for each runtime: the
chapter store is open only late in an opening, the `Once` closes it before the connection, an
opening that gave up has closed what it owned, and a `Close` has returned only when the `Once` is
over. `Marked` says that a runtime past the installer has a schema marked with its format. A mark that is there
stays, so the check at the head of the DDL transaction and `Verify` are what makes this inductive, whatever the earlier
queries saw; and only `replace` can put functions over those of another format.

What stays with TLC: the liveness properties `TimedWaitEnds` and `ReadyIsLeased` (fairness and `ENABLED` are
beyond the prover), the size of a document as a number (a sum over nested objects, for which `Size` stands in
the proofs), and that the documents of the instance satisfy `PayloadAssumption`.

## 5. Plan

Done: every component that has logic of its own, the abstract specification and its refinement, and a theorem for
every safety property that the runs check. Next would be the recovery protocol around a task completion, with the
chapter store as an external component.

Not modelled, and why:

- *Command line server*: flags, environment variables and an HTTP server of an external
  library. Its one interaction with the runtime, `OpenDSN` and a `Close` on every path, is in `Installation`.
- *Test support* (`harness.go`, `runtimecodec`, `testing.go`, `testsupport.go`): only tests use it.
- *`goal_discovery.sql`* only creates indexes.
- *Goal, listing and schedule calls of the runtime adapter*: they translate types and pass
  arguments on to what the other modules model.
- *`archive_cancelled_jobs`* looks for rows that no native function leaves behind.
- *Lock order and deadlock inside PostgreSQL*: functions that take the goal lock take it
  first, and a deadlock PostgreSQL detects is a rollback, which the modules have.
