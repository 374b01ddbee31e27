------------------------------ MODULE Listings ------------------------------
(***************************************************************************)
(* The paged job listings: ListJobs and ListJobSummaries over all tenants, *)
(* newest first, and ListScheduleRuns over one schedule, by scheduled      *)
(* time.  Every page is one query of its own.  A page token names the last *)
(* row returned and the filter it was made for; between two pages jobs are *)
(* submitted, run, archived, deleted and made members of goals.            *)
(*                                                                         *)
(* A tenant's submissions are serialised by its goal lock until they       *)
(* commit; those of different tenants become visible in any order.         *)
(***************************************************************************)
EXTENDS Integers, FiniteSets, Sequences

CONSTANTS
  JobKey,        \* pairs of a tenant id and a job id, numbers in the order of the text ids
  Goal,          \* goal ids
  Null,
  ScheduledAt,   \* scheduled_at of each job's occurrence, Null for a job of no schedule
  Occurrence,    \* the schedule, generation and run id of that occurrence, or Null;
                 \* a schedule belongs to one tenant
  JobOptions,    \* the inputs of ListJobs
  RunOptions,    \* the inputs of ListScheduleRuns
  StatusChanges, \* pairs of statuses: what scheduling and the clock make of a status
  MaxTime        \* bound: the clock stops here

Tenant == {k[1] : k \in JobKey}

LiveStatus == {"READY", "EXPIRED", "PENDING_JOBS", "AWAITING_FUTURE", "ACTIVE", "CRASH_CONCERN"}
Status == LiveStatus \cup {"CANCELLED", "COMPLETED"}
Store == {"ACTIVE", "ARCHIVED"}

(* ListJobsOptions and ListScheduleRunsOptions.  Filters on immutable facts *)
(* (types, keys, parents, metadata) are the set of jobs they let through;   *)
(* after and before are the time bounds, Null when not given.  Filters on   *)
(* routes select like those on statuses; Discovery has them.                *)
Options ==
  [tenants : Seq(Tenant), statuses : Seq(Status), stores : Seq(Store), goals : Seq(Goal),
   facts : SUBSET JobKey, include_hidden : BOOLEAN,
   after : (0 .. MaxTime) \cup {Null}, before : (0 .. MaxTime) \cup {Null},
   page_size : Nat]

ASSUME ListingAssumption ==
  /\ JobKey \subseteq Nat \X Nat /\ MaxTime \in Nat
  /\ ScheduledAt \in [JobKey -> (0 .. MaxTime) \cup {Null}]
  /\ DOMAIN Occurrence = JobKey
  /\ \A j, k \in JobKey :
       Occurrence[j] # Null /\ Occurrence[j] = Occurrence[k] => j[1] = k[1]
  /\ JobOptions \subseteq Options /\ RunOptions \subseteq Options
  /\ StatusChanges \subseteq LiveStatus \X Status

VARIABLES
  now,      \* clock_timestamp()
  rows,     \* job_facts with jobs or jobs_archive, as native_jobs shows them
  opened,   \* per tenant the submission whose transaction is open
  listing   \* one listing in progress

vars == <<now, rows, opened, listing>>

JobView == [created_at : 0 .. MaxTime, status : Status, hidden : BOOLEAN, goals : SUBSET Goal]

Kind == {"jobs", "runs"}

(* What a page token holds (jobCursor, scheduleRunCursor): the position of  *)
(* the last row and the fingerprint of the filter.                          *)
Listing ==
  [kind : Kind, phase : {"idle", "paging"}, opts : Options \cup {Null},
   at : 0 .. MaxTime, key : JobKey \cup {Null},
   returned : [JobKey -> Nat], lasting : SUBSET JobKey]

ASSUME NullAssumption == Null \notin JobView /\ Null \notin Options /\ Null \notin JobKey
                           /\ Null \notin 0 .. MaxTime

TypeOK ==
  /\ now \in 0 .. MaxTime
  /\ rows \in [JobKey -> JobView \cup {Null}]
  /\ opened \in [Tenant -> [key : JobKey, row : JobView] \cup {Null}]
  /\ listing \in Listing

NoneReturned == [k \in JobKey |-> 0]

Init ==
  /\ now = 0
  /\ rows = [k \in JobKey |-> Null]
  /\ opened = [t \in Tenant |-> Null]
  /\ listing = [kind |-> "jobs", phase |-> "idle", opts |-> Null, at |-> 0, key |-> Null,
                returned |-> NoneReturned, lasting |-> {}]

-----------------------------------------------------------------------------
(* Filters *)

store(row) == IF row.status \in LiveStatus THEN "ACTIVE" ELSE "ARCHIVED"

listed_in(list) == {list[i] : i \in DOMAIN list}

(* The checks of listJobs and ListScheduleRuns; a page size of 0 is 100.    *)
options_valid(kind, opts) ==
  /\ opts.tenants # <<>>
  /\ opts.page_size <= 200
  /\ opts.after # Null /\ opts.before # Null =>
       opts.after < opts.before \/ (kind = "runs" /\ opts.after = opts.before)

page_size(opts) == IF opts.page_size = 0 THEN 100 ELSE opts.page_size

(* slices.Sort: two lists have the same sorted form when every value occurs *)
(* equally often in them.                                                   *)
sorted(list) ==
  [x \in listed_in(list) |-> Cardinality({i \in DOMAIN list : list[i] = x})]

(* Mutant: discovery flags are left out of the fingerprint.                 *)
fingerprint_without_hidden(opts) ==
  <<sorted(opts.tenants), sorted(opts.statuses), sorted(opts.stores), opts.facts,
    opts.after, opts.before, listed_in(opts.goals)>>

(* The fingerprint a token is bound to.  Goal ids are sorted and compacted. *)
(* The optional parts are appended when present; they are JSON of different *)
(* types, so none can be taken for another.  The page size is free.         *)
fingerprint(opts) ==
  <<sorted(opts.tenants), sorted(opts.statuses), sorted(opts.stores), opts.facts,
    opts.after, opts.before, opts.include_hidden, listed_in(opts.goals)>>

(* What a listing is ordered by.                                            *)
row_time(kind, k, row) == IF kind = "jobs" THEN row.created_at ELSE ScheduledAt[k]

time_of(kind, k) == row_time(kind, k, rows[k])

(* The time bounds: exclusive for jobs, inclusive for runs.                 *)
in_bounds(kind, t, opts) ==
  /\ opts.after # Null => t > opts.after \/ (kind = "runs" /\ t = opts.after)
  /\ opts.before # Null => t < opts.before \/ (kind = "runs" /\ t = opts.before)

(* The WHERE of list_native_jobs, compact_job_lists.sql and                 *)
(* list_native_schedule_runs, without the cursor.                           *)
matches(kind, k, row, opts) ==
  /\ row # Null
  /\ kind = "runs" => ScheduledAt[k] # Null
  /\ k[1] \in listed_in(opts.tenants)
  /\ opts.goals = <<>> \/ row.goals \cap listed_in(opts.goals) # {}
  /\ opts.include_hidden \/ ~row.hidden
  /\ opts.statuses = <<>> \/ row.status \in listed_in(opts.statuses)
  /\ opts.stores = <<>> \/ store(row) \in listed_in(opts.stores)
  /\ k \in opts.facts
  /\ in_bounds(kind, row_time(kind, k, row), opts)

-----------------------------------------------------------------------------
(* Pages *)

key_less(j, k) == j[1] < k[1] \/ (j[1] = k[1] /\ j[2] < k[2])

(* Row j comes after the position (t, k): descending by time, tenant, job.  *)
below(kind, j, t, k) ==
  \/ time_of(kind, j) < t
  \/ time_of(kind, j) = t /\ key_less(j, k)

(* Mutant: the cursor compares the time only.                               *)
below_cursor_by_time(kind, k) == listing.key # Null => time_of(kind, k) < listing.at

below_cursor(kind, k) == listing.key # Null => below(kind, k, listing.at, listing.key)

eligible(kind, opts) == {k \in JobKey : matches(kind, k, rows[k], opts) /\ below_cursor(kind, k)}

above(kind, k, S) == {j \in S : below(kind, k, time_of(kind, j), j)}

(* LIMIT page_size + 1, cut back to page_size.                              *)
page(kind, opts) ==
  LET S == eligible(kind, opts)
  IN {k \in S : Cardinality(above(kind, k, S)) < page_size(opts)}

last_of_page(kind, opts) ==
  LET P == page(kind, opts)
  IN CHOOSE k \in P : \A j \in P \ {k} : below(kind, k, time_of(kind, j), j)

(* The first call of a listing: no token.                                   *)
begin_listing(kind, opts) ==
  /\ listing.phase = "idle"
  /\ options_valid(kind, opts)
  /\ listing' = [kind |-> kind, phase |-> "paging", opts |-> opts, at |-> 0, key |-> Null,
                 returned |-> NoneReturned,
                 lasting |-> {k \in JobKey : matches(kind, k, rows[k], opts)}]
  /\ UNCHANGED <<now, rows, opened>>

(* One page, asked for with the last token.  The caller may send other      *)
(* options with it; a token with another fingerprint is refused.            *)
next_page(kind, opts) ==
  /\ listing.phase = "paging" /\ listing.kind = kind
  /\ options_valid(kind, opts)
  /\ fingerprint(opts) = fingerprint(listing.opts)
  /\ LET more == eligible(kind, opts) # page(kind, opts)
         last == last_of_page(kind, opts)
     IN listing' = [listing EXCEPT
          !.returned = [k \in JobKey |-> IF k \in page(kind, opts) THEN @[k] + 1 ELSE @[k]],
          !.at = IF more THEN time_of(kind, last) ELSE 0,
          !.key = IF more THEN last ELSE Null,
          !.phase = IF more THEN "paging" ELSE "idle"]
  /\ UNCHANGED <<now, rows, opened>>

ListJobs == \E opts \in JobOptions : begin_listing("jobs", opts) \/ next_page("jobs", opts)

ListScheduleRuns ==
  \E opts \in RunOptions : begin_listing("runs", opts) \/ next_page("runs", opts)

-----------------------------------------------------------------------------
(* What happens to the rows meanwhile *)

(* A job is lasting as long as it has matched the listing's first options   *)
(* without interruption.                                                    *)
update_listing ==
  listing' = IF listing.phase = "idle" THEN listing
             ELSE [listing EXCEPT !.lasting =
                     {k \in @ : matches(listing.kind, k, rows'[k], listing.opts)}]

(* Mutant: no unique index over occurrences.                                *)
occurrence_free_always(k) == TRUE

(* job_facts_schedule_run_idx: one job per schedule, generation and run id. *)
occurrence_free(k) ==
  Occurrence[k] # Null => \A j \in JobKey : rows[j] # Null => Occurrence[j] # Occurrence[k]

(* submit_native_job, as far as listings see it: created_at is the clock    *)
(* reading of the INSERT, and the row is visible once the transaction has   *)
(* committed.                                                               *)
submit(k, goals) ==
  /\ opened[k[1]] = Null
  /\ rows[k] = Null
  /\ occurrence_free(k)
  /\ opened' = [opened EXCEPT ![k[1]] =
       [key |-> k, row |-> [created_at |-> now, status |-> "READY", hidden |-> FALSE,
                            goals |-> goals]]]
  /\ UNCHANGED <<now, rows, listing>>

commit(t) ==
  /\ opened[t] # Null
  /\ rows' = [rows EXCEPT ![opened[t].key] = opened[t].row]
  /\ opened' = [opened EXCEPT ![t] = Null]
  /\ update_listing
  /\ UNCHANGED now

rollback(t) ==
  /\ opened[t] # Null
  /\ opened' = [opened EXCEPT ![t] = Null]
  /\ UNCHANGED <<now, rows, listing>>

(* Leasing, rescheduling, waiting, the clock and archival move the status.  *)
change_status(k, status) ==
  /\ rows[k] # Null
  /\ <<rows[k].status, status>> \in StatusChanges
  /\ rows' = [rows EXCEPT ![k].status = status]
  /\ update_listing
  /\ UNCHANGED <<now, opened>>

(* Mutant: a CASE without ELSE.                                             *)
deleted_row_without_else(row) ==
  [row EXCEPT !.hidden = TRUE, !.status = IF @ \in LiveStatus THEN "CANCELLED" ELSE Null]

(* delete_native_jobs: a live job is cancelled as well.                     *)
deleted_row(row) ==
  [row EXCEPT !.hidden = TRUE, !.status = IF @ \in LiveStatus THEN "CANCELLED" ELSE @]

delete(k) ==
  /\ rows[k] # Null /\ ~rows[k].hidden
  /\ rows' = [rows EXCEPT ![k] = deleted_row(@)]
  /\ update_listing
  /\ UNCHANGED <<now, opened>>

(* add_goal_candidate.                                                      *)
join_goal(k, g) ==
  /\ rows[k] # Null /\ g \notin rows[k].goals
  /\ rows' = [rows EXCEPT ![k].goals = @ \cup {g}]
  /\ update_listing
  /\ UNCHANGED <<now, opened>>

Tick ==
  /\ now < MaxTime
  /\ now' = now + 1
  /\ UNCHANGED <<rows, opened, listing>>

Next ==
  \/ Tick \/ ListJobs \/ ListScheduleRuns
  \/ \E t \in Tenant : commit(t) \/ rollback(t)
  \/ \E k \in JobKey :
       \/ \E goals \in SUBSET Goal : submit(k, goals)
       \/ \E status \in Status : change_status(k, status)
       \/ delete(k)
       \/ \E g \in Goal : join_goal(k, g)

Spec == Init /\ [][Next]_vars

-----------------------------------------------------------------------------
(* Properties *)

(* No job appears on two pages of a listing, and at its end every job that  *)
(* matched the filter the whole time has been on one: neither ties in the   *)
(* order, nor commits out of order, nor a last row that was archived or     *)
(* deleted since, nor other options sent with the token lose or repeat one. *)
ListingExact ==
  \A k \in JobKey :
    /\ listing.returned[k] <= 1
    /\ listing.phase = "idle" /\ k \in listing.lasting => listing.returned[k] = 1

(* A schedule's occurrence becomes one job, although whoever fires it may   *)
(* try again under another job id, after a try that rolled back or one      *)
(* whose commit it never heard of.                                          *)
OneJobPerOccurrence ==
  \A j, k \in JobKey :
    /\ rows[j] # Null /\ rows[k] # Null
    /\ Occurrence[j] # Null /\ Occurrence[j] = Occurrence[k]
    => j = k

=============================================================================
