----------------------------- MODULE Discovery ------------------------------
(***************************************************************************)
(* What clients are shown of the scheduler's tables: ListGoals with its    *)
(* candidate counts, ListDependencyWaits, the wait that blocks a job       *)
(* (BlockingDependencyWait, and the summary in compact_job_lists.sql), and *)
(* the jobs that AvailableRoutes lists as acquirable.                      *)
(*                                                                         *)
(* Every page of a listing is one query; between two of them the scheduler *)
(* takes any steps.  Reads compute their answers from the stored rows and  *)
(* the clock, and close no wait they find overdue.                         *)
(***************************************************************************)
EXTENDS JobReads, FiniteSets

CONSTANTS
  Rank,          \* the order of all job, goal and wait ids, COLLATE "C"
  GoalQueries,   \* inputs of ListGoals
  WaitQueries,   \* inputs of ListDependencyWaits
  PageSize       \* page size of every listing

(* Filters on immutable columns of goals are the ids they let through.      *)
(* ListGoalsRequest.Candidate is the set of jobs it describes.              *)
GoalQuery ==
  [goals : SUBSET Goal, states : SUBSET {"OPEN", "SUCCEEDED", "FAILED"},
   candidate : (SUBSET Job) \cup {Null}]

WaitQuery ==
  [consumer : Job \cup {Null}, target : Target \cup {Null}, states : SUBSET WaitState]

ASSUME DiscoveryAssumption ==
  /\ Rank \in [Job \cup Goal \cup WaitId -> Nat \ {0}]
  /\ \A x, y \in DOMAIN Rank : Rank[x] = Rank[y] => x = y
  /\ GoalQueries \subseteq GoalQuery
  /\ WaitQueries \subseteq WaitQuery
  /\ PageSize \in Nat \ {0}
  /\ Null \notin Target

VARIABLE listing   \* one listing in progress

dvars == <<vars, listing>>

(* Rows of both listings, and the positions a page token holds.             *)
Row == (Goal \X {Null}) \cup (Job \X WaitId)

position(row) == <<Rank[row[1]], IF row[2] = Null THEN 0 ELSE Rank[row[2]]>>

DiscoveryInit ==
  /\ Init
  /\ listing = [query |-> Null, paging |-> FALSE, after |-> <<0, 0>>,
                returned |-> [r \in Row |-> 0], lasting |-> {}]

-----------------------------------------------------------------------------
(* Goals *)

goal_matches(g, q) ==
  /\ goals[g] # Null
  /\ g \in q.goals
  /\ q.states = {} \/ goals[g].state \in q.states
  /\ q.candidate # Null => \E j \in q.candidate : goal_member(g, j) /\ facts[j] # Null

(* Mutant: only candidates that succeeded count as terminal.                *)
candidate_counts_successes(g) ==
  LET members == {j \in Job : goal_member(g, j)}
  IN [total |-> Cardinality(members),
      nonterminal |-> Cardinality({j \in members : archive[j] = Null /\ facts[j] # Null}),
      terminal |-> Cardinality({j \in members :
                                  archive[j] # Null /\ archive[j].status = "success"}),
      unavailable |-> Cardinality({j \in members : facts[j] = Null})]

(* The counts of a GoalSummary.                                             *)
candidate_counts(g) ==
  LET members == {j \in Job : goal_member(g, j)}
  IN [total |-> Cardinality(members),
      nonterminal |-> Cardinality({j \in members : archive[j] = Null /\ facts[j] # Null}),
      terminal |-> Cardinality({j \in members : archive[j] # Null}),
      unavailable |-> Cardinality({j \in members : facts[j] = Null})]

-----------------------------------------------------------------------------
(* Waits *)

(* Mutant: the stored state is not evaluated at the time of the query.      *)
wait_matches_stored(j, i, q) ==
  /\ waits[j][i] # Null
  /\ q.consumer # Null => j = q.consumer
  /\ q.target # Null =>
       waits[j][i].state = "PENDING" /\ [job |-> j, wait |-> i, target |-> q.target] \in targets
  /\ q.states = {} \/ waits[j][i].state \in q.states

(* A wait is looked for with its stored state and its rows of               *)
(* dependency_targets, and then with its outcome at the time of the query.  *)
wait_matches(j, i, q) ==
  /\ waits[j][i] # Null
  /\ q.consumer # Null => j = q.consumer
  /\ LET w == dependency_wait_info(j, i)
     IN /\ q.target # Null =>
             /\ waits[j][i].state = "PENDING"
             /\ [job |-> j, wait |-> i, target |-> q.target] \in targets
             /\ w.state = "PENDING"
             /\ \E k \in DOMAIN w.deps :
                  w.deps[k].state = "PENDING" /\ w.descriptor[k].target = q.target
        /\ q.states = {} \/ w.state \in q.states

-----------------------------------------------------------------------------
(* Pages *)

row_matches(row, q) ==
  IF q \in GoalQueries THEN row[2] = Null /\ goal_matches(row[1], q)
  ELSE row[2] # Null /\ wait_matches(row[1], row[2], q)

before(p, q) == p[1] < q[1] \/ (p[1] = q[1] /\ p[2] < q[2])

(* Mutant: a page of waits goes on with the next job.                       *)
after_cursor_next_job(row) == listing.after[1] < position(row)[1]

after_cursor(row) == before(listing.after, position(row))

eligible(q) == {row \in Row : row_matches(row, q) /\ after_cursor(row)}

(* LIMIT size + 1, cut back to size.                                        *)
page(q) ==
  {row \in eligible(q) :
     Cardinality({r \in eligible(q) : before(position(r), position(row))}) < PageSize}

last_of_page(q) ==
  CHOOSE row \in page(q) : \A r \in page(q) \ {row} : before(position(r), position(row))

begin_listing(q) ==
  /\ ~listing.paging
  /\ listing' = [query |-> q, paging |-> TRUE, after |-> <<0, 0>>,
                 returned |-> [r \in Row |-> 0], lasting |-> {r \in Row : row_matches(r, q)}]
  /\ UNCHANGED vars

(* The next page.  DecodeDiscoveryPage refuses a token of another scope, so *)
(* a listing keeps its query.                                               *)
next_page ==
  /\ listing.paging
  /\ LET q == listing.query
         more == page(q) # eligible(q)
     IN listing' = [listing EXCEPT
          !.returned = [r \in Row |-> IF r \in page(q) THEN @[r] + 1 ELSE @[r]],
          !.after = IF more THEN position(last_of_page(q)) ELSE <<0, 0>>,
          !.paging = more]
  /\ UNCHANGED vars

ListGoals == \E q \in GoalQueries : begin_listing(q)
ListDependencyWaits == \E q \in WaitQueries : begin_listing(q)

(* A scheduler step; a row is lasting while it has matched all along.       *)
SchedulerStep ==
  /\ Next
  /\ \E q \in {listing.query} :
       listing' = [listing EXCEPT !.lasting =
                     IF listing.paging THEN {r \in @ : row_matches(r, q)'} ELSE @]

DiscoveryNext ==
  \/ SchedulerStep
  \/ deleting = {} /\ (ListGoals \/ ListDependencyWaits \/ next_page)

DiscoverySpec == DiscoveryInit /\ [][DiscoveryNext]_dvars

-----------------------------------------------------------------------------
(* Properties *)

(* No goal and no wait is on two pages of a listing, and one that matched   *)
(* the query all along is on one, while goals and waits are created, closed *)
(* and timed out between the pages.                                         *)
DiscoveryExact ==
  \A row \in Row :
    /\ listing.returned[row] <= 1
    /\ ~listing.paging /\ row \in listing.lasting => listing.returned[row] = 1

(* Asked who waits for a job or goal, ListDependencyWaits names every wait  *)
(* that a reader of the wait would see pending on it, and no other: the     *)
(* index rows it starts from miss none, and overdue waits are left out.     *)
BlockersFound ==
  deleting = {} =>
    \A t \in Target, j \in Job, i \in WaitId :
      wait_matches(j, i, [consumer |-> Null, target |-> t, states |-> {}]) <=>
        /\ waits[j][i] # Null
        /\ LET w == dependency_wait_info(j, i)
           IN \E k \in DOMAIN w.deps :
                w.deps[k].state = "PENDING" /\ w.descriptor[k].target = t

(* A success after the deadline is too late: a wait that a reader has seen  *)
(* timed out, although no poll has closed it yet, never turns out satisfied *)
(* or failed.  _cancel_waits alone may still close it, as CANCELLED.  (A    *)
(* step stands at the instant at which it reads the clock: a success        *)
(* evaluated before the deadline and committed after it is not late, but    *)
(* overtakes those who read in between.)                                    *)
TooLate ==
  [][\A j \in Job, i \in WaitId :
       waits[j][i] # Null /\ dependency_wait_info(j, i).state = "TIMED_OUT" =>
         dependency_wait_info(j, i)'.state \in {"TIMED_OUT", "CANCELLED"}]_dvars

(* A list of jobs and the job itself name the same blocking wait, and a job *)
(* is shown as blocked exactly while it cannot run for that wait.           *)
BlockingAgrees ==
  deleting = {} =>
    \A j \in Job :
      /\ blocking_wait_summary(j) = BlockingDependencyWait(j)
      /\ jobs[j] # Null /\ read_row(j).lease_expires_at <= now =>
           (BlockingDependencyWait(j) # Null => status(j) = "PENDING_JOBS")
      /\ jobs[j] # Null /\ status(j) = "PENDING_JOBS" /\ jobs[j].wait_for = {} =>
           BlockingDependencyWait(j) # Null

(* The counts of a goal add up: every candidate is live or over, none is    *)
(* unavailable, and a goal succeeds only by a candidate that is over.       *)
CountsAddUp ==
  deleting = {} =>
    \A g \in Goal :
      LET n == candidate_counts(g)
      IN /\ n.total = n.nonterminal + n.terminal /\ n.unavailable = 0
         /\ goals[g] # Null /\ goals[g].state = "SUCCEEDED" => n.terminal > 0

(* types.go: AvailableRoutes lists the work acquirable at Now.  What it     *)
(* lists for a worker's routes is what a poll of that worker finds.         *)
AvailableIsAcquirable ==
  \A w \in Worker :
    poll[w].phase = "expired" /\ poll[w].v_now = now =>
      available_jobs(Selector[w]) = {j \in Job : pollable(read_row(j), w) /\ status(j) = "READY"}

=============================================================================
