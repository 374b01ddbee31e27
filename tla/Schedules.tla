----------------------------- MODULE Schedules -----------------------------
(***************************************************************************)
(* The schedules of one tenant: upsert_schedule and mutate_schedule with   *)
(* their optimistic generation check, and the paged listing of             *)
(* ListSchedules over list_schedules.                                      *)
(*                                                                         *)
(* A mutation locks the row (FOR UPDATE), takes updated_at from the clock  *)
(* and becomes visible when its transaction commits, so rows can become    *)
(* visible in another order than that of their updated_at.                 *)
(***************************************************************************)
EXTENDS Integers, FiniteSets

CONSTANTS
  NumSchedules,   \* bound: how many schedules there are
  Client,         \* callers that read a schedule before they change it
  ScheduleSpec,   \* spec_hash with trigger, target and policies, as one value
  Null,
  Upserts,        \* inputs of upsert_schedule
  Changes,        \* inputs of pause_schedule, resume_schedule and archive_schedule
  Filter,         \* the states a listing asks for
  PageSize,       \* ListSchedulesOptions.PageSize
  MaxGeneration,  \* bound on generations
  MaxTime         \* bound: the clock stops here

State == {"ACTIVE", "PAUSED", "ARCHIVED"}

(* Schedule ids: numbers, in the order of the text ids.                     *)
Schedule == 1 .. NumSchedules

ASSUME ScheduleAssumption ==
  /\ NumSchedules \in Nat
  /\ Upserts \subseteq [state : State, spec : ScheduleSpec, next : BOOLEAN]
  /\ Changes \subseteq [state : State, next : BOOLEAN]
  /\ Filter \subseteq State
  /\ PageSize \in Nat \ {0}
  /\ MaxGeneration \in Nat
  /\ MaxTime \in Nat

VARIABLES
  now,        \* clock_timestamp()
  schedules,  \* the committed rows
  open,       \* the mutation that holds the row lock, not committed yet
  seen,       \* the row a client has read last
  listing     \* one listing in progress

vars == <<now, schedules, open, seen, listing>>

(* next: next_fire_at and next_job_id, both present or both NULL.           *)
ScheduleRow ==
  [state : State, generation : Nat \ {0}, spec : ScheduleSpec, next : BOOLEAN,
   updated_at : 0 .. MaxTime]

(* base is the row the caller's expected generation was read from, if it    *)
(* sent one.                                                                *)
Mutation == [row : ScheduleRow, base : ScheduleRow \cup {Null}]

Cursor == [updated_at : 0 .. MaxTime, schedule : Schedule]

ASSUME NullAssumption == Null \notin ScheduleRow /\ Null \notin Cursor

(* returned counts how often each schedule was on a page; untouched holds   *)
(* what was there when the listing began and has not changed since.         *)
Listing ==
  [phase : {"idle", "paging"}, cursor : Cursor \cup {Null},
   returned : [Schedule -> Nat], untouched : SUBSET Schedule]

TypeOK ==
  /\ now \in 0 .. MaxTime
  /\ schedules \in [Schedule -> ScheduleRow \cup {Null}]
  /\ open \in [Schedule -> Mutation \cup {Null}]
  /\ seen \in [Client -> [Schedule -> ScheduleRow \cup {Null}]]
  /\ listing \in Listing

NoneReturned == [s \in Schedule |-> 0]

Init ==
  /\ now = 0
  /\ schedules = [s \in Schedule |-> Null]
  /\ open = [s \in Schedule |-> Null]
  /\ seen = [c \in Client |-> [s \in Schedule |-> Null]]
  /\ listing = [phase |-> "idle", cursor |-> Null, returned |-> NoneReturned, untouched |-> {}]

-----------------------------------------------------------------------------
(* Changing a schedule *)

(* validateNextFire: only an active schedule has a next fire.               *)
validateNextFire(state, next) == state # "ACTIVE" => ~next

(* p_expected_generation against the row under the lock.                    *)
generation_matches(old, base) == base # Null => old # Null /\ old.generation = base.generation

(* Mutant: pausing, resuming and archiving keep the generation.             *)
mutated_row_same_generation(old, req) ==
  [old EXCEPT !.state = req.state, !.next = req.next, !.updated_at = now]

(* The UPDATE of mutate_schedule.                                           *)
mutated_row(old, req) ==
  [old EXCEPT !.state = req.state, !.next = req.next, !.updated_at = now,
              !.generation = old.generation + 1]

(* Mutant: generations count from zero.                                     *)
upserted_row_from_zero(old, req) ==
  [state |-> req.state, spec |-> req.spec, next |-> req.next, updated_at |-> now,
   generation |-> IF old = Null THEN 0 ELSE old.generation + 1]

(* The INSERT or the UPDATE of upsert_schedule.                             *)
upserted_row(old, req) ==
  [state |-> req.state, spec |-> req.spec, next |-> req.next, updated_at |-> now,
   generation |-> IF old = Null THEN 1 ELSE old.generation + 1]

(* The row lock is free, and the new row is within the bound.               *)
lockable(s) ==
  open[s] = Null /\ (schedules[s] # Null => schedules[s].generation < MaxGeneration)

(* UpsertSchedule / upsert_schedule: no upsert of an archived schedule.     *)
upsert_schedule(s, req, base) ==
  LET old == schedules[s] IN
  /\ req.state \in {"ACTIVE", "PAUSED"}
  /\ validateNextFire(req.state, req.next)
  /\ lockable(s)
  /\ old # Null => old.state # "ARCHIVED"
  /\ generation_matches(old, base)
  /\ open' = [open EXCEPT ![s] = [row |-> upserted_row(old, req), base |-> base]]
  /\ UNCHANGED <<now, schedules, seen, listing>>

(* Mutant: an archived schedule can be resumed.                             *)
state_change_any(old, state) == TRUE

(* An archived schedule can only be archived again.                         *)
state_change_allowed(old, state) == old.state = "ARCHIVED" => state = "ARCHIVED"

(* PauseSchedule, ResumeSchedule, ArchiveSchedule / mutate_schedule.        *)
mutate_schedule(s, req, base) ==
  LET old == schedules[s] IN
  /\ validateNextFire(req.state, req.next)
  /\ lockable(s)
  /\ old # Null
  /\ generation_matches(old, base)
  /\ state_change_allowed(old, req.state)
  /\ open' = [open EXCEPT ![s] = [row |-> mutated_row(old, req), base |-> base]]
  /\ UNCHANGED <<now, schedules, seen, listing>>

(* The mutation's transaction ends.                                         *)
commit(s) ==
  /\ open[s] # Null
  /\ schedules' = [schedules EXCEPT ![s] = open[s].row]
  /\ open' = [open EXCEPT ![s] = Null]
  /\ listing' = [listing EXCEPT !.untouched = @ \ {s}]
  /\ UNCHANGED <<now, seen>>

rollback(s) ==
  /\ open[s] # Null
  /\ open' = [open EXCEPT ![s] = Null]
  /\ UNCHANGED <<now, schedules, seen, listing>>

(* GetSchedule: a client remembers the committed row.                       *)
get_schedule(c, s) ==
  /\ schedules[s] # Null
  /\ seen' = [seen EXCEPT ![c][s] = schedules[s]]
  /\ UNCHANGED <<now, schedules, open, listing>>

-----------------------------------------------------------------------------
(* Listing *)

listed == {s \in Schedule : schedules[s] # Null /\ schedules[s].state \in Filter}

(* (updated_at, schedule_id), compared as a row.                            *)
before(s, k) ==
  \/ schedules[s].updated_at < k.updated_at
  \/ schedules[s].updated_at = k.updated_at /\ s < k.schedule

position(s) == [updated_at |-> schedules[s].updated_at, schedule |-> s]

(* Mutant: the cursor compares the time only.                               *)
below_cursor_by_time(s) ==
  listing.cursor # Null => schedules[s].updated_at < listing.cursor.updated_at

(* The cursor condition of list_schedules.                                  *)
below_cursor(s) == listing.cursor # Null => before(s, listing.cursor)

(* list_schedules asked for one row more than a page holds: the page, and   *)
(* whether there is a next one.                                             *)
eligible == {s \in listed : below_cursor(s)}
page == {s \in eligible : Cardinality({t \in eligible : before(s, position(t))}) < PageSize}
last_of_page == CHOOSE s \in page : \A t \in page \ {s} : before(s, position(t))

begin_listing ==
  /\ listing.phase = "idle"
  /\ listing' = [phase |-> "paging", cursor |-> Null, returned |-> NoneReturned,
                 untouched |-> listed]
  /\ UNCHANGED <<now, schedules, open, seen>>

(* ListSchedules: one page; the token of the last row asks for the next.    *)
ListSchedules ==
  /\ listing.phase = "paging"
  /\ listing' = [listing EXCEPT
       !.returned = [s \in Schedule |-> IF s \in page THEN @[s] + 1 ELSE @[s]],
       !.cursor = IF eligible = page THEN Null ELSE position(last_of_page),
       !.phase = IF eligible = page THEN "idle" ELSE "paging"]
  /\ UNCHANGED <<now, schedules, open, seen>>

-----------------------------------------------------------------------------
Tick ==
  /\ now < MaxTime
  /\ now' = now + 1
  /\ UNCHANGED <<schedules, open, seen, listing>>

(* A caller sends no expected generation, or that of the row it has read.   *)
Bases(s) == {Null} \cup {seen[c][s] : c \in Client}

Upsert(s) == \E req \in Upserts, base \in Bases(s) : upsert_schedule(s, req, base)

Mutate(s) == \E req \in Changes, base \in Bases(s) : mutate_schedule(s, req, base)

Next ==
  \/ Tick \/ begin_listing \/ ListSchedules
  \/ \E s \in Schedule :
       \/ Upsert(s) \/ Mutate(s) \/ commit(s) \/ rollback(s)
       \/ \E c \in Client : get_schedule(c, s)

Spec == Init /\ [][Next]_vars

-----------------------------------------------------------------------------
(* Properties *)

(* No lost update: a mutation that carries an expected generation replaces  *)
(* exactly the row its caller had read, whatever other callers did between. *)
ReplacesWhatWasRead ==
  \A s \in Schedule :
    open[s] # Null /\ open[s].base # Null => schedules[s] = open[s].base

(* An archived schedule never comes back and never fires again.             *)
ArchivedForGood ==
  [][\A s \in Schedule :
       schedules[s] # Null /\ schedules[s].state = "ARCHIVED" =>
         /\ schedules'[s].state = "ARCHIVED" /\ ~schedules'[s].next
         /\ schedules'[s].spec = schedules[s].spec]_vars

(* A listing returns no schedule twice, and at its end it has returned      *)
(* every schedule that was there from the beginning and did not change,     *)
(* although others move between pages while it runs.                        *)
ListingExact ==
  \A s \in Schedule :
    /\ listing.returned[s] <= 1
    /\ listing.phase = "idle" /\ s \in listing.untouched => listing.returned[s] = 1

=============================================================================
