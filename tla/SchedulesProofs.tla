-------------------------- MODULE SchedulesProofs --------------------------
(***************************************************************************)
(* Proofs about Schedules, for any number of schedules, callers, requests  *)
(* and any page size: the type invariant, that the expected generation     *)
(* rules out lost updates, that archiving is final, and that a listing is  *)
(* exact.                                                                  *)
(***************************************************************************)
EXTENDS Schedules, Pages

-----------------------------------------------------------------------------
(* Types *)

(* The row an upsert writes is a row.                                       *)
LEMMA UpsertedRowType ==
  ASSUME NEW old \in ScheduleRow \cup {Null}, NEW req \in Upserts, now \in 0 .. MaxTime
  PROVE  upserted_row(old, req) \in ScheduleRow
<1> USE ScheduleAssumption
<1>1. req.state \in State /\ req.spec \in ScheduleSpec /\ req.next \in BOOLEAN
  OBVIOUS
<1>2. (IF old = Null THEN 1 ELSE old.generation + 1) \in Nat \ {0}
  BY DEF ScheduleRow
<1> QED
  BY <1>1, <1>2 DEF upserted_row, ScheduleRow

(* The row a pause, resume or archive writes is a row.                      *)
LEMMA MutatedRowType ==
  ASSUME NEW old \in ScheduleRow, NEW req \in Changes, now \in 0 .. MaxTime
  PROVE  mutated_row(old, req) \in ScheduleRow
<1> USE ScheduleAssumption
<1>1. req.state \in State /\ req.next \in BOOLEAN
  OBVIOUS
<1>2. old.generation + 1 \in Nat \ {0}
  BY DEF ScheduleRow
<1> QED
  BY <1>1, <1>2, Zenon DEF mutated_row, ScheduleRow

(* Rows in the order of updated_at and schedule id are totally ordered.     *)
LEMMA TotalOrder ==
  ASSUME TypeOK, NEW s \in listed, NEW t \in listed
  PROVE  /\ s # t => before(s, position(t)) \/ before(t, position(s))
         /\ ~(before(s, position(t)) /\ before(t, position(s)))
         /\ ~before(s, position(s))
<1>1. /\ s \in Nat /\ t \in Nat
      /\ schedules[s].updated_at \in Nat /\ schedules[t].updated_at \in Nat
  BY ScheduleAssumption DEF TypeOK, listed, Schedule, ScheduleRow
<1> QED
  BY <1>1 DEF before, position

(* The order of rows is transitive.                                         *)
LEMMA OrderTransitive ==
  ASSUME TypeOK, NEW s \in listed, NEW t \in listed, NEW k \in Cursor,
         before(s, position(t)), before(t, k)
  PROVE  before(s, k)
<1>1. /\ s \in Nat /\ t \in Nat /\ k.schedule \in Nat /\ k.updated_at \in Nat
      /\ schedules[s].updated_at \in Nat /\ schedules[t].updated_at \in Nat
  BY ScheduleAssumption DEF TypeOK, listed, Schedule, ScheduleRow, Cursor
<1> QED
  BY <1>1 DEF before, position

(* The position of a listed row is a cursor.                                *)
LEMMA PositionType ==
  ASSUME TypeOK, NEW s \in listed
  PROVE  position(s) \in Cursor
  BY ScheduleAssumption DEF TypeOK, listed, ScheduleRow, position, Cursor

(* A page is an end piece of the eligible rows: if rows are left over, it   *)
(* is not empty, its last row is its lowest, and all others lie below it.   *)
LEMMA PageFacts ==
  ASSUME TypeOK, eligible # page
  PROVE  /\ last_of_page \in page
         /\ \A t \in page \ {last_of_page} : before(last_of_page, position(t))
         /\ \A s \in eligible \ page : before(s, position(last_of_page))
<1> DEFINE S == eligible
           P == page
           R == {p \in S \X S : before(p[2], position(p[1]))}
<1>1. S \subseteq listed /\ P \subseteq S
  BY DEF eligible, page
<1>2. IsFiniteSet(S)
  <2>1. listed \subseteq Schedule
    BY DEF listed
  <2>2. IsFiniteSet(Schedule)
    BY FS_Interval, ScheduleAssumption DEF Schedule
  <2> QED
    BY <1>1, <2>1, <2>2, FS_Subset
<1>3. \A s, t \in S : <<s, t>> \in R <=> before(t, position(s))
  OBVIOUS
<1>4. \A s \in S : Ahead(R, S, s) = {t \in S : before(s, position(t))}
  BY DEF Ahead
<1>5. P = {s \in S : Cardinality(Ahead(R, S, s)) < PageSize}
  BY <1>4 DEF page
<1> HIDE DEF S, P, R
<1>6. Orders(R, S)
  <2>1. ASSUME NEW s \in S, NEW t \in S, NEW u \in S,
               before(t, position(s)), before(u, position(t))
        PROVE  before(u, position(s))
    BY <1>1, <2>1, OrderTransitive, PositionType
  <2>2. \A s, t \in S : s # t => before(s, position(t)) \/ before(t, position(s))
    BY <1>1, TotalOrder
  <2>3. \A s \in S : ~before(s, position(s))
    BY <1>1, TotalOrder
  <2> QED
    BY <1>3, <2>1, <2>2, <2>3 DEF Orders
<1>7. PICK l \in P : /\ \A t \in P \ {l} : <<t, l>> \in R
                     /\ \A s \in S \ P : <<l, s>> \in R
  <2>1. PageSize \in Nat \ {0} /\ P # S
    BY ScheduleAssumption DEF S, P
  <2> QED
    BY <1>2, <1>5, <1>6, <2>1, PageOfOrder
<1>8. \A t \in P \ {l} : before(l, position(t))
  BY <1>1, <1>3, <1>7
<1>9. last_of_page \in P /\ \A t \in P \ {last_of_page} : before(last_of_page, position(t))
  BY <1>8 DEF last_of_page, P
<1>10. last_of_page = l
  BY <1>1, <1>8, <1>9, TotalOrder
<1> QED
  BY <1>1, <1>3, <1>7, <1>9, <1>10 DEF S, P

-----------------------------------------------------------------------------
(* The type invariant *)

(* Every reachable state is well typed.                                     *)
THEOREM TypeCorrect == Spec => []TypeOK
<1>1. Init => TypeOK
  BY ScheduleAssumption DEF Init, TypeOK, Listing, NoneReturned, Schedule
<1>2. TypeOK /\ [Next]_vars => TypeOK'
  <2> SUFFICES ASSUME TypeOK, [Next]_vars PROVE TypeOK'
    OBVIOUS
  <2> USE ScheduleAssumption
  <2>1. CASE Tick
    BY <2>1 DEF Tick, TypeOK
  <2>2. CASE begin_listing
    <3>1. listed \subseteq Schedule
      BY DEF listed
    <3> QED
      BY <2>2, <3>1 DEF begin_listing, TypeOK, Listing, NoneReturned
  <2>3. CASE ListSchedules
    <3> DEFINE end == eligible = page
    <3>1. (IF end THEN Null ELSE position(last_of_page)) \in Cursor \cup {Null}
      <4>1. ASSUME ~end PROVE position(last_of_page) \in Cursor
        <5>1. last_of_page \in listed
          BY <4>1, PageFacts DEF eligible, page
        <5> QED
          BY <5>1, PositionType
      <4> QED
        BY <4>1
    <3>2. [s \in Schedule |-> IF s \in page THEN listing.returned[s] + 1 ELSE listing.returned[s]]
            \in [Schedule -> Nat]
      BY DEF TypeOK, Listing
    <3>3. (IF end THEN "idle" ELSE "paging") \in {"idle", "paging"}
      OBVIOUS
    <3>4. listing' \in Listing
      BY <2>3, <3>1, <3>2, <3>3, Zenon DEF ListSchedules, TypeOK, Listing
    <3> QED
      BY <2>3, <3>4 DEF ListSchedules, TypeOK
  <2>4. ASSUME NEW s \in Schedule, Upsert(s) PROVE TypeOK'
    <3>1. PICK req \in Upserts, base \in Bases(s) : upsert_schedule(s, req, base)
      BY <2>4 DEF Upsert
    <3>2. schedules[s] \in ScheduleRow \cup {Null} /\ base \in ScheduleRow \cup {Null}
      BY DEF TypeOK, Bases
    <3>3. upserted_row(schedules[s], req) \in ScheduleRow
      BY <3>2, UpsertedRowType DEF TypeOK
    <3> QED
      BY <3>1, <3>2, <3>3 DEF upsert_schedule, TypeOK, Mutation
  <2>5. ASSUME NEW s \in Schedule, Mutate(s) PROVE TypeOK'
    <3>1. PICK req \in Changes, base \in Bases(s) : mutate_schedule(s, req, base)
      BY <2>5 DEF Mutate
    <3>2. schedules[s] \in ScheduleRow /\ base \in ScheduleRow \cup {Null}
      BY <3>1 DEF TypeOK, Bases, mutate_schedule
    <3>3. mutated_row(schedules[s], req) \in ScheduleRow
      BY <3>2, MutatedRowType DEF TypeOK
    <3> QED
      BY <3>1, <3>2, <3>3 DEF mutate_schedule, TypeOK, Mutation
  <2>6. ASSUME NEW s \in Schedule, commit(s) PROVE TypeOK'
    <3>1. open[s].row \in ScheduleRow
      BY <2>6 DEF commit, TypeOK, Mutation
    <3>2. listing' \in Listing
      BY <2>6 DEF commit, TypeOK, Listing
    <3> QED
      BY <2>6, <3>1, <3>2 DEF commit, TypeOK
  <2>7. ASSUME NEW s \in Schedule, rollback(s) PROVE TypeOK'
    BY <2>7 DEF rollback, TypeOK
  <2>8. ASSUME NEW s \in Schedule, NEW c \in Client, get_schedule(c, s) PROVE TypeOK'
    BY <2>8 DEF get_schedule, TypeOK
  <2>9. CASE UNCHANGED vars
    BY <2>9 DEF vars, TypeOK
  <2> QED
    BY <2>1, <2>2, <2>3, <2>4, <2>5, <2>6, <2>7, <2>8, <2>9 DEF Next
<1> QED
  BY <1>1, <1>2, PTL DEF Spec

-----------------------------------------------------------------------------
(* Expected generations *)

(* A generation names one version of the row: what a caller has read has a  *)
(* lower generation than the committed row, or is that row.                 *)
SeenInv ==
  \A s \in Schedule, c \in Client : seen[c][s] # Null =>
    /\ schedules[s] # Null
    /\ seen[c][s].generation <= schedules[s].generation
    /\ seen[c][s].generation = schedules[s].generation => seen[c][s] = schedules[s]

(* The open mutation is one generation ahead of the row it has locked.      *)
OpenInv ==
  \A s \in Schedule : open[s] # Null =>
    /\ schedules[s] # Null => open[s].row.generation = schedules[s].generation + 1
    /\ open[s].base # Null => open[s].base = schedules[s]

(* A mutation accepted with an expected generation replaces the very row    *)
(* its caller has read.                                                     *)
LEMMA BaseIsCurrent ==
  ASSUME TypeOK, SeenInv, NEW s \in Schedule, NEW base \in Bases(s),
         generation_matches(schedules[s], base), base # Null
  PROVE  base = schedules[s]
  BY DEF SeenInv, Bases, generation_matches, TypeOK

(* ReplacesWhatWasRead for every number of callers and schedules.           *)
THEOREM NoLostUpdate == Spec => []ReplacesWhatWasRead
<1> DEFINE Inv == SeenInv /\ OpenInv
<1>1. Init => Inv
  BY DEF Init, SeenInv, OpenInv
<1>2. TypeOK /\ Inv /\ [Next]_vars => Inv'
  <2> SUFFICES ASSUME TypeOK, SeenInv, OpenInv, [Next]_vars PROVE SeenInv' /\ OpenInv'
    OBVIOUS
  <2>1. CASE UNCHANGED <<schedules, open, seen>>
    BY <2>1 DEF SeenInv, OpenInv
  <2>2. ASSUME NEW s \in Schedule, Upsert(s) PROVE SeenInv' /\ OpenInv'
    <3>1. PICK req \in Upserts, base \in Bases(s) : upsert_schedule(s, req, base)
      BY <2>2 DEF Upsert
    <3>2. base # Null => base = schedules[s]
      BY <3>1, BaseIsCurrent DEF upsert_schedule
    <3>3. SeenInv'
      BY <3>1 DEF upsert_schedule, SeenInv
    <3>4. ASSUME NEW t \in Schedule, open'[t] # Null
          PROVE  /\ schedules'[t] # Null =>
                      open'[t].row.generation = schedules'[t].generation + 1
                 /\ open'[t].base # Null => open'[t].base = schedules'[t]
      BY <3>1, <3>2, <3>4 DEF upsert_schedule, upserted_row, OpenInv, TypeOK
    <3> QED
      BY <3>3, <3>4 DEF OpenInv
  <2>3. ASSUME NEW s \in Schedule, Mutate(s) PROVE SeenInv' /\ OpenInv'
    <3>1. PICK req \in Changes, base \in Bases(s) : mutate_schedule(s, req, base)
      BY <2>3 DEF Mutate
    <3>2. base # Null => base = schedules[s]
      BY <3>1, BaseIsCurrent DEF mutate_schedule
    <3>3. SeenInv'
      BY <3>1 DEF mutate_schedule, SeenInv
    <3>4. mutated_row(schedules[s], req).generation = schedules[s].generation + 1
      BY <3>1 DEF mutated_row, mutate_schedule, TypeOK, ScheduleRow
    <3>5. ASSUME NEW t \in Schedule, open'[t] # Null
          PROVE  /\ schedules'[t] # Null =>
                      open'[t].row.generation = schedules'[t].generation + 1
                 /\ open'[t].base # Null => open'[t].base = schedules'[t]
      BY <3>1, <3>2, <3>4, <3>5 DEF mutate_schedule, OpenInv, TypeOK
    <3> QED
      BY <3>3, <3>5 DEF OpenInv
  <2>4. ASSUME NEW s \in Schedule, commit(s) PROVE SeenInv' /\ OpenInv'
    <3>1. OpenInv'
      BY <2>4 DEF commit, OpenInv, TypeOK
    <3>2. ASSUME NEW t \in Schedule, NEW c \in Client, seen'[c][t] # Null
          PROVE  /\ schedules'[t] # Null
                 /\ seen'[c][t].generation <= schedules'[t].generation
                 /\ seen'[c][t].generation = schedules'[t].generation =>
                      seen'[c][t] = schedules'[t]
      <4>1. CASE t # s
        BY <2>4, <3>2, <4>1 DEF commit, SeenInv, TypeOK
      <4>2. CASE t = s
        <5>1. /\ schedules[s] # Null
              /\ seen[c][s].generation <= schedules[s].generation
              /\ open[s].row.generation = schedules[s].generation + 1
          BY <2>4, <3>2, <4>2 DEF commit, SeenInv, OpenInv
        <5>2. schedules'[s] = open[s].row /\ open[s].row \in ScheduleRow /\ Null \notin ScheduleRow
          BY <2>4, NullAssumption DEF commit, TypeOK, Mutation
        <5>3. seen[c][s].generation \in Nat /\ schedules[s].generation \in Nat
          BY <2>4, <3>2, <4>2, <5>1 DEF commit, TypeOK, ScheduleRow
        <5> QED
          BY <2>4, <4>2, <5>1, <5>2, <5>3 DEF commit
      <4> QED
        BY <4>1, <4>2
    <3> QED
      BY <3>1, <3>2 DEF SeenInv
  <2>5. ASSUME NEW s \in Schedule, rollback(s) PROVE SeenInv' /\ OpenInv'
    BY <2>5 DEF rollback, SeenInv, OpenInv, TypeOK
  <2>6. ASSUME NEW s \in Schedule, NEW c \in Client, get_schedule(c, s)
        PROVE SeenInv' /\ OpenInv'
    BY <2>6 DEF get_schedule, SeenInv, OpenInv, TypeOK, ScheduleRow
  <2> QED
    BY <2>1, <2>2, <2>3, <2>4, <2>5, <2>6
    DEF Next, Tick, begin_listing, ListSchedules, vars
<1>3. Inv => ReplacesWhatWasRead
  BY DEF OpenInv, ReplacesWhatWasRead
<1> QED
  BY <1>1, <1>2, <1>3, TypeCorrect, PTL DEF Spec

-----------------------------------------------------------------------------
(* Archiving *)

(* An inactive row has no next fire.                                        *)
Quiet(row) == row.state # "ACTIVE" => ~row.next

(* Committed and open rows are quiet, and an open mutation of an archived   *)
(* schedule archives it again.                                              *)
ArchiveInv ==
  \A s \in Schedule :
    /\ schedules[s] # Null => Quiet(schedules[s])
    /\ open[s] # Null =>
         /\ Quiet(open[s].row)
         /\ schedules[s] # Null /\ schedules[s].state = "ARCHIVED" =>
              open[s].row.state = "ARCHIVED" /\ open[s].row.spec = schedules[s].spec

(* ArchivedForGood for every number of callers and schedules.               *)
THEOREM ArchivingIsFinal == Spec => ArchivedForGood
<1>1. Init => ArchiveInv
  BY DEF Init, ArchiveInv
<1>2. TypeOK /\ ArchiveInv /\ [Next]_vars => ArchiveInv'
  <2> SUFFICES ASSUME TypeOK, ArchiveInv, [Next]_vars PROVE ArchiveInv'
    OBVIOUS
  <2>1. CASE UNCHANGED <<schedules, open>>
    BY <2>1 DEF ArchiveInv
  <2>2. ASSUME NEW s \in Schedule, Upsert(s) PROVE ArchiveInv'
    <3>1. PICK req \in Upserts, base \in Bases(s) : upsert_schedule(s, req, base)
      BY <2>2 DEF Upsert
    <3>2. /\ Quiet(upserted_row(schedules[s], req))
          /\ schedules[s] # Null => schedules[s].state # "ARCHIVED"
      BY <3>1 DEF upsert_schedule, validateNextFire, upserted_row, Quiet
    <3> QED
      BY <3>1, <3>2 DEF upsert_schedule, ArchiveInv, TypeOK
  <2>3. ASSUME NEW s \in Schedule, Mutate(s) PROVE ArchiveInv'
    <3>1. PICK req \in Changes, base \in Bases(s) : mutate_schedule(s, req, base)
      BY <2>3 DEF Mutate
    <3>2. /\ mutated_row(schedules[s], req).state = req.state
          /\ mutated_row(schedules[s], req).next = req.next
          /\ mutated_row(schedules[s], req).spec = schedules[s].spec
      BY <3>1 DEF mutated_row, mutate_schedule, TypeOK, ScheduleRow
    <3>3. /\ Quiet(mutated_row(schedules[s], req))
          /\ schedules[s].state = "ARCHIVED" => req.state = "ARCHIVED"
      BY <3>1, <3>2 DEF mutate_schedule, validateNextFire, state_change_allowed, Quiet
    <3> QED
      BY <3>1, <3>2, <3>3 DEF mutate_schedule, ArchiveInv, TypeOK
  <2>4. ASSUME NEW s \in Schedule, commit(s) PROVE ArchiveInv'
    BY <2>4 DEF commit, ArchiveInv, TypeOK
  <2>5. ASSUME NEW s \in Schedule, rollback(s) PROVE ArchiveInv'
    BY <2>5 DEF rollback, ArchiveInv, TypeOK
  <2> QED
    BY <2>1, <2>2, <2>3, <2>4, <2>5
    DEF Next, Tick, begin_listing, ListSchedules, get_schedule, vars
<1> DEFINE Final ==
      \A s \in Schedule :
        schedules[s] # Null /\ schedules[s].state = "ARCHIVED" =>
          /\ schedules'[s].state = "ARCHIVED" /\ ~schedules'[s].next
          /\ schedules'[s].spec = schedules[s].spec
<1>3. TypeOK /\ ArchiveInv /\ [Next]_vars => [Final]_vars
  <2> SUFFICES ASSUME TypeOK, ArchiveInv, [Next]_vars, NEW s \in Schedule,
                      schedules[s] # Null, schedules[s].state = "ARCHIVED"
               PROVE  /\ schedules'[s].state = "ARCHIVED" /\ ~schedules'[s].next
                      /\ schedules'[s].spec = schedules[s].spec
    OBVIOUS
  <2>1. CASE schedules'[s] = schedules[s]
    BY <2>1 DEF ArchiveInv, Quiet
  <2>2. ASSUME NEW t \in Schedule, commit(t)
        PROVE  schedules'[s] = schedules[s] \/ (open[s] # Null /\ schedules'[s] = open[s].row)
    BY <2>2 DEF commit, TypeOK
  <2>3. CASE open[s] # Null /\ schedules'[s] = open[s].row
    BY <2>3 DEF ArchiveInv, Quiet
  <2> QED
    BY <2>1, <2>2, <2>3
    DEF Next, Tick, begin_listing, ListSchedules, get_schedule, rollback, Upsert, Mutate,
        upsert_schedule, mutate_schedule, vars
<1>4. Spec => [][Final]_vars
  BY <1>1, <1>2, <1>3, TypeCorrect, PTL DEF Spec
<1> QED
  BY <1>4 DEF ArchivedForGood

-----------------------------------------------------------------------------
(* Listing *)

(* updated_at never runs ahead of the clock, and an open mutation's is no   *)
(* older than that of the row it replaces.                                  *)
TimeInv ==
  \A s \in Schedule :
    /\ schedules[s] # Null => schedules[s].updated_at <= now
    /\ open[s] # Null /\ schedules[s] # Null =>
         schedules[s].updated_at <= open[s].row.updated_at
    /\ open[s] # Null => open[s].row.updated_at <= now

(* While a listing runs, what it has returned lies at or above its cursor,  *)
(* and what has not changed since it began was returned or lies below it.   *)
ListInv ==
  /\ \A s \in Schedule : listing.returned[s] \in {0, 1}
  /\ listing.phase = "idle" => \A s \in listing.untouched : listing.returned[s] = 1
  /\ listing.phase = "paging" =>
       /\ listing.untouched \subseteq listed
       /\ listing.cursor = Null => \A s \in Schedule : listing.returned[s] = 0
       /\ listing.cursor # Null =>
            \A s \in Schedule : listing.returned[s] = 1 =>
              schedules[s] # Null /\ ~before(s, listing.cursor)
       /\ \A s \in listing.untouched : listing.returned[s] = 1 \/ below_cursor(s)

(* The clock and the rows keep to TimeInv.                                  *)
LEMMA TimeOrder == Spec => []TimeInv
<1>1. Init => TimeInv
  BY DEF Init, TimeInv
<1>2. TypeOK /\ TimeInv /\ [Next]_vars => TimeInv'
  <2> SUFFICES ASSUME TypeOK, TimeInv, [Next]_vars PROVE TimeInv'
    OBVIOUS
  <2> USE ScheduleAssumption
  <2>1. CASE UNCHANGED <<now, schedules, open>>
    BY <2>1 DEF TimeInv
  <2>2. CASE Tick
    BY <2>2 DEF Tick, TimeInv, TypeOK, ScheduleRow, Mutation
  <2>3. ASSUME NEW s \in Schedule, Upsert(s) PROVE TimeInv'
    <3>1. PICK req \in Upserts, base \in Bases(s) : upsert_schedule(s, req, base)
      BY <2>3 DEF Upsert
    <3>2. upserted_row(schedules[s], req).updated_at = now
      BY DEF upserted_row
    <3> QED
      BY <3>1, <3>2 DEF upsert_schedule, TimeInv, TypeOK
  <2>4. ASSUME NEW s \in Schedule, Mutate(s) PROVE TimeInv'
    <3>1. PICK req \in Changes, base \in Bases(s) : mutate_schedule(s, req, base)
      BY <2>4 DEF Mutate
    <3>2. mutated_row(schedules[s], req).updated_at = now
      BY <3>1 DEF mutated_row, mutate_schedule, TypeOK, ScheduleRow
    <3> QED
      BY <3>1, <3>2 DEF mutate_schedule, TimeInv, TypeOK
  <2>5. ASSUME NEW s \in Schedule, commit(s) PROVE TimeInv'
    BY <2>5 DEF commit, TimeInv, TypeOK
  <2>6. ASSUME NEW s \in Schedule, rollback(s) PROVE TimeInv'
    BY <2>6 DEF rollback, TimeInv, TypeOK
  <2> QED
    BY <2>1, <2>2, <2>3, <2>4, <2>5, <2>6
    DEF Next, begin_listing, ListSchedules, get_schedule, vars
<1> QED
  BY <1>1, <1>2, TypeCorrect, PTL DEF Spec

(* One page more: what it adds lies between the new cursor and the old one. *)
LEMMA ListStep ==
  ASSUME TypeOK, ListInv, ListSchedules
  PROVE  ListInv'
<1> USE ScheduleAssumption
<1> DEFINE end == eligible = page
           new(s) == IF s \in page THEN listing.returned[s] + 1 ELSE listing.returned[s]
<1>1. /\ listing.phase = "paging"
      /\ schedules' = schedules
      /\ listing'.returned = [s \in Schedule |-> new(s)]
      /\ listing'.cursor = IF end THEN Null ELSE position(last_of_page)
      /\ listing'.phase = IF end THEN "idle" ELSE "paging"
      /\ listing'.untouched = listing.untouched
  BY DEF ListSchedules, TypeOK, Listing
<1>2. /\ page \subseteq eligible /\ eligible \subseteq listed /\ listed \subseteq Schedule
      /\ \A s \in listed : schedules[s] # Null
  BY DEF page, eligible, listed
<1>3. \A s \in page : listing.returned[s] = 0
  BY <1>1, <1>2 DEF ListInv, eligible, below_cursor
<1>4. \A s \in Schedule : /\ listing'.returned[s] \in {0, 1}
                          /\ listing'.returned[s] = 1 <=> s \in page \/ listing.returned[s] = 1
  BY <1>1, <1>2, <1>3 DEF ListInv
<1>5. listing.untouched \subseteq listed
  BY <1>1 DEF ListInv
<1>6. \A s \in listing.untouched : listing.returned[s] = 1 \/ s \in eligible
  BY <1>1, <1>5 DEF ListInv, eligible
<1>7. CASE end
  BY <1>1, <1>2, <1>4, <1>5, <1>6, <1>7 DEF ListInv
<1>8. CASE ~end
  <2> DEFINE l == last_of_page
  <2>1. /\ l \in page /\ l \in listed
        /\ \A t \in page \ {l} : before(l, position(t))
        /\ \A s \in eligible \ page : before(s, position(l))
    BY <1>2, <1>8, PageFacts
  <2>2. position(l) \in Cursor
    BY <2>1, PositionType
  <2>3. listing'.cursor = position(l) /\ listing'.phase = "paging"
    BY <1>1, <1>8
  <2>4. ASSUME NEW s \in Schedule, listing'.returned[s] = 1
        PROVE  schedules[s] # Null /\ ~before(s, position(l))
    <3>1. CASE s \in page
      BY <1>2, <2>1, <3>1, TotalOrder
    <3>2. CASE s \notin page
      <4>1. listing.returned[s] = 1 /\ listing.cursor # Null
        BY <1>1, <1>4, <2>4, <3>2 DEF ListInv
      <4>2. schedules[s] # Null /\ ~before(s, listing.cursor)
        BY <1>1, <4>1 DEF ListInv
      <4>3. before(l, listing.cursor)
        BY <1>2, <2>1, <4>1 DEF eligible, below_cursor
      <4>4. /\ s \in Nat /\ l \in Nat /\ schedules[s].updated_at \in Nat
            /\ schedules[l].updated_at \in Nat
            /\ listing.cursor.updated_at \in Nat /\ listing.cursor.schedule \in Nat
        BY <1>2, <2>1, <4>1, <4>2 DEF TypeOK, Schedule, ScheduleRow, Listing, Cursor
      <4> QED
        BY <4>2, <4>3, <4>4 DEF before, position
    <3> QED
      BY <3>1, <3>2
  <2>5. ASSUME NEW s \in listing.untouched
        PROVE  listing'.returned[s] = 1 \/ before(s, position(l))
    BY <1>2, <1>4, <1>5, <1>6, <2>1
  <2>6. listing'.untouched \subseteq listed'
    BY <1>1, <1>5 DEF listed
  <2>7. \A s, k : before(s, k)' <=> before(s, k')
    BY <1>1 DEF before
  <2>8. listing'.cursor # Null
    BY <2>2, <2>3, NullAssumption
  <2> QED
    BY <1>1, <1>4, <2>3, <2>4, <2>5, <2>6, <2>7, <2>8 DEF ListInv, below_cursor
<1> QED
  BY <1>7, <1>8

(* A commit moves its row up, never below the cursor, and takes it out of   *)
(* the unchanged ones.                                                      *)
LEMMA CommitStep ==
  ASSUME TypeOK, TimeInv, ListInv, NEW s \in Schedule, commit(s)
  PROVE  ListInv'
<1> USE ScheduleAssumption
<1>1. /\ listing'.returned = listing.returned /\ listing'.cursor = listing.cursor
      /\ listing'.phase = listing.phase /\ listing'.untouched = listing.untouched \ {s}
  BY DEF commit, TypeOK, Listing
<1>2. /\ schedules' = [schedules EXCEPT ![s] = open[s].row]
      /\ open[s].row \in ScheduleRow
  BY DEF commit, TypeOK, Mutation
<1>3. \A t \in Schedule \ {s} : schedules'[t] = schedules[t]
  BY <1>2 DEF TypeOK
<1>4. schedules'[s] = open[s].row /\ schedules'[s] # Null
  BY <1>2, NullAssumption DEF TypeOK
<1>5. ASSUME listing.phase = "paging", listing.cursor # Null, listing.returned[s] = 1
      PROVE  ~before(s, listing.cursor)'
  <2>1. schedules[s] # Null /\ ~before(s, listing.cursor)
    BY <1>5 DEF ListInv
  <2>2. schedules[s].updated_at <= open[s].row.updated_at
    BY <2>1 DEF TimeInv, commit
  <2>3. /\ schedules[s].updated_at \in Nat /\ open[s].row.updated_at \in Nat /\ s \in Nat
        /\ listing.cursor.updated_at \in Nat /\ listing.cursor.schedule \in Nat
    BY <1>2, <1>5, <2>1 DEF TypeOK, ScheduleRow, Listing, Cursor, Schedule
  <2> QED
    BY <1>1, <1>4, <2>1, <2>2, <2>3 DEF before
<1>6. \A t \in Schedule \ {s} : before(t, listing.cursor)' <=> before(t, listing.cursor)
  BY <1>1, <1>3 DEF before
<1>7. listing.phase = "paging" => listing'.untouched \subseteq listed'
  BY <1>1, <1>3 DEF ListInv, listed
<1>8. listing.untouched \subseteq Schedule
  BY DEF TypeOK, Listing
<1> QED
  BY <1>1, <1>3, <1>4, <1>5, <1>6, <1>7, <1>8 DEF ListInv, below_cursor

(* ListingExact for every number of schedules and every page size.          *)
THEOREM ListingIsExact == Spec => []ListingExact
<1>1. Init => ListInv
  BY DEF Init, ListInv, NoneReturned
<1>2. TypeOK /\ TimeInv /\ ListInv /\ [Next]_vars => ListInv'
  <2> SUFFICES ASSUME TypeOK, TimeInv, ListInv, [Next]_vars PROVE ListInv'
    OBVIOUS
  <2>1. CASE UNCHANGED <<schedules, listing>>
    BY <2>1 DEF ListInv, listed, below_cursor, before
  <2>2. CASE begin_listing
    <3>1. listed' = listed /\ listed \subseteq Schedule
      BY <2>2 DEF begin_listing, listed
    <3> QED
      BY <2>2, <3>1 DEF begin_listing, ListInv, NoneReturned, below_cursor
  <2>3. CASE ListSchedules
    BY <2>3, ListStep
  <2>4. ASSUME NEW s \in Schedule, commit(s) PROVE ListInv'
    BY <2>4, CommitStep
  <2> QED
    BY <2>1, <2>2, <2>3, <2>4
    DEF Next, Tick, Upsert, Mutate, upsert_schedule, mutate_schedule, rollback, get_schedule, vars
<1>3. TypeOK /\ ListInv => ListingExact
  BY DEF TypeOK, Listing, ListInv, ListingExact
<1> QED
  BY <1>1, <1>2, <1>3, TypeCorrect, TimeOrder, PTL DEF Spec

=============================================================================
