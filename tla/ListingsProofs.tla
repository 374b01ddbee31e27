--------------------------- MODULE ListingsProofs ---------------------------
(***************************************************************************)
(* Proofs about Listings, for every set of job keys, goals, filters, page  *)
(* sizes and status changes: the type invariant, that an occurrence        *)
(* becomes one job, and that a listing is exact.                           *)
(***************************************************************************)
EXTENDS Listings, Pages

-----------------------------------------------------------------------------
(* The rows of a listing and their order *)

(* Finitely many jobs have been submitted.                                  *)
FiniteRows == IsFiniteSet({k \in JobKey : rows[k] # Null})

(* A row that a listing of this kind can show.                              *)
Shown(kind, k) == rows[k] # Null /\ (kind = "runs" => ScheduledAt[k] # Null)

(* Where a shown row stands.                                                *)
LEMMA PlaceType ==
  ASSUME TypeOK, NEW kind \in Kind, NEW k \in JobKey, Shown(kind, k)
  PROVE  time_of(kind, k) \in 0 .. MaxTime /\ k[1] \in Nat /\ k[2] \in Nat
<1>1. rows[k] \in JobView /\ ScheduledAt[k] \in (0 .. MaxTime) \cup {Null}
  BY ListingAssumption DEF TypeOK, Shown
<1>2. k[1] \in Nat /\ k[2] \in Nat
  BY ListingAssumption
<1> QED
  BY <1>1, <1>2 DEF Shown, Kind, time_of, row_time, JobView

(* Two keys are the same if their parts are.                                *)
LEMMA KeyParts ==
  ASSUME NEW j \in JobKey, NEW k \in JobKey, j[1] = k[1], j[2] = k[2]
  PROVE  j = k
  BY ListingAssumption

(* A row is below the position (t, k), and another is below that row.       *)
LEMMA BelowTransitive ==
  ASSUME TypeOK, NEW kind \in Kind, NEW i \in JobKey, NEW j \in JobKey, NEW k \in JobKey,
         NEW t \in Nat, Shown(kind, i), Shown(kind, j),
         below(kind, i, time_of(kind, j), j), below(kind, j, t, k)
  PROVE  below(kind, i, t, k)
<1>1. /\ time_of(kind, i) \in Nat /\ time_of(kind, j) \in Nat
      /\ i[1] \in Nat /\ i[2] \in Nat /\ j[1] \in Nat /\ j[2] \in Nat
      /\ k[1] \in Nat /\ k[2] \in Nat
  BY PlaceType, ListingAssumption
<1> QED
  BY <1>1 DEF below, key_less

(* The order of the shown rows, as a set of pairs.                          *)
Order(kind, S) == {p \in S \X S : below(kind, p[2], time_of(kind, p[1]), p[1])}

(* It is a strict order.                                                    *)
LEMMA OrderOrders ==
  ASSUME TypeOK, NEW kind \in Kind, NEW S, S \subseteq JobKey, \A k \in S : Shown(kind, k)
  PROVE  Orders(Order(kind, S), S)
<1>1. \A k \in S : time_of(kind, k) \in Nat /\ k[1] \in Nat /\ k[2] \in Nat
  BY PlaceType, ListingAssumption
<1>2. \A j, k \in S : <<j, k>> \in Order(kind, S) <=> below(kind, k, time_of(kind, j), j)
  BY DEF Order
<1>3. \A s \in S : <<s, s>> \notin Order(kind, S)
  BY <1>1, <1>2 DEF below, key_less
<1>4. ASSUME NEW s \in S, NEW t \in S, s # t
      PROVE  <<s, t>> \in Order(kind, S) \/ <<t, s>> \in Order(kind, S)
  <2>1. s[1] # t[1] \/ s[2] # t[2]
    BY <1>4, KeyParts
  <2> QED
    BY <1>1, <1>2, <2>1 DEF below, key_less
<1>5. ASSUME NEW s \in S, NEW t \in S, NEW u \in S,
             <<s, t>> \in Order(kind, S), <<t, u>> \in Order(kind, S)
      PROVE  <<s, u>> \in Order(kind, S)
  <2>1. below(kind, u, time_of(kind, s), s)
    BY <1>1, <1>2, <1>5, BelowTransitive
  <2> QED
    BY <1>2, <2>1
<1> QED
  BY <1>3, <1>4, <1>5 DEF Orders

(* What a page is taken from.                                               *)
LEMMA EligibleRows ==
  ASSUME TypeOK, FiniteRows, NEW kind, NEW opts
  PROVE  /\ eligible(kind, opts) \subseteq JobKey /\ IsFiniteSet(eligible(kind, opts))
         /\ \A k \in eligible(kind, opts) : Shown(kind, k)
         /\ page(kind, opts) \subseteq eligible(kind, opts)
<1>1. /\ eligible(kind, opts) \subseteq JobKey
      /\ \A k \in eligible(kind, opts) : Shown(kind, k)
  BY DEF eligible, matches, Shown
<1>2. eligible(kind, opts) \in SUBSET {k \in JobKey : rows[k] # Null}
  BY <1>1 DEF Shown
<1>3. IsFiniteSet(eligible(kind, opts))
  BY <1>2, FS_Subset DEF FiniteRows
<1> QED
  BY <1>1, <1>3 DEF page

(* If something is left over, the page has a last row, and what is left     *)
(* over lies below it.                                                      *)
LEMMA PageFacts ==
  ASSUME TypeOK, FiniteRows, NEW kind \in Kind, NEW opts \in Options,
         eligible(kind, opts) # page(kind, opts)
  PROVE  LET last == last_of_page(kind, opts) IN
         /\ last \in page(kind, opts)
         /\ \A j \in page(kind, opts) \ {last} : below(kind, last, time_of(kind, j), j)
         /\ \A k \in eligible(kind, opts) \ page(kind, opts) :
              below(kind, k, time_of(kind, last), last)
<1> DEFINE S == eligible(kind, opts)
           P == page(kind, opts)
           R == Order(kind, S)
           size == page_size(opts)
<1>1. /\ S \subseteq JobKey /\ IsFiniteSet(S) /\ \A k \in S : Shown(kind, k)
      /\ P \subseteq S
  BY EligibleRows
<1>2. Orders(R, S)
  BY <1>1, OrderOrders
<1>3. size \in Nat \ {0}
  BY DEF Options, page_size
<1>4. \A k \in S : above(kind, k, S) = Ahead(R, S, k)
  BY DEF above, Ahead, Order
<1>5. P = {k \in S : Cardinality(Ahead(R, S, k)) < size}
  BY <1>4 DEF page
<1>6. \A j, k \in S : <<j, k>> \in R => below(kind, k, time_of(kind, j), j)
  BY DEF Order
<1>7. \A j, k \in S : j # k /\ below(kind, k, time_of(kind, j), j) => <<j, k>> \in R
  BY DEF Order
<1>8. last_of_page(kind, opts) = CHOOSE k \in P : \A j \in P \ {k} : below(kind, k, time_of(kind, j), j)
  BY DEF last_of_page
<1>9. P # S
  OBVIOUS
<1> HIDE DEF S, P, R, size
<1>10. PICK l \in P : /\ \A t \in P \ {l} : <<t, l>> \in R
                      /\ \A s \in S \ P : <<l, s>> \in R
  BY <1>1, <1>2, <1>3, <1>5, <1>9, PageOfOrder
<1> DEFINE last == last_of_page(kind, opts)
<1>11. last \in P /\ \A j \in P \ {last} : below(kind, last, time_of(kind, j), j)
  <2>1. \A j \in P \ {l} : below(kind, l, time_of(kind, j), j)
    BY <1>1, <1>6, <1>10
  <2> QED
    BY <1>8, <2>1
<1> HIDE DEF last
<1>12. last = l
  <2>1. ASSUME last # l PROVE FALSE
    <3>1. <<last, l>> \in R /\ <<l, last>> \in R
      BY <1>1, <1>7, <1>10, <1>11, <2>1
    <3> QED
      BY <1>1, <1>2, <1>11, <3>1 DEF Orders
  <2> QED
    BY <2>1
<1>13. \A k \in S \ P : below(kind, k, time_of(kind, last), last)
  BY <1>1, <1>6, <1>10, <1>12
<1> QED
  BY <1>11, <1>13 DEF S, P, last

-----------------------------------------------------------------------------
(* The type invariant *)

TypeInv == TypeOK /\ FiniteRows

(* A row is changed otherwise than by the commit of its submission.         *)
Rewrites(k, row) ==
  /\ rows[k] # Null /\ row.created_at = rows[k].created_at
  /\ rows' = [rows EXCEPT ![k] = row]
  /\ update_listing
  /\ UNCHANGED <<now, opened>>

(* Every change keeps the row's type and the time it was created at.        *)
LEMMA Rewriting ==
  ASSUME TypeOK, NEW k \in JobKey,
         \/ \E status \in Status : change_status(k, status)
         \/ delete(k) \/ \E g \in Goal : join_goal(k, g)
  PROVE  \E row \in JobView : Rewrites(k, row)
<1>1. ASSUME rows[k] # Null PROVE rows[k] \in JobView
  BY <1>1 DEF TypeOK
<1>2. ASSUME NEW status \in Status, change_status(k, status)
      PROVE  \E row \in JobView : Rewrites(k, row)
  <2> DEFINE row == [rows[k] EXCEPT !.status = status]
  <2>1. row \in JobView /\ row.created_at = rows[k].created_at
    BY <1>1, <1>2 DEF change_status, JobView
  <2>2. rows' = [rows EXCEPT ![k] = row] /\ rows[k] # Null
    BY <1>2 DEF change_status
  <2> HIDE DEF row
  <2> QED
    BY <1>2, <2>1, <2>2 DEF change_status, Rewrites
<1>3. ASSUME delete(k) PROVE \E row \in JobView : Rewrites(k, row)
  <2> DEFINE status == IF rows[k].status \in LiveStatus THEN "CANCELLED" ELSE rows[k].status
             row == [rows[k] EXCEPT !.hidden = TRUE, !.status = status]
  <2>1. rows[k] # Null /\ rows[k] \in JobView
    BY <1>1, <1>3 DEF delete
  <2>2. status \in Status
    BY <2>1 DEF JobView, Status
  <2>3. deleted_row(rows[k]) = row
    BY DEF deleted_row
  <2> HIDE DEF status
  <2>4. row \in JobView /\ row.created_at = rows[k].created_at
    BY <2>1, <2>2 DEF JobView
  <2>5. rows' = [rows EXCEPT ![k] = row]
    BY <1>3, <2>3 DEF delete
  <2> HIDE DEF row
  <2> QED
    BY <1>3, <2>1, <2>4, <2>5 DEF delete, Rewrites
<1>4. ASSUME NEW g \in Goal, join_goal(k, g) PROVE \E row \in JobView : Rewrites(k, row)
  <2> DEFINE row == [rows[k] EXCEPT !.goals = @ \cup {g}]
  <2>1. row \in JobView /\ row.created_at = rows[k].created_at
    BY <1>1, <1>4 DEF join_goal, JobView
  <2>2. rows' = [rows EXCEPT ![k] = row] /\ rows[k] # Null
    BY <1>4 DEF join_goal
  <2> HIDE DEF row
  <2> QED
    BY <1>4, <2>1, <2>2 DEF join_goal, Rewrites
<1> QED
  BY <1>2, <1>3, <1>4

(* What update_listing does to the listing.                                 *)
LEMMA UpdatedListing ==
  ASSUME TypeOK, update_listing
  PROVE  /\ listing' \in Listing
         /\ listing'.kind = listing.kind /\ listing'.phase = listing.phase
         /\ listing'.opts = listing.opts /\ listing'.at = listing.at
         /\ listing'.key = listing.key /\ listing'.returned = listing.returned
         /\ listing'.lasting =
              IF listing.phase = "idle" THEN listing.lasting
              ELSE {k \in listing.lasting :
                      matches(listing.kind, k, rows'[k], listing.opts)}
<1> DEFINE rest == {k \in listing.lasting : matches(listing.kind, k, rows'[k], listing.opts)}
<1>1. rest \in SUBSET JobKey /\ listing \in Listing
  BY DEF TypeOK, Listing
<1>2. listing' = IF listing.phase = "idle" THEN listing ELSE [listing EXCEPT !.lasting = rest]
  BY DEF update_listing
<1> HIDE DEF rest
<1>3. CASE listing.phase = "idle"
  BY <1>1, <1>2, <1>3
<1>4. CASE listing.phase # "idle"
  <2>1. listing' = [listing EXCEPT !.lasting = rest]
    BY <1>2, <1>4
  <2>2. /\ listing' \in Listing
        /\ listing'.kind = listing.kind /\ listing'.phase = listing.phase
        /\ listing'.opts = listing.opts /\ listing'.at = listing.at
        /\ listing'.key = listing.key /\ listing'.returned = listing.returned
        /\ listing'.lasting = rest
    BY <1>1, <2>1 DEF Listing
  <2> QED
    BY <1>4, <2>2 DEF rest
<1> QED
  BY <1>3, <1>4

(* A page taken: what it makes of the listing.                              *)
Paged(kind, opts) ==
  LET more == eligible(kind, opts) # page(kind, opts)
      last == last_of_page(kind, opts)
  IN /\ listing.phase = "paging" /\ listing.kind = kind
     /\ fingerprint(opts) = fingerprint(listing.opts)
     /\ listing' \in Listing
     /\ listing'.kind = kind /\ listing'.opts = listing.opts
     /\ listing'.lasting = listing.lasting
     /\ listing'.returned = [k \in JobKey |-> IF k \in page(kind, opts)
                                              THEN listing.returned[k] + 1
                                              ELSE listing.returned[k]]
     /\ listing'.at = IF more THEN time_of(kind, last) ELSE 0
     /\ listing'.key = IF more THEN last ELSE Null
     /\ listing'.phase = IF more THEN "paging" ELSE "idle"
     /\ UNCHANGED <<now, rows, opened>>

(* It is well typed, since there is a last row if another page follows.     *)
LEMMA NextPage ==
  ASSUME TypeOK, FiniteRows, NEW kind \in Kind, NEW opts \in Options, next_page(kind, opts)
  PROVE  Paged(kind, opts)
<1> DEFINE more == eligible(kind, opts) # page(kind, opts)
           last == last_of_page(kind, opts)
           count == [k \in JobKey |-> IF k \in page(kind, opts) THEN listing.returned[k] + 1
                                      ELSE listing.returned[k]]
           at == IF more THEN time_of(kind, last) ELSE 0
           key == IF more THEN last ELSE Null
           phase == IF more THEN "paging" ELSE "idle"
<1>1. listing' = [listing EXCEPT !.returned = count, !.at = at, !.key = key, !.phase = phase]
  BY Zenon DEF next_page
<1>2. listing \in Listing /\ count \in [JobKey -> Nat]
  BY DEF TypeOK, Listing
<1>3. at \in 0 .. MaxTime /\ key \in JobKey \cup {Null} /\ phase \in {"idle", "paging"}
  <2>1. CASE more
    <3>1. last \in JobKey /\ Shown(kind, last)
      BY <2>1, PageFacts, EligibleRows
    <3>2. time_of(kind, last) \in 0 .. MaxTime
      BY <3>1, PlaceType
    <3> QED
      BY <2>1, <3>1, <3>2
  <2>2. CASE ~more
    BY <2>2, ListingAssumption
  <2> QED
    BY <2>1, <2>2
<1>4. /\ listing.phase = "paging" /\ listing.kind = kind
      /\ fingerprint(opts) = fingerprint(listing.opts)
      /\ UNCHANGED <<now, rows, opened>>
  BY DEF next_page
<1> HIDE DEF count, at, key, phase
<1>5. /\ listing' \in Listing
      /\ listing'.kind = listing.kind /\ listing'.opts = listing.opts
      /\ listing'.lasting = listing.lasting
      /\ listing'.returned = count /\ listing'.at = at /\ listing'.key = key
      /\ listing'.phase = phase
  BY <1>1, <1>2, <1>3 DEF Listing
<1> QED
  BY <1>4, <1>5 DEF Paged, count, at, key, phase

(* A listing begun.                                                         *)
LEMMA BegunListing ==
  ASSUME TypeOK, NEW kind \in Kind, NEW opts \in Options, begin_listing(kind, opts)
  PROVE  /\ listing' \in Listing /\ listing'.kind = kind /\ listing'.opts = opts
         /\ listing'.phase = "paging" /\ listing'.key = Null
         /\ listing'.returned = [k \in JobKey |-> 0]
         /\ listing'.lasting = {k \in JobKey : matches(kind, k, rows[k], opts)}
         /\ UNCHANGED <<now, rows, opened>>
<1> DEFINE S == {k \in JobKey : matches(kind, k, rows[k], opts)}
<1>1. listing' = [kind |-> kind, phase |-> "paging", opts |-> opts, at |-> 0, key |-> Null,
                  returned |-> [k \in JobKey |-> 0], lasting |-> S]
  BY DEF begin_listing, NoneReturned
<1>2. S \in SUBSET JobKey /\ 0 \in 0 .. MaxTime /\ [k \in JobKey |-> 0] \in [JobKey -> Nat]
  BY ListingAssumption
<1> HIDE DEF S
<1>3. /\ listing' \in Listing /\ listing'.kind = kind /\ listing'.opts = opts
      /\ listing'.phase = "paging" /\ listing'.key = Null
      /\ listing'.returned = [k \in JobKey |-> 0] /\ listing'.lasting = S
  BY <1>1, <1>2 DEF Listing
<1> QED
  BY <1>3 DEF S, begin_listing

(* The kinds of steps.                                                      *)
LEMMA StepKinds ==
  ASSUME TypeOK, FiniteRows, [Next]_vars
  PROVE  \/ Tick \/ UNCHANGED vars
         \/ \E kind \in Kind, opts \in Options :
              begin_listing(kind, opts) \/ Paged(kind, opts)
         \/ \E t \in Tenant : commit(t) \/ rollback(t)
         \/ \E k \in JobKey, goals \in SUBSET Goal : submit(k, goals)
         \/ \E k \in JobKey : \E row \in JobView : Rewrites(k, row)
<1>1. CASE ListJobs \/ ListScheduleRuns
  <2>1. PICK kind \in Kind, opts \in Options : begin_listing(kind, opts) \/ next_page(kind, opts)
    BY <1>1, ListingAssumption DEF ListJobs, ListScheduleRuns, Kind
  <2> QED
    BY <2>1, NextPage
<1>2. ASSUME NEW k \in JobKey,
             \/ \E status \in Status : change_status(k, status)
             \/ delete(k) \/ \E g \in Goal : join_goal(k, g)
      PROVE  \E row \in JobView : Rewrites(k, row)
  BY <1>2, Rewriting
<1> QED
  BY <1>1, <1>2 DEF Next

(* Every reachable state is well typed and has finitely many rows.          *)
LEMMA TypeInvariance == Spec => []TypeInv
<1>1. Init => TypeInv
  <2> SUFFICES ASSUME Init PROVE TypeInv
    OBVIOUS
  <2>1. TypeOK
    BY ListingAssumption DEF Init, TypeOK, Listing, NoneReturned, Kind
  <2>2. {k \in JobKey : rows[k] # Null} = {}
    BY DEF Init
  <2> QED
    BY <2>1, <2>2, FS_EmptySet DEF TypeInv, FiniteRows
<1>2. TypeInv /\ [Next]_vars => TypeInv'
  <2> SUFFICES ASSUME TypeOK, FiniteRows, [Next]_vars PROVE TypeOK' /\ FiniteRows'
    BY DEF TypeInv
  <2>1. CASE Tick
    BY <2>1, ListingAssumption DEF Tick, TypeOK, FiniteRows
  <2>2. CASE UNCHANGED vars
    BY <2>2 DEF vars, TypeOK, FiniteRows
  <2>3. ASSUME NEW kind \in Kind, NEW opts \in Options,
               begin_listing(kind, opts) \/ Paged(kind, opts)
        PROVE  TypeOK' /\ FiniteRows'
    <3>1. listing' \in Listing /\ UNCHANGED <<now, rows, opened>>
      BY <2>3, BegunListing DEF Paged
    <3> QED
      BY <3>1 DEF TypeOK, FiniteRows
  <2>4. ASSUME NEW t \in Tenant, commit(t) PROVE TypeOK' /\ FiniteRows'
    <3> DEFINE k == opened[t].key
               old == {j \in JobKey : rows[j] # Null}
    <3>1. k \in JobKey /\ opened[t].row \in JobView
      BY <2>4 DEF commit, TypeOK
    <3>2. /\ rows' = [rows EXCEPT ![k] = opened[t].row]
          /\ opened' = [opened EXCEPT ![t] = Null] /\ now' = now /\ update_listing
      BY <2>4 DEF commit
    <3>3. TypeOK'
      BY <3>1, <3>2, UpdatedListing DEF TypeOK
    <3>4. IsFiniteSet(old \cup {k})
      BY FS_AddElement DEF FiniteRows
    <3>5. {j \in JobKey : rows'[j] # Null} \in SUBSET (old \cup {k})
      BY <3>2 DEF TypeOK
    <3> QED
      BY <3>3, <3>4, <3>5, FS_Subset DEF FiniteRows
  <2>5. ASSUME NEW t \in Tenant, rollback(t) PROVE TypeOK' /\ FiniteRows'
    BY <2>5 DEF rollback, TypeOK, FiniteRows
  <2>6. ASSUME NEW k \in JobKey, NEW goals \in SUBSET Goal, submit(k, goals)
        PROVE  TypeOK' /\ FiniteRows'
    <3> DEFINE row == [created_at |-> now, status |-> "READY", hidden |-> FALSE, goals |-> goals]
    <3>1. row \in JobView
      BY DEF JobView, TypeOK, Status, LiveStatus
    <3>2. opened' = [opened EXCEPT ![k[1]] = [key |-> k, row |-> row]]
      BY <2>6 DEF submit
    <3>3. UNCHANGED <<now, rows, listing>>
      BY <2>6 DEF submit
    <3> HIDE DEF row
    <3>4. opened' \in [Tenant -> [key : JobKey, row : JobView] \cup {Null}]
      BY <3>1, <3>2 DEF TypeOK
    <3> QED
      BY <3>3, <3>4 DEF TypeOK, FiniteRows
  <2>7. ASSUME NEW k \in JobKey, NEW row \in JobView, Rewrites(k, row)
        PROVE  TypeOK' /\ FiniteRows'
    <3>1. /\ rows' = [rows EXCEPT ![k] = row] /\ rows[k] # Null
          /\ UNCHANGED <<now, opened>> /\ listing' \in Listing
      BY <2>7, UpdatedListing DEF Rewrites
    <3>2. TypeOK'
      BY <3>1 DEF TypeOK
    <3>3. {j \in JobKey : rows'[j] # Null} \in SUBSET {j \in JobKey : rows[j] # Null}
      BY <3>1 DEF TypeOK
    <3> QED
      BY <3>2, <3>3, FS_Subset DEF FiniteRows
  <2> QED
    BY <2>1, <2>2, <2>3, <2>4, <2>5, <2>6, <2>7, StepKinds
<1> QED
  BY <1>1, <1>2, PTL DEF Spec

(* Every reachable state is well typed.                                     *)
THEOREM TypeCorrect == Spec => []TypeOK
  BY TypeInvariance, PTL DEF TypeInv

-----------------------------------------------------------------------------
(* Occurrences *)

(* An open submission is of a job that is not there yet, and of an          *)
(* occurrence that no job has.                                              *)
OpenInv ==
  \A t \in Tenant : opened[t] # Null =>
    /\ opened[t].key[1] = t
    /\ rows[opened[t].key] = Null
    /\ occurrence_free(opened[t].key)

OccurrenceInv == OpenInv /\ OneJobPerOccurrence


(* A step that adds no row keeps what open submissions rely on.             *)
LEMMA OccurrencesRest ==
  ASSUME TypeOK, OccurrenceInv, \A j \in JobKey : rows'[j] # Null => rows[j] # Null,
         \A t \in Tenant : opened'[t] \in {opened[t], Null}
  PROVE  OccurrenceInv'
<1>1. \A t \in Tenant : opened[t] # Null => opened[t].key \in JobKey
  BY DEF TypeOK
<1>2. OpenInv'
  <2> SUFFICES ASSUME NEW t \in Tenant, opened'[t] # Null
               PROVE  /\ opened'[t].key[1] = t /\ rows'[opened'[t].key] = Null
                      /\ occurrence_free(opened[t].key)'
    BY DEF OpenInv
  <2>1. opened'[t] = opened[t] /\ opened[t] # Null
    OBVIOUS
  <2>2. /\ opened[t].key[1] = t /\ rows[opened[t].key] = Null
        /\ occurrence_free(opened[t].key)
    BY <2>1 DEF OccurrenceInv, OpenInv
  <2>3. Occurrence[opened[t].key] # Null =>
          \A j \in JobKey : rows'[j] # Null => Occurrence[j] # Occurrence[opened[t].key]
    BY <2>2 DEF occurrence_free
  <2> QED
    BY <1>1, <2>1, <2>2, <2>3 DEF occurrence_free
<1>3. OneJobPerOccurrence'
  BY DEF OccurrenceInv, OneJobPerOccurrence
<1> QED
  BY <1>2, <1>3 DEF OccurrenceInv

(* A submission is opened only if its occurrence is free; the tenant's      *)
(* commits wait for one another, and no other tenant has the schedule.      *)
LEMMA OccurrenceStep ==
  ASSUME TypeOK, FiniteRows, OccurrenceInv, [Next]_vars
  PROVE  OccurrenceInv'
<1>1. CASE Tick \/ UNCHANGED vars
  BY <1>1, OccurrencesRest DEF Tick, vars
<1>2. ASSUME NEW kind \in Kind, NEW opts \in Options,
             begin_listing(kind, opts) \/ Paged(kind, opts)
      PROVE  OccurrenceInv'
  <2>1. UNCHANGED <<rows, opened>>
    BY <1>2, BegunListing DEF Paged
  <2> QED
    BY <2>1, OccurrencesRest
<1>3. ASSUME NEW t \in Tenant, rollback(t) PROVE OccurrenceInv'
  <2>1. rows' = rows /\ \A u \in Tenant : opened'[u] \in {opened[u], Null}
    BY <1>3 DEF rollback, TypeOK
  <2> QED
    BY <2>1, OccurrencesRest
<1>4. ASSUME NEW k \in JobKey, NEW row \in JobView, Rewrites(k, row) PROVE OccurrenceInv'
  <2>1. opened' = opened /\ \A j \in JobKey : rows'[j] # Null => rows[j] # Null
    BY <1>4 DEF Rewrites, TypeOK
  <2> QED
    BY <2>1, OccurrencesRest
<1>5. ASSUME NEW t \in Tenant, commit(t) PROVE OccurrenceInv'
  <2> DEFINE k == opened[t].key
  <2>1. /\ opened[t] # Null /\ opened[t].row \in JobView /\ k \in JobKey
        /\ rows' = [rows EXCEPT ![k] = opened[t].row]
        /\ opened' = [opened EXCEPT ![t] = Null]
    BY <1>5 DEF commit, TypeOK
  <2>2. k[1] = t /\ rows[k] = Null /\ occurrence_free(k)
    BY <2>1 DEF OccurrenceInv, OpenInv
  <2>3. /\ \A j \in JobKey \ {k} : rows'[j] = rows[j]
        /\ opened'[t] = Null /\ \A u \in Tenant \ {t} : opened'[u] = opened[u]
    BY <2>1 DEF TypeOK
  <2> HIDE DEF k
  <2>4. ASSUME NEW u \in Tenant \ {t}, opened[u] # Null
        PROVE  /\ opened[u].key[1] = u /\ rows'[opened[u].key] = Null
               /\ Occurrence[opened[u].key] # Null =>
                    \A j \in JobKey : rows'[j] # Null => Occurrence[j] # Occurrence[opened[u].key]
    <3> DEFINE l == opened[u].key
    <3>1. /\ l \in JobKey /\ l[1] = u /\ rows[l] = Null /\ occurrence_free(l)
      BY <2>4 DEF OccurrenceInv, OpenInv, TypeOK
    <3> HIDE DEF l
    <3>2. l # k /\ (Occurrence[l] # Null => Occurrence[l] # Occurrence[k])
      BY <2>1, <2>2, <3>1, ListingAssumption
    <3> QED
      BY <2>3, <3>1, <3>2 DEF occurrence_free, l
  <2>5. OpenInv'
    BY <2>3, <2>4 DEF OpenInv, occurrence_free
  <2>6. OneJobPerOccurrence'
    BY <2>1, <2>2, <2>3 DEF OccurrenceInv, OneJobPerOccurrence, occurrence_free
  <2> QED
    BY <2>5, <2>6 DEF OccurrenceInv
<1>6. ASSUME NEW k \in JobKey, NEW goals \in SUBSET Goal, submit(k, goals) PROVE OccurrenceInv'
  <2> DEFINE sub == [key |-> k, row |-> [created_at |-> now, status |-> "READY",
                                         hidden |-> FALSE, goals |-> goals]]
  <2>1. /\ rows[k] = Null /\ occurrence_free(k) /\ rows' = rows
        /\ opened' = [opened EXCEPT ![k[1]] = sub]
    BY <1>6 DEF submit
  <2>2. sub.key = k
    OBVIOUS
  <2> HIDE DEF sub
  <2>3. k[1] \in Tenant /\ opened'[k[1]] = sub
        /\ \A u \in Tenant \ {k[1]} : opened'[u] = opened[u]
    BY <2>1 DEF TypeOK, Tenant
  <2>4. OpenInv'
    BY <2>1, <2>2, <2>3 DEF OccurrenceInv, OpenInv, occurrence_free
  <2>5. OneJobPerOccurrence'
    BY <2>1 DEF OccurrenceInv, OneJobPerOccurrence
  <2> QED
    BY <2>4, <2>5 DEF OccurrenceInv
<1> QED
  BY <1>1, <1>2, <1>3, <1>4, <1>5, <1>6, StepKinds

(* The invariant of open submissions holds in every reachable state.        *)
LEMMA Occurrences == Spec => []OccurrenceInv
<1>1. Init => OccurrenceInv
  BY DEF Init, OccurrenceInv, OpenInv, OneJobPerOccurrence
<1>2. TypeInv /\ OccurrenceInv /\ [Next]_vars => OccurrenceInv'
  BY OccurrenceStep DEF TypeInv
<1> QED
  BY <1>1, <1>2, TypeInvariance, PTL DEF Spec

(* A schedule's occurrence becomes one job, however often it is fired.      *)
THEOREM OccurrencesBecomeOneJob == Spec => []OneJobPerOccurrence
  BY Occurrences, PTL DEF OccurrenceInv

-----------------------------------------------------------------------------
(* The listing *)

(* Two lists have the same members if they are sorted to the same list.     *)
LEMMA SameSorted ==
  ASSUME NEW a, NEW b, sorted(a) = sorted(b)
  PROVE  listed_in(a) = listed_in(b)
<1>1. DOMAIN sorted(a) = listed_in(a) /\ DOMAIN sorted(b) = listed_in(b)
  BY DEF sorted
<1> QED
  BY <1>1

(* A list is empty if it has no members.                                    *)
LEMMA EmptyList ==
  ASSUME NEW S, NEW list \in Seq(S)
  PROVE  list = <<>> <=> listed_in(list) = {}
<1>1. list = <<>> => listed_in(list) = {}
  BY DEF listed_in
<1>2. ASSUME list # <<>> PROVE listed_in(list) # {}
  <2>1. 1 \in DOMAIN list
    BY <1>2
  <2>2. list[1] \in listed_in(list)
    BY <2>1 DEF listed_in
  <2> QED
    BY <2>2
<1> QED
  BY <1>1, <1>2

(* Options with the same fingerprint let the same rows through: a token is  *)
(* not accepted for another filter.                                         *)
LEMMA SameFilter ==
  ASSUME NEW a \in Options, NEW b \in Options, fingerprint(a) = fingerprint(b),
         NEW kind, NEW k, NEW row
  PROVE  matches(kind, k, row, a) <=> matches(kind, k, row, b)
<1>1. /\ sorted(a.tenants) = sorted(b.tenants) /\ sorted(a.statuses) = sorted(b.statuses)
      /\ sorted(a.stores) = sorted(b.stores) /\ a.facts = b.facts
      /\ a.after = b.after /\ a.before = b.before /\ a.include_hidden = b.include_hidden
      /\ listed_in(a.goals) = listed_in(b.goals)
  BY Zenon DEF fingerprint
<1>2. /\ listed_in(a.tenants) = listed_in(b.tenants)
      /\ listed_in(a.statuses) = listed_in(b.statuses)
      /\ listed_in(a.stores) = listed_in(b.stores)
  BY <1>1, SameSorted
<1>3. /\ a.statuses \in Seq(Status) /\ b.statuses \in Seq(Status)
      /\ a.stores \in Seq(Store) /\ b.stores \in Seq(Store)
      /\ a.goals \in Seq(Goal) /\ b.goals \in Seq(Goal)
  BY DEF Options
<1>4. /\ a.statuses = <<>> <=> b.statuses = <<>>
      /\ a.stores = <<>> <=> b.stores = <<>>
      /\ a.goals = <<>> <=> b.goals = <<>>
  BY <1>1, <1>2, <1>3, EmptyList
<1>5. \A t : in_bounds(kind, t, a) <=> in_bounds(kind, t, b)
  BY <1>1 DEF in_bounds
<1> QED
  BY <1>1, <1>2, <1>4, <1>5 DEF matches

(* While a listing runs, what it has returned lies at or above its cursor,  *)
(* and what has matched its filter all along was returned or lies below it. *)
ListInv ==
  /\ \A k \in JobKey : listing.returned[k] \in {0, 1}
  /\ listing.phase = "idle" => \A k \in listing.lasting : listing.returned[k] = 1
  /\ listing.phase = "paging" =>
       /\ listing.opts \in Options
       /\ \A k \in listing.lasting : matches(listing.kind, k, rows[k], listing.opts)
       /\ listing.key = Null => \A k \in JobKey : listing.returned[k] = 0
       /\ listing.key # Null =>
            \A k \in JobKey : listing.returned[k] = 1 =>
              Shown(listing.kind, k) /\ ~below(listing.kind, k, listing.at, listing.key)
       /\ \A k \in listing.lasting :
            listing.returned[k] = 1 \/ below_cursor(listing.kind, k)

(* Jobs that are created or change meanwhile: no row moves in the order.    *)
LEMMA RowsChange ==
  ASSUME TypeOK, ListInv, update_listing,
         \A k \in JobKey : rows[k] # Null =>
           rows'[k] # Null /\ rows'[k].created_at = rows[k].created_at
  PROVE  ListInv'
<1>1. /\ listing'.kind = listing.kind /\ listing'.phase = listing.phase
      /\ listing'.opts = listing.opts /\ listing'.at = listing.at
      /\ listing'.key = listing.key /\ listing'.returned = listing.returned
      /\ listing'.lasting =
           IF listing.phase = "idle" THEN listing.lasting
           ELSE {k \in listing.lasting : matches(listing.kind, k, rows'[k], listing.opts)}
  BY UpdatedListing
<1>2. /\ listing.lasting \in SUBSET JobKey /\ listing.phase \in {"idle", "paging"}
      /\ listing.kind \in Kind
  BY DEF TypeOK, Listing
<1>3. CASE listing.phase = "idle"
  BY <1>1, <1>3 DEF ListInv
<1>4. CASE listing.phase = "paging"
  <2>1. \A k \in JobKey : Shown(listing.kind, k) =>
          /\ rows'[k] # Null /\ (listing.kind = "runs" => ScheduledAt[k] # Null)
          /\ row_time(listing.kind, k, rows'[k]) = row_time(listing.kind, k, rows[k])
    BY DEF Shown, row_time
  <2>2. \A k \in listing.lasting : k \in JobKey /\ Shown(listing.kind, k)
    BY <1>2, <1>4 DEF ListInv, matches, Shown
  <2>3. \A k \in JobKey : Shown(listing.kind, k) =>
          /\ Shown(listing.kind, k)'
          /\ below(listing.kind, k, listing.at, listing.key)' <=>
               below(listing.kind, k, listing.at, listing.key)
    BY <1>1, <2>1 DEF Shown, below, time_of
  <2>4. \A k \in listing'.lasting :
          k \in listing.lasting /\ matches(listing.kind, k, rows'[k], listing.opts)
    BY <1>1, <1>4
  <2>5. \A k \in listing.lasting : below_cursor(listing.kind, k) => below_cursor(listing.kind, k)'
    BY <1>1, <2>2, <2>3 DEF below_cursor
  <2> QED
    BY <1>1, <1>4, <2>3, <2>4, <2>5 DEF ListInv
<1> QED
  BY <1>2, <1>3, <1>4

(* One page more: what it adds lies between the new cursor and the old one. *)
LEMMA PageStep ==
  ASSUME TypeOK, FiniteRows, ListInv, NEW kind \in Kind, NEW opts \in Options, Paged(kind, opts)
  PROVE  ListInv'
<1> DEFINE S == eligible(kind, opts)
           P == page(kind, opts)
           last == last_of_page(kind, opts)
           count(k) == IF k \in P THEN listing.returned[k] + 1 ELSE listing.returned[k]
<1>1. /\ listing.phase = "paging" /\ listing.kind = kind
      /\ fingerprint(opts) = fingerprint(listing.opts)
      /\ listing'.kind = kind /\ listing'.opts = listing.opts
      /\ listing'.lasting = listing.lasting
      /\ listing'.returned = [k \in JobKey |-> count(k)]
      /\ listing'.at = IF S # P THEN time_of(kind, last) ELSE 0
      /\ listing'.key = IF S # P THEN last ELSE Null
      /\ listing'.phase = IF S # P THEN "paging" ELSE "idle"
      /\ rows' = rows
  BY DEF Paged
<1>2. S \subseteq JobKey /\ P \subseteq S /\ \A k \in S : Shown(kind, k)
  BY EligibleRows
<1>3. listing.opts \in Options /\ listing.lasting \in SUBSET JobKey
  BY <1>1 DEF ListInv, TypeOK, Listing
<1>4. \A k \in JobKey : k \in S <=> /\ matches(kind, k, rows[k], listing.opts)
                                    /\ below_cursor(kind, k)
  BY <1>1, <1>3, SameFilter DEF eligible
<1>5. \A k \in P : listing.returned[k] = 0
  <2> SUFFICES ASSUME NEW k \in P, listing.returned[k] # 0 PROVE FALSE
    OBVIOUS
  <2>1. listing.returned[k] = 1 /\ below_cursor(kind, k)
    BY <1>2, <1>4 DEF ListInv
  <2> QED
    BY <1>1, <1>2, <2>1 DEF ListInv, below_cursor
<1>6. \A k \in listing.lasting : listing.returned[k] = 1 \/ k \in S
  BY <1>1, <1>3, <1>4 DEF ListInv
<1>7. S # P => /\ last \in P
               /\ \A j \in P \ {last} : below(kind, last, time_of(kind, j), j)
               /\ \A k \in S \ P : below(kind, k, time_of(kind, last), last)
  BY PageFacts
<1> HIDE DEF S, P, last
<1>8. \A k \in JobKey : /\ listing'.returned[k] \in {0, 1}
                        /\ listing'.returned[k] = 1 <=> k \in P \/ listing.returned[k] = 1
  BY <1>1, <1>5 DEF ListInv
<1>9. CASE S = P
  <2>1. listing'.phase = "idle"
    BY <1>1, <1>9
  <2> QED
    BY <1>1, <1>3, <1>6, <1>8, <1>9, <2>1 DEF ListInv
<1>10. CASE S # P
  <2>1. /\ listing'.phase = "paging" /\ listing'.key = last
        /\ listing'.at = time_of(kind, last)
        /\ last \in JobKey /\ last \in S /\ Shown(kind, last) /\ last # Null
    BY <1>1, <1>2, <1>7, <1>10, NullAssumption
  <2>2. time_of(kind, last) \in Nat /\ last[1] \in Nat /\ last[2] \in Nat
    BY <2>1, PlaceType, ListingAssumption
  <2>3. ASSUME NEW k \in JobKey, listing'.returned[k] = 1
        PROVE  Shown(kind, k) /\ ~below(kind, k, time_of(kind, last), last)
    <3>1. CASE k \in P
      <4>1. Shown(kind, k) /\ (k # last => below(kind, last, time_of(kind, k), k))
        BY <1>2, <1>7, <1>10, <3>1
      <4>2. time_of(kind, k) \in Nat /\ k[1] \in Nat /\ k[2] \in Nat
        BY <4>1, PlaceType, ListingAssumption
      <4> QED
        BY <2>2, <4>1, <4>2 DEF below, key_less
    <3>2. CASE k \notin P
      <4>1. listing.returned[k] = 1 /\ listing.key # Null
        BY <1>1, <1>8, <2>3, <3>2 DEF ListInv
      <4>2. Shown(kind, k) /\ ~below(kind, k, listing.at, listing.key)
        BY <1>1, <4>1 DEF ListInv
      <4>3. below(kind, last, listing.at, listing.key)
        BY <1>4, <2>1, <4>1 DEF below_cursor
      <4>4. listing.at \in Nat /\ listing.key \in JobKey
        BY <4>1, ListingAssumption DEF TypeOK, Listing
      <4>5. ~below(kind, k, time_of(kind, last), last)
        BY <2>1, <4>2, <4>3, <4>4, BelowTransitive
      <4> QED
        BY <4>2, <4>5
    <3> QED
      BY <3>1, <3>2
  <2>4. ASSUME NEW k \in listing.lasting
        PROVE  listing'.returned[k] = 1 \/ below(kind, k, time_of(kind, last), last)
    BY <1>3, <1>6, <1>7, <1>8, <1>10
  <2>5. /\ \A k : Shown(kind, k)' <=> Shown(kind, k)
        /\ \A k : below(listing.kind, k, listing.at, listing.key)' <=>
                    below(kind, k, time_of(kind, last), last)
    BY <1>1, <2>1 DEF Shown, below, time_of
  <2>6. \A k \in listing.lasting : matches(kind, k, rows'[k], listing.opts)
    BY <1>1 DEF ListInv
  <2> QED
    BY <1>1, <1>3, <1>8, <2>1, <2>3, <2>4, <2>5, <2>6 DEF ListInv, below_cursor
<1> QED
  BY <1>9, <1>10

(* ListingExact for every number of jobs, every filter and page size.       *)
THEOREM ListingIsExact == Spec => []ListingExact
<1>1. Init => ListInv
  BY DEF Init, ListInv, NoneReturned
<1>2. TypeInv /\ OccurrenceInv /\ ListInv /\ [Next]_vars => ListInv'
  <2> SUFFICES ASSUME TypeOK, FiniteRows, OccurrenceInv, ListInv, [Next]_vars PROVE ListInv'
    BY DEF TypeInv
  <2>1. CASE UNCHANGED <<rows, listing>>
    BY <2>1 DEF ListInv, Shown, below_cursor, below, time_of
  <2>2. ASSUME NEW kind \in Kind, NEW opts \in Options, begin_listing(kind, opts)
        PROVE  ListInv'
    <3>1. /\ listing'.kind = kind /\ listing'.opts = opts
          /\ listing'.phase = "paging" /\ listing'.key = Null
          /\ listing'.returned = [k \in JobKey |-> 0]
          /\ listing'.lasting = {k \in JobKey : matches(kind, k, rows[k], opts)}
          /\ rows' = rows
      BY <2>2, BegunListing
    <3> QED
      BY <3>1 DEF ListInv, below_cursor
  <2>3. ASSUME NEW kind \in Kind, NEW opts \in Options, Paged(kind, opts)
        PROVE  ListInv'
    BY <2>3, PageStep
  <2>4. ASSUME NEW t \in Tenant, commit(t) PROVE ListInv'
    <3>1. /\ opened[t] # Null /\ update_listing
          /\ rows' = [rows EXCEPT ![opened[t].key] = opened[t].row]
      BY <2>4 DEF commit
    <3>2. rows[opened[t].key] = Null
      BY <3>1 DEF OccurrenceInv, OpenInv
    <3>3. \A k \in JobKey : rows[k] # Null => rows'[k] = rows[k]
      BY <3>1, <3>2 DEF TypeOK
    <3> QED
      BY <3>1, <3>3, RowsChange
  <2>5. ASSUME NEW k \in JobKey, NEW row \in JobView, Rewrites(k, row) PROVE ListInv'
    <3>1. /\ rows' = [rows EXCEPT ![k] = row] /\ row.created_at = rows[k].created_at
          /\ update_listing
      BY <2>5 DEF Rewrites
    <3>2. \A j \in JobKey : rows[j] # Null =>
            rows'[j] # Null /\ rows'[j].created_at = rows[j].created_at
      BY <3>1, NullAssumption DEF TypeOK
    <3> QED
      BY <3>1, <3>2, RowsChange
  <2> QED
    BY <2>1, <2>2, <2>3, <2>4, <2>5, StepKinds DEF Tick, vars, rollback, submit
<1>3. TypeOK /\ ListInv => ListingExact
  BY DEF TypeOK, Listing, ListInv, ListingExact
<1> QED
  BY <1>1, <1>2, <1>3, TypeInvariance, Occurrences, PTL DEF Spec, TypeInv

=============================================================================
