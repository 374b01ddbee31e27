----------------------------- MODULE MCListings -----------------------------
(***************************************************************************)
(* A tenant with the runs of a schedule and another one with a job of no   *)
(* schedule, listed with pages of one and of two while they are created in *)
(* the same instant, run, deleted and joined to a goal.                    *)
(***************************************************************************)
EXTENDS Listings, TLC

CONSTANTS g1

MCJobKey == {<<1, 1>>, <<1, 2>>, <<1, 3>>, <<2, 1>>}

Listed(statuses, goals, hidden, size) ==
  [tenants |-> <<1, 2>>, statuses |-> statuses, stores |-> <<>>, goals |-> goals,
   facts |-> JobKey, include_hidden |-> hidden, after |-> Null, before |-> Null,
   page_size |-> size]

(* The same filter in another order and with another page size, and one     *)
(* that differs in one part only.                                           *)
MCJobOptions ==
  { Listed(<<"READY", "CANCELLED">>, <<g1>>, FALSE, 1),
    Listed(<<"CANCELLED", "READY">>, <<g1, g1>>, FALSE, 2),
    Listed(<<"READY", "CANCELLED">>, <<g1>>, TRUE, 1) }

MCStatusChanges == {<<"READY", "COMPLETED">>}

Runs(after, before) ==
  [Listed(<<>>, <<>>, FALSE, 1) EXCEPT !.tenants = <<1>>, !.after = after, !.before = before]

MCRunOptions == {[Runs(Null, Null) EXCEPT !.stores = <<"ACTIVE">>], Runs(1, 1)}

(* Job 3 is the second try to fire the occurrence of job 2, and job 1 was   *)
(* fired by hand for the same time.                                         *)
MCScheduledAt == [k \in JobKey |-> IF k[1] = 1 THEN 1 ELSE Null]
MCOccurrence ==
  (<<1, 1>> :> "manual") @@ (<<1, 2>> :> "run1") @@ (<<1, 3>> :> "run1") @@ (<<2, 1>> :> Null)
=============================================================================
