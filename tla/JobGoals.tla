------------------------------ MODULE JobGoals ------------------------------
(***************************************************************************)
(* What the scheduler promises to those who know nothing of polls, locks,  *)
(* waits, clocks and tables: a job lives once and ends once, is held by at *)
(* most one lease at a time, and in the very step in which a member of an  *)
(* open goal succeeds, the goal has succeeded by it.                       *)
(***************************************************************************)
EXTENDS Naturals

CONSTANTS
  Job,      \* job ids
  Goal,     \* goal ids
  Outcome,  \* how a job can end
  Null

VARIABLES
  life,    \* of each job: "unknown", "live", or its outcome
  holder,  \* of each job: the lease that holds it, 0 for none
  issued,  \* the number of leases given so far
  goal,    \* of each goal: its state and the job it succeeded by, or Null
  member   \* the jobs of each goal, as pairs <<goal, job>>

vars == <<life, holder, issued, goal, member>>

Open == [state |-> "OPEN", by |-> Null]
Failed == [state |-> "FAILED", by |-> Null]
SucceededBy(j) == [state |-> "SUCCEEDED", by |-> j]

Init ==
  /\ life = [j \in Job |-> "unknown"]
  /\ holder = [j \in Job |-> 0]
  /\ issued = 0
  /\ goal = [g \in Goal |-> Null]
  /\ member = {}

(* A new job, for a new goal or as another attempt at an open one.          *)
Submit(j, g) ==
  /\ life[j] = "unknown"
  /\ goal[g] \in {Null, Open}
  /\ life' = [life EXCEPT ![j] = "live"]
  /\ goal' = [goal EXCEPT ![g] = Open]
  /\ member' = member \cup {<<g, j>>}
  /\ UNCHANGED <<holder, issued>>

(* A lease is new, and given while there is no other; one that comes too    *)
(* late holds nothing.                                                      *)
Lease(j) ==
  /\ life[j] = "live" /\ holder[j] = 0
  /\ issued' = issued + 1
  /\ \/ holder' = [holder EXCEPT ![j] = issued']
     \/ holder' = holder
  /\ UNCHANGED <<life, goal, member>>

(* Leases run out, or are given back.                                       *)
Release(S) ==
  /\ holder' = [j \in Job |-> IF j \in S THEN 0 ELSE holder[j]]
  /\ UNCHANGED <<life, issued, goal, member>>

(* A job ends, and with it the open goals it succeeds for.                  *)
End(j, outcome) ==
  /\ life[j] = "live"
  /\ life' = [life EXCEPT ![j] = outcome]
  /\ holder' = [holder EXCEPT ![j] = 0]
  /\ goal' = [g \in Goal |->
                IF outcome = "success" /\ <<g, j>> \in member /\ goal[g] = Open
                THEN SucceededBy(j) ELSE goal[g]]
  /\ UNCHANGED <<issued, member>>

(* A candidate; one that has succeeded already decides the goal.            *)
Join(g, j) ==
  /\ goal[g] = Open /\ life[j] # "unknown" /\ <<g, j>> \notin member
  /\ member' = member \cup {<<g, j>>}
  /\ goal' = IF life[j] = "success" THEN [goal EXCEPT ![g] = SucceededBy(j)] ELSE goal
  /\ UNCHANGED <<life, holder, issued>>

Fail(g) ==
  /\ goal[g] = Open
  /\ goal' = [goal EXCEPT ![g] = Failed]
  /\ UNCHANGED <<life, holder, issued, member>>

Next ==
  \/ \E j \in Job, g \in Goal : Submit(j, g) \/ Join(g, j)
  \/ \E j \in Job : Lease(j) \/ \E outcome \in Outcome : End(j, outcome)
  \/ \E S \in SUBSET Job : Release(S)
  \/ \E g \in Goal : Fail(g)

Spec == Init /\ [][Next]_vars
=============================================================================
